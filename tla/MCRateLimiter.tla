---------------------------- MODULE MCRateLimiter ----------------------------
(***************************************************************************)
(* Small instances of RateLimiter for TLC.  Each task makes Acquires       *)
(* calls, so the system may stop when all have come back, and nowhere      *)
(* else.                                                                   *)
(***************************************************************************)
EXTENDS RateLimiter

Ended == /\ \A t \in Tasks : pc[t] = "idle" /\ left[t] = 0
         /\ UNCHANGED vars

MCFairSpec == Init /\ [][Next \/ Ended]_vars /\ Fairness
=============================================================================
