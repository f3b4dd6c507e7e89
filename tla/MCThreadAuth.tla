----------------------------- MODULE MCThreadAuth -----------------------------
(***************************************************************************)
(* Small instances of ThreadAuth for TLC.                                  *)
(***************************************************************************)
EXTENDS ThreadAuth

Ended == /\ \A c \in Locked \cup Unlocked : pc[c] = "done"
         /\ UNCHANGED vars

MCFairSpec == Init /\ [][Next \/ Ended]_vars /\ Fairness
=============================================================================
