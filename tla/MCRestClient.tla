----------------------------- MODULE MCRestClient -----------------------------
(***************************************************************************)
(* Small instances of RestClient for TLC.  A call runs once, so the system *)
(* may stop when every call has ended, and nowhere else: TLC's deadlock    *)
(* check covers the rest.                                                  *)
(***************************************************************************)
EXTENDS RestClient

Ended == /\ \A c \in Calls : pc[c] = "done"
         /\ UNCHANGED vars

MCSpec     == Init /\ [][Next \/ Ended]_vars
MCFairSpec == MCSpec /\ Fairness
=============================================================================
