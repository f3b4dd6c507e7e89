-------------------------- MODULE MCConditionSession --------------------------
(***************************************************************************)
(* Small instances of ConditionSession for TLC: searches for two           *)
(* conditions, one of them searched again, and the cancellation of a       *)
(* realtime search, which is not answered.                                 *)
(***************************************************************************)
EXTENDS ConditionSession

AllCalls == {"search1", "search2", "again1", "clear"}

Trnm == [c \in AllCalls |-> IF c = "clear" THEN "CNSRCLR" ELSE "CNSRREQ"]

\* The two searches for condition 1 are alike: two pages, or two users.
Seq == [c \in AllCalls |-> IF c = "search2" THEN "2" ELSE "1"]

TwoSearches == {"search1", "search2"}
AlikeSearches == {"search1", "again1"}
NoSilent    == {}
SilentCalls == {"clear"}

Ended == /\ closed /\ \A c \in Calls : pc[c] = "done"
         /\ UNCHANGED vars

MCSpec     == Init /\ [][Next \/ Ended]_vars
MCFairSpec == MCSpec /\ Fairness
=============================================================================
