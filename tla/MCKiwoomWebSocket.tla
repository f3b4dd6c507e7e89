-------------------------- MODULE MCKiwoomWebSocket --------------------------
(***************************************************************************)
(* A small instance of KiwoomWebSocket for TLC.  The system may stop once  *)
(* disconnect() has returned and no task of the client is under way.       *)
(***************************************************************************)
EXTENDS KiwoomWebSocket

Reg(refresh, data) == [refresh |-> refresh, data |-> data]

\* Registrations that share no item and keep the existing ones.
DisjointPayloads == {Reg("1", {"0B"}), Reg("1", {"0D"})}

\* Two of them, one that names the items of both, and one that replaces the existing ones.
MixedPayloads == {Reg("1", {"0B"}), Reg("1", {"0D"}), Reg("1", {"0B", "0D"}), Reg("0", {"0B"})}

Ended == /\ closer = "done" /\ opener \in {"up", "failed"}
         /\ listener \in Stops \cup {"idle"}
         /\ UNCHANGED vars

MCSpec     == Init /\ [][Next \/ Ended]_vars
MCFairSpec == MCSpec /\ Fairness
=============================================================================
