----------------------------- MODULE MCMcpServer -----------------------------
(***************************************************************************)
(* A small instance of McpServer for TLC: one call tries every tool and a  *)
(* name nobody has, while another call places an order, searches or reads. *)
(***************************************************************************)
EXTENDS McpServer, FiniteSets

\* Each of the tools is its TR's only one.
ASSUME TrsAreDistinct ==
    Cardinality({Classes[t.module].trs[t.method] : t \in RestTools}) = Cardinality(RestTools)

Tried == [c \in {"any", "other"} |->
    IF c = "any" THEN RestTools \cup ConditionTools \cup {Tool("order", "no_such_method")}
    ELSE {Tool("order", "buy_order"), Tool("short_selling", "short_selling_trend"),
          Tool("condition_search", "condition_search")}]

Ended == phase = "exited" /\ UNCHANGED vars

MCSpec == Init /\ [][Next \/ Ended]_vars
=============================================================================
