------------------------------ MODULE PlaceOnce ------------------------------
(***************************************************************************)
(* What request() promises the caller that places an order with it: each   *)
(* request is carried out at most once, the caller is told once how it     *)
(* went, success only after the fact, a refusal only when nothing was done *)
(* and nothing will be.  An exception that says neither may mean either.   *)
(***************************************************************************)
EXTENDS Naturals

CONSTANT Requests

VARIABLES
    executed,    \* how often the server carried out each request
    told         \* what the caller of each request was told

Verdicts == {"success", "refused", "unknown"}

Init == /\ executed = [r \in Requests |-> 0]
        /\ told = [r \in Requests |-> "nothing"]

\* The server carries the request out while its caller waits.
Execute(r) ==
    /\ executed[r] = 0 /\ told[r] = "nothing"
    /\ executed' = [executed EXCEPT ![r] = 1]
    /\ UNCHANGED told

Tell(r, verdict) ==
    /\ told[r] = "nothing"
    /\ verdict = "success" => executed[r] = 1
    /\ verdict = "refused" => executed[r] = 0
    /\ told' = [told EXCEPT ![r] = verdict]
    /\ UNCHANGED executed

Next == \E r \in Requests : Execute(r) \/ \E verdict \in Verdicts : Tell(r, verdict)

Spec == Init /\ [][Next]_<<executed, told>>
=============================================================================
