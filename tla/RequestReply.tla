----------------------------- MODULE RequestReply -----------------------------
(***************************************************************************)
(* What POST over the stream promises its callers: a request is asked at   *)
(* most once, it ends at most once, and it ends answered only with the     *)
(* answer the server gave to that very request.                            *)
(***************************************************************************)
CONSTANT Requests

VARIABLES
    outcome,    \* outcome[r]: "new", "open", "answered" or "failed"
    served      \* requests the server has processed

Init == outcome = [r \in Requests |-> "new"] /\ served = {}

Ask(r) ==
    /\ outcome[r] = "new"
    /\ outcome' = [outcome EXCEPT ![r] = "open"]
    /\ UNCHANGED served

Serve(r) ==
    /\ outcome[r] # "new"
    /\ served' = served \cup {r}
    /\ UNCHANGED outcome

Answer(r) ==
    /\ outcome[r] = "open" /\ r \in served
    /\ outcome' = [outcome EXCEPT ![r] = "answered"]
    /\ UNCHANGED served

Fail(r) ==
    /\ outcome[r] = "open"
    /\ outcome' = [outcome EXCEPT ![r] = "failed"]
    /\ UNCHANGED served

Next == \E r \in Requests : Ask(r) \/ Serve(r) \/ Answer(r) \/ Fail(r)

Spec == Init /\ [][Next]_<<outcome, served>>
===============================================================================
