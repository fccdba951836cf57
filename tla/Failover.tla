------------------------------ MODULE Failover ------------------------------
(***************************************************************************)
(* What a request may expect of the failover, whatever the breakers,       *)
(* locks, strategies, providers and clients do: no candidate is called     *)
(* twice, one is called at a time, the answer that is relayed is from the  *)
(* one being called, and the failover gives up only when everybody left on *)
(* the list has been called or passed over, with a cause to report.        *)
(* Dispatch implements it; RouteFallback takes it for granted.             *)
(***************************************************************************)
CONSTANTS
    Requests,
    Cands,
    Nobody

VARIABLE
    job     \* what each request has asked for and how far it has come

\* stage:  choosing   who may be called is being settled
\*         trying     between two calls
\*         calling    waiting for `with'
\*         served     relaying what `with' has answered
\* may:    who may still be called;  cause: something has failed
Job(stage, may, with, cause) ==
    [stage |-> stage, may |-> may, with |-> with, cause |-> cause]

Idle == Job("idle", {}, Nobody, FALSE)

Init == job = [q \in Requests |-> Idle]

Moves(q, j) == job' = [job EXCEPT ![q] = j]

Start(q) == \E list \in SUBSET Cands : Moves(q, Job("choosing", list, Nobody, FALSE))

\* The list only ever gets shorter; with somebody on it the calls may begin.
Narrow(q) ==
    \E list \in SUBSET job[q].may :
        \/ Moves(q, Job("choosing", list, Nobody, FALSE))
        \/ list # {} /\ Moves(q, Job("trying", list, Nobody, FALSE))

\* Nobody may be called, or nobody needs to be.
Decline(q) == Moves(q, Idle)

PassOver(q) ==
    \E c \in job[q].may : Moves(q, Job("trying", job[q].may \ {c}, Nobody, TRUE))

Call(q) ==
    \E c \in job[q].may : Moves(q, Job("calling", job[q].may \ {c}, c, job[q].cause))

GiveUp(q) ==
    /\ job[q].may = {} /\ job[q].cause
    /\ Moves(q, Idle)

Fails(q) == Moves(q, Job("trying", job[q].may, Nobody, TRUE))

Answers(q) == Moves(q, Job("served", {}, job[q].with, FALSE))

End(q) == Moves(q, Idle)

\* What may happen to a request, by how far it has come.
Next ==
    \E q \in Requests :
        LET stage == job[q].stage
        IN  CASE stage = "idle"     -> Start(q)
              [] stage = "choosing" -> Narrow(q) \/ Decline(q)
              [] stage = "trying"   -> PassOver(q) \/ Call(q) \/ GiveUp(q)
              [] stage = "calling"  -> Fails(q) \/ Answers(q)
              [] stage = "served"   -> End(q)

Spec == Init /\ [][Next]_job
=============================================================================
