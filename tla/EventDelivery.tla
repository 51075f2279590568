--------------------------- MODULE EventDelivery ---------------------------
(***************************************************************************)
(* What the transactional outbox promises its callers, with the pollers,   *)
(* locks and retries hidden: an event whose transaction commits is queued, *)
(* it reaches the broker between one and MaxRetries times before it is     *)
(* done, or it is parked as dead; an event whose transaction rolls back    *)
(* never reaches the broker, and a settled event is never sent again.      *)
(***************************************************************************)
EXTENDS Naturals

CONSTANTS Event,        \* identifiers of outbox events
          MaxRetries    \* delivery attempts before an event is parked

VARIABLES stage,        \* stage[e]: where event e is in its life
          copies        \* copies[e]: messages for e accepted by the broker

evVars == <<stage, copies>>

Init ==
    /\ stage = [e \in Event |-> "none"]
    /\ copies = [e \in Event |-> 0]

Move(e, from, to) ==
    /\ stage[e] = from
    /\ stage' = [stage EXCEPT ![e] = to]
    /\ UNCHANGED copies

Begin(e)    == Move(e, "none", "open")
Commit(e)   == Move(e, "open", "queued")
Rollback(e) == Move(e, "open", "rolledback")

Send(e) ==
    /\ stage[e] = "queued"
    /\ copies[e] < MaxRetries
    /\ copies' = [copies EXCEPT ![e] = @ + 1]
    /\ UNCHANGED stage

Settle(e) ==
    /\ copies[e] > 0
    /\ Move(e, "queued", "done")

Park(e) == Move(e, "queued", "dead")

Next == \E e \in Event :
    Begin(e) \/ Commit(e) \/ Rollback(e) \/ Send(e) \/ Settle(e) \/ Park(e)

Spec == Init /\ [][Next]_evVars

=============================================================================
