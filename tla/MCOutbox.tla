------------------------------ MODULE MCOutbox ------------------------------
(* Outbox on small instances: events and pollers are model values.         *)
EXTENDS Outbox, TLC

CONSTANTS e1, e2, e3, p1, p2

OneEvent    == {e1}
TwoEvents   == {e1, e2}
ThreeEvents == {e1, e2, e3}
OnePoller   == {p1}
TwoPollers  == {p1, p2}

NoLostReply    == FaultKind \ {"dback"}
SharedFaults   == {"publish", "dback"}
OnlyCrash      == {"crash"}
BrokerFaults   == {"publish", "ack"}

EventSymmetry  == Permutations(Event)
FullSymmetry   == Permutations(Event) \cup Permutations(Poller)
=============================================================================
