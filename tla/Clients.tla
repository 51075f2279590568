------------------------------ MODULE Clients -------------------------------
(* What the small services share: the requests that may be in flight.      *)
EXTENDS Naturals, FiniteSets

CONSTANT Client  \* requests, or instances of a service, that run at once

ASSUME ClientAssumption == IsFiniteSet(Client) /\ "none" \notin Client

\* The step of client c from one place of its handler to the next; at is the
\* function that holds the places.
Moves(at, c, from, to) == at[c] = from /\ at' = [at EXCEPT ![c] = to]
=============================================================================
