------------------------------ MODULE Breakers ------------------------------
(***************************************************************************)
(* The three circuit breakers: the class that auth-service puts around its *)
(* calls to user-service and user-service around Redis, the class that     *)
(* notification-service puts around the mail provider, and the middleware  *)
(* of the API gateway.  Each keeps its state in the process, is asked when *)
(* a call begins and told when it ends, by several calls at once.          *)
(*                                                                         *)
(* The time since the last change or failure is a flag that comes up by    *)
(* itself.  A count stops at the threshold it is compared with.            *)
(***************************************************************************)
EXTENDS Clients

CONSTANTS Threshold,     \* failures that open a breaker
          HalfOpenMax    \* halfOpenMaxRetries

ASSUME BreakersAssumption ==
    Threshold \in Nat \ {0} /\ HalfOpenMax \in Nat \ {0}

VARIABLES healthy,       \* the provider and the gateway's service answer in time
          circuit,       \* CircuitBreaker of auth-service and user-service
          circuitCalls,  \* calls under way through it
          mailer,        \* CircuitBreaker of notification-service
          mailCalls,
          gate,          \* circuitBreakerMiddleware, for one service
          gateCalls

circuitVars == <<circuit, circuitCalls>>
mailVars    == <<mailer, mailCalls>>
gateVars    == <<gate, gateCalls>>
breakerVars == <<healthy, circuitVars, mailVars, gateVars>>

BreakerState == {"CLOSED", "OPEN", "HALF_OPEN"}

\* due: the reset timeout has passed; recent: failureTimestamps.
BreakersTypeOK ==
    /\ healthy \in BOOLEAN
    /\ circuit \in [state : BreakerState, due : BOOLEAN, recent : 0..Threshold,
                    attempts : 0..HalfOpenMax, successes : 0..1]
    /\ mailer \in [state : BreakerState, due : BOOLEAN, failures : 0..Threshold,
                   inFlight : BOOLEAN]
    /\ gate \in [state : BreakerState, due : BOOLEAN, failures : 0..Threshold]
    /\ \A calls \in {circuitCalls, mailCalls, gateCalls} : calls \subseteq Client

BreakersInit ==
    /\ healthy = TRUE
    /\ circuit = [state |-> "CLOSED", due |-> FALSE, recent |-> 0,
                  attempts |-> 0, successes |-> 0]
    /\ mailer = [state |-> "CLOSED", due |-> FALSE, failures |-> 0,
                 inFlight |-> FALSE]
    /\ gate = [state |-> "CLOSED", due |-> FALSE, failures |-> 0]
    /\ circuitCalls = {} /\ mailCalls = {} /\ gateCalls = {}

OneMore(n) == IF n < Threshold THEN n + 1 ELSE n

HealthChanges == /\ healthy' = ~healthy
                 /\ UNCHANGED <<circuitVars, mailVars, gateVars>>
-----------------------------------------------------------------------------
(* CircuitBreaker of auth-service and user-service.                        *)

TransitionTo(b, s) ==
    IF s = "CLOSED"
    THEN [state |-> s, due |-> FALSE, recent |-> 0, attempts |-> 0, successes |-> 0]
    ELSE [b EXCEPT !.state = s, !.due = FALSE]

CircuitDue == /\ circuit.state = "OPEN" /\ ~circuit.due
              /\ circuit' = [circuit EXCEPT !.due = TRUE]
              /\ UNCHANGED <<healthy, circuitCalls, mailVars, gateVars>>

\* pruneFailureTimestamps drops the oldest, then OPEN gives way.
Pruned == {[circuit EXCEPT !.recent = n] : n \in 0..circuit.recent}

Probing(b) == IF b.state = "OPEN" /\ b.due THEN TransitionTo(b, "HALF_OPEN") ELSE b

\* Mutant: the attempts are not reset when the last one is spent.
SpentForGood(b) == TransitionTo(b, "OPEN")

\* No probe is left: OPEN again, with the attempts renewed.
Spent(b) == [TransitionTo(b, "OPEN") EXCEPT !.attempts = 0]

Execute(c) ==
    /\ c \notin circuitCalls
    /\ \E pruned \in Pruned :
          LET b == Probing(pruned) IN
          \/ /\ b.state = "CLOSED"
             /\ circuit' = b
             /\ circuitCalls' = circuitCalls \cup {c}
          \/ /\ b.state = "OPEN"
             /\ circuit' = b
             /\ UNCHANGED circuitCalls
          \/ /\ b.state = "HALF_OPEN" /\ b.attempts < HalfOpenMax
             /\ circuit' = [b EXCEPT !.attempts = @ + 1]
             /\ circuitCalls' = circuitCalls \cup {c}
          \/ /\ b.state = "HALF_OPEN" /\ b.attempts >= HalfOpenMax
             /\ circuit' = Spent(b)
             /\ UNCHANGED circuitCalls
    /\ UNCHANGED <<healthy, mailVars, gateVars>>

\* The result counts for the state the breaker is in by now.
Succeeded(b) ==
    IF b.state # "HALF_OPEN" THEN b
    ELSE IF b.successes = 1 THEN TransitionTo(b, "CLOSED")
    ELSE [b EXCEPT !.successes = @ + 1]

Failed(b) ==
    LET n == [b EXCEPT !.recent = OneMore(@)] IN
    IF \/ b.state = "CLOSED" /\ n.recent >= Threshold
       \/ b.state = "HALF_OPEN"
    THEN TransitionTo(n, "OPEN") ELSE n

CircuitSucceeds(c) ==
    /\ c \in circuitCalls
    /\ circuitCalls' = circuitCalls \ {c}
    /\ circuit' = Succeeded(circuit)
    /\ UNCHANGED <<healthy, mailVars, gateVars>>

\* Whatever the call throws counts, the refusals of a service that is well too:
\* createUserProfile throws the same error for a 409 as for a timeout.
CircuitFails(c) ==
    /\ c \in circuitCalls
    /\ circuitCalls' = circuitCalls \ {c}
    /\ circuit' = Failed(circuit)
    /\ UNCHANGED <<healthy, mailVars, gateVars>>

CircuitCallEnds(c) == CircuitSucceeds(c) \/ CircuitFails(c)

CircuitNext == CircuitDue \/ \E c \in Client : Execute(c) \/ CircuitCallEnds(c)
-----------------------------------------------------------------------------
(* CircuitBreaker of notification-service.                                 *)

MailerDue == /\ mailer.state = "OPEN" /\ ~mailer.due
             /\ mailer' = [mailer EXCEPT !.due = TRUE]
             /\ UNCHANGED <<healthy, mailCalls, circuitVars, gateVars>>

MailAllowed(c) ==
    /\ c \notin mailCalls
    /\ mailer.state # "OPEN"
    /\ mailCalls' = mailCalls \cup {c}
    /\ UNCHANGED <<healthy, mailer, circuitVars, gateVars>>

MailTrial(c) ==
    /\ c \notin mailCalls
    /\ mailer.state = "OPEN" /\ mailer.due /\ ~mailer.inFlight
    /\ mailer' = [mailer EXCEPT !.state = "HALF_OPEN", !.inFlight = TRUE]
    /\ mailCalls' = mailCalls \cup {c}
    /\ UNCHANGED <<healthy, circuitVars, gateVars>>

OnSuccess ==
    IF mailer.state = "HALF_OPEN"
    THEN [mailer EXCEPT !.state = "CLOSED", !.failures = 0, !.inFlight = FALSE]
    ELSE mailer

OnFailure ==
    LET late == [mailer EXCEPT !.due = FALSE]
        n    == OneMore(mailer.failures)
    IN
    IF mailer.state = "HALF_OPEN"
    THEN [late EXCEPT !.state = "OPEN", !.inFlight = FALSE]
    ELSE [late EXCEPT !.failures = n,
                      !.state = IF n >= Threshold THEN "OPEN" ELSE @]

MailSucceeds(c) ==
    /\ c \in mailCalls
    /\ mailCalls' = mailCalls \ {c}
    /\ mailer' = OnSuccess
    /\ UNCHANGED <<healthy, circuitVars, gateVars>>

\* An error that shouldTrip rejects, as that of a provider that refuses the
\* recipient, tells the breaker nothing.
MailFails(c) ==
    /\ c \in mailCalls
    /\ mailCalls' = mailCalls \ {c}
    /\ \/ UNCHANGED mailer
       \/ ~healthy /\ mailer' = OnFailure
    /\ UNCHANGED <<healthy, circuitVars, gateVars>>

MailCallEnds(c) == MailSucceeds(c) \/ MailFails(c)

MailerNext == \/ MailerDue
              \/ \E c \in Client : \/ MailAllowed(c) \/ MailTrial(c)
                                   \/ MailCallEnds(c)
-----------------------------------------------------------------------------
(* circuitBreakerMiddleware of the gateway.                                *)

GateDue == /\ ~gate.due /\ gate.failures > 0
           /\ gate' = [gate EXCEPT !.due = TRUE]
           /\ UNCHANGED <<healthy, gateCalls, circuitVars, mailVars>>

\* refreshState; its two timeouts are one here.
Refreshed ==
    CASE gate.state = "OPEN" /\ gate.due ->
            [gate EXCEPT !.state = "HALF_OPEN", !.failures = 0]
      [] gate.state = "CLOSED" /\ gate.due -> [gate EXCEPT !.failures = 0]
      [] OTHER -> gate

\* isOpen; every request of HALF_OPEN is forwarded.
Forward(c) ==
    /\ c \notin gateCalls
    /\ gate' = Refreshed
    /\ gateCalls' = IF Refreshed.state = "OPEN" THEN gateCalls
                    ELSE gateCalls \cup {c}
    /\ UNCHANGED <<healthy, circuitVars, mailVars>>

RecordSuccess == IF gate.state = "HALF_OPEN"
                 THEN [gate EXCEPT !.state = "CLOSED", !.failures = 0] ELSE gate

RecordFailure ==
    LET n == OneMore(gate.failures) IN
    [gate EXCEPT !.failures = n, !.due = FALSE,
                 !.state = IF n >= Threshold \/ @ = "HALF_OPEN" THEN "OPEN" ELSE @]

\* Only answers the gateway writes itself, with res.json, are recorded: those
\* of the service are piped through.
GateCallEnds(c) ==
    /\ c \in gateCalls
    /\ gateCalls' = gateCalls \ {c}
    /\ \/ UNCHANGED gate
       \/ gate' = RecordSuccess
       \/ ~healthy /\ gate' = RecordFailure
    /\ UNCHANGED <<healthy, circuitVars, mailVars>>

GateNext == GateDue \/ \E c \in Client : Forward(c) \/ GateCallEnds(c)
-----------------------------------------------------------------------------
\* The class of auth-service and user-service: once no call through it throws any
\* more, for whatever reason, it closes and stays closed, whatever was in flight
\* when it opened; unless more calls than halfOpenMaxRetries may be under way,
\* when late ones can spend the probes again and again.
CircuitRecovers ==
    Cardinality(Client) <= HalfOpenMax =>
        ((<>[][\A c \in Client : CircuitCallEnds(c) => CircuitSucceeds(c)]_breakerVars)
             => <>[](circuit.state = "CLOSED"))

\* That of notification-service: once the provider is well for good, if mails go
\* on being accepted beside those that are refused.
MailerRecovers ==
    (<>[]healthy) /\ ([]<><<\E c \in Client : MailSucceeds(c)>>_breakerVars)
        => <>[](mailer.state = "CLOSED")

\* The gateway: once its service is well for good, requests pass.
GateRecovers == (<>[]healthy) => <>[](gate.state # "OPEN")

BreakersRecover == CircuitRecovers /\ MailerRecovers /\ GateRecovers
=============================================================================
