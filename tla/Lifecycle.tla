----------------------------- MODULE Lifecycle ------------------------------
(***************************************************************************)
(* One process of any of the four services from its start to its exit:     *)
(* main() brings the dependencies up one after the other, the outbox       *)
(* poller runs batches from then on, and a signal starts the shutdown,     *)
(* which runs beside whatever main() is still doing.                       *)
(*                                                                         *)
(* Kafka is configured.  What a batch does is in Outbox, what a consumer   *)
(* does in Accounts and Notification.                                      *)
(***************************************************************************)
EXTENDS Naturals, Sequences

VARIABLES lifeService,  \* which service the process is of
          lifeStep,     \* the step of main() that is under way
          lifeUp,       \* main() was done when the signal came
          shutdown,     \* "no", "listener" or "channels"
          closing,      \* channels whose close is awaited
          timer,        \* the poller's interval timer is set
          batch,        \* a batch is in flight (pendingBatch)
          exit          \* "no", or how the process ended

lifeVars == <<lifeService, lifeStep, lifeUp, shutdown, closing, timer, batch, exit>>

AuthStartup == <<"prisma", "redis", "bus", "poller", "consumer", "superAdmin", "listen">>
UserStartup == <<"prisma", "redis", "bus", "poller", "consumer", "listen">>
NotificationStartup == <<"prisma", "redis", "consumer", "listen">>
GatewayStartup == <<"redis", "listen">>

AuthChannels == {"poller", "redis", "bus", "prisma"}
UserChannels == {"poller", "redis", "bus", "prisma"}
NotificationChannels == {"redis", "bus", "prisma"}
GatewayChannels == {"redis"}

Startup == [auth |-> AuthStartup, user |-> UserStartup,
            notification |-> NotificationStartup, gateway |-> GatewayStartup]

Channels == [auth |-> AuthChannels, user |-> UserChannels,
             notification |-> NotificationChannels, gateway |-> GatewayChannels]

Steps == Startup[lifeService]
IsUp  == lifeStep > Len(Steps)
At(s) == exit = "no" /\ ~IsUp /\ Steps[lifeStep] = s

LifeTypeOK ==
    /\ lifeService \in DOMAIN Startup
    /\ lifeStep \in 1..Len(Steps) + 1
    /\ lifeUp \in BOOLEAN
    /\ shutdown \in {"no", "listener", "channels"}
    /\ closing \subseteq Channels[lifeService]
    /\ timer \in BOOLEAN /\ batch \in BOOLEAN
    /\ exit \in {"no", "0", "1"}

LifeInit ==
    /\ lifeStep = 1
    /\ lifeUp = FALSE
    /\ shutdown = "no" /\ closing = {}
    /\ timer = FALSE /\ batch = FALSE
    /\ exit = "no"
-----------------------------------------------------------------------------
(* main().                                                                 *)

\* $connect, ping, connect, subscribe, hasSuperAdmin, listen: one await each.
StepDone ==
    /\ exit = "no" /\ ~IsUp /\ Steps[lifeStep] # "poller"
    /\ lifeStep' = lifeStep + 1
    /\ UNCHANGED <<lifeService, lifeUp, shutdown, closing, timer, batch, exit>>

\* start() runs a batch and awaits it.
PollerStarts ==
    /\ At("poller") /\ ~batch
    /\ batch' = TRUE
    /\ UNCHANGED <<lifeService, lifeStep, lifeUp, shutdown, closing, timer, exit>>

\* Any step that throws ends the process; so does a bootstrap of the
\* SUPER_ADMIN that fails when auth-service is up.
StartFails ==
    /\ exit = "no"
    /\ ~IsUp \/ lifeService = "auth"
    /\ exit' = "1"
    /\ UNCHANGED <<lifeService, lifeStep, lifeUp, shutdown, closing, timer, batch>>
-----------------------------------------------------------------------------
(* The poller.                                                             *)

\* triggerBatch, from the timer.
BatchBegins ==
    /\ exit = "no" /\ timer /\ ~batch
    /\ batch' = TRUE
    /\ UNCHANGED <<lifeService, lifeStep, lifeUp, shutdown, closing, timer, exit>>

\* Who awaits the batch goes on: start() sets the timer, stop() is done.
BatchEnds ==
    /\ exit = "no" /\ batch
    /\ batch' = FALSE
    /\ closing' = closing \ {"poller"}
    /\ \/ /\ At("poller")
          /\ timer' = TRUE
          /\ lifeStep' = lifeStep + 1
       \/ /\ ~At("poller")
          /\ UNCHANGED <<timer, lifeStep>>
    /\ UNCHANGED <<lifeService, lifeUp, shutdown, exit>>
-----------------------------------------------------------------------------
(* shutdown().                                                             *)

Signal ==
    /\ exit = "no" /\ shutdown = "no"
    /\ shutdown' = "listener"
    /\ lifeUp' = IsUp
    /\ UNCHANGED <<lifeService, lifeStep, closing, timer, batch, exit>>

\* Mutant: stop() clears the timer and returns.
StopsAtOnce == {"poller"}

\* stop() awaits the batch that is in flight now, and is done without one.
ClosedAtOnce == IF batch THEN {} ELSE {"poller"}

\* The listener is closed, if there is one, and every channel asked to close.
CloseChannels ==
    /\ exit = "no" /\ shutdown = "listener"
    /\ shutdown' = "channels"
    /\ closing' = Channels[lifeService] \ ClosedAtOnce
    /\ timer' = (timer /\ "poller" \notin Channels[lifeService])
    /\ UNCHANGED <<lifeService, lifeStep, lifeUp, batch, exit>>

\* disconnectRedis, disconnect of the bus, disconnectPrisma: an error is logged.
ChannelCloses(ch) ==
    /\ exit = "no"
    /\ ch \in closing \ {"poller"}
    /\ closing' = closing \ {ch}
    /\ UNCHANGED <<lifeService, lifeStep, lifeUp, shutdown, timer, batch, exit>>

Exit ==
    /\ exit = "no" /\ shutdown = "channels" /\ closing = {}
    /\ exit' = "0"
    /\ UNCHANGED <<lifeService, lifeStep, lifeUp, shutdown, closing, timer, batch>>

\* Ten seconds after the signal.
Watchdog ==
    /\ exit = "no" /\ shutdown # "no"
    /\ exit' = "1"
    /\ UNCHANGED <<lifeService, lifeStep, lifeUp, shutdown, closing, timer, batch>>

LifeNext ==
    \/ StepDone \/ PollerStarts \/ StartFails
    \/ BatchBegins \/ BatchEnds
    \/ Signal \/ CloseChannels \/ Exit \/ Watchdog
    \/ \E ch \in closing : ChannelCloses(ch)
-----------------------------------------------------------------------------
\* A process that was up when the signal came and exits with 0 cuts no batch off
\* between the claim and the update of a row; when the signal comes during
\* main(), stop() may precede the timer that start() sets, and a batch may be.
ExitIsClean == exit = "0" /\ lifeUp => ~batch /\ ~timer
=============================================================================
