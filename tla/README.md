# A TLA+ model of Nexus Commerce

Nexus Commerce is a set of TypeScript services (auth, user, notification, an
API gateway) around PostgreSQL/CockroachDB, Redis and Kafka. Its difficult
parts are protocols between processes: a transactional outbox drained by
pollers, at-least-once consumers, refresh-token families in Redis, a replica
of the account in a second service, an account created in two services with a
compensating delete. This directory models those protocols in TLA+, checks them
with TLC and proves the main results with TLAPS.

Contents: [inventory](#inventory), [plan](#plan), [modules](#the-modules),
[runs](#the-runs), [bounds](#bounds), [fairness](#fairness),
[proofs](#the-proofs), [findings](#findings),
[other behaviours](#other-behaviours), [limits](#limits).

To repeat a check: `tlc -config OutboxShared.cfg MCOutbox.tla`; to repeat a
proof: `tlapm OutboxProofs.tla`.

## Inventory

Paths are relative to `src/`; `auth`, `user`, `notification` and `gateway`
stand for `services/<name>-service/src` (`services/api-gateway/src`), `kafka`
for `packages/kafka/src`.

| Component | State | Operations | What is hard |
|---|---|---|---|
| Outbox (`kafka/outboxWriter.ts`, `outboxPoller.ts`) | table `outboxEvent`; a poller's batch and flags | write in a transaction; find, claim, publish, complete, retry, park | several pollers, crash between claim and update, publish succeeding before an update fails, order, eventual settling |
| Sessions (`auth/modules/auth/auth.service.ts`, `repositories/refreshToken.ts`, `utils/handleLogin.ts`) | credential row, one Redis key for each token family | login, refresh (Lua rotation), logout, lockout | concurrent refreshes, reuse detection, login racing a deletion, counter and lock in two writes |
| Login surfaces and roles (`auth/modules/{customer,seller,admin}`, `auth.controller.ts`, `utils/sendSessionResponse.ts`, `middlewares/auth.ts`) | roles of the credential, cookies of a browser, tokens of the storefront | register, login, refresh and logout on a surface, the role gate | late answers that replace shared cookies, a role attached meanwhile |
| Replica sync (`auth/events/consumers/roleSyncConsumer.ts`) | credential row | `user.deleted`, `user.restored`, `seller.profile_attached` | redelivery, reordering, SCAN racing writes, lost compare-and-set |
| Notification (`notification/`) | `NotificationLog` rows, offsets | parse, claim, limit, render, send, mark, dead-letter | rebalance while a handler runs, crash after the mail, shared idempotency keys, retries nobody runs |
| Provisioning (`auth.service.ts`, `lib/axiosClients/userServiceClient.ts`, `user/modules/user/provisionAccount.ts`) | credential, user row, outbox row, two cache levels | create, call, retry, compensate; look up, insert, read back | partial failure on both sides, a timeout racing the answer, a negative cache entry that is stale |
| User records and cache (`user/modules/user/*`, `user/cache/cacheManager.ts`) | user row, cached views | delete, restore, hard delete, become seller, cached reads | invalidation before the commit, reads that fill while a write runs |
| One-time passwords (`auth/utils/otp/*`, `auth.service.ts`) | Redis counters, block and cooldown keys | request, resend, verify | read-modify-write in separate calls, keys expiring between them |
| Password reset, account restore (`auth.service.ts`) | reset rows, restore OTP | request, verify | check then act; OTP deleted before the call that may fail |
| Admin invites (`auth/modules/admin/admin.service.ts`, `repositories/adminInvite.ts`) | invite rows, credential | create, validate, expire, accept, undo | concurrent acceptances, compensation |
| Super-admin bootstrap (`auth/bootstrap/superAdmin.ts`) | credential | bootstrap with retries | several instances, compensation racing success |
| Circuit breakers (`auth`, `user` `cache/circuitBreaker.ts`; `notification/resilience`; `gateway/middlewares`) | state, counters, window | execute, probe, trip | results of calls that began in an earlier state |
| Rate limiters (`auth/middlewares`, `notification/ratelimit`) | Redis counter, sorted set | check | key expiring between two calls, times read before the script runs |
| Dead letters (`user/modules/dead-letter-event`) | dead-letter rows | record, list by cursor, redrive | duplicates, rows that arrive between two pages |
| Event bus (`kafka/eventBus.ts`, `packages/event-contracts`) | producer, consumers | publish, subscribe, disconnect | what of a row is on the wire; keys and order |
| Process lifecycle (`server.ts` of the four services, `outboxPoller.ts` start and stop) | startup step, channels being closed, timer, batch in flight | start, signal, close, exit, watchdog | a signal during start-up, stop beside start, a batch in flight at exit |

How they interact: auth-service and user-service write domain events into
their outbox in the business transaction; a poller in each publishes them to
one topic with the row id as key, so events of one user are not ordered.
auth-service consumes user-service's events into its credential replica,
notification-service mails, poison messages and exhausted rows go to a
dead-letter topic that user-service records. Registration, accepting an invite,
bootstrap and restore are synchronous signed HTTP calls from auth-service to
user-service, through a circuit breaker.

What makes each correct, in short: an event goes out if and only if its
transaction committed, and it ends COMPLETED or DEAD; a revoked or rotated
refresh token is dead, and a session ends only for a cause; a deleted account
loses the sessions it had; a notification is SENT only if it was mailed, and no
message blocks the others for good; a session exists only for an account both
services know, and acts under a role of that account; a failed registration
leaves no credential unless its compensation failed, and an accepted admin is
whole; the replica agrees with the row once it has heard the latest change; a
counter that races may be exceeded, but by a bounded number; a breaker closes
again once its calls succeed; exit 0 of a process that was up cuts no batch.
These are the claims that hold. Several that one would wish for do not, and are
under [findings](#findings) and [other behaviours](#other-behaviours).

## Plan

The modules were written in this order of importance, and all are done:
`Outbox` with `EventDelivery`; `Sessions` with `TokenFamilies`; `Notification`; `Provisioning`;
`UserRecords` and `Accounts` (replica and restore); `DeadLetters`; `Lifecycle`;
`Invites` and `Bootstrap`; `Breakers`, `Limiters`, `Registration`,
`PasswordReset`, `Surfaces`.

Proofs followed the same order: the type and safety invariants of each module,
then what one poller guarantees and that `Outbox` implements `EventDelivery`,
then the bounds of `Services`, whose proofs count the requests under way, then
that `Sessions` implements `TokenFamilies`.

## The modules

### EventDelivery, Outbox

`EventDelivery` is what a caller of the outbox may rely on: a committed event is
queued, it reaches the broker between one and `MaxRetries` times before it is
done, or it is parked; a rolled-back one never gets there.

`Outbox` is the code. A row is spread over `status`, `retryCount`, `lockedAt`
and `createdAt`; `lockedAt` is the age of the lock (none, fresh, older than
`lockTimeoutMs`). `before[e]` is a history: the events that were committed, in an
earlier tick, when row `e` was written. `tx[e]` is the business transaction around
`writeOutboxEvent`. Each poller has a program counter with one value for every
`await` of `processNextBatch`, `processEvent` and `handleFailure`, and `batch`,
the snapshot it read: `Find` takes the oldest selectable rows, `Claim` is the
`updateMany` by id, then one publish and one update for each row. `newRetryCount`
comes from the snapshot, as in the code. `isBatchProcessing` is the program
counter itself: one batch at a time in a process. `Faults` names what may go
wrong: a crash, a publish that throws (with or without the message appended), a
database call that throws (with or without effect).

### TokenFamilies, Sessions

`TokenFamilies` is what the holder of an account may rely on: a login opens a
family, one token of a family is good at a time, only that one is exchanged, and
a token that is no longer good (exchanged, revoked or expired) is not good
again. Requests, Redis keys and SCAN do not appear in it. The good tokens are
those whose hash is in Redis (`Promise` in `Sessions`).

`Sessions` is the code. One account in auth-service. `row` is the credential, `store[f]` the Redis key
of family `f`. The lifetime of a token (`JwtTTL`, from the environment) and that
of its key (`KeyTTL`, a constant of the code) are two parameters, either of which
may be the longer. A refresh token is a JWT without a `jti`, so its family and the
second it was signed identify it, and so does its hash. Requests run at once,
each with what it has read in `ctx`: `completeLogin` tests the row that
`verifyCredentials` read, the failed-login counter is an atomic increment and
the lock a second write, rotation is one Lua step. The consumer's handler of
`user.deleted` marks the row, then loops over SCAN pages and deletes them; SCAN
returns at least every key that exists from its start to its end, and may
return others. Messages may be redelivered, fail half way, and arrive in any
order.

### Notification

From a delivered Kafka message to its committed offset. `status` and
`attemptCount` are the `NotificationLog` row of an aggregate id, which is the
idempotency key the code uses. A worker's program counter follows
`handleDomainEventMessage` and `processEvent`: parse or poison, claim (create
or reclaim), limit, send with bounded retries, `markAsSent`, or the catch block
with `markAsFailed` and `routeToDlq`, then commit. `caught` tells that the
catch block runs, since an error thrown there leaves `processEvent` and the
offset uncommitted. A rebalance gives a message to a second worker while the
first goes on; so do two events of one account, which have keys of their own in
the topic and one row in the table. `calm` is the moment from which nobody dies,
no partition moves and the database answers; the provider, the limiter and the
dead-letter topic may go on failing after it.

### Provisioning

One email address, any number of registrations, each named by the id of its
credential. `cred` and `user` are the rows of the two databases (unique email),
`events` the `user.registered` rows, `l1` and `l2` the two levels of
user-service's cache for the profile key of an id. `pc` follows
`completeRegistration` after the OTP was verified, `h` the handler in
user-service: `cacheGet` is three steps (look up, fetch, fill) and runs twice,
for the idempotency test and for the re-read. A call that times out leaves the
handler running. The HMAC timestamp is signed once for all retries, so
`verifyInternalCall` bounds them: `MaxCalls` stands for the five minutes.

### UserRecords, Accounts

`UserRecords` is one account in user-service: its row (active, deleted, gone;
admin; seller profile), the cached view of it with its "not found" mark, and the
events committed with its changes. Requests delete, delete for good, attach a
seller profile, restore and read through the cache, one step for every `await`;
`deleteUser` invalidates inside its transaction, which `CommitDelete` or
`RollbackDelete` ends. `changes` is a history of what happened to `isDeleted`,
and an event carries the position of its change.

`Accounts` adds auth-service: the credential `cred`, the restore OTP and its
verification, which calls user-service, and the members of the consumer group,
which take any event, in any order and more than once. Adding the SELLER role is
a read and a conditional update in two steps. `Wire` says what a message
carries: the contract's envelope, or the payload alone as the poller publishes.

### Services

Components that share no variable with the account data and none with each
other. `Services` is their sum: `part`, chosen by `Init`, says which of them
runs, and the others keep their initial state. Since no action of one reads or
writes a variable of another, what holds of a component alone holds of it beside
the others, and the interleavings left out would show nothing; one run checks
them all. `part` has the value `circuit`, `mailer` or `gate` for one of the
three breakers and `counter` or `window` for one of the two limiters. `Clients`
holds what they have in common: the requests or instances at work.

- `Registration`: the one-time passwords of one email and one purpose. Each
  Redis command of `checkOtpRestrictions`, `trackOtpRequests`, `sendOtp` and
  `verifyOtp` that another request can come between is a step; the keys
  expire at any time.
- `PasswordReset`: one reset token, its announcement in a transaction of its
  own, its reading and its use.
- `Invites`: several invites of one email, their creation, look-up, expiry and
  acceptance: the transaction that creates the credential and consumes the
  invite, the profile call with each of its outcomes, and the compensation.
- `Bootstrap`: the instances that start without a SUPER_ADMIN, with their
  attempts, the lost race on the unique email, the profile call, the audit
  write and the compensation.
- `Breakers`: the class of auth-service and user-service, the one of
  notification-service and the gateway's middleware, each asked when a call
  begins and told when it ends, by calls that overlap its changes of state. The
  class counts whatever a call throws, the 409 and 400 of a healthy
  user-service included; the notification breaker is not told of an error that
  `shouldTrip` rejects, of a healthy provider or of another.
- `Limiters`: get, then setex or incr in auth-service, with the key expiring
  between them, any of them failing or losing its reply, and the fallback in
  memory; the script of notification-service, one step, with a time its caller
  read up to `MaxDelay` before, and the request let through when it fails.
- `Lifecycle`: `main()` step by step, `shutdown()` beside it, the channels
  each service closes, the watchdog, and the poller's timer and batch.
- `DeadLetters`: recording with duplicates, redriving, and a listing by cursor
  while rows arrive. A row has a place in the order of `<<createdAt, id>>`.
- `Surfaces`: the storefront with tokens of its own, the seller and the admin
  dashboard with the cookies of one browser; registration, login, refresh and
  logout as a request and an answer that may be late or lost, the gate of
  `createInvite`, and roles that user-service attaches meanwhile.

## The runs

| Run | Instance | Shows |
|---|---|---|
| OutboxShared | 2 events, 2 pollers, failing publishes and lost replies | type; COMPLETED was delivered, DEAD was exhausted |
| OutboxSingle | 3 events, 1 poller, crashes, publish and database failures | the retry count is the number of failures; bounded delivery; an event is first attempted after all that were committed in earlier ticks, orphans aside; `Outbox` implements `EventDelivery` |
| OutboxSettles | 1 event, 2 pollers, 3 retries, broker faults, fairness | every committed event settles for good |
| SessionsRotation | 2 families, 2 requests, clock to 2, tokens of 3 s on keys of 2 s, 3 wrong passwords with limit 2, no faults | type; reuse ends the family, spent tokens stay dead, a session ends only for a cause, failures are counted and locked |
| SessionsDeletion | 2 families, 2 requests, 1 message, clock to 1, tokens of 2 s on keys of 3 s, consumer and request failures | deletion revokes what existed; `Sessions` implements `TokenFamilies` |
| NotificationAll | 3 messages of one account, two mails on one row and one poison, 2 workers, all faults until the calm, fairness | type; SENT was mailed, skipped was handled, acknowledged is decided; a row that is settled and in nobody's hands stays so; after the calm every message is committed |
| ProvisioningAll | 2 registrations, all faults, fairness | type; a session has an account, the event is stored if and only if the account is, a failure is compensated, a registration ends |
| AccountsReplica | 2 requests of every kind, 2 consumers, 2 changes, database and request faults, envelopes | type; a seller is replicated once and never an admin; the replica agrees when it has heard the latest change |
| AccountsSettle | 2 requests that read and delete, 1 consumer, 2 changes, Redis faults, envelopes, fairness | a stale cached record fades; a deletion reaches the credential |
| Services | 2 clients or instances, and the bounds below, fairness of the breakers | type; `TriesAreBounded`, `AdminsAreWhole`, `CounterIsBounded`, `WindowIsBounded`, `ExitIsClean`, `PagesAreComplete`, `SessionsKeepTheirRole`, `BreakersRecover` |
| AccountsWire | violation: deletions only, payloads, no fault, fairness | see findings |
| OutboxOrphans | violation: 2 events, 2 pollers that may die and are replaced, fairness | see findings |

PROJECT.json lists, for each hazard, the line where it bites, the properties
that would catch it going wrong, and what of it no property forbids because the
code does it; and, for each property, a change of the model by which a plausible
bug breaks it.

## Bounds

Two pollers, requests, workers, consumers, clients or registrations are enough
for each race modelled here: all are between one actor's read and its write and
a second actor's complete pass. Two events in a batch of two show the effect of
a failure on the rest of the batch; with three and a batch of two, `Find` has to
choose, and rows are left for a later batch. Two retries separate the first
failure from the last; `OutboxSettles` uses three so that a middle one exists. A lost reply to an update may reopen a settled row even with
one poller, so `OutboxSingle` leaves it out; what it says of the retry count and
of bounded delivery is proved with it (`OutboxSingleProofs`).

Bounds that are not in the code: `MaxTime`, `MaxFailures` and `MaxMessages`
(Sessions), `MaxDeliveries` (Notification: the deliveries before the calm; after
it they are not bounded), `MaxCalls` (Provisioning), `MaxChanges` (Accounts: a
deletion and the change after it), `MaxAccepts` (Invites: credentials created in
all, one more than there are invites, so that one is undone and tried again),
`MaxTime` and `MaxDelay` (the sliding window; the clock passes the window and
the delay) and `Places` (DeadLetters, one more than there are rows, so that a
row may arrive before or behind a cursor).

Options of the code with smaller values: `MaxRetries`, `BatchSize`, `JwtTTL` and
`KeyTTL` (each is once the longer of the two), `MaxAttempts`, `LockDuration`,
`RequestLimit`, `MaxBoots` (three for five: a failed, a lost and a last attempt), `Threshold` (two: one failure does not open
a breaker), `HalfOpenMax`, `MaxRequests`, `Limit`, `Window`, `PageLimit` (one:
three pages).

## Fairness

- `Outbox`: weak fairness of a poller's own steps, because `setInterval` keeps
  firing and awaited calls return, and of lock ageing, because time passes;
  none for writers, commits or faults. `OutboxSettles` leaves out crashes and
  database failures, which orphan rows.
- `Notification`: weak fairness of taking a message and of handling it (KafkaJS
  polls and awaits the handler), redelivered as often as it takes.
  `EventuallyAcked` is claimed from the calm on: while workers die or the
  database fails again and again, nothing can be.
- `Provisioning`: weak fairness of the steps a service takes once it has
  begun; a client need not register.
- `Accounts`: weak fairness of what user-service began, of the expiry of a
  cached record (it has a TTL), and of the group's handling of each message not
  yet acknowledged; none for requests, redeliveries and faults.
- `Services`: for the breakers only. The timeout passes, a call that began
  ends, and each breaker keeps being asked: without calls no breaker is probed,
  as the code probes with live calls. That the dependency is back is a
  hypothesis of the property, for each breaker what it needs. The class of
  auth-service and user-service counts whatever is thrown, so its calls must
  cease to fail altogether, and be no more at once than `halfOpenMaxRetries`. The
  notification breaker needs a healthy provider and mails that go on being
  accepted, beside any that are refused: with refusals alone, a half-open
  breaker is never told. The gateway needs its service healthy. No other part
  claims liveness.

Notification, Provisioning, Accounts and Services may come to a legitimate end:
a topic fully consumed, every registration answered, all changes made, a process
exited, every instance bootstrapped, a listing done. Their cfgs say
`CHECK_DEADLOCK FALSE`.

## The proofs

Each theorem holds for every set of events, pollers, requests, registrations,
messages, workers, consumers, clients and faults and every value of the numeric
options, from the named assumptions on the constants only (`OutboxAssumption`,
`SessionsAssumption`, `NotificationAssumption`, `ProvisioningAssumption`,
`UserAssumption`, `AccountsAssumption`, and `ClientAssumption`,
`RegistrationAssumption`, `InvitesAssumption`, `BootstrapAssumption`,
`BreakersAssumption`, `LimitersAssumption`, `DeadAssumption` for the parts of
`Services`). A hypothesis beyond them is in the theorem's statement.

- `OutboxProofs`, any number of pollers. The invariant `SharedInv` joins the
  type invariant, a fact on each row (`RowInv`: what `status` says of `tx`,
  `lockedAt`, `delivered` and of how `retryCount` compares with `attempts`) and
  one on each poller (`PollerInv`). The last is needed because a poller decides
  from its snapshot: once it has published or failed, the snapshot's `retryCount`
  plus one never exceeds the attempts made, and a poller about to write
  COMPLETED has published. From it: `TypeCorrect`, `CompletedIsDelivered`,
  `DeadIsExhausted`, and two facts no run checks, `DeliveredIsCommitted`
  and `PendingNeverLocked`.
- `OutboxSingleProofs`, one poller (the hypothesis `SinglePoller`). `SingleInv`
  adds that the snapshot equals the rows it was read from, which two pollers
  break. From it: `SingleBounded` and `SingleCounts`. For the order, `BeforeInv`
  says that what was committed before an event was written has an older row,
  and `AheadInv` that, when the event is in the batch, such an earlier one is
  attempted, an orphan or ahead of it in the same batch: `Find` takes the oldest
  of what waits, and the loop takes the batch from its head. Nothing reaps an
  orphan and attempts only grow (`CoveredStays`). Hence `SingleInOrder`, across
  batches, crashes and retries. Where no reply of the database is lost
  (`NoLostReply`: a lost one makes the poller retry a row that it has completed,
  and the property fails), `PollerMoves` sums up what any step of the poller does:
  it queues rows again, or moves one row that is not yet settled. Hence
  `SettledForGood`, which no run checks by itself, as the refinement implies it;
  and, as each such move is a `Send`, a `Settle` or a `Park` of the abstract
  specification or changes nothing it speaks of (`PollerRefines`; `EventRefines`
  for the business transactions), `OutboxKeepsPromise`: `Outbox` implements
  `EventDelivery`.
- `SessionsProofs`. `KeyMoves` sums up what any step may do to a family's key:
  a revoked one stays, a live one is left, rewritten or goes. With
  `KeyInv` (a live key lasts `KeyTTL` from its token's signing at least; a request
  that rotates presents an issued token and signs a later one) and `SpentInv`
  (what was rotated away is no newer than the family's key) it gives
  `RevocationIsFinal` (which no run checks by itself: it follows from the
  refinement as well) and `SpentTokensAreDead`. `CauseInv` says that who is
  about to revoke has flagged the family, and that the account stays deleted
  while its families are scanned: so a key that goes has one of the four causes,
  whichever of the two lifetimes is the longer (`SessionsEndForCause`).
  `TokenNext` sums up a step as `TokenFamilies` sees it: keys go, or one key is written, by a login or by a rotation that won. A login
  takes a family without a key (`LoginRefines`), a rotation presents the good
  token (`RotationRefines`), and a key that goes takes a good token with it
  (`NoneBecomesGood`), so each step is one of the abstract specification:
  `TokenPromiseKept`. `DeletionInv` says what the SCAN loop has still to visit:
  `DeletionIsComplete`. `ReuseIsFinal` and `FailuresCounted` have the
  hypothesis `NobodyDies`: each is two writes in the code.
- `NotificationProofs`. Three facts about the past cannot be taken back: a mail
  was sent for the row, a worker gave up on it, a message was decided.
  `HandledInv` says by a worker's place which of them it relies on, so that a
  second worker's steps cannot disturb it. From it: `SentRowsWereMailed`,
  `SkippedMessagesWereHandled`, `AckedMessagesAreDecided`.
  `SettledRowsStaySettled` has no hypothesis on keys, partitions or faults: only a
  worker past the claim writes a row that exists, and none gets there with a row
  that is settled (`FinalNext`). `Final` itself leaves out a row that a worker
  still has in hand, which may be undone.
- `ProvisioningProofs`. `CredInv` ties the credential to the program counter of
  its registration; `SeenInv` says that every witness of an account (a cache
  entry, a row in a handler's memory, a 2xx, a caller that read one) is right.
  Neither needs to know the order in which the two services act. From them:
  `FailedIsCompensated`, `SessionsHaveAccounts`; `EventsMatchAccounts` is
  inductive with the type invariant.
- `AccountsProofs`. `SellerInv` adds that whatever a reader has in hand calls
  an admin an admin, so `becomeSeller` never acts on one: `SellersAreReplicated`.
  `ChangeInv` follows the row (`RowFollows`), the replica (`ReplicaFollows`) and
  the restores between their update and their event (`RestoresUnderWay`):
  `ReplicasConverge`.
- `ServicesProofs`. `LifeInv` orders the closing of the poller before the exit:
  `ExitsAreClean`. `InviteInv` says that at most one acceptance holds the
  credential between transaction and profile call (`HoldersAreOne`), that a
  consumed invite belongs to it (`ConsumedIsOne`), and that an acceptance that
  returned is undone by nobody (`AcceptedStays`); `BootInv` says the same of
  the instances: `AdminsStayWhole`. `DeadInv`, with lemmas on the smallest rows
  above a cursor (`FirstIsClosed`, `NoMoreIsAll`), gives `ListingsAreComplete`.
  `SurfInv` says of every token kept or in flight that its roles are among the
  account's, which only grow, and that it acts on its surface:
  `SessionsStayApart`.

- `ServicesBoundsProofs`, what is counted by reading and writing back, and the
  types.
  - One-time passwords, two requests. A counter that is read, incremented and
    written may be set back by a late write, so no invariant relates it to the
    wrong codes tried. Each request has a level instead (`TriesLeft`,
    `MailsLeft`): what is left of the limit as it read the counter or else as the
    counter stands. A write lowers the level of its request and may lift the
    other's to no more than that, so twice the tries plus twice one level plus
    `y * y + y` of the other stays within `TriesRoom` (`Within`, `LevelDrops`).
    At most two requests are two values (`TwoClients`): `TriesStayBounded`,
    with `ResetInv` for the tokens.
  - The counter of the middleware, any number of requests. Requests about to set
    the key (`Setters`) start the count again one after the other; before each of
    them the others may fill it and those about to increment it pass it when it
    is full. `Soon` and `Later` say how many more those sets allow; what was let
    through plus both stays within `Room`, which is `MostGrants` twice. A request
    whose reply is lost leaves the sets, its write done or not, and goes to the
    map in memory, whose count bounds what it lets through. Together:
    `CounterStaysBounded`.
  - The sliding window. A grant has an entry in the sorted set, under its number,
    no more than `MaxDelay` older, for as long as it may count (`KeyInv`). So
    the grants of a span that reaches the present are no more than the entries the
    script counts (`SpanIsKept`, an injection), and the script grants only below
    the limit: `WindowStaysBounded`.
  - `ServicesAreTyped`: the types of every part, with the invariants of
    `ServicesProofs` where a type alone is not inductive (the invite that a
    request has in hand, the token of a session that is issued).

Only model-checked: all liveness (`EventuallySettled`, `EventuallyAcked`,
`RegistrationEnds`, `StaleViewsFade`, `DeletionReachesCredential`,
`BreakersRecover`), as TLAPS 1.4.5 proves no ENABLED and hence no fairness
argument. Every safety property a run checks is a theorem. (`OrphansAreReaped` and,
with payloads, `DeletionReachesCredential` are refuted.) What a recursive
definition computes for every input is out of the prover's reach too; the modules
have no RECURSIVE operator.

## Findings

`AccountsWire` ends with a counterexample. The poller publishes `event.payload`
alone (`outboxPoller.ts:174`), while `handleRoleSyncMessage`
(`roleSyncConsumer.ts:86-112`) dispatches on `eventType` and returns when it is
missing. So `user.deleted`, `user.restored` and `seller.profile_attached` are
acknowledged without effect, and under full fairness and without any failure a
deleted row never marks the credential; ADR 0007:14 says it is marked, and
`event-contracts/src/envelope.ts:4` calls the envelope the one shape that every
producer builds.

`OutboxOrphans` ends with another. `processNextBatch` selects rows that are
PENDING (`outboxPoller.ts:123`) and sets those it claims to PROCESSING; a poller
that dies before it updates one leaves a row that no query selects again, since
the branch on an old lock is a branch of the PENDING ones. The comment at
`outboxPoller.ts:22-23` says that the lock timeout has "rows orphaned by a crash"
reaped, "not stuck forever", and that of `stop()` (lines 81-83) says the same.

## Other behaviours

What the models do, because the code does, and a reader of the code may not
expect. No property forbids any of them; where a property's statement makes
room for one, it says so.

Outbox and notification:

- Two pollers that read the same rows before either claims them deliver both
  copies (`outboxPoller.ts:138`; ADR 0001 says otherwise); they may lose
  failures, and reopen a row the other has settled. An event may be overtaken
  after its first attempt, by a transaction that commits late, or as an orphan.
- Two events of one account share an idempotency key, and the second is not
  mailed. A FAILED notification is committed and nothing reads its
  `nextRetryAt` (`notificationLog.ts:60`). `admin.invite.created` is routed to
  the dead-letter topic as poison (`domainEventSchemas.ts:50`).
- A redriven event that dies again is swallowed as a duplicate by the
  dead-letter table. The first page of GET /dead-letters, without a cursor,
  always fails: `decodeCursor(cursor ?? "")` (`deadLetterEvent.repository.ts:72`);
  `DeadLetters` starts from a cursor.

Sessions and surfaces:

- A login that overlaps `user.deleted` leaves a session. Two refreshes in the
  second the token was issued sign one and the same token and both win
  (`refreshToken.ts:106`).
- A refresh does not read the credential again, so a session's roles stay as at
  its login. The seller and the admin dashboard share cookies, so a late answer
  or a logout replaces or clears a newer session of the other. logout clears
  cookies with `sameSite` strict but they are set with none in production
  (`cookieHandler.ts:15,30`); a browser may then keep them, which `AnswerLost`
  covers.

Accounts:

- Without any failure, registration with Redis up and a quick transaction
  leaves a user row without a credential: `provisionAccount` caches "not found"
  before the insert and reads it back after. The retry counter of the HTTP
  client is reset for every attempt, so the age of the signature is the only
  bound (`userServiceClient.ts:83`).
- `restoreUser` updates, invalidates and emits in separate commits: a lost event
  leaves the credential deleted for good, and a deletion between update and
  event reverses the order of the two events. A hard delete emits no event
  and invalidates nothing. The five attempts of the restore OTP (ADR 0007:18) and
  the restriction of an owner's restore to `deletedBy=SELF` (ADR 0007:16) are
  not in the code.

One-time passwords, reset, invites, bootstrap:

- Wrong codes and mails exceed their limits by what a race can add (`MostOf`),
  and a new code leaves the attempts key as it was. A reset token read by
  several requests before its first use sets a password for each, and a reset
  revokes no refresh-token family (`auth.service.ts:549-586`).
- After a profile call that took effect but reported failure, the credential is
  undone and the profile stays; every retry then meets 409 (the comment at
  `superAdmin.ts:134` says otherwise). An instance that found the credential
  reports success though its owner may still undo it. A crash before the
  compensation leaves a SUPER_ADMIN without a profile.

Breakers, limiters, lifecycle:

- With more calls at once than `halfOpenMaxRetries`, late ones may spend the
  probes of every half-open period, and the class breaker never closes. As it
  counts whatever is thrown, five refusals (409, 400) of a healthy user-service in
  ten seconds open it. The
  guard `halfOpenInFlight` of the notification breaker
  (`notification/resilience/circuitBreaker.ts:82`) is tested in OPEN only and
  never fires, and its `failureCount` does not count consecutive failures. The
  gateway breaker does not close on a proxied success, which bypasses `res.json`
  (`circuitBreaker.ts:107`), but a 4xx of the gateway itself closes it.
- An INCR after the key expired makes a key without TTL: that key is refused for
  ever. A client gets a second allowance from the map in memory when Redis fails
  half-way, and the notification limiter lets everything through while its Redis
  fails. The sliding window's limit holds for spans shorter than the window by
  the delay between `Date.now()` and the script.
- `stop()` during `start()`'s first batch leaves a timer behind, and exit 0 may
  cut a batch. The channels are closed at once, so a batch in flight may fail
  for want of its database. An uncaught exception shuts down with exit 0.
  notification-service has no outbox poller, whatever its `server.ts:22` says.

## Limits

- Sessions and Notification start from messages that carry the contract's
  envelope; with what the poller publishes today they would receive nothing they
  recognise (`Wire`, see findings).
- `ReuseEndsFamily` and `FailuresAreCounted` are checked without requests dying
  half way: each is two Redis or database writes in the code, and a death
  between them breaks it at once (hazards in PROJECT.json).
- One process of user-service in Provisioning, hence one in-memory cache.
  `UserRecords` merges the two cache levels into one that may serve either, and
  leaves out the email key, which one internal route reads.
- The back-off of the outbox is only logged by the code and not in the model;
  the back-off of Notification is waited for and left out.
- The rate limiter and the breaker that Notification meets, and the breaker of
  the HTTP client in Provisioning and Invites, answer anything there; they
  have modules of their own.
- A part that several processes hold (a breaker, the map of the limiter) is one
  process's.

Not modelled, and why: the gateway's rate limiter (express-rate-limit, a
library) and request timeout (it ends a response and nothing else); topic
routing, header decoding, schemas, configuration, logging and the tables from
errors to statuses beyond what Provisioning uses (stateless wiring and
formatting); mail templates; the web application and its UI package
(presentation, no protocol of its own).
