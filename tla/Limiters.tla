------------------------------ MODULE Limiters ------------------------------
(***************************************************************************)
(* Two rate limiters, for one key each: the middleware of auth-service     *)
(* (a counter in Redis read and written by separate commands, with a map   *)
(* in memory when Redis fails), and the sliding window of                  *)
(* notification-service (a script that Redis runs as one step, with a time *)
(* the caller read before).                                                *)
(***************************************************************************)
EXTENDS Clients

CONSTANTS MaxRequests,  \* maxRequests of the middleware
          Limit,        \* limit of the sliding window
          Window,       \* windowMs
          MaxDelay,     \* bound: from Date.now() to the script's run
          MaxTime       \* bound: the clock of the sliding window

ASSUME LimitersAssumption ==
    /\ MaxRequests \in Nat \ {0} /\ Limit \in Nat \ {0}
    /\ Window \in Nat /\ MaxDelay \in Nat /\ MaxTime \in Nat

VARIABLES rlCount,    \* the value of the key, 0 when it is absent
          rlTtl,      \* the key has a time to live
          rlPc,       \* rlPc[c]: where request c is
          rlStore,    \* count of the entry in memory, 0 when it is over
          rlGrants,   \* requests Redis let through since the key was absent (history)
          rlFallen,   \* requests the map let through since its entry was new (history)
          slNow,      \* time
          slRead,     \* slRead[c]: the time that request c read
          slKey,      \* scores in the sorted set
          slGrants    \* times at which the script allowed a request (history)

rlVars == <<rlCount, rlTtl, rlPc, rlStore, rlGrants, rlFallen>>
slVars == <<slNow, slRead, slKey, slGrants>>
limiterVars == <<rlVars, slVars>>

\* Scores and times come with a number that tells equal ones apart.
Stamp == (0..MaxTime) \X Nat

LimitersTypeOK ==
    /\ rlCount \in Nat /\ rlTtl \in BOOLEAN
    /\ rlPc \in [Client -> {"idle", "set", "incr"}]
    /\ rlStore \in 0..MaxRequests + 1
    /\ rlGrants \in Nat /\ rlFallen \in Nat
    /\ slNow \in 0..MaxTime
    /\ slRead \in [Client -> 0..MaxTime + 1]
    /\ slKey \subseteq Stamp /\ slGrants \subseteq Stamp

NotAsked == MaxTime + 1

LimitersInit ==
    /\ rlCount = 0 /\ rlTtl = FALSE
    /\ rlPc = [c \in Client |-> "idle"]
    /\ rlStore = 0
    /\ rlGrants = 0 /\ rlFallen = 0
    /\ slNow = 0
    /\ slRead = [c \in Client |-> NotAsked]
    /\ slKey = {} /\ slGrants = {}
-----------------------------------------------------------------------------
(* rateLimiter of auth-service.                                            *)

\* A count of maxRequests and more refuses the request.
GetCount(c) ==
    /\ rlCount < MaxRequests
    /\ Moves(rlPc, c, "idle", IF rlCount = 0 THEN "set" ELSE "incr")
    /\ UNCHANGED <<rlCount, rlTtl, rlStore, rlGrants, rlFallen, slVars>>

SetCount(c) ==
    /\ Moves(rlPc, c, "set", "idle")
    /\ rlCount' = 1 /\ rlTtl' = TRUE
    /\ rlGrants' = rlGrants + 1
    /\ UNCHANGED <<rlStore, rlFallen, slVars>>

\* INCR of a key that has expired makes one that never does.
IncrCount(c) ==
    /\ Moves(rlPc, c, "incr", "idle")
    /\ rlCount' = rlCount + 1
    /\ rlGrants' = rlGrants + 1
    /\ UNCHANGED <<rlTtl, rlStore, rlFallen, slVars>>

\* Redis fails, at any of the commands, which may have taken effect.
Unanswered(c) ==
    /\ rlPc' = [rlPc EXCEPT ![c] = "idle"]
    /\ \/ UNCHANGED <<rlCount, rlTtl>>
       \/ rlPc[c] = "set"  /\ rlCount' = 1 /\ rlTtl' = TRUE
       \/ rlPc[c] = "incr" /\ rlCount' = rlCount + 1 /\ UNCHANGED rlTtl
    /\ UNCHANGED <<rlGrants, slVars>>

\* Mutant: an entry that has not run out is made anew.
FallBackAnew(c) ==
    /\ Unanswered(c)
    /\ rlStore' = 1
    /\ rlFallen' = rlFallen + 1

\* Then the map in memory decides, at once; its count goes on when it refuses.
FallBack(c) ==
    /\ Unanswered(c)
    /\ rlStore' = IF rlStore > MaxRequests THEN rlStore ELSE rlStore + 1
    /\ rlFallen' = IF rlStore' > MaxRequests THEN rlFallen ELSE rlFallen + 1

CountExpires ==
    /\ rlTtl
    /\ rlCount' = 0 /\ rlTtl' = FALSE /\ rlGrants' = 0
    /\ UNCHANGED <<rlPc, rlStore, rlFallen, slVars>>

StoreExpires ==
    /\ rlStore > 0
    /\ rlStore' = 0 /\ rlFallen' = 0
    /\ UNCHANGED <<rlCount, rlTtl, rlPc, rlGrants, slVars>>

RlNext == \/ \E c \in Client : \/ GetCount(c) \/ SetCount(c) \/ IncrCount(c)
                                \/ FallBack(c)
          \/ CountExpires \/ StoreExpires
-----------------------------------------------------------------------------
(* SlidingWindowRateLimiter of notification-service.                       *)

ReadTime(c) ==
    /\ slRead[c] = NotAsked
    /\ slRead' = [slRead EXCEPT ![c] = slNow]
    /\ UNCHANGED <<slNow, slKey, slGrants, rlVars>>

\* ZREMRANGEBYSCORE.
InWindow(now) == {e \in slKey : e[1] + Window > now}

\* Mutant: the window is counted before the old scores are removed, and the
\* score of a request is not added.
AddNothing(c) ==
    /\ slRead[c] # NotAsked
    /\ slRead' = [slRead EXCEPT ![c] = NotAsked]
    /\ slKey' = InWindow(slRead[c])
    /\ slGrants' = slGrants \cup {<<slNow, Cardinality(slGrants)>>}
    /\ UNCHANGED <<slNow, rlVars>>

\* The script.
Evaluate(c) ==
    LET now  == slRead[c]
        kept == InWindow(now)
        n    == Cardinality(slGrants)
    IN
    /\ now # NotAsked
    /\ slRead' = [slRead EXCEPT ![c] = NotAsked]
    /\ \/ /\ Cardinality(kept) < Limit
          /\ slKey' = kept \cup {<<now, n>>}
          /\ slGrants' = slGrants \cup {<<slNow, n>>}
       \/ /\ Cardinality(kept) >= Limit
          /\ slKey' = kept
          /\ UNCHANGED slGrants
    /\ UNCHANGED <<slNow, rlVars>>

\* Redis fails: the request is let through, and no limit applies to it, nor to
\* one that the script refused.  (One that it allowed is a step of Evaluate.)
FailOpen(c) ==
    LET kept == InWindow(slRead[c]) IN
    /\ slRead[c] # NotAsked
    /\ slRead' = [slRead EXCEPT ![c] = NotAsked]
    /\ \/ UNCHANGED slKey
       \/ Cardinality(kept) >= Limit /\ slKey' = kept
    /\ UNCHANGED <<slNow, slGrants, rlVars>>

\* PEXPIRE, a little more than the window after the last grant.
KeyEnds ==
    /\ slKey # {}
    /\ \A g \in slGrants : slNow > g[1] + Window
    /\ slKey' = {}
    /\ UNCHANGED <<slNow, slRead, slGrants, rlVars>>

Tick ==
    /\ slNow < MaxTime
    /\ \A c \in Client : slRead[c] # NotAsked => slNow < slRead[c] + MaxDelay
    /\ slNow' = slNow + 1
    /\ UNCHANGED <<slRead, slKey, slGrants, rlVars>>

SlNext == \/ \E c \in Client : ReadTime(c) \/ Evaluate(c) \/ FailOpen(c)
          \/ KeyEnds \/ Tick
-----------------------------------------------------------------------------
\* The counter's read and write are separate commands: each of n requests that
\* found no key may start it again with a late SETEX, and those that came
\* before it pass a full counter together.
MostGrants(n) == n * MaxRequests + (n * (n - 1)) \div 2

\* What the middleware has let through in the life of its key and of its entry in
\* memory, those it let through because Redis failed included: however commands
\* interleave, fail or lose their answers, no more than the one and the other
\* may.  A client gets both allowances when Redis fails half-way.
CounterIsBounded ==
    rlGrants + rlFallen <= MostGrants(Cardinality(Client)) + MaxRequests

\* Of the requests the script answered: it may run with a time read MaxDelay
\* before, out of order with others, and in every span shorter than the window by
\* that much, the limit holds.  Nothing bounds those that FailOpen lets through.
WindowIsBounded ==
    \A t \in 0..MaxTime :
        Cardinality({g \in slGrants : g[1] \in t..(t + Window - MaxDelay - 1)})
            <= Limit
=============================================================================
