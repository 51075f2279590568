---------------------------- MODULE UserRecords ----------------------------
(***************************************************************************)
(* One account in user-service: its row, the cached view of it under the   *)
(* profile key, and the domain events committed with its changes.          *)
(* Requests read the row through the cache, delete it, delete it for good, *)
(* attach a seller profile, restore it.  Several run at once; every await  *)
(* ends a step.                                                            *)
(*                                                                         *)
(* The two cache levels are one here (Provisioning has both): an entry and *)
(* a "not found" mark may be there together, and then either is served, as *)
(* they may be in different levels; both may expire at any time.  The      *)
(* email key is read by one internal route alone and left out.  changes is *)
(* a history of what happened to isDeleted; an event carries the position  *)
(* of its change.                                                          *)
(***************************************************************************)
EXTENDS Naturals, Sequences

CONSTANTS Request,     \* requests that may be in flight at once
          Op,          \* what a request may ask for
          MaxChanges,  \* bound: deletions and restores in all
          Faults       \* what fails: "redis", "database", "request"

ASSUME UserAssumption ==
    /\ "free" \notin Request
    /\ Op \subseteq {"get", "delete", "hardDelete", "becomeSeller"}
    /\ MaxChanges \in Nat
    /\ Faults \subseteq {"redis", "database", "request"}

VARIABLES row,      \* the row of the user table and of its seller profile
          lock,     \* the request whose transaction has updated the row
          changes,  \* deletions and restores committed so far (history)
          events,   \* domain events committed to the outbox
          hit,      \* the cached record: the role it shows, or "none"
          neg,      \* the "not found" mark of the key
          pc,       \* pc[r]: where request r is
          ctx       \* ctx[r]: what request r asked for and has read

userVars  == <<row, lock, changes, events>>
cacheVars == <<hit, neg>>
callVars  == <<pc, ctx>>
recordVars == <<row, lock, changes, events, hit, neg, pc, ctx>>

\* A record as a reader sees it: the strongest role it holds.
View    == {"customer", "seller", "admin"}
NoOne   == "free"

EventType  == {"user.registered", "user.deleted", "user.restored",
               "seller.attached"}
Message    == [type : EventType, change : 0..MaxChanges]
Registered == [type |-> "user.registered", change |-> 0]

RowState == {"active", "deleted", "gone"}
Reading  == {"lookup", "fetch", "fill", "loaded"}
UserPC   == {"idle", "deleting", "attached", "restore", "restorable",
             "restored", "announce"} \cup Reading

Idle == [op |-> "none", got |-> "none", change |-> 0]

RecordsTypeOK ==
    /\ row \in [state : RowState, admin : BOOLEAN, sellers : Nat,
                profile : BOOLEAN]
    /\ lock \in Request \cup {NoOne}
    /\ \A r \in Request : lock = r <=> pc[r] = "deleting"
    /\ changes \in Seq({"deleted", "restored"})
    /\ events \subseteq Message
    /\ hit \in View \cup {"none"}
    /\ neg \in BOOLEAN
    /\ ctx \in [Request -> [op : Op \cup {"none", "get", "restore"},
                            got : View \cup {"none"}, change : 0..MaxChanges]]

RecordsInit ==
    /\ \E admin \in BOOLEAN :
          row = [state |-> "active", admin |-> admin, sellers |-> 0,
                 profile |-> FALSE]
    /\ lock = NoOne
    /\ changes = <<>>
    /\ events = {Registered}
    /\ hit = "none"
    /\ neg = FALSE
    /\ pc = [r \in Request |-> "idle"]
    /\ ctx = [r \in Request |-> Idle]
-----------------------------------------------------------------------------
(* Requests, and reads through the cache.                                  *)

Goto(r, from, to) == pc[r] = from /\ pc' = [pc EXCEPT ![r] = to]

Done(r) == /\ pc' = [pc EXCEPT ![r] = "idle"]
           /\ ctx' = [ctx EXCEPT ![r] = Idle]

Receive(r, op) ==
    /\ Goto(r, "idle", "lookup")
    /\ ctx' = [ctx EXCEPT ![r].op = op]
    /\ UNCHANGED <<userVars, cacheVars>>

\* cacheGet up to the fetch; with Redis away the database is asked.
Lookup(r) ==
    /\ \/ /\ hit # "none"
          /\ Goto(r, "lookup", "loaded")
          /\ ctx' = [ctx EXCEPT ![r].got = hit]
       \/ neg /\ Goto(r, "lookup", "loaded") /\ UNCHANGED ctx
       \/ /\ (hit = "none" /\ ~neg) \/ "redis" \in Faults
          /\ Goto(r, "lookup", "fetch")
          /\ UNCHANGED ctx
    /\ UNCHANGED <<userVars, cacheVars>>

Shown == IF row.admin THEN "admin"
         ELSE IF row.sellers > 0 THEN "seller" ELSE "customer"

\* Mutant: the filter isDeleted: false is lost.
FetchDeletedToo == IF row.state = "gone" THEN "none" ELSE Shown

FetchActive == IF row.state = "active" THEN Shown ELSE "none"

Fetch(r) ==
    /\ Goto(r, "fetch", "fill")
    /\ ctx' = [ctx EXCEPT ![r].got = FetchActive]
    /\ UNCHANGED <<userVars, cacheVars>>

\* cacheGet after the fetch; a failed write to Redis is only logged.
Fill(r) ==
    /\ Goto(r, "fill", "loaded")
    /\ \/ ctx[r].got # "none" /\ hit' = ctx[r].got /\ UNCHANGED neg
       \/ ctx[r].got = "none" /\ neg' = TRUE /\ UNCHANGED hit
       \/ "redis" \in Faults /\ UNCHANGED cacheVars
    /\ UNCHANGED <<userVars, ctx>>

\* cacheInvalidate drops the record and the mark; a failure is only logged.
Invalidate ==
    \/ hit' = "none" /\ neg' = FALSE
    \/ "redis" \in Faults /\ hit' \in {hit, "none"} /\ UNCHANGED neg

ExpireHit == /\ hit # "none"
             /\ hit' = "none"
             /\ UNCHANGED <<userVars, callVars, neg>>

ExpireNeg == /\ neg
             /\ neg' = FALSE
             /\ UNCHANGED <<userVars, callVars, hit>>

Loaded(r, op) == pc[r] = "loaded" /\ ctx[r].op = op

\* The read was all, the record was not found (400, 404, or 500 at the end of
\* becomeSeller), or its role forbids the operation (403, 409).
Refuse(r) ==
    /\ pc[r] = "loaded"
    /\ \/ ctx[r].op = "get"
       \/ ctx[r].got = "none"
       \/ ctx[r].op = "becomeSeller" /\ ctx[r].got # "customer"
    /\ Done(r)
    /\ UNCHANGED <<userVars, cacheVars>>
-----------------------------------------------------------------------------
(* deleteUser and hardDeleteUser.                                          *)

Announce(type, change) == events' = events \cup {[type |-> type, change |-> change]}

\* softDeleteUser inside the transaction: the update locks the row and is not
\* visible yet, the cache is invalidated at once.
SoftDelete(r) ==
    /\ Loaded(r, "delete") /\ ctx[r].got # "none"
    /\ lock = NoOne /\ row.state # "gone"
    /\ Len(changes) < MaxChanges
    /\ lock' = r
    /\ Invalidate
    /\ Goto(r, "loaded", "deleting")
    /\ UNCHANGED <<row, changes, events, ctx>>

CommitDelete(r) ==
    /\ pc[r] = "deleting"
    /\ row' = [row EXCEPT !.state = "deleted"]
    /\ lock' = NoOne
    /\ changes' = Append(changes, "deleted")
    /\ Announce("user.deleted", Len(changes'))
    /\ Done(r)
    /\ UNCHANGED cacheVars

\* Mutant: a failed transaction is left open.
RollbackForgotten(r) ==
    /\ pc[r] = "deleting"
    /\ "database" \in Faults
    /\ Done(r)
    /\ UNCHANGED <<userVars, cacheVars>>

RollbackDelete(r) ==
    /\ pc[r] = "deleting"
    /\ "database" \in Faults
    /\ lock' = NoOne
    /\ Done(r)
    /\ UNCHANGED <<row, changes, events, cacheVars>>

\* No event, no invalidation; the profiles go with the row.
HardDelete(r) ==
    /\ Loaded(r, "hardDelete") /\ ctx[r].got # "none"
    /\ lock = NoOne /\ row.state # "gone"
    /\ row' = [row EXCEPT !.state = "gone", !.sellers = 0, !.profile = FALSE]
    /\ Done(r)
    /\ UNCHANGED <<lock, changes, events, cacheVars>>

\* update and delete throw when the row is gone, and so does the insert of a
\* profile, whose foreign key it is.
RowIsGone(r) ==
    /\ pc[r] \in {"loaded", "restorable"}
    /\ ctx[r].op \in {"delete", "hardDelete", "becomeSeller", "restore"}
    /\ row.state = "gone"
    /\ Done(r)
    /\ UNCHANGED <<userVars, cacheVars>>
-----------------------------------------------------------------------------
(* becomeSeller.                                                           *)

MayAttach(r) == /\ Loaded(r, "becomeSeller") /\ ctx[r].got = "customer"
                /\ lock = NoOne /\ row.state # "gone"

\* Mutant: the seller profile's user id is not unique.
ProfileIsFree(r) == TRUE

\* The insert of the profile is what two requests collide on.
ProfileIsUnique(r) == ~row.profile

AttachSeller(r) ==
    /\ MayAttach(r) /\ ProfileIsUnique(r)
    /\ row' = [row EXCEPT !.sellers = @ + 1, !.profile = TRUE]
    /\ Announce("seller.attached", 0)
    /\ Goto(r, "loaded", "attached")
    /\ UNCHANGED <<lock, changes, cacheVars, ctx>>

AttachConflict(r) ==
    /\ MayAttach(r) /\ ~ProfileIsUnique(r)
    /\ Done(r)
    /\ UNCHANGED <<userVars, cacheVars>>

InvalidateAttached(r) ==
    /\ Goto(r, "attached", "lookup")
    /\ ctx' = [ctx EXCEPT ![r].op = "get", ![r].got = "none"]
    /\ Invalidate
    /\ UNCHANGED userVars
-----------------------------------------------------------------------------
(* restoreUser: the row, its audit record and its event in three commits.  *)

\* findUnique; refused unless deleted and within the days of grace, whose end
\* is left to chance here.
ReadRestorable(r) ==
    /\ \/ Goto(r, "restore", "restorable") /\ row.state = "deleted"
          /\ UNCHANGED ctx
       \/ pc[r] = "restore" /\ Done(r)
    /\ UNCHANGED <<userVars, cacheVars>>

RestoreRow(r) ==
    /\ Goto(r, "restorable", "restored")
    /\ lock = NoOne /\ row.state # "gone"
    /\ Len(changes) < MaxChanges
    /\ row' = [row EXCEPT !.state = "active"]
    /\ changes' = Append(changes, "restored")
    /\ ctx' = [ctx EXCEPT ![r].change = Len(changes')]
    /\ UNCHANGED <<lock, events, cacheVars>>

InvalidateRestored(r) ==
    /\ Goto(r, "restored", "announce")
    /\ Invalidate
    /\ UNCHANGED <<userVars, ctx>>

AnnounceRestored(r) ==
    /\ pc[r] = "announce"
    /\ Announce("user.restored", ctx[r].change)
    /\ Done(r)
    /\ UNCHANGED <<row, lock, changes, cacheVars>>
-----------------------------------------------------------------------------
\* A call throws: the request ends where it was, and what it committed stays.
\* A transaction that is open ends with RollbackDelete.
Throw(r) ==
    /\ "request" \in Faults
    /\ pc[r] \notin {"idle", "deleting"}
    /\ Done(r)
    /\ UNCHANGED <<userVars, cacheVars>>

UserStep(r) ==
    \/ Lookup(r) \/ Fetch(r) \/ Fill(r) \/ Refuse(r)
    \/ SoftDelete(r) \/ CommitDelete(r) \/ HardDelete(r) \/ RowIsGone(r)
    \/ AttachSeller(r) \/ AttachConflict(r) \/ InvalidateAttached(r)
    \/ ReadRestorable(r) \/ RestoreRow(r)
    \/ InvalidateRestored(r) \/ AnnounceRestored(r)

RecordsNext ==
    \/ \E r \in Request : \/ \E op \in Op : Receive(r, op)
                          \/ UserStep(r) \/ RollbackDelete(r) \/ Throw(r)
    \/ ExpireHit \/ ExpireNeg
=============================================================================
