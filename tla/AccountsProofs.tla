--------------------------- MODULE AccountsProofs ---------------------------
(* Theorems about Accounts for any number of requests, consumers, changes   *)
(* and every set of faults.                                                 *)
EXTENDS Accounts, TLAPS

Attached == [type |-> "seller.attached", change |-> 0]

(***************************************************************************)
(* Type correctness.  A transaction that is open has room for its change,   *)
(* and a handler only adds the role of an event that was emitted.           *)
(***************************************************************************)

UserTypes ==
    /\ row \in [state : RowState, admin : BOOLEAN, sellers : Nat,
                profile : BOOLEAN]
    /\ lock \in Request \cup {NoOne}
    /\ changes \in Seq({"deleted", "restored"})
    /\ Len(changes) \in 0..MaxChanges
    /\ lock # NoOne => Len(changes) < MaxChanges
    /\ events \subseteq Message
    /\ \A m \in events : m.change <= Len(changes)
    /\ \A m \in events : m.type = "seller.attached" => m = Attached
    /\ hit \in View \cup {"none"}
    /\ neg \in BOOLEAN

PcTypes ==
    /\ pc \in [Request -> UserPC \cup {"verified"}]
    /\ \A r \in Request : lock = r <=> pc[r] = "deleting"

Context == [op : Op \cup {"none", "get", "restore"},
            got : View \cup {"none"}, change : 0..MaxChanges]

CtxTypes ==
    /\ ctx \in [Request -> Context]
    /\ \A r \in Request : ctx[r].change <= Len(changes)

AuthTypes ==
    /\ cred \in [isDeleted : BOOLEAN, admin : BOOLEAN, seller : BOOLEAN]
    /\ otp \in BOOLEAN
    /\ handler \in [Consumer -> {"idle", "adding"}]
    /\ acked \subseteq events
    /\ last \in 0..Len(changes)
    /\ \A w \in Consumer : handler[w] = "adding" => Attached \in events

TypeInv == UserTypes /\ PcTypes /\ CtxTypes /\ AuthTypes

\* The initial states have their types.
LEMMA InitType == Init => TypeInv
<1> SUFFICES ASSUME Init PROVE TypeInv
  OBVIOUS
<1> USE UserAssumption DEF Init, RecordsInit, Registered
<1>1. UserTypes
  <2>1. row \in [state : RowState, admin : BOOLEAN, sellers : Nat,
                profile : BOOLEAN]
    BY DEF RowState
  <2>2. changes \in Seq({"deleted", "restored"}) /\ Len(changes) = 0
    OBVIOUS
  <2>3. \A m \in events : /\ m \in Message
                         /\ m.change = 0 /\ m.type # "seller.attached"
    BY DEF Message, EventType
  <2>4. Len(changes) \in 0..MaxChanges /\ lock = NoOne
    BY <2>2 DEF NoOne
  <2>5. \A m \in events : m.change <= Len(changes)
    BY <2>2, <2>3
  <2> QED
    BY <2>1, <2>2, <2>3, <2>4, <2>5 DEF UserTypes
<1>2. PcTypes
  BY DEF PcTypes, UserPC, NoOne
<1>3. CtxTypes
  BY DEF CtxTypes, Context, Idle
<1>4. AuthTypes
  <2>1. last \in 0..Len(changes)
    OBVIOUS
  <2>2. cred \in [isDeleted : BOOLEAN, admin : BOOLEAN, seller : BOOLEAN]
    OBVIOUS
  <2> QED
    BY <2>1, <2>2 DEF AuthTypes
<1> QED
  BY <1>1, <1>2, <1>3, <1>4 DEF TypeInv

\* A request remembers something else of the same change.
LEMMA SetContext ==
    ASSUME CtxTypes, NEW r \in Request, NEW c \in Context,
           c.change = ctx[r].change, UNCHANGED changes,
           ctx' = [ctx EXCEPT ![r] = c]
    PROVE  CtxTypes'
BY DEF CtxTypes

\* The history grows by one change and stays within its bound.
LEMMA AppendChange ==
    ASSUME UserTypes, NEW d \in {"deleted", "restored"},
           changes' = Append(changes, d), Len(changes) < MaxChanges
    PROVE  /\ changes' \in Seq({"deleted", "restored"})
           /\ Len(changes') = Len(changes) + 1
           /\ Len(changes') \in 1..MaxChanges
BY UserAssumption DEF UserTypes

\* Every step keeps the types.
LEMMA TypeNext ==
    ASSUME TypeInv, [Next]_vars
    PROVE  TypeInv'
<1>1. ASSUME NEW r \in Request, NEW op \in Op, Receive(r, op),
             UNCHANGED authVars
      PROVE  TypeInv'
  <2>1. UserTypes'
    BY UserAssumption, <1>1 DEF UserTypes, TypeInv, NoOne, View, RowState,
       EventType, Message, Attached, PcTypes, CtxTypes, Context, Receive,
       Goto, userVars, cacheVars, authVars
  <2>2. PcTypes'
    BY UserAssumption, <1>1 DEF PcTypes, TypeInv, UserTypes, NoOne, UserPC,
       Reading, Receive, Goto, userVars, cacheVars, authVars
  <2>3. CtxTypes'
    <3>1. PICK c \in Context : c = [ctx[r] EXCEPT !.op = op]
       BY <1>1 DEF TypeInv, CtxTypes, UserTypes, Context, View, Receive, Goto,
         userVars, cacheVars, authVars
    <3>2. ctx' = [ctx EXCEPT ![r] = c] /\ UNCHANGED changes
      BY <1>1, <3>1 DEF Receive, Goto, userVars, cacheVars, authVars
    <3>3. c.change = ctx[r].change
      BY <3>1 DEF TypeInv, CtxTypes, Context
    <3> QED
      BY <3>1, <3>2, <3>3, SetContext DEF TypeInv
  <2>4. AuthTypes'
    BY UserAssumption, <1>1 DEF AuthTypes, TypeInv, UserTypes, Attached,
       Message, Receive, Goto, userVars, cacheVars, authVars
  <2> QED
    BY <2>1, <2>2, <2>3, <2>4 DEF TypeInv
<1>2. ASSUME NEW r \in Request, Lookup(r), UNCHANGED authVars
      PROVE  TypeInv'
  <2>1. UserTypes'
    BY UserAssumption, <1>2 DEF UserTypes, TypeInv, NoOne, View, RowState,
       EventType, Message, Attached, PcTypes, CtxTypes, Context, Lookup,
       Goto, userVars, cacheVars, authVars
  <2>2. PcTypes'
    BY UserAssumption, <1>2 DEF PcTypes, TypeInv, UserTypes, NoOne, UserPC,
       Reading, Lookup, Goto, userVars, cacheVars, authVars
  <2>3. CtxTypes'
    <3>1. CASE UNCHANGED ctx
      BY <1>2, <3>1 DEF Lookup, userVars, TypeInv, CtxTypes
    <3>2. CASE hit # "none" /\ ctx' = [ctx EXCEPT ![r].got = hit]
      <4>1. PICK c \in Context : c = [ctx[r] EXCEPT !.got = hit]
        BY DEF TypeInv, CtxTypes, UserTypes, Context
      <4>2. ctx' = [ctx EXCEPT ![r] = c] /\ UNCHANGED changes
        BY <1>2, <3>2, <4>1 DEF Lookup, userVars
      <4>3. c.change = ctx[r].change
        BY <4>1 DEF TypeInv, CtxTypes, Context
      <4> QED
        BY <4>1, <4>2, <4>3, SetContext DEF TypeInv
    <3> QED
      BY <1>2, <3>1, <3>2 DEF Lookup
  <2>4. AuthTypes'
    BY UserAssumption, <1>2 DEF AuthTypes, TypeInv, UserTypes, Attached,
       Message, Lookup, Goto, userVars, cacheVars, authVars
  <2> QED
    BY <2>1, <2>2, <2>3, <2>4 DEF TypeInv
<1>3. ASSUME NEW r \in Request, Fetch(r), UNCHANGED authVars
      PROVE  TypeInv'
  <2>1. UserTypes'
    BY UserAssumption, <1>3 DEF UserTypes, TypeInv, NoOne, View, RowState,
       EventType, Message, Attached, PcTypes, CtxTypes, Context, Fetch,
       Goto, FetchActive, Shown, userVars, cacheVars, authVars
  <2>2. PcTypes'
    BY UserAssumption, <1>3 DEF PcTypes, TypeInv, UserTypes, NoOne, UserPC,
       Reading, Fetch, Goto, FetchActive, Shown, userVars, cacheVars,
       authVars
  <2>3. CtxTypes'
    <3>1. PICK c \in Context : c = [ctx[r] EXCEPT !.got = FetchActive]
       BY <1>3 DEF TypeInv, CtxTypes, UserTypes, Context, View, Fetch, Goto,
         FetchActive, Shown, userVars, cacheVars, authVars
    <3>2. ctx' = [ctx EXCEPT ![r] = c] /\ UNCHANGED changes
       BY <1>3, <3>1 DEF Fetch, Goto, FetchActive, Shown, userVars, cacheVars,
         authVars
    <3>3. c.change = ctx[r].change
      BY <3>1 DEF TypeInv, CtxTypes, Context
    <3> QED
      BY <3>1, <3>2, <3>3, SetContext DEF TypeInv
  <2>4. AuthTypes'
    BY UserAssumption, <1>3 DEF AuthTypes, TypeInv, UserTypes, Attached,
       Message, Fetch, Goto, FetchActive, Shown, userVars, cacheVars,
       authVars
  <2> QED
    BY <2>1, <2>2, <2>3, <2>4 DEF TypeInv
<1>4. ASSUME NEW r \in Request, Fill(r), UNCHANGED authVars
      PROVE  TypeInv'
  <2>1. UserTypes'
    BY UserAssumption, <1>4 DEF UserTypes, TypeInv, NoOne, View, RowState,
       EventType, Message, Attached, PcTypes, CtxTypes, Context, Fill, Goto,
       userVars, cacheVars, authVars
  <2>2. PcTypes'
    BY UserAssumption, <1>4 DEF PcTypes, TypeInv, UserTypes, NoOne, UserPC,
       Reading, Fill, Goto, userVars, cacheVars, authVars
  <2>3. CtxTypes'
    BY UserAssumption, <1>4 DEF CtxTypes, TypeInv, UserTypes, PcTypes,
       Context, View, Idle, Fill, Goto, userVars, cacheVars, authVars
  <2>4. AuthTypes'
    BY UserAssumption, <1>4 DEF AuthTypes, TypeInv, UserTypes, Attached,
       Message, Fill, Goto, userVars, cacheVars, authVars
  <2> QED
    BY <2>1, <2>2, <2>3, <2>4 DEF TypeInv
<1>5. ASSUME NEW r \in Request, Refuse(r), UNCHANGED authVars
      PROVE  TypeInv'
  <2>1. UserTypes'
    BY UserAssumption, <1>5 DEF UserTypes, TypeInv, NoOne, View, RowState,
       EventType, Message, Attached, PcTypes, CtxTypes, Context, Refuse,
       Done, userVars, cacheVars, authVars
  <2>2. PcTypes'
    BY UserAssumption, <1>5 DEF PcTypes, TypeInv, UserTypes, NoOne, UserPC,
       Reading, Refuse, Done, userVars, cacheVars, authVars
  <2>3. CtxTypes'
    BY UserAssumption, <1>5 DEF CtxTypes, TypeInv, UserTypes, PcTypes,
       Context, View, Idle, Refuse, Done, userVars, cacheVars, authVars
  <2>4. AuthTypes'
    BY UserAssumption, <1>5 DEF AuthTypes, TypeInv, UserTypes, Attached,
       Message, Refuse, Done, userVars, cacheVars, authVars
  <2> QED
    BY <2>1, <2>2, <2>3, <2>4 DEF TypeInv
<1>6. ASSUME NEW r \in Request, SoftDelete(r), UNCHANGED authVars
      PROVE  TypeInv'
  <2>1. UserTypes'
    BY UserAssumption, <1>6 DEF UserTypes, TypeInv, NoOne, View, RowState,
       EventType, Message, Attached, PcTypes, CtxTypes, Context, SoftDelete,
       Goto, Loaded, Invalidate, authVars
  <2>2. PcTypes'
    BY UserAssumption, <1>6 DEF PcTypes, TypeInv, UserTypes, NoOne, UserPC,
       Reading, SoftDelete, Goto, Loaded, Invalidate, authVars
  <2>3. CtxTypes'
    BY UserAssumption, <1>6 DEF CtxTypes, TypeInv, UserTypes, PcTypes,
       Context, View, Idle, SoftDelete, Goto, Loaded, Invalidate, authVars
  <2>4. AuthTypes'
    BY UserAssumption, <1>6 DEF AuthTypes, TypeInv, UserTypes, Attached,
       Message, SoftDelete, Goto, Loaded, Invalidate, authVars
  <2> QED
    BY <2>1, <2>2, <2>3, <2>4 DEF TypeInv
<1>7. ASSUME NEW r \in Request, CommitDelete(r), UNCHANGED authVars
      PROVE  TypeInv'
  <2>1. UserTypes'
    <3>1. lock = r
      BY <1>7 DEF CommitDelete, TypeInv, PcTypes
    <3>2. Len(changes) < MaxChanges
      BY <3>1, UserAssumption DEF TypeInv, UserTypes, NoOne
    <3>3. /\ changes' \in Seq({"deleted", "restored"})
          /\ Len(changes') = Len(changes) + 1
          /\ Len(changes') \in 1..MaxChanges
      BY <1>7, <3>2, AppendChange DEF CommitDelete, TypeInv
    <3>4. \A m \in events' : m \in Message /\ m.change <= Len(changes')
       BY <1>7, <3>3, UserAssumption DEF CommitDelete, Announce, TypeInv,
         UserTypes,
         Message, EventType
    <3>5. row' \in [state : RowState, admin : BOOLEAN, sellers : Nat,
                   profile : BOOLEAN]
      BY <1>7 DEF CommitDelete, TypeInv, UserTypes, RowState
    <3>6. \A m \in events' : m.type = "seller.attached" => m = Attached
      BY <1>7 DEF CommitDelete, Announce, TypeInv, UserTypes
    <3>7. lock' = NoOne /\ UNCHANGED <<hit, neg>>
      BY <1>7 DEF CommitDelete, cacheVars
    <3> QED
      BY <3>3, <3>4, <3>5, <3>6, <3>7 DEF TypeInv, UserTypes
  <2>2. PcTypes'
    BY UserAssumption, <1>7 DEF PcTypes, TypeInv, UserTypes, NoOne, UserPC,
       Reading, CommitDelete, Done, Announce, cacheVars, authVars
  <2>3. CtxTypes'
    BY UserAssumption, <1>7 DEF CtxTypes, TypeInv, UserTypes, PcTypes,
       Context, View, Idle, CommitDelete, Done, Announce, cacheVars,
       authVars
  <2>4. AuthTypes'
    BY UserAssumption, <1>7 DEF AuthTypes, TypeInv, UserTypes, Attached,
       Message, CommitDelete, Done, Announce, cacheVars, authVars
  <2> QED
    BY <2>1, <2>2, <2>3, <2>4 DEF TypeInv
<1>8. ASSUME NEW r \in Request, HardDelete(r), UNCHANGED authVars
      PROVE  TypeInv'
  <2>1. UserTypes'
    BY UserAssumption, <1>8 DEF UserTypes, TypeInv, NoOne, View, RowState,
       EventType, Message, Attached, PcTypes, CtxTypes, Context, HardDelete,
       Done, Loaded, cacheVars, authVars
  <2>2. PcTypes'
    BY UserAssumption, <1>8 DEF PcTypes, TypeInv, UserTypes, NoOne, UserPC,
       Reading, HardDelete, Done, Loaded, cacheVars, authVars
  <2>3. CtxTypes'
    BY UserAssumption, <1>8 DEF CtxTypes, TypeInv, UserTypes, PcTypes,
       Context, View, Idle, HardDelete, Done, Loaded, cacheVars, authVars
  <2>4. AuthTypes'
    BY UserAssumption, <1>8 DEF AuthTypes, TypeInv, UserTypes, Attached,
       Message, HardDelete, Done, Loaded, cacheVars, authVars
  <2> QED
    BY <2>1, <2>2, <2>3, <2>4 DEF TypeInv
<1>9. ASSUME NEW r \in Request, RowIsGone(r), UNCHANGED authVars
      PROVE  TypeInv'
  <2>1. UserTypes'
    BY UserAssumption, <1>9 DEF UserTypes, TypeInv, NoOne, View, RowState,
       EventType, Message, Attached, PcTypes, CtxTypes, Context, RowIsGone,
       Done, userVars, cacheVars, authVars
  <2>2. PcTypes'
    BY UserAssumption, <1>9 DEF PcTypes, TypeInv, UserTypes, NoOne, UserPC,
       Reading, RowIsGone, Done, userVars, cacheVars, authVars
  <2>3. CtxTypes'
    BY UserAssumption, <1>9 DEF CtxTypes, TypeInv, UserTypes, PcTypes,
       Context, View, Idle, RowIsGone, Done, userVars, cacheVars, authVars
  <2>4. AuthTypes'
    BY UserAssumption, <1>9 DEF AuthTypes, TypeInv, UserTypes, Attached,
       Message, RowIsGone, Done, userVars, cacheVars, authVars
  <2> QED
    BY <2>1, <2>2, <2>3, <2>4 DEF TypeInv
<1>10. ASSUME NEW r \in Request, AttachSeller(r), UNCHANGED authVars
      PROVE  TypeInv'
  <2>1. UserTypes'
    <3>1. row' \in [state : RowState, admin : BOOLEAN, sellers : Nat,
                   profile : BOOLEAN]
      <4>1. row.sellers + 1 \in Nat
        BY DEF TypeInv, UserTypes
      <4>2. row' = [row EXCEPT !.sellers = row.sellers + 1, !.profile = TRUE]
        BY <1>10 DEF AttachSeller
      <4> QED
        BY <4>1, <4>2 DEF TypeInv, UserTypes
    <3>2. \A m \in events' : m \in Message /\ m.change <= Len(changes')
      BY <1>10, UserAssumption DEF AttachSeller, Announce, TypeInv, UserTypes,
         Message, EventType
    <3>3. \A m \in events' : m.type = "seller.attached" => m = Attached
      BY <1>10 DEF AttachSeller, Announce, TypeInv, UserTypes, Attached
    <3>4. UNCHANGED <<lock, changes, hit, neg>>
      BY <1>10 DEF AttachSeller, cacheVars
    <3>5. /\ changes' \in Seq({"deleted", "restored"})
          /\ Len(changes') \in 0..MaxChanges
          /\ lock' # NoOne => Len(changes') < MaxChanges
      BY <3>4 DEF TypeInv, UserTypes
    <3>6. /\ lock' \in Request \cup {NoOne}
          /\ hit' \in View \cup {"none"} /\ neg' \in BOOLEAN
      BY <3>4 DEF TypeInv, UserTypes
    <3> QED
      BY <3>1, <3>2, <3>3, <3>5, <3>6 DEF UserTypes
  <2>2. PcTypes'
    BY UserAssumption, <1>10 DEF PcTypes, TypeInv, UserTypes, NoOne, UserPC,
       Reading, AttachSeller, MayAttach, ProfileIsUnique, Loaded, Announce,
       Goto, cacheVars, authVars
  <2>3. CtxTypes'
    BY UserAssumption, <1>10 DEF CtxTypes, TypeInv, UserTypes, PcTypes,
       Context, View, Idle, AttachSeller, MayAttach, ProfileIsUnique,
       Loaded, Announce, Goto, cacheVars, authVars
  <2>4. AuthTypes'
    BY UserAssumption, <1>10 DEF AuthTypes, TypeInv, UserTypes, Attached,
       Message, AttachSeller, MayAttach, ProfileIsUnique, Loaded, Announce,
       Goto, cacheVars, authVars
  <2> QED
    BY <2>1, <2>2, <2>3, <2>4 DEF TypeInv
<1>11. ASSUME NEW r \in Request, AttachConflict(r), UNCHANGED authVars
      PROVE  TypeInv'
  <2>1. UserTypes'
    BY UserAssumption, <1>11 DEF UserTypes, TypeInv, NoOne, View, RowState,
       EventType, Message, Attached, PcTypes, CtxTypes, Context,
       AttachConflict, MayAttach, Loaded, Done, userVars, cacheVars,
       authVars
  <2>2. PcTypes'
    BY UserAssumption, <1>11 DEF PcTypes, TypeInv, UserTypes, NoOne, UserPC,
       Reading, AttachConflict, MayAttach, Loaded, Done, userVars,
       cacheVars, authVars
  <2>3. CtxTypes'
    BY UserAssumption, <1>11 DEF CtxTypes, TypeInv, UserTypes, PcTypes,
       Context, View, Idle, AttachConflict, MayAttach, Loaded, Done,
       userVars, cacheVars, authVars
  <2>4. AuthTypes'
    BY UserAssumption, <1>11 DEF AuthTypes, TypeInv, UserTypes, Attached,
       Message, AttachConflict, MayAttach, Loaded, Done, userVars,
       cacheVars, authVars
  <2> QED
    BY <2>1, <2>2, <2>3, <2>4 DEF TypeInv
<1>12. ASSUME NEW r \in Request, InvalidateAttached(r), UNCHANGED authVars
      PROVE  TypeInv'
  <2>1. UserTypes'
    BY UserAssumption, <1>12 DEF UserTypes, TypeInv, NoOne, View, RowState,
       EventType, Message, Attached, PcTypes, CtxTypes, Context,
       InvalidateAttached, Goto, Invalidate, userVars, authVars
  <2>2. PcTypes'
    BY UserAssumption, <1>12 DEF PcTypes, TypeInv, UserTypes, NoOne, UserPC,
       Reading, InvalidateAttached, Goto, Invalidate, userVars, authVars
  <2>3. CtxTypes'
    <3>1. PICK c \in Context : c = [ctx[r] EXCEPT !.op = "get", !.got = "none"]
       BY <1>12 DEF TypeInv, CtxTypes, UserTypes, Context, View,
         InvalidateAttached, Goto, Invalidate, userVars, authVars
    <3>2. ctx' = [ctx EXCEPT ![r] = c] /\ UNCHANGED changes
       BY <1>12, <3>1 DEF InvalidateAttached, Goto, Invalidate, userVars,
         authVars
    <3>3. c.change = ctx[r].change
      BY <3>1 DEF TypeInv, CtxTypes, Context
    <3> QED
      BY <3>1, <3>2, <3>3, SetContext DEF TypeInv
  <2>4. AuthTypes'
    BY UserAssumption, <1>12 DEF AuthTypes, TypeInv, UserTypes, Attached,
       Message, InvalidateAttached, Goto, Invalidate, userVars, authVars
  <2> QED
    BY <2>1, <2>2, <2>3, <2>4 DEF TypeInv
<1>13. ASSUME NEW r \in Request, ReadRestorable(r), UNCHANGED authVars
      PROVE  TypeInv'
  <2>1. UserTypes'
    BY UserAssumption, <1>13 DEF UserTypes, TypeInv, NoOne, View, RowState,
       EventType, Message, Attached, PcTypes, CtxTypes, Context,
       ReadRestorable, Goto, Done, userVars, cacheVars, authVars
  <2>2. PcTypes'
    BY UserAssumption, <1>13 DEF PcTypes, TypeInv, UserTypes, NoOne, UserPC,
       Reading, ReadRestorable, Goto, Done, userVars, cacheVars, authVars
  <2>3. CtxTypes'
    <3>1. CASE UNCHANGED ctx
      BY <1>13, <3>1 DEF ReadRestorable, userVars, TypeInv, CtxTypes
    <3>2. CASE ctx' = [ctx EXCEPT ![r] = Idle]
      BY <1>13, <3>2, UserAssumption DEF ReadRestorable, userVars, TypeInv,
         UserTypes, CtxTypes, Context, Idle
    <3> QED
      BY <1>13, <3>1, <3>2 DEF ReadRestorable, Done
  <2>4. AuthTypes'
    BY UserAssumption, <1>13 DEF AuthTypes, TypeInv, UserTypes, Attached,
       Message, ReadRestorable, Goto, Done, userVars, cacheVars, authVars
  <2> QED
    BY <2>1, <2>2, <2>3, <2>4 DEF TypeInv
<1>14. ASSUME NEW r \in Request, RestoreRow(r), UNCHANGED authVars
      PROVE  TypeInv'
  <2>1. UserTypes'
    <3>1. /\ changes' \in Seq({"deleted", "restored"})
          /\ Len(changes') = Len(changes) + 1
          /\ Len(changes') \in 1..MaxChanges
      BY <1>14, AppendChange DEF RestoreRow, TypeInv
    <3>2. \A m \in events' : m.change <= Len(changes')
       BY <1>14, <3>1, UserAssumption DEF RestoreRow, TypeInv, UserTypes,
         Message
    <3>3. row' \in [state : RowState, admin : BOOLEAN, sellers : Nat,
                   profile : BOOLEAN]
      BY <1>14 DEF RestoreRow, TypeInv, UserTypes, RowState
    <3>4. lock' = NoOne /\ UNCHANGED <<events, hit, neg>>
      BY <1>14 DEF RestoreRow, cacheVars
    <3> QED
      BY <3>1, <3>2, <3>3, <3>4 DEF TypeInv, UserTypes
  <2>2. PcTypes'
    BY UserAssumption, <1>14 DEF PcTypes, TypeInv, UserTypes, NoOne, UserPC,
       Reading, RestoreRow, Goto, cacheVars, authVars
  <2>3. CtxTypes'
    <3>1. Len(changes') = Len(changes) + 1 /\ Len(changes') \in 0..MaxChanges
      BY <2>1, <1>14, AppendChange DEF RestoreRow, TypeInv, UserTypes
    <3>2. PICK c \in Context : c = [ctx[r] EXCEPT !.change = Len(changes')]
      BY <3>1 DEF TypeInv, CtxTypes, Context
    <3>3. ctx' = [ctx EXCEPT ![r] = c] /\ c.change = Len(changes')
      BY <1>14, <3>2 DEF RestoreRow, TypeInv, CtxTypes, Context
    <3>4. ctx' \in [Request -> Context]
      BY <3>3 DEF TypeInv, CtxTypes
    <3>5. ASSUME NEW q \in Request, q # r
          PROVE  ctx'[q].change <= Len(changes')
      <4>1. ctx'[q] = ctx[q] /\ ctx[q].change <= Len(changes)
        BY <3>3, <3>5 DEF TypeInv, CtxTypes
      <4>2. ctx[q].change \in Nat /\ Len(changes) \in Nat
        BY UserAssumption DEF TypeInv, CtxTypes, UserTypes, Context
      <4> QED
        BY <3>1, <4>1, <4>2
    <3>6. ctx'[r].change <= Len(changes')
      BY <3>1, <3>3 DEF TypeInv, CtxTypes
    <3> QED
      BY <3>4, <3>5, <3>6 DEF CtxTypes
  <2>4. AuthTypes'
    BY UserAssumption, <1>14 DEF AuthTypes, TypeInv, UserTypes, Attached,
       Message, RestoreRow, Goto, cacheVars, authVars
  <2> QED
    BY <2>1, <2>2, <2>3, <2>4 DEF TypeInv
<1>15. ASSUME NEW r \in Request, InvalidateRestored(r), UNCHANGED authVars
      PROVE  TypeInv'
  <2>1. UserTypes'
    BY UserAssumption, <1>15 DEF UserTypes, TypeInv, NoOne, View, RowState,
       EventType, Message, Attached, PcTypes, CtxTypes, Context,
       InvalidateRestored, Goto, Invalidate, userVars, authVars
  <2>2. PcTypes'
    BY UserAssumption, <1>15 DEF PcTypes, TypeInv, UserTypes, NoOne, UserPC,
       Reading, InvalidateRestored, Goto, Invalidate, userVars, authVars
  <2>3. CtxTypes'
    BY UserAssumption, <1>15 DEF CtxTypes, TypeInv, UserTypes, PcTypes,
       Context, View, Idle, InvalidateRestored, Goto, Invalidate, userVars,
       authVars
  <2>4. AuthTypes'
    BY UserAssumption, <1>15 DEF AuthTypes, TypeInv, UserTypes, Attached,
       Message, InvalidateRestored, Goto, Invalidate, userVars, authVars
  <2> QED
    BY <2>1, <2>2, <2>3, <2>4 DEF TypeInv
<1>16. ASSUME NEW r \in Request, AnnounceRestored(r), UNCHANGED authVars
      PROVE  TypeInv'
  <2>1. UserTypes'
    BY UserAssumption, <1>16 DEF UserTypes, TypeInv, NoOne, View, RowState,
       EventType, Message, Attached, PcTypes, CtxTypes, Context,
       AnnounceRestored, Announce, Done, cacheVars, authVars
  <2>2. PcTypes'
    BY UserAssumption, <1>16 DEF PcTypes, TypeInv, UserTypes, NoOne, UserPC,
       Reading, AnnounceRestored, Announce, Done, cacheVars, authVars
  <2>3. CtxTypes'
    BY UserAssumption, <1>16 DEF CtxTypes, TypeInv, UserTypes, PcTypes,
       Context, View, Idle, AnnounceRestored, Announce, Done, cacheVars,
       authVars
  <2>4. AuthTypes'
    BY UserAssumption, <1>16 DEF AuthTypes, TypeInv, UserTypes, Attached,
       Message, AnnounceRestored, Announce, Done, cacheVars, authVars
  <2> QED
    BY <2>1, <2>2, <2>3, <2>4 DEF TypeInv
<1>17. ASSUME NEW r \in Request, RollbackDelete(r), UNCHANGED authVars
      PROVE  TypeInv'
  <2>1. UserTypes'
    BY UserAssumption, <1>17 DEF UserTypes, TypeInv, NoOne, View, RowState,
       EventType, Message, Attached, PcTypes, CtxTypes, Context,
       RollbackDelete, Done, cacheVars, authVars
  <2>2. PcTypes'
    BY UserAssumption, <1>17 DEF PcTypes, TypeInv, UserTypes, NoOne, UserPC,
       Reading, RollbackDelete, Done, cacheVars, authVars
  <2>3. CtxTypes'
    BY UserAssumption, <1>17 DEF CtxTypes, TypeInv, UserTypes, PcTypes,
       Context, View, Idle, RollbackDelete, Done, cacheVars, authVars
  <2>4. AuthTypes'
    BY UserAssumption, <1>17 DEF AuthTypes, TypeInv, UserTypes, Attached,
       Message, RollbackDelete, Done, cacheVars, authVars
  <2> QED
    BY <2>1, <2>2, <2>3, <2>4 DEF TypeInv
<1>18. ASSUME NEW r \in Request, Throw(r), UNCHANGED authVars
      PROVE  TypeInv'
  <2>1. UserTypes'
    BY UserAssumption, <1>18 DEF UserTypes, TypeInv, NoOne, View, RowState,
       EventType, Message, Attached, PcTypes, CtxTypes, Context, Throw,
       Done, userVars, cacheVars, authVars
  <2>2. PcTypes'
    BY UserAssumption, <1>18 DEF PcTypes, TypeInv, UserTypes, NoOne, UserPC,
       Reading, Throw, Done, userVars, cacheVars, authVars
  <2>3. CtxTypes'
    BY UserAssumption, <1>18 DEF CtxTypes, TypeInv, UserTypes, PcTypes,
       Context, View, Idle, Throw, Done, userVars, cacheVars, authVars
  <2>4. AuthTypes'
    BY UserAssumption, <1>18 DEF AuthTypes, TypeInv, UserTypes, Attached,
       Message, Throw, Done, userVars, cacheVars, authVars
  <2> QED
    BY <2>1, <2>2, <2>3, <2>4 DEF TypeInv
<1>19. ASSUME ExpireHit, UNCHANGED authVars
      PROVE  TypeInv'
  <2>1. UserTypes'
    BY UserAssumption, <1>19 DEF UserTypes, TypeInv, NoOne, View, RowState,
       EventType, Message, Attached, PcTypes, CtxTypes, Context, ExpireHit,
       userVars, callVars, authVars
  <2>2. PcTypes'
    BY UserAssumption, <1>19 DEF PcTypes, TypeInv, UserTypes, NoOne, UserPC,
       Reading, ExpireHit, userVars, callVars, authVars
  <2>3. CtxTypes'
    BY UserAssumption, <1>19 DEF CtxTypes, TypeInv, UserTypes, PcTypes,
       Context, View, Idle, ExpireHit, userVars, callVars, authVars
  <2>4. AuthTypes'
    BY UserAssumption, <1>19 DEF AuthTypes, TypeInv, UserTypes, Attached,
       Message, ExpireHit, userVars, callVars, authVars
  <2> QED
    BY <2>1, <2>2, <2>3, <2>4 DEF TypeInv
<1>20. ASSUME ExpireNeg, UNCHANGED authVars
      PROVE  TypeInv'
  <2>1. UserTypes'
    BY UserAssumption, <1>20 DEF UserTypes, TypeInv, NoOne, View, RowState,
       EventType, Message, Attached, PcTypes, CtxTypes, Context, ExpireNeg,
       userVars, callVars, authVars
  <2>2. PcTypes'
    BY UserAssumption, <1>20 DEF PcTypes, TypeInv, UserTypes, NoOne, UserPC,
       Reading, ExpireNeg, userVars, callVars, authVars
  <2>3. CtxTypes'
    BY UserAssumption, <1>20 DEF CtxTypes, TypeInv, UserTypes, PcTypes,
       Context, View, Idle, ExpireNeg, userVars, callVars, authVars
  <2>4. AuthTypes'
    BY UserAssumption, <1>20 DEF AuthTypes, TypeInv, UserTypes, Attached,
       Message, ExpireNeg, userVars, callVars, authVars
  <2> QED
    BY <2>1, <2>2, <2>3, <2>4 DEF TypeInv
<1>21. ASSUME NEW r \in Request, VerifyAccountRestore(r)
      PROVE  TypeInv'
  <2>1. UserTypes'
    BY UserAssumption, <1>21 DEF UserTypes, TypeInv, NoOne, View, RowState,
       EventType, Message, Attached, PcTypes, CtxTypes, Context,
       VerifyAccountRestore, Goto, userVars, cacheVars, authVars
  <2>2. PcTypes'
    BY UserAssumption, <1>21 DEF PcTypes, TypeInv, UserTypes, NoOne, UserPC,
       Reading, VerifyAccountRestore, Goto, userVars, cacheVars, authVars
  <2>3. CtxTypes'
    <3>1. PICK c \in Context : c = [ctx[r] EXCEPT !.op = "restore"]
       BY <1>21 DEF TypeInv, CtxTypes, UserTypes, Context, View,
         VerifyAccountRestore, Goto, userVars, cacheVars, authVars
    <3>2. ctx' = [ctx EXCEPT ![r] = c] /\ UNCHANGED changes
       BY <1>21, <3>1 DEF VerifyAccountRestore, Goto, userVars, cacheVars,
         authVars
    <3>3. c.change = ctx[r].change
      BY <3>1 DEF TypeInv, CtxTypes, Context
    <3> QED
      BY <3>1, <3>2, <3>3, SetContext DEF TypeInv
  <2>4. AuthTypes'
    BY UserAssumption, <1>21 DEF AuthTypes, TypeInv, UserTypes, Attached,
       Message, VerifyAccountRestore, Goto, userVars, cacheVars, authVars
  <2> QED
    BY <2>1, <2>2, <2>3, <2>4 DEF TypeInv
<1>22. ASSUME NEW r \in Request, ForgetOtp(r)
      PROVE  TypeInv'
  <2>1. UserTypes'
    BY UserAssumption, <1>22 DEF UserTypes, TypeInv, NoOne, View, RowState,
       EventType, Message, Attached, PcTypes, CtxTypes, Context, ForgetOtp,
       Goto, userVars, cacheVars, authVars
  <2>2. PcTypes'
    BY UserAssumption, <1>22 DEF PcTypes, TypeInv, UserTypes, NoOne, UserPC,
       Reading, ForgetOtp, Goto, userVars, cacheVars, authVars
  <2>3. CtxTypes'
    BY UserAssumption, <1>22 DEF CtxTypes, TypeInv, UserTypes, PcTypes,
       Context, View, Idle, ForgetOtp, Goto, userVars, cacheVars, authVars
  <2>4. AuthTypes'
    BY UserAssumption, <1>22 DEF AuthTypes, TypeInv, UserTypes, Attached,
       Message, ForgetOtp, Goto, userVars, cacheVars, authVars
  <2> QED
    BY <2>1, <2>2, <2>3, <2>4 DEF TypeInv
<1>23. ASSUME NEW r \in Request, CallAgain(r)
      PROVE  TypeInv'
  <2>1. UserTypes'
    BY UserAssumption, <1>23 DEF UserTypes, TypeInv, NoOne, View, RowState,
       EventType, Message, Attached, PcTypes, CtxTypes, Context, CallAgain,
       userVars, cacheVars, authVars
  <2>2. PcTypes'
    BY UserAssumption, <1>23 DEF PcTypes, TypeInv, UserTypes, NoOne, UserPC,
       Reading, CallAgain, userVars, cacheVars, authVars
  <2>3. CtxTypes'
    BY UserAssumption, <1>23 DEF CtxTypes, TypeInv, UserTypes, PcTypes,
       Context, View, Idle, CallAgain, userVars, cacheVars, authVars
  <2>4. AuthTypes'
    BY UserAssumption, <1>23 DEF AuthTypes, TypeInv, UserTypes, Attached,
       Message, CallAgain, userVars, cacheVars, authVars
  <2> QED
    BY <2>1, <2>2, <2>3, <2>4 DEF TypeInv
<1>24. ASSUME NEW w \in Consumer, NEW m \in events, IgnoreMessage(w, m)
      PROVE  TypeInv'
  <2>1. UserTypes'
    BY UserAssumption, <1>24 DEF UserTypes, TypeInv, NoOne, View, RowState,
       EventType, Message, Attached, PcTypes, CtxTypes, Context,
       IgnoreMessage, Take, Acknowledge, Recognised, recordVars
  <2>2. PcTypes'
    BY UserAssumption, <1>24 DEF PcTypes, TypeInv, UserTypes, NoOne, UserPC,
       Reading, IgnoreMessage, Take, Acknowledge, Recognised, recordVars
  <2>3. CtxTypes'
    BY UserAssumption, <1>24 DEF CtxTypes, TypeInv, UserTypes, PcTypes,
       Context, View, Idle, IgnoreMessage, Take, Acknowledge, Recognised,
       recordVars
  <2>4. AuthTypes'
    BY UserAssumption, <1>24 DEF AuthTypes, TypeInv, UserTypes, Attached,
       Message, IgnoreMessage, Take, Acknowledge, Recognised, recordVars
  <2> QED
    BY <2>1, <2>2, <2>3, <2>4 DEF TypeInv
<1>25. ASSUME NEW w \in Consumer, NEW m \in events, MarkDeleted(w, m)
      PROVE  TypeInv'
  <2>1. UserTypes'
    BY UserAssumption, <1>25 DEF UserTypes, TypeInv, NoOne, View, RowState,
       EventType, Message, Attached, PcTypes, CtxTypes, Context,
       MarkDeleted, Take, Acknowledge, Recognised, recordVars
  <2>2. PcTypes'
    BY UserAssumption, <1>25 DEF PcTypes, TypeInv, UserTypes, NoOne, UserPC,
       Reading, MarkDeleted, Take, Acknowledge, Recognised, recordVars
  <2>3. CtxTypes'
    BY UserAssumption, <1>25 DEF CtxTypes, TypeInv, UserTypes, PcTypes,
       Context, View, Idle, MarkDeleted, Take, Acknowledge, Recognised,
       recordVars
  <2>4. AuthTypes'
    <3>1. m.change \in Nat /\ m.change <= Len(changes) /\ Len(changes) \in Nat
      BY <1>25, UserAssumption DEF TypeInv, UserTypes, Message
    <3>2. m.change \in 0..Len(changes)
      BY <3>1
    <3>3. last' = m.change /\ UNCHANGED <<changes, events, handler>>
      BY <1>25 DEF MarkDeleted, recordVars
    <3>4. cred' \in [isDeleted : BOOLEAN, admin : BOOLEAN, seller : BOOLEAN]
      BY <1>25 DEF MarkDeleted, TypeInv, AuthTypes
    <3>5. acked' \subseteq events
      BY <1>25 DEF MarkDeleted, Acknowledge, TypeInv, AuthTypes
    <3>6. UNCHANGED otp
      BY <1>25 DEF MarkDeleted
    <3> QED
      BY <3>2, <3>3, <3>4, <3>5, <3>6 DEF TypeInv, AuthTypes
  <2> QED
    BY <2>1, <2>2, <2>3, <2>4 DEF TypeInv
<1>26. ASSUME NEW w \in Consumer, NEW m \in events, MarkRestored(w, m)
      PROVE  TypeInv'
  <2>1. UserTypes'
    BY UserAssumption, <1>26 DEF UserTypes, TypeInv, NoOne, View, RowState,
       EventType, Message, Attached, PcTypes, CtxTypes, Context,
       MarkRestored, Take, Acknowledge, Recognised, recordVars
  <2>2. PcTypes'
    BY UserAssumption, <1>26 DEF PcTypes, TypeInv, UserTypes, NoOne, UserPC,
       Reading, MarkRestored, Take, Acknowledge, Recognised, recordVars
  <2>3. CtxTypes'
    BY UserAssumption, <1>26 DEF CtxTypes, TypeInv, UserTypes, PcTypes,
       Context, View, Idle, MarkRestored, Take, Acknowledge, Recognised,
       recordVars
  <2>4. AuthTypes'
    <3>1. m.change \in Nat /\ m.change <= Len(changes) /\ Len(changes) \in Nat
      BY <1>26, UserAssumption DEF TypeInv, UserTypes, Message
    <3>2. m.change \in 0..Len(changes)
      BY <3>1
    <3>3. last' = m.change /\ UNCHANGED <<changes, events, handler>>
      BY <1>26 DEF MarkRestored, recordVars
    <3>4. cred' \in [isDeleted : BOOLEAN, admin : BOOLEAN, seller : BOOLEAN]
      BY <1>26 DEF MarkRestored, TypeInv, AuthTypes
    <3>5. acked' \subseteq events
      BY <1>26 DEF MarkRestored, Acknowledge, TypeInv, AuthTypes
    <3>6. UNCHANGED otp
      BY <1>26 DEF MarkRestored
    <3> QED
      BY <3>2, <3>3, <3>4, <3>5, <3>6 DEF TypeInv, AuthTypes
  <2> QED
    BY <2>1, <2>2, <2>3, <2>4 DEF TypeInv
<1>27. ASSUME NEW w \in Consumer, NEW m \in events, HasOrRefusesRole(w, m)
      PROVE  TypeInv'
  <2>1. UserTypes'
    BY UserAssumption, <1>27 DEF UserTypes, TypeInv, NoOne, View, RowState,
       EventType, Message, Attached, PcTypes, CtxTypes, Context,
       HasOrRefusesRole, Take, Acknowledge, Recognised, recordVars
  <2>2. PcTypes'
    BY UserAssumption, <1>27 DEF PcTypes, TypeInv, UserTypes, NoOne, UserPC,
       Reading, HasOrRefusesRole, Take, Acknowledge, Recognised, recordVars
  <2>3. CtxTypes'
    BY UserAssumption, <1>27 DEF CtxTypes, TypeInv, UserTypes, PcTypes,
       Context, View, Idle, HasOrRefusesRole, Take, Acknowledge, Recognised,
       recordVars
  <2>4. AuthTypes'
    BY UserAssumption, <1>27 DEF AuthTypes, TypeInv, UserTypes, Attached,
       Message, HasOrRefusesRole, Take, Acknowledge, Recognised, recordVars
  <2> QED
    BY <2>1, <2>2, <2>3, <2>4 DEF TypeInv
<1>28. ASSUME NEW w \in Consumer, NEW m \in events, ReadRoles(w, m)
      PROVE  TypeInv'
  <2>1. UserTypes'
    BY UserAssumption, <1>28 DEF UserTypes, TypeInv, NoOne, View, RowState,
       EventType, Message, Attached, PcTypes, CtxTypes, Context, ReadRoles,
       Take, Recognised, recordVars
  <2>2. PcTypes'
    BY UserAssumption, <1>28 DEF PcTypes, TypeInv, UserTypes, NoOne, UserPC,
       Reading, ReadRoles, Take, Recognised, recordVars
  <2>3. CtxTypes'
    BY UserAssumption, <1>28 DEF CtxTypes, TypeInv, UserTypes, PcTypes,
       Context, View, Idle, ReadRoles, Take, Recognised, recordVars
  <2>4. AuthTypes'
    BY UserAssumption, <1>28 DEF AuthTypes, TypeInv, UserTypes, Attached,
       Message, ReadRoles, Take, Recognised, recordVars
  <2> QED
    BY <2>1, <2>2, <2>3, <2>4 DEF TypeInv
<1>29. ASSUME NEW w \in Consumer, AddRole(w)
      PROVE  TypeInv'
  <2>1. UserTypes'
    BY UserAssumption, <1>29 DEF UserTypes, TypeInv, NoOne, View, RowState,
       EventType, Message, Attached, PcTypes, CtxTypes, Context, AddRole,
       AddRoleIfUnchanged, Acknowledge, recordVars
  <2>2. PcTypes'
    BY UserAssumption, <1>29 DEF PcTypes, TypeInv, UserTypes, NoOne, UserPC,
       Reading, AddRole, AddRoleIfUnchanged, Acknowledge, recordVars
  <2>3. CtxTypes'
    BY UserAssumption, <1>29 DEF CtxTypes, TypeInv, UserTypes, PcTypes,
       Context, View, Idle, AddRole, AddRoleIfUnchanged, Acknowledge,
       recordVars
  <2>4. AuthTypes'
    BY UserAssumption, <1>29 DEF AuthTypes, TypeInv, UserTypes, Attached,
       Message, AddRole, AddRoleIfUnchanged, Acknowledge, recordVars
  <2> QED
    BY <2>1, <2>2, <2>3, <2>4 DEF TypeInv
<1>30. ASSUME NEW w \in Consumer, HandlerFails(w)
      PROVE  TypeInv'
  <2>1. UserTypes'
    BY UserAssumption, <1>30 DEF UserTypes, TypeInv, NoOne, View, RowState,
       EventType, Message, Attached, PcTypes, CtxTypes, Context,
       HandlerFails, recordVars
  <2>2. PcTypes'
    BY UserAssumption, <1>30 DEF PcTypes, TypeInv, UserTypes, NoOne, UserPC,
       Reading, HandlerFails, recordVars
  <2>3. CtxTypes'
    BY UserAssumption, <1>30 DEF CtxTypes, TypeInv, UserTypes, PcTypes,
       Context, View, Idle, HandlerFails, recordVars
  <2>4. AuthTypes'
    BY UserAssumption, <1>30 DEF AuthTypes, TypeInv, UserTypes, Attached,
       Message, HandlerFails, recordVars
  <2> QED
    BY <2>1, <2>2, <2>3, <2>4 DEF TypeInv
<1>31. ASSUME RequestAccountRestore
      PROVE  TypeInv'
  <2>1. UserTypes'
    BY UserAssumption, <1>31 DEF UserTypes, TypeInv, NoOne, View, RowState,
       EventType, Message, Attached, PcTypes, CtxTypes, Context,
       RequestAccountRestore, recordVars
  <2>2. PcTypes'
    BY UserAssumption, <1>31 DEF PcTypes, TypeInv, UserTypes, NoOne, UserPC,
       Reading, RequestAccountRestore, recordVars
  <2>3. CtxTypes'
    BY UserAssumption, <1>31 DEF CtxTypes, TypeInv, UserTypes, PcTypes,
       Context, View, Idle, RequestAccountRestore, recordVars
  <2>4. AuthTypes'
    BY UserAssumption, <1>31 DEF AuthTypes, TypeInv, UserTypes, Attached,
       Message, RequestAccountRestore, recordVars
  <2> QED
    BY <2>1, <2>2, <2>3, <2>4 DEF TypeInv
<1>32. ASSUME OtpExpires
      PROVE  TypeInv'
  <2>1. UserTypes'
    BY UserAssumption, <1>32 DEF UserTypes, TypeInv, NoOne, View, RowState,
       EventType, Message, Attached, PcTypes, CtxTypes, Context, OtpExpires,
       recordVars
  <2>2. PcTypes'
    BY UserAssumption, <1>32 DEF PcTypes, TypeInv, UserTypes, NoOne, UserPC,
       Reading, OtpExpires, recordVars
  <2>3. CtxTypes'
    BY UserAssumption, <1>32 DEF CtxTypes, TypeInv, UserTypes, PcTypes,
       Context, View, Idle, OtpExpires, recordVars
  <2>4. AuthTypes'
    BY UserAssumption, <1>32 DEF AuthTypes, TypeInv, UserTypes, Attached,
       Message, OtpExpires, recordVars
  <2> QED
    BY <2>1, <2>2, <2>3, <2>4 DEF TypeInv
<1>33. CASE UNCHANGED vars
  BY <1>33 DEF TypeInv, UserTypes, PcTypes, CtxTypes, Context, AuthTypes,
     vars, recordVars, userVars, cacheVars, callVars, authVars
<1> QED
  BY <1>1, <1>2, <1>3, <1>4, <1>5, <1>6, <1>7, <1>8, <1>9, <1>10, <1>11,
     <1>12, <1>13, <1>14, <1>15, <1>16, <1>17, <1>18, <1>19, <1>20, <1>21,
     <1>22, <1>23, <1>24, <1>25, <1>26, <1>27, <1>28, <1>29, <1>30, <1>31,
     <1>32, <1>33 DEF Next, RecordsNext, UserStep, Handle

\* Type correctness of the records and their replica.
THEOREM TypeCorrect == Spec => []TypeOK
<1>1. TypeInv => TypeOK
  BY DEF TypeInv, UserTypes, PcTypes, CtxTypes, Context, AuthTypes, TypeOK,
     RecordsTypeOK
<1> QED
  BY InitType, TypeNext, <1>1, PTL DEF Spec

(***************************************************************************)
(* The seller's role.  What readers may have in hand says that an admin is  *)
(* not a customer, so no event is emitted for one.                         *)
(***************************************************************************)

SellerInv ==
    /\ SellerIsReplicated
    /\ cred.admin = row.admin
    /\ row.admin => hit \notin {"customer", "seller"}
    /\ row.admin => \A r \in Request : ctx[r].got \notin {"customer", "seller"}
    /\ row.admin => \A m \in events : m.type # "seller.attached"

\* No one is a seller at first.
LEMMA InitSeller == Init => SellerInv
  BY UserAssumption DEF Init, RecordsInit, Registered, Idle, SellerInv,
     SellerIsReplicated

\* Every step keeps the role's invariant.
LEMMA SellerNext ==
    ASSUME TypeInv, SellerInv, [Next]_vars
    PROVE  SellerInv'
<1>1. ASSUME NEW r \in Request, NEW op \in Op, Receive(r, op),
             UNCHANGED authVars
      PROVE  SellerInv'
  BY <1>1 DEF SellerInv, SellerIsReplicated, TypeInv, UserTypes, PcTypes,
     CtxTypes, Context, AuthTypes, Message, Attached, NoOne, View, Idle,
     Receive, Goto, userVars, cacheVars, authVars
<1>2. ASSUME NEW r \in Request, Lookup(r), UNCHANGED authVars
      PROVE  SellerInv'
  BY <1>2 DEF SellerInv, SellerIsReplicated, TypeInv, UserTypes, PcTypes,
     CtxTypes, Context, AuthTypes, Message, Attached, NoOne, View, Idle,
     Lookup, Goto, userVars, cacheVars, authVars
<1>3. ASSUME NEW r \in Request, Fetch(r), UNCHANGED authVars
      PROVE  SellerInv'
  BY <1>3 DEF SellerInv, SellerIsReplicated, TypeInv, UserTypes, PcTypes,
     CtxTypes, Context, AuthTypes, Message, Attached, NoOne, View, Idle,
     Fetch, Goto, FetchActive, Shown, userVars, cacheVars, authVars
<1>4. ASSUME NEW r \in Request, Fill(r), UNCHANGED authVars
      PROVE  SellerInv'
  BY <1>4 DEF SellerInv, SellerIsReplicated, TypeInv, UserTypes, PcTypes,
     CtxTypes, Context, AuthTypes, Message, Attached, NoOne, View, Idle,
     Fill, Goto, userVars, cacheVars, authVars
<1>5. ASSUME NEW r \in Request, Refuse(r), UNCHANGED authVars
      PROVE  SellerInv'
  BY <1>5 DEF SellerInv, SellerIsReplicated, TypeInv, UserTypes, PcTypes,
     CtxTypes, Context, AuthTypes, Message, Attached, NoOne, View, Idle,
     Refuse, Done, userVars, cacheVars, authVars
<1>6. ASSUME NEW r \in Request, SoftDelete(r), UNCHANGED authVars
      PROVE  SellerInv'
  BY <1>6 DEF SellerInv, SellerIsReplicated, TypeInv, UserTypes, PcTypes,
     CtxTypes, Context, AuthTypes, Message, Attached, NoOne, View, Idle,
     SoftDelete, Goto, Loaded, Invalidate, authVars
<1>7. ASSUME NEW r \in Request, CommitDelete(r), UNCHANGED authVars
      PROVE  SellerInv'
  BY <1>7 DEF SellerInv, SellerIsReplicated, TypeInv, UserTypes, PcTypes,
     CtxTypes, Context, AuthTypes, Message, Attached, NoOne, View, Idle,
     CommitDelete, Done, Announce, cacheVars, authVars
<1>8. ASSUME NEW r \in Request, HardDelete(r), UNCHANGED authVars
      PROVE  SellerInv'
  BY <1>8 DEF SellerInv, SellerIsReplicated, TypeInv, UserTypes, PcTypes,
     CtxTypes, Context, AuthTypes, Message, Attached, NoOne, View, Idle,
     HardDelete, Done, Loaded, cacheVars, authVars
<1>9. ASSUME NEW r \in Request, RowIsGone(r), UNCHANGED authVars
      PROVE  SellerInv'
  BY <1>9 DEF SellerInv, SellerIsReplicated, TypeInv, UserTypes, PcTypes,
     CtxTypes, Context, AuthTypes, Message, Attached, NoOne, View, Idle,
     RowIsGone, Done, userVars, cacheVars, authVars
<1>10. ASSUME NEW r \in Request, AttachSeller(r), UNCHANGED authVars
      PROVE  SellerInv'
  BY <1>10 DEF SellerInv, SellerIsReplicated, TypeInv, UserTypes, PcTypes,
     CtxTypes, Context, AuthTypes, Message, Attached, NoOne, View, Idle,
     AttachSeller, MayAttach, ProfileIsUnique, Loaded, Announce, Goto,
     cacheVars, authVars
<1>11. ASSUME NEW r \in Request, AttachConflict(r), UNCHANGED authVars
      PROVE  SellerInv'
  BY <1>11 DEF SellerInv, SellerIsReplicated, TypeInv, UserTypes, PcTypes,
     CtxTypes, Context, AuthTypes, Message, Attached, NoOne, View, Idle,
     AttachConflict, MayAttach, Loaded, Done, userVars, cacheVars, authVars
<1>12. ASSUME NEW r \in Request, InvalidateAttached(r), UNCHANGED authVars
      PROVE  SellerInv'
  BY <1>12 DEF SellerInv, SellerIsReplicated, TypeInv, UserTypes, PcTypes,
     CtxTypes, Context, AuthTypes, Message, Attached, NoOne, View, Idle,
     InvalidateAttached, Goto, Invalidate, userVars, authVars
<1>13. ASSUME NEW r \in Request, ReadRestorable(r), UNCHANGED authVars
      PROVE  SellerInv'
  <2>1. CASE UNCHANGED ctx
     BY <1>13, <2>1 DEF ReadRestorable, SellerInv, SellerIsReplicated,
       userVars,
       cacheVars, authVars
  <2>2. CASE ctx' = [ctx EXCEPT ![r] = Idle]
    <3>1. \A q \in Request : ctx'[q].got \in {ctx[q].got, "none"}
      BY <2>2 DEF TypeInv, CtxTypes, Idle
    <3>2. UNCHANGED <<row, events, hit, cred, acked>>
      BY <1>13 DEF ReadRestorable, userVars, cacheVars, authVars
    <3> QED
      BY <3>1, <3>2 DEF SellerInv, SellerIsReplicated
  <2> QED
    BY <1>13, <2>1, <2>2 DEF ReadRestorable, Done
<1>14. ASSUME NEW r \in Request, RestoreRow(r), UNCHANGED authVars
      PROVE  SellerInv'
  BY <1>14 DEF SellerInv, SellerIsReplicated, TypeInv, UserTypes, PcTypes,
     CtxTypes, Context, AuthTypes, Message, Attached, NoOne, View, Idle,
     RestoreRow, Goto, cacheVars, authVars
<1>15. ASSUME NEW r \in Request, InvalidateRestored(r), UNCHANGED authVars
      PROVE  SellerInv'
  BY <1>15 DEF SellerInv, SellerIsReplicated, TypeInv, UserTypes, PcTypes,
     CtxTypes, Context, AuthTypes, Message, Attached, NoOne, View, Idle,
     InvalidateRestored, Goto, Invalidate, userVars, authVars
<1>16. ASSUME NEW r \in Request, AnnounceRestored(r), UNCHANGED authVars
      PROVE  SellerInv'
  BY <1>16 DEF SellerInv, SellerIsReplicated, TypeInv, UserTypes, PcTypes,
     CtxTypes, Context, AuthTypes, Message, Attached, NoOne, View, Idle,
     AnnounceRestored, Announce, Done, cacheVars, authVars
<1>17. ASSUME NEW r \in Request, RollbackDelete(r), UNCHANGED authVars
      PROVE  SellerInv'
  BY <1>17 DEF SellerInv, SellerIsReplicated, TypeInv, UserTypes, PcTypes,
     CtxTypes, Context, AuthTypes, Message, Attached, NoOne, View, Idle,
     RollbackDelete, Done, cacheVars, authVars
<1>18. ASSUME NEW r \in Request, Throw(r), UNCHANGED authVars
      PROVE  SellerInv'
  BY <1>18 DEF SellerInv, SellerIsReplicated, TypeInv, UserTypes, PcTypes,
     CtxTypes, Context, AuthTypes, Message, Attached, NoOne, View, Idle,
     Throw, Done, userVars, cacheVars, authVars
<1>19. ASSUME ExpireHit, UNCHANGED authVars
      PROVE  SellerInv'
  BY <1>19 DEF SellerInv, SellerIsReplicated, TypeInv, UserTypes, PcTypes,
     CtxTypes, Context, AuthTypes, Message, Attached, NoOne, View, Idle,
     ExpireHit, userVars, callVars, authVars
<1>20. ASSUME ExpireNeg, UNCHANGED authVars
      PROVE  SellerInv'
  BY <1>20 DEF SellerInv, SellerIsReplicated, TypeInv, UserTypes, PcTypes,
     CtxTypes, Context, AuthTypes, Message, Attached, NoOne, View, Idle,
     ExpireNeg, userVars, callVars, authVars
<1>21. ASSUME NEW r \in Request, VerifyAccountRestore(r)
      PROVE  SellerInv'
  BY <1>21 DEF SellerInv, SellerIsReplicated, TypeInv, UserTypes, PcTypes,
     CtxTypes, Context, AuthTypes, Message, Attached, NoOne, View, Idle,
     VerifyAccountRestore, Goto, userVars, cacheVars, authVars
<1>22. ASSUME NEW r \in Request, ForgetOtp(r)
      PROVE  SellerInv'
  BY <1>22 DEF SellerInv, SellerIsReplicated, TypeInv, UserTypes, PcTypes,
     CtxTypes, Context, AuthTypes, Message, Attached, NoOne, View, Idle,
     ForgetOtp, Goto, userVars, cacheVars, authVars
<1>23. ASSUME NEW r \in Request, CallAgain(r)
      PROVE  SellerInv'
  BY <1>23 DEF SellerInv, SellerIsReplicated, TypeInv, UserTypes, PcTypes,
     CtxTypes, Context, AuthTypes, Message, Attached, NoOne, View, Idle,
     CallAgain, userVars, cacheVars, authVars
<1>24. ASSUME NEW w \in Consumer, NEW m \in events, IgnoreMessage(w, m)
      PROVE  SellerInv'
  BY <1>24 DEF SellerInv, SellerIsReplicated, TypeInv, UserTypes, PcTypes,
     CtxTypes, Context, AuthTypes, Message, Attached, NoOne, View, Idle,
     IgnoreMessage, Take, Acknowledge, Recognised, recordVars
<1>25. ASSUME NEW w \in Consumer, NEW m \in events, MarkDeleted(w, m)
      PROVE  SellerInv'
  BY <1>25 DEF SellerInv, SellerIsReplicated, TypeInv, UserTypes, PcTypes,
     CtxTypes, Context, AuthTypes, Message, Attached, NoOne, View, Idle,
     MarkDeleted, Take, Acknowledge, Recognised, recordVars
<1>26. ASSUME NEW w \in Consumer, NEW m \in events, MarkRestored(w, m)
      PROVE  SellerInv'
  BY <1>26 DEF SellerInv, SellerIsReplicated, TypeInv, UserTypes, PcTypes,
     CtxTypes, Context, AuthTypes, Message, Attached, NoOne, View, Idle,
     MarkRestored, Take, Acknowledge, Recognised, recordVars
<1>27. ASSUME NEW w \in Consumer, NEW m \in events, HasOrRefusesRole(w, m)
      PROVE  SellerInv'
  BY <1>27 DEF SellerInv, SellerIsReplicated, TypeInv, UserTypes, PcTypes,
     CtxTypes, Context, AuthTypes, Message, Attached, NoOne, View, Idle,
     HasOrRefusesRole, Take, Acknowledge, Recognised, recordVars
<1>28. ASSUME NEW w \in Consumer, NEW m \in events, ReadRoles(w, m)
      PROVE  SellerInv'
  BY <1>28 DEF SellerInv, SellerIsReplicated, TypeInv, UserTypes, PcTypes,
     CtxTypes, Context, AuthTypes, Message, Attached, NoOne, View, Idle,
     ReadRoles, Take, Recognised, recordVars
<1>29. ASSUME NEW w \in Consumer, AddRole(w)
      PROVE  SellerInv'
  BY <1>29 DEF SellerInv, SellerIsReplicated, TypeInv, UserTypes, PcTypes,
     CtxTypes, Context, AuthTypes, Message, Attached, NoOne, View, Idle,
     AddRole, AddRoleIfUnchanged, Acknowledge, recordVars
<1>30. ASSUME NEW w \in Consumer, HandlerFails(w)
      PROVE  SellerInv'
  BY <1>30 DEF SellerInv, SellerIsReplicated, TypeInv, UserTypes, PcTypes,
     CtxTypes, Context, AuthTypes, Message, Attached, NoOne, View, Idle,
     HandlerFails, recordVars
<1>31. ASSUME RequestAccountRestore
      PROVE  SellerInv'
  BY <1>31 DEF SellerInv, SellerIsReplicated, TypeInv, UserTypes, PcTypes,
     CtxTypes, Context, AuthTypes, Message, Attached, NoOne, View, Idle,
     RequestAccountRestore, recordVars
<1>32. ASSUME OtpExpires
      PROVE  SellerInv'
  BY <1>32 DEF SellerInv, SellerIsReplicated, TypeInv, UserTypes, PcTypes,
     CtxTypes, Context, AuthTypes, Message, Attached, NoOne, View, Idle,
     OtpExpires, recordVars
<1>33. CASE UNCHANGED vars
  BY <1>33 DEF SellerInv, SellerIsReplicated, TypeInv, UserTypes, PcTypes,
     CtxTypes, Context, AuthTypes, Message, Attached, NoOne, View, Idle,
     vars, recordVars, userVars, cacheVars, callVars, authVars
<1> QED
  BY <1>1, <1>2, <1>3, <1>4, <1>5, <1>6, <1>7, <1>8, <1>9, <1>10, <1>11,
     <1>12, <1>13, <1>14, <1>15, <1>16, <1>17, <1>18, <1>19, <1>20, <1>21,
     <1>22, <1>23, <1>24, <1>25, <1>26, <1>27, <1>28, <1>29, <1>30, <1>31,
     <1>32, <1>33 DEF Next, RecordsNext, UserStep, Handle

\* The role of a seller is attached once, replicated when acknowledged, and
\* never given to an admin.
THEOREM SellersAreReplicated == Spec => []SellerIsReplicated
<1>1. SellerInv => SellerIsReplicated
  BY DEF SellerInv
<1> QED
  BY InitType, TypeNext, InitSeller, SellerNext, <1>1, PTL DEF Spec

(***************************************************************************)
(* Deletions and restores.  The row shows its latest change, the credential *)
(* the change it heard of last, and a restore that is not announced yet     *)
(* knows its own.                                                          *)
(***************************************************************************)

RowFollows ==
    row.state # "gone" =>
        row.state = (IF changes # <<>> /\ changes[Len(changes)] = "deleted"
                     THEN "deleted" ELSE "active")

ReplicaFollows ==
    cred.isDeleted = (last # 0 /\ changes[last] = "deleted")

RestoresUnderWay ==
    \A r \in Request : pc[r] \in {"restored", "announce"} =>
        ctx[r].change \in 1..Len(changes) /\ changes[ctx[r].change] = "restored"

ChangeInv ==
    /\ ChangesAreAnnounced
    /\ RowFollows
    /\ ReplicaFollows
    /\ RestoresUnderWay

\* Nothing is deleted at first, and nobody has heard of it.
LEMMA InitChange == Init => ChangeInv
<1> SUFFICES ASSUME Init PROVE ChangeInv
  OBVIOUS
<1> USE DEF Init, RecordsInit, Registered
<1>1. Len(changes) = 0 /\ changes = <<>> /\ events = {Registered}
  OBVIOUS
<1>2. ChangesAreAnnounced
  BY <1>1 DEF ChangesAreAnnounced
<1>3. RowFollows
  BY <1>1 DEF RowFollows
<1>4. ReplicaFollows
  BY DEF ReplicaFollows
<1>5. RestoresUnderWay
  BY DEF RestoresUnderWay
<1> QED
  BY <1>2, <1>3, <1>4, <1>5 DEF ChangeInv

\* Every step keeps the history's invariant.
LEMMA ChangeNext ==
    ASSUME TypeInv, ChangeInv, [Next]_vars
    PROVE  ChangeInv'
<1>1. ASSUME NEW r \in Request, NEW op \in Op, Receive(r, op),
             UNCHANGED authVars
      PROVE  ChangeInv'
  BY <1>1 DEF ChangeInv, ChangesAreAnnounced, RowFollows, ReplicaFollows,
     RestoresUnderWay, TypeInv, UserTypes, PcTypes, CtxTypes, Context,
     AuthTypes, Message, NoOne, Idle, Receive, Goto, userVars, cacheVars,
     authVars
<1>2. ASSUME NEW r \in Request, Lookup(r), UNCHANGED authVars
      PROVE  ChangeInv'
  BY <1>2 DEF ChangeInv, ChangesAreAnnounced, RowFollows, ReplicaFollows,
     RestoresUnderWay, TypeInv, UserTypes, PcTypes, CtxTypes, Context,
     AuthTypes, Message, NoOne, Idle, Lookup, Goto, userVars, cacheVars,
     authVars
<1>3. ASSUME NEW r \in Request, Fetch(r), UNCHANGED authVars
      PROVE  ChangeInv'
  BY <1>3 DEF ChangeInv, ChangesAreAnnounced, RowFollows, ReplicaFollows,
     RestoresUnderWay, TypeInv, UserTypes, PcTypes, CtxTypes, Context,
     AuthTypes, Message, NoOne, Idle, Fetch, Goto, FetchActive, Shown,
     userVars, cacheVars, authVars
<1>4. ASSUME NEW r \in Request, Fill(r), UNCHANGED authVars
      PROVE  ChangeInv'
  BY <1>4 DEF ChangeInv, ChangesAreAnnounced, RowFollows, ReplicaFollows,
     RestoresUnderWay, TypeInv, UserTypes, PcTypes, CtxTypes, Context,
     AuthTypes, Message, NoOne, Idle, Fill, Goto, userVars, cacheVars,
     authVars
<1>5. ASSUME NEW r \in Request, Refuse(r), UNCHANGED authVars
      PROVE  ChangeInv'
  BY <1>5 DEF ChangeInv, ChangesAreAnnounced, RowFollows, ReplicaFollows,
     RestoresUnderWay, TypeInv, UserTypes, PcTypes, CtxTypes, Context,
     AuthTypes, Message, NoOne, Idle, Refuse, Done, userVars, cacheVars,
     authVars
<1>6. ASSUME NEW r \in Request, SoftDelete(r), UNCHANGED authVars
      PROVE  ChangeInv'
  BY <1>6 DEF ChangeInv, ChangesAreAnnounced, RowFollows, ReplicaFollows,
     RestoresUnderWay, TypeInv, UserTypes, PcTypes, CtxTypes, Context,
     AuthTypes, Message, NoOne, Idle, SoftDelete, Goto, Loaded, Invalidate,
     authVars
<1>7. ASSUME NEW r \in Request, CommitDelete(r), UNCHANGED authVars
      PROVE  ChangeInv'
  BY <1>7 DEF ChangeInv, ChangesAreAnnounced, RowFollows, ReplicaFollows,
     RestoresUnderWay, TypeInv, UserTypes, PcTypes, CtxTypes, Context,
     AuthTypes, Message, NoOne, Idle, CommitDelete, Done, Announce,
     cacheVars, authVars
<1>8. ASSUME NEW r \in Request, HardDelete(r), UNCHANGED authVars
      PROVE  ChangeInv'
  BY <1>8 DEF ChangeInv, ChangesAreAnnounced, RowFollows, ReplicaFollows,
     RestoresUnderWay, TypeInv, UserTypes, PcTypes, CtxTypes, Context,
     AuthTypes, Message, NoOne, Idle, HardDelete, Done, Loaded, cacheVars,
     authVars
<1>9. ASSUME NEW r \in Request, RowIsGone(r), UNCHANGED authVars
      PROVE  ChangeInv'
  BY <1>9 DEF ChangeInv, ChangesAreAnnounced, RowFollows, ReplicaFollows,
     RestoresUnderWay, TypeInv, UserTypes, PcTypes, CtxTypes, Context,
     AuthTypes, Message, NoOne, Idle, RowIsGone, Done, userVars, cacheVars,
     authVars
<1>10. ASSUME NEW r \in Request, AttachSeller(r), UNCHANGED authVars
      PROVE  ChangeInv'
  BY <1>10 DEF ChangeInv, ChangesAreAnnounced, RowFollows, ReplicaFollows,
     RestoresUnderWay, TypeInv, UserTypes, PcTypes, CtxTypes, Context,
     AuthTypes, Message, NoOne, Idle, AttachSeller, MayAttach,
     ProfileIsUnique, Loaded, Announce, Goto, cacheVars, authVars
<1>11. ASSUME NEW r \in Request, AttachConflict(r), UNCHANGED authVars
      PROVE  ChangeInv'
  BY <1>11 DEF ChangeInv, ChangesAreAnnounced, RowFollows, ReplicaFollows,
     RestoresUnderWay, TypeInv, UserTypes, PcTypes, CtxTypes, Context,
     AuthTypes, Message, NoOne, Idle, AttachConflict, MayAttach, Loaded,
     Done, userVars, cacheVars, authVars
<1>12. ASSUME NEW r \in Request, InvalidateAttached(r), UNCHANGED authVars
      PROVE  ChangeInv'
  BY <1>12 DEF ChangeInv, ChangesAreAnnounced, RowFollows, ReplicaFollows,
     RestoresUnderWay, TypeInv, UserTypes, PcTypes, CtxTypes, Context,
     AuthTypes, Message, NoOne, Idle, InvalidateAttached, Goto, Invalidate,
     userVars, authVars
<1>13. ASSUME NEW r \in Request, ReadRestorable(r), UNCHANGED authVars
      PROVE  ChangeInv'
  BY <1>13 DEF ChangeInv, ChangesAreAnnounced, RowFollows, ReplicaFollows,
     RestoresUnderWay, TypeInv, UserTypes, PcTypes, CtxTypes, Context,
     AuthTypes, Message, NoOne, Idle, ReadRestorable, Goto, Done, userVars,
     cacheVars, authVars
<1>14. ASSUME NEW r \in Request, RestoreRow(r), UNCHANGED authVars
      PROVE  ChangeInv'
  BY <1>14 DEF ChangeInv, ChangesAreAnnounced, RowFollows, ReplicaFollows,
     RestoresUnderWay, TypeInv, UserTypes, PcTypes, CtxTypes, Context,
     AuthTypes, Message, NoOne, Idle, RestoreRow, Goto, cacheVars, authVars
<1>15. ASSUME NEW r \in Request, InvalidateRestored(r), UNCHANGED authVars
      PROVE  ChangeInv'
  BY <1>15 DEF ChangeInv, ChangesAreAnnounced, RowFollows, ReplicaFollows,
     RestoresUnderWay, TypeInv, UserTypes, PcTypes, CtxTypes, Context,
     AuthTypes, Message, NoOne, Idle, InvalidateRestored, Goto, Invalidate,
     userVars, authVars
<1>16. ASSUME NEW r \in Request, AnnounceRestored(r), UNCHANGED authVars
      PROVE  ChangeInv'
  BY <1>16 DEF ChangeInv, ChangesAreAnnounced, RowFollows, ReplicaFollows,
     RestoresUnderWay, TypeInv, UserTypes, PcTypes, CtxTypes, Context,
     AuthTypes, Message, NoOne, Idle, AnnounceRestored, Announce, Done,
     cacheVars, authVars
<1>17. ASSUME NEW r \in Request, RollbackDelete(r), UNCHANGED authVars
      PROVE  ChangeInv'
  BY <1>17 DEF ChangeInv, ChangesAreAnnounced, RowFollows, ReplicaFollows,
     RestoresUnderWay, TypeInv, UserTypes, PcTypes, CtxTypes, Context,
     AuthTypes, Message, NoOne, Idle, RollbackDelete, Done, cacheVars,
     authVars
<1>18. ASSUME NEW r \in Request, Throw(r), UNCHANGED authVars
      PROVE  ChangeInv'
  BY <1>18 DEF ChangeInv, ChangesAreAnnounced, RowFollows, ReplicaFollows,
     RestoresUnderWay, TypeInv, UserTypes, PcTypes, CtxTypes, Context,
     AuthTypes, Message, NoOne, Idle, Throw, Done, userVars, cacheVars,
     authVars
<1>19. ASSUME ExpireHit, UNCHANGED authVars
      PROVE  ChangeInv'
  BY <1>19 DEF ChangeInv, ChangesAreAnnounced, RowFollows, ReplicaFollows,
     RestoresUnderWay, TypeInv, UserTypes, PcTypes, CtxTypes, Context,
     AuthTypes, Message, NoOne, Idle, ExpireHit, userVars, callVars,
     authVars
<1>20. ASSUME ExpireNeg, UNCHANGED authVars
      PROVE  ChangeInv'
  BY <1>20 DEF ChangeInv, ChangesAreAnnounced, RowFollows, ReplicaFollows,
     RestoresUnderWay, TypeInv, UserTypes, PcTypes, CtxTypes, Context,
     AuthTypes, Message, NoOne, Idle, ExpireNeg, userVars, callVars,
     authVars
<1>21. ASSUME NEW r \in Request, VerifyAccountRestore(r)
      PROVE  ChangeInv'
  BY <1>21 DEF ChangeInv, ChangesAreAnnounced, RowFollows, ReplicaFollows,
     RestoresUnderWay, TypeInv, UserTypes, PcTypes, CtxTypes, Context,
     AuthTypes, Message, NoOne, Idle, VerifyAccountRestore, Goto, userVars,
     cacheVars, authVars
<1>22. ASSUME NEW r \in Request, ForgetOtp(r)
      PROVE  ChangeInv'
  BY <1>22 DEF ChangeInv, ChangesAreAnnounced, RowFollows, ReplicaFollows,
     RestoresUnderWay, TypeInv, UserTypes, PcTypes, CtxTypes, Context,
     AuthTypes, Message, NoOne, Idle, ForgetOtp, Goto, userVars, cacheVars,
     authVars
<1>23. ASSUME NEW r \in Request, CallAgain(r)
      PROVE  ChangeInv'
  BY <1>23 DEF ChangeInv, ChangesAreAnnounced, RowFollows, ReplicaFollows,
     RestoresUnderWay, TypeInv, UserTypes, PcTypes, CtxTypes, Context,
     AuthTypes, Message, NoOne, Idle, CallAgain, userVars, cacheVars,
     authVars
<1>24. ASSUME NEW w \in Consumer, NEW m \in events, IgnoreMessage(w, m)
      PROVE  ChangeInv'
  BY <1>24 DEF ChangeInv, ChangesAreAnnounced, RowFollows, ReplicaFollows,
     RestoresUnderWay, TypeInv, UserTypes, PcTypes, CtxTypes, Context,
     AuthTypes, Message, NoOne, Idle, IgnoreMessage, Take, Acknowledge,
     Recognised, recordVars
<1>25. ASSUME NEW w \in Consumer, NEW m \in events, MarkDeleted(w, m)
      PROVE  ChangeInv'
  <2>1. m.type = "user.deleted" /\ m \in events
    BY <1>25 DEF MarkDeleted, Take, Recognised
  <2>2. m.change \in 1..Len(changes) /\ changes[m.change] = "deleted"
    BY <2>1 DEF ChangeInv, ChangesAreAnnounced
  <2>3. last' = m.change /\ cred'.isDeleted = TRUE
    BY <1>25 DEF MarkDeleted, TypeInv, AuthTypes
  <2>4. UNCHANGED <<row, changes, events, pc, ctx>>
    BY <1>25 DEF MarkDeleted, recordVars
  <2>5. m.change # 0
    BY <2>2
  <2>6. last' # 0 /\ changes'[last'] = "deleted"
    BY <2>2, <2>3, <2>4, <2>5
  <2>7. ReplicaFollows'
    BY <2>3, <2>6 DEF ReplicaFollows
  <2> QED
    BY <2>4, <2>7 DEF ChangeInv, ChangesAreAnnounced, RowFollows,
       RestoresUnderWay
<1>26. ASSUME NEW w \in Consumer, NEW m \in events, MarkRestored(w, m)
      PROVE  ChangeInv'
  BY <1>26 DEF ChangeInv, ChangesAreAnnounced, RowFollows, ReplicaFollows,
     RestoresUnderWay, TypeInv, UserTypes, PcTypes, CtxTypes, Context,
     AuthTypes, Message, NoOne, Idle, MarkRestored, Take, Acknowledge,
     Recognised, recordVars
<1>27. ASSUME NEW w \in Consumer, NEW m \in events, HasOrRefusesRole(w, m)
      PROVE  ChangeInv'
  BY <1>27 DEF ChangeInv, ChangesAreAnnounced, RowFollows, ReplicaFollows,
     RestoresUnderWay, TypeInv, UserTypes, PcTypes, CtxTypes, Context,
     AuthTypes, Message, NoOne, Idle, HasOrRefusesRole, Take, Acknowledge,
     Recognised, recordVars
<1>28. ASSUME NEW w \in Consumer, NEW m \in events, ReadRoles(w, m)
      PROVE  ChangeInv'
  BY <1>28 DEF ChangeInv, ChangesAreAnnounced, RowFollows, ReplicaFollows,
     RestoresUnderWay, TypeInv, UserTypes, PcTypes, CtxTypes, Context,
     AuthTypes, Message, NoOne, Idle, ReadRoles, Take, Recognised,
     recordVars
<1>29. ASSUME NEW w \in Consumer, AddRole(w)
      PROVE  ChangeInv'
  BY <1>29 DEF ChangeInv, ChangesAreAnnounced, RowFollows, ReplicaFollows,
     RestoresUnderWay, TypeInv, UserTypes, PcTypes, CtxTypes, Context,
     AuthTypes, Message, NoOne, Idle, AddRole, AddRoleIfUnchanged,
     Acknowledge, recordVars
<1>30. ASSUME NEW w \in Consumer, HandlerFails(w)
      PROVE  ChangeInv'
  BY <1>30 DEF ChangeInv, ChangesAreAnnounced, RowFollows, ReplicaFollows,
     RestoresUnderWay, TypeInv, UserTypes, PcTypes, CtxTypes, Context,
     AuthTypes, Message, NoOne, Idle, HandlerFails, recordVars
<1>31. ASSUME RequestAccountRestore
      PROVE  ChangeInv'
  BY <1>31 DEF ChangeInv, ChangesAreAnnounced, RowFollows, ReplicaFollows,
     RestoresUnderWay, TypeInv, UserTypes, PcTypes, CtxTypes, Context,
     AuthTypes, Message, NoOne, Idle, RequestAccountRestore, recordVars
<1>32. ASSUME OtpExpires
      PROVE  ChangeInv'
  BY <1>32 DEF ChangeInv, ChangesAreAnnounced, RowFollows, ReplicaFollows,
     RestoresUnderWay, TypeInv, UserTypes, PcTypes, CtxTypes, Context,
     AuthTypes, Message, NoOne, Idle, OtpExpires, recordVars
<1>33. CASE UNCHANGED vars
  BY <1>33 DEF ChangeInv, ChangesAreAnnounced, RowFollows, ReplicaFollows,
     RestoresUnderWay, TypeInv, UserTypes, PcTypes, CtxTypes, Context,
     AuthTypes, Message, NoOne, Idle, vars, recordVars, userVars, cacheVars,
     callVars, authVars
<1> QED
  BY <1>1, <1>2, <1>3, <1>4, <1>5, <1>6, <1>7, <1>8, <1>9, <1>10, <1>11,
     <1>12, <1>13, <1>14, <1>15, <1>16, <1>17, <1>18, <1>19, <1>20, <1>21,
     <1>22, <1>23, <1>24, <1>25, <1>26, <1>27, <1>28, <1>29, <1>30, <1>31,
     <1>32, <1>33 DEF Next, RecordsNext, UserStep, Handle

\* The credential agrees with the row once it has heard the latest change,
\* whatever was reordered, repeated and lost before.
THEOREM ReplicasConverge == Spec => []ReplicaConverges
<1>1. TypeInv /\ ChangeInv => ReplicaConverges
  BY DEF ReplicaConverges, ChangeInv, RowFollows, ReplicaFollows, TypeInv,
     UserTypes, AuthTypes
<1> QED
  BY InitType, TypeNext, InitChange, ChangeNext, <1>1, PTL DEF Spec
=============================================================================
