----------------------------- MODULE DeadLetters ----------------------------
(***************************************************************************)
(* The dead-letter table of user-service: messages of the dead-letter      *)
(* topic are recorded, an admin lists the table page by page and sends     *)
(* records back to domain-events, while more records arrive.               *)
(*                                                                         *)
(* A row has a place: the order of <<createdAt, id>>, by which the pages   *)
(* are cut; ids are random, so a row may take any free place of its time.  *)
(* Rows are never deleted.  What a listing may be filtered by (source, type) *)
(* is a constant of the event; malformed messages are discarded unseen.    *)
(***************************************************************************)
EXTENDS Naturals, FiniteSets

CONSTANTS Dead,       \* dead events: a source and an event id
          FromSource, \* those a filtered listing asks for
          Places,     \* bound: places of the order
          PageLimit   \* limit of the listing

ASSUME DeadAssumption ==
    /\ IsFiniteSet(Dead) /\ FromSource \subseteq Dead
    /\ Places \in Nat /\ PageLimit \in Nat \ {0}

VARIABLES deadQueue,   \* messages to be delivered (again)
          deadPlace,   \* deadPlace[e]: the place of its row, 0 without one
          pagePc,      \* the listing: "off", "on" or "done"
          pageFilter,  \* what it asks for
          pageStart,   \* the cursor it began with
          pageCursor,  \* the cursor of the next page
          pageSeen,    \* pageSeen[e]: how often it showed e
          pageOld      \* rows there were when it began (history)

deadVars == <<deadQueue, deadPlace>>
pageVars == <<pagePc, pageFilter, pageStart, pageCursor, pageSeen, pageOld>>
dlqVars == <<deadVars, pageVars>>

Place == 1..Places

DeadTypeOK ==
    /\ deadQueue \subseteq Dead
    /\ deadPlace \in [Dead -> 0..Places]
    /\ pagePc \in {"off", "on", "done"}
    /\ pageFilter \subseteq Dead
    /\ pageStart \in 0..Places /\ pageCursor \in 0..Places
    /\ pageSeen \in [Dead -> Nat]
    /\ pageOld \subseteq Dead

DeadInit ==
    /\ deadQueue = {}
    /\ deadPlace = [e \in Dead |-> 0]
    /\ pagePc = "off" /\ pageFilter = {} /\ pageOld = {}
    /\ pageStart = 0 /\ pageCursor = 0
    /\ pageSeen = [e \in Dead |-> 0]

Recorded == {e \in Dead : deadPlace[e] # 0}
-----------------------------------------------------------------------------
\* A service gives up on an event.
Dies(e) ==
    /\ e \notin Recorded
    /\ deadQueue' = deadQueue \cup {e}
    /\ UNCHANGED <<deadPlace, pageVars>>

\* The message is acknowledged, or delivered again all the same.
Acknowledged(e) == deadQueue' \in {deadQueue, deadQueue \ {e}}

RecordDead(e, n) ==
    /\ e \in deadQueue \ Recorded
    /\ \A other \in Recorded : deadPlace[other] # n
    /\ deadPlace' = [deadPlace EXCEPT ![e] = n]
    /\ Acknowledged(e)
    /\ UNCHANGED pageVars

\* P2002: the unique index on the source and the event id.
AlreadyRecorded(e) ==
    /\ e \in deadQueue \cap Recorded
    /\ Acknowledged(e)
    /\ UNCHANGED <<deadPlace, pageVars>>

\* redriveDeadLetter keeps the row; an event that dies again comes back.
Redrive(e) ==
    /\ e \in Recorded
    /\ deadQueue' \in {deadQueue, deadQueue \cup {e}}
    /\ UNCHANGED <<deadPlace, pageVars>>
-----------------------------------------------------------------------------
\* The first request of a listing.  decodeCursor throws without a cursor, so
\* the client brings one; a listing from the beginning has one before any row.
ListFrom(filter, n) ==
    /\ pagePc = "off"
    /\ pagePc' = "on"
    /\ pageFilter' = filter
    /\ pageStart' = n /\ pageCursor' = n
    /\ pageOld' = Recorded
    /\ UNCHANGED <<deadVars, pageSeen>>

\* Mutant: the cursor's own row is asked for again.
FromCursor(filter, cursor) ==
    {e \in filter \cap Recorded : deadPlace[e] >= cursor}

\* buildCursorWhere.
AfterCursor(filter, cursor) ==
    {e \in filter \cap Recorded : deadPlace[e] > cursor}

\* The rows of a set that come first in the order, at most n of them.
FirstOf(rows, n) ==
    {e \in rows : Cardinality({o \in rows : deadPlace[o] <= deadPlace[e]}) <= n}

\* take: limit + 1 tells whether there is more; the cursor of the last row
\* shown is the next one, and a page without rows has none.
Page ==
    LET found == FirstOf(AfterCursor(pageFilter, pageCursor), PageLimit + 1)
        data  == FirstOf(found, PageLimit)
    IN
    /\ pagePc = "on"
    /\ pageSeen' = [e \in Dead |-> pageSeen[e] + IF e \in data THEN 1 ELSE 0]
    /\ \/ data = {} /\ UNCHANGED pageCursor
       \/ \E last \in data : /\ \A e \in data : deadPlace[e] <= deadPlace[last]
                             /\ pageCursor' = deadPlace[last]
    /\ pagePc' = IF Cardinality(found) > PageLimit THEN "on" ELSE "done"
    /\ UNCHANGED <<deadVars, pageFilter, pageStart, pageOld>>

DeadNext ==
    \/ \E e \in Dead : \/ Dies(e) \/ AlreadyRecorded(e) \/ Redrive(e)
                       \/ \E n \in Place : RecordDead(e, n)
    \/ \E filter \in {Dead, FromSource}, n \in 0..Places : ListFrom(filter, n)
    \/ Page
-----------------------------------------------------------------------------
\* Whatever is recorded between two pages, a listing shows no row twice, and
\* when it says there is no more it has shown every row of its filter that was
\* there when it began, and none from before its first cursor.
PagesAreComplete ==
    /\ \A e \in Dead : pageSeen[e] <= 1
    /\ \A e \in Dead : pageSeen[e] = 1 =>
          e \in pageFilter /\ deadPlace[e] > pageStart
    /\ pagePc = "done" =>
          \A e \in pageOld \cap pageFilter :
              deadPlace[e] > pageStart => pageSeen[e] = 1
=============================================================================
