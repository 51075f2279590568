--------------------------- MODULE ServicesProofs ---------------------------
(* Theorems about Services for any number of requests, instances, invites   *)
(* and attempts.  Each part has an invariant of its own, which the steps of *)
(* the other parts leave alone.                                             *)
EXTENDS Services, FiniteSetTheorems, WellFoundedInduction, TLAPS

(***************************************************************************)
(* Lifecycle.  Once main() is done nothing sets the timer again, and what   *)
(* stop() found in flight is among what the shutdown waits for.            *)
(***************************************************************************)

LifeInv ==
    /\ lifeService \in DOMAIN Startup
    /\ lifeStep \in Nat \ {0}
    /\ timer \in BOOLEAN
    /\ lifeUp => IsUp /\ shutdown # "no"
    /\ timer \/ batch => "poller" \in Channels[lifeService]
    /\ shutdown = "channels" /\ lifeUp =>
          ~timer /\ (batch => "poller" \in closing)
    /\ exit = "0" => shutdown = "channels" /\ closing = {}

\* Whoever starts a poller also closes it.
LEMMA PollersAreClosed ==
    ASSUME lifeService \in DOMAIN Startup, lifeStep \in Nat \ {0}, At("poller")
    PROVE  "poller" \in Channels[lifeService]
<1> USE DEF At, Steps, Startup, Channels, AuthChannels, UserChannels
<1>1. CASE lifeService \in {"auth", "user"}
  BY <1>1
<1>2. CASE lifeService = "notification"
  BY <1>2 DEF IsUp, NotificationStartup
<1>3. CASE lifeService = "gateway"
  BY <1>3 DEF IsUp, GatewayStartup
<1> QED
  BY <1>1, <1>2, <1>3

\* Every step of a process keeps its invariant.
LEMMA LifeStep ==
    ASSUME LifeInv, LifeNext
    PROVE  LifeInv'
<1> USE DEF LifeInv
<1>1. ASSUME StepDone
      PROVE  LifeInv'
  BY <1>1 DEF StepDone, IsUp, Steps
<1>2. ASSUME PollerStarts
      PROVE  LifeInv'
  BY <1>2, PollersAreClosed DEF PollerStarts, At, IsUp, Steps
<1>3. ASSUME StartFails
      PROVE  LifeInv'
  BY <1>3 DEF StartFails, IsUp, Steps
<1>4. ASSUME BatchBegins
      PROVE  LifeInv'
  BY <1>4 DEF BatchBegins, IsUp, Steps
<1>5. ASSUME BatchEnds
      PROVE  LifeInv'
  <2>1. CASE At("poller")
    <3>1. ~lifeUp /\ "poller" \in Channels[lifeService]
      BY <2>1, PollersAreClosed DEF At
    <3>2. timer' \in BOOLEAN
      BY <1>5, <2>1, Zenon DEF BatchEnds
    <3>3. lifeStep' \in Nat \ {0}
      BY <1>5, <2>1 DEF BatchEnds
    <3> QED
      BY <1>5, <3>1, <3>2, <3>3 DEF BatchEnds
  <2>2. CASE ~At("poller")
    BY <1>5, <2>2 DEF BatchEnds, IsUp, Steps
  <2> QED
    BY <2>1, <2>2
<1>6. ASSUME Signal
      PROVE  LifeInv'
  BY <1>6 DEF Signal, IsUp, Steps
<1>7. ASSUME CloseChannels
      PROVE  LifeInv'
  BY <1>7 DEF CloseChannels, ClosedAtOnce, IsUp, Steps
<1>8. ASSUME Exit
      PROVE  LifeInv'
  BY <1>8 DEF Exit, IsUp, Steps
<1>9. ASSUME Watchdog
      PROVE  LifeInv'
  BY <1>9 DEF Watchdog, IsUp, Steps
<1>10. ASSUME NEW ch \in closing, ChannelCloses(ch)
       PROVE  LifeInv'
  BY <1>10 DEF ChannelCloses, IsUp, Steps
<1> QED
  BY <1>1, <1>2, <1>3, <1>4, <1>5, <1>6, <1>7, <1>8, <1>9, <1>10 DEF LifeNext

\* A process that was up when the signal came leaves no batch behind when it
\* exits with 0, in any of the four services.
THEOREM ExitsAreClean == Spec => []ExitIsClean
<1>1. Init => LifeInv
  <2>1. Init => lifeService \in DOMAIN Startup
    BY DEF Init, Startup
  <2>2. Init => timer \in BOOLEAN
    BY Zenon DEF Init, LifeInit
  <2> QED
    BY <2>1, <2>2 DEF Init, LifeInit, LifeInv
<1>2. LifeInv /\ [Next]_vars => LifeInv'
  <2> SUFFICES ASSUME LifeInv, [Next]_vars PROVE LifeInv'
    OBVIOUS
  <2>1. LifeNext \/ UNCHANGED lifeVars
    BY DEF Next, OtpSteps, ResetSteps, InviteSteps, BootSteps, BreakerSteps,
       In, LimiterSteps, LifeSteps, DeadSteps, SurfSteps, vars
  <2>2. CASE UNCHANGED lifeVars
    BY <2>2 DEF LifeInv, lifeVars, IsUp, Steps
  <2> QED
    BY <2>1, <2>2, LifeStep
<1>3. LifeInv => ExitIsClean
  BY DEF LifeInv, ExitIsClean
<1> QED
  BY <1>1, <1>2, <1>3, PTL DEF Spec

(***************************************************************************)
(* Admin invites.  At most one invite is consumed, by the credential there *)
(* is; at most one request works on that credential, and only while its    *)
(* acceptance has not returned.                                            *)
(***************************************************************************)

Holding(c) == acceptPc[c] \in {"profile", "undo"}

InviteTypes ==
    /\ invites \in [Invite -> [status : InviteStatus, by : Nat, overdue : BOOLEAN]]
    /\ adminCred \in Nat /\ adminProfile \in Nat /\ adminIds \in Nat
    /\ acceptPc \in [Client -> {"idle", "expire", "findEmail", "consume",
                                "profile", "undo"}]
    /\ acceptOf \in [Client -> [invite : Invite \cup {"none"}, id : Nat]]
    /\ \A c \in Client : acceptPc[c] # "idle" => acceptOf[c].invite \in Invite

HoldersAreOne ==
    /\ \A c \in Client : Holding(c) => /\ adminCred = acceptOf[c].id
                                       /\ adminCred # 0
                                       /\ adminCred \notin accepted
    /\ \A c, d \in Client : Holding(c) /\ Holding(d) => c = d

ConsumedIsOne ==
    /\ \A i \in Invite : invites[i].status = "CONSUMED" =>
          invites[i].by # 0 /\ adminCred = invites[i].by
    /\ \A i, j \in Invite :
          invites[i].status = "CONSUMED" /\ invites[j].status = "CONSUMED" => i = j
    /\ adminCred # 0 => \E i \in Invite : /\ invites[i].status = "CONSUMED"
                                          /\ invites[i].by = adminCred
    /\ \A c \in Client : Holding(c) => invites[acceptOf[c].invite].status = "CONSUMED"

AcceptedStays == \A id \in accepted : id # 0 /\ adminCred = id /\ adminProfile = id

InviteInv == InviteTypes /\ HoldersAreOne /\ ConsumedIsOne /\ AcceptedStays

\* A step keeps the invariant that leaves alone what is held and consumed.
LEMMA NothingBought ==
    ASSUME InviteInv, InviteTypes',
           UNCHANGED <<adminCred, adminProfile, accepted>>,
           \A j \in Invite : /\ invites'[j].by = invites[j].by
                             /\ (invites'[j].status = "CONSUMED")
                                   = (invites[j].status = "CONSUMED"),
           \A d \in Client : Holding(d)' = Holding(d),
           \A d \in Client : Holding(d) => acceptOf'[d] = acceptOf[d]
    PROVE  InviteInv'
<1>1. HoldersAreOne'
  BY DEF InviteInv, HoldersAreOne
<1>2. ConsumedIsOne'
  <2>1. \A c \in Client : Holding(c) => acceptOf[c].invite \in Invite
    BY DEF InviteInv, InviteTypes, Holding
  <2> QED
    BY <2>1 DEF InviteInv, ConsumedIsOne
<1>3. AcceptedStays'
  BY DEF InviteInv, AcceptedStays
<1> QED
  BY <1>1, <1>2, <1>3 DEF InviteInv

\* Every step of an invite keeps its invariant.
LEMMA InviteStep ==
    ASSUME InviteInv, InvitesNext
    PROVE  InviteInv'
<1> USE DEF InviteInv, InviteTypes, InviteStatus, Holding
<1>1. ASSUME NEW i \in Invite, CreateInvite(i)
      PROVE  InviteInv'
  BY <1>1 DEF CreateInvite, HoldersAreOne, ConsumedIsOne, AcceptedStays
<1>2. ASSUME NEW i \in Invite, TimePasses(i)
      PROVE  InviteInv'
  <2>1. InviteTypes'
    BY <1>2 DEF TimePasses
  <2>2. /\ invites' = [invites EXCEPT ![i].overdue = TRUE]
        /\ UNCHANGED <<adminCred, adminProfile, accepted, acceptPc, acceptOf>>
    BY <1>2 DEF TimePasses
  <2> QED
    BY <2>1, <2>2, NothingBought
<1>3. ASSUME NEW c \in Client, NEW i \in Invite, FindOverdue(c, i) \/ FindInvite(c, i)
      PROVE  InviteInv'
  <2>1. /\ acceptPc[c] = "idle"
        /\ \E to \in {"expire", "findEmail"} : acceptPc' = [acceptPc EXCEPT ![c] = to]
        /\ acceptOf' = [acceptOf EXCEPT ![c].invite = i]
        /\ UNCHANGED inviteRows
    BY <1>3 DEF FindOverdue, FindInvite, Moves
  <2>2. InviteTypes'
    BY <2>1 DEF inviteRows
  <2> QED
    BY <2>1, <2>2, NothingBought DEF inviteRows
<1>4. ASSUME NEW c \in Client, MarkExpired(c)
      PROVE  InviteInv'
  <2> DEFINE i == acceptOf[c].invite
  <2>1. /\ acceptPc[c] = "expire" /\ i \in Invite
        /\ acceptPc' = [acceptPc EXCEPT ![c] = "idle"]
        /\ acceptOf' = [acceptOf EXCEPT ![c] = NoAccept]
        /\ UNCHANGED <<adminCred, adminProfile, adminIds, accepted>>
    BY <1>4 DEF MarkExpired, Leave, Moves
  <2>2. \/ /\ invites[i].status = "PENDING"
           /\ invites' = [invites EXCEPT ![i].status = "EXPIRED"]
        \/ UNCHANGED invites
    BY <1>4 DEF MarkExpired
  <2>3. InviteTypes'
    BY <2>1, <2>2 DEF NoAccept
  <2> QED
    BY <2>1, <2>2, <2>3, NothingBought
<1>5. ASSUME NEW c \in Client, FindEmail(c) \/ RollBack(c)
      PROVE  InviteInv'
  <2>1. /\ acceptPc[c] \in {"findEmail", "consume"}
        /\ \/ /\ acceptPc' = [acceptPc EXCEPT ![c] = "idle"]
              /\ acceptOf' = [acceptOf EXCEPT ![c] = NoAccept]
           \/ /\ acceptPc' = [acceptPc EXCEPT ![c] = "consume"]
              /\ UNCHANGED acceptOf
        /\ UNCHANGED inviteRows
    BY <1>5 DEF FindEmail, RollBack, Leave, Moves
  <2>2. InviteTypes'
    BY <2>1 DEF inviteRows, NoAccept
  <2> QED
    BY <2>1, <2>2, NothingBought DEF inviteRows
<1>6. ASSUME NEW c \in Client, Consume(c)
      PROVE  InviteInv'
  <2> DEFINE i == acceptOf[c].invite
  <2>1. i \in Invite /\ acceptPc[c] = "consume" /\ adminCred = 0
    BY <1>6 DEF Consume, Moves
  <2>2. adminCred' # 0 /\ adminCred' = adminIds + 1 /\ UNCHANGED <<accepted, adminProfile>>
    BY <1>6 DEF Consume
  <2>3. accepted = {} /\ \A d \in Client : ~Holding(d)
    BY <2>1 DEF HoldersAreOne, AcceptedStays
  <2>4. \A j \in Invite : invites[j].status # "CONSUMED"
    BY <2>1 DEF ConsumedIsOne
  <2>5. invites' = [invites EXCEPT ![i].status = "CONSUMED", ![i].by = adminCred']
    BY <1>6 DEF Consume
  <2>6. acceptPc' = [acceptPc EXCEPT ![c] = "profile"]
        /\ acceptOf' = [acceptOf EXCEPT ![c].id = adminCred']
    BY <1>6 DEF Consume, Moves
  <2>7. InviteTypes'
    BY <1>6, <2>1, <2>2, <2>5, <2>6 DEF Consume
  <2>8. HoldersAreOne'
    BY <2>1, <2>2, <2>3, <2>6 DEF HoldersAreOne
  <2>9. ConsumedIsOne'
    BY <2>1, <2>2, <2>3, <2>4, <2>5, <2>6 DEF ConsumedIsOne
  <2>10. AcceptedStays'
    BY <2>2, <2>3 DEF AcceptedStays
  <2> QED
    BY <2>7, <2>8, <2>9, <2>10
<1>7. ASSUME NEW c \in Client, CreateProfile(c)
      PROVE  InviteInv'
  <2> DEFINE id == acceptOf[c].id
  <2>1. Holding(c) /\ adminCred = id /\ id # 0 /\ accepted = {}
    BY <1>7 DEF CreateProfile, Leave, Moves, HoldersAreOne, AcceptedStays
  <2>2. CASE Leave(c, "profile") /\ adminProfile' = id /\ accepted' = accepted \cup {id}
    BY <1>7, <2>1, <2>2 DEF CreateProfile, Leave, NoAccept, Moves, HoldersAreOne,
       ConsumedIsOne, AcceptedStays
  <2>3. CASE Moves(acceptPc, c, "profile", "undo") /\ UNCHANGED <<acceptOf, accepted>>
    BY <1>7, <2>1, <2>3 DEF CreateProfile, Moves, HoldersAreOne,
       ConsumedIsOne, AcceptedStays
  <2> QED
    BY <1>7, <2>2, <2>3 DEF CreateProfile
<1>8. ASSUME NEW c \in Client, Undo(c)
      PROVE  InviteInv'
  <2> DEFINE i  == acceptOf[c].invite
             id == acceptOf[c].id
  <2>1. /\ Holding(c) /\ adminCred = id /\ id # 0 /\ accepted = {}
        /\ i \in Invite /\ invites[i].status = "CONSUMED" /\ invites[i].by = id
    BY <1>8 DEF Undo, Leave, Moves, HoldersAreOne, AcceptedStays, ConsumedIsOne
  <2>2. CASE UNCHANGED <<adminCred, invites>>
    BY <1>8, <2>1, <2>2 DEF Undo, Leave, NoAccept, Moves, HoldersAreOne,
       ConsumedIsOne, AcceptedStays
  <2>3. CASE adminCred' = 0 /\ invites' = Reopen(i, id)
    <3>1. invites' = [invites EXCEPT ![i].status = "PENDING", ![i].by = 0]
      BY <2>1, <2>3 DEF Reopen
    <3>2. \A d \in Client : acceptPc'[d] \notin {"profile", "undo"}
      BY <1>8, <2>1 DEF Undo, Leave, Moves, HoldersAreOne
    <3>3. InviteTypes'
      BY <1>8, <2>1, <2>3, <3>1 DEF Undo, Leave, NoAccept, Moves
    <3>4. ConsumedIsOne'
      BY <2>1, <2>3, <3>1, <3>2 DEF ConsumedIsOne
    <3> QED
      BY <1>8, <2>1, <3>2, <3>3, <3>4 DEF Undo, HoldersAreOne, AcceptedStays
  <2> QED
    BY <1>8, <2>2, <2>3 DEF Undo
<1> QED
  BY <1>1, <1>2, <1>3, <1>4, <1>5, <1>6, <1>7, <1>8 DEF InvitesNext

(***************************************************************************)
(* Bootstrap.  At most one instance works on the credential there is, and  *)
(* it is the one that created it.                                          *)
(***************************************************************************)

Owns(c) == bootPc[c] \in {"profile", "audit", "undo", "created"}

BootInv ==
    /\ superCred \in Nat /\ superProfile \in Nat /\ superIds \in Nat
    /\ bootPc \in [Client -> {"find", "ensure", "create", "recheck", "profile",
                              "audit", "undo", "created", "found", "failed"}]
    /\ bootId \in [Client -> Nat]
    /\ \A c \in Client : Owns(c) => superCred = bootId[c] /\ superCred # 0
    /\ \A c, d \in Client : Owns(c) /\ Owns(d) => c = d
    /\ \A c \in Client :
          bootPc[c] \in {"audit", "created"} => superProfile = bootId[c]

\* Every step of an instance keeps its invariant.
LEMMA BootStep ==
    ASSUME BootInv, BootNext
    PROVE  BootInv'
<1> USE DEF BootInv, Owns, Moves, superRows
<1> SUFFICES ASSUME NEW c \in Client,
                    \/ FindSuperAdmin(c) \/ EnsureProfile(c)
                    \/ CreateCredential(c) \/ LoseRace(c) \/ Recheck(c)
                    \/ CallProfile(c) \/ WriteAudit(c) \/ UndoCreate(c)
             PROVE  BootInv'
  BY DEF BootNext
<1>1. CASE FindSuperAdmin(c)
  BY <1>1 DEF FindSuperAdmin
<1>2. CASE EnsureProfile(c)
  BY <1>2 DEF EnsureProfile, Profiles
<1>3. CASE CreateCredential(c)
  BY <1>3 DEF CreateCredential
<1>4. CASE LoseRace(c)
  BY <1>4 DEF LoseRace
<1>5. CASE Recheck(c)
  BY <1>5 DEF Recheck, TryAgain
<1>6. CASE CallProfile(c)
  BY <1>6 DEF CallProfile, Profiles
<1>7. CASE WriteAudit(c)
  BY <1>7 DEF WriteAudit
<1>8. CASE UndoCreate(c)
  BY <1>8 DEF UndoCreate, TryAgain, IsOwn
<1> QED
  BY <1>1, <1>2, <1>3, <1>4, <1>5, <1>6, <1>7, <1>8

\* Whatever overlaps, fails and is undone, an admin that was accepted or
\* created is whole and stays, and an invite is spent if and only if the
\* credential it bought is there.
THEOREM AdminsStayWhole == Spec => []AdminsAreWhole
<1>1. Init => InviteInv /\ BootInv
  <2>1. Init => InviteTypes
    BY DEF Init, InvitesInit, InviteTypes, InviteStatus, NoAccept
  <2>2. Init => InviteInv
    BY <2>1 DEF Init, InvitesInit, InviteInv, HoldersAreOne, ConsumedIsOne,
       AcceptedStays, Holding
  <2>3. Init => BootInv
    BY DEF Init, BootInit, BootInv, Owns
  <2> QED
    BY <2>2, <2>3
<1>2. InviteInv /\ BootInv /\ [Next]_vars => (InviteInv /\ BootInv)'
  <2> SUFFICES ASSUME InviteInv, BootInv, [Next]_vars
               PROVE  (InviteInv /\ BootInv)'
    OBVIOUS
  <2>1. InvitesNext \/ UNCHANGED inviteVars
    BY DEF Next, OtpSteps, ResetSteps, InviteSteps, BootSteps, BreakerSteps,
       In, LimiterSteps, LifeSteps, DeadSteps, SurfSteps, vars
  <2>2. BootNext \/ UNCHANGED bootVars
    BY DEF Next, OtpSteps, ResetSteps, InviteSteps, BootSteps, BreakerSteps,
       In, LimiterSteps, LifeSteps, DeadSteps, SurfSteps, vars
  <2>3. UNCHANGED inviteVars => InviteInv'
    BY DEF inviteVars, InviteInv, InviteTypes, HoldersAreOne, ConsumedIsOne,
       AcceptedStays, Holding
  <2>4. UNCHANGED bootVars => BootInv'
    BY DEF bootVars, BootInv, Owns
  <2> QED
    BY <2>1, <2>2, <2>3, <2>4, InviteStep, BootStep
<1>3. InviteInv /\ BootInv => AdminsAreWhole
  BY DEF InviteInv, ConsumedIsOne, AcceptedStays, BootInv, Owns, AdminsAreWhole,
     InvitesBuyAdmins, BootstrapsAreWhole
<1> QED
  BY <1>1, <1>2, <1>3, PTL DEF Spec
(***************************************************************************)
(* Pages of dead letters.  A listing has shown exactly the rows of its      *)
(* filter, old enough, between its first and its present cursor.           *)
(***************************************************************************)

\* A set of natural numbers has a smallest one.
LEMMA SmallestOf ==
    ASSUME NEW T \in SUBSET Nat, T # {}
    PROVE  \E x \in T : \A y \in T : x <= y
<1> DEFINE R == {p \in Nat \X Nat : p[1] < p[2]}
<1>1. IsWellFoundedOn(R, Nat)
  BY NatLessThanWellFounded, Zenon DEF OpToRel
<1>2. PICK x \in T : \A y \in T : ~ (<<y, x>> \in R)
  <2> HIDE DEF R
  <2> QED
    BY <1>1, WFMin, Zenon
<1>3. \A y \in T : ~ (y < x)
  BY <1>2
<1>4. \A y \in T : x <= y
  BY <1>3
<1> QED
  BY <1>4

Placed(rows) ==
    /\ rows \subseteq Dead
    /\ deadPlace \in [Dead -> Nat]
    /\ \A e, o \in rows : deadPlace[e] = deadPlace[o] => e = o

\* The first rows of a set come before all its others.
LEMMA FirstIsClosed ==
    ASSUME NEW rows, Placed(rows), NEW n \in Nat, NEW e \in FirstOf(rows, n),
           NEW o \in rows, deadPlace[o] <= deadPlace[e]
    PROVE  o \in FirstOf(rows, n)
<1> DEFINE Upto(x) == {r \in rows : deadPlace[r] <= deadPlace[x]}
<1>1. e \in rows /\ Cardinality(Upto(e)) <= n
  BY DEF FirstOf
<1>2. Upto(o) \subseteq Upto(e)
  BY <1>1 DEF Placed
<1>3. IsFiniteSet(Upto(e))
  BY DeadAssumption, FS_Subset DEF Placed
<1>4. Cardinality(Upto(o)) <= Cardinality(Upto(e))
  BY <1>2, <1>3, FS_Subset
<1>5. Cardinality(Upto(o)) \in Nat /\ Cardinality(Upto(e)) \in Nat
  BY <1>2, <1>3, FS_Subset, FS_CardinalityType
<1>6. Cardinality(Upto(o)) <= n
  BY <1>1, <1>4, <1>5
<1> QED
  BY <1>6 DEF FirstOf

\* A set of no more than n rows is what comes first in it.
LEMMA FewAreAll ==
    ASSUME NEW rows, Placed(rows), NEW n \in Nat, Cardinality(rows) <= n
    PROVE  FirstOf(rows, n) = rows
<1>1. IsFiniteSet(rows)
  BY DeadAssumption, FS_Subset DEF Placed
<1>2. ASSUME NEW e \in rows
      PROVE  Cardinality({o \in rows : deadPlace[o] <= deadPlace[e]}) <= n
  <2> DEFINE S == {o \in rows : deadPlace[o] <= deadPlace[e]}
  <2>1. S \subseteq rows
    OBVIOUS
  <2>2. IsFiniteSet(S) /\ Cardinality(S) <= Cardinality(rows)
    BY <1>1, <2>1, FS_Subset
  <2>3. Cardinality(S) \in Nat /\ Cardinality(rows) \in Nat
    BY <1>1, <2>2, FS_CardinalityType
  <2> QED
    BY <2>2, <2>3
<1> QED
  BY <1>2 DEF FirstOf

\* When n + 1 rows were asked for and fewer came, they are all there are.
LEMMA NoMoreIsAll ==
    ASSUME NEW rows, Placed(rows), NEW n \in Nat,
           Cardinality(FirstOf(rows, n + 1)) <= n
    PROVE  FirstOf(rows, n + 1) = rows
<1> DEFINE F   == FirstOf(rows, n + 1)
           bad == rows \ F
<1>1. IsFiniteSet(rows) /\ F \subseteq rows
  BY DeadAssumption, FS_Subset DEF Placed, FirstOf
<1>2. SUFFICES ASSUME bad # {} PROVE FALSE
  BY <1>1
<1>3. PICK e \in bad : \A o \in bad : deadPlace[e] <= deadPlace[o]
  <2> DEFINE T == {deadPlace[o] : o \in bad}
  <2>1. T \in SUBSET Nat /\ T # {}
    BY <1>2 DEF Placed
  <2>2. PICK x \in T : \A y \in T : x <= y
    BY <2>1, SmallestOf
  <2>3. PICK e \in bad : deadPlace[e] = x
    BY <2>2
  <2> QED
    BY <2>2, <2>3
<1> DEFINE S == {o \in rows : deadPlace[o] <= deadPlace[e]}
<1>4. S \subseteq F \cup {e}
  <2> SUFFICES ASSUME NEW o \in rows, deadPlace[o] <= deadPlace[e], o # e
               PROVE  o \in F
    OBVIOUS
  <2>1. deadPlace[o] # deadPlace[e] /\ deadPlace[o] \in Nat /\ deadPlace[e] \in Nat
    BY DEF Placed
  <2>2. ~(deadPlace[e] <= deadPlace[o])
    BY <2>1
  <2> QED
    BY <1>3, <2>2
<1>5. IsFiniteSet(F) /\ Cardinality(F) \in Nat
  BY <1>1, FS_Subset, FS_CardinalityType
<1>6. IsFiniteSet(F \cup {e}) /\ Cardinality(F \cup {e}) = Cardinality(F) + 1
  BY <1>5, FS_AddElement
<1>7. IsFiniteSet(S) /\ Cardinality(S) <= Cardinality(F \cup {e})
  BY <1>4, <1>6, FS_Subset
<1>8. Cardinality(S) \in Nat
  BY <1>7, FS_CardinalityType
<1>9. Cardinality(S) <= n + 1
  BY <1>5, <1>6, <1>7, <1>8
<1>10. e \in F
  BY <1>9 DEF FirstOf
<1> QED
  BY <1>10

DeadInv ==
    /\ deadPlace \in [Dead -> 0..Places]
    /\ pageStart \in Nat /\ pageCursor \in Nat
    /\ pageStart <= pageCursor
    /\ pagePc \in {"off", "on", "done"}
    /\ pageSeen \in [Dead -> {0, 1}]
    /\ pageFilter \subseteq Dead
    /\ \A e, o \in Recorded : deadPlace[e] = deadPlace[o] => e = o
    /\ pageOld \subseteq Recorded
    /\ pagePc = "off" => \A e \in Dead : pageSeen[e] = 0
    /\ \A e \in Dead : pageSeen[e] = 1 =>
          /\ e \in pageFilter \cap Recorded
          /\ pageStart < deadPlace[e] /\ deadPlace[e] <= pageCursor
    /\ \A e \in pageOld \cap pageFilter :
          pageStart < deadPlace[e] /\ (pagePc = "done" \/ deadPlace[e] <= pageCursor)
              => pageSeen[e] = 1

\* The next page.
LEMMA PageStep ==
    ASSUME DeadInv, Page
    PROVE  DeadInv'
<1> DEFINE rows  == AfterCursor(pageFilter, pageCursor)
           found == FirstOf(rows, PageLimit + 1)
           data  == FirstOf(found, PageLimit)
           Reaches(cursor) ==
               /\ cursor \in Nat /\ pageCursor <= cursor
               /\ \A e \in data : deadPlace[e] <= cursor
               /\ \A e \in rows : deadPlace[e] <= cursor => e \in data
<1>1. PageLimit \in Nat /\ PageLimit + 1 \in Nat
  BY DeadAssumption
<1>2. /\ Placed(rows)
      /\ rows \subseteq pageFilter \cap Recorded
      /\ \A e \in rows : deadPlace[e] > pageCursor
  BY DEF DeadInv, Placed, AfterCursor, Recorded
<1>3. data \subseteq found /\ found \subseteq rows /\ Placed(found)
  BY <1>2 DEF FirstOf, Placed
<1>4. /\ pageSeen' = [e \in Dead |-> pageSeen[e] + IF e \in data THEN 1 ELSE 0]
      /\ pagePc' = IF Cardinality(found) > PageLimit THEN "on" ELSE "done"
      /\ pagePc = "on"
      /\ UNCHANGED <<deadPlace, pageFilter, pageStart, pageOld>>
  BY DEF Page, deadVars
<1>5. \A e \in data : pageSeen[e] = 0
  BY <1>2, <1>3, <1>4 DEF DeadInv
<1>6. \A e \in Dead : pageSeen'[e] = IF e \in data THEN 1 ELSE pageSeen[e]
  BY <1>4, <1>5 DEF DeadInv
<1>7. pageSeen' \in [Dead -> {0, 1}]
  BY <1>4, <1>6 DEF DeadInv
<1>8. pagePc' = "done" => data = rows
  <2> SUFFICES ASSUME pagePc' = "done" PROVE data = rows
    OBVIOUS
  <2>1. ~(Cardinality(found) > PageLimit)
    BY <1>4
  <2>2. Cardinality(found) \in Nat
    BY <1>3, DeadAssumption, FS_Subset, FS_CardinalityType DEF Placed
  <2>3. Cardinality(found) <= PageLimit
    BY <1>1, <2>1, <2>2
  <2> HIDE DEF rows
  <2>4. found = rows
    BY <1>1, <1>2, <2>3, NoMoreIsAll
  <2> HIDE DEF found
  <2>5. data = found
    BY <1>1, <1>3, <2>3, FewAreAll
  <2> QED
    BY <2>4, <2>5
<1>9. Reaches(pageCursor')
  <2> HIDE DEF rows
  <2>1. CASE data = {} /\ UNCHANGED pageCursor
    BY <1>2, <2>1 DEF DeadInv, Placed
  <2>2. ASSUME NEW last \in data, pageCursor' = deadPlace[last],
               \A e \in data : deadPlace[e] <= deadPlace[last]
        PROVE  Reaches(pageCursor')
    <3>1. \A e \in rows : deadPlace[e] <= deadPlace[last] => e \in found
      BY <1>1, <1>2, <1>3, FirstIsClosed
    <3>2. \A e \in found : deadPlace[e] <= deadPlace[last] => e \in data
      <4> HIDE DEF found
      <4> QED
        BY <1>1, <1>3, <2>2, FirstIsClosed
    <3>3. deadPlace[last] \in Nat /\ deadPlace[last] > pageCursor
      BY <1>2, <1>3 DEF Placed
    <3> QED
      BY <2>2, <3>1, <3>2, <3>3 DEF DeadInv
  <2> QED
    BY <2>1, <2>2 DEF Page, rows
<1>10. \A e \in Dead : pageSeen'[e] = 1 =>
          /\ e \in pageFilter' \cap Recorded'
          /\ pageStart' < deadPlace'[e] /\ deadPlace'[e] <= pageCursor'
  <2> HIDE DEF data, rows
  <2> QED
    BY <1>2, <1>3, <1>4, <1>6, <1>9 DEF DeadInv, Recorded
<1>11. \A e \in pageOld' \cap pageFilter' :
          pageStart' < deadPlace'[e]
          /\ (pagePc' = "done" \/ deadPlace'[e] <= pageCursor') => pageSeen'[e] = 1
  <2> SUFFICES ASSUME NEW e \in pageOld \cap pageFilter, pageStart < deadPlace[e],
                      pagePc' = "done" \/ deadPlace[e] <= pageCursor'
               PROVE  pageSeen'[e] = 1
    BY <1>4
  <2>1. e \in Dead /\ e \in Recorded /\ deadPlace[e] \in Nat /\ pageCursor \in Nat
    BY DEF DeadInv, Recorded
  <2>2. CASE deadPlace[e] <= pageCursor
    BY <1>6, <2>1, <2>2 DEF DeadInv
  <2>3. CASE deadPlace[e] > pageCursor
    <3>1. e \in rows
      BY <2>1, <2>3 DEF AfterCursor
    <3> HIDE DEF rows, data
    <3> QED
      BY <1>6, <1>8, <1>9, <2>1, <3>1
  <2> QED
    BY <2>1, <2>2, <2>3
<1>12. pagePc' \in {"on", "done"}
  BY <1>4
<1> HIDE DEF rows, found, data
<1>13. Recorded' = Recorded
  BY <1>4 DEF Recorded
<1>14. pageStart' <= pageCursor'
  BY <1>4, <1>9 DEF DeadInv
<1> QED
  BY <1>4, <1>7, <1>9, <1>10, <1>11, <1>12, <1>13, <1>14 DEF DeadInv

\* Every step of the dead-letter table keeps its invariant.
LEMMA DeadStep ==
    ASSUME DeadInv, DeadNext
    PROVE  DeadInv'
<1>1. ASSUME NEW e \in Dead, Dies(e) \/ AlreadyRecorded(e) \/ Redrive(e)
      PROVE  DeadInv'
  BY <1>1 DEF Dies, AlreadyRecorded, Redrive, pageVars, DeadInv, Recorded
<1>2. ASSUME NEW e \in Dead, NEW n \in Place, RecordDead(e, n)
      PROVE  DeadInv'
  <2>1. /\ deadPlace' = [deadPlace EXCEPT ![e] = n]
        /\ deadPlace[e] = 0 /\ n \in 1..Places /\ n # 0
        /\ UNCHANGED pageVars
        /\ \A o \in Recorded : deadPlace[o] # n
    BY <1>2, DeadAssumption DEF RecordDead, Recorded, Place
  <2>2. Recorded' = Recorded \cup {e} /\ e \notin Recorded
    BY <2>1 DEF Recorded, DeadInv
  <2>3. \A o \in Recorded : deadPlace'[o] = deadPlace[o]
    BY <2>1, <2>2 DEF Recorded, DeadInv
  <2>4. deadPlace' \in [Dead -> 0..Places] /\ deadPlace'[e] = n
    BY <2>1 DEF DeadInv
  <2>5. \A a, b \in Recorded' : deadPlace'[a] = deadPlace'[b] => a = b
    BY <2>1, <2>2, <2>3, <2>4 DEF DeadInv
  <2> QED
    BY <2>1, <2>2, <2>3, <2>4, <2>5 DEF DeadInv, pageVars
<1>3. ASSUME NEW filter \in {Dead, FromSource}, NEW n \in 0..Places,
             ListFrom(filter, n)
      PROVE  DeadInv'
  BY <1>3, DeadAssumption DEF ListFrom, deadVars, DeadInv, Recorded
<1> QED
  BY <1>1, <1>2, <1>3, PageStep DEF DeadNext

\* A listing shows no row twice and, once it says there is no more, has shown
\* every row that it should, whatever was recorded meanwhile.
THEOREM ListingsAreComplete == Spec => []PagesAreComplete
<1>1. Init => DeadInv
  BY DeadAssumption DEF Init, DeadInit, DeadInv, Recorded
<1>2. DeadInv /\ [Next]_vars => DeadInv'
  <2> SUFFICES ASSUME DeadInv, [Next]_vars PROVE DeadInv'
    OBVIOUS
  <2>1. DeadNext \/ UNCHANGED dlqVars
    BY DEF Next, OtpSteps, ResetSteps, InviteSteps, BootSteps, BreakerSteps,
       In, LimiterSteps, LifeSteps, DeadSteps, SurfSteps, vars
  <2>2. UNCHANGED dlqVars => DeadInv'
    BY DEF dlqVars, deadVars, pageVars, DeadInv, Recorded
  <2> QED
    BY <2>1, <2>2, DeadStep
<1>3. DeadInv => PagesAreComplete
  BY DEF DeadInv, PagesAreComplete, Recorded
<1> QED
  BY <1>1, <1>2, <1>3, PTL DEF Spec
(***************************************************************************)
(* Surfaces.  Every session is right, and what a request read at the gate  *)
(* is still there when it gets its session, because roles only grow.       *)
(***************************************************************************)

Right(t) == /\ t \in Token
            /\ t.active \in t.roles /\ t.roles \subseteq roles
            /\ t.born = SurfaceOf[t.active]

AnyToken == [active : Role \cup {"none"}, roles : SUBSET Role,
             born : Surface \cup {"none"}]

AnyRequest == [at : {"idle", "gate", "answer", "bye"},
               for : Surface \cup {"none"}, token : AnyToken]

RequestRight(c) ==
    /\ surfReq[c].at = "answer" => Right(surfReq[c].token)
    /\ surfReq[c].at = "gate" =>
          /\ surfReq[c].for \in Surface
          /\ surfReq[c].token.born = surfReq[c].for
          /\ surfReq[c].token.roles \subseteq roles

RequestsRight == /\ surfReq \in [Client -> AnyRequest]
                 /\ \A c \in Client : RequestRight(c)

KeptRight ==
    /\ roles \subseteq Role
    /\ (roles \subseteq AdminRole \/ roles \cap AdminRole = {})
    /\ (access = NoToken \/ Right(access))
    /\ (refresh = NoToken \/ Right(refresh))
    /\ (storefront = NoToken \/ Right(storefront))
    /\ \A t \in inviters : Right(t) /\ t.born = "admin-web"

SurfInv == KeptRight /\ RequestsRight

LEMMA RightIsToken == ASSUME NEW t, Right(t) PROVE t \in AnyToken
BY DEF Right, Token, AnyToken

\* No request is the resting one, whose token is no session.
LEMMA Restings ==
    /\ Resting \in AnyRequest /\ Resting.at = "idle" /\ Resting.token = NoToken
    /\ NoToken \in AnyToken
BY DEF Resting, AnyRequest, AnyToken, NoToken

\* Replacing one request by a right one keeps the requests right.
LEMMA OneRequest ==
    ASSUME RequestsRight, NEW c \in Client, NEW q \in AnyRequest,
           surfReq' = [surfReq EXCEPT ![c] = q], roles \subseteq roles',
           q.at = "answer" => Right(q.token)',
           q.at = "gate" => /\ q.for \in Surface /\ q.token.born = q.for
                            /\ q.token.roles \subseteq roles'
    PROVE  RequestsRight'
<1>1. surfReq' \in [Client -> AnyRequest] /\ surfReq'[c] = q
  BY DEF RequestsRight
<1>2. ASSUME NEW d \in Client PROVE RequestRight(d)'
  <2>1. CASE d = c
    BY <1>1, <2>1 DEF RequestRight, Right
  <2>2. CASE d # c
    <3>1. surfReq'[d] = surfReq[d] /\ RequestRight(d)
      BY <2>2 DEF RequestsRight
    <3> QED
      BY <3>1 DEF RequestRight, Right
  <2> QED
    BY <2>1, <2>2
<1> QED
  BY <1>1, <1>2 DEF RequestsRight

\* What is kept stays right while roles only grow.
LEMMA KeptStays ==
    ASSUME KeptRight, roles \subseteq roles', roles' \subseteq Role,
           (roles' \subseteq AdminRole \/ roles' \cap AdminRole = {}),
           UNCHANGED held
    PROVE  KeptRight'
BY DEF KeptRight, held, Right

\* A step that ends a request, or begins one, and leaves the rest alone.
LEMMA OnlyRequest ==
    ASSUME SurfInv, NEW c \in Client, NEW q \in AnyRequest,
           surfReq' = [surfReq EXCEPT ![c] = q], UNCHANGED <<roles, held>>,
           q.at = "answer" => Right(q.token),
           q.at = "gate" => /\ q.for \in Surface /\ q.token.born = q.for
                            /\ q.token.roles \subseteq roles
    PROVE  SurfInv'
<1>1. KeptRight'
  BY KeptStays DEF SurfInv, KeptRight
<1>2. q.at = "answer" => Right(q.token)'
  BY DEF Right
<1>3. RequestsRight'
  BY <1>2, OneRequest DEF SurfInv
<1> QED
  BY <1>1, <1>3 DEF SurfInv

\* The gate of a surface lets through a role of this surface.
LEMMA IssuedIsRight ==
    ASSUME SurfInv, NEW c \in Client, NEW role \in Role,
           surfReq[c].at = "gate", surfReq[c].for = SurfaceOf[role],
           role \in surfReq[c].token.roles, IssueSession(c, role)
    PROVE  SurfInv'
<1> DEFINE t == [surfReq[c].token EXCEPT !.active = role]
           q == [surfReq[c] EXCEPT !.at = "answer", !.token = t]
<1>1. surfReq[c] \in AnyRequest /\ RequestRight(c)
  BY DEF SurfInv, RequestsRight
<1>2. surfReq' = [surfReq EXCEPT ![c] = q] /\ UNCHANGED <<roles, held>>
  BY <1>1 DEF IssueSession, SurfInv, RequestsRight, AnyRequest, AnyToken
<1>3. /\ t \in AnyToken /\ t.active = role
      /\ t.roles = surfReq[c].token.roles /\ t.born = surfReq[c].token.born
  BY <1>1 DEF AnyRequest, AnyToken
<1>4. Right(t)
  <2>1. t.born = SurfaceOf[role] /\ t.born \in Surface /\ t.roles \subseteq roles
    BY <1>1, <1>3 DEF RequestRight
  <2>2. t \in Token
    BY <1>3, <2>1 DEF Token, AnyToken
  <2> QED
    BY <1>3, <2>1, <2>2 DEF Right
<1>5. q \in AnyRequest /\ q.at = "answer" /\ q.token = t
  BY <1>1, <1>3 DEF AnyRequest
<1> HIDE DEF t, q
<1> QED
  BY <1>2, <1>4, <1>5, OnlyRequest

\* Every step of the surfaces keeps their invariant.
LEMMA SurfStep ==
    ASSUME SurfInv, SurfNext
    PROVE  SurfInv'
<1>1. ASSUME NEW c \in Client, NEW role \in {"CUSTOMER", "SELLER"},
             Register(c, role)
      PROVE  SurfInv'
  <2> DEFINE t == [active |-> role, roles |-> {role}, born |-> SurfaceOf[role]]
             q == [at |-> "answer", for |-> SurfaceOf[role], token |-> t]
  <2>1. /\ roles = {} /\ roles' = {role} /\ UNCHANGED held
        /\ surfReq' = [surfReq EXCEPT ![c] = q]
    BY <1>1 DEF Register
  <2>2. SurfaceOf[role] \in Surface /\ role \in Role
    BY DEF SurfaceOf, Surface, Role
  <2>3. /\ t \in Token /\ t.active = role /\ t.roles = {role}
        /\ t.born = SurfaceOf[t.active]
    BY <2>2 DEF Token
  <2>4. Right(t)'
    BY <2>1, <2>3 DEF Right
  <2>5. q \in AnyRequest /\ q.at = "answer" /\ q.token = t
    BY <2>2 DEF AnyRequest, AnyToken
  <2>6. roles' \cap AdminRole = {} /\ roles' \subseteq Role
    BY <2>1, <2>2 DEF AdminRole
  <2>7. KeptRight'
    BY <2>1, <2>6, KeptStays DEF SurfInv
  <2> HIDE DEF t, q
  <2>8. RequestsRight'
    BY <2>1, <2>4, <2>5, OneRequest DEF SurfInv
  <2> QED
    BY <2>7, <2>8 DEF SurfInv
<1>2. ASSUME NEW c \in Client, NEW s \in Surface, NEW h, VerifyCredentials(c, s, h)
      PROVE  SurfInv'
  <2> DEFINE t == [active |-> "none", roles |-> roles, born |-> s]
             q == [at |-> "gate", for |-> s, token |-> t]
  <2>1. surfReq' = [surfReq EXCEPT ![c] = q] /\ UNCHANGED <<roles, held>>
    BY <1>2 DEF VerifyCredentials
  <2>2. roles \subseteq Role
    BY DEF SurfInv, KeptRight
  <2>3. q \in AnyRequest
    BY <2>2 DEF AnyRequest, AnyToken
  <2>4. q.at = "gate" /\ q.for = s /\ q.token.born = s /\ q.token.roles = roles
    OBVIOUS
  <2> HIDE DEF q
  <2> QED
    BY <2>1, <2>3, <2>4, OnlyRequest
<1>3. ASSUME NEW c \in Client, CustomerLogin(c) \/ SellerLogin(c) \/ AdminLogin(c)
      PROVE  SurfInv'
  <2>1. CASE CustomerLogin(c)
    BY <2>1, IssuedIsRight DEF CustomerLogin, AtGate, SurfaceOf, Role
  <2>2. CASE SellerLogin(c)
    BY <2>2, IssuedIsRight DEF SellerLogin, AtGate, SurfaceOf, Role
  <2>3. CASE AdminLogin(c)
    <3> DEFINE role == HighestAdmin(surfReq[c].token.roles)
    <3>1. role \in AdminRole /\ role \in surfReq[c].token.roles
      BY <2>3 DEF AdminLogin, HighestAdmin, AdminRole
    <3>2. role \in Role /\ SurfaceOf[role] = "admin-web"
      BY <3>1 DEF AdminRole, Role, SurfaceOf
    <3>3. /\ surfReq[c].at = "gate" /\ surfReq[c].for = "admin-web"
          /\ IssueSession(c, role)
      BY <2>3 DEF AdminLogin, AtGate
    <3> HIDE DEF role
    <3> QED
      BY <3>1, <3>2, <3>3, IssuedIsRight
  <2> QED
    BY <1>3, <2>1, <2>2, <2>3
<1>4. ASSUME NEW c \in Client, Refuse(c) \/ AnswerLost(c)
      PROVE  SurfInv'
  BY <1>4, Restings, OnlyRequest DEF Refuse, AnswerLost
<1>5. ASSUME NEW c \in Client, SendSessionResponse(c)
      PROVE  SurfInv'
  <2> DEFINE t == surfReq[c].token
  <2>1. /\ Right(t) /\ UNCHANGED <<roles, inviters>>
        /\ surfReq' = [surfReq EXCEPT ![c] = Resting]
    BY <1>5 DEF SendSessionResponse, SurfInv, RequestsRight, RequestRight
  <2>2. RequestsRight'
    BY <2>1, Restings, OneRequest DEF SurfInv
  <2>3. /\ access' \in {access, t} /\ refresh' \in {refresh, t}
        /\ storefront' \in {storefront, t}
    BY <1>5 DEF SendSessionResponse
  <2> HIDE DEF t
  <2>4. KeptRight'
    BY <2>1, <2>3 DEF SurfInv, KeptRight, Right
  <2> QED
    BY <2>2, <2>4 DEF SurfInv
<1>6. ASSUME NEW c \in Client, NEW h \in Surface \cup {"none"}, RefreshToken(c, h)
      PROVE  SurfInv'
  <2>1. PICK t \in Carried(refresh) :
           surfReq' = [surfReq EXCEPT ![c] =
              [at |-> "answer", for |-> h, token |-> t]]
    BY <1>6 DEF RefreshToken
  <2>2. UNCHANGED <<roles, held>>
    BY <1>6 DEF RefreshToken
  <2>3. Right(t) /\ t \in AnyToken
    BY RightIsToken DEF SurfInv, KeptRight, Carried
  <2> DEFINE q == [at |-> "answer", for |-> h, token |-> t]
  <2>4. q \in AnyRequest /\ q.at = "answer" /\ q.token = t
    BY <2>3 DEF AnyRequest
  <2> HIDE DEF q
  <2>5. surfReq' = [surfReq EXCEPT ![c] = q]
    BY <2>1 DEF q
  <2> QED
    BY <2>2, <2>3, <2>4, <2>5, OnlyRequest
<1>7. ASSUME NEW c \in Client, Logout(c)
      PROVE  SurfInv'
  <2> DEFINE q == [Resting EXCEPT !.at = "bye"]
  <2>1. surfReq[c] = Resting /\ UNCHANGED <<roles, held>>
    BY <1>7 DEF Logout
  <2>2. surfReq' = [surfReq EXCEPT ![c] = q]
    BY <1>7, <2>1 DEF Logout, SurfInv, RequestsRight
  <2>3. q \in AnyRequest /\ q.at = "bye"
    BY DEF Resting, AnyRequest, AnyToken, NoToken
  <2> HIDE DEF q
  <2> QED
    BY <2>1, <2>2, <2>3, OnlyRequest
<1>8. ASSUME NEW c \in Client, ClearCookies(c)
      PROVE  SurfInv'
  <2>1. /\ surfReq' = [surfReq EXCEPT ![c] = Resting]
        /\ access' = NoToken /\ refresh' = NoToken
        /\ UNCHANGED <<roles, storefront, inviters>>
    BY <1>8 DEF ClearCookies
  <2>2. RequestsRight'
    BY <2>1, Restings, OneRequest DEF SurfInv
  <2>3. KeptRight'
    BY <2>1 DEF SurfInv, KeptRight, Right
  <2> QED
    BY <2>2, <2>3 DEF SurfInv
<1>9. ASSUME TokenEnds
      PROVE  SurfInv'
  <2>1. /\ access' \in {access, NoToken} /\ refresh' \in {refresh, NoToken}
        /\ storefront' \in {storefront, NoToken}
        /\ UNCHANGED <<roles, surfReq, inviters>>
    BY <1>9 DEF TokenEnds
  <2>2. RequestsRight'
    BY <2>1 DEF SurfInv, RequestsRight, RequestRight, Right
  <2>3. KeptRight'
    BY <2>1 DEF SurfInv, KeptRight, Right
  <2> QED
    BY <2>2, <2>3 DEF SurfInv
<1>10. ASSUME CreateInviteGate
       PROVE  SurfInv'
  <2>1. PICK t \in Authenticated :
           RequireRole(t, {"SUPER_ADMIN"}) /\ inviters' = inviters \cup {t}
    BY <1>10 DEF CreateInviteGate
  <2>2. UNCHANGED <<roles, surfReq, access, refresh, storefront>>
    BY <1>10 DEF CreateInviteGate
  <2>3. Right(t) /\ t.active = "SUPER_ADMIN"
    BY <2>1 DEF Authenticated, Carried, RequireRole, SurfInv, KeptRight
  <2>4. t.born = "admin-web"
    BY <2>3 DEF Right, SurfaceOf
  <2>5. RequestsRight'
    BY <2>2 DEF SurfInv, RequestsRight, RequestRight, Right
  <2>6. KeptRight'
    BY <2>1, <2>2, <2>3, <2>4 DEF SurfInv, KeptRight, Right
  <2> QED
    BY <2>5, <2>6 DEF SurfInv
<1>11. ASSUME GainSeller
       PROVE  SurfInv'
  <2>1. /\ roles \cap AdminRole = {} /\ roles' = roles \cup {"SELLER"}
        /\ UNCHANGED <<surfReq, held>>
    BY <1>11 DEF GainSeller, MayGainRole
  <2>2. roles' \subseteq Role /\ roles' \cap AdminRole = {}
    BY <2>1 DEF SurfInv, KeptRight, Role, AdminRole
  <2>3. KeptRight'
    BY <2>1, <2>2, KeptStays DEF SurfInv
  <2>4. RequestsRight'
    BY <2>1 DEF SurfInv, RequestsRight, RequestRight, Right
  <2> QED
    BY <2>3, <2>4 DEF SurfInv
<1> QED
  BY <1>1, <1>2, <1>3, <1>4, <1>5, <1>6, <1>7, <1>8, <1>9, <1>10, <1>11
  DEF SurfNext, ClientType, VerifyCustomerRegistration,
      VerifySellerRegistration

\* Whatever answers overtake each other and roles are attached, a session
\* acts under a role that its account has, of the surface that it began on,
\* and only a session of the admin dashboard ever passed the invite's gate.
THEOREM SessionsStayApart == Spec => []SessionsKeepTheirRole
<1>1. Init => SurfInv
  <2> SUFFICES ASSUME Init PROVE SurfInv
    OBVIOUS
  <2>1. /\ roles \in FirstRoles /\ inviters = {}
        /\ surfReq = [c \in Client |-> Resting]
        /\ access = NoToken /\ refresh = NoToken /\ storefront = NoToken
    BY DEF Init, SurfInit
  <2>2. KeptRight
    BY <2>1 DEF KeptRight, FirstRoles, Role, AdminRole
  <2>3. RequestsRight
    BY <2>1, Restings DEF RequestsRight, RequestRight
  <2> QED
    BY <2>2, <2>3 DEF SurfInv
<1>2. SurfInv /\ [Next]_vars => SurfInv'
  <2> SUFFICES ASSUME SurfInv, [Next]_vars PROVE SurfInv'
    OBVIOUS
  <2>1. SurfNext \/ UNCHANGED surfVars
    BY DEF Next, OtpSteps, ResetSteps, InviteSteps, BootSteps, BreakerSteps,
       In, LimiterSteps, LifeSteps, DeadSteps, SurfSteps, vars
  <2>2. CASE UNCHANGED surfVars
    <3>1. UNCHANGED <<roles, surfReq, held>>
      BY <2>2 DEF surfVars, held
    <3>2. RequestsRight'
      BY <3>1 DEF SurfInv, RequestsRight, RequestRight, Right
    <3>3. KeptRight'
      BY <3>1, KeptStays DEF SurfInv, KeptRight
    <3> QED
      BY <3>2, <3>3 DEF SurfInv
  <2> QED
    BY <2>1, <2>2, SurfStep
<1>3. SurfInv => SessionsKeepTheirRole
  <2> SUFFICES ASSUME SurfInv PROVE SessionsKeepTheirRole
    OBVIOUS
  <2>1. \A t \in Session : Right(t)
    BY DEF SurfInv, KeptRight, RequestsRight, RequestRight, Session
  <2>2. \A t \in Session : /\ t.active \in t.roles /\ t.roles \subseteq roles
                           /\ t.born = SurfaceOf[t.active]
    BY <2>1 DEF Right
  <2>3. /\ (roles \subseteq AdminRole \/ roles \cap AdminRole = {})
        /\ \A t \in inviters : t.born = "admin-web"
    BY DEF SurfInv, KeptRight
  <2> QED
    BY <2>2, <2>3 DEF SessionsKeepTheirRole
<1> QED
  BY <1>1, <1>2, <1>3, PTL DEF Spec
=============================================================================
