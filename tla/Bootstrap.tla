----------------------------- MODULE Bootstrap ------------------------------
(***************************************************************************)
(* bootstrapSuperAdminWithRetry in the instances of auth-service that      *)
(* start at once without a SUPER_ADMIN: an instance finds or creates the   *)
(* credential, creates the profile by a call to user-service, writes the   *)
(* audit record, and deletes the credential when one of the two fails.     *)
(* Ids are 1, 2, .. as in Invites, and so is user-service.                 *)
(***************************************************************************)
EXTENDS Clients

CONSTANT MaxBoots  \* attempts of an instance (five in the code)

ASSUME BootstrapAssumption == MaxBoots \in Nat \ {0}

VARIABLES superCred,     \* the SUPER_ADMIN credential
          superProfile,  \* the id of its email's row in user-service
          superIds,      \* credentials created so far
          bootPc,        \* bootPc[c]: where instance c is
          bootId,        \* bootId[c]: the credential c found or created
          bootTries      \* bootTries[c]: its attempts

bootVars == <<superCred, superProfile, superIds, bootPc, bootId, bootTries>>

BootTypeOK ==
    /\ superCred \in Nat /\ superProfile \in Nat /\ superIds \in Nat
    /\ bootPc \in [Client -> {"find", "ensure", "create", "recheck", "profile",
                              "audit", "undo", "created", "found", "failed"}]
    /\ bootId \in [Client -> Nat]
    /\ bootTries \in [Client -> 1..MaxBoots]

BootInit ==
    /\ superCred = 0 /\ superProfile = 0 /\ superIds = 0
    /\ bootPc = [c \in Client |-> "find"]
    /\ bootId = [c \in Client |-> 0]
    /\ bootTries = [c \in Client |-> 1]

superRows == <<superCred, superProfile, superIds>>

\* createSuperAdmin threw: the next attempt, or exit(1) after the last.
TryAgain(c, from) ==
    /\ \/ /\ bootTries[c] < MaxBoots
          /\ bootTries' = [bootTries EXCEPT ![c] = @ + 1]
          /\ Moves(bootPc, c, from, "find")
       \/ /\ bootTries[c] = MaxBoots
          /\ Moves(bootPc, c, from, "failed")
          /\ UNCHANGED bootTries
    /\ bootId' = [bootId EXCEPT ![c] = 0]

FindSuperAdmin(c) ==
    /\ \/ /\ superCred # 0
          /\ Moves(bootPc, c, "find", "ensure")
          /\ bootId' = [bootId EXCEPT ![c] = superCred]
       \/ /\ superCred = 0
          /\ Moves(bootPc, c, "find", "create")
          /\ UNCHANGED bootId
    /\ UNCHANGED <<superRows, bootTries>>

\* What a profile call for id leaves in user-service.
Profiles(id) == {superProfile, IF superProfile = 0 THEN id ELSE superProfile}

\* The error of the call is ignored.
EnsureProfile(c) ==
    /\ Moves(bootPc, c, "ensure", "found")
    /\ superProfile' \in Profiles(bootId[c])
    /\ UNCHANGED <<superCred, superIds, bootId, bootTries>>

CreateCredential(c) ==
    /\ superCred = 0
    /\ superIds' = superIds + 1
    /\ superCred' = superIds'
    /\ Moves(bootPc, c, "create", "profile")
    /\ bootId' = [bootId EXCEPT ![c] = superIds']
    /\ UNCHANGED <<superProfile, bootTries>>

\* P2002: another instance won the race.
LoseRace(c) ==
    /\ superCred # 0
    /\ Moves(bootPc, c, "create", "recheck")
    /\ UNCHANGED <<superRows, bootId, bootTries>>

Recheck(c) ==
    /\ \/ superCred # 0 /\ Moves(bootPc, c, "recheck", "found")
          /\ UNCHANGED <<bootId, bootTries>>
       \/ superCred = 0 /\ TryAgain(c, "recheck")
    /\ UNCHANGED superRows

CallProfile(c) ==
    /\ \/ /\ superProfile \in {0, bootId[c]}
          /\ superProfile' = bootId[c]
          /\ Moves(bootPc, c, "profile", "audit")
       \/ /\ superProfile' \in Profiles(bootId[c])
          /\ Moves(bootPc, c, "profile", "undo")
    /\ UNCHANGED <<superCred, superIds, bootId, bootTries>>

WriteAudit(c) ==
    /\ \/ Moves(bootPc, c, "audit", "created")
       \/ Moves(bootPc, c, "audit", "undo")
    /\ UNCHANGED <<superRows, bootId, bootTries>>

\* The delete names the id this instance created.
IsOwn(c) == superCred = bootId[c]

\* The compensation's own failure is ignored.
UndoCreate(c) ==
    /\ TryAgain(c, "undo")
    /\ \/ IsOwn(c) /\ superCred' = 0
       \/ UNCHANGED superCred
    /\ UNCHANGED <<superProfile, superIds>>

BootNext ==
    \E c \in Client :
        \/ FindSuperAdmin(c) \/ EnsureProfile(c) \/ CreateCredential(c)
        \/ LoseRace(c) \/ Recheck(c) \/ CallProfile(c) \/ WriteAudit(c)
        \/ UndoCreate(c)
-----------------------------------------------------------------------------
\* An instance that created the SUPER_ADMIN and reports it done leaves it whole
\* for good: no other instance deletes it, adopts its email under another id,
\* or creates a second one.
BootstrapsAreWhole ==
    \A c \in Client :
        bootPc[c] = "created" =>
            superCred = bootId[c] /\ superProfile = bootId[c]
=============================================================================
