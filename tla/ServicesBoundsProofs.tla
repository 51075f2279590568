------------------------ MODULE ServicesBoundsProofs ------------------------
(* Theorems about what the parts of Services count, for any number of        *)
(* requests: one-time passwords tried and mailed, passwords set with a reset *)
(* token, requests that the two limiters let through; and the types of all   *)
(* the parts.                                                                *)
EXTENDS ServicesProofs

(***************************************************************************)
(* One-time passwords.  With two requests, each has a level: how far the   *)
(* counter, as it read it, or else as it stands, is from the limit.  A     *)
(* write of the counter takes one from the level of its request, and may   *)
(* lift that of the other no higher than that, so the sum below, which a   *)
(* wrong code or a mail makes larger, is bounded.                          *)
(***************************************************************************)

Counts == 0..RequestLimit \cup 0..MaxAttempts

OtpPlaces == {"idle", "askBlock", "askSpam", "askCooldown", "askAgain",
              "readRequests", "track", "store", "issue", "tryBlock", "tryCode",
              "readAttempts", "wrong", "right"}

OtpInv ==
    /\ otpKeys \subseteq OtpKey /\ otpResends \subseteq Client
    /\ otpRequests \in 0..RequestLimit /\ otpAttempts \in 0..MaxAttempts
    /\ otpPc \in [Client -> OtpPlaces]
    /\ otpRead \in [Client -> Counts]
    /\ otpMails \in Nat /\ otpTries \in Nat
    /\ \A c \in Client : /\ otpPc[c] = "wrong" => otpRead[c] <= MaxAttempts
                         /\ otpPc[c] = "track" => otpRead[c] <= RequestLimit

OtpStep(c) ==
    \/ StartRegistration(c) \/ ResendRegistrationOtp(c)
    \/ CheckOtpRestrictions(c) \/ ReadRequests(c) \/ TrackOtpRequests(c)
    \/ StoreRegistration(c) \/ IssueOtp(c)
    \/ CompleteRegistration(c) \/ IsBlocked(c) \/ CompareOtp(c)
    \/ ReadAttempts(c) \/ CountWrong(c) \/ AcceptOtp(c)

\* The two limits are positive, and every value a request can have read is a
\* number.
LEMMA CountsAreNumbers ==
    /\ RequestLimit \in Nat \ {0} /\ MaxAttempts \in Nat \ {0}
    /\ 0..RequestLimit \subseteq Counts /\ 0..MaxAttempts \subseteq Counts
    /\ Counts \subseteq Nat
    /\ 0 \in 0..RequestLimit /\ 0 \in 0..MaxAttempts /\ 0 \in Counts
BY RegistrationAssumption DEF Counts

\* Nothing is read, tried or mailed at first.
LEMMA OtpInitially == OtpInit => OtpInv
BY CountsAreNumbers DEF OtpInit, OtpInv, OtpPlaces

\* One request moves, and keeps what it read, reads a counter or forgets it.
LEMMA OtpMove ==
    ASSUME OtpInv, NEW c \in Client, NEW to \in OtpPlaces, NEW n \in Counts,
           otpPc' = [otpPc EXCEPT ![c] = to],
           \/ UNCHANGED otpRead /\ to \notin {"wrong", "track"}
           \/ otpRead' = [otpRead EXCEPT ![c] = n],
           to = "wrong" => n <= MaxAttempts,
           to = "track" => n <= RequestLimit
    PROVE  /\ otpPc' \in [Client -> OtpPlaces] /\ otpRead' \in [Client -> Counts]
           /\ \A d \in Client : /\ otpPc'[d] = "wrong" => otpRead'[d] <= MaxAttempts
                                /\ otpPc'[d] = "track" => otpRead'[d] <= RequestLimit
           /\ \A d \in Client \ {c} : otpPc'[d] = otpPc[d] /\ otpRead'[d] = otpRead[d]
BY DEF OtpInv

\* A step of a request keeps the types, and leaves the other requests alone.
LEMMA OtpStepType ==
    ASSUME OtpInv, NEW c \in Client, OtpStep(c)
    PROVE  /\ OtpInv'
           /\ \A d \in Client \ {c} : otpPc'[d] = otpPc[d] /\ otpRead'[d] = otpRead[d]
<1> DEFINE Goal == /\ OtpInv'
                   /\ \A d \in Client \ {c} : /\ otpPc'[d] = otpPc[d]
                                              /\ otpRead'[d] = otpRead[d]
<1> USE CountsAreNumbers
<1>1. ASSUME NEW to \in OtpPlaces, otpPc' = [otpPc EXCEPT ![c] = to],
             to \notin {"wrong", "track"},
             UNCHANGED otpRead \/ otpRead' = [otpRead EXCEPT ![c] = 0],
             otpKeys' \subseteq OtpKey, otpResends' \subseteq Client,
             otpRequests' \in 0..RequestLimit, otpAttempts' \in 0..MaxAttempts,
             otpMails' \in Nat, otpTries' \in Nat
      PROVE  Goal
  BY <1>1, OtpMove DEF OtpInv
<1>2. /\ otpKeys \subseteq OtpKey /\ otpResends \subseteq Client
      /\ otpRequests \in 0..RequestLimit /\ otpAttempts \in 0..MaxAttempts
      /\ otpMails \in Nat /\ otpTries \in Nat
      /\ {"code", "registration", "block", "spamBlock", "cooldown"} \subseteq OtpKey
      /\ otpRead[c] \in Nat
  BY DEF OtpInv, OtpKey
<1>3. CASE StartRegistration(c) \/ ResendRegistrationOtp(c) \/ CompleteRegistration(c)
  BY <1>1, <1>2, <1>3 DEF StartRegistration, ResendRegistrationOtp,
     CompleteRegistration, Moves, otpCounters, OtpPlaces
<1>4. ASSUME NEW from, NEW key,
             NEW to \in {"askSpam", "askCooldown", "askAgain", "readRequests", "tryCode"},
             Passes(c, from, key, to)
      PROVE  Goal
  <2>1. to \in OtpPlaces /\ "idle" \in OtpPlaces
    BY DEF OtpPlaces
  <2>2. UNCHANGED <<otpKeys, otpCounters, otpRead>> /\ otpResends' \subseteq Client
    BY <1>2, <1>4 DEF Passes
  <2>3. \/ otpPc' = [otpPc EXCEPT ![c] = to]
        \/ otpPc' = [otpPc EXCEPT ![c] = "idle"]
    BY <1>4 DEF Passes, Moves
  <2> QED
    BY <1>1, <1>2, <2>1, <2>2, <2>3 DEF otpCounters
<1>5. CASE CheckOtpRestrictions(c) \/ IsBlocked(c)
  BY <1>4, <1>5 DEF CheckOtpRestrictions, IsBlocked
<1>6. CASE ReadRequests(c)
  <2>1. CASE Passes(c, "askAgain", "spamBlock", "readRequests")
    BY <1>4, <2>1
  <2>2. CASE ~Passes(c, "askAgain", "spamBlock", "readRequests")
    <3>1. /\ otpPc' = [otpPc EXCEPT ![c] = "track"]
          /\ otpRead' = [otpRead EXCEPT ![c] = otpRequests]
          /\ UNCHANGED <<otpKeys, otpCounters, otpResends>>
      BY <1>6, <2>2 DEF ReadRequests, Moves
    <3>2. "track" \in OtpPlaces /\ otpRequests \in Counts /\ otpRequests <= RequestLimit
      BY <1>2 DEF OtpPlaces
    <3>3. /\ otpPc' \in [Client -> OtpPlaces] /\ otpRead' \in [Client -> Counts]
          /\ \A d \in Client :
                /\ otpPc'[d] = "wrong" => otpRead'[d] <= MaxAttempts
                /\ otpPc'[d] = "track" => otpRead'[d] <= RequestLimit
         /\ \A d \in Client \ {c} : otpPc'[d] = otpPc[d] /\ otpRead'[d] = otpRead[d]
      BY <3>1, <3>2, OtpMove
    <3> QED
      BY <1>2, <3>1, <3>3 DEF OtpInv, otpCounters
  <2> QED
    BY <2>1, <2>2
<1>7. CASE TrackOtpRequests(c)
  <2>1. /\ otpRead' = [otpRead EXCEPT ![c] = 0]
        /\ otpResends' \subseteq Client
        /\ UNCHANGED <<otpAttempts, otpMails, otpTries>>
    BY <1>2, <1>7 DEF TrackOtpRequests
  <2>2. otpKeys' \subseteq OtpKey /\ otpRequests' \in 0..RequestLimit
    BY <1>2, <1>7 DEF TrackOtpRequests
  <2>3. \E to \in {"idle", "store", "issue"} : otpPc' = [otpPc EXCEPT ![c] = to]
    BY <1>7 DEF TrackOtpRequests, Moves
  <2> QED
    BY <1>1, <1>2, <2>1, <2>2, <2>3 DEF OtpPlaces
<1>8. CASE StoreRegistration(c) \/ IssueOtp(c)
  BY <1>1, <1>2, <1>8 DEF StoreRegistration, IssueOtp, Moves, otpCounters, OtpPlaces
<1>9. CASE CompareOtp(c)
  <2>1. \E to \in {"idle", "right", "readAttempts"} : otpPc' = [otpPc EXCEPT ![c] = to]
    BY <1>9 DEF CompareOtp, Moves
  <2>2. /\ UNCHANGED <<otpKeys, otpRequests, otpAttempts, otpMails, otpRead, otpResends>>
        /\ otpTries' \in Nat
    BY <1>2, <1>9 DEF CompareOtp
  <2> QED
    BY <1>1, <1>2, <2>1, <2>2 DEF OtpPlaces
<1>10. CASE ReadAttempts(c)
  <2>1. /\ otpPc' = [otpPc EXCEPT ![c] = "wrong"]
        /\ otpRead' = [otpRead EXCEPT ![c] = otpAttempts]
        /\ UNCHANGED <<otpKeys, otpCounters, otpResends>>
    BY <1>10 DEF ReadAttempts, Moves
  <2>2. "wrong" \in OtpPlaces /\ otpAttempts \in Counts /\ otpAttempts <= MaxAttempts
    BY <1>2 DEF OtpPlaces
  <2>3. /\ otpPc' \in [Client -> OtpPlaces] /\ otpRead' \in [Client -> Counts]
        /\ \A d \in Client :
              /\ otpPc'[d] = "wrong" => otpRead'[d] <= MaxAttempts
              /\ otpPc'[d] = "track" => otpRead'[d] <= RequestLimit
       /\ \A d \in Client \ {c} : otpPc'[d] = otpPc[d] /\ otpRead'[d] = otpRead[d]
    BY <2>1, <2>2, OtpMove
  <2> QED
    BY <1>2, <2>1, <2>3 DEF OtpInv, otpCounters
<1>11. CASE CountWrong(c)
  <2>1. /\ otpPc' = [otpPc EXCEPT ![c] = "idle"]
        /\ otpRead' = [otpRead EXCEPT ![c] = 0]
        /\ UNCHANGED <<otpRequests, otpMails, otpResends>>
    BY <1>11 DEF CountWrong, Moves
  <2>2. /\ otpKeys' \subseteq OtpKey /\ otpAttempts' \in 0..MaxAttempts
        /\ otpTries' \in Nat
    BY <1>2, <1>11 DEF CountWrong, ForgetAttempts
  <2> QED
    BY <1>1, <1>2, <2>1, <2>2 DEF OtpPlaces
<1>12. CASE AcceptOtp(c)
  BY <1>1, <1>2, <1>12 DEF AcceptOtp, ForgetAttempts, Moves, OtpPlaces
<1> QED
  BY <1>3, <1>5, <1>6, <1>7, <1>8, <1>9, <1>10, <1>11, <1>12 DEF OtpStep

\* So do the keys that expire.
LEMMA OtpExpiryType ==
    ASSUME OtpInv,
           (\E k \in OtpKey : KeyExpires(k)) \/ RequestsExpire \/ AttemptsExpire
    PROVE  OtpInv' /\ otpPc' = otpPc /\ otpRead' = otpRead
BY CountsAreNumbers
DEF OtpInv, KeyExpires, RequestsExpire, AttemptsExpire, ForgetAttempts,
    otpCounters

Within(t, x, y, r) == 2 * t + 2 * x + y * y + y <= r

\* A level that drops, and with it the other one or not.
LEMMA LevelDrops ==
    ASSUME NEW t \in Nat, NEW x \in Nat, NEW y \in Nat, NEW r \in Int, x >= 1,
           Within(t, x, y, r), Within(t, y, x, r)
    PROVE  /\ Within(t, x - 1, y, r - 2) /\ Within(t, y, x - 1, r - 2)
           /\ Within(t, x - 1, x - 1, r - 2)
<1>1. (x - 1) * (x - 1) + (x - 1) = x * x + x - 2 * x
  OBVIOUS
<1> QED
  BY <1>1 DEF Within

\* One more in the sum, or none, and two more in its bound.
LEMMA OneMoreWithin ==
    ASSUME NEW t \in Nat, NEW x \in Nat, NEW y \in Nat, NEW r \in Int,
           Within(t, x, y, r)
    PROVE  Within(t + 1, x, y, r + 2) /\ Within(t, x, y, r + 2)
<1>1. y * y \in Nat
  OBVIOUS
<1> QED
  BY <1>1 DEF Within

\* Below their limit the levels are within it.
LEMMA LevelsStart ==
    ASSUME NEW m \in Nat, NEW x \in 0..m, NEW y \in 0..m, NEW n \in Nat
    PROVE  Within(0, x, y, m * m + 3 * m + n)
<1>1. y * y <= m * m
  <2>1. y * y <= y * m /\ y * m <= m * m
    OBVIOUS
  <2>2. y * y \in Nat /\ y * m \in Nat /\ m * m \in Nat
    OBVIOUS
  <2> QED
    BY <2>1, <2>2
<1>2. y * y \in Nat /\ m * m \in Nat
  OBVIOUS
<1> QED
  BY <1>1, <1>2 DEF Within

(* Wrong codes: a request counts as trying from its wrong code to the write *)
(* of the counter.                                                          *)

TriesLeft(c) == IF c \in Client /\ otpPc[c] = "wrong"
                THEN MaxAttempts - otpRead[c] ELSE MaxAttempts - otpAttempts

Trying(c) == IF c \in Client /\ otpPc[c] \in {"readAttempts", "wrong"}
             THEN 1 ELSE 0

TriesRoom(c, d) ==
    MaxAttempts * MaxAttempts + 3 * MaxAttempts + 2 * (Trying(c) + Trying(d))

TriesInv(c, d) ==
    /\ Within(otpTries, TriesLeft(c), TriesLeft(d), TriesRoom(c, d))
    /\ Within(otpTries, TriesLeft(d), TriesLeft(c), TriesRoom(c, d))

TriesTyped == \A c : TriesLeft(c) \in 0..MaxAttempts /\ Trying(c) \in {0, 1}

\* A level is what is left of the limit.
LEMMA TriesType == OtpInv => TriesTyped
<1> SUFFICES ASSUME OtpInv, NEW c
             PROVE  TriesLeft(c) \in 0..MaxAttempts /\ Trying(c) \in {0, 1}
  BY DEF TriesTyped
<1>1. CASE c \in Client /\ otpPc[c] = "wrong"
  <2>1. otpRead[c] \in Nat /\ otpRead[c] <= MaxAttempts
    BY <1>1, CountsAreNumbers DEF OtpInv
  <2> QED
    BY <1>1, <2>1, CountsAreNumbers DEF TriesLeft, Trying
<1>2. CASE ~(c \in Client /\ otpPc[c] = "wrong")
  <2>1. otpAttempts \in 0..MaxAttempts
    BY DEF OtpInv
  <2> QED
    BY <1>2, <2>1, CountsAreNumbers DEF TriesLeft, Trying
<1> QED
  BY <1>1, <1>2

TriesOfAny == \A c, d : TriesInv(c, d)

\* When the counter is forgotten the levels are below the limit again.
LEMMA TriesForgotten == OtpInv /\ (otpTries = 0) => TriesOfAny
<1> SUFFICES ASSUME OtpInv, otpTries = 0, NEW c, NEW d
             PROVE  TriesInv(c, d)
  BY DEF TriesOfAny
<1>1. /\ TriesLeft(c) \in 0..MaxAttempts /\ TriesLeft(d) \in 0..MaxAttempts
      /\ 2 * (Trying(c) + Trying(d)) \in Nat
  BY TriesType DEF TriesTyped
<1> QED
  BY <1>1, LevelsStart, CountsAreNumbers DEF TriesInv, TriesRoom

\* Every step of request c, when d is the only other one.
LEMMA TriesStep ==
    ASSUME OtpInv, OtpInv', NEW c \in Client, NEW d, d # c,
           OtpStep(c), TriesInv(c, d)
    PROVE  TriesInv(c, d)'
<1> DEFINE r == TriesRoom(c, d)
<1>1. d \in Client => otpPc'[d] = otpPc[d] /\ otpRead'[d] = otpRead[d]
  BY OtpStepType
<1>2. Trying(d)' = Trying(d)
  BY <1>1 DEF Trying
<1>3. /\ TriesLeft(c) \in 0..MaxAttempts /\ TriesLeft(d) \in 0..MaxAttempts
      /\ TriesLeft(c)' \in 0..MaxAttempts /\ TriesLeft(d)' \in 0..MaxAttempts
      /\ otpTries \in Nat /\ otpTries' \in Nat
      /\ Trying(c) \in {0, 1} /\ Trying(d) \in {0, 1} /\ Trying(c)' \in {0, 1}
  <2>1. TriesTyped /\ TriesTyped'
    BY TriesType, PTL
  <2> QED
    BY <2>1 DEF TriesTyped, OtpInv
<1>4. /\ MaxAttempts \in Nat \ {0} /\ MaxAttempts * MaxAttempts \in Nat
      /\ r \in Int
  BY <1>3, CountsAreNumbers DEF TriesRoom
<1>5. TriesRoom(c, d)' = r + 2 * (Trying(c)' - Trying(c))
  BY <1>2, <1>3, <1>4 DEF TriesRoom
<1>6. CASE /\ UNCHANGED <<otpAttempts, otpTries>>
           /\ TriesLeft(c)' = TriesLeft(c) /\ Trying(c)' = Trying(c)
  <2>1. TriesLeft(d)' = TriesLeft(d)
    BY <1>1, <1>6 DEF TriesLeft
  <2> QED
    BY <1>2, <1>6, <2>1 DEF TriesInv, TriesRoom
<1>7. CASE \/ StartRegistration(c) \/ ResendRegistrationOtp(c)
           \/ CheckOtpRestrictions(c) \/ ReadRequests(c) \/ TrackOtpRequests(c)
           \/ StoreRegistration(c) \/ IssueOtp(c)
           \/ CompleteRegistration(c) \/ IsBlocked(c)
  <2>1. /\ UNCHANGED <<otpAttempts, otpTries>>
        /\ otpPc[c] \notin {"readAttempts", "wrong"}
        /\ otpPc'[c] \notin {"readAttempts", "wrong"}
    BY <1>7 DEF StartRegistration, ResendRegistrationOtp, CheckOtpRestrictions,
       ReadRequests, TrackOtpRequests, StoreRegistration, IssueOtp,
       CompleteRegistration, IsBlocked, Passes, Moves, otpCounters, OtpInv
  <2>2. TriesLeft(c)' = TriesLeft(c) /\ Trying(c)' = Trying(c)
    BY <2>1 DEF TriesLeft, Trying
  <2> QED
    BY <1>6, <2>1, <2>2
<1>8. CASE CompareOtp(c)
  <2>1. /\ otpPc[c] = "tryCode" /\ UNCHANGED otpAttempts
        /\ \/ otpPc'[c] \in {"idle", "right"} /\ otpTries' = otpTries
           \/ otpPc'[c] = "readAttempts" /\ otpTries' = otpTries + 1
    BY <1>8 DEF CompareOtp, Moves, OtpInv
  <2>2. TriesLeft(c)' = TriesLeft(c) /\ TriesLeft(d)' = TriesLeft(d) /\ Trying(c) = 0
    BY <1>1, <2>1 DEF TriesLeft, Trying
  <2>3. CASE otpPc'[c] # "readAttempts"
    <3>1. Trying(c)' = 0
      BY <2>1, <2>3 DEF Trying
    <3> QED
      BY <1>6, <2>1, <2>2, <2>3, <3>1
  <2>4. CASE otpPc'[c] = "readAttempts"
    <3>1. Trying(c)' = 1 /\ otpTries' = otpTries + 1
      BY <2>1, <2>4 DEF Trying
    <3>2. TriesRoom(c, d)' = r + 2
      BY <1>4, <1>5, <2>2, <3>1
    <3> QED
      BY <1>3, <1>4, <2>2, <3>1, <3>2, OneMoreWithin DEF TriesInv
  <2> QED
    BY <2>3, <2>4
<1>9. CASE ReadAttempts(c)
  <2>1. /\ otpPc[c] = "readAttempts" /\ otpPc'[c] = "wrong"
        /\ otpRead'[c] = otpAttempts /\ UNCHANGED <<otpAttempts, otpTries>>
    BY <1>9 DEF ReadAttempts, Moves, otpCounters, OtpInv
  <2>2. TriesLeft(c)' = TriesLeft(c) /\ Trying(c)' = Trying(c)
    BY <2>1 DEF TriesLeft, Trying
  <2> QED
    BY <1>6, <2>1, <2>2
<1>10. CASE CountWrong(c) /\ otpRead[c] + 1 <= MaxAttempts
  <2>1. /\ otpPc[c] = "wrong" /\ otpPc'[c] = "idle"
        /\ otpAttempts' = otpRead[c] + 1 /\ otpTries' = otpTries
        /\ otpRead[c] \in Nat
    <3>1. otpRead[c] \in Nat /\ otpPc \in [Client -> OtpPlaces]
      BY CountsAreNumbers DEF OtpInv
    <3>2. ~(otpRead[c] + 1 > MaxAttempts)
      BY <1>4, <1>10, <3>1
    <3> QED
      BY <1>10, <3>1, <3>2 DEF CountWrong, Moves
  <2>2. /\ TriesLeft(c) = MaxAttempts - otpRead[c]
        /\ TriesLeft(c)' = MaxAttempts - (otpRead[c] + 1)
        /\ Trying(c) = 1 /\ Trying(c)' = 0
    BY <2>1 DEF TriesLeft, Trying
  <2>3. TriesLeft(c)' = TriesLeft(c) - 1 /\ TriesLeft(c) >= 1
    BY <1>3, <1>4, <2>1, <2>2
  <2>4. TriesLeft(d)' = TriesLeft(d) \/ TriesLeft(d)' = TriesLeft(c) - 1
    BY <1>1, <2>1, <2>2, <2>3 DEF TriesLeft
  <2>5. TriesRoom(c, d)' = r - 2
    BY <1>4, <1>5, <2>2
  <2> QED
    BY <1>3, <1>4, <2>1, <2>3, <2>4, <2>5, LevelDrops DEF TriesInv
<1>11. CASE (CountWrong(c) /\ ~(otpRead[c] + 1 <= MaxAttempts)) \/ AcceptOtp(c)
  <2>1. (otpTries = 0)'
    BY <1>4, <1>11 DEF CountWrong, AcceptOtp, ForgetAttempts
  <2>2. TriesOfAny'
    BY <2>1, TriesForgotten, PTL
  <2> QED
    BY <2>2 DEF TriesOfAny
<1> QED
  BY <1>7, <1>8, <1>9, <1>10, <1>11 DEF OtpStep

(* Mails: a request that has written the counter counts until its mail.     *)

MailsLeft(c) ==
    IF c \in Client /\ otpPc[c] = "track" /\ otpRead[c] < RequestLimit
    THEN RequestLimit - otpRead[c] ELSE RequestLimit - otpRequests

Mailing(c) == IF c \in Client /\ otpPc[c] \in {"store", "issue"} THEN 1 ELSE 0

MailsRoom(c, d) == RequestLimit * RequestLimit + 3 * RequestLimit
                       + 2 * (2 - Mailing(c) - Mailing(d))

MailsInv(c, d) ==
    /\ Within(otpMails, MailsLeft(c), MailsLeft(d), MailsRoom(c, d))
    /\ Within(otpMails, MailsLeft(d), MailsLeft(c), MailsRoom(c, d))

MailsTyped == \A c : MailsLeft(c) \in 0..RequestLimit /\ Mailing(c) \in {0, 1}

\* A level is what is left of the limit.
LEMMA MailsType == OtpInv => MailsTyped
<1> SUFFICES ASSUME OtpInv, NEW c
             PROVE  MailsLeft(c) \in 0..RequestLimit /\ Mailing(c) \in {0, 1}
  BY DEF MailsTyped
<1>1. CASE c \in Client /\ otpPc[c] = "track" /\ otpRead[c] < RequestLimit
  <2>1. otpRead[c] \in Nat
    BY <1>1, CountsAreNumbers DEF OtpInv
  <2> QED
    BY <1>1, <2>1, CountsAreNumbers DEF MailsLeft, Mailing
<1>2. CASE ~(c \in Client /\ otpPc[c] = "track" /\ otpRead[c] < RequestLimit)
  <2>1. otpRequests \in 0..RequestLimit
    BY DEF OtpInv
  <2> QED
    BY <1>2, <2>1, CountsAreNumbers DEF MailsLeft, Mailing
<1> QED
  BY <1>1, <1>2

MailsOfAny == \A c, d : MailsInv(c, d)

\* When the counter is forgotten the levels are below the limit again.
LEMMA MailsForgotten == OtpInv /\ (otpMails = 0) => MailsOfAny
<1> SUFFICES ASSUME OtpInv, otpMails = 0, NEW c, NEW d
             PROVE  MailsInv(c, d)
  BY DEF MailsOfAny
<1>1. /\ MailsLeft(c) \in 0..RequestLimit /\ MailsLeft(d) \in 0..RequestLimit
      /\ 2 * (2 - Mailing(c) - Mailing(d)) \in Nat
  BY MailsType DEF MailsTyped
<1> QED
  BY <1>1, LevelsStart, CountsAreNumbers DEF MailsInv, MailsRoom

\* Every step of request c, when d is the only other one.
LEMMA MailsStep ==
    ASSUME OtpInv, OtpInv', NEW c \in Client, NEW d, d # c,
           OtpStep(c), MailsInv(c, d)
    PROVE  MailsInv(c, d)'
<1> DEFINE r == MailsRoom(c, d)
<1>1. d \in Client => otpPc'[d] = otpPc[d] /\ otpRead'[d] = otpRead[d]
  BY OtpStepType
<1>2. Mailing(d)' = Mailing(d)
  BY <1>1 DEF Mailing
<1>3. /\ MailsLeft(c) \in 0..RequestLimit /\ MailsLeft(d) \in 0..RequestLimit
      /\ MailsLeft(c)' \in 0..RequestLimit /\ MailsLeft(d)' \in 0..RequestLimit
      /\ otpMails \in Nat /\ otpMails' \in Nat
      /\ Mailing(c) \in {0, 1} /\ Mailing(d) \in {0, 1} /\ Mailing(c)' \in {0, 1}
  <2>1. MailsTyped /\ MailsTyped'
    BY MailsType, PTL
  <2> QED
    BY <2>1 DEF MailsTyped, OtpInv
<1>4. /\ RequestLimit \in Nat \ {0} /\ RequestLimit * RequestLimit \in Nat
      /\ r \in Int /\ otpRead[c] \in Nat /\ otpPc \in [Client -> OtpPlaces]
      /\ otpRead \in [Client -> Counts]
  <2>1. RequestLimit \in Nat \ {0} /\ RequestLimit * RequestLimit \in Nat
    BY CountsAreNumbers
  <2>2. otpPc \in [Client -> OtpPlaces] /\ otpRead \in [Client -> Counts]
    BY DEF OtpInv
  <2>3. otpRead[c] \in Nat
    BY <2>2, CountsAreNumbers
  <2> QED
    BY <1>3, <2>1, <2>2, <2>3 DEF MailsRoom
<1>5. MailsRoom(c, d)' = r + 2 * (Mailing(c) - Mailing(c)')
  BY <1>2, <1>3, <1>4 DEF MailsRoom
<1>6. CASE /\ UNCHANGED <<otpRequests, otpMails>>
           /\ MailsLeft(c)' = MailsLeft(c) /\ Mailing(c)' = Mailing(c)
  <2>1. MailsLeft(d)' = MailsLeft(d)
    BY <1>1, <1>6 DEF MailsLeft
  <2> QED
    BY <1>2, <1>6, <2>1 DEF MailsInv, MailsRoom
<1>7. CASE \/ StartRegistration(c) \/ ResendRegistrationOtp(c)
           \/ CheckOtpRestrictions(c) \/ CompleteRegistration(c) \/ IsBlocked(c)
           \/ CompareOtp(c) \/ ReadAttempts(c) \/ CountWrong(c) \/ AcceptOtp(c)
  <2>1. /\ UNCHANGED <<otpRequests, otpMails>>
        /\ otpPc[c] \notin {"track", "store", "issue"}
        /\ otpPc'[c] \notin {"track", "store", "issue"}
    BY <1>4, <1>7 DEF StartRegistration, ResendRegistrationOtp,
       CheckOtpRestrictions, CompleteRegistration, IsBlocked, CompareOtp,
       ReadAttempts, CountWrong, AcceptOtp, ForgetAttempts, Passes, Moves,
       otpCounters
  <2>2. MailsLeft(c)' = MailsLeft(c) /\ Mailing(c)' = Mailing(c)
    BY <2>1 DEF MailsLeft, Mailing
  <2> QED
    BY <1>6, <2>1, <2>2
<1>8. CASE ReadRequests(c)
  <2>1. /\ UNCHANGED <<otpRequests, otpMails>>
        /\ otpPc[c] \in {"askAgain", "readRequests"}
        /\ \/ otpPc'[c] \in {"idle", "readRequests"}
           \/ otpPc'[c] = "track" /\ otpRead'[c] = otpRequests
    BY <1>4, <1>8 DEF ReadRequests, Passes, Moves, otpCounters
  <2>2. MailsLeft(c)' = MailsLeft(c) /\ Mailing(c)' = Mailing(c)
    BY <2>1 DEF MailsLeft, Mailing
  <2> QED
    BY <1>6, <2>1, <2>2
<1>9. CASE TrackOtpRequests(c) /\ otpRead[c] + 1 <= RequestLimit
  <2>1. ~(otpRead[c] + 1 > RequestLimit)
    BY <1>4, <1>9
  <2>2. /\ otpPc[c] = "track" /\ otpPc'[c] \in {"store", "issue"}
        /\ otpRequests' = otpRead[c] + 1 /\ otpMails' = otpMails
    BY <1>4, <1>9, <2>1 DEF TrackOtpRequests, Moves
  <2>3. /\ MailsLeft(c) = RequestLimit - otpRead[c]
        /\ MailsLeft(c)' = RequestLimit - (otpRead[c] + 1)
        /\ Mailing(c) = 0 /\ Mailing(c)' = 1
    BY <1>4, <1>9, <2>2 DEF MailsLeft, Mailing
  <2>4. MailsLeft(c)' = MailsLeft(c) - 1 /\ MailsLeft(c) >= 1
    BY <1>3, <1>4, <1>9, <2>3
  <2>5. MailsLeft(d)' = MailsLeft(d) \/ MailsLeft(d)' = MailsLeft(c) - 1
    BY <1>1, <2>2, <2>3, <2>4 DEF MailsLeft
  <2>6. MailsRoom(c, d)' = r - 2
    BY <1>4, <1>5, <2>3
  <2> QED
    BY <1>3, <1>4, <2>2, <2>4, <2>5, <2>6, LevelDrops DEF MailsInv
<1>10. CASE TrackOtpRequests(c) /\ ~(otpRead[c] + 1 <= RequestLimit)
  <2>1. /\ otpPc[c] = "track" /\ otpPc'[c] = "idle"
        /\ otpRequests' = otpRequests /\ otpMails' = otpMails
    BY <1>4, <1>10 DEF TrackOtpRequests, Moves
  <2>2. ~(otpRead[c] < RequestLimit)
    BY <1>4, <1>10
  <2>3. MailsLeft(c)' = MailsLeft(c) /\ Mailing(c)' = Mailing(c)
    BY <2>1, <2>2 DEF MailsLeft, Mailing
  <2> QED
    BY <1>6, <2>1, <2>3
<1>11. CASE StoreRegistration(c)
  <2>1. /\ UNCHANGED <<otpRequests, otpMails>>
        /\ otpPc[c] = "store" /\ otpPc'[c] = "issue"
    BY <1>4, <1>11 DEF StoreRegistration, Moves, otpCounters
  <2>2. MailsLeft(c)' = MailsLeft(c) /\ Mailing(c)' = Mailing(c)
    BY <2>1 DEF MailsLeft, Mailing
  <2> QED
    BY <1>6, <2>1, <2>2
<1>12. CASE IssueOtp(c)
  <2>1. /\ otpPc[c] = "issue" /\ otpPc'[c] = "idle" /\ UNCHANGED otpRequests
        /\ otpMails' = otpMails \/ otpMails' = otpMails + 1
    BY <1>4, <1>12 DEF IssueOtp, Moves
  <2>2. /\ MailsLeft(c)' = MailsLeft(c) /\ MailsLeft(d)' = MailsLeft(d)
        /\ Mailing(c) = 1 /\ Mailing(c)' = 0
    BY <1>1, <2>1 DEF MailsLeft, Mailing
  <2>3. MailsRoom(c, d)' = r + 2
    BY <1>4, <1>5, <2>2
  <2>4. /\ Within(otpMails, MailsLeft(c), MailsLeft(d), r)
        /\ Within(otpMails, MailsLeft(d), MailsLeft(c), r)
    BY DEF MailsInv
  <2>5. /\ Within(otpMails', MailsLeft(c), MailsLeft(d), r + 2)
        /\ Within(otpMails', MailsLeft(d), MailsLeft(c), r + 2)
    BY <1>3, <1>4, <2>1, <2>4, OneMoreWithin
  <2> QED
    BY <2>2, <2>3, <2>5 DEF MailsInv
<1> QED
  BY <1>7, <1>8, <1>9, <1>10, <1>11, <1>12 DEF OtpStep

\* Both bounds, for two requests.
OtpBounded(u, v) == OtpInv /\ TriesInv(u, v) /\ MailsInv(u, v)

OtpSymmetry == \A u, v : OtpBounded(u, v) => OtpBounded(v, u)

\* Which of the two requests is named first makes no difference.
LEMMA OtpSymmetric == OtpSymmetry
<1> SUFFICES ASSUME NEW u, NEW v, OtpBounded(u, v)
             PROVE  OtpBounded(v, u)
  BY DEF OtpSymmetry
<1>1. /\ Trying(u) \in {0, 1} /\ Trying(v) \in {0, 1}
      /\ Mailing(u) \in {0, 1} /\ Mailing(v) \in {0, 1}
  BY TriesType, MailsType DEF OtpBounded, TriesTyped, MailsTyped
<1>2. Trying(u) + Trying(v) = Trying(v) + Trying(u)
  BY <1>1
<1>3. 2 - Mailing(u) - Mailing(v) = 2 - Mailing(v) - Mailing(u)
  BY <1>1
<1> QED
  BY <1>2, <1>3 DEF OtpBounded, TriesInv, TriesRoom, MailsInv, MailsRoom

\* A step of the request that is named first.
LEMMA OtpRequestStep ==
    ASSUME NEW c \in Client, NEW d, d # c, OtpBounded(c, d), OtpStep(c)
    PROVE  OtpBounded(c, d)'
<1>1. OtpInv /\ OtpInv'
  BY OtpStepType DEF OtpBounded
<1> QED
  BY <1>1, TriesStep, MailsStep DEF OtpBounded

\* A step of either request, or a key that expires.
LEMMA OtpBoundedStep ==
    ASSUME NEW u, NEW v, u # v, Client \subseteq {u, v}, OtpBounded(u, v), OtpNext
    PROVE  OtpBounded(u, v)'
<1>1. ASSUME NEW c \in Client, OtpStep(c)
      PROVE  OtpBounded(u, v)'
  <2>1. CASE c = u
    BY <1>1, <2>1, OtpRequestStep
  <2>2. CASE c = v
    <3>1. OtpSymmetry /\ OtpSymmetry'
      BY OtpSymmetric, PTL
    <3>2. OtpBounded(v, u)'
      BY <1>1, <2>2, <3>1, OtpRequestStep DEF OtpSymmetry
    <3> QED
      BY <3>1, <3>2 DEF OtpSymmetry
  <2> QED
    BY <2>1, <2>2
<1>2. ASSUME (\E k \in OtpKey : KeyExpires(k)) \/ RequestsExpire \/ AttemptsExpire
      PROVE  OtpBounded(u, v)'
  <2>1. OtpInv' /\ otpPc' = otpPc /\ otpRead' = otpRead
    BY <1>2, OtpExpiryType DEF OtpBounded
  <2>2. TriesInv(u, v)'
    <3>1. CASE UNCHANGED <<otpAttempts, otpTries>>
      BY <2>1, <3>1 DEF OtpBounded, TriesInv, TriesRoom, TriesLeft, Trying
    <3>2. CASE AttemptsExpire
      <4>1. (otpTries = 0)'
        BY <3>2 DEF AttemptsExpire, ForgetAttempts
      <4>2. TriesOfAny'
        BY <2>1, <4>1, TriesForgotten, PTL
      <4> QED
        BY <4>2 DEF TriesOfAny
    <3> QED
      BY <1>2, <3>1, <3>2 DEF KeyExpires, RequestsExpire, otpCounters
  <2>3. MailsInv(u, v)'
    <3>1. CASE UNCHANGED <<otpRequests, otpMails>>
      BY <2>1, <3>1 DEF OtpBounded, MailsInv, MailsRoom, MailsLeft, Mailing
    <3>2. CASE RequestsExpire
      <4>1. (otpMails = 0)'
        BY <3>2 DEF RequestsExpire
      <4>2. MailsOfAny'
        BY <2>1, <4>1, MailsForgotten, PTL
      <4> QED
        BY <4>2 DEF MailsOfAny
    <3> QED
      BY <1>2, <3>1, <3>2 DEF KeyExpires, AttemptsExpire, ForgetAttempts, otpCounters
  <2> QED
    BY <2>1, <2>2, <2>3 DEF OtpBounded
<1> QED
  BY <1>1, <1>2 DEF OtpNext, OtpStep

\* Half of a product of successors.
LEMMA HalfOf ==
    ASSUME NEW m \in Nat, NEW n \in Int, 2 * n <= m * m + 3 * m + 4
    PROVE  n <= MostOf(m)
<1>1. (m + 1) * (m + 2) = m * m + 3 * m + 2 /\ m * m \in Nat
  OBVIOUS
<1>2. 2 * (n - 1) <= (m + 1) * (m + 2) /\ (m + 1) * (m + 2) \in Nat
  BY <1>1
<1>3. ASSUME NEW a \in Int, NEW b \in Nat, 2 * a <= b
      PROVE  a <= b \div 2
  BY <1>3
<1>4. n - 1 <= ((m + 1) * (m + 2)) \div 2
  BY <1>2, <1>3
<1>5. ((m + 1) * (m + 2)) \div 2 \in Int
  BY <1>2
<1> QED
  BY <1>4, <1>5 DEF MostOf

\* The invariant bounds what is tried and mailed.
LEMMA OtpBoundedMeans ==
    ASSUME NEW u, NEW v, OtpBounded(u, v)
    PROVE  otpTries <= MostOf(MaxAttempts) /\ otpMails <= MostOf(RequestLimit)
<1>1. /\ otpTries \in Nat /\ otpMails \in Nat
      /\ TriesLeft(u) \in 0..MaxAttempts /\ TriesLeft(v) \in 0..MaxAttempts
      /\ MailsLeft(u) \in 0..RequestLimit /\ MailsLeft(v) \in 0..RequestLimit
      /\ Trying(u) \in {0, 1} /\ Trying(v) \in {0, 1}
      /\ Mailing(u) \in {0, 1} /\ Mailing(v) \in {0, 1}
  BY TriesType, MailsType DEF OtpBounded, OtpInv, TriesTyped, MailsTyped
<1>2. ASSUME NEW t \in Nat, NEW x \in Nat, NEW y \in Nat, NEW r \in Int,
             Within(t, x, y, r)
      PROVE  2 * t <= r
  <2>1. y * y \in Nat
    OBVIOUS
  <2> QED
    BY <1>2, <2>1 DEF Within
<1>3. /\ MaxAttempts \in Nat /\ MaxAttempts * MaxAttempts \in Nat
      /\ RequestLimit \in Nat /\ RequestLimit * RequestLimit \in Nat
  BY CountsAreNumbers
<1>4. /\ TriesRoom(u, v) \in Int
      /\ TriesRoom(u, v) <= MaxAttempts * MaxAttempts + 3 * MaxAttempts + 4
  BY <1>1, <1>3 DEF TriesRoom
<1>5. /\ MailsRoom(u, v) \in Int
      /\ MailsRoom(u, v) <= RequestLimit * RequestLimit + 3 * RequestLimit + 4
  BY <1>1, <1>3 DEF MailsRoom
<1>6. 2 * otpTries <= TriesRoom(u, v)
  BY <1>1, <1>2, <1>3, <1>4 DEF OtpBounded, TriesInv
<1>7. 2 * otpMails <= MailsRoom(u, v)
  BY <1>1, <1>2, <1>3, <1>5 DEF OtpBounded, MailsInv
<1> QED
  BY <1>1, <1>3, <1>4, <1>5, <1>6, <1>7, HalfOf

\* A set without one of its elements.
LEMMA OneLess ==
    ASSUME NEW S, IsFiniteSet(S), NEW x \in S
    PROVE  /\ IsFiniteSet(S \ {x}) /\ Cardinality(S \ {x}) \in Nat
           /\ Cardinality(S) = Cardinality(S \ {x}) + 1
<1>1. Cardinality(S) \in Nat
  BY FS_CardinalityType
<1>2. IsFiniteSet(S \ {x}) /\ Cardinality(S \ {x}) = Cardinality(S) - 1
  BY FS_RemoveElement
<1>3. Cardinality(S \ {x}) \in Nat
  BY <1>2, FS_CardinalityType
<1> QED
  BY <1>1, <1>2, <1>3

\* At most two requests are two values, or fewer.
LEMMA TwoClients ==
    ASSUME Cardinality(Client) <= 2
    PROVE  \E u, v : u # v /\ Client \subseteq {u, v}
<1>1. CASE Client = {}
  BY <1>1, 0 # 1
<1>2. ASSUME NEW u \in Client
      PROVE  \E v : u # v /\ Client \subseteq {u, v}
  <2>1. /\ IsFiniteSet(Client \ {u}) /\ Cardinality(Client \ {u}) \in Nat
        /\ Cardinality(Client) = Cardinality(Client \ {u}) + 1
    BY ClientAssumption, OneLess
  <2>2. CASE Client \ {u} = {}
    <3>1. \E v : u # v
      BY 0 # 1
    <3> QED
      BY <2>2, <3>1
  <2>3. ASSUME NEW v \in Client \ {u}
        PROVE  Client \subseteq {u, v}
    <3>1. /\ IsFiniteSet((Client \ {u}) \ {v})
          /\ Cardinality((Client \ {u}) \ {v}) \in Nat
          /\ Cardinality(Client \ {u}) = Cardinality((Client \ {u}) \ {v}) + 1
      BY <2>1, OneLess
    <3>2. Cardinality((Client \ {u}) \ {v}) = 0
      BY <2>1, <3>1
    <3> QED
      BY <3>1, <3>2, FS_EmptySet
  <2> QED
    BY <2>2, <2>3
<1> QED
  BY <1>1, <1>2

(***************************************************************************)
(* Password reset.  A request that is about to set a password has not set  *)
(* one, and none reads the token once it is used.                          *)
(***************************************************************************)

ResetInv ==
    /\ ResetTypeOK
    /\ \A c \in Client :
          /\ resetUses[c] <= 1
          /\ resetUses[c] = 1 => resetToken = "used"
          /\ resetPc[c] = "hashing" => resetUses[c] = 0

\* Every step of a reset keeps its invariant.
LEMMA ResetStep ==
    ASSUME ResetInv, ResetNext
    PROVE  ResetInv'
<1> USE DEF ResetInv, ResetTypeOK, Moves
<1>1. ASSUME NEW c \in Client, RequestPasswordReset(c)
      PROVE  ResetInv'
  BY <1>1 DEF RequestPasswordReset
<1>2. ASSUME NEW c \in Client, AnnounceReset(c)
      PROVE  ResetInv'
  <2>1. resetMailed' \in BOOLEAN
    BY <1>2, Zenon DEF AnnounceReset
  <2> QED
    BY <1>2, <2>1 DEF AnnounceReset
<1>3. ASSUME NEW c \in Client, ReadReset(c)
      PROVE  ResetInv'
  BY <1>3 DEF ReadReset
<1>4. ASSUME NEW c \in Client, SetPassword(c)
      PROVE  ResetInv'
  BY <1>4 DEF SetPassword
<1>5. ASSUME NEW c \in Client, ResetFails(c)
      PROVE  ResetInv'
  BY <1>5 DEF ResetFails
<1>6. ASSUME ResetExpires
      PROVE  ResetInv'
  BY <1>6 DEF ResetExpires
<1> QED
  BY <1>1, <1>2, <1>3, <1>4, <1>5, <1>6 DEF ResetNext

(***************************************************************************)
(* The counter of auth-service.  What may still be let through in the life *)
(* of the key depends on the requests that are about to write it: those    *)
(* about to set it start the count again one after the other, and before   *)
(* each of them the others may fill it, and pass it when it is full.       *)
(***************************************************************************)

Setters == {c \in Client : rlPc[c] = "set"}
Incrers == {c \in Client : rlPc[c] = "incr"}

\* In terms of the number of requests, setters and incrementers: requests let
\* through before the next setter, and those that the setters make room for.
Soon(n, k, s, i) ==
    IF k < MaxRequests THEN MaxRequests - 1 - k + (n - s) ELSE i

Later(n, s) == 2 * s * (MaxRequests - 1) + 2 * s * (n - s) + s * (s + 1)

\* The most that may be let through, twice.
Room(n) == 2 * n * MaxRequests + n * (n - 1)

CountWithin(n, k, g, s, i) ==
    /\ k = 0 => g = 0
    /\ k > 0 => 2 * g + 2 * Soon(n, k, s, i) + Later(n, s) <= Room(n)

\* What the limiters are configured with.
LEMMA LimitsAreNumbers ==
    /\ MaxRequests \in Nat \ {0} /\ Limit \in Nat \ {0}
    /\ Window \in Nat /\ MaxDelay \in Nat /\ MaxTime \in Nat
BY LimitersAssumption

\* One setter less.
LEMMA LaterDrops ==
    ASSUME NEW n \in Nat, NEW s \in Nat, s > 0, s <= n
    PROVE  Later(n, s) = Later(n, s - 1) + 2 * (MaxRequests - 1) + 2 * (n - s) + 2
<1> DEFINE m == MaxRequests - 1
<1>1. m \in Int
  BY LimitsAreNumbers
<1> HIDE DEF m
<1>2. 2 * s * m = 2 * (s - 1) * m + 2 * m
  BY <1>1
<1>3. 2 * s * (n - s) = 2 * (s - 1) * (n - (s - 1)) + 2 * (n - s) - 2 * s + 2
  OBVIOUS
<1>4. s * (s + 1) = (s - 1) * ((s - 1) + 1) + 2 * s
  OBVIOUS
<1>5. /\ 2 * (s - 1) * m \in Int /\ 2 * (s - 1) * (n - (s - 1)) \in Int
      /\ (s - 1) * ((s - 1) + 1) \in Int
  BY <1>1
<1> QED
  BY <1>1, <1>2, <1>3, <1>4, <1>5 DEF Later, m

\* What may be let through soon is a number.
LEMMA SoonType ==
    ASSUME NEW n \in Nat, NEW k \in Nat, NEW s \in Nat, NEW i \in Nat, s <= n
    PROVE  Soon(n, k, s, i) \in Nat
BY LimitsAreNumbers DEF Soon

\* What the setters make room for is a number.
LEMMA LaterType ==
    ASSUME NEW n \in Nat, NEW s \in Nat, s <= n
    PROVE  Later(n, s) \in Nat
<1>1. MaxRequests - 1 \in Nat /\ n - s \in Nat
  BY LimitsAreNumbers
<1>2. /\ 2 * s * (MaxRequests - 1) \in Nat /\ 2 * s * (n - s) \in Nat
      /\ s * (s + 1) \in Nat
  BY <1>1
<1> QED
  BY <1>2 DEF Later

\* So is the most that may be let through.
LEMMA RoomType ==
    ASSUME NEW n \in Nat
    PROVE  /\ n * MaxRequests \in Nat /\ n * (n - 1) \in Nat
           /\ Room(n) = 2 * (n * MaxRequests) + n * (n - 1)
           /\ Room(n) \in Nat
<1>1. n * (n - 1) \in Nat
  <2>1. CASE n = 0
    BY <2>1
  <2>2. CASE n # 0
    <3>1. n - 1 \in Nat
      BY <2>2
    <3> QED
      BY <3>1
  <2> QED
    BY <2>1, <2>2
<1>2. n * MaxRequests \in Nat /\ 2 * n * MaxRequests = 2 * (n * MaxRequests)
  BY LimitsAreNumbers
<1> QED
  BY <1>1, <1>2 DEF Room

\* The first to write the key after it was absent.
LEMMA FirstCounts ==
    ASSUME NEW n \in Nat, NEW s \in Nat, NEW i \in Nat, s + i <= n - 1
    PROVE  CountWithin(n, 1, 1, s, i)
<1> DEFINE m == MaxRequests
           j == n - s
<1>1. m \in Nat \ {0} /\ j \in Nat /\ j >= 1 /\ i <= j - 1 /\ n = s + j
  BY LimitsAreNumbers
<1>2. Soon(n, 1, s, i) <= m - 2 + j
  BY <1>1 DEF Soon
<1>3. Later(n, s) = 2 * s * (m - 1) + 2 * s * j + s * (s + 1)
  BY DEF Later
<1> HIDE DEF m, j
<1>4. (j - 1) * (2 * m + j - 2) >= 0
  <2>1. j - 1 \in Nat /\ 2 * m + j - 2 \in Nat
    BY <1>1
  <2> QED
    BY <2>1
<1>5. 2 * (s + j) * m + (s + j) * (s + j - 1) =
          2 + 2 * (m - 2 + j) + (2 * s * (m - 1) + 2 * s * j + s * (s + 1))
            + (j - 1) * (2 * m + j - 2)
  BY <1>1
<1>6. /\ 2 * (s + j) * m + (s + j) * (s + j - 1) \in Int
      /\ 2 * s * (m - 1) + 2 * s * j + s * (s + 1) \in Int
      /\ (j - 1) * (2 * m + j - 2) \in Int
      /\ Soon(n, 1, s, i) \in Int
  BY <1>1, SoonType
<1>7. 2 * 1 + 2 * Soon(n, 1, s, i) + Later(n, s)
          <= 2 * (s + j) * m + (s + j) * (s + j - 1)
  BY <1>1, <1>2, <1>3, <1>4, <1>5, <1>6
<1> QED
  BY <1>1, <1>7 DEF CountWithin, Room, m

\* A setter starts the count again.
LEMMA SetterCounts ==
    ASSUME NEW n \in Nat, NEW k \in Nat, NEW g \in Nat, NEW s \in Nat, NEW i \in Nat,
           s > 0, s + i <= n, CountWithin(n, k, g, s, i)
    PROVE  CountWithin(n, 1, g + 1, s - 1, i)
<1>1. CASE k = 0
  BY <1>1, FirstCounts DEF CountWithin
<1>2. CASE k > 0
  <2>1. 2 * g + 2 * Soon(n, k, s, i) + Later(n, s) <= Room(n)
    BY <1>2 DEF CountWithin
  <2>2. Later(n, s) = Later(n, s - 1) + 2 * (MaxRequests - 1) + 2 * (n - s) + 2
    BY LaterDrops
  <2>3. Soon(n, 1, s - 1, i) <= MaxRequests - 1 + (n - s)
    BY LimitsAreNumbers DEF Soon
  <2>4. /\ Soon(n, k, s, i) \in Nat /\ Soon(n, 1, s - 1, i) \in Nat
        /\ Later(n, s - 1) \in Nat /\ Room(n) \in Nat /\ MaxRequests \in Nat
    <3>1. s - 1 \in Nat /\ s - 1 <= n /\ s <= n
      OBVIOUS
    <3> QED
      BY <3>1, SoonType, LaterType, RoomType, LimitsAreNumbers
  <2>5. 2 * (g + 1) + 2 * Soon(n, 1, s - 1, i) + Later(n, s - 1) <= Room(n)
    BY <2>1, <2>2, <2>3, <2>4
  <2> QED
    BY <2>5 DEF CountWithin
<1> QED
  BY <1>1, <1>2

\* A request that increments the count.
LEMMA IncrerCounts ==
    ASSUME NEW n \in Nat, NEW k \in Nat, NEW g \in Nat, NEW s \in Nat, NEW i \in Nat,
           i > 0, s + i <= n, CountWithin(n, k, g, s, i)
    PROVE  CountWithin(n, k + 1, g + 1, s, i - 1)
<1>1. CASE k = 0
  BY <1>1, FirstCounts DEF CountWithin
<1>2. CASE k > 0
  <2>1. 2 * g + 2 * Soon(n, k, s, i) + Later(n, s) <= Room(n)
    BY <1>2 DEF CountWithin
  <2>2. Soon(n, k + 1, s, i - 1) <= Soon(n, k, s, i) - 1
    BY LimitsAreNumbers DEF Soon
  <2>3. /\ Soon(n, k, s, i) \in Nat /\ Soon(n, k + 1, s, i - 1) \in Nat
        /\ Later(n, s) \in Nat /\ Room(n) \in Nat
    <3>1. s <= n /\ i - 1 \in Nat /\ k + 1 \in Nat
      OBVIOUS
    <3> QED
      BY <3>1, SoonType, LaterType, RoomType
  <2>4. 2 * (g + 1) + 2 * Soon(n, k + 1, s, i - 1) + Later(n, s) <= Room(n)
    BY <2>1, <2>2, <2>3
  <2> QED
    BY <2>4 DEF CountWithin
<1> QED
  BY <1>1, <1>2

\* A setter that gives up.
LEMMA SetterLeaves ==
    ASSUME NEW n \in Nat, NEW k \in Nat, NEW g \in Nat, NEW s \in Nat, NEW i \in Nat,
           s > 0, s + i <= n, CountWithin(n, k, g, s, i)
    PROVE  CountWithin(n, k, g, s - 1, i)
<1>1. CASE k > 0
  <2>1. 2 * g + 2 * Soon(n, k, s, i) + Later(n, s) <= Room(n)
    BY <1>1 DEF CountWithin
  <2>2. Later(n, s) = Later(n, s - 1) + 2 * (MaxRequests - 1) + 2 * (n - s) + 2
    BY LaterDrops
  <2>3. Soon(n, k, s - 1, i) <= Soon(n, k, s, i) + 1
    BY LimitsAreNumbers DEF Soon
  <2>4. /\ Soon(n, k, s, i) \in Nat /\ Soon(n, k, s - 1, i) \in Nat
        /\ Later(n, s - 1) \in Nat /\ Room(n) \in Nat /\ MaxRequests \in Nat \ {0}
    <3>1. s - 1 \in Nat /\ s - 1 <= n /\ s <= n
      OBVIOUS
    <3> QED
      BY <3>1, SoonType, LaterType, RoomType, LimitsAreNumbers
  <2>5. 2 * g + 2 * Soon(n, k, s - 1, i) + Later(n, s - 1) <= Room(n)
    BY <2>1, <2>2, <2>3, <2>4
  <2> QED
    BY <1>1, <2>5 DEF CountWithin
<1> QED
  BY <1>1 DEF CountWithin

\* A request that gives up before it increments.
LEMMA IncrerLeaves ==
    ASSUME NEW n \in Nat, NEW k \in Nat, NEW g \in Nat, NEW s \in Nat, NEW i \in Nat,
           i > 0, s + i <= n, CountWithin(n, k, g, s, i)
    PROVE  CountWithin(n, k, g, s, i - 1)
<1>1. CASE k > 0
  <2>1. 2 * g + 2 * Soon(n, k, s, i) + Later(n, s) <= Room(n)
    BY <1>1 DEF CountWithin
  <2>2. Soon(n, k, s, i - 1) <= Soon(n, k, s, i)
    BY LimitsAreNumbers DEF Soon
  <2>3. /\ Soon(n, k, s, i) \in Nat /\ Soon(n, k, s, i - 1) \in Nat
        /\ Later(n, s) \in Nat /\ Room(n) \in Nat
    <3>1. s <= n /\ i - 1 \in Nat /\ k + 1 \in Nat
      OBVIOUS
    <3> QED
      BY <3>1, SoonType, LaterType, RoomType
  <2>4. 2 * g + 2 * Soon(n, k, s, i - 1) + Later(n, s) <= Room(n)
    BY <2>1, <2>2, <2>3
  <2> QED
    BY <1>1, <2>4 DEF CountWithin
<1> QED
  BY <1>1 DEF CountWithin

\* A request that has read the counter.
LEMMA ReaderCounts ==
    ASSUME NEW n, NEW k \in Nat, NEW g, NEW s, NEW i,
           k < MaxRequests, CountWithin(n, k, g, s, i)
    PROVE  /\ k = 0 => CountWithin(n, k, g, s + 1, i)
           /\ k > 0 => CountWithin(n, k, g, s, i + 1)
BY DEF CountWithin, Soon

\* A request that was counted and not let through.
LEMMA FewerGrants ==
    ASSUME NEW n \in Nat, NEW k \in Nat, NEW g \in Nat, NEW s \in Nat, NEW i \in Nat,
           k > 0, s + i <= n, CountWithin(n, k, g + 1, s, i)
    PROVE  CountWithin(n, k, g, s, i)
<1>1. Soon(n, k, s, i) \in Nat /\ Later(n, s) \in Nat
  <2>1. s <= n
    OBVIOUS
  <2> QED
    BY <2>1, SoonType, LaterType
<1>2. Room(n) \in Nat
  BY RoomType
<1>3. 2 * (g + 1) + 2 * Soon(n, k, s, i) + Later(n, s) <= Room(n)
  BY DEF CountWithin
<1>4. 2 * g + 2 * Soon(n, k, s, i) + Later(n, s) <= Room(n)
  BY <1>1, <1>2, <1>3
<1> QED
  BY <1>4 DEF CountWithin

\* The invariant bounds what was let through.
LEMMA CountWithinMeans ==
    ASSUME NEW n \in Nat, NEW k \in Nat, NEW g \in Nat, NEW s \in Nat, NEW i \in Nat,
           s + i <= n, CountWithin(n, k, g, s, i)
    PROVE  g <= MostGrants(n)
<1>1. Soon(n, k, s, i) \in Nat /\ Later(n, s) \in Nat
  <2>1. s <= n
    OBVIOUS
  <2> QED
    BY <2>1, SoonType, LaterType
<1>2. /\ n * MaxRequests \in Nat /\ n * (n - 1) \in Nat
      /\ Room(n) = 2 * (n * MaxRequests) + n * (n - 1)
  BY RoomType
<1>3. 2 * (g - n * MaxRequests) <= n * (n - 1)
  <2>1. 2 * g <= Room(n)
    BY <1>1, <1>2 DEF CountWithin
  <2> QED
    BY <1>2, <2>1
<1>4. ASSUME NEW a \in Int, NEW b \in Nat, 2 * a <= b
      PROVE  a <= b \div 2 /\ b \div 2 \in Nat
  BY <1>4
<1>5. /\ g - n * MaxRequests <= (n * (n - 1)) \div 2
      /\ (n * (n - 1)) \div 2 \in Nat
  BY <1>2, <1>3, <1>4
<1> QED
  BY <1>2, <1>5 DEF MostGrants

RlInv ==
    /\ rlCount \in Nat /\ rlTtl \in BOOLEAN /\ rlGrants \in Nat
    /\ rlPc \in [Client -> {"idle", "set", "incr"}]
    /\ rlStore \in 0..MaxRequests + 1
    /\ rlFallen \in Nat /\ rlFallen <= rlStore /\ rlFallen <= MaxRequests
    /\ CountWithin(Cardinality(Client), rlCount, rlGrants,
                   Cardinality(Setters), Cardinality(Incrers))

\* The two sets of requests are disjoint.
LEMMA WritersType ==
    /\ IsFiniteSet(Setters) /\ IsFiniteSet(Incrers)
    /\ Cardinality(Client) \in Nat
    /\ Cardinality(Setters) \in Nat /\ Cardinality(Incrers) \in Nat
    /\ Cardinality(Setters) + Cardinality(Incrers) <= Cardinality(Client)
<1>1. Setters \subseteq Client /\ Incrers \subseteq Client /\ Setters \cap Incrers = {}
  BY DEF Setters, Incrers
<1>2. /\ IsFiniteSet(Setters) /\ IsFiniteSet(Incrers)
      /\ IsFiniteSet(Setters \cup Incrers)
      /\ Cardinality(Setters \cup Incrers) <= Cardinality(Client)
  <2>1. Setters \cup Incrers \subseteq Client
    BY <1>1
  <2> QED
    BY <1>1, <2>1, ClientAssumption, FS_Subset
<1>3. /\ Cardinality(Setters) \in Nat /\ Cardinality(Incrers) \in Nat
      /\ Cardinality(Client) \in Nat
  BY <1>2, ClientAssumption, FS_CardinalityType
<1>4. Cardinality(Setters \cup Incrers)
          = Cardinality(Setters) + Cardinality(Incrers) - Cardinality(Setters \cap Incrers)
  BY <1>2, FS_Union
<1>5. Cardinality(Setters \cap Incrers) = 0
  BY <1>1, FS_EmptySet
<1> QED
  BY <1>2, <1>3, <1>4, <1>5

\* A request that leaves a set, or enters it.
LEMMA OneMember ==
    ASSUME NEW S, IsFiniteSet(S), NEW x
    PROVE  /\ x \in S => Cardinality(S \ {x}) = Cardinality(S) - 1 /\ Cardinality(S) > 0
           /\ x \notin S => Cardinality(S \cup {x}) = Cardinality(S) + 1
<1>1. Cardinality(S) \in Nat
  BY FS_CardinalityType
<1>2. ASSUME x \in S
      PROVE  Cardinality(S \ {x}) = Cardinality(S) - 1 /\ Cardinality(S) > 0
  <2>1. /\ Cardinality(S \ {x}) \in Nat
        /\ Cardinality(S) = Cardinality(S \ {x}) + 1
    BY <1>2, OneLess
  <2> QED
    BY <2>1
<1>3. x \notin S => Cardinality(S \cup {x}) = Cardinality(S) + 1
  BY <1>1, FS_AddElement
<1> QED
  BY <1>2, <1>3

\* Every step of the counter keeps its invariant.
LEMMA RlStep ==
    ASSUME RlInv, RlNext
    PROVE  RlInv'
<1> DEFINE n == Cardinality(Client)
           s == Cardinality(Setters)
           i == Cardinality(Incrers)
<1>1. /\ IsFiniteSet(Setters) /\ IsFiniteSet(Incrers)
      /\ n \in Nat /\ s \in Nat /\ i \in Nat /\ s + i <= n
  BY WritersType
<1>2. /\ rlCount \in Nat /\ rlTtl \in BOOLEAN /\ rlGrants \in Nat
      /\ rlPc \in [Client -> {"idle", "set", "incr"}]
      /\ rlStore \in 0..MaxRequests + 1
      /\ rlFallen \in Nat /\ rlFallen <= rlStore /\ rlFallen <= MaxRequests
      /\ CountWithin(n, rlCount, rlGrants, s, i)
  BY DEF RlInv
<1>3. \A c \in Client :
         /\ rlPc[c] = "set" => /\ Cardinality(Setters \ {c}) = s - 1 /\ s > 0
                               /\ Incrers \ {c} = Incrers
         /\ rlPc[c] = "incr" => /\ Cardinality(Incrers \ {c}) = i - 1 /\ i > 0
                                /\ Setters \ {c} = Setters
         /\ rlPc[c] = "idle" => /\ Cardinality(Setters \cup {c}) = s + 1
                                /\ Cardinality(Incrers \cup {c}) = i + 1
                                /\ Setters \ {c} = Setters /\ Incrers \ {c} = Incrers
  <2> SUFFICES ASSUME NEW c \in Client
               PROVE  /\ rlPc[c] = "set" => /\ Cardinality(Setters \ {c}) = s - 1 /\ s > 0
                                            /\ Incrers \ {c} = Incrers
                      /\ rlPc[c] = "incr" => /\ Cardinality(Incrers \ {c}) = i - 1 /\ i > 0
                                             /\ Setters \ {c} = Setters
                      /\ rlPc[c] = "idle" =>
                            /\ Cardinality(Setters \cup {c}) = s + 1
                            /\ Cardinality(Incrers \cup {c}) = i + 1
                            /\ Setters \ {c} = Setters /\ Incrers \ {c} = Incrers
    OBVIOUS
  <2>1. /\ rlPc[c] = "set" <=> c \in Setters
        /\ rlPc[c] = "incr" <=> c \in Incrers
    BY DEF Setters, Incrers
  <2>2. /\ c \notin Setters => Setters \ {c} = Setters
        /\ c \notin Incrers => Incrers \ {c} = Incrers
    OBVIOUS
  <2>3. /\ c \in Setters => Cardinality(Setters \ {c}) = s - 1 /\ s > 0
        /\ c \notin Setters => Cardinality(Setters \cup {c}) = s + 1
        /\ c \in Incrers => Cardinality(Incrers \ {c}) = i - 1 /\ i > 0
        /\ c \notin Incrers => Cardinality(Incrers \cup {c}) = i + 1
    BY <1>1, OneMember
  <2> HIDE DEF s, i
  <2> QED
    BY <2>1, <2>2, <2>3
<1>4. ASSUME NEW c \in Client, rlPc' = [rlPc EXCEPT ![c] = "idle"]
      PROVE  /\ Setters' = Setters \ {c} /\ Incrers' = Incrers \ {c}
             /\ rlPc' \in [Client -> {"idle", "set", "incr"}]
  BY <1>2, <1>4 DEF Setters, Incrers
<1>5. ASSUME NEW c \in Client, GetCount(c)
      PROVE  RlInv'
  <2>1. /\ rlPc[c] = "idle" /\ rlCount < MaxRequests
        /\ UNCHANGED <<rlCount, rlTtl, rlStore, rlGrants, rlFallen>>
    BY <1>5 DEF GetCount, Moves
  <2>2. CASE rlCount = 0
    <3>1. rlPc' = [rlPc EXCEPT ![c] = "set"]
      BY <1>5, <2>2 DEF GetCount, Moves
    <3>2. /\ Setters' = Setters \cup {c} /\ Incrers' = Incrers
          /\ rlPc' \in [Client -> {"idle", "set", "incr"}]
      BY <1>2, <2>1, <3>1 DEF Setters, Incrers
    <3>3. Cardinality(Setters') = s + 1 /\ Cardinality(Incrers') = i
      BY <1>3, <2>1, <3>2
    <3>4. CountWithin(n, rlCount', rlGrants', s + 1, i)
      BY <1>2, <2>1, <2>2, ReaderCounts
    <3> QED
      BY <1>2, <2>1, <3>2, <3>3, <3>4 DEF RlInv
  <2>3. CASE rlCount > 0
    <3>1. rlPc' = [rlPc EXCEPT ![c] = "incr"]
      <4>1. rlCount # 0
        BY <2>3
      <4> QED
        BY <1>5, <4>1 DEF GetCount, Moves
    <3>2. /\ Setters' = Setters /\ Incrers' = Incrers \cup {c}
          /\ rlPc' \in [Client -> {"idle", "set", "incr"}]
      BY <1>2, <2>1, <3>1 DEF Setters, Incrers
    <3>3. Cardinality(Setters') = s /\ Cardinality(Incrers') = i + 1
      BY <1>3, <2>1, <3>2
    <3>4. CountWithin(n, rlCount', rlGrants', s, i + 1)
      BY <1>2, <2>1, <2>3, ReaderCounts
    <3> QED
      BY <1>2, <2>1, <3>2, <3>3, <3>4 DEF RlInv
  <2> QED
    BY <1>2, <2>2, <2>3
<1>6. ASSUME NEW c \in Client, SetCount(c)
      PROVE  RlInv'
  <2>1. /\ rlPc[c] = "set" /\ rlPc' = [rlPc EXCEPT ![c] = "idle"]
        /\ rlCount' = 1 /\ rlGrants' = rlGrants + 1
        /\ rlTtl' = TRUE /\ UNCHANGED <<rlStore, rlFallen>>
    BY <1>6 DEF SetCount, Moves
  <2>2. /\ Cardinality(Setters') = s - 1 /\ Cardinality(Incrers') = i /\ s > 0
        /\ rlPc' \in [Client -> {"idle", "set", "incr"}]
    BY <1>3, <1>4, <2>1
  <2>3. CountWithin(n, rlCount', rlGrants', s - 1, i)
    BY <1>1, <1>2, <2>1, <2>2, SetterCounts
  <2> QED
    BY <1>2, <2>1, <2>2, <2>3 DEF RlInv
<1>7. ASSUME NEW c \in Client, IncrCount(c)
      PROVE  RlInv'
  <2>1. /\ rlPc[c] = "incr" /\ rlPc' = [rlPc EXCEPT ![c] = "idle"]
        /\ rlCount' = rlCount + 1 /\ rlGrants' = rlGrants + 1
        /\ UNCHANGED <<rlTtl, rlStore, rlFallen>>
    BY <1>7 DEF IncrCount, Moves
  <2>2. /\ Cardinality(Setters') = s /\ Cardinality(Incrers') = i - 1 /\ i > 0
        /\ rlPc' \in [Client -> {"idle", "set", "incr"}]
    BY <1>3, <1>4, <2>1
  <2>3. CountWithin(n, rlCount', rlGrants', s, i - 1)
    BY <1>1, <1>2, <2>1, <2>2, IncrerCounts
  <2> QED
    BY <1>2, <2>1, <2>2, <2>3 DEF RlInv
<1>8. ASSUME NEW c \in Client, FallBack(c)
      PROVE  RlInv'
  <2>1. /\ rlPc' = [rlPc EXCEPT ![c] = "idle"] /\ rlGrants' = rlGrants
        /\ rlStore' = IF rlStore > MaxRequests THEN rlStore ELSE rlStore + 1
        /\ rlFallen' = IF rlStore' > MaxRequests THEN rlFallen ELSE rlFallen + 1
    BY <1>8 DEF FallBack, Unanswered
  <2>2. /\ rlStore' \in 0..MaxRequests + 1
        /\ rlFallen' \in Nat /\ rlFallen' <= rlStore' /\ rlFallen' <= MaxRequests
    BY <1>2, <2>1, LimitsAreNumbers
  <2>3. rlCount' \in Nat /\ rlTtl' \in BOOLEAN
    <3>1. rlTtl' \in {rlTtl, TRUE} /\ rlCount' \in {rlCount, 1, rlCount + 1}
      BY <1>8 DEF FallBack, Unanswered
    <3>2. rlTtl' \in BOOLEAN
      BY <1>2, <3>1, Zenon
    <3> QED
      BY <1>2, <3>1, <3>2
  <2>4. CountWithin(n, rlCount', rlGrants, Cardinality(Setters'), Cardinality(Incrers'))
    <3>1. CASE rlPc[c] = "set"
      <4>1. Cardinality(Setters') = s - 1 /\ Cardinality(Incrers') = i /\ s > 0
        BY <1>3, <1>4, <2>1, <3>1
      <4>2. CountWithin(n, rlCount, rlGrants, s - 1, i)
        BY <1>1, <1>2, <4>1, SetterLeaves
      <4>3. CountWithin(n, 1, rlGrants, s - 1, i)
        <5>1. CountWithin(n, 1, rlGrants + 1, s - 1, i)
          BY <1>1, <1>2, <4>1, SetterCounts
        <5> HIDE DEF n, s, i
        <5>2. s - 1 \in Nat /\ (s - 1) + i <= n
          BY <1>1, <4>1
        <5> QED
          BY <1>1, <1>2, <5>1, <5>2, FewerGrants
      <4>4. rlCount' \in {rlCount, 1}
        BY <1>8, <3>1 DEF FallBack, Unanswered
      <4> QED
        BY <4>1, <4>2, <4>3, <4>4
    <3>2. CASE rlPc[c] = "incr"
      <4>1. Cardinality(Setters') = s /\ Cardinality(Incrers') = i - 1 /\ i > 0
        BY <1>3, <1>4, <2>1, <3>2
      <4>2. CountWithin(n, rlCount, rlGrants, s, i - 1)
        BY <1>1, <1>2, <4>1, IncrerLeaves
      <4>3. CountWithin(n, rlCount + 1, rlGrants, s, i - 1)
        <5>1. CountWithin(n, rlCount + 1, rlGrants + 1, s, i - 1)
          BY <1>1, <1>2, <4>1, IncrerCounts
        <5> HIDE DEF n, s, i
        <5>2. /\ i - 1 \in Nat /\ s + (i - 1) <= n
              /\ rlCount + 1 \in Nat /\ rlCount + 1 > 0
          BY <1>1, <1>2, <4>1
        <5> QED
          BY <1>1, <1>2, <5>1, <5>2, FewerGrants
      <4>4. rlCount' \in {rlCount, rlCount + 1}
        BY <1>8, <3>2 DEF FallBack, Unanswered
      <4> QED
        BY <4>1, <4>2, <4>3, <4>4
    <3>3. CASE rlPc[c] = "idle"
      <4>1. Setters' = Setters /\ Incrers' = Incrers
        BY <1>3, <1>4, <2>1, <3>3
      <4>2. rlCount' = rlCount
        BY <1>8, <3>3 DEF FallBack, Unanswered
      <4> QED
        BY <1>2, <4>1, <4>2
    <3> QED
      BY <1>2, <3>1, <3>2, <3>3
  <2> QED
    BY <1>2, <1>4, <2>1, <2>2, <2>3, <2>4 DEF RlInv
<1>9. CASE CountExpires
  <2>1. /\ rlCount' = 0 /\ rlGrants' = 0 /\ rlTtl' = FALSE
        /\ UNCHANGED <<rlPc, rlStore, rlFallen>>
    BY <1>9 DEF CountExpires
  <2>2. \A a, b, d : CountWithin(a, 0, 0, b, d)
    BY DEF CountWithin
  <2>3. CountWithin(n, rlCount', rlGrants', Cardinality(Setters'), Cardinality(Incrers'))
    BY <2>1, <2>2
  <2> QED
    BY <1>2, <2>1, <2>3 DEF RlInv
<1>10. CASE StoreExpires
  <2>1. rlStore' = 0 /\ rlFallen' = 0 /\ UNCHANGED <<rlCount, rlTtl, rlPc, rlGrants>>
    BY <1>10 DEF StoreExpires
  <2>2. /\ Setters' = Setters /\ Incrers' = Incrers
        /\ 0 \in 0..MaxRequests + 1 /\ 0 <= MaxRequests
    BY <2>1, LimitsAreNumbers DEF Setters, Incrers
  <2> QED
    BY <1>2, <2>1, <2>2 DEF RlInv
<1> QED
  BY <1>5, <1>6, <1>7, <1>8, <1>9, <1>10 DEF RlNext

(***************************************************************************)
(* The sliding window.  A grant has an entry in the key, under its number, *)
(* which stays there for as long as the grant may count: the entry's time  *)
(* is at most MaxDelay before the grant's.                                 *)
(***************************************************************************)

Recent(g) == g[1] + Window - MaxDelay > slNow

Span(t) == {g \in slGrants : g[1] \in t..(t + Window - MaxDelay - 1)}

TimesInv ==
    /\ slNow \in 0..MaxTime
    /\ slRead \in [Client -> 0..MaxTime + 1]
    /\ \A c \in Client : slRead[c] # NotAsked =>
          slRead[c] <= slNow /\ slNow <= slRead[c] + MaxDelay

GrantsInv ==
    /\ slGrants \subseteq Stamp /\ IsFiniteSet(slGrants)
    /\ \A g \in slGrants : g[1] <= slNow /\ g[2] < Cardinality(slGrants)
    /\ \A g, h \in slGrants : g[2] = h[2] => g = h

KeyInv ==
    /\ slKey \subseteq Stamp /\ IsFiniteSet(slKey)
    /\ \A g \in slGrants : Recent(g) =>
          \E e \in slKey : e[2] = g[2] /\ g[1] <= e[1] + MaxDelay

SpansInv == \A t \in 0..MaxTime : Cardinality(Span(t)) <= Limit

SlInv == TimesInv /\ GrantsInv /\ KeyInv /\ SpansInv

\* A stamp is a time and a number.
LEMMA StampType ==
    ASSUME NEW g \in Stamp
    PROVE  g[1] \in 0..MaxTime /\ g[1] \in Nat /\ g[2] \in Nat /\ g = <<g[1], g[2]>>
BY LimitsAreNumbers DEF Stamp

\* The recent grants have entries that this script does not remove.
LEMMA RecentIsKept ==
    ASSUME SlInv, NEW c \in Client, slRead[c] # NotAsked,
           NEW g \in slGrants, Recent(g)
    PROVE  \E e \in InWindow(slRead[c]) : e[2] = g[2] /\ g[1] <= e[1] + MaxDelay
<1>1. PICK e \in slKey : e[2] = g[2] /\ g[1] <= e[1] + MaxDelay
  BY DEF SlInv, KeyInv
<1>2. e[1] \in Nat /\ g[1] \in Nat
  BY StampType DEF SlInv, KeyInv, GrantsInv
<1>3. slRead[c] <= slNow /\ slRead[c] \in Nat /\ slNow \in Nat
  BY LimitsAreNumbers DEF SlInv, TimesInv
<1>4. e[1] + Window > slRead[c]
  BY <1>1, <1>2, <1>3, LimitsAreNumbers DEF Recent
<1> QED
  BY <1>1, <1>4 DEF InWindow

\* Grants of a span that reaches the present are as many as their entries.
LEMMA SpanIsKept ==
    ASSUME SlInv, NEW c \in Client, slRead[c] # NotAsked,
           NEW t \in 0..MaxTime, slNow \in t..(t + Window - MaxDelay - 1)
    PROVE  Cardinality(Span(t)) <= Cardinality(InWindow(slRead[c]))
<1> DEFINE kept == InWindow(slRead[c])
           f == [g \in Span(t) |-> CHOOSE e \in kept : e[2] = g[2]]
<1>1. IsFiniteSet(kept)
  BY FS_Subset DEF InWindow, SlInv, KeyInv
<1>2. ASSUME NEW g \in Span(t)
      PROVE  \E e \in kept : e[2] = g[2]
  <2>1. g \in slGrants /\ t <= g[1] /\ g[1] \in Nat
    BY StampType DEF Span, SlInv, GrantsInv
  <2>2. Recent(g)
    BY <2>1, LimitsAreNumbers DEF Recent, SlInv, TimesInv
  <2> QED
    BY <2>1, <2>2, RecentIsKept
<1>3. \A g \in Span(t) : f[g] \in kept /\ f[g][2] = g[2]
  BY <1>2
<1>4. \A g, h \in Span(t) : g[2] = h[2] => g = h
  BY DEF Span, SlInv, GrantsInv
<1>5. f \in [Span(t) -> kept]
  BY <1>3
<1> HIDE DEF f, kept
<1>6. \A g, h \in Span(t) : f[g] = f[h] => g = h
  BY <1>3, <1>4
<1>7. f \in Injection(Span(t), kept)
  BY <1>5, <1>6 DEF Injection, IsInjective
<1> QED
  BY <1>1, <1>7, FS_Injection DEF kept

\* A set with one more element, or with one that it had.
LEMMA OneAdded ==
    ASSUME NEW S, IsFiniteSet(S), NEW x
    PROVE  /\ IsFiniteSet(S \cup {x}) /\ Cardinality(S \cup {x}) \in Nat
           /\ Cardinality(S \cup {x}) <= Cardinality(S) + 1
           /\ x \notin S => Cardinality(S \cup {x}) = Cardinality(S) + 1
<1>1. IsFiniteSet(S \cup {x}) /\ Cardinality(S) \in Nat
  BY FS_AddElement, FS_CardinalityType
<1>2. CASE x \in S
  <2>1. S \cup {x} = S
    BY <1>2
  <2> QED
    BY <1>1, <1>2, <2>1
<1>3. CASE x \notin S
  <2>1. Cardinality(S \cup {x}) = Cardinality(S) + 1
    BY <1>3, FS_AddElement
  <2> QED
    BY <1>1, <1>3, <2>1
<1> QED
  BY <1>2, <1>3

\* A grant adds one to the spans that reach the present: those have fewer
\* grants than there are entries in the key, which were fewer than the limit.
LEMMA GrantStep ==
    ASSUME SlInv, NEW c \in Client, slRead[c] # NotAsked,
           Cardinality(InWindow(slRead[c])) < Limit,
           slKey' = InWindow(slRead[c])
                       \cup {<<slRead[c], Cardinality(slGrants)>>},
           slGrants' = slGrants \cup {<<slNow, Cardinality(slGrants)>>},
           slNow' = slNow
    PROVE  (GrantsInv /\ KeyInv /\ SpansInv)'
<1> DEFINE n    == Cardinality(slGrants)
           now  == slRead[c]
           kept == InWindow(slRead[c])
           new  == <<slNow, n>>
<1>1. /\ slGrants \subseteq Stamp /\ IsFiniteSet(slGrants) /\ n \in Nat
      /\ \A g \in slGrants : g[1] <= slNow /\ g[2] < n
      /\ \A g, h \in slGrants : g[2] = h[2] => g = h
  BY FS_CardinalityType DEF SlInv, GrantsInv
<1>2. /\ slNow \in 0..MaxTime /\ now \in 0..MaxTime
      /\ now <= slNow /\ slNow <= now + MaxDelay
  BY LimitsAreNumbers DEF SlInv, TimesInv, NotAsked
<1>3. kept \subseteq Stamp /\ IsFiniteSet(kept) /\ Cardinality(kept) \in Nat
  <2>1. kept \subseteq slKey
    BY DEF InWindow
  <2> QED
    BY <2>1, FS_Subset, FS_CardinalityType DEF SlInv, KeyInv
<1>4. /\ slKey' = kept \cup {<<now, n>>} /\ slGrants' = slGrants \cup {new}
      /\ slNow' = slNow /\ Cardinality(kept) < Limit
  OBVIOUS
<1>5. new \in Stamp /\ <<now, n>> \in Stamp /\ new[1] = slNow /\ new[2] = n
  BY <1>1, <1>2 DEF Stamp
<1>6. new \notin slGrants
  BY <1>1, <1>5
<1> HIDE DEF now, kept, new
<1>7. IsFiniteSet(slGrants') /\ Cardinality(slGrants') = n + 1
  <2>1. IsFiniteSet(slGrants \cup {new}) /\ Cardinality(slGrants \cup {new}) = n + 1
    BY <1>1, <1>6, OneAdded
  <2> HIDE DEF n
  <2> QED
    BY <1>4, <2>1
<1> HIDE DEF n
<1>8. IsFiniteSet(slKey') /\ slKey' \subseteq Stamp
  <2>1. IsFiniteSet(kept \cup {<<now, n>>})
    BY <1>3, OneAdded
  <2> QED
    BY <1>3, <1>4, <1>5, <2>1
<1>9. GrantsInv'
  <2>1. \A g \in slGrants' : g[1] <= slNow' /\ g[2] < n + 1
    <3>1. \A g \in slGrants : g[2] \in Nat
      BY <1>1, StampType
    <3>2. slNow \in Nat
      BY <1>2
    <3> QED
      BY <1>1, <1>4, <1>5, <3>1, <3>2
  <2>2. \A g, h \in slGrants' : g[2] = h[2] => g = h
    <3>1. \A g \in slGrants : g[2] # n
      <4>1. \A g \in slGrants : g[2] \in Nat
        BY <1>1, StampType
      <4> QED
        BY <1>1, <4>1
    <3> QED
      BY <1>1, <1>4, <1>5, <3>1
  <2>3. slGrants' \subseteq Stamp
    BY <1>1, <1>4, <1>5
  <2>4. \A g \in slGrants' : g[1] <= slNow' /\ g[2] < Cardinality(slGrants')
    BY <1>7, <2>1
  <2> QED
    BY <1>7, <2>2, <2>3, <2>4 DEF GrantsInv
<1>10. KeyInv'
  <2>1. ASSUME NEW g \in slGrants', Recent(g)'
        PROVE  \E e \in slKey' : e[2] = g[2] /\ g[1] <= e[1] + MaxDelay
    <3>1. CASE g = new
      BY <1>2, <1>4, <1>5, <3>1
    <3>2. CASE g \in slGrants
      <4>1. Recent(g)
        BY <1>4, <2>1 DEF Recent
      <4> QED
        BY <1>4, <3>2, <4>1, RecentIsKept DEF kept
    <3> QED
      BY <1>4, <3>1, <3>2
  <2> QED
    BY <1>8, <2>1 DEF KeyInv
<1>11. SpansInv'
  <2> SUFFICES ASSUME NEW t \in 0..MaxTime
               PROVE  Cardinality(Span(t)') <= Limit
    BY DEF SpansInv
  <2>1. /\ IsFiniteSet(Span(t)) /\ Cardinality(Span(t)) \in Nat
        /\ Cardinality(Span(t)) <= Limit
    <3>1. Span(t) \subseteq slGrants
      BY DEF Span
    <3> QED
      BY <1>1, <3>1, FS_Subset, FS_CardinalityType DEF SlInv, SpansInv
  <2>2. CASE slNow \in t..(t + Window - MaxDelay - 1)
    <3>1. Span(t)' = Span(t) \cup {new}
      BY <1>4, <1>5, <2>2 DEF Span
    <3>2. Cardinality(Span(t)) <= Cardinality(kept)
      BY <2>2, SpanIsKept DEF kept
    <3>3. Cardinality(Span(t) \cup {new}) <= Cardinality(Span(t)) + 1
      BY <2>1, OneAdded
    <3>4. Cardinality(Span(t) \cup {new}) \in Nat
      BY <2>1, OneAdded
    <3> QED
      BY <1>3, <1>4, <2>1, <3>1, <3>2, <3>3, <3>4, LimitsAreNumbers
  <2>3. CASE slNow \notin t..(t + Window - MaxDelay - 1)
    <3>1. Span(t)' = Span(t)
      BY <1>4, <1>5, <2>3 DEF Span
    <3> QED
      BY <2>1, <3>1
  <2> QED
    BY <2>2, <2>3
<1> QED
  BY <1>9, <1>10, <1>11

\* Every step of the sliding window keeps its invariant.
LEMMA SlStep ==
    ASSUME SlInv, SlNext
    PROVE  SlInv'
<1>1. ASSUME slGrants' = slGrants, slNow' \in {slNow, slNow + 1}
      PROVE  GrantsInv' /\ SpansInv'
             /\ \A g \in slGrants : Recent(g)' => Recent(g)
  <2>1. \A g \in slGrants : g[1] \in Nat /\ slNow \in Nat
    BY StampType DEF SlInv, GrantsInv, TimesInv
  <2>2. \A g \in slGrants : g[1] <= slNow' /\ (Recent(g)' => Recent(g))
    BY <1>1, <2>1, LimitsAreNumbers DEF Recent, SlInv, GrantsInv
  <2>3. \A t \in 0..MaxTime : Span(t)' = Span(t)
    BY <1>1 DEF Span
  <2> QED
    BY <1>1, <2>2, <2>3 DEF SlInv, GrantsInv, SpansInv
<1>2. ASSUME slGrants' = slGrants, slNow' \in {slNow, slNow + 1}, slKey' = slKey
      PROVE  GrantsInv' /\ SpansInv' /\ KeyInv'
  BY <1>1, <1>2 DEF SlInv, KeyInv
<1>pruned. ASSUME NEW c \in Client, slRead[c] # NotAsked, slNow' = slNow,
                  slKey' = InWindow(slRead[c]), slGrants' = slGrants
           PROVE  GrantsInv' /\ SpansInv' /\ KeyInv'
  <2>1. /\ GrantsInv' /\ SpansInv'
        /\ \A g \in slGrants : Recent(g)' => Recent(g)
    BY <1>1, <1>pruned
  <2>2. IsFiniteSet(slKey') /\ slKey' \subseteq Stamp
    <3>1. slKey' \subseteq slKey
      BY <1>pruned DEF InWindow
    <3> QED
      BY <3>1, FS_Subset DEF SlInv, KeyInv
  <2>3. KeyInv'
    BY <1>pruned, <2>1, <2>2, RecentIsKept DEF KeyInv
  <2> QED
    BY <2>1, <2>3
<1>3. ASSUME NEW c \in Client, slNow' = slNow,
             slRead' = [slRead EXCEPT ![c] = NotAsked]
      PROVE  TimesInv'
  BY <1>3, LimitsAreNumbers DEF SlInv, TimesInv, NotAsked
<1>4. ASSUME NEW c \in Client, ReadTime(c)
      PROVE  SlInv'
  <2>1. /\ slRead' = [slRead EXCEPT ![c] = slNow]
        /\ slNow' = slNow /\ slKey' = slKey /\ slGrants' = slGrants
    BY <1>4 DEF ReadTime
  <2>2. TimesInv'
    BY <2>1, LimitsAreNumbers DEF SlInv, TimesInv, NotAsked
  <2> QED
    BY <1>2, <2>1, <2>2 DEF SlInv
<1>5. ASSUME NEW c \in Client, Evaluate(c)
      PROVE  SlInv'
  <2>1. /\ slRead[c] # NotAsked /\ slNow' = slNow
        /\ slRead' = [slRead EXCEPT ![c] = NotAsked]
    BY <1>5 DEF Evaluate
  <2>2. TimesInv'
    BY <1>3, <2>1
  <2>3. CASE /\ Cardinality(InWindow(slRead[c])) < Limit
             /\ slKey' = InWindow(slRead[c])
                            \cup {<<slRead[c], Cardinality(slGrants)>>}
             /\ slGrants' = slGrants \cup {<<slNow, Cardinality(slGrants)>>}
    BY <2>1, <2>2, <2>3, GrantStep DEF SlInv
  <2>4. CASE slKey' = InWindow(slRead[c]) /\ slGrants' = slGrants
    BY <1>pruned, <2>1, <2>2, <2>4 DEF SlInv
  <2> QED
    BY <1>5, <2>3, <2>4 DEF Evaluate
<1>6. ASSUME NEW c \in Client, FailOpen(c)
      PROVE  SlInv'
  <2>1. /\ slRead[c] # NotAsked /\ slNow' = slNow /\ slGrants' = slGrants
        /\ slRead' = [slRead EXCEPT ![c] = NotAsked]
        /\ slKey' = slKey \/ slKey' = InWindow(slRead[c])
    BY <1>6 DEF FailOpen
  <2>2. TimesInv'
    BY <1>3, <2>1
  <2> QED
    BY <1>2, <1>pruned, <2>1, <2>2 DEF SlInv
<1>7. CASE KeyEnds
  <2>1. /\ slKey' = {} /\ UNCHANGED <<slNow, slRead, slGrants>>
        /\ \A g \in slGrants : slNow > g[1] + Window
    BY <1>7 DEF KeyEnds
  <2>2. \A g \in slGrants : g[1] \in Nat /\ slNow \in Nat
    BY StampType DEF SlInv, GrantsInv, TimesInv
  <2>3. \A g \in slGrants : ~Recent(g)
    BY <2>1, <2>2, LimitsAreNumbers DEF Recent
  <2>4. /\ GrantsInv' /\ SpansInv'
        /\ \A g \in slGrants : Recent(g)' => Recent(g)
    BY <1>1, <2>1
  <2>5. KeyInv'
    BY <2>1, <2>3, <2>4, FS_EmptySet DEF KeyInv
  <2>6. TimesInv'
    BY <2>1 DEF SlInv, TimesInv
  <2> QED
    BY <2>4, <2>5, <2>6 DEF SlInv
<1>8. CASE Tick
  <2>1. /\ slNow < MaxTime /\ slNow' = slNow + 1
        /\ UNCHANGED <<slRead, slKey, slGrants>>
        /\ \A c \in Client : slRead[c] # NotAsked => slNow < slRead[c] + MaxDelay
    BY <1>8 DEF Tick
  <2>2. TimesInv'
    BY <2>1, LimitsAreNumbers DEF SlInv, TimesInv
  <2> QED
    BY <1>2, <2>1, <2>2 DEF SlInv
<1> QED
  BY <1>4, <1>5, <1>6, <1>7, <1>8 DEF SlNext

(***************************************************************************)
(* The types of the other parts.  Each step keeps them, given what the     *)
(* part's own invariant says of the place where the step begins.           *)
(***************************************************************************)

\* An invite's types hold up to the number of credentials there may be.
LEMMA InvitesTypeStep ==
    ASSUME InvitesTypeOK, InviteInv, InvitesNext
    PROVE  InvitesTypeOK'
<1> USE DEF InvitesTypeOK, InviteStatus
<1>1. ASSUME NEW i \in Invite, CreateInvite(i) \/ TimePasses(i)
      PROVE  InvitesTypeOK'
  BY <1>1 DEF CreateInvite, TimePasses
<1>2. ASSUME NEW c \in Client, NEW i \in Invite, FindOverdue(c, i) \/ FindInvite(c, i)
      PROVE  InvitesTypeOK'
  BY <1>2 DEF FindOverdue, FindInvite, Moves, inviteRows
<1>3. NoAccept \in [invite : Invite \cup {"none"}, id : Id] /\ 0 \in Id
  BY InvitesAssumption DEF NoAccept, Id
<1>4. ASSUME NEW c \in Client, NEW from, Leave(c, from)
      PROVE  /\ acceptPc' \in [Client -> {"idle", "expire", "findEmail", "consume",
                                          "profile", "undo"}]
             /\ acceptOf' \in [Client -> [invite : Invite \cup {"none"}, id : Id]]
  BY <1>3, <1>4 DEF Leave, Moves
<1>5. \A c \in Client : acceptPc[c] # "idle" => acceptOf[c].invite \in Invite
  BY DEF InviteInv, InviteTypes
<1>6. ASSUME NEW c \in Client, MarkExpired(c)
      PROVE  InvitesTypeOK'
  <2>1. acceptPc[c] = "expire" /\ Leave(c, "expire")
        /\ UNCHANGED <<adminCred, adminProfile, adminIds, accepted>>
    BY <1>6 DEF MarkExpired, Leave, Moves
  <2>2. invites' \in [Invite -> [status : InviteStatus, by : Id, overdue : BOOLEAN]]
    BY <1>5, <1>6, <2>1 DEF MarkExpired
  <2> QED
    BY <1>4, <2>1, <2>2
<1>7. ASSUME NEW c \in Client, FindEmail(c) \/ RollBack(c)
      PROVE  InvitesTypeOK'
  <2>1. UNCHANGED inviteRows
    BY <1>7 DEF FindEmail, RollBack
  <2>2. CASE \E from : Leave(c, from)
    BY <1>4, <2>1, <2>2 DEF inviteRows
  <2>3. CASE Moves(acceptPc, c, "findEmail", "consume") /\ UNCHANGED acceptOf
    BY <2>1, <2>3 DEF inviteRows, Moves
  <2> QED
    BY <1>7, <2>2, <2>3 DEF FindEmail, RollBack
<1>8. ASSUME NEW c \in Client, Consume(c)
      PROVE  InvitesTypeOK'
  <2>1. /\ acceptPc[c] = "consume" /\ acceptPc' = [acceptPc EXCEPT ![c] = "profile"]
        /\ adminIds < MaxAccepts /\ adminIds' = adminIds + 1
        /\ adminCred' = adminIds + 1
        /\ invites' = [invites EXCEPT ![acceptOf[c].invite].status = "CONSUMED",
                                      ![acceptOf[c].invite].by = adminIds + 1]
        /\ acceptOf' = [acceptOf EXCEPT ![c].id = adminIds + 1]
        /\ UNCHANGED <<adminProfile, accepted>>
    BY <1>8 DEF Consume, Moves
  <2>2. adminIds + 1 \in Id
    BY <2>1, InvitesAssumption DEF Id
  <2> QED
    BY <1>5, <2>1, <2>2
<1>9. ASSUME NEW c \in Client, CreateProfile(c)
      PROVE  InvitesTypeOK'
  <2>1. acceptOf[c].id \in Id /\ UNCHANGED <<invites, adminCred, adminIds>>
    BY <1>9 DEF CreateProfile
  <2>2. CASE /\ Leave(c, "profile") /\ adminProfile' = acceptOf[c].id
             /\ accepted' = accepted \cup {acceptOf[c].id}
    BY <1>4, <2>1, <2>2
  <2>3. CASE /\ Moves(acceptPc, c, "profile", "undo")
             /\ adminProfile' \in {adminProfile, acceptOf[c].id}
             /\ UNCHANGED <<acceptOf, accepted>>
    BY <2>1, <2>3 DEF Moves
  <2> QED
    BY <1>9, <2>2, <2>3 DEF CreateProfile
<1>10. ASSUME NEW c \in Client, Undo(c)
       PROVE  InvitesTypeOK'
  <2>1. /\ Leave(c, "undo") /\ acceptPc[c] = "undo"
        /\ UNCHANGED <<adminProfile, adminIds, accepted>>
        /\ adminCred' \in {0, adminCred}
        /\ invites' \in {invites, Reopen(acceptOf[c].invite, acceptOf[c].id)}
    BY <1>10 DEF Undo, Leave, Moves
  <2>2. Reopen(acceptOf[c].invite, acceptOf[c].id)
          \in [Invite -> [status : InviteStatus, by : Id, overdue : BOOLEAN]]
    BY <1>3, <1>5, <2>1 DEF Reopen
  <2> QED
    BY <1>3, <1>4, <2>1, <2>2
<1> QED
  BY <1>1, <1>2, <1>6, <1>7, <1>8, <1>9, <1>10 DEF InvitesNext

\* An instance tries at most MaxBoots times.
BootTried == bootTries \in [Client -> 1..MaxBoots]

\* Every step of an instance keeps its count of attempts.
LEMMA BootTriesStep ==
    ASSUME BootTried, BootNext
    PROVE  BootTried'
<1> USE DEF BootTried
<1>1. ASSUME NEW c \in Client, NEW from, TryAgain(c, from)
      PROVE  BootTried'
  BY <1>1, BootstrapAssumption DEF TryAgain
<1>2. ASSUME NEW c \in Client, Recheck(c) \/ UndoCreate(c)
      PROVE  BootTried'
  BY <1>1, <1>2 DEF Recheck, UndoCreate
<1> QED
  BY <1>2 DEF BootNext, FindSuperAdmin, EnsureProfile, CreateCredential,
     LoseRace, CallProfile, WriteAudit

\* The records of the three breakers.
CircuitRecord == [state : BreakerState, due : BOOLEAN, recent : 0..Threshold,
                  attempts : 0..HalfOpenMax, successes : 0..1]
MailerRecord == [state : BreakerState, due : BOOLEAN, failures : 0..Threshold,
                 inFlight : BOOLEAN]
GateRecord == [state : BreakerState, due : BOOLEAN, failures : 0..Threshold]

\* What the breakers are reset to.
LEMMA CountsOfBreakers ==
    /\ 0 \in 0..Threshold /\ 0 \in 0..HalfOpenMax /\ 0 \in 0..1
    /\ FALSE \in BOOLEAN /\ TRUE \in BOOLEAN
BY BreakersAssumption

\* A count stops at the threshold.
LEMMA OneMoreType ==
    ASSUME NEW n \in 0..Threshold
    PROVE  OneMore(n) \in 0..Threshold
BY BreakersAssumption DEF OneMore

\* What a breaker is asked to do leaves it a breaker.
LEMMA CircuitOps ==
    ASSUME NEW b \in CircuitRecord
    PROVE  /\ \A s \in BreakerState : TransitionTo(b, s) \in CircuitRecord
           /\ Probing(b) \in CircuitRecord /\ Spent(b) \in CircuitRecord
           /\ Succeeded(b) \in CircuitRecord /\ Failed(b) \in CircuitRecord
<1> USE BreakersAssumption
<1>1. ASSUME NEW d \in CircuitRecord, NEW s \in BreakerState
      PROVE  TransitionTo(d, s) \in CircuitRecord
  <2>1. CASE s = "CLOSED"
    BY <1>1, <2>1, CountsOfBreakers DEF TransitionTo, CircuitRecord
  <2>2. CASE s # "CLOSED"
    <3>1. [d EXCEPT !.state = s, !.due = FALSE] \in CircuitRecord
      BY CountsOfBreakers DEF CircuitRecord
    <3> QED
      BY <2>2, <3>1 DEF TransitionTo
  <2> QED
    BY <2>1, <2>2
<1>2. {"CLOSED", "OPEN", "HALF_OPEN"} = BreakerState
  BY DEF BreakerState
<1>3. Probing(b) \in CircuitRecord
  BY <1>1, <1>2 DEF Probing
<1>4. Spent(b) \in CircuitRecord
  <2>1. TransitionTo(b, "OPEN") \in CircuitRecord
    BY <1>1, <1>2
  <2>2. ASSUME NEW d \in CircuitRecord
        PROVE  [d EXCEPT !.attempts = 0] \in CircuitRecord
    BY DEF CircuitRecord
  <2> QED
    BY <2>1, <2>2 DEF Spent
<1>5. Succeeded(b) \in CircuitRecord
  <2>1. CASE b.state = "HALF_OPEN" /\ b.successes # 1
    BY <2>1 DEF Succeeded, CircuitRecord
  <2> QED
    BY <1>1, <1>2, <2>1 DEF Succeeded
<1>6. Failed(b) \in CircuitRecord
  <2> DEFINE n == [b EXCEPT !.recent = OneMore(@)]
  <2>1. b.recent \in 0..Threshold
    BY DEF CircuitRecord
  <2>2. n \in CircuitRecord
    BY <2>1, OneMoreType DEF CircuitRecord
  <2>3. Failed(b) \in {n, TransitionTo(n, "OPEN")}
    BY DEF Failed
  <2> HIDE DEF n
  <2> QED
    BY <1>1, <1>2, <2>2, <2>3
<1> QED
  BY <1>1, <1>3, <1>4, <1>5, <1>6

\* Every step of the circuit breaker of auth-service and user-service.
LEMMA CircuitStep ==
    ASSUME circuit \in CircuitRecord, circuitCalls \subseteq Client, CircuitNext
    PROVE  /\ circuit' \in CircuitRecord /\ circuitCalls' \subseteq Client
           /\ UNCHANGED <<healthy, mailVars, gateVars>>
<1>1. CASE CircuitDue
  BY <1>1 DEF CircuitDue, CircuitRecord
<1>2. ASSUME NEW c \in Client, Execute(c)
      PROVE  circuit' \in CircuitRecord /\ circuitCalls' \subseteq Client
  <2>1. Pruned \subseteq CircuitRecord
    BY BreakersAssumption DEF Pruned, CircuitRecord
  <2>2. PICK pruned \in Pruned :
           \/ circuit' = Probing(pruned)
           \/ /\ Probing(pruned).attempts < HalfOpenMax
              /\ circuit' = [Probing(pruned) EXCEPT !.attempts = @ + 1]
           \/ circuit' = Spent(Probing(pruned))
    BY <1>2 DEF Execute
  <2>3. Probing(pruned) \in CircuitRecord
    BY <2>1, CircuitOps
  <2>4. ASSUME NEW b \in CircuitRecord, b.attempts < HalfOpenMax
        PROVE  [b EXCEPT !.attempts = @ + 1] \in CircuitRecord
    BY <2>4, BreakersAssumption DEF CircuitRecord
  <2>5. circuit' \in CircuitRecord
    BY <2>2, <2>3, <2>4, CircuitOps
  <2> QED
    BY <1>2, <2>5 DEF Execute
<1>3. ASSUME NEW c \in Client, CircuitCallEnds(c)
      PROVE  circuit' \in CircuitRecord /\ circuitCalls' \subseteq Client
  BY <1>3, CircuitOps DEF CircuitCallEnds, CircuitSucceeds, CircuitFails
<1> QED
  BY <1>1, <1>2, <1>3 DEF CircuitNext, CircuitDue, Execute, CircuitCallEnds,
     CircuitSucceeds, CircuitFails

\* Every step of that of notification-service.
LEMMA MailerStep ==
    ASSUME mailer \in MailerRecord, mailCalls \subseteq Client, MailerNext
    PROVE  /\ mailer' \in MailerRecord /\ mailCalls' \subseteq Client
           /\ UNCHANGED <<healthy, circuitVars, gateVars>>
<1> USE DEF MailerRecord, BreakerState
<1>1. CASE MailerDue
  BY <1>1 DEF MailerDue
<1>2. ASSUME NEW c \in Client, MailAllowed(c) \/ MailTrial(c)
      PROVE  mailer' \in MailerRecord /\ mailCalls' \subseteq Client
  BY <1>2 DEF MailAllowed, MailTrial
<1>3. ASSUME NEW c \in Client, MailCallEnds(c)
      PROVE  mailer' \in MailerRecord /\ mailCalls' \subseteq Client
  <2>1. OnSuccess \in MailerRecord
    <3>1. [mailer EXCEPT !.state = "CLOSED", !.failures = 0, !.inFlight = FALSE]
             \in MailerRecord
      BY CountsOfBreakers
    <3> HIDE DEF MailerRecord
    <3> QED
      BY <3>1 DEF OnSuccess
  <2>2. OneMore(mailer.failures) \in 0..Threshold
    BY OneMoreType
  <2>3. OnFailure \in MailerRecord
    BY <2>2 DEF OnFailure
  <2> HIDE DEF MailerRecord
  <2> QED
    BY <1>3, <2>1, <2>3 DEF MailCallEnds, MailSucceeds, MailFails
<1> QED
  BY <1>1, <1>2, <1>3 DEF MailerNext, MailerDue, MailAllowed, MailTrial, MailCallEnds,
     MailSucceeds, MailFails

\* Every step of that of the gateway.
LEMMA GateStep ==
    ASSUME gate \in GateRecord, gateCalls \subseteq Client, GateNext
    PROVE  /\ gate' \in GateRecord /\ gateCalls' \subseteq Client
           /\ UNCHANGED <<healthy, circuitVars, mailVars>>
<1> USE DEF GateRecord, BreakerState
<1>1. CASE GateDue
  BY <1>1 DEF GateDue
<1>2. ASSUME NEW c \in Client, Forward(c)
      PROVE  gate' \in GateRecord /\ gateCalls' \subseteq Client
  <2>1. Refreshed \in GateRecord
    <3>1. /\ [gate EXCEPT !.state = "HALF_OPEN", !.failures = 0] \in GateRecord
          /\ [gate EXCEPT !.failures = 0] \in GateRecord
      BY CountsOfBreakers
    <3> HIDE DEF GateRecord
    <3> QED
      BY <3>1 DEF Refreshed
  <2> HIDE DEF GateRecord
  <2> QED
    BY <1>2, <2>1 DEF Forward
<1>3. ASSUME NEW c \in Client, GateCallEnds(c)
      PROVE  gate' \in GateRecord /\ gateCalls' \subseteq Client
  <2>1. RecordSuccess \in GateRecord
    <3>1. [gate EXCEPT !.state = "CLOSED", !.failures = 0] \in GateRecord
      BY CountsOfBreakers
    <3> HIDE DEF GateRecord
    <3> QED
      BY <3>1 DEF RecordSuccess
  <2>2. OneMore(gate.failures) \in 0..Threshold
    BY OneMoreType
  <2>3. RecordFailure \in GateRecord
    BY <2>2 DEF RecordFailure
  <2> HIDE DEF GateRecord
  <2> QED
    BY <1>3, <2>1, <2>3 DEF GateCallEnds
<1> QED
  BY <1>1, <1>2, <1>3 DEF GateNext, GateDue, Forward, GateCallEnds

\* All three, and the dependency they watch.
LEMMA BreakersStep ==
    ASSUME BreakersTypeOK,
           \/ CircuitNext \/ MailerNext \/ GateNext \/ HealthChanges
           \/ UNCHANGED breakerVars
    PROVE  BreakersTypeOK'
<1>1. /\ healthy \in BOOLEAN
      /\ circuit \in CircuitRecord /\ mailer \in MailerRecord /\ gate \in GateRecord
      /\ circuitCalls \subseteq Client /\ mailCalls \subseteq Client
      /\ gateCalls \subseteq Client
  BY DEF BreakersTypeOK, CircuitRecord, MailerRecord, GateRecord
<1>2. /\ healthy' \in BOOLEAN
      /\ circuit' \in CircuitRecord /\ mailer' \in MailerRecord /\ gate' \in GateRecord
      /\ circuitCalls' \subseteq Client /\ mailCalls' \subseteq Client
      /\ gateCalls' \subseteq Client
  <2>1. CASE CircuitNext
    BY <1>1, <2>1, CircuitStep DEF mailVars, gateVars
  <2>2. CASE MailerNext
    BY <1>1, <2>2, MailerStep DEF circuitVars, gateVars
  <2>3. CASE GateNext
    BY <1>1, <2>3, GateStep DEF circuitVars, mailVars
  <2>4. CASE HealthChanges
    <3>1. healthy' \in BOOLEAN
      BY <2>4, Zenon DEF HealthChanges
    <3> QED
      BY <1>1, <2>4, <3>1 DEF HealthChanges, circuitVars, mailVars, gateVars
  <2>5. CASE UNCHANGED breakerVars
    BY <1>1, <2>5 DEF breakerVars, circuitVars, mailVars, gateVars
  <2> QED
    BY <2>1, <2>2, <2>3, <2>4, <2>5
<1> QED
  BY <1>2 DEF BreakersTypeOK, CircuitRecord, MailerRecord, GateRecord

\* Each service starts in a number of steps.
LEMMA StartupIsFinite ==
    ASSUME lifeService \in DOMAIN Startup
    PROVE  Len(Steps) \in Nat
<1>1. lifeService \in {"auth", "user", "notification", "gateway"}
  BY DEF Startup
<1> QED
  BY <1>1 DEF Steps, Startup, AuthStartup, UserStartup, NotificationStartup,
     GatewayStartup

\* A process stays within its start and its channels.
LEMMA LifeTypeStep ==
    ASSUME LifeTypeOK, LifeNext
    PROVE  LifeTypeOK'
<1>1. /\ lifeService \in DOMAIN Startup /\ Len(Steps) \in Nat
      /\ lifeStep \in 1..Len(Steps) + 1
      /\ closing \subseteq Channels[lifeService]
      /\ lifeUp \in BOOLEAN /\ timer \in BOOLEAN /\ batch \in BOOLEAN
  BY StartupIsFinite DEF LifeTypeOK
<1>2. lifeService' = lifeService /\ Steps' = Steps
  BY DEF LifeNext, StepDone, PollerStarts, StartFails, BatchBegins, BatchEnds,
     Signal, CloseChannels, Exit, Watchdog, ChannelCloses, Steps
<1>3. lifeStep' \in 1..Len(Steps) + 1
  <2>1. CASE lifeStep' = lifeStep
    BY <1>1, <2>1
  <2>2. CASE ~IsUp /\ lifeStep' = lifeStep + 1
    BY <1>1, <2>2 DEF IsUp
  <2> QED
    BY <2>1, <2>2 DEF LifeNext, StepDone, PollerStarts, StartFails, BatchBegins,
       BatchEnds, Signal, CloseChannels, Exit, Watchdog, ChannelCloses, At
<1>4. closing' \subseteq Channels[lifeService]
  BY <1>1 DEF LifeNext, StepDone, PollerStarts, StartFails, BatchBegins,
     BatchEnds, Signal, CloseChannels, Exit, Watchdog, ChannelCloses
<1>5. lifeUp' \in BOOLEAN
  <2>1. lifeUp' = lifeUp \/ lifeUp' = IsUp
    BY DEF LifeNext, StepDone, PollerStarts, StartFails, BatchBegins,
       BatchEnds, Signal, CloseChannels, Exit, Watchdog, ChannelCloses
  <2>2. IsUp \in BOOLEAN
    BY <1>1 DEF IsUp
  <2> QED
    BY <1>1, <2>1, <2>2, Zenon
<1>6. timer' \in BOOLEAN
  <2>1. \/ timer' = timer \/ timer' = TRUE
        \/ timer' = (timer /\ "poller" \notin Channels[lifeService])
    BY Zenon DEF LifeNext, StepDone, PollerStarts, StartFails, BatchBegins,
       BatchEnds, Signal, CloseChannels, Exit, Watchdog, ChannelCloses
  <2> QED
    BY <1>1, <2>1, Zenon
<1>7. batch' \in BOOLEAN
  BY <1>1 DEF LifeNext, StepDone, PollerStarts, StartFails, BatchBegins,
     BatchEnds, Signal, CloseChannels, Exit, Watchdog, ChannelCloses
<1>8. shutdown' \in {"no", "listener", "channels"} /\ exit' \in {"no", "0", "1"}
  BY DEF LifeTypeOK, LifeNext, StepDone, PollerStarts, StartFails, BatchBegins,
     BatchEnds, Signal, CloseChannels, Exit, Watchdog, ChannelCloses
<1> QED
  BY <1>1, <1>2, <1>3, <1>4, <1>5, <1>6, <1>7, <1>8 DEF LifeTypeOK

\* Cursors are places of the order.
LEMMA DeadTypeStep ==
    ASSUME DeadTypeOK, DeadInv, DeadInv', DeadNext
    PROVE  DeadTypeOK'
<1>1. /\ deadPlace' \in [Dead -> 0..Places] /\ pagePc' \in {"off", "on", "done"}
      /\ pageSeen' \in [Dead -> Nat] /\ pageFilter' \subseteq Dead
      /\ pageOld' \subseteq Dead
  <2>1. pageSeen' \in [Dead -> {0, 1}]
    BY DEF DeadInv
  <2> QED
    BY <2>1 DEF DeadInv, Recorded
<1>2. deadQueue' \subseteq Dead
  BY DEF DeadTypeOK, DeadNext, Dies, Acknowledged, AlreadyRecorded, Redrive,
     RecordDead, Recorded, ListFrom, Page, deadVars
<1>3. pageStart' \in 0..Places /\ pageCursor' \in 0..Places
  <2>1. CASE Page
    <3>1. pageStart' = pageStart
      BY <2>1 DEF Page
    <3>2. pageCursor' = pageCursor \/ \E last \in Dead : pageCursor' = deadPlace[last]
      BY <2>1 DEF Page, FirstOf, AfterCursor, Recorded
    <3> QED
      BY <3>1, <3>2 DEF DeadTypeOK
  <2>2. CASE ~Page
    BY <2>2 DEF DeadTypeOK, DeadNext, Dies, AlreadyRecorded, Redrive, RecordDead,
       ListFrom, pageVars
  <2> QED
    BY <2>1, <2>2
<1> QED
  BY <1>1, <1>2, <1>3 DEF DeadTypeOK

(* Surfaces: beside what is right, a request rests without a token.         *)

GateToken == [active : {"none"}, roles : SUBSET Role, born : Surface]

BusyRequest == [at : {"gate", "answer", "bye"}, for : ClientType,
                token : Token \cup {NoToken} \cup GateToken]

SurfTyped ==
    /\ surfReq \in [Client -> {Resting} \cup BusyRequest]
    /\ {access, refresh, storefront} \subseteq Token \cup {NoToken}
    /\ inviters \subseteq Token

\* Replacing one request by a typed one keeps the types.
LEMMA OneRequestTyped ==
    ASSUME SurfTyped, NEW c \in Client, NEW q \in {Resting} \cup BusyRequest,
           surfReq' = [surfReq EXCEPT ![c] = q], UNCHANGED held
    PROVE  SurfTyped'
BY DEF SurfTyped, held

\* The session that the gate lets through.
LEMMA IssuedIsTyped ==
    ASSUME SurfTyped, SurfInv', NEW c \in Client, NEW role \in Role,
           surfReq[c].at = "gate", IssueSession(c, role)
    PROVE  SurfTyped'
<1>1. surfReq[c] \in BusyRequest
  BY DEF SurfTyped, Resting
<1> DEFINE t == [surfReq[c].token EXCEPT !.active = role]
           q == [surfReq[c] EXCEPT !.at = "answer", !.token = t]
<1>2. surfReq' = [surfReq EXCEPT ![c] = q] /\ UNCHANGED held
  BY <1>1 DEF IssueSession, SurfTyped, BusyRequest
<1>3. q.at = "answer" /\ q.token = t
  BY <1>1 DEF BusyRequest
<1>4. surfReq'[c] = q
  BY <1>2 DEF SurfTyped
<1> HIDE DEF t
<1>5. t \in Token
  <2> HIDE DEF q
  <2>1. RequestRight(c)'
    BY DEF SurfInv, RequestsRight
  <2> QED
    BY <1>3, <1>4, <2>1 DEF RequestRight, Right
<1>6. q \in BusyRequest
  BY <1>1, <1>5 DEF BusyRequest
<1> HIDE DEF q
<1> QED
  BY <1>2, <1>6, OneRequestTyped

\* Every step of the surfaces keeps their types.
LEMMA SurfTypeStep ==
    ASSUME SurfTyped, SurfInv, SurfInv', SurfNext
    PROVE  SurfTyped'
<1>1. ASSUME NEW c \in Client, NEW role \in {"CUSTOMER", "SELLER"},
             Register(c, role)
      PROVE  SurfTyped'
  <2> DEFINE t == [active |-> role, roles |-> {role}, born |-> SurfaceOf[role]]
             q == [at |-> "answer", for |-> SurfaceOf[role], token |-> t]
  <2>1. surfReq' = [surfReq EXCEPT ![c] = q] /\ UNCHANGED held
    BY <1>1 DEF Register
  <2>2. SurfaceOf[role] \in Surface /\ role \in Role
    BY DEF SurfaceOf, Surface, Role
  <2>3. q \in BusyRequest
    BY <2>2 DEF BusyRequest, Token, ClientType
  <2> HIDE DEF q
  <2> QED
    BY <2>1, <2>3, OneRequestTyped
<1>2. ASSUME NEW c \in Client, NEW s \in Surface, NEW h, VerifyCredentials(c, s, h)
      PROVE  SurfTyped'
  <2> DEFINE q == [at |-> "gate", for |-> s,
                   token |-> [active |-> "none", roles |-> roles, born |-> s]]
  <2>1. surfReq' = [surfReq EXCEPT ![c] = q] /\ UNCHANGED held
    BY <1>2 DEF VerifyCredentials
  <2>2. roles \subseteq Role
    BY DEF SurfInv, KeptRight
  <2>3. q \in BusyRequest
    BY <2>2 DEF BusyRequest, GateToken, ClientType
  <2> HIDE DEF q
  <2> QED
    BY <2>1, <2>3, OneRequestTyped
<1>3. ASSUME NEW c \in Client, CustomerLogin(c) \/ SellerLogin(c) \/ AdminLogin(c)
      PROVE  SurfTyped'
  <2>1. surfReq[c].at = "gate" /\ \E role \in Role : IssueSession(c, role)
    BY <1>3 DEF CustomerLogin, SellerLogin, AdminLogin, AtGate, HighestAdmin, Role,
       AdminRole
  <2> QED
    BY <2>1, IssuedIsTyped
<1>4. ASSUME NEW c \in Client, Refuse(c) \/ AnswerLost(c)
      PROVE  SurfTyped'
  BY <1>4, OneRequestTyped DEF Refuse, AnswerLost
<1>5. ASSUME NEW c \in Client, SendSessionResponse(c)
      PROVE  SurfTyped'
  <2> DEFINE t == surfReq[c].token
  <2>1. t \in Token
    BY <1>5 DEF SendSessionResponse, SurfInv, RequestsRight, RequestRight, Right
  <2>2. /\ access' \in {access, t} /\ refresh' \in {refresh, t}
        /\ storefront' \in {storefront, t} /\ inviters' = inviters
        /\ surfReq' = [surfReq EXCEPT ![c] = Resting]
    BY <1>5 DEF SendSessionResponse
  <2> HIDE DEF t
  <2> QED
    BY <2>1, <2>2 DEF SurfTyped
<1>6. ASSUME NEW c \in Client, NEW h \in ClientType, RefreshToken(c, h)
      PROVE  SurfTyped'
  <2>1. PICK t \in Carried(refresh) :
           surfReq' = [surfReq EXCEPT ![c] =
              [at |-> "answer", for |-> h, token |-> t]]
    BY <1>6 DEF RefreshToken
  <2>2. UNCHANGED held
    BY <1>6 DEF RefreshToken
  <2>3. t \in Token
    BY DEF SurfTyped, Carried
  <2> DEFINE q == [at |-> "answer", for |-> h, token |-> t]
  <2>4. q \in BusyRequest
    BY <2>3 DEF BusyRequest
  <2>5. surfReq' = [surfReq EXCEPT ![c] = q]
    BY <2>1
  <2> HIDE DEF q
  <2> QED
    BY <2>2, <2>4, <2>5, OneRequestTyped
<1>7. ASSUME NEW c \in Client, Logout(c)
      PROVE  SurfTyped'
  <2> DEFINE q == [at |-> "bye", for |-> "none", token |-> NoToken]
  <2>1. surfReq[c] = Resting /\ UNCHANGED held
    BY <1>7 DEF Logout
  <2>2. surfReq' = [surfReq EXCEPT ![c] = q]
    <3>1. surfReq' = [surfReq EXCEPT ![c] = [surfReq[c] EXCEPT !.at = "bye"]]
      BY <1>7 DEF Logout, SurfTyped
    <3>2. [Resting EXCEPT !.at = "bye"] = q
      BY DEF Resting
    <3> QED
      BY <2>1, <3>1, <3>2
  <2>3. q \in BusyRequest
    BY DEF BusyRequest, ClientType
  <2> HIDE DEF q
  <2> QED
    BY <2>1, <2>2, <2>3, OneRequestTyped
<1>8. ASSUME NEW c \in Client, ClearCookies(c)
      PROVE  SurfTyped'
  BY <1>8 DEF ClearCookies, SurfTyped
<1>9. ASSUME TokenEnds
      PROVE  SurfTyped'
  BY <1>9 DEF TokenEnds, SurfTyped
<1>10. ASSUME CreateInviteGate
       PROVE  SurfTyped'
  BY <1>10 DEF CreateInviteGate, Authenticated, Carried, SurfTyped
<1>11. ASSUME GainSeller
       PROVE  SurfTyped'
  BY <1>11 DEF GainSeller, SurfTyped, held
<1> QED
  BY <1>1, <1>2, <1>3, <1>4, <1>5, <1>6, <1>7, <1>8, <1>9, <1>10, <1>11
  DEF SurfNext, VerifyCustomerRegistration, VerifySellerRegistration

(***************************************************************************)
(* The specification.  A step of Next is a step of one part.               *)
(***************************************************************************)

PartSteps ==
    /\ part' = part
    /\ OtpNext \/ UNCHANGED otpVars
    /\ ResetNext \/ UNCHANGED resetVars
    /\ InvitesNext \/ UNCHANGED inviteVars
    /\ BootNext \/ UNCHANGED bootVars
    /\ \/ CircuitNext \/ MailerNext \/ GateNext \/ HealthChanges
       \/ UNCHANGED breakerVars
    /\ RlNext \/ UNCHANGED rlVars
    /\ SlNext \/ UNCHANGED slVars
    /\ LifeNext \/ UNCHANGED lifeVars
    /\ DeadNext \/ UNCHANGED dlqVars
    /\ SurfNext \/ UNCHANGED surfVars

\* Every step is one of each part, or leaves it alone.
LEMMA NextIsOfParts == [Next]_vars => PartSteps
<1> SUFFICES ASSUME [Next]_vars PROVE PartSteps
  OBVIOUS
<1>1. RlNext => UNCHANGED slVars
  BY DEF RlNext, GetCount, SetCount, IncrCount, FallBack, Unanswered, CountExpires,
     StoreExpires
<1>2. SlNext => UNCHANGED rlVars
  BY DEF SlNext, ReadTime, Evaluate, FailOpen, KeyEnds, Tick
<1> QED
  BY <1>1, <1>2 DEF PartSteps, Next, OtpSteps, ResetSteps, InviteSteps, BootSteps,
     BreakerSteps, In, LimiterSteps, LifeSteps, DeadSteps, SurfSteps, vars,
     limiterVars

\* The counts of passwords set, and of both limiters, for any requests.
CountsInv == ResetInv /\ RlInv /\ SlInv

\* Nothing is counted at first.
LEMMA CountsStart == Init => CountsInv
<1> SUFFICES ASSUME Init PROVE CountsInv
  OBVIOUS
<1>1. ResetInv
  <2>1. resetOverdue \in BOOLEAN /\ resetMailed \in BOOLEAN
    BY Zenon DEF Init, ResetInit
  <2> QED
    BY <2>1 DEF Init, ResetInit, ResetInv, ResetTypeOK
<1>2. RlInv
  <2>1. /\ rlCount = 0 /\ rlTtl = FALSE /\ rlStore = 0 /\ rlGrants = 0 /\ rlFallen = 0
        /\ rlPc = [c \in Client |-> "idle"]
    BY DEF Init, LimitersInit
  <2>2. 0 \in 0..MaxRequests + 1 /\ 0 <= MaxRequests
    BY LimitsAreNumbers
  <2>3. rlTtl \in BOOLEAN
    BY <2>1, Zenon
  <2>4. \A n, s, i : CountWithin(n, rlCount, rlGrants, s, i)
    BY <2>1 DEF CountWithin
  <2> QED
    BY <2>1, <2>2, <2>3, <2>4 DEF RlInv
<1>3. SlInv
  <2>1. /\ slNow = 0 /\ slRead = [c \in Client |-> NotAsked]
        /\ slKey = {} /\ slGrants = {}
    BY DEF Init, LimitersInit
  <2>2. TimesInv
    BY <2>1, LimitsAreNumbers DEF TimesInv, NotAsked
  <2>3. GrantsInv /\ KeyInv
    BY <2>1, FS_EmptySet DEF GrantsInv, KeyInv
  <2>4. SpansInv
    <3>1. \A t : Span(t) = {}
      BY <2>1 DEF Span
    <3> QED
      BY <3>1, FS_EmptySet, LimitsAreNumbers DEF SpansInv
  <2> QED
    BY <2>2, <2>3, <2>4 DEF SlInv
<1> QED
  BY <1>1, <1>2, <1>3 DEF CountsInv

\* Every step keeps the counts.
LEMMA CountsStep ==
    ASSUME CountsInv, [Next]_vars
    PROVE  CountsInv'
<1>1. PartSteps
  BY NextIsOfParts
<1>2. ResetInv'
  <2>1. CASE ResetNext
    BY <2>1, ResetStep DEF CountsInv
  <2>2. CASE UNCHANGED resetVars
    BY <2>2 DEF CountsInv, ResetInv, ResetTypeOK, resetVars
  <2> QED
    BY <1>1, <2>1, <2>2 DEF PartSteps
<1>3. RlInv'
  <2>1. CASE RlNext
    BY <2>1, RlStep DEF CountsInv
  <2>2. CASE UNCHANGED rlVars
    BY <2>2 DEF CountsInv, RlInv, Setters, Incrers, rlVars
  <2> QED
    BY <1>1, <2>1, <2>2 DEF PartSteps
<1>4. SlInv'
  <2>1. CASE SlNext
    BY <2>1, SlStep DEF CountsInv
  <2>2. CASE UNCHANGED slVars
    BY <2>2 DEF CountsInv, SlInv, TimesInv, GrantsInv, KeyInv, SpansInv, Span,
       Recent, slVars
  <2> QED
    BY <1>1, <2>1, <2>2 DEF PartSteps
<1> QED
  BY <1>2, <1>3, <1>4 DEF CountsInv

\* So they stay.
LEMMA CountsStay == Spec => []CountsInv
<1>1. CountsInv /\ [Next]_vars => CountsInv'
  BY CountsStep
<1> QED
  BY <1>1, CountsStart, PTL DEF Spec

\* However the requests interleave their reads and writes, and wherever Redis
\* fails under them, the middleware lets no more through than its limit for each
\* of them, one more for each pair, and the limit once more in memory.
THEOREM CounterStaysBounded == Spec => []CounterIsBounded
<1>1. CountsInv => CounterIsBounded
  <2> SUFFICES ASSUME CountsInv PROVE CounterIsBounded
    OBVIOUS
  <2>1. rlGrants <= MostGrants(Cardinality(Client))
    BY WritersType, CountWithinMeans DEF CountsInv, RlInv
  <2>2. /\ rlGrants \in Nat /\ rlFallen \in Nat /\ rlFallen <= MaxRequests
        /\ MaxRequests \in Nat
    BY LimitsAreNumbers DEF CountsInv, RlInv
  <2>3. MostGrants(Cardinality(Client)) \in Int
    <3>1. /\ Cardinality(Client) * MaxRequests \in Nat
          /\ Cardinality(Client) * (Cardinality(Client) - 1) \in Nat
      BY WritersType, RoomType
    <3>2. \A b \in Nat : b \div 2 \in Int
      OBVIOUS
    <3> QED
      BY <3>1, <3>2 DEF MostGrants
  <2> QED
    BY <2>1, <2>2, <2>3 DEF CounterIsBounded
<1> QED
  BY <1>1, CountsStay, PTL

\* No span of the sliding window holds more of the script's grants than its
\* limit.
THEOREM WindowStaysBounded == Spec => []WindowIsBounded
<1>1. CountsInv => WindowIsBounded
  BY DEF CountsInv, SlInv, SpansInv, Span, WindowIsBounded
<1> QED
  BY <1>1, CountsStay, PTL

\* The one-time passwords of at most two requests.
LEMMA OtpStaysBounded ==
    ASSUME NEW CONSTANT u, NEW CONSTANT v, u # v, Client \subseteq {u, v}
    PROVE  Spec => []OtpBounded(u, v)
<1>1. Init => OtpBounded(u, v)
  <2> SUFFICES ASSUME Init PROVE OtpBounded(u, v)
    OBVIOUS
  <2>1. OtpInv /\ otpTries = 0 /\ otpMails = 0
    BY OtpInitially DEF Init, OtpInit
  <2> QED
    BY <2>1, TriesForgotten, MailsForgotten DEF OtpBounded, TriesOfAny, MailsOfAny
<1>2. OtpBounded(u, v) /\ [Next]_vars => OtpBounded(u, v)'
  <2> SUFFICES ASSUME OtpBounded(u, v), [Next]_vars
               PROVE  OtpBounded(u, v)'
    OBVIOUS
  <2>1. CASE OtpNext
    BY <2>1, OtpBoundedStep
  <2>2. CASE UNCHANGED otpVars
    BY <2>2 DEF otpVars, OtpBounded, OtpInv, TriesInv, TriesRoom, TriesLeft, Trying,
       MailsInv, MailsRoom, MailsLeft, Mailing
  <2> QED
    BY <2>1, <2>2, NextIsOfParts DEF PartSteps
<1> QED
  BY <1>1, <1>2, PTL DEF Spec

\* Two requests at once try no more wrong codes, and get no more mails, than
\* the stale counts they can write allow; and a reset token sets at most one
\* password for each request, of however many.
THEOREM TriesStayBounded == Spec => []TriesAreBounded
<1>1. CountsInv => ResetUsesAreBounded
  BY DEF CountsInv, ResetInv, ResetUsesAreBounded
<1>2. CASE Cardinality(Client) <= 2
  <2>1. PICK u, v : u # v /\ Client \subseteq {u, v}
    BY <1>2, TwoClients
  <2>2. Spec => []OtpBounded(u, v)
    BY <2>1, OtpStaysBounded
  <2>3. OtpBounded(u, v) => OtpTriesAreBounded
    BY OtpBoundedMeans DEF OtpTriesAreBounded
  <2>4. ResetUsesAreBounded /\ OtpTriesAreBounded => TriesAreBounded
    BY DEF TriesAreBounded
  <2> QED
    BY <1>1, <2>2, <2>3, <2>4, CountsStay, PTL
<1>3. CASE ~(Cardinality(Client) <= 2)
  <2>1. ResetUsesAreBounded => TriesAreBounded
    BY <1>3 DEF TriesAreBounded, OtpTriesAreBounded
  <2> QED
    BY <1>1, <2>1, CountsStay, PTL
<1> QED
  BY <1>2, <1>3

\* The types, with what the parts need beside them to keep them.
TypesInv ==
    /\ part \in Part
    /\ OtpInv /\ CountsInv /\ InvitesTypeOK /\ InviteInv
    /\ BootInv /\ BootTried
    /\ BreakersTypeOK /\ LifeTypeOK
    /\ DeadInv /\ DeadTypeOK
    /\ SurfInv /\ SurfTyped

\* Init holds in states of the right types.
LEMMA TypesStart == Init => TypesInv
<1> SUFFICES ASSUME Init PROVE TypesInv
  OBVIOUS
<1>1. part \in Part /\ OtpInv /\ CountsInv
  BY OtpInitially, CountsStart DEF Init
<1>2. InvitesTypeOK /\ InviteInv
  <2>1. 0 \in Id
    BY InvitesAssumption DEF Id
  <2>2. InvitesTypeOK
    BY <2>1 DEF Init, InvitesInit, InvitesTypeOK, InviteStatus, NoAccept
  <2>3. InviteTypes
    BY DEF Init, InvitesInit, InviteTypes, InviteStatus, NoAccept
  <2> QED
    BY <2>2, <2>3 DEF Init, InvitesInit, InviteInv, HoldersAreOne, ConsumedIsOne,
       AcceptedStays, Holding
<1>3. BootInv /\ BootTried
  BY BootstrapAssumption DEF Init, BootInit, BootInv, BootTried, Owns
<1>4. BreakersTypeOK
  BY CountsOfBreakers DEF Init, BreakersInit, BreakersTypeOK, BreakerState
<1>5. LifeTypeOK
  <2>1. lifeService \in DOMAIN Startup
    BY DEF Init, Startup
  <2>2. /\ lifeStep = 1 /\ lifeUp = FALSE /\ shutdown = "no" /\ closing = {}
        /\ timer = FALSE /\ batch = FALSE /\ exit = "no"
    BY DEF Init, LifeInit
  <2>3. 1 \in 1..Len(Steps) + 1
    BY <2>1, StartupIsFinite
  <2> QED
    BY <2>1, <2>2, <2>3 DEF LifeTypeOK
<1>6. DeadInv /\ DeadTypeOK
  BY DeadAssumption DEF Init, DeadInit, DeadInv, DeadTypeOK, Recorded
<1>7. SurfInv /\ SurfTyped
  <2>1. /\ roles \in FirstRoles /\ inviters = {}
        /\ surfReq = [c \in Client |-> Resting]
        /\ access = NoToken /\ refresh = NoToken /\ storefront = NoToken
    BY DEF Init, SurfInit
  <2>2. KeptRight
    BY <2>1 DEF KeptRight, FirstRoles, Role, AdminRole
  <2>3. RequestsRight
    BY <2>1, Restings DEF RequestsRight, RequestRight
  <2> QED
    BY <2>1, <2>2, <2>3 DEF SurfInv, SurfTyped
<1> QED
  BY <1>1, <1>2, <1>3, <1>4, <1>5, <1>6, <1>7 DEF TypesInv

\* Every step keeps the types.
LEMMA TypesStep ==
    ASSUME TypesInv, [Next]_vars
    PROVE  TypesInv'
<1> USE DEF TypesInv
<1>1. PartSteps
  BY NextIsOfParts
<1>2. part' \in Part /\ CountsInv'
  BY <1>1, CountsStep DEF PartSteps
<1>3. OtpInv'
  <2>1. CASE OtpNext
    BY <2>1, OtpStepType, OtpExpiryType DEF OtpNext, OtpStep
  <2>2. CASE UNCHANGED otpVars
    BY <2>2 DEF otpVars, OtpInv
  <2> QED
    BY <1>1, <2>1, <2>2 DEF PartSteps
<1>4. InvitesTypeOK' /\ InviteInv'
  <2>1. CASE InvitesNext
    BY <2>1, InvitesTypeStep, InviteStep
  <2>2. CASE UNCHANGED inviteVars
    BY <2>2 DEF inviteVars, InvitesTypeOK, InviteInv, InviteTypes, HoldersAreOne,
       ConsumedIsOne, AcceptedStays, Holding
  <2> QED
    BY <1>1, <2>1, <2>2 DEF PartSteps
<1>5. BootInv' /\ BootTried'
  <2>1. CASE BootNext
    BY <2>1, BootStep, BootTriesStep
  <2>2. CASE UNCHANGED bootVars
    BY <2>2 DEF bootVars, BootInv, BootTried, Owns
  <2> QED
    BY <1>1, <2>1, <2>2 DEF PartSteps
<1>6. BreakersTypeOK'
  BY <1>1, BreakersStep DEF PartSteps
<1>7. LifeTypeOK'
  <2>1. CASE LifeNext
    BY <2>1, LifeTypeStep
  <2>2. CASE UNCHANGED lifeVars
    BY <2>2 DEF lifeVars, LifeTypeOK, Steps
  <2> QED
    BY <1>1, <2>1, <2>2 DEF PartSteps
<1>8. DeadInv' /\ DeadTypeOK'
  <2>1. CASE DeadNext
    BY <2>1, DeadStep, DeadTypeStep
  <2>2. CASE UNCHANGED dlqVars
    BY <2>2 DEF dlqVars, deadVars, pageVars, DeadInv, DeadTypeOK, Recorded
  <2> QED
    BY <1>1, <2>1, <2>2 DEF PartSteps
<1>9. SurfInv' /\ SurfTyped'
  <2>1. CASE SurfNext
    BY <2>1, SurfStep, SurfTypeStep
  <2>2. CASE UNCHANGED surfVars
    <3>1. UNCHANGED <<roles, surfReq, held>>
      BY <2>2 DEF surfVars, held
    <3>2. RequestsRight' /\ SurfTyped'
      BY <3>1 DEF SurfInv, RequestsRight, RequestRight, Right, SurfTyped, held
    <3>3. KeptRight'
      BY <3>1, KeptStays DEF SurfInv, KeptRight
    <3> QED
      BY <3>2, <3>3 DEF SurfInv
  <2> QED
    BY <1>1, <2>1, <2>2 DEF PartSteps
<1> QED
  BY <1>2, <1>3, <1>4, <1>5, <1>6, <1>7, <1>8, <1>9

\* Every part keeps its types, counters within their limits included, whatever
\* its steps, for any number of requests, invites, places and attempts.
THEOREM ServicesAreTyped == Spec => []TypeOK
<1>1. TypesInv /\ [Next]_vars => TypesInv'
  BY TypesStep
<1>2. TypesInv => TypeOK
  <2> SUFFICES ASSUME TypesInv PROVE TypeOK
    OBVIOUS
  <2>1. OtpTypeOK
    BY DEF TypesInv, OtpInv, OtpTypeOK, OtpPlaces, Counts
  <2>2. ResetTypeOK
    BY DEF TypesInv, CountsInv, ResetInv
  <2>3. BootTypeOK
    BY DEF TypesInv, BootInv, BootTried, BootTypeOK
  <2>4. LimitersTypeOK
    BY DEF TypesInv, CountsInv, RlInv, SlInv, TimesInv, GrantsInv, KeyInv,
       LimitersTypeOK
  <2>5. SurfTypeOK
    BY DEF TypesInv, SurfInv, KeptRight, SurfTyped, SurfTypeOK, BusyRequest, GateToken
  <2> QED
    BY <2>1, <2>2, <2>3, <2>4, <2>5 DEF TypesInv, TypeOK
<1> QED
  BY <1>1, <1>2, TypesStart, PTL DEF Spec
=============================================================================
