--------------------------- MODULE MCNotification ---------------------------
(* Notification on a small instance: three messages of one account, two of *)
(* them mails whose events share the account's row, and one poison message. *)
EXTENDS Notification, TLC

CONSTANTS m1, m2, m3, w1, w2, a1, e1, e2, e3

ThreeMessages == {m1, m2, m3}
TwoWorkers    == {w1, w2}
OneAggregate  == {a1}
ThreeEvents   == {e1, e2, e3}

PerAccount == [m \in Message |-> a1]
Distinct   == [m \in Message |-> CASE m = m1 -> e1 [] m = m2 -> e2 [] m = m3 -> e3]
WithInvite == [m \in Message |-> IF m = m3 THEN "admin.invite.created"
                                           ELSE "email.verification.otp.sent"]

AllFaults  == FaultKind
=============================================================================
