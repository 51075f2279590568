--------------------------- MODULE SessionsProofs ---------------------------
(* Theorems about Sessions for any number of families, requests, seconds,   *)
(* attempts and messages.                                                   *)
EXTENDS Sessions, TLAPS

(***************************************************************************)
(* Types, one conjunct at a time.                                           *)
(***************************************************************************)

RowTypes ==
    /\ now \in Nat /\ now >= 1 /\ now <= MaxTime + 1
    /\ row \in Row
    /\ failures \in Nat /\ tried \in Nat

StoreTypes ==
    /\ store \in [Family -> [iat : Nat, until : Nat]]
    /\ issued \subseteq Token
    /\ rotated \subseteq Token \X Token
    /\ flagged \subseteq Family /\ doomed \subseteq Family

RequestTypes ==
    /\ pc \in [Request -> RequestPC]
    /\ ctx \in [Request -> {Nothing} \cup LoginCtx \cup RefreshCtx]
    /\ \A r \in Request : pc[r] = "idle" => ctx[r] = Nothing
    /\ \A r \in Request : pc[r] \in {"rotate", "revoke"} => ctx[r] \in RefreshCtx
    /\ \A r \in Request :
          pc[r] \in {"wrong", "lock", "verified", "issue"} => ctx[r] \in LoginCtx

SyncTypes ==
    /\ pending \in [Message -> Nat]
    /\ sync \in [pc : {"idle", "redeliver", "marked", "scan", "del"},
                 must : SUBSET Family, page : SUBSET Family, last : BOOLEAN]
    /\ sync.pc # "idle" => pending["user.deleted"] > 0

TypeInv == RowTypes /\ StoreTypes /\ RequestTypes /\ SyncTypes

\* What an absent key looks like.
LEMMA AbsentKey ==
    Absent \in [iat : Nat, until : Nat] /\ Absent.iat = 0 /\ Absent.until = 0
BY DEF Absent

\* The initial states have their types.
LEMMA InitType == Init => TypeInv
<1> SUFFICES ASSUME Init PROVE TypeInv
  OBVIOUS
<1> USE SessionsAssumption DEF Init
<1>1. RowTypes
  BY DEF RowTypes, Row
<1>2. StoreTypes
  BY AbsentKey DEF StoreTypes
<1>3. RequestTypes
  BY DEF RequestTypes, RequestPC
<1>4. SyncTypes
  BY DEF SyncTypes, Resting, Message
<1> QED
  BY <1>1, <1>2, <1>3, <1>4 DEF TypeInv

\* Every step keeps the types.
LEMMA TypeNext ==
    ASSUME TypeInv, [Next]_vars
    PROVE  TypeInv'
<1>1. ASSUME Tick
      PROVE  TypeInv'
  <2>1. RowTypes'
    BY <1>1, SessionsAssumption DEF Tick, clientVars, countVars, syncVars,
       requestVars, TypeInv, RowTypes, Row
  <2>2. StoreTypes'
    BY <1>1, AbsentKey, SessionsAssumption DEF Tick, clientVars, countVars,
       syncVars, requestVars, TypeInv, RowTypes, StoreTypes, RequestTypes,
       SyncTypes, RefreshCtx, Token, Live
  <2>3. RequestTypes'
    BY <1>1 DEF Tick, clientVars, countVars, syncVars, requestVars, TypeInv,
       RowTypes, StoreTypes, RequestTypes, RequestPC, LoginCtx, RefreshCtx,
       Token
  <2>4. SyncTypes'
    BY <1>1 DEF Tick, clientVars, countVars, syncVars, requestVars, TypeInv,
       SyncTypes, Message, Live, ScanMayEnd
  <2> QED
    BY <2>1, <2>2, <2>3, <2>4 DEF TypeInv
<1>2. ASSUME NEW m \in Message, Arrive(m)
      PROVE  TypeInv'
  <2>1. RowTypes'
    BY <1>2, SessionsAssumption DEF Arrive, clientVars, countVars, syncVars,
       requestVars, TypeInv, RowTypes, Row
  <2>2. StoreTypes'
    BY <1>2, AbsentKey, SessionsAssumption DEF Arrive, clientVars,
       countVars, syncVars, requestVars, TypeInv, RowTypes, StoreTypes,
       RequestTypes, SyncTypes, RefreshCtx, Token, Live
  <2>3. RequestTypes'
    BY <1>2 DEF Arrive, clientVars, countVars, syncVars, requestVars,
       TypeInv, RowTypes, StoreTypes, RequestTypes, RequestPC, LoginCtx,
       RefreshCtx, Token
  <2>4. SyncTypes'
    BY <1>2 DEF Arrive, clientVars, countVars, syncVars, requestVars,
       TypeInv, SyncTypes, Message, Live, ScanMayEnd
  <2> QED
    BY <2>1, <2>2, <2>3, <2>4 DEF TypeInv
<1>3. ASSUME MarkDeleted
      PROVE  TypeInv'
  <2>1. RowTypes'
    BY <1>3, SessionsAssumption DEF MarkDeleted, Resting, clientVars,
       countVars, syncVars, requestVars, TypeInv, RowTypes, Row
  <2>2. StoreTypes'
    BY <1>3, AbsentKey, SessionsAssumption DEF MarkDeleted, Resting,
       clientVars, countVars, syncVars, requestVars, TypeInv, RowTypes,
       StoreTypes, RequestTypes, SyncTypes, RefreshCtx, Token, Live
  <2>3. RequestTypes'
    BY <1>3 DEF MarkDeleted, Resting, clientVars, countVars, syncVars,
       requestVars, TypeInv, RowTypes, StoreTypes, RequestTypes, RequestPC,
       LoginCtx, RefreshCtx, Token
  <2>4. SyncTypes'
    BY <1>3 DEF MarkDeleted, Resting, clientVars, countVars, syncVars,
       requestVars, TypeInv, SyncTypes, Message, Live, ScanMayEnd
  <2> QED
    BY <2>1, <2>2, <2>3, <2>4 DEF TypeInv
<1>4. ASSUME RevokeAllScan
      PROVE  TypeInv'
  <2>1. RowTypes'
    BY <1>4, SessionsAssumption DEF RevokeAllScan, Resting, Ack, clientVars,
       countVars, syncVars, requestVars, TypeInv, RowTypes, Row
  <2>2. StoreTypes'
    BY <1>4, AbsentKey, SessionsAssumption DEF RevokeAllScan, Resting, Ack,
       clientVars, countVars, syncVars, requestVars, TypeInv, RowTypes,
       StoreTypes, RequestTypes, SyncTypes, RefreshCtx, Token, Live
  <2>3. RequestTypes'
    BY <1>4 DEF RevokeAllScan, Resting, Ack, clientVars, countVars,
       syncVars, requestVars, TypeInv, RowTypes, StoreTypes, RequestTypes,
       RequestPC, LoginCtx, RefreshCtx, Token
  <2>4. SyncTypes'
    <3>1. PICK page \in SUBSET Live, last \in BOOLEAN :
             LET must == (IF sync.pc = "marked" THEN Live ELSE sync.must) \ page
             IN  IF last /\ page = {}
                   THEN sync' = Resting("idle") /\ Ack("user.deleted")
                   ELSE /\ sync' = [pc |-> IF page = {} THEN "scan" ELSE "del",
                                    must |-> must, page |-> page, last |-> last]
                        /\ UNCHANGED pending
      BY <1>4 DEF RevokeAllScan
    <3>2. sync.pc # "idle" /\ pending["user.deleted"] > 0
      BY <1>4 DEF RevokeAllScan, TypeInv, SyncTypes
    <3>3. Live \subseteq Family /\ sync.must \subseteq Family
      BY DEF Live, TypeInv, SyncTypes
    <3>4. CASE last /\ page = {}
      <4>1. sync' = [pc |-> "idle", must |-> {}, page |-> {}, last |-> FALSE]
        BY <3>1, <3>4 DEF Resting
      <4>2. pending' \in [Message -> Nat]
        BY <3>1, <3>2, <3>4 DEF Ack, TypeInv, SyncTypes, Message
      <4> QED
        BY <4>1, <4>2 DEF SyncTypes
    <3>5. CASE ~(last /\ page = {})
      <4>1. UNCHANGED pending
        BY <3>1, <3>5
      <4>2. PICK must \in SUBSET Family, where \in {"scan", "del"} :
               sync' = [pc |-> where, must |-> must, page |-> page, last |-> last]
        BY <3>1, <3>3, <3>5
      <4> QED
        BY <3>2, <3>3, <4>1, <4>2 DEF TypeInv, SyncTypes
    <3> QED
      BY <3>4, <3>5
  <2> QED
    BY <2>1, <2>2, <2>3, <2>4 DEF TypeInv
<1>5. ASSUME RevokeAllDel
      PROVE  TypeInv'
  <2>1. RowTypes'
    BY <1>5, SessionsAssumption DEF RevokeAllDel, Resting, Ack, clientVars,
       countVars, syncVars, requestVars, TypeInv, RowTypes, Row
  <2>2. StoreTypes'
    BY <1>5, AbsentKey, SessionsAssumption DEF RevokeAllDel, Resting, Ack,
       clientVars, countVars, syncVars, requestVars, TypeInv, RowTypes,
       StoreTypes, RequestTypes, SyncTypes, RefreshCtx, Token, Live
  <2>3. RequestTypes'
    BY <1>5 DEF RevokeAllDel, Resting, Ack, clientVars, countVars, syncVars,
       requestVars, TypeInv, RowTypes, StoreTypes, RequestTypes, RequestPC,
       LoginCtx, RefreshCtx, Token
  <2>4. SyncTypes'
    <3>1. sync.pc = "del" /\ pending["user.deleted"] > 0
      BY <1>5 DEF RevokeAllDel, TypeInv, SyncTypes
    <3>2. CASE sync' = Resting("idle") /\ Ack("user.deleted")
      BY <3>1, <3>2 DEF Resting, Ack, TypeInv, SyncTypes, Message
    <3>3. CASE sync' = [sync EXCEPT !.pc = "scan", !.page = {}] /\ UNCHANGED pending
      BY <3>1, <3>3 DEF TypeInv, SyncTypes
    <3> QED
      BY <1>5, <3>2, <3>3 DEF RevokeAllDel
  <2> QED
    BY <2>1, <2>2, <2>3, <2>4 DEF TypeInv
<1>6. ASSUME MarkRestored
      PROVE  TypeInv'
  <2>1. RowTypes'
    BY <1>6, SessionsAssumption DEF MarkRestored, Ack, clientVars,
       countVars, syncVars, requestVars, TypeInv, RowTypes, Row
  <2>2. StoreTypes'
    BY <1>6, AbsentKey, SessionsAssumption DEF MarkRestored, Ack,
       clientVars, countVars, syncVars, requestVars, TypeInv, RowTypes,
       StoreTypes, RequestTypes, SyncTypes, RefreshCtx, Token, Live
  <2>3. RequestTypes'
    BY <1>6 DEF MarkRestored, Ack, clientVars, countVars, syncVars,
       requestVars, TypeInv, RowTypes, StoreTypes, RequestTypes, RequestPC,
       LoginCtx, RefreshCtx, Token
  <2>4. SyncTypes'
    BY <1>6 DEF MarkRestored, Ack, clientVars, countVars, syncVars,
       requestVars, TypeInv, SyncTypes, Message, Live, ScanMayEnd
  <2> QED
    BY <2>1, <2>2, <2>3, <2>4 DEF TypeInv
<1>7. ASSUME SyncFails
      PROVE  TypeInv'
  <2>1. RowTypes'
    BY <1>7, SessionsAssumption DEF SyncFails, Resting, clientVars,
       countVars, syncVars, requestVars, TypeInv, RowTypes, Row
  <2>2. StoreTypes'
    BY <1>7, AbsentKey, SessionsAssumption DEF SyncFails, Resting,
       clientVars, countVars, syncVars, requestVars, TypeInv, RowTypes,
       StoreTypes, RequestTypes, SyncTypes, RefreshCtx, Token, Live
  <2>3. RequestTypes'
    BY <1>7 DEF SyncFails, Resting, clientVars, countVars, syncVars,
       requestVars, TypeInv, RowTypes, StoreTypes, RequestTypes, RequestPC,
       LoginCtx, RefreshCtx, Token
  <2>4. SyncTypes'
    BY <1>7 DEF SyncFails, Resting, clientVars, countVars, syncVars,
       requestVars, TypeInv, SyncTypes, Message, Live, ScanMayEnd
  <2> QED
    BY <2>1, <2>2, <2>3, <2>4 DEF TypeInv
<1>8. ASSUME NEW r \in Request, VerifyCredentials(r)
      PROVE  TypeInv'
  <2>1. RowTypes'
    BY <1>8, SessionsAssumption DEF VerifyCredentials, Goto, clientVars,
       countVars, syncVars, requestVars, TypeInv, RowTypes, Row
  <2>2. StoreTypes'
    BY <1>8, AbsentKey, SessionsAssumption DEF VerifyCredentials, Goto,
       clientVars, countVars, syncVars, requestVars, TypeInv, RowTypes,
       StoreTypes, RequestTypes, SyncTypes, RefreshCtx, Token, Live
  <2>3. RequestTypes'
    BY <1>8 DEF VerifyCredentials, Goto, clientVars, countVars, syncVars,
       requestVars, TypeInv, RowTypes, StoreTypes, RequestTypes, RequestPC,
       LoginCtx, RefreshCtx, Token
  <2>4. SyncTypes'
    BY <1>8 DEF VerifyCredentials, Goto, clientVars, countVars, syncVars,
       requestVars, TypeInv, SyncTypes, Message, Live, ScanMayEnd
  <2> QED
    BY <2>1, <2>2, <2>3, <2>4 DEF TypeInv
<1>9. ASSUME NEW r \in Request, HandleFailedLogin(r)
      PROVE  TypeInv'
  <2>1. RowTypes'
    BY <1>9, SessionsAssumption DEF HandleFailedLogin, Goto, Finish,
       clientVars, countVars, syncVars, requestVars, TypeInv, RowTypes, Row
  <2>2. StoreTypes'
    BY <1>9, AbsentKey, SessionsAssumption DEF HandleFailedLogin, Goto,
       Finish, clientVars, countVars, syncVars, requestVars, TypeInv,
       RowTypes, StoreTypes, RequestTypes, SyncTypes, RefreshCtx, Token,
       Live
  <2>3. RequestTypes'
    BY <1>9 DEF HandleFailedLogin, Goto, Finish, clientVars, countVars,
       syncVars, requestVars, TypeInv, RowTypes, StoreTypes, RequestTypes,
       RequestPC, LoginCtx, RefreshCtx, Token
  <2>4. SyncTypes'
    BY <1>9 DEF HandleFailedLogin, Goto, Finish, clientVars, countVars,
       syncVars, requestVars, TypeInv, SyncTypes, Message, Live, ScanMayEnd
  <2> QED
    BY <2>1, <2>2, <2>3, <2>4 DEF TypeInv
<1>10. ASSUME NEW r \in Request, LockAccount(r)
      PROVE  TypeInv'
  <2>1. RowTypes'
    BY <1>10, SessionsAssumption DEF LockAccount, Goto, Finish, clientVars,
       countVars, syncVars, requestVars, TypeInv, RowTypes, Row
  <2>2. StoreTypes'
    BY <1>10, AbsentKey, SessionsAssumption DEF LockAccount, Goto, Finish,
       clientVars, countVars, syncVars, requestVars, TypeInv, RowTypes,
       StoreTypes, RequestTypes, SyncTypes, RefreshCtx, Token, Live
  <2>3. RequestTypes'
    BY <1>10 DEF LockAccount, Goto, Finish, clientVars, countVars, syncVars,
       requestVars, TypeInv, RowTypes, StoreTypes, RequestTypes, RequestPC,
       LoginCtx, RefreshCtx, Token
  <2>4. SyncTypes'
    BY <1>10 DEF LockAccount, Goto, Finish, clientVars, countVars, syncVars,
       requestVars, TypeInv, SyncTypes, Message, Live, ScanMayEnd
  <2> QED
    BY <2>1, <2>2, <2>3, <2>4 DEF TypeInv
<1>11. ASSUME NEW r \in Request, RefuseLogin(r)
      PROVE  TypeInv'
  <2>1. RowTypes'
    BY <1>11, SessionsAssumption DEF RefuseLogin, Goto, Finish, clientVars,
       countVars, syncVars, requestVars, TypeInv, RowTypes, Row
  <2>2. StoreTypes'
    BY <1>11, AbsentKey, SessionsAssumption DEF RefuseLogin, Goto, Finish,
       clientVars, countVars, syncVars, requestVars, TypeInv, RowTypes,
       StoreTypes, RequestTypes, SyncTypes, RefreshCtx, Token, Live
  <2>3. RequestTypes'
    BY <1>11 DEF RefuseLogin, Goto, Finish, clientVars, countVars, syncVars,
       requestVars, TypeInv, RowTypes, StoreTypes, RequestTypes, RequestPC,
       LoginCtx, RefreshCtx, Token
  <2>4. SyncTypes'
    BY <1>11 DEF RefuseLogin, Goto, Finish, clientVars, countVars, syncVars,
       requestVars, TypeInv, SyncTypes, Message, Live, ScanMayEnd
  <2> QED
    BY <2>1, <2>2, <2>3, <2>4 DEF TypeInv
<1>12. ASSUME NEW r \in Request, ResetLoginAttempts(r)
      PROVE  TypeInv'
  <2>1. RowTypes'
    BY <1>12, SessionsAssumption DEF ResetLoginAttempts, Goto, clientVars,
       countVars, syncVars, requestVars, TypeInv, RowTypes, Row
  <2>2. StoreTypes'
    BY <1>12, AbsentKey, SessionsAssumption DEF ResetLoginAttempts, Goto,
       clientVars, countVars, syncVars, requestVars, TypeInv, RowTypes,
       StoreTypes, RequestTypes, SyncTypes, RefreshCtx, Token, Live
  <2>3. RequestTypes'
    BY <1>12 DEF ResetLoginAttempts, Goto, clientVars, countVars, syncVars,
       requestVars, TypeInv, RowTypes, StoreTypes, RequestTypes, RequestPC,
       LoginCtx, RefreshCtx, Token
  <2>4. SyncTypes'
    BY <1>12 DEF ResetLoginAttempts, Goto, clientVars, countVars, syncVars,
       requestVars, TypeInv, SyncTypes, Message, Live, ScanMayEnd
  <2> QED
    BY <2>1, <2>2, <2>3, <2>4 DEF TypeInv
<1>13. ASSUME NEW r \in Request, IssueSession(r)
      PROVE  TypeInv'
  <2>1. RowTypes'
    BY <1>13, SessionsAssumption DEF IssueSession, Goto, Finish, Key,
       clientVars, countVars, syncVars, requestVars, TypeInv, RowTypes, Row
  <2>2. StoreTypes'
    BY <1>13, AbsentKey, SessionsAssumption DEF IssueSession, Goto, Finish,
       Key, clientVars, countVars, syncVars, requestVars, TypeInv, RowTypes,
       StoreTypes, RequestTypes, SyncTypes, RefreshCtx, Token, Live
  <2>3. RequestTypes'
    BY <1>13 DEF IssueSession, Goto, Finish, Key, clientVars, countVars,
       syncVars, requestVars, TypeInv, RowTypes, StoreTypes, RequestTypes,
       RequestPC, LoginCtx, RefreshCtx, Token
  <2>4. SyncTypes'
    BY <1>13 DEF IssueSession, Goto, Finish, Key, clientVars, countVars,
       syncVars, requestVars, TypeInv, SyncTypes, Message, Live, ScanMayEnd
  <2> QED
    BY <2>1, <2>2, <2>3, <2>4 DEF TypeInv
<1>14. ASSUME NEW r \in Request, NEW t \in issued, RefreshRead(r, t)
      PROVE  TypeInv'
  <2>1. RowTypes'
    BY <1>14, SessionsAssumption DEF RefreshRead, Goto, clientVars,
       countVars, syncVars, requestVars, TypeInv, RowTypes, Row
  <2>2. StoreTypes'
    BY <1>14, AbsentKey, SessionsAssumption DEF RefreshRead, Goto,
       clientVars, countVars, syncVars, requestVars, TypeInv, RowTypes,
       StoreTypes, RequestTypes, SyncTypes, RefreshCtx, Token, Live
  <2>3. RequestTypes'
    BY <1>14 DEF RefreshRead, Goto, clientVars, countVars, syncVars,
       requestVars, TypeInv, RowTypes, StoreTypes, RequestTypes, RequestPC,
       LoginCtx, RefreshCtx, Token
  <2>4. SyncTypes'
    BY <1>14 DEF RefreshRead, Goto, clientVars, countVars, syncVars,
       requestVars, TypeInv, SyncTypes, Message, Live, ScanMayEnd
  <2> QED
    BY <2>1, <2>2, <2>3, <2>4 DEF TypeInv
<1>15. ASSUME NEW r \in Request, NEW t \in issued, Logout(r, t)
      PROVE  TypeInv'
  <2>1. RowTypes'
    BY <1>15, SessionsAssumption DEF Logout, clientVars, countVars,
       syncVars, requestVars, TypeInv, RowTypes, Row
  <2>2. StoreTypes'
    BY <1>15, AbsentKey, SessionsAssumption DEF Logout, clientVars,
       countVars, syncVars, requestVars, TypeInv, RowTypes, StoreTypes,
       RequestTypes, SyncTypes, RefreshCtx, Token, Live
  <2>3. RequestTypes'
    BY <1>15 DEF Logout, clientVars, countVars, syncVars, requestVars,
       TypeInv, RowTypes, StoreTypes, RequestTypes, RequestPC, LoginCtx,
       RefreshCtx, Token
  <2>4. SyncTypes'
    BY <1>15 DEF Logout, clientVars, countVars, syncVars, requestVars,
       TypeInv, SyncTypes, Message, Live, ScanMayEnd
  <2> QED
    BY <2>1, <2>2, <2>3, <2>4 DEF TypeInv
<1>16. ASSUME NEW r \in Request, RotateOk(r)
      PROVE  TypeInv'
  <2>1. RowTypes'
    BY <1>16, SessionsAssumption DEF RotateOk, Goto, Finish, NewKey, Key,
       Wins, clientVars, countVars, syncVars, requestVars, TypeInv,
       RowTypes, Row
  <2>2. StoreTypes'
    BY <1>16, AbsentKey, SessionsAssumption DEF RotateOk, Goto, Finish,
       NewKey, Key, Wins, clientVars, countVars, syncVars, requestVars,
       TypeInv, RowTypes, StoreTypes, RequestTypes, SyncTypes, RefreshCtx,
       Token, Live
  <2>3. RequestTypes'
    BY <1>16 DEF RotateOk, Goto, Finish, NewKey, Key, Wins, clientVars,
       countVars, syncVars, requestVars, TypeInv, RowTypes, StoreTypes,
       RequestTypes, RequestPC, LoginCtx, RefreshCtx, Token
  <2>4. SyncTypes'
    BY <1>16 DEF RotateOk, Goto, Finish, NewKey, Key, Wins, clientVars,
       countVars, syncVars, requestVars, TypeInv, SyncTypes, Message, Live,
       ScanMayEnd
  <2> QED
    BY <2>1, <2>2, <2>3, <2>4 DEF TypeInv
<1>17. ASSUME NEW r \in Request, RotateLost(r)
      PROVE  TypeInv'
  <2>1. RowTypes'
    BY <1>17, SessionsAssumption DEF RotateLost, Goto, clientVars,
       countVars, syncVars, requestVars, TypeInv, RowTypes, Row
  <2>2. StoreTypes'
    BY <1>17, AbsentKey, SessionsAssumption DEF RotateLost, Goto,
       clientVars, countVars, syncVars, requestVars, TypeInv, RowTypes,
       StoreTypes, RequestTypes, SyncTypes, RefreshCtx, Token, Live
  <2>3. RequestTypes'
    BY <1>17 DEF RotateLost, Goto, clientVars, countVars, syncVars,
       requestVars, TypeInv, RowTypes, StoreTypes, RequestTypes, RequestPC,
       LoginCtx, RefreshCtx, Token
  <2>4. SyncTypes'
    BY <1>17 DEF RotateLost, Goto, clientVars, countVars, syncVars,
       requestVars, TypeInv, SyncTypes, Message, Live, ScanMayEnd
  <2> QED
    BY <2>1, <2>2, <2>3, <2>4 DEF TypeInv
<1>18. ASSUME NEW r \in Request, RevokeTokenFamily(r)
      PROVE  TypeInv'
  <2>1. RowTypes'
    BY <1>18, SessionsAssumption DEF RevokeTokenFamily, Goto, Finish,
       clientVars, countVars, syncVars, requestVars, TypeInv, RowTypes, Row
  <2>2. StoreTypes'
    BY <1>18, AbsentKey, SessionsAssumption DEF RevokeTokenFamily, Goto,
       Finish, clientVars, countVars, syncVars, requestVars, TypeInv,
       RowTypes, StoreTypes, RequestTypes, SyncTypes, RefreshCtx, Token,
       Live
  <2>3. RequestTypes'
    BY <1>18 DEF RevokeTokenFamily, Goto, Finish, clientVars, countVars,
       syncVars, requestVars, TypeInv, RowTypes, StoreTypes, RequestTypes,
       RequestPC, LoginCtx, RefreshCtx, Token
  <2>4. SyncTypes'
    BY <1>18 DEF RevokeTokenFamily, Goto, Finish, clientVars, countVars,
       syncVars, requestVars, TypeInv, SyncTypes, Message, Live, ScanMayEnd
  <2> QED
    BY <2>1, <2>2, <2>3, <2>4 DEF TypeInv
<1>19. ASSUME NEW r \in Request, Abort(r)
      PROVE  TypeInv'
  <2>1. RowTypes'
    BY <1>19, SessionsAssumption DEF Abort, Goto, Finish, clientVars,
       countVars, syncVars, requestVars, TypeInv, RowTypes, Row
  <2>2. StoreTypes'
    BY <1>19, AbsentKey, SessionsAssumption DEF Abort, Goto, Finish,
       clientVars, countVars, syncVars, requestVars, TypeInv, RowTypes,
       StoreTypes, RequestTypes, SyncTypes, RefreshCtx, Token, Live
  <2>3. RequestTypes'
    BY <1>19 DEF Abort, Goto, Finish, clientVars, countVars, syncVars,
       requestVars, TypeInv, RowTypes, StoreTypes, RequestTypes, RequestPC,
       LoginCtx, RefreshCtx, Token
  <2>4. SyncTypes'
    BY <1>19 DEF Abort, Goto, Finish, clientVars, countVars, syncVars,
       requestVars, TypeInv, SyncTypes, Message, Live, ScanMayEnd
  <2> QED
    BY <2>1, <2>2, <2>3, <2>4 DEF TypeInv
<1>20. CASE UNCHANGED vars
  BY <1>20 DEF vars, clientVars, countVars, syncVars, requestVars, TypeInv,
     RowTypes, StoreTypes, RequestTypes, SyncTypes
<1> QED
  BY <1>1, <1>2, <1>3, <1>4, <1>5, <1>6, <1>7, <1>8, <1>9, <1>10, <1>11,
     <1>12, <1>13, <1>14, <1>15, <1>16, <1>17, <1>18, <1>19, <1>20 DEF Next,
     SyncStep, RequestStep

\* Type correctness.
THEOREM TypeCorrect == Spec => []TypeOK
<1>1. TypeInv => TypeOK
  <2> SUFFICES ASSUME TypeInv PROVE TypeOK
    OBVIOUS
  <2>1. \A r \in Request :
          CASE pc[r] = "idle"                -> ctx[r] = Nothing
            [] pc[r] \in {"rotate", "revoke"} -> ctx[r] \in RefreshCtx
            [] OTHER                         -> ctx[r] \in LoginCtx
    BY DEF TypeInv, RequestTypes, RequestPC
  <2> QED
    BY <2>1, SessionsAssumption DEF TypeInv, RowTypes, StoreTypes, RequestTypes,
       SyncTypes, TypeOK
<1> QED
  BY InitType, TypeNext, <1>1, PTL DEF Spec

(***************************************************************************)
(* The store.  A family is opened once; its key goes or is given a later    *)
(* token, and once gone it stays gone.                                      *)
(***************************************************************************)

KeyMoves(f) ==
    \/ store'[f] = store[f]
    \/ store'[f] = Absent
    \/ f \notin Opened /\ f \in Opened' /\ store'[f] = Key(now)
    \/ \E r \in Request : /\ pc[r] = "rotate" /\ ctx[r].old.family = f
                          /\ store[f] # Absent /\ store[f].iat = ctx[r].old.iat
                          /\ store'[f] = Key(ctx[r].new.iat)

\* What a step may do to a key.
LEMMA StoreNext ==
    ASSUME TypeInv, [Next]_vars
    PROVE  \A f \in Family : KeyMoves(f)
<1>1. ASSUME Tick
      PROVE  \A f \in Family : KeyMoves(f)
  BY <1>1, AbsentKey DEF Tick, clientVars, countVars, syncVars, requestVars,
     TypeInv, RowTypes, StoreTypes, RequestTypes, RefreshCtx, Token,
     KeyMoves, Key
<1>2. ASSUME NEW m \in Message, Arrive(m)
      PROVE  \A f \in Family : KeyMoves(f)
  BY <1>2, AbsentKey DEF Arrive, clientVars, countVars, syncVars,
     requestVars, TypeInv, RowTypes, StoreTypes, RequestTypes, RefreshCtx,
     Token, KeyMoves, Key
<1>3. ASSUME MarkDeleted
      PROVE  \A f \in Family : KeyMoves(f)
  BY <1>3, AbsentKey DEF MarkDeleted, Resting, clientVars, countVars,
     syncVars, requestVars, TypeInv, RowTypes, StoreTypes, RequestTypes,
     RefreshCtx, Token, KeyMoves, Key
<1>4. ASSUME RevokeAllScan
      PROVE  \A f \in Family : KeyMoves(f)
  BY <1>4, AbsentKey DEF RevokeAllScan, Resting, Ack, clientVars, countVars,
     syncVars, requestVars, TypeInv, RowTypes, StoreTypes, RequestTypes,
     RefreshCtx, Token, KeyMoves, Key
<1>5. ASSUME RevokeAllDel
      PROVE  \A f \in Family : KeyMoves(f)
  BY <1>5, AbsentKey DEF RevokeAllDel, Resting, Ack, clientVars, countVars,
     syncVars, requestVars, TypeInv, RowTypes, StoreTypes, RequestTypes,
     RefreshCtx, Token, KeyMoves, Key
<1>6. ASSUME MarkRestored
      PROVE  \A f \in Family : KeyMoves(f)
  BY <1>6, AbsentKey DEF MarkRestored, Ack, clientVars, countVars, syncVars,
     requestVars, TypeInv, RowTypes, StoreTypes, RequestTypes, RefreshCtx,
     Token, KeyMoves, Key
<1>7. ASSUME SyncFails
      PROVE  \A f \in Family : KeyMoves(f)
  BY <1>7, AbsentKey DEF SyncFails, Resting, clientVars, countVars,
     syncVars, requestVars, TypeInv, RowTypes, StoreTypes, RequestTypes,
     RefreshCtx, Token, KeyMoves, Key
<1>8. ASSUME NEW r \in Request, VerifyCredentials(r)
      PROVE  \A f \in Family : KeyMoves(f)
  BY <1>8, AbsentKey DEF VerifyCredentials, Goto, clientVars, countVars,
     syncVars, requestVars, TypeInv, RowTypes, StoreTypes, RequestTypes,
     RefreshCtx, Token, KeyMoves, Key
<1>9. ASSUME NEW r \in Request, HandleFailedLogin(r)
      PROVE  \A f \in Family : KeyMoves(f)
  BY <1>9, AbsentKey DEF HandleFailedLogin, Goto, Finish, clientVars,
     countVars, syncVars, requestVars, TypeInv, RowTypes, StoreTypes,
     RequestTypes, RefreshCtx, Token, KeyMoves, Key
<1>10. ASSUME NEW r \in Request, LockAccount(r)
      PROVE  \A f \in Family : KeyMoves(f)
  BY <1>10, AbsentKey DEF LockAccount, Goto, Finish, clientVars, countVars,
     syncVars, requestVars, TypeInv, RowTypes, StoreTypes, RequestTypes,
     RefreshCtx, Token, KeyMoves, Key
<1>11. ASSUME NEW r \in Request, RefuseLogin(r)
      PROVE  \A f \in Family : KeyMoves(f)
  BY <1>11, AbsentKey DEF RefuseLogin, Goto, Finish, clientVars, countVars,
     syncVars, requestVars, TypeInv, RowTypes, StoreTypes, RequestTypes,
     RefreshCtx, Token, KeyMoves, Key
<1>12. ASSUME NEW r \in Request, ResetLoginAttempts(r)
      PROVE  \A f \in Family : KeyMoves(f)
  BY <1>12, AbsentKey DEF ResetLoginAttempts, Goto, clientVars, countVars,
     syncVars, requestVars, TypeInv, RowTypes, StoreTypes, RequestTypes,
     RefreshCtx, Token, KeyMoves, Key
<1>13. ASSUME NEW r \in Request, IssueSession(r)
      PROVE  \A f \in Family : KeyMoves(f)
  <2>1. PICK g \in Family \ Opened :
           /\ store' = [store EXCEPT ![g] = Key(now)]
           /\ issued' = issued \cup {[family |-> g, iat |-> now]}
    BY <1>13 DEF IssueSession
  <2>2. [family |-> g, iat |-> now] \in issued'
    BY <2>1
  <2>3. g \in Opened'
    BY <2>2 DEF Opened
  <2> QED
    BY <2>1, <2>3 DEF KeyMoves, TypeInv, StoreTypes
<1>14. ASSUME NEW r \in Request, NEW t \in issued, RefreshRead(r, t)
      PROVE  \A f \in Family : KeyMoves(f)
  BY <1>14, AbsentKey DEF RefreshRead, Goto, clientVars, countVars,
     syncVars, requestVars, TypeInv, RowTypes, StoreTypes, RequestTypes,
     RefreshCtx, Token, KeyMoves, Key
<1>15. ASSUME NEW r \in Request, NEW t \in issued, Logout(r, t)
      PROVE  \A f \in Family : KeyMoves(f)
  BY <1>15, AbsentKey DEF Logout, clientVars, countVars, syncVars,
     requestVars, TypeInv, RowTypes, StoreTypes, RequestTypes, RefreshCtx,
     Token, KeyMoves, Key
<1>16. ASSUME NEW r \in Request, RotateOk(r)
      PROVE  \A f \in Family : KeyMoves(f)
  BY <1>16, AbsentKey DEF RotateOk, Goto, Finish, NewKey, Key, Wins,
     clientVars, countVars, syncVars, requestVars, TypeInv, RowTypes,
     StoreTypes, RequestTypes, RefreshCtx, Token, KeyMoves, Key
<1>17. ASSUME NEW r \in Request, RotateLost(r)
      PROVE  \A f \in Family : KeyMoves(f)
  BY <1>17, AbsentKey DEF RotateLost, Goto, clientVars, countVars, syncVars,
     requestVars, TypeInv, RowTypes, StoreTypes, RequestTypes, RefreshCtx,
     Token, KeyMoves, Key
<1>18. ASSUME NEW r \in Request, RevokeTokenFamily(r)
      PROVE  \A f \in Family : KeyMoves(f)
  BY <1>18, AbsentKey DEF RevokeTokenFamily, Goto, Finish, clientVars,
     countVars, syncVars, requestVars, TypeInv, RowTypes, StoreTypes,
     RequestTypes, RefreshCtx, Token, KeyMoves, Key
<1>19. ASSUME NEW r \in Request, Abort(r)
      PROVE  \A f \in Family : KeyMoves(f)
  BY <1>19, AbsentKey DEF Abort, Goto, Finish, clientVars, countVars,
     syncVars, requestVars, TypeInv, RowTypes, StoreTypes, RequestTypes,
     RefreshCtx, Token, KeyMoves, Key
<1>20. CASE UNCHANGED vars
  BY <1>20 DEF vars, clientVars, countVars, syncVars, requestVars, KeyMoves
<1> QED
  BY <1>1, <1>2, <1>3, <1>4, <1>5, <1>6, <1>7, <1>8, <1>9, <1>10, <1>11,
     <1>12, <1>13, <1>14, <1>15, <1>16, <1>17, <1>18, <1>19, <1>20 DEF Next,
     SyncStep, RequestStep

\* Revocation is final: by logout, reuse, deletion or expiry.
THEOREM RevocationIsFinal == Spec => RevokedStaysRevoked
<1>1. TypeInv /\ [Next]_vars =>
        [\A f \in Opened : store[f] = Absent => store'[f] = Absent]_vars
  <2> SUFFICES ASSUME TypeInv, [Next]_vars, NEW f \in Opened, store[f] = Absent
               PROVE  store'[f] = Absent
    OBVIOUS
  <2>1. f \in Family
    BY DEF Opened, TypeInv, StoreTypes, Token
  <2> QED
    BY <2>1, StoreNext DEF KeyMoves
<1> QED
  BY InitType, TypeNext, <1>1, PTL DEF Spec, RevokedStaysRevoked

(***************************************************************************)
(* Keys and tokens.  A request that rotates presents a token that was       *)
(* issued, and its new token is not older and not from the future.          *)
(***************************************************************************)

KeyInv ==
    /\ \A f \in Family : store[f] # Absent =>
          /\ store[f].iat <= now
          /\ store[f].until >= store[f].iat + KeyTTL
          /\ f \in Opened
    /\ \A r \in Request : pc[r] \in {"rotate", "revoke"} =>
          /\ ctx[r].old \in issued
          /\ ctx[r].new.family = ctx[r].old.family
          /\ ctx[r].new.iat <= now
    /\ \A r \in Request : pc[r] = "rotate" => ctx[r].old.iat <= ctx[r].new.iat

SpentInv ==
    \A pair \in rotated :
        /\ pair[1] \in issued
        /\ pair[1].family = pair[2].family
        /\ pair[1].iat <= pair[2].iat
        /\ store[pair[1].family] # Absent => store[pair[1].family].iat >= pair[2].iat

RequestMoves ==
    /\ now' \in Nat /\ now' >= now /\ issued \subseteq issued'
    /\ \A r \in Request : pc'[r] \in {"rotate", "revoke"} =>
          \/ /\ pc[r] \in {"rotate", "revoke"} /\ ctx'[r] = ctx[r]
             /\ pc'[r] = "rotate" => pc[r] = "rotate"
          \/ /\ ctx'[r].old \in issued
             /\ ctx'[r].new = [family |-> ctx'[r].old.family, iat |-> now]
             /\ pc'[r] = "rotate" => ctx'[r].old.iat <= now

\* The clock and what was issued only grow, and a request that enters
\* "rotate" or "revoke" has read its token at this moment.
LEMMA RequestNext ==
    ASSUME TypeInv, KeyInv, [Next]_vars
    PROVE  RequestMoves
<1>1. ASSUME Tick
      PROVE  RequestMoves
  BY <1>1 DEF Tick, clientVars, countVars, syncVars, requestVars, TypeInv,
     RowTypes, RequestTypes, RequestMoves
<1>2. ASSUME NEW m \in Message, Arrive(m)
      PROVE  RequestMoves
  BY <1>2 DEF Arrive, clientVars, countVars, syncVars, requestVars, TypeInv,
     RowTypes, RequestTypes, RequestMoves
<1>3. ASSUME MarkDeleted
      PROVE  RequestMoves
  BY <1>3 DEF MarkDeleted, Resting, clientVars, countVars, syncVars,
     requestVars, TypeInv, RowTypes, RequestTypes, RequestMoves
<1>4. ASSUME RevokeAllScan
      PROVE  RequestMoves
  BY <1>4 DEF RevokeAllScan, Resting, Ack, clientVars, countVars, syncVars,
     requestVars, TypeInv, RowTypes, RequestTypes, RequestMoves
<1>5. ASSUME RevokeAllDel
      PROVE  RequestMoves
  BY <1>5 DEF RevokeAllDel, Resting, Ack, clientVars, countVars, syncVars,
     requestVars, TypeInv, RowTypes, RequestTypes, RequestMoves
<1>6. ASSUME MarkRestored
      PROVE  RequestMoves
  BY <1>6 DEF MarkRestored, Ack, clientVars, countVars, syncVars,
     requestVars, TypeInv, RowTypes, RequestTypes, RequestMoves
<1>7. ASSUME SyncFails
      PROVE  RequestMoves
  BY <1>7 DEF SyncFails, Resting, clientVars, countVars, syncVars,
     requestVars, TypeInv, RowTypes, RequestTypes, RequestMoves
<1>8. ASSUME NEW r \in Request, VerifyCredentials(r)
      PROVE  RequestMoves
  BY <1>8 DEF VerifyCredentials, Goto, clientVars, countVars, syncVars,
     requestVars, TypeInv, RowTypes, RequestTypes, RequestMoves
<1>9. ASSUME NEW r \in Request, HandleFailedLogin(r)
      PROVE  RequestMoves
  BY <1>9 DEF HandleFailedLogin, Goto, Finish, clientVars, countVars,
     syncVars, requestVars, TypeInv, RowTypes, RequestTypes, RequestMoves
<1>10. ASSUME NEW r \in Request, LockAccount(r)
      PROVE  RequestMoves
  BY <1>10 DEF LockAccount, Goto, Finish, clientVars, countVars, syncVars,
     requestVars, TypeInv, RowTypes, RequestTypes, RequestMoves
<1>11. ASSUME NEW r \in Request, RefuseLogin(r)
      PROVE  RequestMoves
  BY <1>11 DEF RefuseLogin, Goto, Finish, clientVars, countVars, syncVars,
     requestVars, TypeInv, RowTypes, RequestTypes, RequestMoves
<1>12. ASSUME NEW r \in Request, ResetLoginAttempts(r)
      PROVE  RequestMoves
  BY <1>12 DEF ResetLoginAttempts, Goto, clientVars, countVars, syncVars,
     requestVars, TypeInv, RowTypes, RequestTypes, RequestMoves
<1>13. ASSUME NEW r \in Request, IssueSession(r)
      PROVE  RequestMoves
  BY <1>13 DEF IssueSession, Goto, Finish, Key, clientVars, countVars,
     syncVars, requestVars, TypeInv, RowTypes, RequestTypes, RequestMoves
<1>14. ASSUME NEW r \in Request, NEW t \in issued, RefreshRead(r, t)
      PROVE  RequestMoves
  <2> DEFINE next == [kind |-> "refresh", old |-> t,
                      new |-> [family |-> t.family, iat |-> now]]
  <2>1. /\ \E where \in {"rotate", "revoke"} : pc' = [pc EXCEPT ![r] = where]
        /\ ctx' = [ctx EXCEPT ![r] = next]
        /\ UNCHANGED <<now, issued>>
    BY <1>14 DEF RefreshRead, Goto
  <2>2. pc'[r] = "rotate" => t.iat <= now
    <3>1. t.family \in Family /\ store[t.family] # Absent
      BY <1>14 DEF RefreshRead, TypeInv, StoreTypes, Token
    <3>2. store[t.family].iat <= now
      BY <3>1 DEF KeyInv
    <3>3. pc'[r] = "rotate" => store[t.family].iat = t.iat
      BY <1>14 DEF RefreshRead, Goto, TypeInv, RequestTypes
    <3> QED
      BY <3>2, <3>3
  <2>3. next.old = t /\ next.new = [family |-> t.family, iat |-> now]
    OBVIOUS
  <2> HIDE DEF next
  <2> QED
    BY <2>1, <2>2, <2>3 DEF RequestMoves, TypeInv, RowTypes, RequestTypes
<1>15. ASSUME NEW r \in Request, NEW t \in issued, Logout(r, t)
      PROVE  RequestMoves
  BY <1>15 DEF Logout, clientVars, countVars, syncVars, requestVars,
     TypeInv, RowTypes, RequestTypes, RequestMoves
<1>16. ASSUME NEW r \in Request, RotateOk(r)
      PROVE  RequestMoves
  BY <1>16 DEF RotateOk, Goto, Finish, NewKey, Key, Wins, clientVars,
     countVars, syncVars, requestVars, TypeInv, RowTypes, RequestTypes,
     RequestMoves
<1>17. ASSUME NEW r \in Request, RotateLost(r)
      PROVE  RequestMoves
  BY <1>17 DEF RotateLost, Goto, clientVars, countVars, syncVars,
     requestVars, TypeInv, RowTypes, RequestTypes, RequestMoves
<1>18. ASSUME NEW r \in Request, RevokeTokenFamily(r)
      PROVE  RequestMoves
  BY <1>18 DEF RevokeTokenFamily, Goto, Finish, clientVars, countVars,
     syncVars, requestVars, TypeInv, RowTypes, RequestTypes, RequestMoves
<1>19. ASSUME NEW r \in Request, Abort(r)
      PROVE  RequestMoves
  BY <1>19 DEF Abort, Goto, Finish, clientVars, countVars, syncVars,
     requestVars, TypeInv, RowTypes, RequestTypes, RequestMoves
<1>20. CASE UNCHANGED vars
  BY <1>20 DEF vars, clientVars, countVars, syncVars, requestVars, TypeInv,
     RowTypes, RequestMoves
<1> QED
  BY <1>1, <1>2, <1>3, <1>4, <1>5, <1>6, <1>7, <1>8, <1>9, <1>10, <1>11,
     <1>12, <1>13, <1>14, <1>15, <1>16, <1>17, <1>18, <1>19, <1>20 DEF Next,
     SyncStep, RequestStep

\* Every step keeps what is known of keys and of requests.
LEMMA KeyNext ==
    ASSUME TypeInv, TypeInv', KeyInv, [Next]_vars
    PROVE  KeyInv'
<1>g. RequestMoves /\ \A f \in Family : KeyMoves(f)
  BY RequestNext, StoreNext
<1>1. \A r \in Request : pc'[r] \in {"rotate", "revoke"} =>
          /\ ctx'[r].old \in issued'
          /\ ctx'[r].new.family = ctx'[r].old.family
          /\ ctx'[r].new.iat <= now'
  <2> SUFFICES ASSUME NEW r \in Request, pc'[r] \in {"rotate", "revoke"}
               PROVE  /\ ctx'[r].old \in issued'
                      /\ ctx'[r].new.family = ctx'[r].old.family
                      /\ ctx'[r].new.iat <= now'
    OBVIOUS
  <2>1. now \in Nat /\ now' \in Nat /\ now' >= now /\ issued \subseteq issued'
    BY <1>g DEF RequestMoves, TypeInv, RowTypes
  <2>2. CASE pc[r] \in {"rotate", "revoke"} /\ ctx'[r] = ctx[r]
    <3>1. ctx[r].new.iat \in Nat
      BY <2>2 DEF TypeInv, RequestTypes, RefreshCtx, Token
    <3> QED
      BY <2>1, <2>2, <3>1 DEF KeyInv
  <2>3. CASE /\ ctx'[r].old \in issued
             /\ ctx'[r].new = [family |-> ctx'[r].old.family, iat |-> now]
    BY <2>1, <2>3
  <2> QED
    BY <1>g, <2>2, <2>3 DEF RequestMoves
<1>2. \A r \in Request : pc'[r] = "rotate" => ctx'[r].old.iat <= ctx'[r].new.iat
  <2> SUFFICES ASSUME NEW r \in Request, pc'[r] = "rotate"
               PROVE  ctx'[r].old.iat <= ctx'[r].new.iat
    OBVIOUS
  <2>1. CASE pc[r] = "rotate" /\ ctx'[r] = ctx[r]
    BY <2>1 DEF KeyInv
  <2>2. CASE /\ ctx'[r].new = [family |-> ctx'[r].old.family, iat |-> now]
             /\ ctx'[r].old.iat <= now
    BY <2>2
  <2> QED
    BY <1>g, <2>1, <2>2 DEF RequestMoves
<1>3. ASSUME NEW f \in Family, store'[f] # Absent
      PROVE  /\ store'[f].iat <= now'
             /\ store'[f].until >= store'[f].iat + KeyTTL
             /\ f \in Opened'
  <2>1. now \in Nat /\ now' \in Nat /\ now' >= now /\ issued \subseteq issued'
    BY <1>g DEF RequestMoves, TypeInv, RowTypes
  <2>2. Opened \subseteq Opened'
    BY <2>1 DEF Opened
  <2>3. CASE store'[f] = store[f]
    BY <1>3, <2>1, <2>2, <2>3 DEF KeyInv, TypeInv, StoreTypes
  <2>4. CASE f \in Opened' /\ store'[f] = Key(now)
    BY <2>1, <2>4, SessionsAssumption DEF Key
  <2>5. ASSUME NEW r \in Request, pc[r] = "rotate", ctx[r].old.family = f,
               store[f] # Absent, store'[f] = Key(ctx[r].new.iat)
        PROVE  /\ store'[f].iat <= now'
               /\ store'[f].until >= store'[f].iat + KeyTTL
               /\ f \in Opened'
    <3>1. ctx[r].new.iat <= now /\ ctx[r].new.iat \in Nat /\ f \in Opened
      BY <2>5 DEF KeyInv, TypeInv, RequestTypes, RefreshCtx, Token
    <3> QED
      BY <2>1, <2>2, <2>5, <3>1, SessionsAssumption DEF Key
  <2> QED
    BY <1>g, <1>3, <2>3, <2>4, <2>5 DEF KeyMoves
<1> QED
  BY <1>1, <1>2, <1>3 DEF KeyInv

\* The initial states have no keys and no requests.
LEMMA InitKey == Init => KeyInv /\ SpentInv
BY DEF Init, KeyInv, SpentInv

(***************************************************************************)
(* Causes.  Who revokes has flagged the family, and while the consumer      *)
(* scans the account stays deleted.                                         *)
(***************************************************************************)

CauseInv ==
    /\ \A r \in Request : pc[r] = "revoke" => ctx[r].old.family \in flagged
    /\ sync.pc # "idle" => row.isDeleted

\* Every step keeps what is known of causes.
LEMMA CauseNext ==
    ASSUME TypeInv, CauseInv, [Next]_vars
    PROVE  CauseInv'
<1>1. ASSUME NEW r \in Request, pc'[r] = "revoke"
      PROVE  ctx'[r].old.family \in flagged'
  <2>1. CASE UNCHANGED <<requestVars, flagged>>
    BY <1>1, <2>1 DEF CauseInv, requestVars
  <2>2. ASSUME NEW q \in Request,
               \/ VerifyCredentials(q) \/ HandleFailedLogin(q) \/ LockAccount(q)
               \/ RefuseLogin(q) \/ ResetLoginAttempts(q) \/ IssueSession(q)
               \/ RotateOk(q) \/ RevokeTokenFamily(q) \/ Abort(q)
        PROVE  ctx'[r].old.family \in flagged'
    <3>1. /\ UNCHANGED flagged
          /\ \E where \in {"idle", "wrong", "lock", "verified", "issue"} : \E what :
                Goto(q, where, what)
      BY <2>2 DEF VerifyCredentials, HandleFailedLogin, LockAccount,
         RefuseLogin, ResetLoginAttempts, IssueSession, RotateOk,
         RevokeTokenFamily, Abort, Finish, clientVars
    <3> QED
      BY <1>1, <3>1 DEF Goto, CauseInv, TypeInv, RequestTypes
  <2>3. ASSUME NEW q \in Request, NEW t \in issued, RefreshRead(q, t)
        PROVE  ctx'[r].old.family \in flagged'
    <3> DEFINE next == [kind |-> "refresh", old |-> t,
                        new |-> [family |-> t.family, iat |-> now]]
    <3>1. \/ Goto(q, "rotate", next) /\ UNCHANGED flagged
          \/ Goto(q, "revoke", next) /\ flagged' = flagged \cup {t.family}
      BY <2>3 DEF RefreshRead
    <3>2. next.old.family = t.family
      OBVIOUS
    <3> HIDE DEF next
    <3> QED
      BY <1>1, <3>1, <3>2 DEF Goto, CauseInv, TypeInv, RequestTypes
  <2>4. ASSUME NEW q \in Request, RotateLost(q)
        PROVE  ctx'[r].old.family \in flagged'
    BY <1>1, <2>4 DEF RotateLost, Goto, CauseInv, TypeInv, RequestTypes
  <2>5. ASSUME NEW q \in Request, NEW t \in issued, Logout(q, t)
        PROVE  UNCHANGED <<requestVars, flagged>>
    BY <2>5 DEF Logout, clientVars, requestVars
  <2>6. ASSUME Tick \/ SyncStep \/ UNCHANGED vars
        PROVE  UNCHANGED <<requestVars, flagged>>
    BY <2>6 DEF Tick, SyncStep, Arrive, MarkDeleted, RevokeAllScan,
       RevokeAllDel, MarkRestored, SyncFails, vars, clientVars, requestVars
  <2> QED
    BY <2>1, <2>2, <2>3, <2>4, <2>5, <2>6 DEF Next, RequestStep
<1>2. sync'.pc # "idle" => row'.isDeleted
  <2>1. CASE UNCHANGED <<sync, row>>
    BY <2>1 DEF CauseInv
  <2>2. CASE MarkDeleted
    BY <2>2 DEF MarkDeleted, TypeInv, RowTypes, Row
  <2>3. CASE RevokeAllScan \/ RevokeAllDel \/ SyncFails
    BY <2>3 DEF RevokeAllScan, RevokeAllDel, SyncFails, CauseInv
  <2>4. CASE MarkRestored
    BY <2>4 DEF MarkRestored
  <2>5. CASE UNCHANGED sync /\ row'.isDeleted = row.isDeleted
    BY <2>5 DEF CauseInv
  <2>6. ASSUME NEW r \in Request,
               HandleFailedLogin(r) \/ LockAccount(r) \/ ResetLoginAttempts(r)
        PROVE  UNCHANGED sync /\ row'.isDeleted = row.isDeleted
    BY <2>6 DEF HandleFailedLogin, LockAccount, ResetLoginAttempts, syncVars,
       TypeInv, RowTypes, Row
  <2> QED
    BY <2>1, <2>2, <2>3, <2>4, <2>5, <2>6 DEF Next, SyncStep, RequestStep, Tick,
       Arrive, VerifyCredentials, RefuseLogin, IssueSession, RefreshRead, Logout,
       RotateOk, RotateLost, RevokeTokenFamily, Abort, vars, syncVars
<1> QED
  BY <1>1, <1>2 DEF CauseInv

\* A session ends by logout, detected reuse, deletion, or KeyTTL seconds after
\* its last login or rotation, whatever else is under way.
THEOREM SessionsEndForCause == Spec => SessionEndsForCause
<1>1. TypeInv /\ KeyInv /\ CauseInv /\ [Next]_vars =>
        [\A f \in Live : store'[f] = Absent =>
            \/ now' >= store[f].iat + KeyTTL
            \/ f \in flagged
            \/ row.isDeleted /\ f \in sync.page
            \/ \E r \in Request, t \in issued : Logout(r, t) /\ t.family = f]_vars
  <2> SUFFICES ASSUME TypeInv, KeyInv, CauseInv, [Next]_vars,
                      NEW f \in Live, store'[f] = Absent
               PROVE  \/ now' >= store[f].iat + KeyTTL
                      \/ f \in flagged
                      \/ row.isDeleted /\ f \in sync.page
                      \/ \E r \in Request, t \in issued :
                            Logout(r, t) /\ t.family = f
    OBVIOUS
  <2>f. f \in Family /\ store[f] # Absent
    BY DEF Live
  <2>1. ASSUME Tick
        PROVE  now' >= store[f].iat + KeyTTL
    <3>1. ~(store[f].until > now')
      BY <2>1, <2>f DEF Tick
    <3>2. store[f].until >= store[f].iat + KeyTTL
      BY <2>f DEF KeyInv
    <3>3. /\ store[f].until \in Nat /\ store[f].iat \in Nat /\ now' \in Nat
      BY <2>f, <2>1, SessionsAssumption DEF Tick, TypeInv, StoreTypes, RowTypes
    <3> QED
      BY <3>1, <3>2, <3>3, SessionsAssumption
  <2>2. ASSUME RevokeAllDel
        PROVE  row.isDeleted /\ f \in sync.page
    BY <2>f, <2>2 DEF RevokeAllDel, CauseInv
  <2>3. ASSUME NEW r \in Request, RevokeTokenFamily(r)
        PROVE  f \in flagged
    BY <2>f, <2>3 DEF RevokeTokenFamily, CauseInv, TypeInv, StoreTypes
  <2>4. ASSUME NEW r \in Request, NEW t \in issued, Logout(r, t)
        PROVE  Logout(r, t) /\ t.family = f
    BY <2>f, <2>4 DEF Logout, TypeInv, StoreTypes
  <2>5. ASSUME NEW r \in Request, IssueSession(r) \/ RotateOk(r)
        PROVE  FALSE
    <3>1. store' \in [Family -> [iat : Nat, until : Nat]]
      BY TypeNext DEF TypeInv, StoreTypes
    <3>2. \E g \in Family : \E iat : store' = [store EXCEPT ![g] = Key(iat)]
      BY <2>5 DEF IssueSession, RotateOk, NewKey, Opened, TypeInv, RequestTypes,
         RefreshCtx, Token
    <3>3. \A iat : Key(iat) # Absent
      BY SessionsAssumption DEF Key, Absent, TypeInv, RowTypes
    <3> QED
      BY <2>f, <3>2, <3>3 DEF TypeInv, StoreTypes
  <2>6. store' # store
    BY <2>f
  <2> QED
    BY <2>1, <2>2, <2>3, <2>4, <2>5, <2>6 DEF Next, SyncStep, RequestStep, Arrive,
       MarkDeleted, RevokeAllScan, MarkRestored, SyncFails, VerifyCredentials,
       HandleFailedLogin, LockAccount, RefuseLogin, ResetLoginAttempts,
       RefreshRead, RotateLost, Abort, vars
<1>2. TypeInv /\ KeyInv /\ CauseInv /\ [Next]_vars => (TypeInv /\ KeyInv /\ CauseInv)'
  BY TypeNext, KeyNext, CauseNext
<1>3. Init => CauseInv
  BY DEF Init, CauseInv, Resting
<1> QED
  BY InitType, InitKey, <1>1, <1>2, <1>3, PTL DEF Spec, SessionEndsForCause

(***************************************************************************)
(* The refinement.  A step leaves the tokens alone, takes some of the good  *)
(* ones away, or is a login or a rotation, each on one family.             *)
(***************************************************************************)

Good == {[family |-> f, iat |-> store[f].iat] : f \in Live}

KeysKept == \A f \in Family : store'[f] = store[f] \/ store'[f] = Absent

\* When keys go and none is written, no token becomes good.
LEMMA NoneBecomesGood == ASSUME KeysKept PROVE Good' \subseteq Good
BY DEF KeysKept, Good, Live

\* A key is written for one family: the others keep their good tokens.
LEMMA OneBecomesGood ==
    ASSUME TypeInv, NEW f \in Family, NEW iat \in Nat,
           store' = [store EXCEPT ![f] = Key(iat)]
    PROVE  Good' = {t \in Good : t.family # f} \cup {[family |-> f, iat |-> iat]}
<1>1. /\ store'[f] # Absent /\ store'[f].iat = iat
      /\ \A g \in Family \ {f} : store'[g] = store[g]
  BY AbsentKey, SessionsAssumption DEF TypeInv, RowTypes, StoreTypes, Key
<1>2. ASSUME NEW t \in Good'
      PROVE  (t \in Good /\ t.family # f) \/ t = [family |-> f, iat |-> iat]
  <2>1. PICK g \in Family : /\ store'[g] # Absent
                            /\ t = [family |-> g, iat |-> store'[g].iat]
    BY DEF Good, Live
  <2>2. CASE g = f
    BY <1>1, <2>1, <2>2
  <2>3. CASE g # f
    BY <1>1, <2>1, <2>3 DEF Good, Live
  <2> QED
    BY <2>2, <2>3
<1>3. ASSUME NEW t \in Good, t.family # f
      PROVE  t \in Good'
  <2>1. PICK g \in Family : /\ store[g] # Absent
                            /\ t = [family |-> g, iat |-> store[g].iat]
    BY DEF Good, Live
  <2> QED
    BY <1>1, <1>3, <2>1 DEF Good, Live
<1>4. [family |-> f, iat |-> iat] \in Good'
  BY <1>1 DEF Good, Live
<1> QED
  BY <1>2, <1>3, <1>4

TokenStep ==
    \/ KeysKept /\ UNCHANGED issued /\ (now' = now \/ now' = now + 1)
    \/ \E f \in Family \ Opened :
          /\ store' = [store EXCEPT ![f] = Key(now)]
          /\ issued' = issued \cup {[family |-> f, iat |-> now]}
          /\ UNCHANGED now
    \/ \E r \in Request :
          /\ pc[r] = "rotate" /\ Wins(ctx[r])
          /\ store' = [store EXCEPT ![ctx[r].old.family] = Key(ctx[r].new.iat)]
          /\ issued' = issued \cup {ctx[r].new}
          /\ UNCHANGED now

\* What a step does to the tokens.
LEMMA TokenNext == ASSUME TypeInv, [Next]_vars PROVE TokenStep
<1>1. ASSUME NEW r \in Request, RequestStep(r)
      PROVE  TokenStep
  <2>1. CASE IssueSession(r)
    BY <2>1 DEF IssueSession, TokenStep
  <2>2. CASE RotateOk(r)
    BY <2>2 DEF RotateOk, NewKey, TokenStep
  <2>3. CASE \/ VerifyCredentials(r) \/ HandleFailedLogin(r) \/ LockAccount(r)
             \/ RefuseLogin(r) \/ ResetLoginAttempts(r) \/ RotateLost(r)
             \/ Abort(r) \/ \E t \in issued : RefreshRead(r, t)
    <3>1. UNCHANGED <<now, store, issued>>
      BY <2>3 DEF VerifyCredentials, HandleFailedLogin, LockAccount,
         RefuseLogin, ResetLoginAttempts, RotateLost, Abort, RefreshRead,
         clientVars
    <3> QED
      BY <3>1 DEF KeysKept, TokenStep
  <2>4. CASE RevokeTokenFamily(r) \/ \E t \in issued : Logout(r, t)
    <3>1. UNCHANGED <<now, issued>>
      BY <2>4 DEF RevokeTokenFamily, Logout, clientVars
    <3>2. \E g : store' = [store EXCEPT ![g] = Absent]
      BY <2>4 DEF RevokeTokenFamily, Logout
    <3> QED
      BY <3>1, <3>2 DEF KeysKept, TokenStep, TypeInv, StoreTypes
  <2> QED
    BY <1>1, <2>1, <2>2, <2>3, <2>4 DEF RequestStep
<1>2. ASSUME SyncStep
      PROVE  TokenStep
  <2>1. CASE RevokeAllDel
    BY <2>1 DEF RevokeAllDel, clientVars, KeysKept, TokenStep
  <2>2. CASE \/ \E m \in Message : Arrive(m)
             \/ MarkDeleted \/ RevokeAllScan \/ MarkRestored \/ SyncFails
    <3>1. UNCHANGED <<now, store, issued>>
      BY <2>2 DEF Arrive, MarkDeleted, RevokeAllScan, MarkRestored, SyncFails,
         clientVars
    <3> QED
      BY <3>1 DEF KeysKept, TokenStep
  <2> QED
    BY <1>2, <2>1, <2>2 DEF SyncStep
<1>3. CASE Tick
  BY <1>3 DEF Tick, clientVars, KeysKept, TokenStep
<1>4. CASE UNCHANGED vars
  BY <1>4 DEF vars, clientVars, KeysKept, TokenStep
<1> QED
  BY <1>1, <1>2, <1>3, <1>4 DEF Next

\* A login opens a family.
LEMMA LoginRefines ==
    ASSUME TypeInv, KeyInv, NEW f \in Family \ Opened,
           store' = [store EXCEPT ![f] = Key(now)],
           issued' = issued \cup {[family |-> f, iat |-> now]},
           UNCHANGED now
    PROVE  Promise!Open(f)
<1>1. now \in Nat
  BY DEF TypeInv, RowTypes
<1>2. store[f] = Absent /\ \A t \in issued : t.family # f
  BY DEF KeyInv, Opened
<1>3. \A t \in Good : t.family # f
  BY <1>2 DEF Good, Live
<1>4. Good' = Good \cup {[family |-> f, iat |-> now]}
  BY <1>1, <1>3, OneBecomesGood
<1> QED
  BY <1>2, <1>4 DEF Promise!Open, Promise!Issue, Good

\* A rotation that wins exchanges the good token of its family.
LEMMA RotationRefines ==
    ASSUME TypeInv, KeyInv, NEW r \in Request, pc[r] = "rotate", Wins(ctx[r]),
           store' = [store EXCEPT ![ctx[r].old.family] = Key(ctx[r].new.iat)],
           issued' = issued \cup {ctx[r].new},
           UNCHANGED now
    PROVE  /\ ctx[r].old \in Good
           /\ ctx[r].new.iat \in ctx[r].old.iat..now
           /\ Promise!Exchange(ctx[r].old, ctx[r].new.iat)
<1> DEFINE old == ctx[r].old
           new == ctx[r].new
<1>1. old \in Token /\ new \in Token /\ now \in Nat
  BY DEF TypeInv, RowTypes, RequestTypes, RefreshCtx
<1>2. new.family = old.family /\ new.iat \in old.iat..now
  <2>1. new.family = old.family /\ old.iat <= new.iat /\ new.iat <= now
    BY DEF KeyInv
  <2> QED
    BY <1>1, <2>1 DEF Token
<1>3. store[old.family] # Absent /\ store[old.family].iat = old.iat
  BY DEF Wins
<1>4. old = [family |-> old.family, iat |-> old.iat]
      /\ new = [family |-> old.family, iat |-> new.iat]
  BY <1>1, <1>2 DEF Token
<1>5. old \in Good
  BY <1>1, <1>3, <1>4 DEF Good, Live, Token
<1>6. \A t \in Good : t.family = old.family <=> t = old
  BY <1>3, <1>4 DEF Good, Live
<1>7. Good' = (Good \ {old}) \cup {new}
  <2>1. Good' = {t \in Good : t.family # old.family} \cup {new}
    BY <1>1, <1>4, OneBecomesGood DEF Token
  <2> QED
    BY <1>6, <2>1
<1>8. Promise!Exchange(old, new.iat)
  BY <1>4, <1>7 DEF Promise!Exchange, Promise!Issue, Good
<1> QED
  BY <1>2, <1>5, <1>8

\* Refresh tokens behave as TokenFamilies has it.
THEOREM TokenPromiseKept == Spec => TokensKeepPromise
<1>1. Init => Promise!Init
  BY DEF Init, Live, Promise!Init
<1>2. TypeInv /\ KeyInv /\ [Next]_vars => [Promise!Next]_(Promise!tokenVars)
  <2> SUFFICES ASSUME TypeInv, KeyInv, [Next]_vars
               PROVE  Promise!Next
    BY DEF Promise!tokenVars
  <2>1. ASSUME KeysKept, UNCHANGED issued, now' = now \/ now' = now + 1
        PROVE  Promise!Revoke \/ Promise!Pass
    BY <2>1, NoneBecomesGood DEF Promise!Revoke, Promise!Pass, Good
  <2>2. ASSUME NEW r \in Request, pc[r] = "rotate", Wins(ctx[r]),
               store' = [store EXCEPT ![ctx[r].old.family] = Key(ctx[r].new.iat)],
               issued' = issued \cup {ctx[r].new}, UNCHANGED now
        PROVE  Promise!Next
    <3> DEFINE old == ctx[r].old
               iat == ctx[r].new.iat
    <3>1. old \in Good /\ iat \in old.iat..now /\ Promise!Exchange(old, iat)
      BY <2>2, RotationRefines
    <3> HIDE DEF old, iat
    <3> QED
      BY <3>1 DEF Good, Promise!Exchange, Promise!Issue, Promise!Next
  <2> QED
    BY <2>1, <2>2, TokenNext, LoginRefines DEF TokenStep, Promise!Next
<1>3. TypeInv /\ KeyInv /\ [Next]_vars => (TypeInv /\ KeyInv)'
  BY TypeNext, KeyNext
<1> QED
  BY InitType, InitKey, <1>1, <1>2, <1>3, PTL
  DEF Spec, TokensKeepPromise, Promise!Spec

\* What a rotation records.
LEMMA RotatedNext ==
    ASSUME [Next]_vars
    PROVE  \A pair \in rotated' \ rotated :
              \E r \in Request :
                 /\ pc[r] = "rotate" /\ pair = <<ctx[r].old, ctx[r].new>>
                 /\ store' = [store EXCEPT ![ctx[r].old.family] = Key(ctx[r].new.iat)]
<1>1. \/ UNCHANGED rotated
      \/ \E r \in Request : RotateOk(r)
  BY DEF Next, SyncStep, RequestStep, Tick, Arrive, MarkDeleted, RevokeAllScan,
     RevokeAllDel, MarkRestored, SyncFails, VerifyCredentials, HandleFailedLogin,
     LockAccount, RefuseLogin, ResetLoginAttempts, IssueSession, RefreshRead,
     Logout, RotateLost, RevokeTokenFamily, Abort, vars, clientVars
<1>2. ASSUME NEW r \in Request, RotateOk(r)
      PROVE  /\ rotated' \ rotated \subseteq {<<ctx[r].old, ctx[r].new>>}
             /\ pc[r] = "rotate"
             /\ store' = [store EXCEPT ![ctx[r].old.family] = Key(ctx[r].new.iat)]
  BY <1>2 DEF RotateOk, NewKey
<1> QED
  BY <1>1, <1>2

\* Every step keeps what is known of rotations.
LEMMA SpentNext ==
    ASSUME TypeInv, TypeInv', KeyInv, KeyInv', SpentInv, [Next]_vars
    PROVE  SpentInv'
<1>g. RequestMoves /\ \A f \in Family : KeyMoves(f)
  BY RequestNext, StoreNext
<1> SUFFICES ASSUME NEW pair \in rotated'
             PROVE  /\ pair[1] \in issued'
                    /\ pair[1].family = pair[2].family
                    /\ pair[1].iat <= pair[2].iat
                    /\ store'[pair[1].family] # Absent
                          => store'[pair[1].family].iat >= pair[2].iat
  BY DEF SpentInv
<1>1. CASE pair \in rotated
  <2> DEFINE f == pair[1].family
  <2>1. /\ pair[1] \in issued /\ pair[1].family = pair[2].family
        /\ pair[1].iat <= pair[2].iat
        /\ store[f] # Absent => store[f].iat >= pair[2].iat
    BY <1>1 DEF SpentInv
  <2>2. pair[1] \in issued'
    BY <1>g, <2>1 DEF RequestMoves
  <2>3. f \in Family /\ f \in Opened /\ pair[2].iat \in Nat
    BY <1>1, <2>1 DEF TypeInv, StoreTypes, Token, Opened
  <2>4. ASSUME store'[f] # Absent
        PROVE  store'[f].iat >= pair[2].iat
    <3>1. CASE store'[f] = store[f]
      BY <2>1, <2>4, <3>1
    <3>2. ASSUME NEW r \in Request, pc[r] = "rotate", ctx[r].old.family = f,
                 store[f] # Absent, store[f].iat = ctx[r].old.iat,
                 store'[f] = Key(ctx[r].new.iat)
          PROVE  store'[f].iat >= pair[2].iat
      <4>1. ctx[r].old.iat <= ctx[r].new.iat /\ ctx[r].new.iat \in Nat
            /\ ctx[r].old.iat \in Nat
        BY <3>2 DEF KeyInv, TypeInv, RequestTypes, RefreshCtx, Token
      <4>2. ctx[r].old.iat >= pair[2].iat
        BY <2>1, <3>2
      <4>3. store'[f].iat = ctx[r].new.iat
        BY <3>2 DEF Key
      <4> QED
        BY <2>3, <4>1, <4>2, <4>3
    <3> QED
      BY <1>g, <2>3, <2>4, <3>1, <3>2 DEF KeyMoves
  <2> QED
    BY <2>1, <2>2, <2>4
<1>2. CASE pair \notin rotated
  <2>1. PICK r \in Request :
           /\ pc[r] = "rotate" /\ pair = <<ctx[r].old, ctx[r].new>>
           /\ store' = [store EXCEPT ![ctx[r].old.family] = Key(ctx[r].new.iat)]
    BY <1>2, RotatedNext
  <2>2. /\ ctx[r].old \in issued /\ ctx[r].new.family = ctx[r].old.family
        /\ ctx[r].old.iat <= ctx[r].new.iat
    BY <2>1 DEF KeyInv
  <2>3. ctx[r].old.family \in Family /\ ctx[r].new.iat \in Nat
    BY <2>1 DEF TypeInv, RequestTypes, RefreshCtx, Token
  <2>4. store'[ctx[r].old.family].iat = ctx[r].new.iat
    BY <2>1, <2>3 DEF TypeInv, StoreTypes, Key
  <2>5. issued \subseteq issued'
    BY <1>g DEF RequestMoves
  <2> QED
    BY <2>1, <2>2, <2>3, <2>4, <2>5
<1> QED
  BY <1>1, <1>2

\* A token that was exchanged is never current again.
THEOREM SpentTokensAreDead == Spec => []SpentTokensStayDead
<1>1. TypeInv /\ SpentInv => SpentTokensStayDead
  <2> SUFFICES ASSUME TypeInv, SpentInv, NEW pair \in rotated,
                      pair[1] # pair[2], store[pair[1].family] # Absent
               PROVE  store[pair[1].family].iat # pair[1].iat
    BY DEF SpentTokensStayDead
  <2>1. pair[1] \in Token /\ pair[2] \in Token /\ pair[1].family \in Family
    BY DEF TypeInv, StoreTypes, Token
  <2>2. /\ pair[1].family = pair[2].family /\ pair[1].iat <= pair[2].iat
        /\ store[pair[1].family].iat >= pair[2].iat
    BY DEF SpentInv
  <2>3. pair[1].iat # pair[2].iat
    BY <2>1, <2>2 DEF Token
  <2>4. pair[1].iat \in Nat /\ pair[2].iat \in Nat
        /\ store[pair[1].family].iat \in Nat
    BY <2>1 DEF Token, TypeInv, StoreTypes
  <2> QED
    BY <2>2, <2>3, <2>4
<1>2. TypeInv /\ KeyInv /\ SpentInv /\ [Next]_vars => (TypeInv /\ KeyInv /\ SpentInv)'
  BY TypeNext, KeyNext, SpentNext
<1> QED
  BY InitType, InitKey, <1>1, <1>2, PTL DEF Spec

(***************************************************************************)
(* Reuse.  Unless a request dies, whoever detected the reuse of a family    *)
(* is still there to revoke it, or has done so.                             *)
(***************************************************************************)

\* No request dies between two of its steps.
NobodyDies == "request" \notin Faults

Revoking(f) == \E r \in Request : pc[r] = "revoke" /\ ctx[r].old.family = f

RevokeMoves ==
    /\ \A r \in Request : pc[r] = "revoke" =>
          \/ pc'[r] = "revoke" /\ ctx'[r] = ctx[r]
          \/ store'[ctx[r].old.family] = Absent
    /\ \A f \in flagged' : f \in flagged \/ (f \in Opened /\ Revoking(f)')

\* A revocation that is under way goes on, and a new flag starts one.
LEMMA RevokeNext ==
    ASSUME NobodyDies, TypeInv, KeyInv, [Next]_vars
    PROVE  RevokeMoves
<1>1. ASSUME Tick
      PROVE  RevokeMoves
  BY <1>1 DEF Tick, clientVars, countVars, syncVars, requestVars,
     NobodyDies, RevokeMoves, TypeInv, RequestTypes, StoreTypes, RefreshCtx,
     Token
<1>2. ASSUME NEW m \in Message, Arrive(m)
      PROVE  RevokeMoves
  BY <1>2 DEF Arrive, clientVars, countVars, syncVars, requestVars,
     NobodyDies, RevokeMoves, TypeInv, RequestTypes, StoreTypes, RefreshCtx,
     Token
<1>3. ASSUME MarkDeleted
      PROVE  RevokeMoves
  BY <1>3 DEF MarkDeleted, Resting, clientVars, countVars, syncVars,
     requestVars, NobodyDies, RevokeMoves, TypeInv, RequestTypes,
     StoreTypes, RefreshCtx, Token
<1>4. ASSUME RevokeAllScan
      PROVE  RevokeMoves
  BY <1>4 DEF RevokeAllScan, Resting, Ack, clientVars, countVars, syncVars,
     requestVars, NobodyDies, RevokeMoves, TypeInv, RequestTypes,
     StoreTypes, RefreshCtx, Token
<1>5. ASSUME RevokeAllDel
      PROVE  RevokeMoves
  BY <1>5 DEF RevokeAllDel, Resting, Ack, clientVars, countVars, syncVars,
     requestVars, NobodyDies, RevokeMoves, TypeInv, RequestTypes,
     StoreTypes, RefreshCtx, Token
<1>6. ASSUME MarkRestored
      PROVE  RevokeMoves
  BY <1>6 DEF MarkRestored, Ack, clientVars, countVars, syncVars,
     requestVars, NobodyDies, RevokeMoves, TypeInv, RequestTypes,
     StoreTypes, RefreshCtx, Token
<1>7. ASSUME SyncFails
      PROVE  RevokeMoves
  BY <1>7 DEF SyncFails, Resting, clientVars, countVars, syncVars,
     requestVars, NobodyDies, RevokeMoves, TypeInv, RequestTypes,
     StoreTypes, RefreshCtx, Token
<1>8. ASSUME NEW r \in Request, VerifyCredentials(r)
      PROVE  RevokeMoves
  BY <1>8 DEF VerifyCredentials, Goto, clientVars, countVars, syncVars,
     requestVars, NobodyDies, RevokeMoves, TypeInv, RequestTypes,
     StoreTypes, RefreshCtx, Token
<1>9. ASSUME NEW r \in Request, HandleFailedLogin(r)
      PROVE  RevokeMoves
  BY <1>9 DEF HandleFailedLogin, Goto, Finish, clientVars, countVars,
     syncVars, requestVars, NobodyDies, RevokeMoves, TypeInv, RequestTypes,
     StoreTypes, RefreshCtx, Token
<1>10. ASSUME NEW r \in Request, LockAccount(r)
      PROVE  RevokeMoves
  BY <1>10 DEF LockAccount, Goto, Finish, clientVars, countVars, syncVars,
     requestVars, NobodyDies, RevokeMoves, TypeInv, RequestTypes,
     StoreTypes, RefreshCtx, Token
<1>11. ASSUME NEW r \in Request, RefuseLogin(r)
      PROVE  RevokeMoves
  BY <1>11 DEF RefuseLogin, Goto, Finish, clientVars, countVars, syncVars,
     requestVars, NobodyDies, RevokeMoves, TypeInv, RequestTypes,
     StoreTypes, RefreshCtx, Token
<1>12. ASSUME NEW r \in Request, ResetLoginAttempts(r)
      PROVE  RevokeMoves
  BY <1>12 DEF ResetLoginAttempts, Goto, clientVars, countVars, syncVars,
     requestVars, NobodyDies, RevokeMoves, TypeInv, RequestTypes,
     StoreTypes, RefreshCtx, Token
<1>13. ASSUME NEW r \in Request, IssueSession(r)
      PROVE  RevokeMoves
  BY <1>13 DEF IssueSession, Goto, Finish, Key, clientVars, countVars,
     syncVars, requestVars, NobodyDies, RevokeMoves, TypeInv, RequestTypes,
     StoreTypes, RefreshCtx, Token
<1>14. ASSUME NEW r \in Request, NEW t \in issued, RefreshRead(r, t)
      PROVE  RevokeMoves
  <2>1. /\ pc[r] = "idle" /\ UNCHANGED store /\ t.family \in Opened
        /\ \/ UNCHANGED flagged
           \/ /\ flagged' = flagged \cup {t.family}
              /\ pc' = [pc EXCEPT ![r] = "revoke"]
        /\ \E where \in {"rotate", "revoke"} : pc' = [pc EXCEPT ![r] = where]
        /\ ctx' = [ctx EXCEPT ![r] = [kind |-> "refresh", old |-> t,
                      new |-> [family |-> t.family, iat |-> now]]]
    BY <1>14 DEF RefreshRead, Goto, Opened
  <2> QED
    BY <2>1 DEF RevokeMoves, Revoking, TypeInv, RequestTypes
<1>15. ASSUME NEW r \in Request, NEW t \in issued, Logout(r, t)
      PROVE  RevokeMoves
  BY <1>15 DEF Logout, clientVars, countVars, syncVars, requestVars,
     NobodyDies, RevokeMoves, TypeInv, RequestTypes, StoreTypes, RefreshCtx,
     Token
<1>16. ASSUME NEW r \in Request, RotateOk(r)
      PROVE  RevokeMoves
  <2>1. /\ pc[r] = "rotate" /\ UNCHANGED flagged
        /\ pc' = [pc EXCEPT ![r] = "idle"] /\ ctx' = [ctx EXCEPT ![r] = Nothing]
    BY <1>16 DEF RotateOk, Goto, Finish
  <2> QED
    BY <2>1 DEF RevokeMoves, TypeInv, RequestTypes
<1>17. ASSUME NEW r \in Request, RotateLost(r)
      PROVE  RevokeMoves
  <2>1. /\ pc[r] = "rotate" /\ UNCHANGED store
        /\ pc' = [pc EXCEPT ![r] = "revoke"] /\ ctx' = [ctx EXCEPT ![r] = ctx[r]]
        /\ flagged' = flagged \cup {ctx[r].old.family}
    BY <1>17 DEF RotateLost, Goto
  <2>2. ctx[r].old.family \in Opened
    BY <2>1 DEF KeyInv, Opened
  <2> QED
    BY <2>1, <2>2 DEF RevokeMoves, Revoking, TypeInv, RequestTypes
<1>18. ASSUME NEW r \in Request, RevokeTokenFamily(r)
      PROVE  RevokeMoves
  BY <1>18 DEF RevokeTokenFamily, Goto, Finish, clientVars, countVars,
     syncVars, requestVars, NobodyDies, RevokeMoves, TypeInv, RequestTypes,
     StoreTypes, RefreshCtx, Token
<1>19. ASSUME NEW r \in Request, Abort(r)
      PROVE  RevokeMoves
  BY <1>19 DEF Abort, Goto, Finish, clientVars, countVars, syncVars,
     requestVars, NobodyDies, RevokeMoves, TypeInv, RequestTypes,
     StoreTypes, RefreshCtx, Token
<1>20. CASE UNCHANGED vars
  BY <1>20 DEF vars, clientVars, countVars, syncVars, requestVars,
     RevokeMoves
<1> QED
  BY <1>1, <1>2, <1>3, <1>4, <1>5, <1>6, <1>7, <1>8, <1>9, <1>10, <1>11,
     <1>12, <1>13, <1>14, <1>15, <1>16, <1>17, <1>18, <1>19, <1>20 DEF Next,
     SyncStep, RequestStep

ReuseInv == flagged \subseteq Opened /\ ReuseEndsFamily

\* Every step keeps what is known of reuse.
LEMMA ReuseNext ==
    ASSUME NobodyDies, TypeInv, KeyInv, ReuseInv, [Next]_vars
    PROVE  ReuseInv'
<1>g. RequestMoves /\ RevokeMoves /\ \A f \in Family : KeyMoves(f)
  BY RequestNext, RevokeNext, StoreNext
<1>1. Opened \subseteq Opened' /\ Opened \subseteq Family
  BY <1>g DEF RequestMoves, Opened, TypeInv, StoreTypes, Token
<1>2. flagged' \subseteq Opened'
  BY <1>g, <1>1 DEF RevokeMoves, ReuseInv
<1>3. ASSUME NEW f \in flagged'
      PROVE  store'[f] = Absent \/ Revoking(f)'
  <2>1. CASE f \in flagged /\ store[f] = Absent
    BY <1>g, <1>1, <2>1 DEF ReuseInv, KeyMoves
  <2>2. CASE f \in flagged /\ Revoking(f)
    BY <1>g, <2>2 DEF RevokeMoves, Revoking
  <2>3. CASE f \notin flagged
    BY <1>g, <2>3 DEF RevokeMoves
  <2> QED
    BY <2>1, <2>2, <2>3 DEF ReuseInv, ReuseEndsFamily, Revoking
<1> QED
  BY <1>2, <1>3 DEF ReuseInv, ReuseEndsFamily, Revoking

\* A family whose reuse was detected is revoked.
THEOREM ReuseIsFinal == ASSUME NobodyDies PROVE Spec => []ReuseEndsFamily
<1>1. Init => ReuseInv
  BY DEF Init, ReuseInv, ReuseEndsFamily
<1>2. TypeInv /\ KeyInv /\ ReuseInv /\ [Next]_vars => (TypeInv /\ KeyInv /\ ReuseInv)'
  BY TypeNext, KeyNext, ReuseNext
<1>3. ReuseInv => ReuseEndsFamily
  BY DEF ReuseInv
<1> QED
  BY InitType, InitKey, <1>1, <1>2, <1>3, PTL DEF Spec

(***************************************************************************)
(* Failed logins.                                                           *)
(***************************************************************************)

\* Every step keeps the count, and the lock of who reached the limit.
LEMMA CountNext ==
    ASSUME NobodyDies, TypeInv, FailuresAreCounted, [Next]_vars
    PROVE  FailuresAreCounted'
<1>1. ASSUME Tick
      PROVE  FailuresAreCounted'
  BY <1>1, SessionsAssumption DEF Tick, clientVars, countVars, syncVars,
     requestVars, NobodyDies, FailuresAreCounted, TypeInv, RowTypes,
     RequestTypes, Row
<1>2. ASSUME NEW m \in Message, Arrive(m)
      PROVE  FailuresAreCounted'
  BY <1>2, SessionsAssumption DEF Arrive, clientVars, countVars, syncVars,
     requestVars, NobodyDies, FailuresAreCounted, TypeInv, RowTypes,
     RequestTypes, Row
<1>3. ASSUME MarkDeleted
      PROVE  FailuresAreCounted'
  BY <1>3, SessionsAssumption DEF MarkDeleted, Resting, clientVars,
     countVars, syncVars, requestVars, NobodyDies, FailuresAreCounted,
     TypeInv, RowTypes, RequestTypes, Row
<1>4. ASSUME RevokeAllScan
      PROVE  FailuresAreCounted'
  BY <1>4, SessionsAssumption DEF RevokeAllScan, Resting, Ack, clientVars,
     countVars, syncVars, requestVars, NobodyDies, FailuresAreCounted,
     TypeInv, RowTypes, RequestTypes, Row
<1>5. ASSUME RevokeAllDel
      PROVE  FailuresAreCounted'
  BY <1>5, SessionsAssumption DEF RevokeAllDel, Resting, Ack, clientVars,
     countVars, syncVars, requestVars, NobodyDies, FailuresAreCounted,
     TypeInv, RowTypes, RequestTypes, Row
<1>6. ASSUME MarkRestored
      PROVE  FailuresAreCounted'
  BY <1>6, SessionsAssumption DEF MarkRestored, Ack, clientVars, countVars,
     syncVars, requestVars, NobodyDies, FailuresAreCounted, TypeInv,
     RowTypes, RequestTypes, Row
<1>7. ASSUME SyncFails
      PROVE  FailuresAreCounted'
  BY <1>7, SessionsAssumption DEF SyncFails, Resting, clientVars, countVars,
     syncVars, requestVars, NobodyDies, FailuresAreCounted, TypeInv,
     RowTypes, RequestTypes, Row
<1>8. ASSUME NEW r \in Request, VerifyCredentials(r)
      PROVE  FailuresAreCounted'
  BY <1>8, SessionsAssumption DEF VerifyCredentials, Goto, clientVars,
     countVars, syncVars, requestVars, NobodyDies, FailuresAreCounted,
     TypeInv, RowTypes, RequestTypes, Row
<1>9. ASSUME NEW r \in Request, HandleFailedLogin(r)
      PROVE  FailuresAreCounted'
  BY <1>9, SessionsAssumption DEF HandleFailedLogin, Goto, Finish,
     clientVars, countVars, syncVars, requestVars, NobodyDies,
     FailuresAreCounted, TypeInv, RowTypes, RequestTypes, Row
<1>10. ASSUME NEW r \in Request, LockAccount(r)
      PROVE  FailuresAreCounted'
  BY <1>10, SessionsAssumption DEF LockAccount, Goto, Finish, clientVars,
     countVars, syncVars, requestVars, NobodyDies, FailuresAreCounted,
     TypeInv, RowTypes, RequestTypes, Row
<1>11. ASSUME NEW r \in Request, RefuseLogin(r)
      PROVE  FailuresAreCounted'
  BY <1>11, SessionsAssumption DEF RefuseLogin, Goto, Finish, clientVars,
     countVars, syncVars, requestVars, NobodyDies, FailuresAreCounted,
     TypeInv, RowTypes, RequestTypes, Row
<1>12. ASSUME NEW r \in Request, ResetLoginAttempts(r)
      PROVE  FailuresAreCounted'
  BY <1>12, SessionsAssumption DEF ResetLoginAttempts, Goto, clientVars,
     countVars, syncVars, requestVars, NobodyDies, FailuresAreCounted,
     TypeInv, RowTypes, RequestTypes, Row
<1>13. ASSUME NEW r \in Request, IssueSession(r)
      PROVE  FailuresAreCounted'
  BY <1>13, SessionsAssumption DEF IssueSession, Goto, Finish, Key,
     clientVars, countVars, syncVars, requestVars, NobodyDies,
     FailuresAreCounted, TypeInv, RowTypes, RequestTypes, Row
<1>14. ASSUME NEW r \in Request, NEW t \in issued, RefreshRead(r, t)
      PROVE  FailuresAreCounted'
  BY <1>14, SessionsAssumption DEF RefreshRead, Goto, clientVars, countVars,
     syncVars, requestVars, NobodyDies, FailuresAreCounted, TypeInv,
     RowTypes, RequestTypes, Row
<1>15. ASSUME NEW r \in Request, NEW t \in issued, Logout(r, t)
      PROVE  FailuresAreCounted'
  BY <1>15, SessionsAssumption DEF Logout, clientVars, countVars, syncVars,
     requestVars, NobodyDies, FailuresAreCounted, TypeInv, RowTypes,
     RequestTypes, Row
<1>16. ASSUME NEW r \in Request, RotateOk(r)
      PROVE  FailuresAreCounted'
  BY <1>16, SessionsAssumption DEF RotateOk, Goto, Finish, NewKey, Key,
     Wins, clientVars, countVars, syncVars, requestVars, NobodyDies,
     FailuresAreCounted, TypeInv, RowTypes, RequestTypes, Row
<1>17. ASSUME NEW r \in Request, RotateLost(r)
      PROVE  FailuresAreCounted'
  BY <1>17, SessionsAssumption DEF RotateLost, Goto, clientVars, countVars,
     syncVars, requestVars, NobodyDies, FailuresAreCounted, TypeInv,
     RowTypes, RequestTypes, Row
<1>18. ASSUME NEW r \in Request, RevokeTokenFamily(r)
      PROVE  FailuresAreCounted'
  BY <1>18, SessionsAssumption DEF RevokeTokenFamily, Goto, Finish,
     clientVars, countVars, syncVars, requestVars, NobodyDies,
     FailuresAreCounted, TypeInv, RowTypes, RequestTypes, Row
<1>19. ASSUME NEW r \in Request, Abort(r)
      PROVE  FailuresAreCounted'
  BY <1>19, SessionsAssumption DEF Abort, Goto, Finish, clientVars,
     countVars, syncVars, requestVars, NobodyDies, FailuresAreCounted,
     TypeInv, RowTypes, RequestTypes, Row
<1>20. CASE UNCHANGED vars
  BY <1>20 DEF vars, clientVars, countVars, syncVars, requestVars,
     FailuresAreCounted
<1> QED
  BY <1>1, <1>2, <1>3, <1>4, <1>5, <1>6, <1>7, <1>8, <1>9, <1>10, <1>11,
     <1>12, <1>13, <1>14, <1>15, <1>16, <1>17, <1>18, <1>19, <1>20 DEF Next,
     SyncStep, RequestStep

\* The counter is exact, and at the limit the account is locked or about to be.
THEOREM FailuresCounted == ASSUME NobodyDies PROVE Spec => []FailuresAreCounted
<1>1. Init => FailuresAreCounted
  BY SessionsAssumption DEF Init, FailuresAreCounted
<1>2. TypeInv /\ FailuresAreCounted /\ [Next]_vars => FailuresAreCounted'
  BY CountNext
<1> QED
  BY InitType, TypeNext, <1>1, <1>2, PTL DEF Spec

(***************************************************************************)
(* Deletion.  While the consumer scans, what lived at the mark and lives    *)
(* still is on the page it deletes or yet to be returned.                   *)
(***************************************************************************)

DeletionInv ==
    /\ doomed \subseteq Opened
    /\ sync.pc = "idle" => doomed \cap Live = {}
    /\ sync.pc \in {"scan", "del"} =>
          /\ doomed \cap Live \subseteq sync.must \cup sync.page
          /\ sync.must \subseteq Opened
    /\ sync.pc = "scan" => sync.page = {}
    /\ sync.pc = "del" /\ sync.last => sync.must \cap Live = {}

\* Every step keeps what is known of a deletion.
LEMMA DeletionNext ==
    ASSUME TypeInv, KeyInv, DeletionInv, [Next]_vars
    PROVE  DeletionInv'
<1>o. Opened \subseteq Opened' /\ Opened \subseteq Family /\ Live \subseteq Opened
  BY RequestNext DEF RequestMoves, Opened, KeyInv, Live, TypeInv, StoreTypes, Token
<1>l. Opened \cap Live' \subseteq Live
  BY <1>o, StoreNext DEF KeyMoves, Live
<1>1. \/ UNCHANGED <<sync, doomed>>
      \/ MarkDeleted \/ RevokeAllScan \/ RevokeAllDel \/ SyncFails
  BY DEF Next, SyncStep, RequestStep, Tick, Arrive, MarkRestored,
     VerifyCredentials, HandleFailedLogin, LockAccount, RefuseLogin,
     ResetLoginAttempts, IssueSession, RefreshRead, Logout, RotateOk, RotateLost,
     RevokeTokenFamily, Abort, vars, syncVars
<1>2. CASE UNCHANGED <<sync, doomed>>
  BY <1>o, <1>l, <1>2 DEF DeletionInv
<1>3. CASE MarkDeleted
  <2>1. doomed' = doomed \cup Live /\ sync'.pc = "marked"
    BY <1>3 DEF MarkDeleted, Resting
  <2> QED
    BY <1>o, <2>1 DEF DeletionInv
<1>4. CASE RevokeAllScan
  <2>1. PICK page \in SUBSET Live, last \in BOOLEAN :
           LET must == (IF sync.pc = "marked" THEN Live ELSE sync.must) \ page
           IN  /\ last => ScanMayEnd(must)
               /\ IF last /\ page = {}
                    THEN sync' = Resting("idle")
                    ELSE sync' = [pc |-> IF page = {} THEN "scan" ELSE "del",
                                  must |-> must, page |-> page, last |-> last]
    BY <1>4 DEF RevokeAllScan
  <2> DEFINE must == (IF sync.pc = "marked" THEN Live ELSE sync.must) \ page
  <2>2. UNCHANGED <<doomed, store>> /\ Live' = Live
    BY <1>4 DEF RevokeAllScan, Live
  <2>3. doomed \cap Live \subseteq must \cup page /\ must \subseteq Opened
    BY <1>4, <1>o DEF RevokeAllScan, DeletionInv
  <2>4. last => must \cap Live = {}
    BY <2>1 DEF ScanMayEnd
  <2>5. CASE last /\ page = {}
    BY <1>o, <2>1, <2>2, <2>3, <2>4, <2>5 DEF Resting, DeletionInv
  <2>6. CASE ~(last /\ page = {})
    <3>1. sync' = [pc |-> IF page = {} THEN "scan" ELSE "del",
                   must |-> must, page |-> page, last |-> last]
      BY <2>1, <2>6
    <3> HIDE DEF must
    <3>2. /\ sync'.pc = (IF page = {} THEN "scan" ELSE "del")
          /\ sync'.must = must /\ sync'.page = page /\ sync'.last = last
      BY <3>1
    <3> QED
      BY <1>o, <2>2, <2>3, <2>4, <3>2 DEF DeletionInv
  <2> QED
    BY <2>5, <2>6
<1>5. CASE RevokeAllDel
  <2>1. Live' = Live \ sync.page /\ UNCHANGED doomed /\ sync.pc = "del"
    BY <1>5 DEF RevokeAllDel, Live, TypeInv, StoreTypes
  <2>2. CASE sync.last /\ sync' = Resting("idle")
    BY <1>o, <2>1, <2>2 DEF Resting, DeletionInv
  <2>3. CASE sync' = [sync EXCEPT !.pc = "scan", !.page = {}]
    <3>1. sync'.pc = "scan" /\ sync'.page = {} /\ sync'.must = sync.must
      BY <2>3 DEF TypeInv, SyncTypes
    <3> QED
      BY <1>o, <2>1, <3>1 DEF DeletionInv
  <2> QED
    BY <1>5, <2>2, <2>3 DEF RevokeAllDel
<1>6. CASE SyncFails
  <2>1. sync'.pc = "redeliver" /\ UNCHANGED doomed
    BY <1>6 DEF SyncFails, Resting
  <2> QED
    BY <1>o, <2>1 DEF DeletionInv
<1> QED
  BY <1>1, <1>2, <1>3, <1>4, <1>5, <1>6

\* Whatever rotates, fails and is redelivered during the scan, a deletion that
\* is done has revoked every family that lived when the account was marked.
THEOREM DeletionIsComplete == Spec => []DeletionRevokesExisting
<1>1. Init => DeletionInv
  BY DEF Init, DeletionInv, Resting
<1>2. TypeInv /\ KeyInv /\ DeletionInv /\ [Next]_vars
        => (TypeInv /\ KeyInv /\ DeletionInv)'
  BY TypeNext, KeyNext, DeletionNext
<1>3. DeletionInv => DeletionRevokesExisting
  BY DEF DeletionInv, DeletionRevokesExisting
<1> QED
  BY InitType, InitKey, <1>1, <1>2, <1>3, PTL DEF Spec
=============================================================================
