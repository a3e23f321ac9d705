--------------------------- MODULE UserStoreProofs ---------------------------
(***************************************************************************)
(* Proofs about UserStore: IInv is inductive, and what follows from it for *)
(* every number of processes and accounts and every lockout schedule.      *)
(***************************************************************************)
EXTENDS UserStore, TLAPS

-----------------------------------------------------------------------------
(* Accounts *)

\* A new lockout window is counted in ticks taken from the schedule.
LEMMA TicksType ==
    ASSUME NEW n \in Int, n >= Threshold
    PROVE  LockoutTicks(n) \in Nat
  BY AccountsAssumption DEF LockoutTicks

\* Recording a failed attempt keeps the shape of the record.
LEMMA FailedAttemptType ==
    ASSUME NEW r \in Record, NEW before, Failures(before) \in Int,
           NEW now \in Nat
    PROVE  ApplyFailedAttempt(r, before, now) \in Record
  <1> DEFINE n == IF Failures(before) < MaxFailed THEN Failures(before) + 1
                                                 ELSE MaxFailed
             t == IF n >= Threshold THEN now + LockoutTicks(n) ELSE Never
  <1>1. n \in Int
    BY AccountsAssumption
  <1>2. t \in Int
    BY <1>1, TicksType DEF Never
  <1>3. ApplyFailedAttempt(r, before, now) = [r EXCEPT !.failed = n, !.until = t]
    BY DEF ApplyFailedAttempt
  <1> HIDE DEF n, t
  <1>. QED BY <1>1, <1>2, <1>3 DEF Record

LEMMA ClearLockoutType ==
    ASSUME NEW r \in Record PROVE ClearLockout(r) \in Record
  <1>1. 0 \in Int /\ Never \in Int
    BY DEF Never
  <1>. QED BY <1>1 DEF ClearLockout, Record

LEMMA NewRecordType ==
    ASSUME NEW role \in Role, NEW clearance \in Clearance, NEW hash \in Hash
    PROVE  NewRecord(role, clearance, hash) \in Record
  BY DEF NewRecord, Record, Never, Status

\* An account that is in a store is a record.
LEMMA HasRecord ==
    ASSUME NEW s \in Store, NEW u \in User, Has(s, u)
    PROVE  s \in Accounts /\ s[u] \in Record
  BY DEF Store, Accounts, Has

\* Writing one record keeps the shape of the store.
LEMMA UpdateType ==
    ASSUME NEW s \in Accounts, NEW u \in User, NEW r \in Record \cup {NoRecord}
    PROVE  [s EXCEPT ![u] = r] \in Store
  BY DEF Store, Accounts

-----------------------------------------------------------------------------
(* Type correctness *)

\* A process that is running has an operation in hand.
LEMMA OpInHand ==
    ASSUME TypeOK, OpInv, NEW p \in Proc, pc[p] # "idle"
    PROVE  op[p] \in Op
  BY DEF TypeOK, OpInv

\* Inside the transaction, the record an operation names is a record.
LEMMA CommitRecord ==
    ASSUME TypeOK, OpInv, NEW p \in Proc, pc[p] # "idle", Found(p)
    PROVE  /\ op[p] \in Op /\ op[p].user \in User
           /\ copy[p] \in Accounts
           /\ copy[p][op[p].user] \in Record
  <1>1. op[p] \in Op /\ op[p].user \in User
    BY OpInHand DEF Op
  <1>. QED BY <1>1, HasRecord DEF Found, TypeOK

LEMMA SaveType ==
    ASSUME TypeOK, NEW p \in Proc, NEW s \in Store, Save(p, s)
    PROVE  store' \in Store /\ lock' \in Proc \cup {NoProc} /\ clock' \in Nat
           /\ salt' \in Nat /\ pc' \in [Proc -> Locations]
           /\ op' \in [Proc -> Op \cup {NoOp}] /\ tries' \in [Proc -> 0 .. MaxRetries]
           /\ snap' \in [Proc -> Record \cup {NoRecord}] /\ copy' \in [Proc -> Store]
           /\ session' \in [Proc -> Session \cup {NoSession}]
  BY UserStoreAssumption
     DEF TypeOK, Save, Finish, Release, Forget, Goto, Locations, Store

LEMMA InitType == Init => TypeOK
  BY UserStoreAssumption DEF Init, TypeOK, Locations, Store

LEMMA RequestType ==
    ASSUME NEW k \in AdminKinds \cup {"auth"}, NEW u \in User, NEW r \in Role,
           NEW c \in Clearance, NEW h \in Hash
    PROVE  Request(k, u, r, c, h) \in Op
  BY DEF Request, Op

LEMMA BeginType ==
    ASSUME TypeOK, NEW p \in Proc, NEW o \in Op, NEW where \in Locations,
           Begin(p, o, where), salt' \in Nat
    PROVE  TypeOK'
  BY DEF Begin, TypeOK

\* What every operation starts with: a login reads its snapshot first, the
\* others wait for the lock, and a role or clearance is never one's own.
StartsWith(p, o, where) ==
    /\ Begin(p, o, where)
    /\ salt' \in Nat
    /\ \/ where = "snapshot" /\ o.kind = "auth"
       \/ /\ where = "wait"
          /\ o.kind \in AdminKinds
          /\ o.kind \in {"role", "clearance"} => o.user # Caller(p)

LEMMA StartRequest ==
    ASSUME TypeOK, NEW p \in Proc, Start(p)
    PROVE  \E o \in Op, where \in Locations : StartsWith(p, o, where)
  <1>1. AnyHash \in Hash
    BY AccountsAssumption DEF AnyHash, Hash
  <1>2. "analyst" \in Role /\ "low" \in Clearance
    BY DEF Role, Clearance
  <1>3. \A w \in Password, n \in Nat : [pw |-> w, salt |-> n] \in Hash
    BY DEF Hash
  <1>4. {"snapshot", "wait"} \subseteq Locations
    BY DEF Locations
  <1>5. salt \in Nat /\ salt + 1 \in Nat
    BY DEF TypeOK
  <1>6. GivenRoles \subseteq Role /\ GivenLevels \subseteq Clearance
    BY UserStoreAssumption
  <1>7. CASE StartAuthenticate(p)
    <2>1. PICK u \in User, w \in Password :
            /\ Begin(p, Request("auth", u, "analyst", "low", [pw |-> w, salt |-> 0]),
                     "snapshot")
            /\ UNCHANGED salt
      BY <1>7 DEF StartAuthenticate
    <2>2. Request("auth", u, "analyst", "low", [pw |-> w, salt |-> 0]) \in Op
          /\ Request("auth", u, "analyst", "low", [pw |-> w, salt |-> 0]).kind = "auth"
      BY <1>2, <1>3, RequestType DEF Request
    <2>. QED BY <2>1, <2>2, <1>4, <1>5 DEF StartsWith, AdminKinds
  <1>8. CASE StartCreate(p)
    <2>1. PICK u \in User, w \in Password, r \in GivenRoles, c \in GivenLevels :
            /\ Begin(p, Request("create", u, r, c, [pw |-> w, salt |-> salt]), "wait")
            /\ salt' = salt + 1
      BY <1>8 DEF StartCreate
    <2>2. Request("create", u, r, c, [pw |-> w, salt |-> salt]) \in Op
          /\ Request("create", u, r, c, [pw |-> w, salt |-> salt]).kind = "create"
      BY <1>3, <1>5, <1>6, RequestType DEF Request, AdminKinds
    <2>. QED BY <2>1, <2>2, <1>4, <1>5 DEF StartsWith, AdminKinds
  <1>9. CASE StartReset(p)
    <2>1. PICK u \in User, w \in Password :
            /\ Begin(p, Request("reset", u, "analyst", "low", [pw |-> w, salt |-> salt]),
                     "wait")
            /\ salt' = salt + 1
      BY <1>9 DEF StartReset
    <2>2. Request("reset", u, "analyst", "low", [pw |-> w, salt |-> salt]) \in Op
          /\ Request("reset", u, "analyst", "low", [pw |-> w, salt |-> salt]).kind = "reset"
      BY <1>2, <1>3, <1>5, RequestType DEF Request, AdminKinds
    <2>. QED BY <2>1, <2>2, <1>4, <1>5 DEF StartsWith, AdminKinds
  <1>10. CASE StartPlain(p)
    <2>1. PICK u \in User, k \in {"disable", "enable", "delete"} :
            /\ Begin(p, Request(k, u, "analyst", "low", AnyHash), "wait")
            /\ UNCHANGED salt
      BY <1>10 DEF StartPlain
    <2>2. Request(k, u, "analyst", "low", AnyHash) \in Op
          /\ Request(k, u, "analyst", "low", AnyHash).kind = k
      BY <1>1, <1>2, RequestType DEF Request, AdminKinds
    <2>. QED BY <2>1, <2>2, <1>4, <1>5 DEF StartsWith, AdminKinds
  <1>11. CASE StartChange(p)
    <2>1. PICK u \in User, r \in GivenRoles, c \in GivenLevels,
               k \in {"role", "clearance"} :
            /\ RequireAdmin(p) /\ u # session[p].user
            /\ Begin(p, Request(k, u, r, c, AnyHash), "wait")
            /\ UNCHANGED salt
      BY <1>11 DEF StartChange
    <2>2. Request(k, u, r, c, AnyHash) \in Op
          /\ Request(k, u, r, c, AnyHash).kind = k
          /\ Request(k, u, r, c, AnyHash).user = u
      BY <1>1, <1>6, RequestType DEF Request, AdminKinds
    <2>. QED
      BY <2>1, <2>2, <1>4, <1>5 DEF StartsWith, AdminKinds, RequireAdmin, Caller
  <1>. QED BY <1>7, <1>8, <1>9, <1>10, <1>11 DEF Start

LEMMA StartType ==
    ASSUME TypeOK, NEW p \in Proc, Start(p)
    PROVE  TypeOK'
  BY StartRequest, BeginType DEF StartsWith

\* One step per action that is not the start of an operation.
LEMMA WorkType ==
    ASSUME TypeOK, OpInv, TriesInv, NEW p \in Proc,
           TakeSnapshot(p) \/ Verify(p) \/ Load(p) \/ Acquire(p) \/ Deny(p)
           \/ StoreFailure(p) \/ Crash(p)
    PROVE  TypeOK'
  <1>1. CASE TakeSnapshot(p)
    <2>1. CASE Has(store, op[p].user)
      <3>1. op[p].user \in User
        BY <1>1, OpInHand DEF TakeSnapshot, Op
      <3>2. store[op[p].user] \in Record
        BY <2>1, <3>1, HasRecord DEF TypeOK
      <3>. QED BY <1>1, <2>1, <3>2 DEF TakeSnapshot, TypeOK, Goto, Locations
    <2>2. CASE ~ Has(store, op[p].user)
      BY <1>1, <2>2 DEF TakeSnapshot, TypeOK, Goto, Locations
    <2>. QED BY <2>1, <2>2
  <1>2. CASE Verify(p)
    BY <1>2 DEF Verify, TypeOK, Goto, Locations
  <1>3. CASE Load(p)
    BY <1>3 DEF Load, TypeOK, Goto, Locations
  <1>4. CASE Acquire(p)
    BY <1>4 DEF Acquire, TypeOK, Goto, Locations
  <1>5. CASE Deny(p)
    BY <1>5, UserStoreAssumption DEF Deny, TypeOK, Goto, Finish, Locations
  <1>6. CASE StoreFailure(p)
    BY <1>6, UserStoreAssumption
       DEF StoreFailure, TypeOK, Goto, Finish, Forget, Locations, Store
  <1>7. CASE Crash(p)
    BY <1>7, UserStoreAssumption
       DEF Crash, TypeOK, Goto, Finish, Forget, Locations, Store
  <1>. QED BY <1>1, <1>2, <1>3, <1>4, <1>5, <1>6, <1>7

LEMMA CommitAuthType ==
    ASSUME TypeOK, OpInv, TriesInv, NEW p \in Proc, CommitAuth(p)
    PROVE  TypeOK'
  <1>1. CASE CommitDenied(p)
    BY <1>1 DEF CommitDenied, TypeOK, Goto, Release, Forget, Locations, Store
  <1>2. CASE CommitStale(p)
    <2>1. tries[p] + 1 \in 0 .. MaxRetries
      BY <1>2, UserStoreAssumption DEF CommitStale, InAuth, TriesInv, TypeOK
    <2>. QED
      BY <1>2, <2>1 DEF CommitStale, TypeOK, Goto, Release, Forget, Locations, Store
  <1>3. CASE CommitLogin(p)
    <2>1. /\ op[p].user \in User /\ copy[p] \in Accounts
          /\ copy[p][op[p].user] \in Record
      BY <1>3, CommitRecord DEF CommitLogin, CanCommit, InAuth
    <2>2. store' \in Store
      BY <1>3, <2>1, ClearLockoutType, UpdateType DEF CommitLogin
    <2>3. [user |-> op[p].user, role |-> copy[p][op[p].user].role,
           clearance |-> copy[p][op[p].user].clearance] \in Session
      BY <2>1 DEF Record, Session
    <2>. QED
      BY <1>3, <2>2, <2>3, UserStoreAssumption
         DEF CommitLogin, TypeOK, Goto, Finish, Release, Forget, Locations, Store
  <1>4. CASE CommitFailedAttempt(p)
    <2>1. /\ op[p].user \in User /\ copy[p] \in Accounts
          /\ copy[p][op[p].user] \in Record
      BY <1>4, CommitRecord DEF CommitFailedAttempt, CanCommit, InAuth
    <2>2. Failures(snap[p]) \in Int
      BY <1>4, <2>1
         DEF CommitFailedAttempt, CanCommit, Unchanged, RecordSnapshot,
             Failures, Legacy, Record
    <2>3. store' \in Store
      BY <1>4, <2>1, <2>2, FailedAttemptType, UpdateType
         DEF CommitFailedAttempt, TypeOK
    <2>. QED
      BY <1>4, <2>3
         DEF CommitFailedAttempt, TypeOK, Goto, Release, Forget, Locations, Store
  <1>. QED BY <1>1, <1>2, <1>3, <1>4 DEF CommitAuth

LEMMA CommitAdminType ==
    ASSUME TypeOK, OpInv, NEW p \in Proc, CommitAdmin(p)
    PROVE  TypeOK'
  <1> DEFINE o == op[p]
             r == copy[p][o.user]
  <1>1. pc[p] # "idle" /\ o \in Op /\ o.user \in User /\ o.role \in Role
        /\ o.clearance \in Clearance /\ o.hash \in Hash
    <2>1. pc[p] = "apply"
      BY DEF CommitAdmin, InAdmin, CreateUser, DisableUser, EnableUser, ChangeRole,
             ChangeClearance, ResetPassword, DeleteUser, Refuse
    <2>. QED BY <2>1, OpInHand DEF Op
  <1>2. Found(p) => copy[p] \in Accounts /\ r \in Record
    BY <1>1, CommitRecord
  <1>3. ASSUME NEW s \in Store, Save(p, s)
        PROVE  TypeOK'
    BY <1>3, SaveType DEF TypeOK
  <1>5. CASE CreateUser(p)
    <2>1. NewRecord("admin", "high", o.hash) \in Record
          /\ NewRecord(o.role, o.clearance, o.hash) \in Record
      BY <1>1, NewRecordType DEF Role, Clearance
    <2>2. EmptyStore \in Accounts
      BY DEF EmptyStore, Accounts
    <2>3. CASE copy[p] = NoStore
      <3>1. [EmptyStore EXCEPT ![o.user] = NewRecord("admin", "high", o.hash)] \in Store
        BY <1>1, <2>1, <2>2, UpdateType
      <3>. QED BY <1>3, <1>5, <2>3, <3>1 DEF CreateUser
    <2>4. CASE copy[p] # NoStore
      <3>1. copy[p] \in Accounts
        BY <2>4 DEF TypeOK, Store
      <3>2. [copy[p] EXCEPT ![o.user] = NewRecord(o.role, o.clearance, o.hash)] \in Store
        BY <1>1, <2>1, <3>1, UpdateType
      <3>. QED BY <1>3, <1>5, <2>4, <3>2 DEF CreateUser
    <2>. QED BY <2>3, <2>4
  <1>6. CASE DisableUser(p)
    <2>1. Found(p)
      BY <1>6 DEF DisableUser, CanRemove, Found
    <2>2. [r EXCEPT !.status = "disabled"] \in Record
      BY <1>2, <2>1 DEF Record, Status
    <2>3. [copy[p] EXCEPT ![o.user].status = "disabled"] \in Store
      BY <1>1, <1>2, <2>1, <2>2, UpdateType
    <2>. QED BY <1>3, <1>6, <2>3 DEF DisableUser
  <1>7. CASE EnableUser(p)
    <2>1. Found(p)
      BY <1>7 DEF EnableUser
    <2>2. [r EXCEPT !.status = "active"] \in Record
      BY <1>2, <2>1 DEF Record, Status
    <2>3. [copy[p] EXCEPT ![o.user].status = "active"] \in Store
      BY <1>1, <1>2, <2>1, <2>2, UpdateType
    <2>. QED BY <1>3, <1>7, <2>3 DEF EnableUser
  <1>8. CASE ChangeRole(p)
    <2>1. Found(p)
      BY <1>8 DEF ChangeRole, CanChangeRole, Found
    <2>2. [r EXCEPT !.role = o.role] \in Record
      BY <1>1, <1>2, <2>1 DEF Record
    <2>3. [copy[p] EXCEPT ![o.user].role = o.role] \in Store
      BY <1>1, <1>2, <2>1, <2>2, UpdateType
    <2>. QED BY <1>3, <1>8, <2>3 DEF ChangeRole
  <1>9. CASE ChangeClearance(p)
    <2>1. Found(p)
      BY <1>9 DEF ChangeClearance
    <2>2. [r EXCEPT !.clearance = o.clearance] \in Record
      BY <1>1, <1>2, <2>1 DEF Record
    <2>3. [copy[p] EXCEPT ![o.user].clearance = o.clearance] \in Store
      BY <1>1, <1>2, <2>1, <2>2, UpdateType
    <2>. QED BY <1>3, <1>9, <2>3 DEF ChangeClearance
  <1>10. CASE ResetPassword(p)
    <2>1. Found(p)
      BY <1>10 DEF ResetPassword
    <2>2. [r EXCEPT !.hash = o.hash] \in Record
      BY <1>1, <1>2, <2>1 DEF Record
    <2>3. [copy[p] EXCEPT ![o.user] = ClearLockout([r EXCEPT !.hash = o.hash])] \in Store
      BY <1>1, <1>2, <2>1, <2>2, ClearLockoutType, UpdateType
    <2>. QED BY <1>3, <1>10, <2>3 DEF ResetPassword
  <1>11. CASE DeleteUser(p)
    <2>1. Found(p)
      BY <1>11 DEF DeleteUser, CanRemove, Found
    <2>2. [copy[p] EXCEPT ![o.user] = NoRecord] \in Store
      BY <1>1, <1>2, <2>1, UpdateType
    <2>. QED BY <1>3, <1>11, <2>2 DEF DeleteUser
  <1>12. CASE Refuse(p)
    BY <1>12, UserStoreAssumption
       DEF Refuse, TypeOK, Finish, Release, Forget, Goto, Locations, Store
  <1>. QED
    BY <1>5, <1>6, <1>7, <1>8, <1>9, <1>10, <1>11, <1>12 DEF CommitAdmin

LEMMA NextType ==
    ASSUME TypeOK, OpInv, TriesInv, [Next]_vars
    PROVE  TypeOK'
  <1>1. CASE Tick
    BY <1>1 DEF Tick, TypeOK, procVars
  <1>2. CASE UNCHANGED vars
    BY <1>2 DEF vars, TypeOK
  <1>. QED
    BY <1>1, <1>2, StartType, WorkType, CommitAuthType, CommitAdminType DEF Next, Work

-----------------------------------------------------------------------------
(* Control: the lock, the operation in hand and the retry budget *)

\* What a commit, whatever it writes, does to the control state.
LEMMA CommitControl ==
    ASSUME TypeOK, LockInv, NEW p \in Proc, CommitAuth(p) \/ CommitAdmin(p)
    PROVE  /\ pc[p] = "apply" /\ lock = p /\ lock' = NoProc
           /\ copy' = [copy EXCEPT ![p] = NoStore]
           /\ \/ pc' = [pc EXCEPT ![p] = "idle"] /\ op' = [op EXCEPT ![p] = NoOp]
                 /\ tries' = [tries EXCEPT ![p] = 0]
              \/ pc' = [pc EXCEPT ![p] = "deny"] /\ op' = op
                 /\ tries' \in {tries, [tries EXCEPT ![p] = @ + 1]}
              \/ pc' = [pc EXCEPT ![p] = "snapshot"] /\ op' = op
                 /\ tries' = [tries EXCEPT ![p] = @ + 1]
                 /\ tries[p] + 1 < MaxRetries
           /\ clock' = clock
  <1>1. CASE CommitAuth(p)
    BY <1>1
       DEF CommitAuth, CommitDenied, CommitStale, CommitLogin, CommitFailedAttempt,
           CanCommit, InAuth, Release, Forget, Finish, Goto, LockInv
  <1>2. CASE CommitAdmin(p)
    BY <1>2
       DEF CommitAdmin, InAdmin, CreateUser, DisableUser, EnableUser, ChangeRole,
           ChangeClearance, ResetPassword, DeleteUser, Refuse, Save, Release, Forget,
           Finish, Goto, LockInv
  <1>. QED BY <1>1, <1>2

\* Every step of a process, by what it does to the control state.
LEMMA LockStep ==
    ASSUME TypeOK, LockInv, OpInv, TriesInv, [Next]_vars
    PROVE  LockInv' /\ OpInv' /\ TriesInv'
  <1>1. ASSUME NEW p \in Proc, Start(p)
        PROVE  LockInv' /\ OpInv' /\ TriesInv'
    <2>1. PICK o \in Op, where \in Locations : StartsWith(p, o, where)
      BY <1>1, StartRequest
    <2>. QED
      BY <2>1, UserStoreAssumption
         DEF StartsWith, Begin, TypeOK, LockInv, OpInv, TriesInv
  <1>2. ASSUME NEW p \in Proc, CommitAuth(p) \/ CommitAdmin(p)
        PROVE  LockInv' /\ OpInv' /\ TriesInv'
    <2>1. LockInv'
      BY <1>2, CommitControl, UserStoreAssumption DEF TypeOK, LockInv
    <2>2. OpInv'
      BY <1>2, CommitControl, UserStoreAssumption DEF TypeOK, OpInv
    <2>3. TriesInv'
      BY <1>2, CommitControl, UserStoreAssumption DEF TypeOK, TriesInv
    <2>. QED BY <2>1, <2>2, <2>3
  <1>3. ASSUME NEW p \in Proc, TakeSnapshot(p) \/ Verify(p) \/ Load(p) \/ Acquire(p)
        PROVE  LockInv' /\ OpInv' /\ TriesInv'
    BY <1>3, UserStoreAssumption
       DEF TakeSnapshot, Verify, Load, Acquire, Goto, TypeOK, LockInv, OpInv, TriesInv
  <1>4. ASSUME NEW p \in Proc, Deny(p) \/ StoreFailure(p) \/ Crash(p)
        PROVE  LockInv' /\ OpInv' /\ TriesInv'
    BY <1>4, UserStoreAssumption
       DEF Deny, StoreFailure, Crash, Goto, Finish, TypeOK, LockInv, OpInv, TriesInv
  <1>5. CASE Tick \/ UNCHANGED vars
    BY <1>5 DEF Tick, procVars, vars, LockInv, OpInv, TriesInv
  <1>. QED BY <1>1, <1>2, <1>3, <1>4, <1>5 DEF Next, Work

-----------------------------------------------------------------------------
(* The transaction *)

\* Nobody writes between the load of a transaction and its commit.
LEMMA NoLostUpdateStep ==
    ASSUME TypeOK, LockInv, NoLostUpdate, [Next]_vars
    PROVE  NoLostUpdate'
  <1>1. ASSUME NEW p \in Proc, Start(p)
        PROVE  NoLostUpdate'
    <2>1. PICK o \in Op, where \in Locations : StartsWith(p, o, where)
      BY <1>1, StartRequest
    <2>. QED BY <2>1 DEF StartsWith, Begin, TypeOK, NoLostUpdate
  <1>2. ASSUME NEW p \in Proc, CommitAuth(p) \/ CommitAdmin(p)
        PROVE  NoLostUpdate'
    <2> SUFFICES ASSUME NEW q \in Proc, pc'[q] = "apply" PROVE FALSE
      BY DEF NoLostUpdate
    <2>. QED BY <1>2, CommitControl DEF TypeOK, LockInv
  <1>3. ASSUME NEW p \in Proc, TakeSnapshot(p) \/ Verify(p) \/ Load(p) \/ Acquire(p)
        PROVE  NoLostUpdate'
    BY <1>3 DEF TakeSnapshot, Verify, Load, Acquire, Goto, TypeOK, NoLostUpdate
  <1>4. ASSUME NEW p \in Proc, Deny(p) \/ StoreFailure(p) \/ Crash(p)
        PROVE  NoLostUpdate'
    BY <1>4 DEF Deny, StoreFailure, Crash, Goto, Finish, Forget, TypeOK, NoLostUpdate
  <1>5. CASE Tick \/ UNCHANGED vars
    BY <1>5 DEF Tick, procVars, vars, NoLostUpdate
  <1>. QED BY <1>1, <1>2, <1>3, <1>4, <1>5 DEF Next, Work

\* The account named by a role or clearance change stays somebody else's: the
\* session changes only at the end of a login or of the process.
LEMMA OthersStep ==
    ASSUME TypeOK, OpInv, OthersInv, [Next]_vars
    PROVE  OthersInv'
  <1>1. ASSUME NEW p \in Proc, Start(p)
        PROVE  OthersInv'
    <2>1. PICK o \in Op, where \in Locations : StartsWith(p, o, where)
      BY <1>1, StartRequest
    <2>. QED BY <2>1 DEF StartsWith, Begin, TypeOK, OthersInv, Caller
  <1>2. ASSUME NEW p \in Proc, CommitAuth(p)
        PROVE  OthersInv'
    BY <1>2 DEF CommitAuth, CommitDenied, CommitStale, CommitLogin,
                CommitFailedAttempt, CanCommit, InAuth, Goto, Finish, TypeOK,
                OthersInv, Caller
  <1>3. ASSUME NEW p \in Proc, CommitAdmin(p)
        PROVE  OthersInv'
    BY <1>3 DEF CommitAdmin, CreateUser, DisableUser, EnableUser, ChangeRole,
                ChangeClearance, ResetPassword, DeleteUser, Refuse, Save, Goto,
                Finish, TypeOK, OthersInv, Caller
  <1>4. ASSUME NEW p \in Proc, TakeSnapshot(p) \/ Verify(p) \/ Load(p) \/ Acquire(p)
        PROVE  OthersInv'
    BY <1>4 DEF TakeSnapshot, Verify, Load, Acquire, Goto, TypeOK, OthersInv, Caller
  <1>5. ASSUME NEW p \in Proc, Deny(p) \/ StoreFailure(p) \/ Crash(p)
        PROVE  OthersInv'
    BY <1>5 DEF Deny, StoreFailure, Crash, Goto, Finish, TypeOK, OthersInv, Caller
  <1>6. CASE Tick \/ UNCHANGED vars
    BY <1>6 DEF Tick, procVars, vars, OthersInv, Caller
  <1>. QED BY <1>1, <1>2, <1>3, <1>4, <1>5, <1>6 DEF Next, Work

\* A lock that is not set does not set itself as time passes.
LEMMA TimeUnlocks ==
    ASSUME NEW r \in Record, NEW now \in Nat, ~ IsLockedOut(r, now)
    PROVE  ~ IsLockedOut(r, now + 1)
  BY DEF IsLockedOut, Record

LEMMA VerdictStep ==
    ASSUME TypeOK, OpInv, VerdictInv, [Next]_vars
    PROVE  VerdictInv'
  <1>1. ASSUME NEW p \in Proc, Start(p)
        PROVE  VerdictInv'
    <2>1. PICK o \in Op, where \in Locations : StartsWith(p, o, where)
      BY <1>1, StartRequest
    <2>. QED BY <2>1 DEF StartsWith, Begin, AdminKinds, TypeOK, VerdictInv
  <1>2. ASSUME NEW p \in Proc, CommitAuth(p)
        PROVE  VerdictInv'
    BY <1>2 DEF CommitAuth, CommitDenied, CommitStale, CommitLogin,
                CommitFailedAttempt, CanCommit, InAuth, Goto, Finish, Release,
                Forget, TypeOK, VerdictInv
  <1>3. ASSUME NEW p \in Proc, CommitAdmin(p)
        PROVE  VerdictInv'
    BY <1>3 DEF CommitAdmin, CreateUser, DisableUser, EnableUser, ChangeRole,
                ChangeClearance, ResetPassword, DeleteUser, Refuse, Save, Goto,
                Finish, Release, Forget, TypeOK, VerdictInv
  <1>4. ASSUME NEW p \in Proc, TakeSnapshot(p)
        PROVE  VerdictInv'
    <2>1. op[p].user \in User
      BY <1>4, OpInHand DEF TakeSnapshot, Op
    <2>2. Has(store, op[p].user) => store[op[p].user] \in Record
      BY <2>1, HasRecord DEF TypeOK
    <2>. QED BY <1>4, <2>2 DEF TakeSnapshot, Goto, TypeOK, VerdictInv
  <1>5. ASSUME NEW p \in Proc, Verify(p)
        PROVE  VerdictInv'
    BY <1>5 DEF Verify, Goto, TypeOK, VerdictInv
  <1>6. ASSUME NEW p \in Proc, Load(p) \/ Acquire(p)
        PROVE  VerdictInv'
    BY <1>6 DEF Load, Acquire, Goto, TypeOK, VerdictInv
  <1>7. ASSUME NEW p \in Proc, Deny(p) \/ StoreFailure(p) \/ Crash(p)
        PROVE  VerdictInv'
    BY <1>7 DEF Deny, StoreFailure, Crash, Goto, Finish, Forget, TypeOK, VerdictInv
  <1>8. CASE Tick
    BY <1>8, TimeUnlocks DEF Tick, procVars, TypeOK, VerdictInv
  <1>9. CASE UNCHANGED vars
    BY <1>9 DEF vars, VerdictInv
  <1>. QED
    BY <1>1, <1>2, <1>3, <1>4, <1>5, <1>6, <1>7, <1>8, <1>9 DEF Next, Work

-----------------------------------------------------------------------------
(* An active admin remains *)

\* A login changes no role and no status.
LEMMA LoginKeepsAdmins ==
    ASSUME NEW s \in Accounts, NEW u \in User, NEW r \in Record,
           s[u] \in Record, r.role = s[u].role, r.status = s[u].status
    PROVE  ActiveAdmins([s EXCEPT ![u] = r]) = ActiveAdmins(s)
  <1>1. [s EXCEPT ![u] = r] \in Accounts
    BY DEF Accounts
  <1>2. NoStore \notin Accounts /\ NoRecord \notin Record
    BY AccountsAssumption
  <1>. QED BY <1>1, <1>2 DEF ActiveAdmins, Has, Accounts

\* Whatever is done to another account leaves an active admin one.
LEMMA CallerStaysAdmin ==
    ASSUME NEW s \in Accounts, NEW c \in ActiveAdmins(s), NEW u \in User, u # c,
           NEW r \in Record \cup {NoRecord}
    PROVE  c \in ActiveAdmins([s EXCEPT ![u] = r])
  <1>1. [s EXCEPT ![u] = r] \in Accounts
    BY DEF Accounts
  <1>2. [s EXCEPT ![u] = r][c] = s[c] /\ c \in User
    BY DEF Accounts, ActiveAdmins
  <1>. QED BY <1>1, <1>2, AccountsAssumption DEF ActiveAdmins, Has

LEMMA AdminStep ==
    ASSUME TypeOK, OpInv, NoLostUpdate, OthersInv, ActiveAdminRemains, NEW p \in Proc,
           CommitAdmin(p)
    PROVE  ActiveAdmins(store') # {} \/ store' = store
  <1> DEFINE o == op[p]
             r == copy[p][o.user]
             c == Caller(p)
  <1>1. pc[p] = "apply" /\ copy[p] = store
    BY DEF CommitAdmin, InAdmin, CreateUser, DisableUser, EnableUser, ChangeRole,
           ChangeClearance, ResetPassword, DeleteUser, Refuse, NoLostUpdate
  <1>2. o \in Op /\ o.user \in User /\ o.role \in Role
        /\ o.clearance \in Clearance /\ o.hash \in Hash
    BY <1>1, OpInHand DEF Op
  <1>3. Found(p) => copy[p] \in Accounts /\ r \in Record
    BY <1>1, CommitRecord
  <1>4. ASSUME IsCurrentAdmin(copy[p], c), o.user # c,
               NEW n \in Record \cup {NoRecord},
               Save(p, [copy[p] EXCEPT ![o.user] = n])
        PROVE  ActiveAdmins(store') # {}
    <2>1. copy[p] \in Accounts
      BY <1>4 DEF IsCurrentAdmin, ActiveAdmins, Has, TypeOK, Store
    <2>2. store' = [copy[p] EXCEPT ![o.user] = n]
      BY <1>4 DEF Save
    <2>. QED BY <1>2, <1>4, <2>1, <2>2, CallerStaysAdmin DEF IsCurrentAdmin
  <1>6. CASE CreateUser(p)
    <2>1. CASE copy[p] = NoStore
      <3> DEFINE n == NewRecord("admin", "high", o.hash)
                 s == [EmptyStore EXCEPT ![o.user] = n]
      <3>1. store' = s
        BY <1>6, <2>1 DEF CreateUser, Save
      <3>2. n \in Record /\ n.role = "admin" /\ n.status = "active"
        BY <1>2, NewRecordType DEF NewRecord, Role, Clearance
      <3>3. EmptyStore \in Accounts
        BY DEF EmptyStore, Accounts
      <3> HIDE DEF n
      <3>4. s \in Accounts /\ s[o.user] = n
        BY <1>2, <3>2, <3>3 DEF Accounts
      <3>5. o.user \in ActiveAdmins(s)
        BY <1>2, <3>2, <3>4, AccountsAssumption DEF ActiveAdmins, Has
      <3>. QED BY <3>1, <3>5
    <2>2. CASE copy[p] # NoStore
      <3>1. IsCurrentAdmin(copy[p], c) /\ ~ Has(copy[p], o.user)
            /\ Save(p, [copy[p] EXCEPT ![o.user] = NewRecord(o.role, o.clearance, o.hash)])
        BY <1>6, <2>2 DEF CreateUser
      <3>2. o.user # c
        BY <3>1 DEF IsCurrentAdmin, ActiveAdmins
      <3>. QED BY <1>2, <1>4, <3>1, <3>2, NewRecordType
    <2>. QED BY <2>1, <2>2
  <1>7. CASE DisableUser(p)
    <2>1. Found(p) /\ o.user # c
      BY <1>7 DEF DisableUser, CanRemove, Found
    <2>2. [r EXCEPT !.status = "disabled"] \in Record
      BY <1>3, <2>1 DEF Record, Status
    <2>. QED BY <1>4, <1>7, <2>1, <2>2 DEF DisableUser
  <1>8. CASE EnableUser(p)
    <2>1. Found(p) /\ ActiveAdmins(copy[p]) # {}
      BY <1>8 DEF EnableUser, IsCurrentAdmin
    <2> DEFINE n == [r EXCEPT !.status = "active"]
    <2>2. n \in Record /\ n.role = r.role /\ n.status = "active"
      BY <1>3, <2>1 DEF Record, Status
    <2>3. Save(p, [copy[p] EXCEPT ![o.user] = n])
      BY <1>8 DEF EnableUser
    <2> HIDE DEF n
    <2>4. ActiveAdmins(store') # {}
      <3>1. PICK a \in ActiveAdmins(copy[p]) : TRUE
        BY <2>1
      <3>2. store' = [copy[p] EXCEPT ![o.user] = n]
        BY <2>3 DEF Save
      <3>3. [copy[p] EXCEPT ![o.user] = n] \in Accounts
        BY <1>2, <1>3, <2>1, <2>2 DEF Accounts
      <3>4. [copy[p] EXCEPT ![o.user] = n][a].role = "admin"
            /\ [copy[p] EXCEPT ![o.user] = n][a].status = "active"
            /\ [copy[p] EXCEPT ![o.user] = n][a] # NoRecord
        BY <1>2, <1>3, <2>1, <2>2, <3>1, AccountsAssumption
           DEF Accounts, ActiveAdmins, Has
      <3>. QED BY <3>1, <3>2, <3>3, <3>4, AccountsAssumption DEF ActiveAdmins, Has
    <2>. QED BY <2>4
  <1>9. CASE ChangeRole(p)
    <2>1. Found(p) /\ o.user # c
      BY <1>1, <1>9 DEF ChangeRole, CanChangeRole, Found, InAdmin, OthersInv
    <2>2. [r EXCEPT !.role = o.role] \in Record
      BY <1>2, <1>3, <2>1 DEF Record
    <2>. QED BY <1>4, <1>9, <2>1, <2>2 DEF ChangeRole
  <1>10. CASE ChangeClearance(p)
    <2>1. Found(p) /\ o.user # c
      BY <1>1, <1>10 DEF ChangeClearance, InAdmin, OthersInv
    <2>2. [r EXCEPT !.clearance = o.clearance] \in Record
      BY <1>2, <1>3, <2>1 DEF Record
    <2>. QED BY <1>4, <1>10, <2>1, <2>2 DEF ChangeClearance
  <1>11. CASE ResetPassword(p)
    <2> DEFINE n == ClearLockout([r EXCEPT !.hash = o.hash])
    <2>1. Found(p) /\ ActiveAdmins(copy[p]) # {}
          /\ Save(p, [copy[p] EXCEPT ![o.user] = n])
      BY <1>11 DEF ResetPassword, IsCurrentAdmin
    <2>2. [r EXCEPT !.hash = o.hash] \in Record
      BY <1>2, <1>3, <2>1 DEF Record
    <2>3. n \in Record /\ n.role = r.role /\ n.status = r.status
      BY <1>3, <2>1, <2>2, ClearLockoutType DEF ClearLockout, Record
    <2>4. store' = [copy[p] EXCEPT ![o.user] = n]
      BY <2>1 DEF Save
    <2> HIDE DEF n
    <2>. QED BY <1>2, <1>3, <2>1, <2>3, <2>4, LoginKeepsAdmins
  <1>12. CASE DeleteUser(p)
    <2>1. Found(p) /\ o.user # c
      BY <1>12 DEF DeleteUser, CanRemove, Found
    <2>. QED BY <1>4, <1>12, <2>1 DEF DeleteUser
  <1>13. CASE Refuse(p)
    BY <1>13 DEF Refuse
  <1>. QED
    BY <1>6, <1>7, <1>8, <1>9, <1>10, <1>11, <1>12, <1>13 DEF CommitAdmin

LEMMA AuthStep ==
    ASSUME TypeOK, OpInv, NoLostUpdate, NEW p \in Proc, CommitAuth(p), store' # store
    PROVE  ActiveAdmins(store') = ActiveAdmins(store)
  <1> DEFINE u == op[p].user
             r == copy[p][u]
  <1>1. (CommitLogin(p) \/ CommitFailedAttempt(p)) /\ CanCommit(p)
    BY DEF CommitAuth, CommitDenied, CommitStale, CommitLogin, CommitFailedAttempt
  <1>2. copy[p] = store /\ u \in User /\ copy[p] \in Accounts /\ r \in Record
    BY <1>1, CommitRecord DEF CanCommit, InAuth, NoLostUpdate
  <1>3. CASE CommitLogin(p)
    <2>1. ClearLockout(r).role = r.role /\ ClearLockout(r).status = r.status
      BY <1>2 DEF ClearLockout, Record
    <2>. QED BY <1>2, <1>3, <2>1, ClearLockoutType, LoginKeepsAdmins DEF CommitLogin
  <1>4. CASE CommitFailedAttempt(p)
    <2> DEFINE n == ApplyFailedAttempt(r, snap[p], clock)
    <2>1. Failures(snap[p]) \in Int
      BY <1>1, <1>2
         DEF CanCommit, Unchanged, RecordSnapshot, Failures, Legacy, Record
    <2>2. n \in Record
      BY <1>2, <2>1, FailedAttemptType DEF TypeOK
    <2>3. n.role = r.role /\ n.status = r.status
      BY <1>2 DEF ApplyFailedAttempt, Record
    <2>4. store' = [copy[p] EXCEPT ![u] = n]
      BY <1>4 DEF CommitFailedAttempt
    <2> HIDE DEF n
    <2>. QED BY <1>2, <2>2, <2>3, <2>4, LoginKeepsAdmins
  <1>. QED BY <1>1, <1>3, <1>4

\* Only a commit writes the store.
LEMMA OnlyCommitsWrite ==
    ASSUME [Next]_vars, store' # store
    PROVE  \E p \in Proc : CommitAuth(p) \/ CommitAdmin(p)
  <1>1. ASSUME NEW p \in Proc, Start(p)
        PROVE  UNCHANGED store
    BY <1>1 DEF Start, StartAuthenticate, StartCreate, StartReset, StartPlain,
                StartChange, Begin
  <1>2. ASSUME NEW p \in Proc, TakeSnapshot(p) \/ Verify(p) \/ Load(p) \/ Deny(p)
                               \/ Acquire(p) \/ StoreFailure(p) \/ Crash(p)
        PROVE  UNCHANGED store
    BY <1>2 DEF TakeSnapshot, Verify, Load, Deny, Acquire, StoreFailure, Crash
  <1>3. Tick \/ UNCHANGED vars => UNCHANGED store
    BY DEF Tick, vars
  <1>. QED BY <1>1, <1>2, <1>3 DEF Next, Work

LEMMA ActiveAdminStep ==
    ASSUME IInv, [Next]_vars
    PROVE  ActiveAdminRemains'
  <1>1. CASE store' = store
    BY <1>1 DEF IInv, ActiveAdminRemains, ActiveAdmins, Has
  <1>2. ASSUME store' # store, NEW p \in Proc, CommitAuth(p)
        PROVE  ActiveAdminRemains'
    <2>1. store # NoStore
      <3>1. CanCommit(p)
        BY <1>2 DEF CommitAuth, CommitDenied, CommitStale, CommitLogin,
                    CommitFailedAttempt
      <3>. QED BY <3>1 DEF CanCommit, InAuth, Found, Has, IInv, NoLostUpdate
    <2>. QED BY <1>2, <2>1, AuthStep DEF IInv, ActiveAdminRemains
  <1>3. ASSUME store' # store, NEW p \in Proc, CommitAdmin(p)
        PROVE  ActiveAdminRemains'
    BY <1>3, AdminStep DEF IInv, ActiveAdminRemains
  <1>. QED BY <1>1, <1>2, <1>3, OnlyCommitsWrite

-----------------------------------------------------------------------------
(* Theorems *)

\* Every state the processes can reach satisfies the inductive invariant, for
\* any number of processes and accounts.
THEOREM Invariance == Spec => []IInv
  <1>1. Init => IInv
    <2> SUFFICES ASSUME Init PROVE IInv
      OBVIOUS
    <2>1. TypeOK
      BY InitType
    <2>2. ActiveAdminRemains
      BY UserStoreAssumption DEF Init, ActiveAdminRemains
    <2>3. LockInv /\ NoLostUpdate /\ OpInv /\ TriesInv /\ OthersInv /\ VerdictInv
      BY UserStoreAssumption
         DEF Init, LockInv, NoLostUpdate, OpInv, TriesInv, OthersInv, VerdictInv
    <2>. QED BY <2>1, <2>2, <2>3 DEF IInv
  <1>2. IInv /\ [Next]_vars => IInv'
    BY NextType, LockStep, NoLostUpdateStep, OthersStep, VerdictStep, ActiveAdminStep
       DEF IInv
  <1>. QED BY <1>1, <1>2, PTL DEF Spec

\* The store, the sessions and every operation keep the shape auth.py gives
\* them: roles, clearances, lockout fields, failure counters up to their cap.
THEOREM WellTyped == Spec => []TypeOK
  <1>1. IInv => TypeOK
    BY DEF IInv
  <1>. QED BY <1>1, Invariance, PTL

\* The flock excludes: inside the transaction is only the process that holds it.
THEOREM Excluded == Spec => []LockInv
  <1>1. IInv => LockInv
    BY DEF IInv
  <1>. QED BY <1>1, Invariance, PTL

\* The last-admin guards: a store that exists always has an active admin.
THEOREM AnAdminRemains == Spec => []ActiveAdminRemains
  <1>1. IInv => ActiveAdminRemains
    BY DEF IInv
  <1>. QED BY <1>1, Invariance, PTL

\* The flock makes load and save one step: no update is lost.
THEOREM Serialized == Spec => [](LockInv /\ NoLostUpdate)
  <1>1. IInv => LockInv /\ NoLostUpdate
    BY DEF IInv
  <1>. QED BY <1>1, Invariance, PTL

\* Accounts are changed only by an admin who is one at that moment.
THEOREM AdminsOnly == Spec => OnlyCurrentAdminMutates
  <1>1. ASSUME IInv, [Next]_vars PROVE WrittenByAdmin
    <2> SUFFICES ASSUME store' # store, store # NoStore
                 PROVE  /\ lock \in Proc
                        /\ \/ op[lock].kind = "auth"
                           \/ Caller(lock) \in ActiveAdmins(store)
      BY DEF WrittenByAdmin
    <2>1. PICK p \in Proc : CommitAuth(p) \/ CommitAdmin(p)
      BY <1>1, OnlyCommitsWrite
    <2>2. lock = p /\ pc[p] = "apply" /\ copy[p] = store
      BY <1>1, <2>1, CommitControl DEF IInv, NoLostUpdate
    <2>3. CASE CommitAuth(p)
      BY <2>2, <2>3 DEF CommitAuth, CommitDenied, CommitStale, CommitLogin,
                        CommitFailedAttempt, CanCommit, InAuth
    <2>4. CASE CommitAdmin(p)
      BY <2>2, <2>4
         DEF CommitAdmin, CreateUser, DisableUser, EnableUser, ChangeRole,
             ChangeClearance, ResetPassword, DeleteUser, Refuse, IsCurrentAdmin
    <2>. QED BY <2>1, <2>2, <2>3, <2>4
  <1>. QED BY <1>1, Invariance, PTL DEF Spec, OnlyCurrentAdminMutates

\* What a commit of authenticate() has established about the account in the
\* store, although it verified the password before it took the lock.
LEMMA CommitVerdict ==
    ASSUME IInv, NEW p \in Proc, CanCommit(p)
    PROVE  LET u == op[p].user IN
           /\ lock = p /\ copy[p] = store /\ u \in User
           /\ store \in Accounts /\ store[u] \in Record
           /\ store[u].status = "active" /\ store[u].hash = snap[p].hash
           /\ Failures(store[u]) = Failures(snap[p])
           /\ ~ IsLockedOut(store[u], clock)
  <1>1. /\ copy[p] = store /\ op[p].user \in User /\ lock = p
        /\ store \in Accounts /\ store[op[p].user] \in Record
    BY CommitRecord DEF CanCommit, InAuth, IInv, NoLostUpdate, LockInv
  <1>2. /\ snap[p] \in Record /\ ~ IsLockedOut(snap[p], clock)
    BY DEF CanCommit, InAuth, IInv, VerdictInv
  <1>3. RecordSnapshot(store[op[p].user]) = RecordSnapshot(snap[p])
    BY <1>1 DEF CanCommit, Unchanged
  <1>. QED
    BY <1>1, <1>2, <1>3
       DEF CanCommit, RecordSnapshot, IsLockedOut, Malformed, Legacy, Failures

\* A process holds a session only from a login of its own.
LEMMA OnlyLoginsOpenSessions ==
    ASSUME TypeOK, [Next]_vars, NEW q \in Proc, LoggedIn(q)
    PROVE  CommitLogin(q)
  <1>1. ASSUME NEW p \in Proc, Start(p)
        PROVE  UNCHANGED session
    BY <1>1 DEF Start, StartAuthenticate, StartCreate, StartReset, StartPlain,
                StartChange, Begin
  <1>2. ASSUME NEW p \in Proc, TakeSnapshot(p) \/ Verify(p) \/ Load(p) \/ Deny(p)
                               \/ Acquire(p) \/ StoreFailure(p)
        PROVE  UNCHANGED session
    BY <1>2 DEF TakeSnapshot, Verify, Load, Deny, Acquire, StoreFailure
  <1>3. ASSUME NEW p \in Proc, Crash(p)
        PROVE  session'[q] = session[q] \/ session'[q] = NoSession
    BY <1>3 DEF Crash, TypeOK
  <1>4. ASSUME NEW p \in Proc, CommitAdmin(p)
        PROVE  UNCHANGED session
    BY <1>4 DEF CommitAdmin, CreateUser, DisableUser, EnableUser, ChangeRole,
                ChangeClearance, ResetPassword, DeleteUser, Refuse, Save
  <1>5. ASSUME NEW p \in Proc, CommitAuth(p)
        PROVE  UNCHANGED session \/ (p = q /\ CommitLogin(p)) \/ session'[q] = session[q]
    BY <1>5 DEF CommitAuth, CommitDenied, CommitStale, CommitLogin,
                CommitFailedAttempt, TypeOK
  <1>6. Tick \/ UNCHANGED vars => UNCHANGED session
    BY DEF Tick, vars
  <1>. QED BY <1>1, <1>2, <1>3, <1>4, <1>5, <1>6 DEF Next, Work, LoggedIn

\* A login that succeeds was allowed at the moment it succeeded, whatever
\* happened while the password was being verified.
THEOREM Logins == Spec => LoginSound
  <1>1. ASSUME IInv, [Next]_vars, NEW p \in Proc, LoggedIn(p)
        PROVE  LoginAllowed(p)
    <2>1. CommitLogin(p)
      BY <1>1, OnlyLoginsOpenSessions DEF IInv
    <2>2. CanCommit(p) /\ PasswordOk(p)
      BY <2>1 DEF CommitLogin
    <2>3. session'[p] = [user |-> op[p].user, role |-> copy[p][op[p].user].role,
                         clearance |-> copy[p][op[p].user].clearance]
      BY <1>1, <2>1 DEF CommitLogin, IInv, TypeOK
    <2>. QED
      BY <1>1, <2>2, <2>3, CommitVerdict, AccountsAssumption
         DEF LoginAllowed, PasswordOk, Has
  <1>2. IInv /\ [Next]_vars => \A p \in Proc : LoggedIn(p) => LoginAllowed(p)
    BY <1>1
  <1>. QED BY <1>2, Invariance, PTL DEF Spec, LoginSound

\* Failed attempts are counted one by one, however many overlap.
THEOREM FailuresAreCounted == Spec => FailuresCounted
  <1>1. ASSUME IInv, NEW p \in Proc, CommitFailedAttempt(p)
        PROVE  CountedOnce(op[p].user)
    <2>1. CanCommit(p)
          /\ store' = [copy[p] EXCEPT ![op[p].user] =
                          ApplyFailedAttempt(copy[p][op[p].user], snap[p], clock)]
      BY <1>1 DEF CommitFailedAttempt
    <2>. QED
      BY <1>1, <2>1, CommitVerdict DEF CountedOnce, ApplyFailedAttempt, Accounts, Record
  <1>2. IInv => \A p \in Proc : CommitFailedAttempt(p) => CountedOnce(op[p].user)
    BY <1>1
  <1>. QED BY <1>2, Invariance, PTL DEF FailuresCounted

\* What authenticate() writes, however late its verdict, is the lockout of the
\* account it names, which is active and not locked out at that moment.
THEOREM LoginsWriteLockout == Spec => LoginWritesOnlyLockout
  <1>1. ASSUME IInv, [Next]_vars, NEW p \in Proc,
               store' # store, lock = p, op[p].kind = "auth"
        PROVE  WritesLockoutOf(op[p].user)
    <2> DEFINE u == op[p].user
    <2>1. PICK q \in Proc : CommitAuth(q) \/ CommitAdmin(q)
      BY <1>1, OnlyCommitsWrite
    <2>2. q = p
      BY <1>1, <2>1, CommitControl DEF IInv
    <2>3. ~ CommitAdmin(p)
      BY <1>1 DEF CommitAdmin, CreateUser, DisableUser, EnableUser, ChangeRole,
                  ChangeClearance, ResetPassword, DeleteUser, Refuse, InAdmin
    <2>4. CommitLogin(p) \/ CommitFailedAttempt(p)
      BY <1>1, <2>1, <2>2, <2>3 DEF CommitAuth, CommitDenied, CommitStale
    <2>5. /\ copy[p] = store /\ u \in User
          /\ store \in Accounts /\ store[u] \in Record
          /\ store[u].status = "active" /\ ~ IsLockedOut(store[u], clock)
          /\ Failures(snap[p]) \in Int /\ clock \in Nat
      <3>1. CanCommit(p)
        BY <2>4 DEF CommitLogin, CommitFailedAttempt
      <3>2. Failures(store[u]) \in Int
        BY <1>1, <3>1, CommitVerdict DEF Failures, Record
      <3>. QED BY <1>1, <3>1, <3>2, CommitVerdict DEF IInv, TypeOK
    <2>6. PICK r \in Record :
              /\ store' = [store EXCEPT ![u] = r]
              /\ \E f, n : r = [store[u] EXCEPT !.failed = f, !.until = n]
      <3>1. CASE CommitLogin(p)
        <4>1. store' = [copy[p] EXCEPT ![u] = ClearLockout(copy[p][u])]
          BY <3>1 DEF CommitLogin
        <4>2. \E f, n : ClearLockout(store[u])
                           = [store[u] EXCEPT !.failed = f, !.until = n]
          BY DEF ClearLockout
        <4>. QED BY <2>5, <4>1, <4>2, ClearLockoutType
      <3>2. CASE CommitFailedAttempt(p)
        <4>1. store' = [copy[p] EXCEPT ![u] =
                            ApplyFailedAttempt(copy[p][u], snap[p], clock)]
          BY <3>2 DEF CommitFailedAttempt
        <4>2. \E f, n : ApplyFailedAttempt(store[u], snap[p], clock)
                           = [store[u] EXCEPT !.failed = f, !.until = n]
          BY DEF ApplyFailedAttempt
        <4>. QED BY <2>5, <4>1, <4>2, FailedAttemptType
      <3>. QED BY <2>4, <3>1, <3>2
    <2>7. store' \in Accounts /\ store'[u] = r
      BY <2>5, <2>6 DEF Accounts
    <2>8. Has(store, u) /\ Has(store', u)
      BY <2>5, <2>7, AccountsAssumption DEF Has
    <2>9. r = [store[u] EXCEPT !.failed = r.failed, !.until = r.until]
      BY <2>5, <2>6 DEF Record
    <2>. QED
      BY <2>5, <2>6, <2>7, <2>8, <2>9 DEF WritesLockoutOf
  <1>2. IInv /\ [Next]_vars => \A p \in Proc :
            (store' # store /\ lock = p /\ op[p].kind = "auth")
                => WritesLockoutOf(op[p].user)
    BY <1>1
  <1>. QED BY <1>2, Invariance, PTL DEF Spec, LoginWritesOnlyLockout
-----------------------------------------------------------------------------
(* UserStore implements AccountStore: a commit is its one step, all others   *)
(* are invisible there.                                                      *)

\* The operators of Accounts are the same on both sides.
LEMMA SameData ==
    /\ Promise!Record = Record /\ Promise!Role = Role /\ Promise!Clearance = Clearance
    /\ Promise!EmptyStore = EmptyStore
    /\ \A s : Promise!ActiveAdmins(s) = ActiveAdmins(s)
    /\ \A s, u : Promise!Has(s, u) <=> Has(s, u)
    /\ \A s, c, u : Promise!CanRemove(s, c, u) <=> CanRemove(s, c, u)
    /\ \A s, u, r : Promise!CanChangeRole(s, u, r) <=> CanChangeRole(s, u, r)
  <1>1. /\ Promise!Role = Role /\ Promise!Clearance = Clearance /\ Promise!Status = Status
        /\ Promise!Hash = Hash /\ Promise!EmptyStore = EmptyStore
    BY DEF Promise!Role, Role, Promise!Clearance, Clearance, Promise!Status, Status,
           Promise!Hash, Hash, Promise!EmptyStore, EmptyStore
  <1>2. Promise!Record = Record
    BY <1>1 DEF Promise!Record, Record
  <1>3. \A s, u : Promise!Has(s, u) <=> Has(s, u)
    BY DEF Promise!Has, Has
  <1>4. \A s : Promise!ActiveAdmins(s) = ActiveAdmins(s)
    BY <1>3 DEF Promise!ActiveAdmins, ActiveAdmins
  <1>5. ASSUME NEW s, NEW c, NEW u
        PROVE  Promise!CanRemove(s, c, u) <=> CanRemove(s, c, u)
    <2>1. Promise!ActiveAdmins(s) = ActiveAdmins(s) /\ (Promise!Has(s, u) <=> Has(s, u))
      BY <1>3, <1>4
    <2>2. Promise!Cardinality(ActiveAdmins(s)) = Cardinality(ActiveAdmins(s))
      BY DEF Promise!Cardinality, Cardinality
    <2>. QED BY <2>1, <2>2, Zenon DEF Promise!CanRemove, CanRemove
  <1>6. ASSUME NEW s, NEW u, NEW r
        PROVE  Promise!CanChangeRole(s, u, r) <=> CanChangeRole(s, u, r)
    <2>1. Promise!ActiveAdmins(s) = ActiveAdmins(s) /\ (Promise!Has(s, u) <=> Has(s, u))
      BY <1>3, <1>4
    <2>2. Promise!Cardinality(ActiveAdmins(s)) = Cardinality(ActiveAdmins(s))
      BY DEF Promise!Cardinality, Cardinality
    <2>. QED BY <2>1, <2>2, Zenon DEF Promise!CanChangeRole, CanChangeRole
  <1>. QED BY <1>1, <1>2, <1>3, <1>4, <1>5, <1>6

LEMMA SameLockout ==
    /\ \A r : Promise!ClearLockout(r) = ClearLockout(r)
    /\ \A r, now : Promise!IsLockedOut(r, now) <=> IsLockedOut(r, now)
    /\ \A r, b, now : Promise!ApplyFailedAttempt(r, b, now) = ApplyFailedAttempt(r, b, now)
    /\ \A r, c, h : Promise!NewRecord(r, c, h) = NewRecord(r, c, h)
  BY DEF Promise!ClearLockout, ClearLockout, Promise!IsLockedOut, IsLockedOut,
         Promise!Malformed, Malformed, Promise!Legacy, Legacy, Promise!Failures, Failures,
         Promise!ApplyFailedAttempt, ApplyFailedAttempt, Promise!LockoutTicks, LockoutTicks,
         Promise!NewRecord, NewRecord, Promise!Never, Never, Promise!Absent, Absent

LEMMA LoginRefines ==
    ASSUME IInv, NEW p \in Proc, CommitLogin(p)
    PROVE  Promise!Login(p)
  <1> DEFINE u == op[p].user
  <1>1. CanCommit(p)
    BY DEF CommitLogin
  <1>2. /\ copy[p] = store /\ u \in User /\ store \in Accounts
        /\ store[u] \in Record /\ store[u].status = "active"
        /\ ~ IsLockedOut(store[u], clock)
    BY <1>1, CommitVerdict
  <1>3. Promise!Usable(u)
    BY <1>2, SameData, SameLockout, AccountsAssumption DEF Promise!Usable, Has
  <1>4. Promise!Sets(u, Promise!ClearLockout(store[u]))
    BY <1>2, SameLockout DEF CommitLogin, Promise!Sets
  <1>5. /\ session' = [session EXCEPT ![p] = [user |-> u, role |-> store[u].role,
                                              clearance |-> store[u].clearance]]
        /\ UNCHANGED clock
    BY <1>2 DEF CommitLogin
  <1>. QED BY <1>2, <1>3, <1>4, <1>5 DEF Promise!Login

LEMMA FailedLoginRefines ==
    ASSUME IInv, NEW p \in Proc, CommitFailedAttempt(p)
    PROVE  Promise!FailedLogin
  <1> DEFINE u == op[p].user
  <1>1. CanCommit(p)
    BY DEF CommitFailedAttempt
  <1>2. /\ copy[p] = store /\ u \in User /\ store \in Accounts
        /\ store[u] \in Record /\ store[u].status = "active"
        /\ Failures(store[u]) = Failures(snap[p]) /\ ~ IsLockedOut(store[u], clock)
    BY <1>1, CommitVerdict
  <1>3. Promise!Usable(u)
    BY <1>2, SameData, SameLockout, AccountsAssumption DEF Promise!Usable, Has
  <1>4. ApplyFailedAttempt(store[u], snap[p], clock) =
            ApplyFailedAttempt(store[u], store[u], clock)
    BY <1>2 DEF ApplyFailedAttempt
  <1>5. Promise!Sets(u, Promise!ApplyFailedAttempt(store[u], store[u], clock))
    BY <1>2, <1>4, SameLockout DEF CommitFailedAttempt, Promise!Sets
  <1>6. UNCHANGED <<session, clock>>
    BY DEF CommitFailedAttempt
  <1>. QED BY <1>2, <1>3, <1>5, <1>6 DEF Promise!FailedLogin

LEMMA AdminRefines ==
    ASSUME IInv, NEW p \in Proc, CommitAdmin(p), store' # store
    PROVE  Promise!Bootstrap \/ Promise!Administer(p)
  <1> DEFINE o == op[p]
             u == o.user
             c == Caller(p)
             P(a) == Promise!Create(a) \/ Promise!Reset(a) \/ Promise!Enable(a)
                     \/ Promise!Disable(c, a) \/ Promise!Delete(c, a)
                     \/ Promise!ChangeRole(c, a) \/ Promise!ChangeClearance(c, a)
  <1>1. pc[p] = "apply" /\ copy[p] = store /\ lock = p
    BY CommitControl DEF IInv, NoLostUpdate
  <1>2. /\ o \in Op /\ u \in User /\ o.role \in Role /\ o.clearance \in Clearance
        /\ o.hash \in Hash
    BY <1>1, OpInHand DEF IInv, Op
  <1>3. ~ Refuse(p)
    BY DEF Refuse
  <1>4. UNCHANGED <<session, clock>>
    BY <1>3 DEF CommitAdmin, CreateUser, DisableUser, EnableUser, ChangeRole,
                ChangeClearance, ResetPassword, DeleteUser, Save
  <1>5. Promise!CallerOf(p) = c
    BY DEF Promise!CallerOf, Caller
  <1>6. ASSUME c \in ActiveAdmins(store), P(u)
        PROVE  Promise!Administer(p)
    BY <1>2, <1>4, <1>5, <1>6, SameData DEF Promise!Administer
  <1> HIDE DEF P
  <1>7. ASSUME Found(p)
        PROVE  store \in Accounts /\ store[u] \in Record /\ Has(store, u)
    BY <1>1, <1>7, CommitRecord DEF IInv, Found
  <1>8. CASE CreateUser(p)
    <2>1. NewRecord("admin", "high", o.hash) \in Record
          /\ NewRecord(o.role, o.clearance, o.hash) \in Record
      BY <1>2, NewRecordType DEF Role, Clearance
    <2>2. CASE store = NoStore
      <3>1. store' = [EmptyStore EXCEPT ![u] = NewRecord("admin", "high", o.hash)]
        BY <1>1, <1>8, <2>2 DEF CreateUser, Save
      <3>2. store' \in Accounts /\ store'[u] = NewRecord("admin", "high", o.hash)
        BY <3>1, <2>1, <1>2 DEF EmptyStore, Accounts
      <3>3. store'[u] \in Record /\ store'[u].hash = o.hash /\ store' # NoStore
        BY <3>2, <2>1, AccountsAssumption DEF NewRecord
      <3>4. Promise!Hashed(u)
        BY <3>3, SameData DEF Promise!Hashed
      <3>. QED BY <1>2, <1>4, <2>2, <3>1, <3>3, <3>4, SameData, SameLockout
               DEF Promise!Bootstrap
    <2>3. CASE store # NoStore
      <3> DEFINE n == NewRecord(o.role, o.clearance, o.hash)
      <3>1. /\ store' = [store EXCEPT ![u] = n] /\ ~ Has(store, u)
            /\ c \in ActiveAdmins(store) /\ store \in Accounts
        BY <1>1, <1>8, <2>3 DEF CreateUser, Save, IsCurrentAdmin, IInv, TypeOK, Store
      <3>2. store' \in Accounts /\ store'[u] = n
        BY <3>1, <2>1, <1>2 DEF Accounts
      <3>3. store'[u] \in Record /\ store'[u].hash = o.hash /\ store'[u].role = o.role
            /\ store'[u].clearance = o.clearance /\ store' # NoStore
        BY <3>2, <2>1, AccountsAssumption DEF NewRecord
      <3>4. Promise!Create(u)
        BY <3>1, <3>3, SameData, SameLockout
           DEF Promise!Hashed, Promise!Create, Promise!Sets
      <3>. QED BY <1>6, <3>1, <3>4 DEF P
    <2>. QED BY <2>2, <2>3
  <1>9. CASE DisableUser(p)
    <2>1. /\ Found(p) /\ c \in ActiveAdmins(store) /\ CanRemove(store, c, u)
          /\ store' = [store EXCEPT ![u].status = "disabled"]
      BY <1>1, <1>9 DEF DisableUser, CanRemove, Found, IsCurrentAdmin, Save
    <2>2. Promise!Disable(c, u)
      BY <1>7, <2>1, SameData DEF Promise!Disable, Promise!Sets
    <2>. QED BY <1>6, <2>1, <2>2 DEF P
  <1>10. CASE EnableUser(p)
    <2>1. /\ Found(p) /\ c \in ActiveAdmins(store)
          /\ store' = [store EXCEPT ![u].status = "active"]
      BY <1>1, <1>10 DEF EnableUser, IsCurrentAdmin, Save
    <2>2. Promise!Enable(u)
      BY <1>7, <2>1, SameData DEF Promise!Enable, Promise!Sets
    <2>. QED BY <1>6, <2>1, <2>2 DEF P
  <1>11. CASE ChangeRole(p)
    <2>1. /\ c \in ActiveAdmins(store) /\ CanChangeRole(store, u, o.role) /\ u # c
          /\ store' = [store EXCEPT ![u].role = o.role]
      BY <1>1, <1>11 DEF ChangeRole, IsCurrentAdmin, Save, InAdmin, IInv, OthersInv
    <2>2. Promise!ChangeRole(c, u)
      BY <1>2, <2>1, SameData DEF Promise!ChangeRole, Promise!Sets
    <2>. QED BY <1>6, <2>1, <2>2 DEF P
  <1>12. CASE ChangeClearance(p)
    <2>1. /\ Found(p) /\ c \in ActiveAdmins(store) /\ u # c
          /\ store' = [store EXCEPT ![u].clearance = o.clearance]
      BY <1>1, <1>12 DEF ChangeClearance, IsCurrentAdmin, Save, InAdmin, IInv, OthersInv
    <2>2. Promise!ChangeClearance(c, u)
      BY <1>2, <1>7, <2>1, SameData DEF Promise!ChangeClearance, Promise!Sets
    <2>. QED BY <1>6, <2>1, <2>2 DEF P
  <1>13. CASE ResetPassword(p)
    <2> DEFINE r == store[u]
               n == ClearLockout([r EXCEPT !.hash = o.hash])
    <2>1. /\ Found(p) /\ c \in ActiveAdmins(store)
          /\ store' = [store EXCEPT ![u] = n]
      BY <1>1, <1>13 DEF ResetPassword, IsCurrentAdmin, Save
    <2>2. store \in Accounts /\ r \in Record /\ Has(store, u)
      BY <1>7, <2>1
    <2>3. [r EXCEPT !.hash = o.hash] \in Record
      BY <1>2, <2>2 DEF Record
    <2>4. n \in Record /\ n.hash = o.hash
      BY <2>3, ClearLockoutType DEF ClearLockout, Record
    <2>5. store' \in Accounts /\ store'[u] = n /\ store' # NoStore
      BY <1>2, <2>1, <2>2, <2>4, AccountsAssumption DEF Accounts
    <2>6. Promise!Reset(u)
      <3>1. Promise!Hashed(u) /\ Promise!Has(store, u)
        BY <2>2, <2>4, <2>5, SameData DEF Promise!Hashed
      <3>2. n = Promise!ClearLockout([r EXCEPT !.hash = store'[u].hash])
        BY <2>4, <2>5, SameLockout
      <3>. QED BY <2>1, <3>1, <3>2 DEF Promise!Reset, Promise!Sets
    <2>. QED BY <1>6, <2>1, <2>6 DEF P
  <1>14. CASE DeleteUser(p)
    <2>1. /\ c \in ActiveAdmins(store) /\ CanRemove(store, c, u)
          /\ store' = [store EXCEPT ![u] = NoRecord]
      BY <1>1, <1>14 DEF DeleteUser, IsCurrentAdmin, Save
    <2>2. Promise!Delete(c, u)
      BY <2>1, SameData DEF Promise!Delete, Promise!Sets
    <2>. QED BY <1>6, <2>1, <2>2 DEF P
  <1>. QED BY <1>3, <1>8, <1>9, <1>10, <1>11, <1>12, <1>13, <1>14 DEF CommitAdmin

\* Only a login or the end of a process changes a session, only Tick the clock.
LEMMA QuietSteps ==
    ASSUME IInv, [Next]_vars, store' = store
    PROVE  \/ UNCHANGED <<store, session, clock>>
           \/ \E p \in Proc : CommitLogin(p) \/ Crash(p)
           \/ Tick
  <1>1. ASSUME NEW p \in Proc, Start(p)
        PROVE  UNCHANGED <<session, clock>>
    BY <1>1 DEF Start, StartAuthenticate, StartCreate, StartReset, StartPlain,
                StartChange, Begin
  <1>2. ASSUME NEW p \in Proc, TakeSnapshot(p) \/ Verify(p) \/ Load(p) \/ Deny(p)
                               \/ Acquire(p) \/ StoreFailure(p)
        PROVE  UNCHANGED <<session, clock>>
    BY <1>2 DEF TakeSnapshot, Verify, Load, Deny, Acquire, StoreFailure
  <1>3. ASSUME NEW p \in Proc, CommitAdmin(p)
        PROVE  UNCHANGED <<session, clock>>
    BY <1>3 DEF CommitAdmin, CreateUser, DisableUser, EnableUser, ChangeRole,
                ChangeClearance, ResetPassword, DeleteUser, Refuse, Save
  <1>4. ASSUME NEW p \in Proc, CommitAuth(p)
        PROVE  UNCHANGED <<session, clock>> \/ CommitLogin(p)
    BY <1>4 DEF CommitAuth, CommitDenied, CommitStale, CommitFailedAttempt
  <1>5. UNCHANGED vars => UNCHANGED <<session, clock>>
    BY DEF vars
  <1>. QED BY <1>1, <1>2, <1>3, <1>4, <1>5 DEF Next, Work

\* Logins and account administration are atomic, whatever runs beside them
\* and wherever it fails: the user store implements AccountStore.
THEOREM Implementation == Spec => Atomic
  <1>1. Init => Promise!Init
    BY DEF Init, Promise!Init
  <1>2. ASSUME IInv, [Next]_vars
        PROVE  [Promise!Next]_<<store, session, clock>>
    <2>1. CASE store' # store
      <3>1. PICK p \in Proc : CommitAuth(p) \/ CommitAdmin(p)
        BY <1>2, <2>1, OnlyCommitsWrite
      <3>2. CASE CommitAdmin(p)
        BY <1>2, <2>1, <3>2, AdminRefines DEF Promise!Next
      <3>3. CASE CommitAuth(p)
        <4>1. CommitLogin(p) \/ CommitFailedAttempt(p)
          BY <2>1, <3>3 DEF CommitAuth, CommitDenied, CommitStale
        <4>. QED BY <1>2, <4>1, LoginRefines, FailedLoginRefines DEF Promise!Next
      <3>. QED BY <3>1, <3>2, <3>3
    <2>2. ASSUME NEW p \in Proc, Crash(p)
          PROVE  Promise!Leave(p)
      BY <2>2 DEF Crash, Promise!Leave
    <2>3. Tick => Promise!Tick
      BY DEF Tick, Promise!Tick
    <2>4. CASE store' = store
      BY <1>2, <2>2, <2>3, <2>4, QuietSteps, LoginRefines DEF Promise!Next
    <2>. QED BY <2>1, <2>4
  <1>. QED BY <1>1, <1>2, Invariance, PTL DEF Spec, Atomic, Promise!Spec

=============================================================================
