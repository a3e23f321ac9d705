------------------------------ MODULE UserStore ------------------------------
(***************************************************************************)
(* spy/auth.py: processes (spy-cli, spy-gui) that log in and administer    *)
(* accounts over one store file.                                           *)
(*                                                                         *)
(* Every read-modify-write of the store runs under an exclusive flock:     *)
(* Acquire, Load, then one commit that saves (os.replace) and releases.    *)
(* The expensive Argon2 work happens before the lock: authenticate()       *)
(* verifies a password against a snapshot it read without the lock, and    *)
(* create_user() and reset_password() hash before they wait.  A process    *)
(* may die at any step; the kernel then drops its lock.                    *)
(***************************************************************************)
EXTENDS Accounts

CONSTANTS
    Proc,         \* operating-system processes
    MaxRetries,   \* _MAX_AUTH_RETRIES
    InitStores,   \* stores an installation may be found with
    NoProc,       \* nobody holds the lock
    NoSession,    \* not logged in
    NoOp,         \* no operation in progress
    Kinds,        \* bound: the operations this instance exercises
    GivenRoles,   \* bound: roles asked for by create and change_role
    GivenLevels,  \* bound: clearances asked for
    MaxClock,     \* bound on the clock
    MaxSalt       \* bound on the number of hashes computed

AdminKinds == {"create", "disable", "enable", "role", "clearance",
               "reset", "delete"}
Op == [kind : AdminKinds \cup {"auth"}, user : User, role : Role,
       clearance : Clearance, hash : Hash]
Session == [user : User, role : Role, clearance : Clearance]

ASSUME UserStoreAssumption ==
    /\ MaxRetries \in Nat \ {0}
    /\ MaxClock \in Nat /\ MaxSalt \in Nat
    /\ Kinds \subseteq AdminKinds \cup {"auth"}
    /\ GivenRoles \subseteq Role /\ GivenLevels \subseteq Clearance
    /\ InitStores \subseteq Store
    /\ \A s \in InitStores : s = NoStore \/ ActiveAdmins(s) # {}
    /\ NoProc \notin Proc
    /\ NoSession \notin Session
    /\ NoOp \notin Op

VARIABLES
    store,    \* the store file
    lock,     \* holder of the flock on users.lock
    clock,    \* _now()
    salt,     \* hashes computed so far
    pc,       \* where each process is
    op,       \* the operation each process is running
    tries,    \* restarts of the current authenticate()
    snap,     \* record authenticate() read before the lock
    copy,     \* store loaded inside the transaction
    session   \* the User object the process holds after a login

vars == <<store, lock, clock, salt, pc, op, tries, snap, copy, session>>
procVars == <<pc, op, tries, snap, copy>>

Locations == {"idle", "snapshot", "verify", "wait", "load", "apply", "deny"}

TypeOK ==
    /\ store \in Store
    /\ lock \in Proc \cup {NoProc}
    /\ clock \in Nat
    /\ salt \in Nat
    /\ pc \in [Proc -> Locations]
    /\ op \in [Proc -> Op \cup {NoOp}]
    /\ tries \in [Proc -> 0 .. MaxRetries]
    /\ snap \in [Proc -> Record \cup {NoRecord}]
    /\ copy \in [Proc -> Store]
    /\ session \in [Proc -> Session \cup {NoSession}]

Init ==
    /\ store \in InitStores
    /\ lock = NoProc
    /\ clock = 0
    /\ salt = 1
    /\ pc = [p \in Proc |-> "idle"]
    /\ op = [p \in Proc |-> NoOp]
    /\ tries = [p \in Proc |-> 0]
    /\ snap = [p \in Proc |-> NoRecord]
    /\ copy = [p \in Proc |-> NoStore]
    /\ session = [p \in Proc |-> NoSession]

-----------------------------------------------------------------------------
(* Starting an operation: everything the code does before it waits. *)

Begin(p, o, where) ==
    /\ o.kind \in Kinds
    /\ pc[p] = "idle"
    /\ pc' = [pc EXCEPT ![p] = where]
    /\ op' = [op EXCEPT ![p] = o]
    /\ UNCHANGED <<store, lock, clock, tries, snap, copy, session>>

\* The operation record; fields an operation does not use keep these values.
Request(kind, u, role, clearance, hash) ==
    [kind |-> kind, user |-> u, role |-> role, clearance |-> clearance,
     hash |-> hash]
AnyHash == [pw |-> CHOOSE w \in Password : TRUE, salt |-> 0]

StartAuthenticate(p) ==
    \E u \in User, w \in Password :
        /\ session[p] = NoSession
        /\ Begin(p, Request("auth", u, "analyst", "low",
                            [pw |-> w, salt |-> 0]), "snapshot")
        /\ UNCHANGED salt

\* _require_admin: looks only at the User object in memory.
RequireAdmin(p) == session[p] # NoSession /\ session[p].role = "admin"

\* The preliminary check is skipped when there is no store (bootstrap).
StartCreate(p) ==
    \E u \in User, w \in Password, r \in GivenRoles, c \in GivenLevels :
        /\ store = NoStore \/ RequireAdmin(p)
        /\ salt < MaxSalt
        /\ Begin(p, Request("create", u, r, c, [pw |-> w, salt |-> salt]),
                 "wait")
        /\ salt' = salt + 1

StartReset(p) ==
    \E u \in User, w \in Password :
        /\ RequireAdmin(p)
        /\ salt < MaxSalt
        /\ Begin(p, Request("reset", u, "analyst", "low",
                            [pw |-> w, salt |-> salt]), "wait")
        /\ salt' = salt + 1

StartPlain(p) ==
    \E u \in User, k \in {"disable", "enable", "delete"} :
        /\ RequireAdmin(p)
        /\ Begin(p, Request(k, u, "analyst", "low", AnyHash), "wait")
        /\ UNCHANGED salt

\* Bug: the caller's own name is not refused.
StartChangeAnyone(p) ==
    \E u \in User, r \in GivenRoles, c \in GivenLevels,
       k \in {"role", "clearance"} :
        /\ RequireAdmin(p)
        /\ Begin(p, Request(k, u, r, c, AnyHash), "wait")
        /\ UNCHANGED salt

\* change_role and change_clearance refuse the caller's own name up front.
StartChange(p) ==
    \E u \in User, r \in GivenRoles, c \in GivenLevels,
       k \in {"role", "clearance"} :
        /\ RequireAdmin(p)
        /\ u # session[p].user
        /\ Begin(p, Request(k, u, r, c, AnyHash), "wait")
        /\ UNCHANGED salt

-----------------------------------------------------------------------------
(* authenticate(), before the lock *)

Goto(p, where) == pc' = [pc EXCEPT ![p] = where]

\* Load the store and snapshot the record; a missing record is denied.
TakeSnapshot(p) ==
    /\ pc[p] = "snapshot"
    /\ LET u == op[p].user IN
        IF Has(store, u)
        THEN /\ snap' = [snap EXCEPT ![p] = store[u]]
             /\ Goto(p, "verify")
        ELSE /\ Goto(p, "deny")
             /\ UNCHANGED snap
    /\ UNCHANGED <<store, lock, clock, salt, op, tries, copy, session>>

\* Lockout and status are judged on the snapshot; so is the password, whose
\* verdict PasswordOk(p) is carried to the commit.
PasswordOk(p) == snap[p].hash.pw = op[p].hash.pw

\* Bug: an account that is locked out is verified like any other.
VerifyIgnoresLock(p) ==
    /\ pc[p] = "verify"
    /\ Goto(p, IF snap[p].status # "active" THEN "deny" ELSE "wait")
    /\ UNCHANGED <<store, lock, clock, salt, op, tries, snap, copy, session>>

Verify(p) ==
    /\ pc[p] = "verify"
    /\ Goto(p, IF IsLockedOut(snap[p], clock) \/ snap[p].status # "active"
               THEN "deny" ELSE "wait")
    /\ UNCHANGED <<store, lock, clock, salt, op, tries, snap, copy, session>>

-----------------------------------------------------------------------------
(* _store_transaction *)

\* Bug: the flock is taken without LOCK_EX, so nobody waits.
AcquireShared(p) ==
    /\ pc[p] = "wait"
    /\ lock' = p
    /\ Goto(p, "load")
    /\ UNCHANGED <<store, clock, salt, op, tries, snap, copy, session>>

Acquire(p) ==
    /\ pc[p] = "wait"
    /\ lock = NoProc
    /\ lock' = p
    /\ Goto(p, "load")
    /\ UNCHANGED <<store, clock, salt, op, tries, snap, copy, session>>

Load(p) ==
    /\ pc[p] = "load"
    /\ copy' = [copy EXCEPT ![p] = store]
    /\ Goto(p, "apply")
    /\ UNCHANGED <<store, lock, clock, salt, op, tries, snap, session>>

\* The local variables of the attempt go out of scope.
Forget(p) ==
    /\ copy' = [copy EXCEPT ![p] = NoStore]
    /\ snap' = [snap EXCEPT ![p] = NoRecord]

\* Leaving the transaction: the lock is released whatever happened inside.
Release(p) == lock' = NoProc /\ Forget(p)

\* The operation returns to its caller.
Finish(p) ==
    /\ Goto(p, "idle")
    /\ op' = [op EXCEPT ![p] = NoOp]
    /\ tries' = [tries EXCEPT ![p] = 0]

-----------------------------------------------------------------------------
(* _commit_auth_attempt *)

InAuth(p) == pc[p] = "apply" /\ op[p].kind = "auth"
Found(p) == Has(copy[p], op[p].user)

\* Bug: the record is not compared with the snapshot.
NotCompared(p) == TRUE
Unchanged(p) == RecordSnapshot(copy[p][op[p].user]) = RecordSnapshot(snap[p])

\* The record is gone, or the account is no longer active.
CommitDenied(p) ==
    /\ InAuth(p)
    /\ Found(p) => Unchanged(p) /\ copy[p][op[p].user].status # "active"
    /\ Goto(p, "deny")
    /\ Release(p)
    /\ UNCHANGED <<store, clock, salt, op, tries, session>>

\* Bug: every restart begins with a fresh budget.
CommitStaleUncounted(p) ==
    /\ InAuth(p)
    /\ Found(p) /\ ~ Unchanged(p)
    /\ Goto(p, "snapshot")
    /\ Release(p)
    /\ UNCHANGED <<store, clock, salt, op, tries, session>>

\* Bug: one attempt more than the budget.
CommitStaleOnceMore(p) ==
    /\ InAuth(p)
    /\ Found(p) /\ ~ Unchanged(p)
    /\ tries' = [tries EXCEPT ![p] = @ + 1]
    /\ Goto(p, IF tries[p] < MaxRetries THEN "snapshot" ELSE "deny")
    /\ Release(p)
    /\ UNCHANGED <<store, clock, salt, op, session>>

\* The record changed since the snapshot: restart, up to MaxRetries attempts.
CommitStale(p) ==
    /\ InAuth(p)
    /\ Found(p) /\ ~ Unchanged(p)
    /\ tries' = [tries EXCEPT ![p] = @ + 1]
    /\ Goto(p, IF tries[p] + 1 < MaxRetries THEN "snapshot" ELSE "deny")
    /\ Release(p)
    /\ UNCHANGED <<store, clock, salt, op, session>>

CanCommit(p) ==
    /\ InAuth(p)
    /\ Found(p) /\ Unchanged(p)
    /\ copy[p][op[p].user].status = "active"

\* Bug: a login leaves the failures before it on the record.
CommitLoginKeepingFailures(p) ==
    /\ CanCommit(p) /\ PasswordOk(p)
    /\ LET u == op[p].user
           r == copy[p][u]
       IN  session' = [session EXCEPT ![p] =
              [user |-> u, role |-> r.role, clearance |-> r.clearance]]
    /\ Finish(p)
    /\ Release(p)
    /\ UNCHANGED <<store, clock, salt>>

CommitLogin(p) ==
    /\ CanCommit(p) /\ PasswordOk(p)
    /\ LET u == op[p].user
           r == copy[p][u]
       IN  /\ store' = [copy[p] EXCEPT ![u] = ClearLockout(r)]
           /\ session' = [session EXCEPT ![p] =
                 [user |-> u, role |-> r.role, clearance |-> r.clearance]]
    /\ Finish(p)
    /\ Release(p)
    /\ UNCHANGED <<clock, salt>>

CommitFailedAttempt(p) ==
    /\ CanCommit(p) /\ ~ PasswordOk(p)
    /\ LET u == op[p].user IN
        store' = [copy[p] EXCEPT ![u] =
                    ApplyFailedAttempt(copy[p][u], snap[p], clock)]
    /\ Goto(p, "deny")
    /\ Release(p)
    /\ UNCHANGED <<clock, salt, op, tries, session>>

\* _log_auth_denied, then authenticate() returns None (or lets the audit
\* error out): either way the caller holds no User.
Deny(p) ==
    /\ pc[p] = "deny"
    /\ Finish(p)
    /\ snap' = [snap EXCEPT ![p] = NoRecord]
    /\ UNCHANGED <<store, lock, clock, salt, copy, session>>

-----------------------------------------------------------------------------
(* Administrative commits *)

InAdmin(p, kind) == pc[p] = "apply" /\ op[p].kind = kind

Caller(p) == IF session[p] = NoSession THEN NoSession ELSE session[p].user

\* save_user_store and return.
Save(p, s) ==
    /\ store' = s
    /\ Finish(p)
    /\ Release(p)
    /\ UNCHANGED <<clock, salt, session>>

\* Bootstrap forces role and clearance, and needs no caller.
CreateUser(p) ==
    /\ InAdmin(p, "create")
    /\ LET o == op[p] IN
        \/ /\ copy[p] = NoStore
           /\ Save(p, [EmptyStore EXCEPT ![o.user] =
                         NewRecord("admin", "high", o.hash)])
        \/ /\ copy[p] # NoStore
           /\ IsCurrentAdmin(copy[p], Caller(p))
           /\ ~ Has(copy[p], o.user)
           /\ Save(p, [copy[p] EXCEPT ![o.user] =
                         NewRecord(o.role, o.clearance, o.hash)])

DisableUser(p) ==
    /\ InAdmin(p, "disable")
    /\ IsCurrentAdmin(copy[p], Caller(p))
    /\ CanRemove(copy[p], Caller(p), op[p].user)
    /\ Save(p, [copy[p] EXCEPT ![op[p].user].status = "disabled"])

EnableUser(p) ==
    /\ InAdmin(p, "enable")
    /\ IsCurrentAdmin(copy[p], Caller(p))
    /\ Found(p)
    /\ Save(p, [copy[p] EXCEPT ![op[p].user].status = "active"])

ChangeRole(p) ==
    /\ InAdmin(p, "role")
    /\ IsCurrentAdmin(copy[p], Caller(p))
    /\ CanChangeRole(copy[p], op[p].user, op[p].role)
    /\ Save(p, [copy[p] EXCEPT ![op[p].user].role = op[p].role])

ChangeClearance(p) ==
    /\ InAdmin(p, "clearance")
    /\ IsCurrentAdmin(copy[p], Caller(p))
    /\ Found(p)
    /\ Save(p, [copy[p] EXCEPT ![op[p].user].clearance = op[p].clearance])

ResetPassword(p) ==
    /\ InAdmin(p, "reset")
    /\ IsCurrentAdmin(copy[p], Caller(p))
    /\ Found(p)
    /\ LET u == op[p].user IN
        Save(p, [copy[p] EXCEPT ![u] =
                   ClearLockout([copy[p][u] EXCEPT !.hash = op[p].hash])])

DeleteUser(p) ==
    /\ InAdmin(p, "delete")
    /\ IsCurrentAdmin(copy[p], Caller(p))
    /\ CanRemove(copy[p], Caller(p), op[p].user)
    /\ Save(p, [copy[p] EXCEPT ![op[p].user] = NoRecord])

\* What the transaction body accepts; anything else raises AuthError.
Accepts(p) ==
    LET s == copy[p]  o == op[p] IN
    \/ o.kind = "create" /\ s = NoStore
    \/ /\ s # NoStore
       /\ IsCurrentAdmin(s, Caller(p))
       /\ \/ o.kind = "create" /\ ~ Has(s, o.user)
          \/ /\ o.kind \in {"disable", "delete"}
             /\ CanRemove(s, Caller(p), o.user)
          \/ o.kind \in {"enable", "clearance", "reset"} /\ Has(s, o.user)
          \/ o.kind = "role" /\ CanChangeRole(s, o.user, o.role)

Refuse(p) ==
    /\ pc[p] = "apply" /\ op[p].kind \in AdminKinds
    /\ ~ Accepts(p)
    /\ Finish(p)
    /\ Release(p)
    /\ UNCHANGED <<store, clock, salt, session>>

-----------------------------------------------------------------------------
(* The environment *)

\* Bug: an error path leaves the transaction without the finally clause.
StoreFailureKeepsLock(p) ==
    /\ pc[p] \in {"snapshot", "wait", "load", "apply"}
    /\ IF op[p].kind = "auth"
       THEN Goto(p, "deny") /\ UNCHANGED <<op, tries>>
       ELSE Finish(p)
    /\ Forget(p)
    /\ UNCHANGED <<store, lock, clock, salt, session>>

\* The lock file cannot be used, or the store cannot be read or written:
\* os.replace did not happen.  authenticate() denies, the others raise.
StoreFailure(p) ==
    /\ pc[p] \in {"snapshot", "wait", "load", "apply"}
    /\ IF op[p].kind = "auth"
       THEN Goto(p, "deny") /\ UNCHANGED <<op, tries>>
       ELSE Finish(p)
    /\ lock' = IF lock = p THEN NoProc ELSE lock
    /\ Forget(p)
    /\ UNCHANGED <<store, clock, salt, session>>

\* The process exits or is killed, at any point, and can be started again.
Crash(p) ==
    /\ pc[p] # "idle" \/ session[p] # NoSession
    /\ Finish(p)
    /\ Forget(p)
    /\ lock' = IF lock = p THEN NoProc ELSE lock
    /\ session' = [session EXCEPT ![p] = NoSession]
    /\ UNCHANGED <<store, clock, salt>>

Tick ==
    /\ clock < MaxClock
    /\ clock' = clock + 1
    /\ UNCHANGED <<store, lock, salt, procVars, session>>

-----------------------------------------------------------------------------
Start(p) ==
    \/ StartAuthenticate(p) \/ StartCreate(p) \/ StartReset(p)
    \/ StartPlain(p) \/ StartChange(p)

CommitAuth(p) ==
    \/ CommitDenied(p) \/ CommitStale(p) \/ CommitLogin(p)
    \/ CommitFailedAttempt(p)

CommitAdmin(p) ==
    \/ CreateUser(p) \/ DisableUser(p) \/ EnableUser(p) \/ ChangeRole(p)
    \/ ChangeClearance(p) \/ ResetPassword(p) \/ DeleteUser(p) \/ Refuse(p)

\* Steps a running process takes on its own.
Work(p) ==
    \/ TakeSnapshot(p) \/ Verify(p) \/ Load(p)
    \/ CommitAuth(p) \/ CommitAdmin(p) \/ Deny(p)

Next ==
    \/ \E p \in Proc : Start(p) \/ Work(p) \/ Acquire(p)
                       \/ StoreFailure(p) \/ Crash(p)
    \/ Tick

Spec == Init /\ [][Next]_vars

\* A process that is running keeps running (or dies); nothing forces a user
\* to start an operation, a failure to happen or time to pass.  flock grants
\* a free lock to some waiter, and a waiter it keeps passing over would need
\* others to keep asking: strong fairness says it is granted in the end.
FairSpec ==
    /\ Spec
    /\ \A p \in Proc : WF_vars(Work(p)) /\ SF_vars(Acquire(p))

-----------------------------------------------------------------------------
(* Properties *)

\* The process inside the transaction holds the lock, and nobody else is
\* inside: pc and lock agree.
LockInv ==
    \A p \in Proc : pc[p] \in {"load", "apply"} <=> lock = p

\* No lost update (CHANGELOG A8): the store a transaction is about to save
\* over is the one it loaded; no other process wrote in between.
NoLostUpdate == \A p \in Proc : pc[p] = "apply" => copy[p] = store

\* The last-admin guards of disable_user, delete_user and change_role: once
\* there is a store, some active admin can always administer it, however the
\* admins' operations on one another interleave.
ActiveAdminRemains == store # NoStore => ActiveAdmins(store) # {}

\* A process between operations has none in hand.
OpInv == \A p \in Proc : pc[p] = "idle" <=> op[p] = NoOp

\* The retry budget is spent only on the way to a denial.
TriesInv == \A p \in Proc : pc[p] # "deny" => tries[p] < MaxRetries

\* change_role and change_clearance are about somebody else's account, and
\* the caller stays logged in until they return.
OthersInv ==
    \A p \in Proc :
        (pc[p] # "idle" /\ op[p].kind \in {"role", "clearance"}) =>
            op[p].user # Caller(p)

\* The verdict a login carries to the lock was reached on a record that was
\* active and not locked out, and time does not lock it again.
VerdictInv ==
    \A p \in Proc :
        (pc[p] \in {"verify", "wait", "load", "apply"} /\ op[p].kind = "auth") =>
            /\ snap[p] \in Record
            /\ pc[p] # "verify" =>
                  snap[p].status = "active" /\ ~ IsLockedOut(snap[p], clock)

\* The inductive invariant of the proofs: the parts above are what makes
\* ActiveAdminRemains, OnlyCurrentAdminMutates and LoginSound hold at a commit.
IInv ==
    /\ TypeOK /\ LockInv /\ NoLostUpdate /\ ActiveAdminRemains
    /\ OpInv /\ TriesInv /\ OthersInv /\ VerdictInv

\* _require_current_admin: only an account that is an active admin at the
\* moment of the write changes accounts, whatever its session says; logins
\* write too, and a bootstrap needs no store.
WrittenByAdmin ==
    (store' # store /\ store # NoStore) =>
        /\ lock \in Proc
        /\ \/ op[lock].kind = "auth"
           \/ Caller(lock) \in ActiveAdmins(store)

OnlyCurrentAdminMutates == [][WrittenByAdmin]_vars

\* A login succeeds only for an account that, at that moment, is active, has
\* the attempted password and is not locked out, and the session carries the
\* role and clearance it has at that moment: a reset, a disable, a demotion
\* or a lock that lands while Argon2 runs is never overtaken.
LoggedIn(p) == session'[p] # session[p] /\ session'[p] # NoSession

LoginAllowed(p) ==
    LET u == op[p].user IN
    /\ Has(store, u)
    /\ store[u].status = "active"
    /\ store[u].hash.pw = op[p].hash.pw
    /\ ~ IsLockedOut(store[u], clock)
    /\ session'[p] = [user |-> u, role |-> store[u].role,
                      clearance |-> store[u].clearance]

LoginSound == [][\A p \in Proc : LoggedIn(p) => LoginAllowed(p)]_vars

\* authenticate() writes nothing but the lockout fields of the account it
\* names, and only while that account is active and not locked out: attempts
\* in flight neither extend nor clear a lock set meanwhile, and never touch a
\* disabled account.
WritesLockoutOf(u) ==
    /\ Has(store, u) /\ Has(store', u)
    /\ store[u].status = "active"
    /\ ~ IsLockedOut(store[u], clock)
    /\ store' = [store EXCEPT ![u].failed = store'[u].failed,
                              ![u].until  = store'[u].until]

LoginWritesOnlyLockout ==
    [][\A p \in Proc :
        (store' # store /\ lock = p /\ op[p].kind = "auth")
            => WritesLockoutOf(op[p].user)]_vars

\* Consecutive failures are never forgotten: the counter the store holds now
\* moves up by exactly one, so that two attempts verified against one snapshot
\* are not counted once.
CountedOnce(u) ==
    store'[u].failed = IF Failures(store[u]) < MaxFailed
                       THEN Failures(store[u]) + 1 ELSE MaxFailed

FailuresCounted ==
    [][\A p \in Proc : CommitFailedAttempt(p) => CountedOnce(op[p].user)]_vars

\* Logins and administration are atomic: each takes effect at once, on the
\* store as it is then, and leaves nothing half done when it fails.
Promise == INSTANCE AccountStore WITH store <- store, session <- session, clock <- clock

Atomic == Promise!Spec

\* No operation keeps the flock for ever: every path out of a transaction,
\* errors and retries included, releases it.
LockReleased == \A p \in Proc : lock = p ~> lock # p

\* Every operation returns, a login under contention included: it restarts
\* at most MaxRetries times and is then denied.
OperationsReturn == \A p \in Proc : pc[p] # "idle" ~> pc[p] = "idle"
=============================================================================
