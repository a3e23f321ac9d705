------------------------------ MODULE Accounts ------------------------------
(***************************************************************************)
(* The user store of spy/auth.py as data: what one account record is, how  *)
(* its lockout fields are read and updated, and when each administrative   *)
(* operation is allowed.  No state: UserStore and AccountStore, which say  *)
(* when these operators are applied, both extend this module.              *)
(*                                                                         *)
(* The JSON list of users is a function from user names to records, since  *)
(* create_user refuses a name that is taken; NoRecord marks a free name    *)
(* and NoStore a store file that does not exist.                           *)
(***************************************************************************)
EXTENDS Integers, Sequences, FiniteSets

CONSTANTS
    User,       \* account names
    Password,   \* plaintext passwords
    Threshold,  \* LOCKOUT_THRESHOLD
    Schedule,   \* LOCKOUT_SCHEDULE_SECONDS, in ticks of the clock
    MaxFailed,  \* _MAX_FAILED_ATTEMPTS
    NoRecord,   \* no record under this name
    NoStore     \* the store file does not exist

Role == {"admin", "analyst", "auditor"}
Clearance == {"low", "medium", "high"}
Status == {"active", "disabled"}

Never == -1     \* locked_until is None
Absent == -2    \* the field is missing from the record

\* Argon2 salts every hash, so two hashes of one password differ.
Hash == [pw : Password, salt : Nat]

Record == [role : Role, clearance : Clearance, status : Status, hash : Hash,
           failed : Int, until : Int]

Accounts == [User -> Record \cup {NoRecord}]
Store == Accounts \cup {NoStore}

ASSUME AccountsAssumption ==
    /\ Password # {}
    /\ Threshold \in Nat \ {0}
    /\ MaxFailed \in Nat /\ MaxFailed >= Threshold
    /\ Schedule \in Seq(Nat \ {0}) /\ Schedule # <<>>
    /\ NoRecord \notin Record
    /\ NoStore \notin Accounts

Has(s, u) == s # NoStore /\ s[u] # NoRecord

-----------------------------------------------------------------------------
(* Lockout fields *)

\* _lockout_state: both fields absent is a legacy record; a record with one
\* of them, or with a counter out of range, cannot be trusted.
Legacy(r) == r.failed = Absent /\ r.until = Absent
Malformed(r) ==
    /\ ~ Legacy(r)
    /\ \/ r.failed \notin 0 .. MaxFailed
       \/ r.until = Absent

Failures(r) == IF Legacy(r) THEN 0 ELSE r.failed

\* A malformed record never unlocks by itself.
IsLockedOut(r, now) == Malformed(r) \/ now < r.until

LockoutTicks(n) ==
    LET i == n - Threshold + 1
    IN  IF i < Len(Schedule) THEN Schedule[i] ELSE Schedule[Len(Schedule)]

\* _apply_failed_attempt: count from the state read before the lock.
ApplyFailedAttempt(r, before, now) ==
    LET n == IF Failures(before) < MaxFailed THEN Failures(before) + 1
                                             ELSE MaxFailed
    IN  [r EXCEPT !.failed = n,
                  !.until  = IF n >= Threshold THEN now + LockoutTicks(n)
                                               ELSE Never]

ClearLockout(r) == [r EXCEPT !.failed = 0, !.until = Never]

\* _record_snapshot: role and clearance are not compared.
RecordSnapshot(r) == <<r.hash, r.status, r.failed, r.until>>

-----------------------------------------------------------------------------
(* Administrative operations: s is the store loaded under the lock. *)

ActiveAdmins(s) ==
    {u \in User : Has(s, u) /\ s[u].role = "admin" /\ s[u].status = "active"}

\* Bug: the authoritative check forgets the status of the caller's account.
IsAdminAnyStatus(s, caller) ==
    \E u \in User : u = caller /\ Has(s, u) /\ s[u].role = "admin"

\* _require_current_admin
IsCurrentAdmin(s, caller) == caller \in ActiveAdmins(s)

\* Bug: disable_user and delete_user without their guards.
CanRemoveAnyone(s, caller, u) == Has(s, u)

\* Shared guard of disable_user and delete_user.
CanRemove(s, caller, u) ==
    /\ Has(s, u)
    /\ u # caller
    /\ ~ (s[u].role = "admin" /\ Cardinality(ActiveAdmins(s)) <= 1)

\* Guard of change_role.
CanChangeRole(s, u, role) ==
    /\ Has(s, u)
    /\ ~ /\ s[u].role = "admin" /\ role # "admin"
         /\ Cardinality(ActiveAdmins(s)) <= 1

NewRecord(role, clearance, hash) ==
    [role |-> role, clearance |-> clearance, status |-> "active",
     hash |-> hash, failed |-> 0, until |-> Never]

EmptyStore == [u \in User |-> NoRecord]
=============================================================================
