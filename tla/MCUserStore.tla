----------------------------- MODULE MCUserStore -----------------------------
(***************************************************************************)
(* Small instances of UserStore for TLC: two account names, two            *)
(* processes, a lockout after two failures and a schedule of two lockouts. *)
(***************************************************************************)
EXTENDS UserStore, TLC

CONSTANTS alice, bob, pw1, pw2, p1, p2

MCSchedule == <<1, 2>>

Symmetry == Permutations(Proc)

Account(role, status, pw, failed, until) ==
    [role |-> role, clearance |-> "high", status |-> status,
     hash |-> [pw |-> pw, salt |-> 0], failed |-> failed, until |-> until]

\* Before the bootstrap; one admin; two admins, one of them disabled.
AdminStores ==
    LET admin == Account("admin", "active", pw1, 0, Never) IN
    {NoStore,
     [EmptyStore EXCEPT ![alice] = admin, ![bob] = admin],
     [EmptyStore EXCEPT ![alice] = admin,
                        ![bob] = [admin EXCEPT !.status = "disabled"]]}

\* An admin whose record predates the lockout fields, next to an account whose
\* lockout fields are only half written, which a reset makes whole; and an
\* admin whose failures are at the cap, after the last lockout.
LoginStores ==
    LET analyst == Account("analyst", "active", pw2, 0, Absent) IN
    {[EmptyStore EXCEPT ![alice] = Account("admin", "active", pw1, Absent, Absent),
                        ![bob] = analyst],
     [EmptyStore EXCEPT ![alice] = Account("admin", "active", pw1, MaxFailed, 0),
                        ![bob] = analyst]}

OneAdmin ==
    {[EmptyStore EXCEPT ![alice] = Account("admin", "active", pw1, 0, Never)]}

AdminOps == {"auth", "create", "disable", "enable", "role", "clearance", "delete"}
LoginOps == {"auth", "disable", "reset"}
LiveOps == {"auth", "enable", "reset"}
TwoRoles == {"admin", "analyst"}
AdminOnly == {"admin"}
HighOnly == {"high"}
=============================================================================
