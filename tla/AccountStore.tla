---------------------------- MODULE AccountStore ----------------------------
(***************************************************************************)
(* What spy/auth.py promises its callers: logging in, failing to, and      *)
(* every administrative operation is one step on the store as it is at     *)
(* that moment, although a login takes its time over Argon2 without the    *)
(* lock, and any number of processes do this at once.  UserStore, which    *)
(* has the lock, the retries and the failures, implements this module.     *)
(***************************************************************************)
EXTENDS Accounts

CONSTANTS
    Proc,       \* processes, each with at most one session
    NoSession,  \* nobody is logged in
    InitStores  \* stores found at the start

VARIABLES store, session, clock

Init ==
    /\ store \in InitStores
    /\ session = [p \in Proc |-> NoSession]
    /\ clock = 0

CallerOf(p) == IF session[p] = NoSession THEN NoSession ELSE session[p].user

\* The account of u becomes r, all others stay.
Sets(u, r) == store' = [store EXCEPT ![u] = r]

-----------------------------------------------------------------------------
(* authenticate() *)

Usable(u) ==
    Has(store, u) /\ store[u].status = "active" /\ ~ IsLockedOut(store[u], clock)

Login(p) ==
    \E u \in User :
        /\ Usable(u)
        /\ Sets(u, ClearLockout(store[u]))
        /\ session' = [session EXCEPT ![p] =
              [user |-> u, role |-> store[u].role, clearance |-> store[u].clearance]]
        /\ UNCHANGED clock

FailedLogin ==
    \E u \in User :
        /\ Usable(u)
        /\ Sets(u, ApplyFailedAttempt(store[u], store[u], clock))
        /\ UNCHANGED <<session, clock>>

-----------------------------------------------------------------------------
(* Administration.  A hash is what the store holds afterwards. *)

Hashed(u) == store' # NoStore /\ store'[u] \in Record

Bootstrap ==
    \E u \in User :
        /\ store = NoStore
        /\ Hashed(u)
        /\ store' = [EmptyStore EXCEPT ![u] = NewRecord("admin", "high", store'[u].hash)]
        /\ UNCHANGED <<session, clock>>

Create(u) ==
    /\ ~ Has(store, u)
    /\ Hashed(u)
    /\ Sets(u, NewRecord(store'[u].role, store'[u].clearance, store'[u].hash))

Reset(u) ==
    /\ Has(store, u)
    /\ Hashed(u)
    /\ Sets(u, ClearLockout([store[u] EXCEPT !.hash = store'[u].hash]))

Enable(u) == Has(store, u) /\ Sets(u, [store[u] EXCEPT !.status = "active"])

Disable(caller, u) ==
    CanRemove(store, caller, u) /\ Sets(u, [store[u] EXCEPT !.status = "disabled"])

Delete(caller, u) == CanRemove(store, caller, u) /\ Sets(u, NoRecord)

ChangeRole(caller, u) ==
    /\ u # caller
    /\ \E r \in Role :
          CanChangeRole(store, u, r) /\ Sets(u, [store[u] EXCEPT !.role = r])

ChangeClearance(caller, u) ==
    /\ u # caller
    /\ Has(store, u)
    /\ \E c \in Clearance : Sets(u, [store[u] EXCEPT !.clearance = c])

Administer(p) ==
    /\ CallerOf(p) \in ActiveAdmins(store)
    /\ \E u \in User :
          \/ Create(u) \/ Reset(u) \/ Enable(u)
          \/ Disable(CallerOf(p), u) \/ Delete(CallerOf(p), u)
          \/ ChangeRole(CallerOf(p), u) \/ ChangeClearance(CallerOf(p), u)
    /\ UNCHANGED <<session, clock>>

-----------------------------------------------------------------------------

\* The process ends, and its session with it.
Leave(p) ==
    /\ session' = [session EXCEPT ![p] = NoSession]
    /\ UNCHANGED <<store, clock>>

Tick ==
    /\ clock' = clock + 1
    /\ UNCHANGED <<store, session>>

Next ==
    \/ \E p \in Proc : Login(p) \/ Administer(p) \/ Leave(p)
    \/ FailedLogin \/ Bootstrap \/ Tick

Spec == Init /\ [][Next]_<<store, session, clock>>
=============================================================================
