------------------------------- MODULE Access -------------------------------
(***************************************************************************)
(* Who may do what to which data: spy/auth_engine.py, the classification   *)
(* of spy/policy_engine.py, and the classification the file engine gives   *)
(* to what it encrypts.  No state: modules of the engines that ask for an  *)
(* authorization extend this one.                                          *)
(***************************************************************************)
EXTENDS Integers

CONSTANT System     \* user=None: a call on behalf of no user

Level == {"low", "medium", "high"}
Rank == [low |-> 1, medium |-> 2, high |-> 3]

Permissions ==
    [admin   |-> {"encrypt", "decrypt", "rotate_keys", "rewrap", "sign", "verify",
                  "verify_audit", "export_logs"},
     analyst |-> {"encrypt", "decrypt"},
     auditor |-> {"view_logs", "verify_audit", "export_logs"},
     guest   |-> {}]

\* A User object as the engines see it; the store admits no guest, and a
\* session always has authenticated set, but a library caller may differ.
Person == [role : {"admin", "analyst", "auditor", "guest"}, clearance : Level,
           authenticated : BOOLEAN]
Caller == Person \cup {System}

ASSUME AccessAssumption == System \notin Person

\* AuthorizationEngine.authorize: nobody, in particular not System, is
\* authorized without authentication, permission and clearance.
Authorize(u, action, c) ==
    /\ u # System
    /\ u.authenticated
    /\ action \in Permissions[u.role]
    /\ Rank[u.clearance] >= Rank[c]

\* determine_classification, from the signals the caller gives.
DetermineClassification(signals) ==
    IF "sensitive" \in signals THEN "high"
    ELSE IF "internal" \in signals THEN "medium"
    ELSE "low"

\* No write-down: what a user encrypts is classified at least as high as the
\* user is cleared, and what the system encrypts is high.
DataClassification(u, signals) ==
    LET policy == DetermineClassification(signals)
        clearance == IF u = System THEN "high" ELSE u.clearance
    IN  IF Rank[clearance] >= Rank[policy] THEN clearance ELSE policy
=============================================================================
