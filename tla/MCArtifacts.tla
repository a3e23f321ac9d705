----------------------------- MODULE MCArtifacts -----------------------------
(***************************************************************************)
(* Small instances of Artifacts for TLC.                                   *)
(***************************************************************************)
EXTENDS Artifacts

CONSTANTS c1, w1, a1, a2

User(role, clearance, authenticated) ==
    [role |-> role, clearance |-> clearance, authenticated |-> authenticated]

\* An admin, and one whom the command line refuses; an auditor, whom the
\* window refuses.
Office == {User("admin", "high", TRUE), User("analyst", "low", TRUE),
           User("auditor", "low", TRUE)}

\* Two admins, who are cleared for different levels; an analyst, who may only
\* encrypt; somebody who never logged in; nobody.
Callers == {User("admin", "high", TRUE), User("admin", "low", TRUE),
            User("analyst", "high", TRUE), User("admin", "high", FALSE), System}

Context(environment, legacy) ==
    [environment |-> environment, compliance |-> "strict", performance |-> "absent",
     bandwidth |-> "absent", legacy |-> legacy]

\* One that selects ECC, one that selects RSA, and one that is not valid.
MCSignals == {Context("mobile", FALSE), Context("enterprise", TRUE),
              Context("desktop", FALSE)}

\* A command beside a window; agents.
SignersOrAgents == {{c1, w1}, {a1, a2}}
OnlyWindow == {{w1}}
=============================================================================
