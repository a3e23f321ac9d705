------------------------------- MODULE Policy -------------------------------
(***************************************************************************)
(* spy/policy_engine.py and spy/governance_rules.py: which method wraps a  *)
(* data key, and which keys may be used for it.  No state.                 *)
(***************************************************************************)
EXTENDS Integers

Environments == {"mobile", "enterprise", "embedded", "cloud"}
ComplianceLevels == {"strict", "moderate", "none"}
Priorities == {"low", "medium", "high"}

\* A context once its values are in lower case; "absent" is the empty one.
IsValidContext(c) ==
    /\ c.environment \in Environments \cup {"absent"}
    /\ c.compliance \in ComplianceLevels \cup {"absent"}
    /\ c.performance \in Priorities \cup {"absent"}
    /\ c.bandwidth \in Priorities \cup {"absent"}

ValidContext ==
    [environment : Environments \cup {"absent"}, compliance : ComplianceLevels \cup {"absent"},
     performance : Priorities \cup {"absent"}, bandwidth : Priorities \cup {"absent"}, legacy : BOOLEAN]

\* What each signal adds to the score of ECC.
ForEnvironment(e) == IF e \in {"mobile", "embedded"} THEN 3 ELSE IF e = "cloud" THEN 2 ELSE 0
ForPerformance(p) == IF p = "high" THEN 3 ELSE IF p = "medium" THEN 1 ELSE 0
ForBandwidth(b) == IF b = "low" THEN 2 ELSE IF b = "medium" THEN 1 ELSE 0

EccScore(c) ==
    ForEnvironment(c.environment) + ForPerformance(c.performance) + ForBandwidth(c.bandwidth)

RsaScore(c) ==
    (IF c.environment = "enterprise" THEN 2 ELSE 0) + (IF c.legacy THEN 3 ELSE 0)

\* select_encryption_method, of a valid context.
SelectMethod(c) == IF EccScore(c) >= RsaScore(c) THEN "ecc" ELSE "rsa"

\* enforce_all(method, private_key): every key this program makes is large
\* enough, but a key of the other kind has no such size, or no such curve.
Approved(method, kind) == method \in {"rsa", "ecc"} /\ kind \in {method, "no key"}

-----------------------------------------------------------------------------
\* d asks for smaller keys than c, or just as small: the orders in which the
\* signals are meant, apart from the weights they are given.
Pull(p) == IF p = "high" THEN 2 ELSE IF p = "medium" THEN 1 ELSE 0
Narrow(b) == IF b = "low" THEN 2 ELSE IF b = "medium" THEN 1 ELSE 0
AsksForSmaller(c, d) ==
    /\ Pull(d.performance) >= Pull(c.performance)
    /\ Narrow(d.bandwidth) >= Narrow(c.bandwidth)
    /\ d.legacy => c.legacy
    /\ \/ d.environment = c.environment
       \/ d.environment \in {"mobile", "embedded"} /\ c.environment \in {"cloud", "absent", "enterprise"}
       \/ c.environment = "enterprise"

\* select_encryption_method: a signal that asks for smaller keys never turns
\* ECC into RSA, and the compliance level never matters.
MethodMonotone ==
    \A c, d \in ValidContext :
        AsksForSmaller(c, d) /\ SelectMethod(c) = "ecc" => SelectMethod(d) = "ecc"
=============================================================================
