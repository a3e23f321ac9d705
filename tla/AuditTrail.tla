----------------------------- MODULE AuditTrail -----------------------------
(***************************************************************************)
(* What spy/audit_logger.py promises those who read the log: one trail of  *)
(* entries that grows at its end, each entry tied to the one before it     *)
(* unless it openly starts again, and that loses nothing but its oldest    *)
(* part.                                                                   *)
(***************************************************************************)
EXTENDS Naturals, SequencesExt

CONSTANT Genesis  \* what the first entry of a chain points to

VARIABLE trail    \* the entries that can still be read, oldest first

Empty == trail = <<>>

\* An entry, with a hash of its own, at the end.
Add ==
    /\ trail' # <<>> /\ Front(trail') = trail
    /\ LET new == Last(trail') IN
        /\ new.prev \in {Genesis} \cup (IF trail = <<>> THEN {} ELSE {Last(trail).cur})
        /\ \A i \in DOMAIN trail : trail[i].cur # new.cur

\* Rotation removes the oldest entries, never the newest.
Prune == \E n \in 1 .. Len(trail) - 1 : trail' = SubSeq(trail, n + 1, Len(trail))

TrailSpec == Empty /\ [][Add \/ Prune]_trail
=============================================================================
