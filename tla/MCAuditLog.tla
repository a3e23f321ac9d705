------------------------------ MODULE MCAuditLog ------------------------------
(***************************************************************************)
(* Small instances of AuditReport for TLC: one or two processes, files of  *)
(* two or three lines, one or two backups.                                 *)
(***************************************************************************)
EXTENDS AuditReport, TLC

CONSTANTS p1, p2

Symmetry == Permutations(Proc)

\* Bounds: nothing after a line is garbled for good, of which the properties
\* say nothing; writes fail during the first events only.
Legible == ~ Garbled
EarlyFailures ==
    \A p \in Proc : buf'[p] \notin {NoLine, buf[p]} => events <= 2
=============================================================================
