----------------------------- MODULE AuditReport -----------------------------
(***************************************************************************)
(* verify_chain() of spy/audit_logger.py, while the log is being written.  *)
(* It looks for the files one name at a time, and then reads each file     *)
(* twice, by name: its first entry, to see where the file joins the chain, *)
(* and all of it.  A rotation in between gives the names to other files.   *)
(***************************************************************************)
EXTENDS AuditLog

CONSTANT MaxReports  \* bound on the calls of verify_chain

ASSUME AuditReportAssumption == MaxReports \in Nat

VARIABLES
    report,   \* the verification under way, or the last one
    reports   \* calls of verify_chain so far

reportVars == <<report, reports>>

NoReport ==
    [at |-> "done", look |-> 0, files |-> <<>>, index |-> 1, expected |-> Genesis,
     ok |-> FALSE, truncated |-> FALSE, epochs |-> 0, covered |-> {},
     asked |-> {}, rotated |-> TRUE]

ReportInit == Init /\ report = NoReport /\ reports = 0

\* The file that has a name now: base is name 0, base.n is name n.
Path(n) == IF n < Len(names) THEN content[names[Len(names) - n]] ELSE <<>>

\* History: what had been acknowledged, and whether a rotation is under way
\* at any time of the verification (its files change names one by one).
UnderWay == \E p \in Proc : Rotating(p)

StartReport ==
    /\ report.at = "done" /\ reports < MaxReports
    /\ reports' = reports + 1
    /\ report' = [NoReport EXCEPT !.at = "look", !.look = BackupCount,
                                  !.asked = acked, !.rotated = UnderWay]

\* Bug: the oldest backup is not looked for.
LookBelow ==
    /\ report.at = "look"
    /\ LET n == report.look
           found == IF Path(n) # <<>> /\ n # BackupCount
                    THEN Append(report.files, n) ELSE report.files
       IN  report' = [report EXCEPT
               !.files = found, !.look = IF n = 0 THEN 0 ELSE n - 1,
               !.ok = n = 0 /\ found = <<>>,
               !.at = IF n > 0 THEN "look" ELSE IF found = <<>> THEN "done" ELSE "first"]
    /\ UNCHANGED reports

\* _discover_log_files: one name, passed over when it has no file or an empty
\* one.  Without any file the chain is empty and fine.
Look ==
    /\ report.at = "look"
    /\ LET n == report.look
           found == IF Path(n) # <<>> THEN Append(report.files, n) ELSE report.files
       IN  report' = [report EXCEPT
               !.files = found, !.look = IF n = 0 THEN 0 ELSE n - 1,
               !.ok = n = 0 /\ found = <<>>,
               !.at = IF n > 0 THEN "look" ELSE IF found = <<>> THEN "done" ELSE "first"]
    /\ UNCHANGED reports

\* Bug: a later file that starts again is a break.
RestartsNever(s) == FALSE

\* Where the file joins the chain.  The oldest may start anywhere, which is
\* reported as truncated history, a later one at GENESIS, as an epoch.
Joins(s) == s # <<>> /\ Whole(s[1]) /\ s[1].prev # report.expected
Shortens(s) == report.index = 1 /\ Joins(s)
Restarts(s) == report.index > 1 /\ Joins(s) /\ s[1].prev = Genesis

\* Bug: the oldest file is the beginning of the chain wherever it starts.
ReadFirstQuietly ==
    /\ report.at = "first"
    /\ LET s == Path(report.files[report.index])
       IN  report' = [report EXCEPT
               !.at = "read",
               !.epochs = IF Restarts(s) THEN @ + 1 ELSE @,
               !.expected = IF Shortens(s) \/ Restarts(s) THEN s[1].prev ELSE @]
    /\ UNCHANGED reports

ReadFirst ==
    /\ report.at = "first"
    /\ LET s == Path(report.files[report.index])
       IN  report' = [report EXCEPT
               !.at = "read",
               !.truncated = @ \/ Shortens(s),
               !.epochs = IF Restarts(s) THEN @ + 1 ELSE @,
               !.expected = IF Shortens(s) \/ Restarts(s) THEN s[1].prev ELSE @]
    /\ UNCHANGED reports

\* _verify_log_file: the file is there, and every line parses and follows the
\* one before.
ReadFile ==
    /\ report.at = "read"
    /\ LET s == Path(report.files[report.index])
           sound == /\ report.files[report.index] < Len(names)
                    /\ Linked(s) /\ (s = <<>> \/ s[1].prev = report.expected)
           ends == ~ sound \/ report.index = Len(report.files)
       IN  report' = [report EXCEPT
               !.at = IF ends THEN "done" ELSE "first",
               !.ok = sound /\ ends,
               !.index = IF ends THEN @ ELSE @ + 1,
               !.expected = IF sound /\ s # <<>> THEN Last(s).cur ELSE @,
               !.covered = IF sound THEN @ \cup {s[i].cur : i \in DOMAIN s} ELSE @]
    /\ UNCHANGED reports

LogStep ==
    /\ Next
    /\ report' = [report EXCEPT !.rotated = @ \/ UnderWay']
    /\ UNCHANGED reports

ReportStep == (StartReport \/ Look \/ ReadFirst \/ ReadFile) /\ UNCHANGED vars

ReportSpec == ReportInit /\ [][LogStep \/ ReportStep]_<<vars, reportVars>>

-----------------------------------------------------------------------------
(* Properties *)

\* verify_chain(): a log that one process writes is reported as broken only
\* if a rotation was under way while it was read; kills and restarts alone never
\* do that.
AlarmOnlyIfRotated == report.at = "done" /\ ~ report.ok => report.rotated

\* "ok": what was logged when the verification began, and is still in some
\* file, has been verified.
ReportComplete ==
    report.at = "done" /\ report.ok /\ ~ report.rotated =>
        \A i \in DOMAIN Trail : Trail[i].cur \in report.asked => Trail[i].cur \in report.covered

\* An epoch whose beginning is the oldest entry left; see HistoryLossReported.
RestartPruned ==
    \E i \in 1 .. names[1] - 1 : content[i + 1] # <<>> /\ content[i + 1][1].prev = Genesis

\* history_truncated: events that were logged and have been removed are
\* reported, except those whose removal leaves an epoch as the oldest file,
\* which looks like the beginning of it all.
HistoryLossReported ==
    report.at = "done" /\ report.ok /\ ~ report.rotated /\ ~ report.truncated =>
        report.asked \subseteq report.covered \/ RestartPruned
=============================================================================
