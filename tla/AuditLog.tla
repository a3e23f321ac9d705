------------------------------- MODULE AuditLog -------------------------------
(***************************************************************************)
(* spy/audit_logger.py: processes append hash-chained entries to one log   *)
(* file, which a RotatingFileHandler renames when it is full.              *)
(*                                                                         *)
(* log_event() reads the last hash of the file, then writes an entry that  *)
(* points to it; nothing holds other processes off in between, and each    *)
(* process writes through a stream of its own that follows the file when   *)
(* somebody else renames it.  A hash is abstracted to a number that no two *)
(* entries share (a hash covers the timestamp and the previous hash); the  *)
(* log is a sequence of files, the newest last, and a file a sequence of   *)
(* lines of equal size.  A file that is absent and one that is empty are   *)
(* the same to every reader, and are not told apart.                       *)
(***************************************************************************)
EXTENDS Naturals, SequencesExt

CONSTANTS
    Proc,         \* operating-system processes
    Capacity,     \* _MAX_BYTES, in lines
    BackupCount,  \* _BACKUP_COUNT
    Faults,       \* which failures happen: "kill", "fail", "torn"
    MaxEvents,    \* bound on the calls of log_event
    NoFile,       \* stream not opened yet
    NoLine        \* nothing left in the stream's buffer

ASSUME AuditLogAssumption ==
    /\ Capacity \in Nat /\ Capacity >= 2
    /\ BackupCount \in Nat \ {0}
    /\ Faults \subseteq {"kill", "fail", "torn"}
    /\ MaxEvents \in Nat
    /\ NoFile \notin Nat

Genesis == 0

\* "torn" is a line cut short and not yet ended: what is written next joins
\* it.  "corrupt" is an ended line that does not parse.
Kinds == {"event", "recovery", "rotation", "torn", "corrupt"}
Line == [kind : Kinds, cur : Nat, prev : Nat]
Whole(l) == l.kind \notin {"torn", "corrupt"}
Corrupt == [kind |-> "corrupt", cur |-> Genesis, prev |-> Genesis]
Torn(id) == [kind |-> "torn", cur |-> id, prev |-> Genesis]

VARIABLES
    content,  \* every file created so far, by number
    names,    \* the files that have a name, oldest first; the last is the log
    stream,   \* the file each process has open
    buf,      \* what a failed write left in the stream's buffer
    pc,       \* where each process is in log_event
    what,     \* the entry being written: "recovery" or "event"
    prev,     \* previous_hash of the entry to write
    hash,     \* current_hash computed for the entry
    next,     \* the next unused hash
    events,   \* calls of log_event so far
    acked     \* history: hash of every event whose log_event returned

vars == <<content, names, stream, buf, pc, what, prev, hash, next, events, acked>>

Locations == {"idle", "emit", "write", "append", "rollover", "sentinel", "rechain"}
Pending == [line : Line, cut : BOOLEAN]

ASSUME NoLineAssumption == NoLine \notin Pending

TypeOK ==
    /\ content \in Seq(Seq(Line)) /\ content # <<>>
    /\ names \in Seq(DOMAIN content) /\ Len(names) \in 1 .. BackupCount + 1
    /\ stream \in [Proc -> DOMAIN content \cup {NoFile}]
    /\ buf \in [Proc -> Pending \cup {NoLine}]
    /\ pc \in [Proc -> Locations]
    /\ what \in [Proc -> {"recovery", "event"}]
    /\ prev \in [Proc -> Nat] /\ hash \in [Proc -> Nat]
    /\ next \in Nat /\ events \in 0 .. MaxEvents
    /\ acked \subseteq Nat

Init ==
    /\ content = << <<>> >>
    /\ names = <<1>>
    /\ stream = [p \in Proc |-> NoFile]
    /\ buf = [p \in Proc |-> NoLine]
    /\ pc = [p \in Proc |-> "idle"]
    /\ what = [p \in Proc |-> "event"]
    /\ prev = [p \in Proc |-> Genesis]
    /\ hash = [p \in Proc |-> Genesis]
    /\ next = 1
    /\ events = 0
    /\ acked = {}

Log == content[Last(names)]

-----------------------------------------------------------------------------
(* Reading the tail *)

WholeLines(s) == {i \in DOMAIN s : Whole(s[i])}

\* _read_last_hash: the hash of the last line that parses, and whether lines
\* that do not were skipped to find it.
LastHash(s) == IF WholeLines(s) = {} THEN Genesis ELSE s[Max(WholeLines(s))].cur
WasRecovered(s) == s # <<>> /\ ~ Whole(Last(s))

-----------------------------------------------------------------------------
(* Writing: what reaches the file *)

EndsTorn(s) == s # <<>> /\ Last(s).kind = "torn"
ReplaceLast(s, l) == Append(Front(s), l)

\* A whole line, the start of a line, and the rest of a line begun earlier.
Put(s, l) == IF EndsTorn(s) THEN ReplaceLast(s, Corrupt) ELSE Append(s, l)
PutStart(s, l) ==
    IF EndsTorn(s) THEN ReplaceLast(s, Torn(Genesis)) ELSE Append(s, Torn(l.cur))
PutRest(s, l) ==
    IF EndsTorn(s)
    THEN ReplaceLast(s, IF Last(s).cur = l.cur THEN l ELSE Corrupt)
    ELSE Append(s, Corrupt)

\* The stream's file once the buffer has been flushed.
File(p) == IF stream[p] = NoFile THEN Last(names) ELSE stream[p]
Flushed(p) ==
    LET s == content[File(p)] IN
    IF buf[p] = NoLine THEN s
    ELSE IF buf[p].cut THEN PutRest(s, buf[p].line) ELSE Put(s, buf[p].line)

\* Writing line l after s: all of it, or (the disk is full) none of it or its
\* start, and then the stream keeps the rest in its buffer.
WriteOk(p, s, l) ==
    /\ content' = [content EXCEPT ![File(p)] = Put(s, l)]
    /\ buf' = [buf EXCEPT ![p] = NoLine]

WriteFails(p, s, l) ==
    \/ /\ "fail" \in Faults
       /\ content' = [content EXCEPT ![File(p)] = s]
       /\ buf' = [buf EXCEPT ![p] = [line |-> l, cut |-> FALSE]]
    \/ /\ "torn" \in Faults
       /\ content' = [content EXCEPT ![File(p)] = PutStart(s, l)]
       /\ buf' = [buf EXCEPT ![p] = [line |-> l, cut |-> TRUE]]

-----------------------------------------------------------------------------
(* log_event *)

Goto(p, where) == pc' = [pc EXCEPT ![p] = where]

\* log_event returns or raises, and its local variables are gone.
Leave(p) ==
    /\ Goto(p, "idle")
    /\ what' = [what EXCEPT ![p] = "event"]
    /\ prev' = [prev EXCEPT ![p] = Genesis]
    /\ hash' = [hash EXCEPT ![p] = Genesis]

\* Read the last hash; a corrupt tail is documented by a recovery entry first.
ReadTail(p) ==
    /\ pc[p] = "idle" /\ events < MaxEvents
    /\ events' = events + 1
    /\ prev' = [prev EXCEPT ![p] = LastHash(Log)]
    /\ what' = [what EXCEPT ![p] = IF WasRecovered(Log) THEN "recovery" ELSE "event"]
    /\ Goto(p, "emit")
    /\ UNCHANGED <<content, names, stream, buf, hash, next, acked>>

\* The handler is done with entry id (StreamHandler.emit reports a failed
\* write on stderr and returns): the event follows a recovery entry, pointing
\* to the hash computed for that entry, and log_event returns after an event.
Emitted(p, id, computed) ==
    IF what[p] = "recovery"
    THEN /\ what' = [what EXCEPT ![p] = "event"]
         /\ prev' = [prev EXCEPT ![p] = computed]
         /\ hash' = [hash EXCEPT ![p] = Genesis]
         /\ Goto(p, "emit")
         /\ UNCHANGED acked
    ELSE acked' = acked \cup {id} /\ Leave(p)

\* shouldRollover seeks to the end of the stream, which flushes its buffer.
ShouldRollover(p) == Len(Flushed(p)) + 1 > Capacity

\* emit() finds that the entry fits, and leaves the rest to the handler.
Fits(p) ==
    /\ pc[p] = "emit" /\ ~ ShouldRollover(p)
    /\ content' = [content EXCEPT ![File(p)] = Flushed(p)]
    /\ buf' = [buf EXCEPT ![p] = NoLine]
    /\ stream' = [stream EXCEPT ![p] = File(p)]
    /\ Goto(p, "write")
    /\ UNCHANGED <<names, what, prev, hash, next, events, acked>>

\* The handler asks again before it writes: others may have written since,
\* and then it rotates the log itself (RolloverUnmarked).
Outgrown(p) == pc[p] = "write" /\ ShouldRollover(p)

Emit(p) ==
    /\ pc[p] \in {"write", "append"} /\ ~ Outgrown(p)
    /\ LET l == [kind |-> what[p], cur |-> next, prev |-> prev[p]] IN
        WriteOk(p, Flushed(p), l) \/ WriteFails(p, Flushed(p), l)
    /\ next' = next + 1
    /\ Emitted(p, next, next)
    /\ UNCHANGED <<names, stream, events>>

\* The buffer cannot be flushed: seek raises, and so does log_event.
FlushFails(p) ==
    /\ pc[p] = "emit" /\ buf[p] # NoLine
    /\ "fail" \in Faults
    /\ Leave(p)
    /\ UNCHANGED <<content, names, stream, buf, next, events, acked>>

-----------------------------------------------------------------------------
(* Rotation: emit() when the entry does not fit *)

\* Bug: the sentinel points to the entry that set off the rotation.
ReadOwnHashForRotation(p) ==
    /\ pc[p] = "emit" /\ ShouldRollover(p)
    /\ content' = [content EXCEPT ![File(p)] = Flushed(p)]
    /\ buf' = [buf EXCEPT ![p] = NoLine]
    /\ hash' = [hash EXCEPT ![p] = next]
    /\ next' = next + 1
    /\ prev' = [prev EXCEPT ![p] = next]
    /\ stream' = [stream EXCEPT ![p] = File(p)]
    /\ Goto(p, "rollover")
    /\ UNCHANGED <<names, what, events, acked>>

\* The sentinel will point to the last hash of the log as it is now.
ReadForRotation(p) ==
    /\ pc[p] = "emit" /\ ShouldRollover(p)
    /\ content' = [content EXCEPT ![File(p)] = Flushed(p)]
    /\ buf' = [buf EXCEPT ![p] = NoLine]
    /\ hash' = [hash EXCEPT ![p] = next]
    /\ next' = next + 1
    /\ prev' = [prev EXCEPT ![p] = LastHash(content'[Last(names)])]
    /\ stream' = [stream EXCEPT ![p] = File(p)]
    /\ Goto(p, "rollover")
    /\ UNCHANGED <<names, what, events, acked>>

\* doRollover, from here or from the handler, first removes the oldest backup
\* when all are taken.
Rotating(p) == pc[p] = "rollover" \/ Outgrown(p)

\* Bug: the newest backup is removed.
RemoveNewest(p) ==
    /\ Rotating(p) /\ Len(names) > BackupCount
    /\ names' = RemoveAt(names, Len(names) - 1)
    /\ UNCHANGED <<content, stream, buf, pc, what, prev, hash, next, events, acked>>

RemoveOldest(p) ==
    /\ Rotating(p) /\ Len(names) > BackupCount
    /\ names' = Tail(names)
    /\ UNCHANGED <<content, stream, buf, pc, what, prev, hash, next, events, acked>>

\* Bug: it does not matter how many backups there are.
RenameKeepingAll(p) ==
    /\ content' = Append(content, <<>>)
    /\ names' = Append(names, Len(content'))
    /\ stream' = [stream EXCEPT ![p] = Len(content')]
    /\ UNCHANGED <<buf, what, prev, hash, next, events, acked>>

\* Then every file moves up one name, the log becomes a backup, and a new file
\* takes its name.
Rename(p) ==
    /\ Len(names) <= BackupCount
    /\ content' = Append(content, <<>>)
    /\ names' = Append(names, Len(content'))
    /\ stream' = [stream EXCEPT ![p] = Len(content')]
    /\ UNCHANGED <<buf, what, prev, hash, next, events, acked>>

Rollover(p) == pc[p] = "rollover" /\ Rename(p) /\ Goto(p, "sentinel")

\* Without a sentinel, and the entry follows as it is.
RolloverUnmarked(p) == Outgrown(p) /\ Rename(p) /\ Goto(p, "append")

\* Bug: the entry keeps the place in the chain it had before the rotation.
WriteSentinelAside(p) ==
    /\ pc[p] = "sentinel"
    /\ LET s == content[stream[p]]
           l == [kind |-> "rotation", cur |-> next, prev |-> prev[p]]
       IN  \/ /\ WriteOk(p, s, l) /\ Goto(p, "rechain")
              /\ UNCHANGED <<what, prev, hash>>
           \/ WriteFails(p, s, l) /\ Leave(p)
    /\ next' = next + 1
    /\ UNCHANGED <<names, stream, events, acked>>

\* The sentinel is written outside StreamHandler.emit: a failure raises.
WriteSentinel(p) ==
    /\ pc[p] = "sentinel"
    /\ LET s == content[stream[p]]
           l == [kind |-> "rotation", cur |-> next, prev |-> prev[p]]
       IN  \/ /\ WriteOk(p, s, l) /\ Goto(p, "rechain")
              /\ prev' = [prev EXCEPT ![p] = next]
              /\ UNCHANGED <<what, hash>>
           \/ WriteFails(p, s, l) /\ Leave(p)
    /\ next' = next + 1
    /\ UNCHANGED <<names, stream, events, acked>>

\* Bug: the handler rotates and does not write the entry that set it off.
WriteRechainedLost(p) ==
    /\ pc[p] = "rechain"
    /\ next' = next + 1
    /\ Emitted(p, next, hash[p])
    /\ UNCHANGED <<content, buf, names, stream, events>>

\* The entry is hashed again so that it follows the sentinel.  The hash that
\* log_event computed for it, hash[p], is not updated.
WriteRechained(p) ==
    /\ pc[p] = "rechain"
    /\ LET s == content[stream[p]]
           l == [kind |-> what[p], cur |-> next, prev |-> prev[p]]
       IN  WriteOk(p, s, l) \/ WriteFails(p, s, l)
    /\ next' = next + 1
    /\ Emitted(p, next, hash[p])
    /\ UNCHANGED <<names, stream, events>>

-----------------------------------------------------------------------------
(* The environment *)

Close(p) ==
    /\ stream' = [stream EXCEPT ![p] = NoFile]
    /\ buf' = [buf EXCEPT ![p] = NoLine]
    /\ Leave(p)
    /\ UNCHANGED <<next, events, acked>>

\* logging.shutdown flushes the stream when the process ends in good order.
Exit(p) ==
    /\ pc[p] = "idle" /\ stream[p] # NoFile
    /\ content' = [content EXCEPT ![stream[p]] = Flushed(p)]
    /\ Close(p)
    /\ UNCHANGED names

\* Otherwise what is in the buffer is lost, at whatever step the process was.
Kill(p) ==
    /\ "kill" \in Faults
    /\ pc[p] # "idle" \/ buf[p] # NoLine
    /\ Close(p)
    /\ UNCHANGED <<content, names>>

Step(p) ==
    \/ ReadTail(p) \/ Fits(p) \/ Emit(p) \/ FlushFails(p)
    \/ ReadForRotation(p) \/ RemoveOldest(p) \/ Rollover(p) \/ RolloverUnmarked(p)
    \/ WriteSentinel(p) \/ WriteRechained(p)
    \/ Exit(p) \/ Kill(p)

Next == \E p \in Proc : Step(p)

Spec == Init /\ [][Next]_vars

-----------------------------------------------------------------------------
(* verify_chain *)

\* _discover_log_files: oldest first.  A file without content is passed over.
Files == [i \in DOMAIN names |-> content[names[i]]]

\* _verify_log_file, after the first entry.
Linked(s) ==
    /\ \A i \in DOMAIN s : Whole(s[i])
    /\ \A i \in 2 .. Len(s) : s[i].prev = s[i - 1].cur

\* Bug: every file is verified on its own.
VerifiesEach(fs) == \A i \in DOMAIN fs : Linked(fs[i])

\* The last file before fs[k] that has content, if there is one.
Before(fs, k) == {i \in 1 .. k - 1 : fs[i] # <<>> /\ \A j \in i + 1 .. k - 1 : fs[j] = <<>>}

\* The first entry of a file continues the file before it or, an epoch,
\* starts again at GENESIS; the oldest file may start anywhere.
Verifies(fs) ==
    /\ \A i \in DOMAIN fs : Linked(fs[i])
    /\ \A k \in DOMAIN fs : fs[k] # <<>> =>
          \A i \in Before(fs, k) : fs[k][1].prev \in {Genesis, Last(fs[i]).cur}

Epochs(fs) ==
    {k \in DOMAIN fs : fs[k] # <<>> /\ Before(fs, k) # {} /\ fs[k][1].prev = Genesis}

\* All entries that can still be read, oldest first.
Trail == FlattenSeq(Files)

\* Every line ever written, deleted backups included.
AllLines == UNION {Range(content[i]) : i \in DOMAIN content}

-----------------------------------------------------------------------------
(* Properties *)

\* AuditLogger: entries form one chain that check_chain() verifies, across
\* rotations, from GENESIS.
ChainSound == Verifies(Files)

\* AuditTrail, of the entries that can be read: log_event() and the rotating
\* handler, killed anywhere, never reorder, alter or lose what was written,
\* but for the oldest entries.
Readable == INSTANCE AuditTrail WITH trail <- Trail
OneTrail == Readable!TrailSpec

\* Tamper evidence: take any entry out of a log without restarts, and the
\* chain no longer verifies; only the two ends are not covered (history that
\* was pruned, entries cut off the end).
RemovalDetected ==
    LET fs == Files IN
    Epochs(fs) = {} =>
        \A i \in DOMAIN fs : \A j \in DOMAIN fs[i] :
            \/ j = 1 /\ Before(fs, i) = {}
            \/ j = Len(fs[i]) /\ \A k \in i + 1 .. Len(fs) : fs[k] = <<>>
            \/ ~ Verifies([fs EXCEPT ![i] = RemoveAt(@, j)])

\* Some line will never parse: the rest of it went elsewhere, or is lost.
Garbled ==
    \E l \in AllLines :
        \/ l.kind = "corrupt"
        \/ /\ l.kind = "torn"
           /\ ~ \E p \in Proc : buf[p] # NoLine /\ buf[p].cut /\ buf[p].line.cur = l.cur

\* A failed write alone loses no event: it stays in the stream's buffer and
\* is written with the next entry, at the latest when the process ends.  An
\* event that is lost for good, because its line was cut short and another
\* process wrote on, leaves a line that does not parse.
NothingForgotten ==
    \A id \in acked :
        \/ \E l \in AllLines : Whole(l) /\ l.cur = id
        \/ \E p \in Proc : buf[p] # NoLine /\ buf[p].line.cur = id
        \/ Garbled

\* Processes that log at the same time can fork the chain but not break it
\* off: the entry that an entry points to exists.  (An entry can point to one
\* that was garbled, or to the first hash of a recovery entry that set off a
\* rotation and was hashed again.)
Recovered == \E l \in AllLines : l.kind = "recovery"
NoDanglingLink ==
    \A l \in AllLines :
        Whole(l) => \/ l.prev = Genesis
                    \/ \E k \in AllLines : Whole(k) /\ k.cur = l.prev
                    \/ Recovered \/ Garbled
=============================================================================
