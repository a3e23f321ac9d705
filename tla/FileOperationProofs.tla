------------------------- MODULE FileOperationProofs -------------------------
(***************************************************************************)
(* More proofs about FileCrypto: what an operation returns is what the log *)
(* says of it, whoever uses the files; and if one process encrypts and     *)
(* rewraps them, it deletes no original before its container opens to it,  *)
(* and a rewrap keeps the document.                                        *)
(***************************************************************************)
EXTENDS FileCryptoProofs

-----------------------------------------------------------------------------
(* The invariant: no event before the last step, but for a rewrap, which   *)
(* logs its success before it replaces the container.                      *)

NoSuccess(s) == \A i \in DOMAIN s : s[i].outcome # "success"

AccountedBy(p) ==
    /\ result[p] = "ok" => events[p] = <<Entry(job[p].user, "success")>>
    /\ result[p] = "failed" /\ job[p].op # "rewrap" => NoSuccess(events[p])

Rewrapping == {"ropen", "rheader", "rbody", "copy", "rewrapped", "replace"}
Final == {"idle", "replace"}

EventsInv(p) ==
    /\ pc[p] \notin Final => events[p] = <<>>
    /\ pc[p] = "replace" => events[p] = <<Entry(job[p].user, "success")>>
    /\ pc[p] \in Rewrapping => job[p].op = "rewrap"
    /\ pc[p] = "idle" => AccountedBy(p)

LEMMA InitEvents == Init => \A p \in Proc : EventsInv(p)
  BY DEF Init, EventsInv, AccountedBy, Final, Rewrapping, NoJob

-----------------------------------------------------------------------------
(* What a step can do to the events *)

LEMMA EntryParts ==
    ASSUME NEW u, NEW o
    PROVE  Entry(u, o).user = u /\ Entry(u, o).outcome = o
  BY DEF Entry

LEMMA KeptNoSuccess ==
    ASSUME NEW entries \in Seq(Event), NoSuccess(entries), NEW kept \in Kept(entries)
    PROVE  NoSuccess(kept)
  <1>1. kept \in {<<>>, entries} \/ \E i \in DOMAIN entries : kept = <<entries[i]>>
    BY DEF Kept
  <1>2. CASE kept = <<>>
    BY <1>2 DEF NoSuccess
  <1>3. CASE kept = entries
    BY <1>3
  <1>4. CASE \E i \in DOMAIN entries : kept = <<entries[i]>>
    BY <1>4 DEF NoSuccess
  <1>. QED BY <1>1, <1>2, <1>3, <1>4

\* A call logs into a list that was empty.
LEMMA LogFirst ==
    ASSUME TypeOK, NEW p \in Proc, events[p] = <<>>, NEW entries \in Seq(Event),
           Log(p, entries)
    PROVE  events'[p] = entries
  <1>1. events'[p] = <<>> \o entries
    BY DEF TypeOK, Log
  <1>. QED BY <1>1, ConcatEmptySeq

LEMMA ReturnEvents ==
    ASSUME TypeOK, NEW p \in Proc, NEW how, Return(p, how),
           how = "ok" => events'[p] = <<Entry(job[p].user, "success")>>,
           how = "failed" /\ job[p].op # "rewrap" => NoSuccess(events'[p])
    PROVE  EventsInv(p)'
  <1>1. pc'[p] = "idle" /\ result'[p] = how /\ job'[p] = Over(job[p])
    BY DEF TypeOK, Return, Goto
  <1>2. job'[p].op = job[p].op /\ job'[p].user = job[p].user
    BY <1>1 DEF Over, NoJob
  <1>. QED BY <1>1, <1>2 DEF EventsInv, AccountedBy, Final, Rewrapping

LEMMA FailEvents ==
    ASSUME TypeOK, NEW p \in Proc, EventsInv(p), pc[p] \notin Final,
           NEW entries \in Seq(Event), NoSuccess(entries), Fail(p, entries)
    PROVE  EventsInv(p)'
  <1>1. PICK kept \in Kept(entries) : Log(p, kept)
    BY DEF Fail
  <1>2. events'[p] = kept
    BY <1>1, KeptType, LogFirst DEF EventsInv
  <1>3. NoSuccess(events'[p])
    BY <1>2, KeptNoSuccess
  <1>4. Return(p, "failed")
    BY DEF Fail
  <1>. QED BY <1>3, <1>4, ReturnEvents

LEMMA QuietEvents ==
    ASSUME TypeOK, NEW p \in Proc, EventsInv(p), pc[p] # "idle",
           NEW how \in {"failed", "interrupted"}, Return(p, how), UNCHANGED events
    PROVE  EventsInv(p)'
  <1>1. CASE pc[p] = "replace"
    BY <1>1, ReturnEvents DEF EventsInv, Rewrapping
  <1>2. CASE pc[p] \notin Final
    <2>1. NoSuccess(events'[p])
      BY <1>2 DEF EventsInv, NoSuccess
    <2>. QED BY <2>1, ReturnEvents
  <1>. QED BY <1>1, <1>2 DEF Final

\* The operation goes on, and has not logged anything.
LEMMA GoesOn ==
    ASSUME NEW p \in Proc, EventsInv(p), pc[p] \notin Final, pc'[p] \notin Final,
           job'[p] = job[p], events'[p] = events[p],
           pc'[p] \in Rewrapping => pc[p] \in Rewrapping
    PROVE  EventsInv(p)'
  BY DEF EventsInv, Final

LEMMA Starts ==
    ASSUME TypeOK, NEW p \in Proc, NEW request, NEW label \in PCs \ Final,
           Start(p, request), Goto(p, label),
           label \in Rewrapping => request.op = "rewrap"
    PROVE  EventsInv(p)'
  <1>1. pc'[p] = label /\ job'[p] = request /\ events'[p] = <<>>
    BY DEF TypeOK, Start, Goto
  <1>. QED BY <1>1 DEF EventsInv, Final

LEMMA OutcomeEntry ==
    ASSUME TypeOK, NEW u \in Caller, NEW o \in {"denied", "error"}
    PROVE  <<Entry(u, o)>> \in Seq(Event) /\ NoSuccess(<<Entry(u, o)>>)
  <1>1. Entry(u, o) \in Event
    BY EntryType
  <1>. QED BY <1>1, EntryParts DEF NoSuccess

-----------------------------------------------------------------------------
(* Every operation *)

LEMMA EncryptFailsEvents ==
    ASSUME TypeOK, NEW p \in Proc, EventsInv(p), pc[p] \notin Final,
           NEW o \in {"denied", "error"}, EncryptFails(p, o)
    PROVE  EventsInv(p)'
  BY JobUser, OutcomeEntry, FailEvents DEF EncryptFails

LEMMA StartEncryptEvents ==
    ASSUME TypeOK, NEW p \in Proc, EventsInv(p), StartEncrypt(p)
    PROVE  EventsInv(p)'
  <1>1. PICK u \in Callers, signals \in Contexts, over \in BOOLEAN, del \in BOOLEAN :
          LET c == DataClassification(u, signals)
              request == [op |-> "encrypt", user |-> u, cls |-> c, over |-> over,
                          del |-> del, key |-> active]
          IN  \/ Start(p, request) /\ Goto(p, "check")
              \/ /\ pc[p] = "idle"
                 /\ job' = [job EXCEPT ![p] = Over(request)]
                 /\ \E kept \in Kept(<<Entry(u, "denied")>>) :
                       events' = [events EXCEPT ![p] = kept]
                 /\ result' = [result EXCEPT ![p] = "failed"]
                 /\ UNCHANGED pc
    BY DEF StartEncrypt
  <1> DEFINE request == [op |-> "encrypt", user |-> u,
                         cls |-> DataClassification(u, signals), over |-> over,
                         del |-> del, key |-> active]
  <1>2. CASE Start(p, request) /\ Goto(p, "check")
    <2>1. "check" \in PCs \ Final /\ "check" \notin Rewrapping
      BY DEF PCs, Final, Rewrapping
    <2>. QED BY <1>2, <2>1, Starts
  <1>3. CASE /\ pc[p] = "idle"
             /\ job' = [job EXCEPT ![p] = Over(request)]
             /\ \E kept \in Kept(<<Entry(u, "denied")>>) :
                   events' = [events EXCEPT ![p] = kept]
             /\ result' = [result EXCEPT ![p] = "failed"]
             /\ UNCHANGED pc
    <2>1. u \in Caller
      BY FileCryptoAssumption
    <2>2. PICK kept \in Kept(<<Entry(u, "denied")>>) : events' = [events EXCEPT ![p] = kept]
      BY <1>3
    <2>3. NoSuccess(kept)
      BY <2>1, OutcomeEntry, KeptNoSuccess
    <2>4. pc'[p] = "idle" /\ result'[p] = "failed" /\ events'[p] = kept
      BY <1>3, <2>2 DEF TypeOK
    <2>. QED BY <2>3, <2>4 DEF EventsInv, AccountedBy, Final, Rewrapping
  <1>. QED BY <1>1, <1>2, <1>3

LEMMA SealingEvents ==
    ASSUME TypeOK, NEW p \in Proc, EventsInv(p),
           \/ CheckOutput(p) \/ OpenOutput(p) \/ OpenFails(p)
           \/ WritePiece(p) \/ WriteFails(p) \/ DeleteOriginal(p)
    PROVE  EventsInv(p)'
  <1>1. pc[p] \in {"check", "open", "write", "delete"} /\ pc[p] \notin Final
    BY DEF CheckOutput, OpenOutput, OpenFails, WritePiece, WriteFails, DeleteOriginal, Final
  <1>2. CASE \E o \in {"denied", "error"} : EncryptFails(p, o)
    BY <1>1, <1>2, EncryptFailsEvents
  <1>3. CASE FailQuietly(p)
    BY <1>1, <1>3, QuietEvents DEF FailQuietly
  <1>4. CASE /\ \E l \in {"open", "write", "delete", "sealed"} : Goto(p, l)
             /\ job'[p] = job[p] /\ events'[p] = events[p]
    <2>1. pc'[p] \in {"open", "write", "delete", "sealed"}
      BY <1>4 DEF Goto, TypeOK
    <2>2. pc'[p] \notin Final /\ pc'[p] \notin Rewrapping
      BY <2>1 DEF Final, Rewrapping
    <2>. QED BY <1>1, <1>4, <2>2, GoesOn
  <1>5. CASE CheckOutput(p)
    BY <1>2, <1>4, <1>5 DEF CheckOutput, local
  <1>6. CASE OpenOutput(p)
    BY <1>4, <1>6 DEF OpenOutput
  <1>7. CASE WritePiece(p)
    BY <1>4, <1>7 DEF WritePiece
  <1>8. CASE DeleteOriginal(p)
    BY <1>3, <1>4, <1>8 DEF DeleteOriginal, local
  <1>. QED BY <1>2, <1>5, <1>6, <1>7, <1>8 DEF OpenFails, WriteFails

LEMMA SuccessEvents ==
    ASSUME TypeOK, NEW p \in Proc, EventsInv(p), pc[p] \notin Final,
           Return(p, "ok"), Log(p, <<Entry(job[p].user, "success")>>)
    PROVE  EventsInv(p)'
  <1>1. events'[p] = <<Entry(job[p].user, "success")>>
    BY JobUser, LogFirst DEF EventsInv
  <1>. QED BY <1>1, ReturnEvents

LEMMA EncryptEvents ==
    ASSUME TypeOK, NEW p \in Proc, EventsInv(p), Encrypt(p)
    PROVE  EventsInv(p)'
  <1>1. CASE LogEncrypted(p)
    <2>1. pc[p] \notin Final
      BY <1>1 DEF LogEncrypted, Final
    <2>. QED BY <1>1, <2>1, EncryptFailsEvents, SuccessEvents DEF LogEncrypted
  <1>. QED BY <1>1, StartEncryptEvents, SealingEvents DEF Encrypt

LEMMA DecryptFailsEvents ==
    ASSUME TypeOK, NEW p \in Proc, EventsInv(p), pc[p] \notin Final, DecryptFails(p)
    PROVE  EventsInv(p)'
  <1> DEFINE u == IF pc[p] = "chunks" THEN job[p].user ELSE System
  <1>1. u \in Caller
    BY JobUser DEF Caller
  <1>2. Fail(p, <<Entry(u, "error")>>)
    BY DEF DecryptFails
  <1>. QED BY <1>1, <1>2, OutcomeEntry, FailEvents

LEMMA AuthorizedEvents ==
    ASSUME TypeOK, NEW p \in Proc, EventsInv(p), Authorized(p)
    PROVE  EventsInv(p)'
  <1> DEFINE u == job[p].user
             two == <<Entry(u, "denied"), Entry(System, "error")>>
  <1>1. u \in Caller /\ System \in Caller
    BY JobUser DEF Caller
  <1>2. pc[p] = "place" /\ pc[p] \notin Final /\ pc[p] \notin Rewrapping
    BY DEF Authorized, Final, Rewrapping
  <1>3. CASE DecryptFails(p)
    BY <1>2, <1>3, DecryptFailsEvents
  <1>4. CASE Fail(p, two)
    <2>1. Entry(u, "denied") \in Event /\ Entry(System, "error") \in Event
      BY <1>1, EntryType
    <2>2. two \in Seq(Event)
      BY <2>1
    <2>3. NoSuccess(two)
      BY EntryParts DEF NoSuccess
    <2>. QED BY <1>2, <1>4, <2>2, <2>3, FailEvents
  <1>5. CASE Fail(p, <<Entry(u, "error")>>)
    BY <1>1, <1>2, <1>5, OutcomeEntry, FailEvents
  <1>6. CASE Goto(p, "chunks") /\ UNCHANGED <<local, tmp, events, result>>
    <2>1. pc'[p] = "chunks" /\ job'[p] = job[p] /\ events'[p] = events[p]
      BY <1>6 DEF TypeOK, Goto, local
    <2>. QED BY <1>2, <2>1, GoesOn DEF Final, Rewrapping
  <1>. QED BY <1>3, <1>4, <1>5, <1>6 DEF Authorized

LEMMA ReopenEvents ==
    ASSUME TypeOK, NEW p \in Proc, EventsInv(p), pc[p] \notin Final,
           NEW label, label \notin Final, Reopen(p, label),
           label \in Rewrapping => pc[p] \in Rewrapping
    PROVE  EventsInv(p)'
  <1>1. CASE FailQuietly(p)
    <2>1. pc[p] # "idle"
      BY DEF Final
    <2>. QED BY <1>1, <2>1, QuietEvents DEF FailQuietly
  <1>2. CASE Goto(p, label) /\ UNCHANGED <<job, hdr, end, tmp, events, result>>
    <2>1. pc'[p] = label
      BY <1>2 DEF TypeOK, Goto
    <2>. QED BY <1>2, <2>1, GoesOn
  <1>. QED BY <1>1, <1>2 DEF Reopen

LEMMA DecryptEvents ==
    ASSUME TypeOK, NEW p \in Proc, EventsInv(p), Decrypt(p)
    PROVE  EventsInv(p)'
  <1>1. CASE StartDecrypt(p)
    <2>1. "dopen" \in PCs \ Final /\ "dopen" \notin Rewrapping
      BY DEF PCs, Final, Rewrapping
    <2>. QED BY <1>1, <2>1, Starts DEF StartDecrypt
  <1>5. CASE OpenInput(p)
    <2>1. pc[p] = "dopen" /\ pc[p] \notin Final
      BY <1>5 DEF OpenInput, Final
    <2>2. "header" \notin Final /\ "header" \notin Rewrapping
      BY DEF Final, Rewrapping
    <2>. QED BY <1>5, <2>1, <2>2, ReopenEvents DEF OpenInput
  <1>2. CASE ReadHeader(p) \/ VerifyBody(p) \/ ReadChunk(p) \/ Publish(p)
    <2>1. pc[p] \in {"header", "body", "chunks", "publish"} /\ pc[p] \notin Final
      BY <1>2 DEF ReadHeader, VerifyBody, ReadChunk, Publish, Final
    <2>2. CASE /\ \E l \in {"body", "place", "chunks", "publish", "released"} : Goto(p, l)
               /\ UNCHANGED <<job, events>>
      <3>1. pc'[p] \in {"body", "place", "chunks", "publish", "released"}
        BY <2>2 DEF TypeOK, Goto
      <3>2. pc'[p] \notin Final /\ pc'[p] \notin Rewrapping
        BY <3>1 DEF Final, Rewrapping
      <3>. QED BY <2>1, <2>2, <3>2, GoesOn
    <2>. QED BY <1>2, <2>1, <2>2, DecryptFailsEvents
             DEF ReadHeader, VerifyBody, ReadChunk, Publish, local
  <1>3. CASE DecryptIOFails(p)
    BY <1>3, QuietEvents DEF DecryptIOFails, FailQuietly
  <1>4. CASE LogDecrypted(p)
    <2>1. pc[p] = "released" /\ pc[p] \notin Final
      BY <1>4 DEF LogDecrypted, Final
    <2>. QED BY <1>4, <2>1, SuccessEvents, QuietEvents DEF LogDecrypted, FailQuietly
  <1>. QED BY <1>1, <1>2, <1>3, <1>4, <1>5, AuthorizedEvents DEF Decrypt

LEMMA RewrapFailsEvents ==
    ASSUME TypeOK, NEW p \in Proc, EventsInv(p), pc[p] \notin Final,
           NEW o \in {"denied", "error"}, RewrapFails(p, o)
    PROVE  EventsInv(p)'
  <1> DEFINE entries == IF Attributable(p) THEN <<Entry(job[p].user, o)>> ELSE <<>>
  <1>1. <<>> \in Seq(Event) /\ NoSuccess(<<>>)
    BY DEF NoSuccess
  <1>2. entries \in Seq(Event) /\ NoSuccess(entries)
    BY <1>1, JobUser, OutcomeEntry
  <1>3. Fail(p, entries)
    BY DEF RewrapFails
  <1>. QED BY <1>2, <1>3, FailEvents

LEMMA RewrapEvents ==
    ASSUME TypeOK, NEW p \in Proc, EventsInv(p), Rewrap(p)
    PROVE  EventsInv(p)'
  <1>1. CASE StartRewrap(p)
    <2>1. "ropen" \in PCs \ Final
      BY DEF PCs, Final
    <2>. QED BY <1>1, <2>1, Starts DEF StartRewrap
  <1>6. CASE OpenOldContainer(p)
    <2>1. pc[p] = "ropen" /\ pc[p] \notin Final /\ pc[p] \in Rewrapping
      BY <1>6 DEF OpenOldContainer, Final, Rewrapping
    <2>2. "rheader" \notin Final
      BY DEF Final
    <2>. QED BY <1>6, <2>1, <2>2, ReopenEvents DEF OpenOldContainer
  <1>2. CASE ReadOldHeader(p) \/ VerifyOldBody(p) \/ CopyPiece(p)
    <2>1. pc[p] \in {"rheader", "rbody", "copy"}
      BY <1>2 DEF ReadOldHeader, VerifyOldBody, CopyPiece
    <2>2. pc[p] \notin Final /\ pc[p] \in Rewrapping
      BY <2>1 DEF Final, Rewrapping
    <2>3. CASE /\ UNCHANGED pc \/ \E l \in {"rbody", "copy", "rewrapped"} : Goto(p, l)
               /\ UNCHANGED <<job, events>>
      <3>1. pc'[p] = pc[p] \/ pc'[p] \in {"rbody", "copy", "rewrapped"}
        BY <2>3 DEF TypeOK, Goto
      <3>2. pc'[p] \notin Final
        BY <2>2, <3>1 DEF Final
      <3>. QED BY <2>2, <2>3, <3>2, GoesOn
    <2>. QED BY <1>2, <2>2, <2>3, RewrapFailsEvents
             DEF ReadOldHeader, VerifyOldBody, CopyPiece, local
  <1>3. CASE LogRewrapped(p)
    <2>1. pc[p] = "rewrapped" /\ pc[p] \notin Final /\ pc[p] \in Rewrapping
      BY <1>3 DEF LogRewrapped, Final, Rewrapping
    <2>2. CASE RewrapFails(p, "error")
      BY <2>1, <2>2, RewrapFailsEvents
    <2>3. CASE /\ Log(p, <<Entry(job[p].user, "success")>>)
               /\ Goto(p, "replace")
               /\ UNCHANGED <<local, tmp, result>>
      <3>1. pc'[p] = "replace" /\ job'[p] = job[p]
        BY <2>3 DEF TypeOK, Goto, local
      <3>2. events'[p] = <<Entry(job[p].user, "success")>>
        BY <2>1, <2>3, JobUser, LogFirst DEF EventsInv
      <3>. QED BY <2>1, <3>1, <3>2 DEF EventsInv, Final, Rewrapping
    <2>. QED BY <1>3, <2>2, <2>3 DEF LogRewrapped
  <1>4. CASE Replace(p)
    <2>1. pc[p] = "replace" /\ UNCHANGED events /\ Return(p, "ok")
      BY <1>4 DEF Replace
    <2>. QED BY <2>1, ReturnEvents DEF EventsInv
  <1>5. CASE RewrapIOFails(p)
    BY <1>5, QuietEvents DEF RewrapIOFails, FailQuietly
  <1>. QED BY <1>1, <1>2, <1>3, <1>4, <1>5, <1>6 DEF Rewrap

-----------------------------------------------------------------------------
(* The theorem *)

Untouched(q) ==
    pc'[q] = pc[q] /\ job'[q] = job[q] /\ events'[q] = events[q] /\ result'[q] = result[q]

LEMMA OthersUntouched ==
    ASSUME TypeOK, NEW p \in Proc, Encrypt(p) \/ Decrypt(p) \/ Rewrap(p) \/ Crash(p),
           NEW q \in Proc \ {p}
    PROVE  Untouched(q)
  <1>1. ASSUME NEW entries, Fail(p, entries) PROVE Untouched(q)
    BY <1>1 DEF Fail, Return, Goto, Log, TypeOK, Untouched
  <1>2. ASSUME NEW how, Return(p, how), UNCHANGED events PROVE Untouched(q)
    BY <1>2 DEF Return, Goto, TypeOK, Untouched
  <1>3. ASSUME NEW how, NEW entries, Return(p, how), Log(p, entries) PROVE Untouched(q)
    BY <1>3 DEF Return, Goto, Log, TypeOK, Untouched
  <1>4. ASSUME NEW l, Goto(p, l), UNCHANGED <<job, events, result>> PROVE Untouched(q)
    BY <1>4 DEF Goto, TypeOK, Untouched
  <1>5. ASSUME NEW l, NEW request, Goto(p, l), Start(p, request) PROVE Untouched(q)
    BY <1>5 DEF Start, Goto, TypeOK, Untouched
  <1>6. CASE Encrypt(p)
    <2>1. CASE StartEncrypt(p)
      BY <1>5, <2>1 DEF StartEncrypt, TypeOK, Untouched
    <2>. QED BY <1>1, <1>2, <1>3, <1>4, <1>6, <2>1
             DEF Encrypt, CheckOutput, OpenOutput, OpenFails, WritePiece, WriteFails,
                 DeleteOriginal, LogEncrypted, EncryptFails, FailQuietly, local
  <1>7. CASE Decrypt(p)
    BY <1>1, <1>2, <1>3, <1>4, <1>5, <1>7
    DEF Decrypt, StartDecrypt, OpenInput, Reopen, ReadHeader, VerifyBody, Authorized,
        ReadChunk, Publish, DecryptIOFails, LogDecrypted, DecryptFails, FailQuietly, local
  <1>8. CASE Rewrap(p)
    <2>1. CASE LogRewrapped(p)
      <3>1. ASSUME NEW l, NEW entries, Goto(p, l), Log(p, entries), UNCHANGED <<job, result>>
            PROVE  Untouched(q)
        BY <3>1 DEF Goto, Log, TypeOK, Untouched
      <3>. QED BY <1>1, <2>1, <3>1 DEF LogRewrapped, RewrapFails, local
    <2>2. CASE CopyPiece(p)
      BY <1>1, <1>4, <2>2 DEF CopyPiece, RewrapFails, local, Untouched
    <2>. QED BY <1>1, <1>2, <1>4, <1>5, <1>8, <2>1, <2>2
             DEF Rewrap, StartRewrap, OpenOldContainer, Reopen, ReadOldHeader,
                 VerifyOldBody, Replace, RewrapIOFails, RewrapFails, FailQuietly, local
  <1>9. CASE Crash(p)
    BY <1>2, <1>9 DEF Crash
  <1>. QED BY <1>6, <1>7, <1>8, <1>9

LEMMA UntouchedStays ==
    ASSUME NEW q \in Proc, EventsInv(q), Untouched(q)
    PROVE  EventsInv(q)'
  BY DEF EventsInv, AccountedBy, NoSuccess, Untouched

LEMMA NextEvents ==
    (TypeOK /\ \A p \in Proc : EventsInv(p)) /\ [Next]_vars => (\A p \in Proc : EventsInv(p))'
  <1> SUFFICES ASSUME TypeOK, \A p \in Proc : EventsInv(p), [Next]_vars
               PROVE  \A p \in Proc : EventsInv(p)'
    OBVIOUS
  <1>1. ASSUME NEW p \in Proc, Encrypt(p) \/ Decrypt(p) \/ Rewrap(p) \/ Crash(p)
        PROVE  \A q \in Proc : EventsInv(q)'
    <2>1. EventsInv(p)'
      <3>1. CASE Crash(p)
        BY <3>1, QuietEvents DEF Crash
      <3>. QED BY <1>1, <3>1, EncryptEvents, DecryptEvents, RewrapEvents
    <2>2. ASSUME NEW q \in Proc \ {p} PROVE EventsInv(q)'
      BY <1>1, OthersUntouched, UntouchedStays
    <2>. QED BY <2>1, <2>2
  <1>2. CASE NewPlain \/ Rotate \/ UNCHANGED vars
    <2>1. \A q \in Proc : Untouched(q)
      BY <1>2 DEF NewPlain, Rotate, vars, local, Untouched
    <2>. QED BY <2>1, UntouchedStays
  <1>. QED BY <1>1, <1>2 DEF Next

\* What every process has logged so far is what its place in the operation,
\* and after it the result, says.
THEOREM EventsInvariance == Spec => [](\A p \in Proc : EventsInv(p))
  <1>1. IInv => TypeOK
    BY DEF IInv
  <1>. QED BY <1>1, InitEvents, NextEvents, FilesInvariance, PTL DEF Spec

\* Each operation has exactly one success event, for its caller, when it
\* returns; an encryption or decryption that raises has none, whatever fails
\* and whoever else uses the files.
THEOREM OperationsAccounted == Spec => []Accounted
  <1>1. (\A p \in Proc : EventsInv(p)) => Accounted
    BY DEF EventsInv, AccountedBy, NoSuccess, Accounted
  <1>. QED BY <1>1, EventsInvariance, PTL

-----------------------------------------------------------------------------
(* One writer.  The shape of a container, piece by piece; s are the data   *)
(* keys there are.                                                         *)

SizeOf(s, d) == Size[s[d].doc]
Body(s, d) == [n \in 1 .. SizeOf(s, d) |-> Chunk(d, n, n = SizeOf(s, d))]
PieceOf(s, h, i) ==
    IF i = 1 THEN h
    ELSE IF i <= SizeOf(s, h.dek) + 1 THEN Chunk(h.dek, i - 1, i - 1 = SizeOf(s, h.dek))
    ELSE Trailer(h, Body(s, h.dek))
Full(s, h) == SizeOf(s, h.dek) + 2

\* f is what has been written so far of the container with header h.
StartOf(s, f, h) ==
    Len(f) <= Full(s, h) /\ \A i \in 1 .. Len(f) : f[i] = PieceOf(s, h, i)

LEMMA ShapeStays ==
    ASSUME NEW s, NEW t, NEW h, t[h.dek] = s[h.dek]
    PROVE  /\ SizeOf(t, h.dek) = SizeOf(s, h.dek) /\ Full(t, h) = Full(s, h)
           /\ \A f : StartOf(s, f, h) => StartOf(t, f, h)
  BY DEF SizeOf, Full, StartOf, PieceOf, Body

LEMMA SizeType ==
    ASSUME TypeOK, NEW d \in DOMAIN sealed
    PROVE  SizeOf(sealed, d) \in Nat \ {0} /\ Chunks(d) = Body(sealed, d)
  BY ChunksType DEF SizeOf, Chunks, Body

LEMMA StartAppend ==
    ASSUME NEW s, NEW h, SizeOf(s, h.dek) \in Nat, NEW f \in Seq(Piece),
           StartOf(s, f, h), Len(f) < Full(s, h),
           NEW x \in Piece, x = PieceOf(s, h, Len(f) + 1)
    PROVE  /\ Append(f, x) \in Seq(Piece) /\ Len(Append(f, x)) = Len(f) + 1
           /\ StartOf(s, Append(f, x), h)
  <1> DEFINE g == Append(f, x)
             P == Piece
  <1>1. f \in Seq(P) /\ x \in P
    OBVIOUS
  <1>. HIDE DEF P
  <1>2. /\ Len(f) \in Nat /\ g \in Seq(P) /\ Len(g) = Len(f) + 1
        /\ \A i \in 1 .. Len(f) : g[i] = f[i]
        /\ g[Len(f) + 1] = x
    BY <1>1, AppendProperties, LenProperties
  <1>. HIDE DEF g
  <1>3. \A i \in 1 .. Len(g) : i = Len(f) + 1 \/ i \in 1 .. Len(f)
    BY <1>2
  <1>4. Full(s, h) \in Nat
    BY DEF Full
  <1>5. StartOf(s, g, h)
    BY <1>2, <1>3, <1>4 DEF StartOf
  <1>. QED BY <1>2, <1>5 DEF g, P

LEMMA PutAtEnd ==
    ASSUME NEW f \in Seq(Piece), NEW x \in Piece
    PROVE  Put(f, Len(f) + 1, x) = Append(f, x)
  <1> DEFINE P == Piece
             g == Put(f, Len(f) + 1, x)
             a == Append(f, x)
  <1>1. f \in Seq(P) /\ x \in P /\ g \in Seq(P)
    <2>1. Len(f) + 1 \in Nat \ {0}
      OBVIOUS
    <2>. QED BY <2>1, PutType
  <1>. HIDE DEF P
  <1>2. /\ Len(f) \in Nat /\ a \in Seq(P) /\ Len(a) = Len(f) + 1
        /\ \A i \in 1 .. Len(f) : a[i] = f[i]
        /\ a[Len(f) + 1] = x
    BY <1>1, AppendProperties, LenProperties
  <1>3. /\ DOMAIN g = 1 .. Len(f) + 1
        /\ \A i \in 1 .. Len(f) : g[i] = f[i]
        /\ g[Len(f) + 1] = x
    BY <1>2 DEF Put
  <1>. HIDE DEF a, g
  <1>4. Len(g) = Len(f) + 1
    BY <1>1, <1>2, <1>3, LenProperties
  <1>5. \A i \in 1 .. Len(g) : i = Len(f) + 1 \/ i \in 1 .. Len(f)
    BY <1>2, <1>4
  <1>6. \A i \in 1 .. Len(g) : g[i] = a[i]
    BY <1>2, <1>3, <1>5
  <1>7. g = a
    BY <1>1, <1>2, <1>4, <1>6, SeqEqual
  <1>. QED BY <1>7 DEF a, g

\* A file that is as long as the container is the whole container.
LEMMA WholeFile ==
    ASSUME TypeOK, NEW f \in Seq(Piece), NEW h \in HeaderPiece, h.dek \in DOMAIN sealed,
           StartOf(sealed, f, h), Len(f) = Full(sealed, h)
    PROVE  Whole(f, h.dek)
  <1> DEFINE d == h.dek
             n == SizeOf(sealed, d)
             b == Chunks(d)
             P == Piece \cup ChunkPiece
             t == Trailer(h, b)
  <1>1. /\ n \in Nat \ {0} /\ b \in Seq(ChunkPiece) /\ Len(b) = n /\ b = Body(sealed, d)
        /\ \A i \in 1 .. n : b[i] = Chunk(d, i, i = n)
    BY ChunksType, SizeType DEF SizeOf
  <1>2. /\ f \in Seq(Piece) /\ Len(f) = n + 2
        /\ \A i \in 1 .. Len(f) : f[i] = PieceOf(sealed, h, i)
    BY DEF StartOf, Full
  <1>3. f[1] = h /\ f[n + 2] = t
    BY <1>1, <1>2 DEF PieceOf
  <1>4. \A i \in 2 .. n + 1 : f[i] = Chunk(d, i - 1, i - 1 = n)
    BY <1>1, <1>2 DEF PieceOf
  <1>5. HasHeader(f)
    <2>1. f # <<>>
      BY <1>1, <1>2
    <2>. QED BY <1>3, <2>1 DEF HasHeader, HeaderPiece
  <1>6. f = <<h>> \o b \o <<t>>
    <2>1. f \in Seq(P) /\ b \in Seq(P) /\ f[1] \in P /\ f[n + 2] \in P
      <3> DEFINE A == Piece
                 C == ChunkPiece
      <3>1. f \in Seq(A) /\ b \in Seq(C) /\ 1 \in 1 .. Len(f) /\ n + 2 \in 1 .. Len(f)
        BY <1>1, <1>2
      <3>. HIDE DEF A, C, b, n
      <3>2. f \in Seq(A \cup C) /\ b \in Seq(A \cup C)
        BY <3>1
      <3>3. f[1] \in A \cup C /\ f[n + 2] \in A \cup C
        BY <3>1, <3>2, ElementOfSeq
      <3>. QED BY <3>2, <3>3 DEF A, C
    <2>2. h \in P /\ t \in P
      BY <1>3, <2>1
    <2>. HIDE DEF P, b, t, n
    <2>3. <<h>> \in Seq(P) /\ Len(<<h>>) = 1 /\ <<h>>[1] = h
          /\ <<t>> \in Seq(P) /\ Len(<<t>>) = 1 /\ <<t>>[1] = t
      BY <2>2
    <2> DEFINE g == <<h>> \o b
               e == g \o <<t>>
    <2>4. /\ g \in Seq(P) /\ Len(g) = n + 1
          /\ \A i \in 1 .. n + 1 : g[i] = IF i <= 1 THEN <<h>>[i] ELSE b[i - 1]
      BY <1>1, <2>1, <2>3, ConcatProperties
    <2>. HIDE DEF g
    <2>5. /\ e \in Seq(P) /\ Len(e) = n + 2
          /\ \A i \in 1 .. n + 2 : e[i] = IF i <= n + 1 THEN g[i] ELSE <<t>>[i - (n + 1)]
      <3>1. (n + 1) + 1 = n + 2
        BY <1>1
      <3>. QED BY <1>1, <2>3, <2>4, <3>1, ConcatProperties
    <2>. HIDE DEF e
    <2>6. ASSUME NEW i \in 1 .. n + 2
          PROVE  f[i] = e[i]
      <3>1. CASE i = 1
        BY <1>1, <1>3, <2>3, <2>4, <2>5, <3>1
      <3>2. CASE i \in 2 .. n + 1
        <4>1. i - 1 \in 1 .. n /\ i \in 1 .. n + 1 /\ i \in 1 .. n + 2 /\ ~ (i <= 1) /\ i <= n + 1
          BY <1>1, <3>2
        <4>2. e[i] = b[i - 1]
          BY <2>4, <2>5, <4>1
        <4>. QED BY <1>1, <1>4, <3>2, <4>1, <4>2
      <3>3. CASE i = n + 2
        <4>1. i - (n + 1) = 1 /\ ~ (i <= n + 1)
          BY <1>1, <3>3
        <4>. QED BY <1>3, <2>3, <2>5, <3>3, <4>1
      <3>. QED BY <1>1, <3>1, <3>2, <3>3
    <2>7. f = e
      BY <1>1, <1>2, <2>1, <2>5, <2>6, SeqEqual
    <2>. QED BY <2>7 DEF e, g
  <1>. QED BY <1>3, <1>5, <1>6 DEF Whole

\* A file that verifies is the whole container: only it ends with a trailer.
LEMMA VerifiesWhole ==
    ASSUME NEW s, NEW h \in HeaderPiece, SizeOf(s, h.dek) \in Nat, NEW f \in Seq(Piece),
           StartOf(s, f, h), Verifies(f, h)
    PROVE  Len(f) = Full(s, h)
  <1> DEFINE n == Len(f)
  <1>1. n \in Nat /\ n >= 2 /\ n <= SizeOf(s, h.dek) + 2 /\ f[n] = PieceOf(s, h, n)
    BY LenProperties DEF StartOf, Verifies, Full
  <1>2. f[n].kind = "trailer"
    BY DEF Verifies, Trailer
  <1>3. ~ (n <= SizeOf(s, h.dek) + 1)
    <2>1. SUFFICES ASSUME n <= SizeOf(s, h.dek) + 1 PROVE FALSE
      OBVIOUS
    <2>2. f[n] = Chunk(h.dek, n - 1, n - 1 = SizeOf(s, h.dek))
      BY <1>1, <2>1 DEF PieceOf
    <2>. QED BY <1>2, <2>2 DEF Chunk
  <1>. QED BY <1>1, <1>3 DEF Full

\* What is copied of the body is signed as the body it is.
LEMMA BytesOfBody ==
    ASSUME NEW s, NEW h, SizeOf(s, h.dek) \in Nat, NEW f \in Seq(Piece),
           StartOf(s, f, h), Len(f) = SizeOf(s, h.dek) + 1
    PROVE  Bytes(SubSeq(f, 2, Len(f))) = Body(s, h.dek)
  <1> DEFINE n == SizeOf(s, h.dek)
             b == SubSeq(f, 2, n + 1)
  <1>1. DOMAIN b = 1 .. n /\ \A i \in 1 .. n : b[i] = f[i + 1]
    OBVIOUS
  <1>2. \A i \in 1 .. n : f[i + 1] = Chunk(h.dek, i, i = n)
    <2> SUFFICES ASSUME NEW i \in 1 .. n PROVE f[i + 1] = Chunk(h.dek, i, i = n)
      OBVIOUS
    <2>1. i + 1 \in 1 .. Len(f) /\ i + 1 # 1 /\ i + 1 <= n + 1 /\ (i + 1) - 1 = i
      OBVIOUS
    <2>. QED BY <2>1 DEF StartOf, PieceOf
  <1>. HIDE DEF b
  <1>. HIDE DEF n
  <1>3. \A i \in 1 .. n : b[i] = Chunk(h.dek, i, i = n)
    BY <1>1, <1>2
  <1>4. \A i \in 1 .. n : b[i].kind = "chunk"
    <2>1. \A k, m, last : Chunk(k, m, last).kind = "chunk"
      BY DEF Chunk
    <2>. QED BY <1>3, <2>1
  <1>5. Bytes(b) = [i \in 1 .. n |-> Chunk(h.dek, i, i = n)]
    BY <1>1, <1>3, <1>4 DEF Bytes
  <1>. QED BY <1>5 DEF b, n, Body

-----------------------------------------------------------------------------
(* The invariant of one writer: every file is the beginning of a container *)
(* and a process that has one in hand has the one its name leads to.       *)

Writer == Encryptor \cup Rewrapper
OneWriter == \A p, q \in Writer : p = q

Writing == {"check", "open", "write", "delete", "sealed"} \cup Rewrapping

FileShaped(i) ==
    file[i] # <<>> =>
        file[i][1] \in HeaderPiece /\ StartOf(sealed, file[i], file[i][1])

HasName(p) == fd[p] \in 1 .. Len(file) /\ path[job[p].cls] = fd[p]

Overwrites(p) == pc[p] \in {"write", "delete"} =>
    /\ HasName(p)
    /\ Good(hdr[p]) /\ plain = sealed[hdr[p].dek].doc
    /\ StartOf(sealed, file[fd[p]], hdr[p])
    /\ pc[p] = "write" => Len(file[fd[p]]) = end[p]
    /\ pc[p] = "delete" => Len(file[fd[p]]) = Full(sealed, hdr[p])

CopyOf(p) ==
    /\ Len(file[fd[p]]) = Full(sealed, hdr[p])
    /\ tmp[p][1].dek = hdr[p].dek
    /\ StartOf(sealed, tmp[p], tmp[p][1])
    /\ pc[p] = "copy" =>
          end[p] = SizeOf(sealed, hdr[p].dek) /\ Len(tmp[p]) <= end[p] + 1
    /\ pc[p] # "copy" => Len(tmp[p]) = Full(sealed, hdr[p])

Rewraps(p) == pc[p] \in Rewrapping \ {"ropen"} =>
    /\ HasName(p)
    /\ pc[p] # "rheader" => file[fd[p]] # <<>> /\ hdr[p] = file[fd[p]][1]
    /\ pc[p] \in Copying => CopyOf(p)

WriterInv(p) == (pc[p] \in Writing => p \in Writer) /\ Overwrites(p) /\ Rewraps(p)

OneInv == (\A i \in DOMAIN file : FileShaped(i)) /\ \A p \in Proc : WriterInv(p)

LEMMA InitOne == Init => OneInv
  BY DEF Init, OneInv, WriterInv, Overwrites, Rewraps, Writing, Rewrapping

LEMMA NotWriting ==
    ASSUME NEW p, pc'[p] \notin Writing
    PROVE  WriterInv(p)'
  BY DEF WriterInv, Overwrites, Rewraps, Writing, Rewrapping

\* A step of another process leaves the writer what it has.
LEMMA OthersOne ==
    ASSUME OneWriter, OneInv, NEW p \in Proc, NEW q \in Proc \ {p}, Same(q),
           p \in Writer \/ UNCHANGED <<plain, path, file, sealed>>
    PROVE  WriterInv(q)'
  <1>0. WriterInv(q)
    BY DEF OneInv
  <1>1. CASE pc[q] \notin Writing
    BY <1>1, NotWriting DEF Same
  <1>2. CASE pc[q] \in Writing
    <2>1. q \in Writer /\ UNCHANGED <<plain, path, file, sealed>>
      BY <1>0, <1>2 DEF WriterInv, OneWriter
    <2>. QED BY <1>0, <2>1 DEF Same, WriterInv, Overwrites, Rewraps, CopyOf, HasName, Good
  <1>. QED BY <1>1, <1>2

LEMMA StepOne ==
    ASSUME OneWriter, OneInv, NEW p \in Proc, \A q \in Proc \ {p} : Same(q),
           p \in Writer \/ UNCHANGED <<plain, path, file, sealed>>,
           UNCHANGED <<file, sealed>> \/ \A i \in DOMAIN file' : FileShaped(i)',
           WriterInv(p)'
    PROVE  OneInv'
  <1>1. \A i \in DOMAIN file' : FileShaped(i)'
    BY DEF OneInv, FileShaped
  <1>2. \A q \in Proc : WriterInv(q)'
    BY OthersOne
  <1>. QED BY <1>1, <1>2 DEF OneInv

\* A step of one process, whatever it does to the world, leaves the others
\* where they are.
LEMMA OthersSame ==
    ASSUME TypeOK, NEW p \in Proc, Encrypt(p) \/ Decrypt(p) \/ Rewrap(p) \/ Crash(p),
           NEW q \in Proc \ {p}
    PROVE  Same(q)
  <1>1. ASSUME NEW how, Return(p, how) PROVE Same(q)
    BY <1>1 DEF Return, Goto, TypeOK, Same
  <1>2. ASSUME NEW entries, Fail(p, entries) PROVE Same(q)
    BY <1>1, <1>2 DEF Fail
  <1>3. ASSUME NEW l, Goto(p, l), NEW i, NEW h, NEW n, NEW t, NEW r,
               fd' = fd \/ fd' = [fd EXCEPT ![p] = i],
               hdr' = hdr \/ hdr' = [hdr EXCEPT ![p] = h],
               end' = end \/ end' = [end EXCEPT ![p] = n],
               tmp' = tmp \/ tmp' = [tmp EXCEPT ![p] = t],
               job' = job \/ job' = [job EXCEPT ![p] = r]
        PROVE  Same(q)
    BY <1>3 DEF Goto, TypeOK, Same
  <1>4. CASE Encrypt(p)
    <2>1. CASE StartEncrypt(p)
      BY <2>1 DEF StartEncrypt, Start, Goto, TypeOK, Same
    <2>2. CASE CheckOutput(p)
      BY <1>2, <1>3, <2>2 DEF CheckOutput, EncryptFails, local
    <2>3. CASE OpenOutput(p)
      BY <1>3, <2>3 DEF OpenOutput
    <2>4. CASE WritePiece(p)
      BY <1>3, <2>4 DEF WritePiece
    <2>5. CASE DeleteOriginal(p)
      BY <1>1, <1>3, <2>5 DEF DeleteOriginal, FailQuietly, local
    <2>. QED BY <1>1, <1>2, <1>4, <2>1, <2>2, <2>3, <2>4, <2>5
             DEF Encrypt, OpenFails, WriteFails, LogEncrypted, EncryptFails
  <1>5. CASE Decrypt(p)
    <2>1. CASE StartDecrypt(p)
      BY <2>1 DEF StartDecrypt, Start, Goto, TypeOK, Same
    <2>6. CASE OpenInput(p)
      BY <1>1, <1>3, <2>6 DEF OpenInput, Reopen, FailQuietly
    <2>2. CASE ReadHeader(p) \/ VerifyBody(p)
      BY <1>2, <1>3, <2>2 DEF ReadHeader, VerifyBody, DecryptFails
    <2>3. CASE Authorized(p)
      BY <1>2, <1>3, <2>3 DEF Authorized, DecryptFails, local
    <2>4. CASE ReadChunk(p)
      BY <1>2, <1>3, <2>4 DEF ReadChunk, DecryptFails, local
    <2>5. CASE Publish(p)
      BY <1>3, <2>5 DEF Publish, local
    <2>. QED BY <1>1, <1>5, <2>1, <2>2, <2>3, <2>4, <2>5, <2>6
             DEF Decrypt, DecryptIOFails, LogDecrypted, FailQuietly
  <1>6. CASE Rewrap(p)
    <2>1. CASE StartRewrap(p)
      BY <2>1 DEF StartRewrap, Start, Goto, TypeOK, Same
    <2>5. CASE OpenOldContainer(p)
      BY <1>1, <1>3, <2>5 DEF OpenOldContainer, Reopen, FailQuietly
    <2>2. CASE ReadOldHeader(p) \/ VerifyOldBody(p)
      BY <1>2, <1>3, <2>2 DEF ReadOldHeader, VerifyOldBody, RewrapFails
    <2>3. CASE CopyPiece(p)
      BY <1>2, <1>3, <2>3 DEF CopyPiece, RewrapFails, local, TypeOK, Same
    <2>4. CASE LogRewrapped(p)
      BY <1>2, <1>3, <2>4 DEF LogRewrapped, RewrapFails, local
    <2>. QED BY <1>1, <1>6, <2>1, <2>2, <2>3, <2>4, <2>5
             DEF Rewrap, Replace, RewrapIOFails, FailQuietly
  <1>7. CASE Crash(p)
    BY <1>1, <1>7 DEF Crash
  <1>. QED BY <1>4, <1>5, <1>6, <1>7

LEMMA ReturnsOne ==
    ASSUME TypeOK, NEW p \in Proc, NEW how, Return(p, how)
    PROVE  WriterInv(p)'
  <1>1. pc'[p] = "idle"
    BY DEF TypeOK, Return, Goto
  <1>. QED BY <1>1, NotWriting DEF Writing, Rewrapping

LEMMA FailsOne ==
    ASSUME TypeOK, NEW p \in Proc, NEW entries, Fail(p, entries)
    PROVE  WriterInv(p)'
  BY ReturnsOne DEF Fail

LEMMA SettledOne ==
    ASSUME NEW p, p \in Writer, pc'[p] \in {"check", "open", "sealed"}
    PROVE  WriterInv(p)'
  BY DEF WriterInv, Overwrites, Rewraps, Rewrapping

LEMMA WriterIs ==
    ASSUME OneInv, NEW p \in Proc, pc[p] \in Writing
    PROVE  p \in Writer
  BY DEF OneInv, WriterInv

-----------------------------------------------------------------------------
(* Encryption by the one writer *)

\* Every step of it but the two that change a file.
LEMMA EncryptOne ==
    ASSUME OneWriter, TypeOK, OneInv, NEW p \in Proc, Encrypt(p),
           ~ OpenOutput(p), ~ WritePiece(p)
    PROVE  OneInv'
  <1>1. p \in Writer /\ UNCHANGED <<file, sealed>>
    BY WriterIs DEF Encrypt, StartEncrypt, CheckOutput, OpenFails, WriteFails, DeleteOriginal,
       LogEncrypted, Writer, Writing, world
  <1>2. CASE StartEncrypt(p)
    <2>1. pc'[p] \in {"check", "idle"}
      BY <1>2 DEF StartEncrypt, Start, Goto, TypeOK
    <2>2. WriterInv(p)'
      BY <1>1, <2>1, SettledOne, NotWriting DEF Writing, Rewrapping
    <2>. QED BY <1>1, <2>2, OthersSame, StepOne
  <1>3. CASE CheckOutput(p) \/ DeleteOriginal(p)
    <2>1. ASSUME Goto(p, "open") \/ Goto(p, "sealed") PROVE WriterInv(p)'
      <3>1. pc'[p] \in {"open", "sealed"}
        BY <2>1 DEF Goto, TypeOK
      <3>. QED BY <1>1, <3>1, SettledOne
    <2>2. ASSUME FailQuietly(p) \/ \E o \in {"denied", "error"} : EncryptFails(p, o)
          PROVE  WriterInv(p)'
      BY <2>2, ReturnsOne, FailsOne DEF FailQuietly, EncryptFails
    <2>3. WriterInv(p)'
      BY <1>3, <2>1, <2>2 DEF CheckOutput, DeleteOriginal
    <2>. QED BY <1>1, <2>3, OthersSame, StepOne
  <1>4. CASE OpenFails(p) \/ WriteFails(p) \/ LogEncrypted(p)
    <2>1. WriterInv(p)'
      BY <1>4, ReturnsOne, FailsOne DEF OpenFails, WriteFails, LogEncrypted, EncryptFails
    <2>. QED BY <1>1, <2>1, OthersSame, StepOne
  <1>. QED BY <1>2, <1>3, <1>4 DEF Encrypt

\* A file that a new data key finds written is what it was.
LEMMA ShapedStays ==
    ASSUME IInv, Extends, NEW i \in DOMAIN file, FileShaped(i), file'[i] = file[i]
    PROVE  FileShaped(i)'
  <1> SUFFICES ASSUME file[i] # <<>>
               PROVE  StartOf(sealed', file[i], file[i][1])
    BY DEF FileShaped
  <1>1. file[i] \in Seq(Piece)
    BY DEF IInv, TypeOK
  <1>2. 1 \in DOMAIN file[i]
    BY <1>1
  <1>3. Good(file[i][1]) /\ file[i][1] \in HeaderPiece /\ StartOf(sealed, file[i], file[i][1])
    BY <1>2 DEF IInv, FilesGood, FileShaped
  <1>4. file[i][1].dek \in DOMAIN sealed
    BY <1>3 DEF Good, GoodFor, HeaderPiece
  <1>5. sealed'[file[i][1].dek] = sealed[file[i][1].dek]
    BY <1>4 DEF Extends
  <1>. QED BY <1>3, <1>5, ShapeStays

LEMMA OpenOutputOne ==
    ASSUME OneWriter, IInv, OneInv, NEW p \in Proc, OpenOutput(p)
    PROVE  OneInv'
  <1> DEFINE c == job[p].cls
             f == IF path[c] = NoFile THEN Len(file) + 1 ELSE path[c]
             k == Len(sealed) + 1
             new == [doc |-> plain, cls |-> c]
  <1>1. TypeOK /\ p \in Writer /\ pc[p] = "open" /\ plain # NoDoc
    BY WriterIs DEF IInv, OpenOutput, Writing
  <1>2. c \in Level /\ path[c] \in NoFile .. Len(file) /\ Len(file) \in Nat /\ path \in [Level -> NoFile .. Len(file)]
    BY <1>1 DEF TypeOK, Job
  <1>3. /\ path'[c] = f
        /\ file' = IF path[c] = NoFile THEN Append(file, <<>>) ELSE [file EXCEPT ![f] = <<>>]
        /\ fd'[p] = f /\ hdr'[p] = Header(k, job[p].key, c) /\ end'[p] = 0
        /\ sealed' = Append(sealed, new)
        /\ pc'[p] = "write" /\ job'[p] = job[p] /\ plain' = plain
    <2>1. pc'[p] = "write" /\ end'[p] = 0 /\ fd'[p] = f /\ path'[c] = f
      BY <1>1, <1>2 DEF OpenOutput, Goto, TypeOK
    <2>. QED BY <1>1, <2>1 DEF OpenOutput, TypeOK
  <1>4. /\ f \in 1 .. Len(file') /\ file'[f] = <<>> /\ Len(file) <= Len(file')
        /\ DOMAIN file' = 1 .. Len(file')
        /\ \A i \in DOMAIN file' : i = f \/ (i \in DOMAIN file /\ file'[i] = file[i])
    <2> DEFINE F == Seq(Piece)
    <2>1. file \in Seq(F) /\ <<>> \in F
      BY <1>1 DEF TypeOK
    <2> HIDE DEF F
    <2>2. CASE path[c] = NoFile
      <3>1. file' = Append(file, <<>>) /\ f = Len(file) + 1
        BY <1>3, <2>2
      <3>. QED BY <1>2, <2>1, <3>1, AppendProperties, LenProperties
    <2>3. CASE path[c] # NoFile
      <3>1. file' = [file EXCEPT ![f] = <<>>] /\ f \in 1 .. Len(file)
        BY <1>2, <1>3, <2>3 DEF NoFile
      <3>. QED BY <2>1, <3>1, ExceptSeq, LenProperties
    <2>. QED BY <2>2, <2>3
  <1>5. /\ DOMAIN sealed' = 1 .. k /\ sealed'[k] = new /\ k \in Nat
        /\ \A d \in DOMAIN sealed : d \in 1 .. k /\ sealed'[d] = sealed[d]
    <2> DEFINE D == [doc : Doc, cls : Level]
    <2>1. sealed \in Seq(D) /\ new \in D
      BY <1>1, <1>2 DEF TypeOK
    <2> HIDE DEF D, new
    <2>. QED BY <1>3, <2>1, AppendProperties, LenProperties
  <1>6. Extends
    BY <1>4, <1>5 DEF Extends
  <1>7. \A i \in DOMAIN file' : FileShaped(i)'
    <2>1. ASSUME NEW i \in DOMAIN file' PROVE FileShaped(i)'
      <3>1. CASE i = f
        BY <1>4, <3>1 DEF FileShaped
      <3>2. CASE i \in DOMAIN file /\ file'[i] = file[i]
        BY <1>6, <3>2, ShapedStays DEF OneInv
      <3>. QED BY <1>4, <2>1, <3>1, <3>2
    <2>. QED BY <2>1
  <1>8. Overwrites(p)'
    <2>1. hdr'[p].dek = k /\ hdr'[p].cls = c /\ hdr'[p].kind = "header"
      BY <1>3 DEF Header
    <2>2. GoodFor(sealed', hdr'[p]) /\ plain = sealed'[k].doc
      BY <1>5, <2>1 DEF GoodFor
    <2>3. Size[plain] \in Nat
      BY <1>1, FileCryptoAssumption DEF TypeOK, Doc
    <2>4. StartOf(sealed', <<>>, hdr'[p])
      <3>1. Len(<<>>) = 0 /\ Full(sealed', hdr'[p]) \in Nat
        BY <2>1, <2>2, <2>3 DEF Full, SizeOf
      <3>. QED BY <3>1 DEF StartOf
    <2>5. HasName(p)'
      BY <1>3, <1>4 DEF HasName
    <2>6. Len(file'[fd'[p]]) = end'[p] /\ StartOf(sealed', file'[fd'[p]], hdr'[p])
      BY <1>3, <1>4, <2>4
    <2>7. plain' = sealed'[hdr'[p].dek].doc
      BY <1>3, <2>1, <2>2
    <2>. HIDE DEF f, c, k
    <2>. QED BY <1>3, <2>2, <2>5, <2>6, <2>7 DEF Overwrites, Good
  <1>9. WriterInv(p)'
    BY <1>1, <1>3, <1>8 DEF WriterInv, Rewraps, Rewrapping
  <1>. QED BY <1>1, <1>7, <1>9, OthersSame, StepOne DEF Encrypt

LEMMA WritePieceOne ==
    ASSUME OneWriter, IInv, OneInv, NEW p \in Proc, WritePiece(p)
    PROVE  OneInv'
  <1> DEFINE g == fd[p]
             f == file[g]
             h == hdr[p]
             d == h.dek
             x == NextPiece(p)
             F == Seq(Piece)
  <1>1. TypeOK /\ ProcInv(p) /\ p \in Writer /\ pc[p] = "write"
    BY WriterIs DEF IInv, WritePiece, Writing
  <1>2. /\ g \in 1 .. Len(file) /\ path[job[p].cls] = g /\ Good(h)
        /\ plain = sealed[d].doc /\ StartOf(sealed, f, h) /\ Len(f) = end[p]
    BY <1>1 DEF OneInv, WriterInv, Overwrites, HasName
  <1>3. h \in HeaderPiece /\ h \in Piece /\ file \in Seq(F) /\ f \in F
    BY <1>1, <1>2 DEF TypeOK, Piece
  <1>4. d \in DOMAIN sealed
    BY <1>2, <1>3 DEF Good, GoodFor, HeaderPiece
  <1>5. /\ SizeOf(sealed, d) \in Nat \ {0} /\ Chunks(d) = Body(sealed, d)
        /\ Chunks(d) \in Seq(ChunkPiece) /\ Len(Chunks(d)) = SizeOf(sealed, d)
        /\ \A n \in 1 .. SizeOf(sealed, d) : Chunks(d)[n] = Chunk(d, n, n = SizeOf(sealed, d))
    BY <1>1, <1>4, ChunksType, SizeType DEF SizeOf
  <1>6. end[p] \in Nat /\ end[p] <= SizeOf(sealed, d) + 1
    BY <1>1 DEF ProcInv, HasRead, SizeOf, TypeOK
  <1>7. x \in Piece /\ x = PieceOf(sealed, h, Len(f) + 1)
    <2>1. CASE end[p] = 0
      BY <1>2, <1>3, <2>1 DEF NextPiece, PieceOf
    <2>2. CASE end[p] \in 1 .. SizeOf(sealed, d)
      <3>1. x = Chunks(d)[end[p]] /\ Chunks(d)[end[p]] \in ChunkPiece
        BY <1>5, <2>2 DEF NextPiece
      <3>2. x = Chunk(d, end[p], end[p] = SizeOf(sealed, d))
        BY <1>5, <2>2, <3>1
      <3>3. Len(f) + 1 # 1 /\ Len(f) + 1 <= SizeOf(sealed, d) + 1 /\ (Len(f) + 1) - 1 = end[p]
        BY <1>2, <1>5, <2>2
      <3>. QED BY <3>1, <3>2, <3>3 DEF Piece, PieceOf
    <2>3. CASE end[p] = SizeOf(sealed, d) + 1
      <3>1. x = Trailer(h, Chunks(d))
        BY <1>5, <2>3 DEF NextPiece
      <3>2. Chunks(d) \in Seq(ChunkPiece \cup {Hole})
        BY <1>5
      <3>3. x \in TrailerPiece
        BY <1>3, <3>1, <3>2 DEF Trailer, TrailerPiece
      <3>4. Len(f) + 1 # 1 /\ ~ (Len(f) + 1 <= SizeOf(sealed, d) + 1)
        BY <1>2, <1>5, <2>3
      <3>. QED BY <1>5, <3>1, <3>3, <3>4 DEF Piece, PieceOf
    <2>. QED BY <1>5, <1>6, <2>1, <2>2, <2>3
  <1>8. /\ file' = [file EXCEPT ![g] = Put(file[g], end[p] + 1, x)]
        /\ end'[p] = end[p] + 1
        /\ pc'[p] = IF end[p] <= Len(Chunks(d)) THEN "write"
                    ELSE IF job[p].del THEN "delete" ELSE "sealed"
        /\ UNCHANGED <<plain, path, sealed, job, fd, hdr>>
    BY <1>1 DEF WritePiece, TypeOK, Goto
  <1>9. file' = [file EXCEPT ![g] = Append(f, x)]
    BY <1>2, <1>3, <1>7, <1>8, PutAtEnd
  <1> HIDE DEF F, f, g, x
  <1>10. /\ Len(file') = Len(file) /\ DOMAIN file' = DOMAIN file
         /\ file'[g] = Append(f, x) /\ \A i \in DOMAIN file : i # g => file'[i] = file[i]
    BY <1>2, <1>3, <1>9 DEF F
  <1>11. /\ Append(f, x) \in Seq(Piece) /\ Len(Append(f, x)) = Len(f) + 1
         /\ StartOf(sealed, Append(f, x), h) /\ Append(f, x)[1] = h
         /\ Append(f, x) # <<>>
    <2>1. Len(f) < Full(sealed, h)
      BY <1>2, <1>5, <1>6 DEF Full
    <2>2. /\ Append(f, x) \in Seq(Piece) /\ Len(Append(f, x)) = Len(f) + 1
          /\ StartOf(sealed, Append(f, x), h)
      BY <1>2, <1>3, <1>5, <1>7, <2>1, StartAppend DEF F
    <2> DEFINE e == Append(f, x)
    <2> HIDE DEF e
    <2>3. 1 \in 1 .. Len(e)
      BY <1>2, <1>6, <2>2 DEF e
    <2>4. e[1] = h
      BY <2>2, <2>3 DEF StartOf, PieceOf, e
    <2>5. e # <<>>
      BY <2>3
    <2>. QED BY <2>2, <2>4, <2>5 DEF e
  <1>12. \A i \in DOMAIN file' : FileShaped(i)'
    <2>1. ASSUME NEW i \in DOMAIN file' PROVE FileShaped(i)'
      <3>1. CASE i = g
        BY <1>3, <1>8, <1>10, <1>11, <3>1 DEF FileShaped
      <3>2. CASE i # g
        BY <1>8, <1>10, <2>1, <3>2 DEF OneInv, FileShaped
      <3>. QED BY <3>1, <3>2
    <2>. QED BY <2>1
  <1>13. WriterInv(p)'
    <2>1. pc'[p] \in {"write", "delete", "sealed"}
      BY <1>8
    <2>2. HasName(p)' /\ Good(hdr[p])' /\ fd'[p] = g
      BY <1>2, <1>8, <1>10 DEF HasName, Good, g
    <2>3. StartOf(sealed, file[fd[p]], hdr[p])' /\ Len(file'[fd'[p]]) = end[p] + 1
      BY <1>2, <1>8, <1>10, <1>11, <2>2
    <2>4. pc'[p] = "delete" => end[p] + 1 = Full(sealed, h)
      BY <1>5, <1>6, <1>8 DEF Full
    <2>. HIDE DEF h, d
    <2>5. Overwrites(p)'
      BY <1>2, <1>8, <2>2, <2>3, <2>4 DEF Overwrites, h, d
    <2>. QED BY <1>1, <2>1, <2>5 DEF WriterInv, Rewraps, Rewrapping
  <1>. QED BY <1>1, <1>12, <1>13, OthersSame, StepOne DEF Encrypt

-----------------------------------------------------------------------------
(* Decryption changes no container *)

LEMMA DecryptOne ==
    ASSUME OneWriter, TypeOK, OneInv, NEW p \in Proc, Decrypt(p)
    PROVE  OneInv'
  <1>1. UNCHANGED <<plain, path, file, sealed>>
    BY DEF Decrypt, StartDecrypt, OpenInput, Reopen, ReadHeader, VerifyBody, Authorized,
       ReadChunk, Publish, DecryptIOFails, LogDecrypted, world
  <1>2. \/ \E l \in {"dopen", "header", "body", "place", "chunks", "publish", "released"} : Goto(p, l)
        \/ \E how : Return(p, how)
    BY DEF Decrypt, StartDecrypt, OpenInput, Reopen, ReadHeader, VerifyBody, Authorized,
       ReadChunk, Publish, DecryptIOFails, LogDecrypted, DecryptFails, Fail, FailQuietly
  <1>3. WriterInv(p)'
    <2>1. CASE \E l \in {"dopen", "header", "body", "place", "chunks", "publish", "released"} : Goto(p, l)
      <3>1. pc'[p] \notin Writing
        BY <2>1 DEF Goto, TypeOK, Writing, Rewrapping
      <3>. QED BY <3>1, NotWriting
    <2>. QED BY <1>2, <2>1, ReturnsOne
  <1>. QED BY <1>1, <1>3, OthersSame, StepOne

-----------------------------------------------------------------------------
(* Rewrap by the one writer *)

LEMMA RewrapFailsOne ==
    ASSUME TypeOK, NEW p \in Proc, NEW o, RewrapFails(p, o)
    PROVE  WriterInv(p)'
  BY FailsOne DEF RewrapFails

LEMMA StartRewrapOne ==
    ASSUME OneWriter, TypeOK, OneInv, NEW p \in Proc, StartRewrap(p)
    PROVE  OneInv'
  <1>1. p \in Writer /\ UNCHANGED <<plain, path, file, sealed>>
    BY DEF StartRewrap, Writer, world
  <1>2. pc'[p] = "ropen"
    BY DEF StartRewrap, Goto, TypeOK
  <1>3. WriterInv(p)'
    BY <1>1, <1>2 DEF WriterInv, Overwrites, Rewraps
  <1>. QED BY <1>1, <1>3, OthersSame, StepOne DEF Rewrap

LEMMA OpenOldContainerOne ==
    ASSUME OneWriter, TypeOK, OneInv, NEW p \in Proc, OpenOldContainer(p)
    PROVE  OneInv'
  <1>1. p \in Writer /\ UNCHANGED <<plain, path, file, sealed>>
    BY WriterIs DEF OpenOldContainer, Writing, Rewrapping, world
  <1>2. CASE FailQuietly(p)
    BY <1>1, <1>2, ReturnsOne, OthersSame, StepOne DEF FailQuietly, Rewrap
  <1>3. CASE /\ path[job[p].cls] # NoFile
             /\ fd' = [fd EXCEPT ![p] = path[job[p].cls]]
             /\ Goto(p, "rheader")
             /\ UNCHANGED <<job, hdr, end, tmp, events, result>>
    <2>1. pc'[p] = "rheader" /\ fd'[p] = path[job[p].cls] /\ job' = job
      BY <1>3 DEF Goto, TypeOK
    <2>2. job[p].cls \in Level
      BY JobUser DEF Job
    <2>3. path[job[p].cls] \in 1 .. Len(file)
      BY <1>3, <2>2 DEF TypeOK, NoFile
    <2>4. HasName(p)'
      BY <1>1, <2>1, <2>3 DEF HasName
    <2>5. WriterInv(p)'
      BY <1>1, <2>1, <2>4 DEF WriterInv, Overwrites, Rewraps, Copying
    <2>. QED BY <1>1, <2>5, OthersSame, StepOne DEF Rewrap
  <1>. QED BY <1>2, <1>3 DEF OpenOldContainer, Reopen

LEMMA ReadOldHeaderOne ==
    ASSUME OneWriter, TypeOK, OneInv, NEW p \in Proc, ReadOldHeader(p)
    PROVE  OneInv'
  <1>1. p \in Writer /\ UNCHANGED <<plain, path, file, sealed>> /\ pc[p] = "rheader"
    BY WriterIs DEF ReadOldHeader, Writing, Rewrapping, world
  <1>2. CASE \E o : RewrapFails(p, o)
    BY <1>1, <1>2, RewrapFailsOne, OthersSame, StepOne DEF Rewrap
  <1>3. CASE /\ HasHeader(file[fd[p]])
             /\ hdr' = [hdr EXCEPT ![p] = file[fd[p]][1]]
             /\ Goto(p, "rbody")
             /\ UNCHANGED <<job, fd, end, tmp, events, result>>
    <2>1. /\ pc'[p] = "rbody" /\ hdr'[p] = file[fd[p]][1] /\ file[fd[p]] # <<>>
          /\ job' = job /\ fd' = fd
      BY <1>3 DEF Goto, TypeOK, HasHeader
    <2>2. HasName(p)
      BY <1>1 DEF OneInv, WriterInv, Rewraps, Rewrapping
    <2>3. WriterInv(p)'
      BY <1>1, <2>1, <2>2 DEF WriterInv, Overwrites, Rewraps, Copying, HasName
    <2>. QED BY <1>1, <2>3, OthersSame, StepOne DEF Rewrap
  <1>. QED BY <1>2, <1>3 DEF ReadOldHeader

\* The container in hand, and its header, which stays the same.
LEMMA InHand ==
    ASSUME IInv, OneInv, NEW p \in Proc, pc[p] \in Rewrapping \ {"ropen", "rheader"}
    PROVE  /\ HasName(p) /\ fd[p] \in DOMAIN file
           /\ file[fd[p]] \in Seq(Piece) /\ file[fd[p]] # <<>> /\ hdr[p] = file[fd[p]][1]
           /\ hdr[p] \in HeaderPiece /\ hdr[p].dek \in DOMAIN sealed
           /\ SizeOf(sealed, hdr[p].dek) \in Nat \ {0}
           /\ StartOf(sealed, file[fd[p]], hdr[p])
  <1>1. HasName(p) /\ file[fd[p]] # <<>> /\ hdr[p] = file[fd[p]][1]
    BY DEF OneInv, WriterInv, Rewraps
  <1>2. fd[p] \in DOMAIN file /\ TypeOK
    BY <1>1 DEF HasName, IInv, TypeOK
  <1>3. file[fd[p]] \in Seq(Piece)
    BY <1>2 DEF TypeOK
  <1>4. hdr[p] \in HeaderPiece /\ StartOf(sealed, file[fd[p]], hdr[p])
    BY <1>1, <1>2 DEF OneInv, FileShaped
  <1>5. 1 \in DOMAIN file[fd[p]]
    BY <1>1, <1>3
  <1>6. Good(hdr[p])
    BY <1>1, <1>2, <1>5 DEF IInv, FilesGood
  <1>7. hdr[p].dek \in DOMAIN sealed
    BY <1>4, <1>6 DEF Good, GoodFor, HeaderPiece
  <1>. QED BY <1>1, <1>2, <1>3, <1>4, <1>7, SizeType

\* The new header is the beginning of a copy.
LEMMA CopyBegins ==
    ASSUME NEW s, NEW h, NEW x, x.dek = h.dek, SizeOf(s, h.dek) \in Nat
    PROVE  StartOf(s, <<x>>, x) /\ Len(<<x>>) = 1 /\ <<x>>[1] = x
  <1>1. Full(s, x) >= 1
    BY DEF Full
  <1>. QED BY <1>1 DEF StartOf, PieceOf

LEMMA VerifyOldBodyOne ==
    ASSUME OneWriter, IInv, OneInv, NEW p \in Proc, VerifyOldBody(p)
    PROVE  OneInv'
  <1> DEFINE f == file[fd[p]]
             h == hdr[p]
             x == Header(h.dek, job[p].key, h.cls)
  <1>1. TypeOK /\ p \in Writer /\ UNCHANGED <<plain, path, file, sealed>> /\ pc[p] = "rbody"
    BY WriterIs DEF IInv, VerifyOldBody, Writing, Rewrapping, world
  <1>2. CASE RewrapFails(p, "error")
    BY <1>1, <1>2, RewrapFailsOne, OthersSame, StepOne DEF Rewrap
  <1>3. CASE /\ Verifies(f, h)
             /\ end' = [end EXCEPT ![p] = Len(f) - 2]
             /\ tmp' = [tmp EXCEPT ![p] = <<x>>]
             /\ Goto(p, "copy")
             /\ UNCHANGED <<job, fd, hdr, events, result>>
    <2>1. /\ pc'[p] = "copy" /\ end'[p] = Len(f) - 2 /\ tmp'[p] = <<x>>
          /\ job' = job /\ fd' = fd /\ hdr' = hdr
      BY <1>1, <1>3 DEF Goto, TypeOK
    <2>2. /\ HasName(p) /\ f \in Seq(Piece) /\ f # <<>> /\ h = f[1] /\ h \in HeaderPiece
          /\ SizeOf(sealed, h.dek) \in Nat \ {0} /\ StartOf(sealed, f, h)
      BY <1>1, InHand DEF Rewrapping
    <2>3. Len(f) = Full(sealed, h)
      BY <1>3, <2>2, VerifiesWhole
    <2>4. x.dek = h.dek
      BY DEF Header
    <2>5. StartOf(sealed, <<x>>, x) /\ Len(<<x>>) = 1 /\ <<x>>[1] = x
      BY <2>2, <2>4, CopyBegins
    <2>. HIDE DEF x
    <2>6. CopyOf(p)'
      <3>1. end'[p] = SizeOf(sealed, h.dek)
        BY <2>1, <2>2, <2>3 DEF Full
      <3>2. 1 <= SizeOf(sealed, h.dek) + 1
        BY <2>2
      <3>. HIDE DEF h, f
      <3>3. sealed' = sealed /\ hdr'[p] = h /\ file'[fd'[p]] = f
        BY <1>1, <2>1 DEF h, f
      <3>. QED BY <2>1, <2>3, <2>4, <2>5, <3>1, <3>2, <3>3 DEF CopyOf
    <2>7. HasName(p)' /\ file'[fd'[p]] # <<>> /\ hdr'[p] = file'[fd'[p]][1]
      BY <1>1, <2>1, <2>2 DEF HasName
    <2>8. WriterInv(p)'
      BY <1>1, <2>1, <2>6, <2>7 DEF WriterInv, Overwrites, Rewraps
    <2>. QED BY <1>1, <2>8, OthersSame, StepOne DEF Rewrap
  <1>. QED BY <1>2, <1>3 DEF VerifyOldBody

\* The copy of a piece is that piece of the copy: only the header and the
\* trailer over it are new.
LEMMA CopyAppend ==
    ASSUME NEW s, NEW h, NEW x, x.dek = h.dek, SizeOf(s, h.dek) \in Nat,
           NEW f \in Seq(Piece), StartOf(s, f, h), Len(f) = Full(s, h),
           NEW t \in Seq(Piece), StartOf(s, t, x), t # <<>>, Len(t) <= SizeOf(s, h.dek)
    PROVE  LET u == Append(t, f[Len(t) + 1]) IN
           /\ Len(u) = Len(t) + 1 /\ StartOf(s, u, x) /\ u[1] = t[1]
  <1> DEFINE n == Len(t)
             y == f[n + 1]
  <1>1. n \in Nat \ {0} /\ n + 1 \in 1 .. Len(f)
    BY DEF Full
  <1>2. y \in Piece /\ y = PieceOf(s, h, n + 1)
    BY <1>1 DEF StartOf
  <1>3. n + 1 # 1 /\ n + 1 <= SizeOf(s, h.dek) + 1
    BY <1>1
  <1>4. y = PieceOf(s, x, n + 1)
    BY <1>2, <1>3 DEF PieceOf
  <1>5. n < Full(s, x) /\ SizeOf(s, x.dek) \in Nat
    BY <1>1 DEF Full
  <1>. HIDE DEF n, y
  <1>6. Len(Append(t, y)) = n + 1 /\ StartOf(s, Append(t, y), x)
    BY <1>2, <1>4, <1>5, StartAppend DEF n
  <1>7. Append(t, y)[1] = t[1]
    BY <1>1 DEF n
  <1>. QED BY <1>6, <1>7 DEF n, y

LEMMA CopyEnds ==
    ASSUME NEW s, NEW x \in HeaderPiece, SizeOf(s, x.dek) \in Nat,
           NEW t \in Seq(Piece), StartOf(s, t, x), t[1] = x,
           Len(t) = SizeOf(s, x.dek) + 1
    PROVE  LET u == Append(t, Trailer(x, Bytes(SubSeq(t, 2, Len(t))))) IN
           /\ Len(u) = Full(s, x) /\ StartOf(s, u, x) /\ u[1] = t[1]
  <1> DEFINE n == Len(t)
             y == Trailer(x, Bytes(SubSeq(t, 2, n)))
  <1>1. n \in Nat \ {0} /\ n = SizeOf(s, x.dek) + 1
    OBVIOUS
  <1>2. y = Trailer(x, Body(s, x.dek))
    BY BytesOfBody
  <1>3. n + 1 # 1 /\ ~ (n + 1 <= SizeOf(s, x.dek) + 1)
    BY <1>1
  <1>4. y = PieceOf(s, x, n + 1)
    BY <1>2, <1>3 DEF PieceOf
  <1>5. y \in Piece
    <2>1. SubSeq(t, 2, n) \in Seq(Piece)
      BY <1>1
    <2>2. y \in TrailerPiece
      BY <2>1, BytesType DEF Trailer, TrailerPiece
    <2>. QED BY <2>2 DEF Piece
  <1>6. n < Full(s, x) /\ n + 1 = Full(s, x)
    BY <1>1 DEF Full
  <1>. HIDE DEF n, y
  <1>7. Len(Append(t, y)) = n + 1 /\ StartOf(s, Append(t, y), x)
    BY <1>4, <1>5, <1>6, StartAppend DEF n
  <1>8. Append(t, y)[1] = t[1]
    BY <1>1 DEF n
  <1>. QED BY <1>6, <1>7, <1>8 DEF n, y

LEMMA CopyPieceOne ==
    ASSUME OneWriter, IInv, OneInv, NEW p \in Proc, CopyPiece(p)
    PROVE  OneInv'
  <1> DEFINE f == file[fd[p]]
             h == hdr[p]
             t == tmp[p]
             x == t[1]
             n == SizeOf(sealed, h.dek)
             y == f[Len(t) + 1]
             z == Trailer(x, Bytes(SubSeq(t, 2, Len(t))))
  <1>1. TypeOK /\ p \in Writer /\ UNCHANGED <<plain, path, file, sealed>> /\ pc[p] = "copy"
    BY WriterIs DEF IInv, CopyPiece, Writing, Rewrapping, world
  <1>2. /\ HasName(p) /\ f \in Seq(Piece) /\ f # <<>> /\ h = f[1]
        /\ n \in Nat \ {0} /\ StartOf(sealed, f, h)
    BY <1>1, InHand DEF Rewrapping
  <1>3. /\ Len(f) = Full(sealed, h) /\ x.dek = h.dek /\ StartOf(sealed, t, x)
        /\ end[p] = n /\ Len(t) <= n + 1
    BY <1>1 DEF OneInv, WriterInv, Rewraps, CopyOf, Rewrapping, Copying
  <1>4. t \in Seq(Piece) /\ t # <<>> /\ x \in HeaderPiece /\ Len(t) \in Nat
    BY <1>1 DEF IInv, TypeOK, ProcInv, HasCopied, Copying
  <1>5. CASE RewrapFails(p, "error")
    BY <1>1, <1>5, RewrapFailsOne, OthersSame, StepOne DEF Rewrap
  \* What the process has in hand but for its copy.
  <1>6. ASSUME UNCHANGED local, NEW u, tmp'[p] = u,
               u[1] = x, StartOf(sealed, u, x),
               \/ pc'[p] = "copy" /\ Len(u) <= n + 1
               \/ pc'[p] = "rewrapped" /\ Len(u) = Full(sealed, h)
        PROVE  OneInv'
    <2>1. fd' = fd /\ hdr' = hdr /\ end' = end /\ job' = job /\ sealed' = sealed /\ file' = file
      BY <1>1, <1>6 DEF local
    <2>2. HasName(p)' /\ file'[fd'[p]] = f /\ hdr'[p] = h
      BY <1>1, <1>2, <2>1 DEF HasName
    <2>. HIDE DEF f, h, x
    <2>3. CopyOf(p)'
      BY <1>3, <1>6, <2>1, <2>2 DEF CopyOf
    <2>4. WriterInv(p)'
      BY <1>1, <1>2, <1>6, <2>2, <2>3 DEF WriterInv, Overwrites, Rewraps
    <2>. QED BY <1>1, <2>4, OthersSame, StepOne DEF Rewrap
  <1>7. CASE Len(t) <= end[p] /\ tmp' = [tmp EXCEPT ![p] = Append(@, y)] /\ UNCHANGED <<pc, local>>
    <2>1. tmp'[p] = Append(t, y) /\ pc'[p] = "copy"
      BY <1>1, <1>7 DEF TypeOK
    <2>2. Len(t) <= n
      BY <1>3, <1>7
    <2>. HIDE DEF f, h, x, t, n
    <2>3. Len(Append(t, y)) = Len(t) + 1 /\ StartOf(sealed, Append(t, y), x) /\ Append(t, y)[1] = t[1]
      BY <1>2, <1>3, <1>4, <2>2, CopyAppend DEF n
    <2>4. Len(Append(t, y)) <= n + 1 /\ Append(t, y)[1] = x
      BY <1>2, <1>4, <2>2, <2>3 DEF x
    <2>. HIDE DEF y
    <2>. QED BY <1>6, <1>7, <2>1, <2>3, <2>4
  <1>8. CASE /\ Len(t) > end[p]
             /\ tmp' = [tmp EXCEPT ![p] = Append(@, Trailer(@[1], Bytes(SubSeq(@, 2, Len(@)))))]
             /\ Goto(p, "rewrapped") /\ UNCHANGED local
    <2>1. tmp'[p] = Append(t, z) /\ pc'[p] = "rewrapped"
      BY <1>1, <1>8 DEF TypeOK, Goto
    <2>2. Len(t) = n + 1 /\ n = SizeOf(sealed, x.dek) /\ Full(sealed, x) = Full(sealed, h)
      BY <1>2, <1>3, <1>4, <1>8 DEF Full
    <2>. HIDE DEF f, h, x, t, n
    <2>3. /\ Len(Append(t, z)) = Full(sealed, x) /\ StartOf(sealed, Append(t, z), x)
          /\ Append(t, z)[1] = t[1]
      BY <1>2, <1>3, <1>4, <2>2, CopyEnds DEF x
    <2>. QED BY <1>6, <1>8, <2>1, <2>2, <2>3 DEF x
  <1>9. \/ RewrapFails(p, "error")
        \/ Len(t) <= end[p] /\ tmp' = [tmp EXCEPT ![p] = Append(@, y)] /\ UNCHANGED <<pc, local>>
        \/ /\ Len(t) > end[p]
           /\ tmp' = [tmp EXCEPT ![p] = Append(@, Trailer(@[1], Bytes(SubSeq(@, 2, Len(@)))))]
           /\ Goto(p, "rewrapped") /\ UNCHANGED local
    BY DEF CopyPiece, local
  <1>. QED BY <1>5, <1>7, <1>8, <1>9

LEMMA LogRewrappedOne ==
    ASSUME OneWriter, IInv, OneInv, NEW p \in Proc, LogRewrapped(p)
    PROVE  OneInv'
  <1>1. TypeOK /\ p \in Writer /\ UNCHANGED <<plain, path, file, sealed>> /\ pc[p] = "rewrapped"
    BY WriterIs DEF IInv, LogRewrapped, Writing, Rewrapping, world
  <1>2. CASE RewrapFails(p, "error")
    BY <1>1, <1>2, RewrapFailsOne, OthersSame, StepOne DEF Rewrap
  <1>3. CASE Goto(p, "replace") /\ UNCHANGED <<local, tmp>>
    <2>1. pc'[p] = "replace" /\ fd' = fd /\ hdr' = hdr /\ end' = end /\ job' = job /\ tmp' = tmp
      BY <1>1, <1>3 DEF Goto, TypeOK, local
    <2>2. HasName(p) /\ CopyOf(p) /\ file[fd[p]] # <<>> /\ hdr[p] = file[fd[p]][1]
      BY <1>1 DEF OneInv, WriterInv, Rewraps, Rewrapping, Copying
    <2>3. HasName(p)' /\ CopyOf(p)'
      BY <1>1, <2>1, <2>2 DEF HasName, CopyOf
    <2>4. WriterInv(p)'
      BY <1>1, <2>1, <2>2, <2>3 DEF WriterInv, Overwrites, Rewraps
    <2>. QED BY <1>1, <2>4, OthersSame, StepOne DEF Rewrap
  <1>. QED BY <1>2, <1>3 DEF LogRewrapped

\* What is about to be renamed, and what it replaces.
LEMMA BothWhole ==
    ASSUME IInv, OneInv, NEW p \in Proc, pc[p] = "replace"
    PROVE  /\ path[job[p].cls] = fd[p] /\ hdr[p].dek \in DOMAIN sealed
           /\ Whole(file[fd[p]], hdr[p].dek) /\ Whole(tmp[p], hdr[p].dek)
           /\ tmp[p] # <<>> /\ tmp[p][1] \in HeaderPiece /\ StartOf(sealed, tmp[p], tmp[p][1])
  <1>1. /\ HasName(p) /\ file[fd[p]] \in Seq(Piece) /\ hdr[p] \in HeaderPiece
        /\ hdr[p].dek \in DOMAIN sealed /\ StartOf(sealed, file[fd[p]], hdr[p])
    BY InHand DEF Rewrapping
  <1>2. CopyOf(p)
    BY DEF OneInv, WriterInv, Rewraps, Rewrapping, Copying
  <1>3. tmp[p] \in Seq(Piece) /\ tmp[p] # <<>> /\ tmp[p][1] \in HeaderPiece /\ TypeOK
    BY DEF IInv, TypeOK, ProcInv, HasCopied, Copying
  <1>4. Len(file[fd[p]]) = Full(sealed, hdr[p]) /\ Len(tmp[p]) = Full(sealed, tmp[p][1])
    BY <1>2 DEF CopyOf, Full
  <1>5. Whole(file[fd[p]], hdr[p].dek)
    BY <1>1, <1>3, <1>4, WholeFile
  <1>6. Whole(tmp[p], hdr[p].dek)
    BY <1>1, <1>2, <1>3, <1>4, WholeFile DEF CopyOf
  <1>. QED BY <1>1, <1>2, <1>3, <1>5, <1>6 DEF HasName, CopyOf

LEMMA ReplaceOne ==
    ASSUME OneWriter, IInv, OneInv, NEW p \in Proc, Replace(p)
    PROVE  /\ OneInv'
           /\ path' = [path EXCEPT ![job[p].cls] = Len(file) + 1]
           /\ file'[Len(file) + 1] = tmp[p]
  <1> DEFINE F == Seq(Piece)
  <1>1. /\ TypeOK /\ p \in Writer /\ pc[p] = "replace" /\ sealed' = sealed
        /\ file' = Append(file, tmp[p]) /\ Return(p, "ok")
        /\ path' = [path EXCEPT ![job[p].cls] = Len(file) + 1]
    BY WriterIs DEF IInv, Replace, Writing, Rewrapping
  <1>2. file \in Seq(F) /\ tmp[p] \in F
    BY <1>1 DEF TypeOK
  <1> HIDE DEF F
  <1>3. /\ file'[Len(file) + 1] = tmp[p] /\ \A i \in DOMAIN file : file'[i] = file[i]
        /\ \A i \in DOMAIN file' : i \in DOMAIN file \/ i = Len(file) + 1
    BY <1>1, <1>2, AppendProperties, LenProperties
  <1>4. \A i \in DOMAIN file' : FileShaped(i)'
    <2>1. ASSUME NEW i \in DOMAIN file' PROVE FileShaped(i)'
      <3>1. CASE i = Len(file) + 1
        BY <1>1, <1>3, <3>1, BothWhole DEF FileShaped
      <3>2. CASE i \in DOMAIN file
        BY <1>1, <1>3, <3>2 DEF OneInv, FileShaped
      <3>. QED BY <1>3, <2>1, <3>1, <3>2
    <2>. QED BY <2>1
  <1>. QED BY <1>1, <1>3, <1>4, ReturnsOne, OthersSame, StepOne DEF Rewrap

LEMMA RewrapOne ==
    ASSUME OneWriter, IInv, OneInv, NEW p \in Proc, Rewrap(p)
    PROVE  OneInv'
  <1>1. TypeOK
    BY DEF IInv
  <1>2. CASE RewrapIOFails(p)
    <2>1. p \in Writer /\ UNCHANGED <<plain, path, file, sealed>> /\ Return(p, "failed")
      BY <1>2, WriterIs DEF RewrapIOFails, FailQuietly, Writing, Rewrapping, world
    <2>. QED BY <1>1, <2>1, ReturnsOne, OthersSame, StepOne
  <1>. QED BY <1>1, <1>2, StartRewrapOne, OpenOldContainerOne, ReadOldHeaderOne,
              VerifyOldBodyOne, CopyPieceOne, LogRewrappedOne, ReplaceOne DEF Rewrap

-----------------------------------------------------------------------------
(* The theorems about one writer *)

LEMMA NextOne == OneWriter /\ IInv /\ OneInv /\ [Next]_vars => OneInv'
  <1> SUFFICES ASSUME OneWriter, IInv, OneInv, [Next]_vars
               PROVE  OneInv'
    OBVIOUS
  <1>1. TypeOK
    BY DEF IInv
  <1>2. ASSUME NEW p \in Proc, Encrypt(p) \/ Decrypt(p) \/ Rewrap(p) \/ Crash(p)
        PROVE  OneInv'
    <2>1. CASE Encrypt(p)
      BY <1>1, <2>1, EncryptOne, OpenOutputOne, WritePieceOne
    <2>2. CASE Crash(p)
      <3>1. UNCHANGED <<plain, path, file, sealed>> /\ Return(p, "interrupted")
        BY <2>2 DEF Crash, world
      <3>. QED BY <1>1, <2>2, <3>1, ReturnsOne, OthersSame, StepOne
    <2>. QED BY <1>1, <1>2, <2>1, <2>2, DecryptOne, RewrapOne
  <1>3. CASE NewPlain
    <2>1. UNCHANGED <<path, file, sealed, pc, job, fd, hdr, end, tmp>> /\ plain = NoDoc
      BY <1>3 DEF NewPlain, local
    <2>2. \A i \in DOMAIN file' : FileShaped(i)'
      BY <2>1 DEF OneInv, FileShaped
    <2>3. ASSUME NEW q \in Proc PROVE WriterInv(q)'
      <3>1. WriterInv(q)
        BY DEF OneInv
      <3>2. pc[q] \in {"write", "delete"} => FALSE
        <4> SUFFICES ASSUME pc[q] \in {"write", "delete"} PROVE FALSE
          OBVIOUS
        <4>1. Good(hdr[q]) /\ plain = sealed[hdr[q].dek].doc /\ hdr[q] \in HeaderPiece
          BY <1>1, <3>1 DEF WriterInv, Overwrites, TypeOK
        <4>2. sealed[hdr[q].dek].doc \in Doc
          BY <1>1, <4>1, SealedType DEF Good, GoodFor, HeaderPiece
        <4>3. 0 \notin Doc
          BY FileCryptoAssumption DEF Doc
        <4>. QED BY <2>1, <4>1, <4>2, <4>3 DEF NoDoc
      <3>3. Rewraps(q)'
        BY <2>1, <3>1 DEF WriterInv, Rewraps, CopyOf, HasName
      <3>. QED BY <2>1, <3>1, <3>2, <3>3 DEF WriterInv, Overwrites
    <2>. QED BY <2>2, <2>3 DEF OneInv
  <1>4. CASE Rotate \/ UNCHANGED vars
    <2>1. UNCHANGED <<plain, path, file, sealed, pc, job, fd, hdr, end, tmp>>
      BY <1>4 DEF Rotate, vars, world, local
    <2>. QED BY <2>1 DEF OneInv, FileShaped, WriterInv, Overwrites, Rewraps, CopyOf, HasName, Good
  <1>. QED BY <1>2, <1>3, <1>4 DEF Next

\* With one writer, a file is always the beginning of one container, and the
\* writer has the file that its name leads to.
THEOREM OneWriterInvariance == ASSUME OneWriter PROVE Spec => [](IInv /\ OneInv)
  <1>1. Init => IInv /\ OneInv
    BY InitInv, InitOne
  <1>2. (IInv /\ OneInv) /\ [Next]_vars => (IInv /\ OneInv)'
    BY NextInv, NextOne
  <1>. QED BY <1>1, <1>2, PTL DEF Spec

\* Decryption and rewrap leave the originals, and but for the last step of a
\* rewrap every name.
LEMMA OnlyReplaceRenames ==
    ASSUME NEW p, Decrypt(p) \/ Rewrap(p), ~ Replace(p)
    PROVE  UNCHANGED <<plain, path>>
  BY DEF Decrypt, StartDecrypt, OpenInput, ReadHeader, VerifyBody, Authorized, ReadChunk,
     Publish, DecryptIOFails, LogDecrypted, Rewrap, StartRewrap, OpenOldContainer,
     ReadOldHeader, VerifyOldBody, CopyPiece, LogRewrapped, RewrapIOFails, world

LEMMA OnlyEncryptDeletes ==
    ASSUME NEW p, Decrypt(p) \/ Rewrap(p)
    PROVE  UNCHANGED plain
  BY OnlyReplaceRenames DEF Replace

LEMMA DeletesSealed ==
    ASSUME OneWriter, IInv, OneInv, [Next]_vars, plain # NoDoc, plain' = NoDoc
    PROVE  \E c \in Level : OpensTo(c, plain)
  <1>1. TypeOK
    BY DEF IInv
  <1>2. PICK p \in Proc : DeleteOriginal(p)
    BY OnlyEncryptDeletes DEF Next, NewPlain, Rotate, Crash, Encrypt, StartEncrypt, CheckOutput,
       OpenOutput, OpenFails, WritePiece, WriteFails, LogEncrypted, vars, world
  <1> DEFINE f == file[fd[p]]
             h == hdr[p]
             c == job[p].cls
  <1>3. /\ HasName(p) /\ Good(h) /\ plain = sealed[h.dek].doc /\ StartOf(sealed, f, h)
        /\ Len(f) = Full(sealed, h)
    BY <1>2 DEF DeleteOriginal, OneInv, WriterInv, Overwrites
  <1>4. f \in Seq(Piece) /\ h \in HeaderPiece /\ c \in Level /\ path[c] = fd[p] /\ fd[p] # NoFile
    <2>1. fd[p] \in 1 .. Len(file) /\ path[c] = fd[p]
      BY <1>3 DEF HasName
    <2>2. job[p] \in Job
      BY <1>1, JobUser
    <2>3. c \in Level
      BY <2>2 DEF Job
    <2>4. f \in Seq(Piece) /\ h \in HeaderPiece
      BY <1>1, <2>1 DEF TypeOK
    <2>. QED BY <2>1, <2>3, <2>4 DEF NoFile
  <1>5. h.dek \in DOMAIN sealed
    BY <1>3, <1>4 DEF Good, GoodFor, HeaderPiece
  <1>6. Whole(f, h.dek)
    BY <1>1, <1>3, <1>4, <1>5, WholeFile
  <1>. QED BY <1>3, <1>4, <1>5, <1>6 DEF OpensTo

\* As long as one process encrypts and rewraps, whatever fails, and however
\* many decrypt meanwhile, an original is deleted only when the container of
\* its class opens to it.
THEOREM SealedFirst == ASSUME OneWriter PROVE Spec => SealedBeforeDeleted
  <1>1. (IInv /\ OneInv) /\ [Next]_vars =>
          [plain # NoDoc /\ plain' = NoDoc => \E c \in Level : OpensTo(c, plain)]_vars
    BY DeletesSealed
  <1>. QED BY <1>1, OneWriterInvariance, PTL DEF Spec, SealedBeforeDeleted

LEMMA RewrapsWhole ==
    ASSUME OneWriter, IInv, OneInv, [Next]_vars,
           NEW c \in Level, path[c] # NoFile, path'[c] \notin {NoFile, path[c]}
    PROVE  \E d \in DOMAIN sealed : Whole(file[path[c]], d) /\ Whole(file'[path'[c]], d)
  <1>1. path \in [Level -> NoFile .. Len(file)]
    BY DEF IInv, TypeOK
  <1>2. path' # path
    OBVIOUS
  <1>3. PICK p \in Proc : OpenOutput(p) \/ OpenFails(p) \/ WriteFails(p) \/ Replace(p)
    BY <1>2, OnlyReplaceRenames DEF Next, NewPlain, Rotate, Crash, Encrypt, StartEncrypt,
       CheckOutput, WritePiece, DeleteOriginal, LogEncrypted, vars, world
  <1>4. ~ (OpenOutput(p) \/ OpenFails(p) \/ WriteFails(p))
    BY <1>1 DEF OpenOutput, OpenFails, WriteFails, RemoveOutput
  <1>5. Replace(p)
    BY <1>3, <1>4
  <1>6. c = job[p].cls /\ path'[c] = Len(file) + 1 /\ file'[path'[c]] = tmp[p]
    BY <1>1, <1>5, ReplaceOne
  <1>7. /\ path[c] = fd[p] /\ hdr[p].dek \in DOMAIN sealed
        /\ Whole(file[fd[p]], hdr[p].dek) /\ Whole(tmp[p], hdr[p].dek)
    BY <1>5, <1>6, BothWhole DEF Replace
  <1>8. Whole(file'[path'[c]], hdr[p].dek)
    BY <1>6, <1>7
  <1>. QED BY <1>7, <1>8

\* Under the same condition, a rewrap replaces a whole container by a whole
\* container of the same document and the same data key.
THEOREM RewrapsKeep == ASSUME OneWriter PROVE Spec => RewrapKeepsDocument
  <1>1. (IInv /\ OneInv) /\ [Next]_vars =>
          [\A c \in Level : path[c] # NoFile /\ path'[c] \notin {NoFile, path[c]} =>
             \E d \in DOMAIN sealed :
                Whole(file[path[c]], d) /\ Whole(file'[path'[c]], d)]_vars
    BY RewrapsWhole
  <1>. QED BY <1>1, OneWriterInvariance, PTL DEF Spec, RewrapKeepsDocument
=============================================================================
