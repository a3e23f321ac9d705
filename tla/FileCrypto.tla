----------------------------- MODULE FileCrypto -----------------------------
(***************************************************************************)
(* The file engine: stream_encrypt_file, stream_decrypt_file and           *)
(* rewrap_dek of spy/file_crypto_engine.py, with the container writer and  *)
(* reader they drive, run by any number of processes on one input file.    *)
(*                                                                         *)
(* An operation takes many steps on shared files and nothing holds other   *)
(* processes off.  A container is a file of pieces (header, chunks,        *)
(* trailer) of equal size; encryption truncates and writes it in place,    *)
(* rewrap replaces it by another file under the same name, and a process   *)
(* that has it open goes on with the file it opened.  Hence file numbers:  *)
(* a name refers to one, and so does a descriptor.                         *)
(*                                                                         *)
(* Cryptography is what it promises: only holders of the signing key make  *)
(* headers and trailers that verify, and a chunk decrypts under its own    *)
(* data key, at its own index.  A chunk piece also stands for its          *)
(* plaintext.                                                              *)
(***************************************************************************)
EXTENDS Access, Sequences, FiniteSets

CONSTANTS
    Encryptor, Decryptor, Rewrapper,    \* processes, by what they run
    Callers,    \* users on whose behalf they run it
    Contexts,   \* signals given to the policy engine
    Size,       \* Size[doc]: chunks of each document
    Faults,     \* which failures happen: "crash", "io", "audit"
    MaxDeks,    \* bound on encryptions that get to write
    MaxKeys     \* bound on key rotations

Proc == Encryptor \cup Decryptor \cup Rewrapper
Doc == DOMAIN Size

ASSUME FileCryptoAssumption ==
    /\ Callers \subseteq Caller
    /\ Contexts \subseteq SUBSET {"sensitive", "internal"}
    /\ Size \in Seq(Nat \ {0})
    /\ Faults \subseteq {"crash", "io", "audit"}
    /\ MaxDeks \in Nat /\ MaxKeys \in Nat \ {0}

Header(d, k, c) == [kind |-> "header", dek |-> d, key |-> k, cls |-> c]
Chunk(d, n, last) == [kind |-> "chunk", dek |-> d, n |-> n, last |-> last]
Trailer(h, s) == [kind |-> "trailer", hdr |-> h, body |-> s]
Hole == [kind |-> "hole"]   \* bytes that are none of these

HeaderPiece == [kind : {"header"}, dek : Nat, key : Nat, cls : Level]
ChunkPiece == [kind : {"chunk"}, dek : Nat, n : Nat, last : BOOLEAN]
TrailerPiece == [kind : {"trailer"}, hdr : HeaderPiece, body : Seq(ChunkPiece \cup {Hole})]
Piece == HeaderPiece \cup ChunkPiece \cup TrailerPiece \cup {Hole}

NoDoc == 0
NoFile == 0
NoHeader == Header(0, 0, "low")
Job == [op : {"none", "encrypt", "decrypt", "rewrap"}, user : Caller, cls : Level,
        over : BOOLEAN, del : BOOLEAN, key : Nat]
NoJob == [op |-> "none", user |-> System, cls |-> "low", over |-> FALSE,
          del |-> FALSE, key |-> 0]
Event == [user : Caller, outcome : {"success", "denied", "error"}]

VARIABLES
    plain,      \* the document in the input file, or NoDoc
    path,       \* the file under the container's name in each class directory
    file,       \* contents of every file ever made
    out,        \* the plaintext published in each class directory, for whom
    sealed,     \* document and class each data key was generated for
    active,     \* the newest encryption key
    pc,         \* where each process is
    job,        \* what it was called with; key is its registry snapshot
    fd,         \* the container file it has open
    hdr,        \* header verified, or to be written
    end,        \* last chunk of the verified body, or pieces written
    tmp,        \* contents of its temporary file
    events,     \* audit events of its operation
    result      \* how its last operation ended

world == <<plain, path, file, out, sealed, active>>
local == <<job, fd, hdr, end>>
vars == <<world, pc, local, tmp, events, result>>

PCs == {"idle", "check", "open", "write", "delete", "sealed",
        "dopen", "header", "body", "place", "chunks", "publish", "released",
        "ropen", "rheader", "rbody", "copy", "rewrapped", "replace"}

TypeOK ==
    /\ plain \in Doc \cup {NoDoc}
    /\ path \in [Level -> NoFile .. Len(file)]
    /\ file \in Seq(Seq(Piece))
    /\ out \in [Level -> [text : Seq(ChunkPiece), user : Caller]]
    /\ sealed \in Seq([doc : Doc, cls : Level])
    /\ active \in 1 .. MaxKeys
    /\ pc \in [Proc -> PCs]
    /\ job \in [Proc -> Job]
    /\ fd \in [Proc -> NoFile .. Len(file)]
    /\ hdr \in [Proc -> HeaderPiece]
    /\ end \in [Proc -> Nat]
    /\ tmp \in [Proc -> Seq(Piece)]
    /\ events \in [Proc -> Seq(Event)]
    /\ result \in [Proc -> {"none", "ok", "failed", "interrupted"}]

Init ==
    /\ plain = NoDoc
    /\ path = [c \in Level |-> NoFile]
    /\ file = <<>>
    /\ out = [c \in Level |-> [text |-> <<>>, user |-> System]]
    /\ sealed = <<>>
    /\ active = 1
    /\ pc = [p \in Proc |-> "idle"]
    /\ job = [p \in Proc |-> NoJob]
    /\ fd = [p \in Proc |-> NoFile]
    /\ hdr = [p \in Proc |-> NoHeader]
    /\ end = [p \in Proc |-> 0]
    /\ tmp = [p \in Proc |-> <<>>]
    /\ events = [p \in Proc |-> <<>>]
    /\ result = [p \in Proc |-> "none"]

-----------------------------------------------------------------------------
(* What the operations share *)

Goto(p, label) == pc' = [pc EXCEPT ![p] = label]

\* What is left to know of a call that has returned.
Over(j) == [NoJob EXCEPT !.op = j.op, !.user = j.user]

\* The operation is over; its temporary file is gone, its files are closed.
Return(p, how) ==
    /\ Goto(p, "idle")
    /\ result' = [result EXCEPT ![p] = how]
    /\ tmp' = [tmp EXCEPT ![p] = <<>>]
    /\ job' = [job EXCEPT ![p] = Over(job[p])]
    /\ fd' = [fd EXCEPT ![p] = NoFile]
    /\ hdr' = [hdr EXCEPT ![p] = NoHeader]
    /\ end' = [end EXCEPT ![p] = 0]

\* AuditLogger.log_event for each of these in turn, every one of which may
\* raise AuditLogError; the callers replace the exception and go on.
Entry(u, outcome) == [user |-> u, outcome |-> outcome]
Log(p, entries) == events' = [events EXCEPT ![p] = @ \o entries]
Kept(entries) ==
    IF "audit" \in Faults
    THEN {<<>>, entries} \cup {<<entries[i]>> : i \in DOMAIN entries}
    ELSE {entries}

Fail(p, entries) ==
    Return(p, "failed") /\ \E kept \in Kept(entries) : Log(p, kept)

\* An OSError that escapes the handlers of FileCryptoError: no event.
FailQuietly(p) == Return(p, "failed") /\ UNCHANGED events
IOError == "io" \in Faults

Start(p, request) ==
    /\ pc[p] = "idle"
    /\ job' = [job EXCEPT ![p] = request]
    /\ events' = [events EXCEPT ![p] = <<>>]
    /\ result' = [result EXCEPT ![p] = "none"]

\* The body the reader hashes: whatever is not a chunk is just bytes.
Bytes(s) == [i \in DOMAIN s |-> IF s[i].kind = "chunk" THEN s[i] ELSE Hole]

HasHeader(f) == f # <<>> /\ f[1].kind = "header"

\* read_and_verify_header and verify_body_signature.  The trailer is written
\* last, so a body read piece by piece verifies only if it was all there.
Verifies(f, h) == Len(f) >= 2 /\ f[Len(f)] = Trailer(h, Bytes(SubSeq(f, 2, Len(f) - 1)))

\* write() at an offset of one's own, in a file that another process may have
\* truncated.
Put(f, i, piece) ==
    [j \in 1 .. (IF Len(f) < i THEN i ELSE Len(f)) |->
        IF j = i THEN piece ELSE IF j <= Len(f) THEN f[j] ELSE Hole]

Chunks(d) ==
    [n \in 1 .. Size[sealed[d].doc] |-> Chunk(d, n, n = Size[sealed[d].doc])]

-----------------------------------------------------------------------------
(* stream_encrypt_file *)

\* Everything up to the authorization; a denial is logged here and raised
\* outside the handler that logs errors.
StartEncrypt(p) ==
    /\ p \in Encryptor
    /\ plain # NoDoc
    /\ Len(sealed) < MaxDeks
    /\ \E u \in Callers, signals \in Contexts, over, del \in BOOLEAN :
        LET c == DataClassification(u, signals)
            request == [op |-> "encrypt", user |-> u, cls |-> c, over |-> over,
                        del |-> del, key |-> active]
        IN  \/ /\ u = System \/ Authorize(u, "encrypt", c)
               /\ Start(p, request)
               /\ Goto(p, "check")
            \/ /\ u # System /\ ~ Authorize(u, "encrypt", c)
               /\ pc[p] = "idle"
               /\ job' = [job EXCEPT ![p] = Over(request)]
               /\ \E kept \in Kept(<<Entry(u, "denied")>>) :
                     events' = [events EXCEPT ![p] = kept]
               /\ result' = [result EXCEPT ![p] = "failed"]
               /\ UNCHANGED pc
    /\ UNCHANGED <<world, fd, hdr, end, tmp>>

EncryptFails(p, outcome) == Fail(p, <<Entry(job[p].user, outcome)>>)

\* The output must be free; then the keys are looked up and the data key is
\* wrapped.
CheckOutput(p) ==
    /\ pc[p] = "check"
    /\ \/ /\ path[job[p].cls] # NoFile /\ ~ job[p].over
          /\ EncryptFails(p, "denied")
       \/ /\ path[job[p].cls] = NoFile \/ job[p].over
          /\ \/ Goto(p, "open") /\ UNCHANGED <<local, tmp, events, result>>
             \/ IOError /\ EncryptFails(p, "error")
    /\ UNCHANGED world

\* The cleanup removes whatever has the name of the output.
RemoveOutput(p) == path' = [path EXCEPT ![job[p].cls] = NoFile]

\* open(input, "rb"), open(output, "wb"): an existing file is emptied.
OpenOutput(p) ==
    /\ pc[p] = "open"
    /\ plain # NoDoc
    /\ LET c == job[p].cls
           f == IF path[c] = NoFile THEN Len(file) + 1 ELSE path[c]
       IN  /\ path' = [path EXCEPT ![c] = f]
           /\ file' = IF path[c] = NoFile THEN Append(file, <<>>)
                      ELSE [file EXCEPT ![f] = <<>>]
           /\ fd' = [fd EXCEPT ![p] = f]
           /\ sealed' = Append(sealed, [doc |-> plain, cls |-> c])
           /\ hdr' = [hdr EXCEPT ![p] = Header(Len(sealed) + 1, job[p].key, c)]
    /\ end' = [end EXCEPT ![p] = 0]
    /\ Goto(p, "write")
    /\ UNCHANGED <<plain, out, active, job, tmp, events, result>>

OpenFails(p) ==
    /\ pc[p] = "open"
    /\ plain = NoDoc \/ IOError
    /\ RemoveOutput(p)
    /\ EncryptFails(p, "error")
    /\ UNCHANGED <<plain, file, out, sealed, active>>

\* write_header, write_chunks and close: one piece at a time, the trailer
\* over what was written.
NextPiece(p) ==
    LET body == Chunks(hdr[p].dek) IN
    IF end[p] = 0 THEN hdr[p]
    ELSE IF end[p] <= Len(body) THEN body[end[p]]
    ELSE Trailer(hdr[p], body)

\* Bug: done when the last chunk is written.
WritePieceEarly(p) ==
    /\ pc[p] = "write"
    /\ file' = [file EXCEPT ![fd[p]] = Put(@, end[p] + 1, NextPiece(p))]
    /\ end' = [end EXCEPT ![p] = @ + 1]
    /\ Goto(p, IF end[p] < Len(Chunks(hdr[p].dek)) THEN "write"
               ELSE IF job[p].del THEN "delete" ELSE "sealed")
    /\ UNCHANGED <<plain, path, out, sealed, active, job, fd, hdr, tmp, events, result>>

WritePiece(p) ==
    /\ pc[p] = "write"
    /\ file' = [file EXCEPT ![fd[p]] = Put(@, end[p] + 1, NextPiece(p))]
    /\ end' = [end EXCEPT ![p] = @ + 1]
    /\ Goto(p, IF end[p] <= Len(Chunks(hdr[p].dek)) THEN "write"
               ELSE IF job[p].del THEN "delete" ELSE "sealed")
    /\ UNCHANGED <<plain, path, out, sealed, active, job, fd, hdr, tmp, events, result>>

WriteFails(p) ==
    /\ pc[p] = "write"
    /\ IOError
    /\ RemoveOutput(p)
    /\ EncryptFails(p, "error")
    /\ UNCHANGED <<plain, file, out, sealed, active>>

\* unlink(missing_ok=False), before anything is logged.
DeleteOriginal(p) ==
    /\ pc[p] = "delete"
    /\ \/ /\ plain # NoDoc
          /\ plain' = NoDoc
          /\ Goto(p, "sealed")
          /\ UNCHANGED <<local, tmp, events, result>>
       \/ /\ plain = NoDoc \/ IOError
          /\ FailQuietly(p)
          /\ UNCHANGED plain
    /\ UNCHANGED <<path, file, out, sealed, active>>

\* Bug: an event that could not be logged is ignored.
LogEncryptedAnyhow(p) ==
    /\ pc[p] = "sealed"
    /\ Return(p, "ok")
    /\ \E kept \in Kept(<<Entry(job[p].user, "success")>>) : Log(p, kept)
    /\ UNCHANGED world

LogEncrypted(p) ==
    /\ pc[p] = "sealed"
    /\ \/ Return(p, "ok") /\ Log(p, <<Entry(job[p].user, "success")>>)
       \/ "audit" \in Faults /\ EncryptFails(p, "error")
    /\ UNCHANGED world

Encrypt(p) ==
    \/ StartEncrypt(p)
    \/ CheckOutput(p)
    \/ OpenOutput(p)
    \/ OpenFails(p)
    \/ WritePiece(p)
    \/ WriteFails(p)
    \/ DeleteOriginal(p)
    \/ LogEncrypted(p)

-----------------------------------------------------------------------------
(* stream_decrypt_file *)

\* The file exists and begins like a container.
StartDecrypt(p) ==
    /\ p \in Decryptor
    /\ \E u \in Callers, c \in Level, over \in BOOLEAN :
        /\ path[c] # NoFile
        /\ HasHeader(file[path[c]])
        /\ Start(p, [op |-> "decrypt", user |-> u, cls |-> c, over |-> over,
                     del |-> FALSE, key |-> active])
    /\ Goto(p, "dopen")
    /\ UNCHANGED <<world, fd, hdr, end, tmp>>

\* Then it is opened again, by name, which may be another file's by now, or
\* nobody's.
Reopen(p, label) ==
    LET f == path[job[p].cls] IN
    \/ /\ f # NoFile
       /\ fd' = [fd EXCEPT ![p] = f]
       /\ Goto(p, label)
       /\ UNCHANGED <<job, hdr, end, tmp, events, result>>
    \/ f = NoFile /\ FailQuietly(p)

OpenInput(p) == pc[p] = "dopen" /\ Reopen(p, "header") /\ UNCHANGED world

\* Until the caller is authorized, errors are attributed to the system.
DecryptFails(p) ==
    Fail(p, <<Entry(IF pc[p] = "chunks" THEN job[p].user ELSE System, "error")>>)

ReadHeader(p) ==
    /\ pc[p] = "header"
    /\ LET f == file[fd[p]] IN
       \/ /\ HasHeader(f)
          /\ hdr' = [hdr EXCEPT ![p] = f[1]]
          /\ Goto(p, "body")
          /\ UNCHANGED <<job, fd, end, tmp, events, result>>
       \/ ~ HasHeader(f) /\ DecryptFails(p)
    /\ UNCHANGED world

\* The file is read anew; the header verified is the one in memory.
VerifyBody(p) ==
    /\ pc[p] = "body"
    /\ LET f == file[fd[p]] IN
       \/ /\ Verifies(f, hdr[p])
          /\ end' = [end EXCEPT ![p] = Len(f) - 2]
          /\ Goto(p, "place")
          /\ UNCHANGED <<job, fd, hdr, tmp, events, result>>
       \/ ~ Verifies(f, hdr[p]) /\ DecryptFails(p)
    /\ UNCHANGED world

\* The output must be free; a temporary file is made beside it; the caller
\* must be authorized for the class of the container; its key must be in
\* the registry the operation loaded.  A denial is raised inside the handler
\* of errors, which logs once more.
Cleared(u, c) == u = System \/ Authorize(u, "decrypt", c)

Authorized(p) ==
    /\ pc[p] = "place"
    /\ LET u == job[p].user
           c == hdr[p].cls
       IN  \/ /\ out[c].text # <<>> /\ ~ job[p].over
              /\ DecryptFails(p)
           \/ /\ out[c].text = <<>> \/ job[p].over
              /\ \/ /\ ~ Cleared(u, c)
                    /\ Fail(p, <<Entry(u, "denied"), Entry(System, "error")>>)
                 \/ /\ Cleared(u, c)
                    /\ IF hdr[p].key <= job[p].key
                       THEN Goto(p, "chunks") /\ UNCHANGED <<local, tmp, events, result>>
                       ELSE Fail(p, <<Entry(u, "error")>>)
    /\ UNCHANGED world

\* Bug: the end of the file ends the document.
ReadChunkToEOF(p) ==
    /\ pc[p] = "chunks"
    /\ LET f == file[fd[p]]
           n == Len(tmp[p]) + 1
           decrypts == /\ n <= end[p] /\ n + 1 <= Len(f)
                       /\ f[n + 1].kind = "chunk"
                       /\ f[n + 1].dek = hdr[p].dek
                       /\ f[n + 1].n = n
       IN  \/ /\ decrypts
              /\ tmp' = [tmp EXCEPT ![p] = Append(@, f[n + 1])]
              /\ Goto(p, IF f[n + 1].last THEN "publish" ELSE "chunks")
           \/ /\ n + 1 > Len(f)
              /\ Goto(p, "publish")
              /\ UNCHANGED tmp
    /\ UNCHANGED <<world, local, events, result>>

\* Bug: a chunk is accepted under any key.
ReadChunkAnyKey(p) ==
    /\ pc[p] = "chunks"
    /\ LET f == file[fd[p]]
           n == Len(tmp[p]) + 1
       IN  /\ n <= end[p] /\ n + 1 <= Len(f)
           /\ f[n + 1].kind = "chunk"
           /\ tmp' = [tmp EXCEPT ![p] = Append(@, f[n + 1])]
           /\ Goto(p, IF f[n + 1].last THEN "publish" ELSE "chunks")
    /\ UNCHANGED <<world, local, events, result>>

\* iter_plaintext_chunks: the next piece of the file, as it is now.
ReadChunk(p) ==
    /\ pc[p] = "chunks"
    /\ LET f == file[fd[p]]
           n == Len(tmp[p]) + 1
           decrypts == /\ n <= end[p] /\ n + 1 <= Len(f)
                       /\ f[n + 1].kind = "chunk"
                       /\ f[n + 1].dek = hdr[p].dek
                       /\ f[n + 1].n = n
       IN  \/ /\ decrypts
              /\ tmp' = [tmp EXCEPT ![p] = Append(@, f[n + 1])]
              /\ Goto(p, IF f[n + 1].last THEN "publish" ELSE "chunks")
              /\ UNCHANGED <<local, events, result>>
           \/ ~ decrypts /\ DecryptFails(p)
           \/ IOError /\ DecryptFails(p)
    /\ UNCHANGED world

\* os.replace of the temporary file over the output.
Publish(p) ==
    /\ pc[p] = "publish"
    /\ out' = [out EXCEPT ![hdr[p].cls] = [text |-> tmp[p], user |-> job[p].user]]
    /\ tmp' = [tmp EXCEPT ![p] = <<>>]
    /\ Goto(p, "released")
    /\ UNCHANGED <<plain, path, file, sealed, active, local, events, result>>

\* "except Exception": the temporary file is removed, nothing is logged.
DecryptIOFails(p) ==
    /\ pc[p] \in {"dopen", "header", "body", "place", "chunks", "publish"}
    /\ IOError
    /\ FailQuietly(p)
    /\ UNCHANGED world

LogDecrypted(p) ==
    /\ pc[p] = "released"
    /\ \/ Return(p, "ok") /\ Log(p, <<Entry(job[p].user, "success")>>)
       \/ "audit" \in Faults /\ FailQuietly(p)
    /\ UNCHANGED world

Decrypt(p) ==
    \/ StartDecrypt(p)
    \/ OpenInput(p)
    \/ ReadHeader(p)
    \/ VerifyBody(p)
    \/ Authorized(p)
    \/ ReadChunk(p)
    \/ Publish(p)
    \/ DecryptIOFails(p)
    \/ LogDecrypted(p)

-----------------------------------------------------------------------------
(* rewrap_dek, in place *)

StartRewrap(p) ==
    /\ p \in Rewrapper
    /\ \E u \in Callers, c \in Level :
        /\ path[c] # NoFile
        /\ HasHeader(file[path[c]])
        /\ Start(p, [op |-> "rewrap", user |-> u, cls |-> c, over |-> FALSE,
                     del |-> FALSE, key |-> active])
    /\ Goto(p, "ropen")
    /\ UNCHANGED <<world, fd, hdr, end, tmp>>

OpenOldContainer(p) == pc[p] = "ropen" /\ Reopen(p, "rheader") /\ UNCHANGED world

\* Without an authenticated user there is nobody to attribute an event to.
Attributable(p) == job[p].user # System /\ job[p].user.authenticated
RewrapFails(p, outcome) ==
    Fail(p, IF Attributable(p) THEN <<Entry(job[p].user, outcome)>> ELSE <<>>)

ReadOldHeader(p) ==
    /\ pc[p] = "rheader"
    /\ LET f == file[fd[p]]
           u == job[p].user
       IN  \/ ~ HasHeader(f) /\ RewrapFails(p, "error")
           \/ /\ HasHeader(f)
              /\ ~ Authorize(u, "rewrap", f[1].cls)
              /\ \/ RewrapFails(p, "denied")
                 \/ "audit" \in Faults /\ RewrapFails(p, "error")
           \/ /\ HasHeader(f)
              /\ Authorize(u, "rewrap", f[1].cls)
              /\ hdr' = [hdr EXCEPT ![p] = f[1]]
              /\ Goto(p, "rbody")
              /\ UNCHANGED <<job, fd, end, tmp, events, result>>
    /\ UNCHANGED world

\* The body must verify, the old key be known and the active one another;
\* then the new header is written to a temporary file.
VerifyOldBody(p) ==
    /\ pc[p] = "rbody"
    /\ LET f == file[fd[p]]
           h == hdr[p]
           accepted == Verifies(f, h) /\ h.key < job[p].key
       IN  \/ ~ accepted /\ RewrapFails(p, "error")
           \/ /\ accepted
              /\ end' = [end EXCEPT ![p] = Len(f) - 2]
              /\ tmp' = [tmp EXCEPT ![p] = <<Header(h.dek, job[p].key, h.cls)>>]
              /\ Goto(p, "copy")
              /\ UNCHANGED <<job, fd, hdr, events, result>>
    /\ UNCHANGED world

\* Bug: the old trailer is copied, too.
CopyPieceAndTrailer(p) ==
    /\ pc[p] = "copy"
    /\ LET f == file[fd[p]]
           n == Len(tmp[p])
       IN  \/ /\ n < Len(f)
              /\ tmp' = [tmp EXCEPT ![p] = Append(@, f[n + 1])]
              /\ UNCHANGED pc
           \/ /\ n >= Len(f)
              /\ tmp' = [tmp EXCEPT ![p] =
                    Append(@, Trailer(@[1], Bytes(SubSeq(@, 2, Len(@)))))]
              /\ Goto(p, "rewrapped")
    /\ UNCHANGED <<world, local, events, result>>

\* The body is copied as it is now, as bytes, and signed for what was copied.
CopyPiece(p) ==
    /\ pc[p] = "copy"
    /\ LET f == file[fd[p]]
           n == Len(tmp[p])
       IN  \/ /\ n <= end[p] /\ n < Len(f)
              /\ tmp' = [tmp EXCEPT ![p] = Append(@, f[n + 1])]
              /\ UNCHANGED <<pc, local, events, result>>
           \/ /\ n <= end[p] /\ n >= Len(f)
              /\ RewrapFails(p, "error")
           \/ /\ n > end[p]
              /\ tmp' = [tmp EXCEPT ![p] =
                    Append(@, Trailer(@[1], Bytes(SubSeq(@, 2, Len(@)))))]
              /\ Goto(p, "rewrapped")
              /\ UNCHANGED <<local, events, result>>
    /\ UNCHANGED world

\* The success is logged before the container is replaced.  If that fails,
\* so does the operation, and it logs the error.
LogRewrapped(p) ==
    /\ pc[p] = "rewrapped"
    /\ \/ /\ Log(p, <<Entry(job[p].user, "success")>>)
          /\ Goto(p, "replace")
          /\ UNCHANGED <<local, tmp, result>>
       \/ "audit" \in Faults /\ RewrapFails(p, "error")
    /\ UNCHANGED world

\* Bug: the temporary file is removed, then renamed.
ReplaceLost(p) ==
    /\ pc[p] = "replace"
    /\ path' = [path EXCEPT ![job[p].cls] = Len(file) + 1]
    /\ Return(p, "ok")
    /\ UNCHANGED <<plain, file, out, sealed, active, events>>

Replace(p) ==
    /\ pc[p] = "replace"
    /\ file' = Append(file, tmp[p])
    /\ path' = [path EXCEPT ![job[p].cls] = Len(file) + 1]
    /\ Return(p, "ok")
    /\ UNCHANGED <<plain, out, sealed, active, events>>

RewrapIOFails(p) ==
    /\ pc[p] \in {"ropen", "rheader", "rbody", "copy", "replace"}
    /\ IOError
    /\ FailQuietly(p)
    /\ UNCHANGED world

Rewrap(p) ==
    \/ StartRewrap(p)
    \/ OpenOldContainer(p)
    \/ ReadOldHeader(p)
    \/ VerifyOldBody(p)
    \/ CopyPiece(p)
    \/ LogRewrapped(p)
    \/ Replace(p)
    \/ RewrapIOFails(p)

-----------------------------------------------------------------------------
(* The world around them *)

\* Somebody puts a document in the input directory.  It is not changed while
\* it is there.
NewPlain ==
    /\ plain = NoDoc
    /\ plain' \in Doc
    /\ UNCHANGED <<path, file, out, sealed, active, pc, local, tmp, events, result>>

\* Another process rotates the encryption key; the old one still decrypts.
Rotate ==
    /\ active < MaxKeys
    /\ active' = active + 1
    /\ UNCHANGED <<plain, path, file, out, sealed, pc, local, tmp, events, result>>

\* The process is killed or interrupted.  Its temporary file stays on disk,
\* where nothing reads it again.
Crash(p) ==
    /\ "crash" \in Faults
    /\ pc[p] # "idle"
    /\ Return(p, "interrupted")
    /\ UNCHANGED <<world, events>>

Next ==
    \/ \E p \in Proc : Encrypt(p) \/ Decrypt(p) \/ Rewrap(p) \/ Crash(p)
    \/ NewPlain
    \/ Rotate

Spec == Init /\ [][Next]_vars

-----------------------------------------------------------------------------
(* Properties *)

\* A whole container of data key d: header, every chunk, trailer over both.
Whole(f, d) ==
    /\ HasHeader(f)
    /\ f[1].dek = d
    /\ f = <<f[1]>> \o Chunks(d) \o <<Trailer(f[1], Chunks(d))>>

\* The name of class c leads to a container that opens to this document.
OpensTo(c, doc) ==
    /\ path[c] # NoFile
    /\ \E d \in DOMAIN sealed : sealed[d].doc = doc /\ Whole(file[path[c]], d)

\* Whatever other processes do to the container between its verification and
\* its decryption, what stream_decrypt_file puts in the directory of a class
\* is a complete document that was sealed at that class, released to a caller
\* cleared for it.
PublishedAuthentic ==
    \A c \in Level : out[c].text # <<>> =>
        /\ Cleared(out[c].user, c)
        /\ \E d \in DOMAIN sealed : sealed[d].cls = c /\ out[c].text = Chunks(d)

\* The same of what a decryption has in its temporary file, which a crash
\* leaves on disk: the beginning of such a document.
TemporaryAuthentic ==
    \A p \in Proc : pc[p] \in {"chunks", "publish"} =>
        /\ Cleared(job[p].user, hdr[p].cls)
        /\ \E d \in DOMAIN sealed :
              /\ sealed[d].cls = hdr[p].cls
              /\ Len(tmp[p]) <= Len(Chunks(d))
              /\ tmp[p] = SubSeq(Chunks(d), 1, Len(tmp[p]))

\* The original is deleted only when its container opens to it, as long as
\* one process encrypts and rewraps: with two, a rewrap of the container that
\* is being overwritten can put the old one back under the name.
SealedBeforeDeleted ==
    [][plain # NoDoc /\ plain' = NoDoc => \E c \in Level : OpensTo(c, plain)]_vars

\* A rewrap puts under the name a container that opens to the same document,
\* under the same condition.
RewrapKeepsDocument ==
    [][\A c \in Level : path[c] # NoFile /\ path'[c] \notin {NoFile, path[c]} =>
         \E d \in DOMAIN sealed :
            Whole(file[path[c]], d) /\ Whole(file'[path'[c]], d)]_vars

\* An operation that returns has logged its success once, and nothing else,
\* for the user it was called for; an encryption or decryption that raises has
\* logged none.  (A rewrap may: os.replace comes after the event.)
Accounted ==
    \A p \in Proc : pc[p] = "idle" =>
        /\ result[p] = "ok" => events[p] = <<Entry(job[p].user, "success")>>
        /\ result[p] = "failed" /\ job[p].op # "rewrap" =>
              \A i \in DOMAIN events[p] : events[p][i].outcome # "success"

\* "Clean up partial output on failure": an encryption that fails removes no
\* container that opens.
WholeContainersKept ==
    [][\A c \in Level : path[c] # NoFile /\ path'[c] = NoFile =>
         \A d \in DOMAIN sealed : ~ Whole(file[path[c]], d)]_vars
=============================================================================
