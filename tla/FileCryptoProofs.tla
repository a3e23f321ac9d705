-------------------------- MODULE FileCryptoProofs --------------------------
(***************************************************************************)
(* Proofs about FileCrypto: what decryption releases is authentic, for any *)
(* number of processes that encrypt, decrypt and rewrap the same files at  *)
(* the same time.                                                          *)
(***************************************************************************)
EXTENDS FileCrypto, SequenceTheorems, TLAPS

-----------------------------------------------------------------------------
(* Sequences, pieces and files *)

LEMMA FunctionIsSeq ==
    ASSUME NEW S, NEW n \in Nat, NEW f \in [1 .. n -> S]
    PROVE  f \in Seq(S) /\ Len(f) = n
  OBVIOUS

LEMMA BytesType ==
    ASSUME NEW s \in Seq(Piece)
    PROVE  Bytes(s) \in Seq(ChunkPiece \cup {Hole})
  <1>1. \A i \in 1 .. Len(s) :
            (IF s[i].kind = "chunk" THEN s[i] ELSE Hole) \in ChunkPiece \cup {Hole}
    <2> SUFFICES ASSUME NEW i \in 1 .. Len(s), s[i].kind = "chunk"
                 PROVE  s[i] \in ChunkPiece
      OBVIOUS
    <2>1. s[i] \in Piece
      OBVIOUS
    <2>. QED BY <2>1 DEF Piece, HeaderPiece, ChunkPiece, TrailerPiece, Hole
  <1>2. Bytes(s) \in [1 .. Len(s) -> ChunkPiece \cup {Hole}]
    BY <1>1, LenProperties DEF Bytes
  <1>. QED BY <1>2, FunctionIsSeq, LenProperties

LEMMA PutType ==
    ASSUME NEW f \in Seq(Piece), NEW i \in Nat \ {0}, NEW x \in Piece
    PROVE  /\ Put(f, i, x) \in Seq(Piece)
           /\ \A j \in DOMAIN Put(f, i, x) :
                \/ Put(f, i, x)[j] \in {x, Hole}
                \/ j \in DOMAIN f /\ Put(f, i, x)[j] = f[j]
  <1> DEFINE n == IF Len(f) < i THEN i ELSE Len(f)
  <1>1. n \in Nat /\ Hole \in Piece
    BY DEF Piece
  <1>2. Put(f, i, x) \in [1 .. n -> Piece]
    BY <1>1 DEF Put
  <1>. QED BY <1>2, <1>1, FunctionIsSeq DEF Put

LEMMA SealedType ==
    ASSUME TypeOK
    PROVE  /\ Len(sealed) \in Nat
           /\ DOMAIN sealed = 1 .. Len(sealed)
           /\ \A d \in DOMAIN sealed : sealed[d].doc \in Doc /\ sealed[d].cls \in Level
  <1> DEFINE S == [doc : Doc, cls : Level]
  <1>1. sealed \in Seq(S)
    BY DEF TypeOK
  <1>2. \A x \in S : x.doc \in Doc /\ x.cls \in Level
    OBVIOUS
  <1> HIDE DEF S
  <1>3. Len(sealed) \in Nat /\ DOMAIN sealed = 1 .. Len(sealed)
    BY <1>1, LenProperties
  <1>4. \A d \in 1 .. Len(sealed) : sealed[d] \in S
    BY <1>1, ElementOfSeq
  <1>. QED BY <1>2, <1>3, <1>4

LEMMA ChunksType ==
    ASSUME TypeOK, NEW d \in DOMAIN sealed
    PROVE  /\ Size[sealed[d].doc] \in Nat \ {0}
           /\ Chunks(d) \in Seq(ChunkPiece)
           /\ Len(Chunks(d)) = Size[sealed[d].doc]
           /\ \A n \in 1 .. Size[sealed[d].doc] :
                Chunks(d)[n] = Chunk(d, n, n = Size[sealed[d].doc])
  <1>1. sealed[d].doc \in Doc /\ d \in Nat
    BY SealedType
  <1>2. Size[sealed[d].doc] \in Nat \ {0}
    BY <1>1, FileCryptoAssumption DEF Doc
  <1>3. Chunks(d) \in [1 .. Size[sealed[d].doc] -> ChunkPiece]
    BY <1>1, <1>2 DEF Chunks, Chunk, ChunkPiece
  <1>. QED BY <1>2, <1>3, FunctionIsSeq DEF Chunks

-----------------------------------------------------------------------------
(* The inductive invariant *)

\* A piece tells the truth about the data key it names: only encryption makes
\* headers and chunks, rewrap copies them.
GoodFor(keys, x) ==
    /\ x.kind = "header" => x.dek \in DOMAIN keys /\ x.cls = keys[x.dek].cls
    /\ x.kind = "chunk" =>
          /\ x.dek \in DOMAIN keys
          /\ x.n \in 1 .. Size[keys[x.dek].doc]
          /\ x.last = (x.n = Size[keys[x.dek].doc])
Good(x) == GoodFor(sealed, x)

FilesGood == \A i \in DOMAIN file : \A j \in DOMAIN file[i] : Good(file[i][j])

\* What a process has open, has read, and has in its temporary file.
Opened == {"write", "header", "body", "place", "chunks", "rheader", "rbody", "copy"}
Headed == {"write", "body", "place", "chunks", "publish", "rbody", "copy",
           "rewrapped", "replace"}
Copying == {"copy", "rewrapped", "replace"}
Decrypting == {"chunks", "publish"}

HasOpen(p) == pc[p] \in Opened => fd[p] \in 1 .. Len(file)
HasRead(p) ==
    /\ pc[p] \in Headed => Good(hdr[p])
    /\ pc[p] = "write" => end[p] <= Size[sealed[hdr[p].dek].doc] + 1
HasCopied(p) == pc[p] \in Copying =>
    /\ tmp[p] # <<>> /\ tmp[p][1] \in HeaderPiece
    /\ \A j \in DOMAIN tmp[p] : Good(tmp[p][j])
HasDecrypted(p) ==
    /\ pc[p] \in Decrypting =>
          /\ Cleared(job[p].user, hdr[p].cls)
          /\ \A n \in DOMAIN tmp[p] :
                tmp[p][n] = Chunk(hdr[p].dek, n, n = Size[sealed[hdr[p].dek].doc])
    /\ pc[p] = "chunks" => Len(tmp[p]) < Size[sealed[hdr[p].dek].doc]
    /\ pc[p] = "publish" => Len(tmp[p]) = Size[sealed[hdr[p].dek].doc]
    /\ pc[p] \notin Copying \cup Decrypting => tmp[p] = <<>>

ProcInv(p) == HasOpen(p) /\ HasRead(p) /\ HasCopied(p) /\ HasDecrypted(p)

IInv ==
    /\ TypeOK
    /\ FilesGood
    /\ \A p \in Proc : ProcInv(p)
    /\ PublishedAuthentic

LEMMA InitInv == Init => IInv
  <1> SUFFICES ASSUME Init PROVE IInv
    OBVIOUS
  <1>1. TypeOK
    BY FileCryptoAssumption DEF Init, TypeOK, NoDoc, NoFile, NoJob, NoHeader, Job,
       Header, HeaderPiece, Level, Caller, PCs
  <1>2. FilesGood /\ PublishedAuthentic
    BY DEF Init, FilesGood, PublishedAuthentic
  <1>3. ASSUME NEW p \in Proc PROVE ProcInv(p)
    BY DEF Init, ProcInv, HasOpen, HasRead, HasCopied, HasDecrypted, Opened, Headed,
       Copying, Decrypting
  <1>. QED BY <1>1, <1>2, <1>3 DEF IInv

-----------------------------------------------------------------------------
(* What every step keeps *)

\* Data keys and files are only ever added.
Extends ==
    /\ DOMAIN sealed \subseteq DOMAIN sealed'
    /\ \A d \in DOMAIN sealed : sealed'[d] = sealed[d]
    /\ Len(file) <= Len(file')

LEMMA GoodStays ==
    ASSUME Extends, NEW x, GoodFor(sealed, x)
    PROVE  GoodFor(sealed', x)
  BY DEF Extends, GoodFor

LEMMA FilesStay ==
    ASSUME FilesGood, Extends, UNCHANGED file
    PROVE  FilesGood'
  BY GoodStays DEF FilesGood, Good

LEMMA PublishedStays ==
    ASSUME PublishedAuthentic, Extends, UNCHANGED out
    PROVE  PublishedAuthentic'
  <1> SUFFICES ASSUME NEW c \in Level, out[c].text # <<>>
               PROVE  /\ Cleared(out[c].user, c)
                      /\ \E d \in DOMAIN sealed' :
                           sealed'[d].cls = c /\ out[c].text = Chunks(d)'
    BY DEF PublishedAuthentic
  <1>1. PICK d \in DOMAIN sealed : sealed[d].cls = c /\ out[c].text = Chunks(d)
    BY DEF PublishedAuthentic
  <1>2. sealed'[d] = sealed[d] /\ d \in DOMAIN sealed'
    BY DEF Extends
  <1>3. Chunks(d)' = Chunks(d)
    BY <1>2 DEF Chunks
  <1>. QED BY <1>1, <1>2, <1>3 DEF PublishedAuthentic

Same(q) ==
    /\ pc'[q] = pc[q] /\ job'[q] = job[q] /\ fd'[q] = fd[q] /\ hdr'[q] = hdr[q]
    /\ end'[q] = end[q] /\ tmp'[q] = tmp[q]

LEMMA OthersStay ==
    ASSUME IInv, Extends, Len(file') \in Nat, NEW q \in Proc, Same(q)
    PROVE  ProcInv(q)'
  <1>1. ProcInv(q) /\ fd[q] \in Nat /\ Len(file) \in Nat
    BY DEF IInv, TypeOK, NoFile
  <1>2. HasOpen(q)'
    BY <1>1 DEF Extends, Same, ProcInv, HasOpen
  <1>3. Headed # {} /\ (pc[q] \in Headed => hdr[q].dek \in DOMAIN sealed)
    BY <1>1 DEF ProcInv, HasRead, Good, GoodFor, Headed, IInv, TypeOK, HeaderPiece
  <1>4. HasRead(q)'
    BY <1>1, <1>3, GoodStays DEF Extends, Same, ProcInv, HasRead, Good, Headed
  <1>5. HasCopied(q)'
    BY <1>1, GoodStays DEF Same, ProcInv, HasCopied, Good
  <1>6. HasDecrypted(q)'
    BY <1>1, <1>3 DEF Extends, Same, ProcInv, HasDecrypted, Headed, Decrypting
  <1>. QED BY <1>2, <1>4, <1>5, <1>6 DEF ProcInv

LEMMA EntryType ==
    ASSUME NEW u \in Caller, NEW o \in {"success", "denied", "error"}
    PROVE  Entry(u, o) \in Event
  BY DEF Entry, Event

LEMMA LogType ==
    ASSUME TypeOK, NEW p \in Proc, NEW entries \in Seq(Event), Log(p, entries)
    PROVE  events' \in [Proc -> Seq(Event)]
  <1>1. events[p] \in Seq(Event) /\ events \in [Proc -> Seq(Event)]
    BY DEF TypeOK
  <1>2. events[p] \o entries \in Seq(Event)
    BY <1>1, ConcatProperties
  <1>. QED BY <1>1, <1>2 DEF Log

LEMMA KeptType ==
    ASSUME NEW entries \in Seq(Event), NEW kept \in Kept(entries)
    PROVE  kept \in Seq(Event)
  <1> DEFINE E == Event
  <1> HIDE DEF E
  <1>1. entries \in Seq(E)
    BY DEF E
  <1>2. \A i \in DOMAIN entries : <<entries[i]>> \in Seq(E)
    BY <1>1
  <1>3. <<>> \in Seq(E)
    OBVIOUS
  <1>4. kept \in {<<>>, entries} \/ \E i \in DOMAIN entries : kept = <<entries[i]>>
    BY DEF Kept
  <1>5. kept \in Seq(E)
    BY <1>1, <1>2, <1>3, <1>4
  <1>. QED BY <1>5 DEF E

\* The part of TypeOK that is about processes.
LocalTypeOK ==
    /\ pc \in [Proc -> PCs]
    /\ job \in [Proc -> Job]
    /\ fd \in [Proc -> NoFile .. Len(file)]
    /\ hdr \in [Proc -> HeaderPiece]
    /\ end \in [Proc -> Nat]
    /\ tmp \in [Proc -> Seq(Piece)]
    /\ events \in [Proc -> Seq(Event)]
    /\ result \in [Proc -> {"none", "ok", "failed", "interrupted"}]

LEMMA ReturnType ==
    ASSUME TypeOK, NEW p \in Proc, NEW how \in {"ok", "failed", "interrupted"},
           Return(p, how), Len(file') \in Nat, Len(file) <= Len(file'),
           events' \in [Proc -> Seq(Event)]
    PROVE  LocalTypeOK' /\ ProcInv(p)' /\ \A q \in Proc \ {p} : Same(q)
  <1>1. LocalTypeOK'
    <2>1. pc' \in [Proc -> PCs] /\ hdr' \in [Proc -> HeaderPiece] /\ end' \in [Proc -> Nat]
      BY DEF TypeOK, Return, Goto, PCs, NoHeader, Header, HeaderPiece, Level
    <2>2. Over(job[p]) \in Job
      BY DEF TypeOK, Over, NoJob, Job, Level
    <2>3. job' \in [Proc -> Job]
      BY <2>2 DEF TypeOK, Return
    <2>4. <<>> \in Seq(Piece)
      OBVIOUS
    <2>5. tmp' \in [Proc -> Seq(Piece)]
      BY <2>4 DEF TypeOK, Return
    <2>6. fd' \in [Proc -> NoFile .. Len(file')]
      BY DEF TypeOK, Return, NoFile
    <2>7. result' \in [Proc -> {"none", "ok", "failed", "interrupted"}]
      BY DEF TypeOK, Return
    <2>. QED BY <2>1, <2>3, <2>5, <2>6, <2>7 DEF LocalTypeOK
  <1>2. ProcInv(p)'
    BY DEF TypeOK, Return, Goto, ProcInv, HasOpen, HasRead, HasCopied, HasDecrypted,
       Opened, Headed, Copying, Decrypting
  <1>3. \A q \in Proc \ {p} : Same(q)
    BY DEF TypeOK, Return, Goto, Same
  <1>. QED BY <1>1, <1>2, <1>3

\* A step of one process that leaves files, keys and publications as they are
\* needs to be looked at only for what that process has in hand.
LEMMA LocalInv ==
    ASSUME IInv, NEW p \in Proc, UNCHANGED <<file, out, sealed, active>>,
           plain' \in Doc \cup {NoDoc}, path' \in [Level -> NoFile .. Len(file)],
           LocalTypeOK', ProcInv(p)', \A q \in Proc \ {p} : Same(q)
    PROVE  IInv'
  <1>1. Extends /\ Len(file') \in Nat
    BY DEF IInv, TypeOK, Extends
  <1>2. TypeOK'
    BY DEF IInv, TypeOK, LocalTypeOK
  <1>3. FilesGood' /\ PublishedAuthentic'
    BY <1>1, FilesStay, PublishedStays DEF IInv
  <1>4. \A q \in Proc : ProcInv(q)'
    BY <1>1, OthersStay
  <1>. QED BY <1>2, <1>3, <1>4 DEF IInv

LEMMA FailInv ==
    ASSUME IInv, NEW p \in Proc, NEW entries \in Seq(Event), Fail(p, entries),
           UNCHANGED <<file, out, sealed, active>>,
           plain' \in Doc \cup {NoDoc}, path' \in [Level -> NoFile .. Len(file)]
    PROVE  IInv'
  <1>1. events' \in [Proc -> Seq(Event)]
    BY KeptType, LogType DEF Fail, IInv
  <1>2. Return(p, "failed") /\ TypeOK /\ Len(file) \in Nat /\ Len(file') = Len(file)
    BY DEF Fail, IInv, TypeOK
  <1>3. LocalTypeOK' /\ ProcInv(p)' /\ \A q \in Proc \ {p} : Same(q)
    BY <1>1, <1>2, ReturnType
  <1>. QED BY <1>3, LocalInv

LEMMA QuietInv ==
    ASSUME IInv, NEW p \in Proc, NEW how \in {"ok", "failed", "interrupted"},
           Return(p, how), events' \in [Proc -> Seq(Event)],
           UNCHANGED <<file, out, sealed, active>>,
           plain' \in Doc \cup {NoDoc}, path' \in [Level -> NoFile .. Len(file)]
    PROVE  IInv'
  <1>1. TypeOK /\ Len(file) \in Nat /\ Len(file') = Len(file)
    BY DEF IInv, TypeOK
  <1>2. LocalTypeOK' /\ ProcInv(p)' /\ \A q \in Proc \ {p} : Same(q)
    BY <1>1, ReturnType
  <1>. QED BY <1>2, LocalInv
-----------------------------------------------------------------------------
(* Encryption *)

\* Starting an operation touches nothing but the process.
LEMMA StartType ==
    ASSUME TypeOK, NEW p \in Proc, NEW request \in Job, NEW label \in PCs,
           Start(p, request), Goto(p, label)
    PROVE  /\ pc' \in [Proc -> PCs] /\ job' \in [Proc -> Job]
           /\ events' \in [Proc -> Seq(Event)]
           /\ result' \in [Proc -> {"none", "ok", "failed", "interrupted"}]
           /\ pc[p] = "idle" /\ pc'[p] = label
           /\ \A q \in Proc \ {p} : pc'[q] = pc[q] /\ job'[q] = job[q]
  <1>1. <<>> \in Seq(Event)
    OBVIOUS
  <1>. QED BY <1>1 DEF TypeOK, Start, Goto

LEMMA ClassificationType ==
    ASSUME NEW u \in Caller, NEW signals
    PROVE  DataClassification(u, signals) \in Level
  <1>1. DetermineClassification(signals) \in Level
    BY DEF DetermineClassification, Level
  <1>2. u # System => u.clearance \in Level
    BY DEF Caller, Person
  <1>. QED BY <1>1, <1>2 DEF DataClassification, Level

LEMMA StartEncryptInv ==
    ASSUME IInv, NEW p \in Proc, StartEncrypt(p)
    PROVE  IInv'
  <1> USE DEF IInv
  <1>1. PICK u \in Callers, signals \in Contexts, over \in BOOLEAN, del \in BOOLEAN :
            LET c == DataClassification(u, signals)
                request == [op |-> "encrypt", user |-> u, cls |-> c, over |-> over,
                            del |-> del, key |-> active]
            IN  \/ Start(p, request) /\ Goto(p, "check")
                \/ /\ pc[p] = "idle"
                   /\ job' = [job EXCEPT ![p] = Over(request)]
                   /\ \E kept \in Kept(<<Entry(u, "denied")>>) :
                         events' = [events EXCEPT ![p] = kept]
                   /\ result' = [result EXCEPT ![p] = "failed"]
                   /\ UNCHANGED pc
    BY DEF StartEncrypt
  <1> DEFINE c == DataClassification(u, signals)
             request == [op |-> "encrypt", user |-> u, cls |-> c, over |-> over,
                         del |-> del, key |-> active]
  <1>2. u \in Caller /\ c \in Level
    BY FileCryptoAssumption, ClassificationType
  <1>3. request \in Job /\ Over(request) \in Job
    <2>1. active \in Nat
      BY FileCryptoAssumption DEF TypeOK
    <2> HIDE DEF c
    <2>. QED BY <1>2, <2>1 DEF Job, Over, NoJob, Level
  <1>4. /\ pc' \in [Proc -> PCs] /\ job' \in [Proc -> Job]
        /\ events' \in [Proc -> Seq(Event)]
        /\ result' \in [Proc -> {"none", "ok", "failed", "interrupted"}]
        /\ pc[p] = "idle" /\ pc'[p] \in {"check", "idle"}
        /\ \A q \in Proc \ {p} : pc'[q] = pc[q] /\ job'[q] = job[q]
    <2>1. CASE Start(p, request) /\ Goto(p, "check")
      <3>1. "check" \in PCs
        BY DEF PCs
      <3>. QED BY <2>1, <3>1, <1>3, StartType
    <2>2. CASE /\ pc[p] = "idle"
               /\ job' = [job EXCEPT ![p] = Over(request)]
               /\ \E kept \in Kept(<<Entry(u, "denied")>>) :
                     events' = [events EXCEPT ![p] = kept]
               /\ result' = [result EXCEPT ![p] = "failed"]
               /\ UNCHANGED pc
      <3>1. <<Entry(u, "denied")>> \in Seq(Event)
        BY <1>2, EntryType
      <3>2. events' \in [Proc -> Seq(Event)]
        BY <2>2, <3>1, KeptType DEF TypeOK
      <3>. QED BY <2>2, <3>2, <1>3 DEF TypeOK
    <2>. QED BY <1>1, <2>1, <2>2
  <1>5. UNCHANGED <<world, fd, hdr, end, tmp>>
    BY DEF StartEncrypt
  <1>6. LocalTypeOK' /\ \A q \in Proc \ {p} : Same(q)
    BY <1>4, <1>5 DEF LocalTypeOK, TypeOK, world, Same
  <1>7. ProcInv(p)'
    BY <1>4, <1>5 DEF ProcInv, HasOpen, HasRead, HasCopied, HasDecrypted, Opened,
       Headed, Copying, Decrypting
  <1>. QED BY <1>5, <1>6, <1>7, LocalInv DEF TypeOK, world

LEMMA JobUser ==
    ASSUME TypeOK, NEW p \in Proc
    PROVE  /\ job[p] \in Job /\ job[p].user \in Caller
           /\ \A o \in {"success", "denied", "error"} :
                <<Entry(job[p].user, o)>> \in Seq(Event)
  <1>1. job[p] \in Job /\ job[p].user \in Caller
    BY DEF TypeOK, Job
  <1>. QED BY <1>1, EntryType

LEMMA EncryptFailsInv ==
    ASSUME IInv, NEW p \in Proc, NEW o \in {"denied", "error"}, EncryptFails(p, o),
           UNCHANGED <<plain, file, out, sealed, active>>,
           path' \in [Level -> NoFile .. Len(file)]
    PROVE  IInv'
  <1>1. TypeOK /\ plain' \in Doc \cup {NoDoc}
    BY DEF IInv, TypeOK
  <1>2. <<Entry(job[p].user, o)>> \in Seq(Event)
    BY <1>1, JobUser
  <1>. QED BY <1>1, <1>2, FailInv DEF EncryptFails

LEMMA CheckOutputInv ==
    ASSUME IInv, NEW p \in Proc, CheckOutput(p)
    PROVE  IInv'
  <1>1. UNCHANGED <<plain, file, out, sealed, active>> /\ path' \in [Level -> NoFile .. Len(file)]
    BY DEF CheckOutput, world, IInv, TypeOK
  <1>2. CASE \E o \in {"denied", "error"} : EncryptFails(p, o)
    BY <1>1, <1>2, EncryptFailsInv
  <1>3. CASE Goto(p, "open") /\ UNCHANGED <<local, tmp, events, result>>
    <2>1. LocalTypeOK' /\ \A q \in Proc \ {p} : Same(q)
      BY <1>1, <1>3 DEF IInv, TypeOK, LocalTypeOK, Goto, local, Same, PCs
    <2>2. ProcInv(p)'
      BY <1>3 DEF CheckOutput, IInv, TypeOK, Goto, local, ProcInv, HasOpen, HasRead, HasCopied,
         HasDecrypted, Opened, Headed, Copying, Decrypting
    <2>. QED BY <1>1, <2>1, <2>2, LocalInv DEF IInv, TypeOK
  <1>. QED BY <1>2, <1>3 DEF CheckOutput

\* A step that adds data keys or changes files, of which every piece stays
\* good, and publishes nothing.
LEMMA FileInv ==
    ASSUME IInv, NEW p \in Proc, Extends, UNCHANGED <<plain, out, active>>,
           path' \in [Level -> NoFile .. Len(file')],
           file' \in Seq(Seq(Piece)), sealed' \in Seq([doc : Doc, cls : Level]),
           FilesGood', LocalTypeOK', ProcInv(p)', \A q \in Proc \ {p} : Same(q)
    PROVE  IInv'
  <1>1. Len(file') \in Nat
    OBVIOUS
  <1>2. TypeOK'
    BY DEF IInv, TypeOK, LocalTypeOK
  <1>3. PublishedAuthentic'
    BY PublishedStays DEF IInv
  <1>4. \A q \in Proc : ProcInv(q)'
    BY <1>1, OthersStay
  <1>. QED BY <1>2, <1>3, <1>4 DEF IInv

LEMMA OpenOutputInv ==
    ASSUME IInv, NEW p \in Proc, OpenOutput(p)
    PROVE  IInv'
  <1> DEFINE K == [doc : Doc, cls : Level]
             c == job[p].cls
             f == IF path[c] = NoFile THEN Len(file) + 1 ELSE path[c]
             F == Seq(Piece)
             k == [doc |-> plain, cls |-> c]
  <1>1. /\ TypeOK /\ FilesGood /\ pc[p] = "open" /\ plain # NoDoc
        /\ path' = [path EXCEPT ![c] = f]
        /\ file' = IF path[c] = NoFile THEN Append(file, <<>>) ELSE [file EXCEPT ![f] = <<>>]
        /\ fd' = [fd EXCEPT ![p] = f]
        /\ sealed' = Append(sealed, k)
        /\ hdr' = [hdr EXCEPT ![p] = Header(Len(sealed) + 1, job[p].key, c)]
        /\ end' = [end EXCEPT ![p] = 0]
        /\ Goto(p, "write")
        /\ UNCHANGED <<plain, out, active, job, tmp, events, result>>
    BY DEF OpenOutput, IInv
  <1>2. c \in Level /\ plain \in Doc /\ job[p].key \in Nat /\ k \in K
    BY <1>1, JobUser DEF TypeOK, Job
  <1>3. /\ file \in Seq(F) /\ Len(file) \in Nat /\ DOMAIN file = 1 .. Len(file)
        /\ f \in 1 .. Len(file) + 1 /\ (path[c] # NoFile => f \in 1 .. Len(file))
    BY <1>1, <1>2 DEF TypeOK, NoFile
  <1>4. sealed \in Seq(K) /\ Len(sealed) \in Nat /\ DOMAIN sealed = 1 .. Len(sealed)
    BY <1>1, SealedType DEF TypeOK
  <1>5. <<>> \in F
    OBVIOUS
  <1> HIDE DEF K, c, f, F, k
  <1>6. /\ sealed' \in Seq(K) /\ Len(sealed') = Len(sealed) + 1
        /\ DOMAIN sealed' = 1 .. Len(sealed) + 1
        /\ sealed'[Len(sealed) + 1] = k
        /\ \A d \in DOMAIN sealed : sealed'[d] = sealed[d]
    BY <1>1, <1>2, <1>4
  <1>7. /\ file' \in Seq(F) /\ f \in 1 .. Len(file') /\ Len(file) <= Len(file')
        /\ Len(file') \in Nat
        /\ \A i \in DOMAIN file' :
              file'[i] = <<>> \/ (i \in DOMAIN file /\ file'[i] = file[i])
    <2>1. CASE path[c] = NoFile
      <3>1. file' = Append(file, <<>>) /\ f = Len(file) + 1
        BY <1>1, <2>1 DEF f
      <3>. QED BY <3>1, <1>3, <1>5
    <2>2. CASE path[c] # NoFile
      <3>1. file' = [file EXCEPT ![f] = <<>>] /\ f \in 1 .. Len(file)
        BY <1>1, <1>3, <2>2
      <3>. QED BY <3>1, <1>3, <1>5
    <2>. QED BY <2>1, <2>2
  <1>8. Extends
    BY <1>4, <1>6, <1>7 DEF Extends
  <1>9. FilesGood'
    BY <1>1, <1>7, <1>8, GoodStays DEF FilesGood, Good
  <1>10. path' \in [Level -> NoFile .. Len(file')]
    BY <1>1, <1>2, <1>3, <1>7 DEF TypeOK, NoFile
  <1>11. Header(Len(sealed) + 1, job[p].key, c) \in HeaderPiece
    BY <1>2, <1>4 DEF Header, HeaderPiece
  <1>12. LocalTypeOK'
    BY <1>1, <1>3, <1>7, <1>11 DEF TypeOK, LocalTypeOK, Goto, PCs, NoFile
  <1>13. ProcInv(p)'
    <2>1. pc'[p] = "write" /\ fd'[p] = f /\ end'[p] = 0 /\ tmp'[p] = tmp[p] /\ tmp[p] = <<>>
          /\ hdr'[p] = Header(Len(sealed) + 1, job[p].key, c)
      BY <1>1 DEF TypeOK, IInv, ProcInv, HasDecrypted, Goto, Copying, Decrypting
    <2>2. HasOpen(p)' /\ HasCopied(p)' /\ HasDecrypted(p)'
      BY <2>1, <1>7 DEF HasOpen, HasCopied, HasDecrypted, Copying, Decrypting
    <2>3. Good(hdr[p])'
      BY <2>1, <1>6 DEF Good, GoodFor, Header, k
    <2>4. Size[sealed'[hdr'[p].dek].doc] \in Nat
      BY <2>1, <1>2, <1>6, FileCryptoAssumption DEF k, Header, Doc
    <2>. QED BY <2>1, <2>2, <2>3, <2>4 DEF ProcInv, HasRead
  <1>14. \A q \in Proc \ {p} : Same(q)
    BY <1>1 DEF Same, Goto, TypeOK
  <1>. QED BY <1>1, <1>6, <1>7, <1>8, <1>9, <1>10, <1>12, <1>13, <1>14, FileInv DEF K, F

LEMMA RemoveOutputType ==
    ASSUME TypeOK, NEW p \in Proc, RemoveOutput(p)
    PROVE  path' \in [Level -> NoFile .. Len(file)]
  <1> DEFINE F == NoFile .. Len(file)
  <1>1. NoFile \in F /\ path \in [Level -> F]
    BY DEF TypeOK, NoFile
  <1> HIDE DEF F
  <1>2. path' \in [Level -> F]
    BY <1>1 DEF RemoveOutput
  <1>. QED BY <1>2 DEF F

LEMMA OpenFailsInv ==
    ASSUME IInv, NEW p \in Proc, OpenFails(p) \/ WriteFails(p)
    PROVE  IInv'
  BY RemoveOutputType, EncryptFailsInv DEF OpenFails, WriteFails, IInv

LEMMA NextPieceGood ==
    ASSUME IInv, NEW p \in Proc, pc[p] = "write"
    PROVE  /\ NextPiece(p) \in Piece /\ Good(NextPiece(p))
           /\ end[p] \in Nat /\ end[p] <= Len(Chunks(hdr[p].dek)) + 1
           /\ hdr[p].dek \in DOMAIN sealed
  <1> DEFINE d == hdr[p].dek
             body == Chunks(d)
  <1>1. /\ TypeOK /\ hdr[p] \in HeaderPiece /\ Good(hdr[p]) /\ end[p] \in Nat
        /\ end[p] <= Size[sealed[d].doc] + 1 /\ d \in DOMAIN sealed
    BY DEF IInv, TypeOK, ProcInv, HasRead, Headed, Good, GoodFor, HeaderPiece
  <1>2. /\ Size[sealed[d].doc] \in Nat \ {0} /\ body \in Seq(ChunkPiece)
        /\ Len(body) = Size[sealed[d].doc]
        /\ \A n \in 1 .. Len(body) : body[n] = Chunk(d, n, n = Len(body))
    BY <1>1, ChunksType
  <1> HIDE DEF d, body
  <1>3. NextPiece(p) =
          IF end[p] = 0 THEN hdr[p]
          ELSE IF end[p] <= Len(body) THEN body[end[p]]
          ELSE Trailer(hdr[p], body)
    BY DEF NextPiece, d, body
  <1>4. CASE end[p] = 0
    BY <1>1, <1>2, <1>3, <1>4 DEF Piece, d, body
  <1>5. CASE end[p] \in 1 .. Len(body)
    <2>1. NextPiece(p) = Chunk(d, end[p], end[p] = Len(body))
      BY <1>1, <1>2, <1>3, <1>5
    <2>2. d \in Nat
      BY <1>1 DEF d, HeaderPiece
    <2>3. NextPiece(p) \in ChunkPiece
      BY <2>1, <2>2, <1>1 DEF Chunk, ChunkPiece
    <2>4. Good(NextPiece(p))
      BY <2>1, <1>1, <1>2, <1>5 DEF Good, GoodFor, Chunk
    <2>. QED BY <2>3, <2>4, <1>1, <1>2 DEF Piece, d, body
  <1>6. CASE end[p] > Len(body)
    <2>1. NextPiece(p) = Trailer(hdr[p], body)
      BY <1>1, <1>2, <1>3, <1>6
    <2>2. body \in Seq(ChunkPiece \cup {Hole})
      <3> HIDE DEF ChunkPiece, Hole
      <3>. QED BY <1>2
    <2>3. NextPiece(p) \in TrailerPiece
      BY <2>1, <2>2, <1>1 DEF Trailer, TrailerPiece
    <2>4. Good(NextPiece(p))
      BY <2>1 DEF Good, GoodFor, Trailer
    <2>. QED BY <2>3, <2>4, <1>1, <1>2 DEF Piece, d, body
  <1>. QED BY <1>1, <1>2, <1>4, <1>5, <1>6

LEMMA WritePieceInv ==
    ASSUME IInv, NEW p \in Proc, WritePiece(p)
    PROVE  IInv'
  <1> DEFINE x == NextPiece(p)
             i == end[p] + 1
             f == fd[p]
             F == Seq(Piece)
             n == Len(Chunks(hdr[p].dek))
             next == IF end[p] <= n THEN "write" ELSE IF job[p].del THEN "delete" ELSE "sealed"
  <1>1. /\ TypeOK /\ FilesGood /\ pc[p] = "write"
        /\ file' = [file EXCEPT ![f] = Put(file[f], i, x)]
        /\ end' = [end EXCEPT ![p] = i]
        /\ Goto(p, next)
        /\ UNCHANGED <<plain, path, out, sealed, active, job, fd, hdr, tmp, events, result>>
    BY DEF WritePiece, IInv, TypeOK
  <1>2. /\ x \in Piece /\ Good(x) /\ end[p] \in Nat /\ n \in Nat
        /\ hdr[p].dek \in DOMAIN sealed /\ n = Size[sealed[hdr[p].dek].doc]
    BY <1>1, NextPieceGood, ChunksType
  <1>3. f \in 1 .. Len(file) /\ ProcInv(p)
    BY <1>1 DEF IInv, ProcInv, HasOpen, Opened
  <1>4. file \in Seq(F) /\ Len(file) \in Nat /\ DOMAIN file = 1 .. Len(file)
    BY <1>1 DEF TypeOK
  <1> HIDE DEF x, f, F, n
  <1>5. file[f] \in F /\ i \in Nat \ {0}
    BY <1>2, <1>3, <1>4
  <1> DEFINE g == file[f]
  <1>5a. /\ Put(g, i, x) \in F
         /\ \A j \in DOMAIN Put(g, i, x) :
              \/ Put(g, i, x)[j] \in {x, Hole}
              \/ j \in DOMAIN g /\ Put(g, i, x)[j] = g[j]
    <2> HIDE DEF g
    <2>1. g \in Seq(Piece)
      BY <1>5 DEF g, F
    <2>. QED BY <1>2, <1>5, <2>1, PutType DEF F
  <1>6. \A j \in DOMAIN Put(file[f], i, x) : Good(Put(file[f], i, x)[j])
    <2> SUFFICES ASSUME NEW j \in DOMAIN Put(file[f], i, x)
                 PROVE  Good(Put(file[f], i, x)[j])
      OBVIOUS
    <2>1. \/ Put(file[f], i, x)[j] \in {x, Hole}
          \/ j \in DOMAIN file[f] /\ Put(file[f], i, x)[j] = file[f][j]
      BY <1>5a
    <2>2. Good(Hole)
      BY DEF Good, GoodFor, Hole
    <2>3. \A l \in DOMAIN file[f] : Good(file[f][l])
      BY <1>1, <1>3, <1>4 DEF FilesGood
    <2>. QED BY <1>2, <2>1, <2>2, <2>3
  <1>7. /\ file' \in Seq(F) /\ Len(file') = Len(file) /\ DOMAIN file' = DOMAIN file
        /\ \A l \in DOMAIN file : l # f => file'[l] = file[l]
        /\ file'[f] = Put(file[f], i, x)
    BY <1>1, <1>3, <1>4, <1>5a
  <1>8. Extends
    BY <1>1, <1>4, <1>7 DEF Extends
  <1>9. FilesGood'
    <2>1. ASSUME NEW l \in DOMAIN file, NEW j \in DOMAIN file'[l]
          PROVE  Good(file'[l][j])
      BY <1>1, <1>6, <1>7 DEF FilesGood
    <2>. QED BY <1>1, <1>7, <2>1 DEF FilesGood, Good
  <1>10. path' \in [Level -> NoFile .. Len(file')]
    BY <1>1, <1>7 DEF TypeOK
  <1>11. next \in {"write", "delete", "sealed"} /\ pc'[p] = next
    BY <1>1 DEF Goto, TypeOK
  <1>12. LocalTypeOK'
    <2>1. end' \in [Proc -> Nat]
      BY <1>1, <1>2 DEF TypeOK
    <2>2. pc' \in [Proc -> PCs]
      BY <1>1, <1>11 DEF TypeOK, Goto, PCs
    <2>3. fd' \in [Proc -> NoFile .. Len(file')]
      BY <1>1, <1>7 DEF TypeOK
    <2>. QED BY <1>1, <2>1, <2>2, <2>3 DEF TypeOK, LocalTypeOK
  <1>13. HasOpen(p)'
    BY <1>1, <1>3, <1>7 DEF HasOpen, f
  <1>14. HasRead(p)'
    <2>1. Good(hdr[p])
      BY <1>1, <1>3 DEF HasRead, ProcInv, Headed
    <2>2. end'[p] = i
      BY <1>1 DEF TypeOK
    <2>3. pc'[p] = "write" => end[p] <= n
      BY <1>11
    <2>. QED BY <1>1, <1>2, <2>1, <2>2, <2>3 DEF HasRead, Good
  <1>15. HasCopied(p)' /\ HasDecrypted(p)'
    BY <1>1, <1>3, <1>11 DEF HasCopied, HasDecrypted, ProcInv, Copying, Decrypting
  <1>16. \A q \in Proc \ {p} : Same(q)
    BY <1>1 DEF Same, Goto, TypeOK
  <1>. QED BY <1>1, <1>7, <1>8, <1>9, <1>10, <1>12, <1>13, <1>14, <1>15, <1>16, FileInv
           DEF F, ProcInv, TypeOK

LEMMA DeleteOriginalInv ==
    ASSUME IInv, NEW p \in Proc, DeleteOriginal(p)
    PROVE  IInv'
  <1>1. /\ UNCHANGED <<file, out, sealed, active>> /\ plain' \in Doc \cup {NoDoc}
        /\ path' \in [Level -> NoFile .. Len(file)] /\ pc[p] = "delete"
    BY DEF DeleteOriginal, IInv, TypeOK
  <1>2. CASE Goto(p, "sealed") /\ UNCHANGED <<local, tmp, events, result>>
    <2>1. LocalTypeOK' /\ \A q \in Proc \ {p} : Same(q)
      BY <1>1, <1>2 DEF IInv, TypeOK, LocalTypeOK, Goto, local, Same, PCs
    <2>2. ProcInv(p)'
      BY <1>1, <1>2 DEF IInv, TypeOK, Goto, local, ProcInv, HasOpen, HasRead, HasCopied,
         HasDecrypted, Opened, Headed, Copying, Decrypting
    <2>. QED BY <1>1, <2>1, <2>2, LocalInv
  <1>3. CASE FailQuietly(p)
    BY <1>1, <1>3, QuietInv DEF FailQuietly, IInv, TypeOK
  <1>. QED BY <1>2, <1>3 DEF DeleteOriginal

LEMMA SuccessInv ==
    ASSUME IInv, NEW p \in Proc, Return(p, "ok"),
           Log(p, <<Entry(job[p].user, "success")>>), UNCHANGED world
    PROVE  IInv'
  <1>1. TypeOK
    BY DEF IInv
  <1>2. <<Entry(job[p].user, "success")>> \in Seq(Event)
    BY <1>1, JobUser
  <1>3. events' \in [Proc -> Seq(Event)]
    BY <1>1, <1>2, LogType
  <1>. QED BY <1>1, <1>3, QuietInv DEF world, TypeOK

LEMMA QuietFailInv ==
    ASSUME IInv, NEW p \in Proc, Return(p, "failed") \/ Return(p, "interrupted"),
           UNCHANGED <<world, events>>
    PROVE  IInv'
  BY QuietInv DEF world, IInv, TypeOK

LEMMA LogEncryptedInv ==
    ASSUME IInv, NEW p \in Proc, LogEncrypted(p)
    PROVE  IInv'
  <1>1. UNCHANGED world
    BY DEF LogEncrypted
  <1>2. CASE Return(p, "ok") /\ Log(p, <<Entry(job[p].user, "success")>>)
    BY <1>1, <1>2, SuccessInv
  <1>3. CASE EncryptFails(p, "error")
    BY <1>1, <1>3, EncryptFailsInv DEF world, IInv, TypeOK
  <1>. QED BY <1>2, <1>3 DEF LogEncrypted

LEMMA EncryptInv ==
    ASSUME IInv, NEW p \in Proc, Encrypt(p)
    PROVE  IInv'
  BY StartEncryptInv, CheckOutputInv, OpenOutputInv, OpenFailsInv, WritePieceInv,
     DeleteOriginalInv, LogEncryptedInv DEF Encrypt

-----------------------------------------------------------------------------
(* Decryption *)

\* A call begins; the process holds nothing.
LEMMA StartedInv ==
    ASSUME IInv, NEW p \in Proc, NEW request \in Job, NEW label \in {"dopen", "ropen"},
           Start(p, request), Goto(p, label), UNCHANGED <<world, fd, hdr, end, tmp>>
    PROVE  IInv'
  <1>1. TypeOK /\ label \in PCs
    BY DEF IInv, PCs
  <1>2. /\ pc' \in [Proc -> PCs] /\ job' \in [Proc -> Job]
        /\ events' \in [Proc -> Seq(Event)]
        /\ result' \in [Proc -> {"none", "ok", "failed", "interrupted"}]
        /\ pc[p] = "idle" /\ pc'[p] = label
        /\ \A q \in Proc \ {p} : pc'[q] = pc[q] /\ job'[q] = job[q]
    BY <1>1, StartType
  <1>3. LocalTypeOK' /\ \A q \in Proc \ {p} : Same(q)
    BY <1>1, <1>2 DEF LocalTypeOK, TypeOK, Same, world
  <1>4. tmp[p] = <<>>
    BY <1>2 DEF IInv, ProcInv, HasDecrypted, Copying, Decrypting
  <1>5. ProcInv(p)'
    BY <1>2, <1>4 DEF ProcInv, HasOpen, HasRead, HasCopied, HasDecrypted, Opened,
       Headed, Copying, Decrypting
  <1>. QED BY <1>1, <1>3, <1>5, LocalInv DEF TypeOK, world

\* A process opens the file that has the name, if there is one.
LEMMA ReopenInv ==
    ASSUME IInv, NEW p \in Proc, NEW label \in {"header", "rheader"},
           pc[p] \in {"dopen", "ropen"}, Reopen(p, label), UNCHANGED world
    PROVE  IInv'
  <1>1. CASE FailQuietly(p)
    BY <1>1, QuietFailInv DEF FailQuietly
  <1>2. CASE /\ path[job[p].cls] # NoFile
             /\ fd' = [fd EXCEPT ![p] = path[job[p].cls]]
             /\ Goto(p, label)
             /\ UNCHANGED <<job, hdr, end, tmp, events, result>>
    <2>1. TypeOK /\ label \in PCs
      BY DEF IInv, PCs
    <2>2. PICK c \in Level : c = job[p].cls
      BY <2>1, JobUser DEF Job
    <2>3. path[c] \in 1 .. Len(file) /\ fd' \in [Proc -> NoFile .. Len(file')]
      BY <1>2, <2>1, <2>2 DEF TypeOK, NoFile, world
    <2>4. pc' \in [Proc -> PCs] /\ pc'[p] = label /\ fd'[p] = path[c]
      BY <1>2, <2>1, <2>2 DEF TypeOK, Goto
    <2>5. LocalTypeOK' /\ \A q \in Proc \ {p} : Same(q)
      BY <1>2, <2>1, <2>3, <2>4 DEF LocalTypeOK, TypeOK, Same, Goto
    <2>6. tmp[p] = <<>>
      BY DEF IInv, ProcInv, HasDecrypted, Copying, Decrypting
    <2>7. ProcInv(p)'
      BY <1>2, <2>3, <2>4, <2>6 DEF ProcInv, HasOpen, HasRead, HasCopied, HasDecrypted,
         Opened, Headed, Copying, Decrypting, world
    <2>. QED BY <2>1, <2>5, <2>7, LocalInv DEF TypeOK, world
  <1>. QED BY <1>1, <1>2 DEF Reopen

LEMMA StartDecryptInv ==
    ASSUME IInv, NEW p \in Proc, StartDecrypt(p)
    PROVE  IInv'
  <1>1. PICK u \in Callers, c \in Level, over \in BOOLEAN :
            Start(p, [op |-> "decrypt", user |-> u, cls |-> c, over |-> over,
                      del |-> FALSE, key |-> active])
    BY DEF StartDecrypt
  <1> DEFINE request == [op |-> "decrypt", user |-> u, cls |-> c, over |-> over,
                         del |-> FALSE, key |-> active]
  <1>2. request \in Job
    <2>1. active \in Nat /\ u \in Caller
      BY FileCryptoAssumption DEF IInv, TypeOK
    <2>. QED BY <2>1 DEF Job
  <1> HIDE DEF request
  <1>3. /\ Start(p, request) /\ Goto(p, "dopen")
        /\ UNCHANGED <<world, fd, hdr, end, tmp>>
    BY <1>1 DEF StartDecrypt, request
  <1>. QED BY <1>2, <1>3, StartedInv

LEMMA OpenInputInv ==
    ASSUME IInv, NEW p \in Proc, OpenInput(p)
    PROVE  IInv'
  BY ReopenInv DEF OpenInput

LEMMA DecryptFailsInv ==
    ASSUME IInv, NEW p \in Proc, DecryptFails(p), UNCHANGED world
    PROVE  IInv'
  <1>1. TypeOK /\ System \in Caller
    BY DEF IInv, Caller
  <1>2. <<Entry(IF pc[p] = "chunks" THEN job[p].user ELSE System, "error")>> \in Seq(Event)
    <2>1. (IF pc[p] = "chunks" THEN job[p].user ELSE System) \in Caller
      BY <1>1, JobUser
    <2>. QED BY <2>1, EntryType
  <1>. QED BY <1>1, <1>2, FailInv DEF DecryptFails, world, TypeOK

\* What is read from a file is a piece that tells the truth.
LEMMA FileType ==
    ASSUME IInv, NEW i \in 1 .. Len(file)
    PROVE  /\ file[i] \in Seq(Piece) /\ Len(file[i]) \in Nat
           /\ DOMAIN file[i] = 1 .. Len(file[i])
           /\ \A j \in 1 .. Len(file[i]) :
                /\ file[i][j] \in Piece
                /\ file[i][j].kind = "header" => file[i][j] \in HeaderPiece
                /\ file[i][j].kind = "chunk" => file[i][j] \in ChunkPiece
                /\ Good(file[i][j])
  <1> DEFINE F == Seq(Piece)
             P == Piece
  <1>1. file \in Seq(F)
    BY DEF IInv, TypeOK
  <1> HIDE DEF F
  <1>2. file[i] \in F /\ i \in DOMAIN file
    BY <1>1
  <1>3. \A x \in P : /\ x.kind = "header" => x \in HeaderPiece
                     /\ x.kind = "chunk" => x \in ChunkPiece
    BY DEF Piece, HeaderPiece, ChunkPiece, TrailerPiece, Hole
  <1>4. file[i] \in Seq(P)
    BY <1>2 DEF F
  <1> HIDE DEF P
  <1>5. /\ Len(file[i]) \in Nat /\ DOMAIN file[i] = 1 .. Len(file[i])
        /\ \A j \in 1 .. Len(file[i]) : file[i][j] \in P
    BY <1>4
  <1>6. \A j \in 1 .. Len(file[i]) : Good(file[i][j])
    BY <1>2, <1>5 DEF IInv, FilesGood
  <1>. QED BY <1>3, <1>4, <1>5, <1>6 DEF P

LEMMA OpenFileType ==
    ASSUME IInv, NEW p \in Proc, pc[p] \in Opened
    PROVE  fd[p] \in 1 .. Len(file)
  BY DEF IInv, ProcInv, HasOpen

LEMMA HeaderInv ==
    ASSUME IInv, NEW p \in Proc, NEW label \in {"body", "rbody"},
           pc[p] \in {"header", "rheader"}, HasHeader(file[fd[p]]),
           hdr' = [hdr EXCEPT ![p] = file[fd[p]][1]], Goto(p, label),
           UNCHANGED <<world, job, fd, end, tmp, events, result>>
    PROVE  IInv'
  <1> DEFINE h == file[fd[p]][1]
  <1>1. TypeOK /\ fd[p] \in 1 .. Len(file)
    BY OpenFileType DEF IInv, Opened
  <1>2. h \in HeaderPiece /\ Good(h)
    <2>1. file[fd[p]] # <<>> /\ h.kind = "header" /\ file[fd[p]] \in Seq(Piece)
      BY <1>1, FileType DEF HasHeader
    <2>2. 1 \in 1 .. Len(file[fd[p]])
      BY <2>1
    <2>. QED BY <1>1, <2>1, <2>2, FileType
  <1> HIDE DEF h
  <1>3. hdr' \in [Proc -> HeaderPiece] /\ hdr'[p] = h
    BY <1>1, <1>2 DEF TypeOK, h
  <1>4. pc' \in [Proc -> PCs] /\ pc'[p] = label
    BY <1>1 DEF TypeOK, Goto, PCs
  <1>5. LocalTypeOK'
    BY <1>1, <1>3, <1>4 DEF TypeOK, LocalTypeOK, world
  <1>6. \A q \in Proc \ {p} : Same(q)
    BY <1>1 DEF TypeOK, Goto, Same
  <1>7. tmp[p] = <<>>
    BY DEF IInv, ProcInv, HasDecrypted, Copying, Decrypting
  <1>8. ProcInv(p)'
    BY <1>1, <1>2, <1>3, <1>4, <1>7 DEF ProcInv, HasOpen, HasRead, HasCopied, HasDecrypted,
       Opened, Copying, Decrypting, Good, world
  <1>. QED BY <1>1, <1>5, <1>6, <1>8, LocalInv DEF TypeOK, world

LEMMA ReadHeaderInv ==
    ASSUME IInv, NEW p \in Proc, ReadHeader(p)
    PROVE  IInv'
  BY HeaderInv, DecryptFailsInv DEF ReadHeader

LEMMA VerifyBodyInv ==
    ASSUME IInv, NEW p \in Proc, VerifyBody(p)
    PROVE  IInv'
  <1>1. TypeOK /\ ProcInv(p) /\ pc[p] = "body" /\ UNCHANGED world
    BY DEF IInv, VerifyBody
  <1>2. CASE DecryptFails(p)
    BY <1>1, <1>2, DecryptFailsInv
  <1>3. CASE /\ Verifies(file[fd[p]], hdr[p])
             /\ end' = [end EXCEPT ![p] = Len(file[fd[p]]) - 2]
             /\ Goto(p, "place")
             /\ UNCHANGED <<job, fd, hdr, tmp, events, result>>
    <2>1. fd[p] \in 1 .. Len(file)
      BY <1>1, OpenFileType DEF Opened
    <2>2. Len(file[fd[p]]) - 2 \in Nat
      BY <2>1, <1>3, FileType DEF Verifies
    <2>3. LocalTypeOK' /\ pc'[p] = "place"
      BY <1>1, <1>3, <2>2 DEF TypeOK, LocalTypeOK, Goto, PCs, world
    <2>4. \A q \in Proc \ {p} : Same(q)
      BY <1>1, <1>3 DEF TypeOK, Goto, Same
    <2>5. ProcInv(p)'
      BY <1>1, <1>3, <2>3 DEF ProcInv, HasOpen, HasRead, HasCopied, HasDecrypted,
         Opened, Headed, Copying, Decrypting, Good, world
    <2>. QED BY <1>1, <2>3, <2>4, <2>5, LocalInv DEF TypeOK, world
  <1>. QED BY <1>2, <1>3 DEF VerifyBody

\* The data key of a header in hand, and the document sealed under it.
LEMMA HeadedType ==
    ASSUME IInv, NEW p \in Proc, pc[p] \in Headed
    PROVE  /\ hdr[p] \in HeaderPiece /\ Good(hdr[p])
           /\ hdr[p].dek \in DOMAIN sealed /\ hdr[p].cls = sealed[hdr[p].dek].cls
           /\ hdr[p].cls \in Level
           /\ Size[sealed[hdr[p].dek].doc] \in Nat \ {0}
           /\ Chunks(hdr[p].dek) \in Seq(ChunkPiece)
           /\ Len(Chunks(hdr[p].dek)) = Size[sealed[hdr[p].dek].doc]
           /\ \A n \in 1 .. Len(Chunks(hdr[p].dek)) : Chunks(hdr[p].dek)[n] =
                Chunk(hdr[p].dek, n, n = Size[sealed[hdr[p].dek].doc])
  <1>1. /\ TypeOK /\ hdr[p] \in HeaderPiece /\ Good(hdr[p])
        /\ hdr[p].dek \in DOMAIN sealed /\ hdr[p].cls = sealed[hdr[p].dek].cls
        /\ hdr[p].cls \in Level
    BY DEF IInv, TypeOK, ProcInv, HasRead, Good, GoodFor, HeaderPiece
  <1>. QED BY <1>1, ChunksType

LEMMA AuthorizedInv ==
    ASSUME IInv, NEW p \in Proc, Authorized(p)
    PROVE  IInv'
  <1>1. TypeOK /\ ProcInv(p) /\ pc[p] = "place" /\ UNCHANGED world
    BY DEF IInv, Authorized
  <1>2. CASE DecryptFails(p)
    BY <1>1, <1>2, DecryptFailsInv
  <1>3. CASE \/ Fail(p, <<Entry(job[p].user, "denied"), Entry(System, "error")>>)
             \/ Fail(p, <<Entry(job[p].user, "error")>>)
    <2>1. Entry(job[p].user, "denied") \in Event /\ Entry(System, "error") \in Event
      BY <1>1, JobUser, EntryType DEF Caller
    <2>2. <<Entry(job[p].user, "denied"), Entry(System, "error")>> \in Seq(Event)
      BY <2>1
    <2>3. <<Entry(job[p].user, "error")>> \in Seq(Event)
      BY <1>1, JobUser
    <2>. QED BY <1>1, <1>3, <2>2, <2>3, FailInv DEF world, TypeOK
  <1>4. CASE /\ Cleared(job[p].user, hdr[p].cls)
             /\ Goto(p, "chunks") /\ UNCHANGED <<local, tmp, events, result>>
    <2>1. LocalTypeOK' /\ pc'[p] = "chunks"
      BY <1>1, <1>4 DEF TypeOK, LocalTypeOK, Goto, PCs, world, local
    <2>2. \A q \in Proc \ {p} : Same(q)
      BY <1>1, <1>4 DEF TypeOK, Goto, Same, local
    <2>3. tmp[p] = <<>> /\ Good(hdr[p]) /\ fd[p] \in 1 .. Len(file)
      BY <1>1 DEF ProcInv, HasDecrypted, HasRead, HasOpen, Opened, Headed, Copying, Decrypting
    <2>4. Size[sealed[hdr[p].dek].doc] \in Nat \ {0}
      BY <1>1, HeadedType DEF Headed
    <2>5. ProcInv(p)'
      BY <1>1, <1>4, <2>1, <2>3, <2>4 DEF ProcInv, HasOpen, HasRead, HasCopied, HasDecrypted,
         Copying, Decrypting, Good, world, local
    <2>. QED BY <1>1, <2>1, <2>2, <2>5, LocalInv DEF TypeOK, world
  <1>. QED BY <1>2, <1>3, <1>4 DEF Authorized

LEMMA ReadChunkInv ==
    ASSUME IInv, NEW p \in Proc, ReadChunk(p)
    PROVE  IInv'
  <1> DEFINE f == file[fd[p]]
             n == Len(tmp[p]) + 1
             x == f[n + 1]
             size == Size[sealed[hdr[p].dek].doc]
  <1>1. TypeOK /\ ProcInv(p) /\ pc[p] = "chunks" /\ UNCHANGED world
    BY DEF IInv, ReadChunk
  <1>2. CASE DecryptFails(p)
    BY <1>1, <1>2, DecryptFailsInv
  <1>3. CASE /\ n <= end[p] /\ n + 1 <= Len(f)
             /\ x.kind = "chunk" /\ x.dek = hdr[p].dek /\ x.n = n
             /\ tmp' = [tmp EXCEPT ![p] = Append(@, x)]
             /\ Goto(p, IF x.last THEN "publish" ELSE "chunks")
             /\ UNCHANGED <<local, events, result>>
    <2>1. fd[p] \in 1 .. Len(file) /\ size \in Nat \ {0}
      BY <1>1, OpenFileType, HeadedType DEF Opened, Headed
    <2>2. /\ tmp[p] \in Seq(Piece) /\ Len(tmp[p]) < size
          /\ \A m \in DOMAIN tmp[p] : tmp[p][m] = Chunk(hdr[p].dek, m, m = size)
          /\ Cleared(job[p].user, hdr[p].cls) /\ Good(hdr[p])
      BY <1>1 DEF ProcInv, HasDecrypted, HasRead, Headed, Decrypting, TypeOK
    <2>3. n \in Nat /\ n + 1 \in 1 .. Len(f)
      BY <1>3, <2>1, <2>2, FileType
    <2>4. x \in ChunkPiece /\ Good(x)
      BY <1>3, <2>1, <2>3, FileType
    <2>5. n \in 1 .. size /\ x.last = (n = size)
      BY <1>3, <2>4 DEF Good, GoodFor
    <2>6. x = Chunk(hdr[p].dek, n, n = size)
      BY <1>3, <2>4, <2>5 DEF ChunkPiece, Chunk
    <2>7. /\ Append(tmp[p], x) \in Seq(Piece) /\ Len(Append(tmp[p], x)) = n
          /\ \A m \in DOMAIN Append(tmp[p], x) :
                Append(tmp[p], x)[m] = Chunk(hdr[p].dek, m, m = size)
      <3> DEFINE P == Piece
                 t == tmp[p]
      <3>1. x \in P /\ t \in Seq(P)
        BY <2>2, <2>4 DEF Piece
      <3>2. \A m \in DOMAIN t : t[m] = Chunk(hdr[p].dek, m, m = size)
        BY <2>2
      <3>3. x = Chunk(hdr[p].dek, Len(t) + 1, Len(t) + 1 = size)
        BY <2>6
      <3> HIDE DEF P, t, x, size, f
      <3>4. /\ Append(t, x) \in Seq(P) /\ Len(Append(t, x)) = Len(t) + 1
            /\ \A m \in DOMAIN Append(t, x) :
                  \/ m \in DOMAIN t /\ Append(t, x)[m] = t[m]
                  \/ m = Len(t) + 1 /\ Append(t, x)[m] = x
        BY <3>1
      <3>5. \A m \in DOMAIN Append(t, x) : Append(t, x)[m] = Chunk(hdr[p].dek, m, m = size)
        BY <3>2, <3>3, <3>4
      <3>. QED BY <3>4, <3>5 DEF t, P
    <2> HIDE DEF x, size, f
    <2>8. /\ tmp' \in [Proc -> Seq(Piece)] /\ tmp'[p] = Append(tmp[p], x)
          /\ pc'[p] = (IF x.last THEN "publish" ELSE "chunks")
          /\ pc' \in [Proc -> PCs]
      BY <1>1, <1>3, <2>7 DEF TypeOK, Goto, PCs
    <2>9. LocalTypeOK'
      BY <1>1, <1>3, <2>8 DEF TypeOK, LocalTypeOK, world, local
    <2>10. \A q \in Proc \ {p} : Same(q)
      BY <1>1, <1>3 DEF TypeOK, Goto, Same, local
    <2>11. HasOpen(p)' /\ HasRead(p)' /\ HasCopied(p)'
      BY <1>1, <1>3, <2>1, <2>2, <2>8 DEF HasOpen, HasRead, HasCopied, Copying, Good, world, local
    <2>12. HasDecrypted(p)'
      <3>1. Len(tmp'[p]) = n /\ (x.last => n = size) /\ (~ x.last => n < size)
        <4>1. (x.last => n = size) /\ (~ x.last => n # size)
          BY <2>5, Zenon
        <4>. QED BY <2>1, <2>5, <2>7, <2>8, <4>1
      <3>2. \A m \in DOMAIN tmp'[p] : tmp'[p][m] = Chunk(hdr[p].dek, m, m = size)
        BY <2>7, <2>8
      <3>3. size' = size /\ hdr' = hdr /\ job' = job
        BY <1>1, <1>3 DEF size, world, local
      <3>. QED BY <2>2, <2>8, <3>1, <3>2, <3>3 DEF HasDecrypted, Copying, Decrypting, size
    <2>. QED BY <1>1, <2>9, <2>10, <2>11, <2>12, LocalInv DEF TypeOK, world, ProcInv
  <1>. QED BY <1>2, <1>3 DEF ReadChunk

LEMMA PublishInv ==
    ASSUME IInv, NEW p \in Proc, Publish(p)
    PROVE  IInv'
  <1> DEFINE d == hdr[p].dek
             c == hdr[p].cls
             o == [text |-> tmp[p], user |-> job[p].user]
             O == [text : Seq(ChunkPiece), user : Caller]
  <1>1. /\ TypeOK /\ ProcInv(p) /\ pc[p] = "publish"
        /\ out' = [out EXCEPT ![c] = o] /\ tmp' = [tmp EXCEPT ![p] = <<>>]
        /\ Goto(p, "released")
        /\ UNCHANGED <<plain, path, file, sealed, active, local, events, result>>
    BY DEF IInv, Publish
  <1>2. /\ d \in DOMAIN sealed /\ c = sealed[d].cls /\ c \in Level
        /\ Chunks(d) \in Seq(ChunkPiece) /\ Len(Chunks(d)) = Size[sealed[d].doc]
        /\ \A n \in 1 .. Len(Chunks(d)) :
              Chunks(d)[n] = Chunk(d, n, n = Size[sealed[d].doc])
    BY <1>1, HeadedType DEF Headed
  <1>3. /\ tmp[p] \in Seq(Piece) /\ Len(tmp[p]) = Len(Chunks(d))
        /\ \A n \in DOMAIN tmp[p] : tmp[p][n] = Chunk(d, n, n = Size[sealed[d].doc])
        /\ Cleared(job[p].user, c)
    BY <1>1, <1>2 DEF ProcInv, HasDecrypted, Decrypting, TypeOK
  <1> HIDE DEF d, c
  <1>4. tmp[p] = Chunks(d)
    <2> DEFINE P == Piece
               C == ChunkPiece
               a == tmp[p]
               b == Chunks(d)
    <2>1. a \in Seq(P) /\ b \in Seq(C) /\ Len(a) = Len(b)
      BY <1>2, <1>3
    <2>2. \A n \in 1 .. Len(b) : b[n] = Chunk(d, n, n = Size[sealed[d].doc])
      BY <1>2
    <2>3. \A n \in DOMAIN a : a[n] = Chunk(d, n, n = Size[sealed[d].doc])
      BY <1>3
    <2> HIDE DEF P, C, a, b
    <2>4. \A n \in 1 .. Len(a) : a[n] = b[n]
      BY <2>1, <2>2, <2>3
    <2>5. a \in Seq(P \cup C) /\ b \in Seq(P \cup C)
      BY <2>1
    <2>6. a = b
      BY <2>1, <2>4, <2>5, SeqEqual
    <2>. QED BY <2>6 DEF a, b
  <1>5. o \in O
    BY <1>1, <1>2, <1>4, JobUser
  <1>6. out' \in [Level -> O] /\ out'[c] = o /\ \A l \in Level \ {c} : out'[l] = out[l]
    BY <1>1, <1>2, <1>5 DEF TypeOK
  <1>7. PublishedAuthentic'
    <2> SUFFICES ASSUME NEW l \in Level, out'[l].text # <<>>
                 PROVE  /\ Cleared(out'[l].user, l)
                        /\ \E e \in DOMAIN sealed :
                              sealed[e].cls = l /\ out'[l].text = Chunks(e)
      <3>1. \A e : Chunks(e)' = Chunks(e)
        BY <1>1 DEF Chunks
      <3>. QED BY <1>1, <3>1 DEF PublishedAuthentic
    <2>1. CASE l = c
      BY <1>2, <1>3, <1>4, <1>6, <2>1
    <2>2. CASE l # c
      BY <1>6, <2>2 DEF IInv, PublishedAuthentic
    <2>. QED BY <2>1, <2>2
  <1>8. /\ tmp' \in [Proc -> Seq(Piece)] /\ tmp'[p] = <<>>
        /\ pc' \in [Proc -> PCs] /\ pc'[p] = "released"
    <2>1. <<>> \in Seq(Piece)
      OBVIOUS
    <2>. QED BY <1>1, <2>1 DEF TypeOK, Goto, PCs
  <1>9. TypeOK'
    BY <1>1, <1>6, <1>8 DEF TypeOK, local
  <1>10. Extends /\ Len(file') \in Nat
    BY <1>1 DEF Extends, TypeOK
  <1>11. FilesGood'
    BY <1>1, <1>10, FilesStay DEF IInv
  <1>12. ProcInv(p)'
    BY <1>8 DEF ProcInv, HasOpen, HasRead, HasCopied, HasDecrypted,
       Opened, Headed, Copying, Decrypting
  <1>13. \A q \in Proc \ {p} : Same(q)
    BY <1>1 DEF TypeOK, Goto, Same, local
  <1>14. \A q \in Proc : ProcInv(q)'
    BY <1>10, <1>12, <1>13, OthersStay
  <1>. QED BY <1>7, <1>9, <1>11, <1>14 DEF IInv

LEMMA DecryptInv ==
    ASSUME IInv, NEW p \in Proc, Decrypt(p)
    PROVE  IInv'
  <1>1. CASE DecryptIOFails(p)
    BY <1>1, QuietFailInv DEF DecryptIOFails, FailQuietly
  <1>2. CASE LogDecrypted(p)
    BY <1>2, SuccessInv, QuietFailInv DEF LogDecrypted, FailQuietly
  <1>. QED BY <1>1, <1>2, StartDecryptInv, OpenInputInv, ReadHeaderInv, VerifyBodyInv, AuthorizedInv,
              ReadChunkInv, PublishInv DEF Decrypt

-----------------------------------------------------------------------------
(* Rewrap *)

LEMMA StartRewrapInv ==
    ASSUME IInv, NEW p \in Proc, StartRewrap(p)
    PROVE  IInv'
  <1>1. PICK u \in Callers, c \in Level :
            Start(p, [op |-> "rewrap", user |-> u, cls |-> c, over |-> FALSE,
                      del |-> FALSE, key |-> active])
    BY DEF StartRewrap
  <1> DEFINE request == [op |-> "rewrap", user |-> u, cls |-> c, over |-> FALSE,
                         del |-> FALSE, key |-> active]
  <1>2. request \in Job
    <2>1. active \in Nat /\ u \in Caller
      BY FileCryptoAssumption DEF IInv, TypeOK
    <2>. QED BY <2>1 DEF Job
  <1> HIDE DEF request
  <1>3. /\ Start(p, request) /\ Goto(p, "ropen")
        /\ UNCHANGED <<world, fd, hdr, end, tmp>>
    BY <1>1 DEF StartRewrap, request
  <1>. QED BY <1>2, <1>3, StartedInv

LEMMA OpenOldContainerInv ==
    ASSUME IInv, NEW p \in Proc, OpenOldContainer(p)
    PROVE  IInv'
  BY ReopenInv DEF OpenOldContainer

LEMMA RewrapFailsInv ==
    ASSUME IInv, NEW p \in Proc, NEW o \in {"denied", "error"}, RewrapFails(p, o),
           UNCHANGED world
    PROVE  IInv'
  <1>1. TypeOK
    BY DEF IInv
  <1>2. (IF Attributable(p) THEN <<Entry(job[p].user, o)>> ELSE <<>>) \in Seq(Event)
    <2>1. <<Entry(job[p].user, o)>> \in Seq(Event)
      BY <1>1, JobUser
    <2>2. <<>> \in Seq(Event)
      OBVIOUS
    <2>. QED BY <2>1, <2>2
  <1>. QED BY <1>1, <1>2, FailInv DEF RewrapFails, world, TypeOK

LEMMA ReadOldHeaderInv ==
    ASSUME IInv, NEW p \in Proc, ReadOldHeader(p)
    PROVE  IInv'
  BY HeaderInv, RewrapFailsInv DEF ReadOldHeader

LEMMA VerifyOldBodyInv ==
    ASSUME IInv, NEW p \in Proc, VerifyOldBody(p)
    PROVE  IInv'
  <1> DEFINE h == hdr[p]
             f == file[fd[p]]
             new == Header(h.dek, job[p].key, h.cls)
  <1>1. TypeOK /\ ProcInv(p) /\ pc[p] = "rbody" /\ UNCHANGED world
    BY DEF IInv, VerifyOldBody
  <1>2. CASE RewrapFails(p, "error")
    BY <1>1, <1>2, RewrapFailsInv
  <1>3. CASE /\ Verifies(f, h)
             /\ end' = [end EXCEPT ![p] = Len(f) - 2]
             /\ tmp' = [tmp EXCEPT ![p] = <<new>>]
             /\ Goto(p, "copy")
             /\ UNCHANGED <<job, fd, hdr, events, result>>
    <2>1. fd[p] \in 1 .. Len(file) /\ h \in HeaderPiece /\ Good(h) /\ job[p].key \in Nat
      BY <1>1, OpenFileType, HeadedType, JobUser DEF Opened, Headed, Job
    <2>2. Len(f) - 2 \in Nat
      BY <2>1, <1>3, FileType DEF Verifies
    <2>3. new \in HeaderPiece /\ Good(new)
      BY <2>1 DEF HeaderPiece, Header, Good, GoodFor
    <2> HIDE DEF new
    <2>4. <<new>> \in Seq(Piece)
      BY <2>3 DEF Piece
    <2>5. /\ tmp' \in [Proc -> Seq(Piece)] /\ tmp'[p] = <<new>>
          /\ pc' \in [Proc -> PCs] /\ pc'[p] = "copy"
      BY <1>1, <1>3, <2>4 DEF TypeOK, Goto, PCs
    <2>6. LocalTypeOK'
      BY <1>1, <1>3, <2>2, <2>5 DEF TypeOK, LocalTypeOK, world
    <2>7. \A q \in Proc \ {p} : Same(q)
      BY <1>1, <1>3 DEF TypeOK, Goto, Same
    <2>8. HasCopied(p)'
      BY <1>1, <2>3, <2>5 DEF HasCopied, Good, world
    <2>9. HasOpen(p)' /\ HasRead(p)' /\ HasDecrypted(p)'
      BY <1>1, <1>3, <2>1, <2>5 DEF HasOpen, HasRead, HasDecrypted, Copying, Decrypting,
         Good, world
    <2>. QED BY <1>1, <2>6, <2>7, <2>8, <2>9, LocalInv DEF TypeOK, world, ProcInv
  <1>. QED BY <1>2, <1>3 DEF VerifyOldBody

\* One more good piece in the temporary file of a rewrap.
LEMMA CopiedInv ==
    ASSUME IInv, NEW p \in Proc, NEW x \in Piece, Good(x), pc[p] = "copy",
           tmp' = [tmp EXCEPT ![p] = Append(tmp[p], x)],
           NEW label \in {"copy", "rewrapped"}, Goto(p, label),
           UNCHANGED <<world, local, events, result>>
    PROVE  IInv'
  <1>1. TypeOK /\ ProcInv(p)
    BY DEF IInv
  <1> DEFINE P == Piece
             t == tmp[p]
  <1>2. /\ t \in Seq(P) /\ t # <<>> /\ t[1] \in HeaderPiece
        /\ \A j \in DOMAIN t : Good(t[j])
    BY <1>1 DEF TypeOK, ProcInv, HasCopied, Copying
  <1>3. x \in P
    OBVIOUS
  <1> HIDE DEF P, t
  <1>4. /\ Append(t, x) \in Seq(P) /\ Append(t, x) # <<>> /\ Append(t, x)[1] \in HeaderPiece
        /\ \A j \in DOMAIN Append(t, x) : Good(Append(t, x)[j])
    BY <1>2, <1>3
  <1>5. /\ tmp' \in [Proc -> Seq(Piece)] /\ tmp'[p] = Append(t, x)
        /\ pc' \in [Proc -> PCs] /\ pc'[p] = label
    BY <1>1, <1>4 DEF TypeOK, Goto, PCs, P, t
  <1>6. LocalTypeOK'
    BY <1>1, <1>5 DEF TypeOK, LocalTypeOK, world, local
  <1>7. \A q \in Proc \ {p} : Same(q)
    BY <1>1 DEF TypeOK, Goto, Same, local
  <1>8. HasCopied(p)'
    BY <1>4, <1>5 DEF HasCopied, Good, world
  <1>9. HasOpen(p)' /\ HasRead(p)' /\ HasDecrypted(p)'
    BY <1>1, <1>5 DEF ProcInv, HasOpen, HasRead, HasDecrypted, Opened, Headed, Copying,
       Decrypting, Good, world, local
  <1>. QED BY <1>1, <1>6, <1>7, <1>8, <1>9, LocalInv DEF TypeOK, world, ProcInv

LEMMA CopyPieceInv ==
    ASSUME IInv, NEW p \in Proc, CopyPiece(p)
    PROVE  IInv'
  <1> DEFINE f == file[fd[p]]
             n == Len(tmp[p])
             t == tmp[p]
             new == Trailer(t[1], Bytes(SubSeq(t, 2, Len(t))))
  <1>1. TypeOK /\ ProcInv(p) /\ pc[p] = "copy" /\ UNCHANGED world
    BY DEF IInv, CopyPiece
  <1>2. CASE RewrapFails(p, "error")
    BY <1>1, <1>2, RewrapFailsInv
  <1>3. t \in Seq(Piece) /\ t # <<>> /\ t[1] \in HeaderPiece /\ n \in Nat
    BY <1>1 DEF TypeOK, ProcInv, HasCopied, Copying
  <1>4. CASE /\ n < Len(f)
             /\ tmp' = [tmp EXCEPT ![p] = Append(@, f[n + 1])]
             /\ UNCHANGED <<pc, local, events, result>>
    <2>1. fd[p] \in 1 .. Len(file)
      BY <1>1, OpenFileType DEF Opened
    <2>2. n + 1 \in 1 .. Len(f)
      BY <1>3, <1>4, <2>1, FileType
    <2>3. f[n + 1] \in Piece /\ Good(f[n + 1])
      BY <2>1, <2>2, FileType
    <2>4. Goto(p, "copy")
      BY <1>1, <1>4 DEF Goto, TypeOK
    <2>. QED BY <1>1, <1>4, <2>3, <2>4, CopiedInv
  <1>5. CASE /\ tmp' = [tmp EXCEPT ![p] = Append(@, new)]
             /\ Goto(p, "rewrapped")
             /\ UNCHANGED <<local, events, result>>
    <2>1. SubSeq(t, 2, Len(t)) \in Seq(Piece)
      <3> DEFINE P == Piece
      <3>1. t \in Seq(P)
        BY <1>3
      <3> HIDE DEF P, t
      <3>2. SubSeq(t, 2, Len(t)) \in Seq(P)
        BY <3>1, SubSeqProperties
      <3>. QED BY <3>2 DEF P
    <2>2. Bytes(SubSeq(t, 2, Len(t))) \in Seq(ChunkPiece \cup {Hole})
      BY <2>1, BytesType
    <2>3. new \in TrailerPiece
      BY <1>3, <2>2 DEF Trailer, TrailerPiece
    <2>4. Good(new) /\ new \in Piece
      BY <2>3 DEF Trailer, Good, GoodFor, Piece
    <2>. QED BY <1>1, <1>5, <2>4, CopiedInv
  <1>. QED BY <1>2, <1>4, <1>5 DEF CopyPiece

LEMMA LogRewrappedInv ==
    ASSUME IInv, NEW p \in Proc, LogRewrapped(p)
    PROVE  IInv'
  <1>1. TypeOK /\ ProcInv(p) /\ pc[p] = "rewrapped" /\ UNCHANGED world
    BY DEF IInv, LogRewrapped
  <1>2. CASE RewrapFails(p, "error")
    BY <1>1, <1>2, RewrapFailsInv
  <1>3. CASE /\ Log(p, <<Entry(job[p].user, "success")>>)
             /\ Goto(p, "replace")
             /\ UNCHANGED <<local, tmp, result>>
    <2>1. <<Entry(job[p].user, "success")>> \in Seq(Event)
      BY <1>1, JobUser
    <2>2. events' \in [Proc -> Seq(Event)]
      BY <1>1, <1>3, <2>1, LogType
    <2>3. LocalTypeOK' /\ pc'[p] = "replace"
      BY <1>1, <1>3, <2>2 DEF TypeOK, LocalTypeOK, Goto, PCs, world, local
    <2>4. \A q \in Proc \ {p} : Same(q)
      BY <1>1, <1>3 DEF TypeOK, Goto, Same, local
    <2>5. ProcInv(p)'
      BY <1>1, <1>3, <2>3 DEF ProcInv, HasOpen, HasRead, HasCopied, HasDecrypted, Opened,
         Headed, Copying, Decrypting, Good, world, local
    <2>. QED BY <1>1, <2>3, <2>4, <2>5, LocalInv DEF TypeOK, world
  <1>. QED BY <1>2, <1>3 DEF LogRewrapped

LEMMA ReplaceInv ==
    ASSUME IInv, NEW p \in Proc, Replace(p)
    PROVE  IInv'
  <1> DEFINE F == Seq(Piece)
             t == tmp[p]
  <1>1. /\ TypeOK /\ FilesGood /\ ProcInv(p) /\ pc[p] = "replace"
        /\ file' = Append(file, t)
        /\ path' = [path EXCEPT ![job[p].cls] = Len(file) + 1]
        /\ Return(p, "ok")
        /\ UNCHANGED <<plain, out, sealed, active, events>>
    BY DEF IInv, Replace
  <1>2. t \in F /\ \A j \in DOMAIN t : Good(t[j])
    BY <1>1 DEF TypeOK, ProcInv, HasCopied, Copying
  <1>3. file \in Seq(F) /\ Len(file) \in Nat
    BY <1>1 DEF TypeOK
  <1> HIDE DEF F, t
  <1>4. /\ file' \in Seq(F) /\ Len(file') = Len(file) + 1
        /\ \A i \in DOMAIN file' :
              \/ i \in DOMAIN file /\ file'[i] = file[i]
              \/ file'[i] = t
    BY <1>1, <1>2, <1>3
  <1>5. Extends
    BY <1>1, <1>3, <1>4 DEF Extends
  <1>6. FilesGood'
    BY <1>1, <1>2, <1>4 DEF FilesGood, Good
  <1>7. path' \in [Level -> NoFile .. Len(file')]
    <2>1. path \in [Level -> NoFile .. Len(file')] /\ Len(file) + 1 \in NoFile .. Len(file')
      BY <1>1, <1>3, <1>4 DEF TypeOK, NoFile
    <2>. QED BY <1>1, <2>1
  <1>8. events' \in [Proc -> Seq(Event)]
    BY <1>1 DEF TypeOK
  <1>9. LocalTypeOK' /\ ProcInv(p)' /\ \A q \in Proc \ {p} : Same(q)
    BY <1>1, <1>3, <1>4, <1>8, ReturnType
  <1>. QED BY <1>1, <1>4, <1>5, <1>6, <1>7, <1>9, FileInv DEF F, TypeOK

LEMMA RewrapInv ==
    ASSUME IInv, NEW p \in Proc, Rewrap(p)
    PROVE  IInv'
  <1>1. CASE RewrapIOFails(p)
    BY <1>1, QuietFailInv DEF RewrapIOFails, FailQuietly
  <1>. QED BY <1>1, StartRewrapInv, OpenOldContainerInv, ReadOldHeaderInv, VerifyOldBodyInv,
              CopyPieceInv, LogRewrappedInv, ReplaceInv DEF Rewrap

-----------------------------------------------------------------------------
(* The theorems *)

LEMMA WorldInv ==
    ASSUME IInv, NewPlain \/ Rotate \/ UNCHANGED vars
    PROVE  IInv'
  <1>1. TypeOK /\ UNCHANGED <<file, out, sealed, pc, local, tmp>>
    BY DEF IInv, NewPlain, Rotate, vars, world
  <1>2. TypeOK'
    <2>1. plain' \in Doc \cup {NoDoc} /\ active' \in 1 .. MaxKeys
      BY <1>1, FileCryptoAssumption DEF TypeOK, NewPlain, Rotate, vars, world
    <2>2. UNCHANGED <<path, events, result>>
      BY DEF NewPlain, Rotate, vars, world
    <2>. QED BY <1>1, <2>1, <2>2 DEF TypeOK, local
  <1>3. Extends /\ Len(file') \in Nat
    BY <1>1 DEF Extends, TypeOK
  <1>4. FilesGood' /\ PublishedAuthentic'
    BY <1>1, <1>3, FilesStay, PublishedStays DEF IInv
  <1>5. \A q \in Proc : ProcInv(q)'
    BY <1>1, <1>3, OthersStay DEF Same, local
  <1>. QED BY <1>2, <1>4, <1>5 DEF IInv

LEMMA NextInv == IInv /\ [Next]_vars => IInv'
  <1> SUFFICES ASSUME IInv, [Next]_vars PROVE IInv'
    OBVIOUS
  <1>1. CASE \E p \in Proc : Encrypt(p)
    BY <1>1, EncryptInv
  <1>2. CASE \E p \in Proc : Decrypt(p)
    BY <1>2, DecryptInv
  <1>3. CASE \E p \in Proc : Rewrap(p)
    BY <1>3, RewrapInv
  <1>4. CASE \E p \in Proc : Crash(p)
    BY <1>4, QuietFailInv DEF Crash
  <1>5. CASE NewPlain \/ Rotate \/ UNCHANGED vars
    BY <1>5, WorldInv
  <1>. QED BY <1>1, <1>2, <1>3, <1>4, <1>5 DEF Next

\* Whatever any number of processes do to the files, the pieces in them name
\* the data keys they were made for, and each process holds what the invariant
\* says at each of its steps.
THEOREM FilesInvariance == Spec => []IInv
  BY InitInv, NextInv, PTL DEF Spec

\* The names lead to files there are, containers hold the pieces the format
\* has, and every process is at one of its steps.
THEOREM FilesTyped == Spec => []TypeOK
  <1>1. IInv => TypeOK
    BY DEF IInv
  <1>. QED BY <1>1, FilesInvariance, PTL

\* What stream_decrypt_file publishes in the directory of a class is a whole
\* document that was sealed at that class, for a caller cleared for it,
\* although the container may be rewritten while it is being read.
THEOREM Published == Spec => []PublishedAuthentic
  <1>1. IInv => PublishedAuthentic
    BY DEF IInv
  <1>. QED BY <1>1, FilesInvariance, PTL

LEMMA TemporaryInv == IInv => TemporaryAuthentic
  <1> SUFFICES ASSUME IInv, NEW p \in Proc, pc[p] \in {"chunks", "publish"}
               PROVE  /\ Cleared(job[p].user, hdr[p].cls)
                      /\ \E d \in DOMAIN sealed :
                            /\ sealed[d].cls = hdr[p].cls
                            /\ Len(tmp[p]) <= Len(Chunks(d))
                            /\ tmp[p] = SubSeq(Chunks(d), 1, Len(tmp[p]))
    BY DEF TemporaryAuthentic
  <1> DEFINE d == hdr[p].dek
             size == Size[sealed[d].doc]
             a == tmp[p]
             b == Chunks(d)
             S == Piece \cup ChunkPiece
  <1>1. /\ d \in DOMAIN sealed /\ sealed[d].cls = hdr[p].cls
        /\ size \in Nat /\ b \in Seq(ChunkPiece) /\ Len(b) = size
        /\ \A n \in 1 .. Len(b) : b[n] = Chunk(d, n, n = size)
    BY HeadedType DEF Headed
  <1>2. /\ a \in Seq(Piece) /\ Cleared(job[p].user, hdr[p].cls)
        /\ \A n \in DOMAIN a : a[n] = Chunk(d, n, n = size)
        /\ Len(a) <= size
    <2>1. tmp[p] \in Seq(Piece) /\ HasDecrypted(p) /\ Len(tmp[p]) \in Nat
      BY DEF IInv, TypeOK, ProcInv
    <2>2. pc[p] \in Decrypting /\ (Len(a) < size \/ Len(a) = size)
      BY <2>1 DEF HasDecrypted, Decrypting
    <2>3. Len(a) <= size
      BY <1>1, <2>1, <2>2
    <2>. QED BY <2>1, <2>2, <2>3 DEF HasDecrypted
  <1> HIDE DEF d, size, a, b, S
  <1>3. a \in Seq(S) /\ b \in Seq(S)
    <2> DEFINE P == Piece
               C == ChunkPiece
    <2>1. a \in Seq(P) /\ b \in Seq(C)
      BY <1>1, <1>2
    <2> HIDE DEF P, C
    <2>2. a \in Seq(P \cup C) /\ b \in Seq(P \cup C)
      BY <2>1
    <2>. QED BY <2>2 DEF S, P, C
  <1>4. /\ SubSeq(b, 1, Len(a)) \in Seq(S) /\ Len(SubSeq(b, 1, Len(a))) = Len(a)
        /\ \A n \in 1 .. Len(a) : SubSeq(b, 1, Len(a))[n] = b[n]
    BY <1>1, <1>2, <1>3
  <1>5. \A n \in 1 .. Len(a) : a[n] = SubSeq(b, 1, Len(a))[n]
    BY <1>1, <1>2, <1>3, <1>4
  <1>6. a = SubSeq(b, 1, Len(a))
    BY <1>3, <1>4, <1>5, SeqEqual
  <1>7. Len(a) <= Len(b)
    BY <1>1, <1>2
  <1>. QED BY <1>1, <1>2, <1>6, <1>7 DEF a, b, d

\* A temporary file, which a crash leaves on disk, holds only the beginning
\* of such a document, for a caller cleared for it.
THEOREM Temporary == Spec => []TemporaryAuthentic
  BY FilesInvariance, TemporaryInv, PTL

=============================================================================
