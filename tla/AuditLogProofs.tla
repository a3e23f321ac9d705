--------------------------- MODULE AuditLogProofs ---------------------------
(***************************************************************************)
(* Proofs about AuditLog, for files and backups of any size.  As long as   *)
(* no line is cut short, any number of processes keep every link of the    *)
(* chain and every event; one process, killed anywhere, keeps one chain    *)
(* that verifies and shows every removal.                                  *)
(***************************************************************************)
EXTENDS AuditLog, SequenceTheorems, WellFoundedInduction, TLAPS

-----------------------------------------------------------------------------
(* Lines and files *)

Lines == Seq(Line)

LEMMA AppendLine ==
    ASSUME NEW s \in Lines, NEW l \in Line
    PROVE  /\ Append(s, l) \in Lines
           /\ Len(Append(s, l)) = Len(s) + 1
           /\ \A j \in 1 .. Len(s) : Append(s, l)[j] = s[j]
           /\ Append(s, l)[Len(s) + 1] = l
           /\ Append(s, l) # <<>>
           /\ Len(s) \in Nat /\ DOMAIN s = 1 .. Len(s)
           /\ DOMAIN Append(s, l) = 1 .. Len(s) + 1
  <1> DEFINE L == Line
  <1> HIDE DEF L
  <1>1. s \in Seq(L) /\ l \in L
    BY DEF L, Lines
  <1>2. /\ Append(s, l) \in Seq(L)
        /\ Len(Append(s, l)) = Len(s) + 1
        /\ \A j \in 1 .. Len(s) : Append(s, l)[j] = s[j]
        /\ Append(s, l)[Len(s) + 1] = l
        /\ Append(s, l) # <<>>
        /\ Len(s) \in Nat /\ DOMAIN s = 1 .. Len(s)
        /\ DOMAIN Append(s, l) = 1 .. Len(s) + 1
    BY <1>1
  <1>. QED BY <1>2 DEF L, Lines

\* A set of numbers with an upper bound has a greatest element.
LEMMA MaxExists ==
    ASSUME NEW n \in Nat, NEW S \in SUBSET (1 .. n), S # {}
    PROVE  Max(S) \in S /\ \A y \in S : Max(S) >= y
  <1> DEFINE T == {n - x : x \in S}
  <1>1. T \subseteq Nat
    OBVIOUS
  <1>2. T # {}
    <2>1. PICK x \in S : TRUE
      OBVIOUS
    <2>2. n - x \in T
      BY <2>1
    <2>. QED BY <2>2
  <1> DEFINE R == OpToRel(<, Nat)
  <1>r. IsWellFoundedOn(R, Nat)
    BY NatLessThanWellFounded, Zenon
  <1>3. ASSUME NEW x \in Nat, NEW y \in Nat, x < y
        PROVE  <<x, y>> \in R
    BY <1>3, Zenon DEF OpToRel
  <1> HIDE DEF R
  <1>4. PICK m \in T : \A y \in T : ~ <<y, m>> \in R
    BY <1>1, <1>2, <1>r, WFMin, Zenon
  <1> HIDE DEF T
  <1>5. ASSUME NEW y \in T
        PROVE  m <= y
    <2>1. m \in Nat /\ y \in Nat
      BY <1>1
    <2>2. ~ y < m
      BY <1>3, <1>4, <2>1, Zenon
    <2>. QED BY <2>1, <2>2
  <1>6. m \in Nat
    BY <1>1
  <1> USE DEF T
  <1>7. n - m \in S
    OBVIOUS
  <1>8. ASSUME NEW y \in S
        PROVE  n - m >= y
    <2>1. n - y \in T
      OBVIOUS
    <2>2. m <= n - y
      BY <1>5, <2>1
    <2>. QED BY <1>6, <2>2
  <1>. QED BY <1>7, <1>8, Zenon DEF Max

AllWhole(s) == \A j \in DOMAIN s : Whole(s[j])

LEMMA LastLine ==
    ASSUME NEW s \in Lines
    PROVE  /\ Len(s) \in Nat /\ DOMAIN s = 1 .. Len(s)
           /\ s # <<>> <=> Len(s) >= 1
           /\ Last(s) = s[Len(s)]
           /\ s # <<>> => Last(s) \in Line /\ Last(s).cur \in Nat /\ Last(s).prev \in Nat
  <1> DEFINE L == Line
  <1>0. \A l \in L : l.cur \in Nat /\ l.prev \in Nat
    BY DEF Line
  <1> HIDE DEF L
  <1>1. s \in Seq(L)
    BY DEF L, Lines
  <1>2. /\ Len(s) \in Nat /\ DOMAIN s = 1 .. Len(s)
        /\ s # <<>> <=> Len(s) >= 1
        /\ s # <<>> => s[Len(s)] \in L
    BY <1>1
  <1>. QED BY <1>0, <1>2 DEF L, Last

\* Where every line is whole, the last hash is that of the last line, and
\* nothing has to be recovered.
LEMMA WholeTail ==
    ASSUME NEW s \in Lines, AllWhole(s)
    PROVE  /\ LastHash(s) = IF s = <<>> THEN Genesis ELSE Last(s).cur
           /\ LastHash(s) \in Nat
           /\ ~ WasRecovered(s) /\ ~ EndsTorn(s)
  <1>1. /\ Len(s) \in Nat /\ DOMAIN s = 1 .. Len(s) /\ (s # <<>> <=> Len(s) >= 1)
        /\ Last(s) = s[Len(s)] /\ (s # <<>> => Last(s).cur \in Nat)
    BY LastLine
  <1>2. WholeLines(s) = 1 .. Len(s)
    BY <1>1 DEF WholeLines, AllWhole
  <1>3. s # <<>> => Max(1 .. Len(s)) = Len(s)
    <2> SUFFICES ASSUME s # <<>>
                 PROVE  Max(1 .. Len(s)) = Len(s)
      OBVIOUS
    <2>1. Len(s) \in 1 .. Len(s) /\ \A y \in 1 .. Len(s) : Len(s) >= y
      BY <1>1
    <2>2. Max(1 .. Len(s)) \in 1 .. Len(s) /\ \A y \in 1 .. Len(s) : Max(1 .. Len(s)) >= y
      BY <2>1, Zenon DEF Max
    <2>3. Max(1 .. Len(s)) >= Len(s)
      BY <2>1, <2>2
    <2>. QED BY <1>1, <2>2, <2>3
  <1>4. s = <<>> => WholeLines(s) = {}
    BY <1>1, <1>2
  <1>5. s # <<>> => WholeLines(s) # {}
    BY <1>1, <1>2
  <1>6. LastHash(s) = IF s = <<>> THEN Genesis ELSE Last(s).cur
    BY <1>1, <1>2, <1>3, <1>4, <1>5 DEF LastHash
  <1>7. s # <<>> => Whole(Last(s))
    BY <1>1 DEF AllWhole
  <1>. QED BY <1>1, <1>6, <1>7 DEF WasRecovered, EndsTorn, Whole, Genesis

LEMMA LastHashType ==
    ASSUME NEW s \in Lines
    PROVE  LastHash(s) \in Nat
  <1>1. /\ Len(s) \in Nat /\ DOMAIN s = 1 .. Len(s)
    BY LastLine
  <1>2. WholeLines(s) \in SUBSET (1 .. Len(s))
    BY <1>1 DEF WholeLines
  <1>3. CASE WholeLines(s) = {}
    BY <1>3 DEF LastHash, Genesis
  <1>4. CASE WholeLines(s) # {}
    <2>1. Max(WholeLines(s)) \in 1 .. Len(s)
      BY <1>1, <1>2, <1>4, MaxExists
    <2>2. s[Max(WholeLines(s))] \in Line
      BY <2>1, ElementOfSeq DEF Lines
    <2>. QED BY <1>4, <2>2 DEF LastHash, Line
  <1>. QED BY <1>3, <1>4

LEMMA MadeLines ==
    /\ Corrupt \in Line
    /\ \A id \in Nat : Torn(id) \in Line
    /\ \A kind \in {"event", "recovery", "rotation"}, cur \in Nat, prv \in Nat :
          /\ [kind |-> kind, cur |-> cur, prev |-> prv] \in Line
          /\ Whole([kind |-> kind, cur |-> cur, prev |-> prv])
  BY DEF Corrupt, Torn, Line, Kinds, Genesis, Whole

LEMMA PutType ==
    ASSUME NEW s \in Lines, NEW l \in Line
    PROVE  Put(s, l) \in Lines /\ PutStart(s, l) \in Lines /\ PutRest(s, l) \in Lines
  <1>1. /\ Len(s) \in Nat /\ DOMAIN s = 1 .. Len(s)
        /\ l.cur \in Nat
    BY LastLine DEF Line
  <1>2. \A m \in Line : Append(s, m) \in Lines
    BY AppendLine
  <1>3. Front(s) \in Lines
    <2>1. \A i \in 1 .. Len(s) - 1 : s[i] \in Line
      BY <1>1, ElementOfSeq DEF Lines
    <2>. QED BY <1>1, <2>1, SubSeqProperties DEF Front, Lines
  <1>4. \A m \in Line : ReplaceLast(s, m) \in Lines
    BY <1>3, AppendLine DEF ReplaceLast
  <1>. QED BY <1>1, <1>2, <1>4, MadeLines DEF Put, PutStart, PutRest, Genesis

-----------------------------------------------------------------------------
(* Types.  The sentinel and the re-chained entry need an open file.        *)

Open == \A p \in Proc : pc[p] \in {"sentinel", "rechain"} => stream[p] # NoFile
Typed == TypeOK /\ Open

LEMMA InitTyped == Init => Typed
  <1> SUFFICES ASSUME Init PROVE Typed
    OBVIOUS
  <1>1. << <<>> >> \in Seq(Seq(Line)) /\ DOMAIN << <<>> >> = {1} /\ << <<>> >> # <<>>
    <2>1. <<>> \in Seq(Line)
      BY EmptySeq
    <2>. QED BY <2>1
  <1>2. <<1>> \in Seq({1}) /\ Len(<<1>>) = 1 /\ 1 \in 1 .. BackupCount + 1
    BY AuditLogAssumption
  <1>3. content \in Seq(Seq(Line)) /\ content # <<>> /\ names \in Seq(DOMAIN content)
        /\ Len(names) \in 1 .. BackupCount + 1
    BY <1>1, <1>2 DEF Init
  <1>4. /\ stream \in [Proc -> DOMAIN content \cup {NoFile}]
        /\ buf \in [Proc -> Pending \cup {NoLine}]
        /\ pc \in [Proc -> Locations]
        /\ what \in [Proc -> {"recovery", "event"}]
        /\ prev \in [Proc -> Nat] /\ hash \in [Proc -> Nat]
    BY DEF Init, Locations, Genesis
  <1>5. next \in Nat /\ events \in 0 .. MaxEvents /\ acked \subseteq Nat
    BY AuditLogAssumption DEF Init
  <1>6. Open
    BY DEF Init, Open
  <1>. QED BY <1>3, <1>4, <1>5, <1>6 DEF Typed, TypeOK

\* The files that have a name, and the one a process writes to.
LEMMA FileType ==
    ASSUME Typed, NEW p \in Proc
    PROVE  /\ content \in Seq(Lines)
           /\ Len(content) \in Nat /\ DOMAIN content = 1 .. Len(content)
           /\ Len(names) \in Nat \ {0} /\ Last(names) = names[Len(names)]
           /\ Last(names) \in DOMAIN content /\ Log \in Lines
           /\ File(p) \in DOMAIN content /\ content[File(p)] \in Lines
           /\ Flushed(p) \in Lines
  <1>1. content \in Seq(Lines) /\ names \in Seq(DOMAIN content)
    BY DEF Typed, TypeOK, Lines
  <1>2. Len(content) \in Nat /\ DOMAIN content = 1 .. Len(content)
    BY <1>1, LenProperties
  <1>3. Len(names) \in Nat \ {0}
    BY AuditLogAssumption DEF Typed, TypeOK
  <1>4. Last(names) = names[Len(names)] /\ Last(names) \in DOMAIN content
    BY <1>1, <1>3, ElementOfSeq DEF Last
  <1>5. Log \in Lines
    BY <1>1, <1>2, <1>4, ElementOfSeq DEF Log
  <1>6. File(p) \in DOMAIN content
    BY <1>4 DEF File, Typed, TypeOK
  <1>7. content[File(p)] \in Lines
    BY <1>1, <1>2, <1>6, ElementOfSeq
  <1>8. Flushed(p) \in Lines
    <2>1. CASE buf[p] = NoLine
      BY <1>7, <2>1 DEF Flushed
    <2>2. CASE buf[p] # NoLine
      <3>1. buf[p] \in Pending
        BY <2>2 DEF Typed, TypeOK
      <3>2. buf[p].line \in Line
        BY <3>1 DEF Pending
      <3>. QED BY <1>7, <2>2, <3>2, PutType DEF Flushed
    <2>. QED BY <2>1, <2>2
  <1>. QED BY <1>1, <1>2, <1>3, <1>4, <1>5, <1>6, <1>7, <1>8

\* Contents change in one file.
LEMMA ContentExcept ==
    ASSUME NEW c \in Seq(Lines), NEW i \in DOMAIN c, NEW s \in Lines
    PROVE  /\ [c EXCEPT ![i] = s] \in Seq(Lines)
           /\ Len([c EXCEPT ![i] = s]) = Len(c)
           /\ DOMAIN [c EXCEPT ![i] = s] = DOMAIN c
           /\ DOMAIN c = 1 .. Len(c) /\ Len(c) \in Nat
           /\ \A j \in DOMAIN c : [c EXCEPT ![i] = s][j] = IF j = i THEN s ELSE c[j]
           /\ [c EXCEPT ![i] = s] # <<>>
  <1>1. DOMAIN c = 1 .. Len(c) /\ Len(c) \in Nat
    BY LenProperties
  <1>2. /\ [c EXCEPT ![i] = s] \in Seq(Lines)
        /\ Len([c EXCEPT ![i] = s]) = Len(c)
        /\ \A j \in DOMAIN c : [c EXCEPT ![i] = s][j] = IF j = i THEN s ELSE c[j]
    BY <1>1, ExceptSeq
  <1>3. DOMAIN [c EXCEPT ![i] = s] = DOMAIN c
    OBVIOUS
  <1>4. [c EXCEPT ![i] = s] # <<>>
    BY <1>1, <1>3
  <1>. QED BY <1>1, <1>2, <1>3, <1>4

ContentType ==
    /\ content \in Seq(Lines) /\ content # <<>>
    /\ buf \in [Proc -> Pending \cup {NoLine}]

LEMMA WriteType ==
    ASSUME Typed, NEW p \in Proc, NEW s \in Lines, NEW l \in Line,
           WriteOk(p, s, l) \/ WriteFails(p, s, l)
    PROVE  ContentType' /\ DOMAIN content' = DOMAIN content
  <1>1. content \in Seq(Lines) /\ File(p) \in DOMAIN content
    BY FileType
  <1>2. /\ Put(s, l) \in Lines /\ PutStart(s, l) \in Lines
    BY PutType
  <1>3. PICK t \in Lines : content' = [content EXCEPT ![File(p)] = t]
    BY <1>2 DEF WriteOk, WriteFails
  <1>4. content' \in Seq(Lines) /\ content' # <<>> /\ DOMAIN content' = DOMAIN content
    BY <1>1, <1>3, ContentExcept
  <1>5. \A c \in BOOLEAN : [line |-> l, cut |-> c] \in Pending
    BY DEF Pending
  <1>6. buf' \in [Proc -> Pending \cup {NoLine}]
    BY <1>5 DEF WriteOk, WriteFails, Typed, TypeOK
  <1>. QED BY <1>4, <1>6 DEF ContentType

\* A process is at a place, with its local variables.
LocalType ==
    /\ pc \in [Proc -> Locations]
    /\ what \in [Proc -> {"recovery", "event"}]
    /\ prev \in [Proc -> Nat] /\ hash \in [Proc -> Nat]

LEMMA LeaveType ==
    ASSUME Typed, NEW p \in Proc, Leave(p)
    PROVE  LocalType' /\ (Open' <=> \A q \in Proc \ {p} :
               pc[q] \in {"sentinel", "rechain"} => stream'[q] # NoFile)
  BY DEF Typed, TypeOK, Leave, Goto, LocalType, Locations, Genesis, Open

LEMMA EmittedType ==
    ASSUME Typed, NEW p \in Proc, NEW id \in Nat, NEW computed \in Nat,
           Emitted(p, id, computed)
    PROVE  LocalType' /\ acked' \subseteq Nat /\ pc'[p] \in {"idle", "emit"}
           /\ \A q \in Proc \ {p} : pc'[q] = pc[q]
  <1>1. LocalType
    BY DEF Typed, TypeOK, LocalType
  <1>2. acked \subseteq Nat
    BY DEF Typed, TypeOK
  <1>3. CASE what[p] = "recovery"
    <2>1. /\ what' = [what EXCEPT ![p] = "event"]
          /\ prev' = [prev EXCEPT ![p] = computed]
          /\ hash' = [hash EXCEPT ![p] = Genesis]
          /\ Goto(p, "emit")
          /\ UNCHANGED acked
      BY <1>3 DEF Emitted
    <2>2. LocalType'
      BY <1>1, <2>1 DEF Goto, LocalType, Locations, Genesis
    <2>. QED BY <1>1, <1>2, <2>1, <2>2 DEF Goto, LocalType
  <1>4. CASE what[p] # "recovery"
    <2>1. acked' = acked \cup {id} /\ Leave(p)
      BY <1>4 DEF Emitted
    <2>2. LocalType'
      BY <2>1, LeaveType
    <2>3. pc'[p] = "idle" /\ \A q \in Proc \ {p} : pc'[q] = pc[q]
      BY <1>1, <2>1 DEF Leave, Goto, LocalType
    <2>. QED BY <1>2, <2>1, <2>2, <2>3
  <1>. QED BY <1>3, <1>4

NamesType ==
    /\ names \in Seq(DOMAIN content) /\ Len(names) \in 1 .. BackupCount + 1
    /\ stream \in [Proc -> DOMAIN content \cup {NoFile}]
    /\ next \in Nat /\ events \in 0 .. MaxEvents

LEMMA Retyped ==
    ASSUME (ContentType /\ NamesType /\ LocalType /\ acked \subseteq Nat /\ Open)'
    PROVE  Typed'
  BY DEF ContentType, NamesType, LocalType, Typed, TypeOK, Lines

LEMMA Detyped ==
    ASSUME Typed
    PROVE  ContentType /\ NamesType /\ LocalType /\ acked \subseteq Nat /\ Open
  BY DEF ContentType, NamesType, LocalType, Typed, TypeOK, Lines

LEMMA ReadTailTyped ==
    ASSUME Typed, NEW p \in Proc, ReadTail(p)
    PROVE  Typed'
  <1>1. LastHash(Log) \in Nat
    BY FileType, LastHashType
  <1>2. LocalType'
    BY <1>1 DEF ReadTail, Goto, LocalType, Typed, TypeOK, Locations
  <1>3. NamesType'
    BY AuditLogAssumption DEF ReadTail, NamesType, Typed, TypeOK
  <1>4. Open'
    BY DEF ReadTail, Goto, Typed, TypeOK, Open
  <1>5. (ContentType /\ acked \subseteq Nat)'
    BY Detyped DEF ReadTail, ContentType
  <1>. QED BY <1>2, <1>3, <1>4, <1>5, Retyped

LEMMA EmitTyped ==
    ASSUME Typed, NEW p \in Proc, Emit(p)
    PROVE  Typed'
  <1>1. next \in Nat /\ prev[p] \in Nat /\ what[p] \in {"event", "recovery", "rotation"}
    BY DEF Typed, TypeOK
  <1>2. Flushed(p) \in Lines /\ File(p) \in DOMAIN content
        /\ DOMAIN content = 1 .. Len(content)
    BY FileType
  <1>3. ContentType' /\ DOMAIN content' = DOMAIN content
    BY <1>1, <1>2, MadeLines, WriteType DEF Emit
  <1>4. NamesType'
    BY <1>1, <1>2, <1>3 DEF Emit, NamesType, Typed, TypeOK
  <1>5. LocalType' /\ acked' \subseteq Nat /\ pc'[p] \in {"idle", "emit"}
        /\ \A q \in Proc \ {p} : pc'[q] = pc[q]
    BY <1>1, EmittedType DEF Emit
  <1>6. Open'
    BY <1>5 DEF Emit, Typed, TypeOK, Open
  <1>. QED BY <1>3, <1>4, <1>5, <1>6, Retyped

LEMMA FlushFailsTyped ==
    ASSUME Typed, NEW p \in Proc, FlushFails(p)
    PROVE  Typed'
  <1>1. LocalType'
    BY LeaveType DEF FlushFails
  <1>2. Open'
    BY LeaveType DEF FlushFails, Typed, Open
  <1>3. (ContentType /\ NamesType /\ acked \subseteq Nat)'
    BY Detyped DEF FlushFails, ContentType, NamesType
  <1>. QED BY <1>1, <1>2, <1>3, Retyped

LEMMA ReadForRotationTyped ==
    ASSUME Typed, NEW p \in Proc, ReadForRotation(p)
    PROVE  Typed'
  <1>1. Flushed(p) \in Lines /\ File(p) \in DOMAIN content /\ content \in Seq(Lines)
        /\ Last(names) \in DOMAIN content
    BY FileType
  <1>2. /\ content' \in Seq(Lines) /\ content' # <<>> /\ DOMAIN content' = DOMAIN content
        /\ DOMAIN content = 1 .. Len(content) /\ Len(content') = Len(content)
    BY <1>1, ContentExcept DEF ReadForRotation
  <1>3. content'[Last(names)] \in Lines
    BY <1>1, <1>2, ElementOfSeq
  <1>4. LastHash(content'[Last(names)]) \in Nat
    BY <1>3, LastHashType
  <1>5. ContentType'
    BY <1>2 DEF ReadForRotation, ContentType, Typed, TypeOK
  <1>6. LocalType'
    BY <1>4 DEF ReadForRotation, Goto, LocalType, Locations, Typed, TypeOK
  <1>7. NamesType'
    BY <1>1, <1>2 DEF ReadForRotation, NamesType, Typed, TypeOK
  <1>8. Open' /\ acked' \subseteq Nat
    BY <1>1, <1>2, AuditLogAssumption DEF ReadForRotation, Goto, Typed, TypeOK, Open
  <1>. QED BY <1>5, <1>6, <1>7, <1>8, Retyped

LEMMA FitsTyped ==
    ASSUME Typed, NEW p \in Proc, Fits(p)
    PROVE  Typed'
  <1>1. Flushed(p) \in Lines /\ File(p) \in DOMAIN content /\ content \in Seq(Lines)
    BY FileType
  <1>2. /\ content' \in Seq(Lines) /\ content' # <<>> /\ DOMAIN content' = DOMAIN content
        /\ DOMAIN content = 1 .. Len(content) /\ Len(content') = Len(content)
    BY <1>1, ContentExcept DEF Fits
  <1>3. ContentType'
    BY <1>2 DEF Fits, ContentType, Typed, TypeOK
  <1>4. LocalType'
    BY DEF Fits, Goto, LocalType, Locations, Typed, TypeOK
  <1>5. NamesType'
    BY <1>1, <1>2 DEF Fits, NamesType, Typed, TypeOK
  <1>6. Open' /\ acked' \subseteq Nat
    BY DEF Fits, Goto, Typed, TypeOK, Open
  <1>. QED BY <1>3, <1>4, <1>5, <1>6, Retyped

\* The oldest name goes when there are too many.
LEMMA OneLess ==
    ASSUME Typed, NEW p \in Proc, RemoveOldest(p)
    PROVE  /\ names' \in Seq(DOMAIN content) /\ Len(names') \in 1 .. BackupCount + 1
           /\ Len(names') = Len(names) - 1 /\ Len(names) \in Nat
           /\ \A i \in 1 .. Len(names) - 1 : names'[i] = names[i + 1]
  <1>1. names \in Seq(DOMAIN content) /\ Len(names) \in 1 .. BackupCount + 1
        /\ Len(names) \in Nat /\ Len(names) > BackupCount /\ BackupCount \in Nat \ {0}
    BY AuditLogAssumption DEF RemoveOldest, Typed, TypeOK
  <1>2. names # <<>>
    BY <1>1, EmptySeq
  <1>3. /\ Tail(names) \in Seq(DOMAIN content) /\ Len(Tail(names)) = Len(names) - 1
        /\ \A i \in 1 .. Len(Tail(names)) : Tail(names)[i] = names[i + 1]
    BY <1>1, <1>2, HeadTailProperties
  <1>4. names' = Tail(names)
    BY DEF RemoveOldest
  <1>5. Len(names) - 1 \in 1 .. BackupCount + 1
    BY <1>1
  <1>. QED BY <1>1, <1>3, <1>4, <1>5

LEMMA RemoveOldestTyped ==
    ASSUME Typed, NEW p \in Proc, RemoveOldest(p)
    PROVE  Typed'
  <1>1. names' \in Seq(DOMAIN content) /\ Len(names') \in 1 .. BackupCount + 1
    BY OneLess
  <1>2. (ContentType /\ LocalType /\ acked \subseteq Nat /\ Open)'
    BY Detyped DEF RemoveOldest, ContentType, LocalType, Open
  <1>3. NamesType'
    BY <1>1, Detyped DEF RemoveOldest, NamesType
  <1>. QED BY <1>2, <1>3, Retyped

LEMMA NewFile ==
    ASSUME NEW c \in Seq(Lines)
    PROVE  /\ Append(c, <<>>) \in Seq(Lines) /\ Append(c, <<>>) # <<>>
           /\ Len(Append(c, <<>>)) = Len(c) + 1
           /\ DOMAIN Append(c, <<>>) = 1 .. Len(c) + 1
           /\ DOMAIN c = 1 .. Len(c) /\ Len(c) \in Nat
           /\ \A i \in 1 .. Len(c) : Append(c, <<>>)[i] = c[i]
           /\ Append(c, <<>>)[Len(c) + 1] = <<>>
  <1>1. <<>> \in Lines
    BY EmptySeq DEF Lines
  <1>. QED BY <1>1, AppendProperties, LenProperties

\* Rollover and RolloverUnmarked.
Rolled(p) == Rename(p) /\ pc' \in {[pc EXCEPT ![p] = "sentinel"], [pc EXCEPT ![p] = "append"]}

LEMMA AreRolled ==
    ASSUME NEW p \in Proc, Rollover(p) \/ RolloverUnmarked(p)
    PROVE  Rolled(p)
  BY DEF Rollover, RolloverUnmarked, Rolled, Goto

LEMMA RolledTyped ==
    ASSUME Typed, NEW p \in Proc, Rolled(p)
    PROVE  Typed'
  <1>1. content \in Seq(Lines) /\ names \in Seq(DOMAIN content)
        /\ Len(names) \in 1 .. BackupCount + 1
    BY FileType DEF Typed, TypeOK
  <1>2. /\ content' \in Seq(Lines) /\ content' # <<>> /\ Len(content') \in DOMAIN content'
        /\ DOMAIN content \subseteq DOMAIN content'
    BY <1>1, NewFile DEF Rolled, Rename
  <1>3. names \in Seq(DOMAIN content')
    BY <1>1, <1>2, SeqMonotonic
  <1>4. names' \in Seq(DOMAIN content') /\ Len(names') \in 1 .. BackupCount + 1
    <2>1. names' = Append(names, Len(content')) /\ Len(names) <= BackupCount
      BY DEF Rolled, Rename
    <2>2. names' \in Seq(DOMAIN content') /\ Len(names') = Len(names) + 1
      BY <1>2, <1>3, <2>1, AppendProperties
    <2>. QED BY <1>1, <2>1, <2>2, AuditLogAssumption
  <1>5. ContentType'
    BY <1>2 DEF Rolled, Rename, ContentType, Typed, TypeOK
  <1>6. NamesType'
    BY <1>2, <1>4 DEF Rolled, Rename, NamesType, Typed, TypeOK
  <1>7. LocalType' /\ acked' \subseteq Nat
    BY DEF Rolled, Rename, LocalType, Locations, Typed, TypeOK
  <1>8. Len(content') # NoFile
    BY <1>1, NewFile, AuditLogAssumption DEF Rolled, Rename
  <1>9. Open'
    BY <1>8 DEF Rolled, Rename, Typed, TypeOK, Open
  <1>. QED BY <1>5, <1>6, <1>7, <1>9, Retyped

LEMMA OpenStream ==
    ASSUME Typed, NEW p \in Proc, pc[p] \in {"sentinel", "rechain"}
    PROVE  /\ stream[p] \in DOMAIN content /\ content[stream[p]] \in Lines
           /\ File(p) = stream[p]
  <1>1. stream[p] \in DOMAIN content
    BY DEF Typed, TypeOK, Open
  <1>2. content[stream[p]] \in Lines
    BY <1>1, FileType, ElementOfSeq
  <1>. QED BY <1>1, <1>2 DEF File, Typed, Open

LEMMA WriteSentinelTyped ==
    ASSUME Typed, NEW p \in Proc, WriteSentinel(p)
    PROVE  Typed'
  <1> DEFINE s == content[stream[p]]
             l == [kind |-> "rotation", cur |-> next, prev |-> prev[p]]
  <1>1. next \in Nat /\ prev[p] \in Nat
    BY DEF Typed, TypeOK
  <1>2. s \in Lines /\ l \in Line
    BY <1>1, OpenStream, MadeLines DEF WriteSentinel
  <1>3. \/ /\ WriteOk(p, s, l) /\ Goto(p, "rechain")
           /\ prev' = [prev EXCEPT ![p] = next]
           /\ UNCHANGED <<what, hash>>
        \/ WriteFails(p, s, l) /\ Leave(p)
    BY DEF WriteSentinel
  <1> HIDE DEF s, l
  <1>4. ContentType' /\ DOMAIN content' = DOMAIN content
    BY <1>2, <1>3, WriteType
  <1>5. NamesType' /\ acked' \subseteq Nat
    BY <1>1, <1>4 DEF WriteSentinel, NamesType, Typed, TypeOK
  <1>6. LocalType'
    <2>1. CASE Leave(p)
      BY <2>1, LeaveType
    <2>2. CASE Goto(p, "rechain") /\ prev' = [prev EXCEPT ![p] = next]
               /\ UNCHANGED <<what, hash>>
      BY <1>1, <2>2 DEF Goto, LocalType, Locations, Typed, TypeOK
    <2>. QED BY <1>3, <2>1, <2>2
  <1>7. \A q \in Proc : pc'[q] \in {"sentinel", "rechain"} => pc[q] \in {"sentinel", "rechain"}
    BY <1>3 DEF WriteSentinel, Goto, Leave, Typed, TypeOK
  <1>8. Open'
    BY <1>7 DEF WriteSentinel, Typed, Open
  <1>. QED BY <1>4, <1>5, <1>6, <1>8, Retyped

LEMMA WriteRechainedTyped ==
    ASSUME Typed, NEW p \in Proc, WriteRechained(p)
    PROVE  Typed'
  <1> DEFINE s == content[stream[p]]
             l == [kind |-> what[p], cur |-> next, prev |-> prev[p]]
  <1>1. next \in Nat /\ prev[p] \in Nat /\ hash[p] \in Nat
        /\ what[p] \in {"event", "recovery", "rotation"}
    BY DEF Typed, TypeOK
  <1>2. s \in Lines /\ l \in Line
    BY <1>1, OpenStream, MadeLines DEF WriteRechained
  <1>3. WriteOk(p, s, l) \/ WriteFails(p, s, l)
    BY DEF WriteRechained
  <1> HIDE DEF s, l
  <1>4. ContentType' /\ DOMAIN content' = DOMAIN content
    BY <1>2, <1>3, WriteType
  <1>5. NamesType'
    BY <1>1, <1>4 DEF WriteRechained, NamesType, Typed, TypeOK
  <1>6. LocalType' /\ acked' \subseteq Nat /\ pc'[p] \in {"idle", "emit"}
        /\ \A q \in Proc \ {p} : pc'[q] = pc[q]
    BY <1>1, EmittedType DEF WriteRechained
  <1>7. Open'
    BY <1>6 DEF WriteRechained, Typed, Open
  <1>. QED BY <1>4, <1>5, <1>6, <1>7, Retyped

LEMMA CloseTyped ==
    ASSUME Typed, NEW p \in Proc, Close(p),
           content' \in Seq(Lines), content' # <<>>, DOMAIN content' = DOMAIN content,
           names' = names
    PROVE  Typed'
  <1>1. LocalType'
    BY LeaveType DEF Close
  <1>2. Open'
    BY LeaveType DEF Close, Typed, TypeOK, Open
  <1>3. ContentType'
    BY DEF Close, ContentType, Typed, TypeOK
  <1>4. NamesType' /\ acked' \subseteq Nat
    BY DEF Close, NamesType, Typed, TypeOK
  <1>. QED BY <1>1, <1>2, <1>3, <1>4, Retyped

LEMMA ExitTyped ==
    ASSUME Typed, NEW p \in Proc, Exit(p)
    PROVE  Typed'
  <1>1. File(p) = stream[p] /\ Flushed(p) \in Lines /\ File(p) \in DOMAIN content
        /\ content \in Seq(Lines)
    BY FileType DEF Exit, File
  <1>2. content' \in Seq(Lines) /\ content' # <<>> /\ DOMAIN content' = DOMAIN content
    BY <1>1, ContentExcept DEF Exit
  <1>. QED BY <1>2, CloseTyped DEF Exit

LEMMA KillTyped ==
    ASSUME Typed, NEW p \in Proc, Kill(p)
    PROVE  Typed'
  BY CloseTyped, Detyped DEF Kill, ContentType

LEMMA NextTyped ==
    ASSUME Typed, [Next]_vars
    PROVE  Typed'
  <1>1. CASE UNCHANGED vars
    BY <1>1 DEF vars, Typed, TypeOK, Open
  <1>2. ASSUME NEW p \in Proc, Step(p)
        PROVE  Typed'
    BY <1>2, ReadTailTyped, FitsTyped, EmitTyped, FlushFailsTyped, ReadForRotationTyped,
       RemoveOldestTyped, AreRolled, RolledTyped, WriteSentinelTyped, WriteRechainedTyped,
       ExitTyped, KillTyped
       DEF Step
  <1>. QED BY <1>1, <1>2 DEF Next

\* Whatever fails, wherever a process is killed and whichever process renames
\* the log, log_event and its handler stay within their types: above all, the
\* file a process writes to exists.
THEOREM TypeCorrect == Spec => []TypeOK
  <1>1. Init => Typed
    BY InitTyped
  <1>2. Typed /\ [Next]_vars => Typed'
    BY NextTyped
  <1>3. Typed => TypeOK
    BY DEF Typed
  <1>. QED BY <1>1, <1>2, <1>3, PTL DEF Spec

-----------------------------------------------------------------------------
(* Links, when no line is cut short: every line is whole, and points to    *)
(* GENESIS or to a line that is in some file.  So do the lines in a        *)
(* stream's buffer and the entry a process is about to write.              *)

InFile(h) == \E i \in DOMAIN content : \E j \in DOMAIN content[i] : content[i][j].cur = h
Written(h) == h = Genesis \/ InFile(h)

Sound(l) == Whole(l) /\ Written(l.prev)

FilesSound == \A i \in DOMAIN content : \A j \in DOMAIN content[i] : Sound(content[i][j])
BufSound == \A p \in Proc : buf[p] # NoLine => ~ buf[p].cut /\ Sound(buf[p].line)
LocalSound ==
    \A p \in Proc :
        /\ what[p] = "event" /\ Written(prev[p])
        /\ pc[p] \in {"rollover", "sentinel", "rechain"} => buf[p] = NoLine /\ stream[p] # NoFile

LinkInv == Typed /\ FilesSound /\ BufSound /\ LocalSound

LEMMA InitLinks == Init => LinkInv
  BY InitTyped DEF Init, LinkInv, FilesSound, BufSound, LocalSound, Written

\* File t is file s with sound lines added.
Grown(s, t) ==
    /\ DOMAIN s \subseteq DOMAIN t
    /\ \A j \in DOMAIN s : t[j] = s[j]
    /\ \A j \in DOMAIN t : j \in DOMAIN s \/ Sound(t[j])

LEMMA GrownAppend ==
    ASSUME NEW s \in Lines, NEW t \in Lines, Grown(s, t), NEW l \in Line, Sound(l)
    PROVE  Grown(s, Append(t, l))
  <1>1. /\ DOMAIN t = 1 .. Len(t) /\ Len(t) \in Nat
        /\ DOMAIN Append(t, l) = 1 .. Len(t) + 1
        /\ \A j \in 1 .. Len(t) : Append(t, l)[j] = t[j]
        /\ Append(t, l)[Len(t) + 1] = l
    BY AppendLine
  <1> HIDE DEF Lines
  <1>2. \A j \in DOMAIN Append(t, l) : j \in DOMAIN t \/ j = Len(t) + 1
    BY <1>1
  <1>. QED BY <1>1, <1>2 DEF Grown

LEMMA AppendWhole ==
    ASSUME NEW s \in Lines, AllWhole(s), NEW l \in Line, Whole(l)
    PROVE  AllWhole(Append(s, l)) /\ Put(s, l) = Append(s, l)
  <1>1. /\ DOMAIN s = 1 .. Len(s) /\ Len(s) \in Nat
        /\ DOMAIN Append(s, l) = 1 .. Len(s) + 1
        /\ \A j \in 1 .. Len(s) : Append(s, l)[j] = s[j]
        /\ Append(s, l)[Len(s) + 1] = l
    BY AppendLine
  <1>2. \A j \in DOMAIN Append(s, l) : j \in DOMAIN s \/ j = Len(s) + 1
    BY <1>1
  <1>3. ~ EndsTorn(s)
    BY WholeTail
  <1>. QED BY <1>1, <1>2, <1>3 DEF AllWhole, Put

\* Flushing the buffer adds its line, or nothing.
LEMMA FlushedSound ==
    ASSUME LinkInv, NEW p \in Proc
    PROVE  /\ Flushed(p) \in Lines /\ AllWhole(Flushed(p))
           /\ Grown(content[File(p)], Flushed(p))
           /\ buf[p] # NoLine =>
                 \E j \in DOMAIN Flushed(p) : Flushed(p)[j].cur = buf[p].line.cur
  <1> DEFINE s == content[File(p)]
  <1>1. s \in Lines /\ File(p) \in DOMAIN content /\ Flushed(p) \in Lines
    BY FileType DEF LinkInv
  <1>2. AllWhole(s)
    BY <1>1 DEF LinkInv, FilesSound, Sound, AllWhole
  <1>3. Grown(s, s)
    BY DEF Grown
  <1>4. CASE buf[p] = NoLine
    <2>1. Flushed(p) = s
      BY <1>4 DEF Flushed
    <2>. QED BY <1>1, <1>2, <1>3, <1>4, <2>1
  <1>5. CASE buf[p] # NoLine
    <2>1. buf[p] \in Pending
      BY <1>5 DEF LinkInv, Typed, TypeOK
    <2>2. buf[p].line \in Line /\ Sound(buf[p].line) /\ ~ buf[p].cut
      BY <1>5, <2>1 DEF Pending, LinkInv, BufSound
    <2>3. Whole(buf[p].line)
      BY <2>2 DEF Sound
    <2>4. AllWhole(Append(s, buf[p].line)) /\ Put(s, buf[p].line) = Append(s, buf[p].line)
      BY <1>1, <1>2, <2>2, <2>3, AppendWhole
    <2>5. Flushed(p) = Append(s, buf[p].line)
      BY <1>5, <2>2, <2>4 DEF Flushed
    <2>6. Grown(s, Append(s, buf[p].line))
      BY <1>1, <1>3, <2>2, GrownAppend
    <2>7. /\ Append(s, buf[p].line)[Len(s) + 1] = buf[p].line
          /\ Len(s) + 1 \in DOMAIN Append(s, buf[p].line)
      BY <1>1, <2>2, AppendLine
    <2> HIDE DEF s
    <2>8. \E j \in DOMAIN Flushed(p) : Flushed(p)[j].cur = buf[p].line.cur
      BY <2>5, <2>7, Zenon
    <2>. QED BY <1>1, <2>4, <2>5, <2>6, <2>8 DEF s
  <1>. QED BY <1>4, <1>5

\* A file grows, and nothing written is lost.
LEMMA ContentGrows ==
    ASSUME LinkInv, NEW i \in DOMAIN content, NEW t \in Lines, Grown(content[i], t),
           content' = [content EXCEPT ![i] = t]
    PROVE  /\ FilesSound'
           /\ \A h : (InFile(h) => InFile(h)') /\ (Written(h) => Written(h)')
           /\ \A j \in DOMAIN t : InFile(t[j].cur)'
  <1>1. content \in Seq(Lines)
    BY DEF LinkInv, Typed, TypeOK, Lines
  <1>2. /\ DOMAIN content' = DOMAIN content
        /\ \A k \in DOMAIN content : content'[k] = IF k = i THEN t ELSE content[k]
    BY <1>1, ContentExcept
  <1>3. ASSUME NEW h, InFile(h)
        PROVE  InFile(h)'
    <2>1. PICK k \in DOMAIN content : \E j \in DOMAIN content[k] : content[k][j].cur = h
      BY <1>3 DEF InFile
    <2>2. PICK j \in DOMAIN content[k] : content[k][j].cur = h
      BY <2>1
    <2>3. k \in DOMAIN content' /\ j \in DOMAIN content'[k] /\ content'[k][j] = content[k][j]
      BY <1>2, <2>2 DEF Grown
    <2>. QED BY <2>2, <2>3 DEF InFile
  <1>4. ASSUME NEW h, Written(h)
        PROVE  Written(h)'
    BY <1>3, <1>4 DEF Written
  <1>6. ASSUME NEW k \in DOMAIN content', NEW j \in DOMAIN content'[k]
        PROVE  Sound(content[k][j])'
    <2>1. PICK l : l = content'[k][j]
      OBVIOUS
    <2>2. Sound(l)
      BY <1>2, <2>1 DEF Grown, LinkInv, FilesSound
    <2>3. Whole(l) /\ Written(l.prev)'
      BY <1>4, <2>2 DEF Sound
    <2>. QED BY <2>1, <2>3 DEF Sound, Written, InFile
  <1>7. ASSUME NEW j \in DOMAIN t
        PROVE  InFile(t[j].cur)'
    BY <1>2 DEF InFile
  <1>8. FilesSound'
    BY <1>6 DEF FilesSound
  <1>. QED BY <1>3, <1>4, <1>7, <1>8

\* What the buffer of p becomes, when no line is cut short.
LEMMA BufSoundNext ==
    ASSUME LinkInv, NEW p \in Proc, NEW b, b # NoLine => ~ b.cut /\ Sound(b.line),
           \A h : Written(h) => Written(h)',
           buf' = [buf EXCEPT ![p] = b]
    PROVE  BufSound'
  <1> SUFFICES ASSUME NEW q \in Proc, buf'[q] # NoLine
               PROVE  ~ buf'[q].cut /\ Sound(buf[q].line)'
    BY DEF BufSound
  <1>1. PICK d : d = buf'[q]
    OBVIOUS
  <1>2. d = b \/ d = buf[q]
    BY <1>1 DEF LinkInv, Typed, TypeOK
  <1>3. ~ d.cut /\ Sound(d.line)
    BY <1>1, <1>2 DEF LinkInv, BufSound
  <1>4. Whole(d.line) /\ Written(d.line.prev)'
    BY <1>3 DEF Sound
  <1>. QED BY <1>1, <1>3, <1>4 DEF Sound, Written, InFile

LEMMA WriteSound ==
    ASSUME LinkInv, "torn" \notin Faults, NEW p \in Proc,
           NEW s \in Lines, AllWhole(s), Grown(content[File(p)], s),
           NEW l \in Line, Sound(l),
           WriteOk(p, s, l) \/ WriteFails(p, s, l)
    PROVE  /\ FilesSound' /\ BufSound'
           /\ \A h : (InFile(h) => InFile(h)') /\ (Written(h) => Written(h)')
           /\ \A j \in DOMAIN s : InFile(s[j].cur)'
           /\ WriteOk(p, s, l) => InFile(l.cur)' /\ buf' = [buf EXCEPT ![p] = NoLine]
           /\ WriteFails(p, s, l) =>
                 /\ "fail" \in Faults
                 /\ buf' = [buf EXCEPT ![p] = [line |-> l, cut |-> FALSE]]
  <1>0. WriteFails(p, s, l) =>
          /\ content' = [content EXCEPT ![File(p)] = s]
          /\ buf' = [buf EXCEPT ![p] = [line |-> l, cut |-> FALSE]]
          /\ "fail" \in Faults
    BY DEF WriteFails
  <1>1. File(p) \in DOMAIN content
    BY FileType DEF LinkInv
  <1>2. CASE WriteOk(p, s, l)
    <2>1. PICK t \in Lines : t = Append(s, l)
      BY AppendLine
    <2>2. Put(s, l) = t
      BY <2>1, AppendWhole DEF Sound
    <2>3. Grown(content[File(p)], t)
      <3>1. content[File(p)] \in Lines
        BY FileType DEF LinkInv
      <3>. QED BY <2>1, <3>1, GrownAppend
    <2>4. content' = [content EXCEPT ![File(p)] = t] /\ buf' = [buf EXCEPT ![p] = NoLine]
      BY <1>2, <2>2 DEF WriteOk
    <2>5. PICK i \in DOMAIN content : i = File(p)
      BY <1>1
    <2>6. /\ FilesSound'
          /\ \A h : (InFile(h) => InFile(h)') /\ (Written(h) => Written(h)')
          /\ \A j \in DOMAIN t : InFile(t[j].cur)'
      BY <2>3, <2>4, <2>5, ContentGrows
    <2>7. /\ \A j \in DOMAIN s : j \in DOMAIN t /\ t[j] = s[j]
          /\ Len(s) + 1 \in DOMAIN t /\ t[Len(s) + 1] = l
      BY <2>1, AppendLine
    <2>8. \A j \in DOMAIN s : InFile(s[j].cur)'
      BY <2>6, <2>7 DEF InFile
    <2>9. InFile(l.cur)'
      BY <2>6, <2>7 DEF InFile
    <2>10. BufSound'
      BY <2>4, <2>6, BufSoundNext, Zenon
    <2>. QED BY <1>0, <2>4, <2>6, <2>8, <2>9, <2>10
  <1>3. CASE WriteFails(p, s, l) /\ ~ WriteOk(p, s, l)
    <2>1. /\ content' = [content EXCEPT ![File(p)] = s]
          /\ buf' = [buf EXCEPT ![p] = [line |-> l, cut |-> FALSE]]
          /\ "fail" \in Faults
      BY <1>0, <1>3
    <2>2. PICK i \in DOMAIN content : i = File(p)
      BY <1>1
    <2>3. /\ FilesSound'
          /\ \A h : (InFile(h) => InFile(h)') /\ (Written(h) => Written(h)')
          /\ \A j \in DOMAIN s : InFile(s[j].cur)'
      BY <2>1, <2>2, ContentGrows
    <2>4. BufSound'
      <3> DEFINE b == [line |-> l, cut |-> FALSE]
      <3>1. ~ b.cut /\ b.line = l
        OBVIOUS
      <3>2. ~ b.cut /\ Sound(b.line)
        BY <3>1
      <3>3. buf' = [buf EXCEPT ![p] = b]
        BY <2>1
      <3> HIDE DEF b
      <3>. QED BY <2>3, <3>2, <3>3, BufSoundNext, Zenon
    <2>. QED BY <1>3, <2>1, <2>3, <2>4
  <1>. QED BY <1>2, <1>3

\* The last hash of a file is GENESIS or in the file.
LEMMA LastInFile ==
    ASSUME NEW s \in Lines, AllWhole(s)
    PROVE  LastHash(s) = Genesis \/ \E j \in DOMAIN s : s[j].cur = LastHash(s)
  <1>1. /\ LastHash(s) = IF s = <<>> THEN Genesis ELSE Last(s).cur
        /\ Len(s) \in Nat /\ DOMAIN s = 1 .. Len(s) /\ (s # <<>> <=> Len(s) >= 1)
        /\ Last(s) = s[Len(s)]
    BY WholeTail, LastLine
  <1>2. CASE s = <<>>
    BY <1>1, <1>2
  <1>3. CASE s # <<>>
    <2>1. Len(s) \in DOMAIN s /\ s[Len(s)].cur = LastHash(s)
      BY <1>1, <1>3
    <2>. QED BY <2>1, Zenon
  <1>. QED BY <1>2, <1>3

LEMMA TailWritten ==
    ASSUME LinkInv, NEW i \in DOMAIN content
    PROVE  /\ content[i] \in Lines /\ AllWhole(content[i])
           /\ ~ WasRecovered(content[i]) /\ Written(LastHash(content[i]))
  <1>1. content[i] \in Lines
    BY LenProperties, ElementOfSeq DEF LinkInv, Typed, TypeOK, Lines
  <1>2. AllWhole(content[i])
    BY DEF LinkInv, FilesSound, Sound, AllWhole
  <1>3. ~ WasRecovered(content[i])
    BY <1>1, <1>2, WholeTail
  <1>4. Written(LastHash(content[i]))
    BY <1>1, <1>2, LastInFile DEF Written, InFile
  <1>. QED BY <1>1, <1>2, <1>3, <1>4

\* Only p moved.
LEMMA LocalSoundNext ==
    ASSUME LinkInv, NEW p \in Proc,
           \A h : Written(h) => Written(h)',
           \A q \in Proc \ {p} :
              /\ what'[q] = what[q] /\ prev'[q] = prev[q] /\ pc'[q] = pc[q]
              /\ buf'[q] = buf[q] /\ stream'[q] = stream[q],
           what'[p] = "event", Written(prev[p])',
           pc'[p] \in {"rollover", "sentinel", "rechain"} =>
              buf'[p] = NoLine /\ stream'[p] # NoFile
    PROVE  LocalSound'
  <1> SUFFICES ASSUME NEW q \in Proc \ {p}
               PROVE  /\ what'[q] = "event" /\ Written(prev[q])'
                      /\ pc'[q] \in {"rollover", "sentinel", "rechain"} =>
                            buf'[q] = NoLine /\ stream'[q] # NoFile
    BY DEF LocalSound
  <1>1. PICK h : h = prev[q]
    OBVIOUS
  <1>2. Written(h)'
    BY <1>1 DEF LinkInv, LocalSound
  <1>3. Written(prev[q])'
    BY <1>1, <1>2 DEF Written, InFile
  <1>. QED BY <1>3 DEF LinkInv, LocalSound

\* An event is safe in a file, or in a stream's buffer.
Safe(id) == InFile(id) \/ \E p \in Proc : buf[p] # NoLine /\ buf[p].line.cur = id

LEMMA SafeNext ==
    ASSUME LinkInv, NEW p \in Proc, NEW b, buf' = [buf EXCEPT ![p] = b],
           \A h : InFile(h) => InFile(h)',
           NEW e, buf[p] # NoLine => e = buf[p].line.cur /\ InFile(e)'
    PROVE  \A h : Safe(h) => Safe(h)'
  <1> SUFFICES ASSUME NEW h, Safe(h)
               PROVE  Safe(h)'
    OBVIOUS
  <1>1. CASE InFile(h)
    BY <1>1 DEF Safe
  <1>2. ASSUME NEW q \in Proc, buf[q] # NoLine, buf[q].line.cur = h
        PROVE  Safe(h)'
    <2>1. CASE q = p
      <3>1. InFile(h)'
        BY <1>2, <2>1
      <3>. QED BY <3>1 DEF Safe
    <2>2. CASE q # p
      <3>1. buf'[q] = buf[q]
        BY <2>2 DEF LinkInv, Typed, TypeOK
      <3>. QED BY <1>2, <3>1 DEF Safe
    <2>. QED BY <2>1, <2>2
  <1>. QED BY <1>1, <1>2 DEF Safe

LEMMA SafeKept ==
    ASSUME UNCHANGED buf, \A h : InFile(h) => InFile(h)'
    PROVE  \A h : Safe(h) => Safe(h)'
  BY DEF Safe

\* What a step does that loses nothing.
Kept == (\A h : Safe(h) => Safe(h)') /\ (\A id \in acked' : id \in acked \/ Safe(id)')

LEMMA ReadTailLinks ==
    ASSUME LinkInv, NEW p \in Proc, ReadTail(p)
    PROVE  LinkInv' /\ Kept
  <1>1. Typed'
    BY ReadTailTyped DEF LinkInv
  <1>2. \A h : (InFile(h) => InFile(h)') /\ (Written(h) => Written(h)')
    BY DEF ReadTail, InFile, Written
  <1>3. Last(names) \in DOMAIN content
    BY FileType DEF LinkInv
  <1>4. Written(LastHash(Log)) /\ ~ WasRecovered(Log)
    BY <1>3, TailWritten DEF Log
  <1>5. PICK h : h = LastHash(Log)
    OBVIOUS
  <1>6. prev' = [prev EXCEPT ![p] = h] /\ what' = [what EXCEPT ![p] = "event"]
        /\ pc' = [pc EXCEPT ![p] = "emit"]
    BY <1>4, <1>5 DEF ReadTail, Goto
  <1>7. Written(prev[p])'
    <2>1. prev'[p] = h
      BY <1>6 DEF LinkInv, Typed, TypeOK
    <2>2. Written(h)'
      BY <1>2, <1>4, <1>5
    <2>. QED BY <2>1, <2>2 DEF Written, InFile
  <1>8. LocalSound'
    <2>1. \A q \in Proc \ {p} :
              /\ what'[q] = what[q] /\ prev'[q] = prev[q] /\ pc'[q] = pc[q]
              /\ buf'[q] = buf[q] /\ stream'[q] = stream[q]
      BY <1>6 DEF ReadTail, LinkInv, Typed, TypeOK
    <2>2. what'[p] = "event" /\ pc'[p] = "emit"
      BY <1>6 DEF LinkInv, Typed, TypeOK
    <2>. QED BY <1>2, <1>7, <2>1, <2>2, LocalSoundNext
  <1>9. FilesSound' /\ BufSound'
    BY DEF LinkInv, ReadTail, FilesSound, BufSound, Sound, Written, InFile
  <1>10. Kept
    BY <1>2, SafeKept DEF Kept, ReadTail
  <1>. QED BY <1>1, <1>8, <1>9, <1>10 DEF LinkInv

\* log_event is over for p, whatever it wrote.
LEMMA LeaveLocal ==
    ASSUME LinkInv, NEW p \in Proc, Leave(p),
           \A h : Written(h) => Written(h)',
           \A q \in Proc \ {p} : buf'[q] = buf[q] /\ stream'[q] = stream[q]
    PROVE  LocalSound'
  <1>1. \A q \in Proc \ {p} : what'[q] = what[q] /\ prev'[q] = prev[q] /\ pc'[q] = pc[q]
    BY DEF Leave, Goto, LinkInv, Typed, TypeOK
  <1>2. what'[p] = "event" /\ prev'[p] = Genesis /\ pc'[p] = "idle"
    BY DEF Leave, Goto, LinkInv, Typed, TypeOK
  <1>3. Written(prev[p])'
    BY <1>2 DEF Written
  <1>. QED BY <1>1, <1>2, <1>3, LocalSoundNext

\* An entry is written, or stays in the buffer: Emit, WriteRechained and
\* WriteSentinel.
LEMMA EntryWritten ==
    ASSUME LinkInv, "torn" \notin Faults, NEW p \in Proc,
           NEW s \in Lines, AllWhole(s), Grown(content[File(p)], s),
           buf[p] # NoLine => \E j \in DOMAIN s : s[j].cur = buf[p].line.cur,
           NEW l \in Line, Sound(l),
           WriteOk(p, s, l) \/ WriteFails(p, s, l)
    PROVE  /\ FilesSound' /\ BufSound'
           /\ \A h : (InFile(h) => InFile(h)') /\ (Written(h) => Written(h)')
           /\ \A h : Safe(h) => Safe(h)'
           /\ \A h : h = l.cur => Safe(h)'
           /\ \A q \in Proc \ {p} : buf'[q] = buf[q]
  <1>1. /\ FilesSound' /\ BufSound'
        /\ \A h : (InFile(h) => InFile(h)') /\ (Written(h) => Written(h)')
        /\ \A j \in DOMAIN s : InFile(s[j].cur)'
        /\ WriteOk(p, s, l) => InFile(l.cur)' /\ buf' = [buf EXCEPT ![p] = NoLine]
        /\ WriteFails(p, s, l) =>
              /\ "fail" \in Faults
              /\ buf' = [buf EXCEPT ![p] = [line |-> l, cut |-> FALSE]]
    BY WriteSound
  <1>2. PICK b : /\ buf' = [buf EXCEPT ![p] = b]
                 /\ \/ b = NoLine /\ InFile(l.cur)'
                    \/ b = [line |-> l, cut |-> FALSE]
    BY <1>1
  <1>3. PICK e : buf[p] # NoLine => e = buf[p].line.cur /\ \E j \in DOMAIN s : s[j].cur = e
    OBVIOUS
  <1>4. buf[p] # NoLine => e = buf[p].line.cur /\ InFile(e)'
    BY <1>1, <1>3
  <1>5. \A h : Safe(h) => Safe(h)'
    BY <1>1, <1>2, <1>4, SafeNext
  <1>6. buf'[p] = b /\ \A q \in Proc \ {p} : buf'[q] = buf[q]
    BY <1>2 DEF LinkInv, Typed, TypeOK
  <1>7. ASSUME NEW h, h = l.cur
        PROVE  Safe(h)'
    <2>1. CASE b = NoLine /\ InFile(l.cur)'
      BY <1>7, <2>1 DEF Safe
    <2>2. CASE b = [line |-> l, cut |-> FALSE]
      <3>1. b \in Pending
        BY <2>2 DEF Pending
      <3>2. b # NoLine /\ b.line.cur = h
        BY <1>7, <2>2, <3>1, NoLineAssumption
      <3>. QED BY <1>6, <3>2 DEF Safe
    <2>. QED BY <1>2, <2>1, <2>2
  <1>. QED BY <1>1, <1>5, <1>6, <1>7

LEMMA EmitLinks ==
    ASSUME LinkInv, "torn" \notin Faults, NEW p \in Proc, Emit(p)
    PROVE  LinkInv' /\ Kept
  <1>1. Typed'
    BY EmitTyped DEF LinkInv
  <1>2. what[p] = "event" /\ Written(prev[p]) /\ next \in Nat /\ prev[p] \in Nat
    BY DEF LinkInv, LocalSound, Typed, TypeOK
  <1>3. PICK l : l = [kind |-> what[p], cur |-> next, prev |-> prev[p]]
    OBVIOUS
  <1>4. l \in Line /\ Sound(l) /\ l.cur = next
    BY <1>2, <1>3, MadeLines DEF Sound
  <1>5. PICK s \in Lines : s = Flushed(p)
    BY FlushedSound
  <1>6. AllWhole(s) /\ Grown(content[File(p)], s)
        /\ (buf[p] # NoLine => \E j \in DOMAIN s : s[j].cur = buf[p].line.cur)
    BY <1>5, FlushedSound
  <1>7. WriteOk(p, s, l) \/ WriteFails(p, s, l)
    BY <1>3, <1>5 DEF Emit
  <1>8. /\ FilesSound' /\ BufSound'
        /\ \A h : (InFile(h) => InFile(h)') /\ (Written(h) => Written(h)')
        /\ \A h : Safe(h) => Safe(h)'
        /\ \A h : h = l.cur => Safe(h)'
        /\ \A q \in Proc \ {p} : buf'[q] = buf[q]
    BY <1>4, <1>6, <1>7, EntryWritten
  <1>9. acked' = acked \cup {next} /\ Leave(p)
    BY <1>2 DEF Emit, Emitted
  <1>10. LocalSound'
    <2>1. \A q \in Proc \ {p} : stream'[q] = stream[q]
      BY DEF Emit, LinkInv, Typed, TypeOK
    <2>. QED BY <1>8, <1>9, <2>1, LeaveLocal
  <1>11. Kept
    <2>1. ASSUME NEW id \in acked', id \notin acked
          PROVE  Safe(id)'
      <3>1. id = l.cur
        BY <1>4, <1>9, <2>1
      <3>. QED BY <1>8, <3>1
    <2>. QED BY <1>8, <2>1 DEF Kept
  <1>. QED BY <1>1, <1>8, <1>10, <1>11 DEF LinkInv

LEMMA FlushFailsLinks ==
    ASSUME LinkInv, NEW p \in Proc, FlushFails(p)
    PROVE  LinkInv' /\ Kept
  <1>1. Typed'
    BY FlushFailsTyped DEF LinkInv
  <1>2. \A h : (InFile(h) => InFile(h)') /\ (Written(h) => Written(h)')
    BY DEF FlushFails, InFile, Written
  <1>3. LocalSound'
    BY <1>2, LeaveLocal DEF FlushFails
  <1>4. FilesSound' /\ BufSound'
    BY DEF LinkInv, FlushFails, FilesSound, BufSound, Sound, Written, InFile
  <1>5. Kept
    BY <1>2, SafeKept DEF Kept, FlushFails
  <1>. QED BY <1>1, <1>3, <1>4, <1>5 DEF LinkInv

\* The buffer is written, and nothing else: ReadForRotation and Exit.
LEMMA Flushes ==
    ASSUME LinkInv, NEW p \in Proc,
           content' = [content EXCEPT ![File(p)] = Flushed(p)],
           buf' = [buf EXCEPT ![p] = NoLine]
    PROVE  /\ FilesSound' /\ BufSound'
           /\ \A h : (InFile(h) => InFile(h)') /\ (Written(h) => Written(h)')
           /\ \A h : Safe(h) => Safe(h)'
           /\ \A q \in Proc \ {p} : buf'[q] = buf[q]
           /\ buf'[p] = NoLine
  <1>1. PICK s \in Lines : s = Flushed(p)
    BY FlushedSound
  <1>2. Grown(content[File(p)], s)
        /\ (buf[p] # NoLine => \E j \in DOMAIN s : s[j].cur = buf[p].line.cur)
    BY <1>1, FlushedSound
  <1>3. PICK i \in DOMAIN content : i = File(p)
    BY FileType DEF LinkInv
  <1>4. /\ FilesSound'
        /\ \A h : (InFile(h) => InFile(h)') /\ (Written(h) => Written(h)')
        /\ \A j \in DOMAIN s : InFile(s[j].cur)'
    BY <1>1, <1>2, <1>3, ContentGrows
  <1>5. BufSound'
    BY <1>4, BufSoundNext
  <1>6. PICK e : buf[p] # NoLine => e = buf[p].line.cur /\ \E j \in DOMAIN s : s[j].cur = e
    BY <1>2
  <1>7. buf[p] # NoLine => e = buf[p].line.cur /\ InFile(e)'
    BY <1>4, <1>6
  <1>8. \A h : Safe(h) => Safe(h)'
    BY <1>4, <1>7, SafeNext
  <1>9. (\A q \in Proc \ {p} : buf'[q] = buf[q]) /\ buf'[p] = NoLine
    BY DEF LinkInv, Typed, TypeOK
  <1>. QED BY <1>4, <1>5, <1>8, <1>9

LEMMA FitsLinks ==
    ASSUME LinkInv, NEW p \in Proc, Fits(p)
    PROVE  LinkInv' /\ Kept
  <1>1. Typed'
    BY FitsTyped DEF LinkInv
  <1>2. /\ FilesSound' /\ BufSound'
        /\ \A h : (InFile(h) => InFile(h)') /\ (Written(h) => Written(h)')
        /\ \A h : Safe(h) => Safe(h)'
        /\ \A q \in Proc \ {p} : buf'[q] = buf[q]
    BY Flushes DEF Fits
  <1>3. LocalSound'
    <2>1. \A q \in Proc \ {p} :
              /\ what'[q] = what[q] /\ prev'[q] = prev[q] /\ pc'[q] = pc[q]
              /\ stream'[q] = stream[q]
      BY DEF Fits, Goto, LinkInv, Typed, TypeOK
    <2>2. what'[p] = "event" /\ pc'[p] = "write"
      BY DEF Fits, Goto, LinkInv, LocalSound, Typed, TypeOK
    <2>3. PICK h : h = prev[p]
      OBVIOUS
    <2>4. prev'[p] = h /\ Written(h)'
      BY <1>2, <2>3 DEF Fits, LinkInv, LocalSound
    <2>5. Written(prev[p])'
      BY <2>4 DEF Written, InFile
    <2>. QED BY <1>2, <2>1, <2>2, <2>5, LocalSoundNext
  <1>4. Kept
    BY <1>2 DEF Kept, Fits
  <1>. QED BY <1>1, <1>2, <1>3, <1>4 DEF LinkInv

LEMMA RemoveOldestLinks ==
    ASSUME LinkInv, NEW p \in Proc, RemoveOldest(p)
    PROVE  LinkInv' /\ Kept
  <1>1. Typed'
    BY RemoveOldestTyped DEF LinkInv
  <1>2. (FilesSound /\ BufSound /\ LocalSound)'
    BY DEF RemoveOldest, LinkInv, FilesSound, BufSound, LocalSound, Sound, Written, InFile
  <1>3. Kept
    BY DEF RemoveOldest, Kept, Safe, InFile
  <1>. QED BY <1>1, <1>2, <1>3 DEF LinkInv

LEMMA ReadForRotationLinks ==
    ASSUME LinkInv, NEW p \in Proc, ReadForRotation(p)
    PROVE  LinkInv' /\ Kept
  <1>1. Typed'
    BY ReadForRotationTyped DEF LinkInv
  <1>2. /\ FilesSound' /\ BufSound'
        /\ \A h : (InFile(h) => InFile(h)') /\ (Written(h) => Written(h)')
        /\ \A h : Safe(h) => Safe(h)'
        /\ \A q \in Proc \ {p} : buf'[q] = buf[q]
        /\ buf'[p] = NoLine
    BY Flushes DEF ReadForRotation
  <1>3. PICK s : s = content'[Last(names)]
    OBVIOUS
  <1>4. Last(names) \in DOMAIN content' /\ content' \in Seq(Lines)
    <2>1. content \in Seq(Lines) /\ File(p) \in DOMAIN content /\ Flushed(p) \in Lines
          /\ Last(names) \in DOMAIN content
      BY FileType DEF LinkInv
    <2>. QED BY <2>1, ContentExcept DEF ReadForRotation
  <1>5. s \in Lines /\ AllWhole(s)
    <2>1. s \in Lines
      BY <1>3, <1>4, LenProperties, ElementOfSeq
    <2>. QED BY <1>2, <1>3, <1>4, <2>1 DEF FilesSound, Sound, AllWhole
  <1>6. PICK h : h = LastHash(s)
    OBVIOUS
  <1>7. prev'[p] = h
    BY <1>3, <1>6 DEF ReadForRotation, LinkInv, Typed, TypeOK
  <1>8. Written(prev[p])'
    BY <1>3, <1>4, <1>5, <1>6, <1>7, LastInFile DEF Written, InFile
  <1>9. LocalSound'
    <2>1. \A q \in Proc \ {p} :
              /\ what'[q] = what[q] /\ prev'[q] = prev[q] /\ pc'[q] = pc[q]
              /\ stream'[q] = stream[q]
      BY DEF ReadForRotation, Goto, LinkInv, Typed, TypeOK
    <2>2. what'[p] = "event" /\ stream'[p] = File(p)
      BY DEF ReadForRotation, LinkInv, LocalSound, Typed, TypeOK
    <2>3. File(p) # NoFile
      BY FileType, AuditLogAssumption DEF LinkInv
    <2>. QED BY <1>2, <1>8, <2>1, <2>2, <2>3, LocalSoundNext
  <1>10. Kept
    BY <1>2 DEF Kept, ReadForRotation
  <1>. QED BY <1>1, <1>2, <1>9, <1>10 DEF LinkInv

LEMMA RolledLinks ==
    ASSUME LinkInv, NEW p \in Proc,
           Rollover(p) \/ RolloverUnmarked(p)
    PROVE  LinkInv' /\ Kept
  <1>0. Rolled(p)
    BY AreRolled
  <1>1. Typed'
    BY <1>0, RolledTyped DEF LinkInv
  <1>2. /\ DOMAIN content = 1 .. Len(content) /\ Len(content) \in Nat
        /\ DOMAIN content' = 1 .. Len(content) + 1 /\ Len(content') = Len(content) + 1
        /\ \A i \in DOMAIN content : content'[i] = content[i]
        /\ content'[Len(content) + 1] = <<>>
    BY <1>0, FileType, NewFile DEF LinkInv, Rolled, Rename
  <1>3. \A h : (InFile(h) => InFile(h)') /\ (Written(h) => Written(h)')
    BY <1>2 DEF InFile, Written
  <1>4. FilesSound'
    <2>1. ASSUME NEW i \in DOMAIN content', NEW j \in DOMAIN content'[i]
          PROVE  Sound(content[i][j])'
      <3>1. i \in DOMAIN content
        <4>1. i \in DOMAIN content \/ i = Len(content) + 1
          BY <1>2
        <4>2. DOMAIN <<>> = {}
          BY EmptySeq
        <4>. QED BY <1>2, <2>1, <4>1, <4>2
      <3>2. PICK l : l = content[i][j]
        OBVIOUS
      <3>3. content'[i][j] = l /\ Sound(l)
        BY <1>2, <3>1, <3>2 DEF LinkInv, FilesSound
      <3>4. Whole(l) /\ Written(l.prev)'
        BY <1>3, <3>3 DEF Sound
      <3>. QED BY <3>3, <3>4 DEF Sound, Written, InFile
    <2>. QED BY <2>1 DEF FilesSound
  <1>5. BufSound'
    <2>1. ASSUME NEW q \in Proc, buf[q] # NoLine
          PROVE  ~ buf[q].cut /\ Sound(buf[q].line)'
      <3>1. PICK l : l = buf[q].line
        OBVIOUS
      <3>2. Whole(l) /\ Written(l.prev)' /\ ~ buf[q].cut
        BY <1>3, <2>1, <3>1 DEF LinkInv, BufSound, Sound
      <3>3. buf'[q] = buf[q]
        BY <1>0 DEF Rolled, Rename
      <3>. QED BY <3>1, <3>2, <3>3 DEF Sound, Written, InFile
    <2>. QED BY <1>0, <2>1 DEF BufSound, Rolled, Rename
  <1>6. LocalSound'
    <2>1. \A q \in Proc \ {p} :
              /\ what'[q] = what[q] /\ prev'[q] = prev[q] /\ pc'[q] = pc[q]
              /\ buf'[q] = buf[q] /\ stream'[q] = stream[q]
      BY <1>0 DEF Rolled, Rename, LinkInv, Typed, TypeOK
    <2>2. what'[p] = "event" /\ (pc'[p] = "append" \/ (buf'[p] = NoLine /\ stream'[p] # NoFile))
      <3>1. what'[p] = "event" /\ buf'[p] = buf[p] /\ stream'[p] = Len(content')
        BY <1>0 DEF Rolled, Rename, LinkInv, LocalSound, Typed, TypeOK
      <3>2. CASE Rollover(p)
        BY <1>2, <3>1, <3>2, AuditLogAssumption DEF Rollover, LinkInv, LocalSound
      <3>3. CASE RolloverUnmarked(p)
        BY <3>1, <3>3 DEF RolloverUnmarked, Goto, LinkInv, Typed, TypeOK
      <3>. QED BY <3>2, <3>3
    <2>3. PICK h : h = prev[p]
      OBVIOUS
    <2>4. prev'[p] = h /\ Written(h)'
      BY <1>0, <1>3, <2>3 DEF Rolled, Rename, LinkInv, LocalSound
    <2>5. Written(prev[p])'
      BY <2>4 DEF Written, InFile
    <2>. QED BY <1>3, <2>1, <2>2, <2>5, LocalSoundNext
  <1>7. Kept
    BY <1>0, <1>3, SafeKept DEF Kept, Rolled, Rename
  <1>. QED BY <1>1, <1>4, <1>5, <1>6, <1>7 DEF LinkInv

\* The file a process has just rotated into, or is about to.
LEMMA OpenFile ==
    ASSUME LinkInv, NEW p \in Proc, pc[p] \in {"sentinel", "rechain"}
    PROVE  /\ content[stream[p]] \in Lines /\ AllWhole(content[stream[p]])
           /\ Grown(content[File(p)], content[stream[p]])
           /\ buf[p] = NoLine /\ stream[p] # NoFile
  <1>1. stream[p] \in DOMAIN content /\ File(p) = stream[p]
    BY OpenStream DEF LinkInv
  <1>2. content[stream[p]] \in Lines /\ AllWhole(content[stream[p]])
    BY <1>1, TailWritten
  <1>3. Grown(content[File(p)], content[stream[p]])
    BY <1>1 DEF Grown
  <1>. QED BY <1>2, <1>3 DEF LinkInv, LocalSound

LEMMA WriteSentinelLinks ==
    ASSUME LinkInv, "torn" \notin Faults, NEW p \in Proc, WriteSentinel(p)
    PROVE  LinkInv' /\ Kept
  <1>1. Typed'
    BY WriteSentinelTyped DEF LinkInv
  <1>2. what[p] = "event" /\ Written(prev[p]) /\ next \in Nat /\ prev[p] \in Nat
    BY DEF LinkInv, LocalSound, Typed, TypeOK
  <1>3. PICK l : l = [kind |-> "rotation", cur |-> next, prev |-> prev[p]]
    OBVIOUS
  <1>4. l \in Line /\ Sound(l) /\ l.cur = next
    BY <1>2, <1>3, MadeLines DEF Sound
  <1>5. PICK s : s = content[stream[p]]
    OBVIOUS
  <1>6. s \in Lines /\ AllWhole(s) /\ Grown(content[File(p)], s)
        /\ buf[p] = NoLine /\ stream[p] # NoFile
    BY <1>5, OpenFile DEF WriteSentinel
  <1>7. \/ /\ WriteOk(p, s, l) /\ Goto(p, "rechain")
           /\ prev' = [prev EXCEPT ![p] = next]
           /\ UNCHANGED <<what, hash>>
        \/ WriteFails(p, s, l) /\ Leave(p)
    BY <1>3, <1>5 DEF WriteSentinel
  <1>8. /\ FilesSound' /\ BufSound'
        /\ \A h : (InFile(h) => InFile(h)') /\ (Written(h) => Written(h)')
        /\ \A h : Safe(h) => Safe(h)'
        /\ \A q \in Proc \ {p} : buf'[q] = buf[q]
    BY <1>4, <1>6, <1>7, EntryWritten
  <1>9. LocalSound'
    <2>1. CASE WriteFails(p, s, l) /\ Leave(p)
      BY <1>8, <2>1, LeaveLocal DEF WriteSentinel
    <2>2. CASE /\ WriteOk(p, s, l) /\ Goto(p, "rechain")
               /\ prev' = [prev EXCEPT ![p] = next]
               /\ UNCHANGED <<what, hash>>
      <3>1. InFile(l.cur)' /\ buf' = [buf EXCEPT ![p] = NoLine]
        BY <1>4, <1>6, <2>2, WriteSound
      <3>2. prev'[p] = l.cur
        BY <1>4, <2>2 DEF LinkInv, Typed, TypeOK
      <3>3. Written(prev[p])'
        BY <3>1, <3>2 DEF Written, InFile
      <3>4. \A q \in Proc \ {p} :
              /\ what'[q] = what[q] /\ prev'[q] = prev[q] /\ pc'[q] = pc[q]
              /\ stream'[q] = stream[q]
        BY <2>2 DEF WriteSentinel, Goto, LinkInv, Typed, TypeOK
      <3>5. what'[p] = "event" /\ buf'[p] = NoLine /\ stream'[p] # NoFile
        BY <1>2, <1>6, <2>2, <3>1 DEF WriteSentinel, LinkInv, Typed, TypeOK
      <3>. QED BY <1>8, <3>3, <3>4, <3>5, LocalSoundNext
    <2>. QED BY <1>7, <2>1, <2>2
  <1>10. Kept
    BY <1>8 DEF Kept, WriteSentinel
  <1>. QED BY <1>1, <1>8, <1>9, <1>10 DEF LinkInv

LEMMA WriteRechainedLinks ==
    ASSUME LinkInv, "torn" \notin Faults, NEW p \in Proc, WriteRechained(p)
    PROVE  LinkInv' /\ Kept
  <1>1. Typed'
    BY WriteRechainedTyped DEF LinkInv
  <1>2. what[p] = "event" /\ Written(prev[p]) /\ next \in Nat /\ prev[p] \in Nat
    BY DEF LinkInv, LocalSound, Typed, TypeOK
  <1>3. PICK l : l = [kind |-> what[p], cur |-> next, prev |-> prev[p]]
    OBVIOUS
  <1>4. l \in Line /\ Sound(l) /\ l.cur = next
    BY <1>2, <1>3, MadeLines DEF Sound
  <1>5. PICK s : s = content[stream[p]]
    OBVIOUS
  <1>6. s \in Lines /\ AllWhole(s) /\ Grown(content[File(p)], s)
        /\ buf[p] = NoLine /\ stream[p] # NoFile
    BY <1>5, OpenFile DEF WriteRechained
  <1>7. WriteOk(p, s, l) \/ WriteFails(p, s, l)
    BY <1>3, <1>5 DEF WriteRechained
  <1>8. /\ FilesSound' /\ BufSound'
        /\ \A h : (InFile(h) => InFile(h)') /\ (Written(h) => Written(h)')
        /\ \A h : Safe(h) => Safe(h)'
        /\ \A h : h = l.cur => Safe(h)'
        /\ \A q \in Proc \ {p} : buf'[q] = buf[q]
    BY <1>4, <1>6, <1>7, EntryWritten
  <1>9. acked' = acked \cup {next} /\ Leave(p)
    BY <1>2 DEF WriteRechained, Emitted
  <1>10. LocalSound'
    BY <1>8, <1>9, LeaveLocal DEF WriteRechained
  <1>11. Kept
    <2>1. ASSUME NEW id \in acked', id \notin acked
          PROVE  Safe(id)'
      <3>1. id = l.cur
        BY <1>4, <1>9, <2>1
      <3>. QED BY <1>8, <3>1
    <2>. QED BY <1>8, <2>1 DEF Kept
  <1>. QED BY <1>1, <1>8, <1>10, <1>11 DEF LinkInv

LEMMA ExitLinks ==
    ASSUME LinkInv, NEW p \in Proc, Exit(p)
    PROVE  LinkInv' /\ Kept
  <1>1. Typed'
    BY ExitTyped DEF LinkInv
  <1>2. content' = [content EXCEPT ![File(p)] = Flushed(p)]
        /\ buf' = [buf EXCEPT ![p] = NoLine] /\ Leave(p) /\ acked' = acked
    BY DEF Exit, Close, File
  <1>3. /\ FilesSound' /\ BufSound'
        /\ \A h : (InFile(h) => InFile(h)') /\ (Written(h) => Written(h)')
        /\ \A h : Safe(h) => Safe(h)'
        /\ \A q \in Proc \ {p} : buf'[q] = buf[q]
    BY <1>2, Flushes
  <1>4. \A q \in Proc \ {p} : stream'[q] = stream[q]
    BY DEF Exit, Close, LinkInv, Typed, TypeOK
  <1>5. LocalSound'
    BY <1>2, <1>3, <1>4, LeaveLocal
  <1>. QED BY <1>1, <1>2, <1>3, <1>5 DEF LinkInv, Kept

LEMMA KillLinks ==
    ASSUME LinkInv, NEW p \in Proc, Kill(p)
    PROVE  LinkInv' /\ (buf[p] = NoLine => Kept)
  <1>1. Typed'
    BY KillTyped DEF LinkInv
  <1>2. \A h : (InFile(h) => InFile(h)') /\ (Written(h) => Written(h)')
    BY DEF Kill, InFile, Written
  <1>3. FilesSound'
    BY DEF LinkInv, Kill, FilesSound, Sound, Written, InFile
  <1>4. buf' = [buf EXCEPT ![p] = NoLine] /\ Leave(p) /\ acked' = acked
    BY DEF Kill, Close
  <1>5. BufSound'
    BY <1>2, <1>4, BufSoundNext
  <1>6. \A q \in Proc \ {p} : buf'[q] = buf[q] /\ stream'[q] = stream[q]
    BY DEF Kill, Close, LinkInv, Typed, TypeOK
  <1>7. LocalSound'
    BY <1>2, <1>4, <1>6, LeaveLocal
  <1>8. ASSUME buf[p] = NoLine
        PROVE  Kept
    <2>1. buf' = buf
      BY <1>4, <1>8 DEF LinkInv, Typed, TypeOK
    <2>. QED BY <1>2, <1>4, <2>1, SafeKept DEF Kept
  <1>. QED BY <1>1, <1>3, <1>5, <1>7, <1>8 DEF LinkInv

LEMMA NextLinks ==
    ASSUME LinkInv, "torn" \notin Faults, [Next]_vars
    PROVE  LinkInv' /\ (Kept \/ \E p \in Proc : Kill(p) /\ buf[p] # NoLine)
  <1>1. CASE UNCHANGED vars
    <2>1. LinkInv'
      BY <1>1 DEF vars, LinkInv, Typed, TypeOK, Open, FilesSound, BufSound, LocalSound,
         Sound, Written, InFile
    <2>2. Kept
      BY <1>1 DEF vars, Kept, Safe, InFile
    <2>. QED BY <2>1, <2>2
  <1>2. ASSUME NEW p \in Proc, Step(p)
        PROVE  LinkInv' /\ (Kept \/ (Kill(p) /\ buf[p] # NoLine))
    BY <1>2, ReadTailLinks, FitsLinks, EmitLinks, FlushFailsLinks, ReadForRotationLinks,
       RemoveOldestLinks, RolledLinks, WriteSentinelLinks, WriteRechainedLinks, ExitLinks, KillLinks
       DEF Step
  <1>. QED BY <1>1, <1>2 DEF Next

\* What LinkInv says of the lines, wherever they are.
LEMMA InAllLines ==
    ASSUME LinkInv
    PROVE  /\ \A l \in AllLines : Sound(l)
           /\ \A h : InFile(h) <=> \E k \in AllLines : k.cur = h
  <1>1. \A l : l \in AllLines <=>
           \E i \in DOMAIN content : \E j \in DOMAIN content[i] : l = content[i][j]
    BY DEF AllLines, Range
  <1>. QED BY <1>1 DEF LinkInv, FilesSound, InFile

\* Processes that log at the same time, fail to write, are killed and rotate
\* the log under one another can fork the chain, but every entry points to
\* GENESIS or to an entry that was written, as long as no line is cut short.
THEOREM LinksKept ==
    ASSUME "torn" \notin Faults
    PROVE  Spec => []NoDanglingLink
  <1>1. Init => LinkInv
    BY InitLinks
  <1>2. LinkInv /\ [Next]_vars => LinkInv'
    BY NextLinks
  <1>3. LinkInv => NoDanglingLink
    BY InAllLines DEF NoDanglingLink, Sound, Written
  <1>. QED BY <1>1, <1>2, <1>3, PTL DEF Spec

-----------------------------------------------------------------------------
(* Events *)

\* Without failing writes, nothing is ever left in a buffer.
Unbuffered == "fail" \notin Faults => \A p \in Proc : buf[p] = NoLine
EventInv == LinkInv /\ Unbuffered /\ \A id \in acked : Safe(id)

LEMMA NextUnbuffered ==
    ASSUME LinkInv, Unbuffered, "torn" \notin Faults, [Next]_vars
    PROVE  Unbuffered'
  <1> SUFFICES ASSUME "fail" \notin Faults, \A p \in Proc : buf[p] = NoLine,
                      NEW q \in Proc
               PROVE  buf'[q] = NoLine
    BY DEF Unbuffered
  <1>1. buf \in [Proc -> Pending \cup {NoLine}]
    BY DEF LinkInv, Typed, TypeOK
  <1>2. \A p \in Proc : \A s, l : ~ WriteFails(p, s, l)
    BY DEF WriteFails
  <1>3. CASE UNCHANGED vars
    BY <1>3 DEF vars
  <1>4. ASSUME NEW p \in Proc, Step(p)
        PROVE  buf' = buf \/ buf' = [buf EXCEPT ![p] = NoLine]
    BY <1>2, <1>4, Zenon DEF Step, ReadTail, Fits, Emit, FlushFails, ReadForRotation,
       RemoveOldest, Rollover, RolloverUnmarked, Rename, WriteSentinel, WriteRechained, Exit, Kill, Close, WriteOk
  <1>. QED BY <1>1, <1>3, <1>4 DEF Next

LEMMA InitEvents == Init => EventInv
  BY InitLinks DEF Init, EventInv, Unbuffered

LEMMA NextEvents ==
    ASSUME "torn" \notin Faults, "kill" \notin Faults \/ "fail" \notin Faults,
           EventInv, [Next]_vars
    PROVE  EventInv'
  <1>1. LinkInv' /\ (Kept \/ \E p \in Proc : Kill(p) /\ buf[p] # NoLine)
    BY NextLinks DEF EventInv
  <1>2. Unbuffered'
    BY NextUnbuffered DEF EventInv
  <1>3. Kept
    BY <1>1 DEF EventInv, Unbuffered, Kill
  <1>4. ASSUME NEW id \in acked'
        PROVE  Safe(id)'
    BY <1>3 DEF Kept, EventInv
  <1>. QED BY <1>1, <1>2, <1>4 DEF EventInv

\* As long as no line is cut short, and writes do not fail in a process that
\* is killed afterwards, every event that log_event() acknowledged is in a
\* file, a deleted backup perhaps, or in the buffer of a running process.
THEOREM EventsKept ==
    ASSUME "torn" \notin Faults, "kill" \notin Faults \/ "fail" \notin Faults
    PROVE  Spec => []NothingForgotten
  <1>1. Init => EventInv
    BY InitEvents
  <1>2. EventInv /\ [Next]_vars => EventInv'
    BY NextEvents
  <1>3. EventInv => NothingForgotten
    BY InAllLines DEF EventInv, NothingForgotten, Safe, Sound
  <1>. QED BY <1>1, <1>2, <1>3, PTL DEF Spec

-----------------------------------------------------------------------------
(* One process, killed anywhere: the files form one chain.                 *)

\* Every file is linked, only the newest can be empty, and a file continues
\* the one before it or starts again.
ChainLines ==
    /\ \A i \in 1 .. Len(content) : Linked(content[i])
    /\ \A i \in 1 .. Len(content) - 1 : content[i] # <<>>
    /\ \A i \in 2 .. Len(content) :
          content[i] # <<>> => content[i][1].prev \in {Genesis, Last(content[i - 1]).cur}

\* The newest files have a name.
NamesInv == \A k \in 1 .. Len(names) : names[k] = Len(content) - Len(names) + k

\* No two lines share a hash, and none has that of the next line.
HashesUnique ==
    /\ \A i \in 1 .. Len(content) : \A j \in 1 .. Len(content[i]) :
          content[i][j].cur \in 1 .. next - 1
    /\ \A i, k \in 1 .. Len(content) : \A j \in 1 .. Len(content[i]), m \in 1 .. Len(content[k]) :
          content[i][j].cur = content[k][m].cur => i = k /\ j = m

\* What the process is about to write continues the log.
PlaceInv(p) ==
    LET log == content[Len(content)] IN
    /\ stream[p] \in {NoFile, Len(content)}
    /\ pc[p] \in {"emit", "write", "rollover"} => prev[p] = LastHash(log)
    /\ pc[p] = "write" => ~ Len(log) + 1 > Capacity
    /\ pc[p] # "append"
    /\ pc[p] = "rollover" => log # <<>>
    /\ pc[p] = "sentinel" =>
          log = <<>> /\ Len(content) > 1 /\ prev[p] = Last(content[Len(content) - 1]).cur
    /\ pc[p] = "rechain" => log # <<>> /\ prev[p] = Last(log).cur

ChainInv(p) ==
    LinkInv /\ Unbuffered /\ ChainLines /\ NamesInv /\ HashesUnique /\ next >= 1 /\ PlaceInv(p)

LEMMA InitChain == Init => \A p \in Proc : ChainInv(p)
  <1> SUFFICES ASSUME Init, NEW p \in Proc
               PROVE  ChainInv(p)
    OBVIOUS
  <1>1. /\ Len(content) = 1 /\ content[1] = <<>> /\ Len(names) = 1 /\ names[1] = 1
        /\ next = 1 /\ pc[p] = "idle" /\ stream[p] = NoFile
    BY DEF Init
  <1>2. LinkInv /\ Unbuffered
    BY InitLinks DEF Init, Unbuffered
  <1>3. Len(<<>>) = 0 /\ DOMAIN <<>> = {}
    BY EmptySeq
  <1>4. ChainLines
    <2>1. Linked(content[1])
      BY <1>1, <1>3 DEF Linked
    <2>. QED BY <1>1, <2>1 DEF ChainLines
  <1>5. NamesInv
    BY <1>1 DEF NamesInv
  <1>6. HashesUnique
    BY <1>1, <1>3 DEF HashesUnique
  <1>. QED BY <1>1, <1>2, <1>4, <1>5, <1>6 DEF ChainInv, PlaceInv

\* The log is the newest file, and the process writes to it.
LEMMA Newest ==
    ASSUME NEW p \in Proc, ChainInv(p), Faults \subseteq {"kill"}
    PROVE  /\ Len(content) \in Nat \ {0} /\ DOMAIN content = 1 .. Len(content)
           /\ content \in Seq(Lines)
           /\ Last(names) = Len(content) /\ Log = content[Len(content)]
           /\ File(p) = Len(content) /\ Flushed(p) = Log
           /\ Log \in Lines /\ AllWhole(Log)
           /\ buf[p] = NoLine
           /\ "torn" \notin Faults /\ "fail" \notin Faults
           /\ \A s, l : ~ WriteFails(p, s, l)
  <1>0. "torn" \notin Faults /\ "fail" \notin Faults
    OBVIOUS
  <1>1. /\ content \in Seq(Lines) /\ Len(content) \in Nat
        /\ DOMAIN content = 1 .. Len(content)
        /\ Len(names) \in Nat \ {0} /\ Last(names) = names[Len(names)]
        /\ Last(names) \in DOMAIN content
    BY FileType DEF ChainInv, LinkInv
  <1>2. Last(names) = Len(content)
    BY <1>1 DEF ChainInv, NamesInv
  <1>3. File(p) = Len(content)
    BY <1>2 DEF File, ChainInv, PlaceInv
  <1>4. buf[p] = NoLine
    BY <1>0 DEF ChainInv, Unbuffered
  <1>5. Flushed(p) = Log /\ Log = content[Len(content)]
    BY <1>2, <1>3, <1>4 DEF Flushed, Log
  <1>6. Log \in Lines /\ AllWhole(Log)
    BY <1>1, <1>2, TailWritten DEF ChainInv, Log
  <1>7. \A s, l : ~ WriteFails(p, s, l)
    BY <1>0 DEF WriteFails
  <1>. QED BY <1>0, <1>1, <1>2, <1>3, <1>4, <1>5, <1>6, <1>7

\* A line that continues the log.
LEMMA LinkAppended ==
    ASSUME NEW s \in Lines, Linked(s), NEW l \in Line, Whole(l),
           s # <<>> => l.prev = Last(s).cur
    PROVE  Linked(Append(s, l)) /\ Append(s, l) # <<>> /\ Last(Append(s, l)) = l
           /\ Append(s, l)[1] = IF s = <<>> THEN l ELSE s[1]
  <1>1. /\ Append(s, l) \in Lines
        /\ Len(Append(s, l)) = Len(s) + 1
        /\ \A j \in 1 .. Len(s) : Append(s, l)[j] = s[j]
        /\ Append(s, l)[Len(s) + 1] = l
        /\ Append(s, l) # <<>>
        /\ Len(s) \in Nat /\ DOMAIN s = 1 .. Len(s)
        /\ DOMAIN Append(s, l) = 1 .. Len(s) + 1
    BY AppendLine
  <1>2. /\ s # <<>> <=> Len(s) >= 1
        /\ Last(s) = s[Len(s)]
    BY LastLine
  <1>3. PICK t : t = Append(s, l)
    OBVIOUS
  <1>4. \A j \in 1 .. Len(s) + 1 : Whole(t[j])
    <2>1. \A j \in 1 .. Len(s) + 1 : j \in 1 .. Len(s) \/ j = Len(s) + 1
      BY <1>1
    <2>. QED BY <1>1, <1>3, <2>1 DEF Linked
  <1>5. \A j \in 2 .. Len(s) + 1 : t[j].prev = t[j - 1].cur
    <2> SUFFICES ASSUME NEW j \in 2 .. Len(s) + 1
                 PROVE  t[j].prev = t[j - 1].cur
      OBVIOUS
    <2>1. j - 1 \in 1 .. Len(s) /\ t[j - 1] = s[j - 1]
      BY <1>1, <1>3
    <2>2. CASE j = Len(s) + 1
      BY <1>1, <1>2, <1>3, <2>1, <2>2
    <2>3. CASE j # Len(s) + 1
      <3>1. j \in 2 .. Len(s) /\ j \in 1 .. Len(s)
        BY <1>1, <2>3
      <3>. QED BY <1>1, <1>3, <2>1, <3>1 DEF Linked
    <2>. QED BY <2>2, <2>3
  <1>6. Linked(t)
    BY <1>1, <1>3, <1>4, <1>5 DEF Linked
  <1>7. t[1] = IF s = <<>> THEN l ELSE s[1]
    BY <1>1, <1>2, <1>3
  <1>8. Last(t) = l
    BY <1>1, <1>3 DEF Last
  <1>. QED BY <1>1, <1>3, <1>6, <1>7, <1>8

LEMMA LogGrows ==
    ASSUME NEW p \in Proc, ChainInv(p), Faults \subseteq {"kill"},
           NEW l \in Line, Whole(l), l.cur = next,
           Log # <<>> => l.prev = Last(Log).cur,
           Log = <<>> /\ Len(content) > 1 =>
              l.prev \in {Genesis, Last(content[Len(content) - 1]).cur},
           content' = [content EXCEPT ![Len(content)] = Append(Log, l)],
           next' = next + 1, names' = names
    PROVE  /\ ChainLines' /\ NamesInv' /\ HashesUnique' /\ next' >= 1
           /\ Len(content') = Len(content)
           /\ content'[Len(content)] # <<>> /\ Last(content'[Len(content)]) = l
  <1>0. PICK N : N = Len(content)
    OBVIOUS
  <1>1. /\ N \in Nat \ {0} /\ DOMAIN content = 1 .. N /\ content \in Seq(Lines)
        /\ Log = content[N] /\ Log \in Lines
    BY <1>0, Newest
  <1>2. ChainLines /\ NamesInv /\ HashesUnique /\ next \in Nat /\ next >= 1
    BY DEF ChainInv, LinkInv, Typed, TypeOK
  <1>3. PICK t \in Lines : t = Append(Log, l)
    BY <1>1, AppendLine
  <1>4. /\ Len(content') = N
        /\ \A i \in 1 .. N : content'[i] = IF i = N THEN t ELSE content[i]
    <2>1. N \in DOMAIN content
      BY <1>1
    <2>. QED BY <1>0, <1>1, <1>3, <2>1, ContentExcept
  <1>4a. N \in Nat \ {0}
    BY <1>1
  <1>4b. content'[N] = t /\ \A i \in 1 .. N - 1 : content'[i] = content[i]
    <2>1. N \in 1 .. N /\ \A i \in 1 .. N - 1 : i \in 1 .. N /\ i # N
      BY <1>4a
    <2>. QED BY <1>4, <2>1, Zenon
  <1>5. Linked(Log)
    BY <1>1, <1>2 DEF ChainLines
  <1>6. Linked(t) /\ t # <<>> /\ Last(t) = l /\ t[1] = IF Log = <<>> THEN l ELSE Log[1]
    BY <1>1, <1>3, <1>5, LinkAppended
  <1>7. /\ Len(t) = Len(Log) + 1 /\ Len(Log) \in Nat
        /\ \A j \in 1 .. Len(Log) : t[j] = Log[j]
        /\ t[Len(Log) + 1] = l
    BY <1>1, <1>3, AppendLine
  <1>8. ChainLines'
    <2>1. \A i \in 1 .. N : Linked(content'[i])
      BY <1>0, <1>1, <1>2, <1>4, <1>6 DEF ChainLines
    <2>2. \A i \in 1 .. N - 1 : content'[i] # <<>>
      BY <1>0, <1>2, <1>4b DEF ChainLines
    <2>3. ASSUME NEW i \in 2 .. N, content'[i] # <<>>
          PROVE  content'[i][1].prev \in {Genesis, Last(content'[i - 1]).cur}
      <3>1. content'[i - 1] = content[i - 1]
        BY <1>1, <1>4
      <3>2. CASE i # N
        <4>1. content'[i] = content[i]
          BY <1>1, <1>4, <3>2
        <4>. QED BY <1>0, <1>2, <2>3, <3>1, <4>1 DEF ChainLines
      <3>3. CASE i = N /\ Log # <<>>
        <4>1. content'[i] = t /\ t[1] = content[i][1] /\ content[i] # <<>>
          BY <1>1, <1>4b, <1>6, <3>3
        <4>. QED BY <1>0, <1>2, <3>1, <4>1 DEF ChainLines
      <3>4. CASE i = N /\ Log = <<>>
        <4>1. content'[i] = t /\ t[1] = l /\ N > 1
          BY <1>1, <1>4b, <1>6, <3>4
        <4>2. l.prev \in {Genesis, Last(content[i - 1]).cur}
          BY <1>0, <3>4, <4>1
        <4>. QED BY <3>1, <4>1, <4>2
      <3>. QED BY <3>2, <3>3, <3>4
    <2>. QED BY <1>4, <2>1, <2>2, <2>3 DEF ChainLines
  <1>9. NamesInv'
    BY <1>0, <1>2, <1>4 DEF NamesInv
  <1>10. HashesUnique'
    <2>1. ASSUME NEW i \in 1 .. N, NEW j \in 1 .. Len(content'[i])
          PROVE  \/ /\ i = N /\ j = Len(Log) + 1 /\ content'[i][j].cur = next
                 \/ /\ j \in 1 .. Len(content[i]) /\ content'[i][j] = content[i][j]
                    /\ content[i][j].cur \in 1 .. next - 1
      <3>1. CASE i # N
        BY <1>0, <1>1, <1>2, <1>4, <2>1, <3>1 DEF HashesUnique
      <3>2. CASE i = N
        <4>1. content'[i] = t /\ content[i] = Log
          BY <1>1, <1>4, <3>2
        <4>2. j = Len(Log) + 1 \/ j \in 1 .. Len(Log)
          BY <1>7, <4>1
        <4>. QED BY <1>0, <1>1, <1>2, <1>7, <3>2, <4>1, <4>2 DEF HashesUnique
      <3>. QED BY <3>1, <3>2
    <2>2. ASSUME NEW i \in 1 .. N, NEW j \in 1 .. Len(content'[i])
          PROVE  content'[i][j].cur \in 1 .. next' - 1
      BY <1>2, <2>1
    <2>3. ASSUME NEW i \in 1 .. N, NEW k \in 1 .. N, NEW j \in 1 .. Len(content'[i]),
                 NEW m \in 1 .. Len(content'[k]), content'[i][j].cur = content'[k][m].cur
          PROVE  i = k /\ j = m
      <3>1. \/ /\ i = N /\ j = Len(Log) + 1 /\ content'[i][j].cur = next
            \/ /\ j \in 1 .. Len(content[i]) /\ content'[i][j] = content[i][j]
               /\ content[i][j].cur \in 1 .. next - 1
        BY <2>1
      <3>2. \/ /\ k = N /\ m = Len(Log) + 1 /\ content'[k][m].cur = next
            \/ /\ m \in 1 .. Len(content[k]) /\ content'[k][m] = content[k][m]
               /\ content[k][m].cur \in 1 .. next - 1
        BY <2>1
      <3>3. CASE /\ j \in 1 .. Len(content[i]) /\ content'[i][j] = content[i][j]
                 /\ m \in 1 .. Len(content[k]) /\ content'[k][m] = content[k][m]
        <4>1. content[i][j].cur = content[k][m].cur
          BY <2>3, <3>3
        <4>. QED BY <1>0, <1>2, <3>3, <4>1 DEF HashesUnique
      <3>4. ASSUME NEW a, NEW b, a = next, b \in 1 .. next - 1
            PROVE  a # b
        BY <1>2, <3>4
      <3>. QED BY <2>3, <3>1, <3>2, <3>3, <3>4
    <2>4. Len(content') = N
      BY <1>4
    <2>5. \A i \in 1 .. Len(content') : \A j \in 1 .. Len(content'[i]) :
             content'[i][j].cur \in 1 .. next' - 1
      BY <2>2, <2>4, Zenon
    <2>6. \A i, k \in 1 .. Len(content') :
             \A j \in 1 .. Len(content'[i]), m \in 1 .. Len(content'[k]) :
                content'[i][j].cur = content'[k][m].cur => i = k /\ j = m
      BY <2>3, <2>4, Zenon
    <2>. QED BY <2>5, <2>6, Zenon DEF HashesUnique
  <1>. QED BY <1>0, <1>2, <1>4, <1>6, <1>8, <1>9, <1>10, <1>4b

LEMMA LinesSame ==
    ASSUME NEW p \in Proc, ChainInv(p), content' = content, names' = names,
           next' \in {next, next + 1}
    PROVE  ChainLines' /\ NamesInv' /\ HashesUnique' /\ next' >= 1
  <1>1. ChainLines' /\ NamesInv'
    BY DEF ChainInv, ChainLines, NamesInv
  <1>2. next \in Nat /\ next >= 1 /\ HashesUnique
    BY DEF ChainInv, LinkInv, Typed, TypeOK
  <1>3. HashesUnique'
    <2>1. ASSUME NEW h \in 1 .. next - 1
          PROVE  h \in 1 .. next' - 1
      <3>1. next \in Nat /\ h \in Nat /\ 1 <= h /\ h <= next - 1
        BY <1>2
      <3>2. CASE next' = next
        BY <3>1, <3>2
      <3>3. CASE next' = next + 1
        BY <3>1, <3>3
      <3>. QED BY <3>2, <3>3
    <2>2. \A i \in 1 .. Len(content) : \A j \in 1 .. Len(content[i]) :
             content[i][j].cur \in 1 .. next' - 1
      BY <1>2, <2>1, Zenon DEF HashesUnique
    <2>3. \A i, k \in 1 .. Len(content) :
             \A j \in 1 .. Len(content[i]), m \in 1 .. Len(content[k]) :
                content[i][j].cur = content[k][m].cur => i = k /\ j = m
      BY <1>2, Zenon DEF HashesUnique
    <2>4. content' = content
      OBVIOUS
    <2>. QED BY <2>2, <2>3, <2>4 DEF HashesUnique
  <1>. QED BY <1>1, <1>2, <1>3

\* Flushing an empty buffer changes nothing.
LEMMA FlushSame ==
    ASSUME NEW p \in Proc, ChainInv(p), Faults \subseteq {"kill"},
           content' = [content EXCEPT ![File(p)] = Flushed(p)]
    PROVE  content' = content
  <1>1. /\ content \in Seq(Lines) /\ File(p) = Len(content) /\ Flushed(p) = content[Len(content)]
        /\ Len(content) \in Nat \ {0}
    BY Newest
  <1>2. content \in [1 .. Len(content) -> Lines]
    BY <1>1, LenProperties
  <1>. QED BY <1>1, <1>2

\* Between two calls of log_event nothing is expected of the files.
LEMMA IdlePlace ==
    ASSUME NEW p \in Proc, ChainInv(p), Leave(p),
           Len(content') = Len(content), stream'[p] \in {NoFile, Len(content)}
    PROVE  PlaceInv(p)'
  <1>1. pc'[p] = "idle"
    BY DEF Leave, Goto, ChainInv, LinkInv, Typed, TypeOK
  <1>. QED BY <1>1 DEF PlaceInv

ChainRest(p) == ChainLines /\ NamesInv /\ HashesUnique /\ next >= 1 /\ PlaceInv(p)

LEMMA ReadTailChain ==
    ASSUME NEW p \in Proc, ChainInv(p), Faults \subseteq {"kill"}, ReadTail(p)
    PROVE  ChainRest(p)'
  <1>1. ChainLines' /\ NamesInv' /\ HashesUnique' /\ next' >= 1
    BY LinesSame DEF ReadTail
  <1>2. pc'[p] = "emit" /\ prev'[p] = LastHash(Log)
    BY DEF ReadTail, Goto, ChainInv, LinkInv, Typed, TypeOK
  <1>3. Log = content[Len(content)] /\ content' = content /\ stream' = stream
    BY Newest DEF ReadTail
  <1>4. PlaceInv(p)'
    BY <1>2, <1>3 DEF PlaceInv, ChainInv
  <1>. QED BY <1>1, <1>4 DEF ChainRest

\* Nobody else writes: what fitted still fits.
LEMMA NotOutgrown ==
    ASSUME NEW p \in Proc, ChainInv(p), Faults \subseteq {"kill"}
    PROVE  ~ Outgrown(p) /\ ~ RolloverUnmarked(p)
  <1>1. Flushed(p) = content[Len(content)]
    BY Newest
  <1>2. ~ Outgrown(p)
    BY <1>1 DEF Outgrown, ShouldRollover, ChainInv, PlaceInv
  <1>. QED BY <1>2 DEF RolloverUnmarked

LEMMA FitsChain ==
    ASSUME NEW p \in Proc, ChainInv(p), Faults \subseteq {"kill"}, Fits(p)
    PROVE  ChainRest(p)'
  <1>1. content' = content
    BY FlushSame DEF Fits
  <1>2. ChainLines' /\ NamesInv' /\ HashesUnique' /\ next' >= 1
    BY <1>1, LinesSame DEF Fits
  <1>3. Log = content[Len(content)] /\ Flushed(p) = Log /\ File(p) = Len(content)
    BY Newest
  <1>4. ~ Len(Log) + 1 > Capacity /\ prev[p] = LastHash(Log)
    BY <1>3 DEF Fits, ShouldRollover, ChainInv, PlaceInv
  <1>5. /\ pc'[p] = "write" /\ prev'[p] = prev[p] /\ stream'[p] = Len(content)
    BY <1>3 DEF Fits, Goto, ChainInv, LinkInv, Typed, TypeOK
  <1>6. PlaceInv(p)'
    BY <1>1, <1>3, <1>4, <1>5 DEF PlaceInv
  <1>. QED BY <1>2, <1>6 DEF ChainRest

LEMMA RemoveOldestChain ==
    ASSUME NEW p \in Proc, ChainInv(p), RemoveOldest(p)
    PROVE  ChainRest(p)'
  <1>1. (ChainLines /\ HashesUnique /\ next >= 1 /\ PlaceInv(p))'
    BY DEF RemoveOldest, ChainInv, ChainLines, HashesUnique, PlaceInv
  <1>2. /\ Len(names') = Len(names) - 1 /\ Len(names) \in Nat
        /\ \A i \in 1 .. Len(names) - 1 : names'[i] = names[i + 1]
    BY OneLess DEF ChainInv, LinkInv
  <1>3. PICK N \in Nat : N = Len(content)
    BY FileType DEF ChainInv, LinkInv
  <1>4. ASSUME NEW k \in 1 .. Len(names')
        PROVE  names'[k] = N - Len(names') + k
    <2>1. k \in 1 .. Len(names) - 1 /\ k + 1 \in 1 .. Len(names)
      BY <1>2
    <2>2. names'[k] = N - Len(names) + (k + 1)
      BY <1>2, <1>3, <2>1 DEF ChainInv, NamesInv
    <2>. QED BY <1>2, <1>3, <2>2
  <1>5. NamesInv'
    BY <1>3, <1>4 DEF NamesInv, RemoveOldest
  <1>. QED BY <1>1, <1>5 DEF ChainRest

LEMMA EmitChain ==
    ASSUME NEW p \in Proc, ChainInv(p), Faults \subseteq {"kill"}, Emit(p)
    PROVE  ChainRest(p)'
  <1>1. /\ what[p] = "event" /\ next \in Nat /\ prev[p] \in Nat
        /\ prev[p] = LastHash(Log) /\ Log \in Lines /\ AllWhole(Log)
        /\ Flushed(p) = Log /\ File(p) = Len(content)
    <2>1. /\ Log = content[Len(content)] /\ Flushed(p) = Log /\ File(p) = Len(content)
          /\ Log \in Lines /\ AllWhole(Log)
      BY Newest
    <2>2. prev[p] = LastHash(Log)
      BY <2>1 DEF Emit, ChainInv, PlaceInv
    <2>. QED BY <2>1, <2>2 DEF ChainInv, LinkInv, LocalSound, Typed, TypeOK
  <1>2. PICK l : l = [kind |-> what[p], cur |-> next, prev |-> prev[p]]
    OBVIOUS
  <1>3. l \in Line /\ Whole(l) /\ l.cur = next /\ l.prev = prev[p]
    BY <1>1, <1>2, MadeLines
  <1>4. WriteOk(p, Log, l)
    <2>1. WriteOk(p, Flushed(p), l) \/ WriteFails(p, Flushed(p), l)
      BY <1>2 DEF Emit
    <2>. QED BY <1>1, <2>1, Newest
  <1>5. content' = [content EXCEPT ![Len(content)] = Append(Log, l)]
    BY <1>1, <1>3, <1>4, AppendWhole DEF WriteOk
  <1>6. LastHash(Log) = IF Log = <<>> THEN Genesis ELSE Last(Log).cur
    BY <1>1, WholeTail
  <1>7. next' = next + 1 /\ names' = names
    BY DEF Emit
  <1>8. /\ ChainLines' /\ NamesInv' /\ HashesUnique' /\ next' >= 1
        /\ Len(content') = Len(content)
    <2>1. Log # <<>> => l.prev = Last(Log).cur
      BY <1>1, <1>3, <1>6
    <2>2. Log = <<>> /\ Len(content) > 1 =>
             l.prev \in {Genesis, Last(content[Len(content) - 1]).cur}
      BY <1>1, <1>3, <1>6
    <2>. QED BY <1>3, <1>5, <1>7, <2>1, <2>2, LogGrows
  <1>9. PlaceInv(p)'
    <2>1. Leave(p)
      BY <1>1 DEF Emit, Emitted
    <2>2. stream'[p] \in {NoFile, Len(content)}
      BY DEF Emit, ChainInv, PlaceInv
    <2>. QED BY <1>8, <2>1, <2>2, IdlePlace
  <1>. QED BY <1>8, <1>9 DEF ChainRest

LEMMA ReadForRotationChain ==
    ASSUME NEW p \in Proc, ChainInv(p), Faults \subseteq {"kill"}, ReadForRotation(p)
    PROVE  ChainRest(p)'
  <1>1. content' = content
    BY FlushSame DEF ReadForRotation
  <1>2. ChainLines' /\ NamesInv' /\ HashesUnique' /\ next' >= 1
    BY <1>1, LinesSame DEF ReadForRotation
  <1>3. /\ Log = content[Len(content)] /\ Flushed(p) = Log /\ File(p) = Len(content)
        /\ Last(names) = Len(content) /\ Log \in Lines
    BY Newest
  <1>4. Log # <<>>
    <2>1. Len(<<>>) = 0
      BY EmptySeq
    <2>2. Len(Log) + 1 > Capacity /\ Capacity >= 2 /\ Capacity \in Nat
      BY <1>3, AuditLogAssumption DEF ReadForRotation, ShouldRollover
    <2>. QED BY <2>1, <2>2
  <1>5. /\ pc'[p] = "rollover" /\ prev'[p] = LastHash(Log) /\ stream'[p] = Len(content)
    BY <1>1, <1>3 DEF ReadForRotation, Goto, ChainInv, LinkInv, Typed, TypeOK
  <1>6. PlaceInv(p)'
    BY <1>1, <1>3, <1>4, <1>5 DEF PlaceInv
  <1>. QED BY <1>2, <1>6 DEF ChainRest

LEMMA RolloverChain ==
    ASSUME NEW p \in Proc, ChainInv(p), Faults \subseteq {"kill"}, Rollover(p)
    PROVE  ChainRest(p)'
  <1>0. PICK N : N = Len(content)
    OBVIOUS
  <1>1. /\ N \in Nat \ {0} /\ content \in Seq(Lines) /\ Log = content[N]
        /\ Log \in Lines /\ AllWhole(Log)
    BY <1>0, Newest
  <1>2. /\ Len(content') = N + 1 /\ content'[N + 1] = <<>>
        /\ \A i \in 1 .. N : content'[i] = content[i]
    BY <1>0, <1>1, NewFile DEF Rollover, Rename
  <1>3. ChainLines /\ NamesInv /\ HashesUnique /\ next \in Nat /\ next >= 1
    BY DEF ChainInv, LinkInv, Typed, TypeOK
  <1>4. Log # <<>> /\ prev[p] = Last(Log).cur
    <2>1. Log # <<>> /\ prev[p] = LastHash(Log)
      BY <1>0, <1>1 DEF Rollover, ChainInv, PlaceInv
    <2>. QED BY <1>1, <2>1, WholeTail
  <1>m. PICK M : M = N + 1 /\ M - 1 = N /\ M > 1 /\ M \in Nat
    BY <1>1
  <1>n. Len(content') = M
    BY <1>2, <1>m
  <1>5. Len(<<>>) = 0 /\ DOMAIN <<>> = {}
    BY EmptySeq
  <1>6. ChainLines'
    <2>1. ASSUME NEW i \in 1 .. N + 1
          PROVE  Linked(content'[i])
      <3>1. CASE i \in 1 .. N
        BY <1>0, <1>2, <1>3, <3>1 DEF ChainLines
      <3>2. CASE i = N + 1
        BY <1>2, <1>5, <3>2 DEF Linked
      <3>. QED BY <1>1, <3>1, <3>2
    <2>2. ASSUME NEW i \in 1 .. N
          PROVE  content'[i] # <<>>
      <3>1. CASE i \in 1 .. N - 1
        BY <1>0, <1>1, <1>2, <1>3, <3>1 DEF ChainLines
      <3>2. CASE i = N
        BY <1>1, <1>2, <1>4, <3>2
      <3>. QED BY <1>1, <3>1, <3>2
    <2>3. ASSUME NEW i \in 2 .. N + 1, content'[i] # <<>>
          PROVE  content'[i][1].prev \in {Genesis, Last(content'[i - 1]).cur}
      <3>1. i \in 2 .. N
        BY <1>1, <1>2, <2>3
      <3>2. content'[i] = content[i] /\ content'[i - 1] = content[i - 1]
        BY <1>1, <1>2, <3>1
      <3>. QED BY <1>0, <1>3, <2>3, <3>1, <3>2 DEF ChainLines
    <2>4. \A i \in 1 .. M : Linked(content'[i])
      BY <1>m, <2>1
    <2>5. \A i \in 1 .. M - 1 : content'[i] # <<>>
      BY <1>m, <2>2
    <2>6. \A i \in 2 .. M :
             content'[i] # <<>> => content'[i][1].prev \in {Genesis, Last(content'[i - 1]).cur}
      BY <1>m, <2>3
    <2>. QED BY <1>n, <2>4, <2>5, <2>6 DEF ChainLines
  <1>7. NamesInv'
    <2>1. names' = Append(names, N + 1)
      BY <1>2 DEF Rollover, Rename
    <2>2. /\ names \in Seq(Nat) /\ Len(names) \in 1 .. BackupCount + 1
      <3>1. names \in Seq(DOMAIN content) /\ Len(names) \in 1 .. BackupCount + 1
        BY DEF ChainInv, LinkInv, Typed, TypeOK
      <3>2. DOMAIN content \subseteq Nat
        BY Newest
      <3>. QED BY <3>1, <3>2, SeqMonotonic
    <2>3. N + 1 \in Nat
      BY <1>1
    <2>4. /\ Len(names') = Len(names) + 1 /\ names'[Len(names) + 1] = N + 1
          /\ \A i \in 1 .. Len(names) : names'[i] = names[i]
      BY <2>1, <2>2, <2>3, AppendProperties
    <2>5. Len(names) \in Nat
      BY <2>2, AuditLogAssumption
    <2>6. ASSUME NEW k \in 1 .. Len(names')
          PROVE  names'[k] = N + 1 - Len(names') + k
      <3>1. CASE k = Len(names) + 1
        BY <1>1, <2>4, <2>5, <2>6, <3>1
      <3>2. CASE k # Len(names) + 1
        <4>1. k \in 1 .. Len(names) /\ names'[k] = names[k]
          BY <2>4, <2>5, <2>6, <3>2
        <4>2. names[k] = N - Len(names) + k
          BY <1>0, <1>3, <4>1 DEF NamesInv
        <4>. QED BY <1>1, <2>4, <2>5, <2>6, <4>1, <4>2
      <3>. QED BY <3>1, <3>2
    <2>7. \A k \in 1 .. Len(names') : names'[k] = M - Len(names') + k
      BY <1>m, <2>6
    <2>. QED BY <1>n, <2>7 DEF NamesInv
  <1>8. HashesUnique'
    <2>1. ASSUME NEW i \in 1 .. N + 1, NEW j \in 1 .. Len(content'[i])
          PROVE  i \in 1 .. N /\ j \in 1 .. Len(content[i]) /\ content'[i] = content[i]
      <3>1. i # N + 1
        BY <1>2, <1>5, <2>1
      <3>. QED BY <1>1, <1>2, <2>1, <3>1
    <2>2. Len(content') = N + 1
      BY <1>2
    <2>3. \A i \in 1 .. Len(content') : \A j \in 1 .. Len(content'[i]) :
             content'[i][j].cur \in 1 .. next' - 1
      BY <1>0, <1>3, <2>1, <2>2 DEF HashesUnique, Rollover, Rename
    <2>4. \A i, k \in 1 .. Len(content') :
             \A j \in 1 .. Len(content'[i]), m \in 1 .. Len(content'[k]) :
                content'[i][j].cur = content'[k][m].cur => i = k /\ j = m
      <3> SUFFICES ASSUME NEW i \in 1 .. N + 1, NEW k \in 1 .. N + 1,
                          NEW j \in 1 .. Len(content'[i]), NEW m \in 1 .. Len(content'[k]),
                          content'[i][j].cur = content'[k][m].cur
                   PROVE  i = k /\ j = m
        BY <2>2, Zenon
      <3>1. /\ i \in 1 .. N /\ j \in 1 .. Len(content[i]) /\ content'[i] = content[i]
            /\ k \in 1 .. N /\ m \in 1 .. Len(content[k]) /\ content'[k] = content[k]
        BY <2>1
      <3>. QED BY <1>0, <1>3, <3>1 DEF HashesUnique
    <2>. QED BY <2>3, <2>4, Zenon DEF HashesUnique
  <1>9. /\ pc'[p] = "sentinel" /\ prev'[p] = prev[p] /\ stream'[p] = N + 1
    BY <1>2 DEF Rollover, Rename, Goto, ChainInv, LinkInv, Typed, TypeOK
  <1>10. PlaceInv(p)'
    <2>1. N + 1 > 1 /\ N + 1 - 1 = N
      BY <1>1
    <2>2. content'[N] = Log
      BY <1>1, <1>2
    <2>3. content'[M] = <<>> /\ stream'[p] = M /\ M > 1 /\ M - 1 = N
      BY <1>2, <1>9, <1>m
    <2>4. prev'[p] = Last(content'[M - 1]).cur
      BY <1>4, <1>9, <2>2, <2>3
    <2>. QED BY <1>9, <1>n, <2>3, <2>4 DEF PlaceInv
  <1>. QED BY <1>3, <1>6, <1>7, <1>8, <1>10 DEF ChainRest, Rollover, Rename

LEMMA WriteSentinelChain ==
    ASSUME NEW p \in Proc, ChainInv(p), Faults \subseteq {"kill"}, WriteSentinel(p)
    PROVE  ChainRest(p)'
  <1>1. /\ next \in Nat /\ prev[p] \in Nat /\ stream[p] = Len(content)
        /\ Log = <<>> /\ Len(content) > 1 /\ prev[p] = Last(content[Len(content) - 1]).cur
        /\ Log \in Lines /\ AllWhole(Log) /\ File(p) = Len(content)
        /\ Log = content[Len(content)]
    <2>1. /\ Log = content[Len(content)] /\ File(p) = Len(content)
          /\ Log \in Lines /\ AllWhole(Log)
      BY Newest
    <2>2. stream[p] = Len(content)
      BY DEF WriteSentinel, ChainInv, PlaceInv, LinkInv, Typed, Open
    <2>. QED BY <2>1, <2>2 DEF WriteSentinel, ChainInv, PlaceInv, LinkInv, Typed, TypeOK
  <1>2. PICK l : l = [kind |-> "rotation", cur |-> next, prev |-> prev[p]]
    OBVIOUS
  <1>3. l \in Line /\ Whole(l) /\ l.cur = next /\ l.prev = prev[p]
    BY <1>1, <1>2, MadeLines
  <1>4. /\ WriteOk(p, Log, l) /\ Goto(p, "rechain") /\ prev' = [prev EXCEPT ![p] = next]
    <2>1. \/ /\ WriteOk(p, Log, l) /\ Goto(p, "rechain") /\ prev' = [prev EXCEPT ![p] = next]
          \/ WriteFails(p, Log, l)
      BY <1>1, <1>2 DEF WriteSentinel
    <2>. QED BY <2>1, Newest
  <1>5. content' = [content EXCEPT ![Len(content)] = Append(Log, l)]
    BY <1>1, <1>3, <1>4, AppendWhole DEF WriteOk
  <1>6. next' = next + 1 /\ names' = names /\ stream' = stream
    BY DEF WriteSentinel
  <1>7. /\ ChainLines' /\ NamesInv' /\ HashesUnique' /\ next' >= 1
        /\ Len(content') = Len(content)
        /\ content'[Len(content)] # <<>> /\ Last(content'[Len(content)]) = l
    <2>1. Log # <<>> => l.prev = Last(Log).cur
      BY <1>1
    <2>2. Log = <<>> /\ Len(content) > 1 =>
             l.prev \in {Genesis, Last(content[Len(content) - 1]).cur}
      BY <1>1, <1>3
    <2>. QED BY <1>3, <1>5, <1>6, <2>1, <2>2, LogGrows
  <1>8. pc'[p] = "rechain" /\ prev'[p] = next
    BY <1>4 DEF Goto, ChainInv, LinkInv, Typed, TypeOK
  <1>9. PlaceInv(p)'
    BY <1>1, <1>3, <1>6, <1>7, <1>8 DEF PlaceInv
  <1>. QED BY <1>7, <1>9 DEF ChainRest

LEMMA WriteRechainedChain ==
    ASSUME NEW p \in Proc, ChainInv(p), Faults \subseteq {"kill"}, WriteRechained(p)
    PROVE  ChainRest(p)'
  <1>1. /\ next \in Nat /\ prev[p] \in Nat /\ stream[p] = Len(content) /\ what[p] = "event"
        /\ Log # <<>> /\ prev[p] = Last(Log).cur
        /\ Log \in Lines /\ AllWhole(Log) /\ File(p) = Len(content)
        /\ Log = content[Len(content)]
    <2>1. /\ Log = content[Len(content)] /\ File(p) = Len(content)
          /\ Log \in Lines /\ AllWhole(Log)
      BY Newest
    <2>2. stream[p] = Len(content)
      BY DEF WriteRechained, ChainInv, PlaceInv, LinkInv, Typed, Open
    <2>3. what[p] = "event" /\ next \in Nat /\ prev[p] \in Nat
      BY DEF ChainInv, LinkInv, LocalSound, Typed, TypeOK
    <2>. QED BY <2>1, <2>2, <2>3 DEF WriteRechained, ChainInv, PlaceInv
  <1>2. PICK l : l = [kind |-> what[p], cur |-> next, prev |-> prev[p]]
    OBVIOUS
  <1>3. l \in Line /\ Whole(l) /\ l.cur = next /\ l.prev = prev[p]
    BY <1>1, <1>2, MadeLines
  <1>4. WriteOk(p, Log, l)
    <2>1. WriteOk(p, Log, l) \/ WriteFails(p, Log, l)
      BY <1>1, <1>2 DEF WriteRechained
    <2>. QED BY <2>1, Newest
  <1>5. content' = [content EXCEPT ![Len(content)] = Append(Log, l)]
    BY <1>1, <1>3, <1>4, AppendWhole DEF WriteOk
  <1>6. next' = next + 1 /\ names' = names /\ stream' = stream
    BY DEF WriteRechained
  <1>7. /\ ChainLines' /\ NamesInv' /\ HashesUnique' /\ next' >= 1
        /\ Len(content') = Len(content)
    <2>1. Log # <<>> => l.prev = Last(Log).cur
      BY <1>1, <1>3
    <2>2. Log = <<>> /\ Len(content) > 1 =>
             l.prev \in {Genesis, Last(content[Len(content) - 1]).cur}
      BY <1>1
    <2>. QED BY <1>3, <1>5, <1>6, <2>1, <2>2, LogGrows
  <1>8. PlaceInv(p)'
    <2>1. Leave(p)
      BY <1>1 DEF WriteRechained, Emitted
    <2>. QED BY <1>1, <1>6, <1>7, <2>1, IdlePlace
  <1>. QED BY <1>7, <1>8 DEF ChainRest

LEMMA CloseChain ==
    ASSUME NEW p \in Proc, ChainInv(p), Close(p), UNCHANGED <<content, names>>
    PROVE  ChainRest(p)'
  <1>1. ChainLines' /\ NamesInv' /\ HashesUnique' /\ next' >= 1
    BY LinesSame DEF Close
  <1>2. stream'[p] = NoFile
    BY DEF Close, ChainInv, LinkInv, Typed, TypeOK
  <1>3. PlaceInv(p)'
    BY <1>2, IdlePlace DEF Close
  <1>. QED BY <1>1, <1>3 DEF ChainRest

LEMMA NextChain ==
    ASSUME NEW p, Proc = {p}, ChainInv(p), Faults \subseteq {"kill"}, [Next]_vars
    PROVE  ChainInv(p)'
  <1>1. p \in Proc
    OBVIOUS
  <1>2. LinkInv' /\ Unbuffered'
    BY NextLinks, NextUnbuffered DEF ChainInv
  <1>3. CASE UNCHANGED vars
    BY <1>2, <1>3 DEF vars, ChainInv, ChainLines, NamesInv, HashesUnique, PlaceInv
  <1>4. CASE Step(p)
    <2>1. ~ FlushFails(p)
      BY <1>1 DEF FlushFails
    <2>2. ASSUME Exit(p)
          PROVE  ChainRest(p)'
      <3>1. content' = [content EXCEPT ![File(p)] = Flushed(p)]
        BY <2>2 DEF Exit, File
      <3>. QED BY <1>1, <2>2, <3>1, FlushSame, CloseChain DEF Exit
    <2>3. ASSUME Kill(p)
          PROVE  ChainRest(p)'
      BY <1>1, <2>3, CloseChain DEF Kill
    <2>4. ChainRest(p)'
      BY <1>1, <1>4, <2>1, <2>2, <2>3, ReadTailChain, FitsChain, EmitChain,
         ReadForRotationChain, RemoveOldestChain, RolloverChain, NotOutgrown, WriteSentinelChain, WriteRechainedChain DEF Step
    <2>. QED BY <1>2, <2>4 DEF ChainInv, ChainRest
  <1>. QED BY <1>3, <1>4 DEF Next

-----------------------------------------------------------------------------
(* What verify_chain() makes of such files.                                *)

Distinct(fs) ==
    /\ \A i \in DOMAIN fs : \A j \in 1 .. Len(fs[i]) : fs[i][j].cur # Genesis
    /\ \A i, k \in DOMAIN fs : \A j \in 1 .. Len(fs[i]), m \in 1 .. Len(fs[k]) :
          fs[i][j].cur = fs[k][m].cur => i = k /\ j = m

Chained(fs, n) ==
    /\ n \in Nat \ {0} /\ fs \in [1 .. n -> Lines]
    /\ \A k \in 1 .. n : Linked(fs[k])
    /\ \A k \in 1 .. n - 1 : fs[k] # <<>>
    /\ \A k \in 2 .. n : fs[k] # <<>> => fs[k][1].prev \in {Genesis, Last(fs[k - 1]).cur}
    /\ Distinct(fs)

LEMMA FilesChained ==
    ASSUME NEW p \in Proc, ChainInv(p), Faults \subseteq {"kill"}
    PROVE  Chained(Files, Len(names))
  <1>1. PICK N : N = Len(content)
    OBVIOUS
  <1>2. PICK n : n = Len(names)
    OBVIOUS
  <1>3. /\ N \in Nat \ {0} /\ content \in Seq(Lines) /\ DOMAIN content = 1 .. N
    BY <1>1, Newest
  <1>4. /\ names \in Seq(DOMAIN content) /\ n \in Nat \ {0} /\ DOMAIN names = 1 .. n
    BY <1>2, AuditLogAssumption, LenProperties DEF ChainInv, LinkInv, Typed, TypeOK
  <1>5. ChainLines /\ HashesUnique /\ next \in Nat
    BY DEF ChainInv, LinkInv, Typed, TypeOK
  <1>6. \A k \in 1 .. n : names[k] = N - n + k
    BY <1>1, <1>2 DEF ChainInv, NamesInv
  <1>7. PICK o : o = N - n
    OBVIOUS
  <1>8. o \in Nat /\ o + n = N
    <2>1. names[1] \in 1 .. N
      BY <1>2, <1>3, <1>4, ElementOfSeq
    <2>. QED BY <1>3, <1>4, <1>6, <1>7, <2>1
  <1>9. PICK fs : fs = Files
    OBVIOUS
  <1>10. DOMAIN fs = 1 .. n /\ \A k \in 1 .. n : o + k \in 1 .. N /\ fs[k] = content[o + k]
    <2>1. \A k \in 1 .. n : names[k] = o + k /\ o + k \in 1 .. N
      BY <1>3, <1>4, <1>6, <1>7, <1>8
    <2>. QED BY <1>4, <1>9, <2>1 DEF Files
  <1>11. fs \in [1 .. n -> Lines]
    <2>1. \A k \in 1 .. n : fs[k] \in Lines
      BY <1>1, <1>3, <1>10, ElementOfSeq
    <2>. QED BY <1>4, <1>9, <1>10, <2>1 DEF Files
  <1>12. \A k \in 1 .. n : Linked(fs[k])
    BY <1>1, <1>5, <1>10 DEF ChainLines
  <1>13. ASSUME NEW k \in 1 .. n - 1
         PROVE  fs[k] # <<>>
    <2>1. k \in 1 .. n /\ o + k \in 1 .. N - 1
      BY <1>4, <1>8
    <2>. QED BY <1>1, <1>5, <1>10, <2>1 DEF ChainLines
  <1>14. ASSUME NEW k \in 2 .. n, fs[k] # <<>>
         PROVE  fs[k][1].prev \in {Genesis, Last(fs[k - 1]).cur}
    <2>1. k \in 1 .. n /\ k - 1 \in 1 .. n /\ o + k \in 2 .. N /\ o + (k - 1) = o + k - 1
      BY <1>4, <1>8
    <2>2. fs[k] = content[o + k] /\ fs[k - 1] = content[o + k - 1]
      BY <1>10, <2>1
    <2>3. PICK t : t = o + k
      OBVIOUS
    <2>4. content[t] # <<>> => content[t][1].prev \in {Genesis, Last(content[t - 1]).cur}
      BY <1>1, <1>5, <2>1, <2>3 DEF ChainLines
    <2>5. fs[k] = content[t] /\ fs[k - 1] = content[t - 1]
      BY <1>8, <2>1, <2>2, <2>3
    <2>. QED BY <1>14, <2>4, <2>5
  <1>15. Distinct(fs)
    <2>1. ASSUME NEW i \in 1 .. n, NEW j \in 1 .. Len(fs[i])
          PROVE  fs[i][j].cur # Genesis
      <3>1. fs[i][j].cur \in 1 .. next - 1
        BY <1>1, <1>5, <1>10 DEF HashesUnique
      <3>. QED BY <1>5, <3>1 DEF Genesis
    <2>2. ASSUME NEW i \in 1 .. n, NEW k \in 1 .. n, NEW j \in 1 .. Len(fs[i]),
                 NEW m \in 1 .. Len(fs[k]), fs[i][j].cur = fs[k][m].cur
          PROVE  i = k /\ j = m
      <3>1. o + i = o + k /\ j = m
        BY <1>1, <1>5, <1>10, <2>2 DEF HashesUnique
      <3>. QED BY <1>8, <3>1
    <2>. QED BY <1>10, <2>1, <2>2 DEF Distinct
  <1>. QED BY <1>2, <1>4, <1>9, <1>11, <1>12, <1>13, <1>14, <1>15 DEF Chained

\* The file before another one is the one next to it.
LEMMA BeforeIs ==
    ASSUME NEW fs, NEW n, Chained(fs, n), NEW k \in 1 .. n
    PROVE  \A i \in Before(fs, k) : i = k - 1 /\ k \in 2 .. n
  <1> SUFFICES ASSUME NEW i \in 1 .. k - 1, \A j \in i + 1 .. k - 1 : fs[j] = <<>>
               PROVE  i = k - 1 /\ k \in 2 .. n
    BY DEF Before
  <1>1. n \in Nat /\ \A j \in 1 .. n - 1 : fs[j] # <<>>
    BY DEF Chained
  <1>2. ~ k - 1 \in i + 1 .. k - 1
    BY <1>1
  <1>. QED BY <1>1, <1>2

LEMMA ChainedVerifies ==
    ASSUME NEW fs, NEW n, Chained(fs, n)
    PROVE  Verifies(fs)
  <1>1. DOMAIN fs = 1 .. n
    BY DEF Chained
  <1>2. \A i \in DOMAIN fs : Linked(fs[i])
    BY <1>1 DEF Chained
  <1>3. ASSUME NEW k \in DOMAIN fs, fs[k] # <<>>, NEW i \in Before(fs, k)
        PROVE  fs[k][1].prev \in {Genesis, Last(fs[i]).cur}
    <2>1. i = k - 1 /\ k \in 2 .. n
      BY <1>1, BeforeIs
    <2>. QED BY <1>3, <2>1 DEF Chained
  <1>. QED BY <1>2, <1>3 DEF Verifies

\* One process that logs, rotates and is killed anywhere leaves files that
\* check_chain() verifies, from GENESIS or the oldest backup to the end.
THEOREM OneChain ==
    ASSUME NEW p, Proc = {p}, Faults \subseteq {"kill"}
    PROVE  Spec => []ChainSound
  <1>1. Init => ChainInv(p)
    BY InitChain
  <1>2. ChainInv(p) /\ [Next]_vars => ChainInv(p)'
    BY NextChain
  <1>3. ChainInv(p) => ChainSound
    BY FilesChained, ChainedVerifies DEF ChainSound
  <1>. QED BY <1>1, <1>2, <1>3, PTL DEF Spec

LEMMA RemovedLine ==
    ASSUME NEW s \in Lines, NEW j \in 1 .. Len(s)
    PROVE  /\ RemoveAt(s, j) \in Lines /\ Len(RemoveAt(s, j)) = Len(s) - 1
           /\ \A m \in 1 .. Len(s) - 1 :
                 RemoveAt(s, j)[m] = IF m < j THEN s[m] ELSE s[m + 1]
  <1> DEFINE a == SubSeq(s, 1, j - 1)
             b == SubSeq(s, j + 1, Len(s))
  <1>1. Len(s) \in Nat /\ \A i \in 1 .. Len(s) : s[i] \in Line
    BY LastLine, ElementOfSeq DEF Lines
  <1>2. /\ a \in Seq(Line) /\ Len(a) = j - 1 /\ \A i \in 1 .. j - 1 : a[i] = s[i]
    <2>1. \A i \in 1 .. j - 1 : s[i] \in Line
      BY <1>1
    <2>2. /\ a \in Seq(Line) /\ Len(a) = IF 1 <= j - 1 THEN j - 1 - 1 + 1 ELSE 0
          /\ \A i \in 1 .. j - 1 - 1 + 1 : a[i] = s[1 + i - 1]
      BY <1>1, <2>1, SubSeqProperties
    <2> HIDE DEF a
    <2>. QED BY <1>1, <2>2
  <1>3. /\ b \in Seq(Line) /\ Len(b) = Len(s) - j
        /\ \A i \in 1 .. Len(s) - j : b[i] = s[j + i]
    <2>1. \A i \in j + 1 .. Len(s) : s[i] \in Line
      BY <1>1
    <2>2. /\ b \in Seq(Line) /\ Len(b) = IF j + 1 <= Len(s) THEN Len(s) - (j + 1) + 1 ELSE 0
          /\ \A i \in 1 .. Len(s) - (j + 1) + 1 : b[i] = s[j + 1 + i - 1]
      BY <1>1, <2>1, SubSeqProperties
    <2> HIDE DEF b
    <2>. QED BY <1>1, <2>2
  <1> HIDE DEF a, b
  <1>4. /\ a \o b \in Seq(Line) /\ Len(a \o b) = Len(a) + Len(b)
        /\ \A i \in 1 .. Len(a) + Len(b) : (a \o b)[i] = IF i <= Len(a) THEN a[i] ELSE b[i - Len(a)]
    BY <1>2, <1>3, ConcatProperties
  <1>5. RemoveAt(s, j) = a \o b
    BY DEF RemoveAt, a, b
  <1>6. ASSUME NEW m \in 1 .. Len(s) - 1
        PROVE  (a \o b)[m] = IF m < j THEN s[m] ELSE s[m + 1]
    <2>1. CASE m < j
      BY <1>1, <1>2, <1>3, <1>4, <2>1
    <2>2. CASE m >= j
      <3>1. (a \o b)[m] = b[m - (j - 1)]
        BY <1>1, <1>2, <1>3, <1>4, <2>2
      <3>2. b[m - (j - 1)] = s[j + (m - (j - 1))]
        BY <1>1, <1>3, <2>2
      <3>3. j + (m - (j - 1)) = m + 1
        BY <1>1
      <3>4. (a \o b)[m] = s[m + 1]
        BY <3>1, <3>2, <3>3, Zenon
      <3>5. ~ m < j
        BY <1>1, <2>2
      <3>. QED BY <3>4, <3>5
    <2>3. m < j \/ m >= j
      BY <1>1
    <2>. QED BY <2>1, <2>2, <2>3, Zenon
  <1>. QED BY <1>1, <1>2, <1>3, <1>4, <1>5, <1>6 DEF Lines

\* The removal of line j of file i shows: the line after it, in the same file
\* or in the next, still points to it, and no other line has its hash.
LEMMA RemovalShows ==
    ASSUME NEW fs, NEW n, Chained(fs, n), Epochs(fs) = {},
           NEW i \in 1 .. n, NEW j \in 1 .. Len(fs[i]),
           ~ (j = 1 /\ Before(fs, i) = {}),
           ~ (j = Len(fs[i]) /\ \A k \in i + 1 .. Len(fs) : fs[k] = <<>>)
    PROVE  ~ Verifies([fs EXCEPT ![i] = RemoveAt(@, j)])
  <1>1. PICK s : s = fs[i]
    OBVIOUS
  <1>2. /\ n \in Nat \ {0} /\ fs \in [1 .. n -> Lines] /\ s \in Lines /\ Linked(s)
        /\ \A k \in 1 .. n - 1 : fs[k] # <<>>
        /\ \A k \in 2 .. n : fs[k] # <<>> => fs[k][1].prev \in {Genesis, Last(fs[k - 1]).cur}
        /\ Distinct(fs)
    BY <1>1 DEF Chained
  <1>3. PICK r : r = RemoveAt(s, j)
    OBVIOUS
  <1>4. /\ r \in Lines /\ Len(r) = Len(s) - 1 /\ Len(s) \in Nat /\ j \in 1 .. Len(s)
        /\ s # <<>> /\ Last(s) = s[Len(s)]
        /\ \A m \in 1 .. Len(s) - 1 : r[m] = IF m < j THEN s[m] ELSE s[m + 1]
    <2>1. Len(s) \in Nat /\ Last(s) = s[Len(s)] /\ (s # <<>> <=> Len(s) >= 1)
      BY <1>2, LastLine
    <2>2. j \in 1 .. Len(s)
      BY <1>1
    <2>3. /\ r \in Lines /\ Len(r) = Len(s) - 1
          /\ \A m \in 1 .. Len(s) - 1 : r[m] = IF m < j THEN s[m] ELSE s[m + 1]
      BY <1>2, <1>3, <2>2, RemovedLine
    <2>4. s # <<>>
      BY <2>1, <2>2
    <2>. QED BY <2>1, <2>2, <2>3, <2>4
  <1>5. PICK g : g = [fs EXCEPT ![i] = r]
    OBVIOUS
  <1>6. /\ DOMAIN g = 1 .. n /\ g[i] = r /\ \A k \in 1 .. n : k # i => g[k] = fs[k]
    BY <1>2, <1>5
  <1>7. SUFFICES ASSUME Verifies(g)
                 PROVE  FALSE
    BY <1>1, <1>3, <1>5
  <1>8. \A m \in 1 .. Len(s) - 1 : s[m + 1].prev = s[m].cur
    BY <1>2, <1>4 DEF Linked
  <1>9. \A m \in 1 .. Len(s) : s[m].cur # Genesis /\ (s[m].cur = s[j].cur => m = j)
    <2>1. i \in DOMAIN fs /\ fs[i] = s
      BY <1>1, <1>2
    <2>2. \A m \in 1 .. Len(s) : s[m].cur # Genesis
      BY <1>2, <2>1 DEF Distinct
    <2>3. ASSUME NEW m \in 1 .. Len(s), s[m].cur = s[j].cur
          PROVE  m = j
      BY <1>2, <1>4, <2>1, <2>3 DEF Distinct
    <2>. QED BY <2>2, <2>3
  <1>10. ASSUME NEW k \in 1 .. n, k # i, NEW m \in 1 .. Len(fs[k])
         PROVE  fs[k][m].cur # s[j].cur
    BY <1>1, <1>2, <1>4, <1>10 DEF Distinct
  \* The file before, if line j is the first.
  <1>11. ASSUME j = 1
         PROVE  /\ i - 1 \in 1 .. n /\ i - 1 # i /\ fs[i - 1] # <<>>
                /\ Last(fs[i - 1]).cur # s[j].cur
    <2>1. Before(fs, i) # {}
      BY <1>11
    <2>2. i \in 2 .. n /\ i - 1 \in 1 .. n - 1
      <3>1. i \in 2 .. n
        BY <2>1, BeforeIs
      <3>. QED BY <1>2, <3>1
    <2>3. fs[i - 1] # <<>> /\ i - 1 \in 1 .. n /\ i - 1 # i /\ fs[i - 1] \in Lines
      BY <1>2, <2>2
    <2>4. /\ Len(fs[i - 1]) \in 1 .. Len(fs[i - 1])
          /\ Last(fs[i - 1]) = fs[i - 1][Len(fs[i - 1])]
      BY <2>3, LastLine
    <2>. QED BY <1>10, <2>3, <2>4
  \* The file after, if line j is the last.
  <1>12. ASSUME j = Len(s)
         PROVE  /\ i + 1 \in 2 .. n /\ i + 1 # i /\ fs[i + 1] # <<>>
                /\ fs[i + 1][1].prev = s[j].cur
    <2>1. i < n /\ fs[i + 1] # <<>>
      <3>1. ASSUME i = n
            PROVE  FALSE
        <4>1. Len(fs) = n
          BY <1>2
        <4>2. i + 1 .. Len(fs) = {}
          BY <1>2, <3>1, <4>1
        <4>. QED BY <1>1, <1>12, <4>2
      <3>2. CASE i + 1 \in 1 .. n - 1
        BY <1>2, <3>2
      <3>3. CASE i + 1 = n
        <4>1. Len(fs) = n
          BY <1>2
        <4>2. PICK k \in i + 1 .. Len(fs) : fs[k] # <<>>
          BY <1>1, <1>12
        <4>3. k = i + 1
          BY <1>2, <3>3, <4>1
        <4>. QED BY <1>2, <3>3, <4>2, <4>3
      <3>4. i = n \/ i + 1 = n \/ i + 1 \in 1 .. n - 1
        BY <1>2
      <3>. QED BY <1>2, <3>1, <3>2, <3>3, <3>4
    <2>2. i + 1 \in 2 .. n /\ i + 1 # i /\ i + 1 - 1 = i
      BY <1>2, <2>1
    <2>3. i \in Before(fs, i + 1)
      BY <1>1, <1>2, <1>4, <2>2 DEF Before
    <2>4. fs[i + 1][1].prev # Genesis
      <3>1. i + 1 \in DOMAIN fs
        BY <1>2, <2>2
      <3>. QED BY <2>1, <2>3, <3>1 DEF Epochs
    <2>5. fs[i + 1][1].prev \in {Genesis, Last(fs[i]).cur}
      BY <1>2, <2>1, <2>2
    <2>. QED BY <1>1, <1>4, <1>12, <2>1, <2>2, <2>4, <2>5
  <1>13. CASE 1 < j /\ j < Len(s)
    <2>1. j \in 2 .. Len(r) /\ r[j] = s[j + 1] /\ r[j - 1] = s[j - 1] /\ j - 1 \in 1 .. Len(s)
      BY <1>4, <1>13
    <2>2. Linked(r)
      BY <1>6, <1>7 DEF Verifies
    <2>3. s[j + 1].prev = s[j - 1].cur
      BY <2>1, <2>2 DEF Linked
    <2>4. s[j + 1].prev = s[j].cur
      BY <1>4, <1>8, <1>13
    <2>5. j - 1 # j
      BY <1>4
    <2>. QED BY <1>9, <2>1, <2>3, <2>4, <2>5
  <1>14. CASE j = 1 /\ j < Len(s)
    <2>1. r # <<>> /\ r[1] = s[2] /\ s[2].prev = s[1].cur
      BY <1>4, <1>8, <1>14, LastLine
    <2>2. g[i] = r /\ i \in DOMAIN g /\ g[i - 1] = fs[i - 1] /\ g[i - 1] # <<>>
      BY <1>6, <1>11, <1>14
    <2>3. i - 1 \in Before(g, i)
      BY <1>2, <1>11, <1>14, <2>2 DEF Before
    <2>4. r[1].prev \in {Genesis, Last(fs[i - 1]).cur}
      BY <1>7, <2>1, <2>2, <2>3 DEF Verifies
    <2>. QED BY <1>4, <1>9, <1>11, <1>14, <2>1, <2>4
  <1>15. CASE 1 < j /\ j = Len(s)
    <2>1. r # <<>> /\ Last(r) = s[j - 1] /\ j - 1 \in 1 .. Len(s) /\ j - 1 # j
      BY <1>4, <1>15, LastLine
    <2>2. /\ i + 1 \in DOMAIN g /\ g[i + 1] = fs[i + 1] /\ g[i + 1] # <<>> /\ g[i] = r
      BY <1>2, <1>6, <1>12, <1>15
    <2>3. i \in Before(g, i + 1)
      BY <1>2, <2>1, <2>2 DEF Before
    <2>4. s[j].cur \in {Genesis, s[j - 1].cur}
      BY <1>7, <1>12, <1>15, <2>1, <2>2, <2>3 DEF Verifies
    <2>. QED BY <1>4, <1>9, <2>1, <2>4
  <1>16. CASE j = 1 /\ j = Len(s)
    <2>1. r = <<>>
      <3>0. Len(r) = Len(s) - 1 /\ Len(s) \in Nat
        BY <1>4
      <3>1. Len(r) = 0
        <4>1. Len(s) = 1
          BY <1>16
        <4>. QED BY <3>0, <4>1
      <3>2. r # <<>> <=> Len(r) >= 1
        BY <1>4, LastLine
      <3>. QED BY <3>1, <3>2
    <2>2. /\ i + 1 \in DOMAIN g /\ g[i + 1] = fs[i + 1] /\ g[i + 1] # <<>> /\ g[i] = <<>>
          /\ g[i - 1] = fs[i - 1] /\ g[i - 1] # <<>>
      BY <1>2, <1>6, <1>11, <1>12, <1>16, <2>1
    <2>3. i - 1 \in Before(g, i + 1)
      <3>1. i - 1 \in 1 .. i + 1 - 1 /\ \A k \in i - 1 + 1 .. i + 1 - 1 : k = i
        BY <1>2, <1>11, <1>16
      <3>. QED BY <2>2, <3>1 DEF Before
    <2>4. s[j].cur \in {Genesis, Last(fs[i - 1]).cur}
      BY <1>7, <1>12, <1>16, <2>2, <2>3 DEF Verifies
    <2>. QED BY <1>4, <1>9, <1>11, <1>16, <2>4
  <1>. QED BY <1>4, <1>13, <1>14, <1>15, <1>16

\* Take any entry out of such files, and check_chain() fails, unless the log
\* was restarted, or it was the oldest entry or the newest.
THEOREM RemovalShown ==
    ASSUME NEW p, Proc = {p}, Faults \subseteq {"kill"}
    PROVE  Spec => []RemovalDetected
  <1>1. Init => ChainInv(p)
    BY InitChain
  <1>2. ChainInv(p) /\ [Next]_vars => ChainInv(p)'
    BY NextChain
  <1>3. ChainInv(p) => RemovalDetected
    <2> SUFFICES ASSUME ChainInv(p)
                 PROVE  RemovalDetected
      OBVIOUS
    <2>1. PICK fs : fs = Files
      OBVIOUS
    <2>2. Chained(fs, Len(names))
      BY <2>1, FilesChained
    <2>3. PICK n : n = Len(names)
      OBVIOUS
    <2>4. /\ DOMAIN fs = 1 .. n /\ \A i \in 1 .. n : DOMAIN fs[i] = 1 .. Len(fs[i])
      BY <2>2, <2>3, LastLine DEF Chained
    <2>5. ASSUME Epochs(fs) = {}, NEW i \in DOMAIN fs, NEW j \in DOMAIN fs[i]
          PROVE  \/ j = 1 /\ Before(fs, i) = {}
                 \/ j = Len(fs[i]) /\ \A k \in i + 1 .. Len(fs) : fs[k] = <<>>
                 \/ ~ Verifies([fs EXCEPT ![i] = RemoveAt(@, j)])
      <3>1. i \in 1 .. n /\ j \in 1 .. Len(fs[i])
        BY <2>4
      <3>. QED BY <2>2, <2>3, <2>5, <3>1, RemovalShows
    <2>. QED BY <2>1, <2>5, Zenon DEF RemovalDetected
  <1>. QED BY <1>1, <1>2, <1>3, PTL DEF Spec

-----------------------------------------------------------------------------
(* What FlattenSeq makes of a sequence of sequences.                        *)

\* What holds of 1, and of the number after each one it holds of, holds of all.
LEMMA UpTo ==
    ASSUME NEW n \in Nat, NEW T, n >= 1 => 1 \in T,
           \A k \in 1 .. n : k \in T /\ k < n => k + 1 \in T
    PROVE  \A k \in 1 .. n : k \in T
  <1> DEFINE R == OpToRel(<, Nat)
             U == {k \in 1 .. n : k \notin T}
  <1> SUFFICES ASSUME U # {} PROVE FALSE
    OBVIOUS
  <1>1. IsWellFoundedOn(R, Nat)
    BY NatLessThanWellFounded, Zenon
  <1>2. ASSUME NEW x \in Nat, NEW y \in Nat, x < y
        PROVE  <<x, y>> \in R
    BY <1>2, Zenon DEF OpToRel
  <1>3. U \subseteq Nat
    OBVIOUS
  <1>. HIDE DEF R
  <1>4. PICK m \in U : \A y \in U : ~ <<y, m>> \in R
    <2>. HIDE DEF U
    <2>. QED BY <1>1, <1>3, WFMin, Zenon
  <1>5. m \in 1 .. n /\ m \notin T /\ m # 1
    OBVIOUS
  <1>6. m - 1 \in 1 .. n /\ m - 1 < n /\ m - 1 + 1 = m /\ m - 1 < m
    BY <1>5
  <1>7. m - 1 \in U
    BY <1>5, <1>6
  <1>8. <<m - 1, m>> \in R
    BY <1>2, <1>5, <1>6
  <1>. QED BY <1>4, <1>7, <1>8

Cat(s, t) == s \o t

Reads(u, s, t) ==
    /\ Len(s) \in Nat /\ Len(t) \in Nat /\ Len(u) = Len(s) + Len(t)
    /\ \A j \in 1 .. Len(s) : u[j] = s[j]
    /\ \A j \in 1 .. Len(t) : u[Len(s) + j] = t[j]

LEMMA CatIs ==
    ASSUME NEW S, NEW s \in Seq(S), NEW t \in Seq(S)
    PROVE  Cat(s, t) \in Seq(S) /\ Reads(Cat(s, t), s, t)
  BY DEF Cat, Reads

LEMMA CatAssociates ==
    ASSUME NEW S, NEW s \in Seq(S), NEW t \in Seq(S), NEW u \in Seq(S)
    PROVE  Cat(Cat(s, t), u) = Cat(s, Cat(t, u))
  BY ConcatAssociative DEF Cat

LEMMA CatAppend ==
    ASSUME NEW S, NEW s \in Seq(S), NEW t \in Seq(S), NEW x \in S
    PROVE  Cat(s, Append(t, x)) = Append(Cat(s, t), x)
  <1> DEFINE one == <<x>>
  <1>1. Append(t, x) = Cat(t, one)
    BY AppendIsConcat DEF Cat
  <1>2. Cat(s, t) \in Seq(S)
    BY CatIs
  <1>3. Append(Cat(s, t), x) = Cat(Cat(s, t), one)
    BY <1>2, AppendIsConcat DEF Cat
  <1>4. one \in Seq(S)
    OBVIOUS
  <1>. HIDE DEF one
  <1>5. Cat(Cat(s, t), one) = Cat(s, Cat(t, one))
    BY <1>4, CatAssociates
  <1>. QED BY <1>1, <1>3, <1>5

\* f[k] is the first k of the sequences fs put together.
Unfolds(fs, n, f) ==
    f = [i \in 1 .. n |-> IF i = 1 THEN fs[i] ELSE Cat(f[i - 1], fs[i])]

LEMMA UnfoldsAre ==
    ASSUME NEW fs, NEW n \in Nat, NEW f, Unfolds(fs, n, f)
    PROVE  /\ n >= 1 => f[1] = fs[1]
           /\ \A i \in 2 .. n : f[i] = Cat(f[i - 1], fs[i])
           /\ DOMAIN f = 1 .. n
  <1> DEFINE g == [i \in 1 .. n |-> IF i = 1 THEN fs[i] ELSE Cat(f[i - 1], fs[i])]
  <1>1. /\ DOMAIN g = 1 .. n
        /\ \A i \in 1 .. n : g[i] = IF i = 1 THEN fs[i] ELSE Cat(f[i - 1], fs[i])
    OBVIOUS
  <1>2. f = g
    BY DEF Unfolds
  <1>. HIDE DEF g
  <1>3. \A i \in 1 .. n : f[i] = IF i = 1 THEN fs[i] ELSE Cat(f[i - 1], fs[i])
    BY <1>1, <1>2
  <1>4. \A i \in 2 .. n : i \in 1 .. n /\ i # 1
    OBVIOUS
  <1>. QED BY <1>1, <1>2, <1>3, <1>4

LEMMA UnfoldsExist ==
    ASSUME NEW fs, NEW n \in Nat
    PROVE  \E f : Unfolds(fs, n, f)
  <1> DEFINE T == {k \in 0 .. n : \E f : Unfolds(fs, k, f)}
  <1>1. \E f : Unfolds(fs, 0, f)
    <2>1. Unfolds(fs, 0, [i \in 1 .. 0 |-> i])
      BY DEF Unfolds
    <2>. QED BY <2>1
  <1>2. ASSUME n >= 1 PROVE 1 \in T
    <2>1. Unfolds(fs, 1, [i \in 1 .. 1 |-> fs[1]])
      BY DEF Unfolds
    <2>. QED BY <1>2, <2>1
  <1>3. ASSUME NEW k \in 1 .. n, k \in T, k < n PROVE k + 1 \in T
    <2>1. PICK f : Unfolds(fs, k, f)
      BY <1>3
    <2> DEFINE g == [i \in 1 .. k + 1 |-> IF i = k + 1 THEN Cat(f[k], fs[k + 1]) ELSE f[i]]
    <2>2. ASSUME NEW i \in 1 .. k + 1
          PROVE  g[i] = IF i = 1 THEN fs[i] ELSE Cat(g[i - 1], fs[i])
      <3>1. k >= 1 /\ f[1] = fs[1] /\ \A j \in 2 .. k : f[j] = Cat(f[j - 1], fs[j])
        BY <1>3, <2>1, UnfoldsAre
      <3>2. CASE i = 1
        BY <3>1, <3>2
      <3>3. CASE i = k + 1
        <4>1. i # 1 /\ i - 1 = k /\ k \in 1 .. k + 1 /\ k # k + 1
          BY <3>3
        <4>2. g[k] = f[k] /\ g[i] = Cat(f[k], fs[i])
          BY <3>3, <4>1
        <4>. QED BY <4>1, <4>2
      <3>4. CASE i \in 2 .. k
        <4>1. i # 1 /\ i - 1 \in 1 .. k /\ g[i - 1] = f[i - 1] /\ g[i] = f[i]
          BY <3>4
        <4>. QED BY <3>1, <3>4, <4>1
      <3>. QED BY <3>2, <3>3, <3>4
    <2>. HIDE DEF g
    <2>3. DOMAIN g = 1 .. k + 1 /\ g = [i \in DOMAIN g |-> g[i]]
      BY DEF g
    <2>4. Unfolds(fs, k + 1, g)
      BY <2>2, <2>3 DEF Unfolds
    <2>. QED BY <1>3, <2>4
  <1>4. \A k \in 1 .. n : k \in T
    <2>. HIDE DEF T
    <2>. QED BY <1>2, <1>3, UpTo
  <1>5. CASE n = 0
    BY <1>1, <1>5
  <1>6. CASE n # 0
    BY <1>4, <1>6
  <1>. QED BY <1>5, <1>6

LEMMA FlattenIs ==
    ASSUME NEW fs, Len(fs) \in Nat \ {0}
    PROVE  \E f : Unfolds(fs, Len(fs), f) /\ FlattenSeq(fs) = f[Len(fs)]
  <1> DEFINE f == CHOOSE f : f = [i \in 1 .. Len(fs) |-> IF i = 1 THEN fs[i] ELSE Cat(f[i - 1], fs[i])]
  <1>1. FlattenSeq(fs) = f[Len(fs)]
    BY DEF FlattenSeq, Cat
  <1>2. Unfolds(fs, Len(fs), f)
    BY UnfoldsExist DEF Unfolds, Cat
  <1>. QED BY <1>1, <1>2

\* Two sequences that begin alike are put together alike.
Alike(fs, gs, k) == \A i \in 1 .. k : fs[i] = gs[i]
Follows(gs, fs, n) == \A i \in 1 .. n : gs[i] = fs[i + 1]

LEMMA UnfoldsAgree ==
    ASSUME NEW fs, NEW gs, NEW n \in Nat, NEW m \in Nat, NEW f, NEW g,
           Unfolds(fs, n, f), Unfolds(gs, m, g), NEW k \in 1 .. n, k <= m,
           Alike(fs, gs, k)
    PROVE  f[k] = g[k]
  <1> DEFINE T == {i \in 1 .. k : f[i] = g[i]}
  <1>0. \A i \in 1 .. k : fs[i] = gs[i]
    BY DEF Alike
  <1>1. 1 \in T
    BY <1>0, UnfoldsAre
  <1>2. ASSUME NEW i \in 1 .. k, i \in T, i < k PROVE i + 1 \in T
    <2>1. i + 1 \in 2 .. n /\ i + 1 \in 2 .. m /\ i + 1 \in 1 .. k /\ i + 1 - 1 = i
      BY <1>2
    <2>2. f[i + 1] = Cat(f[i], fs[i + 1]) /\ g[i + 1] = Cat(g[i], gs[i + 1])
      BY <2>1, UnfoldsAre
    <2>3. f[i] = g[i] /\ fs[i + 1] = gs[i + 1]
      BY <1>0, <1>2, <2>1
    <2>. QED BY <2>1, <2>2, <2>3
  <1>3. k \in Nat /\ k \in 1 .. k
    OBVIOUS
  <1>4. k \in T
    <2>. HIDE DEF T
    <2>. QED BY <1>1, <1>2, <1>3, UpTo
  <1>. QED BY <1>4

\* What is in a part is in one of the sequences, and the parts are sequences.
From(s, fs, k) ==
    \A j \in 1 .. Len(s) : \E i \in 1 .. k : \E m \in 1 .. Len(fs[i]) : s[j] = fs[i][m]

LEMMA FromCat ==
    ASSUME NEW fs, NEW k \in Nat, NEW u, NEW s, From(s, fs, k), Reads(u, s, fs[k + 1])
    PROVE  From(u, fs, k + 1)
  <1> SUFFICES ASSUME NEW j \in 1 .. Len(u)
               PROVE  \E i \in 1 .. k + 1 : \E m \in 1 .. Len(fs[i]) : u[j] = fs[i][m]
    BY DEF From
  <1> DEFINE a == Len(s)
             b == Len(fs[k + 1])
  <1>1. /\ a \in Nat /\ b \in Nat /\ j \in 1 .. a + b
        /\ \A i \in 1 .. a : u[i] = s[i]
        /\ \A i \in 1 .. b : u[a + i] = fs[k + 1][i]
    BY DEF Reads
  <1>2. \A i \in 1 .. a : \E h \in 1 .. k : \E m \in 1 .. Len(fs[h]) : s[i] = fs[h][m]
    BY DEF From
  <1>3. \A i \in 1 .. k : i \in 1 .. k + 1
    OBVIOUS
  <1>4. k + 1 \in 1 .. k + 1
    OBVIOUS
  <1>. HIDE DEF a
  <1>5. CASE j <= a
    <2>1. j \in 1 .. a
      BY <1>1, <1>5
    <2>. QED BY <1>1, <1>2, <1>3, <2>1
  <1>6. CASE ~ j <= a
    <2>1. j - a \in 1 .. b /\ a + (j - a) = j
      BY <1>1, <1>6
    <2>2. u[j] = fs[k + 1][j - a]
      BY <1>1, <2>1
    <2>. QED BY <1>4, <2>1, <2>2
  <1>. QED BY <1>5, <1>6

LEMMA UnfoldsType ==
    ASSUME NEW S, NEW n \in Nat, NEW fs \in [1 .. n -> Seq(S)], NEW f, Unfolds(fs, n, f)
    PROVE  \A k \in 1 .. n : f[k] \in Seq(S) /\ From(f[k], fs, k)
  <1> DEFINE T == {k \in 1 .. n : f[k] \in Seq(S) /\ From(f[k], fs, k)}
  <1>1. ASSUME n >= 1 PROVE 1 \in T
    <2>1. f[1] = fs[1] /\ fs[1] \in Seq(S)
      BY <1>1, UnfoldsAre
    <2>2. 1 \in 1 .. 1 /\ 1 \in 1 .. n
      BY <1>1
    <2>3. From(fs[1], fs, 1)
      BY <2>2 DEF From
    <2>. QED BY <2>1, <2>2, <2>3
  <1>2. ASSUME NEW k \in 1 .. n, k \in T, k < n PROVE k + 1 \in T
    <2>1. k + 1 \in 2 .. n /\ k + 1 \in 1 .. n /\ k + 1 - 1 = k /\ k \in Nat
      BY <1>2
    <2>2. f[k + 1] = Cat(f[k], fs[k + 1])
      BY <2>1, UnfoldsAre
    <2>3. f[k] \in Seq(S) /\ fs[k + 1] \in Seq(S) /\ From(f[k], fs, k)
      BY <1>2, <2>1
    <2>4. f[k + 1] \in Seq(S) /\ Reads(f[k + 1], f[k], fs[k + 1])
      BY <2>2, <2>3, CatIs
    <2>5. From(f[k + 1], fs, k + 1)
      BY <2>1, <2>3, <2>4, FromCat
    <2>. QED BY <2>1, <2>4, <2>5
  <1>3. \A k \in 1 .. n : k \in T
    <2>. HIDE DEF T
    <2>. QED BY <1>1, <1>2, UpTo
  <1>. QED BY <1>3

\* The first sequence is the beginning, and the others follow.
StartsWith(f, last, fs, g, n) == f[last] = Cat(fs[1], g[n])
AllSeqs(fs, n, S) == fs \in [1 .. n -> Seq(S)]

LEMMA UnfoldsTail ==
    ASSUME NEW S, NEW n \in Nat \ {0}, NEW last, last = n + 1,
           NEW fs, AllSeqs(fs, last, S), NEW gs, AllSeqs(gs, n, S), Follows(gs, fs, n),
           NEW f, Unfolds(fs, last, f), NEW g, Unfolds(gs, n, g)
    PROVE  StartsWith(f, last, fs, g, n)
  <1>a. SUFFICES f[last] = Cat(fs[1], g[n])
    BY DEF StartsWith
  <1> DEFINE T == {k \in 1 .. n : f[k + 1] = Cat(fs[1], g[k])}
  <1>. fs \in [1 .. last -> Seq(S)] /\ gs \in [1 .. n -> Seq(S)]
    BY DEF AllSeqs
  <1>0. /\ n + 1 \in Nat /\ f[1] = fs[1]
        /\ \A i \in 2 .. n + 1 : f[i] = Cat(f[i - 1], fs[i])
        /\ n >= 1 => g[1] = gs[1]
        /\ \A i \in 2 .. n : g[i] = Cat(g[i - 1], gs[i])
        /\ \A i \in 1 .. n : gs[i] = fs[i + 1]
    <2>1. n + 1 \in Nat /\ n + 1 >= 1
      OBVIOUS
    <2>2. f[1] = fs[1] /\ \A i \in 2 .. n + 1 : f[i] = Cat(f[i - 1], fs[i])
      BY <2>1, UnfoldsAre
    <2>3. /\ n >= 1 => g[1] = gs[1]
          /\ \A i \in 2 .. n : g[i] = Cat(g[i - 1], gs[i])
      BY UnfoldsAre
    <2>. QED BY <2>1, <2>2, <2>3 DEF Follows
  <1>1. ASSUME n >= 1 PROVE 1 \in T
    <2>1. 2 \in 2 .. n + 1 /\ 2 - 1 = 1 /\ 1 + 1 = 2 /\ 1 \in 1 .. n
      BY <1>1
    <2>2. f[2] = Cat(f[1], fs[2]) /\ g[1] = fs[2]
      BY <1>0, <1>1, <2>1
    <2>. QED BY <1>0, <2>1, <2>2
  <1>2. ASSUME NEW k \in 1 .. n, k \in T, k < n PROVE k + 1 \in T
    <2>1. /\ k + 1 \in 2 .. n /\ k + 1 \in 1 .. n /\ k + 1 - 1 = k
          /\ k + 1 + 1 \in 2 .. n + 1 /\ k + 1 + 1 - 1 = k + 1
          /\ 1 \in 1 .. n + 1
      BY <1>2
    <2>2. f[k + 1 + 1] = Cat(f[k + 1], fs[k + 1 + 1]) /\ g[k + 1] = Cat(g[k], gs[k + 1])
      BY <1>0, <2>1
    <2>3. f[k + 1] = Cat(fs[1], g[k]) /\ gs[k + 1] = fs[k + 1 + 1]
      BY <1>0, <1>2, <2>1
    <2>4. fs[1] \in Seq(S) /\ g[k] \in Seq(S) /\ gs[k + 1] \in Seq(S)
      BY <2>1, UnfoldsType
    <2>5. Cat(Cat(fs[1], g[k]), gs[k + 1]) = Cat(fs[1], Cat(g[k], gs[k + 1]))
      BY <2>4, CatAssociates
    <2>. QED BY <2>1, <2>2, <2>3, <2>5
  <1>3. \A k \in 1 .. n : k \in T
    <2>. HIDE DEF T
    <2>. QED BY <1>1, <1>2, UpTo
  <1>. QED BY <1>3

LEMMA SeqParts ==
    ASSUME NEW S, NEW fs \in Seq(Seq(S)), NEW n, n = Len(fs)
    PROVE  n \in Nat /\ fs \in [1 .. n -> Seq(S)] /\ (fs # <<>> => n \in Nat \ {0} /\ n \in 1 .. n)
  <1> DEFINE R == Seq(S)
  <1>. HIDE DEF R
  <1>1. fs \in Seq(R)
    BY DEF R
  <1>2. Len(fs) \in Nat /\ fs \in [1 .. Len(fs) -> R] /\ (fs # <<>> => Len(fs) # 0)
    BY <1>1, LenProperties, EmptySeq
  <1>. QED BY <1>2 DEF R

LEMMA FlattenParts ==
    ASSUME NEW S, NEW fs \in Seq(Seq(S)), fs # <<>>
    PROVE  FlattenSeq(fs) \in Seq(S) /\ From(FlattenSeq(fs), fs, Len(fs))
  <1> DEFINE n == Len(fs)
  <1>1. n \in Nat \ {0} /\ fs \in [1 .. n -> Seq(S)] /\ n \in 1 .. n
    BY SeqParts
  <1>2. PICK f : Unfolds(fs, n, f) /\ FlattenSeq(fs) = f[n]
    BY <1>1, FlattenIs
  <1>. HIDE DEF n
  <1>3. \A k \in 1 .. n : f[k] \in Seq(S) /\ From(f[k], fs, k)
    <2>1. n \in Nat
      BY <1>1
    <2>. QED BY <2>1, <1>1, <1>2, UnfoldsType
  <1>4. f[n] \in Seq(S) /\ From(f[n], fs, n)
    BY <1>1, <1>3
  <1>. QED BY <1>2, <1>4 DEF n

\* A line more at the end of the last sequence is one more at the end of all.
LEMMA FlattenAppend ==
    ASSUME NEW S, NEW fs \in Seq(Seq(S)), NEW gs \in Seq(Seq(S)), fs # <<>>, Len(gs) = Len(fs),
           Alike(fs, gs, Len(fs) - 1),
           NEW x \in S, gs[Len(fs)] = Append(fs[Len(fs)], x)
    PROVE  FlattenSeq(gs) = Append(FlattenSeq(fs), x)
  <1> DEFINE n == Len(fs)
  <1>1. n \in Nat \ {0} /\ n \in Nat /\ fs \in [1 .. n -> Seq(S)] /\ n \in 1 .. n
    BY SeqParts
  <1>2. PICK f : Unfolds(fs, n, f) /\ FlattenSeq(fs) = f[n]
    BY <1>1, FlattenIs
  <1>3. PICK g : Unfolds(gs, n, g) /\ FlattenSeq(gs) = g[n]
    BY <1>1, FlattenIs
  <1>4. fs[n] \in Seq(S) /\ gs[n] = Append(fs[n], x) /\ Alike(fs, gs, n - 1)
    BY <1>1
  <1>. HIDE DEF n
  <1>5. CASE n = 1
    BY <1>1, <1>2, <1>3, <1>4, <1>5, UnfoldsAre
  <1>6. CASE n # 1
    <2> DEFINE k == n - 1
    <2>1. n \in 2 .. n /\ k \in 1 .. n /\ k <= n
      BY <1>1, <1>6
    <2>2. Alike(fs, gs, k)
      BY <1>4
    <2>. HIDE DEF k
    <2>3. f[k] = g[k]
      BY <1>1, <1>2, <1>3, <2>1, <2>2, UnfoldsAgree
    <2>4. f[n] = Cat(f[n - 1], fs[n]) /\ g[n] = Cat(g[n - 1], gs[n])
      BY <1>1, <1>2, <1>3, <2>1, UnfoldsAre
    <2>5. f[n] = Cat(f[k], fs[n]) /\ g[n] = Cat(f[k], Append(fs[n], x))
      BY <1>4, <2>3, <2>4 DEF k
    <2>6. f[k] \in Seq(S)
      BY <1>1, <1>2, <2>1, UnfoldsType
    <2>7. \A s \in Seq(S), t \in Seq(S) : Cat(s, Append(t, x)) = Append(Cat(s, t), x)
      BY CatAppend
    <2>. QED BY <1>2, <1>3, <1>4, <2>5, <2>6, <2>7
  <1>. QED BY <1>5, <1>6

\* An empty sequence at the end adds nothing.
LEMMA FlattenEmpty ==
    ASSUME NEW S, NEW fs \in Seq(Seq(S)), NEW gs \in Seq(Seq(S)), fs # <<>>,
           Len(gs) = Len(fs) + 1, Alike(fs, gs, Len(fs)), gs[Len(gs)] = <<>>
    PROVE  FlattenSeq(gs) = FlattenSeq(fs)
  <1> DEFINE n == Len(fs)
             m == n + 1
  <1>1. n \in Nat \ {0} /\ n \in Nat /\ fs \in [1 .. n -> Seq(S)] /\ n \in 1 .. n
    BY SeqParts
  <1>2. m \in Nat \ {0} /\ m \in Nat /\ m \in 2 .. m /\ m - 1 = n /\ n <= m
    BY <1>1
  <1>3. Len(gs) = m /\ gs[m] = <<>> /\ Alike(fs, gs, n)
    OBVIOUS
  <1>. HIDE DEF m
  <1>4. PICK f : Unfolds(fs, n, f) /\ FlattenSeq(fs) = f[n]
    BY <1>1, FlattenIs
  <1>5. PICK g : Unfolds(gs, m, g) /\ FlattenSeq(gs) = g[m]
    BY <1>2, <1>3, FlattenIs
  <1>. HIDE DEF n
  <1>6. g[m] = Cat(g[m - 1], gs[m])
    <2>1. \A i \in 2 .. m : g[i] = Cat(g[i - 1], gs[i])
      BY <1>2, <1>5, UnfoldsAre, Zenon
    <2>. QED BY <1>2, <2>1
  <1>7. f[n] = g[n]
    BY <1>1, <1>2, <1>3, <1>4, <1>5, UnfoldsAgree
  <1>8. f[n] \in Seq(S)
    BY <1>1, <1>4, UnfoldsType
  <1>9. Cat(f[n], <<>>) = f[n]
    BY <1>8, ConcatEmptySeq DEF Cat
  <1>. QED BY <1>2, <1>3, <1>4, <1>5, <1>6, <1>7, <1>9

\* The first sequence is what precedes the others.
LEMMA FlattenRest ==
    ASSUME NEW S, NEW fs \in Seq(Seq(S)), NEW gs \in Seq(Seq(S)), gs # <<>>,
           Len(fs) = Len(gs) + 1, Follows(gs, fs, Len(gs))
    PROVE  FlattenSeq(fs) = Cat(fs[1], FlattenSeq(gs))
  <1> DEFINE n == Len(gs)
             m == n + 1
  <1>1. n \in Nat \ {0} /\ gs \in [1 .. n -> Seq(S)]
    BY SeqParts
  <1>2. Len(fs) = m /\ fs \in [1 .. m -> Seq(S)]
    BY SeqParts
  <1>3. m \in Nat \ {0}
    BY <1>1
  <1>4. Follows(gs, fs, n)
    OBVIOUS
  <1>5. m = n + 1
    OBVIOUS
  <1>. HIDE DEF m
  <1>6. PICK g : Unfolds(gs, n, g) /\ FlattenSeq(gs) = g[n]
    BY <1>1, FlattenIs
  <1>7. PICK f : Unfolds(fs, m, f) /\ FlattenSeq(fs) = f[m]
    BY <1>2, <1>3, FlattenIs
  <1>. HIDE DEF n
  <1>8. f[m] = Cat(fs[1], g[n])
    <2>1. AllSeqs(fs, m, S) /\ AllSeqs(gs, n, S)
      BY <1>1, <1>2 DEF AllSeqs
    <2>2. n \in Nat \ {0}
      BY <1>1
    <2>3. Unfolds(fs, m, f) /\ Unfolds(gs, n, g)
      BY <1>6, <1>7
    <2>4. Follows(gs, fs, n)
      BY <1>4
    <2>5. m = n + 1
      BY <1>5
    <2>6. StartsWith(f, m, fs, g, n)
      BY <2>1, <2>2, <2>3, <2>4, <2>5, UnfoldsTail
    <2>. QED BY <2>6 DEF StartsWith
  <1>. QED BY <1>6, <1>7, <1>8

\* The last line of all is that of the last sequence with a line.
LEMMA CatLast ==
    ASSUME NEW S, NEW s \in Seq(S), NEW t \in Seq(S), t # <<>>
    PROVE  Cat(s, t) # <<>> /\ Last(Cat(s, t)) = Last(t)
  <1> DEFINE u == Cat(s, t)
  <1>1. u \in Seq(S) /\ Reads(u, s, t)
    BY CatIs
  <1>. HIDE DEF u
  <1>2. Len(t) \in Nat \ {0}
    BY EmptySeq, LenProperties
  <1>3. Len(u) = Len(s) + Len(t) /\ Len(s) \in Nat /\ u[Len(s) + Len(t)] = t[Len(t)]
    BY <1>1, <1>2 DEF Reads
  <1>4. u # <<>>
    BY <1>2, <1>3, EmptySeq
  <1>. QED BY <1>3, <1>4 DEF u, Last

LEMMA UnfoldsLast ==
    ASSUME NEW S, NEW n \in Nat, NEW fs \in [1 .. n -> Seq(S)], NEW f, Unfolds(fs, n, f),
           NEW k \in 1 .. n, fs[k] # <<>>
    PROVE  f[k] # <<>> /\ Last(f[k]) = Last(fs[k])
  <1>1. fs[k] \in Seq(S)
    OBVIOUS
  <1>2. CASE k = 1
    BY <1>2, UnfoldsAre
  <1>3. CASE k # 1
    <2>1. k \in 2 .. n /\ k - 1 \in 1 .. n
      BY <1>3
    <2>2. f[k] = Cat(f[k - 1], fs[k])
      BY <2>1, UnfoldsAre
    <2>3. f[k - 1] \in Seq(S)
      BY <2>1, UnfoldsType
    <2>. QED BY <1>1, <2>2, <2>3, CatLast
  <1>. QED BY <1>2, <1>3

LEMMA FlattenLast ==
    ASSUME NEW S, NEW fs \in Seq(Seq(S)), fs # <<>>, fs[Len(fs)] # <<>>
    PROVE  FlattenSeq(fs) # <<>> /\ Last(FlattenSeq(fs)) = Last(fs[Len(fs)])
  <1> DEFINE n == Len(fs)
  <1>1. n \in Nat \ {0} /\ n \in Nat /\ fs \in [1 .. n -> Seq(S)] /\ n \in 1 .. n
    BY SeqParts
  <1>2. PICK f : Unfolds(fs, n, f) /\ FlattenSeq(fs) = f[n]
    BY <1>1, FlattenIs
  <1>3. fs[n] # <<>>
    OBVIOUS
  <1>. HIDE DEF n
  <1>4. f[n] # <<>> /\ Last(f[n]) = Last(fs[n])
    BY <1>1, <1>2, <1>3, UnfoldsLast
  <1>. QED BY <1>2, <1>4 DEF n

LEMMA FlattenOne ==
    ASSUME NEW fs, Len(fs) = 1
    PROVE  FlattenSeq(fs) = fs[1]
  <1>0. Len(fs) \in Nat \ {0}
    OBVIOUS
  <1>1. PICK f : Unfolds(fs, Len(fs), f) /\ FlattenSeq(fs) = f[Len(fs)]
    BY <1>0, FlattenIs
  <1>2. Unfolds(fs, 1, f) /\ FlattenSeq(fs) = f[1]
    BY <1>1
  <1>. QED BY <1>2, UnfoldsAre

-----------------------------------------------------------------------------
(* The entries that can be read, as one trail: one process implements      *)
(* AuditTrail.                                                             *)

\* Nothing is lost of what precedes the log.
TrailInv(p) == ChainInv(p) /\ (Log = <<>> /\ Len(content) > 1 => Len(names) > 1)

\* The files that have a name, as a sequence.
LEMMA NamedFiles ==
    ASSUME NEW p \in Proc, TrailInv(p), Faults \subseteq {"kill"}
    PROVE  LET n == Len(names)
               N == Len(content)
           IN  /\ n \in Nat \ {0} /\ N \in Nat \ {0} /\ N - n \in Nat
               /\ names \in Seq(1 .. N)
               /\ Files \in Seq(Lines) /\ Len(Files) = n /\ Files # <<>>
               /\ \A i \in 1 .. n : names[i] = N - n + i /\ Files[i] = content[names[i]]
               /\ Files[n] = Log /\ Log = content[N]
               /\ Log = <<>> /\ N > 1 => n > 1 /\ Files[n - 1] = content[N - 1] /\ Files[n - 1] # <<>>
  <1>0. PICK N : N = Len(content)
    OBVIOUS
  <1>00. PICK n : n = Len(names)
    OBVIOUS
  <1>1. /\ N \in Nat \ {0} /\ content \in Seq(Lines) /\ DOMAIN content = 1 .. N
        /\ Log = content[N]
    BY <1>0, Newest DEF TrailInv
  <1>2. names \in Seq(1 .. N) /\ n \in Nat \ {0} /\ DOMAIN names = 1 .. n
    BY <1>00, <1>1, AuditLogAssumption, LenProperties
       DEF TrailInv, ChainInv, LinkInv, Typed, TypeOK
  <1>3. Chained(Files, n)
    BY <1>00, FilesChained DEF TrailInv
  <1>4. \A i \in 1 .. n : names[i] = N - n + i /\ Files[i] = content[names[i]]
    BY <1>0, <1>00, <1>2 DEF TrailInv, ChainInv, NamesInv, Files
  <1>5. N - n \in Nat
    <2>1. names \in [1 .. n -> 1 .. N]
      BY <1>00, <1>2, LenProperties
    <2>2. 1 \in 1 .. n /\ names[1] \in 1 .. N
      BY <1>2, <2>1
    <2>. QED BY <1>1, <1>2, <1>4, <2>2
  <1>6. Files \in [1 .. n -> Lines]
    BY <1>3 DEF Chained
  <1>7. Files \in Seq(Lines) /\ Len(Files) = n
    <2>1. Files \in Seq(Lines)
      BY <1>2, <1>6, SeqDef
    <2>2. DOMAIN Files = 1 .. n /\ DOMAIN Files = 1 .. Len(Files) /\ Len(Files) \in Nat
      BY <1>6, <2>1, LenProperties
    <2>. QED BY <1>2, <2>1, <2>2
  <1>8. Files # <<>>
    BY <1>2, <1>7, EmptySeq
  <1>9. n \in 1 .. n /\ N - n + n = N
    BY <1>1, <1>2
  <1>10. Files[n] = content[N]
    BY <1>4, <1>9
  <1>11. ASSUME Log = <<>>, N > 1
         PROVE  n > 1 /\ Files[n - 1] = content[N - 1] /\ Files[n - 1] # <<>>
    <2>1. n > 1
      BY <1>0, <1>00, <1>11 DEF TrailInv
    <2>2. n - 1 \in 1 .. n /\ n - 1 \in 1 .. n - 1 /\ N - n + (n - 1) = N - 1
      BY <1>1, <1>2, <2>1
    <2>3. Files[n - 1] = content[N - 1]
      BY <1>4, <2>2
    <2>4. Files[n - 1] # <<>>
      BY <1>3, <2>2 DEF Chained
    <2>. QED BY <2>1, <2>3, <2>4
  <1>. QED BY <1>0, <1>00, <1>1, <1>2, <1>4, <1>5, <1>7, <1>8, <1>10, <1>11

LEMMA MadeSeq ==
    ASSUME NEW T, NEW n \in Nat, NEW t \in [1 .. n -> T]
    PROVE  t \in Seq(T) /\ Len(t) = n
  <1>1. t \in Seq(T)
    BY SeqDef
  <1>2. DOMAIN t = 1 .. n /\ DOMAIN t = 1 .. Len(t) /\ Len(t) \in Nat
    BY <1>1, LenProperties
  <1>. QED BY <1>1, <1>2

LEMMA FlattenEmptyEnd ==
    ASSUME NEW S, NEW fs \in Seq(Seq(S)), Len(fs) > 1, fs[Len(fs)] = <<>>,
           fs[Len(fs) - 1] # <<>>
    PROVE  FlattenSeq(fs) # <<>> /\ Last(FlattenSeq(fs)) = Last(fs[Len(fs) - 1])
  <1> DEFINE R == Seq(S)
             m == Len(fs) - 1
             gs == [i \in 1 .. m |-> fs[i]]
  <1>1. /\ Len(fs) \in Nat /\ m \in Nat \ {0} /\ m \in 1 .. m /\ m + 1 = Len(fs)
        /\ fs \in [1 .. Len(fs) -> R]
    BY SeqParts
  <1>2. \A i \in 1 .. m : i \in 1 .. Len(fs) /\ fs[i] \in R
    BY <1>1
  <1>3. gs \in [1 .. m -> R] /\ m \in Nat
    BY <1>1, <1>2
  <1>. HIDE DEF gs
  <1>4. gs \in Seq(R) /\ Len(gs) = m
    BY <1>3, MadeSeq
  <1>7. gs # <<>>
    BY <1>1, <1>4, EmptySeq
  <1>8. \A i \in 1 .. m : gs[i] = fs[i]
    BY DEF gs
  <1>9. Alike(gs, fs, Len(gs)) /\ gs[Len(gs)] = fs[m] /\ Len(fs) = Len(gs) + 1
    BY <1>1, <1>4, <1>8 DEF Alike
  <1>10. gs \in Seq(Seq(S))
    BY <1>4
  <1>. HIDE DEF m
  <1>11. FlattenSeq(fs) = FlattenSeq(gs)
    BY <1>7, <1>9, <1>10, FlattenEmpty
  <1>12. gs[Len(gs)] # <<>>
    BY <1>9 DEF m
  <1>13. FlattenSeq(gs) # <<>> /\ Last(FlattenSeq(gs)) = Last(gs[Len(gs)])
    BY <1>7, <1>10, <1>12, FlattenLast
  <1>. QED BY <1>9, <1>11, <1>13 DEF m

\* The last entry of the trail is the last of the log or, if the log is empty,
\* of the backup before it.
LEMMA TrailEnd ==
    ASSUME NEW p \in Proc, TrailInv(p), Faults \subseteq {"kill"}
    PROVE  /\ Trail \in Lines
           /\ Log # <<>> => Trail # <<>> /\ Last(Trail) = Last(Log)
           /\ Log = <<>> /\ Len(content) > 1 =>
                 Trail # <<>> /\ Last(Trail) = Last(content[Len(content) - 1])
  <1> DEFINE n == Len(names)
             N == Len(content)
  <1>1. /\ n \in Nat \ {0} /\ N \in Nat \ {0}
        /\ Files \in Seq(Lines) /\ Len(Files) = n /\ Files # <<>>
        /\ Files[n] = Log
        /\ Log = <<>> /\ N > 1 => n > 1 /\ Files[n - 1] = content[N - 1] /\ Files[n - 1] # <<>>
    BY NamedFiles
  <1>2. PICK fs : fs = Files
    OBVIOUS
  <1>3. fs \in Seq(Seq(Line)) /\ fs # <<>>
    BY <1>1, <1>2 DEF Lines
  <1>4. Trail = FlattenSeq(fs) /\ Len(fs) = n /\ fs[n] = Log
    BY <1>1, <1>2 DEF Trail
  <1>5. Trail \in Lines
    BY <1>3, <1>4, FlattenParts DEF Lines
  <1>6. ASSUME Log # <<>>
        PROVE  Trail # <<>> /\ Last(Trail) = Last(Log)
    <2>1. fs[Len(fs)] # <<>>
      BY <1>4, <1>6
    <2>2. FlattenSeq(fs) # <<>> /\ Last(FlattenSeq(fs)) = Last(fs[Len(fs)])
      BY <1>3, <2>1, FlattenLast
    <2>. QED BY <1>4, <2>2
  <1>7. ASSUME Log = <<>>, N > 1
        PROVE  Trail # <<>> /\ Last(Trail) = Last(content[N - 1])
    <2>1. /\ Len(fs) > 1 /\ fs[Len(fs)] = <<>> /\ fs[Len(fs) - 1] # <<>>
          /\ fs[Len(fs) - 1] = content[N - 1]
      BY <1>1, <1>2, <1>4, <1>7
    <2>2. FlattenSeq(fs) # <<>> /\ Last(FlattenSeq(fs)) = Last(fs[Len(fs) - 1])
      BY <1>3, <2>1, FlattenEmptyEnd
    <2>. QED BY <1>4, <2>1, <2>2
  <1>. QED BY <1>5, <1>6, <1>7

LEMMA AppendFront ==
    ASSUME NEW S, NEW s \in Seq(S), NEW x \in S
    PROVE  Append(s, x) # <<>> /\ Front(Append(s, x)) = s /\ Last(Append(s, x)) = x
  <1> DEFINE u == Append(s, x)
  <1>1. /\ u \in Seq(S) /\ u # <<>> /\ Len(u) = Len(s) + 1 /\ Len(s) \in Nat
        /\ \A i \in 1 .. Len(s) : u[i] = s[i]
        /\ u[Len(s) + 1] = x
    BY AppendProperties, LenProperties
  <1>2. s \in [1 .. Len(s) -> S] /\ \A i \in 1 .. Len(s) : u[i] \in S
    BY <1>1, LenProperties, ElementOfSeq
  <1>. HIDE DEF u
  <1>3. Len(u) - 1 = Len(s)
    BY <1>1
  <1> DEFINE f == SubSeq(u, 1, Len(s))
  <1>4. /\ f \in Seq(S) /\ Len(f) = IF 1 <= Len(s) THEN Len(s) - 1 + 1 ELSE 0
        /\ \A i \in 1 .. Len(s) - 1 + 1 : f[i] = u[1 + i - 1]
    BY <1>1, <1>2, SubSeqProperties
  <1>5. Len(f) = Len(s) /\ \A i \in 1 .. Len(s) : f[i] = s[i]
    BY <1>1, <1>4
  <1>. HIDE DEF f
  <1>6. f = s
    BY <1>4, <1>5, SeqEqual
  <1>. QED BY <1>1, <1>3, <1>6 DEF Front, Last, u, f

LEMMA CatRest ==
    ASSUME NEW S, NEW s \in Seq(S), NEW t \in Seq(S)
    PROVE  t = SubSeq(Cat(s, t), Len(s) + 1, Len(Cat(s, t)))
  <1> DEFINE u == Cat(s, t)
  <1>1. u \in Seq(S) /\ Reads(u, s, t)
    BY CatIs
  <1>. HIDE DEF u
  <1>2. /\ Len(s) \in Nat /\ Len(t) \in Nat /\ Len(u) = Len(s) + Len(t)
        /\ \A i \in 1 .. Len(t) : u[Len(s) + i] = t[i]
        /\ \A i \in 1 .. Len(u) : u[i] \in S
    BY <1>1, ElementOfSeq DEF Reads
  <1> DEFINE m == Len(s) + 1
             r == SubSeq(u, m, Len(u))
  <1>3. m \in Int /\ Len(u) \in Int /\ \A i \in m .. Len(u) : u[i] \in S
    BY <1>2
  <1>4. /\ r \in Seq(S) /\ Len(r) = IF m <= Len(u) THEN Len(u) - m + 1 ELSE 0
        /\ \A i \in 1 .. Len(u) - m + 1 : r[i] = u[m + i - 1]
    <2>. HIDE DEF m
    <2>. QED BY <1>3, SubSeqProperties
  <1>5. Len(u) - m + 1 = Len(t) /\ (m <= Len(u) <=> Len(t) # 0)
        /\ \A i \in 1 .. Len(t) : m + i - 1 = Len(s) + i
    BY <1>2
  <1>6. Len(r) = Len(t) /\ \A i \in 1 .. Len(t) : r[i] = t[i]
    <2>. HIDE DEF r, m
    <2>. QED BY <1>2, <1>4, <1>5
  <1>. HIDE DEF r
  <1>7. r = t
    BY <1>2, <1>4, <1>6, SeqEqual
  <1>. QED BY <1>7 DEF r, u

\* A line more in the log is an entry more at the end of the trail.
LEMMA AddLine ==
    ASSUME NEW p \in Proc, TrailInv(p), Faults \subseteq {"kill"},
           NEW l \in Line, l.cur = next,
           l.prev = Genesis \/ (Trail # <<>> /\ l.prev = Last(Trail).cur),
           content' = [content EXCEPT ![Len(content)] = Append(Log, l)],
           names' = names
    PROVE  Readable!Add /\ Log' # <<>>
  <1> DEFINE n == Len(names)
             N == Len(content)
  <1>1. /\ n \in Nat \ {0} /\ N \in Nat \ {0} /\ N - n \in Nat /\ names \in Seq(1 .. N)
        /\ Files \in Seq(Lines) /\ Len(Files) = n /\ Files # <<>>
        /\ \A i \in 1 .. n : names[i] = N - n + i /\ Files[i] = content[names[i]]
        /\ Files[n] = Log /\ Log = content[N]
    BY NamedFiles
  <1>2. content \in Seq(Lines) /\ DOMAIN content = 1 .. N /\ Log \in Lines
    BY Newest DEF TrailInv
  <1>3. DOMAIN names = 1 .. n
    BY <1>1, LenProperties
  <1>. HIDE DEF n, N
  <1>4. Append(Log, l) \in Lines
    BY <1>2, AppendLine
  <1>5. \A i \in 1 .. N : content'[i] = IF i = N THEN Append(Log, l) ELSE content[i]
    <2>1. N \in DOMAIN content
      BY <1>1, <1>2
    <2>. QED BY <1>2, <1>4, <2>1, ContentExcept DEF N
  <1>6. \A i \in 1 .. n : /\ names[i] \in 1 .. N
                          /\ names[i] = N <=> i = n
    BY <1>1
  <1> DEFINE fs == Files
             gs == [i \in 1 .. n |-> IF i = n THEN Append(Log, l) ELSE fs[i]]
  <1>7. Files' = gs
    <2>1. Files' = [i \in 1 .. n |-> content'[names[i]]]
      BY <1>3 DEF Files
    <2>2. \A i \in 1 .. n : content'[names[i]] = IF i = n THEN Append(Log, l) ELSE Files[i]
      BY <1>1, <1>5, <1>6
    <2>. QED BY <2>1, <2>2
  <1>8. Trail = FlattenSeq(fs) /\ Trail' = FlattenSeq(gs)
    BY <1>7 DEF Trail
  <1>9. /\ fs \in Seq(Lines) /\ Len(fs) = n /\ fs # <<>> /\ fs[n] = Log
        /\ \A i \in 1 .. n : fs[i] \in Lines
    BY <1>1, ElementOfSeq
  <1>. HIDE DEF fs
  <1>10. /\ gs \in [1 .. n -> Lines]
         /\ \A i \in 1 .. n : gs[i] = IF i = n THEN Append(fs[n], l) ELSE fs[i]
    BY <1>4, <1>9
  <1>. HIDE DEF gs
  <1>11. gs \in Seq(Lines) /\ Len(gs) = Len(fs)
    BY <1>1, <1>9, <1>10, MadeSeq
  <1>12. gs[Len(fs)] = Append(fs[Len(fs)], l) /\ Alike(fs, gs, Len(fs) - 1)
    <2>1. n \in 1 .. n /\ \A i \in 1 .. n - 1 : i \in 1 .. n /\ i # n
      BY <1>1
    <2>. QED BY <1>9, <1>10, <2>1 DEF Alike
  <1>13. Trail' = Append(Trail, l)
    <2>1. fs \in Seq(Seq(Line)) /\ gs \in Seq(Seq(Line))
      BY <1>9, <1>11 DEF Lines
    <2>2. FlattenSeq(gs) = Append(FlattenSeq(fs), l)
      BY <1>9, <1>11, <1>12, <2>1, FlattenAppend
    <2>. QED BY <1>8, <2>2
  <1>14. Trail \in Seq(Line)
    BY TrailEnd DEF Lines
  <1>15. Trail' # <<>> /\ Front(Trail') = Trail /\ Last(Trail') = l
    BY <1>13, <1>14, AppendFront
  <1>16. ASSUME NEW j \in DOMAIN Trail
         PROVE  Trail[j].cur # l.cur
    <2>1. From(Trail, fs, n)
      <3>1. fs \in Seq(Seq(Line))
        BY <1>9 DEF Lines
      <3>. QED BY <1>8, <1>9, <3>1, FlattenParts
    <2>2. j \in 1 .. Len(Trail)
      BY <1>14, LenProperties
    <2>7. PICK i \in 1 .. n : \E m \in 1 .. Len(fs[i]) : Trail[j] = fs[i][m]
      BY <2>1, <2>2 DEF From
    <2>3. PICK m \in 1 .. Len(fs[i]) : Trail[j] = fs[i][m]
      BY <2>7
    <2>4. fs[i] = content[names[i]] /\ names[i] \in 1 .. N
      BY <1>1, <1>6 DEF fs
    <2>5. fs[i][m].cur \in 1 .. next - 1
      BY <2>4 DEF TrailInv, ChainInv, HashesUnique, N
    <2>6. next \in Nat
      BY DEF TrailInv, ChainInv, LinkInv, Typed, TypeOK
    <2>. QED BY <2>3, <2>5, <2>6
  <1>17. l.prev \in {Genesis} \cup (IF Trail = <<>> THEN {} ELSE {Last(Trail).cur})
    OBVIOUS
  <1>18. Log' # <<>>
    <2>1. Last(names') = N /\ Log' = content'[Last(names')]
      BY <1>1 DEF Last, Log, n
    <2>2. N \in 1 .. N
      BY <1>1
    <2>3. content'[N] = Append(Log, l)
      BY <1>5, <2>2
    <2>4. Append(Log, l) # <<>>
      BY <1>2, AppendLine
    <2>. QED BY <2>1, <2>3, <2>4
  <1>. QED BY <1>15, <1>16, <1>17, <1>18 DEF Readable!Add, Readable!Front, Readable!Last, Front, Last

\* The files after a rollover: those before it with an empty one at the end.
LEMMA RolledFiles ==
    ASSUME NEW p \in Proc, TrailInv(p), Faults \subseteq {"kill"}, Rollover(p)
    PROVE  LET n == Len(names) IN
           \E gs \in Seq(Lines) :
              /\ gs = Files' /\ Len(gs) = n + 1 /\ Len(names') = n + 1
              /\ Alike(Files, gs, n) /\ gs[n + 1] = <<>>
  <1>0. PICK n : n = Len(names)
    OBVIOUS
  <1>00. PICK N : N = Len(content)
    OBVIOUS
  <1>1. /\ n \in Nat \ {0} /\ N \in Nat \ {0} /\ N - n \in Nat /\ names \in Seq(1 .. N)
        /\ Files \in Seq(Lines) /\ Len(Files) = n
        /\ \A i \in 1 .. n : names[i] = N - n + i /\ Files[i] = content[names[i]]
    BY <1>0, <1>00, NamedFiles
  <1>2. content \in Seq(Lines)
    BY Newest DEF TrailInv
  <1>3. /\ content'[N + 1] = <<>> /\ Len(content') = N + 1
        /\ \A i \in 1 .. N : content'[i] = content[i]
    BY <1>00, <1>2, NewFile DEF Rollover, Rename
  <1>4. PICK M : M = N + 1
    OBVIOUS
  <1>5. names \in Seq(1 .. M) /\ M \in 1 .. M
    <2>1. 1 .. N \subseteq 1 .. N + 1 /\ N + 1 \in 1 .. N + 1
      BY <1>1
    <2>. QED BY <1>1, <1>4, <2>1
  <1>6. /\ names' \in Seq(1 .. M) /\ Len(names') = n + 1 /\ DOMAIN names' = 1 .. n + 1
        /\ \A i \in 1 .. n : names'[i] = names[i]
        /\ names'[n + 1] = M
    <2>1. names' = Append(names, M)
      BY <1>3, <1>4 DEF Rollover, Rename
    <2>. QED BY <1>0, <1>5, <2>1, AppendProperties, LenProperties
  <1> DEFINE gs == [i \in 1 .. n + 1 |-> IF i = n + 1 THEN <<>> ELSE Files[i]]
  <1>7. /\ n + 1 \in Nat /\ \A i \in 1 .. n + 1 : i # n + 1 => i \in 1 .. n
        /\ \A i \in 1 .. n : i \in 1 .. n + 1 /\ i # n + 1
        /\ n + 1 \in 1 .. n + 1
    BY <1>1
  <1>8. \A i \in 1 .. n : Files[i] \in Lines
    BY <1>1, ElementOfSeq
  <1>9. <<>> \in Lines
    BY DEF Lines
  <1>10. /\ gs \in [1 .. n + 1 -> Lines] /\ gs[n + 1] = <<>>
         /\ \A i \in 1 .. n : gs[i] = Files[i]
    BY <1>7, <1>8, <1>9
  <1>11. \A i \in 1 .. n + 1 : content'[names'[i]] = gs[i]
    <2> SUFFICES ASSUME NEW i \in 1 .. n + 1
                 PROVE  content'[names'[i]] = gs[i]
      OBVIOUS
    <2>1. CASE i = n + 1
      BY <1>3, <1>4, <1>6, <1>10, <2>1
    <2>2. CASE i # n + 1
      <3>1. i \in 1 .. n
        BY <1>7, <2>2
      <3>2. names[i] \in 1 .. N
        BY <1>0, <1>1, <3>1, ElementOfSeq
      <3>3. names'[i] = names[i] /\ content'[names[i]] = content[names[i]]
        BY <1>3, <1>6, <3>1, <3>2
      <3>4. gs[i] = Files[i] /\ Files[i] = content[names[i]]
        BY <1>1, <1>10, <3>1
      <3>. QED BY <3>3, <3>4
    <2>. QED BY <2>1, <2>2
  <1>. HIDE DEF gs
  <1>12. Files' = gs
    <2>1. Files' = [i \in 1 .. n + 1 |-> content'[names'[i]]]
      BY <1>6 DEF Files
    <2>2. gs = [i \in 1 .. n + 1 |-> gs[i]]
      BY <1>10
    <2>. QED BY <1>11, <2>1, <2>2
  <1>13. gs \in Seq(Lines) /\ Len(gs) = n + 1
    BY <1>7, <1>10, MadeSeq
  <1>14. Alike(Files, gs, n)
    BY <1>10 DEF Alike
  <1>. QED BY <1>0, <1>6, <1>10, <1>12, <1>13, <1>14

\* A rollover changes nothing that can be read.
LEMMA RolloverTrail ==
    ASSUME NEW p \in Proc, TrailInv(p), Faults \subseteq {"kill"}, Rollover(p)
    PROVE  Len(names') > 1 /\ Trail' = Trail
  <1> DEFINE fs == Files
             n == Len(names)
  <1>1. /\ n \in Nat \ {0} /\ fs \in Seq(Lines) /\ Len(fs) = n /\ fs # <<>>
    BY NamedFiles
  <1>2. PICK gs \in Seq(Lines) :
              /\ gs = Files' /\ Len(gs) = n + 1 /\ Len(names') = n + 1
              /\ Alike(fs, gs, n) /\ gs[n + 1] = <<>>
    BY RolledFiles
  <1>3. Trail = FlattenSeq(fs) /\ Trail' = FlattenSeq(gs)
    BY <1>2 DEF Trail
  <1>. HIDE DEF fs, n
  <1>4. fs \in Seq(Seq(Line)) /\ gs \in Seq(Seq(Line))
    BY <1>1, <1>2 DEF Lines
  <1>5. Len(gs) = Len(fs) + 1 /\ Alike(fs, gs, Len(fs)) /\ gs[Len(gs)] = <<>>
    BY <1>1, <1>2
  <1>6. FlattenSeq(gs) = FlattenSeq(fs)
    BY <1>1, <1>4, <1>5, FlattenEmpty
  <1>. QED BY <1>1, <1>2, <1>3, <1>6

\* What the removal of the oldest file takes from the trail is its beginning.
LEMMA RemovedTrail ==
    ASSUME NEW p \in Proc, TrailInv(p), Faults \subseteq {"kill"}, RemoveOldest(p)
    PROVE  Log # <<>> /\ Log' # <<>> /\ Readable!Prune
  <1> DEFINE fs == Files
             n == Len(names)
  <1>1. /\ n \in Nat \ {0} /\ fs \in Seq(Lines) /\ Len(fs) = n /\ fs # <<>> /\ fs[n] = Log
        /\ \A i \in 1 .. n : fs[i] = content[names[i]]
    BY NamedFiles
  <1>2. Log # <<>> /\ Log = content[Len(content)]
    BY Newest, NotOutgrown DEF RemoveOldest, Rotating, TrailInv, ChainInv, PlaceInv
  <1>3. /\ Len(names') = n - 1 /\ \A i \in 1 .. n - 1 : names'[i] = names[i + 1]
        /\ names' \in Seq(DOMAIN content) /\ Len(names') \in 1 .. BackupCount + 1
    BY OneLess DEF TrailInv, ChainInv, LinkInv
  <1>4. PICK m \in Nat \ {0} : m = n - 1 /\ n = m + 1 /\ DOMAIN names' = 1 .. m
    BY <1>1, <1>3, AuditLogAssumption, LenProperties
  <1>5. Chained(fs, n)
    BY FilesChained DEF TrailInv
  <1>6. PICK gs : gs = Files'
    OBVIOUS
  <1>7. Trail = FlattenSeq(fs) /\ Trail' = FlattenSeq(gs)
    BY <1>6 DEF Trail
  <1>8. gs \in [1 .. m -> Lines] /\ \A i \in 1 .. m : gs[i] = fs[i + 1]
    <2>1. content' = content
      BY DEF RemoveOldest
    <2>2. gs = [i \in 1 .. m |-> content[names'[i]]]
      BY <1>4, <1>6, <2>1 DEF Files
    <2>3. \A i \in 1 .. m : i + 1 \in 1 .. n /\ i \in 1 .. n - 1
      BY <1>4
    <2>4. \A i \in 1 .. m : content[names'[i]] = fs[i + 1]
      BY <1>1, <1>3, <2>3
    <2>5. \A i \in 1 .. m : fs[i + 1] \in Lines
      BY <1>1, <2>3, ElementOfSeq
    <2>. HIDE DEF fs
    <2>. QED BY <2>2, <2>4, <2>5
  <1>. HIDE DEF fs, n
  <1>9. gs \in Seq(Lines) /\ Len(gs) = m
    BY <1>8, MadeSeq
  <1>10. fs \in Seq(Seq(Line)) /\ gs \in Seq(Seq(Line)) /\ gs # <<>>
    BY <1>1, <1>4, <1>9, EmptySeq DEF Lines
  <1>11. Len(fs) = Len(gs) + 1 /\ Follows(gs, fs, Len(gs))
    BY <1>1, <1>4, <1>8, <1>9 DEF Follows
  <1>12. Trail = Cat(fs[1], Trail')
    BY <1>7, <1>10, <1>11, FlattenRest
  <1>13. 1 \in 1 .. n /\ 1 \in 1 .. n - 1 /\ m \in 1 .. m
    BY <1>4
  <1>14. fs[1] \in Seq(Line) /\ fs[1] # <<>>
    <2>1. fs[1] # <<>> /\ fs[1] \in Lines
      BY <1>1, <1>5, <1>13, ElementOfSeq DEF Chained
    <2>. QED BY <2>1 DEF Lines
  <1>15. Trail' # <<>> /\ Trail' \in Seq(Line)
    <2>1. gs[Len(gs)] # <<>>
      BY <1>1, <1>2, <1>4, <1>8, <1>9, <1>13
    <2>2. FlattenSeq(gs) # <<>> /\ FlattenSeq(gs) \in Seq(Line)
      BY <1>10, <2>1, FlattenLast, FlattenParts
    <2>. QED BY <1>7, <2>2
  <1> DEFINE k == Len(fs[1])
             t == Trail'
  <1>16. k \in Nat \ {0} /\ Len(t) \in Nat \ {0}
    BY <1>14, <1>15, EmptySeq, LenProperties
  <1>17. t \in Seq(Line) /\ Trail = Cat(fs[1], t)
    BY <1>12, <1>15
  <1>. HIDE DEF t
  <1>18. Len(Trail) = k + Len(t)
    <2>1. Reads(Cat(fs[1], t), fs[1], t)
      BY <1>14, <1>17, CatIs
    <2>. QED BY <1>17, <2>1 DEF Reads
  <1>19. t = SubSeq(Trail, k + 1, Len(Trail))
    <2>1. t = SubSeq(Cat(fs[1], t), Len(fs[1]) + 1, Len(Cat(fs[1], t)))
      BY <1>14, <1>17, CatRest
    <2>. QED BY <1>17, <2>1
  <1>. HIDE DEF k
  <1>20. k \in 1 .. Len(Trail) - 1
    BY <1>16, <1>18
  <1>21. Readable!Prune
    BY <1>19, <1>20 DEF Readable!Prune, t
  <1>22. Log' # <<>>
    <2>1. Log' = content'[Last(names')]
      BY DEF Log
    <2>2. Last(names') = names[n] /\ content' = content /\ Last(names) = names[n]
      <3>1. n - 1 \in 1 .. n - 1 /\ n - 1 + 1 = n
        BY <1>4
      <3>2. names'[n - 1] = names[n]
        BY <1>3, <3>1
      <3>. QED BY <1>3, <3>2 DEF Last, RemoveOldest, n
    <2>. QED BY <1>2, <2>1, <2>2 DEF Log
  <1>. QED BY <1>2, <1>21, <1>22

\* A line that is written follows the last entry of the trail.
LEMMA EmitTrail ==
    ASSUME NEW p \in Proc, TrailInv(p), Faults \subseteq {"kill"}, Emit(p)
    PROVE  Readable!Add /\ Log' # <<>>
  <1>1. /\ what[p] = "event" /\ next \in Nat /\ prev[p] \in Nat
        /\ prev[p] = LastHash(Log) /\ Log \in Lines /\ AllWhole(Log)
        /\ Flushed(p) = Log /\ File(p) = Len(content)
    <2>1. /\ Log = content[Len(content)] /\ Flushed(p) = Log /\ File(p) = Len(content)
          /\ Log \in Lines /\ AllWhole(Log)
      BY Newest DEF TrailInv
    <2>2. prev[p] = LastHash(Log)
      BY <2>1 DEF Emit, TrailInv, ChainInv, PlaceInv
    <2>. QED BY <2>1, <2>2 DEF TrailInv, ChainInv, LinkInv, LocalSound, Typed, TypeOK
  <1>2. PICK l : l = [kind |-> what[p], cur |-> next, prev |-> prev[p]]
    OBVIOUS
  <1>3. l \in Line /\ Whole(l) /\ l.cur = next /\ l.prev = prev[p]
    BY <1>1, <1>2, MadeLines
  <1>4. WriteOk(p, Log, l)
    <2>1. WriteOk(p, Flushed(p), l) \/ WriteFails(p, Flushed(p), l)
      BY <1>2 DEF Emit
    <2>. QED BY <1>1, <2>1, Newest DEF TrailInv
  <1>5. content' = [content EXCEPT ![Len(content)] = Append(Log, l)] /\ names' = names
    BY <1>1, <1>3, <1>4, AppendWhole DEF WriteOk, Emit
  <1>6. l.prev = Genesis \/ (Trail # <<>> /\ l.prev = Last(Trail).cur)
    BY <1>1, <1>3, WholeTail, TrailEnd
  <1>. QED BY <1>3, <1>5, <1>6, AddLine

LEMMA SentinelTrail ==
    ASSUME NEW p \in Proc, TrailInv(p), Faults \subseteq {"kill"}, WriteSentinel(p)
    PROVE  Readable!Add /\ Log' # <<>>
  <1>1. /\ next \in Nat /\ prev[p] \in Nat /\ stream[p] = Len(content)
        /\ Log = <<>> /\ Len(content) > 1 /\ prev[p] = Last(content[Len(content) - 1]).cur
        /\ Log \in Lines /\ AllWhole(Log) /\ File(p) = Len(content)
        /\ Log = content[Len(content)]
    <2>1. /\ Log = content[Len(content)] /\ File(p) = Len(content)
          /\ Log \in Lines /\ AllWhole(Log)
      BY Newest DEF TrailInv
    <2>2. stream[p] = Len(content)
      BY DEF WriteSentinel, TrailInv, ChainInv, PlaceInv, LinkInv, Typed, Open
    <2>. QED BY <2>1, <2>2 DEF WriteSentinel, TrailInv, ChainInv, PlaceInv, LinkInv, Typed, TypeOK
  <1>2. PICK l : l = [kind |-> "rotation", cur |-> next, prev |-> prev[p]]
    OBVIOUS
  <1>3. l \in Line /\ Whole(l) /\ l.cur = next /\ l.prev = prev[p]
    BY <1>1, <1>2, MadeLines
  <1>4. WriteOk(p, Log, l)
    <2>1. WriteOk(p, Log, l) \/ WriteFails(p, Log, l)
      BY <1>1, <1>2 DEF WriteSentinel
    <2>. QED BY <2>1, Newest DEF TrailInv
  <1>5. content' = [content EXCEPT ![Len(content)] = Append(Log, l)] /\ names' = names
    BY <1>1, <1>3, <1>4, AppendWhole DEF WriteOk, WriteSentinel
  <1>6. Trail # <<>> /\ l.prev = Last(Trail).cur
    BY <1>1, <1>3, TrailEnd
  <1>. QED BY <1>3, <1>5, <1>6, AddLine

LEMMA RechainedTrail ==
    ASSUME NEW p \in Proc, TrailInv(p), Faults \subseteq {"kill"}, WriteRechained(p)
    PROVE  Readable!Add /\ Log' # <<>>
  <1>1. /\ next \in Nat /\ prev[p] \in Nat /\ stream[p] = Len(content) /\ what[p] = "event"
        /\ Log # <<>> /\ prev[p] = Last(Log).cur
        /\ Log \in Lines /\ AllWhole(Log) /\ File(p) = Len(content)
    <2>1. /\ Log = content[Len(content)] /\ File(p) = Len(content)
          /\ Log \in Lines /\ AllWhole(Log)
      BY Newest DEF TrailInv
    <2>2. stream[p] = Len(content)
      BY DEF WriteRechained, TrailInv, ChainInv, PlaceInv, LinkInv, Typed, Open
    <2>3. what[p] = "event" /\ next \in Nat /\ prev[p] \in Nat
      BY DEF TrailInv, ChainInv, LinkInv, LocalSound, Typed, TypeOK
    <2>. QED BY <2>1, <2>2, <2>3 DEF WriteRechained, TrailInv, ChainInv, PlaceInv
  <1>2. PICK l : l = [kind |-> what[p], cur |-> next, prev |-> prev[p]]
    OBVIOUS
  <1>3. l \in Line /\ Whole(l) /\ l.cur = next /\ l.prev = prev[p]
    BY <1>1, <1>2, MadeLines
  <1>4. WriteOk(p, Log, l)
    <2>0. content[stream[p]] = Log
      BY <1>1, Newest DEF TrailInv
    <2>1. WriteOk(p, Log, l) \/ WriteFails(p, Log, l)
      BY <1>1, <1>2, <2>0 DEF WriteRechained
    <2>. QED BY <2>1, Newest DEF TrailInv
  <1>5. content' = [content EXCEPT ![Len(content)] = Append(Log, l)] /\ names' = names
    BY <1>1, <1>3, <1>4, AppendWhole DEF WriteOk, WriteRechained
  <1>6. Trail # <<>> /\ l.prev = Last(Trail).cur
    BY <1>1, <1>3, TrailEnd
  <1>. QED BY <1>3, <1>5, <1>6, AddLine

\* The files can be read the same.
LEMMA SameTrail ==
    ASSUME UNCHANGED <<content, names>>
    PROVE  Trail' = Trail
  BY DEF Trail, Files

LEMMA InitTrail ==
    ASSUME NEW p \in Proc, Init
    PROVE  TrailInv(p) /\ Readable!Empty
  <1>1. ChainInv(p) /\ Len(content) = 1
    BY InitChain DEF Init
  <1>2. Len(Files) = 1 /\ Files[1] = <<>>
    <2>1. Files = [i \in 1 .. 1 |-> <<>>]
      BY DEF Init, Files
    <2>2. Files \in [1 .. 1 -> Lines]
      BY <2>1 DEF Lines
    <2>. QED BY <2>1, <2>2, MadeSeq
  <1>3. Trail = <<>>
    BY <1>2, FlattenOne DEF Trail
  <1>. QED BY <1>1, <1>3 DEF TrailInv, Readable!Empty

LEMMA NextTrail ==
    ASSUME NEW p, Proc = {p}, TrailInv(p), Faults \subseteq {"kill"}, [Next]_vars
    PROVE  TrailInv(p)' /\ [Readable!Add \/ Readable!Prune]_Trail
  <1>0. p \in Proc
    OBVIOUS
  <1>1. ChainInv(p)'
    BY NextChain DEF TrailInv
  <1>2. CASE UNCHANGED <<content, names>>
    BY <1>1, <1>2, SameTrail DEF TrailInv, Log
  <1>3. CASE Emit(p) \/ WriteSentinel(p) \/ WriteRechained(p)
    BY <1>0, <1>1, <1>3, EmitTrail, SentinelTrail, RechainedTrail DEF TrailInv
  <1>4. CASE Rollover(p)
    BY <1>0, <1>1, <1>4, RolloverTrail DEF TrailInv
  <1>7. CASE RemoveOldest(p)
    BY <1>0, <1>1, <1>7, RemovedTrail DEF TrailInv
  <1>5. CASE Fits(p) \/ ReadForRotation(p) \/ Exit(p)
    <2>1. content' = [content EXCEPT ![File(p)] = Flushed(p)] /\ names' = names
      BY <1>5 DEF Fits, ReadForRotation, Exit, Close, File
    <2>2. content' = content
      BY <1>0, <2>1, FlushSame DEF TrailInv
    <2>. QED BY <1>2, <2>1, <2>2
  <1>6. CASE ReadTail(p) \/ FlushFails(p) \/ Kill(p) \/ UNCHANGED vars
    BY <1>2, <1>6 DEF ReadTail, FlushFails, Kill, Close, vars
  <1>8. ~ RolloverUnmarked(p)
    BY <1>0, NotOutgrown DEF TrailInv
  <1>. QED BY <1>0, <1>3, <1>4, <1>5, <1>6, <1>7, <1>8 DEF Next, Step

\* log_event() and the rotating handler, killed anywhere, never reorder,
\* alter or lose what was written, but for the oldest entries: one process
\* implements AuditTrail.
THEOREM TrailIsOne ==
    ASSUME NEW p, Proc = {p}, Faults \subseteq {"kill"}
    PROVE  Spec => OneTrail
  <1>1. Init => TrailInv(p) /\ Readable!Empty
    BY InitTrail
  <1>2. TrailInv(p) /\ [Next]_vars =>
            TrailInv(p)' /\ [Readable!Add \/ Readable!Prune]_Trail
    BY NextTrail
  <1>. QED BY <1>1, <1>2, PTL DEF Spec, OneTrail, Readable!TrailSpec
=============================================================================
