--------------------------- MODULE ContainerProofs ---------------------------
(***************************************************************************)
(* Writer and reader of a container header agree, for every header and     *)
(* every file: what is written is what is read, and what is verified is    *)
(* what is in the file.                                                    *)
(***************************************************************************)
EXTENDS Container, SequenceTheorems, TLAPS

LEMMA BytesAreSequences ==
  ASSUME NEW s \in Bytes
  PROVE  /\ Len(s) \in Nat
         /\ \A i \in 1 .. Len(s) : s[i] \in Byte
  BY ElementOfSeq, LenProperties DEF Bytes

LEMMA AsciiIsBytes == Ascii \subseteq Bytes
  BY SeqMonotonic DEF Ascii, Bytes, Byte

LEMMA EmptyIsBytes == <<>> \in Bytes /\ Len(<<>>) = 0
  BY EmptySeq DEF Bytes

LEMMA Joined ==
  ASSUME NEW a \in Bytes, NEW b \in Bytes
  PROVE  /\ a \o b \in Bytes
         /\ Len(a \o b) = Len(a) + Len(b)
         /\ \A i \in 1 .. Len(a) : (a \o b)[i] = a[i]
         /\ \A i \in 1 .. Len(b) : (a \o b)[Len(a) + i] = b[i]
  <1>1. /\ a \o b \in Bytes
        /\ Len(a \o b) = Len(a) + Len(b)
        /\ \A i \in 1 .. Len(a) + Len(b) :
              (a \o b)[i] = IF i <= Len(a) THEN a[i] ELSE b[i - Len(a)]
    BY ConcatProperties DEF Bytes
  <1>2. Len(a) \in Nat /\ Len(b) \in Nat
    BY BytesAreSequences
  <1>3. ASSUME NEW i \in 1 .. Len(a) PROVE (a \o b)[i] = a[i]
    <2>1. i \in 1 .. Len(a) + Len(b) /\ i <= Len(a)
      BY <1>2
    <2>. QED BY <1>1, <2>1
  <1>4. ASSUME NEW i \in 1 .. Len(b) PROVE (a \o b)[Len(a) + i] = b[i]
    <2>1. Len(a) + i \in 1 .. Len(a) + Len(b) /\ ~ (Len(a) + i <= Len(a)) /\ (Len(a) + i) - Len(a) = i
      BY <1>2
    <2>. QED BY <1>1, <2>1
  <1>. QED BY <1>1, <1>3, <1>4

\* A part of a byte sequence.
LEMMA Part ==
  ASSUME NEW s \in Bytes, NEW m \in Nat \ {0}, NEW n \in Int, n <= Len(s)
  PROVE  /\ SubSeq(s, m, n) \in Bytes
         /\ Len(SubSeq(s, m, n)) = IF m <= n THEN n - m + 1 ELSE 0
         /\ \A i \in 1 .. n - m + 1 : SubSeq(s, m, n)[i] = s[m + i - 1]
  <1>1. \A i \in m .. n : s[i] \in Byte
    BY BytesAreSequences
  <1>. QED BY <1>1, SubSeqProperties DEF Bytes

\* Cutting a concatenation where it was joined.
LEMMA Cut ==
  ASSUME NEW a \in Bytes, NEW b \in Bytes
  PROVE  /\ SubSeq(a \o b, 1, Len(a)) = a
         /\ SubSeq(a \o b, Len(a) + 1, Len(a \o b)) = b
  <1>1. Len(a) \in Nat /\ Len(b) \in Nat
    BY BytesAreSequences
  <1>2. /\ a \o b \in Bytes /\ Len(a \o b) = Len(a) + Len(b)
        /\ \A i \in 1 .. Len(a) : (a \o b)[i] = a[i]
        /\ \A i \in 1 .. Len(b) : (a \o b)[Len(a) + i] = b[i]
    BY Joined
  <1>3. SubSeq(a \o b, 1, Len(a)) = a
    <2>1. CASE Len(a) = 0
      <3>1. SubSeq(a \o b, 1, Len(a)) = <<>>
        BY <2>1, SubSeqEmpty
      <3>. QED BY <2>1, <3>1, EmptySeq DEF Bytes
    <2>2. CASE Len(a) # 0
      <3>1. Len(a) \in 1 .. Len(a) /\ 1 \in 1 .. Len(a)
        BY <1>1, <2>2
      <3>2. SubSeq(a \o b, 1, Len(a)) = SubSeq(a, 1, Len(a))
        BY <3>1, SubSeqOfConcat1 DEF Bytes
      <3>. QED BY <3>2, SubSeqFull DEF Bytes
    <2>. QED BY <2>1, <2>2
  <1>4. SubSeq(a \o b, Len(a) + 1, Len(a \o b)) = b
    <2>1. CASE Len(b) = 0
      <3>1. Len(a \o b) < Len(a) + 1 /\ Len(a \o b) \in Int /\ Len(a) + 1 \in Int
        BY <1>1, <1>2, <2>1
      <3>2. SubSeq(a \o b, Len(a) + 1, Len(a \o b)) = <<>>
        BY <3>1, SubSeqEmpty
      <3>. QED BY <2>1, <3>2, EmptySeq DEF Bytes
    <2>2. CASE Len(b) # 0
      <3> DEFINE m == Len(a) + 1
                 n == Len(a) + Len(b)
      <3>1. m \in Len(a) + 1 .. Len(a) + Len(b) /\ n \in Len(a) + 1 .. Len(a) + Len(b)
        BY <1>1, <2>2
      <3>2. m - Len(a) = 1 /\ n - Len(a) = Len(b)
        BY <1>1
      <3>. HIDE DEF m, n
      <3>3. SubSeq(a \o b, m, n) = SubSeq(b, m - Len(a), n - Len(a))
        BY <3>1, SubSeqOfConcat2 DEF Bytes
      <3>4. SubSeq(a \o b, m, n) = b
        BY <3>2, <3>3, SubSeqFull DEF Bytes
      <3>. QED BY <1>2, <3>4 DEF m, n
    <2>. QED BY <2>1, <2>2
  <1>. QED BY <1>3, <1>4

\* Joining what was cut.
LEMMA Glued ==
  ASSUME NEW s \in Bytes, NEW n \in 0 .. Len(s)
  PROVE  s = SubSeq(s, 1, n) \o SubSeq(s, n + 1, Len(s))
  <1>1. Len(s) \in Nat
    BY BytesAreSequences
  <1>2. /\ 1 \in 1 .. Len(s) + 1 /\ n \in 1 - 1 .. Len(s) /\ Len(s) \in n .. Len(s)
        /\ s \in Seq(Byte)
    BY <1>1 DEF Bytes
  <1>3. SubSeq(s, 1, n) \o SubSeq(s, n + 1, Len(s)) = SubSeq(s, 1, Len(s))
    BY <1>2, ConcatAdjacentSubSeq
  <1>. QED BY <1>3, SubSeqFull DEF Bytes

LEMMA Associative ==
  ASSUME NEW a \in Bytes, NEW b \in Bytes, NEW c \in Bytes
  PROVE  (a \o b) \o c = a \o (b \o c)
  BY ConcatAssociative DEF Bytes

LEMMA NothingJoined ==
  ASSUME NEW a \in Bytes
  PROVE  <<>> \o a = a
  BY ConcatEmptySeq DEF Bytes

-----------------------------------------------------------------------------
(* One field *)

\* The limits, whose values are hidden from what follows.
LEMMA Limits ==
  /\ MAX_U16_FIELD_LEN \in Nat /\ MAX_CLASSIFICATION_LEN \in Nat
  /\ MAX_PUBKEY_RAW_LEN \in 1 .. MAX_U16_FIELD_LEN
  /\ MAX_KEY_ID_LEN \in 1 .. MAX_U16_FIELD_LEN
  /\ MAX_U16_FIELD_LEN \in 1 .. MAX_U16_FIELD_LEN
  BY DEF MAX_U16_FIELD_LEN, MAX_CLASSIFICATION_LEN, MAX_PUBKEY_RAW_LEN, MAX_KEY_ID_LEN

LEMMA U16IsTwoBytes ==
  ASSUME NEW n \in 0 .. MAX_U16_FIELD_LEN
  PROVE  /\ U16(n) \in Bytes /\ Len(U16(n)) = 2
         /\ U16(n)[1] = n \div 256 /\ U16(n)[2] = n % 256
         /\ 256 * (n \div 256) + (n % 256) = n
  <1>1. n \in Nat /\ n < 65536
    BY DEF MAX_U16_FIELD_LEN
  <1>2. n \div 256 \in 0 .. 255 /\ n % 256 \in 0 .. 255 /\ 256 * (n \div 256) + (n % 256) = n
    BY <1>1
  <1>. QED BY <1>2 DEF U16, Bytes, Byte

LEMMA TwoBytesAreU16 ==
  ASSUME NEW a \in Byte, NEW b \in Byte
  PROVE  U16(256 * a + b) = <<a, b>>
  <1>1. (256 * a + b) \div 256 = a /\ (256 * a + b) % 256 = b
    BY DEF Byte
  <1>. QED BY <1>1 DEF U16

\* A field within a limit of the reader is within the limit of the writer.
LEMMA TakesLess ==
  ASSUME NEW f \in Bytes, NEW present \in BOOLEAN,
         NEW max \in {MAX_PUBKEY_RAW_LEN, MAX_KEY_ID_LEN}, Takes(f, present, max)
  PROVE  Takes(f, present, MAX_U16_FIELD_LEN) /\ Len(f) <= max
  <1>1. max \in 1 .. MAX_U16_FIELD_LEN /\ MAX_U16_FIELD_LEN \in Nat
    BY Limits
  <1>2. Len(f) \in Nat
    BY BytesAreSequences
  <1>3. CASE present
    BY <1>1, <1>2, <1>3 DEF Takes
  <1>4. CASE ~ present
    BY <1>1, <1>4, EmptyIsBytes DEF Takes
  <1>. QED BY <1>3, <1>4

LEMMA FieldIsBytes ==
  ASSUME NEW f \in Bytes, NEW present \in BOOLEAN, Takes(f, present, MAX_U16_FIELD_LEN)
  PROVE  Field(f, present) \in Bytes
  <1>1. CASE present
    <2>1. Len(f) \in 0 .. MAX_U16_FIELD_LEN
      BY <1>1, Limits DEF Takes
    <2>. QED BY <1>1, <2>1, U16IsTwoBytes, Joined DEF Field
  <1>2. CASE ~ present
    BY <1>2, EmptyIsBytes DEF Field
  <1>. QED BY <1>1, <1>2

\* What the reader makes of a field that the writer has written.
LEMMA FieldRead ==
  ASSUME NEW f \in Bytes, NEW t \in Bytes, NEW present \in BOOLEAN, Takes(f, present, MAX_U16_FIELD_LEN),
         NEW max \in Nat
  PROVE  LET s == Field(f, present) \o t IN
         /\ s \in Bytes
         /\ Value(s, present) = f /\ After(s, present) = t
         /\ Len(f) <= max => Fits(s, present, max)
  <1> DEFINE s == Field(f, present) \o t
  <1>1. CASE ~ present
    <2>1. s = t
      BY <1>1, NothingJoined DEF Field
    <2>. QED BY <1>1, <2>1 DEF Value, After, Fits, Takes
  <1>2. CASE present
    <2> DEFINE n == Len(f)
               u == U16(n)
    <2>1. n \in 1 .. MAX_U16_FIELD_LEN
      BY <1>2 DEF Takes
    <2>2. /\ u \in Bytes /\ Len(u) = 2
          /\ u[1] = n \div 256 /\ u[2] = n % 256 /\ 256 * (n \div 256) + (n % 256) = n
      <3>1. n \in 0 .. MAX_U16_FIELD_LEN
        BY <2>1, Limits
      <3>. QED BY <3>1, U16IsTwoBytes
    <2>3. s = (u \o f) \o t
      BY <1>2 DEF Field
    <2>. HIDE DEF s, u, n
    <2>4. /\ u \o f \in Bytes /\ Len(u \o f) = 2 + n
          /\ (u \o f)[1] = u[1] /\ (u \o f)[2] = u[2]
      <3>1. u \in Bytes /\ Len(u) = 2
        BY <2>2
      <3>2. 1 \in 1 .. Len(u) /\ 2 \in 1 .. Len(u)
        BY <3>1
      <3>3. /\ u \o f \in Bytes /\ Len(u \o f) = Len(u) + Len(f)
            /\ \A i \in 1 .. Len(u) : (u \o f)[i] = u[i]
        BY <3>1, Joined
      <3>. QED BY <3>1, <3>2, <3>3 DEF n
    <2>5. /\ s \in Bytes /\ Len(s) = 2 + n + Len(t)
          /\ s[1] = u[1] /\ s[2] = u[2]
      <3>1. 1 \in 1 .. Len(u \o f) /\ 2 \in 1 .. Len(u \o f)
        BY <2>1, <2>4
      <3>. QED BY <2>3, <2>4, <3>1, Joined
    <2>6. Length(s) = n
      BY <2>2, <2>5 DEF Length
    <2>7. SubSeq(s, 3 + n, Len(s)) = t
      <3>1. SubSeq((u \o f) \o t, Len(u \o f) + 1, Len((u \o f) \o t)) = t
        BY <2>4, Cut
      <3>2. Len(u \o f) + 1 = 3 + n
        BY <2>1, <2>4
      <3>. QED BY <2>3, <3>1, <3>2
    <2>8. SubSeq(s, 3, 2 + n) = f
      <3>1. 3 \in 1 .. Len(u \o f) /\ 2 + n \in 1 .. Len(u \o f)
        BY <2>1, <2>4
      <3>2. SubSeq(s, 3, 2 + n) = SubSeq(u \o f, 3, 2 + n)
        BY <2>3, <2>4, <3>1, SubSeqOfConcat1 DEF Bytes
      <3>3. SubSeq(u \o f, Len(u) + 1, Len(u \o f)) = f
        BY <2>2, Cut
      <3>. QED BY <2>2, <2>4, <3>2, <3>3
    <2>9. Len(t) \in Nat
      BY BytesAreSequences
    <2>10. n <= max => Len(s) >= 2 /\ n \in 1 .. max /\ Len(s) >= 2 + n
      BY <2>1, <2>5, <2>9
    <2>11. s \in Bytes /\ Value(s, present) = f /\ After(s, present) = t
      BY <1>2, <2>5, <2>6, <2>7, <2>8 DEF Value, After
    <2>12. n <= max => Fits(s, present, max)
      BY <1>2, <2>6, <2>10 DEF Fits
    <2>. QED BY <2>11, <2>12 DEF s, n
  <1>. QED BY <1>1, <1>2

\* What the writer would have written for a field that the reader accepts.
LEMMA FieldWritten ==
  ASSUME NEW s \in Bytes, NEW present \in BOOLEAN, NEW max \in 1 .. MAX_U16_FIELD_LEN,
         Fits(s, present, max)
  PROVE  /\ Value(s, present) \in Bytes /\ After(s, present) \in Bytes
         /\ Takes(Value(s, present), present, max)
         /\ Field(Value(s, present), present) \o After(s, present) = s
  <1>1. CASE ~ present
    BY <1>1, EmptyIsBytes, NothingJoined DEF Value, After, Takes, Field
  <1>2. CASE present
    <2> DEFINE n == Length(s)
               v == SubSeq(s, 3, 2 + n)
               a == SubSeq(s, 3 + n, Len(s))
               u == SubSeq(s, 1, 2)
    <2>1. Len(s) \in Nat /\ Len(s) >= 2 + n /\ n \in 1 .. max
      BY <1>2, BytesAreSequences DEF Fits
    <2>2. s[1] \in Byte /\ s[2] \in Byte
      <3>1. 1 \in 1 .. Len(s) /\ 2 \in 1 .. Len(s)
        BY <2>1
      <3>. QED BY <3>1, BytesAreSequences
    <2>3. v \in Bytes /\ Len(v) = n
      <3>1. 3 \in Nat \ {0} /\ 2 + n \in Int /\ 2 + n <= Len(s) /\ 3 <= 2 + n /\ (2 + n) - 3 + 1 = n
        BY <2>1
      <3>. HIDE DEF n
      <3>. QED BY <3>1, Part
    <2>4. a \in Bytes
      <3>1. 3 + n \in Nat \ {0} /\ Len(s) \in Int /\ Len(s) <= Len(s)
        BY <2>1
      <3>. HIDE DEF n
      <3>. QED BY <3>1, Part
    <2>5. u = U16(n)
      <3>1. /\ u \in Bytes /\ Len(u) = 2
            /\ \A i \in 1 .. 2 - 1 + 1 : u[i] = s[1 + i - 1]
        <4>1. 1 \in Nat \ {0} /\ 2 \in Int /\ 2 <= Len(s) /\ 1 <= 2 /\ 2 - 1 + 1 = 2
          BY <2>1
        <4>. QED BY <4>1, Part
      <3>. HIDE DEF u
      <3>2. 1 \in 1 .. 2 - 1 + 1 /\ 2 \in 1 .. 2 - 1 + 1 /\ 1 + 1 - 1 = 1 /\ 1 + 2 - 1 = 2
        OBVIOUS
      <3>3. u[1] = s[1] /\ u[2] = s[2]
        BY <3>1, <3>2
      <3>4. <<s[1], s[2]>> \in Bytes /\ Len(<<s[1], s[2]>>) = 2
        BY <2>2 DEF Bytes
      <3>5. \A i \in 1 .. Len(u) : u[i] = <<s[1], s[2]>>[i]
        BY <3>1, <3>3
      <3>6. u = <<s[1], s[2]>>
        BY <3>1, <3>4, <3>5, SeqEqual DEF Bytes
      <3>. QED BY <2>2, <3>6, TwoBytesAreU16 DEF Length
    <2>6. u \in Bytes
      <3>1. n \in 0 .. MAX_U16_FIELD_LEN
        BY <2>1, Limits
      <3>. QED BY <2>5, <3>1, U16IsTwoBytes
    <2>7. s = u \o SubSeq(s, 3, Len(s))
      <3>1. 2 \in 0 .. Len(s) /\ 2 + 1 = 3
        BY <2>1
      <3>. QED BY <3>1, Glued
    <2>8. SubSeq(s, 3, Len(s)) = v \o a
      <3> DEFINE k == 2 + n
      <3>1. /\ 3 \in 1 .. Len(s) + 1 /\ k \in 3 - 1 .. Len(s) /\ Len(s) \in k .. Len(s)
            /\ s \in Seq(Byte)
        BY <2>1 DEF Bytes
      <3>2. k + 1 = 3 + n
        BY <2>1
      <3>. HIDE DEF k
      <3>3. SubSeq(s, 3, k) \o SubSeq(s, k + 1, Len(s)) = SubSeq(s, 3, Len(s))
        BY <3>1, ConcatAdjacentSubSeq
      <3>. QED BY <3>2, <3>3 DEF k
    <2>. HIDE DEF u, v, a, n
    <2>9. s = (u \o v) \o a
      <3>1. (u \o v) \o a = u \o (v \o a)
        BY <2>3, <2>4, <2>6, Associative
      <3>. QED BY <2>7, <2>8, <3>1
    <2>10. Value(s, present) = v /\ After(s, present) = a
      BY <1>2 DEF Value, After, v, a, n
    <2>11. Takes(v, present, max)
      BY <1>2, <2>1, <2>3 DEF Takes
    <2>12. Field(v, present) = u \o v
      BY <1>2, <2>3, <2>5 DEF Field
    <2>. QED BY <2>3, <2>4, <2>9, <2>10, <2>11, <2>12
  <1>. QED BY <1>1, <1>2

\* The same for a field with a length of one byte.
LEMMA ShortFieldIsBytes ==
  ASSUME NEW f \in Bytes, NEW present \in BOOLEAN, Takes(f, present, MAX_CLASSIFICATION_LEN)
  PROVE  ShortField(f, present) \in Bytes
  <1>1. CASE present
    <2>1. Len(f) \in Byte
      BY <1>1 DEF Takes, Byte, MAX_CLASSIFICATION_LEN
    <2>2. <<Len(f)>> \in Bytes
      BY <2>1 DEF Bytes
    <2>. QED BY <1>1, <2>2, Joined DEF ShortField
  <1>2. CASE ~ present
    BY <1>2, EmptyIsBytes DEF ShortField
  <1>. QED BY <1>1, <1>2

LEMMA ShortFieldRead ==
  ASSUME NEW f \in Bytes, NEW t \in Bytes, NEW present \in BOOLEAN, Takes(f, present, MAX_CLASSIFICATION_LEN)
  PROVE  LET s == ShortField(f, present) \o t IN
         /\ s \in Bytes
         /\ ShortValue(s, present) = f /\ ShortAfter(s, present) = t
         /\ ShortFits(s, present, MAX_CLASSIFICATION_LEN)
  <1> DEFINE s == ShortField(f, present) \o t
  <1>1. CASE ~ present
    <2>1. s = t
      BY <1>1, NothingJoined DEF ShortField
    <2>. QED BY <1>1, <2>1 DEF ShortValue, ShortAfter, ShortFits, Takes
  <1>2. CASE present
    <2> DEFINE n == Len(f)
               u == <<n>>
    <2>1. n \in 1 .. 255
      BY <1>2 DEF Takes, MAX_CLASSIFICATION_LEN
    <2>2. u \in Bytes /\ Len(u) = 1 /\ u[1] = n
      BY <2>1 DEF Bytes, Byte
    <2>3. s = (u \o f) \o t
      BY <1>2 DEF ShortField
    <2>. HIDE DEF s, u, n
    <2>4. u \o f \in Bytes /\ Len(u \o f) = 1 + n /\ (u \o f)[1] = n
      <3>1. /\ u \o f \in Bytes /\ Len(u \o f) = Len(u) + Len(f)
            /\ \A i \in 1 .. Len(u) : (u \o f)[i] = u[i]
        BY <2>2, Joined
      <3>2. 1 \in 1 .. Len(u)
        BY <2>2
      <3>. QED BY <2>2, <3>1, <3>2 DEF n
    <2>5. s \in Bytes /\ Len(s) = 1 + n + Len(t) /\ s[1] = n
      <3>1. 1 \in 1 .. Len(u \o f)
        BY <2>1, <2>4
      <3>. QED BY <2>3, <2>4, <3>1, Joined
    <2>6. SubSeq(s, 2 + n, Len(s)) = t
      <3>1. SubSeq((u \o f) \o t, Len(u \o f) + 1, Len((u \o f) \o t)) = t
        BY <2>4, Cut
      <3>2. Len(u \o f) + 1 = 2 + n
        BY <2>1, <2>4
      <3>. QED BY <2>3, <3>1, <3>2
    <2>7. SubSeq(s, 2, 1 + n) = f
      <3>1. 2 \in 1 .. Len(u \o f) /\ 1 + n \in 1 .. Len(u \o f)
        BY <2>1, <2>4
      <3>2. SubSeq(s, 2, 1 + n) = SubSeq(u \o f, 2, 1 + n)
        BY <2>3, <2>4, <3>1, SubSeqOfConcat1 DEF Bytes
      <3>3. SubSeq(u \o f, Len(u) + 1, Len(u \o f)) = f
        BY <2>2, Cut
      <3>. QED BY <2>2, <2>4, <3>2, <3>3
    <2>8. Len(t) \in Nat
      BY BytesAreSequences
    <2>9. Len(s) >= 1 /\ n \in 1 .. 255 /\ Len(s) >= 1 + n
      BY <2>1, <2>5, <2>8
    <2>10. ShortValue(s, present) = f /\ ShortAfter(s, present) = t
      BY <1>2, <2>5, <2>6, <2>7 DEF ShortValue, ShortAfter
    <2>11. ShortFits(s, present, MAX_CLASSIFICATION_LEN)
      BY <1>2, <2>5, <2>9 DEF ShortFits, MAX_CLASSIFICATION_LEN
    <2>. QED BY <2>5, <2>10, <2>11 DEF s
  <1>. QED BY <1>1, <1>2

LEMMA ShortFieldWritten ==
  ASSUME NEW s \in Bytes, NEW present \in BOOLEAN, ShortFits(s, present, MAX_CLASSIFICATION_LEN)
  PROVE  /\ ShortValue(s, present) \in Bytes /\ ShortAfter(s, present) \in Bytes
         /\ Takes(ShortValue(s, present), present, MAX_CLASSIFICATION_LEN)
         /\ ShortField(ShortValue(s, present), present) \o ShortAfter(s, present) = s
  <1>1. CASE ~ present
    BY <1>1, EmptyIsBytes, NothingJoined DEF ShortValue, ShortAfter, Takes, ShortField
  <1>2. CASE present
    <2> DEFINE n == s[1]
               v == SubSeq(s, 2, 1 + n)
               a == SubSeq(s, 2 + n, Len(s))
               u == SubSeq(s, 1, 1)
    <2>1. Len(s) \in Nat /\ Len(s) >= 1 + n /\ n \in 1 .. 255
      BY <1>2, BytesAreSequences DEF ShortFits, MAX_CLASSIFICATION_LEN
    <2>. HIDE DEF n
    <2>2. v \in Bytes /\ Len(v) = n
      <3>1. 2 \in Nat \ {0} /\ 1 + n \in Int /\ 1 + n <= Len(s) /\ 2 <= 1 + n /\ (1 + n) - 2 + 1 = n
        BY <2>1
      <3>. QED BY <3>1, Part
    <2>3. a \in Bytes
      <3>1. 2 + n \in Nat \ {0} /\ Len(s) \in Int /\ Len(s) <= Len(s)
        BY <2>1
      <3>. QED BY <3>1, Part
    <2>4. <<n>> \in Bytes /\ Len(<<n>>) = 1
      BY <2>1 DEF Bytes, Byte
    <2>5. u = <<n>>
      <3>1. /\ u \in Bytes /\ Len(u) = 1
            /\ \A i \in 1 .. 1 - 1 + 1 : u[i] = s[1 + i - 1]
        <4>1. 1 \in Nat \ {0} /\ 1 \in Int /\ 1 <= Len(s) /\ 1 <= 1 /\ 1 - 1 + 1 = 1
          BY <2>1
        <4>. QED BY <4>1, Part
      <3>. HIDE DEF u
      <3>2. 1 \in 1 .. 1 - 1 + 1 /\ 1 + 1 - 1 = 1
        OBVIOUS
      <3>3. u[1] = n
        BY <3>1, <3>2 DEF n
      <3>4. \A i \in 1 .. Len(u) : u[i] = <<n>>[i]
        BY <3>1, <3>3
      <3>. QED BY <2>4, <3>1, <3>4, SeqEqual DEF Bytes
    <2>6. s = u \o SubSeq(s, 2, Len(s))
      <3>1. 1 \in 0 .. Len(s) /\ 1 + 1 = 2
        BY <2>1
      <3>. QED BY <3>1, Glued
    <2>7. SubSeq(s, 2, Len(s)) = v \o a
      <3> DEFINE k == 1 + n
      <3>1. /\ 2 \in 1 .. Len(s) + 1 /\ k \in 2 - 1 .. Len(s) /\ Len(s) \in k .. Len(s)
            /\ s \in Seq(Byte)
        BY <2>1 DEF Bytes
      <3>2. k + 1 = 2 + n
        BY <2>1
      <3>. HIDE DEF k
      <3>3. SubSeq(s, 2, k) \o SubSeq(s, k + 1, Len(s)) = SubSeq(s, 2, Len(s))
        BY <3>1, ConcatAdjacentSubSeq
      <3>. QED BY <3>2, <3>3 DEF k
    <2>8. ShortValue(s, present) = v /\ ShortAfter(s, present) = a
      BY <1>2 DEF ShortValue, ShortAfter, n
    <2>9. Takes(v, present, MAX_CLASSIFICATION_LEN)
      BY <1>2, <2>1, <2>2 DEF Takes, MAX_CLASSIFICATION_LEN
    <2>10. ShortField(v, present) = u \o v
      BY <1>2, <2>2, <2>5 DEF ShortField
    <2>. HIDE DEF u, v, a
    <2>11. s = (u \o v) \o a
      <3>1. (u \o v) \o a = u \o (v \o a)
        BY <2>2, <2>3, <2>4, <2>5, Associative
      <3>. QED BY <2>6, <2>7, <3>1
    <2>. QED BY <2>2, <2>3, <2>8, <2>9, <2>10, <2>11
  <1>. QED BY <1>1, <1>2

-----------------------------------------------------------------------------
(* The header *)

LEMMA MagicIsBytes == Magic \in Bytes /\ Len(Magic) = 4
  BY DEF Magic, Bytes, Byte

LEMMA FixedPart ==
  ASSUME NEW h \in Header, NEW t \in Bytes
  PROVE  LET s == Fixed(h) \o t IN
         /\ Fixed(h) \in Bytes /\ Len(Fixed(h)) = 8 /\ s \in Bytes
         /\ Len(s) >= 8 /\ SubSeq(s, 1, 4) = Magic
         /\ s[5] = h.version /\ s[6] = h.key_wrap_id /\ s[7] = h.sig_method_id /\ s[8] = 0
         /\ After8(s) = t
  <1> DEFINE i == <<h.version, h.key_wrap_id, h.sig_method_id, 0>>
             s == Fixed(h) \o t
  <1>1. /\ i \in Bytes /\ Len(i) = 4
        /\ i[1] = h.version /\ i[2] = h.key_wrap_id /\ i[3] = h.sig_method_id /\ i[4] = 0
    BY DEF Header, Bytes, Byte, RSA, ECC
  <1>2. Fixed(h) = Magic \o i
    BY DEF Fixed
  <1>. HIDE DEF i
  <1>3. /\ Fixed(h) \in Bytes /\ Len(Fixed(h)) = 8
        /\ \A j \in 1 .. 4 : Fixed(h)[4 + j] = i[j]
    <2>1. Magic \in Bytes /\ i \in Bytes /\ Len(Magic) = 4 /\ Len(i) = 4
      BY <1>1, MagicIsBytes
    <2>2. /\ Magic \o i \in Bytes /\ Len(Magic \o i) = Len(Magic) + Len(i)
          /\ \A j \in 1 .. Len(i) : (Magic \o i)[Len(Magic) + j] = i[j]
      BY <2>1, Joined
    <2>. QED BY <1>2, <2>1, <2>2
  <1>4. /\ s \in Bytes /\ Len(s) = 8 + Len(t) /\ Len(t) \in Nat
        /\ \A j \in 1 .. 8 : s[j] = Fixed(h)[j]
    <2>1. /\ s \in Bytes /\ Len(s) = Len(Fixed(h)) + Len(t)
          /\ \A j \in 1 .. Len(Fixed(h)) : s[j] = Fixed(h)[j]
      BY <1>3, Joined
    <2>2. Len(t) \in Nat
      BY BytesAreSequences
    <2>. QED BY <1>3, <2>1, <2>2
  <1>5. s = Magic \o (i \o t) /\ i \o t \in Bytes
    <2>1. (Magic \o i) \o t = Magic \o (i \o t)
      BY <1>1, MagicIsBytes, Associative
    <2>2. i \o t \in Bytes
      BY <1>1, Joined
    <2>. QED BY <1>2, <2>1, <2>2
  <1>6. SubSeq(s, 1, 4) = Magic
    <2>1. SubSeq(Magic \o (i \o t), 1, Len(Magic)) = Magic
      BY <1>5, MagicIsBytes, Cut
    <2>. QED BY <1>5, <2>1, MagicIsBytes
  <1>7. After8(s) = t
    <2>1. SubSeq(s, Len(Fixed(h)) + 1, Len(s)) = t
      BY <1>3, Cut
    <2>2. Len(Fixed(h)) + 1 = 9
      BY <1>3
    <2>. QED BY <2>1, <2>2 DEF After8
  <1>. HIDE DEF s
  <1>8. s[5] = i[1] /\ s[6] = i[2] /\ s[7] = i[3] /\ s[8] = i[4]
    <2>1. /\ 4 + 1 = 5 /\ 4 + 2 = 6 /\ 4 + 3 = 7 /\ 4 + 4 = 8
          /\ 1 \in 1 .. 4 /\ 2 \in 1 .. 4 /\ 3 \in 1 .. 4 /\ 4 \in 1 .. 4
          /\ 5 \in 1 .. 8 /\ 6 \in 1 .. 8 /\ 7 \in 1 .. 8 /\ 8 \in 1 .. 8
      OBVIOUS
    <2>. QED BY <1>3, <1>4, <2>1
  <1>9. Len(s) >= 8
    BY <1>4
  <1>. QED BY <1>1, <1>3, <1>4, <1>6, <1>7, <1>8, <1>9 DEF s

\* Everything the reader finds in a file that begins with a written header.
LEMMA WrittenIsRead ==
  ASSUME NEW h, Writable(h), NEW t \in Bytes
  PROVE  LET s == Region(h) \o t IN
         /\ Region(h) \in Bytes /\ s \in Bytes
         /\ Parsed(s) = h /\ AtSignature(s) = t
         /\ WithinLimits(h) => Parses(s)
  <1> DEFINE v == h.version
             f0 == Fixed(h)
             f1 == Field(h.wrapped_dek, TRUE)
             f2 == Field(h.sender_pubkey_raw, h.key_wrap_id = ECC)
             f3 == h.base_nonce
             f4 == Field(h.key_id, HasKeyId(v))
             f5 == Field(h.sign_key_id, HasSignKeyId(v))
             f6 == ShortField(h.classification, HasClassification(v))
             t6 == f6 \o t
             t5 == f5 \o t6
             t4 == f4 \o t5
             t3 == f3 \o t4
             t2 == f2 \o t3
             t1 == f1 \o t2
             s == Region(h) \o t
  <1>1. /\ h \in Header
        /\ Takes(h.wrapped_dek, TRUE, MAX_U16_FIELD_LEN)
        /\ Takes(h.sender_pubkey_raw, h.key_wrap_id = ECC, MAX_U16_FIELD_LEN)
        /\ Len(h.base_nonce) = 8
        /\ Takes(h.key_id, HasKeyId(v), MAX_U16_FIELD_LEN)
        /\ Takes(h.sign_key_id, HasSignKeyId(v), MAX_U16_FIELD_LEN)
        /\ Takes(h.classification, HasClassification(v), MAX_CLASSIFICATION_LEN)
    BY DEF Writable
  <1>2. /\ h.wrapped_dek \in Bytes /\ h.sender_pubkey_raw \in Bytes /\ h.base_nonce \in Bytes
        /\ h.key_id \in Bytes /\ h.sign_key_id \in Bytes /\ h.classification \in Bytes
        /\ HasKeyId(v) \in BOOLEAN /\ HasSignKeyId(v) \in BOOLEAN /\ HasClassification(v) \in BOOLEAN
        /\ (h.key_wrap_id = ECC) \in BOOLEAN
    BY <1>1, AsciiIsBytes DEF Header, HasKeyId, HasSignKeyId, HasClassification
  <1>3. /\ f1 \in Bytes /\ f2 \in Bytes /\ f3 \in Bytes /\ f4 \in Bytes /\ f5 \in Bytes /\ f6 \in Bytes
    BY <1>1, <1>2, FieldIsBytes, ShortFieldIsBytes
  <1>4. /\ t6 \in Bytes /\ ShortValue(t6, HasClassification(v)) = h.classification
        /\ ShortAfter(t6, HasClassification(v)) = t /\ ShortFits(t6, HasClassification(v), MAX_CLASSIFICATION_LEN)
    BY <1>1, <1>2, ShortFieldRead
  <1>5. /\ t5 \in Bytes /\ Value(t5, HasSignKeyId(v)) = h.sign_key_id
        /\ After(t5, HasSignKeyId(v)) = t6
        /\ Len(h.sign_key_id) <= MAX_KEY_ID_LEN => Fits(t5, HasSignKeyId(v), MAX_KEY_ID_LEN)
    <2>. HIDE DEF t6
    <2>. QED BY <1>1, <1>2, <1>4, FieldRead, Limits
  <1>6. /\ t4 \in Bytes /\ Value(t4, HasKeyId(v)) = h.key_id /\ After(t4, HasKeyId(v)) = t5
        /\ Len(h.key_id) <= MAX_KEY_ID_LEN => Fits(t4, HasKeyId(v), MAX_KEY_ID_LEN)
    <2>. HIDE DEF t5
    <2>. QED BY <1>1, <1>2, <1>5, FieldRead, Limits
  <1>7. /\ t3 \in Bytes /\ Front8(t3) = h.base_nonce /\ After8(t3) = t4 /\ Len(t3) >= 8
    <2>. HIDE DEF t4
    <2>1. SubSeq(t3, 1, Len(f3)) = f3 /\ SubSeq(t3, Len(f3) + 1, Len(t3)) = t4
      BY <1>3, <1>6, Cut
    <2>2. t3 \in Bytes /\ Len(t3) = Len(f3) + Len(t4) /\ Len(t4) \in Nat
      BY <1>3, <1>6, Joined, BytesAreSequences
    <2>. HIDE DEF t3
    <2>3. Len(f3) = 8 /\ Len(f3) + 1 = 9 /\ Len(t3) >= 8
      BY <1>1, <2>2
    <2>. QED BY <2>1, <2>2, <2>3 DEF Front8, After8
  <1>8. /\ t2 \in Bytes /\ Value(t2, h.key_wrap_id = ECC) = h.sender_pubkey_raw
        /\ After(t2, h.key_wrap_id = ECC) = t3
        /\ Len(h.sender_pubkey_raw) <= MAX_PUBKEY_RAW_LEN => Fits(t2, h.key_wrap_id = ECC, MAX_PUBKEY_RAW_LEN)
    <2>. HIDE DEF t3
    <2> DEFINE b == (h.key_wrap_id = ECC)
               w == h.sender_pubkey_raw
    <2>1. /\ w \in Bytes /\ t3 \in Bytes /\ b \in BOOLEAN /\ Takes(w, b, MAX_U16_FIELD_LEN)
          /\ MAX_PUBKEY_RAW_LEN \in Nat
      BY <1>1, <1>2, <1>7, Limits
    <2>. HIDE DEF b, w
    <2>2. LET z == Field(w, b) \o t3 IN
          /\ z \in Bytes /\ Value(z, b) = w /\ After(z, b) = t3
          /\ Len(w) <= MAX_PUBKEY_RAW_LEN => Fits(z, b, MAX_PUBKEY_RAW_LEN)
      BY <2>1, FieldRead
    <2>. QED BY <2>2 DEF b, w
  <1>9. /\ t1 \in Bytes /\ Value(t1, TRUE) = h.wrapped_dek /\ After(t1, TRUE) = t2
        /\ Fits(t1, TRUE, MAX_U16_FIELD_LEN)
    <2>. HIDE DEF t2
    <2>1. Len(h.wrapped_dek) <= MAX_U16_FIELD_LEN
      BY <1>1, Limits DEF Takes
    <2>. QED BY <1>1, <1>2, <1>8, <2>1, FieldRead, Limits
  <1>10. f0 \in Bytes
    BY <1>1, EmptyIsBytes, FixedPart
  <1>11. Region(h) = f0 \o f1 \o f2 \o f3 \o f4 \o f5 \o f6
    BY DEF Region
  <1>12. Region(h) \in Bytes /\ s = f0 \o t1
    <2>. HIDE DEF f0, f1, f2, f3, f4, f5, f6
    <2>1. /\ f0 \o f1 \in Bytes
          /\ f0 \o f1 \o f2 \in Bytes
          /\ f0 \o f1 \o f2 \o f3 \in Bytes
          /\ f0 \o f1 \o f2 \o f3 \o f4 \in Bytes
          /\ f0 \o f1 \o f2 \o f3 \o f4 \o f5 \in Bytes
          /\ f0 \o f1 \o f2 \o f3 \o f4 \o f5 \o f6 \in Bytes
      BY <1>3, <1>10, Joined
    <2>2. s = f0 \o f1 \o f2 \o f3 \o f4 \o f5 \o t6
      <3> DEFINE g == f0 \o f1 \o f2 \o f3 \o f4 \o f5
      <3>1. g \in Bytes /\ f6 \in Bytes /\ t \in Bytes
        BY <1>3, <2>1
      <3>. HIDE DEF g
      <3>2. (g \o f6) \o t = g \o (f6 \o t)
        BY <3>1, Associative
      <3>. QED BY <1>11, <3>2 DEF g
    <2>. HIDE DEF t6
    <2>3. s = f0 \o f1 \o f2 \o f3 \o f4 \o t5
      <3> DEFINE g == f0 \o f1 \o f2 \o f3 \o f4
      <3>1. g \in Bytes /\ f5 \in Bytes /\ t6 \in Bytes
        BY <1>3, <1>4, <2>1
      <3>. HIDE DEF g
      <3>2. (g \o f5) \o t6 = g \o (f5 \o t6)
        BY <3>1, Associative
      <3>. QED BY <2>2, <3>2 DEF g
    <2>. HIDE DEF t5
    <2>4. s = f0 \o f1 \o f2 \o f3 \o t4
      <3> DEFINE g == f0 \o f1 \o f2 \o f3
      <3>1. g \in Bytes /\ f4 \in Bytes /\ t5 \in Bytes
        BY <1>3, <1>5, <2>1
      <3>. HIDE DEF g
      <3>2. (g \o f4) \o t5 = g \o (f4 \o t5)
        BY <3>1, Associative
      <3>. QED BY <2>3, <3>2 DEF g
    <2>. HIDE DEF t4
    <2>5. s = f0 \o f1 \o f2 \o t3
      <3> DEFINE g == f0 \o f1 \o f2
      <3>1. g \in Bytes /\ f3 \in Bytes /\ t4 \in Bytes
        BY <1>3, <1>6, <2>1
      <3>. HIDE DEF g
      <3>2. (g \o f3) \o t4 = g \o (f3 \o t4)
        BY <3>1, Associative
      <3>. QED BY <2>4, <3>2 DEF g
    <2>. HIDE DEF t3
    <2>6. s = f0 \o f1 \o t2
      <3> DEFINE g == f0 \o f1
      <3>1. g \in Bytes /\ f2 \in Bytes /\ t3 \in Bytes
        BY <1>3, <1>7, <2>1
      <3>. HIDE DEF g
      <3>2. (g \o f2) \o t3 = g \o (f2 \o t3)
        BY <3>1, Associative
      <3>. QED BY <2>5, <3>2 DEF g
    <2>. HIDE DEF t2
    <2>7. s = f0 \o t1
      <3>1. (f0 \o f1) \o t2 = f0 \o (f1 \o t2)
        BY <1>3, <1>8, <1>10, Associative
      <3>. QED BY <2>6, <3>1
    <2>. QED BY <1>11, <2>1, <2>7
  <1>. HIDE DEF s, t1, t2, t3, t4, t5, t6
  <1>13. /\ s \in Bytes /\ Len(s) >= 8 /\ SubSeq(s, 1, 4) = Magic
         /\ s[5] = v /\ s[6] = h.key_wrap_id /\ s[7] = h.sig_method_id /\ s[8] = 0
         /\ After8(s) = t1
    BY <1>1, <1>9, <1>12, FixedPart
  <1>14. /\ AtPubkey(s) = t2 /\ AtNonce(s) = t3 /\ AtKeyId(s) = t4
         /\ AtSignKeyId(s) = t5 /\ AtClassification(s) = t6 /\ AtSignature(s) = t
    BY <1>4, <1>5, <1>6, <1>7, <1>8, <1>9, <1>13
    DEF AtPubkey, AtNonce, AtKeyId, AtSignKeyId, AtClassification, AtSignature
  <1>15. Parsed(s) =
           [version |-> h.version, key_wrap_id |-> h.key_wrap_id, sig_method_id |-> h.sig_method_id,
            wrapped_dek |-> h.wrapped_dek, sender_pubkey_raw |-> h.sender_pubkey_raw,
            base_nonce |-> h.base_nonce, key_id |-> h.key_id, sign_key_id |-> h.sign_key_id,
            classification |-> h.classification]
    BY <1>4, <1>5, <1>6, <1>7, <1>8, <1>9, <1>13, <1>14 DEF Parsed
  <1>16. Parsed(s) = h
    BY <1>1, <1>15 DEF Header
  <1>17. h.version \in 1 .. 4 /\ h.key_wrap_id \in {RSA, ECC} /\ h.sig_method_id \in {RSA, ECC}
    BY <1>1 DEF Header
  <1>18. WithinLimits(h) => Parses(s)
    BY <1>1, <1>4, <1>5, <1>6, <1>7, <1>8, <1>9, <1>13, <1>14, <1>16, <1>17 DEF WithinLimits, Parses
  <1>. QED BY <1>12, <1>13, <1>14, <1>16, <1>18 DEF s

-----------------------------------------------------------------------------
(* What follows *)

\* build_signed_region and read_and_verify_header: a header that is written,
\* in any version and whatever follows it in the file, is read back as it was,
\* unless a key id or a public key is longer than the reader allows, and the
\* reader goes on where the header ends.
THEOREM RoundTrip ==
  ASSUME NEW h, Writable(h), WithinLimits(h), NEW t \in Bytes
  PROVE  /\ Parses(Region(h) \o t)
         /\ Parsed(Region(h) \o t) = h
         /\ AtSignature(Region(h) \o t) = t
  BY WrittenIsRead

\* The signature over the signed region is a signature of one header only: no
\* two headers have the same bytes, nor the bytes of one the beginning of the
\* bytes of another, whatever their versions.
THEOREM OneHeader ==
  ASSUME NEW g, NEW h, Writable(g), Writable(h), NEW s \in Bytes, NEW t \in Bytes,
         Region(g) \o s = Region(h) \o t
  PROVE  g = h /\ s = t
  <1>1. Parsed(Region(g) \o s) = g /\ AtSignature(Region(g) \o s) = s
    BY WrittenIsRead
  <1>2. Parsed(Region(h) \o t) = h /\ AtSignature(Region(h) \o t) = t
    BY WrittenIsRead
  <1>. QED BY <1>1, <1>2

\* read_and_verify_header verifies a region that it builds again from the
\* fields it parsed: these are the bytes of the file up to the signature, for
\* every file that parses, whoever made it, and they could have been written.
THEOREM VerifiedIsRead ==
  ASSUME NEW s \in Bytes, Parses(s)
  PROVE  /\ Writable(Parsed(s)) /\ WithinLimits(Parsed(s))
         /\ Region(Parsed(s)) \o AtSignature(s) = s
  <1> DEFINE v == s[5]
             p == Parsed(s)
             t1 == After8(s)
             t2 == AtPubkey(s)
             t3 == AtNonce(s)
             t4 == AtKeyId(s)
             t5 == AtSignKeyId(s)
             t6 == AtClassification(s)
             t == AtSignature(s)
             f0 == Fixed(p)
             f1 == Field(p.wrapped_dek, TRUE)
             f2 == Field(p.sender_pubkey_raw, p.key_wrap_id = ECC)
             f3 == p.base_nonce
             f4 == Field(p.key_id, HasKeyId(p.version))
             f5 == Field(p.sign_key_id, HasSignKeyId(p.version))
             f6 == ShortField(p.classification, HasClassification(p.version))
  <1>1. /\ p.version = v /\ p.key_wrap_id = s[6] /\ p.sig_method_id = s[7]
        /\ p.wrapped_dek = Value(t1, TRUE)
        /\ p.sender_pubkey_raw = Value(t2, p.key_wrap_id = ECC)
        /\ p.base_nonce = Front8(t3)
        /\ p.key_id = Value(t4, HasKeyId(v))
        /\ p.sign_key_id = Value(t5, HasSignKeyId(v))
        /\ p.classification = ShortValue(t6, HasClassification(v))
    BY DEF Parsed
  <1>2. /\ Len(s) >= 8 /\ SubSeq(s, 1, 4) = Magic
        /\ v \in 1 .. 4 /\ s[6] \in {RSA, ECC} /\ s[7] \in {RSA, ECC} /\ s[8] = 0
        /\ Fits(t1, TRUE, MAX_U16_FIELD_LEN) /\ Fits(t2, s[6] = ECC, MAX_PUBKEY_RAW_LEN)
        /\ Len(t3) >= 8
        /\ Fits(t4, HasKeyId(v), MAX_KEY_ID_LEN) /\ Fits(t5, HasSignKeyId(v), MAX_KEY_ID_LEN)
        /\ ShortFits(t6, HasClassification(v), MAX_CLASSIFICATION_LEN)
        /\ p \in Header
    BY DEF Parses
  <1>3. /\ HasKeyId(v) \in BOOLEAN /\ HasSignKeyId(v) \in BOOLEAN /\ HasClassification(v) \in BOOLEAN
        /\ (s[6] = ECC) \in BOOLEAN
    BY DEF HasKeyId, HasSignKeyId, HasClassification
  <1>4. /\ t2 = After(t1, TRUE) /\ t3 = After(t2, s[6] = ECC) /\ t4 = After8(t3)
        /\ t5 = After(t4, HasKeyId(v)) /\ t6 = After(t5, HasSignKeyId(v))
        /\ t = ShortAfter(t6, HasClassification(v))
    BY DEF AtPubkey, AtNonce, AtKeyId, AtSignKeyId, AtClassification, AtSignature
  <1>. HIDE DEF p, t1, t2, t3, t4, t5, t6, t
  <1>5. t1 \in Bytes /\ s = f0 \o t1
    <2> DEFINE a == SubSeq(s, 1, 8)
    <2>1. Len(s) \in Nat
      BY BytesAreSequences
    <2>2. 8 \in 0 .. Len(s) /\ 8 + 1 = 9
      BY <1>2, <2>1
    <2>3. s = a \o t1
      BY <2>2, Glued DEF t1, After8
    <2>4. t1 \in Bytes
      BY <2>1, Part DEF t1, After8
    <2>5. /\ a \in Bytes /\ Len(a) = 8
          /\ \A i \in 1 .. 8 : a[i] = s[i]
      <3>1. /\ a \in Bytes /\ Len(a) = 8
            /\ \A i \in 1 .. 8 - 1 + 1 : a[i] = s[1 + i - 1]
        <4>1. 1 \in Nat \ {0} /\ 8 \in Int /\ 8 <= Len(s) /\ 1 <= 8 /\ 8 - 1 + 1 = 8
          BY <1>2
        <4>. QED BY <4>1, Part
      <3>. HIDE DEF a
      <3>2. \A i \in 1 .. 8 : i \in 1 .. 8 - 1 + 1 /\ 1 + i - 1 = i
        OBVIOUS
      <3>. QED BY <3>1, <3>2
    <2>. HIDE DEF a
    <2>6. f0 \in Bytes /\ Len(f0) = 8
      BY <1>2, EmptyIsBytes, FixedPart
    <2>7. \A i \in 1 .. 4 : f0[i] = s[i]
      <3>1. /\ f0 \o <<>> = f0
            /\ SubSeq(f0 \o <<>>, 1, 4) = Magic
        <4>1. SubSeq(f0 \o <<>>, 1, 4) = Magic
          BY <1>2, EmptyIsBytes, FixedPart
        <4>. QED BY <2>6, <4>1, ConcatEmptySeq DEF Bytes
      <3>2. \A i \in 1 .. 4 - 1 + 1 : SubSeq(f0, 1, 4)[i] = f0[1 + i - 1]
        <4>1. 1 \in Nat \ {0} /\ 4 \in Int /\ 4 <= Len(f0)
          BY <2>6
        <4>. HIDE DEF f0
        <4>. QED BY <2>6, <4>1, Part
      <3>3. \A i \in 1 .. 4 - 1 + 1 : SubSeq(s, 1, 4)[i] = s[1 + i - 1]
        <4>1. 1 \in Nat \ {0} /\ 4 \in Int /\ 4 <= Len(s)
          BY <1>2, <2>1
        <4>. QED BY <4>1, Part
      <3>4. \A i \in 1 .. 4 : i \in 1 .. 4 - 1 + 1 /\ 1 + i - 1 = i
        OBVIOUS
      <3>. HIDE DEF f0
      <3>. QED BY <1>2, <3>1, <3>2, <3>3, <3>4
    <2>8. f0[5] = s[5] /\ f0[6] = s[6] /\ f0[7] = s[7] /\ f0[8] = s[8]
      <3>1. f0 \o <<>> = f0
        BY <2>6, ConcatEmptySeq DEF Bytes
      <3>2. LET z == f0 \o <<>> IN
            z[5] = p.version /\ z[6] = p.key_wrap_id /\ z[7] = p.sig_method_id /\ z[8] = 0
        BY <1>2, EmptyIsBytes, FixedPart
      <3>. HIDE DEF f0
      <3>. QED BY <1>1, <1>2, <3>1, <3>2
    <2>. HIDE DEF f0
    <2>9. \A i \in 1 .. Len(a) : a[i] = f0[i]
      <3>1. \A i \in 1 .. 8 : i \in 1 .. 4 \/ i = 5 \/ i = 6 \/ i = 7 \/ i = 8
        OBVIOUS
      <3>. QED BY <2>5, <2>7, <2>8, <3>1
    <2>10. a = f0
      BY <2>5, <2>6, <2>9, SeqEqual DEF Bytes
    <2>. QED BY <2>3, <2>4, <2>10
  <1>6. /\ t2 \in Bytes /\ f1 \in Bytes /\ t1 = f1 \o t2
        /\ Takes(p.wrapped_dek, TRUE, MAX_U16_FIELD_LEN)
    <2>1. /\ Value(t1, TRUE) \in Bytes /\ After(t1, TRUE) \in Bytes
          /\ Takes(Value(t1, TRUE), TRUE, MAX_U16_FIELD_LEN)
          /\ Field(Value(t1, TRUE), TRUE) \o After(t1, TRUE) = t1
      BY <1>2, <1>5, FieldWritten, Limits
    <2>. QED BY <1>1, <1>4, <2>1, FieldIsBytes
  <1>7. /\ t3 \in Bytes /\ f2 \in Bytes /\ t2 = f2 \o t3
        /\ Takes(p.sender_pubkey_raw, p.key_wrap_id = ECC, MAX_PUBKEY_RAW_LEN)
    <2> DEFINE b == (s[6] = ECC)
    <2>1. /\ Value(t2, b) \in Bytes /\ After(t2, b) \in Bytes
          /\ Takes(Value(t2, b), b, MAX_PUBKEY_RAW_LEN)
          /\ Field(Value(t2, b), b) \o After(t2, b) = t2
      BY <1>2, <1>3, <1>6, FieldWritten, Limits
    <2>2. Takes(Value(t2, b), b, MAX_U16_FIELD_LEN)
      BY <1>3, <2>1, TakesLess
    <2>3. Field(Value(t2, b), b) \in Bytes
      BY <1>3, <2>1, <2>2, FieldIsBytes
    <2>. QED BY <1>1, <1>4, <2>1, <2>3
  <1>8. /\ t4 \in Bytes /\ f3 \in Bytes /\ t3 = f3 \o t4 /\ Len(f3) = 8
    <2>1. Len(t3) \in Nat
      BY <1>7, BytesAreSequences
    <2>2. 8 \in 0 .. Len(t3) /\ 8 + 1 = 9
      BY <1>2, <2>1
    <2>3. t3 = SubSeq(t3, 1, 8) \o SubSeq(t3, 9, Len(t3))
      BY <1>7, <2>2, Glued
    <2>4. SubSeq(t3, 1, 8) \in Bytes /\ Len(SubSeq(t3, 1, 8)) = 8
      <3>1. 1 \in Nat \ {0} /\ 8 \in Int /\ 8 <= Len(t3) /\ 1 <= 8 /\ 8 - 1 + 1 = 8
        BY <1>2
      <3>. QED BY <1>7, <3>1, Part
    <2>5. SubSeq(t3, 9, Len(t3)) \in Bytes
      BY <1>7, <2>1, Part
    <2>. QED BY <1>1, <1>4, <2>3, <2>4, <2>5 DEF Front8, After8
  <1>9. /\ t5 \in Bytes /\ f4 \in Bytes /\ t4 = f4 \o t5
        /\ Takes(p.key_id, HasKeyId(p.version), MAX_KEY_ID_LEN)
    <2> DEFINE b == HasKeyId(v)
    <2>1. /\ Value(t4, b) \in Bytes /\ After(t4, b) \in Bytes
          /\ Takes(Value(t4, b), b, MAX_KEY_ID_LEN)
          /\ Field(Value(t4, b), b) \o After(t4, b) = t4
      BY <1>2, <1>3, <1>8, FieldWritten, Limits
    <2>2. Takes(Value(t4, b), b, MAX_U16_FIELD_LEN)
      BY <1>3, <2>1, TakesLess
    <2>3. Field(Value(t4, b), b) \in Bytes
      BY <1>3, <2>1, <2>2, FieldIsBytes
    <2>. QED BY <1>1, <1>4, <2>1, <2>3
  <1>10. /\ t6 \in Bytes /\ f5 \in Bytes /\ t5 = f5 \o t6
         /\ Takes(p.sign_key_id, HasSignKeyId(p.version), MAX_KEY_ID_LEN)
    <2> DEFINE b == HasSignKeyId(v)
    <2>1. /\ Value(t5, b) \in Bytes /\ After(t5, b) \in Bytes
          /\ Takes(Value(t5, b), b, MAX_KEY_ID_LEN)
          /\ Field(Value(t5, b), b) \o After(t5, b) = t5
      BY <1>2, <1>3, <1>9, FieldWritten, Limits
    <2>2. Takes(Value(t5, b), b, MAX_U16_FIELD_LEN)
      BY <1>3, <2>1, TakesLess
    <2>3. Field(Value(t5, b), b) \in Bytes
      BY <1>3, <2>1, <2>2, FieldIsBytes
    <2>. QED BY <1>1, <1>4, <2>1, <2>3
  <1>11. /\ t \in Bytes /\ f6 \in Bytes /\ t6 = f6 \o t
         /\ Takes(p.classification, HasClassification(p.version), MAX_CLASSIFICATION_LEN)
    <2> DEFINE b == HasClassification(v)
    <2>1. /\ ShortValue(t6, b) \in Bytes /\ ShortAfter(t6, b) \in Bytes
          /\ Takes(ShortValue(t6, b), b, MAX_CLASSIFICATION_LEN)
          /\ ShortField(ShortValue(t6, b), b) \o ShortAfter(t6, b) = t6
      BY <1>2, <1>3, <1>10, ShortFieldWritten
    <2>2. ShortField(ShortValue(t6, b), b) \in Bytes
      BY <1>3, <2>1, ShortFieldIsBytes
    <2>. QED BY <1>1, <1>4, <2>1, <2>2
  <1>12. f0 \in Bytes
    BY <1>2, EmptyIsBytes, FixedPart
  <1>13. Region(p) = f0 \o f1 \o f2 \o f3 \o f4 \o f5 \o f6
    BY DEF Region
  <1>14. s = Region(p) \o t
    <2>. HIDE DEF f0, f1, f2, f3, f4, f5, f6
    <2>1. /\ f0 \o f1 \in Bytes
          /\ f0 \o f1 \o f2 \in Bytes
          /\ f0 \o f1 \o f2 \o f3 \in Bytes
          /\ f0 \o f1 \o f2 \o f3 \o f4 \in Bytes
          /\ f0 \o f1 \o f2 \o f3 \o f4 \o f5 \in Bytes
      BY <1>6, <1>7, <1>8, <1>9, <1>10, <1>12, Joined
    <2>2. s = f0 \o f1 \o t2
      <3>1. (f0 \o f1) \o t2 = f0 \o (f1 \o t2)
        BY <1>6, <1>12, Associative
      <3>. QED BY <1>5, <1>6, <3>1
    <2>3. s = f0 \o f1 \o f2 \o t3
      <3> DEFINE g == f0 \o f1
      <3>1. g \in Bytes /\ f2 \in Bytes /\ t3 \in Bytes
        BY <1>7, <2>1
      <3>. HIDE DEF g
      <3>2. (g \o f2) \o t3 = g \o (f2 \o t3)
        BY <3>1, Associative
      <3>. QED BY <1>7, <2>2, <3>2 DEF g
    <2>4. s = f0 \o f1 \o f2 \o f3 \o t4
      <3> DEFINE g == f0 \o f1 \o f2
      <3>1. g \in Bytes /\ f3 \in Bytes /\ t4 \in Bytes
        BY <1>8, <2>1
      <3>. HIDE DEF g
      <3>2. (g \o f3) \o t4 = g \o (f3 \o t4)
        BY <3>1, Associative
      <3>. QED BY <1>8, <2>3, <3>2 DEF g
    <2>5. s = f0 \o f1 \o f2 \o f3 \o f4 \o t5
      <3> DEFINE g == f0 \o f1 \o f2 \o f3
      <3>1. g \in Bytes /\ f4 \in Bytes /\ t5 \in Bytes
        BY <1>9, <2>1
      <3>. HIDE DEF g
      <3>2. (g \o f4) \o t5 = g \o (f4 \o t5)
        BY <3>1, Associative
      <3>. QED BY <1>9, <2>4, <3>2 DEF g
    <2>6. s = f0 \o f1 \o f2 \o f3 \o f4 \o f5 \o t6
      <3> DEFINE g == f0 \o f1 \o f2 \o f3 \o f4
      <3>1. g \in Bytes /\ f5 \in Bytes /\ t6 \in Bytes
        BY <1>10, <2>1
      <3>. HIDE DEF g
      <3>2. (g \o f5) \o t6 = g \o (f5 \o t6)
        BY <3>1, Associative
      <3>. QED BY <1>10, <2>5, <3>2 DEF g
    <2>7. s = f0 \o f1 \o f2 \o f3 \o f4 \o f5 \o f6 \o t
      <3> DEFINE g == f0 \o f1 \o f2 \o f3 \o f4 \o f5
      <3>1. g \in Bytes /\ f6 \in Bytes /\ t \in Bytes
        BY <1>11, <2>1
      <3>. HIDE DEF g
      <3>2. (g \o f6) \o t = g \o (f6 \o t)
        BY <3>1, Associative
      <3>. QED BY <1>11, <2>6, <3>2 DEF g
    <2>. QED BY <1>13, <2>7
  <1>15. Writable(p)
    <2>1. /\ Takes(p.sender_pubkey_raw, p.key_wrap_id = ECC, MAX_U16_FIELD_LEN)
          /\ Takes(p.key_id, HasKeyId(p.version), MAX_U16_FIELD_LEN)
          /\ Takes(p.sign_key_id, HasSignKeyId(p.version), MAX_U16_FIELD_LEN)
      <3>1. /\ p.sender_pubkey_raw \in Bytes /\ p.key_id \in Bytes /\ p.sign_key_id \in Bytes
            /\ HasKeyId(p.version) \in BOOLEAN /\ HasSignKeyId(p.version) \in BOOLEAN
            /\ (p.key_wrap_id = ECC) \in BOOLEAN
        BY <1>1, <1>2, <1>3, AsciiIsBytes DEF Header
      <3>. QED BY <1>7, <1>9, <1>10, <3>1, TakesLess
    <2>. QED BY <1>2, <1>6, <1>8, <1>11, <2>1 DEF Writable
  <1>16. WithinLimits(p)
    <2>1. /\ p.sender_pubkey_raw \in Bytes /\ p.key_id \in Bytes /\ p.sign_key_id \in Bytes
          /\ HasKeyId(p.version) \in BOOLEAN /\ HasSignKeyId(p.version) \in BOOLEAN
          /\ (p.key_wrap_id = ECC) \in BOOLEAN
      BY <1>1, <1>2, <1>3, AsciiIsBytes DEF Header
    <2>. QED BY <1>7, <1>9, <1>10, <2>1, TakesLess DEF WithinLimits
  <1>. QED BY <1>14, <1>15, <1>16 DEF p, t
=============================================================================
