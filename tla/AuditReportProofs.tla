-------------------------- MODULE AuditReportProofs --------------------------
(***************************************************************************)
(* Proofs about AuditReport: what verify_chain() answers about a log that  *)
(* one process writes at the same time, killed anywhere, is so unless a    *)
(* rotation is under way before the answer.                                *)
(***************************************************************************)
EXTENDS AuditReport, AuditLogProofs

-----------------------------------------------------------------------------
(* What verify_chain() has found out, while nobody rotates.  The reader r   *)
(* is about the files fs, of which n have a name.                           *)

Reports ==
    [at : {"look", "first", "read", "done"}, look : Nat, files : Seq(Nat), index : Nat,
     expected : Nat, ok : BOOLEAN, truncated : BOOLEAN, epochs : Nat,
     covered : SUBSET Nat, asked : SUBSET Nat, rotated : BOOLEAN]

\* What was to be verified of a file has been.
Verified(r, s) == \A j \in DOMAIN s : s[j].cur \in r.asked => s[j].cur \in r.covered

\* The names found are those of all files, but for the log if it was empty.
LookInv(r, n) ==
    r.at = "look" =>
        /\ r.index = 1 /\ r.expected = Genesis /\ ~ r.truncated
        /\ r.look \in 0 .. BackupCount
        /\ Len(r.files) = IF r.look >= n THEN 0 ELSE n - 1 - r.look

FoundInv(r, fs, n) ==
    r.at # "look" =>
        /\ Len(r.files) \in {n - 1, n}
        /\ Len(r.files) = n => fs[n] # <<>>
        /\ Len(r.files) = n - 1 => Verified(r, fs[n])

\* The next file continues the one before it.
PlaceInChain(r, fs) ==
    /\ r.at = "first" =>
          r.expected = IF r.index = 1 THEN Genesis ELSE Last(fs[r.index - 1]).cur
    /\ r.at = "read" => fs[r.index][1].prev = r.expected

VerifiedInv(r, fs, n) ==
    /\ r.at \in {"first", "read"} => \A k \in 1 .. r.index - 1 : Verified(r, fs[k])
    /\ r.at = "done" => r.ok /\ \A k \in 1 .. n : Verified(r, fs[k])

\* A chain that is not reported as truncated starts at GENESIS.
Begun(r) == r.at \in {"read", "done"} \/ (r.at = "first" /\ r.index > 1)
BeginningInv(r, fs) ==
    Begun(r) /\ ~ r.truncated /\ r.files # <<>> => fs[1][1].prev = Genesis

Reading(r, fs, n) ==
    /\ \A i \in 1 .. Len(r.files) : r.files[i] = n - i
    /\ LookInv(r, n) /\ FoundInv(r, fs, n) /\ PlaceInChain(r, fs)
    /\ VerifiedInv(r, fs, n) /\ BeginningInv(r, fs)

\* The file to read is one of those found.
InFiles(r) ==
    /\ r.at = "look" => r.index = 1
    /\ r.at \in {"first", "read"} => r.index \in 1 .. Len(r.files)

LEMMA ReportFields ==
    ASSUME NEW r \in Reports
    PROVE  /\ r.at \in {"look", "first", "read", "done"} /\ r.look \in Nat
           /\ r.files \in Seq(Nat) /\ r.index \in Nat /\ r.expected \in Nat
           /\ r.ok \in BOOLEAN /\ r.truncated \in BOOLEAN /\ r.epochs \in Nat
           /\ r.covered \subseteq Nat /\ r.asked \subseteq Nat /\ r.rotated \in BOOLEAN
           /\ Len(r.files) \in Nat /\ (r.files = <<>> <=> Len(r.files) = 0)
  <1>1. r.files \in Seq(Nat)
    BY DEF Reports
  <1>2. Len(r.files) \in Nat /\ (r.files = <<>> <=> Len(r.files) = 0)
    BY <1>1, EmptySeq, LenProperties
  <1>. QED BY <1>2 DEF Reports

\* Looking for the file with the next name.
Finds(g, k, s) == IF s # <<>> THEN Append(g, k) ELSE g
LookAt(r, s) ==
    LET found == Finds(r.files, r.look, s) IN
    [r EXCEPT !.files = found, !.look = IF r.look = 0 THEN 0 ELSE r.look - 1,
              !.ok = r.look = 0 /\ found = <<>>,
              !.at = IF r.look > 0 THEN "look" ELSE IF found = <<>> THEN "done" ELSE "first"]

LEMMA Found ==
    ASSUME NEW g \in Seq(Nat), NEW k \in Nat, NEW s
    PROVE  /\ Finds(g, k, s) \in Seq(Nat)
           /\ Len(g) \in Nat /\ Len(Finds(g, k, s)) \in Nat
           /\ s = <<>> => Finds(g, k, s) = g
           /\ s # <<>> => /\ Len(Finds(g, k, s)) = Len(g) + 1
                          /\ Finds(g, k, s)[Len(Finds(g, k, s))] = k
           /\ \A i \in 1 .. Len(g) : Finds(g, k, s)[i] = g[i]
  <1>1. Append(g, k) \in Seq(Nat) /\ Len(g) \in Nat /\ Len(Append(g, k)) = Len(g) + 1
        /\ Append(g, k)[Len(g) + 1] = k /\ \A i \in 1 .. Len(g) : Append(g, k)[i] = g[i]
    OBVIOUS
  <1>2. CASE s = <<>>
    BY <1>1, <1>2 DEF Finds
  <1>3. CASE s # <<>>
    BY <1>1, <1>3 DEF Finds
  <1>. QED BY <1>2, <1>3

LEMMA LookType ==
    ASSUME NEW r \in Reports, NEW s
    PROVE  /\ LookAt(r, s) \in Reports
           /\ LookAt(r, s).rotated = r.rotated /\ LookAt(r, s).asked = r.asked
           /\ InFiles(r) /\ r.at = "look" => InFiles(LookAt(r, s))
  <1>1. r.files \in Seq(Nat) /\ r.look \in Nat
    BY ReportFields
  <1>2. PICK f \in Seq(Nat) : f = Finds(r.files, r.look, s)
    BY <1>1, Found
  <1>3. LookAt(r, s) = [r EXCEPT !.files = f, !.look = IF r.look = 0 THEN 0 ELSE r.look - 1,
              !.ok = r.look = 0 /\ f = <<>>,
              !.at = IF r.look > 0 THEN "look" ELSE IF f = <<>> THEN "done" ELSE "first"]
    BY <1>2 DEF LookAt
  <1>4. PICK k \in Nat : k = IF r.look = 0 THEN 0 ELSE r.look - 1
    BY <1>1
  <1>5. PICK b \in BOOLEAN : b = (r.look = 0 /\ f = <<>>)
    OBVIOUS
  <1>6. PICK a \in {"look", "first", "done"} :
            a = IF r.look > 0 THEN "look" ELSE IF f = <<>> THEN "done" ELSE "first"
    OBVIOUS
  <1>7. LookAt(r, s) = [r EXCEPT !.files = f, !.look = k, !.ok = b, !.at = a]
    BY <1>3, <1>4, <1>5, <1>6
  <1>8. PICK t : t = LookAt(r, s)
    OBVIOUS
  <1>9. /\ t \in Reports /\ t.rotated = r.rotated /\ t.asked = r.asked
        /\ t.files = f /\ t.at = a /\ t.index = r.index
    BY <1>7, <1>8 DEF Reports
  <1>10. ASSUME InFiles(r), r.at = "look"
         PROVE  InFiles(t)
    <2>1. a = "first" => f # <<>>
      BY <1>6
    <2>2. f # <<>> => 1 \in 1 .. Len(f)
      BY <1>9, ReportFields
    <2>. QED BY <1>6, <1>9, <1>10, <2>1, <2>2 DEF InFiles
  <1>. QED BY <1>8, <1>9, <1>10

LEMMA LookReading ==
    ASSUME NEW n, NEW fs, Chained(fs, n), n <= BackupCount + 1,
           NEW r \in Reports, r.at = "look", Reading(r, fs, n),
           NEW s, s = IF r.look < n THEN fs[n - r.look] ELSE <<>>,
           NEW t, t = LookAt(r, s)
    PROVE  Reading(t, fs, n)
  <1>1. n \in Nat \ {0} /\ BackupCount \in Nat
    BY AuditLogAssumption DEF Chained
  <1>2. /\ r.files \in Seq(Nat) /\ Len(r.files) \in Nat
        /\ r.index = 1 /\ r.expected = Genesis /\ ~ r.truncated /\ r.look \in 0 .. BackupCount
        /\ Len(r.files) = IF r.look >= n THEN 0 ELSE n - 1 - r.look
        /\ \A i \in 1 .. Len(r.files) : r.files[i] = n - i
    BY ReportFields DEF Reading, LookInv
  <1>3. PICK f \in Seq(Nat) : f = Finds(r.files, r.look, s)
    <2>1. r.look \in Nat
      BY <1>2
    <2>. QED BY <1>2, <2>1, Found
  <1>4. /\ t.files = f /\ t.look = IF r.look = 0 THEN 0 ELSE r.look - 1
        /\ t.ok = (r.look = 0 /\ f = <<>>)
        /\ t.at = IF r.look > 0 THEN "look" ELSE IF f = <<>> THEN "done" ELSE "first"
        /\ t.index = 1 /\ t.expected = Genesis /\ ~ t.truncated
    BY <1>2, <1>3 DEF Reports, LookAt
  <1>5. Len(f) \in Nat /\ (f = <<>> <=> Len(f) = 0)
    BY <1>3, EmptySeq, LenProperties
  <1>6. /\ s # <<>> => Len(f) = Len(r.files) + 1 /\ f[Len(f)] = r.look
        /\ s = <<>> => f = r.files
        /\ \A i \in 1 .. Len(r.files) : f[i] = r.files[i]
    <2>1. r.look \in Nat
      BY <1>2
    <2>2. PICK g \in Seq(Nat) : g = r.files
      BY <1>2
    <2>3. PICK k \in Nat : k = r.look
      BY <2>1
    <2>4. f = Finds(g, k, s)
      BY <1>3, <2>2, <2>3
    <2>5. /\ s # <<>> => /\ Len(Finds(g, k, s)) = Len(g) + 1
                         /\ Finds(g, k, s)[Len(Finds(g, k, s))] = k
          /\ s = <<>> => Finds(g, k, s) = g
          /\ \A i \in 1 .. Len(g) : Finds(g, k, s)[i] = g[i]
      BY Found
    <2>6. /\ s # <<>> => Len(f) = Len(g) + 1 /\ f[Len(f)] = k
          /\ s = <<>> => f = g
          /\ \A i \in 1 .. Len(g) : f[i] = g[i]
      BY <2>4, <2>5, Zenon
    <2>. QED BY <2>2, <2>3, <2>6
  <1>7. r.look \in 1 .. n - 1 => s # <<>>
    <2>1. r.look \in 1 .. n - 1 => n - r.look \in 1 .. n - 1
      BY <1>1, <1>2
    <2>. QED BY <1>1, <1>2, <2>1 DEF Chained
  <1>8. r.look >= n => s = <<>>
    BY <1>1, <1>2
  <1>9. r.look = 0 => s = fs[n] /\ Len(r.files) = n - 1
    BY <1>1, <1>2
  <1>10. s # <<>> => r.look < n /\ Len(f) = n - r.look
    BY <1>1, <1>2, <1>6, <1>8
  <1>11. ASSUME NEW i \in 1 .. Len(f)
         PROVE  f[i] = n - i
    <2>1. CASE s = <<>>
      BY <1>2, <1>6, <2>1
    <2>2. CASE s # <<>> /\ i \in 1 .. Len(r.files)
      BY <1>2, <1>6, <2>2
    <2>3. CASE s # <<>> /\ i \notin 1 .. Len(r.files)
      <3>1. i = Len(f) /\ f[i] = r.look
        BY <1>2, <1>5, <1>6, <2>3
      <3>2. Len(f) = n - r.look
        BY <1>10, <2>3
      <3>. QED BY <1>1, <1>2, <3>1, <3>2
    <2>. QED BY <2>1, <2>2, <2>3
  <1>12. LookInv(t, n)
    <2> SUFFICES ASSUME t.at = "look"
                 PROVE  /\ t.look \in 0 .. BackupCount
                        /\ Len(f) = IF t.look >= n THEN 0 ELSE n - 1 - t.look
      BY <1>4 DEF LookInv
    <2>1. r.look > 0
      BY <1>4
    <2>2. t.look = r.look - 1 /\ r.look \in 1 .. BackupCount
      BY <1>1, <1>2, <1>4, <2>1
    <2>3. CASE r.look < n
      <3>1. s # <<>>
        BY <1>1, <1>7, <2>2, <2>3
      <3>2. Len(f) = n - r.look
        BY <1>10, <3>1
      <3>. QED BY <1>1, <2>2, <2>3, <3>2
    <2>4. CASE r.look >= n
      <3>1. f = r.files
        BY <1>6, <1>8, <2>4
      <3>2. Len(f) = 0
        BY <1>2, <2>4, <3>1
      <3>. QED BY <1>1, <2>2, <2>4, <3>2
    <2>. QED BY <1>1, <2>2, <2>3, <2>4
  <1>13. s = <<>> => Verified(t, s)
    BY DEF Verified
  <1>14. FoundInv(t, fs, n)
    <2> SUFFICES ASSUME t.at # "look"
                 PROVE  /\ Len(f) \in {n - 1, n}
                        /\ Len(f) = n => fs[n] # <<>>
                        /\ Len(f) = n - 1 => Verified(t, fs[n])
      BY <1>4, Zenon DEF FoundInv
    <2>1. r.look = 0
      BY <1>1, <1>2, <1>4
    <2>2. s = fs[n] /\ Len(r.files) = n - 1
      BY <1>9, <2>1
    <2>3. CASE s = <<>>
      <3>1. Len(f) = n - 1
        BY <1>6, <2>2, <2>3
      <3>2. Verified(t, fs[n])
        BY <1>13, <2>2, <2>3
      <3>. QED BY <1>1, <3>1, <3>2
    <2>4. CASE s # <<>>
      <3>1. Len(f) = n
        BY <1>1, <1>6, <2>2, <2>4
      <3>. QED BY <1>1, <2>2, <2>4, <3>1
    <2>. QED BY <2>3, <2>4
  <1>15. PlaceInChain(t, fs)
    BY <1>1, <1>4 DEF PlaceInChain
  <1>16. t.at = "done" => n = 1 /\ t.ok /\ f = <<>> /\ Verified(t, fs[1])
    <2> SUFFICES ASSUME t.at = "done"
                 PROVE  n = 1 /\ t.ok /\ f = <<>> /\ Verified(t, fs[1])
      OBVIOUS
    <2>1. r.look = 0 /\ f = <<>> /\ t.ok
      <3>1. ~ r.look > 0
        BY <1>4
      <3>2. f = <<>>
        BY <1>4, <3>1
      <3>3. r.look = 0
        BY <1>1, <1>2, <3>1
      <3>. QED BY <1>4, <3>2, <3>3
    <2>2. Len(f) = 0 /\ Len(r.files) = n - 1 /\ s = fs[n]
      BY <1>5, <1>9, <2>1
    <2>3. s = <<>> /\ n = 1
      BY <1>1, <1>2, <1>6, <2>2
    <2>. QED BY <1>13, <2>1, <2>2, <2>3
  <1>17. VerifiedInv(t, fs, n)
    <2>1. ASSUME t.at = "done"
          PROVE  t.ok /\ \A k \in 1 .. n : Verified(t, fs[k])
      BY <1>16, <2>1
    <2>2. \A k \in 1 .. t.index - 1 : FALSE
      BY <1>4
    <2>. QED BY <2>1, <2>2 DEF VerifiedInv
  <1>18. BeginningInv(t, fs)
    BY <1>4, <1>16 DEF BeginningInv, Begun
  <1>. QED BY <1>4, <1>11, <1>12, <1>14, <1>15, <1>17, <1>18 DEF Reading

-----------------------------------------------------------------------------
(* Reading the first entry of a file, and then the file.                    *)

Continues(r, s) == ~ (s # <<>> /\ Whole(s[1]) /\ s[1].prev # r.expected)
Anew(r, s) == r.index > 1 /\ ~ Continues(r, s) /\ s[1].prev = Genesis
Cut(r, s) == r.index = 1 /\ ~ Continues(r, s)

FirstOf(r, s) ==
    [r EXCEPT !.at = "read",
              !.truncated = @ \/ Cut(r, s),
              !.epochs = IF Anew(r, s) THEN @ + 1 ELSE @,
              !.expected = IF Cut(r, s) \/ Anew(r, s) THEN s[1].prev ELSE @]

LEMMA FirstEntry ==
    ASSUME NEW s \in Lines, s # <<>>
    PROVE  /\ 1 \in DOMAIN s /\ s[1] \in Line /\ s[1].prev \in Nat
           /\ Last(s) \in Line /\ Last(s).cur \in Nat
           /\ \A j \in DOMAIN s : s[j].cur \in Nat
           /\ Linked(s) => Whole(s[1])
  <1>1. /\ Len(s) \in Nat /\ DOMAIN s = 1 .. Len(s) /\ Len(s) >= 1 /\ Last(s) = s[Len(s)]
    <2>1. Len(s) \in Nat /\ DOMAIN s = 1 .. Len(s)
      BY LenProperties DEF Lines
    <2>. QED BY <2>1, LastLine
  <1>2. \A j \in 1 .. Len(s) : s[j] \in Line
    BY ElementOfSeq DEF Lines
  <1>3. 1 \in 1 .. Len(s) /\ Len(s) \in 1 .. Len(s)
    BY <1>1
  <1>4. \A l \in Line : l.cur \in Nat /\ l.prev \in Nat
    BY DEF Line
  <1>. QED BY <1>1, <1>2, <1>3, <1>4 DEF Linked

LEMMA FirstType ==
    ASSUME NEW r \in Reports, NEW s \in Lines
    PROVE  /\ FirstOf(r, s) \in Reports /\ FirstOf(r, s).files = r.files
           /\ FirstOf(r, s).rotated = r.rotated /\ FirstOf(r, s).asked = r.asked
           /\ FirstOf(r, s).index = r.index /\ FirstOf(r, s).covered = r.covered
           /\ FirstOf(r, s).at = "read"
           /\ FirstOf(r, s).truncated = (r.truncated \/ Cut(r, s))
           /\ FirstOf(r, s).expected = IF Cut(r, s) \/ Anew(r, s) THEN s[1].prev ELSE r.expected
           /\ InFiles(r) /\ r.at = "first" => InFiles(FirstOf(r, s))
  <1>1. r.expected \in Nat /\ r.epochs \in Nat /\ r.truncated \in BOOLEAN
    BY ReportFields
  <1>2. PICK e \in Nat : e = IF Cut(r, s) \/ Anew(r, s) THEN s[1].prev ELSE r.expected
    BY <1>1, FirstEntry DEF Cut, Anew, Continues
  <1>3. PICK k \in Nat : k = IF Anew(r, s) THEN r.epochs + 1 ELSE r.epochs
    BY <1>1
  <1>4. PICK b \in BOOLEAN : b = (r.truncated \/ Cut(r, s))
    OBVIOUS
  <1>5. FirstOf(r, s) = [r EXCEPT !.at = "read", !.truncated = b, !.epochs = k, !.expected = e]
    BY <1>2, <1>3, <1>4 DEF FirstOf
  <1>. QED BY <1>2, <1>4, <1>5 DEF Reports, InFiles

\* The file that is read next has content.
LEMMA NextFile ==
    ASSUME NEW n, NEW fs, Chained(fs, n), NEW r \in Reports, r.at \in {"first", "read"},
           Reading(r, fs, n), InFiles(r)
    PROVE  /\ n \in Nat \ {0} /\ r.index \in 1 .. n /\ Len(r.files) \in {n - 1, n}
           /\ fs[r.index] \in Lines /\ fs[r.index] # <<>> /\ Linked(fs[r.index])
           /\ r.files # <<>>
  <1>1. n \in Nat \ {0} /\ fs \in [1 .. n -> Lines]
    BY DEF Chained
  <1>2. /\ r.index \in 1 .. Len(r.files) /\ Len(r.files) \in Nat
        /\ Len(r.files) \in {n - 1, n} /\ (Len(r.files) = n => fs[n] # <<>>)
    BY ReportFields DEF InFiles, Reading, FoundInv
  <1>3. r.index \in 1 .. n
    BY <1>1, <1>2
  <1>4. fs[r.index] # <<>>
    <2>1. CASE r.index = n
      BY <1>1, <1>2, <2>1
    <2>2. CASE r.index # n
      <3>1. r.index \in 1 .. n - 1
        BY <1>1, <1>3, <2>2
      <3>. QED BY <3>1 DEF Chained
    <2>. QED BY <2>1, <2>2
  <1>5. r.files # <<>>
    BY <1>2, ReportFields
  <1>. QED BY <1>1, <1>2, <1>3, <1>4, <1>5 DEF Chained

LEMMA FirstReading ==
    ASSUME NEW n, NEW fs, Chained(fs, n), NEW r \in Reports, r.at = "first",
           Reading(r, fs, n), InFiles(r), NEW s, s = fs[r.index],
           NEW t, t = FirstOf(r, s)
    PROVE  Reading(t, fs, n)
  <1>1. /\ n \in Nat \ {0} /\ r.index \in 1 .. n /\ s \in Lines /\ s # <<>> /\ Linked(s)
        /\ r.index \in Nat /\ r.index \in 1 .. Len(r.files)
    BY NextFile, ReportFields DEF InFiles
  <1>2. /\ t.files = r.files /\ t.asked = r.asked /\ t.covered = r.covered
        /\ t.index = r.index /\ t.at = "read"
        /\ t.truncated = (r.truncated \/ Cut(r, s))
        /\ t.expected = IF Cut(r, s) \/ Anew(r, s) THEN s[1].prev ELSE r.expected
    BY <1>1, FirstType
  <1>3. Whole(s[1])
    BY <1>1, FirstEntry
  <1>4. r.expected = IF r.index = 1 THEN Genesis ELSE Last(fs[r.index - 1]).cur
    BY DEF Reading, PlaceInChain
  <1>5. s[1].prev = t.expected
    <2>1. CASE Continues(r, s)
      BY <1>1, <1>2, <1>3, <2>1 DEF Continues, Cut, Anew
    <2>2. CASE ~ Continues(r, s) /\ r.index = 1
      BY <1>2, <2>2 DEF Cut
    <2>3. CASE ~ Continues(r, s) /\ r.index # 1
      <3>1. r.index \in 2 .. n /\ r.index > 1
        BY <1>1, <2>3
      <3>2. s[1].prev \in {Genesis, r.expected}
        BY <1>1, <1>4, <2>3, <3>1 DEF Chained
      <3>3. Anew(r, s)
        BY <2>3, <3>1, <3>2 DEF Anew, Continues
      <3>. QED BY <1>2, <3>3
    <2>. QED BY <2>1, <2>2, <2>3
  <1>6. PlaceInChain(t, fs)
    BY <1>1, <1>2, <1>5 DEF PlaceInChain
  <1>7. LookInv(t, n) /\ FoundInv(t, fs, n) /\ VerifiedInv(t, fs, n)
    BY <1>2 DEF Reading, LookInv, FoundInv, VerifiedInv, Verified
  <1>8. BeginningInv(t, fs)
    <2>1. ASSUME ~ t.truncated
          PROVE  fs[1][1].prev = Genesis
      <3>1. CASE r.index = 1
        <4>1. Continues(r, s) /\ r.expected = Genesis
          BY <1>2, <1>4, <2>1, <3>1 DEF Cut
        <4>. QED BY <1>1, <1>3, <3>1, <4>1 DEF Continues
      <3>2. CASE r.index # 1
        <4>0. r.files # <<>> /\ r.index > 1
          BY <1>1, <3>2, NextFile
        <4>1. Begun(r) /\ ~ r.truncated
          BY <1>2, <2>1, <4>0 DEF Begun
        <4>. QED BY <4>0, <4>1 DEF Reading, BeginningInv
      <3>. QED BY <3>1, <3>2
    <2>. QED BY <2>1 DEF BeginningInv
  <1>. QED BY <1>2, <1>6, <1>7, <1>8 DEF Reading

\* e: the file is there.
SoundAt(r, s, e) == e /\ Linked(s) /\ (s = <<>> \/ s[1].prev = r.expected)
EndsAt(r, s, e) == ~ SoundAt(r, s, e) \/ r.index = Len(r.files)

FileOf(r, s, e) ==
    [r EXCEPT !.at = IF EndsAt(r, s, e) THEN "done" ELSE "first",
              !.ok = SoundAt(r, s, e) /\ EndsAt(r, s, e),
              !.index = IF EndsAt(r, s, e) THEN @ ELSE @ + 1,
              !.expected = IF SoundAt(r, s, e) /\ s # <<>> THEN Last(s).cur ELSE @,
              !.covered = IF SoundAt(r, s, e) THEN @ \cup {s[i].cur : i \in DOMAIN s} ELSE @]

LEMMA FileOfType ==
    ASSUME NEW r \in Reports, NEW s \in Lines, NEW e \in BOOLEAN
    PROVE  LET t == FileOf(r, s, e) IN
           /\ t \in Reports /\ t.files = r.files /\ t.truncated = r.truncated
           /\ t.rotated = r.rotated /\ t.asked = r.asked
           /\ t.at = IF EndsAt(r, s, e) THEN "done" ELSE "first"
           /\ t.ok = (SoundAt(r, s, e) /\ EndsAt(r, s, e))
           /\ t.index = IF EndsAt(r, s, e) THEN r.index ELSE r.index + 1
           /\ t.expected = IF SoundAt(r, s, e) /\ s # <<>> THEN Last(s).cur ELSE r.expected
           /\ t.covered = IF SoundAt(r, s, e) THEN r.covered \cup {s[i].cur : i \in DOMAIN s}
                          ELSE r.covered
           /\ InFiles(r) /\ r.at = "read" => InFiles(t)
  <1>1. r.expected \in Nat /\ r.index \in Nat /\ r.covered \subseteq Nat
    BY ReportFields
  <1>2. PICK x \in Nat : x = IF SoundAt(r, s, e) /\ s # <<>> THEN Last(s).cur ELSE r.expected
    BY <1>1, FirstEntry
  <1>3. PICK k \in Nat : k = IF EndsAt(r, s, e) THEN r.index ELSE r.index + 1
    BY <1>1
  <1>4. PICK b \in BOOLEAN : b = (SoundAt(r, s, e) /\ EndsAt(r, s, e))
    OBVIOUS
  <1>5. PICK a \in {"done", "first"} : a = IF EndsAt(r, s, e) THEN "done" ELSE "first"
    OBVIOUS
  <1>6. PICK c : c = IF SoundAt(r, s, e) THEN r.covered \cup {s[i].cur : i \in DOMAIN s}
                     ELSE r.covered
    OBVIOUS
  <1>7. c \subseteq Nat
    <2>1. \A j \in DOMAIN s : s[j].cur \in Nat
      BY FirstEntry, EmptySeq
    <2>. QED BY <1>1, <1>6, <2>1
  <1>8. FileOf(r, s, e) = [r EXCEPT !.at = a, !.ok = b, !.index = k, !.expected = x, !.covered = c]
    BY <1>2, <1>3, <1>4, <1>5, <1>6 DEF FileOf
  <1>9. c \in SUBSET Nat
    BY <1>7
  <1>10. PICK t : t = FileOf(r, s, e)
    OBVIOUS
  <1>11. t \in Reports /\ t.files = r.files /\ t.truncated = r.truncated
         /\ t.rotated = r.rotated /\ t.asked = r.asked
         /\ t.at = a /\ t.ok = b /\ t.index = k /\ t.expected = x /\ t.covered = c
    BY <1>8, <1>9, <1>10 DEF Reports
  <1>12. ASSUME InFiles(r), r.at = "read"
         PROVE  InFiles(t)
    <2>1. r.index \in 1 .. Len(r.files) /\ Len(r.files) \in Nat
      BY <1>12, ReportFields DEF InFiles
    <2>2. CASE EndsAt(r, s, e)
      BY <1>5, <1>11, <2>2 DEF InFiles
    <2>3. CASE ~ EndsAt(r, s, e)
      <3>1. r.index # Len(r.files) /\ t.at = "first" /\ t.index = r.index + 1
        BY <1>3, <1>5, <1>11, <2>3 DEF EndsAt
      <3>. QED BY <1>11, <2>1, <3>1 DEF InFiles
    <2>. QED BY <2>2, <2>3
  <1>. QED BY <1>2, <1>3, <1>4, <1>5, <1>6, <1>10, <1>11, <1>12, Zenon

\* Of it, what does not depend on what was read.
LEMMA FileOfKeeps ==
    ASSUME NEW r \in Reports, NEW s \in Lines, NEW e \in BOOLEAN, InFiles(r), r.at = "read"
    PROVE  /\ FileOf(r, s, e) \in Reports /\ InFiles(FileOf(r, s, e))
           /\ FileOf(r, s, e).files = r.files /\ FileOf(r, s, e).asked = r.asked
           /\ FileOf(r, s, e).rotated = r.rotated
  BY FileOfType, Zenon

LEMMA FileReading ==
    ASSUME NEW n, NEW fs, Chained(fs, n), NEW r \in Reports, r.at = "read",
           Reading(r, fs, n), InFiles(r), NEW s, s = fs[r.index],
           NEW e \in BOOLEAN, e, NEW t, t = FileOf(r, s, e)
    PROVE  Reading(t, fs, n)
  <1>1. /\ n \in Nat \ {0} /\ r.index \in 1 .. n /\ s \in Lines /\ s # <<>> /\ Linked(s)
        /\ r.index \in Nat /\ r.index \in 1 .. Len(r.files)
        /\ Len(r.files) \in {n - 1, n} /\ r.files # <<>>
    BY NextFile, ReportFields DEF InFiles
  <1>2. SoundAt(r, s, e)
    BY <1>1 DEF SoundAt, Reading, PlaceInChain
  <1>3. /\ t.files = r.files /\ t.asked = r.asked /\ t.truncated = r.truncated
        /\ t.covered = r.covered \cup {s[i].cur : i \in DOMAIN s}
        /\ t.expected = Last(s).cur
        /\ t.at = IF r.index = Len(r.files) THEN "done" ELSE "first"
        /\ r.index = Len(r.files) => t.ok /\ t.index = r.index
        /\ r.index # Len(r.files) => t.index = r.index + 1
    BY <1>1, <1>2, FileOfType DEF EndsAt
  <1>m. ASSUME r.index # Len(r.files)
        PROVE  t.at = "first" /\ t.index # 1 /\ t.index - 1 = r.index
    <2>1. PICK k \in Nat \ {0} : k = r.index
      BY <1>1
    <2>2. t.index = k + 1 /\ t.at = "first"
      BY <1>3, <1>m, <2>1, Zenon
    <2>3. k + 1 # 1 /\ (k + 1) - 1 = k
      BY <2>1
    <2>. QED BY <2>1, <2>2, <2>3, Zenon
  <1>4. \A x : Verified(r, x) => Verified(t, x)
    BY <1>3 DEF Verified
  <1>5. \A k \in 1 .. r.index : Verified(t, fs[k])
    <2>1. Verified(t, s)
      BY <1>3 DEF Verified
    <2>2. \A k \in 1 .. r.index - 1 : Verified(t, fs[k])
      BY <1>4 DEF Reading, VerifiedInv
    <2>3. \A k \in 1 .. r.index : k = r.index \/ k \in 1 .. r.index - 1
      BY <1>1
    <2>. QED BY <2>1, <2>2, <2>3
  <1>6. VerifiedInv(t, fs, n)
    <2>1. CASE r.index = Len(r.files)
      <3>1. ASSUME NEW k \in 1 .. n
            PROVE  Verified(t, fs[k])
        <4>1. k \in 1 .. r.index \/ (k = n /\ Len(r.files) = n - 1)
          BY <1>1, <2>1
        <4>2. Len(r.files) = n - 1 => Verified(r, fs[n])
          BY DEF Reading, FoundInv
        <4>. QED BY <1>4, <1>5, <4>1, <4>2
      <3>. QED BY <1>3, <2>1, <3>1 DEF VerifiedInv
    <2>2. CASE r.index # Len(r.files)
      <3>1. t.index - 1 = r.index /\ t.at = "first"
        BY <1>m, <2>2
      <3>. QED BY <1>5, <3>1 DEF VerifiedInv
    <2>. QED BY <2>1, <2>2
  <1>7. PlaceInChain(t, fs)
    <2>1. CASE r.index = Len(r.files)
      BY <1>3, <2>1 DEF PlaceInChain
    <2>2. CASE r.index # Len(r.files)
      <3>1. t.at = "first" /\ t.index # 1 /\ t.index - 1 = r.index
        BY <1>m, <2>2
      <3>. QED BY <1>3, <3>1 DEF PlaceInChain
    <2>. QED BY <2>1, <2>2
  <1>8. LookInv(t, n) /\ FoundInv(t, fs, n)
    BY <1>3, <1>4 DEF Reading, LookInv, FoundInv
  <1>9. BeginningInv(t, fs)
    BY <1>1, <1>3 DEF Reading, BeginningInv, Begun
  <1>. QED BY <1>3, <1>6, <1>7, <1>8, <1>9 DEF Reading

-----------------------------------------------------------------------------
(* The log grows, or a verification begins.                                 *)

\* The log has been written to, with an entry nobody has asked for.
GrownLog(fs, gs, n, asked) ==
    /\ \A k \in 1 .. n - 1 : gs[k] = fs[k]
    /\ gs[n] = fs[n] \/ \E l \in Line : l.cur \notin asked /\ gs[n] = Append(fs[n], l)

LEMMA GrowReading ==
    ASSUME NEW n, NEW fs, Chained(fs, n), NEW gs, NEW r \in Reports,
           GrownLog(fs, gs, n, r.asked), Reading(r, fs, n), InFiles(r)
    PROVE  Reading(r, gs, n)
  <1>1. n \in Nat \ {0} /\ fs \in [1 .. n -> Lines] /\ n \in 1 .. n
    BY DEF Chained
  <1>2. /\ Verified(r, fs[n]) => Verified(r, gs[n])
        /\ fs[n] # <<>> => gs[n] # <<>> /\ gs[n][1] = fs[n][1]
    <2>1. CASE gs[n] = fs[n]
      BY <2>1
    <2>2. ASSUME NEW l \in Line, l.cur \notin r.asked, gs[n] = Append(fs[n], l)
          PROVE  /\ Verified(r, fs[n]) => Verified(r, gs[n])
                 /\ fs[n] # <<>> => gs[n] # <<>> /\ gs[n][1] = fs[n][1]
      <3>1. PICK s \in Lines : s = fs[n]
        BY <1>1
      <3>2. PICK t : t = gs[n] /\ t = Append(s, l)
        BY <2>2, <3>1
      <3>3. /\ Len(s) \in Nat /\ DOMAIN s = 1 .. Len(s) /\ DOMAIN t = 1 .. Len(s) + 1
            /\ \A j \in 1 .. Len(s) : t[j] = s[j]
            /\ t[Len(s) + 1] = l /\ t # <<>>
        BY <3>2, AppendLine
      <3>4. s # <<>> => 1 \in 1 .. Len(s)
        BY <3>3, LastLine
      <3>5. ASSUME Verified(r, s), NEW j \in DOMAIN t, t[j].cur \in r.asked
            PROVE  t[j].cur \in r.covered
        <4>1. j \in 1 .. Len(s) \/ j = Len(s) + 1
          BY <3>3
        <4>. QED BY <2>2, <3>3, <3>5, <4>1 DEF Verified
      <3>6. Verified(r, s) => Verified(r, t)
        BY <3>5 DEF Verified
      <3>. QED BY <3>1, <3>2, <3>3, <3>4, <3>6
    <2>. QED BY <2>1, <2>2 DEF GrownLog
  <1>3. \A k \in 1 .. n : k = n \/ (k \in 1 .. n - 1 /\ gs[k] = fs[k])
    BY <1>1 DEF GrownLog
  <1>4. \A k \in 1 .. n : Verified(r, fs[k]) => Verified(r, gs[k])
    BY <1>2, <1>3
  <1>5. \A k \in 1 .. n : fs[k] # <<>> => gs[k] # <<>> /\ gs[k][1] = fs[k][1]
    BY <1>2, <1>3
  <1>6. FoundInv(r, gs, n) /\ LookInv(r, n)
    BY <1>1, <1>2 DEF Reading, FoundInv
  <1>7. PlaceInChain(r, gs)
    <2>1. CASE r.at = "first"
      <3>1. r.index \in 1 .. n
        BY <2>1, NextFile
      <3>2. r.index # 1 => r.index - 1 \in 1 .. n - 1
        BY <1>1, <3>1
      <3>3. r.index # 1 => gs[r.index - 1] = fs[r.index - 1]
        BY <3>2 DEF GrownLog
      <3>. QED BY <2>1, <3>3 DEF Reading, PlaceInChain
    <2>2. CASE r.at = "read"
      <3>1. r.index \in 1 .. n /\ fs[r.index] # <<>>
        BY <2>2, NextFile
      <3>. QED BY <1>5, <2>2, <3>1 DEF Reading, PlaceInChain
    <2>. QED BY <2>1, <2>2 DEF PlaceInChain
  <1>8. VerifiedInv(r, gs, n)
    <2>1. ASSUME r.at \in {"first", "read"}, NEW k \in 1 .. r.index - 1
          PROVE  Verified(r, gs[k])
      <3>1. r.index \in 1 .. n
        BY <2>1, NextFile
      <3>2. k \in 1 .. n
        BY <1>1, <2>1, <3>1
      <3>. QED BY <1>4, <2>1, <3>2 DEF Reading, VerifiedInv
    <2>. QED BY <1>4, <2>1 DEF Reading, VerifiedInv
  <1>9. BeginningInv(r, gs)
    <2>1. ASSUME Begun(r), r.files # <<>>
          PROVE  fs[1] # <<>>
      <3>1. /\ Len(r.files) \in Nat \ {0} /\ Len(r.files) \in {n - 1, n}
            /\ Len(r.files) = n => fs[n] # <<>>
        BY <2>1, ReportFields DEF Begun, Reading, FoundInv
      <3>2. CASE n = 1
        BY <1>1, <3>1, <3>2
      <3>3. CASE n # 1
        <4>1. 1 \in 1 .. n - 1
          BY <1>1, <3>3
        <4>. QED BY <4>1 DEF Chained
      <3>. QED BY <3>2, <3>3
    <2>2. 1 \in 1 .. n
      BY <1>1
    <2>. QED BY <1>5, <2>1, <2>2 DEF Reading, BeginningInv
  <1>. QED BY <1>6, <1>7, <1>8, <1>9 DEF Reading

Begin(asked, rotated) ==
    [NoReport EXCEPT !.at = "look", !.look = BackupCount, !.asked = asked, !.rotated = rotated]

LEMMA NoReportType == NoReport \in Reports /\ InFiles(NoReport) /\ NoReport.rotated
  <1>1. <<>> \in Seq(Nat)
    BY EmptySeq
  <1>. QED BY <1>1 DEF NoReport, Reports, InFiles, Genesis

LEMMA BeginType ==
    ASSUME NEW a \in SUBSET Nat, NEW u \in BOOLEAN, NEW t, t = Begin(a, u)
    PROVE  /\ t \in Reports /\ InFiles(t) /\ t.at = "look" /\ t.look = BackupCount
           /\ t.asked = a /\ t.rotated = u
           /\ t.files = <<>> /\ t.index = 1 /\ t.expected = Genesis /\ ~ t.truncated
  <1>1. <<>> \in Seq(Nat) /\ BackupCount \in Nat
    BY EmptySeq, AuditLogAssumption
  <1>. QED BY <1>1 DEF Begin, NoReport, Reports, InFiles, Genesis

LEMMA BeginReading ==
    ASSUME NEW n \in Nat \ {0}, n <= BackupCount + 1, NEW fs, NEW a \in SUBSET Nat,
           NEW u \in BOOLEAN, NEW t, t = Begin(a, u)
    PROVE  Reading(t, fs, n)
  <1>1. /\ t.at = "look" /\ t.look = BackupCount /\ t.files = <<>> /\ t.index = 1
        /\ t.expected = Genesis /\ ~ t.truncated
    BY BeginType
  <1>2. Len(t.files) = 0 /\ BackupCount \in Nat
    BY <1>1, EmptySeq, AuditLogAssumption
  <1>3. LookInv(t, n)
    BY <1>1, <1>2 DEF LookInv
  <1>. QED BY <1>1, <1>2, <1>3
          DEF Reading, FoundInv, PlaceInChain, VerifiedInv, BeginningInv, Begun

-----------------------------------------------------------------------------
(* The log, while the reader reads.                                         *)

\* An event that log_event() acknowledged is in a file, which no later line
\* is mistaken for.
LEMMA AckedInFile ==
    ASSUME NEW p \in Proc, TrailInv(p), EventInv, Faults \subseteq {"kill"}, NEW id \in acked
    PROVE  InFile(id) /\ id \in Nat /\ id # next
  <1>1. InFile(id)
    BY DEF EventInv, Safe, Unbuffered
  <1>2. DOMAIN content = 1 .. Len(content) /\ content \in Seq(Lines)
    BY Newest DEF TrailInv
  <1>3. PICK i \in 1 .. Len(content) : \E j \in DOMAIN content[i] : content[i][j].cur = id
    BY <1>1, <1>2 DEF InFile
  <1>4. PICK s \in Lines : s = content[i]
    BY <1>2, ElementOfSeq
  <1>5. DOMAIN s = 1 .. Len(s)
    BY LenProperties DEF Lines
  <1>6. PICK j \in 1 .. Len(content[i]) : content[i][j].cur = id
    BY <1>3, <1>4, <1>5
  <1>7. id \in 1 .. next - 1 /\ next \in Nat
    BY <1>6 DEF TrailInv, ChainInv, HashesUnique, LinkInv, Typed, TypeOK
  <1>. QED BY <1>1, <1>7

\* A line that is written is new, and the last of the log.
LEMMA LineWritten ==
    ASSUME NEW p \in Proc, TrailInv(p), Faults \subseteq {"kill"},
           Emit(p) \/ WriteSentinel(p) \/ WriteRechained(p)
    PROVE  \E l \in Line : /\ l.cur = next
                           /\ content' = [content EXCEPT ![Len(content)] = Append(Log, l)]
  <1>1. /\ Log \in Lines /\ AllWhole(Log) /\ Log = content[Len(content)]
        /\ File(p) = Len(content) /\ Flushed(p) = Log /\ \A s, l : ~ WriteFails(p, s, l)
    BY Newest DEF TrailInv
  <1>2. next \in Nat /\ prev[p] \in Nat /\ what[p] = "event"
    BY DEF TrailInv, ChainInv, LinkInv, LocalSound, Typed, TypeOK
  <1>3. ASSUME ~ Emit(p)
        PROVE  stream[p] = Len(content)
    BY <1>3 DEF WriteSentinel, WriteRechained, TrailInv, ChainInv, PlaceInv, LinkInv, Typed, Open
  <1>4. PICK l : /\ l \in {[kind |-> k, cur |-> next, prev |-> prev[p]] : k \in {"event", "rotation"}}
                 /\ WriteOk(p, Log, l)
    <2>1. CASE Emit(p)
      BY <1>1, <1>2, <2>1 DEF Emit
    <2>2. CASE ~ Emit(p) /\ WriteSentinel(p)
      BY <1>1, <1>3, <2>2 DEF WriteSentinel
    <2>3. CASE ~ Emit(p) /\ WriteRechained(p)
      BY <1>1, <1>2, <1>3, <2>3 DEF WriteRechained
    <2>. QED BY <2>1, <2>2, <2>3
  <1>5. l \in Line /\ Whole(l) /\ l.cur = next
    BY <1>2, <1>4, MadeLines
  <1>. QED BY <1>1, <1>4, <1>5, AppendWhole DEF WriteOk

\* Which files have a name changes only in a rotation.
LEMMA NamesKept ==
    ASSUME ~ UnderWay, [Next]_vars
    PROVE  /\ names' = names
           /\ \A p \in Proc : ~ RemoveOldest(p) /\ ~ Rollover(p) /\ ~ RolloverUnmarked(p)
  <1>1. \A p \in Proc : ~ RemoveOldest(p) /\ ~ Rollover(p) /\ ~ RolloverUnmarked(p)
    <2> SUFFICES ASSUME NEW p \in Proc, ~ Rotating(p)
                 PROVE  ~ RemoveOldest(p) /\ ~ Rollover(p) /\ ~ RolloverUnmarked(p)
      BY DEF UnderWay
    <2>1. ~ RemoveOldest(p)
      BY DEF RemoveOldest
    <2>2. ~ Rollover(p)
      BY DEF Rotating, Rollover
    <2>3. ~ RolloverUnmarked(p)
      BY DEF Rotating, RolloverUnmarked
    <2>. QED BY <2>1, <2>2, <2>3
  <1>2. CASE UNCHANGED vars
    BY <1>1, <1>2 DEF vars
  <1>3. ASSUME NEW p \in Proc, Step(p)
        PROVE  names' = names
    BY <1>1, <1>3 DEF Step, ReadTail, Fits, Emit, FlushFails, ReadForRotation,
       WriteSentinel, WriteRechained, Exit, Kill
  <1>. QED BY <1>1, <1>2, <1>3 DEF Next

LEMMA FilesGrow ==
    ASSUME NEW p \in Proc, TrailInv(p), Faults \subseteq {"kill"}, names' = names,
           NEW l \in Line, content' = [content EXCEPT ![Len(content)] = Append(Log, l)],
           NEW asked, l.cur \notin asked
    PROVE  GrownLog(Files, Files', Len(names), asked)
  <1>n. PICK n : n = Len(names)
    OBVIOUS
  <1>m. PICK N : N = Len(content)
    OBVIOUS
  <1>1. /\ n \in Nat \ {0} /\ N \in Nat \ {0} /\ N - n \in Nat /\ names \in Seq(1 .. N)
        /\ \A i \in 1 .. n : names[i] = N - n + i /\ Files[i] = content[names[i]]
        /\ Files[n] = Log /\ Log = content[N]
    BY <1>n, <1>m, NamedFiles
  <1>2. content \in Seq(Lines) /\ DOMAIN content = 1 .. N /\ DOMAIN names = 1 .. n
    BY <1>n, <1>m, <1>1, Newest, LenProperties DEF TrailInv
  <1>3. \A i \in 1 .. n : Files'[i] = content'[names[i]]
    BY <1>2 DEF Files
  <1>4. ASSUME NEW i \in 1 .. n - 1
        PROVE  Files'[i] = Files[i]
    <2>1. i \in 1 .. n /\ names[i] \in 1 .. N /\ names[i] # N
      BY <1>1
    <2>2. content'[names[i]] = content[names[i]]
      BY <1>m, <1>2, <2>1
    <2>. QED BY <1>1, <1>3, <2>1, <2>2
  <1>5. Files'[n] = Append(Files[n], l)
    <2>1. n \in 1 .. n /\ names[n] = N /\ N \in 1 .. N
      BY <1>1
    <2>2. content'[N] = Append(Log, l)
      BY <1>m, <1>2, <2>1
    <2>. QED BY <1>1, <1>3, <2>1, <2>2
  <1>. QED BY <1>n, <1>4, <1>5 DEF GrownLog

\* As long as nobody rotates, the files with a name only grow at their end.
LEMMA LogStepGrows ==
    ASSUME NEW p, Proc = {p}, TrailInv(p), EventInv, Faults \subseteq {"kill"},
           [Next]_vars, ~ UnderWay, NEW asked \in SUBSET acked
    PROVE  GrownLog(Files, Files', Len(names), asked)
  <1>0. p \in Proc
    OBVIOUS
  <1>4. /\ names' = names
        /\ ~ RemoveOldest(p) /\ ~ Rollover(p) /\ ~ RolloverUnmarked(p)
    BY <1>0, NamesKept
  <1>1. next \notin asked
    BY <1>0, AckedInFile
  <1>2. CASE content' = content
    BY <1>2, <1>4 DEF Files, GrownLog
  <1>3. CASE Emit(p) \/ WriteSentinel(p) \/ WriteRechained(p)
    <2>1. PICK l \in Line : /\ l.cur = next
                            /\ content' = [content EXCEPT ![Len(content)] = Append(Log, l)]
      BY <1>0, <1>3, LineWritten
    <2>. QED BY <1>0, <1>1, <1>4, <2>1, FilesGrow
  <1>5. CASE Fits(p) \/ ReadForRotation(p) \/ Exit(p)
    <2>1. content' = [content EXCEPT ![File(p)] = Flushed(p)]
      BY <1>5 DEF Fits, ReadForRotation, Exit, File
    <2>. QED BY <1>0, <1>2, <2>1, FlushSame DEF TrailInv
  <1>6. CASE ReadTail(p) \/ FlushFails(p) \/ Kill(p) \/ UNCHANGED vars
    BY <1>2, <1>6 DEF ReadTail, FlushFails, Kill, vars
  <1>. QED BY <1>3, <1>4, <1>5, <1>6 DEF Next, Step

\* What acked holds stays.
LEMMA AckedGrows ==
    ASSUME [Next]_vars
    PROVE  acked \subseteq acked'
  <1>1. CASE UNCHANGED vars
    BY <1>1 DEF vars
  <1>2. ASSUME NEW p \in Proc, Step(p)
        PROVE  acked \subseteq acked'
    BY <1>2 DEF Step, ReadTail, Fits, Emit, FlushFails, ReadForRotation, RemoveOldest,
       Rollover, RolloverUnmarked, Rename, WriteSentinel, WriteRechained, Exit, Kill, Close, Emitted
  <1>. QED BY <1>1, <1>2 DEF Next

-----------------------------------------------------------------------------
(* verify_chain() of a log that one process writes, killed anywhere.        *)

\* A log that was rotated is not empty, or there is a backup.
FoundSome(r, N) == r.at # "look" /\ N > 1 => r.files # <<>>

ReportInv(p) ==
    /\ TrailInv(p) /\ EventInv
    /\ report \in Reports /\ InFiles(report) /\ report.asked \subseteq acked
    /\ ~ report.rotated => ~ UnderWay /\ Reading(report, Files, Len(names))
    /\ ~ report.rotated => FoundSome(report, Len(content))

\* The file behind a name.
LEMMA PathIs ==
    ASSUME NEW p \in Proc, TrailInv(p), Faults \subseteq {"kill"}, NEW k \in Nat
    PROVE  /\ Path(k) = IF k < Len(names) THEN Files[Len(names) - k] ELSE <<>>
           /\ Path(k) \in Lines
  <1>n. PICK n : n = Len(names)
    OBVIOUS
  <1>1. n \in Nat \ {0} /\ DOMAIN Files = 1 .. n /\ Files \in [1 .. n -> Lines]
    BY <1>n, FilesChained DEF TrailInv, Chained
  <1>2. \A i \in 1 .. n : Files[i] = content[names[i]]
    BY <1>n, NamedFiles
  <1>3. k < n => n - k \in 1 .. n
    BY <1>1
  <1>4. Path(k) = IF k < n THEN Files[n - k] ELSE <<>>
    BY <1>n, <1>2, <1>3 DEF Path
  <1>5. <<>> \in Lines
    BY EmptySeq DEF Lines
  <1>6. Path(k) \in Lines
    BY <1>1, <1>3, <1>4, <1>5
  <1>. QED BY <1>n, <1>4, <1>6

LEMMA NamesBounded ==
    ASSUME NEW p \in Proc, TrailInv(p), Faults \subseteq {"kill"}
    PROVE  Len(names) \in Nat \ {0} /\ Len(names) <= BackupCount + 1
  BY AuditLogAssumption, NamedFiles DEF TrailInv, ChainInv, LinkInv, Typed, TypeOK

LEMMA LogStepReport ==
    ASSUME NEW p, Proc = {p}, Faults \subseteq {"kill"}, ReportInv(p), LogStep
    PROVE  ReportInv(p)'
  <1>0. p \in Proc
    OBVIOUS
  <1>1. [Next]_vars
    BY DEF LogStep
  <1>2. TrailInv(p)' /\ EventInv'
    BY <1>1, NextTrail, NextEvents DEF ReportInv
  <1>3. PICK t : t = report'
    OBVIOUS
  <1>4. t = [report EXCEPT !.rotated = @ \/ UnderWay']
    BY <1>3 DEF LogStep
  <1>5. /\ t \in Reports /\ t.asked = report.asked
        /\ t.rotated = (report.rotated \/ UnderWay')
        /\ t.at = report.at /\ t.look = report.look /\ t.files = report.files
        /\ t.index = report.index /\ t.expected = report.expected /\ t.ok = report.ok
        /\ t.truncated = report.truncated /\ t.covered = report.covered
    <2>1. PICK b \in BOOLEAN : b = (report.rotated \/ UnderWay')
      OBVIOUS
    <2>2. t = [report EXCEPT !.rotated = b]
      BY <1>4, <2>1
    <2>. QED BY <2>1, <2>2 DEF ReportInv, Reports
  <1>6. InFiles(t)
    BY <1>5 DEF ReportInv, InFiles
  <1>7. t.asked \subseteq acked'
    BY <1>1, <1>5, AckedGrows DEF ReportInv
  <1>8. ASSUME ~ t.rotated
        PROVE  /\ ~ UnderWay' /\ Reading(t, Files', Len(names'))
               /\ FoundSome(t, Len(content'))
    <2>0. ~ report.rotated /\ ~ UnderWay /\ ~ UnderWay'
      BY <1>5, <1>8 DEF ReportInv
    <2>1. names' = names
      BY <1>1, <2>0, NamesKept
    <2>2. GrownLog(Files, Files', Len(names), report.asked)
      BY <1>1, <2>0, LogStepGrows DEF ReportInv
    <2>3. Chained(Files, Len(names))
      BY <1>0, FilesChained DEF ReportInv, TrailInv
    <2>4. Reading(report, Files', Len(names))
      BY <2>0, <2>1, <2>2, <2>3, GrowReading DEF ReportInv
    <2>5. Reading(t, Files', Len(names))
      BY <1>5, <2>4 DEF Reading, LookInv, FoundInv, PlaceInChain, VerifiedInv, Verified,
                        BeginningInv, Begun
    <2>6. Len(content') = Len(content)
      <3>1. Len(names) \in Nat \ {0}
        BY <1>0, NamesBounded DEF ReportInv
      <3>2. 1 \in 1 .. Len(names)
        BY <3>1
      <3>3. /\ names[1] = Len(content) - Len(names) + 1
            /\ names[1] = Len(content') - Len(names) + 1
        BY <1>2, <2>1, <3>2 DEF ReportInv, TrailInv, ChainInv, NamesInv
      <3>4. Len(content) \in Nat /\ Len(content') \in Nat
        <4>1. (content \in Seq(Seq(Line)))' /\ content \in Seq(Seq(Line))
          BY <1>2 DEF ReportInv, TrailInv, ChainInv, LinkInv, Typed, TypeOK
        <4>. QED BY <4>1
      <3>. QED BY <3>1, <3>3, <3>4
    <2>7. FoundSome(t, Len(content'))
      BY <1>5, <2>0, <2>6 DEF ReportInv, FoundSome
    <2>. QED BY <2>0, <2>1, <2>5, <2>7
  <1>. QED BY <1>2, <1>3, <1>5, <1>6, <1>7, <1>8 DEF ReportInv

LEMMA UnchangedLog ==
    ASSUME NEW p, Proc = {p}, Faults \subseteq {"kill"}, ReportInv(p), UNCHANGED vars
    PROVE  TrailInv(p)' /\ EventInv' /\ Files' = Files /\ names' = names /\ acked' = acked
           /\ UnderWay' = UnderWay /\ content' = content
  <1>1. TrailInv(p)' /\ EventInv'
    BY NextTrail, NextEvents DEF ReportInv
  <1>2. content' = content /\ names' = names /\ acked' = acked
    BY DEF vars
  <1>3. UnderWay' = UnderWay
    BY DEF vars, UnderWay, Rotating, Outgrown, ShouldRollover, Flushed, File, Put, PutRest,
       EndsTorn, ReplaceLast
  <1>. QED BY <1>1, <1>2, <1>3 DEF Files

LEMMA ReportStepReport ==
    ASSUME NEW p, Proc = {p}, Faults \subseteq {"kill"}, ReportInv(p), ReportStep
    PROVE  ReportInv(p)'
  <1>0. p \in Proc
    OBVIOUS
  <1>1. /\ TrailInv(p)' /\ EventInv' /\ Files' = Files /\ names' = names /\ acked' = acked
        /\ UnderWay' = UnderWay /\ content' = content
    BY <1>0, UnchangedLog DEF ReportStep
  <1>2. PICK n, fs, r, t : n = Len(names) /\ fs = Files /\ r = report /\ t = report'
    OBVIOUS
  <1>3. /\ n \in Nat \ {0} /\ n <= BackupCount + 1 /\ Chained(fs, n)
        /\ r \in Reports /\ InFiles(r) /\ r.asked \subseteq acked
        /\ ~ r.rotated => ~ UnderWay /\ Reading(r, fs, n) /\ FoundSome(r, Len(content))
    BY <1>0, <1>2, NamesBounded, FilesChained DEF ReportInv, TrailInv
  <1>4. CASE StartReport
    <2>0. PICK u \in BOOLEAN : u = UnderWay
      BY DEF UnderWay
    <2>1. t = Begin(acked, u)
      BY <1>2, <1>4, <2>0 DEF StartReport, Begin
    <2>2. acked \in SUBSET Nat
      BY DEF ReportInv, EventInv, LinkInv, Typed, TypeOK
    <2>3. /\ t \in Reports /\ InFiles(t) /\ t.asked = acked /\ t.at = "look"
          /\ t.rotated = u
      BY <2>0, <2>1, <2>2, BeginType
    <2>5. t.rotated = UnderWay
      BY <2>0, <2>3
    <2>4. Reading(t, fs, n)
      BY <1>3, <2>1, <2>2, BeginReading
    <2>. QED BY <1>1, <1>2, <2>3, <2>4, <2>5 DEF ReportInv, FoundSome
  <1>5. CASE Look
    <2>1. PICK s : s = Path(r.look)
      OBVIOUS
    <2>2. r.at = "look" /\ t = LookAt(r, s)
      BY <1>2, <1>5, <2>1 DEF Look, LookAt, Finds
    <2>3. s = IF r.look < n THEN fs[n - r.look] ELSE <<>>
      BY <1>0, <1>2, <1>3, <2>1, PathIs, ReportFields DEF ReportInv
    <2>4. t \in Reports /\ InFiles(t) /\ t.asked = r.asked /\ t.rotated = r.rotated
      BY <1>3, <2>2, LookType, Zenon
    <2>5. ~ r.rotated => Reading(t, fs, n)
      BY <1>3, <2>2, <2>3, LookReading
    <2>6. ~ r.rotated => FoundSome(t, Len(content))
      <3> SUFFICES ASSUME ~ r.rotated, t.at # "look", Len(content) > 1, t.files = <<>>
                   PROVE  FALSE
        BY DEF FoundSome
      <3>1. Len(t.files) \in {n - 1, n} /\ Len(t.files) = 0
        BY <2>4, <2>5, ReportFields DEF Reading, FoundInv
      <3>2. n = 1
        BY <1>3, <3>1
      <3>3. Log # <<>>
        BY <1>2, <3>2 DEF ReportInv, TrailInv
      <3>4. fs[1] = Log
        BY <1>0, <1>2, <3>2, NamedFiles DEF ReportInv
      <3>5. r.look = 0
        BY <1>3, <2>2, <3>1, ReportFields DEF LookAt, Reports
      <3>6. s # <<>>
        BY <1>3, <2>3, <3>2, <3>3, <3>4, <3>5
      <3>7. t.files = Append(r.files, r.look)
        BY <1>3, <2>2, <3>6 DEF LookAt, Finds, Reports
      <3>8. Len(Append(r.files, r.look)) = Len(r.files) + 1 /\ Len(r.files) \in Nat
        BY <1>3, ReportFields
      <3>. QED BY <3>1, <3>7, <3>8
    <2>. QED BY <1>1, <1>2, <1>3, <2>4, <2>5, <2>6 DEF ReportInv
  <1>6. ASSUME ReadFirst \/ ReadFile
        PROVE  LET s == Path(r.files[r.index]) IN
               /\ s \in Lines
               /\ ~ r.rotated => s = fs[r.index] /\ r.files[r.index] < Len(names)
    <2>1. r.at \in {"first", "read"}
      BY <1>2, <1>6 DEF ReadFirst, ReadFile
    <2>2. r.index \in 1 .. Len(r.files) /\ r.files \in Seq(Nat)
      BY <1>3, <2>1, ReportFields DEF InFiles
    <2>3. r.files[r.index] \in Nat
      BY <2>2, ElementOfSeq
    <2>4. ASSUME ~ r.rotated
          PROVE  Path(r.files[r.index]) = fs[r.index] /\ r.files[r.index] < Len(names)
      <3>1. r.index \in 1 .. n /\ r.files[r.index] = n - r.index
        BY <1>3, <2>1, <2>2, <2>4, NextFile DEF Reading
      <3>2. n - r.index < n /\ n - (n - r.index) = r.index
        BY <1>3, <3>1
      <3>. QED BY <1>0, <1>2, <2>3, <3>1, <3>2, PathIs DEF ReportInv
    <2>. QED BY <1>0, <2>3, <2>4, PathIs DEF ReportInv
  <1>7. CASE ReadFirst
    <2>1. PICK s : s = Path(r.files[r.index])
      OBVIOUS
    <2>2. r.at = "first" /\ t = FirstOf(r, s)
      BY <1>2, <1>7, <2>1
         DEF ReadFirst, FirstOf, Joins, Shortens, Restarts, Cut, Anew, Continues
    <2>3. s \in Lines /\ (~ r.rotated => s = fs[r.index])
      BY <1>6, <1>7, <2>1
    <2>4. t \in Reports /\ InFiles(t) /\ t.asked = r.asked /\ t.rotated = r.rotated
      BY <1>3, <2>2, <2>3, FirstType, Zenon
    <2>5. ~ r.rotated => Reading(t, fs, n)
      BY <1>3, <2>2, <2>3, FirstReading
    <2>6. ~ r.rotated => FoundSome(t, Len(content))
      <3>1. t.files = r.files
        BY <1>3, <2>2, <2>3, FirstType, Zenon
      <3>. QED BY <1>3, <2>2, <3>1 DEF FoundSome
    <2>. QED BY <1>1, <1>2, <1>3, <2>4, <2>5, <2>6 DEF ReportInv
  <1>8. CASE ReadFile
    <2>1. PICK s : s = Path(r.files[r.index])
      OBVIOUS
    <2>0. PICK e \in BOOLEAN : e <=> r.files[r.index] < Len(names)
      <3>1. \A x : \E e \in BOOLEAN : e <=> x
        BY Zenon
      <3>. QED BY <3>1, Zenon
    <2>2. r.at = "read" /\ t = FileOf(r, s, e)
      BY <1>2, <1>8, <2>0, <2>1 DEF ReadFile, FileOf, SoundAt, EndsAt
    <2>3. s \in Lines /\ (~ r.rotated => s = fs[r.index] /\ e)
      BY <1>6, <1>8, <2>0, <2>1
    <2>4. t \in Reports /\ InFiles(t) /\ t.asked = r.asked /\ t.rotated = r.rotated
      BY <1>3, <2>2, <2>3, FileOfKeeps, Zenon
    <2>5. ~ r.rotated => Reading(t, fs, n)
      BY <1>3, <2>2, <2>3, FileReading
    <2>6. ~ r.rotated => FoundSome(t, Len(content))
      <3>1. t.files = r.files
        BY <1>3, <2>2, <2>3, FileOfKeeps, Zenon
      <3>. QED BY <1>3, <2>2, <3>1 DEF FoundSome
    <2>. QED BY <1>1, <1>2, <1>3, <2>4, <2>5, <2>6 DEF ReportInv
  <1>. QED BY <1>4, <1>5, <1>7, <1>8 DEF ReportStep

\* What verify_chain() has found out is so, as long as nobody rotates.
THEOREM ReportInvariance ==
    ASSUME NEW p, Proc = {p}, Faults \subseteq {"kill"}
    PROVE  ReportSpec => []ReportInv(p)
  <1>0. p \in Proc
    OBVIOUS
  <1>1. ReportInit => ReportInv(p)
    BY <1>0, InitTrail, InitEvents, NoReportType DEF ReportInit, ReportInv, NoReport
  <1>2. ReportInv(p) /\ [LogStep \/ ReportStep]_<<vars, reportVars>> => ReportInv(p)'
    <2>1. ASSUME ReportInv(p), UNCHANGED <<vars, reportVars>>
          PROVE  ReportInv(p)'
      BY <1>0, <2>1, UnchangedLog DEF ReportInv, reportVars
    <2>. QED BY <2>1, LogStepReport, ReportStepReport
  <1>. QED BY <1>1, <1>2, PTL DEF ReportSpec

\* verify_chain() of a log that one process writes reports a broken chain only
\* if a rotation was under way meanwhile; kills and restarts alone never make it
\* do so.
THEOREM NoAlarm ==
    ASSUME NEW p, Proc = {p}, Faults \subseteq {"kill"}
    PROVE  ReportSpec => []AlarmOnlyIfRotated
  <1>1. ReportInv(p) => AlarmOnlyIfRotated
    BY DEF ReportInv, Reading, VerifiedInv, AlarmOnlyIfRotated
  <1>. QED BY <1>1, ReportInvariance, PTL

\* What a verification that succeeds without a rotation says of every file.
LEMMA AllVerified ==
    ASSUME NEW p \in Proc, Faults \subseteq {"kill"}, ReportInv(p),
           report.at = "done", ~ report.rotated,
           NEW k \in 1 .. Len(names), NEW j \in 1 .. Len(Files[k]),
           Files[k][j].cur \in report.asked
    PROVE  Files[k][j].cur \in report.covered
  <1>1. Verified(report, Files[k])
    BY DEF ReportInv, Reading, VerifiedInv
  <1>2. Files[k] \in Lines
    BY FilesChained DEF ReportInv, TrailInv, Chained
  <1>3. PICK s \in Lines : s = Files[k]
    BY <1>2
  <1>4. DOMAIN s = 1 .. Len(s)
    BY LenProperties DEF Lines
  <1>. QED BY <1>1, <1>3, <1>4 DEF Verified

\* verify_chain() that answers "ok" without a rotation has verified every
\* event that was acknowledged when it began and is still in some file.
THEOREM OkIsComplete ==
    ASSUME NEW p, Proc = {p}, Faults \subseteq {"kill"}
    PROVE  ReportSpec => []ReportComplete
  <1>1. ASSUME ReportInv(p)
        PROVE  ReportComplete
    <2> SUFFICES ASSUME report.at = "done", ~ report.rotated,
                        NEW i \in DOMAIN Trail, Trail[i].cur \in report.asked
                 PROVE  Trail[i].cur \in report.covered
      BY DEF ReportComplete
    <2>1. PICK fs : fs = Files
      OBVIOUS
    <2>2. fs \in Seq(Seq(Line)) /\ fs # <<>> /\ Len(fs) = Len(names)
      BY <1>1, <2>1, NamedFiles DEF ReportInv, Lines
    <2>3. FlattenSeq(fs) \in Seq(Line) /\ From(FlattenSeq(fs), fs, Len(fs))
      BY <2>2, FlattenParts
    <2>4. PICK s \in Seq(Line) : s = Trail /\ From(s, fs, Len(fs))
      BY <2>1, <2>3 DEF Trail
    <2>5. i \in 1 .. Len(s)
      BY <2>4, LenProperties
    <2>6. PICK k \in 1 .. Len(names) : \E m \in 1 .. Len(fs[k]) : s[i] = fs[k][m]
      BY <2>2, <2>4, <2>5 DEF From
    <2>7. PICK m \in 1 .. Len(Files[k]) : s[i] = Files[k][m]
      BY <2>1, <2>6
    <2>. QED BY <1>1, <2>4, <2>7, AllVerified
  <1>. QED BY <1>1, ReportInvariance, PTL

\* verify_chain() that answers "ok" without a rotation and without truncated
\* history has verified all that was acknowledged, unless the oldest file left
\* is the beginning of an epoch.
THEOREM LossIsReported ==
    ASSUME NEW p, Proc = {p}, Faults \subseteq {"kill"}
    PROVE  ReportSpec => []HistoryLossReported
  <1>1. ASSUME ReportInv(p)
        PROVE  HistoryLossReported
    <2> SUFFICES ASSUME report.at = "done", ~ report.rotated, ~ report.truncated,
                        NEW id \in report.asked, id \notin report.covered
                 PROVE  RestartPruned
      BY DEF HistoryLossReported
    <2>n. PICK n : n = Len(names)
      OBVIOUS
    <2>m. PICK N : N = Len(content)
      OBVIOUS
    <2>1. /\ n \in Nat \ {0} /\ N \in Nat \ {0} /\ N - n \in Nat /\ DOMAIN content = 1 .. N
          /\ \A i \in 1 .. n : names[i] = N - n + i /\ Files[i] = content[names[i]]
          /\ content \in Seq(Lines)
      BY <1>1, <2>n, <2>m, NamedFiles, Newest DEF ReportInv, TrailInv
    <2>2. PICK i \in 1 .. N : \E j \in DOMAIN content[i] : content[i][j].cur = id
      <3>1. InFile(id)
        BY <1>1, AckedInFile DEF ReportInv
      <3>. QED BY <2>1, <3>1 DEF InFile
    <2>3. i < N - n + 1
      <3> SUFFICES ASSUME i >= N - n + 1 PROVE FALSE
        BY <2>1
      <3>1. PICK k \in 1 .. n : i = N - n + k
        <4>1. i - (N - n) \in 1 .. n /\ i = N - n + (i - (N - n))
          BY <2>1
        <4>. QED BY <4>1
      <3>2. content[i] = Files[k]
        BY <2>1, <3>1
      <3>3. PICK s \in Lines : s = Files[k]
        BY <2>1, <3>2, <2>m, ElementOfSeq
      <3>4. DOMAIN s = 1 .. Len(s)
        BY LenProperties DEF Lines
      <3>5. PICK j \in 1 .. Len(Files[k]) : Files[k][j].cur = id
        BY <2>2, <3>2, <3>3, <3>4
      <3>. QED BY <1>1, <2>n, <3>5, AllVerified
    <2>4. N > n /\ N > 1 /\ names[1] = N - n + 1 /\ Files[1] = content[N - n + 1]
      BY <2>1, <2>3
    <2>6. report.files # <<>>
      BY <1>1, <2>m, <2>4 DEF ReportInv, FoundSome
    <2>7. Files[1][1].prev = Genesis
      BY <1>1, <2>6 DEF ReportInv, Reading, BeginningInv, Begun
    <2>8. content[N - n + 1] # <<>>
      <3>1. CASE n = 1
        <4>1. Log = content[N]
          BY <1>1, <2>m, NamedFiles DEF ReportInv
        <4>2. Log # <<>>
          BY <1>1, <2>n, <2>m, <2>4, <3>1 DEF ReportInv, TrailInv
        <4>. QED BY <2>1, <3>1, <4>1, <4>2
      <3>2. CASE n # 1
        <4>1. N - n + 1 \in 1 .. N - 1
          BY <2>1, <3>2
        <4>. QED BY <1>1, <2>m, <4>1 DEF ReportInv, TrailInv, ChainInv, ChainLines
      <3>. QED BY <3>1, <3>2
    <2>9. N - n \in 1 .. names[1] - 1
      BY <2>1, <2>4
    <2>. QED BY <2>4, <2>7, <2>8, <2>9 DEF RestartPruned
  <1>. QED BY <1>1, ReportInvariance, PTL
=============================================================================
