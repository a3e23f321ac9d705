-------------------------- MODULE KeyRotationProofs --------------------------
(***************************************************************************)
(* Proofs about KeyRotation: IInv is inductive, for every number of        *)
(* processes that rotate and encrypt at the same time; and if one process  *)
(* rotates, what was sealed opens, registered keys stay as they are, and   *)
(* to its readers the key directory changes one rotation at a time.        *)
(***************************************************************************)
EXTENDS KeyRotation, WellFoundedInduction, TLAPS

-----------------------------------------------------------------------------
(* Registries *)

LEMMA RotatedType ==
    ASSUME NEW r \in Registry, NEW k \in KeyId
    PROVE  Rotated(r, k) \in Registry
  BY DEF Rotated, Registry, Status, Demoted

\* Rotation leaves one active key of its type and no other type's changed.
LEMMA RotatedValid ==
    ASSUME NEW r \in Registry, NEW k \in KeyId, Valid(r)
    PROVE  Valid(Rotated(r, k))
  <1> SUFFICES ASSUME NEW t \in Type,
                      NEW i \in ActiveIds(Rotated(r, k), t),
                      NEW j \in ActiveIds(Rotated(r, k), t)
               PROVE  i = j
    BY DEF Valid
  <1>1. \A id \in KeyId : Rotated(r, k)[id] = "active"
                            => id = k \/ (r[id] = "active" /\ id[1] # k[1])
    BY DEF Rotated, ActiveIds, Demoted
  <1>. QED BY <1>1 DEF ActiveIds, Valid

\* Rotation registers one key and forgets none.
LEMMA RotatedKnown ==
    ASSUME NEW r \in Registry, NEW k \in KeyId, NEW j \in KeyId
    PROVE  Rotated(r, k)[j] = "none" <=> j # k /\ r[j] = "none"
  BY DEF Rotated, Demoted, ActiveIds

LEMMA EmptyValid == EmptyRegistry \in Registry /\ Valid(EmptyRegistry)
  BY DEF EmptyRegistry, Registry, Status, Valid, ActiveIds

LEMMA KeyIdParts ==
    ASSUME NEW k \in KeyId
    PROVE  k[1] \in Type /\ k[2] \in 1 .. MaxKeys /\ k = <<k[1], k[2]>>
  BY DEF KeyId

LEMMA InitInv == Init => IInv
  <1> SUFFICES ASSUME Init PROVE IInv
    OBVIOUS
  <1>1. TypeOK
    BY EmptyValid, KeyRotationAssumption
       DEF Init, TypeOK, NoFiles, Material, Missing, Locations
  <1>2. TodoInv /\ KeyInv /\ WritingInv
    BY DEF Init, TodoInv, KeyInv, WritingInv, Writing
  <1>3. OneActive
    BY EmptyValid DEF Init, OneActive
  <1>4. FreshInv /\ KnownWhole
    BY DEF Init, FreshInv, KnownWhole, Unknown, EmptyRegistry
  <1>. QED BY <1>1, <1>2, <1>3, <1>4 DEF IInv

-----------------------------------------------------------------------------
(* Type correctness, and what a busy process has in hand *)

Typed == TypeOK /\ TodoInv /\ KeyInv

LEMMA StopTyped ==
    ASSUME Typed, NEW p \in Proc, Stop(p),
           registry' \in Registry, fresh' \in 1 .. MaxKeys + 1, fresh' >= fresh,
           priv' \in [KeyId -> Material], pub' \in [KeyId -> Material],
           fp' \in [KeyId -> Material], containers' \subseteq Container
    PROVE  Typed'
  <1>1. TypeOK'
    BY EmptyValid DEF Typed, TypeOK, Stop, Goto, Locations, Material, Missing
  <1>2. TodoInv'
    BY DEF Typed, TypeOK, TodoInv, Stop, Goto
  <1>3. KeyInv'
    BY KeyRotationAssumption DEF Typed, TypeOK, KeyInv, Stop, Goto, Writing
  <1>. QED BY <1>1, <1>2, <1>3 DEF Typed

LEMMA NextMethodTyped ==
    ASSUME Typed, NEW p \in Proc, pc[p] # "idle", NEW ok, NEW r \in Registry,
           NextMethod(p, ok, r),
           registry' \in Registry, fresh' \in 1 .. MaxKeys + 1, fresh' >= fresh,
           priv' \in [KeyId -> Material], pub' \in [KeyId -> Material],
           fp' \in [KeyId -> Material]
    PROVE  Typed'
  <1>1. containers' \subseteq Container
    BY DEF NextMethod, Typed, TypeOK
  <1>2. CASE Stop(p)
    BY <1>1, <1>2, StopTyped
  <1>3. CASE ~ Stop(p)
    <2>1. /\ Tail(todo[p]) # <<>> /\ Goto(p, "priv")
          /\ todo' = [todo EXCEPT ![p] = Tail(@)]
          /\ mem' = [mem EXCEPT ![p] = r]
          /\ key' = [key EXCEPT ![p] = NoKey]
          /\ mat' = [mat EXCEPT ![p] = Missing]
          /\ cmd' = cmd
      BY <1>3 DEF NextMethod
    <2>2. todo[p] \in Seq(Type) /\ todo[p] # <<>>
      BY DEF Typed, TypeOK, TodoInv
    <2>3. Tail(todo[p]) \in Seq(Type)
      BY <2>2
    <2>4. TypeOK'
      BY <1>1, <2>1, <2>3 DEF Typed, TypeOK, Goto, Locations, Material, Missing
    <2>5. TodoInv'
      BY <2>1 DEF Typed, TypeOK, TodoInv, Goto
    <2>6. KeyInv'
      BY <2>1 DEF Typed, TypeOK, KeyInv, Goto, Writing
    <2>. QED BY <2>4, <2>5, <2>6 DEF Typed
  <1>. QED BY <1>2, <1>3

LEMMA BeginTyped ==
    ASSUME Typed, NEW p \in Proc, NEW c \in {"setup", "rotate", "seal"},
           NEW types \in Seq(Type), types # <<>>,
           NEW where \in {"priv", "wrap"}, Begin(p, c, types, where)
    PROVE  Typed'
  <1>1. TypeOK'
    BY DEF Begin, Typed, TypeOK, Locations, files
  <1>2. TodoInv'
    BY DEF Begin, Typed, TypeOK, TodoInv
  <1>3. KeyInv'
    BY DEF Begin, Typed, TypeOK, KeyInv, Writing
  <1>. QED BY <1>1, <1>2, <1>3 DEF Typed

LEMMA StartTyped ==
    ASSUME Typed, NEW p \in Proc, StartRotate(p) \/ StartSetup(p) \/ StartSeal(p)
    PROVE  Typed'
  <1>1. CASE StartRotate(p)
    BY <1>1, BeginTyped, KeyRotationAssumption DEF StartRotate
  <1>2. CASE StartSetup(p)
    <2>1. \A m \in Methods, u \in {"enc", "sign"} : <<m, u>> \in Type
      BY DEF Type
    <2>2. ASSUME Methods = {"rsa", "ecc"}
          PROVE  SetupOrder \in Seq(Type) /\ SetupOrder # <<>>
      <3>1. SetupOrder = <<<<"rsa", "enc">>, <<"ecc", "enc">>,
                          <<"rsa", "sign">>, <<"ecc", "sign">>>>
        BY <2>2 DEF SetupOrder
      <3>2. /\ <<"rsa", "enc">> \in Type /\ <<"ecc", "enc">> \in Type
            /\ <<"rsa", "sign">> \in Type /\ <<"ecc", "sign">> \in Type
        BY <2>1, <2>2
      <3>. QED BY <3>1, <3>2
    <2>3. ASSUME Methods # {"rsa", "ecc"}
          PROVE  SetupOrder \in Seq(Type) /\ SetupOrder # <<>>
      <3> DEFINE m == CHOOSE m \in Methods : TRUE
      <3>1. m \in Methods
        BY KeyRotationAssumption
      <3>2. SetupOrder = <<<<m, "enc">>, <<m, "sign">>>>
        BY <2>3 DEF SetupOrder
      <3>3. <<m, "enc">> \in Type /\ <<m, "sign">> \in Type
        BY <2>1, <3>1
      <3> HIDE DEF m
      <3>. QED BY <3>2, <3>3
    <2>4. SetupOrder \in Seq(Type) /\ SetupOrder # <<>>
      BY <2>2, <2>3
    <2>5. Begin(p, "setup", SetupOrder, "priv")
      BY <1>2 DEF StartSetup
    <2>. QED BY <2>4, <2>5, BeginTyped
  <1>3. CASE StartSeal(p)
    <2>1. PICK m \in Methods : Begin(p, "seal", <<<<m, "enc">>>>, "wrap")
      BY <1>3 DEF StartSeal
    <2>2. <<<<m, "enc">>>> \in Seq(Type) /\ <<<<m, "enc">>>> # <<>>
      BY DEF Type
    <2>. QED BY <2>1, <2>2, BeginTyped
  <1>. QED BY <1>1, <1>2, <1>3

LEMMA WriteTyped ==
    ASSUME Typed, NEW p \in Proc,
           WritePrivate(p) \/ WritePublic(p) \/ WriteFingerprint(p)
    PROVE  Typed'
  <1>1. CASE WritePrivate(p)
    <2>1. fresh \in 1 .. MaxKeys /\ fresh \in Material /\ fresh + 1 \in 1 .. MaxKeys + 1
      BY <1>1, KeyRotationAssumption DEF WritePrivate, Typed, TypeOK, Material
    <2>2. TypeOK'
      BY <1>1, <2>1 DEF WritePrivate, Typed, TypeOK, Goto, Locations
    <2>3. TodoInv'
      BY <1>1 DEF WritePrivate, Typed, TypeOK, TodoInv, Goto
    <2>4. KeyInv'
      BY <1>1, <2>1 DEF WritePrivate, Typed, TypeOK, KeyInv, Goto, Writing
    <2>. QED BY <2>2, <2>3, <2>4 DEF Typed
  <1>2. CASE WritePublic(p)
    <2>1. TypeOK'
      BY <1>2 DEF WritePublic, Typed, TypeOK, Goto, Locations
    <2>2. TodoInv' /\ KeyInv'
      BY <1>2 DEF WritePublic, Typed, TypeOK, TodoInv, KeyInv, Goto, Writing
    <2>. QED BY <2>1, <2>2 DEF Typed
  <1>3. CASE WriteFingerprint(p)
    <2>1. TypeOK'
      BY <1>3 DEF WriteFingerprint, Typed, TypeOK, Goto, Locations
    <2>2. TodoInv' /\ KeyInv'
      BY <1>3 DEF WriteFingerprint, Typed, TypeOK, TodoInv, KeyInv, Goto, Writing
    <2>. QED BY <2>1, <2>2 DEF Typed
  <1>. QED BY <1>1, <1>2, <1>3

LEMMA WriteFailsTyped ==
    ASSUME Typed, NEW p \in Proc, WriteFails(p) PROVE Typed'
  <1>1. /\ priv' \in [KeyId -> Material] /\ pub' \in [KeyId -> Material]
        /\ fp' \in [KeyId -> Material]
        /\ fresh' \in 1 .. MaxKeys + 1 /\ fresh' >= fresh
    <2>1. Torn \in Material
      BY DEF Material
    <2>2. /\ priv \in [KeyId -> Material] /\ pub \in [KeyId -> Material]
          /\ fp \in [KeyId -> Material] /\ fresh \in 1 .. MaxKeys + 1
      BY DEF Typed, TypeOK
    <2>3. /\ fresh \in Nat /\ fresh >= fresh /\ fresh + 1 >= fresh
          /\ fresh <= MaxKeys => fresh + 1 \in 1 .. MaxKeys + 1
      BY <2>2, KeyRotationAssumption
    <2>4. CASE /\ fresh <= MaxKeys /\ fresh' = fresh + 1
               /\ priv' = [priv EXCEPT ![NewId(p)] = Torn]
               /\ UNCHANGED <<pub, fp>>
      BY <2>1, <2>2, <2>3, <2>4
    <2>5. CASE /\ pub' = [pub EXCEPT ![key[p]] = Torn]
               /\ UNCHANGED <<priv, fp, fresh>>
      BY <2>1, <2>2, <2>3, <2>5
    <2>6. CASE /\ fp' = [fp EXCEPT ![key[p]] = Torn]
               /\ UNCHANGED <<priv, pub, fresh>>
      BY <2>1, <2>2, <2>3, <2>6
    <2>7. CASE UNCHANGED <<files, fresh>>
      BY <2>2, <2>3, <2>7 DEF files
    <2>. QED BY <2>4, <2>5, <2>6, <2>7 DEF WriteFails
  <1>2. /\ NextMethod(p, FALSE, mem[p]) /\ registry' \in Registry
        /\ pc[p] # "idle" /\ mem[p] \in Registry
    BY DEF WriteFails, Typed, TypeOK
  <1>. QED BY <1>1, <1>2, NextMethodTyped

LEMMA FinishTyped ==
    ASSUME Typed, NEW p \in Proc,
           Save(p) \/ SaveFails(p) \/ LogRotation(p) \/ AuditFails(p)
    PROVE  Typed'
  <1>1. mem[p] \in Registry /\ fresh \in 1 .. MaxKeys + 1 /\ fresh >= fresh
    BY DEF Typed, TypeOK
  <1>2. pc[p] = "save" => key[p] \in KeyId /\ Rotated(mem[p], key[p]) \in Registry
    BY <1>1, RotatedType DEF Typed, KeyInv, Writing
  <1>3. CASE Save(p)
    <2>1. TypeOK'
      BY <1>2, <1>3 DEF Save, Typed, TypeOK, files, Goto, Locations
    <2>2. TodoInv' /\ KeyInv'
      BY <1>2, <1>3 DEF Save, Typed, TypeOK, files, Goto, TodoInv, KeyInv, Writing
    <2>. QED BY <2>1, <2>2 DEF Typed
  <1>4. CASE SaveFails(p)
    <2>1. /\ NextMethod(p, FALSE, Rotated(mem[p], key[p])) /\ pc[p] = "save"
          /\ UNCHANGED <<registry, priv, pub, fp, fresh>>
      BY <1>4 DEF SaveFails, files
    <2>2. /\ registry' \in Registry /\ fresh' \in 1 .. MaxKeys + 1 /\ fresh' >= fresh
          /\ priv' \in [KeyId -> Material] /\ pub' \in [KeyId -> Material]
          /\ fp' \in [KeyId -> Material]
      BY <1>1, <2>1 DEF Typed, TypeOK
    <2>. QED BY <1>2, <2>1, <2>2, NextMethodTyped
  <1>5. CASE LogRotation(p) \/ AuditFails(p)
    <2>1. /\ pc[p] = "audit" /\ UNCHANGED <<registry, priv, pub, fp, fresh>>
          /\ NextMethod(p, TRUE, mem[p]) \/ NextMethod(p, FALSE, mem[p])
      BY <1>5 DEF LogRotation, AuditFails, files
    <2>2. /\ registry' \in Registry /\ fresh' \in 1 .. MaxKeys + 1 /\ fresh' >= fresh
          /\ priv' \in [KeyId -> Material] /\ pub' \in [KeyId -> Material]
          /\ fp' \in [KeyId -> Material]
      BY <1>1, <2>1 DEF Typed, TypeOK
    <2>. QED BY <1>1, <2>1, <2>2, NextMethodTyped
  <1>. QED BY <1>3, <1>4, <1>5

LEMMA SealTyped ==
    ASSUME Typed, NEW p \in Proc,
           Wrap(p) \/ Sign(p) \/ SealFails(p) \/ Crash(p) \/ SaveAborts(p)
    PROVE  Typed'
  <1>1. CASE Wrap(p)
    <2>1. PICK k \in EncIds(p) :
             /\ pub[k] \in 1 .. MaxKeys
             /\ key' = [key EXCEPT ![p] = k]
             /\ mat' = [mat EXCEPT ![p] = pub[k]]
      BY <1>1 DEF Wrap
    <2>2. k \in KeyId
      BY DEF EncIds, ActiveIds
    <2>3. TypeOK'
      BY <1>1, <2>1, <2>2 DEF Wrap, Typed, TypeOK, Goto, Locations, files, Material
    <2>4. TodoInv' /\ KeyInv'
      BY <1>1, <2>1, <2>2
         DEF Wrap, Typed, TypeOK, Goto, TodoInv, KeyInv, Writing, files
    <2>. QED BY <2>3, <2>4 DEF Typed
  <1>2. CASE Sign(p) \/ SealFails(p) \/ Crash(p) \/ SaveAborts(p)
    <2>1. Stop(p) /\ UNCHANGED <<registry, priv, pub, fp, fresh>>
      BY <1>2 DEF Sign, SealFails, Crash, SaveAborts, Dies, files
    <2>2. containers' \subseteq Container
      <3>1. CASE Sign(p)
        <4>1. PICK k \in SignIds(p) :
                 /\ priv[k] \in 1 .. MaxKeys
                 /\ containers' = containers \cup
                      {[enc |-> key[p], wrapped |-> mat[p], sign |-> k, signed |-> priv[k]]}
          BY <3>1 DEF Sign
        <4>2. k \in KeyId /\ key[p] \in KeyId /\ mat[p] \in Material /\ priv[k] \in Material
          BY <3>1, <4>1 DEF SignIds, ActiveIds, Sign, Typed, TypeOK, KeyInv, Material
        <4>. QED BY <4>1, <4>2 DEF Container, Typed, TypeOK
      <3>2. CASE SealFails(p) \/ Crash(p) \/ SaveAborts(p)
        BY <3>2 DEF SealFails, Crash, SaveAborts, Dies, Typed, TypeOK
      <3>. QED BY <1>2, <3>1, <3>2
    <2>3. /\ registry' \in Registry /\ fresh' \in 1 .. MaxKeys + 1 /\ fresh' >= fresh
          /\ priv' \in [KeyId -> Material] /\ pub' \in [KeyId -> Material]
          /\ fp' \in [KeyId -> Material]
      BY <2>1 DEF Typed, TypeOK
    <2>. QED BY <2>1, <2>2, <2>3, StopTyped
  <1>. QED BY <1>1, <1>2

-----------------------------------------------------------------------------
(* What one process may do to the registries and files the others rely on *)

Rest == OneActive /\ FreshInv /\ WritingInv /\ KnownWhole

\* No process but p is writing the files of k.
NoOtherWrites(p, k) == \A q \in Proc \ {p} : Writing(q) => key[q] # k

OthersIdle(p) ==
    /\ \A q \in Proc \ {p} : /\ pc'[q] = pc[q] /\ key'[q] = key[q]
                             /\ mat'[q] = mat[q] /\ mem'[q] = mem[q]
    /\ fresh' >= fresh

\* Only files of W change, and no registry and no other process knows them.
OnlyChanges(p, W) ==
    /\ \A k \in W : IsEnc(k) => Unknown(k) /\ NoOtherWrites(p, k)
    /\ \A k \in KeyId \ W : priv'[k] = priv[k] /\ pub'[k] = pub[k] /\ fp'[k] = fp[k]

\* Registry object r names only keys known before, or p's own when it is whole.
Founded(p, r) ==
    \A k \in KeyId : (IsEnc(k) /\ r[k] # "none") =>
        ~ Unknown(k) \/ (k[2] < fresh' /\ Whole(k)' /\ NoOtherWrites(p, k))

\* What WritingInv asks of p itself.
OwnKey(p, r) ==
    (Writing(p)' /\ IsEnc(key'[p])) =>
        /\ mat'[p] = key'[p][2]
        /\ priv'[key'[p]] = mat'[p]
        /\ pc'[p] \in {"fp", "save"} => pub'[key'[p]] = mat'[p]
        /\ pc'[p] = "save" => fp'[key'[p]] = mat'[p]
        /\ Unknown(key'[p]) /\ r[key'[p]] = "none"
        /\ NoOtherWrites(p, key'[p])

LEMMA LocalStep ==
    ASSUME IInv, Typed', NEW p \in Proc, NEW r \in Registry, Valid(r),
           registry' \in {registry, r}, mem'[p] = r,
           OthersIdle(p), NEW W \in SUBSET KeyId, OnlyChanges(p, W),
           Founded(p, r), OwnKey(p, r)
    PROVE  Rest'
  <1>1. ASSUME NEW k \in KeyId, Unknown(k), r[k] = "none" PROVE Unknown(k)'
    BY <1>1 DEF Unknown, OthersIdle
  <1>2. ASSUME NEW k \in KeyId, ~ Unknown(k)', Unknown(k) PROVE r[k] # "none"
    BY <1>1, <1>2
  <1>3. OneActive'
    BY DEF IInv, OneActive, OthersIdle
  <1>4. FreshInv'
    <2> SUFFICES ASSUME NEW k \in KeyId, IsEnc(k), k[2] >= fresh'
                 PROVE  Unknown(k)'
      BY DEF FreshInv, IsEnc
    <2>1. k[2] \in Int /\ fresh \in Int /\ fresh' \in Int /\ fresh' >= fresh
      BY KeyIdParts DEF OthersIdle, Typed, TypeOK, IInv
    <2>2. Unknown(k) /\ ~ (k[2] < fresh')
      BY <2>1 DEF IInv, FreshInv
    <2>3. r[k] = "none"
      BY <2>2 DEF Founded
    <2>. QED BY <2>2, <2>3, <1>1
  <1>5. WritingInv'
    <2> SUFFICES ASSUME NEW q \in Proc, Writing(q)', IsEnc(key'[q])
                 PROVE  /\ mat'[q] = key'[q][2]
                        /\ priv'[key'[q]] = mat'[q]
                        /\ pc'[q] \in {"fp", "save"} => pub'[key'[q]] = mat'[q]
                        /\ pc'[q] = "save" => fp'[key'[q]] = mat'[q]
                        /\ Unknown(key[q])'
                        /\ \A o \in Proc : Writing(o)' /\ key'[o] = key'[q] => o = q
      BY DEF WritingInv, IsEnc
    <2>1. key'[q] \in KeyId
      BY DEF Typed, KeyInv
    <2>2. \A o \in Proc \ {p} : Writing(o)' => Writing(o) /\ key'[o] = key[o]
      BY DEF OthersIdle, Writing
    <2>3. CASE q = p
      <3>1. Unknown(key[p])'
        BY <1>1, <2>1, <2>3 DEF OwnKey, Unknown
      <3>. QED BY <2>2, <2>3, <3>1 DEF OwnKey, NoOtherWrites
    <2>4. CASE q # p
      <3>1. /\ Writing(q) /\ key'[q] = key[q] /\ mat'[q] = mat[q] /\ pc'[q] = pc[q]
            /\ IsEnc(key[q]) /\ key[q] \in KeyId
        BY <2>1, <2>2, <2>4 DEF OthersIdle, IsEnc
      <3>2. /\ mat[q] = key[q][2]
            /\ priv[key[q]] = mat[q]
            /\ pc[q] \in {"fp", "save"} => pub[key[q]] = mat[q]
            /\ pc[q] = "save" => fp[key[q]] = mat[q]
            /\ Unknown(key[q])
            /\ \A o \in Proc : Writing(o) /\ key[o] = key[q] => o = q
        BY <3>1 DEF IInv, WritingInv
      <3>3. key[q] \notin W
        BY <2>4, <3>1 DEF OnlyChanges, NoOtherWrites
      <3>4. /\ priv'[key[q]] = priv[key[q]] /\ pub'[key[q]] = pub[key[q]]
            /\ fp'[key[q]] = fp[key[q]]
        BY <3>1, <3>3 DEF OnlyChanges
      <3>5. r[key[q]] = "none"
        BY <2>4, <3>1, <3>2 DEF Founded, NoOtherWrites
      <3>7. ~ (Writing(p)' /\ key'[p] = key[q])
        BY <2>4, <3>1 DEF OwnKey, NoOtherWrites, IsEnc
      <3>6. Unknown(key[q])'
        BY <1>1, <3>1, <3>2, <3>5 DEF Unknown
      <3>. QED BY <2>2, <3>1, <3>2, <3>4, <3>6, <3>7
    <2>. QED BY <2>3, <2>4
  <1>6. KnownWhole'
    <2> SUFFICES ASSUME NEW k \in KeyId, IsEnc(k), ~ Unknown(k)'
                 PROVE  Whole(k)'
      BY DEF KnownWhole, IsEnc
    <2>1. CASE Unknown(k)
      BY <1>2, <2>1 DEF Founded
    <2>2. CASE ~ Unknown(k)
      <3>1. Whole(k) /\ k \notin W
        BY <2>2 DEF IInv, KnownWhole, OnlyChanges
      <3>. QED BY <3>1 DEF OnlyChanges, Whole
    <2>. QED BY <2>1, <2>2
  <1>. QED BY <1>3, <1>4, <1>5, <1>6 DEF Rest

-----------------------------------------------------------------------------
(* Each action is such a step *)

LEMMA MemFacts ==
    ASSUME IInv, NEW p \in Proc
    PROVE  /\ registry \in Registry /\ Valid(registry)
           /\ mem[p] \in Registry /\ Valid(mem[p])
           /\ \A k \in KeyId : Unknown(k) => registry[k] = "none" /\ mem[p][k] = "none"
  BY DEF IInv, TypeOK, OneActive, Unknown

LEMMA QuietStep ==
    ASSUME IInv, Typed', NEW p \in Proc, UNCHANGED <<registry, priv, pub, fp>>,
           OthersIdle(p), ~ Writing(p)',
           mem'[p] \in {mem[p], EmptyRegistry, registry}
    PROVE  Rest'
  <1> DEFINE r == mem'[p]
  <1>1. r \in Registry /\ Valid(r)
    BY MemFacts, EmptyValid
  <1>2. \A k \in KeyId : Unknown(k) => r[k] = "none"
    BY MemFacts DEF EmptyRegistry
  <1>3. OnlyChanges(p, {})
    BY DEF OnlyChanges
  <1>4. Founded(p, r)
    BY <1>2 DEF Founded
  <1>5. OwnKey(p, r)
    BY DEF OwnKey
  <1>6. mem'[p] = r /\ registry' \in {registry, r}
    OBVIOUS
  <1> HIDE DEF r
  <1>. QED BY <1>1, <1>3, <1>4, <1>5, <1>6, LocalStep

\* Where a command that moves on, or returns, leaves its process.
LEMMA NextMethodLocal ==
    ASSUME TypeOK, NEW p \in Proc, NEW ok, NEW r, fresh' >= fresh,
           NextMethod(p, ok, r) \/ Stop(p)
    PROVE  /\ OthersIdle(p) /\ ~ Writing(p)'
           /\ mem'[p] = r \/ mem'[p] = EmptyRegistry
  <1>1. CASE Stop(p)
    BY <1>1 DEF Stop, Goto, OthersIdle, Writing, TypeOK
  <1>2. CASE ~ Stop(p)
    BY <1>2 DEF NextMethod, Goto, OthersIdle, Writing, TypeOK
  <1>. QED BY <1>1, <1>2

LEMMA StartRest ==
    ASSUME IInv, Typed', NEW p \in Proc,
           StartRotate(p) \/ StartSetup(p) \/ StartSeal(p)
    PROVE  Rest'
  <1>1. ASSUME NEW c, NEW types, NEW where \in {"priv", "wrap"},
               Begin(p, c, types, where)
        PROVE  Rest'
    <2>1. UNCHANGED <<registry, priv, pub, fp>>
      BY <1>1 DEF Begin, files
    <2>2. fresh \in Int /\ fresh' = fresh
      BY <1>1 DEF Begin, IInv, TypeOK
    <2>3. OthersIdle(p) /\ ~ Writing(p)' /\ mem'[p] = registry
      BY <1>1, <2>2 DEF Begin, OthersIdle, Writing, IInv, TypeOK
    <2>. QED BY <2>1, <2>3, QuietStep
  <1>2. CASE StartRotate(p)
    BY <1>1, <1>2 DEF StartRotate
  <1>3. CASE StartSetup(p)
    BY <1>1, <1>3 DEF StartSetup
  <1>4. CASE StartSeal(p)
    BY <1>1, <1>4 DEF StartSeal
  <1>. QED BY <1>2, <1>3, <1>4

\* A new id is nobody else's: an encryption key's number has not been used.
LEMMA NewIdFree ==
    ASSUME IInv, NEW p \in Proc, NewId(p) \in KeyId, IsEnc(NewId(p))
    PROVE  /\ NewId(p)[2] = fresh
           /\ Unknown(NewId(p)) /\ NoOtherWrites(p, NewId(p))
  <1>1. NewId(p)[2] = fresh
    BY DEF NewId, IsEnc
  <1>2. fresh \in Int
    BY DEF IInv, TypeOK
  <1>3. Unknown(NewId(p))
    BY <1>1, <1>2 DEF IInv, FreshInv
  <1>4. NoOtherWrites(p, NewId(p))
    <2> SUFFICES ASSUME NEW q \in Proc, Writing(q), key[q] = NewId(p)
                 PROVE  FALSE
      BY DEF NoOtherWrites
    <2>1. mat[q] = fresh
      BY <1>1 DEF IInv, WritingInv
    <2>2. mat[q] \in 1 .. fresh - 1
      BY DEF IInv, KeyInv
    <2>. QED BY <1>2, <2>1, <2>2
  <1>. QED BY <1>1, <1>3, <1>4

\* The key a process is writing is nobody else's.
LEMMA OwnIdFree ==
    ASSUME IInv, NEW p \in Proc, Writing(p)
    PROVE  /\ key[p] \in KeyId
           /\ IsEnc(key[p]) => Unknown(key[p]) /\ NoOtherWrites(p, key[p])
  BY DEF IInv, KeyInv, WritingInv, NoOtherWrites

LEMMA WriteRest ==
    ASSUME IInv, Typed', NEW p \in Proc,
           WritePrivate(p) \/ WritePublic(p) \/ WriteFingerprint(p)
    PROVE  Rest'
  <1>1. TypeOK /\ mem[p] \in Registry /\ Valid(mem[p]) /\ fresh \in Int
    BY MemFacts DEF IInv, TypeOK
  <1>2. Founded(p, mem[p])
    BY MemFacts DEF Founded
  <1>3. registry' = registry /\ mem' = mem
    BY DEF WritePrivate, WritePublic, WriteFingerprint
  <1>4. OthersIdle(p)
    BY <1>1 DEF WritePrivate, WritePublic, WriteFingerprint, OthersIdle, TypeOK, Goto
  <1>5. CASE WritePrivate(p)
    <2> DEFINE n == NewId(p)
    <2>1. /\ n \in KeyId /\ key' = [key EXCEPT ![p] = n]
          /\ mat' = [mat EXCEPT ![p] = fresh]
          /\ priv' = [priv EXCEPT ![n] = fresh] /\ pub' = pub /\ fp' = fp
          /\ pc' = [pc EXCEPT ![p] = "pub"]
      BY <1>5 DEF WritePrivate, Goto
    <2>2. IsEnc(n) => n[2] = fresh /\ Unknown(n) /\ NoOtherWrites(p, n)
      BY <2>1, NewIdFree
    <2>3. key'[p] = n /\ mat'[p] = fresh /\ pc'[p] = "pub" /\ priv'[n] = fresh
      BY <1>1, <2>1 DEF TypeOK
    <2> HIDE DEF n
    <2>4. OnlyChanges(p, {n})
      BY <1>1, <2>1, <2>2 DEF OnlyChanges, TypeOK
    <2>5. OwnKey(p, mem[p])
      BY <2>1, <2>2, <2>3, MemFacts DEF OwnKey
    <2>6. {n} \in SUBSET KeyId
      BY <2>1
    <2>. QED BY <1>1, <1>2, <1>3, <1>4, <2>4, <2>5, <2>6, LocalStep
  <1>6. CASE WritePublic(p) \/ WriteFingerprint(p)
    <2>1. Writing(p) /\ key' = key /\ mat' = mat /\ priv' = priv
      BY <1>6 DEF WritePublic, WriteFingerprint, Writing
    <2>2. key[p] \in KeyId /\ (IsEnc(key[p]) => Unknown(key[p]) /\ NoOtherWrites(p, key[p]))
      BY <2>1, OwnIdFree
    <2>3. OnlyChanges(p, {key[p]})
      BY <1>1, <1>6, <2>2 DEF OnlyChanges, TypeOK, WritePublic, WriteFingerprint
    <2>4. IsEnc(key[p]) =>
            /\ mat[p] = key[p][2] /\ priv[key[p]] = mat[p]
            /\ pc[p] = "fp" => pub[key[p]] = mat[p]
      BY <2>1 DEF IInv, WritingInv
    <2>5. OwnKey(p, mem[p])
      <3> SUFFICES ASSUME IsEnc(key'[p])
                   PROVE  /\ mat[p] = key[p][2] /\ priv[key[p]] = mat[p]
                          /\ pc'[p] \in {"fp", "save"} => pub'[key[p]] = mat[p]
                          /\ pc'[p] = "save" => fp'[key[p]] = mat[p]
                          /\ Unknown(key[p]) /\ mem[p][key[p]] = "none"
                          /\ NoOtherWrites(p, key[p])
        BY <2>1 DEF OwnKey
      <3>1. IsEnc(key[p])
        BY <2>1 DEF IsEnc
      <3>2. /\ mat[p] = key[p][2] /\ priv[key[p]] = mat[p]
            /\ Unknown(key[p]) /\ mem[p][key[p]] = "none" /\ NoOtherWrites(p, key[p])
        BY <2>2, <2>4, <3>1 DEF Unknown
      <3>3. CASE WritePublic(p)
        <4>1. pc'[p] = "fp" /\ pub'[key[p]] = mat[p]
          BY <1>1, <2>2, <3>3 DEF TypeOK, WritePublic, Goto
        <4>. QED BY <3>2, <4>1
      <3>4. CASE WriteFingerprint(p)
        <4>1. pc[p] = "fp" /\ pub' = pub /\ fp'[key[p]] = mat[p]
          BY <1>1, <2>2, <3>4 DEF TypeOK, WriteFingerprint
        <4>. QED BY <2>4, <3>1, <3>2, <4>1
      <3>. QED BY <1>6, <3>3, <3>4
    <2>6. {key[p]} \in SUBSET KeyId
      BY <2>2
    <2>. QED BY <1>1, <1>2, <1>3, <1>4, <2>3, <2>5, <2>6, LocalStep
  <1>. QED BY <1>5, <1>6

LEMMA WriteFailsRest ==
    ASSUME IInv, Typed', NEW p \in Proc, WriteFails(p) PROVE Rest'
  <1>1. /\ TypeOK /\ fresh \in Int /\ mem[p] \in Registry /\ Valid(mem[p])
        /\ registry' = registry /\ NextMethod(p, FALSE, mem[p])
    <2>1. TypeOK /\ fresh \in Int
      BY DEF IInv, TypeOK
    <2>2. registry' = registry /\ NextMethod(p, FALSE, mem[p])
      BY DEF WriteFails
    <2>. QED BY <2>1, <2>2, MemFacts
  <1>2. fresh' >= fresh
    BY <1>1 DEF WriteFails, files
  <1>3. /\ OthersIdle(p) /\ ~ Writing(p)'
        /\ mem'[p] = mem[p] \/ mem'[p] = EmptyRegistry
    BY <1>1, <1>2, NextMethodLocal
  <1>4. mem'[p] \in Registry /\ Valid(mem'[p])
    BY <1>1, <1>3, EmptyValid
  <1>5. Founded(p, mem'[p])
    BY <1>3, MemFacts DEF Founded, EmptyRegistry
  <1>6. OwnKey(p, mem'[p])
    BY <1>3 DEF OwnKey
  <1>7. ASSUME NEW k \in KeyId, OnlyChanges(p, {k})
        PROVE  Rest'
    <2> DEFINE r == mem'[p]
    <2>1. /\ r \in Registry /\ Valid(r) /\ registry' \in {registry, r} /\ mem'[p] = r
          /\ Founded(p, r) /\ OwnKey(p, r) /\ {k} \in SUBSET KeyId
      BY <1>1, <1>4, <1>5, <1>6
    <2> HIDE DEF r
    <2>. QED BY <1>3, <1>7, <2>1, LocalStep
  <1>8. CASE pc[p] = "priv"
    <2> DEFINE n == NewId(p)
    <2>1. n \in KeyId /\ priv' = [priv EXCEPT ![n] = Torn] /\ pub' = pub /\ fp' = fp
      BY <1>8 DEF WriteFails
    <2>2. IsEnc(n) => Unknown(n) /\ NoOtherWrites(p, n)
      BY <2>1, NewIdFree
    <2> HIDE DEF n
    <2>3. OnlyChanges(p, {n})
      BY <1>1, <2>1, <2>2 DEF OnlyChanges, TypeOK
    <2>. QED BY <2>1, <2>3, <1>7
  <1>9. CASE pc[p] \in {"pub", "fp", "save"}
    <2>1. /\ key[p] \in KeyId
          /\ IsEnc(key[p]) => Unknown(key[p]) /\ NoOtherWrites(p, key[p])
      BY <1>9, OwnIdFree DEF Writing
    <2>2. OnlyChanges(p, {key[p]})
      BY <1>1, <1>9, <2>1 DEF OnlyChanges, TypeOK, WriteFails, files
    <2>. QED BY <2>1, <2>2, <1>7
  <1>. QED BY <1>8, <1>9 DEF WriteFails

\* The registry object after a rotation names what was known and p's own key.
LEMMA RotatedFounded ==
    ASSUME IInv, NEW p \in Proc, pc[p] = "save",
           UNCHANGED <<priv, pub, fp, fresh>>
    PROVE  /\ Rotated(mem[p], key[p]) \in Registry
           /\ Valid(Rotated(mem[p], key[p]))
           /\ Founded(p, Rotated(mem[p], key[p]))
  <1> DEFINE r == Rotated(mem[p], key[p])
  <1>1. Writing(p) /\ key[p] \in KeyId /\ mat[p] \in 1 .. fresh - 1 /\ fresh \in Int
    BY DEF Writing, IInv, KeyInv, TypeOK
  <1>2. r \in Registry /\ Valid(r)
    BY <1>1, MemFacts, RotatedType, RotatedValid
  <1>3. IsEnc(key[p]) => /\ Whole(key[p]) /\ key[p][2] = mat[p]
                         /\ NoOtherWrites(p, key[p])
    BY <1>1, OwnIdFree DEF IInv, WritingInv, Whole
  <1>4. Founded(p, r)
    <2> SUFFICES ASSUME NEW k \in KeyId, IsEnc(k), r[k] # "none", Unknown(k)
                 PROVE  k[2] < fresh' /\ Whole(k)' /\ NoOtherWrites(p, k)
      BY DEF Founded
    <2>1. k = key[p]
      BY <1>1, MemFacts, RotatedKnown
    <2>2. k[2] < fresh'
      BY <1>1, <1>3, <2>1
    <2>3. Whole(k)'
      BY <1>3, <2>1 DEF Whole
    <2>. QED BY <1>3, <2>1, <2>2, <2>3
  <1>. QED BY <1>2, <1>4

LEMMA SaveRest ==
    ASSUME IInv, Typed', NEW p \in Proc, Save(p) \/ SaveFails(p)
    PROVE  Rest'
  <1> DEFINE n == Rotated(mem[p], key[p])
  <1>1. /\ pc[p] = "save" /\ UNCHANGED <<priv, pub, fp, fresh>>
        /\ TypeOK /\ fresh \in Int
    <2>1. pc[p] = "save" /\ UNCHANGED <<priv, pub, fp, fresh>>
      BY DEF Save, SaveFails, files
    <2>2. TypeOK /\ fresh \in Int
      BY DEF IInv, TypeOK
    <2>. QED BY <2>1, <2>2
  <1>2. n \in Registry /\ Valid(n) /\ Founded(p, n)
    BY <1>1, RotatedFounded
  <1>3. fresh' >= fresh
    BY <1>1
  <1>4. /\ OthersIdle(p) /\ ~ Writing(p)' /\ registry' \in {registry, mem'[p]}
        /\ mem'[p] = n \/ mem'[p] = EmptyRegistry
    <2>1. CASE Save(p)
      BY <1>1, <1>3, <2>1 DEF Save, Goto, OthersIdle, Writing, TypeOK
    <2>2. CASE SaveFails(p)
      BY <1>1, <1>3, <2>2, NextMethodLocal DEF SaveFails
    <2>. QED BY <2>1, <2>2
  <1>5. Founded(p, EmptyRegistry)
    BY DEF Founded, EmptyRegistry
  <1> HIDE DEF n
  <1> DEFINE r == mem'[p]
  <1>6. r \in Registry /\ Valid(r) /\ Founded(p, r)
    BY <1>2, <1>4, <1>5, EmptyValid
  <1>7. OwnKey(p, r) /\ OnlyChanges(p, {})
    BY <1>1, <1>4 DEF OwnKey, OnlyChanges
  <1>8. mem'[p] = r /\ registry' \in {registry, r}
    BY <1>4
  <1> HIDE DEF r
  <1>. QED BY <1>4, <1>6, <1>7, <1>8, LocalStep

LEMMA QuietRest ==
    ASSUME IInv, Typed', NEW p \in Proc,
           \/ LogRotation(p) \/ AuditFails(p)
           \/ Wrap(p) \/ Sign(p) \/ SealFails(p) \/ Crash(p) \/ SaveAborts(p)
    PROVE  Rest'
  <1>1. TypeOK /\ fresh \in Int
    BY DEF IInv, TypeOK
  <1>2. UNCHANGED <<registry, priv, pub, fp, fresh>>
    BY DEF LogRotation, AuditFails, Wrap, Sign, SealFails, Crash, SaveAborts, Dies, files
  <1>3. fresh' >= fresh
    BY <1>1, <1>2
  <1>4. OthersIdle(p) /\ ~ Writing(p)' /\ mem'[p] \in {mem[p], EmptyRegistry}
    <2>1. CASE LogRotation(p) \/ AuditFails(p)
      BY <1>1, <1>3, <2>1, NextMethodLocal DEF LogRotation, AuditFails
    <2>2. CASE Wrap(p)
      BY <1>1, <1>3, <2>2 DEF Wrap, Goto, OthersIdle, Writing, TypeOK
    <2>3. CASE Sign(p) \/ SealFails(p) \/ Crash(p) \/ SaveAborts(p)
      BY <1>1, <1>3, <2>3 DEF Sign, SealFails, Crash, SaveAborts, Dies, Stop, Goto,
         OthersIdle, Writing, TypeOK
    <2>. QED BY <2>1, <2>2, <2>3
  <1>. QED BY <1>2, <1>4, QuietStep

-----------------------------------------------------------------------------
(* The invariant *)

LEMMA NextInv == IInv /\ [Next]_vars => IInv'
  <1> SUFFICES ASSUME IInv, [Next]_vars PROVE IInv'
    OBVIOUS
  <1>1. Typed
    BY DEF IInv, Typed
  <1>2. ASSUME Typed', Rest' PROVE IInv'
    BY <1>2 DEF IInv, Typed, Rest
  <1>3. ASSUME NEW p \in Proc, Rotate(p) \/ Seal(p) \/ Crash(p) PROVE IInv'
    <2>1. CASE StartRotate(p) \/ StartSetup(p) \/ StartSeal(p)
      BY <1>1, <1>2, <2>1, StartTyped, StartRest
    <2>2. CASE WritePrivate(p) \/ WritePublic(p) \/ WriteFingerprint(p)
      BY <1>1, <1>2, <2>2, WriteTyped, WriteRest
    <2>3. CASE WriteFails(p)
      BY <1>1, <1>2, <2>3, WriteFailsTyped, WriteFailsRest
    <2>4. CASE Save(p) \/ SaveFails(p)
      BY <1>1, <1>2, <2>4, FinishTyped, SaveRest
    <2>5. CASE LogRotation(p) \/ AuditFails(p)
      BY <1>1, <1>2, <2>5, FinishTyped, QuietRest
    <2>6. CASE Wrap(p) \/ Sign(p) \/ SealFails(p) \/ Crash(p) \/ SaveAborts(p)
      BY <1>1, <1>2, <2>6, SealTyped, QuietRest
    <2>. QED BY <1>3, <2>1, <2>2, <2>3, <2>4, <2>5, <2>6 DEF Rotate, Seal
  <1>4. CASE Next
    BY <1>3, <1>4 DEF Next, Proc
  <1>5. CASE UNCHANGED vars
    BY <1>5 DEF vars, IInv, TypeOK, TodoInv, KeyInv, OneActive, FreshInv,
                WritingInv, KnownWhole, Unknown, Whole, Writing, IsEnc, Valid,
                ActiveIds
  <1>. QED BY <1>4, <1>5

\* The facts IInv lists hold in every reachable state: however many processes
\* rotate and encrypt at once, wherever they fail or die.
THEOREM KeysInvariance == Spec => []IInv
  BY InitInv, NextInv, PTL DEF Spec

\* The registry, the key files and the rotations at work on them keep their
\* shape, versions within the bound included.
THEOREM KeysTyped == Spec => []TypeOK
  <1>1. IInv => TypeOK
    BY DEF IInv
  <1>. QED BY <1>1, KeysInvariance, PTL

\* load() always accepts key_registry.json: no interleaving of the rotations
\* that rsa_engine.py and ecc_engine.py make leaves two active keys of a type.
THEOREM OneKey == Spec => []OneActive
  <1>1. IInv => OneActive
    BY DEF IInv
  <1>. QED BY <1>1, KeysInvariance, PTL

\* Every encryption key that key_registry.json names has its three files, made
\* from one key pair.
THEOREM KeysWhole == Spec => []EncKeysWhole
  <1>1. IInv => EncKeysWhole
    <2> SUFFICES ASSUME IInv, NEW k \in KeyId, k[1][2] = "enc", registry[k] # "none"
                 PROVE  priv[k] \in 1 .. MaxKeys /\ pub[k] = priv[k] /\ fp[k] = priv[k]
      BY DEF EncKeysWhole
    <2>1. Whole(k)
      BY DEF IInv, KnownWhole, IsEnc, Unknown
    <2>. QED BY <2>1, KeyIdParts DEF Whole
  <1>. QED BY <1>1, KeysInvariance, PTL

-----------------------------------------------------------------------------
(* One rotating process.  Its registry object is never behind the file, so *)
(* what it writes is in no registry; those who encrypt are never ahead.    *)

OneRotator == \A p, q \in Rotator : p = q

Settled(r) == \A k \in KeyId : r[k] \in {"none", "active", Demoted(k[1])}
Knows(r, k) == r[k] # "none"
Sound(k) == priv[k] \in 1 .. MaxKeys /\ pub[k] = priv[k] /\ fp[k] = priv[k]

Agree(p) ==
    /\ Settled(mem[p])
    /\ p \in Sealer => \A k \in KeyId : Knows(mem[p], k) => Knows(registry, k)
    /\ p \in Rotator /\ pc[p] # "idle" =>
          \A k \in KeyId : Knows(registry, k) => Knows(mem[p], k)

OwnFiles(p) == p \in Rotator /\ Writing(p) =>
    /\ ~ Knows(mem[p], key[p])
    /\ mat[p] \in 1 .. MaxKeys /\ priv[key[p]] = mat[p]
    /\ pc[p] \in {"fp", "save"} => pub[key[p]] = mat[p]
    /\ pc[p] = "save" => fp[key[p]] = mat[p]

Wrapped(p) == p \in Sealer /\ pc[p] = "sign" =>
    Knows(registry, key[p]) /\ mat[p] = priv[key[p]]

InUse(k) == Knows(registry, k) \/ \E p \in Rotator : Knows(mem[p], k)

Sealed(c) ==
    /\ Knows(registry, c.enc) /\ c.wrapped = priv[c.enc]
    /\ Knows(registry, c.sign) /\ c.signed = pub[c.sign] /\ c.sign[1][2] = "sign"

OneInv ==
    /\ Settled(registry)
    /\ \A p \in Proc : Agree(p) /\ OwnFiles(p) /\ Wrapped(p)
    /\ \A k \in KeyId : InUse(k) => Sound(k)
    /\ \A c \in containers : Sealed(c)

LEMMA EmptySettled == Settled(EmptyRegistry) /\ \A k \in KeyId : ~ Knows(EmptyRegistry, k)
  BY DEF Settled, EmptyRegistry, Knows

LEMMA RotatedSettled ==
    ASSUME NEW r \in Registry, NEW k \in KeyId, Settled(r)
    PROVE  Settled(Rotated(r, k))
  BY DEF Settled, Rotated, ActiveIds

LEMMA InitOne == Init => OneInv
  <1> SUFFICES ASSUME Init PROVE OneInv
    OBVIOUS
  <1>1. registry = EmptyRegistry /\ \A p \in Proc : mem[p] = EmptyRegistry /\ pc[p] = "idle"
    BY DEF Init
  <1>2. \A p \in Proc : Agree(p) /\ OwnFiles(p) /\ Wrapped(p)
    BY <1>1, EmptySettled DEF Agree, OwnFiles, Wrapped, Writing
  <1>3. \A k \in KeyId : ~ InUse(k)
    BY <1>1, EmptySettled DEF InUse, Proc
  <1>4. containers = {}
    BY DEF Init
  <1>. QED BY <1>1, <1>2, <1>3, <1>4, EmptySettled DEF OneInv

\* What the rotating process may do: the files of a registered key stay, and
\* what it registers, or comes to know, is sound.
RotatorMay(p) ==
    /\ \A q \in Proc \ {p} : pc'[q] = pc[q] /\ key'[q] = key[q] /\ mat'[q] = mat[q] /\ mem'[q] = mem[q]
    /\ containers' = containers
    /\ Settled(registry') /\ Settled(mem'[p])
    /\ \A k \in KeyId : Knows(registry, k) =>
          /\ Knows(registry', k)
          /\ priv'[k] = priv[k] /\ pub'[k] = pub[k] /\ fp'[k] = fp[k]
    /\ pc'[p] # "idle" => \A k \in KeyId : Knows(registry', k) => Knows(mem'[p], k)
    /\ \A k \in KeyId : Knows(registry', k) \/ Knows(mem'[p], k) => Sound(k)'
    /\ OwnFiles(p)'

LEMMA RotatorStep ==
    ASSUME OneRotator, IInv, OneInv, NEW p \in Rotator, RotatorMay(p)
    PROVE  OneInv'
  <1>1. p \in Proc /\ p \notin Sealer
    BY KeyRotationAssumption DEF Proc
  <1>2. Settled(registry)'
    BY DEF RotatorMay
  <1>3. ASSUME NEW k \in KeyId, InUse(k)' PROVE Sound(k)'
    BY <1>3 DEF RotatorMay, InUse, OneRotator
  <1>4. ASSUME NEW c \in containers' PROVE Sealed(c)'
    <2>1. Sealed(c) /\ c \in Container
      BY <1>4 DEF OneInv, RotatorMay, IInv, TypeOK
    <2>2. c.enc \in KeyId /\ c.sign \in KeyId
      BY <2>1 DEF Container
    <2>. QED BY <2>1, <2>2 DEF Sealed, RotatorMay
  <1>5. ASSUME NEW q \in Proc PROVE (Agree(q) /\ OwnFiles(q) /\ Wrapped(q))'
    <2>1. CASE q = p
      BY <1>1, <2>1 DEF RotatorMay, Agree, Wrapped
    <2>2. CASE q # p
      <3>1. q \notin Rotator
        BY <2>2 DEF OneRotator
      <3>2. Agree(q) /\ Wrapped(q) /\ mem'[q] = mem[q] /\ pc'[q] = pc[q] /\ key'[q] = key[q] /\ mat'[q] = mat[q]
        BY <2>2 DEF OneInv, RotatorMay
      <3>3. Agree(q)'
        BY <3>1, <3>2 DEF Agree, RotatorMay
      <3>4. pc[q] = "sign" => key[q] \in KeyId
        BY DEF IInv, KeyInv
      <3>5. Wrapped(q)'
        BY <3>2, <3>4 DEF Wrapped, RotatorMay
      <3>. QED BY <3>1, <3>3, <3>5 DEF OwnFiles
    <2>. QED BY <2>1, <2>2
  <1>. QED BY <1>2, <1>3, <1>4, <1>5 DEF OneInv

\* What an encrypting process may do.
LEMMA SealerStep ==
    ASSUME IInv, OneInv, NEW p \in Sealer, UNCHANGED <<registry, priv, pub, fp>>,
           \A q \in Proc \ {p} :
              pc'[q] = pc[q] /\ key'[q] = key[q] /\ mat'[q] = mat[q] /\ mem'[q] = mem[q],
           mem'[p] \in {mem[p], registry, EmptyRegistry}, Wrapped(p)',
           \A c \in containers' : c \in containers \/ Sealed(c)
    PROVE  OneInv'
  <1>1. p \in Proc /\ p \notin Rotator
    BY KeyRotationAssumption DEF Proc
  <1>2. \A c \in containers' : Sealed(c)'
    BY DEF OneInv, Sealed
  <1>3. ASSUME NEW k \in KeyId, InUse(k)' PROVE Sound(k)'
    <2>1. InUse(k)
      BY <1>1, <1>3 DEF InUse, Proc
    <2>. QED BY <2>1 DEF OneInv, Sound
  <1>4. ASSUME NEW q \in Proc PROVE (Agree(q) /\ OwnFiles(q) /\ Wrapped(q))'
    <2>0. Agree(q) /\ OwnFiles(q) /\ Wrapped(q)
      BY DEF OneInv
    <2>1. CASE q = p
      <3>1. Agree(p)'
        BY <1>1, <2>0, <2>1, EmptySettled DEF OneInv, Agree
      <3>. QED BY <1>1, <2>1, <3>1 DEF OwnFiles
    <2>2. CASE q # p
      BY <2>0, <2>2 DEF Agree, OwnFiles, Wrapped, Writing
    <2>. QED BY <2>1, <2>2
  <1>. QED BY <1>2, <1>3, <1>4 DEF OneInv

\* A set of numbers with an upper bound has a greatest element.
LEMMA MaxExists ==
    ASSUME NEW n \in Nat, NEW S \in SUBSET (0 .. n), S # {}
    PROVE  Max(S) \in S /\ \A y \in S : Max(S) >= y
  <1> DEFINE T == {n - x : x \in S}
             R == OpToRel(<, Nat)
  <1>1. T \subseteq Nat /\ T # {}
    <2>1. PICK x \in S : TRUE
      OBVIOUS
    <2>2. n - x \in T
      BY <2>1
    <2>. QED BY <2>2
  <1>2. IsWellFoundedOn(R, Nat)
    BY NatLessThanWellFounded, Zenon
  <1>3. ASSUME NEW x \in Nat, NEW y \in Nat, x < y
        PROVE  <<x, y>> \in R
    BY <1>3, Zenon DEF OpToRel
  <1>. HIDE DEF R, T
  <1>4. PICK m \in T : \A y \in T : ~ <<y, m>> \in R
    BY <1>1, <1>2, WFMin, Zenon
  <1>5. ASSUME NEW y \in T
        PROVE  m \in Nat /\ m <= y
    <2>1. m \in Nat /\ y \in Nat
      BY <1>1
    <2>2. ~ y < m
      BY <1>3, <1>4, <2>1, Zenon
    <2>. QED BY <2>1, <2>2
  <1>6. n - m \in S /\ \A y \in S : n - y \in T
    BY <1>5 DEF T
  <1>7. \A y \in S : n - m >= y
    BY <1>5, <1>6
  <1>. QED BY <1>6, <1>7, Zenon DEF Max

\* A new version is later than every one the registry object knows.
LEMMA NewVersion ==
    ASSUME NEW r \in Registry, NEW t \in Type, NEW k \in KeyId,
           k = <<t, NextVersion(r, t)>>
    PROVE  ~ Knows(r, k)
  <1> DEFINE V == {0} \cup {j[2] : j \in {i \in KeyId : i[1] = t /\ r[i] # "none"}}
  <1>1. V \in SUBSET (0 .. MaxKeys) /\ V # {}
    BY KeyIdParts, KeyRotationAssumption
  <1>2. Max(V) \in 0 .. MaxKeys /\ \A y \in V : Max(V) >= y
    BY <1>1, MaxExists, KeyRotationAssumption
  <1>3. k[2] = 1 + Max(V) /\ k[1] = t
    BY DEF NextVersion
  <1>4. Knows(r, k) => k[2] \in V
    BY <1>3 DEF Knows
  <1>. HIDE DEF V
  <1>. QED BY <1>2, <1>3, <1>4

\* Whatever a process is about to write, or is writing, no registry names.
LEMMA NewIdUnknown ==
    ASSUME IInv, NEW p \in Proc, pc[p] = "priv", NewId(p) \in KeyId
    PROVE  ~ Knows(mem[p], NewId(p))
  <1>1. mem[p] \in Registry /\ todo[p] \in Seq(Type) /\ todo[p] # <<>>
    BY DEF IInv, TypeOK, TodoInv
  <1>2. Head(todo[p]) \in Type
    BY <1>1
  <1>3. CASE IsEnc(NewId(p))
    <2>1. Unknown(NewId(p))
      BY <1>3, NewIdFree
    <2>. QED BY <2>1 DEF Unknown, Knows
  <1>4. CASE ~ IsEnc(NewId(p))
    <2>1. NewId(p) = <<Head(todo[p]), NextVersion(mem[p], Head(todo[p]))>>
      BY <1>4 DEF NewId, IsEnc
    <2>. QED BY <1>1, <1>2, <2>1, NewVersion
  <1>. QED BY <1>3, <1>4

LEMMA NextMethodOne ==
    ASSUME TypeOK, NEW p \in Proc, NEW ok, NEW r, NextMethod(p, ok, r)
    PROVE  /\ \/ pc'[p] = "idle" /\ mem'[p] = EmptyRegistry
              \/ pc'[p] = "priv" /\ mem'[p] = r
           /\ \A q \in Proc \ {p} :
                pc'[q] = pc[q] /\ key'[q] = key[q] /\ mat'[q] = mat[q] /\ mem'[q] = mem[q]
           /\ containers' = containers
  BY DEF NextMethod, Stop, Goto, TypeOK

\* Facts about the rotating process before a step.
LEMMA RotatorFacts ==
    ASSUME IInv, OneInv, NEW p \in Rotator
    PROVE  /\ TypeOK /\ p \in Proc
           /\ Settled(registry) /\ Settled(mem[p])
           /\ registry \in Registry /\ mem[p] \in Registry
           /\ pc[p] # "idle" => \A k \in KeyId : Knows(registry, k) => Knows(mem[p], k)
           /\ \A k \in KeyId : Knows(registry, k) \/ Knows(mem[p], k) => Sound(k)
           /\ OwnFiles(p)
           /\ Writing(p) => key[p] \in KeyId /\ ~ Knows(mem[p], key[p])
  <1>1. p \in Proc /\ TypeOK
    BY DEF Proc, IInv
  <1>2. Writing(p) => key[p] \in KeyId /\ ~ Knows(mem[p], key[p])
    BY <1>1 DEF OneInv, OwnFiles, IInv, KeyInv
  <1>. QED BY <1>1, <1>2 DEF OneInv, Agree, InUse, TypeOK

\* A step that leaves the registry and, but for those of one unregistered
\* key, the files.
LEMMA FileStep ==
    ASSUME IInv, OneInv, NEW p \in Rotator, pc[p] # "idle", registry' = registry,
           \A q \in Proc \ {p} :
              pc'[q] = pc[q] /\ key'[q] = key[q] /\ mat'[q] = mat[q] /\ mem'[q] = mem[q],
           containers' = containers,
           NEW n \in KeyId, ~ Knows(mem[p], n),
           \A k \in KeyId \ {n} : priv'[k] = priv[k] /\ pub'[k] = pub[k] /\ fp'[k] = fp[k],
           \/ pc'[p] = "idle" /\ mem'[p] = EmptyRegistry
           \/ mem'[p] = mem[p],
           OwnFiles(p)'
    PROVE  RotatorMay(p)
  <1>1. \A k \in KeyId : Knows(registry, k) \/ Knows(mem'[p], k) => k # n /\ Sound(k)
    BY RotatorFacts, EmptySettled
  <1>2. \A k \in KeyId : Knows(registry', k) \/ Knows(mem'[p], k) => Sound(k)'
    BY <1>1 DEF Sound
  <1>. QED BY <1>1, <1>2, RotatorFacts, EmptySettled DEF RotatorMay

LEMMA StartOne ==
    ASSUME IInv, OneInv, NEW p \in Rotator, StartRotate(p) \/ StartSetup(p)
    PROVE  RotatorMay(p)
  <1>1. ASSUME NEW c, NEW types, Begin(p, c, types, "priv")
        PROVE  RotatorMay(p)
    <2>1. /\ UNCHANGED <<registry, priv, pub, fp, key, mat, containers>>
          /\ mem'[p] = registry /\ pc'[p] = "priv"
          /\ \A q \in Proc \ {p} : pc'[q] = pc[q] /\ mem'[q] = mem[q]
      BY <1>1, RotatorFacts DEF Begin, files, TypeOK
    <2>2. OwnFiles(p)'
      BY <2>1 DEF OwnFiles, Writing
    <2>. QED BY <2>1, <2>2, RotatorFacts DEF RotatorMay, Sound
  <1>. QED BY <1>1 DEF StartRotate, StartSetup

LEMMA WriteOne ==
    ASSUME IInv, OneInv, NEW p \in Rotator,
           WritePrivate(p) \/ WritePublic(p) \/ WriteFingerprint(p)
    PROVE  RotatorMay(p)
  <1>1. TypeOK /\ p \in Proc
    BY RotatorFacts
  <1>2. /\ registry' = registry /\ mem' = mem /\ containers' = containers /\ pc[p] # "idle"
        /\ \A q \in Proc \ {p} :
              pc'[q] = pc[q] /\ key'[q] = key[q] /\ mat'[q] = mat[q] /\ mem'[q] = mem[q]
    BY <1>1 DEF WritePrivate, WritePublic, WriteFingerprint, Goto, TypeOK
  <1>3. CASE WritePrivate(p)
    <2> DEFINE n == NewId(p)
    <2>1. /\ n \in KeyId /\ fresh \in 1 .. MaxKeys /\ pc[p] = "priv"
          /\ pc'[p] = "pub" /\ key'[p] = n /\ mat'[p] = fresh
          /\ priv' = [priv EXCEPT ![n] = fresh] /\ pub' = pub /\ fp' = fp
      BY <1>1, <1>3, KeyRotationAssumption DEF WritePrivate, Goto, TypeOK
    <2>2. ~ Knows(mem[p], n)
      BY <1>1, <2>1, NewIdUnknown
    <2>. HIDE DEF n
    <2>3. priv'[n] = fresh /\ \A k \in KeyId \ {n} : priv'[k] = priv[k]
      BY <1>1, <2>1 DEF TypeOK
    <2>4. OwnFiles(p)'
      BY <1>2, <2>1, <2>2, <2>3 DEF OwnFiles
    <2>. QED BY <1>2, <2>1, <2>2, <2>3, <2>4, FileStep
  <1>4. CASE WritePublic(p) \/ WriteFingerprint(p)
    <2>1. Writing(p) /\ key' = key /\ mat' = mat /\ priv' = priv
      BY <1>4 DEF WritePublic, WriteFingerprint, Writing
    <2>2. key[p] \in KeyId /\ ~ Knows(mem[p], key[p]) /\ OwnFiles(p)
      BY <2>1, RotatorFacts
    <2>3. \A k \in KeyId \ {key[p]} : pub'[k] = pub[k] /\ fp'[k] = fp[k]
      BY <1>1, <1>4 DEF WritePublic, WriteFingerprint, TypeOK
    <2>4. \/ pc[p] = "pub" /\ pc'[p] = "fp" /\ pub'[key[p]] = mat[p]
          \/ pc[p] = "fp" /\ pc'[p] = "save" /\ pub' = pub /\ fp'[key[p]] = mat[p]
      BY <1>1, <1>4, <2>2 DEF WritePublic, WriteFingerprint, Goto, TypeOK
    <2>5. OwnFiles(p)'
      BY <1>2, <2>1, <2>2, <2>4 DEF OwnFiles
    <2>. QED BY <1>2, <2>1, <2>2, <2>3, <2>5, FileStep
  <1>. QED BY <1>3, <1>4

LEMMA WriteFailsOne ==
    ASSUME IInv, OneInv, NEW p \in Rotator, WriteFails(p)
    PROVE  RotatorMay(p)
  <1>1. TypeOK /\ p \in Proc /\ NextMethod(p, FALSE, mem[p]) /\ registry' = registry
    BY RotatorFacts DEF WriteFails
  <1>2. /\ \/ pc'[p] = "idle" /\ mem'[p] = EmptyRegistry
           \/ pc'[p] = "priv" /\ mem'[p] = mem[p]
        /\ \A q \in Proc \ {p} :
              pc'[q] = pc[q] /\ key'[q] = key[q] /\ mat'[q] = mat[q] /\ mem'[q] = mem[q]
        /\ containers' = containers
    BY <1>1, NextMethodOne
  <1>3. OwnFiles(p)'
    BY <1>2 DEF OwnFiles, Writing
  <1>4. CASE pc[p] = "priv"
    <2> DEFINE n == NewId(p)
    <2>1. n \in KeyId /\ priv' = [priv EXCEPT ![n] = Torn] /\ pub' = pub /\ fp' = fp
      BY <1>4 DEF WriteFails
    <2>2. ~ Knows(mem[p], n)
      BY <1>1, <1>4, <2>1, NewIdUnknown
    <2>. HIDE DEF n
    <2>3. \A k \in KeyId \ {n} : priv'[k] = priv[k]
      BY <1>1, <2>1 DEF TypeOK
    <2>. QED BY <1>1, <1>2, <1>3, <1>4, <2>1, <2>2, <2>3, FileStep
  <1>5. CASE pc[p] \in {"pub", "fp", "save"}
    <2>1. key[p] \in KeyId /\ ~ Knows(mem[p], key[p])
      BY <1>5, RotatorFacts DEF Writing
    <2>2. \A k \in KeyId \ {key[p]} : priv'[k] = priv[k] /\ pub'[k] = pub[k] /\ fp'[k] = fp[k]
      BY <1>1, <1>5 DEF WriteFails, TypeOK, files
    <2>. QED BY <1>1, <1>2, <1>3, <1>5, <2>1, <2>2, FileStep
  <1>. QED BY <1>4, <1>5 DEF WriteFails

\* The registry object after a rotation knows what it knew, and the new key,
\* whose files are all there.
LEMMA RotatedOne ==
    ASSUME IInv, OneInv, NEW p \in Rotator, pc[p] = "save"
    PROVE  LET r == Rotated(mem[p], key[p]) IN
           /\ Settled(r)
           /\ \A k \in KeyId : Knows(mem[p], k) => Knows(r, k)
           /\ \A k \in KeyId : Knows(r, k) => Sound(k)
  <1> DEFINE r == Rotated(mem[p], key[p])
  <1>1. Writing(p) /\ key[p] \in KeyId /\ mem[p] \in Registry /\ Settled(mem[p])
    BY RotatorFacts DEF Writing
  <1>2. Settled(r)
    BY <1>1, RotatedSettled
  <1>3. \A k \in KeyId : Knows(r, k) <=> k = key[p] \/ Knows(mem[p], k)
    BY <1>1, RotatedKnown DEF Knows
  <1>4. Sound(key[p])
    BY <1>1, RotatorFacts DEF OwnFiles, Sound
  <1>. HIDE DEF r
  <1>5. \A k \in KeyId : Knows(r, k) => Sound(k)
    BY <1>3, <1>4, RotatorFacts
  <1>. QED BY <1>2, <1>3, <1>5 DEF r

LEMMA FinishOne ==
    ASSUME IInv, OneInv, NEW p \in Rotator,
           \/ Save(p) \/ SaveFails(p) \/ LogRotation(p) \/ AuditFails(p) \/ Crash(p)
           \/ SaveAborts(p)
    PROVE  RotatorMay(p)
  <1> DEFINE n == Rotated(mem[p], key[p])
  <1>1. TypeOK /\ p \in Proc /\ UNCHANGED <<priv, pub, fp>>
    BY RotatorFacts DEF Save, SaveFails, LogRotation, AuditFails, Crash, SaveAborts, Dies, files
  <1>2. \A k \in KeyId : Sound(k)' <=> Sound(k)
    BY <1>1 DEF Sound
  <1>3. CASE Save(p)
    <2>1. /\ pc[p] = "save" /\ pc'[p] = "audit" /\ mem'[p] = n /\ registry' = n
          /\ containers' = containers
          /\ \A q \in Proc \ {p} :
                pc'[q] = pc[q] /\ key'[q] = key[q] /\ mat'[q] = mat[q] /\ mem'[q] = mem[q]
      BY <1>1, <1>3 DEF Save, Goto, TypeOK
    <2>2. /\ Settled(n) /\ \A k \in KeyId : Knows(mem[p], k) => Knows(n, k)
          /\ \A k \in KeyId : Knows(n, k) => Sound(k)
      BY <2>1, RotatedOne
    <2>3. \A k \in KeyId : Knows(registry, k) => Knows(n, k)
      BY <2>1, <2>2, RotatorFacts
    <2>4. OwnFiles(p)'
      BY <2>1 DEF OwnFiles, Writing
    <2>. HIDE DEF n
    <2>. QED BY <1>1, <1>2, <2>1, <2>2, <2>3, <2>4 DEF RotatorMay
  <1>4. ASSUME registry' = registry, containers' = containers,
               \A q \in Proc \ {p} :
                  pc'[q] = pc[q] /\ key'[q] = key[q] /\ mat'[q] = mat[q] /\ mem'[q] = mem[q],
               NEW r, Settled(r), \A k \in KeyId : Knows(registry, k) => Knows(r, k),
               \A k \in KeyId : Knows(r, k) => Sound(k),
               \/ pc'[p] = "idle" /\ mem'[p] = EmptyRegistry
               \/ pc'[p] = "priv" /\ mem'[p] = r
        PROVE  RotatorMay(p)
    <2>1. OwnFiles(p)'
      BY <1>4 DEF OwnFiles, Writing
    <2>2. Settled(mem'[p]) /\ \A k \in KeyId : Knows(mem'[p], k) => Sound(k)
      BY <1>4, EmptySettled
    <2>. QED BY <1>1, <1>2, <1>4, <2>1, <2>2, RotatorFacts DEF RotatorMay
  <1>5. CASE SaveFails(p)
    <2>1. registry' = registry /\ pc[p] = "save" /\ NextMethod(p, FALSE, n)
      BY <1>5 DEF SaveFails
    <2>2. /\ Settled(n) /\ \A k \in KeyId : Knows(registry, k) => Knows(n, k)
          /\ \A k \in KeyId : Knows(n, k) => Sound(k)
      BY <2>1, RotatedOne, RotatorFacts
    <2>. HIDE DEF n
    <2>. QED BY <1>1, <1>4, <2>1, <2>2, NextMethodOne
  <1>6. CASE LogRotation(p) \/ AuditFails(p)
    <2>1. registry' = registry /\ pc[p] = "audit" /\ \E ok \in BOOLEAN : NextMethod(p, ok, mem[p])
      BY <1>6 DEF LogRotation, AuditFails
    <2>2. /\ Settled(mem[p]) /\ \A k \in KeyId : Knows(registry, k) => Knows(mem[p], k)
          /\ \A k \in KeyId : Knows(mem[p], k) => Sound(k)
      BY <2>1, RotatorFacts
    <2>. QED BY <1>1, <1>4, <2>1, <2>2, NextMethodOne
  <1>7. CASE Crash(p) \/ SaveAborts(p)
    <2>1. registry' = registry /\ containers' = containers /\ pc[p] # "idle"
          /\ pc'[p] = "idle" /\ mem'[p] = EmptyRegistry
          /\ \A q \in Proc \ {p} :
                pc'[q] = pc[q] /\ key'[q] = key[q] /\ mat'[q] = mat[q] /\ mem'[q] = mem[q]
      BY <1>1, <1>7 DEF Crash, SaveAborts, Dies, Stop, Goto, TypeOK
    <2>2. /\ Settled(mem[p]) /\ \A k \in KeyId : Knows(registry, k) => Knows(mem[p], k)
          /\ \A k \in KeyId : Knows(mem[p], k) => Sound(k)
      BY <2>1, RotatorFacts
    <2>. QED BY <1>4, <2>1, <2>2
  <1>. QED BY <1>3, <1>5, <1>6, <1>7

LEMMA SealOne ==
    ASSUME IInv, OneInv, NEW p \in Sealer, Seal(p)
    PROVE  OneInv'
  <1>1. TypeOK /\ p \in Proc /\ Agree(p) /\ Wrapped(p)
    BY DEF IInv, OneInv, Proc
  <1>2. \A k \in KeyId : Knows(mem[p], k) => Knows(registry, k) /\ Sound(k)
    BY <1>1 DEF Agree, OneInv, InUse
  <1>3. UNCHANGED <<registry, priv, pub, fp>>
    BY DEF Seal, StartSeal, Begin, Wrap, Sign, SealFails, files
  <1>4. CASE StartSeal(p)
    <2>1. /\ containers' = containers /\ pc'[p] = "wrap" /\ mem'[p] = registry
          /\ \A q \in Proc \ {p} :
                pc'[q] = pc[q] /\ key'[q] = key[q] /\ mat'[q] = mat[q] /\ mem'[q] = mem[q]
      BY <1>1, <1>4 DEF StartSeal, Begin, TypeOK
    <2>2. Wrapped(p)'
      BY <2>1 DEF Wrapped
    <2>. QED BY <1>3, <2>1, <2>2, SealerStep
  <1>5. CASE Wrap(p)
    <2>1. PICK k \in EncIds(p) : key' = [key EXCEPT ![p] = k] /\ mat' = [mat EXCEPT ![p] = pub[k]]
      BY <1>5 DEF Wrap
    <2>2. /\ containers' = containers /\ mem' = mem /\ key'[p] = k /\ mat'[p] = pub[k]
          /\ \A q \in Proc \ {p} :
                pc'[q] = pc[q] /\ key'[q] = key[q] /\ mat'[q] = mat[q] /\ mem'[q] = mem[q]
      BY <1>1, <1>5, <2>1 DEF Wrap, Goto, TypeOK
    <2>3. k \in KeyId /\ Knows(mem[p], k)
      BY DEF EncIds, ActiveIds, Knows
    <2>4. Wrapped(p)'
      BY <1>2, <1>3, <2>2, <2>3 DEF Wrapped, Sound
    <2>. QED BY <1>3, <2>2, <2>4, SealerStep
  <1>6. CASE Sign(p) \/ SealFails(p)
    <2>1. /\ pc'[p] = "idle" /\ mem'[p] = EmptyRegistry
          /\ \A q \in Proc \ {p} :
                pc'[q] = pc[q] /\ key'[q] = key[q] /\ mat'[q] = mat[q] /\ mem'[q] = mem[q]
      BY <1>1, <1>6 DEF Sign, SealFails, Stop, Goto, TypeOK
    <2>2. Wrapped(p)'
      BY <2>1 DEF Wrapped
    <2>3. \A c \in containers' : c \in containers \/ Sealed(c)
      <3>1. CASE SealFails(p)
        BY <3>1 DEF SealFails
      <3>2. CASE Sign(p)
        <4>1. PICK k \in SignIds(p) :
                containers' = containers \cup
                   {[enc |-> key[p], wrapped |-> mat[p], sign |-> k, signed |-> priv[k]]}
          BY <3>2 DEF Sign
        <4>2. k \in KeyId /\ Knows(mem[p], k) /\ k[1][2] = "sign"
          BY DEF SignIds, ActiveIds, Knows
        <4>3. Knows(registry, k) /\ priv[k] = pub[k]
          BY <1>2, <4>2 DEF Sound
        <4>4. Knows(registry, key[p]) /\ mat[p] = priv[key[p]]
          BY <1>1, <3>2 DEF Sign, Wrapped
        <4>. QED BY <4>1, <4>2, <4>3, <4>4 DEF Sealed
      <3>. QED BY <1>6, <3>1, <3>2
    <2>. QED BY <1>3, <2>1, <2>2, <2>3, SealerStep
  <1>. QED BY <1>4, <1>5, <1>6 DEF Seal

LEMMA RotateOne ==
    ASSUME IInv, OneInv, NEW p \in Rotator, Rotate(p) \/ Crash(p)
    PROVE  RotatorMay(p)
  BY StartOne, WriteOne, WriteFailsOne, FinishOne DEF Rotate

LEMMA NextOne == OneRotator /\ IInv /\ OneInv /\ [Next]_vars => OneInv'
  <1> SUFFICES ASSUME OneRotator, IInv, OneInv, [Next]_vars PROVE OneInv'
    OBVIOUS
  <1>1. CASE Next
    BY <1>1, RotateOne, RotatorStep, SealOne DEF Next
  <1>2. CASE UNCHANGED vars
    BY <1>2 DEF vars, OneInv, Settled, Agree, OwnFiles, Wrapped, InUse, Sealed, Sound, Writing
  <1>. QED BY <1>1, <1>2

\* With one rotating process, what it registers is sound, what it writes is
\* not registered yet, and what was sealed is what the files still say.
THEOREM OneRotatorInvariance == ASSUME OneRotator PROVE Spec => [](IInv /\ OneInv)
  <1>1. Init => IInv /\ OneInv
    BY InitInv, InitOne
  <1>2. (IInv /\ OneInv) /\ [Next]_vars => (IInv /\ OneInv)'
    BY NextInv, NextOne
  <1>. QED BY <1>1, <1>2, PTL DEF Spec

\* Whatever any number of processes sealed, before, during or after the
\* rotations of one process, and wherever that one failed or died, still
\* verifies and still unwraps.
THEOREM SealedOpens == ASSUME OneRotator PROVE Spec => []ContainersOpen
  <1>1. IInv /\ OneInv => ContainersOpen
    <2> SUFFICES ASSUME IInv, OneInv, NEW c \in containers
                 PROVE  Verifies(c) /\ Unwraps(c)
      BY DEF ContainersOpen
    <2>1. c.enc \in KeyId /\ c.sign \in KeyId
      BY DEF IInv, TypeOK, Container
    <2>2. /\ Knows(registry, c.enc) /\ c.wrapped = priv[c.enc]
          /\ Knows(registry, c.sign) /\ c.signed = pub[c.sign] /\ c.sign[1][2] = "sign"
      BY DEF OneInv, Sealed
    <2>3. /\ registry[c.enc] \in {"active", "decrypt-only", "retired"}
          /\ registry[c.sign] \in {"active", "retired"}
      BY <2>1, <2>2 DEF OneInv, Settled, Knows, Demoted
    <2>4. Sound(c.sign)
      BY <2>1, <2>2 DEF OneInv, InUse
    <2>. QED BY <2>2, <2>3, <2>4 DEF Verifies, Unwraps, VerifiesWith, Decrypts, Sound
  <1>. QED BY <1>1, OneRotatorInvariance, PTL

\* Under the same condition, no file of a registered key is written again.
THEOREM RegisteredStays == ASSUME OneRotator PROVE Spec => FilesPermanent
  <1>1. (IInv /\ OneInv) /\ [Next]_vars =>
          [\A k \in KeyId : registry[k] # "none" =>
             priv'[k] = priv[k] /\ pub'[k] = pub[k] /\ fp'[k] = fp[k]]_vars
    <2> SUFFICES ASSUME IInv, OneInv, Next, NEW k \in KeyId, registry[k] # "none"
                 PROVE  priv'[k] = priv[k] /\ pub'[k] = pub[k] /\ fp'[k] = fp[k]
      OBVIOUS
    <2>1. CASE \E p \in Rotator : Rotate(p) \/ Crash(p)
      BY <2>1, RotateOne DEF RotatorMay, Knows
    <2>2. CASE \E p \in Sealer : Seal(p)
      BY <2>2 DEF Seal, StartSeal, Begin, Wrap, Sign, SealFails, files
    <2>. QED BY <2>1, <2>2 DEF Next
  <1>. QED BY <1>1, OneRotatorInvariance, PTL DEF Spec, FilesPermanent

-----------------------------------------------------------------------------
(* One rotating process implements KeyDirectory.  Its registry object is   *)
(* the file with the keys in force that it could not save: one of a type,  *)
(* as the commands name each type once.                                    *)

NoRepeats(s) == \A i, j \in DOMAIN s : s[i] = s[j] => i = j
TypesOnce == \A c \in Commands : NoRepeats(c)

OneEach(S) == \A j, k \in S : j[1] = k[1] => j = k
InForce(r, S) ==
    [k \in KeyId |-> IF k \in S THEN "active"
                     ELSE IF k \in UNION {ActiveIds(r, j[1]) : j \in S} THEN Demoted(k[1])
                     ELSE r[k]]
Unsaved(p) == {k \in KeyId : ~ Knows(registry, k) /\ Knows(mem[p], k)}

Ahead(p) == pc[p] # "idle" =>
    /\ NoRepeats(todo[p])
    /\ mem[p] = InForce(registry, Unsaved(p)) /\ OneEach(Unsaved(p))
    /\ pc[p] # "audit" => \A k \in Unsaved(p) : \A i \in DOMAIN todo[p] : todo[p][i] # k[1]
    /\ pc[p] = "audit" => mem[p] = registry
    /\ Writing(p) => key[p][1] = Head(todo[p])

AheadInv == \A p \in Rotator : Ahead(p)

LEMMA TailOnce ==
    ASSUME NEW s \in Seq(Type), s # <<>>, NoRepeats(s)
    PROVE  /\ Tail(s) \in Seq(Type) /\ NoRepeats(Tail(s))
           /\ 1 \in DOMAIN s /\ Head(s) = s[1]
           /\ \A i \in DOMAIN Tail(s) : \E j \in DOMAIN s : Tail(s)[i] = s[j] /\ s[j] # Head(s)
  <1> DEFINE t == Tail(s)
  <1>1. /\ t \in Seq(Type) /\ DOMAIN t = 1 .. Len(s) - 1 /\ DOMAIN s = 1 .. Len(s)
        /\ Len(s) \in Nat \ {0} /\ Head(s) = s[1]
        /\ \A i \in 1 .. Len(s) - 1 : t[i] = s[i + 1] /\ i + 1 \in 1 .. Len(s)
    OBVIOUS
  <1>. HIDE DEF t
  <1>2. ASSUME NEW i \in DOMAIN t, NEW j \in DOMAIN t, t[i] = t[j] PROVE i = j
    <2>1. i \in Int /\ j \in Int /\ i + 1 \in DOMAIN s /\ j + 1 \in DOMAIN s /\ s[i + 1] = s[j + 1]
      BY <1>1, <1>2
    <2>2. i + 1 = j + 1
      BY <2>1 DEF NoRepeats
    <2>. QED BY <2>1, <2>2
  <1>3. \A i \in DOMAIN t : t[i] = s[i + 1] /\ i + 1 \in DOMAIN s /\ s[i + 1] # s[1]
    BY <1>1 DEF NoRepeats
  <1>4. NoRepeats(t)
    BY <1>2 DEF NoRepeats
  <1>. QED BY <1>1, <1>3, <1>4 DEF t

\* Nothing unsaved: the object is what the file says.
LEMMA NothingUnsaved ==
    ASSUME NEW r \in Registry
    PROVE  InForce(r, {}) = r
  BY DEF InForce, Registry

LEMMA ReloadedAhead ==
    ASSUME NEW p, registry' \in Registry, mem'[p] = registry', NoRepeats(todo'[p]),
           ~ Writing(p)'
    PROVE  Ahead(p)'
  <1>1. Unsaved(p)' = {}
    BY DEF Unsaved
  <1>2. InForce(registry', {}) = registry'
    BY NothingUnsaved
  <1>. QED BY <1>1, <1>2 DEF Ahead, OneEach

\* A rotation of another type puts one more key in force.
LEMMA RotatedInForce ==
    ASSUME NEW r \in Registry, NEW S \in SUBSET KeyId, \A j \in S : ~ Knows(r, j),
           OneEach(S), NEW k \in KeyId, ~ Knows(InForce(r, S), k), \A j \in S : j[1] # k[1]
    PROVE  /\ Rotated(InForce(r, S), k) = InForce(r, S \cup {k})
           /\ OneEach(S \cup {k}) /\ ~ Knows(r, k)
           /\ {j \in KeyId : ~ Knows(r, j) /\ Knows(InForce(r, S \cup {k}), j)} = S \cup {k}
  <1> DEFINE m == InForce(r, S)
             old == UNION {ActiveIds(r, j[1]) : j \in S}
             new == UNION {ActiveIds(r, j[1]) : j \in S \cup {k}}
  <1>1. \A j \in KeyId : m[j] = IF j \in S THEN "active" ELSE IF j \in old THEN Demoted(j[1]) ELSE r[j]
    BY DEF InForce
  <1>2. \A j \in old : j \in KeyId /\ r[j] = "active" /\ j[1] # k[1]
    BY DEF ActiveIds
  <1>3. new = old \cup ActiveIds(r, k[1])
    OBVIOUS
  <1>. HIDE DEF m, old, new
  <1>4. ~ Knows(r, k) /\ k \notin S
    BY <1>1, <1>2 DEF Knows, Demoted, m
  <1>5. ActiveIds(m, k[1]) = ActiveIds(r, k[1])
    BY <1>1, <1>2 DEF ActiveIds
  <1>6. ASSUME NEW j \in KeyId
        PROVE  Rotated(m, k)[j] = InForce(r, S \cup {k})[j]
    <2>1. Rotated(m, k)[j] = IF j = k THEN "active"
                             ELSE IF j \in ActiveIds(r, k[1]) THEN Demoted(k[1]) ELSE m[j]
      BY <1>5 DEF Rotated
    <2>2. InForce(r, S \cup {k})[j] = IF j \in S \cup {k} THEN "active"
                                      ELSE IF j \in new THEN Demoted(j[1]) ELSE r[j]
      BY DEF InForce, new
    <2>3. j \in ActiveIds(r, k[1]) => j \notin S /\ j # k /\ j[1] = k[1]
      BY <1>4 DEF ActiveIds, Knows
    <2>. QED BY <1>1, <1>3, <2>1, <2>2, <2>3
  <1>7. Rotated(m, k) = InForce(r, S \cup {k})
    BY <1>6 DEF Rotated, InForce
  <1>8. OneEach(S \cup {k})
    BY DEF OneEach
  <1>9. \A j \in KeyId : ~ Knows(r, j) =>
          (Knows(InForce(r, S \cup {k}), j) <=> j \in S \cup {k})
    <2>1. ASSUME NEW j \in KeyId, ~ Knows(r, j) PROVE j \notin new
      BY <2>1 DEF new, ActiveIds, Knows
    <2>. QED BY <2>1 DEF InForce, Knows, new
  <1>10. \A j \in S \cup {k} : j \in KeyId /\ ~ Knows(r, j)
    BY <1>4
  <1>. QED BY <1>4, <1>7, <1>8, <1>9, <1>10 DEF m

\* A step that keeps the registry, the object and the types still to do.
LEMMA QuietAhead ==
    ASSUME NEW p, Ahead(p), registry' = registry, mem'[p] = mem[p], todo'[p] = todo[p],
           pc[p] # "idle", pc[p] # "audit", pc'[p] # "audit",
           Writing(p)' => key'[p][1] = Head(todo[p])
    PROVE  Ahead(p)'
  <1>1. Unsaved(p)' = Unsaved(p)
    BY DEF Unsaved
  <1>. QED BY <1>1 DEF Ahead

\* On to the next type, with an object that is the file and unsaved keys of
\* types that are done.
LEMMA NextMethodAhead ==
    ASSUME TypeOK, NEW p \in Proc, todo[p] # <<>>, NoRepeats(todo[p]),
           NEW ok, NEW r, NextMethod(p, ok, r), registry' = registry,
           NEW S \in SUBSET KeyId, S = {k \in KeyId : ~ Knows(registry, k) /\ Knows(r, k)},
           r = InForce(registry, S), OneEach(S),
           \A k \in S : \/ k[1] = Head(todo[p])
                        \/ \A i \in DOMAIN todo[p] : todo[p][i] # k[1]
    PROVE  Ahead(p)'
  <1>1. \/ pc'[p] = "idle"
        \/ pc'[p] = "priv" /\ mem'[p] = r /\ todo'[p] = Tail(todo[p])
    BY DEF NextMethod, Stop, Goto, TypeOK
  <1>2. CASE pc'[p] = "idle"
    BY <1>2 DEF Ahead
  <1>3. CASE pc'[p] = "priv" /\ mem'[p] = r /\ todo'[p] = Tail(todo[p])
    <2>0. todo[p] \in Seq(Type)
      BY DEF TypeOK
    <2>1. /\ NoRepeats(Tail(todo[p]))
          /\ \A i \in DOMAIN Tail(todo[p]) :
                \E j \in DOMAIN todo[p] : Tail(todo[p])[i] = todo[p][j] /\ todo[p][j] # Head(todo[p])
      BY <2>0, TailOnce
    <2>2. Unsaved(p)' = S
      BY <1>3 DEF Unsaved
    <2>3. ASSUME NEW k \in S, NEW i \in DOMAIN Tail(todo[p]) PROVE Tail(todo[p])[i] # k[1]
      BY <2>1
    <2>4. ~ Writing(p)' /\ pc'[p] # "audit"
      BY <1>3 DEF Writing
    <2>. QED BY <1>3, <2>1, <2>2, <2>3, <2>4 DEF Ahead
  <1>. QED BY <1>1, <1>2, <1>3

LEMMA StartAhead ==
    ASSUME TypesOnce, TypeOK, NEW p \in Proc, StartRotate(p) \/ StartSetup(p)
    PROVE  Ahead(p)'
  <1>1. NoRepeats(SetupOrder)
    <2>1. CASE Methods = {"rsa", "ecc"}
      <3>1. SetupOrder = <<<<"rsa", "enc">>, <<"ecc", "enc">>, <<"rsa", "sign">>, <<"ecc", "sign">>>>
        BY <2>1 DEF SetupOrder
      <3>. QED BY <3>1 DEF NoRepeats
    <2>2. CASE Methods # {"rsa", "ecc"}
      <3>1. PICK m : SetupOrder = <<<<m, "enc">>, <<m, "sign">>>>
        BY <2>2 DEF SetupOrder
      <3>. QED BY <3>1 DEF NoRepeats
    <2>. QED BY <2>1, <2>2
  <1>2. ASSUME NEW c, NEW types, Begin(p, c, types, "priv"), NoRepeats(types)
        PROVE  Ahead(p)'
    <2>1. /\ registry' = registry /\ registry \in Registry
          /\ mem'[p] = registry /\ todo'[p] = types /\ pc'[p] = "priv"
      BY <1>2 DEF Begin, TypeOK
    <2>2. ~ Writing(p)'
      BY <2>1 DEF Writing
    <2>. QED BY <1>2, <2>1, <2>2, ReloadedAhead
  <1>. QED BY <1>1, <1>2 DEF StartRotate, StartSetup, TypesOnce

LEMMA WriteAhead ==
    ASSUME TypeOK, NEW p \in Proc, Ahead(p),
           WritePrivate(p) \/ WritePublic(p) \/ WriteFingerprint(p)
    PROVE  Ahead(p)'
  <1>1. /\ registry' = registry /\ mem' = mem /\ todo' = todo
        /\ pc[p] # "idle" /\ pc[p] # "audit" /\ pc'[p] # "audit"
    BY DEF WritePrivate, WritePublic, WriteFingerprint, Goto, TypeOK
  <1>2. key'[p][1] = Head(todo[p])
    <2>1. CASE WritePrivate(p)
      <3>1. key'[p] = NewId(p)
        BY <2>1 DEF WritePrivate, TypeOK
      <3>2. NewId(p)[1] = Head(todo[p])
        BY DEF NewId
      <3>. QED BY <3>1, <3>2
    <2>2. CASE WritePublic(p) \/ WriteFingerprint(p)
      BY <2>2 DEF WritePublic, WriteFingerprint, Writing, Ahead
    <2>. QED BY <2>1, <2>2
  <1>. QED BY <1>1, <1>2, QuietAhead

\* Before the save: what the registry object becomes.
LEMMA RotatedAhead ==
    ASSUME IInv, OneInv, NEW p \in Rotator, Ahead(p), pc[p] = "save"
    PROVE  LET r == Rotated(mem[p], key[p])
               S == Unsaved(p) \cup {key[p]}
           IN  /\ key[p] \in KeyId /\ ~ Knows(registry, key[p])
               /\ r \in Registry /\ r = InForce(registry, S) /\ OneEach(S)
               /\ S = {k \in KeyId : ~ Knows(registry, k) /\ Knows(r, k)}
               /\ \A k \in S : \/ k[1] = Head(todo[p])
                               \/ \A i \in DOMAIN todo[p] : todo[p][i] # k[1]
  <1>1. key[p] \in KeyId /\ ~ Knows(mem[p], key[p]) /\ registry \in Registry /\ mem[p] \in Registry
    BY RotatorFacts DEF Writing
  <1>2. /\ mem[p] = InForce(registry, Unsaved(p)) /\ OneEach(Unsaved(p))
        /\ \A k \in Unsaved(p) : \A i \in DOMAIN todo[p] : todo[p][i] # k[1]
        /\ key[p][1] = Head(todo[p])
    BY DEF Ahead, Writing
  <1>3. todo[p] \in Seq(Type) /\ todo[p] # <<>>
    BY RotatorFacts DEF IInv, TodoInv, TypeOK
  <1>4. Head(todo[p]) = todo[p][1] /\ 1 \in DOMAIN todo[p]
    BY <1>3
  <1>5. \A j \in Unsaved(p) : j[1] # key[p][1]
    BY <1>2, <1>4
  <1>6. Unsaved(p) \in SUBSET KeyId /\ \A j \in Unsaved(p) : ~ Knows(registry, j)
    BY DEF Unsaved
  <1>7. Rotated(mem[p], key[p]) \in Registry
    BY <1>1, RotatedType
  <1>8. /\ Rotated(mem[p], key[p]) = InForce(registry, Unsaved(p) \cup {key[p]})
        /\ OneEach(Unsaved(p) \cup {key[p]}) /\ ~ Knows(registry, key[p])
        /\ {j \in KeyId : ~ Knows(registry, j) /\ Knows(InForce(registry, Unsaved(p) \cup {key[p]}), j)}
             = Unsaved(p) \cup {key[p]}
    BY <1>1, <1>2, <1>5, <1>6, RotatedInForce
  <1>. QED BY <1>1, <1>2, <1>7, <1>8

LEMMA FinishAhead ==
    ASSUME IInv, OneInv, NEW p \in Rotator, Ahead(p),
           \/ WriteFails(p) \/ Save(p) \/ SaveFails(p) \/ LogRotation(p) \/ AuditFails(p) \/ Crash(p)
           \/ SaveAborts(p)
    PROVE  Ahead(p)'
  <1>1. TypeOK /\ p \in Proc /\ registry \in Registry /\ mem[p] \in Registry
    BY RotatorFacts
  <1>2. pc[p] # "idle" => todo[p] # <<>> /\ NoRepeats(todo[p])
    BY <1>1 DEF Ahead, IInv, TodoInv
  <1>3. CASE Save(p)
    <2>1. /\ pc[p] = "save" /\ mem'[p] = Rotated(mem[p], key[p]) /\ registry' = mem'[p]
          /\ todo' = todo /\ pc'[p] = "audit"
      BY <1>1, <1>3 DEF Save, Goto, TypeOK
    <2>2. registry' \in Registry
      BY <2>1, RotatedAhead
    <2>3. ~ Writing(p)'
      BY <2>1 DEF Writing
    <2>. QED BY <1>2, <2>1, <2>2, <2>3, ReloadedAhead
  <1>4. CASE SaveFails(p)
    <2> DEFINE r == Rotated(mem[p], key[p])
               S == Unsaved(p) \cup {key[p]}
    <2>1. pc[p] = "save" /\ NextMethod(p, FALSE, r) /\ registry' = registry
      BY <1>4 DEF SaveFails
    <2>2. /\ key[p] \in KeyId /\ r = InForce(registry, S) /\ OneEach(S)
          /\ S = {k \in KeyId : ~ Knows(registry, k) /\ Knows(r, k)}
          /\ \A k \in S : \/ k[1] = Head(todo[p])
                          \/ \A i \in DOMAIN todo[p] : todo[p][i] # k[1]
      BY <2>1, RotatedAhead
    <2>3. S \in SUBSET KeyId
      BY <2>2 DEF Unsaved
    <2>. HIDE DEF r, S
    <2>. QED BY <1>1, <1>2, <2>1, <2>2, <2>3, NextMethodAhead
  <1>5. CASE WriteFails(p) \/ LogRotation(p) \/ AuditFails(p)
    <2>1. /\ pc[p] # "idle" /\ registry' = registry
          /\ \E ok \in BOOLEAN : NextMethod(p, ok, mem[p])
      BY <1>5 DEF WriteFails, LogRotation, AuditFails
    <2>2. /\ Unsaved(p) \in SUBSET KeyId
          /\ Unsaved(p) = {k \in KeyId : ~ Knows(registry, k) /\ Knows(mem[p], k)}
          /\ mem[p] = InForce(registry, Unsaved(p)) /\ OneEach(Unsaved(p))
      BY <2>1 DEF Unsaved, Ahead
    <2>3. \A k \in Unsaved(p) : \A i \in DOMAIN todo[p] : todo[p][i] # k[1]
      BY <2>1 DEF Ahead, Unsaved
    <2>. QED BY <1>1, <1>2, <2>1, <2>2, <2>3, NextMethodAhead
  <1>6. CASE Crash(p) \/ SaveAborts(p)
    <2>1. pc'[p] = "idle"
      BY <1>1, <1>6 DEF Crash, SaveAborts, Dies, Stop, Goto, TypeOK
    <2>. QED BY <2>1 DEF Ahead
  <1>. QED BY <1>3, <1>4, <1>5, <1>6

LEMMA InitAhead == Init => AheadInv
  BY DEF Init, AheadInv, Ahead, Proc

LEMMA NextAhead == OneRotator /\ TypesOnce /\ IInv /\ OneInv /\ AheadInv /\ [Next]_vars => AheadInv'
  <1> SUFFICES ASSUME OneRotator, TypesOnce, IInv, OneInv, AheadInv, [Next]_vars, NEW p \in Rotator
               PROVE  Ahead(p)'
    BY DEF AheadInv
  <1>1. Ahead(p) /\ TypeOK /\ p \in Proc /\ p \notin Sealer
    BY KeyRotationAssumption DEF AheadInv, IInv, Proc
  <1>2. CASE \E q \in Rotator : Rotate(q) \/ Crash(q)
    <2>1. Rotate(p) \/ Crash(p)
      BY <1>2 DEF OneRotator
    <2>. QED BY <1>1, <2>1, StartAhead, WriteAhead, FinishAhead DEF Rotate
  <1>3. ASSUME UNCHANGED <<registry, mem[p], todo[p], pc[p], key[p]>> PROVE Ahead(p)'
    BY <1>1, <1>3 DEF Ahead, Unsaved, Writing
  <1>4. CASE \E q \in Sealer : Seal(q)
    <2>1. PICK q \in Sealer : Seal(q)
      BY <1>4
    <2>2. q # p /\ q \in Proc
      BY <1>1 DEF Proc
    <2>3. UNCHANGED <<registry, mem[p], todo[p], pc[p], key[p]>>
      BY <1>1, <2>1, <2>2 DEF Seal, StartSeal, Begin, Wrap, Sign, SealFails, Stop, Goto, TypeOK
    <2>. QED BY <1>3, <2>3
  <1>5. CASE UNCHANGED vars
    BY <1>3, <1>5 DEF vars
  <1>. QED BY <1>2, <1>4, <1>5 DEF Next

\* KeyDirectory's terms are those of Keys.
LEMMA DirectoryTerms ==
    /\ Directory!KeyId = KeyId
    /\ \A t : Directory!ActiveIds(registry, t) = ActiveIds(registry, t)
    /\ \A t : Directory!Demoted(t) = Demoted(t)
  <1>1. Directory!KeyId = KeyId
    BY DEF Directory!KeyId, Directory!Type, KeyId, Type
  <1>2. \A t : Directory!ActiveIds(registry, t) = ActiveIds(registry, t)
    BY <1>1 DEF Directory!ActiveIds, ActiveIds
  <1>3. \A t : Directory!Demoted(t) = Demoted(t)
    BY DEF Directory!Demoted, Demoted
  <1>. QED BY <1>1, <1>2, <1>3

\* The registry changes by saves alone, and a save is a step of the
\* directory: the keys it makes known come into force together.
LEMMA DirectoryStep ==
    ASSUME OneRotator, IInv, OneInv, AheadInv, [Next]_vars
    PROVE  [Directory!New # {} /\ Directory!Publish(Directory!New)]_registry
  <1> SUFFICES ASSUME registry' # registry
               PROVE  Directory!New # {} /\ Directory!Publish(Directory!New)
    OBVIOUS
  <1>1. PICK p \in Rotator : Save(p)
    <2>1. Next
      BY DEF vars
    <2>2. \A q \in Sealer : ~ Seal(q)
      BY DEF Seal, StartSeal, Begin, Wrap, Sign, SealFails
    <2>3. PICK p \in Rotator : Rotate(p) \/ Crash(p)
      BY <2>1, <2>2 DEF Next
    <2>4. Save(p)
      BY <2>3 DEF Rotate, Crash, SaveAborts, Dies, StartRotate, StartSetup, Begin,
                  WritePrivate, WritePublic,
                  WriteFingerprint, WriteFails, SaveFails, LogRotation, AuditFails
    <2>. QED BY <2>4
  <1> DEFINE r == Rotated(mem[p], key[p])
             S == Unsaved(p) \cup {key[p]}
  <1>2. pc[p] = "save" /\ registry' = r
    BY <1>1, RotatorFacts DEF Save, TypeOK
  <1>3. /\ key[p] \in KeyId /\ ~ Knows(registry, key[p])
        /\ r = InForce(registry, S) /\ OneEach(S)
        /\ S = {k \in KeyId : ~ Knows(registry, k) /\ Knows(r, k)}
    BY <1>2, RotatedAhead DEF AheadInv
  <1>4. S # {}
    OBVIOUS
  <1>. HIDE DEF r, S
  <1>5. Directory!New = S
    BY <1>2, <1>3, DirectoryTerms DEF Directory!New, Knows
  <1>6. Directory!Publish(S)
    <2>1. /\ \A k \in S : k \in KeyId /\ registry[k] = "none"
          /\ \A j, k \in S : j[1] = k[1] => j = k
      BY <1>3 DEF OneEach, Knows
    <2>2. registry' = [k \in KeyId |->
             IF k \in S THEN "active"
             ELSE IF k \in UNION {ActiveIds(registry, j[1]) : j \in S} THEN Demoted(k[1])
             ELSE registry[k]]
      BY <1>2, <1>3 DEF InForce
    <2>. QED BY <2>1, <2>2, DirectoryTerms DEF Directory!Publish
  <1>. QED BY <1>4, <1>5, <1>6

\* With one rotating process that names each key type once in a command,
\* whatever fails or dies in it, the registry behaves as KeyDirectory says.
THEOREM RotationsAreAtomic == ASSUME OneRotator, TypesOnce PROVE Spec => RotationsAtomic
  <1>1. Init => registry = Directory!NoKeys
    BY DirectoryTerms DEF Init, EmptyRegistry, Directory!NoKeys
  <1>2. Init => IInv /\ OneInv /\ AheadInv
    BY InitInv, InitOne, InitAhead
  <1>3. (IInv /\ OneInv /\ AheadInv) /\ [Next]_vars => (IInv /\ OneInv /\ AheadInv)'
    BY NextInv, NextOne, NextAhead
  <1>4. (IInv /\ OneInv /\ AheadInv) /\ [Next]_vars
          => [Directory!New # {} /\ Directory!Publish(Directory!New)]_registry
    BY DirectoryStep
  <1>. QED BY <1>1, <1>2, <1>3, <1>4, PTL DEF Spec, RotationsAtomic, Directory!DirectorySpec
=============================================================================
