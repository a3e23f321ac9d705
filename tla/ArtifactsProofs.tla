--------------------------- MODULE ArtifactsProofs ---------------------------
(***************************************************************************)
(* Proofs about Artifacts: signatures and packages stay good, and every    *)
(* command and call is accounted for, however the keys are rotated, for    *)
(* any number of processes, keys, edits and packages; and the choice of    *)
(* the method, Policy.                                                     *)
(***************************************************************************)
EXTENDS Artifacts, Policy, SequenceTheorems, TLAPS

-----------------------------------------------------------------------------
(* The registry: a key that is there is active or, once, demoted.          *)

RegistrySound ==
    /\ registry \in Registry
    /\ \A k \in KeyId : registry[k] \in {"none", "active", Demoted(k[1])}
    /\ Valid(registry)

\* What a step of the registry leaves as it was: the keys that are there, and
\* the demotions.
Kept(r, s) ==
    \A k \in KeyId : r[k] # "none" =>
        s[k] # "none" /\ (r[k] # "active" => s[k] # "active")

LEMMA KeyParts ==
    ASSUME NEW k \in KeyId
    PROVE  k[1] \in Type /\ k[1][1] \in Methods /\ k[1][2] \in {"enc", "sign"}
  BY DEF KeyId, Type

LEMMA DemotedKinds ==
    ASSUME NEW t \in Type
    PROVE  Demoted(t) \in {"decrypt-only", "retired"} /\ Demoted(t) \in Status
  BY DEF Demoted, Status

LEMMA PublishKeeps ==
    ASSUME RegistrySound, NEW new \in SUBSET KeyId, Publish(new)
    PROVE  RegistrySound' /\ Kept(registry, registry')
  <1> DEFINE old == UNION {ActiveIds(registry, k[1]) : k \in new}
  <1>1. registry' = [k \in KeyId |-> IF k \in new THEN "active"
                                    ELSE IF k \in old THEN Demoted(k[1])
                                    ELSE registry[k]]
    BY DEF Publish
  <1>. HIDE DEF old
  <1>2. ASSUME NEW k \in KeyId
        PROVE  /\ registry'[k] \in {"active", Demoted(k[1]), registry[k]}
               /\ registry'[k] \in {"none", "active", Demoted(k[1])}
               /\ registry'[k] \in Status
               /\ registry[k] # "none" => registry'[k] # "none"
               /\ registry'[k] = "active" => k \in new \/ registry[k] = "active"
    <2>1. Demoted(k[1]) \in {"decrypt-only", "retired"} /\ Demoted(k[1]) \in Status
      BY KeyParts, DemotedKinds
    <2>2. registry[k] \in {"none", "active", Demoted(k[1])} /\ registry[k] \in Status
      BY DEF RegistrySound, Registry
    <2>3. registry'[k] = IF k \in new THEN "active"
                         ELSE IF k \in old THEN Demoted(k[1]) ELSE registry[k]
      BY <1>1
    <2>. QED BY <2>1, <2>2, <2>3 DEF Status
  <1>3. registry' \in Registry
    BY <1>1, <1>2 DEF Registry
  <1>4. \A k \in new : registry[k] = "none"
    BY DEF Publish
  <1>5. ASSUME NEW j \in KeyId, NEW k \in KeyId, j[1] = k[1],
               registry'[j] = "active", registry'[k] = "active"
        PROVE  j = k
    <2>1. ASSUME NEW i \in KeyId, i \notin new, i[1] = j[1], registry'[i] = "active"
          PROVE  \A n \in new : n[1] # i[1]
      <3>1. registry[i] = "active"
        BY <1>2, <2>1
      <3>2. SUFFICES ASSUME NEW n \in new, n[1] = i[1] PROVE FALSE
        OBVIOUS
      <3>3. i \in old
        BY <3>1, <3>2 DEF old, ActiveIds
      <3>4. registry'[i] = Demoted(i[1])
        BY <1>1, <2>1, <3>3
      <3>5. Demoted(i[1]) # "active"
        BY DEF Demoted
      <3>. QED BY <2>1, <3>4, <3>5
    <2>2. CASE j \in new \/ k \in new
      <3>1. j \in new /\ k \in new
        BY <1>5, <2>1, <2>2
      <3>. QED BY <1>5, <3>1 DEF Publish
    <2>3. CASE j \notin new /\ k \notin new
      <3>1. registry[j] = "active" /\ registry[k] = "active" /\ j[1] \in Type
        BY <1>2, <1>5, <2>3, KeyParts
      <3>. QED BY <1>5, <3>1 DEF RegistrySound, Valid, ActiveIds
    <2>. QED BY <2>2, <2>3
  <1>6. Valid(registry')
    BY <1>5 DEF Valid, ActiveIds
  <1>. QED BY <1>2, <1>3, <1>4, <1>6 DEF RegistrySound, Kept

\* What such keys are good for.
LEMMA KeptIsGood ==
    ASSUME NEW r \in Registry, NEW k \in KeyId,
           r[k] \in {"active", Demoted(k[1])}
    PROVE  /\ k[1][2] = "enc" => Decrypts(r, k)
           /\ k[1][2] = "sign" => VerifiesWith(r, k)
  BY KeyParts DEF Decrypts, VerifiesWith, Demoted
-----------------------------------------------------------------------------
(* Who changes what *)

LEMMA SameKeys ==
    /\ P!KeyId = KeyId /\ P!Registry = Registry
    /\ P!EncKeys = {k \in KeyId : k[1][2] = "enc"}
    /\ S!KeyId = KeyId
  BY DEF P!KeyId, P!Type, P!Registry, P!Status, P!EncKeys, S!KeyId, S!Type,
         KeyId, Type, Registry, Status

LEMMA RotateStep ==
    ASSUME NEW use, NEW users, RotateKeys(use, users)
    PROVE  /\ \E new \in SUBSET KeyId : Publish(new)
           /\ UNCHANGED <<signing, calling, site>>
           /\ answer' = S!NoAnswer /\ reply' = P!NoReply
  BY DEF RotateKeys, S!Silent, P!Silent

-----------------------------------------------------------------------------
(* Packages.  What is under way in an agent will be true of the packages   *)
(* and keys there are when it is done, since neither ever goes.            *)

\* The call that process p has under way has computed its outcome, and is to
\* write its event.
GoodCall(p) ==
    LET c == call[p] IN
    /\ c.what = "none" => c = P!NoCall
    /\ c.what = "fails" => /\ c.event.result \in {"denied", "error"}
                           /\ c.event.result = "denied" => c.event.action = "ACCESS_DENIED"
    /\ c.what = "encrypt" => /\ c.event.result = "success"
                             /\ c.event.key \in P!EncKeys /\ registry[c.event.key] # "none"
    /\ c.what = "decrypt" =>
          LET q == c.request IN
          /\ c.event.result = "success" /\ c.event.key = q.key
          /\ P!Authorize(c.user, "decrypt", c.level) /\ c.user.role = "admin"
          /\ q.wrapped \in DOMAIN packages /\ q.aad \in DOMAIN packages
          /\ q.message \in DOMAIN packages
          /\ P!DecryptHybrid(q)

\* Its copy of the registry, that may be old.
GoodCopy(p) ==
    LET r == provider[p] IN
    /\ r \in Registry /\ Kept(r, registry)
    /\ \A k \in KeyId : r[k] \in {"none", "active", Demoted(k[1])}

PackagesSound == \A n \in DOMAIN packages : registry[packages[n]] # "none"
ProvidersSound == \A p \in Agent : provider[p] # <<>> => GoodCopy(p)
CallsSound == \A p \in Agent : GoodCall(p)

PipelineInv ==
    /\ RegistrySound /\ P!PipelineTypeOK
    /\ PackagesSound /\ ProvidersSound /\ CallsSound
    /\ DecryptExact /\ CallsAccounted

LEMMA SilentReply == reply = P!NoReply => DecryptExact /\ CallsAccounted
  BY DEF P!NoReply, P!NoCall, P!NoEvent, DecryptExact, P!DecryptExact, CallsAccounted,
         P!CallsAccounted

LEMMA NoCallTyped == P!NoCall \in P!Call /\ P!NoReply \in P!Reply /\ P!NoEvent \in P!CallEvent
  BY DEF P!NoCall, P!Call, P!NoReply, P!Reply, P!NoEvent, P!CallEvent

LEMMA InitPipeline == Init => PipelineInv
  <1> SUFFICES ASSUME Init PROVE PipelineInv
    OBVIOUS
  <1>. USE DEF Init, P!PipelineInit
  <1>1. RegistrySound
    BY KeyParts DEF NoKeys, RegistrySound, Registry, Status, Valid, ActiveIds
  <1>2. P!PipelineTypeOK
    <2>1. packages \in Seq(P!EncKeys) /\ Len(packages) = 0
      BY EmptySeq
    <2>2. MaxPackages \in Nat
      BY ArtifactsAssumption DEF P!PipelineAssumption
    <2>. QED BY <2>1, <2>2, NoCallTyped DEF P!PipelineTypeOK, Agent, P!Agent
  <1>3. PackagesSound
    BY EmptySeq DEF PackagesSound
  <1>4. ProvidersSound /\ CallsSound
    BY DEF ProvidersSound, CallsSound, GoodCall, P!NoCall, Agent, P!Agent
  <1>. QED BY <1>1, <1>2, <1>3, <1>4, SilentReply DEF PipelineInv

-----------------------------------------------------------------------------
(* What was true of the packages and keys stays true of them.              *)

\* What a step of the packages leaves as it was: those that are there.
PackagesKept ==
    /\ DOMAIN packages \subseteq DOMAIN packages'
    /\ \A n \in DOMAIN packages : packages'[n] = packages[n]

LEMMA CallKept ==
    ASSUME NEW p, GoodCall(p), call'[p] = call[p], P!PipelineTypeOK,
           PackagesKept, Kept(registry, registry')
    PROVE  GoodCall(p)'
  <1>1. P!EncKeys \subseteq KeyId
    BY SameKeys
  <1>2. CASE call[p].what # "decrypt"
    BY <1>1, <1>2 DEF GoodCall, Kept
  <1>3. CASE call[p].what = "decrypt"
    <2> DEFINE q == call[p].request
    <2>1. q.wrapped \in DOMAIN packages /\ q.aad \in DOMAIN packages
             /\ q.message \in DOMAIN packages
      BY <1>3 DEF GoodCall
    <2>2. P!DecryptHybrid(q) => P!DecryptHybrid(q)'
      BY <2>1 DEF PackagesKept, P!DecryptHybrid, P!UnwrapsWith, P!BuildAad, P!Sender,
                  P!MethodOf
    <2>. QED BY <1>3, <2>1, <2>2 DEF GoodCall, PackagesKept
  <1>. QED BY <1>2, <1>3

LEMMA IdleIsGood ==
    ASSUME NEW p, call'[p] = P!NoCall
    PROVE  GoodCall(p)'
  BY DEF GoodCall, P!NoCall

LEMMA CopyKept ==
    ASSUME NEW p, GoodCopy(p), provider'[p] = provider[p], Kept(registry, registry')
    PROVE  GoodCopy(p)'
  BY DEF GoodCopy, Kept

\* A step of somebody else: nothing of the agents changes, and no key goes.
LEMMA OthersKeepCalls ==
    ASSUME PipelineInv, RegistrySound', Kept(registry, registry'), UNCHANGED calling,
           reply' = P!NoReply \/ UNCHANGED reply
    PROVE  PipelineInv'
  <1>. USE DEF PipelineInv, calling
  <1>1. PackagesKept
    BY DEF PackagesKept
  <1>2. P!PipelineTypeOK'
    BY NoCallTyped DEF P!PipelineTypeOK, P!Agent, P!Registry, P!Status
  <1>3. PackagesSound'
    <2>1. \A n \in DOMAIN packages : packages[n] \in KeyId
      BY SameKeys DEF P!PipelineTypeOK
    <2>. QED BY <2>1 DEF PackagesSound, Kept
  <1>4. ProvidersSound' /\ CallsSound'
    BY <1>1, CallKept, CopyKept DEF ProvidersSound, CallsSound
  <1>5. (DecryptExact /\ CallsAccounted)'
    <2>1. CASE reply' = P!NoReply
      BY <2>1 DEF P!NoReply, P!NoCall, P!NoEvent, DecryptExact, P!DecryptExact,
                  CallsAccounted, P!CallsAccounted
    <2>2. CASE UNCHANGED reply
      BY <2>2 DEF DecryptExact, P!DecryptExact, CallsAccounted, P!CallsAccounted, P!Whole,
                  P!Sender, P!MethodOf
    <2>. QED BY <2>1, <2>2
  <1>. QED BY <1>2, <1>3, <1>4, <1>5

-----------------------------------------------------------------------------
(* The steps of an agent *)

\* A step of the agents that returns no text, and writes no package.
LEMMA QuietStep ==
    ASSUME PipelineInv, NEW p \in Agent, UNCHANGED <<registry, packages>>,
           reply' \in P!Reply, DecryptExact', CallsAccounted', NEW c \in P!Call, NEW r \in {<<>>} \cup Registry,
           call' = [call EXCEPT ![p] = c], provider' = [provider EXCEPT ![p] = r],
           GoodCall(p)', r = <<>> \/ GoodCopy(p)'
    PROVE  PipelineInv'
  <1>. USE DEF PipelineInv
  <1>1. PackagesKept /\ Kept(registry, registry')
    BY DEF PackagesKept, Kept
  <1>2. P!PipelineTypeOK'
    BY NoCallTyped, SameKeys DEF P!PipelineTypeOK, P!Agent, P!Registry, P!Status, Agent
  <1>3. ASSUME NEW o \in Agent
        PROVE  (provider[o] # <<>> => GoodCopy(o))' /\ GoodCall(o)'
    <2>1. CASE o = p
      BY <2>1 DEF P!PipelineTypeOK, P!Agent, Agent
    <2>2. CASE o # p
      <3>1. call'[o] = call[o] /\ provider'[o] = provider[o]
        BY <2>2 DEF P!PipelineTypeOK, P!Agent, Agent
      <3>. QED BY <1>1, <3>1, CallKept, CopyKept DEF ProvidersSound, CallsSound
    <2>. QED BY <2>1, <2>2
  <1>4. PackagesSound' /\ RegistrySound'
    BY DEF PackagesSound, RegistrySound
  <1>. QED BY <1>2, <1>3, <1>4 DEF ProvidersSound, CallsSound

LEMMA SilentReplied ==
    ASSUME reply' = P!NoReply
    PROVE  reply' \in P!Reply /\ DecryptExact' /\ CallsAccounted'
  BY NoCallTyped DEF P!NoReply, P!NoCall, P!NoEvent, DecryptExact, P!DecryptExact,
     CallsAccounted, P!CallsAccounted

LEMMA ConstructStep ==
    ASSUME PipelineInv, NEW p \in Agent, P!Construct(p), UNCHANGED registry
    PROVE  PipelineInv'
  <1>. USE DEF P!Construct, P!Idle, P!Silent
  <1>1. registry \in Registry /\ P!NoCall \in P!Call
    BY NoCallTyped DEF PipelineInv, RegistrySound
  <1>2. /\ call' = [call EXCEPT ![p] = P!NoCall]
        /\ provider' = [provider EXCEPT ![p] = registry]
        /\ provider'[p] = registry /\ call'[p] = P!NoCall
    BY DEF PipelineInv, P!PipelineTypeOK, P!Agent, Agent
  <1>3. GoodCall(p)'
    BY <1>2 DEF GoodCall, P!NoCall
  <1>4. GoodCopy(p)'
    BY <1>2 DEF GoodCopy, PipelineInv, RegistrySound, Kept
  <1>. QED BY <1>1, <1>2, <1>3, <1>4, SilentReplied, QuietStep

LEMMA KilledStep ==
    ASSUME PipelineInv, NEW p \in Agent, P!Killed(p), UNCHANGED registry
    PROVE  PipelineInv'
  <1>. USE DEF P!Killed
  <1>1. call'[p] = P!NoCall /\ call[p] \in P!Call /\ GoodCall(p)
    BY DEF PipelineInv, P!PipelineTypeOK, P!Agent, Agent, CallsSound
  <1>2. GoodCall(p)'
    BY <1>1 DEF GoodCall, P!NoCall
  <1>3. PICK e \in {P!NoEvent, call[p].event} :
            reply' = [what |-> "killed", text |-> 0, call |-> P!NoCall, event |-> e]
    OBVIOUS
  <1>4. e \in P!CallEvent
    BY <1>1, NoCallTyped DEF P!Call
  <1>5. e.result = "denied" => e.action = "ACCESS_DENIED"
    BY <1>1 DEF GoodCall, P!NoCall, P!NoEvent, P!Call
  <1>6. /\ reply'.what = "killed" /\ reply'.call = P!NoCall /\ reply'.event = e
        /\ reply' \in P!Reply
    BY <1>3, <1>4, NoCallTyped DEF P!Reply
  <1>7. DecryptExact' /\ CallsAccounted'
    BY <1>5, <1>6 DEF DecryptExact, P!DecryptExact, CallsAccounted, P!CallsAccounted
  <1>. QED BY <1>2, <1>6, <1>7, NoCallTyped, QuietStep

LEMMA UndertakesStep ==
    ASSUME PipelineInv, NEW p \in Agent, NEW c \in P!Call, P!Undertakes(p, c),
           UNCHANGED registry, GoodCall(p)'
    PROVE  PipelineInv'
  <1>. USE DEF P!Undertakes, P!Silent
  <1>1. /\ provider[p] \in {<<>>} \cup Registry
        /\ provider' = [provider EXCEPT ![p] = provider[p]]
        /\ provider'[p] = provider[p]
    BY SameKeys DEF PipelineInv, P!PipelineTypeOK, P!Agent, Agent
  <1>2. provider[p] = <<>> \/ GoodCopy(p)'
    BY <1>1, CopyKept DEF Kept, PipelineInv, ProvidersSound
  <1>. QED BY <1>1, <1>2, SilentReplied, QuietStep

\* A call returns.
LEMMA ReturnsStep ==
    ASSUME PipelineInv, NEW p \in Agent, UNCHANGED registry,
           NEW what \in {"refused", "ok", "failed", "audit failure"},
           NEW n \in {0} \cup P!Package, NEW e \in P!CallEvent,
           P!Returns(p, what, n, e),
           packages' \in Seq(P!EncKeys), Len(packages') <= MaxPackages, PackagesKept,
           PackagesSound', DecryptExact', CallsAccounted'
    PROVE  PipelineInv'
  <1>. USE DEF PipelineInv, P!Returns
  <1>1. Kept(registry, registry')
    BY DEF Kept
  <1>2. P!PipelineTypeOK'
    <2>1. reply' \in P!Reply
      BY DEF P!Reply, P!PipelineTypeOK, P!Agent, Agent
    <2>2. call' \in [P!Agent -> P!Call]
      BY NoCallTyped DEF P!PipelineTypeOK
    <2>3. provider' \in [P!Agent -> {<<>>} \cup P!Registry]
      BY DEF P!PipelineTypeOK
    <2>. QED BY <2>1, <2>2, <2>3 DEF P!PipelineTypeOK
  <1>3. ASSUME NEW o \in Agent
        PROVE  (provider[o] # <<>> => GoodCopy(o))' /\ GoodCall(o)'
    <2>1. provider'[o] = <<>> \/ provider'[o] = provider[o]
      BY DEF P!PipelineTypeOK, P!Agent, Agent
    <2>2. provider'[o] # <<>> => GoodCopy(o)'
      BY <1>1, <2>1, CopyKept DEF ProvidersSound
    <2>3. call'[o] = P!NoCall \/ call'[o] = call[o]
      BY DEF P!PipelineTypeOK, P!Agent, Agent
    <2>4. CASE call'[o] = P!NoCall
      BY <2>2, <2>4, IdleIsGood
    <2>5. CASE call'[o] = call[o]
      BY <1>1, <2>2, <2>5, CallKept DEF CallsSound
    <2>. QED BY <2>3, <2>4, <2>5
  <1>. QED BY <1>2, <1>3 DEF ProvidersSound, CallsSound, RegistrySound

\* No package is written, and nothing is said of one.
LEMMA EmptyHanded ==
    ASSUME PipelineInv, NEW p \in Agent, UNCHANGED <<registry, packages>>,
           NEW what \in {"refused", "failed", "audit failure"}, NEW e \in P!CallEvent,
           P!Returns(p, what, 0, e),
           e.result # "success", what = "failed" <=> e.result \in {"denied", "error"},
           e.result = "denied" => e.action = "ACCESS_DENIED"
    PROVE  PipelineInv'
  <1>1. reply'.what = what /\ reply'.event = e
    BY DEF P!Returns
  <1>2. DecryptExact' /\ CallsAccounted'
    BY <1>1 DEF DecryptExact, P!DecryptExact, CallsAccounted, P!CallsAccounted
  <1>3. PackagesKept /\ PackagesSound'
    BY DEF PackagesKept, PipelineInv, PackagesSound
  <1>. QED BY <1>2, <1>3, ReturnsStep DEF PipelineInv, P!PipelineTypeOK

LEMMA RefusedStep ==
    ASSUME PipelineInv, NEW p \in Agent, UNCHANGED registry, P!Refused(p)
    PROVE  PipelineInv'
  BY NoCallTyped, EmptyHanded DEF P!Refused, P!NoEvent

LEMMA CallNotLoggedStep ==
    ASSUME PipelineInv, NEW p \in Agent, UNCHANGED registry, P!CallNotLogged(p)
    PROVE  PipelineInv'
  BY NoCallTyped, EmptyHanded DEF P!CallNotLogged, P!NoEvent

-----------------------------------------------------------------------------
(* The events of the calls *)

LEMMA EncryptEventsSound ==
    ASSUME NEW p, NEW u, NEW c, NEW level, NEW fails \in BOOLEAN,
           NEW e \in P!EncryptEvents(p, u, c, level, fails)
    PROVE  /\ e \in P!CallEvent
           /\ e.result \in {"success", "denied", "error"}
           /\ e.result = "denied" => e.action = "ACCESS_DENIED"
           /\ e.result = "success" =>
                 e.key \in P!EncKeys /\ \E m : e.key \in P!EncryptKeys(p, m)
  <1>1. \A m : P!EncryptKeys(p, m) \subseteq P!EncKeys
    BY DEF P!EncryptKeys, P!ActiveIds, P!EncKeys
  <1>2. CASE e \in {P!NotPossible, P!Denied}
    BY <1>2 DEF P!NotPossible, P!Denied, P!Record, P!CallEvent
  <1>3. CASE e \notin {P!NotPossible, P!Denied}
    <2>1. PICK k \in P!EncryptKeys(p, P!SelectMethod(c)) :
             e = P!Record("ENCRYPT", IF fails THEN "error" ELSE "success", k)
      BY <1>3 DEF P!EncryptEvents
    <2>2. k \in P!EncKeys
      BY <1>1
    <2>. QED BY <2>1, <2>2 DEF P!Record, P!CallEvent
  <1>. QED BY <1>2, <1>3

LEMMA DecryptEventsSound ==
    ASSUME NEW p, NEW u, NEW level, NEW q, q.key \in P!EncKeys,
           NEW e \in P!DecryptEvents(p, u, level, q)
    PROVE  /\ e \in P!CallEvent
           /\ e.result \in {"success", "denied", "error"}
           /\ e.result = "denied" => e.action = "ACCESS_DENIED"
           /\ e.result = "success" => /\ e.key = q.key
                                      /\ P!Authorize(u, "decrypt", level)
                                      /\ P!DecryptHybrid(q)
  <1>1. CASE e \in {P!NotPossible, P!Denied}
    BY <1>1 DEF P!NotPossible, P!Denied, P!Record, P!CallEvent
  <1>2. CASE e \notin {P!NotPossible, P!Denied}
    <2>1. /\ P!Authorize(u, "decrypt", level)
          /\ e = P!Record("DECRYPT", IF P!DecryptHybrid(q) THEN "success" ELSE "error", q.key)
      BY <1>2 DEF P!DecryptEvents
    <2>. QED BY <2>1 DEF P!Record, P!CallEvent
  <1>. QED BY <1>1, <1>2

LEMMA Undertaken ==
    ASSUME P!PipelineTypeOK, NEW p \in Agent, NEW c, P!Undertakes(p, c)
    PROVE  call'[p] = c /\ UNCHANGED packages
  BY DEF P!Undertakes, P!PipelineTypeOK, P!Agent, Agent

LEMMA EncryptStep ==
    ASSUME PipelineInv, NEW p \in Agent, P!Encrypt(p), UNCHANGED registry
    PROVE  PipelineInv'
  <1>1. CASE P!Refused(p)
    BY <1>1, RefusedStep
  <1>2. ASSUME NEW u \in People, NEW cx \in Signals, NEW level \in Levels,
               NEW fails \in BOOLEAN,
               NEW e \in P!EncryptEvents(p, u, cx, level, fails), NEW c,
               c = [event |-> e, what |->
                    IF e.result = "success" THEN "encrypt" ELSE "fails"],
               P!Undertakes(p, c)
        PROVE  PipelineInv'
    <2>1. c \in P!Call
      BY <1>2, EncryptEventsSound DEF P!Call
    <2>2. provider[p] # <<>>
      BY DEF P!Encrypt, P!Calls
    <2>3. e.result = "success" => registry[e.key] # "none"
      <3>1. ASSUME NEW m, e.key \in P!EncryptKeys(p, m)
            PROVE  e.key \in KeyId /\ provider[p][e.key] = "active"
        BY <3>1, SameKeys DEF P!EncryptKeys, P!ActiveIds
      <3>2. Kept(provider[p], registry)
        BY <2>2 DEF PipelineInv, ProvidersSound, GoodCopy
      <3>. QED BY <3>1, <3>2, EncryptEventsSound DEF Kept
    <2>4. call'[p] = c /\ registry' = registry
      BY <1>2, Undertaken DEF PipelineInv
    <2>5. GoodCall(p)'
      <3>1. /\ c.what = "fails" => c.event.result \in {"denied", "error"}
            /\ c.event.result = "denied" => c.event.action = "ACCESS_DENIED"
            /\ c.what = "encrypt" => /\ c.event.result = "success"
                                     /\ c.event.key \in P!EncKeys
                                     /\ registry'[c.event.key] # "none"
            /\ c.what \in {"fails", "encrypt"}
        BY <1>2, <2>3, <2>4, EncryptEventsSound
      <3>. QED BY ONLY <2>4, <3>1 DEF GoodCall
    <2>. QED BY <1>2, <2>1, <2>5, UndertakesStep
  <1>. QED BY <1>1, <1>2 DEF P!Encrypt

LEMMA DecryptStep ==
    ASSUME PipelineInv, NEW p \in Agent, P!Decrypt(p), UNCHANGED registry
    PROVE  PipelineInv'
  <1>1. CASE P!Refused(p)
    BY <1>1, RefusedStep
  <1>2. ASSUME NEW u \in People, NEW level \in Levels, u.role = "admin",
               NEW q \in P!Requests, NEW e \in P!DecryptEvents(p, u, level, q), NEW c,
               c = IF e.result # "success" THEN [what |-> "fails", event |-> e]
                   ELSE [what |-> "decrypt", user |-> u, level |-> level,
                         request |-> q, event |-> e],
               P!Undertakes(p, c)
        PROVE  PipelineInv'
    <2>1. /\ q \in P!Request /\ q.key \in P!EncKeys
          /\ q.wrapped \in DOMAIN packages /\ q.aad \in DOMAIN packages
          /\ q.message \in DOMAIN packages
      <3>1. packages \in Seq(P!EncKeys) /\ Len(packages) <= MaxPackages
        BY DEF PipelineInv, P!PipelineTypeOK
      <3>2. DOMAIN packages \subseteq P!Package
        <4>1. MaxPackages \in Nat
          BY ArtifactsAssumption DEF P!PipelineAssumption
        <4>2. Len(packages) \in Nat /\ DOMAIN packages = 1 .. Len(packages)
          BY <3>1, LenProperties
        <4>. QED BY <3>1, <4>1, <4>2 DEF P!Package
      <3>3. {packages[n] : n \in DOMAIN packages} \subseteq P!EncKeys
        BY <3>1
      <3>4. q \in [method : Methods, key : {packages[n] : n \in DOMAIN packages},
                   wrapped : DOMAIN packages, sender : {0} \cup DOMAIN packages,
                   aad : DOMAIN packages, message : DOMAIN packages]
        BY DEF P!Requests
      <3>5. /\ q.key \in P!EncKeys
            /\ q.wrapped \in DOMAIN packages /\ q.aad \in DOMAIN packages
            /\ q.message \in DOMAIN packages
        BY <3>3, <3>4
      <3>6. q \in P!Request
        BY <3>2, <3>3, <3>4 DEF P!Request
      <3>. QED BY <3>5, <3>6
    <2>2. call'[p] = c /\ UNCHANGED <<packages, registry>>
      BY <1>2, Undertaken DEF PipelineInv
    <2>3. CASE e.result # "success"
      <3>1. c \in P!Call
        BY <1>2, <2>1, <2>3, DecryptEventsSound DEF P!Call
      <3>2. /\ c.event.result \in {"denied", "error"}
            /\ c.event.result = "denied" => c.event.action = "ACCESS_DENIED"
            /\ c.what = "fails"
        BY <1>2, <2>1, <2>3, DecryptEventsSound
      <3>3. GoodCall(p)'
        BY ONLY <2>2, <3>2 DEF GoodCall
      <3>. QED BY <1>2, <3>1, <3>3, UndertakesStep
    <2>4. CASE e.result = "success"
      <3>1. c \in P!Call
        BY <1>2, <2>1, <2>4, DecryptEventsSound, ArtifactsAssumption DEF P!Call, P!PipelineAssumption
      <3>2. /\ c.what = "decrypt" /\ c.user = u /\ c.level = level /\ c.request = q
            /\ c.event = e
        BY <1>2, <2>4
      <3>3. /\ e.key = q.key /\ P!Authorize(u, "decrypt", level)
            /\ P!DecryptHybrid(q)
        BY <1>2, <2>1, <2>4, DecryptEventsSound
      <3>4. P!DecryptHybrid(q)'
        BY <2>2, <3>3 DEF P!DecryptHybrid, P!UnwrapsWith, P!BuildAad, P!Sender, P!MethodOf
      <3>5. u.role = "admin"
        BY <1>2
      <3>6. GoodCall(p)'
        BY ONLY <2>1, <2>2, <2>4, <3>2, <3>3, <3>4, <3>5 DEF GoodCall
      <3>. QED BY <1>2, <3>1, <3>6, UndertakesStep
    <2>. QED BY <2>3, <2>4
  <1>. QED BY <1>1, <1>2 DEF P!Decrypt

-----------------------------------------------------------------------------
(* What a call returns *)

LEMMA RequestExcept ==
    ASSUME NEW q, DOMAIN q = {"method", "key", "wrapped", "sender", "aad", "message"},
           NEW n, NEW t
    PROVE  [q EXCEPT !.aad = n, !.sender = t]
           = [method |-> q.method, key |-> q.key, wrapped |-> q.wrapped,
              sender |-> t, aad |-> n, message |-> q.message]
  <1>1. [q EXCEPT !.aad = n, !.sender = t]
           = [i \in DOMAIN q |-> IF i = "sender" THEN t ELSE IF i = "aad" THEN n ELSE q[i]]
    OBVIOUS
  <1>. QED BY <1>1

\* A decryption that succeeds: what it was given is of one package.
LEMMA ExactRequest ==
    ASSUME P!PipelineTypeOK, NEW q \in P!Request, P!DecryptHybrid(q),
           q.wrapped \in DOMAIN packages, q.aad \in DOMAIN packages
    PROVE  LET n == q.message IN
           /\ packages[n] = q.key
           /\ [q EXCEPT !.aad = n, !.sender = P!Sender(n)] = P!Whole(n)
           /\ P!MethodOf(n) = "ecc" => q.aad = n /\ q.sender = P!Sender(n)
           /\ P!MethodOf(q.aad) = P!MethodOf(n)
  <1> DEFINE n == q.message
  <1>1. n = q.wrapped /\ packages[n] = q.key
    BY DEF P!DecryptHybrid, P!UnwrapsWith
  <1>2. /\ P!MethodOf(n) \in {"rsa", "ecc"} /\ P!MethodOf(q.aad) \in {"rsa", "ecc"}
    <2>1. packages[n] \in P!EncKeys /\ packages[q.aad] \in P!EncKeys
      BY <1>1 DEF P!PipelineTypeOK
    <2>2. \A k \in P!EncKeys : k[1][1] \in {"rsa", "ecc"}
      BY SameKeys, KeyParts, ArtifactsAssumption DEF P!PipelineAssumption
    <2>. QED BY <2>1, <2>2 DEF P!MethodOf
  <1>3. q.method = P!MethodOf(n)
    BY <1>1, <1>2 DEF P!DecryptHybrid, P!Approved, P!MethodOf
  <1>4. P!BuildAad(q.aad) = P!BuildAad(n)
    BY <1>1 DEF P!DecryptHybrid
  <1>5. P!MethodOf(q.aad) = P!MethodOf(n)
    BY <1>2, <1>4 DEF P!BuildAad
  <1>6. P!MethodOf(n) = "ecc" => q.aad = n /\ q.sender = P!Sender(n)
    BY <1>1, <1>3, <1>4, <1>5 DEF P!BuildAad, P!Sender, P!DecryptHybrid, P!UnwrapsWith
  <1>7. [q EXCEPT !.aad = n, !.sender = P!Sender(n)] = P!Whole(n)
    <2> DEFINE t == P!Sender(n)
    <2>1. DOMAIN q = {"method", "key", "wrapped", "sender", "aad", "message"}
      BY DEF P!Request
    <2>2. P!Whole(n) = [method |-> q.method, key |-> q.key, wrapped |-> q.wrapped,
                        sender |-> t, aad |-> n, message |-> q.message]
      BY <1>1, <1>3 DEF P!Whole
    <2>3. [q EXCEPT !.aad = n, !.sender = t]
             = [method |-> q.method, key |-> q.key, wrapped |-> q.wrapped,
                sender |-> t, aad |-> n, message |-> q.message]
      <3>. HIDE DEF t, n
      <3>. QED BY <2>1, RequestExcept, Zenon
    <2>. QED BY <2>2, <2>3, Zenon
  <1>. QED BY <1>1, <1>5, <1>6, <1>7

LEMMA LogCallStep ==
    ASSUME PipelineInv, NEW p \in Agent, P!LogCall(p), UNCHANGED registry
    PROVE  PipelineInv'
  <1> DEFINE c == call[p]
             e == call[p].event
             n == Len(packages) + 1
  <1>1. GoodCall(p) /\ P!PipelineTypeOK /\ c \in P!Call /\ c # P!NoCall
    BY DEF PipelineInv, CallsSound, P!PipelineTypeOK, P!LogCall, P!Idle, Agent, P!Agent
  <1>2. e \in P!CallEvent
    BY <1>1 DEF P!Call
  <1>3. packages \in Seq(P!EncKeys) /\ Len(packages) \in Nat
        /\ Len(packages) <= MaxPackages /\ DOMAIN packages = 1 .. Len(packages)
    BY <1>1 DEF P!PipelineTypeOK
  <1>4. c.what \in {"fails", "encrypt", "decrypt"}
    BY <1>1 DEF P!Call, GoodCall
  <1>5. CASE c.what = "fails"
    <2>1. P!Returns(p, "failed", 0, e) /\ UNCHANGED packages
      BY <1>5 DEF P!LogCall, P!Completes
    <2>2. e.result \in {"denied", "error"} /\ (e.result = "denied" => e.action = "ACCESS_DENIED")
      BY <1>1, <1>5 DEF GoodCall
    <2>. QED BY <1>2, <2>1, <2>2, EmptyHanded
  <1>6. CASE c.what = "encrypt"
    <2>1. /\ P!Returns(p, "ok", n, e)
          /\ packages' = Append(packages, e.key) /\ n <= MaxPackages
      BY <1>6 DEF P!LogCall, P!Completes
    <2>2. e.result = "success" /\ e.key \in P!EncKeys /\ registry[e.key] # "none"
      BY <1>1, <1>6 DEF GoodCall
    <2>3. /\ packages' \in Seq(P!EncKeys) /\ Len(packages') = n
          /\ \A i \in 1 .. Len(packages) : packages'[i] = packages[i]
          /\ packages'[n] = e.key
      BY <1>3, <2>1, <2>2, AppendProperties
    <2>4. DOMAIN packages' = 1 .. n
      BY <2>3
    <2>5. PackagesKept
      BY <1>3, <2>3, <2>4 DEF PackagesKept
    <2>6. PackagesSound'
      <3>1. \A i \in 1 .. n : i = n \/ i \in 1 .. Len(packages)
        BY <1>3
      <3>. QED BY <1>3, <2>2, <2>3, <2>4, <3>1 DEF PipelineInv, PackagesSound
    <2>7. /\ reply'.what = "ok" /\ reply'.text = n /\ reply'.event = e
          /\ reply'.call = c
      BY <2>1 DEF P!Returns
    <2>8. DecryptExact' /\ CallsAccounted'
      BY <1>6, <2>2, <2>3, <2>7 DEF DecryptExact, P!DecryptExact, CallsAccounted,
         P!CallsAccounted
    <2>9. n \in P!Package /\ MaxPackages \in Nat
      BY <1>3, <2>1, ArtifactsAssumption DEF P!Package, P!PipelineAssumption
    <2>. HIDE DEF n, e, c
    <2>. QED BY <1>2, <2>1, <2>3, <2>5, <2>6, <2>8, <2>9, ReturnsStep
  <1>7. CASE c.what = "decrypt"
    <2> DEFINE q == c.request
    <2>1. P!Returns(p, "ok", q.message, e) /\ UNCHANGED packages
      BY <1>7 DEF P!LogCall, P!Completes
    <2>2. /\ e.result = "success" /\ e.key = q.key
          /\ P!Authorize(c.user, "decrypt", c.level) /\ c.user.role = "admin"
          /\ q.wrapped \in DOMAIN packages /\ q.aad \in DOMAIN packages
          /\ q.message \in DOMAIN packages /\ P!DecryptHybrid(q)
      BY <1>1, <1>7 DEF GoodCall
    <2>3. q \in P!Request
      BY <1>1, <1>7 DEF P!Call
    <2>4. LET m == q.message IN
          /\ packages[m] = q.key
          /\ [q EXCEPT !.aad = m, !.sender = P!Sender(m)] = P!Whole(m)
          /\ P!MethodOf(m) = "ecc" => q.aad = m /\ q.sender = P!Sender(m)
          /\ P!MethodOf(q.aad) = P!MethodOf(m)
      BY <1>1, <2>2, <2>3, ExactRequest
    <2>5. PackagesKept /\ PackagesSound'
      BY <2>1 DEF PackagesKept, PipelineInv, PackagesSound
    <2>6. /\ reply'.what = "ok" /\ reply'.text = q.message /\ reply'.event = e
          /\ reply'.call = c
      BY <2>1 DEF P!Returns
    <2>7. CallsAccounted'
      BY <2>1, <2>2, <2>4, <2>6 DEF CallsAccounted, P!CallsAccounted
    <2>8. DecryptExact'
      <3>. HIDE DEF e
      <3>. QED BY <2>1, <2>2, <2>4, <2>6 DEF DecryptExact, P!DecryptExact, P!Whole,
                  P!Sender, P!MethodOf
    <2>9. q.message \in P!Package
      BY <2>3 DEF P!Request
    <2>. HIDE DEF n, e, c, q
    <2>. QED BY <1>2, <1>3, <2>1, <2>5, <2>7, <2>8, <2>9, ReturnsStep
  <1>. QED BY <1>4, <1>5, <1>6, <1>7

-----------------------------------------------------------------------------
(* The theorems about the agents *)

LEMMA StepPipeline ==
    ASSUME PipelineInv, [Next]_vars
    PROVE  PipelineInv'
  <1>1. ASSUME NEW use, NEW users, RotateKeys(use, users)
        PROVE  PipelineInv'
    <2>1. RegistrySound' /\ Kept(registry, registry')
      BY <1>1, RotateStep, PublishKeeps DEF PipelineInv
    <2>. QED BY <1>1, <2>1, RotateStep, OthersKeepCalls
  <1>2. CASE SignStep
    <2>1. UNCHANGED <<registry, calling>> /\ reply' = P!NoReply
      BY <1>2 DEF SignStep, P!Silent
    <2>2. RegistrySound' /\ Kept(registry, registry')
      BY <2>1 DEF PipelineInv, RegistrySound, Kept
    <2>. QED BY <2>1, <2>2, OthersKeepCalls
  <1>3. CASE CallStep
    <2>1. PICK p \in Agent : P!CallStep(p)
      BY <1>3 DEF CallStep
    <2>2. UNCHANGED registry
      BY <1>3 DEF CallStep
    <2>. QED BY <2>1, <2>2, ConstructStep, EncryptStep, DecryptStep, LogCallStep,
                CallNotLoggedStep, KilledStep DEF P!CallStep
  <1>4. CASE UNCHANGED vars
    <2>1. UNCHANGED <<registry, calling, reply>>
      BY <1>4 DEF vars
    <2>2. RegistrySound' /\ Kept(registry, registry')
      BY <2>1 DEF PipelineInv, RegistrySound, Kept
    <2>. QED BY <2>1, <2>2, OthersKeepCalls
  <1>. QED BY <1>1, <1>2, <1>3, <1>4 DEF Next

\* What the calls rest on: the packages, copies and calls under way are sound.
THEOREM PipelineInvariant == Spec => []PipelineInv
  <1>1. Init => PipelineInv
    BY InitPipeline
  <1>2. PipelineInv /\ [Next]_vars => PipelineInv'
    BY StepPipeline
  <1>. QED BY <1>1, <1>2, PTL DEF Spec

LEMMA SoundPackagesOpen == PipelineInv => PackagesOpen
  <1> SUFFICES ASSUME PipelineInv, NEW n \in DOMAIN packages
               PROVE  /\ P!DecryptHybrid(P!Whole(n))
                      /\ P!Decrypts(registry, packages[n])
                      /\ \A p \in P!Agent : provider[p] # <<>> =>
                            \/ provider[p][packages[n]] = "none"
                            \/ P!DecryptKey(p, P!Whole(n)) = {packages[n]}
    BY DEF PackagesOpen, P!PackagesOpen
  <1> DEFINE k == packages[n]
  <1>1. k \in KeyId /\ k[1][2] = "enc" /\ k[1][1] \in {"rsa", "ecc"}
    <2>1. k \in P!EncKeys
      BY DEF PipelineInv, P!PipelineTypeOK
    <2>. QED BY <2>1, SameKeys, KeyParts, ArtifactsAssumption DEF P!PipelineAssumption
  <1>2. P!DecryptHybrid(P!Whole(n))
    BY <1>1 DEF P!DecryptHybrid, P!Whole, P!UnwrapsWith, P!Approved, P!MethodOf
  <1>3. \A r : P!Decrypts(r, k) <=> Decrypts(r, k)
    BY DEF P!Decrypts, Decrypts
  <1>4. P!Decrypts(registry, k)
    <2>1. registry \in Registry /\ registry[k] \in {"active", Demoted(k[1])}
      BY <1>1 DEF PipelineInv, PackagesSound, RegistrySound
    <2>. QED BY <1>1, <1>3, <2>1, KeptIsGood
  <1>5. ASSUME NEW p \in P!Agent, provider[p] # <<>>, provider[p][k] # "none"
        PROVE  P!DecryptKey(p, P!Whole(n)) = {k}
    <2>1. provider[p] \in Registry /\ provider[p][k] \in {"active", Demoted(k[1])}
      BY <1>1, <1>5 DEF PipelineInv, ProvidersSound, GoodCopy, P!Agent, Agent
    <2>2. P!Decrypts(provider[p], k)
      BY <1>1, <1>3, <2>1, KeptIsGood
    <2>. QED BY <2>2 DEF P!DecryptKey, P!Whole
  <1>. QED BY <1>2, <1>4, <1>5

\* Every package opens under the keys there are, and in every pipeline that
\* has heard of its key: no rotation breaks one.
THEOREM PackagesStayOpen == Spec => []PackagesOpen
  BY PipelineInvariant, SoundPackagesOpen, PTL

\* A decryption that succeeds was allowed, and of one package.
THEOREM DecryptsExactly == Spec => []DecryptExact
  <1>1. PipelineInv => DecryptExact
    BY DEF PipelineInv
  <1>. QED BY <1>1, PipelineInvariant, PTL

\* What a call returns is what its event says.
THEOREM CallsStayAccounted == Spec => []CallsAccounted
  <1>1. PipelineInv => CallsAccounted
    BY DEF PipelineInv
  <1>. QED BY <1>1, PipelineInvariant, PTL

-----------------------------------------------------------------------------
(* Signatures.  What is said of one, here with the state it is said in.    *)

\* The key pair that made it is in registry r, and is the one its id stands
\* for, unless a window wrote the id.
KeySound(s, r) ==
    /\ s.kind \in {"v1", "v2"} =>
          s.by \in KeyId /\ s.by[1][2] = "sign" /\ r[s.by] # "none"
    /\ s.kind = "v2" =>
          /\ s.key \in S!WrittenId
          /\ s.maker # "gui" => S!Alias(s.key) = s.by
          /\ s.maker = "cli" => s.key = s.by

\* After e edits the document is d: what has not been edited is what was
\* signed.
TextSound(s, e, d) == s.kind \in {"v1", "v2"} /\ s.since = e => s.text = d

\* The chunks read are those of the document.
IsStartOf(t, d) == \A i \in DOMAIN t : t[i] = d[i]

\* NoFalseAlarm of any answer what that v is about, with registry r; and what
\* it is for one whose command is yet to record its event.
Truthful(what, v, r) ==
    v.genuine =>
        \/ what = "valid"
        \/ v.maker = "gui"
        \/ v.unread
        \/ /\ v.kind = "v1"
           /\ what = "no key id" \/ v.by \notin S!ActiveIds(r, v.by[1])
Plain(what, v) ==
    v.genuine => \/ what = "valid" \/ v.maker = "gui" \/ v.unread
                 \/ v.kind = "v1" /\ what = "no key id"

\* SignaturesAccounted of any answer.
Matches(what, e, by, maker) ==
    /\ what = "signed" <=> e.action = "SIGN" /\ e.result = "success"
    /\ what = "valid" <=> e.action = "VERIFY" /\ e.result = "success"
    /\ what \in {"invalid", "no key id"} <=> e.result = "denied"
    /\ what = "error" <=> e.result = "error"
    /\ e.result = "success" => S!Alias(e.key) = by \/ maker = "gui"
Accounted(a) ==
    a.who \in Cli /\ a.what # "interrupted" => Matches(a.what, a.entry, a.by, a.maker)

\* A process, wherever it is in its command.
GoodJob(p) ==
    LET s == job[p].sig IN
    /\ KeySound(s, registry) /\ s.since <= edits
    /\ at[p] \notin {"hash", "check"} => read[p] = <<>>
    /\ at[p] \in {"hash", "truncate", "write"} => s.kind = "v2"
    /\ at[p] \in {"truncate", "write", "key", "check"} => TextSound(s, edits, doc)
    /\ at[p] \in {"hash", "check"} /\ s.since = edits => IsStartOf(read[p], doc)
    /\ at[p] \in {"key", "check"} => s.kind \in {"v1", "v2"} /\ (p \in Cli => s.kind = "v2")
    /\ at[p] = "check" /\ s.kind = "v2" => job[p].with = S!Alias(s.key)
    /\ at[p] = "check" /\ s.kind = "v1" /\ job[p].with # s.by => registry[s.by] # "active"
    /\ at[p] = "log" => /\ p \in Cli
                        /\ Plain(job[p].answer.what, job[p].answer)
                        /\ Accounted(job[p].answer)

GoodFile(s, r, e, d) == KeySound(s, r) /\ TextSound(s, e, d) /\ s.since <= e

SignInv ==
    /\ RegistrySound /\ S!SignTypeOK
    /\ GoodFile(sig, registry, edits, doc)
    /\ \A p \in Signer : GoodJob(p)
    /\ Truthful(answer.what, answer, registry) /\ Accounted(answer)

LEMMA Clients == S!Client = Signer /\ Cli \cap Gui = {} /\ Signer = Cli \cup Gui
  BY ArtifactsAssumption DEF S!SignaturesAssumption, S!Client, Signer

LEMMA Bounds ==
    /\ Chunks \in Nat /\ MaxEdits \in Nat /\ MaxKeys \in Nat \ {0}
    /\ SignMethods \subseteq Methods
  BY ArtifactsAssumption DEF S!SignaturesAssumption

LEMMA NothingTyped ==
    /\ S!NoAnswer \in S!Answer /\ S!NoEntry \in S!Entry
    /\ S!NoSig \in S!SigFile /\ S!CutSig \in S!SigFile /\ S!NoJob \in S!Job
    /\ <<>> \in S!Text
  <1>1. <<>> \in S!Text
    <2>1. <<>> \in [1 .. 0 -> 0 .. MaxEdits]
      OBVIOUS
    <2>. QED BY <2>1, Bounds DEF S!Text
  <1>2. S!NoAnswer \in S!Answer /\ S!NoEntry \in S!Entry
    BY DEF S!NoAnswer, S!Answer, S!NoEntry, S!Entry, S!Answers, S!Maker, S!SigKind, S!NoProc
  <1>3. S!NoSig \in S!SigFile /\ S!CutSig \in S!SigFile
    BY <1>1, Bounds DEF S!NoSig, S!CutSig, S!SigFile, S!SigKind, S!Maker
  <1>4. S!NoJob \in S!Job
    BY <1>2, <1>3 DEF S!NoJob, S!Job
  <1>. QED BY <1>1, <1>2, <1>3, <1>4

LEMMA MadeSeq ==
    ASSUME NEW T, NEW n \in Nat, NEW t \in [1 .. n -> T]
    PROVE  t \in Seq(T) /\ Len(t) = n
  <1>1. t \in Seq(T)
    BY SeqDef
  <1>2. DOMAIN t = 1 .. n /\ DOMAIN t = 1 .. Len(t) /\ Len(t) \in Nat
    BY <1>1, LenProperties
  <1>. QED BY <1>1, <1>2

LEMMA TextParts ==
    ASSUME NEW t \in S!Text
    PROVE  /\ t \in Seq(0 .. MaxEdits) /\ Len(t) \in 0 .. Chunks
           /\ DOMAIN t = 1 .. Len(t)
           /\ t \in [1 .. Len(t) -> 0 .. MaxEdits]
  <1>1. PICK n \in 0 .. Chunks : t \in [1 .. n -> 0 .. MaxEdits]
    BY DEF S!Text
  <1>2. n \in Nat
    BY <1>1, Bounds
  <1>3. t \in Seq(0 .. MaxEdits) /\ Len(t) = n
    BY <1>1, <1>2, MadeSeq
  <1>. QED BY <1>1, <1>2, <1>3

LEMMA TextMade ==
    ASSUME NEW n \in 0 .. Chunks, NEW t \in [1 .. n -> 0 .. MaxEdits]
    PROVE  t \in S!Text
  BY DEF S!Text

\* Who has read the whole document has read the document.
LEMMA WholeText ==
    ASSUME NEW t \in S!Text, Len(t) = Chunks,
           NEW d \in [1 .. Chunks -> 0 .. MaxEdits], IsStartOf(t, d)
    PROVE  t = d
  <1>1. t \in [1 .. Chunks -> 0 .. MaxEdits] /\ DOMAIN t = 1 .. Chunks
    BY TextParts
  <1>2. t = [i \in 1 .. Chunks |-> t[i]] /\ d = [i \in 1 .. Chunks |-> d[i]]
    BY <1>1
  <1>3. \A i \in 1 .. Chunks : t[i] = d[i]
    BY <1>1 DEF IsStartOf
  <1>4. [i \in 1 .. Chunks |-> t[i]] = [i \in 1 .. Chunks |-> d[i]]
    BY <1>3
  <1>. QED BY <1>2, <1>4

LEMMA TextAppend ==
    ASSUME NEW t \in S!Text, Len(t) < Chunks, NEW c \in 0 .. MaxEdits
    PROVE  /\ Append(t, c) \in S!Text
           /\ DOMAIN Append(t, c) = DOMAIN t \cup {Len(t) + 1}
           /\ \A i \in DOMAIN t : Append(t, c)[i] = t[i]
           /\ Append(t, c)[Len(t) + 1] = c
  <1>1. t \in Seq(0 .. MaxEdits) /\ Len(t) \in 0 .. Chunks /\ DOMAIN t = 1 .. Len(t)
    BY TextParts
  <1> DEFINE a == Append(t, c)
  <1>2. /\ a \in Seq(0 .. MaxEdits) /\ Len(a) = Len(t) + 1
        /\ \A i \in 1 .. Len(t) : a[i] = t[i]
        /\ a[Len(t) + 1] = c
    BY <1>1, AppendProperties
  <1>3. a \in [1 .. Len(t) + 1 -> 0 .. MaxEdits]
    BY <1>2, LenProperties
  <1>4. Len(t) + 1 \in 0 .. Chunks
    BY <1>1, Bounds
  <1>5. a \in S!Text
    BY <1>3, <1>4, TextMade
  <1>6. 1 .. (Len(t) + 1) = (1 .. Len(t)) \cup {Len(t) + 1}
    BY <1>1
  <1>. QED BY <1>1, <1>2, <1>3, <1>5, <1>6

\* What everybody else's steps leave of what a process relies on: no key goes,
\* and an edit is known by the number of edits.
SettingKept ==
    /\ Kept(registry, registry')
    /\ edits \in Nat /\ edits' \in Nat
    /\ (edits' = edits /\ doc' = doc) \/ edits' > edits

LEMMA FileKept ==
    ASSUME NEW s, s.since \in Nat, SettingKept, GoodFile(s, registry, edits, doc)
    PROVE  GoodFile(s, registry', edits', doc')
  <1>1. KeySound(s, registry')
    BY DEF GoodFile, KeySound, SettingKept, Kept
  <1>2. TextSound(s, edits', doc') /\ s.since <= edits'
    BY DEF GoodFile, TextSound, SettingKept
  <1>. QED BY <1>1, <1>2 DEF GoodFile

LEMMA JobKept ==
    ASSUME S!SignTypeOK, NEW p \in Signer, GoodJob(p), SettingKept,
           at'[p] = at[p], job'[p] = job[p], read'[p] = read[p]
    PROVE  GoodJob(p)'
  <1> DEFINE s == job[p].sig
  <1>1. s.since \in Nat
    BY Clients DEF S!SignTypeOK, S!Job, S!SigFile
  <1>2. KeySound(s, registry') /\ s.since <= edits'
    BY <1>1 DEF GoodJob, KeySound, SettingKept, Kept
  <1>5. s.kind = "v1" /\ registry[s.by] # "active" => registry'[s.by] # "active"
    BY DEF GoodJob, KeySound, SettingKept, Kept
  <1>3. at[p] \in {"truncate", "write", "key", "check"} => TextSound(s, edits', doc')
    BY <1>1 DEF GoodJob, TextSound, SettingKept
  <1>4. at[p] \in {"hash", "check"} /\ s.since = edits' => IsStartOf(read[p], doc')
    BY <1>1 DEF GoodJob, IsStartOf, SettingKept
  <1>. QED BY <1>2, <1>3, <1>4, <1>5 DEF GoodJob

\* A step of process p, which may write the .sig file.
LEMMA SignerStep ==
    ASSUME SignInv, NEW p \in Signer, UNCHANGED <<registry, doc, edits>>,
           NEW l \in S!Locations, NEW j \in S!Job, NEW t \in S!Text,
           at' = [at EXCEPT ![p] = l], job' = [job EXCEPT ![p] = j],
           read' = [read EXCEPT ![p] = t],
           sig' \in S!SigFile, GoodFile(sig', registry, edits, doc),
           answer' \in S!Answer, Truthful(answer'.what, answer', registry), Accounted(answer'),
           at'[p] = l /\ job'[p] = j /\ read'[p] = t => GoodJob(p)'
    PROVE  SignInv'
  <1>1. at'[p] = l /\ job'[p] = j /\ read'[p] = t
    BY Clients DEF SignInv, S!SignTypeOK
  <1>2. S!SignTypeOK'
    BY Clients DEF SignInv, S!SignTypeOK
  <1>3. SettingKept
    BY Bounds DEF SettingKept, Kept, SignInv, S!SignTypeOK
  <1>4. ASSUME NEW o \in Signer
        PROVE  GoodJob(o)'
    <2>1. CASE o = p
      BY <1>1, <2>1
    <2>2. CASE o # p
      <3>1. at'[o] = at[o] /\ job'[o] = job[o] /\ read'[o] = read[o]
        BY <2>2, Clients DEF SignInv, S!SignTypeOK
      <3>. QED BY <1>3, <3>1, JobKept DEF SignInv
    <2>. QED BY <2>1, <2>2
  <1>5. RegistrySound'
    BY DEF SignInv, RegistrySound
  <1>. QED BY <1>2, <1>4, <1>5 DEF SignInv

\* A command ends with answer a.
LEMMA EndsStep ==
    ASSUME SignInv, NEW p \in Signer, UNCHANGED <<registry, doc, edits>>,
           NEW a \in S!Answer, Truthful(a.what, a, registry), Accounted(a), S!Ends(p, a),
           sig' \in S!SigFile, GoodFile(sig', registry, edits, doc)
    PROVE  SignInv'
  <1>1. /\ at' = [at EXCEPT ![p] = "idle"] /\ job' = [job EXCEPT ![p] = S!NoJob]
        /\ read' = [read EXCEPT ![p] = <<>>] /\ answer' = a
    BY DEF S!Ends
  <1>2. "idle" \in S!Locations
    BY DEF S!Locations
  <1>3. ASSUME at'[p] = "idle", job'[p] = S!NoJob, read'[p] = <<>>
        PROVE  GoodJob(p)'
    <2>1. 0 <= edits
      BY Bounds DEF SignInv, S!SignTypeOK
    <2>. QED BY <1>3, <2>1 DEF GoodJob, S!NoJob, S!NoSig, KeySound
  <1>. HIDE DEF SignInv
  <1>. QED BY <1>1, <1>2, <1>3, NothingTyped, SignerStep

\* What signature an answer is about.
LEMMA OfParts ==
    ASSUME NEW s \in S!SigFile
    PROVE  LET v == S!Of(s) IN
           /\ v \in S!Answer /\ v.by = s.by /\ v.maker = s.maker /\ v.kind = s.kind
           /\ ~ v.genuine
  <1>. DEFINE v == S!Of(s)
  <1>1. v \in S!Answer
    BY NothingTyped DEF S!Of, S!Answer, S!SigFile
  <1>2. v.by = s.by /\ v.maker = s.maker /\ v.kind = s.kind
    BY DEF S!Of, S!NoAnswer
  <1>3. v.genuine = S!NoAnswer.genuine
    BY DEF S!Of, S!NoAnswer
  <1>4. ~ S!NoAnswer.genuine
    BY DEF S!NoAnswer
  <1>. QED BY <1>1, <1>2, <1>3, <1>4

LEMMA VerdictParts ==
    ASSUME NEW s \in S!SigFile
    PROVE  LET v == S!Verdict(s)
               u == [v EXCEPT !.unread = TRUE]
           IN
           /\ v \in S!Answer /\ v.by = s.by /\ v.maker = s.maker /\ v.kind = s.kind
           /\ v.genuine => S!Genuine(s)
           /\ u \in S!Answer /\ u.by = s.by /\ u.maker = s.maker /\ u.unread
  <1>. DEFINE o == S!Of(s)
             v == [o EXCEPT !.genuine = S!Genuine(s)]
             u == [v EXCEPT !.unread = TRUE]
  <1>0. S!Verdict(s) = v
    BY DEF S!Verdict
  <1>1. o \in S!Answer /\ o.by = s.by /\ o.maker = s.maker /\ o.kind = s.kind
    BY OfParts
  <1>. HIDE DEF o
  <1>2. S!Genuine(s) \in BOOLEAN
    BY DEF S!Genuine
  <1>3. v \in S!Answer
    BY <1>1, <1>2 DEF S!Answer
  <1>4. v.by = s.by /\ v.maker = s.maker /\ v.kind = s.kind
    BY <1>1 DEF S!Answer
  <1>5. v.genuine = S!Genuine(s)
    BY <1>1 DEF S!Answer
  <1>. HIDE DEF v
  <1>6. u \in S!Answer
    BY <1>3 DEF S!Answer
  <1>7. u.by = s.by /\ u.maker = s.maker
    BY <1>3, <1>4 DEF S!Answer
  <1>8. u.unread = TRUE
    BY <1>3 DEF S!Answer
  <1>. HIDE DEF u
  <1>. QED BY <1>0, <1>3, <1>4, <1>5, <1>6, <1>7, <1>8 DEF u

\* It is to end with an answer that its event, if it has one, matches.
LEMMA ConcludesStep ==
    ASSUME SignInv, NEW p \in Signer, UNCHANGED <<registry, doc, edits>>,
           NEW what \in S!Answers, NEW v \in S!Answer,
           NEW e \in S!Entry, S!Concludes(p, what, v, e),
           Truthful(what, v, registry), p \in Cli => Plain(what, v),
           p \in Cli => Matches(what, e, v.by, v.maker),
           sig' \in S!SigFile, GoodFile(sig', registry, edits, doc)
    PROVE  SignInv'
  <1> DEFINE x == IF p \in Gui THEN S!NoEntry ELSE e
             a == [v EXCEPT !.who = p, !.what = what, !.entry = x]
  <1>1. a \in S!Answer
    BY NothingTyped, Clients DEF S!Answer
  <1>2. /\ a.who = p /\ a.what = what /\ a.entry = x /\ a.by = v.by
        /\ a.maker = v.maker /\ a.kind = v.kind
    BY DEF S!Answer
  <1>0. a.genuine = v.genuine /\ a.unread = v.unread
    BY DEF S!Answer
  <1>8. /\ Truthful(a.what, a, registry)
        /\ p \in Cli => Plain(a.what, a)
    <2>. HIDE DEF a
    <2>. QED BY <1>0, <1>2, Zenon DEF Truthful, Plain
  <1>3. Accounted(a)
    <2>1. p \in Cli => x = e
      BY Clients
    <2>. HIDE DEF a, x
    <2>. QED BY <1>2, <2>1 DEF Accounted
  <1>4. CASE p \in Gui
    <2>1. S!Ends(p, a)
      BY <1>4 DEF S!Concludes
    <2>. HIDE DEF a
    <2>. QED BY <1>1, <1>8, <1>3, <2>1, EndsStep
  <1>5. CASE p \notin Gui
    <2> DEFINE j == [S!NoJob EXCEPT !.answer = a]
    <2>1. /\ at' = [at EXCEPT ![p] = "log"] /\ job' = [job EXCEPT ![p] = j]
          /\ read' = [read EXCEPT ![p] = <<>>] /\ answer' = S!NoAnswer
      BY <1>5 DEF S!Concludes, S!Silent
    <2>2. j = [sig |-> S!NoSig, with |-> NoKey, answer |-> a]
      <3>. HIDE DEF a
      <3>. QED BY DEF S!NoJob
    <2>3. j \in S!Job
      <3>. HIDE DEF a
      <3>. QED BY <1>1, <2>2, NothingTyped DEF S!Job
    <2>4. "log" \in S!Locations /\ p \in Cli
      BY <1>5, Clients DEF S!Locations
    <2>5. Truthful(S!NoAnswer.what, S!NoAnswer, registry) /\ Accounted(S!NoAnswer)
      BY DEF Truthful, S!NoAnswer, Accounted, Matches, S!NoEntry
    <2>6. ASSUME at'[p] = "log", job'[p] = j, read'[p] = <<>>
          PROVE  GoodJob(p)'
      <3>1. 0 <= edits
        BY Bounds DEF SignInv, S!SignTypeOK
      <3>2. j.sig = S!NoSig /\ j.answer = a
        BY <2>2
      <3>. HIDE DEF j, a
      <3>. QED BY <1>8, <1>3, <2>4, <2>6, <3>1, <3>2 DEF GoodJob, S!NoSig, KeySound
    <2>. HIDE DEF j, a
    <2>. QED BY <2>1, <2>3, <2>4, <2>5, <2>6, NothingTyped, SignerStep
  <1>. QED BY <1>4, <1>5

-----------------------------------------------------------------------------
(* The steps of sign and verify *)

\* What is known of a process that is to take a step.
LEMMA SignerTyped ==
    ASSUME SignInv, NEW p \in Signer
    PROVE  /\ at[p] \in S!Locations /\ job[p] \in S!Job /\ read[p] \in S!Text
           /\ job[p].sig \in S!SigFile /\ job[p].with \in KeyId \cup {NoKey}
           /\ job[p].answer \in S!Answer
           /\ edits \in 0 .. MaxEdits /\ sig \in S!SigFile
           /\ GoodFile(sig, registry, edits, doc) /\ GoodJob(p)
  BY Clients, SameKeys DEF SignInv, S!SignTypeOK, S!Job

\* A command that answers nothing of a signature.
LEMMA FailsStep ==
    ASSUME SignInv, NEW p \in Signer, UNCHANGED <<registry, doc, edits, sig>>,
           NEW what \in {"refused", "not logged", "interrupted"},
           NEW e \in S!Entry, what = "interrupted" \/ e = S!NoEntry,
           S!Ends(p, [S!NoAnswer EXCEPT !.who = p, !.what = what, !.entry = e])
    PROVE  SignInv'
  <1> DEFINE a == [S!NoAnswer EXCEPT !.who = p, !.what = what, !.entry = e]
  <1>1. a \in S!Answer
    BY NothingTyped, Clients DEF S!Answer, S!Answers
  <1>2. a.what = what /\ a.entry = e
    BY DEF S!NoAnswer
  <1>3. a.genuine = S!NoAnswer.genuine
    BY DEF S!NoAnswer
  <1>4. ~ S!NoAnswer.genuine
    BY DEF S!NoAnswer
  <1>. HIDE DEF a
  <1>5. Truthful(a.what, a, registry)
    BY <1>3, <1>4, Zenon DEF Truthful
  <1>6. Accounted(a)
    <2>1. CASE what = "interrupted"
      BY <1>2, <2>1 DEF Accounted
    <2>2. CASE what # "interrupted"
      <3>1. a.entry.action = "none" /\ a.entry.result = "none"
        <4>1. a.entry = S!NoEntry
          BY <1>2, <2>2
        <4>2. S!NoEntry.action = "none" /\ S!NoEntry.result = "none"
          BY DEF S!NoEntry
        <4>. QED BY <4>1, <4>2
      <3>. QED BY <1>2, <3>1 DEF Accounted, Matches
    <2>. QED BY <2>1, <2>2
  <1>7. S!Ends(p, a)
    BY DEF a
  <1>. QED BY <1>1, <1>5, <1>6, <1>7, EndsStep, SignerTyped

LEMMA RefuseStep ==
    ASSUME SignInv, NEW p \in Signer, UNCHANGED registry,
           S!Refuse(p) \/ S!SignatureNotLogged(p) \/ S!Interrupted(p)
    PROVE  SignInv'
  <1>1. UNCHANGED <<doc, edits, sig>>
    BY DEF S!Refuse, S!SignatureNotLogged, S!Interrupted, S!document
  <1>2. ASSUME NEW what \in {"refused", "not logged"}, S!Fails(p, what)
        PROVE  SignInv'
    <2> DEFINE o == [S!NoAnswer EXCEPT !.who = p, !.what = what]
    <2>1. o = [o EXCEPT !.entry = S!NoEntry]
      <3>1. o \in S!Answer /\ o.entry = S!NoEntry
        BY NothingTyped, Clients DEF S!Answer, S!Answers, S!NoAnswer
      <3>2. DOMAIN o = DOMAIN [o EXCEPT !.entry = S!NoEntry]
        OBVIOUS
      <3>. HIDE DEF o
      <3>. QED BY <3>1 DEF S!Answer
    <2>. QED BY <1>1, <1>2, <2>1, NothingTyped, FailsStep DEF S!Fails
  <1>3. CASE S!Interrupted(p)
    <2>1. PICK e \in {S!NoEntry, job[p].answer.entry} :
             S!Ends(p, [S!NoAnswer EXCEPT !.who = p, !.what = "interrupted", !.entry = e])
      BY <1>3 DEF S!Interrupted
    <2>2. e \in S!Entry
      BY NothingTyped, SignerTyped DEF S!Answer
    <2>. QED BY <1>1, <2>1, <2>2, FailsStep
  <1>. QED BY <1>2, <1>3 DEF S!Refuse, S!SignatureNotLogged

LEMMA LogSignatureStep ==
    ASSUME SignInv, NEW p \in Signer, UNCHANGED registry, S!LogSignature(p)
    PROVE  SignInv'
  <1>1. /\ UNCHANGED <<doc, edits, sig>> /\ S!Ends(p, job[p].answer)
        /\ Plain(job[p].answer.what, job[p].answer) /\ Accounted(job[p].answer)
    BY SignerTyped DEF S!LogSignature, S!document, GoodJob
  <1>2. Truthful(job[p].answer.what, job[p].answer, registry)
    BY <1>1, Zenon DEF Truthful, Plain
  <1>. QED BY <1>1, <1>2, SignerTyped, EndsStep

\* Ids as they are written.
LEMMA WrittenIds ==
    ASSUME NEW p \in Signer, NEW m \in SignMethods, NEW k \in S!SigningKeys(m)
    PROVE  /\ k \in KeyId /\ k[1] = <<m, "sign">> /\ registry[k] = "active"
           /\ S!IdWritten(p, k) \in S!WrittenId
           /\ p \in Cli => S!IdWritten(p, k) = k /\ S!Alias(k) = k
  <1>1. k \in KeyId /\ k[1] = <<m, "sign">> /\ registry[k] = "active"
    BY SameKeys DEF S!SigningKeys, S!ActiveIds
  <1>2. k = <<k[1], k[2]>> /\ k[2] \in 1 .. MaxKeys /\ k[1] \in S!SignType
    BY <1>1, Bounds DEF KeyId, S!SignType
  <1>3. k[2] \in 0 .. MaxKeys /\ k[2] # 0 /\ 0 \in 0 .. MaxKeys
    BY <1>2, Bounds
  <1>4. <<k[1], 0>> \in S!WrittenId /\ k \in S!WrittenId
    BY <1>2, <1>3 DEF S!WrittenId
  <1>. QED BY <1>1, <1>3, <1>4, Clients DEF S!IdWritten, S!Alias

LEMMA StartSignStep ==
    ASSUME SignInv, NEW p \in Signer, UNCHANGED registry, S!StartSign(p)
    PROVE  SignInv'
  <1>0. PICK m \in SignMethods : \E k \in S!SigningKeys(m) :
            job' = [job EXCEPT ![p] = [S!NoJob EXCEPT !.with = k, !.sig =
              [kind |-> "v2", key |-> S!IdWritten(p, k), by |-> k, text |-> <<>>,
               since |-> edits, maker |-> IF p \in Gui THEN "gui" ELSE "cli"]]]
    BY DEF S!StartSign
  <1>1. PICK k \in S!SigningKeys(m) :
            job' = [job EXCEPT ![p] = [S!NoJob EXCEPT !.with = k, !.sig =
              [kind |-> "v2", key |-> S!IdWritten(p, k), by |-> k, text |-> <<>>,
               since |-> edits, maker |-> IF p \in Gui THEN "gui" ELSE "cli"]]]
    BY <1>0
  <1> DEFINE s == [kind |-> "v2", key |-> S!IdWritten(p, k), by |-> k, text |-> <<>>,
                   since |-> edits, maker |-> IF p \in Gui THEN "gui" ELSE "cli"]
             j == [sig |-> s, with |-> k, answer |-> S!NoAnswer]
  <1>2. /\ k \in KeyId /\ k[1] = <<m, "sign">> /\ registry[k] = "active"
        /\ S!IdWritten(p, k) \in S!WrittenId
        /\ p \in Cli => S!IdWritten(p, k) = k /\ S!Alias(k) = k
    BY WrittenIds
  <1>3. s \in S!SigFile
    BY <1>2, SignerTyped, NothingTyped, SameKeys DEF S!SigFile, S!SigKind, S!Maker
  <1>4. j \in S!Job
    <2>. HIDE DEF s
    <2>. QED BY <1>2, <1>3, NothingTyped, SameKeys DEF S!Job
  <1>5. job' = [job EXCEPT ![p] = j]
    <2>1. j = [S!NoJob EXCEPT !.with = k, !.sig = s]
      <3>. HIDE DEF s
      <3>1. [S!NoJob EXCEPT !.with = k, !.sig = s]
               = [i \in DOMAIN S!NoJob |-> IF i = "sig" THEN s
                                           ELSE IF i = "with" THEN k ELSE S!NoJob[i]]
        OBVIOUS
      <3>. QED BY <3>1 DEF S!NoJob
    <2>. QED BY <1>1, <2>1
  <1>6. at' = [at EXCEPT ![p] = "hash"] /\ read' = [read EXCEPT ![p] = read[p]]
        /\ UNCHANGED <<doc, edits, sig>> /\ answer' = S!NoAnswer /\ at[p] = "idle"
    BY Clients DEF S!StartSign, S!Silent, S!Begin, SignInv, S!SignTypeOK, S!document
  <1>7. read[p] = <<>>
    BY <1>6, SignerTyped DEF GoodJob
  <1>8. KeySound(s, registry) /\ s.kind = "v2" /\ s.since = edits
    <2>1. s.maker = "gui" \/ p \in Cli
      BY Clients
    <2>2. s.kind = "v2" /\ s.key = S!IdWritten(p, k) /\ s.by = k /\ s.since = edits
      OBVIOUS
    <2>3. s.maker = "cli" => p \in Cli
      BY Clients
    <2>. HIDE DEF s
    <2>. QED BY <1>2, <2>1, <2>2, <2>3 DEF KeySound
  <1>9. ASSUME at'[p] = "hash", job'[p] = j, read'[p] = read[p]
        PROVE  GoodJob(p)'
    <2>1. j.sig = s /\ edits <= edits
      BY Bounds, SignerTyped
    <2>. HIDE DEF s, j
    <2>. QED BY <1>6, <1>7, <1>8, <1>9, <2>1 DEF GoodJob, IsStartOf
  <1>10. Truthful(S!NoAnswer.what, S!NoAnswer, registry) /\ Accounted(S!NoAnswer)
    BY DEF Truthful, S!NoAnswer, Accounted, Matches, S!NoEntry
  <1>11. "hash" \in S!Locations
    BY DEF S!Locations
  <1>. HIDE DEF s, j
  <1>. QED BY <1>4, <1>5, <1>6, <1>9, <1>10, <1>11, SignerStep, SignerTyped, NothingTyped

LEMMA NoSigningKeyStep ==
    ASSUME SignInv, NEW p \in Signer, UNCHANGED registry, S!NoSigningKey(p)
    PROVE  SignInv'
  <1> DEFINE e == S!Event("SIGN", "error", NoKey)
  <1>1. e \in S!Entry /\ Matches("error", e, S!NoAnswer.by, S!NoAnswer.maker)
    BY DEF S!Event, S!Entry, Matches
  <1>4. Truthful("error", S!NoAnswer, registry) /\ Plain("error", S!NoAnswer)
    BY DEF Truthful, Plain, S!NoAnswer
  <1>2. S!Concludes(p, "error", S!NoAnswer, e) /\ UNCHANGED <<doc, edits, sig>>
    BY DEF S!NoSigningKey, S!document
  <1>3. "error" \in S!Answers
    BY DEF S!Answers
  <1>. HIDE DEF e
  <1>. QED BY <1>1, <1>2, <1>3, <1>4, ConcludesStep, NothingTyped, SignerTyped

\* A step of p that leaves its job and the .sig file as they are.
LEMMA Unchanging ==
    ASSUME SignInv, NEW p \in Signer
    PROVE  /\ job = [job EXCEPT ![p] = job[p]] /\ read = [read EXCEPT ![p] = read[p]]
           /\ Truthful(S!NoAnswer.what, S!NoAnswer, registry) /\ Accounted(S!NoAnswer)
  <1>1. Truthful(S!NoAnswer.what, S!NoAnswer, registry) /\ Accounted(S!NoAnswer)
    BY DEF Truthful, S!NoAnswer, Accounted, Matches, S!NoEntry
  <1>. QED BY <1>1, Clients DEF SignInv, S!SignTypeOK

LEMMA HashChunkStep ==
    ASSUME SignInv, NEW p \in Signer, UNCHANGED registry, S!HashChunk(p)
    PROVE  SignInv'
  <1> DEFINE t == Append(read[p], doc[Len(read[p]) + 1])
  <1>1. /\ at[p] \in {"hash", "check"} /\ Len(read[p]) < Chunks
        /\ read' = [read EXCEPT ![p] = t] /\ answer' = S!NoAnswer
        /\ UNCHANGED <<doc, edits, sig, at, job>>
    BY DEF S!HashChunk, S!Silent, S!document
  <1>2. at' = [at EXCEPT ![p] = at[p]]
    BY <1>1, Clients DEF SignInv, S!SignTypeOK
  <1>3. read[p] \in S!Text /\ Len(read[p]) \in Nat
    BY SignerTyped, TextParts
  <1>4. doc[Len(read[p]) + 1] \in 0 .. MaxEdits
    BY <1>1, <1>3, Bounds DEF SignInv, S!SignTypeOK
  <1>5. /\ t \in S!Text /\ DOMAIN t = DOMAIN read[p] \cup {Len(read[p]) + 1}
        /\ \A i \in DOMAIN read[p] : t[i] = read[p][i]
        /\ t[Len(read[p]) + 1] = doc[Len(read[p]) + 1]
    BY <1>1, <1>3, <1>4, TextAppend
  <1>. HIDE DEF t
  <1>6. ASSUME at'[p] = at[p], job'[p] = job[p], read'[p] = t
        PROVE  GoodJob(p)'
    <2>1. IsStartOf(read[p], doc) => IsStartOf(t, doc)
      BY <1>5 DEF IsStartOf
    <2>2. GoodJob(p)
      BY SignerTyped
    <2>. QED BY <1>1, <1>6, <2>1, <2>2 DEF GoodJob
  <1>. QED BY <1>1, <1>2, <1>5, <1>6, Unchanging, SignerTyped, NothingTyped, SignerStep

LEMMA SignDigestStep ==
    ASSUME SignInv, NEW p \in Signer, UNCHANGED registry, S!SignDigest(p)
    PROVE  SignInv'
  <1> DEFINE o == job[p].sig
             s == [o EXCEPT !.text = read[p]]
             j == [job[p] EXCEPT !.sig = s]
  <1>1. /\ at[p] = "hash" /\ Len(read[p]) = Chunks
        /\ read' = [read EXCEPT ![p] = <<>>] /\ answer' = S!NoAnswer
        /\ at' = [at EXCEPT ![p] = "truncate"] /\ job' = [job EXCEPT ![p] = j]
        /\ UNCHANGED <<doc, edits, sig>>
    BY DEF S!SignDigest, S!Silent, S!document
  <1>2. o \in S!SigFile /\ read[p] \in S!Text /\ job[p] \in S!Job
    BY SignerTyped
  <1>3. /\ s \in S!SigFile
        /\ s.kind = o.kind /\ s.key = o.key /\ s.by = o.by /\ s.since = o.since
        /\ s.maker = o.maker /\ s.text = read[p]
    BY <1>2 DEF S!SigFile
  <1>4. j \in S!Job /\ j.sig = s
    <2>. HIDE DEF s
    <2>. QED BY <1>2, <1>3 DEF S!Job
  <1>5. s.since = edits => read[p] = doc
    <2>1. s.since = edits => IsStartOf(read[p], doc)
      BY <1>1, <1>3, SignerTyped DEF GoodJob
    <2>2. doc \in [1 .. Chunks -> 0 .. MaxEdits]
      BY DEF SignInv, S!SignTypeOK
    <2>. HIDE DEF o, s, j
    <2>. QED BY <1>1, <1>2, <2>1, <2>2, WholeText
  <1>6. "truncate" \in S!Locations
    BY DEF S!Locations
  <1>. HIDE DEF s, j
  <1>7. ASSUME at'[p] = "truncate", job'[p] = j, read'[p] = <<>>
        PROVE  GoodJob(p)'
    <2>1. KeySound(s, registry) /\ s.since <= edits /\ s.kind = "v2"
      BY <1>1, <1>3, SignerTyped DEF GoodJob, KeySound
    <2>2. TextSound(s, edits, doc)
      BY <1>3, <1>5 DEF TextSound
    <2>. QED BY <1>1, <1>4, <1>7, <2>1, <2>2 DEF GoodJob
  <1>. QED BY <1>1, <1>4, <1>6, <1>7, Unchanging, SignerTyped, NothingTyped, SignerStep

LEMMA TruncateSigStep ==
    ASSUME SignInv, NEW p \in Signer, UNCHANGED registry, S!TruncateSig(p)
    PROVE  SignInv'
  <1>1. /\ at[p] = "truncate" /\ sig' = S!CutSig /\ at' = [at EXCEPT ![p] = "write"]
        /\ answer' = S!NoAnswer /\ UNCHANGED <<doc, edits, job, read>>
    BY DEF S!TruncateSig, S!Silent, S!document
  <1>2. GoodFile(S!CutSig, registry, edits, doc)
    <2>1. S!CutSig.kind = "cut" /\ S!CutSig.since = 0 /\ 0 <= edits
      BY SignerTyped, Bounds DEF S!CutSig, S!NoSig
    <2>. QED BY <2>1 DEF GoodFile, KeySound, TextSound
  <1>3. ASSUME at'[p] = "write", job'[p] = job[p], read'[p] = read[p]
        PROVE  GoodJob(p)'
    BY <1>1, <1>3, SignerTyped DEF GoodJob
  <1>4. "write" \in S!Locations
    BY DEF S!Locations
  <1>5. job' = [job EXCEPT ![p] = job[p]] /\ read' = [read EXCEPT ![p] = read[p]]
    <2>1. job = [job EXCEPT ![p] = job[p]] /\ read = [read EXCEPT ![p] = read[p]]
      BY Unchanging
    <2>2. job' = job /\ read' = read
      BY <1>1
    <2>. QED BY <2>1, <2>2
  <1>6. /\ UNCHANGED <<registry, doc, edits>> /\ sig' \in S!SigFile
        /\ GoodFile(sig', registry, edits, doc)
        /\ answer' \in S!Answer /\ Truthful(answer'.what, answer', registry) /\ Accounted(answer')
    BY <1>1, <1>2, Unchanging, NothingTyped
  <1>7. job[p] \in S!Job /\ read[p] \in S!Text
    BY SignerTyped
  <1>8. at' = [at EXCEPT ![p] = "write"]
    BY <1>1
  <1>. QED BY <1>3, <1>4, <1>5, <1>6, <1>7, <1>8, SignerStep

\* An answer what, under action a and result r of an event.
Fits(what, a, r) ==
    \/ what = "error" /\ a \in {"SIGN", "VERIFY"} /\ r = "error"
    \/ what \in {"invalid", "no key id"} /\ a = "VERIFY" /\ r = "denied"
    \/ what = "signed" /\ a = "SIGN" /\ r = "success"
    \/ what = "valid" /\ a = "VERIFY" /\ r = "success"

LEMMA Fitting ==
    /\ Fits("error", "SIGN", "error") /\ Fits("error", "VERIFY", "error")
    /\ Fits("invalid", "VERIFY", "denied") /\ Fits("no key id", "VERIFY", "denied")
    /\ Fits("signed", "SIGN", "success") /\ Fits("valid", "VERIFY", "success")
  BY DEF Fits

LEMMA EventStep ==
    ASSUME SignInv, NEW p \in Signer, UNCHANGED <<registry, doc, edits>>,
           NEW what, NEW a, NEW r, NEW k \in S!WrittenId \cup {NoKey},
           NEW v \in S!Answer, Fits(what, a, r),
           r = "success" /\ p \in Cli => S!Alias(k) = v.by \/ v.maker = "gui",
           S!Concludes(p, what, v, S!Event(a, r, k)),
           Truthful(what, v, registry), p \in Cli => Plain(what, v),
           sig' \in S!SigFile, GoodFile(sig', registry, edits, doc)
    PROVE  SignInv'
  <1> DEFINE e == S!Event(a, r, k)
  <1>1. e = [action |-> a, result |-> r, key |-> k]
    BY DEF S!Event
  <1>2. e.action = a /\ e.result = r /\ e.key = k
    BY <1>1
  <1>3. /\ a \in {"SIGN", "VERIFY"} /\ r \in {"success", "denied", "error"}
        /\ what \in S!Answers
    BY DEF Fits, S!Answers
  <1>4. e \in S!Entry
    BY <1>1, <1>3 DEF S!Entry
  <1>5. S!Concludes(p, what, v, e)
    OBVIOUS
  <1>. HIDE DEF e
  <1>6. p \in Cli => Matches(what, e, v.by, v.maker)
    BY <1>2 DEF Fits, Matches
  <1>. QED BY <1>3, <1>4, <1>5, <1>6, ConcludesStep

LEMMA HashFailsStep ==
    ASSUME SignInv, NEW p \in Signer, UNCHANGED registry, S!HashFails(p)
    PROVE  SignInv'
  <1> DEFINE s == job[p].sig
  <1>1. UNCHANGED <<doc, edits, sig>> /\ s \in S!SigFile /\ s.key \in S!WrittenId \cup {NoKey}
    BY SignerTyped DEF S!HashFails, S!document, S!SigFile
  <1> DEFINE u == [S!Verdict(s) EXCEPT !.unread = TRUE]
  <1>2. CASE S!Concludes(p, "error", S!NoAnswer, S!Event("SIGN", "error", s.key))
    <2>. HIDE DEF s
    <2>1. Truthful("error", S!NoAnswer, registry) /\ Plain("error", S!NoAnswer)
      BY DEF Truthful, Plain, S!NoAnswer
    <2>. QED BY <1>1, <1>2, <2>1, NothingTyped, SignerTyped, EventStep, Fitting
  <1>3. CASE S!Concludes(p, "invalid", u, S!Event("VERIFY", "denied", s.key))
    <2>. HIDE DEF s
    <2>1. u \in S!Answer /\ u.unread
      BY <1>1, VerdictParts
    <2>. HIDE DEF u
    <2>2. Truthful("invalid", u, registry) /\ Plain("invalid", u)
      BY <2>1, Zenon DEF Truthful, Plain
    <2>. QED BY <1>1, <1>3, <2>1, <2>2, SignerTyped, EventStep, Fitting
  <1>. QED BY <1>2, <1>3 DEF S!HashFails, s

LEMMA WriteSigStep ==
    ASSUME SignInv, NEW p \in Signer, UNCHANGED registry, S!WriteSig(p)
    PROVE  SignInv'
  <1> DEFINE s == job[p].sig
  <1>1. /\ UNCHANGED <<doc, edits>> /\ sig' = s /\ at[p] = "write"
        /\ S!Concludes(p, "signed", S!Of(s), S!Event("SIGN", "success", s.key))
    BY DEF S!WriteSig, S!document
  <1>2. s \in S!SigFile /\ s.key \in S!WrittenId \cup {NoKey}
    BY SignerTyped DEF S!SigFile
  <1>3. GoodFile(s, registry, edits, doc) /\ s.kind = "v2"
    BY <1>1, SignerTyped DEF GoodJob, GoodFile
  <1>4. S!Alias(s.key) = s.by \/ s.maker = "gui"
    BY <1>3 DEF GoodFile, KeySound
  <1> DEFINE v == S!Of(s)
  <1>. HIDE DEF s
  <1>5. v \in S!Answer /\ v.by = s.by /\ v.maker = s.maker /\ ~ v.genuine
    BY <1>2, OfParts
  <1>6. S!Concludes(p, "signed", v, S!Event("SIGN", "success", s.key))
    BY <1>1
  <1>. HIDE DEF v
  <1>7. Truthful("signed", v, registry) /\ Plain("signed", v)
    BY <1>5, Zenon DEF Truthful, Plain
  <1>. QED BY <1>1, <1>2, <1>3, <1>4, <1>5, <1>6, <1>7, EventStep, Fitting

LEMMA ReadSigStep ==
    ASSUME SignInv, NEW p \in Signer, UNCHANGED registry, S!ReadSig(p)
    PROVE  SignInv'
  <1>1. UNCHANGED <<doc, edits, sig>> /\ at[p] = "idle" /\ sig.kind # "none"
    BY DEF S!ReadSig, S!document, S!Begin
  <1>2. /\ sig \in S!SigFile /\ GoodFile(sig, registry, edits, doc) /\ sig' = sig
        /\ sig.kind \in {"cut", "v1", "v2"}
    BY <1>1, SignerTyped DEF S!SigFile, S!SigKind
  <1>3. CASE sig.kind = "cut"
    <2> DEFINE v == S!Of(S!CutSig)
    <2>1. S!Concludes(p, "error", v, S!Event("VERIFY", "error", NoKey))
      BY <1>3 DEF S!ReadSig
    <2>2. v \in S!Answer /\ ~ v.genuine
      BY NothingTyped, OfParts
    <2>. HIDE DEF v
    <2>3. Truthful("error", v, registry) /\ Plain("error", v)
      BY <2>2, Zenon DEF Truthful, Plain
    <2>. QED BY <1>1, <1>2, <2>1, <2>2, <2>3, EventStep, Fitting
  <1>4. CASE sig.kind = "v1" /\ p \in Cli
    <2> DEFINE v == S!Verdict(sig)
    <2>1. S!Concludes(p, "no key id", v, S!Event("VERIFY", "denied", NoKey))
      BY <1>4 DEF S!ReadSig
    <2>2. v \in S!Answer /\ v.kind = "v1"
      BY <1>2, <1>4, VerdictParts
    <2>. HIDE DEF v
    <2>3. Truthful("no key id", v, registry) /\ Plain("no key id", v)
      BY <2>2, Zenon DEF Truthful, Plain
    <2>. QED BY <1>1, <1>2, <2>1, <2>2, <2>3, EventStep, Fitting
  <1>5. CASE sig.kind # "cut" /\ ~ (sig.kind = "v1" /\ p \in Cli)
    <2> DEFINE j == [sig |-> sig, with |-> NoKey, answer |-> S!NoAnswer]
    <2>1. /\ at' = [at EXCEPT ![p] = "key"]
          /\ job' = [job EXCEPT ![p] = [S!NoJob EXCEPT !.sig = sig]]
          /\ answer' = S!NoAnswer /\ UNCHANGED read
      BY <1>5 DEF S!ReadSig, S!Silent
    <2>2. j = [S!NoJob EXCEPT !.sig = sig]
      BY DEF S!NoJob
    <2>3. j \in S!Job /\ j.sig = sig
      BY <1>2, NothingTyped DEF S!Job
    <2>4. "key" \in S!Locations
      BY DEF S!Locations
    <2>5. job' = [job EXCEPT ![p] = j]
      BY <2>1, <2>2
    <2>6. read' = [read EXCEPT ![p] = read[p]] /\ read[p] \in S!Text /\ read[p] = <<>>
      BY <1>1, <2>1, SignerTyped, Clients DEF SignInv, S!SignTypeOK, GoodJob
    <2>. HIDE DEF j
    <2>7. ASSUME at'[p] = "key", job'[p] = j, read'[p] = read[p]
          PROVE  GoodJob(p)'
      <3>1. UNCHANGED <<registry, edits, doc>>
        BY <1>1
      <3>. QED BY <1>2, <1>5, <2>3, <2>6, <2>7, <3>1 DEF GoodJob, GoodFile
    <2>8. /\ UNCHANGED <<registry, doc, edits>> /\ sig' \in S!SigFile
          /\ GoodFile(sig', registry, edits, doc)
          /\ answer' \in S!Answer /\ Truthful(answer'.what, answer', registry) /\ Accounted(answer')
      BY <1>1, <1>2, <2>1, Unchanging, NothingTyped
    <2>9. at' = [at EXCEPT ![p] = "key"]
      BY <2>1
    <2>. QED BY <2>3, <2>4, <2>5, <2>6, <2>7, <2>8, <2>9, SignerStep
  <1>. QED BY <1>2, <1>3, <1>4, <1>5

LEMMA VerificationKeysTyped ==
    ASSUME NEW s \in S!SigFile, s.kind \in {"v1", "v2"}, KeySound(s, registry)
    PROVE  S!VerificationKeys(s) \subseteq KeyId
  <1>1. CASE s.kind = "v1"
    BY <1>1, SameKeys DEF S!VerificationKeys, S!ActiveIds
  <1>2. CASE s.kind = "v2"
    <2>1. s.key \in S!WrittenId
      BY <1>2 DEF KeySound
    <2>2. s.key = <<s.key[1], s.key[2]>> /\ s.key[1] \in Type /\ s.key[2] \in 0 .. MaxKeys
      BY <2>1, Bounds DEF S!WrittenId, S!SignType, Type
    <2>3. s.key[2] = 0 \/ s.key[2] \in 1 .. MaxKeys
      BY <2>2, Bounds
    <2>4. 1 \in 1 .. MaxKeys
      BY Bounds
    <2>5. S!Alias(s.key) \in KeyId
      BY <2>2, <2>3, <2>4 DEF S!Alias, KeyId
    <2>. QED BY <1>2, <2>5 DEF S!VerificationKeys
  <1>. QED BY <1>1, <1>2

\* The key that a genuine signature names is there to verify it with.
LEMMA GenuineHasKey ==
    ASSUME RegistrySound, NEW s, KeySound(s, registry), s.kind = "v2", s.maker # "gui"
    PROVE  S!VerificationKeys(s) = {s.by}
  <1>1. /\ s.by \in KeyId /\ s.by[1][2] = "sign" /\ S!Alias(s.key) = s.by
        /\ registry \in Registry /\ registry[s.by] \in {"active", Demoted(s.by[1])}
    BY DEF RegistrySound, KeySound
  <1>2. VerifiesWith(registry, s.by)
    BY <1>1, KeptIsGood
  <1>3. S!VerifiesWith(registry, s.by)
    BY <1>2 DEF VerifiesWith, S!VerifiesWith
  <1>. QED BY <1>1, <1>3 DEF S!VerificationKeys

LEMMA ResolveKeyStep ==
    ASSUME SignInv, NEW p \in Signer, UNCHANGED registry, S!ResolveKey(p)
    PROVE  SignInv'
  <1> DEFINE s == job[p].sig
  <1>1. PICK k \in S!VerificationKeys(s) : job' = [job EXCEPT ![p].with = k]
    BY DEF S!ResolveKey
  <1> DEFINE j == [job[p] EXCEPT !.with = k]
  <1>2. /\ at[p] = "key" /\ at' = [at EXCEPT ![p] = "check"] /\ answer' = S!NoAnswer
        /\ UNCHANGED <<doc, edits, sig, read>> /\ job' = [job EXCEPT ![p] = j]
    BY <1>1 DEF S!ResolveKey, S!Silent, S!document
  <1>3. /\ s \in S!SigFile /\ s.kind \in {"v1", "v2"} /\ (p \in Cli => s.kind = "v2")
        /\ KeySound(s, registry) /\ TextSound(s, edits, doc) /\ s.since <= edits
        /\ read[p] = <<>>
    BY <1>2, SignerTyped DEF GoodJob
  <1>4. k \in KeyId
    <2>1. S!VerificationKeys(s) \subseteq KeyId
      <3>. HIDE DEF s
      <3>. QED BY <1>3, VerificationKeysTyped
    <2>. QED BY <2>1
  <1>5. s.kind = "v2" => k = S!Alias(s.key)
    <2>. HIDE DEF s
    <2>. QED BY DEF S!VerificationKeys
  <1>12. s.kind = "v1" /\ k # s.by => registry[s.by] # "active"
    <2>. HIDE DEF s
    <2>1. SUFFICES ASSUME s.kind = "v1", registry[s.by] = "active" PROVE k = s.by
      OBVIOUS
    <2>2. s.by \in KeyId /\ k[1] = s.by[1] /\ registry[k] = "active"
      BY <1>3, <2>1 DEF KeySound, S!VerificationKeys, S!ActiveIds
    <2>. QED BY <1>4, <2>1, <2>2, KeyParts DEF SignInv, RegistrySound, Valid, ActiveIds
  <1>6. j \in S!Job /\ j.sig = s /\ j.with = k
    <2>1. job[p] \in S!Job
      BY SignerTyped
    <2>. QED BY <1>4, <2>1, SameKeys DEF S!Job
  <1>7. /\ UNCHANGED <<registry, doc, edits>> /\ sig' \in S!SigFile
        /\ GoodFile(sig', registry, edits, doc)
        /\ answer' \in S!Answer /\ Truthful(answer'.what, answer', registry) /\ Accounted(answer')
    BY <1>2, Unchanging, NothingTyped, SignerTyped
  <1>8. read' = [read EXCEPT ![p] = read[p]]
    BY <1>2, Clients DEF SignInv, S!SignTypeOK
  <1>9. "check" \in S!Locations /\ read[p] \in S!Text
    BY SignerTyped DEF S!Locations
  <1>10. at' = [at EXCEPT ![p] = "check"] /\ job' = [job EXCEPT ![p] = j]
    BY <1>2
  <1>. HIDE DEF j, s
  <1>11. ASSUME at'[p] = "check", job'[p] = j, read'[p] = read[p]
         PROVE  GoodJob(p)'
    BY <1>3, <1>5, <1>6, <1>7, <1>11, <1>12 DEF GoodJob, IsStartOf
  <1>. QED BY <1>6, <1>7, <1>8, <1>9, <1>10, <1>11, SignerStep

LEMMA NoVerificationKeyStep ==
    ASSUME SignInv, NEW p \in Signer, UNCHANGED registry, S!NoVerificationKey(p)
    PROVE  SignInv'
  <1> DEFINE s == job[p].sig
             v == S!Verdict(s)
  <1>1. /\ UNCHANGED <<doc, edits, sig>> /\ S!VerificationKeys(s) = {} /\ at[p] = "key"
        /\ S!Concludes(p, "error", v, S!Event("VERIFY", "error", s.key))
    BY DEF S!NoVerificationKey, S!document
  <1>2. /\ s \in S!SigFile /\ s.key \in S!WrittenId \cup {NoKey} /\ KeySound(s, registry)
        /\ p \in Cli => s.kind = "v2"
        /\ s.kind \in {"v1", "v2"}
    BY <1>1, SignerTyped DEF S!SigFile, GoodJob
  <1>. HIDE DEF s
  <1>3. v \in S!Answer /\ v.by = s.by /\ v.maker = s.maker /\ v.kind = s.kind
    BY <1>2, VerdictParts
  <1>4. s.kind = "v2" => s.maker = "gui"
    <2>1. s.kind = "v2" /\ s.maker # "gui" => S!VerificationKeys(s) = {s.by}
      BY <1>2, GenuineHasKey DEF SignInv
    <2>. QED BY <1>1, <2>1
  <1>5. s.kind = "v1" => s.by \notin S!ActiveIds(registry, s.by[1])
    BY <1>1 DEF S!VerificationKeys
  <1>. HIDE DEF v
  <1>6. Truthful("error", v, registry)
    <2>1. v.maker = "gui" \/ (v.kind = "v1" /\ v.by \notin S!ActiveIds(registry, v.by[1]))
      BY <1>2, <1>3, <1>4, <1>5
    <2>. QED BY <2>1, Zenon DEF Truthful
  <1>7. p \in Cli => Plain("error", v)
    <2>1. p \in Cli => v.maker = "gui"
      BY <1>2, <1>3, <1>4
    <2>. QED BY <2>1, Zenon DEF Plain
  <1>. QED BY <1>1, <1>2, <1>3, <1>6, <1>7, SignerTyped, EventStep, Fitting

LEMMA VerifyDigestStep ==
    ASSUME SignInv, NEW p \in Signer, UNCHANGED registry, S!VerifyDigest(p)
    PROVE  SignInv'
  <1> DEFINE s == job[p].sig
             v == S!Verdict(s)
  <1>1. /\ UNCHANGED <<doc, edits, sig>> /\ at[p] = "check" /\ Len(read[p]) = Chunks
    BY DEF S!VerifyDigest, S!document
  <1>2. /\ s \in S!SigFile /\ s.key \in S!WrittenId \cup {NoKey} /\ s.kind \in {"v1", "v2"}
        /\ KeySound(s, registry) /\ TextSound(s, edits, doc)
        /\ s.since = edits => IsStartOf(read[p], doc)
        /\ s.kind = "v2" => job[p].with = S!Alias(s.key)
        /\ s.kind = "v1" /\ job[p].with # s.by => registry[s.by] # "active"
        /\ p \in Cli => s.kind = "v2"
    BY <1>1, SignerTyped DEF S!SigFile, GoodJob
  <1>5. IF read[p] = s.text /\ job[p].with = s.by
        THEN S!Concludes(p, "valid", v, S!Event("VERIFY", "success", s.key))
        ELSE S!Concludes(p, "invalid", v, S!Event("VERIFY", "denied", s.key))
    BY DEF S!VerifyDigest
  <1>. HIDE DEF s
  <1>3. /\ v \in S!Answer /\ v.by = s.by /\ v.maker = s.maker /\ v.kind = s.kind
        /\ v.genuine => s.since = edits
    BY <1>2, VerdictParts DEF S!Genuine
  <1>. HIDE DEF v
  <1>6. ASSUME s.since = edits, s.maker # "gui", ~ (read[p] = s.text /\ job[p].with = s.by)
        PROVE  s.kind = "v1" /\ s.by \notin S!ActiveIds(registry, s.by[1])
    <2>1. read[p] = doc
      <3>1. doc \in [1 .. Chunks -> 0 .. MaxEdits] /\ read[p] \in S!Text
        BY SignerTyped DEF SignInv, S!SignTypeOK
      <3>. QED BY <1>1, <1>2, <1>6, <3>1, WholeText
    <2>2. s.text = doc
      BY <1>2, <1>6 DEF TextSound
    <2>3. s.kind = "v2" => job[p].with = s.by
      BY <1>2, <1>6 DEF KeySound
    <2>4. s.kind = "v1" /\ registry[s.by] # "active"
      BY <1>2, <1>6, <2>1, <2>2, <2>3
    <2>. QED BY <2>4 DEF S!ActiveIds
  <1>7. CASE read[p] = s.text /\ job[p].with = s.by
    <2>1. S!Concludes(p, "valid", v, S!Event("VERIFY", "success", s.key))
      BY <1>5, <1>7
    <2>2. p \in Cli => S!Alias(s.key) = s.by
      BY <1>2, <1>7
    <2>3. Truthful("valid", v, registry) /\ Plain("valid", v)
      BY Zenon DEF Truthful, Plain
    <2>. QED BY <1>1, <1>2, <1>3, <2>1, <2>2, <2>3, SignerTyped, EventStep, Fitting
  <1>8. CASE ~ (read[p] = s.text /\ job[p].with = s.by)
    <2>1. S!Concludes(p, "invalid", v, S!Event("VERIFY", "denied", s.key))
      BY <1>5, <1>8
    <2>2. v.genuine => \/ v.maker = "gui"
                       \/ v.kind = "v1" /\ v.by \notin S!ActiveIds(registry, v.by[1])
      BY <1>3, <1>6, <1>8
    <2>3. Truthful("invalid", v, registry)
      BY <2>2, Zenon DEF Truthful
    <2>4. p \in Cli => Plain("invalid", v)
      <3>1. p \in Cli => (v.genuine => v.maker = "gui")
        BY <1>2, <1>3, <2>2
      <3>. QED BY <3>1, Zenon DEF Plain
    <2>. QED BY <1>1, <1>2, <1>3, <2>1, <2>3, <2>4, SignerTyped, EventStep, Fitting
  <1>. QED BY <1>7, <1>8

-----------------------------------------------------------------------------
(* The steps of everybody else, and the theorems about signatures *)

LEMMA OthersKeepJobs ==
    ASSUME SignInv, SettingKept, RegistrySound', S!SignTypeOK',
           UNCHANGED <<at, job, read>>,
           answer' = S!NoAnswer, GoodFile(sig', registry', edits', doc')
    PROVE  SignInv'
  <1>1. ASSUME NEW p \in Signer
        PROVE  GoodJob(p)'
    <2>1. S!SignTypeOK /\ GoodJob(p)
      BY DEF SignInv
    <2>2. at'[p] = at[p] /\ job'[p] = job[p] /\ read'[p] = read[p]
      OBVIOUS
    <2>. QED BY <2>1, <2>2, JobKept
  <1>2. Truthful(answer'.what, answer', registry') /\ Accounted(answer')
    BY DEF Truthful, S!NoAnswer, Accounted, Matches, S!NoEntry
  <1>. QED BY <1>1, <1>2 DEF SignInv

LEMMA SigSince ==
    ASSUME SignInv
    PROVE  /\ sig.since \in Nat /\ edits \in Nat /\ edits \in 0 .. MaxEdits
           /\ GoodFile(sig, registry, edits, doc)
  BY Bounds DEF SignInv, S!SignTypeOK, S!SigFile

LEMMA EditStep ==
    ASSUME SignInv, UNCHANGED registry, S!Edit
    PROVE  SignInv'
  <1>1. /\ edits < MaxEdits /\ edits' = edits + 1 /\ answer' = S!NoAnswer
        /\ UNCHANGED <<sig, at, job, read>>
    BY DEF S!Edit, S!Silent
  <1>2. edits \in Nat /\ edits' \in 0 .. MaxEdits /\ edits' > edits
    BY <1>1, SigSince, Bounds
  <1>3. doc' \in [1 .. Chunks -> 0 .. MaxEdits]
    BY <1>1, <1>2 DEF S!Edit, SignInv, S!SignTypeOK
  <1>4. SettingKept
    BY <1>2, Bounds DEF SettingKept, Kept
  <1>5. S!SignTypeOK'
    BY <1>1, <1>2, <1>3, NothingTyped DEF SignInv, S!SignTypeOK
  <1>6. GoodFile(sig', registry', edits', doc')
    BY <1>1, <1>4, SigSince, FileKept
  <1>7. RegistrySound'
    BY DEF SignInv, RegistrySound
  <1>. QED BY <1>1, <1>4, <1>5, <1>6, <1>7, OthersKeepJobs

LEMMA OldSignatureStep ==
    ASSUME SignInv, UNCHANGED registry, S!OldSignature
    PROVE  SignInv'
  <1>1. /\ UNCHANGED <<doc, edits, at, job, read>> /\ answer' = S!NoAnswer
    BY DEF S!OldSignature, S!Silent, S!document
  <1>2. PICK t \in S!SignType, f \in {"v1", "v2"} :
           /\ S!VerifiesWith(registry, <<t, 1>>)
           /\ sig' = [kind |-> f, key |-> IF f = "v2" THEN <<t, 0>> ELSE NoKey,
                      by |-> <<t, 1>>, text |-> doc, since |-> edits, maker |-> "old"]
    BY DEF S!OldSignature
  <1>3. /\ <<t, 1>> \in KeyId /\ <<t, 0>> \in S!WrittenId /\ t[2] = "sign"
    BY Bounds DEF S!SignType, KeyId, Type, S!WrittenId
  <1>4. doc \in S!Text
    BY Bounds, TextMade DEF SignInv, S!SignTypeOK
  <1> DEFINE k == <<t, 1>>
             o == <<t, 0>>
  <1>5. S!Alias(o) = k /\ k[1] = t
    BY DEF S!Alias
  <1>6. registry[k] # "none"
    BY <1>2 DEF S!VerifiesWith
  <1>7. sig' = [kind |-> f, key |-> IF f = "v2" THEN o ELSE NoKey,
                by |-> k, text |-> doc, since |-> edits, maker |-> "old"]
    BY <1>2
  <1>8. k \in KeyId /\ o \in S!WrittenId
    BY <1>3
  <1>. HIDE DEF k, o
  <1>9. sig' \in S!SigFile
    BY <1>4, <1>7, <1>8, SigSince, SameKeys DEF S!SigFile, S!SigKind, S!Maker
  <1>10. GoodFile(sig', registry, edits, doc)
    <2>1. /\ sig'.kind = f /\ sig'.by = k /\ sig'.text = doc /\ sig'.since = edits
          /\ sig'.maker = "old"
          /\ f = "v2" => sig'.key = o
      BY <1>7
    <2>2. edits <= edits
      BY SigSince
    <2>. QED BY <1>3, <1>5, <1>6, <1>8, <2>1, <2>2 DEF GoodFile, KeySound, TextSound
  <1>11. SettingKept
    BY <1>1, SigSince DEF SettingKept, Kept
  <1>12. S!SignTypeOK'
    BY <1>1, <1>9, NothingTyped DEF SignInv, S!SignTypeOK
  <1>13. RegistrySound'
    BY DEF SignInv, RegistrySound
  <1>14. GoodFile(sig', registry', edits', doc')
    BY <1>1, <1>10
  <1>. QED BY <1>1, <1>11, <1>12, <1>13, <1>14, OthersKeepJobs

\* Nothing of the signers changes, and no key goes.
LEMMA KeysChangeStep ==
    ASSUME SignInv, UNCHANGED signing, answer' = S!NoAnswer, RegistrySound',
           Kept(registry, registry')
    PROVE  SignInv'
  <1>1. UNCHANGED <<doc, edits, sig, at, job, read>>
    BY DEF signing
  <1>2. SettingKept
    BY <1>1, SigSince DEF SettingKept
  <1>3. S!SignTypeOK'
    BY <1>1, NothingTyped DEF SignInv, S!SignTypeOK
  <1>4. GoodFile(sig', registry', edits', doc')
    BY <1>1, <1>2, SigSince, FileKept
  <1>. QED BY <1>1, <1>2, <1>3, <1>4, OthersKeepJobs

LEMMA StepSign ==
    ASSUME SignInv, [Next]_vars
    PROVE  SignInv'
  <1>1. ASSUME NEW use, NEW users, RotateKeys(use, users)
        PROVE  SignInv'
    <2>1. RegistrySound' /\ Kept(registry, registry')
      BY <1>1, RotateStep, PublishKeeps DEF SignInv
    <2>2. UNCHANGED signing /\ answer' = S!NoAnswer
      BY <1>1, RotateStep
    <2>. QED BY <2>1, <2>2, KeysChangeStep
  <1>2. CASE SignStep
    <2>1. UNCHANGED registry
      BY <1>2 DEF SignStep
    <2>2. CASE S!OthersStep
      BY <2>1, <2>2, EditStep, OldSignatureStep DEF S!OthersStep
    <2>3. ASSUME NEW p \in Signer, S!SignStep(p)
          PROVE  SignInv'
      BY <2>1, <2>3, RefuseStep, StartSignStep, NoSigningKeyStep, HashChunkStep,
         HashFailsStep, SignDigestStep, TruncateSigStep, WriteSigStep, ReadSigStep,
         ResolveKeyStep, NoVerificationKeyStep, VerifyDigestStep, LogSignatureStep
         DEF S!SignStep
    <2>. QED BY <1>2, <2>2, <2>3 DEF SignStep
  <1>3. CASE CallStep
    <2>1. UNCHANGED <<registry, signing>> /\ answer' = S!NoAnswer
      BY <1>3 DEF CallStep, S!Silent
    <2>2. RegistrySound' /\ Kept(registry, registry') /\ UNCHANGED signing
      BY <2>1 DEF SignInv, RegistrySound, Kept
    <2>. QED BY <2>1, <2>2, KeysChangeStep
  <1>4. CASE UNCHANGED vars
    BY <1>4 DEF vars, signing, SignInv, RegistrySound, S!SignTypeOK, GoodFile, KeySound,
                TextSound, GoodJob, IsStartOf
  <1>. QED BY <1>1, <1>2, <1>3, <1>4 DEF Next

LEMMA InitSign == Init => SignInv
  <1> SUFFICES ASSUME Init PROVE SignInv
    OBVIOUS
  <1>. USE DEF Init, S!SignInit
  <1>1. RegistrySound
    BY KeyParts DEF NoKeys, RegistrySound, Registry, Status, Valid, ActiveIds
  <1>2. S!SignTypeOK
    BY NothingTyped, Bounds, Clients DEF S!SignTypeOK, S!Locations
  <1>3. GoodFile(sig, registry, edits, doc)
    BY DEF GoodFile, KeySound, TextSound, S!NoSig
  <1>4. ASSUME NEW p \in Signer
        PROVE  GoodJob(p)
    <2>1. at[p] = "idle" /\ job[p] = S!NoJob /\ read[p] = <<>>
      BY Clients
    <2>. QED BY <2>1 DEF GoodJob, S!NoJob, S!NoSig, KeySound
  <1>5. Truthful(answer.what, answer, registry) /\ Accounted(answer)
    BY DEF Truthful, S!NoAnswer, Accounted, Matches, S!NoEntry
  <1>. QED BY <1>1, <1>2, <1>3, <1>4, <1>5 DEF SignInv

\* What sign and verify rest on: whole signatures and those in the making name
\* their keys, and are of the text there was.
THEOREM SignInvariant == Spec => []SignInv
  <1>1. Init => SignInv
    BY InitSign
  <1>2. SignInv /\ [Next]_vars => SignInv'
    BY StepSign
  <1>. QED BY <1>1, <1>2, PTL DEF Spec

\* The registry, the signers and the agents keep to their types.
THEOREM ArtifactsTyped == Spec => []TypeOK
  <1>1. SignInv /\ PipelineInv => TypeOK
    BY DEF SignInv, PipelineInv, RegistrySound, TypeOK
  <1>. QED BY <1>1, SignInvariant, PipelineInvariant, PTL

\* Whoever verifies an unchanged document is told that it is valid, but in the
\* cases named there, whatever is rotated, edited, killed or signed again
\* meanwhile.
THEOREM NeverFalseAlarm == Spec => []NoFalseAlarm
  <1>1. SignInv => NoFalseAlarm
    BY DEF SignInv, Truthful, NoFalseAlarm, S!NoFalseAlarm, S!ActiveIds
  <1>. QED BY <1>1, SignInvariant, PTL

\* A whole .sig file of the command line names its key, and the key verifies.
THEOREM SignaturesAlwaysResolve == Spec => []SignaturesResolve
  <1>1. SignInv => SignaturesResolve
    <2> SUFFICES ASSUME SignInv, sig.kind = "v2", sig.maker = "cli"
                 PROVE  sig.key = sig.by /\ S!VerifiesWith(registry, sig.by)
      BY DEF SignaturesResolve, S!SignaturesResolve
    <2>1. sig.key = sig.by /\ KeySound(sig, registry) /\ RegistrySound
      BY DEF SignInv, GoodFile, KeySound
    <2>2. S!VerificationKeys(sig) = {sig.by}
      BY <2>1, GenuineHasKey
    <2>. QED BY <2>1, <2>2 DEF S!VerificationKeys
  <1>. QED BY <1>1, SignInvariant, PTL

\* What a command answers is what its event says, under the key it used.
THEOREM SignaturesStayAccounted == Spec => []SignaturesAccounted
  <1>1. SignInv => SignaturesAccounted
    BY DEF SignInv, Accounted, Matches, SignaturesAccounted, S!SignaturesAccounted
  <1>. QED BY <1>1, SignInvariant, PTL

-----------------------------------------------------------------------------
(* The choice of the method, by which the pipeline encrypts.               *)

\* Each signal alone: asking for smaller keys never lowers the score of ECC.
LEMMA PerformanceMonotone ==
  ASSUME NEW p, NEW q, Pull(q) >= Pull(p)
  PROVE  ForPerformance(q) >= ForPerformance(p)
  BY DEF Pull, ForPerformance

LEMMA BandwidthMonotone ==
  ASSUME NEW p, NEW q, Narrow(q) >= Narrow(p)
  PROVE  ForBandwidth(q) >= ForBandwidth(p)
  BY DEF Narrow, ForBandwidth

LEMMA ScoresAreNumbers ==
  /\ \A e : ForEnvironment(e) \in Nat
  /\ \A p : ForPerformance(p) \in Nat
  /\ \A b : ForBandwidth(b) \in Nat
  BY DEF ForEnvironment, ForPerformance, ForBandwidth

\* The environment counts on both sides: its lead is what ECC gains by it.
Lead(e) == ForEnvironment(e) - (IF e = "enterprise" THEN 2 ELSE 0)

LEMMA EnvironmentMonotone ==
  ASSUME NEW e \in Environments \cup {"absent"}, NEW f \in Environments \cup {"absent"},
         \/ f = e
         \/ f \in {"mobile", "embedded"} /\ e \in {"cloud", "absent", "enterprise"}
         \/ e = "enterprise"
  PROVE  Lead(f) >= Lead(e)
  <1>1. /\ ForEnvironment(e) \in Nat /\ ForEnvironment(f) \in Nat
        /\ ForEnvironment(e) <= 3
    BY ScoresAreNumbers DEF ForEnvironment
  <1>2. CASE f = e
    BY <1>1, <1>2 DEF Lead
  <1>3. CASE f \in {"mobile", "embedded"}
    <2>1. ForEnvironment(f) = 3 /\ f # "enterprise"
      BY <1>3 DEF ForEnvironment
    <2>. QED BY <1>1, <2>1 DEF Lead
  <1>4. CASE e = "enterprise"
    <2>1. ForEnvironment(e) = 0
      BY <1>4 DEF ForEnvironment
    <2>. QED BY <1>1, <1>4, <2>1 DEF Lead
  <1>. QED BY <1>2, <1>3, <1>4

\* select_encryption_method: a signal that asks for smaller keys never turns
\* ECC into RSA, whatever the others are, and the compliance level does not
\* count.
THEOREM SelectionMonotone == MethodMonotone
  <1> SUFFICES ASSUME NEW c \in ValidContext, NEW d \in ValidContext,
                      AsksForSmaller(c, d), SelectMethod(c) = "ecc"
               PROVE  SelectMethod(d) = "ecc"
    BY DEF MethodMonotone
  <1>1. EccScore(c) >= RsaScore(c)
    BY DEF SelectMethod
  <1>2. /\ {c.environment, d.environment} \subseteq Environments \cup {"absent"}
        /\ {c.performance, d.performance} \subseteq Priorities \cup {"absent"}
        /\ {c.bandwidth, d.bandwidth} \subseteq Priorities \cup {"absent"}
        /\ {c.legacy, d.legacy} \subseteq BOOLEAN
    BY DEF ValidContext
  <1>3. ForPerformance(d.performance) >= ForPerformance(c.performance)
    BY <1>2, PerformanceMonotone DEF AsksForSmaller
  <1>4. ForBandwidth(d.bandwidth) >= ForBandwidth(c.bandwidth)
    BY <1>2, BandwidthMonotone DEF AsksForSmaller
  <1>5. Lead(d.environment) >= Lead(c.environment)
    BY <1>2, EnvironmentMonotone DEF AsksForSmaller
  <1>6. (IF d.legacy THEN 3 ELSE 0) <= (IF c.legacy THEN 3 ELSE 0)
    <2>1. d.legacy => c.legacy
      BY DEF AsksForSmaller
    <2>2. d.legacy \in BOOLEAN /\ c.legacy \in BOOLEAN
      BY <1>2
    <2>3. CASE d.legacy
      BY <2>1, <2>3
    <2>4. CASE ~ d.legacy
      BY <2>4
    <2>. QED BY <2>3, <2>4
  <1>7. EccScore(d) >= RsaScore(d)
    BY <1>1, <1>3, <1>4, <1>5, <1>6, ScoresAreNumbers DEF EccScore, RsaScore, Lead
  <1>. QED BY <1>7 DEF SelectMethod
=============================================================================
