----------------------------- MODULE KeyRotation -----------------------------
(***************************************************************************)
(* The key directory: spy/key_registry.py, the rotate_* functions of       *)
(* rsa_engine.py and ecc_engine.py, the commands of cli.py and             *)
(* setup_keys.py that call them, and what spy/key_provider.py hands to a   *)
(* process that encrypts.                                                  *)
(*                                                                         *)
(* A rotation writes three files (private key, public key, fingerprint),   *)
(* demotes the old key and registers the new one in the registry object it *)
(* loaded, saves that object over key_registry.json, and logs.  Nothing    *)
(* holds other processes off: between load and save each works on its own  *)
(* copy.  Key material is a number; a container is the key ids written in  *)
(* its header with the material it was really sealed with.                 *)
(***************************************************************************)
EXTENDS Keys, Sequences

CONSTANTS
    Rotator,    \* processes that run rotate-keys, rotate-enc-keys, setup
    Sealer,     \* processes that encrypt
    Commands,   \* bound: what rotators run, as sequences of key types
    Faults,     \* which failures happen: "crash", "write", "save", "audit"
    NoKey       \* no key chosen yet

Proc == Rotator \cup Sealer

\* Contents of a key file: the number of a key pair, or one of these.
Missing == 0
Torn == -1
Material == {Torn, Missing} \cup 1 .. MaxKeys

Container == [enc : KeyId, wrapped : Material, sign : KeyId, signed : Material]

ASSUME KeyRotationAssumption ==
    /\ Rotator \cap Sealer = {}
    /\ Methods \subseteq {"rsa", "ecc"} /\ Methods # {}
    /\ Commands \subseteq Seq(Type) \ {<<>>}
    /\ Faults \subseteq {"crash", "write", "save", "audit"}
    /\ MaxKeys \in Nat
    /\ NoKey \notin KeyId

VARIABLES
    registry,   \* key_registry.json
    priv,       \* private key PEM of each key id
    pub,        \* public key PEM
    fp,         \* last line of the fingerprint file
    fresh,      \* the next key pair
    pc,         \* where each process is
    cmd,        \* the command it runs: "setup", "rotate" or "seal"
    todo,       \* key types still to rotate, the current one first
    mem,        \* its KeyRegistry object
    key,        \* the key id it is creating, or wraps with
    mat,        \* the key pair it is writing, or wrapped with
    containers  \* containers published

vars == <<registry, priv, pub, fp, fresh, pc, cmd, todo, mem, key, mat,
          containers>>
files == <<priv, pub, fp>>

Locations == {"idle", "priv", "pub", "fp", "save", "audit", "wrap", "sign"}

TypeOK ==
    /\ registry \in Registry
    /\ priv \in [KeyId -> Material]
    /\ pub \in [KeyId -> Material]
    /\ fp \in [KeyId -> Material]
    /\ fresh \in 1 .. MaxKeys + 1
    /\ pc \in [Proc -> Locations]
    /\ cmd \in [Proc -> {"setup", "rotate", "seal"}]
    /\ todo \in [Proc -> Seq(Type)]
    /\ mem \in [Proc -> Registry]
    /\ key \in [Proc -> KeyId \cup {NoKey}]
    /\ mat \in [Proc -> Material]
    /\ containers \subseteq Container

EmptyRegistry == [k \in KeyId |-> "none"]
NoFiles == [k \in KeyId |-> Missing]

Init ==
    /\ registry = EmptyRegistry
    /\ priv = NoFiles /\ pub = NoFiles /\ fp = NoFiles
    /\ fresh = 1
    /\ pc = [p \in Proc |-> "idle"]
    /\ cmd = [p \in Proc |-> "rotate"]
    /\ todo = [p \in Proc |-> <<>>]
    /\ mem = [p \in Proc |-> EmptyRegistry]
    /\ key = [p \in Proc |-> NoKey]
    /\ mat = [p \in Proc |-> Missing]
    /\ containers = {}

-----------------------------------------------------------------------------
(* Commands *)

Begin(p, c, types, where) ==
    /\ pc[p] = "idle"
    /\ Valid(registry)
    /\ mem' = [mem EXCEPT ![p] = registry]
    /\ cmd' = [cmd EXCEPT ![p] = c]
    /\ todo' = [todo EXCEPT ![p] = types]
    /\ pc' = [pc EXCEPT ![p] = where]
    /\ UNCHANGED <<registry, files, fresh, key, mat, containers>>

StartRotate(p) == \E c \in Commands : Begin(p, "rotate", c, "priv")

\* setup_keys.main refuses a directory that has an active key, or signing key
\* files under their version 1 names.
SetupOrder ==
    IF Methods = {"rsa", "ecc"}
    THEN <<<<"rsa", "enc">>, <<"ecc", "enc">>, <<"rsa", "sign">>, <<"ecc", "sign">>>>
    ELSE LET m == CHOOSE m \in Methods : TRUE IN <<<<m, "enc">>, <<m, "sign">>>>

NoExistingKeys ==
    /\ \A t \in Type : ActiveIds(registry, t) = {}
    /\ \A t \in Type : t[2] = "sign" =>
            priv[<<t, 1>>] = Missing /\ pub[<<t, 1>>] = Missing

StartSetup(p) == NoExistingKeys /\ Begin(p, "setup", SetupOrder, "priv")

\* stream_encrypt_file makes its provider, which loads the registry.
StartSeal(p) == \E m \in Methods : Begin(p, "seal", <<<<m, "enc">>>>, "wrap")

-----------------------------------------------------------------------------
(* Rotation of the key type at the head of todo *)

Goto(p, where) == pc' = [pc EXCEPT ![p] = where]

\* Bug: encryption keys are numbered like signing keys.
NewIdNumbered(p) == <<Head(todo[p]), NextVersion(mem[p], Head(todo[p]))>>

\* Encryption keys get a random id, signing keys the next version.
NewId(p) ==
    LET t == Head(todo[p])
    IN  <<t, IF t[2] = "enc" THEN fresh ELSE NextVersion(mem[p], t)>>

WritePrivate(p) ==
    /\ pc[p] = "priv" /\ NewId(p) \in KeyId /\ fresh <= MaxKeys
    /\ key' = [key EXCEPT ![p] = NewId(p)]
    /\ mat' = [mat EXCEPT ![p] = fresh]
    /\ fresh' = fresh + 1
    /\ priv' = [priv EXCEPT ![NewId(p)] = fresh]
    /\ Goto(p, "pub")
    /\ UNCHANGED <<registry, pub, fp, cmd, todo, mem, containers>>

WritePublic(p) ==
    /\ pc[p] = "pub"
    /\ pub' = [pub EXCEPT ![key[p]] = mat[p]]
    /\ Goto(p, "fp")
    /\ UNCHANGED <<registry, priv, fp, fresh, cmd, todo, mem, key, mat,
                   containers>>

\* Bug: the registry is saved before the fingerprint is written.
WriteFingerprintLate(p) ==
    /\ pc[p] = "fp"
    /\ Goto(p, "save")
    /\ UNCHANGED <<registry, files, fresh, cmd, todo, mem, key, mat,
                   containers>>

WriteFingerprint(p) ==
    /\ pc[p] = "fp"
    /\ fp' = [fp EXCEPT ![key[p]] = mat[p]]
    /\ Goto(p, "save")
    /\ UNCHANGED <<registry, priv, pub, fresh, cmd, todo, mem, key, mat,
                   containers>>

\* The command returns, and its variables with it.
Stop(p) ==
    /\ Goto(p, "idle")
    /\ cmd' = [cmd EXCEPT ![p] = "rotate"]
    /\ todo' = [todo EXCEPT ![p] = <<>>]
    /\ mem' = [mem EXCEPT ![p] = EmptyRegistry]
    /\ key' = [key EXCEPT ![p] = NoKey]
    /\ mat' = [mat EXCEPT ![p] = Missing]

\* On to the next method with registry object r; an error ends only setup.
NextMethod(p, ok, r) ==
    /\ IF Tail(todo[p]) = <<>> \/ (~ ok /\ cmd[p] = "setup")
       THEN Stop(p)
       ELSE /\ Goto(p, "priv")
            /\ todo' = [todo EXCEPT ![p] = Tail(@)]
            /\ mem' = [mem EXCEPT ![p] = r]
            /\ key' = [key EXCEPT ![p] = NoKey]
            /\ mat' = [mat EXCEPT ![p] = Missing]
            /\ UNCHANGED cmd
    /\ UNCHANGED containers

\* A key file is opened but not (wholly) written; or all are, and then their
\* permissions cannot be set.
WriteFails(p) ==
    /\ "write" \in Faults
    /\ \/ /\ pc[p] = "priv" /\ NewId(p) \in KeyId /\ fresh <= MaxKeys
          /\ priv' = [priv EXCEPT ![NewId(p)] = Torn]
          /\ fresh' = fresh + 1
          /\ UNCHANGED <<pub, fp>>
       \/ /\ pc[p] = "pub"
          /\ pub' = [pub EXCEPT ![key[p]] = Torn]
          /\ UNCHANGED <<priv, fp, fresh>>
       \/ /\ pc[p] = "fp"
          /\ fp' = [fp EXCEPT ![key[p]] = Torn]
          /\ UNCHANGED <<priv, pub, fresh>>
       \/ pc[p] = "save" /\ UNCHANGED <<files, fresh>>
    /\ NextMethod(p, FALSE, mem[p])
    /\ UNCHANGED registry

\* Bug: the demotion is saved before the new key is registered.
SaveTwice(p) ==
    /\ pc[p] = "save"
    /\ LET old == ActiveIds(mem[p], key[p][1])
           r == IF old = {} THEN Rotated(mem[p], key[p])
                ELSE [k \in KeyId |-> IF k \in old THEN Demoted(k[1]) ELSE mem[p][k]]
       IN  /\ mem' = [mem EXCEPT ![p] = r]
           /\ registry' = r
           /\ Goto(p, IF old = {} THEN "audit" ELSE "save")
    /\ UNCHANGED <<files, fresh, cmd, todo, key, mat, containers>>

\* The registry object is updated, then written over the file by os.replace.
Save(p) ==
    /\ pc[p] = "save"
    /\ mem' = [mem EXCEPT ![p] = Rotated(mem[p], key[p])]
    /\ registry' = mem'[p]
    /\ Goto(p, "audit")
    /\ UNCHANGED <<files, fresh, cmd, todo, key, mat, containers>>

\* The object keeps the new key when the file could not be written.
SaveFails(p) ==
    /\ "save" \in Faults
    /\ pc[p] = "save"
    /\ NextMethod(p, FALSE, Rotated(mem[p], key[p]))
    /\ UNCHANGED <<registry, files, fresh>>

\* The command ends at once.
Dies(p) ==
    /\ Stop(p)
    /\ UNCHANGED <<registry, files, fresh, containers>>

\* There is no place for the temporary file: mkstemp fails with an error that
\* save() does not turn into its own, and nobody expects.
SaveAborts(p) == "save" \in Faults /\ pc[p] = "save" /\ Dies(p)

LogRotation(p) ==
    /\ pc[p] = "audit"
    /\ NextMethod(p, TRUE, mem[p])
    /\ UNCHANGED <<registry, files, fresh>>

\* The key has been replaced already; the command reports an error.
AuditFails(p) ==
    /\ "audit" \in Faults
    /\ pc[p] = "audit"
    /\ NextMethod(p, FALSE, mem[p])
    /\ UNCHANGED <<registry, files, fresh>>

-----------------------------------------------------------------------------
(* Encryption: LocalPemKeyProvider over the registry it loaded *)

Method(p) == Head(todo[p])[1]
EncIds(p) == ActiveIds(mem[p], <<Method(p), "enc">>)
SignIds(p) == ActiveIds(mem[p], <<Method(p), "sign">>)

\* get_rsa_public_key: the active key, if it matches its fingerprint.
Wrap(p) ==
    /\ pc[p] = "wrap"
    /\ \E k \in EncIds(p) :
        /\ pub[k] \in 1 .. MaxKeys /\ fp[k] = pub[k]
        /\ key' = [key EXCEPT ![p] = k]
        /\ mat' = [mat EXCEPT ![p] = pub[k]]
    /\ Goto(p, "sign")
    /\ UNCHANGED <<registry, files, fresh, cmd, todo, mem, containers>>

\* Bug: the id comes from a second provider, made when signing starts.
SignWithFreshId(p) ==
    /\ pc[p] = "sign"
    /\ \E k \in SignIds(p), j \in ActiveIds(registry, <<Method(p), "sign">>) :
        /\ priv[k] \in 1 .. MaxKeys
        /\ containers' = containers \cup
              {[enc |-> key[p], wrapped |-> mat[p], sign |-> j, signed |-> priv[k]]}
    /\ Stop(p)
    /\ UNCHANGED <<registry, files, fresh>>

\* The private key of the active signing key signs header and body; nothing
\* compares it with the fingerprint.
Sign(p) ==
    /\ pc[p] = "sign"
    /\ \E k \in SignIds(p) :
        /\ priv[k] \in 1 .. MaxKeys
        /\ containers' = containers \cup
              {[enc |-> key[p], wrapped |-> mat[p], sign |-> k, signed |-> priv[k]]}
    /\ Stop(p)
    /\ UNCHANGED <<registry, files, fresh>>

\* No active key, or its files cannot be used.
SealFails(p) ==
    /\ \/ /\ pc[p] = "wrap"
          /\ \A k \in EncIds(p) : pub[k] \notin 1 .. MaxKeys \/ fp[k] # pub[k]
       \/ /\ pc[p] = "sign"
          /\ \A k \in SignIds(p) : priv[k] \notin 1 .. MaxKeys
    /\ Stop(p)
    /\ UNCHANGED <<registry, files, fresh, containers>>

\* A rotating process dies.  One that dies while it writes a file leaves it
\* torn: that is WriteFails and then Crash.  (A process that dies encrypting
\* has changed nothing here.)
Crash(p) == "crash" \in Faults /\ pc[p] # "idle" /\ Dies(p)

-----------------------------------------------------------------------------
Rotate(p) ==
    \/ StartRotate(p) \/ StartSetup(p)
    \/ WritePrivate(p) \/ WritePublic(p) \/ WriteFingerprint(p) \/ WriteFails(p)
    \/ Save(p) \/ SaveFails(p) \/ SaveAborts(p) \/ LogRotation(p) \/ AuditFails(p)

Seal(p) == StartSeal(p) \/ Wrap(p) \/ Sign(p) \/ SealFails(p)

Next ==
    \/ \E p \in Rotator : Rotate(p) \/ Crash(p)
    \/ \E p \in Sealer : Seal(p)

Spec == Init /\ [][Next]_vars

-----------------------------------------------------------------------------
(* Opening a container *)

\* get_signing_public_key and _load_signing_public_key_by_id: the key named in
\* the header, active or retired, with its fingerprint; then the signature.
Verifies(c) ==
    /\ VerifiesWith(registry, c.sign)
    /\ pub[c.sign] = fp[c.sign]
    /\ pub[c.sign] = c.signed

\* get_rsa_private_key: any key that is not revoked; then the unwrapping.
Unwraps(c) ==
    /\ Decrypts(registry, c.enc)
    /\ priv[c.enc] = c.wrapped

-----------------------------------------------------------------------------
(* Properties *)

\* KeyRegistry: get_active_key_id has one answer.  No interleaving of
\* rotations leaves a registry that load() refuses, which would stop every
\* encryption until someone repaired the file by hand.
OneActive == Valid(registry) /\ \A p \in Proc : Valid(mem[p])

\* Rotation writes all three files of an encryption key before the registry
\* names it, and no other process ever writes them: whoever finds the entry,
\* after a crash too, can use the key.
EncKeysWhole ==
    \A k \in KeyId :
        (k[1][2] = "enc" /\ registry[k] # "none") =>
            priv[k] \in 1 .. MaxKeys /\ pub[k] = priv[k] /\ fp[k] = priv[k]

\* The facts that keep EncKeysWhole, for any number of processes at once:
\* a process that is busy has a type to work on and, while it writes, an id;
IsEnc(k) == k[1][2] = "enc"
Writing(p) == pc[p] \in {"pub", "fp", "save"}
TodoInv == \A p \in Proc : pc[p] # "idle" => todo[p] # <<>>
KeyInv ==
    \A p \in Proc :
        /\ Writing(p) => key[p] \in KeyId /\ mat[p] \in 1 .. fresh - 1
        /\ pc[p] \in {"audit", "sign"} => key[p] \in KeyId

\* no registry, on disk or in memory, knows an id that is still to come;
Unknown(k) == registry[k] = "none" /\ \A q \in Proc : mem[q][k] = "none"
FreshInv == \A k \in KeyId : IsEnc(k) /\ k[2] >= fresh => Unknown(k)

\* the files of an encryption key are written by one process, before any
\* registry knows its id;
WritingInv ==
    \A p \in Proc : (Writing(p) /\ IsEnc(key[p])) =>
        /\ mat[p] = key[p][2]
        /\ priv[key[p]] = mat[p]
        /\ pc[p] \in {"fp", "save"} => pub[key[p]] = mat[p]
        /\ pc[p] = "save" => fp[key[p]] = mat[p]
        /\ Unknown(key[p])
        /\ \A q \in Proc : Writing(q) /\ key[q] = key[p] => q = p

\* and what a registry knows is whole.
Whole(k) == priv[k] = k[2] /\ pub[k] = k[2] /\ fp[k] = k[2]
KnownWhole == \A k \in KeyId : IsEnc(k) => Unknown(k) \/ Whole(k)

IInv ==
    /\ TypeOK /\ TodoInv /\ KeyInv /\ OneActive
    /\ FreshInv /\ WritingInv /\ KnownWhole

\* "Key rotation must not break existing artifacts" (governance_pipeline.py):
\* whatever was sealed still verifies and still unwraps.
ContainersOpen == \A c \in containers : Verifies(c) /\ Unwraps(c)

\* rotate_*_signing_keys: "each version occupies a permanent unique path", and
\* no file of a registered key is ever written again.
FilesPermanent ==
    [][\A k \in KeyId : registry[k] # "none" =>
          priv'[k] = priv[k] /\ pub'[k] = pub[k] /\ fp'[k] = fp[k]]_vars

\* One rotating process, whatever fails or dies in it, is to the readers of
\* the registry a series of single steps: each puts new keys in force and
\* demotes the ones they replace, all in the order load() accepts.  No entry
\* is removed and no old key comes back.
Directory == INSTANCE KeyDirectory WITH registry <- registry
RotationsAtomic == Directory!DirectorySpec
=============================================================================
