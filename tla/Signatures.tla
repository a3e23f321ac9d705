----------------------------- MODULE Signatures -----------------------------
(***************************************************************************)
(* Detached signatures: sign and verify of spy/cli.py and spy/gui.py, the  *)
(* streams and the .sig files of spy/signature_engine.py, and the signing  *)
(* keys of spy/key_provider.py, by any number of processes on one document *)
(* and its .sig file.                                                      *)
(*                                                                         *)
(* Both files are read and written without a lock while other processes    *)
(* edit, sign and rotate keys.  A document is hashed chunk by chunk; a     *)
(* .sig file is truncated, then written.  A signature is what it promises: *)
(* it verifies under the key pair that made it, over the chunks it was     *)
(* made for.  A key id is its key pair: see KeyDirectory.                  *)
(***************************************************************************)
EXTENDS KeyDirectory, Access, Sequences

CONSTANTS
    Cli, Gui,       \* processes: one command each, a window
    Users,          \* who is logged in
    SignMethods,    \* bound: the methods they sign with
    Chunks,         \* chunks in the document
    MaxEdits,       \* bound on the edits of the document
    SignFaults,     \* which failures happen: "kill", "io", "audit"
    NoKey           \* no key id

Client == Cli \cup Gui

\* What the constants must be; assumed where they are (Artifacts).
SignaturesAssumption ==
    /\ Cli \cap Gui = {}
    /\ Users \subseteq Person
    /\ SignMethods \subseteq Methods
    /\ MaxKeys \in Nat \ {0}
    /\ Chunks \in Nat /\ MaxEdits \in Nat
    /\ SignFaults \subseteq {"kill", "io", "audit"}
    /\ NoKey \notin KeyId

\* An id as it is written in a .sig file; number 0 is "rsa-sign" or
\* "ecc-sign", the ids from before signing keys had versions.
SignType == SignMethods \X {"sign"}
WrittenId == SignType \X (0 .. MaxKeys)

\* A .sig file: there is none; it was cut short; it is of format 1, without a
\* key id, or of format 2.  "by" is the key pair that signed "text", "since"
\* the edits there had been when its signer began to read.
Maker == {"nobody", "cli", "gui", "old"}
Text == UNION {[1 .. n -> 0 .. MaxEdits] : n \in 0 .. Chunks}
SigKind == {"none", "cut", "v1", "v2"}
SigFile == [kind : SigKind, key : WrittenId \cup {NoKey},
            by : KeyId \cup {NoKey}, text : Text, since : 0 .. MaxEdits,
            maker : Maker]
NoSig == [kind |-> "none", key |-> NoKey, by |-> NoKey, text |-> <<>>,
          since |-> 0, maker |-> "nobody"]
CutSig == [NoSig EXCEPT !.kind = "cut"]

VARIABLES
    doc,        \* the document: the edit that wrote each chunk
    edits,      \* edits so far
    sig,        \* the .sig file
    at,         \* where each process is
    job,        \* the signature it makes or checks, and what came of it
    read,       \* the chunks it has hashed
    answer      \* what the command that ended with the last step answered

signVars == <<doc, edits, sig, at, job, read, answer>>
document == <<doc, edits>>

Locations == {"idle", "hash", "truncate", "write", "key", "check", "log"}
Answers == {"none", "refused", "signed", "valid", "invalid", "no key id",
            "error", "not logged", "interrupted"}
Entry == [action : {"none", "SIGN", "VERIFY"},
          result : {"none", "success", "denied", "error"},
          key : WrittenId \cup {NoKey}]
NoEntry == [action |-> "none", result |-> "none", key |-> NoKey]
NoProc == "nobody"
\* "genuine", "unread": a verification was of a good signature of the unchanged
\* document; could not read the document to its end.
Answer == [who : Client \cup {NoProc}, what : Answers, by : KeyId \cup {NoKey},
           maker : Maker, kind : SigKind, genuine : BOOLEAN, unread : BOOLEAN,
           entry : Entry]
NoAnswer == [who |-> NoProc, what |-> "none", by |-> NoKey, maker |-> "nobody",
             kind |-> "none", genuine |-> FALSE, unread |-> FALSE, entry |-> NoEntry]
Job == [sig : SigFile, with : KeyId \cup {NoKey}, answer : Answer]
NoJob == [sig |-> NoSig, with |-> NoKey, answer |-> NoAnswer]

SignTypeOK ==
    /\ doc \in [1 .. Chunks -> 0 .. MaxEdits]
    /\ edits \in 0 .. MaxEdits
    /\ sig \in SigFile
    /\ at \in [Client -> Locations]
    /\ job \in [Client -> Job]
    /\ read \in [Client -> Text]
    /\ answer \in Answer

\* At first there is no signature.
SignInit ==
    /\ doc = [i \in 1 .. Chunks |-> 0]
    /\ edits = 0
    /\ sig = NoSig
    /\ at = [p \in Client |-> "idle"]
    /\ job = [p \in Client |-> NoJob]
    /\ read = [p \in Client |-> <<>>]
    /\ answer = NoAnswer

-----------------------------------------------------------------------------
(* How a command ends *)

\* A whole signature of the document as it has been since the signer began.
Genuine(s) == s.kind \in {"v1", "v2"} /\ s.since = edits

\* What signature a command was about, of one made and of one checked.
Of(s) == [NoAnswer EXCEPT !.by = s.by, !.maker = s.maker, !.kind = s.kind]
Verdict(s) == [Of(s) EXCEPT !.genuine = Genuine(s)]

\* A step with which no command ends.
Silent == answer' = NoAnswer

Ends(p, a) ==
    /\ at' = [at EXCEPT ![p] = "idle"]
    /\ job' = [job EXCEPT ![p] = NoJob]
    /\ read' = [read EXCEPT ![p] = <<>>]
    /\ answer' = a

\* A command records its event e before it answers; the window never records.
Concludes(p, what, v, e) ==
    LET a == [v EXCEPT !.who = p, !.what = what,
                       !.entry = IF p \in Gui THEN NoEntry ELSE e]
    IN  IF p \in Gui THEN Ends(p, a)
        ELSE /\ at' = [at EXCEPT ![p] = "log"]
             /\ job' = [job EXCEPT ![p] = [NoJob EXCEPT !.answer = a]]
             /\ read' = [read EXCEPT ![p] = <<>>]
             /\ Silent

\* The command ends without an event.
Fails(p, what) == Ends(p, [NoAnswer EXCEPT !.who = p, !.what = what])

Event(action, result, k) == [action |-> action, result |-> result, key |-> k]

\* _log_audit
LogSignature(p) ==
    /\ at[p] = "log"
    /\ Ends(p, job[p].answer)
    /\ UNCHANGED <<document, sig>>

\* Bug: what _log_audit returns is not looked at.
SignatureNotLoggedIgnored(p) ==
    /\ "audit" \in SignFaults
    /\ at[p] = "log"
    /\ Ends(p, [job[p].answer EXCEPT !.entry = NoEntry])
    /\ UNCHANGED <<document, sig>>

\* The command fails, but the .sig file it wrote stays.
SignatureNotLogged(p) ==
    /\ "audit" \in SignFaults
    /\ at[p] = "log"
    /\ Fails(p, "not logged")
    /\ UNCHANGED <<document, sig>>

\* A kill, or an OSError of the document or the .sig file, which no handler
\* here expects.  A kill may come between the event and the answer.
Interrupted(p) ==
    /\ "kill" \in SignFaults
    /\ at[p] # "idle"
    /\ \E e \in {NoEntry, job[p].answer.entry} :
          Ends(p, [NoAnswer EXCEPT !.who = p, !.what = "interrupted", !.entry = e])
    /\ UNCHANGED <<document, sig>>

-----------------------------------------------------------------------------
(* sign and verify *)

\* _require_admin; the window offers an auditor no such button.
MaySign(p, u) ==
    IF p \in Cli THEN u.authenticated /\ u.role = "admin" ELSE u.role # "auditor"

\* Not allowed, or a file to sign or to verify is missing: no event.
Refuse(p) ==
    /\ at[p] = "idle"
    /\ sig.kind = "none" \/ \E u \in Users : ~ MaySign(p, u)
    /\ Fails(p, "refused")
    /\ UNCHANGED <<document, sig>>

\* The active signing key, and the id written for it: the window writes the
\* one from before versions.
SigningKeys(m) == ActiveIds(registry, <<m, "sign">>)
IdWritten(p, k) == IF p \in Gui THEN <<k[1], 0>> ELSE k

Begin(p) == at[p] = "idle" /\ \E u \in Users : MaySign(p, u)

StartSign(p) ==
    /\ Begin(p)
    /\ \E m \in SignMethods : \E k \in SigningKeys(m) :
        /\ at' = [at EXCEPT ![p] = "hash"]
        /\ job' = [job EXCEPT ![p] = [NoJob EXCEPT !.with = k, !.sig =
              [kind |-> "v2", key |-> IdWritten(p, k), by |-> k, text |-> <<>>,
               since |-> edits, maker |-> IF p \in Gui THEN "gui" ELSE "cli"]]]
    /\ Silent
    /\ UNCHANGED <<document, sig, read>>

NoSigningKey(p) ==
    /\ Begin(p)
    /\ \E m \in SignMethods : SigningKeys(m) = {}
    /\ Concludes(p, "error", NoAnswer, Event("SIGN", "error", NoKey))
    /\ UNCHANGED <<document, sig>>

\* sign_stream and verify_stream hash the document chunk by chunk.
HashChunk(p) ==
    /\ at[p] \in {"hash", "check"} /\ Len(read[p]) < Chunks
    /\ read' = [read EXCEPT ![p] = Append(@, doc[Len(@) + 1])]
    /\ Silent
    /\ UNCHANGED <<document, sig, at, job>>

\* A SignatureError: to sign fails, to verify finds the signature invalid.
HashFails(p) ==
    /\ "io" \in SignFaults
    /\ \/ /\ at[p] = "hash"
          /\ Concludes(p, "error", NoAnswer, Event("SIGN", "error", job[p].sig.key))
       \/ /\ at[p] = "check"
          /\ Concludes(p, "invalid", [Verdict(job[p].sig) EXCEPT !.unread = TRUE],
                       Event("VERIFY", "denied", job[p].sig.key))
    /\ UNCHANGED <<document, sig>>

SignDigest(p) ==
    /\ at[p] = "hash" /\ Len(read[p]) = Chunks
    /\ job' = [job EXCEPT ![p].sig.text = read[p]]
    /\ read' = [read EXCEPT ![p] = <<>>]
    /\ at' = [at EXCEPT ![p] = "truncate"]
    /\ Silent
    /\ UNCHANGED <<document, sig>>

\* write_bytes: open, then write.
TruncateSig(p) ==
    /\ at[p] = "truncate"
    /\ sig' = CutSig
    /\ at' = [at EXCEPT ![p] = "write"]
    /\ Silent
    /\ UNCHANGED <<document, job, read>>

\* Bug: the id is that of the key active when the file is written.
WriteSigFreshId(p) ==
    /\ at[p] = "write"
    /\ \E k \in ActiveIds(registry, job[p].sig.by[1]) :
          sig' = [job[p].sig EXCEPT !.key = IdWritten(p, k)]
    /\ Concludes(p, "signed", Of(sig'), Event("SIGN", "success", sig'.key))
    /\ UNCHANGED document

WriteSig(p) ==
    /\ at[p] = "write"
    /\ sig' = job[p].sig
    /\ Concludes(p, "signed", Of(job[p].sig), Event("SIGN", "success", job[p].sig.key))
    /\ UNCHANGED document

\* decode_sig_file_full: a file cut short, or for a command one without key
\* id, ends the verification here.
ReadSig(p) ==
    /\ Begin(p)
    /\ sig.kind # "none"
    /\ CASE sig.kind = "cut" ->
              Concludes(p, "error", Of(CutSig), Event("VERIFY", "error", NoKey))
         [] sig.kind = "v1" /\ p \in Cli ->
              Concludes(p, "no key id", Verdict(sig), Event("VERIFY", "denied", NoKey))
         [] OTHER ->
              /\ at' = [at EXCEPT ![p] = "key"]
              /\ job' = [job EXCEPT ![p] = [NoJob EXCEPT !.sig = sig]]
              /\ Silent
              /\ UNCHANGED read
    /\ UNCHANGED <<document, sig>>

\* Bug: an id without version is the active key's.
AliasActive(id) ==
    IF id[2] = 0
    THEN IF ActiveIds(registry, id[1]) = {} THEN <<id[1], 1>>
         ELSE CHOOSE k \in ActiveIds(registry, id[1]) : TRUE
    ELSE id

\* _LEGACY_ALIAS
Alias(id) == IF id[2] = 0 THEN <<id[1], 1>> ELSE id

\* get_signing_public_key; the window takes the active key for format 1,
\* whose method is that of the key that signed.
VerificationKeys(s) ==
    IF s.kind = "v1" THEN ActiveIds(registry, s.by[1])
    ELSE {k \in {Alias(s.key)} : VerifiesWith(registry, k)}

ResolveKey(p) ==
    /\ at[p] = "key"
    /\ \E k \in VerificationKeys(job[p].sig) : job' = [job EXCEPT ![p].with = k]
    /\ at' = [at EXCEPT ![p] = "check"]
    /\ Silent
    /\ UNCHANGED <<document, sig, read>>

NoVerificationKey(p) ==
    /\ at[p] = "key"
    /\ VerificationKeys(job[p].sig) = {}
    /\ Concludes(p, "error", Verdict(job[p].sig),
                 Event("VERIFY", "error", job[p].sig.key))
    /\ UNCHANGED <<document, sig>>

VerifyDigest(p) ==
    /\ at[p] = "check" /\ Len(read[p]) = Chunks
    /\ LET s == job[p].sig IN
       IF read[p] = s.text /\ job[p].with = s.by
       THEN Concludes(p, "valid", Verdict(s), Event("VERIFY", "success", s.key))
       ELSE Concludes(p, "invalid", Verdict(s), Event("VERIFY", "denied", s.key))
    /\ UNCHANGED <<document, sig>>

-----------------------------------------------------------------------------
(* Everybody else *)

\* Some program rewrites a chunk of the document.
Edit ==
    /\ edits < MaxEdits
    /\ edits' = edits + 1
    /\ \E i \in 1 .. Chunks : doc' = [doc EXCEPT ![i] = edits + 1]
    /\ Silent
    /\ UNCHANGED <<sig, at, job, read>>

\* A .sig file of an older release is put beside the document: made with what
\* is now version 1, under the id without version, or in format 1.
OldSignature ==
    /\ sig.kind = "none"
    /\ \E t \in SignType, f \in {"v1", "v2"} :
        /\ VerifiesWith(registry, <<t, 1>>)
        /\ sig' = [kind |-> f, key |-> IF f = "v2" THEN <<t, 0>> ELSE NoKey,
                   by |-> <<t, 1>>, text |-> doc, since |-> edits, maker |-> "old"]
    /\ Silent
    /\ UNCHANGED <<document, at, job, read>>

SignStep(p) ==
    \/ Refuse(p) \/ StartSign(p) \/ NoSigningKey(p) \/ HashChunk(p)
    \/ HashFails(p) \/ SignDigest(p) \/ TruncateSig(p) \/ WriteSig(p)
    \/ ReadSig(p) \/ ResolveKey(p) \/ NoVerificationKey(p) \/ VerifyDigest(p)
    \/ LogSignature(p) \/ SignatureNotLogged(p) \/ Interrupted(p)

OthersStep == Edit \/ OldSignature

-----------------------------------------------------------------------------
(* Properties *)

\* "retired keys are allowed for verification (needed for historical artifact
\* checking)" (key_provider.py): however often keys are rotated after a
\* signature, or between any two steps of making and checking it, whoever
\* verifies an unchanged document is told that it is valid, but in four cases.
\* The window signed it, under the id without version.  The document could not
\* be read to its end, which is reported as an invalid signature.  It has
\* format 1, and the command line does not take that, or the window checks it
\* with the active key, which is no longer the one that signed.
NoFalseAlarm ==
    answer.genuine =>
        \/ answer.what = "valid"
        \/ answer.maker = "gui"
        \/ answer.unread
        \/ /\ answer.kind = "v1"
           /\ \/ answer.what = "no key id"
              \/ answer.by \notin ActiveIds(registry, answer.by[1])

\* The same of every signature that names its key, those of the window
\* included.
GenuineAccepted ==
    answer.genuine /\ answer.kind = "v2" /\ ~ answer.unread => answer.what = "valid"

\* Whatever was killed, and whoever wrote it last: a whole .sig file of the
\* command line names the very key that signed it, and that key verifies now.
SignaturesResolve ==
    sig.kind = "v2" /\ sig.maker = "cli" => sig.key = sig.by /\ VerifiesWith(registry, sig.by)

\* What a sign or verify command answers is what the audit log says of it,
\* under the key it really used; a command that was refused, or that could not
\* log, has no event.  (One killed answers nothing, and may have its event.)
SignaturesAccounted ==
    answer.who \in Cli /\ answer.what # "interrupted" =>
        LET what == answer.what
            e == answer.entry
        IN  /\ what = "signed" <=> e.action = "SIGN" /\ e.result = "success"
            /\ what = "valid" <=> e.action = "VERIFY" /\ e.result = "success"
            /\ what \in {"invalid", "no key id"} <=> e.result = "denied"
            /\ what = "error" <=> e.result = "error"
            /\ e.result = "success" => Alias(e.key) = answer.by \/ answer.maker = "gui"
=============================================================================
