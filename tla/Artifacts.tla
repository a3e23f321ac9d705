----------------------------- MODULE Artifacts ------------------------------
(***************************************************************************)
(* Those who use keys, on one key directory: the commands and windows that *)
(* sign and verify (Signatures), the agents that encrypt and decrypt text  *)
(* (Pipeline), and the rotations that change the keys under them           *)
(* (KeyDirectory).  The registry is all they share, and of these only a    *)
(* rotation writes it.                                                     *)
(***************************************************************************)
EXTENDS KeyDirectory, Sequences

CONSTANTS
    System,
    Cli, Gui, Users, SignMethods, Chunks, MaxEdits, SignFaults, NoKey,
    Encryptor, Decryptor, People, Signals, Levels, MaxPackages, CallFaults,
    Sites           \* bound: who works at the same time

VARIABLES
    doc, edits, sig, at, job, read, answer,
    packages, provider, call, reply,
    site            \* the processes there are

S == INSTANCE Signatures WITH registry <- registry
P == INSTANCE Pipeline WITH registry <- registry

signing == <<doc, edits, sig, at, job, read>>
calling == <<packages, provider, call>>
vars == <<registry, signing, answer, calling, reply, site>>

Signer == Cli \cup Gui
Agent == Encryptor \cup Decryptor

ASSUME ArtifactsAssumption ==
    /\ S!SignaturesAssumption /\ P!PipelineAssumption
    /\ Sites \subseteq SUBSET (Signer \cup Agent)

Init ==
    /\ registry = NoKeys
    /\ S!SignInit
    /\ P!PipelineInit
    /\ site \in Sites

\* rotate-keys or rotate-enc-keys of all methods, where there is somebody whom
\* it concerns.  (Bound: not of one method alone; a key of one is nothing to
\* the other.)
RotateKeys(use, users) ==
    /\ site \cap users # {}
    /\ LET new == {<<<<m, use>>, NextVersion(registry, <<m, use>>)>> : m \in Methods}
       IN  new \subseteq KeyId /\ Publish(new)
    /\ S!Silent /\ P!Silent
    /\ UNCHANGED <<signing, calling, site>>

SignStep ==
    /\ site \cap Signer # {}
    /\ S!OthersStep \/ \E p \in site \cap Signer : S!SignStep(p)
    /\ P!Silent /\ UNCHANGED <<registry, calling, site>>

CallStep ==
    /\ \E p \in site \cap Agent : P!CallStep(p)
    /\ S!Silent /\ UNCHANGED <<registry, signing, site>>

Next ==
    \/ RotateKeys("enc", Agent) \/ RotateKeys("sign", Signer)
    \/ SignStep \/ CallStep

Spec == Init /\ [][Next]_vars

-----------------------------------------------------------------------------
(* The properties of the two parts, under rotations *)

TypeOK == registry \in Registry /\ S!SignTypeOK /\ P!PipelineTypeOK
NoFalseAlarm == S!NoFalseAlarm
GenuineAccepted == S!GenuineAccepted
SignaturesResolve == S!SignaturesResolve
SignaturesAccounted == S!SignaturesAccounted
PackagesOpen == P!PackagesOpen
DecryptExact == P!DecryptExact
CallsAccounted == P!CallsAccounted
=============================================================================
