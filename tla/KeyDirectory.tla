---------------------------- MODULE KeyDirectory ----------------------------
(***************************************************************************)
(* What the key directory promises to everybody who reads it: a rotation   *)
(* is one step.  It puts new keys in force, at most one of a type, and     *)
(* demotes the ones they replace; nothing else ever happens to a key.      *)
(* (Several at once, because a rotation of both methods whose first save   *)
(* failed publishes both keys with its second.)                            *)
(*                                                                         *)
(* KeyRotation with one rotating process implements this, and the modules  *)
(* of those who use keys are built on it.                                  *)
(***************************************************************************)
EXTENDS Keys

VARIABLE registry   \* key_registry.json

NoKeys == [k \in KeyId |-> "none"]

\* The keys of set S come into force.
Publish(S) ==
    LET old == UNION {ActiveIds(registry, k[1]) : k \in S} IN
    /\ \A k \in S : registry[k] = "none"
    /\ \A j, k \in S : j[1] = k[1] => j = k
    /\ registry' = [k \in KeyId |-> IF k \in S THEN "active"
                                    ELSE IF k \in old THEN Demoted(k[1])
                                    ELSE registry[k]]

\* The keys this step brings into force.
New == {k \in KeyId : registry[k] = "none" /\ registry'[k] # "none"}

DirectorySpec == registry = NoKeys /\ [][New # {} /\ Publish(New)]_registry
=============================================================================
