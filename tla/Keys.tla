-------------------------------- MODULE Keys --------------------------------
(***************************************************************************)
(* Key ids, the life of a key, and what spy/key_registry.py and the        *)
(* rotate_* functions do to a registry object.  No state: the modules of   *)
(* rotation, signatures and the pipeline extend this one.                  *)
(***************************************************************************)
EXTENDS Integers, FiniteSetsExt

CONSTANTS
    Methods,    \* bound: "rsa", "ecc" or both
    MaxKeys     \* bound on the number of an encryption key, the version of a signing key

Type == Methods \X {"enc", "sign"}
KeyId == Type \X (1 .. MaxKeys)

Status == {"none", "active", "decrypt-only", "retired", "revoked"}
Registry == [KeyId -> Status]

\* get_active_key_id
ActiveIds(r, t) == {k \in KeyId : k[1] = t /\ r[k] = "active"}

\* load() refuses a registry with two active keys of one type.
Valid(r) == \A t \in Type : \A j, k \in ActiveIds(r, t) : j = k

\* Bug: the version that is there, not the one after it.
LatestVersion(r, t) == Max({1} \cup {k[2] : k \in {k \in KeyId : k[1] = t /\ r[k] # "none"}})

\* next_sign_version
NextVersion(r, t) ==
    1 + Max({0} \cup {k[2] : k \in {k \in KeyId : k[1] = t /\ r[k] # "none"}})

\* Bug: a status that load() does not know.
DemotedUnknown(t) == "deprecated"

Demoted(t) == IF t[2] = "enc" THEN "decrypt-only" ELSE "retired"

\* Bug: the old key is not demoted.
RotatedKeepingOld(r, k) == [r EXCEPT ![k] = "active"]

\* set_status on the old active key, then register() of the new one.
Rotated(r, k) ==
    [j \in KeyId |-> IF j = k THEN "active"
                     ELSE IF j \in ActiveIds(r, k[1]) THEN Demoted(k[1]) ELSE r[j]]

\* _check_decrypt_allowed, and the status rule of get_signing_public_key.
Decrypts(r, k) == r[k] \in {"active", "decrypt-only", "retired"}
VerifiesWith(r, k) == r[k] \in {"active", "retired"}
=============================================================================
