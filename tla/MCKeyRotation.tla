---------------------------- MODULE MCKeyRotation ----------------------------
(***************************************************************************)
(* Small instances of KeyRotation for TLC.                                 *)
(***************************************************************************)
EXTENDS KeyRotation, TLC

CONSTANTS r1, r2, s1

Symmetry == Permutations(Rotator)

\* rotate-keys and rotate-enc-keys for every method there is, in the order
\* of the command line's "all".
AllOf(use) ==
    SelectSeq(<<<<"rsa", use>>, <<"ecc", use>>>>, LAMBDA t : t[1] \in Methods)
RotateAll == {AllOf("enc"), AllOf("sign")}
=============================================================================
