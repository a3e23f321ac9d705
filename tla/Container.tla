------------------------------ MODULE Container ------------------------------
(***************************************************************************)
(* The header of a streaming container, byte by byte: what                 *)
(* build_signed_region() of spy/container_writer.py writes and             *)
(* read_and_verify_header() of spy/container_reader.py makes of it, in all *)
(* four versions.  No state.                                               *)
(*                                                                         *)
(* A field a header does not have is the empty sequence; both sides refuse *)
(* one that is there and empty.                                            *)
(***************************************************************************)
EXTENDS Integers, Sequences

Byte == 0 .. 255
Bytes == Seq(Byte)
Ascii == Seq(0 .. 127)

Magic == <<83, 86, 83, 84>>  \* "SVST"
RSA == 1
ECC == 2

\* The limits of the writer, and those of the reader that it does not have.
MAX_U16_FIELD_LEN == 65535
MAX_CLASSIFICATION_LEN == 255
MAX_PUBKEY_RAW_LEN == 200
MAX_KEY_ID_LEN == 256

Header ==
    [version : 1 .. 4, key_wrap_id : {RSA, ECC}, sig_method_id : {RSA, ECC},
     wrapped_dek : Bytes, sender_pubkey_raw : Bytes, base_nonce : Bytes,
     key_id : Ascii, sign_key_id : Ascii, classification : Ascii]

\* _VERSIONS_WITH_...
HasKeyId(v) == v \in 2 .. 4
HasSignKeyId(v) == v \in 3 .. 4
HasClassification(v) == v = 4

\* struct.pack(">H", n)
U16(n) == <<n \div 256, n % 256>>

-----------------------------------------------------------------------------
(* Writing *)

\* A field: there and not too long, or not there at all.
Takes(field, present, max) == IF present THEN Len(field) \in 1 .. max ELSE field = <<>>

\* What build_signed_region() accepts.
Writable(h) ==
    /\ h \in Header
    /\ Takes(h.wrapped_dek, TRUE, MAX_U16_FIELD_LEN)
    /\ Takes(h.sender_pubkey_raw, h.key_wrap_id = ECC, MAX_U16_FIELD_LEN)
    /\ Len(h.base_nonce) = 8
    /\ Takes(h.key_id, HasKeyId(h.version), MAX_U16_FIELD_LEN)
    /\ Takes(h.sign_key_id, HasSignKeyId(h.version), MAX_U16_FIELD_LEN)
    /\ Takes(h.classification, HasClassification(h.version), MAX_CLASSIFICATION_LEN)

Fixed(h) == Magic \o <<h.version, h.key_wrap_id, h.sig_method_id, 0>>
Field(field, present) == IF present THEN U16(Len(field)) \o field ELSE <<>>
ShortField(field, present) == IF present THEN <<Len(field)>> \o field ELSE <<>>

Region(h) ==
    Fixed(h) \o Field(h.wrapped_dek, TRUE)
             \o Field(h.sender_pubkey_raw, h.key_wrap_id = ECC)
             \o h.base_nonce
             \o Field(h.key_id, HasKeyId(h.version))
             \o Field(h.sign_key_id, HasSignKeyId(h.version))
             \o ShortField(h.classification, HasClassification(h.version))

-----------------------------------------------------------------------------
(* Reading: s is what is left of the file at some point *)

Front8(s) == SubSeq(s, 1, 8)
After8(s) == SubSeq(s, 9, Len(s))

\* A field after its length of two bytes, or of one.
Length(s) == 256 * s[1] + s[2]
Value(s, present) == IF present THEN SubSeq(s, 3, 2 + Length(s)) ELSE <<>>
After(s, present) == IF present THEN SubSeq(s, 3 + Length(s), Len(s)) ELSE s
Fits(s, present, max) ==
    present => Len(s) >= 2 /\ Length(s) \in 1 .. max /\ Len(s) >= 2 + Length(s)

ShortValue(s, present) == IF present THEN SubSeq(s, 2, 1 + s[1]) ELSE <<>>
ShortAfter(s, present) == IF present THEN SubSeq(s, 2 + s[1], Len(s)) ELSE s
ShortFits(s, present, max) ==
    present => Len(s) >= 1 /\ s[1] \in 1 .. max /\ Len(s) >= 1 + s[1]

\* What follows each field of the file s.
AtPubkey(s) == After(After8(s), TRUE)
AtNonce(s) == After(AtPubkey(s), s[6] = ECC)
AtKeyId(s) == After8(AtNonce(s))
AtSignKeyId(s) == After(AtKeyId(s), HasKeyId(s[5]))
AtClassification(s) == After(AtSignKeyId(s), HasSignKeyId(s[5]))
AtSignature(s) == ShortAfter(AtClassification(s), HasClassification(s[5]))

Parsed(s) ==
    [version |-> s[5], key_wrap_id |-> s[6], sig_method_id |-> s[7],
     wrapped_dek |-> Value(After8(s), TRUE),
     sender_pubkey_raw |-> Value(AtPubkey(s), s[6] = ECC),
     base_nonce |-> Front8(AtNonce(s)),
     key_id |-> Value(AtKeyId(s), HasKeyId(s[5])),
     sign_key_id |-> Value(AtSignKeyId(s), HasSignKeyId(s[5])),
     classification |-> ShortValue(AtClassification(s), HasClassification(s[5]))]

\* The header parses, up to its signature: no field is cut off, too long or not what it must be.
Parses(s) ==
    /\ Len(s) >= 8 /\ SubSeq(s, 1, 4) = Magic
    /\ s[5] \in 1 .. 4 /\ s[6] \in {RSA, ECC} /\ s[7] \in {RSA, ECC} /\ s[8] = 0
    /\ Fits(After8(s), TRUE, MAX_U16_FIELD_LEN)
    /\ Fits(AtPubkey(s), s[6] = ECC, MAX_PUBKEY_RAW_LEN)
    /\ Len(AtNonce(s)) >= 8
    /\ Fits(AtKeyId(s), HasKeyId(s[5]), MAX_KEY_ID_LEN)
    /\ Fits(AtSignKeyId(s), HasSignKeyId(s[5]), MAX_KEY_ID_LEN)
    /\ ShortFits(AtClassification(s), HasClassification(s[5]), MAX_CLASSIFICATION_LEN)
    /\ Parsed(s) \in Header

\* The limits of the reader that the writer does not have.
WithinLimits(h) ==
    /\ Len(h.sender_pubkey_raw) <= MAX_PUBKEY_RAW_LEN
    /\ Len(h.key_id) <= MAX_KEY_ID_LEN /\ Len(h.sign_key_id) <= MAX_KEY_ID_LEN
=============================================================================
