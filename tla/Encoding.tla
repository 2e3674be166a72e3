------------------------------ MODULE Encoding ------------------------------
(***************************************************************************)
(* The encodings of the library: base64.c, asn1parse.c and asn1write.c.    *)
(* Bytes are 0..255.  A reader takes the bytes from p to end and gives     *)
(* what it read and the bytes that are left; a call that fails gives Bad,  *)
(* and every error code is the same failure.  A writer gives the bytes it  *)
(* puts in front of what is written already, and fails if and only if      *)
(* they do not fit the room before p (Put).                                *)
(***************************************************************************)
EXTENDS Integers, Sequences

LOCAL SX == INSTANCE SequencesExt

Bad == [ok |-> FALSE]
Drop(s, n) == SubSeq(s, n + 1, Len(s))
Take(s, n) == SubSeq(s, 1, n)

-----------------------------------------------------------------------------
(* Base64.  A character of the alphabet is its value, base64_dec_map.      *)

PAD == 64     \* '='
LF == 65
CR == 66
SPACE == 67
UNKNOWN == 68 \* any other character

\* base64_encode
Base64Encode(src) ==
  LET C(i) == IF i \in DOMAIN src THEN src[i] ELSE 0
      four(q) == LET i == 3 * q + 1
                     x == C(i) * 65536 + C(i + 1) * 256 + C(i + 2)
                 IN << x \div 262144, (x \div 4096) % 64,
                       IF i + 1 \in DOMAIN src THEN (x \div 64) % 64 ELSE PAD,
                       IF i + 2 \in DOMAIN src THEN x % 64 ELSE PAD >>
  IN SX!FlattenSeq([q \in 1..((Len(src) + 2) \div 3) |-> four(q - 1)])

\* The first pass of base64_decode: the characters that count, or none.
RECURSIVE Counted(_, _, _)
Counted(src, j, n) ==
  LET spaces == SX!Max({0} \cup {k \in DOMAIN src : \A i \in 1..k : src[i] = SPACE})
      at == Drop(src, spaces)
      c == at[1]
  IN IF at = <<>> THEN [ok |-> TRUE, n |-> n, j |-> j]
     ELSE IF Len(at) >= 2 /\ c = CR /\ at[2] = LF THEN Counted(Drop(at, 1), j, n)
     ELSE IF c = LF THEN Counted(Drop(at, 1), j, n)
     ELSE IF spaces > 0 \/ c > PAD \/ (c = PAD /\ j = 2) \/ (c < PAD /\ j > 0) THEN Bad
     ELSE Counted(Drop(at, 1), IF c = PAD THEN j + 1 ELSE j, n + 1)

\* The second pass: three bytes of every four characters, less one for each '='.
RECURSIVE Decoded(_, _)
Decoded(chars, j) ==
  IF Len(chars) < 4 THEN <<>>
  ELSE LET pads == j + Len(SelectSeq(Take(chars, 4), LAMBDA c : c = PAD))
           v(i) == chars[i] % 64
           x == ((v(1) * 64 + v(2)) * 64 + v(3)) * 64 + v(4)
       IN Take(<<x \div 65536, (x \div 256) % 256, x % 256>>, 3 - pads)
            \o Decoded(Drop(chars, 4), pads)

\* base64_decode into room bytes
Base64Decode(src, room) ==
  LET first == Counted(src, 0, 0)
  IN IF ~first.ok THEN Bad
     ELSE IF first.n > 0 /\ room < (first.n * 6 + 7) \div 8 - first.j THEN Bad
     ELSE [ok |-> TRUE,
           out |-> Decoded(SelectSeq(src, LAMBDA c : c \notin {CR, LF, SPACE}), 0)]

-----------------------------------------------------------------------------
(* Reading ASN.1                                                           *)

BOOL == 1
INTEGER == 2
BIT_STRING == 3
OCTET_STRING == 4
NULL == 5
OID == 6
PRINTABLE_STRING == 19
IA5_STRING == 22
SEQUENCE == 48          \* ASN1_SEQUENCE | ASN1_CONSTRUCTED
CONTEXT(n) == 160 + n   \* ASN1_CONTEXT_SPECIFIC | ASN1_CONSTRUCTED | n

\* The number that bytes stand for; one of more than two bytes is just too
\* long for any buffer here.
Count(bytes) ==
  SX!FoldLeft(LAMBDA n, b : IF n > 65535 THEN n ELSE n * 256 + b, 0, bytes)

\* asn1_get_len: rest begins with the contents.
GetLen(s) ==
  LET more == IF s = <<>> \/ s[1] < 128 THEN 0 ELSE s[1] - 128
      n == IF more = 0 THEN s[1] ELSE Count(SubSeq(s, 2, 1 + more))
      rest == Drop(s, 1 + more)
  IN IF s = <<>> \/ s[1] = 128 \/ more > 4 \/ Len(s) < 1 + more THEN Bad
     ELSE IF n > Len(rest) THEN Bad ELSE [ok |-> TRUE, len |-> n, rest |-> rest]

\* asn1_get_tag
GetTag(s, tag) ==
  IF s = <<>> \/ s[1] # tag THEN Bad ELSE GetLen(Drop(s, 1))

\* asn1_get_tag and the contents it promises, as most callers use it.
GetBody(s, tag) ==
  LET t == GetTag(s, tag)
  IN IF ~t.ok THEN Bad
     ELSE [ok |-> TRUE, val |-> Take(t.rest, t.len), rest |-> Drop(t.rest, t.len)]

\* asn1_get_bool
GetBool(s) ==
  LET t == GetTag(s, BOOL)
  IN IF ~t.ok \/ t.len # 1 THEN Bad
     ELSE [ok |-> TRUE, val |-> t.rest[1] # 0, rest |-> Drop(t.rest, 1)]

\* asn1_get_int: of an empty number the byte that follows is looked at.
GetInt(s) ==
  LET t == GetTag(s, INTEGER)
  IN IF ~t.ok THEN Bad
     ELSE IF t.len > 4 \/ (t.rest # <<>> /\ t.rest[1] >= 128) THEN Bad
     ELSE [ok |-> TRUE, val |-> Take(t.rest, t.len), rest |-> Drop(t.rest, t.len)]

\* mpi_read_binary: the bytes without the zeros in front.
Significant(bytes) ==
  Drop(bytes, SX!Max({0} \cup {k \in DOMAIN bytes : \A i \in 1..k : bytes[i] = 0}))

\* asn1_get_mpi: the sign is not looked at.
GetMpi(s) ==
  LET b == GetBody(s, INTEGER)
  IN IF ~b.ok THEN Bad ELSE [b EXCEPT !.val = Significant(@)]

\* asn1_get_bitstring
GetBitstring(s) ==
  LET b == GetBody(s, BIT_STRING)
  IN IF ~b.ok THEN Bad
     ELSE IF b.val = <<>> THEN Bad
     ELSE IF b.val[1] > 7 \/ b.rest # <<>> THEN Bad
     ELSE [ok |-> TRUE, unused |-> b.val[1], val |-> Drop(b.val, 1)]

\* asn1_get_bitstring_null: rest begins with the bits.
GetBitstringNull(s) ==
  LET t == GetTag(s, BIT_STRING)
  IN IF ~t.ok THEN Bad
     ELSE IF t.len < 2 THEN Bad
     ELSE IF t.rest[1] # 0 THEN Bad
     ELSE [ok |-> TRUE, len |-> t.len - 1, rest |-> Drop(t.rest, 1)]

\* asn1_get_sequence_of: the contents of the elements.
GetSequenceOf(s, tag) ==
  LET t == GetBody(s, SEQUENCE)
      RECURSIVE Elements(_)
      Elements(p) ==
        LET e == GetBody(p, tag)
            more == Elements(e.rest)
        IN IF p = <<>> THEN [ok |-> TRUE, list |-> <<>>]
           ELSE IF ~e.ok THEN Bad
           ELSE IF ~more.ok THEN Bad
           ELSE [ok |-> TRUE, list |-> <<e.val>> \o more.list]
  IN IF ~t.ok THEN Bad ELSE IF t.rest # <<>> THEN Bad ELSE Elements(t.val)

\* asn1_get_alg: an identifier and parameters of any type, <<>> for none.
GetAlg(s) ==
  LET t == GetBody(s, SEQUENCE)
      alg == GetBody(t.val, OID)
      params == GetLen(Drop(alg.rest, 1))
  IN IF ~t.ok THEN Bad
     ELSE IF ~alg.ok THEN Bad
     ELSE IF alg.rest = <<>>
     THEN [ok |-> TRUE, alg |-> alg.val, tag |-> 0, params |-> <<>>, rest |-> t.rest]
     ELSE IF ~params.ok THEN Bad
     ELSE IF params.len # Len(params.rest) THEN Bad
     ELSE [ok |-> TRUE, alg |-> alg.val, tag |-> alg.rest[1],
           params |-> params.rest, rest |-> t.rest]

\* asn1_get_alg_null
GetAlgNull(s) ==
  LET a == GetAlg(s)
  IN IF ~a.ok THEN Bad
     ELSE IF a.tag \notin {0, NULL} \/ a.params # <<>> THEN Bad ELSE a

-----------------------------------------------------------------------------
(* Writing ASN.1                                                           *)

\* What a writer leaves in a buffer with this room before p.
Put(room, bytes, out) == IF Len(bytes) > room THEN Bad ELSE [ok |-> TRUE, out |-> bytes \o out]

\* Mutant of WriteLen: a length of 128 is taken for a short one.
WriteLenLong(len) ==
  IF len <= 128 THEN <<len>>
  ELSE IF len <= 255 THEN <<129, len>>
  ELSE <<130, (len \div 256) % 256, len % 256>>

\* asn1_write_len
WriteLen(len) ==
  IF len < 128 THEN <<len>>
  ELSE IF len <= 255 THEN <<129, len>>
  ELSE <<130, (len \div 256) % 256, len % 256>>

\* asn1_write_tag after asn1_write_len, as all writers end.
Tagged(tag, body) == <<tag>> \o WriteLen(Len(body)) \o body

\* asn1_write_mpi: a zero has no bytes, and the byte that follows it is looked at.
WriteMpi(x, out) ==
  LET follows == x \o out
  IN Tagged(INTEGER, IF follows # <<>> /\ follows[1] >= 128 THEN <<0>> \o x ELSE x)

WriteNull == Tagged(NULL, <<>>)
WriteOid(oid) == Tagged(OID, oid)

\* asn1_write_algorithm_identifier, par being what is written already.
WriteAlg(oid, par) ==
  Tagged(SEQUENCE, WriteOid(oid) \o IF par = <<>> THEN WriteNull ELSE par)

WriteBool(b) == Tagged(BOOL, <<IF b THEN 1 ELSE 0>>)

\* asn1_write_int: one byte of the value.
WriteInt(val) ==
  Tagged(INTEGER, IF val > 0 /\ val % 256 >= 128 THEN <<0, val % 256>> ELSE <<val % 256>>)

\* asn1_write_bitstring
WriteBitstring(buf, bits) ==
  LET size == (bits + 7) \div 8
  IN Tagged(BIT_STRING, <<size * 8 - bits>> \o Take(buf, size))

WriteOctetString(buf) == Tagged(OCTET_STRING, buf)
WritePrintableString(text) == Tagged(PRINTABLE_STRING, text)
WriteIa5String(text) == Tagged(IA5_STRING, text)

-----------------------------------------------------------------------------
(* Lists of named data: pairs of an identifier and a value                 *)

\* asn1_find_named_data: where it is, or 0.
FindNamedData(list, oid) ==
  SX!Max({0} \cup {i \in DOMAIN list : list[i].oid = oid /\ \A j \in 1..(i - 1) : list[j].oid # oid})

\* asn1_store_named_data: a value that is no longer than the one it replaces
\* is written over its beginning, and the length stays.
StoreNamedData(list, oid, val) ==
  LET i == FindNamedData(list, oid)
  IN IF i = 0 THEN <<[oid |-> oid, val |-> val]>> \o list
     ELSE [list EXCEPT ![i].val = val \o Drop(@, Len(val))]
=============================================================================
