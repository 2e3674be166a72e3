------------------------------ MODULE RecordLayer ------------------------------
(***************************************************************************)
(* The records of ssl_tls.c: a message goes through ssl_write_record into  *)
(* bytes and comes back through ssl_fetch_input and ssl_read_record, in    *)
(* the clear or protected by a transform of the stream, CBC or             *)
(* authenticated kind, in SSL 3.0 (minor version 0) to TLS 1.2 (3).        *)
(*                                                                         *)
(* One direction d of a connection is a record: the counter, the iv, the   *)
(* bytes of key stream used, the empty messages in a row, and the          *)
(* transform tr.  Byte is the number of values of a byte: a small one lets *)
(* every plaintext be tried.                                               *)
(***************************************************************************)
EXTENDS Integers, Sequences, Words

CONSTANTS
  Byte,               \* 256
  MaxContent,         \* SSL_MAX_CONTENT_LEN
  BufferLen,          \* SSL_BUFFER_LEN
  Handshake,          \* the types of a record
  Types,              \* all of them
  Hash(_), Hmac(_, _),
  Block(_, _, _),     \* Block(key, op, b): encrypted (1) or decrypted (0)
  Stream(_, _),       \* Stream(key, n): byte n of the key stream
  Seal(_, _, _, _),   \* Seal(key, iv, add, text): with its tag
  Open(_, _, _, _)    \* Open(key, iv, add, sealed): [ok, out]

Bad(err) == [ok |-> FALSE, err |-> err]

-----------------------------------------------------------------------------
(* The lengths of a transform.                                             *)

Authenticated(mode) == mode = "AEAD"
ExplicitIv(tr) ==
  IF Authenticated(tr.mode) THEN tr.ivlen - tr.fixed_ivlen
  ELSE IF tr.mode = "CBC" /\ tr.ver >= 2 THEN tr.ivlen ELSE 0

\* iv_size is the block size in CBC mode.
Transform(mode, ver, mac, maclen, key, iv_size, taglen) ==
  LET ivlen == IF Authenticated(mode) THEN 3 ELSE iv_size
      kept == IF Authenticated(mode) THEN 0 ELSE maclen
  IN [mode |-> mode, ver |-> ver, mac |-> mac, key |-> key, taglen |-> taglen,
      maclen |-> kept, ivlen |-> ivlen, fixed_ivlen |-> IF Authenticated(mode) THEN 1 ELSE 0,
      minlen |-> CASE Authenticated(mode) -> 2 + taglen
                   [] mode = "STREAM" -> kept
                   [] OTHER -> kept + iv_size - (kept % iv_size) + (IF ver >= 2 THEN ivlen ELSE 0)]

Direction(tr, ctr, iv) == [tr |-> tr, ctr |-> ctr, iv |-> iv, used |-> 0, nb_zero |-> 0]

-----------------------------------------------------------------------------
(* Counters and MACs.                                                      *)

RECURSIVE Up(_)
Up(ctr) == IF ctr = <<>> THEN <<>>
           ELSE LET n == Len(ctr)
                    last == (ctr[n] + 1) % Byte
                IN Append(IF last = 0 THEN Up(Take(ctr, n - 1)) ELSE Take(ctr, n - 1), last)
Wraps(ctr) == \A i \in DOMAIN ctr : ctr[i] = Byte - 1

Length(n) == <<n \div Byte, n % Byte>>
OfLength(b) == (b[1] * Byte) + b[2]

\* ssl_mac
Ssl3Mac(secret, ctr, type, msg) ==
  Hash(secret \o <<2>> \o Hash(secret \o <<1>> \o ctr \o <<type>> \o Length(Len(msg)) \o msg))
\* The MAC both ends compute; in TLS it covers the version of the record.
MacOf(d, type, ver, msg) ==
  Take(IF d.tr.ver = 0 THEN Ssl3Mac(d.tr.mac, d.ctr, type, msg)
       ELSE Hmac(d.tr.mac, d.ctr \o <<type, 3 % Byte, ver>> \o Length(Len(msg)) \o msg),
       d.tr.maclen)
AddData(d, type, n) == d.ctr \o <<type, 3 % Byte, d.tr.ver>> \o Length(n)

\* cipher_crypt, in the modes of records.
RECURSIVE CbcOut(_)
CbcOut(s) ==
  IF s.rest = <<>> THEN s
  ELSE LET b == Take(s.rest, Len(s.iv))
           c == IF s.op = 1 THEN Block(s.key, 1, XorBytes(b, s.iv))
                ELSE XorBytes(Block(s.key, 0, b), s.iv)
       IN CbcOut([s EXCEPT !.rest = Drop(@, Len(s.iv)), !.out = @ \o c,
                           !.iv = IF s.op = 1 THEN c ELSE b])
Chained(d, op, text) == CbcOut([op |-> op, key |-> d.tr.key, iv |-> d.iv, rest |-> text, out |-> <<>>])
Streamed(d, text) ==
  Strict([i \in 1..Len(text) |-> XorN(text[i], Stream(d.tr.key, d.used + i))])

-----------------------------------------------------------------------------
(* ssl_encrypt_buf.  iv is what the generator gives for the record.        *)

\* padlen bytes and one that tells padlen, all of the value padlen.
Padding(n, ivlen) ==
  LET over == ivlen - ((n + 1) % ivlen)
      padlen == IF over = ivlen THEN 0 ELSE over
  IN [i \in 1..(padlen + 1) |-> padlen]

EncryptBuf(d, type, msg, iv) ==
  LET tr == d.tr
      maced == msg \o MacOf(d, type, tr.ver, msg)
      padded == maced \o Padding(Len(maced), tr.ivlen)
      full == Take(d.iv, tr.fixed_ivlen) \o iv
      from == IF tr.ver >= 2 THEN [d EXCEPT !.iv = iv] ELSE d
      chained == Chained(from, 1, padded)
      r == CASE tr.mode = "STREAM" ->
                  [out |-> Streamed(d, maced), d |-> [d EXCEPT !.used = @ + Len(maced)]]
             [] tr.mode = "AEAD" ->
                  [out |-> iv \o Seal(tr.key, full, AddData(d, type, Len(msg)), msg),
                   d |-> [d EXCEPT !.iv = full]]
             [] OTHER ->
                  [out |-> (IF tr.ver >= 2 THEN iv ELSE <<>>) \o chained.out,
                   d |-> IF tr.ver < 2 THEN [d EXCEPT !.iv = chained.iv] ELSE from]
  IN IF Wraps(d.ctr) THEN Bad("COUNTER_WRAPPING")
     ELSE [ok |-> TRUE, out |-> r.out, d |-> [r.d EXCEPT !.ctr = Up(d.ctr)]]

-----------------------------------------------------------------------------
(* ssl_decrypt_buf.                                                        *)

Unpadded(tr, text) ==
  LET n == Len(text)
      told == 1 + text[n]
      fits == n >= tr.maclen + told
      padlen == IF fits THEN told ELSE 0
      counted == /\ fits
                 /\ n >= padlen + 1
                 /\ n - padlen - 1 < MaxContent + tr.maclen
                 /\ \A i \in 1..padlen : text[n - padlen + i] = padlen - 1
  IN IF tr.ver = 0 THEN [padlen |-> padlen, correct |-> fits /\ padlen <= tr.ivlen]
     ELSE [padlen |-> IF counted THEN padlen ELSE 0, correct |-> counted]

\* The MAC is computed however wrong the padding was.
Authentic(d, type, ver, text, padlen, correct) ==
  LET n == Len(text) - d.tr.maclen - padlen
      msg == Take(text, n)
  IN IF correct /\ SubSeq(text, n + 1, n + d.tr.maclen) = MacOf(d, type, ver, msg)
     THEN [ok |-> TRUE, out |-> msg] ELSE Bad("INVALID_MAC")

Counting(d, msg) ==
  LET zero == IF msg = <<>> THEN d.nb_zero + 1 ELSE 0
  IN IF zero > 3 THEN Bad("INVALID_MAC")
     ELSE IF Wraps(d.ctr) THEN Bad("COUNTER_WRAPPING")
     ELSE [ok |-> TRUE, out |-> msg, d |-> [d EXCEPT !.nb_zero = zero, !.ctr = Up(d.ctr)]]

DecryptStream(d, type, ver, text) ==
  Authentic(d, type, ver, Streamed(d, text), 0, TRUE)
DecryptAead(d, type, text) ==
  LET iv == ExplicitIv(d.tr)
      n == Len(text) - iv - d.tr.taglen
      full == Take(d.iv, d.tr.fixed_ivlen) \o Take(text, iv)
      r == Open(d.tr.key, full, AddData(d, type, n), Drop(text, iv))
  IN IF n < 0 \/ ~r.ok THEN Bad("INVALID_MAC") ELSE r
DecryptCbc(d, type, ver, text) ==
  LET tr == d.tr
      iv == ExplicitIv(tr)
      from == IF iv > 0 THEN [d EXCEPT !.iv = Take(text, iv)] ELSE d
      plain == Chained(from, 0, Drop(text, iv)).out
      u == Unpadded(tr, plain)
  IN IF Len(text) % tr.ivlen # 0 \/ Len(text) < iv + tr.ivlen \/ Len(text) < iv + tr.maclen + 1
     THEN Bad("INVALID_MAC")
     ELSE Authentic(d, type, ver, plain, u.padlen, u.correct)

DecryptBuf(d, type, ver, text) ==
  LET tr == d.tr
      r == CASE tr.mode = "STREAM" -> DecryptStream(d, type, ver, text)
             [] tr.mode = "AEAD" -> DecryptAead(d, type, text)
             [] OTHER -> DecryptCbc(d, type, ver, text)
      last == Drop(text, Len(text) - tr.ivlen)
      next == CASE tr.mode = "STREAM" -> [d EXCEPT !.used = @ + Len(text)]
                [] tr.mode = "CBC" /\ tr.ver < 2 -> [d EXCEPT !.iv = last]
                [] OTHER -> d
  IN IF Len(text) < tr.minlen \/ ~r.ok THEN Bad("INVALID_MAC") ELSE Counting(next, r.out)

-----------------------------------------------------------------------------
(* ssl_write_record and ssl_read_record; tr is NONE in the clear.          *)

NONE == [mode |-> "NONE"]
Clear(d) == d.tr.mode = "NONE"

\* The length of a handshake message stands in its header.
Headed(type, msg) ==
  IF type = Handshake
  THEN <<msg[1], 0>> \o Length(Len(msg) - 4) \o Drop(msg, 4) ELSE msg

WriteRecord(d, minor_ver, type, msg, iv) ==
  LET m == Headed(type, msg)
      r == IF Clear(d) THEN [ok |-> TRUE, out |-> m, d |-> d] ELSE EncryptBuf(d, type, m, iv)
  IN IF ~r.ok THEN r
     ELSE [r EXCEPT !.out = <<type, 3 % Byte, minor_ver>> \o Length(Len(r.out)) \o r.out]

\* The header of a record that may be read on.
HeaderOk(d, max_minor_ver, hdr) ==
  LET n == OfLength(Drop(hdr, 3))
  IN /\ hdr[2] = 3 % Byte
     /\ hdr[3] <= max_minor_ver
     /\ n >= 1 /\ n <= BufferLen - 13
     /\ IF Clear(d) THEN n <= MaxContent
        ELSE /\ n >= d.tr.minlen
             /\ n <= d.tr.minlen + MaxContent + (IF d.tr.ver = 0 THEN 0 ELSE Byte)

\* The first handshake message of a record has the length it tells; what is
\* behind it is the next one, which ssl_read_record gives when it is called again.
MessageOk(msg) == Len(msg) >= 4 /\ msg[2] = 0 /\ Len(msg) >= 4 + OfLength(Drop(msg, 2))
RECURSIVE Messages(_)
Messages(msg) ==
  IF ~MessageOk(msg) THEN <<Bad("INVALID_RECORD")>>
  ELSE LET n == 4 + OfLength(Drop(msg, 2))
       IN <<[ok |-> TRUE, out |-> Take(msg, n)]>>
          \o (IF n < Len(msg) THEN Messages(Drop(msg, n)) ELSE <<>>)

ReadRecord(d, max_minor_ver, bytes) ==
  LET hdr == Take(bytes, 5)
      text == Drop(bytes, 5)
      r == IF Clear(d) THEN [ok |-> TRUE, out |-> text, d |-> d]
           ELSE DecryptBuf(d, hdr[1], hdr[3], text)
  IN CASE ~HeaderOk(d, max_minor_ver, hdr) -> Bad("INVALID_RECORD")
       [] ~r.ok -> r
       [] Len(r.out) > MaxContent \/ hdr[1] \notin Types -> Bad("INVALID_RECORD")
       [] hdr[1] = Handshake /\ ~MessageOk(r.out) -> Bad("INVALID_RECORD")
       [] OTHER -> r

-----------------------------------------------------------------------------
(* ssl_fetch_input and ssl_flush_output: calls of f_recv and f_send that   *)
(* move as much as the script says, and nothing at a 0 (try again later).  *)
(* s.in_left bytes are there; the caller comes back until all are.         *)

RECURSIVE FetchInput(_)
FetchInput(s) ==
  IF s.want > BufferLen - 8 \/ s.buf >= s.want \/ s.script = <<>> THEN s
  ELSE LET most == s.want - s.buf
           got == IF Head(s.script) < most THEN Head(s.script) ELSE most
       IN FetchInput([s EXCEPT !.buf = @ + got, !.script = Tail(@)])

\* The header first, and then as much as it tells: in bytes of the stream.
Fetch(stream, script) ==
  LET h == FetchInput([buf |-> 0, want |-> 5, script |-> script])
      n == OfLength(SubSeq(stream, 4, 5))
      b == FetchInput([h EXCEPT !.want = 5 + n])
  IN IF h.buf < 5 \/ b.buf < 5 + n THEN <<>> ELSE Take(stream, b.buf)

\* f_send is called at out_hdr + 5 + out_msglen - out_left.
RECURSIVE FlushOutput(_)
FlushOutput(s) ==
  IF s.out_left = 0 \/ s.script = <<>> THEN s.sent
  ELSE LET n == IF Head(s.script) < s.out_left THEN Head(s.script) ELSE s.out_left
           at == Len(s.record) - s.out_left
       IN FlushOutput([s EXCEPT !.sent = @ \o SubSeq(s.record, at + 1, at + n),
                                !.out_left = @ - n, !.script = Tail(@)])
Flush(record, script) ==
  FlushOutput([record |-> record, sent |-> <<>>, out_left |-> Len(record), script |-> script])
=============================================================================
