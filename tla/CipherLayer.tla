------------------------------ MODULE CipherLayer ------------------------------
(***************************************************************************)
(* cipher.c and cipher_wrap.c: the ciphers behind one interface, their     *)
(* table, the caching of blocks between calls and the paddings.            *)
(*                                                                         *)
(* A context is a record: what the table says of the cipher, the way it    *)
(* goes, its padding, its iv, the bytes of CBC that wait for a block       *)
(* (unprocessed), and for CFB and CTR the place in the block that is in    *)
(* use (off) and that block.  A call answers whether it worked, the        *)
(* context after it and what it has put out.                               *)
(***************************************************************************)
EXTENDS Ciphers

MAX_IV_LENGTH == 16

Refused == [ok |-> FALSE]
Schedule(cipher, ctx) == [ok |-> TRUE, cipher |-> cipher, ctx |-> ctx]
Checked(cipher, s) == IF s.ok THEN Schedule(cipher, s) ELSE Refused

-----------------------------------------------------------------------------
(* cipher_wrap.c                                                           *)

AesCryptEcbWrap(key, op, b) == AesCryptEcb(key.ctx, op, b)
AesCryptCbcWrap(key, op, iv, input) == AesCryptCbc(key, op, iv, input)
AesCryptCfb128Wrap(key, op, off, iv, input) == AesCryptCfb128(key, op, off, iv, input)
AesCryptCtrWrap(key, off, counter, block, input) == AesCryptCtr(key, off, counter, block, input)
AesSetkeyDecWrap(key) == Checked("AES", AesSetkeyDec(key))
AesSetkeyEncWrap(key) == Checked("AES", AesSetkeyEnc(key))
GcmAesSetkeyWrap(key) == Checked("AES", AesSetkeyEnc(key))
CcmAesSetkeyWrap(key) == Checked("AES", AesSetkeyEnc(key))

CamelliaCryptEcbWrap(key, op, b) == CamelliaCryptEcb(key.ctx, b)
CamelliaCryptCbcWrap(key, op, iv, input) == CamelliaCryptCbc(key, op, iv, input)
CamelliaCryptCfb128Wrap(key, op, off, iv, input) == CamelliaCryptCfb128(key, op, off, iv, input)
CamelliaCryptCtrWrap(key, off, counter, block, input) ==
  CamelliaCryptCtr(key, off, counter, block, input)
CamelliaSetkeyDecWrap(key) == Checked("CAMELLIA", CamelliaSetkeyDec(key))
CamelliaSetkeyEncWrap(key) == Checked("CAMELLIA", CamelliaSetkeyEnc(key))
GcmCamelliaSetkeyWrap(key) == Checked("CAMELLIA", CamelliaSetkeyEnc(key))
CcmCamelliaSetkeyWrap(key) == Checked("CAMELLIA", CamelliaSetkeyEnc(key))

DesCryptEcbWrap(key, op, b) == DesCryptEcb(key.ctx, b)
Des3CryptEcbWrap(key, op, b) == Des3CryptEcb(key.ctx, b)
DesCryptCbcWrap(key, op, iv, input) == DesCryptCbc(key, op, iv, input)
Des3CryptCbcWrap(key, op, iv, input) == Des3CryptCbc(key, op, iv, input)
DesSetkeyDecWrap(key) == Schedule("DES", DesSetkeyDec(key))
DesSetkeyEncWrap(key) == Schedule("DES", DesSetkeyEnc(key))
Des3Set2keyDecWrap(key) == Schedule("3DES", Des3Set2keyDec(key))
Des3Set2keyEncWrap(key) == Schedule("3DES", Des3Set2keyEnc(key))
Des3Set3keyDecWrap(key) == Schedule("3DES", Des3Set3keyDec(key))
Des3Set3keyEncWrap(key) == Schedule("3DES", Des3Set3keyEnc(key))

BlowfishCryptEcbWrap(key, op, b) == BlowfishCryptEcb(key.ctx, op, b)
BlowfishCryptCbcWrap(key, op, iv, input) == BlowfishCryptCbc(key, op, iv, input)
BlowfishCryptCfb64Wrap(key, op, off, iv, input) == BlowfishCryptCfb64(key, op, off, iv, input)
BlowfishCryptCtrWrap(key, off, counter, block, input) ==
  BlowfishCryptCtr(key, off, counter, block, input)
BlowfishSetkeyWrap(key) ==
  LET s == BlowfishSetkey(key) IN IF s.ok THEN Schedule("BLOWFISH", s.ctx) ELSE Refused

Arc4CryptStreamWrap(key, input) == Arc4Crypt(key.ctx, input)
Arc4SetkeyWrap(key) == Schedule("ARC4", Arc4Setup(key))

NullCryptStream(key, input) == [ctx |-> key.ctx, out |-> input]
NullSetkey(key) == Schedule("NULL", 0)

\* The functions of a cipher_base_t.  Those that are NULL are never reached.
EcbFunc(base, key, op, b) ==
  CASE base = "AES" -> AesCryptEcbWrap(key, op, b)
    [] base = "CAMELLIA" -> CamelliaCryptEcbWrap(key, op, b)
    [] base = "DES" -> DesCryptEcbWrap(key, op, b)
    [] base \in {"DES_EDE", "DES_EDE3"} -> Des3CryptEcbWrap(key, op, b)
    [] base = "BLOWFISH" -> BlowfishCryptEcbWrap(key, op, b)
CbcFunc(base, key, op, iv, input) ==
  CASE base = "AES" -> AesCryptCbcWrap(key, op, iv, input)
    [] base = "CAMELLIA" -> CamelliaCryptCbcWrap(key, op, iv, input)
    [] base = "DES" -> DesCryptCbcWrap(key, op, iv, input)
    [] base \in {"DES_EDE", "DES_EDE3"} -> Des3CryptCbcWrap(key, op, iv, input)
    [] base = "BLOWFISH" -> BlowfishCryptCbcWrap(key, op, iv, input)
CfbFunc(base, key, op, off, iv, input) ==
  CASE base = "AES" -> AesCryptCfb128Wrap(key, op, off, iv, input)
    [] base = "CAMELLIA" -> CamelliaCryptCfb128Wrap(key, op, off, iv, input)
    [] base = "BLOWFISH" -> BlowfishCryptCfb64Wrap(key, op, off, iv, input)
CtrFunc(base, key, off, counter, block, input) ==
  CASE base = "AES" -> AesCryptCtrWrap(key, off, counter, block, input)
    [] base = "CAMELLIA" -> CamelliaCryptCtrWrap(key, off, counter, block, input)
    [] base = "BLOWFISH" -> BlowfishCryptCtrWrap(key, off, counter, block, input)
StreamFunc(base, key, input) ==
  IF base = "ARC4" THEN Arc4CryptStreamWrap(key, input) ELSE NullCryptStream(key, input)
SetkeyEncFunc(base, key) ==
  CASE base = "AES" -> AesSetkeyEncWrap(key)
    [] base = "GCM_AES" -> GcmAesSetkeyWrap(key)
    [] base = "CCM_AES" -> CcmAesSetkeyWrap(key)
    [] base = "CAMELLIA" -> CamelliaSetkeyEncWrap(key)
    [] base = "GCM_CAMELLIA" -> GcmCamelliaSetkeyWrap(key)
    [] base = "CCM_CAMELLIA" -> CcmCamelliaSetkeyWrap(key)
    [] base = "DES" -> DesSetkeyEncWrap(key)
    [] base = "DES_EDE" -> Des3Set2keyEncWrap(key)
    [] base = "DES_EDE3" -> Des3Set3keyEncWrap(key)
    [] base = "BLOWFISH" -> BlowfishSetkeyWrap(key)
    [] base = "ARC4" -> Arc4SetkeyWrap(key)
    [] base = "NULL" -> NullSetkey(key)
SetkeyDecFunc(base, key) ==
  CASE base = "AES" -> AesSetkeyDecWrap(key)
    [] base = "CAMELLIA" -> CamelliaSetkeyDecWrap(key)
    [] base = "DES" -> DesSetkeyDecWrap(key)
    [] base = "DES_EDE" -> Des3Set2keyDecWrap(key)
    [] base = "DES_EDE3" -> Des3Set3keyDecWrap(key)
    [] OTHER -> SetkeyEncFunc(base, key)

Info(cipher, base, mode, keyLen, ivSize, blockSize) ==
  [cipher |-> cipher, base |-> base, mode |-> mode, keyLen |-> keyLen, ivSize |-> ivSize,
   blockSize |-> blockSize, anyIv |-> mode \in {"GCM", "CCM"}, anyKey |-> cipher = "BLOWFISH"]
PlainModes == {"ECB", "CBC", "CFB", "CTR"}
AesInfos == {Info("AES", "AES", m, k, 16, 16) : m \in PlainModes, k \in {128, 192, 256}}
GcmAesInfos == {Info("AES", "GCM_AES", "GCM", k, 12, 16) : k \in {128, 192, 256}}
CcmAesInfos == {Info("AES", "CCM_AES", "CCM", k, 12, 16) : k \in {128, 192, 256}}
CamelliaInfos ==
  {Info("CAMELLIA", "CAMELLIA", m, k, 16, 16) : m \in PlainModes, k \in {128, 192, 256}}
GcmCamelliaInfos == {Info("CAMELLIA", "GCM_CAMELLIA", "GCM", k, 12, 16) : k \in {128, 192, 256}}
CcmCamelliaInfos == {Info("CAMELLIA", "CCM_CAMELLIA", "CCM", k, 12, 16) : k \in {128, 192, 256}}
DesInfos == {Info("DES", b[1], m, b[2], 8, 8) : m \in {"ECB", "CBC"},
               b \in {<<"DES", 64>>, <<"DES_EDE", 128>>, <<"DES_EDE3", 192>>}}
BlowfishInfos == {Info("BLOWFISH", "BLOWFISH", m, 128, 8, 8) : m \in PlainModes}
Arc4Infos == {Info("ARC4", "ARC4", "STREAM", 128, 0, 1)}
NullInfos == {Info("NULL", "NULL", "STREAM", 0, 0, 1)}
CipherDefinitions ==
  UNION {AesInfos, GcmAesInfos, CcmAesInfos, CamelliaInfos, GcmCamelliaInfos, CcmCamelliaInfos,
         DesInfos, BlowfishInfos, Arc4Infos, NullInfos}

\* cipher_info_from_values: at most one entry of the table fits.
CipherInfoFromValues(cipher, keyLen, mode) ==
  {d \in CipherDefinitions : d.cipher = cipher /\ d.keyLen = keyLen /\ d.mode = mode}

-----------------------------------------------------------------------------
(* The paddings.  What get answers is how much of the block is data.       *)

AddPkcsPadding(size, data) ==
  data \o [i \in 1..(size - Len(data)) |-> (size - Len(data)) % 256]
AddOneAndZerosPadding(size, data) == Append(data, 128) \o Zeros(size - Len(data) - 1)
AddZerosAndLenPadding(size, data) ==
  data \o Zeros(size - Len(data) - 1) \o <<(size - Len(data)) % 256>>
AddZerosPadding(size, data) == data \o Zeros(size - Len(data))

GetPkcsPadding(block) ==
  LET n == block[Len(block)]
  IN [ok |-> n \in 1..Len(block) /\ \A i \in 1..Len(block) : i > Len(block) - n => block[i] = n,
      len |-> Len(block) - n]
\* get_one_and_zeros_padding: bad loses bits at every byte, not only at the one that counts.
RECURSIVE OneAndZeros(_)
OneAndZeros(s) ==      \* s: the block, i, done, the length of the data, bad
  IF s[2] = 0 THEN s
  ELSE LET b == s[1][s[2]]
           done == s[3] \/ b # 0
           change == done # s[3]
           x == XorN(b, 128)
           y == IF change THEN x ELSE Or(<<x>>, <<1>>)[1]
       IN OneAndZeros(<<s[1], s[2] - 1, done, IF change THEN s[2] - 1 ELSE s[4],
                        And(<<s[5]>>, <<y>>)[1]>>)
GetOneAndZerosPadding(block) ==
  LET s == OneAndZeros(<<block, Len(block), FALSE, 0, 255>>) IN [ok |-> s[5] = 0, len |-> s[4]]
GetZerosAndLenPadding(block) ==
  LET size == Len(block)
      n == block[size]
  IN [ok |-> n \in 1..size /\ \A i \in 1..(size - 1) : i > size - n => block[i] = 0,
      len |-> size - n]
GetZerosPadding(block) ==
  LET used == {i \in 1..Len(block) : block[i] # 0}
  IN [ok |-> TRUE, len |-> IF used = {} THEN 0 ELSE CHOOSE i \in used : \A j \in used : j <= i]
GetNoPadding(block) == [ok |-> TRUE, len |-> Len(block)]

AddPadding(pad, size, data) ==
  CASE pad = "PKCS7" -> AddPkcsPadding(size, data)
    [] pad = "ONE_AND_ZEROS" -> AddOneAndZerosPadding(size, data)
    [] pad = "ZEROS_AND_LEN" -> AddZerosAndLenPadding(size, data)
    [] pad = "ZEROS" -> AddZerosPadding(size, data)
GetPadding(pad, block) ==
  CASE pad = "PKCS7" -> GetPkcsPadding(block)
    [] pad = "ONE_AND_ZEROS" -> GetOneAndZerosPadding(block)
    [] pad = "ZEROS_AND_LEN" -> GetZerosAndLenPadding(block)
    [] pad = "ZEROS" -> GetZerosPadding(block)
    [] pad = "NONE" -> GetNoPadding(block)

-----------------------------------------------------------------------------
(* cipher.c                                                                *)

Done(ctx, out) == [ok |-> TRUE, ctx |-> ctx, out |-> out]

CipherSetPaddingMode(ctx, pad) ==
  IF ctx.info.mode # "CBC" THEN Refused ELSE Done([ctx EXCEPT !.pad = pad], <<>>)
CipherInitCtx(info) ==
  [info |-> info, key |-> Refused, op |-> ENCRYPT, iv |-> <<>>, unprocessed |-> <<>>, off |-> 0,
   block |-> <<>>, aead |-> Refused, pad |-> IF info.mode = "CBC" THEN "PKCS7" ELSE "NONE"]

CipherSetkey(ctx, key, op) ==
  LET k == IF op = ENCRYPT \/ ctx.info.mode \in {"CFB", "CTR"}
           THEN SetkeyEncFunc(ctx.info.base, key) ELSE SetkeyDecFunc(ctx.info.base, key)
  IN IF (~ctx.info.anyKey /\ 8 * Len(key) # ctx.info.keyLen) \/ ~k.ok THEN Refused
     ELSE Done([ctx EXCEPT !.key = k, !.op = op], <<>>)

CipherSetIv(ctx, iv) ==
  LET size == IF ctx.info.anyIv THEN Len(iv) ELSE ctx.info.ivSize
  IN IF Len(iv) > MAX_IV_LENGTH \/ size > Len(iv) THEN Refused
     ELSE Done([ctx EXCEPT !.iv = Take(iv, size)], <<>>)

CipherReset(ctx) == [ctx EXCEPT !.unprocessed = <<>>, !.off = 0]

CipherUpdateAd(ctx, ad) ==
  IF ctx.info.mode # "GCM" THEN ctx
  ELSE [ctx EXCEPT !.aead = M!GcmStarts(ctx.key, ctx.op, ctx.iv, ad)]

\* Mutant of UpdateCbc: decrypting, a last whole block is not kept back.
UpdateCbcEager(ctx, input) ==
  LET all == ctx.unprocessed \o input
      size == ctx.info.blockSize
      r == CbcFunc(ctx.info.base, ctx.key, ctx.op, ctx.iv, Take(all, Len(all) - (Len(all) % size)))
  IN Done([ctx EXCEPT !.unprocessed = Drop(all, Len(all) - (Len(all) % size)), !.iv = r.iv], r.out)

\* cipher_update in CBC mode: the cached block, then the whole ones, and the
\* last one kept back - where decrypting even when it is whole.
UpdateCbc(ctx, input) ==
  LET size == ctx.info.blockSize
      cached == Len(ctx.unprocessed)
      waits == IF ctx.op = DECRYPT THEN Len(input) + cached <= size
               ELSE Len(input) + cached < size
      first == IF cached = 0 THEN 0 ELSE size - cached
      one == IF cached = 0 THEN [out |-> <<>>, iv |-> ctx.iv]
             ELSE CbcFunc(ctx.info.base, ctx.key, ctx.op, ctx.iv,
                          ctx.unprocessed \o Take(input, first))
      rest == Drop(input, first)
      short == IF rest # <<>> /\ Len(rest) % size = 0 /\ ctx.op = DECRYPT THEN size
               ELSE Len(rest) % size
      whole == Take(rest, Len(rest) - short)
      all == CbcFunc(ctx.info.base, ctx.key, ctx.op, one.iv, whole)
  IN IF waits THEN Done([ctx EXCEPT !.unprocessed = @ \o input], <<>>)
     ELSE Done([ctx EXCEPT !.unprocessed = Drop(rest, Len(whole)),
                           !.iv = IF whole = <<>> THEN one.iv ELSE all.iv],
               one.out \o (IF whole = <<>> THEN <<>> ELSE all.out))

\* aliased: input and output are the same memory.
CipherUpdate(ctx, input, aliased) ==
  LET mode == ctx.info.mode
      base == ctx.info.base
      cfb == CfbFunc(base, ctx.key, ctx.op, ctx.off, ctx.iv, input)
      ctr == CtrFunc(base, ctx.key, ctx.off, ctx.iv, ctx.block, input)
      stream == StreamFunc(base, ctx.key, input)
      gcm == M!GcmUpdate(ctx.aead, input)
  IN CASE mode = "ECB" ->
            IF Len(input) # ctx.info.blockSize THEN Refused
            ELSE Done(ctx, EcbFunc(base, ctx.key, ctx.op, input))
       [] mode = "GCM" -> IF ~gcm.ok THEN Refused ELSE Done([ctx EXCEPT !.aead = gcm], gcm.out)
       [] mode \notin {"ECB", "GCM"} /\ aliased
          /\ (ctx.unprocessed # <<>> \/ ctx.off # 0 \/ Len(input) % ctx.info.blockSize # 0) ->
            Refused
       [] mode = "CBC" -> UpdateCbc(ctx, input)
       [] mode = "CFB" -> Done([ctx EXCEPT !.off = cfb.off, !.iv = cfb.iv], cfb.out)
       [] mode = "CTR" -> Done([ctx EXCEPT !.off = ctr.off, !.iv = ctr.counter,
                                           !.block = ctr.block], ctr.out)
       [] mode = "STREAM" -> Done([ctx EXCEPT !.key.ctx = stream.ctx], stream.out)
       [] mode = "CCM" -> Refused

\* cipher_finish leaves unprocessed as it is; cipher_reset empties it.
CipherFinish(ctx) ==
  LET size == ctx.info.blockSize
      none == ctx.pad = "NONE"
      last == IF ctx.op = ENCRYPT THEN AddPadding(ctx.pad, Len(ctx.iv), ctx.unprocessed)
              ELSE ctx.unprocessed
      r == CbcFunc(ctx.info.base, ctx.key, ctx.op, ctx.iv, last)
      p == GetPadding(ctx.pad, r.out)
  IN CASE ctx.info.mode \in {"CFB", "CTR", "GCM", "STREAM"} -> Done(ctx, <<>>)
       [] ctx.info.mode = "ECB" -> Done(ctx, <<>>)      \* nothing is ever unprocessed
       [] ctx.info.mode = "CCM" -> Refused
       [] ctx.info.mode = "CBC" ->
            IF none /\ ctx.unprocessed = <<>> THEN Done(ctx, <<>>)
            ELSE IF IF ctx.op = ENCRYPT THEN none ELSE Len(ctx.unprocessed) # size THEN Refused
            ELSE IF ctx.op = ENCRYPT THEN Done([ctx EXCEPT !.iv = r.iv], r.out)
            ELSE IF ~p.ok THEN Refused
            ELSE Done([ctx EXCEPT !.iv = r.iv], Take(r.out, p.len))

CipherWriteTag(ctx, tagLen) ==
  IF ctx.op # ENCRYPT THEN Refused
  ELSE IF ctx.info.mode = "GCM" THEN M!GcmFinish(ctx.aead, tagLen)
  ELSE [ok |-> TRUE, tag |-> <<>>]
CipherCheckTag(ctx, tag) ==
  LET f == M!GcmFinish(ctx.aead, Len(tag))
  IN /\ ctx.op = DECRYPT
     /\ ctx.info.mode = "GCM" => /\ Len(tag) <= 16
                                 /\ f.ok /\ f.tag = tag

CipherCrypt(ctx, iv, input) ==
  LET s == CipherSetIv(ctx, iv)
      u == CipherUpdate(CipherReset(s.ctx), input, FALSE)
      f == CipherFinish(u.ctx)
  IN IF ~s.ok \/ ~u.ok \/ ~f.ok THEN Refused ELSE Done(f.ctx, u.out \o f.out)

CipherAuthEncrypt(ctx, iv, ad, input, tagLen) ==
  CASE ctx.info.mode = "GCM" -> M!GcmCryptAndTag(ctx.key, ENCRYPT, iv, ad, input, tagLen)
    [] ctx.info.mode = "CCM" -> M!CcmEncryptAndTag(ctx.key, iv, ad, input, tagLen)
    [] OTHER -> Refused
CipherAuthDecrypt(ctx, iv, ad, input, tag) ==
  CASE ctx.info.mode = "GCM" -> M!GcmAuthDecrypt(ctx.key, iv, ad, tag, input)
    [] ctx.info.mode = "CCM" -> M!CcmAuthDecrypt(ctx.key, iv, ad, input, tag)
    [] OTHER -> Refused
=============================================================================
