------------------------------- MODULE Digest -------------------------------
(***************************************************************************)
(* SHA-256 and the message digest layer: verification/sha256.c, md_wrap.c  *)
(* and md.c.  The compression function is free: the state of a hash is the *)
(* sequence of blocks it was given, so that two digests are equal exactly  *)
(* when the same blocks were compressed in the same order.  What is left   *)
(* is the buffering, the padding, the two-word length counter and HMAC.    *)
(***************************************************************************)
EXTENDS Integers, Sequences

CONSTANTS BlockSize,    \* 64 bytes
          LenSize,      \* 8: bytes of the length field
          WordMod,      \* 2^32: where total[0] wraps
          HighMod,      \* 2^29: what is left of a word after the shift by 3
          DigestSize,   \* 32 bytes of digest (SHA-224: one word less)
          Pieces,       \* lengths of the inputs of one update
          MaxTotal,     \* bytes hashed in one behaviour
          KeyLens       \* lengths of HMAC keys

ASSUME DigestAssumption ==
    /\ BlockSize \in Nat /\ LenSize \in 1 .. BlockSize - 1
    /\ HighMod \in Nat \ {0, 1} /\ WordMod = 8 * HighMod
    /\ BlockSize < WordMod /\ WordMod % BlockSize = 0
    /\ DigestSize \in 2 .. WordMod - 1
    /\ Pieces \subseteq 0 .. WordMod - 1 /\ KeyLens \subseteq 0 .. WordMod - 1
    /\ MaxTotal \in Nat /\ MaxTotal + BlockSize < WordMod * HighMod

VARIABLES md, msg, hkey, answer
mdVars == <<md, msg, hkey, answer>>

(* Bytes are terms: of the message, of a key, of padding, of a digest. *)
MsgByte(i) == <<"m", i>>
KeyByte(i) == <<"k", i>>
PadByte(v) == <<"p", v>>
Xor(pad, b) == <<pad, b>>
KeyBytes(n) == [i \in 1 .. n |-> KeyByte(i)]
MsgBytes(i, n) == [j \in 1 .. n |-> MsgByte(i + j - 1)]
Forced(s) == SubSeq(s, 1, Len(s))

Blank == [total0 |-> 0, total1 |-> 0, buffer |-> <<>>, state |-> <<>>]

mbedtls_sha256_init == Blank
mbedtls_sha256_starts(c, is224) == [c EXCEPT !.total0 = 0, !.total1 = 0, !.state = <<is224>>]
mbedtls_sha256_process(c, block) == [c EXCEPT !.state = Append(@, block)]

(* The blocks that a sequence has, and what is left behind them. *)
Chop(s) == [i \in 1 .. Len(s) \div BlockSize |->
               SubSeq(s, (i - 1) * BlockSize + 1, i * BlockSize)]
Remainder(s) == SubSeq(s, (Len(s) \div BlockSize) * BlockSize + 1, Len(s))

(* buffer keeps what memcpy left in it; only its first total0 % BlockSize    *)
(* bytes count.                                                              *)
Store(c, left, in) == [c EXCEPT !.buffer = SubSeq(@, 1, left) \o in]
Count(c, n) ==
    LET t == (c.total0 + n) % WordMod
    IN [c EXCEPT !.total0 = t, !.total1 = IF t < n % WordMod THEN (@ + 1) % WordMod ELSE @]
(* The whole blocks of the input are compressed in turn, the rest is kept. *)
Whole(c, left, in) ==
    LET d == [c EXCEPT !.state = @ \o Chop(in)]
    IN IF Remainder(in) = <<>> THEN d ELSE Store(d, left, Remainder(in))
FillUp(c, left, fill, in) ==
    LET full == SubSeq(c.buffer, 1, left) \o SubSeq(in, 1, fill)
    IN Whole(mbedtls_sha256_process([c EXCEPT !.buffer = full], full), 0,
             SubSeq(in, fill + 1, Len(in)))
mbedtls_sha256_update(c, in) ==
    LET left == c.total0 % BlockSize
        fill == BlockSize - left
    IN IF in = <<>> THEN c
       ELSE IF left # 0 /\ Len(in) >= fill THEN FillUp(Count(c, Len(in)), left, fill, in)
       ELSE Whole(Count(c, Len(in)), left, in)

ZeroPad(n) == [i \in 1 .. n |-> PadByte(IF i = 1 THEN 128 ELSE 0)]
\* The bytes of the two words of the length.
LenBytes(high, low) == [i \in 1 .. LenSize |-> <<"l", i, high, low>>]
MsgLen(c) ==
    LET high == ((c.total0 \div HighMod) + c.total1 * 8) % WordMod
        low == (c.total0 * 8) % WordMod
    IN LenBytes(high, low)
SizeOf(is224) == IF is224 THEN DigestSize - 1 ELSE DigestSize
Output(c) == [i \in 1 .. SizeOf(c.state[1]) |-> <<"d", i, c.state>>]
mbedtls_sha256_finishLate(c) ==
    LET last == c.total0 % BlockSize
        room == BlockSize - LenSize
        padn == IF last <= room THEN room - last ELSE BlockSize + room - last
    IN mbedtls_sha256_update(mbedtls_sha256_update(c, ZeroPad(padn)), MsgLen(c))
mbedtls_sha256_finish(c) ==
    LET last == c.total0 % BlockSize
        room == BlockSize - LenSize
        padn == IF last < room THEN room - last ELSE BlockSize + room - last
    IN mbedtls_sha256_update(mbedtls_sha256_update(c, ZeroPad(padn)), MsgLen(c))

mbedtls_sha256(in, is224) ==
    Output(mbedtls_sha256_finish(
             mbedtls_sha256_update(mbedtls_sha256_starts(mbedtls_sha256_init, is224), in)))

-----------------------------------------------------------------------------
(* md.c: a context is unset (no md_info) or has a digest and, with HMAC, the *)
(* two pads.  started: starts or hmac_starts was called.                     *)
Unset == [info |-> "none", ctx |-> Blank, ipad |-> <<>>, opad |-> <<>>, hmac |-> FALSE]
Infos == {"SHA224", "SHA256"}
Is224(info) == info = "SHA224"

\* hkey is <<key>> as the caller gave it, or empty while the caller does not use HMAC.
Keyed == hkey # <<>>
MdInit == md = Unset /\ msg = 0 /\ hkey = <<>> /\ answer = <<>>

Bad == md.info = "none"
mbedtls_md_setup(info, hmac, alloc) ==
    /\ md = Unset
    /\ IF alloc THEN md' = [Unset EXCEPT !.info = info, !.hmac = hmac]
       ELSE UNCHANGED md
    /\ UNCHANGED <<msg, hkey, answer>>
mbedtls_md_free ==
    /\ ~Bad
    /\ md' = Unset
    /\ msg' = 0 /\ hkey' = <<>> /\ answer' = <<>>
starts == mbedtls_sha256_starts(md.ctx, Is224(md.info))
mbedtls_md_starts ==
    /\ ~Bad
    /\ md' = [md EXCEPT !.ctx = starts]
    /\ msg' = 0 /\ hkey' = <<>> /\ answer' = <<>>

(* A key longer than a block is replaced by its digest. *)
ShortKey(key) ==
    IF Len(key) > BlockSize
    THEN Forced(Output(mbedtls_sha256_finish(mbedtls_sha256_update(starts, key)))) ELSE key
Pad(kind, key) == [i \in 1 .. BlockSize |-> IF i <= Len(key) THEN Xor(kind, key[i])
                                            ELSE Xor(kind, PadByte(0))]
mbedtls_md_hmac_starts(n) ==
    /\ ~Bad /\ md.hmac
    /\ \E key \in {ShortKey(KeyBytes(n))} :
         md' = [md EXCEPT !.ipad = Pad("i", key), !.opad = Pad("o", key),
                          !.ctx = mbedtls_sha256_update(starts, Pad("i", key))]
    /\ hkey' = <<KeyBytes(n)>>
    /\ msg' = 0 /\ answer' = <<>>
mbedtls_md_hmac_reset ==
    /\ ~Bad /\ md.hmac /\ Keyed
    /\ md' = [md EXCEPT !.ctx = mbedtls_sha256_update(starts, md.ipad)]
    /\ msg' = 0 /\ answer' = <<>>
    /\ UNCHANGED hkey

Open == ~Bad /\ answer = <<>> /\ md.ctx.state # <<>>
mbedtls_md_update(n) ==
    /\ Open /\ msg + n <= MaxTotal
    /\ md' = [md EXCEPT !.ctx = mbedtls_sha256_update(@, MsgBytes(msg + 1, n))]
    /\ msg' = msg + n
    /\ UNCHANGED <<hkey, answer>>
mbedtls_md_finish ==
    /\ Open /\ ~Keyed
    /\ md' = [md EXCEPT !.ctx = mbedtls_sha256_finish(@)]
    /\ answer' = Forced(Output(md'.ctx))
    /\ UNCHANGED <<msg, hkey>>
mbedtls_md_hmac_finish ==
    /\ Open /\ Keyed
    /\ \E tmp \in {Forced(Output(mbedtls_sha256_finish(md.ctx)))} :
         md' = [md EXCEPT !.ctx = mbedtls_sha256_finish(
                   mbedtls_sha256_update(mbedtls_sha256_update(starts, md.opad), tmp))]
    /\ answer' = Forced(Output(md'.ctx))
    /\ UNCHANGED <<msg, hkey>>

MdNext ==
    \/ \E info \in Infos, hmac, alloc \in BOOLEAN : mbedtls_md_setup(info, hmac, alloc)
    \/ mbedtls_md_free
    \/ mbedtls_md_starts
    \/ \E n \in KeyLens : mbedtls_md_hmac_starts(n)
    \/ mbedtls_md_hmac_reset
    \/ \E n \in Pieces : mbedtls_md_update(n)
    \/ mbedtls_md_finish
    \/ mbedtls_md_hmac_finish

-----------------------------------------------------------------------------
(* FIPS 180: the message, 0x80, zeros up to the length field, the length in bits. *)
Reference(in, is224) ==
    LET n == Len(in)
        zeros == CHOOSE z \in 1 .. BlockSize : (n + z + LenSize) % BlockSize = 0
        bits == LenBytes((8 * n) \div WordMod, (8 * n) % WordMod)
        blocks == Forced(Chop(in \o ZeroPad(zeros) \o bits))
    IN Forced([i \in 1 .. SizeOf(is224) |-> <<"d", i, <<is224>> \o blocks>>])

\* RFC 2104: a key longer than a block is hashed first, then padded with zeros.
KeyPad(kind, key, is224) ==
    Forced(Pad(kind, IF Len(key) > BlockSize THEN Reference(key, is224) ELSE key))

(* However the message is cut into updates, and whatever was hashed with the *)
(* context before, the digest is that of the whole message, its length in    *)
(* bits included when the word counter wraps (one update of 2^32 bytes and   *)
(* more would lose that carry), and the one-shot digest agrees; HMAC is the  *)
(* digest of the outer pad and the digest of the inner pad and the message,  *)
(* a long key being hashed first (sha256_update, sha256_finish,              *)
(* md_hmac_starts, md_hmac_finish).                                          *)
DigestOfTheWhole ==
    answer # <<>> =>
      LET whole == Forced(MsgBytes(1, msg))
          is224 == Is224(md.info)
      IN IF ~Keyed
         THEN /\ answer = Reference(whole, is224)
              /\ msg < WordMod => answer = Forced(mbedtls_sha256(whole, is224))
         ELSE answer = Reference(KeyPad("o", hkey[1], is224) \o
                                 Reference(KeyPad("i", hkey[1], is224) \o whole, is224), is224)

MdSpec == MdInit /\ [][MdNext]_mdVars
=============================================================================
