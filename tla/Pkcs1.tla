------------------------------- MODULE Pkcs1 -------------------------------
(***************************************************************************)
(* The DER readers of verification/asn1parse.c.  A buffer is a sequence of *)
(* bytes, p the index of the next one and end the index behind the last:   *)
(* the code's *p and end.  Every reader answers [ret, p, len, top], top    *)
(* being the highest index it dereferenced, and readers of values val.     *)
(***************************************************************************)
EXTENDS Integers, Sequences, FiniteSetsExt

CONSTANTS Asn1Templates,  \* encodings to start from
          Asn1Bytes,      \* bytes put into them
          IntBytes        \* sizeof(int)

BOOLEAN_TAG == 1
INTEGER == 2
BIT_STRING == 3
OCTET_STRING == 4
NULL_TAG == 5
OID == 6
SEQUENCE == 48      \* MBEDTLS_ASN1_CONSTRUCTED | MBEDTLS_ASN1_SEQUENCE

Got(ret, p, len, top) == [ret |-> ret, p |-> p, len |-> len, top |-> top, val |-> <<>>]
Gave(g, p, top, val) ==
    [g EXCEPT !.p = p, !.top = Max({g.top, top}), !.val = val]
Failed(g, why) == [g EXCEPT !.ret = why]

RECURSIVE BigEndian(_)
BigEndian(s) == IF s = <<>> THEN 0
                ELSE 256 * BigEndian(SubSeq(s, 1, Len(s) - 1)) + s[Len(s)]

(* The length: one byte below 0x80, else the number of length bytes, 1 to 4. *)
(* size_t is as wide as four bytes; TLC's integers hold three of them.       *)
mbedtls_asn1_get_len(b, p, end) ==
    LET n == b[p] - 128
        Checked(len, q, top) == Got(IF len > end - q THEN "OUT_OF_DATA" ELSE "ok", q, len, top)
    IN IF end - p < 1 THEN Got("OUT_OF_DATA", p, 0, p - 1)
       ELSE IF b[p] < 128 THEN Checked(b[p], p + 1, p)
       ELSE IF n \notin 1 .. 4 THEN Got("INVALID_LENGTH", p, 0, p)
       ELSE IF end - p < n + 1 THEN Got("OUT_OF_DATA", p, 0, p)
       ELSE Checked(BigEndian(SubSeq(b, p + 1, p + n)), p + n + 1, p + n)

mbedtls_asn1_get_tagNoLimit(b, p, end, tag) ==
    IF end - p < 1 THEN Got("OUT_OF_DATA", p, 0, p - 1)
    ELSE IF b[p] # tag THEN Got("UNEXPECTED_TAG", p, 0, p)
    ELSE mbedtls_asn1_get_len(b, p + 1, Len(b) + 1)
mbedtls_asn1_get_tag(b, p, end, tag) ==
    IF end - p < 1 THEN Got("OUT_OF_DATA", p, 0, p - 1)
    ELSE IF b[p] # tag THEN Got("UNEXPECTED_TAG", p, 0, p)
    ELSE mbedtls_asn1_get_len(b, p + 1, end)

Tagged(g, Then(_)) == IF g.ret # "ok" THEN g ELSE Then(g)

mbedtls_asn1_get_bool(b, p, end) ==
    Tagged(mbedtls_asn1_get_tag(b, p, end, BOOLEAN_TAG), LAMBDA g :
        IF g.len # 1 THEN Failed(g, "INVALID_LENGTH")
        ELSE Gave(g, g.p + 1, g.p, <<IF b[g.p] # 0 THEN 1 ELSE 0>>))

mbedtls_asn1_get_int(b, p, end) ==
    Tagged(mbedtls_asn1_get_tag(b, p, end, INTEGER), LAMBDA g :
        IF g.len = 0 \/ g.len > IntBytes THEN Failed(g, "INVALID_LENGTH")
        ELSE IF b[g.p] >= 128 THEN Failed(Gave(g, g.p, g.p, <<>>), "INVALID_LENGTH")
        ELSE Gave(g, g.p + g.len, g.p + g.len - 1,
                  <<BigEndian(SubSeq(b, g.p, g.p + g.len - 1))>>))

(* mpi_read_binary takes the len bytes, of which leading zeros do not count, *)
(* or has no memory for them; they are skipped in any case.                  *)
RECURSIVE Significant(_)
Significant(s) == IF s # <<>> /\ Head(s) = 0 THEN Significant(Tail(s)) ELSE s
mbedtls_asn1_get_mpi(b, p, end, room) ==
    Tagged(mbedtls_asn1_get_tag(b, p, end, INTEGER), LAMBDA g :
        IF room < g.len THEN Failed(Gave(g, g.p + g.len, g.top, <<>>), "ALLOC_FAILED")
        ELSE Gave(g, g.p + g.len, g.p + g.len - 1,
                  Significant(SubSeq(b, g.p, g.p + g.len - 1))))

mbedtls_asn1_get_bitstring(b, p, end) ==
    Tagged(mbedtls_asn1_get_tag(b, p, end, BIT_STRING), LAMBDA g :
        IF g.len < 1 THEN Failed(g, "OUT_OF_DATA")
        ELSE LET bs == [g EXCEPT !.len = @ - 1]
             IN IF b[g.p] > 7 THEN Failed(Gave(bs, g.p, g.p, <<>>), "INVALID_LENGTH")
                ELSE IF g.p + g.len # end
                THEN Failed(Gave(bs, g.p + g.len, g.p, <<>>), "LENGTH_MISMATCH")
                ELSE Gave(bs, g.p + g.len, g.p,
                          <<b[g.p]>> \o SubSeq(b, g.p + 1, g.p + g.len - 1)))

mbedtls_asn1_get_bitstring_null(b, p, end) ==
    Tagged(mbedtls_asn1_get_tag(b, p, end, BIT_STRING), LAMBDA g :
        IF g.len < 2 THEN Failed(g, "INVALID_DATA")
        ELSE LET less == Gave([g EXCEPT !.len = @ - 1], g.p + 1, g.p, <<>>)
             IN IF b[g.p] # 0 THEN Failed(less, "INVALID_DATA") ELSE less)

(* SEQUENCE OF tag: the contents in order; nodes is how many list entries    *)
(* calloc still gives.  A failure leaves the entries linked so far.          *)
RECURSIVE Elements(_, _, _, _, _, _)
Elements(b, g, end, tag, nodes, acc) ==
    IF g.p >= end THEN [g EXCEPT !.val = acc, !.ret = IF g.p # end THEN "LENGTH_MISMATCH" ELSE @]
    ELSE Tagged([mbedtls_asn1_get_tag(b, g.p, end, tag) EXCEPT !.val = acc], LAMBDA e :
           LET q == e.p + e.len
               more == Append(acc, SubSeq(b, e.p, q - 1))
           IN IF q < end /\ nodes = 0
              THEN [Failed(e, "ALLOC_FAILED") EXCEPT !.val = more]
              ELSE Elements(b, [e EXCEPT !.p = q, !.top = Max({g.top, e.top})], end, tag,
                            nodes - 1, more))
mbedtls_asn1_get_sequence_of(b, p, end, tag, nodes) ==
    Tagged(mbedtls_asn1_get_tag(b, p, end, SEQUENCE), LAMBDA g :
        IF g.p + g.len # end THEN Failed(g, "LENGTH_MISMATCH")
        ELSE Elements(b, g, end, tag, nodes, <<>>))

(* SEQUENCE { OID, parameters OPTIONAL }: val is <<oid, parameter tag and contents>>. *)
Parameters(b, g, alg, end) ==
    LET q == alg.p + alg.len
        oid == SubSeq(b, alg.p, q - 1)
    IN IF q = end THEN Gave(alg, q, alg.top, <<oid, <<0>>>>)
       ELSE LET par == mbedtls_asn1_get_len(b, q + 1, end)
            IN IF par.ret # "ok" THEN [par EXCEPT !.top = Max({q, @})]
               ELSE IF par.p + par.len # end
               THEN Failed(Gave(par, par.p + par.len, q, <<>>), "LENGTH_MISMATCH")
               ELSE Gave(par, end, q, <<oid, <<b[q]>> \o SubSeq(b, par.p, end - 1)>>)
mbedtls_asn1_get_alg(b, p, end) ==
    Tagged(mbedtls_asn1_get_tag(b, p, end, SEQUENCE), LAMBDA g :
        IF end - g.p < 1 THEN Failed(g, "OUT_OF_DATA")
        ELSE Tagged(mbedtls_asn1_get_tag(b, g.p, g.p + g.len, OID), LAMBDA alg :
               Parameters(b, g, [alg EXCEPT !.top = Max({@, g.p})], g.p + g.len)))
mbedtls_asn1_get_alg_null(b, p, end) ==
    Tagged(mbedtls_asn1_get_alg(b, p, end), LAMBDA g :
        IF g.val[2][1] \notin {NULL_TAG, 0} \/ Len(g.val[2]) # 1 THEN Failed(g, "INVALID_DATA")
        ELSE g)

-----------------------------------------------------------------------------
(* A caller with a buffer: a template with two bytes exchanged, cut short.   *)
VARIABLES buf, parsed
asn1Vars == <<buf, parsed>>

NoRead == [fn |-> "none", got |-> Got("none", 1, 0, 0)]
Exchanged(t, i, j, v, w, n) == SubSeq([[t EXCEPT ![i] = v] EXCEPT ![j] = w], 1, n)
Asn1Init ==
    /\ \E t \in Asn1Templates : \E i, j \in DOMAIN t, v, w \in Asn1Bytes, n \in 0 .. Len(t) :
          buf = Exchanged(t, i, j, v, w, n)
    /\ parsed = NoRead

Asn1Readers == {"tag", "bool", "int", "mpi", "bits", "bits0", "seq", "alg", "alg0"}
Asn1Read(fn, end, nodes) ==
    /\ parsed.fn = "none"
    /\ parsed' = [fn |-> fn,  got |->
         CASE fn = "tag" -> mbedtls_asn1_get_tag(buf, 1, end, OID)
           [] fn = "bool" -> mbedtls_asn1_get_bool(buf, 1, end)
           [] fn = "int" -> mbedtls_asn1_get_int(buf, 1, end)
           [] fn = "mpi" -> mbedtls_asn1_get_mpi(buf, 1, end, nodes)
           [] fn = "bits" -> mbedtls_asn1_get_bitstring(buf, 1, end)
           [] fn = "bits0" -> mbedtls_asn1_get_bitstring_null(buf, 1, end)
           [] fn = "seq" -> mbedtls_asn1_get_sequence_of(buf, 1, end, INTEGER, nodes)
           [] fn = "alg" -> mbedtls_asn1_get_alg(buf, 1, end)
           [] fn = "alg0" -> mbedtls_asn1_get_alg_null(buf, 1, end)]
    /\ UNCHANGED buf
Asn1Next == \E fn \in Asn1Readers, nodes \in {0, 9} :
               /\ nodes = 0 => fn \in {"seq", "mpi"}
               /\ Asn1Read(fn, Len(buf) + 1, nodes)

(* The encoding of a value, from the other side: DER's short length.         *)
Tlv(tag, content) == <<tag, Len(content)>> \o content
IsShort(b) == \A i \in DOMAIN b : b[i] < 128
RECURSIVE Concat(_)
Concat(ss) == IF ss = <<>> THEN <<>> ELSE Head(ss) \o Concat(Tail(ss))

(* No reader dereferences or moves behind the end it was given, whatever the *)
(* lengths inside claim; and a sequence or an algorithm that is read holds   *)
(* exactly the bytes it consumed: encoding what was read gives the buffer    *)
(* back (asn1_get_len, get_sequence_of, get_alg).  A bit string's length and *)
(* what its reader points to are its contents behind the count.              *)
Asn1WithinBuffer ==
    parsed.fn # "none" =>
      LET g == parsed.got
      IN /\ g.top <= Len(buf)
         /\ g.ret = "ok" => g.p <= Len(buf) + 1
         /\ (g.ret = "ok" /\ IsShort(buf)) =>
              CASE parsed.fn = "seq" ->
                     buf = Tlv(SEQUENCE, Concat([i \in DOMAIN g.val |-> Tlv(INTEGER, g.val[i])]))
                [] parsed.fn \in {"alg", "alg0"} ->
                     SubSeq(buf, 1, g.p - 1) =
                       Tlv(SEQUENCE, Tlv(OID, g.val[1]) \o
                             (IF g.val[2] = <<0>> /\ buf[2] = Len(g.val[1]) + 2 THEN <<>>
                              ELSE Tlv(g.val[2][1], Tail(g.val[2]))))
                [] parsed.fn = "bits" -> buf = Tlv(BIT_STRING, g.val) /\ g.len = Len(g.val) - 1
                [] parsed.fn = "bits0" -> g.len = buf[2] - 1 /\ g.p + g.len <= Len(buf) + 1
                [] OTHER -> TRUE

-----------------------------------------------------------------------------
(***************************************************************************)
(* The PKCS#1 v1.5 formats of verification/rsa.c, with the digest OIDs of  *)
(* verification/oid.c and md.c.  The key operations are the permutation    *)
(* that module Rsa checks, so a number is a block b raised to a power: e   *)
(* counts the public operations applied to it, a private one undoing one.  *)
(* Blocks are sequences of bytes; the first byte of the modulus is not 0.  *)
(***************************************************************************)
CONSTANTS Mds,          \* the compiled digests: type -> [oid, size]
          MinPad,       \* 8: the least length of the padding string
          MinLen,       \* 16: the shortest block decrypt and verify accept
          SizeMod,      \* size_t wraps here
          Blocks,       \* key lengths in bytes
          Hashes, Messages, Lengths, Rooms, Substitutes

VARIABLES padding, number, pkcs
pkcsVars == <<padding, number, pkcs>>

V15 == "V15"
V21 == "V21"
Noise(n) == [i \in 1 .. n |-> 7]
Plain(b) == [e |-> 0, b |-> b]
Bytes(x) == IF x.e = 0 THEN x.b ELSE Noise(Len(x.b))
Result(ret, x) == [ret |-> ret, x |-> x, out |-> <<>>]

(* The key operations: a block that is not below the modulus is refused. *)
Public(x) ==
    IF x.e = 0 /\ x.b[1] # 0 THEN Result("PUBLIC_FAILED", x)
    ELSE Result("ok", [x EXCEPT !.e = @ + 1])
(* how: right, a wrong number (a blinding pair that does not cancel), or an error *)
(* ("unchecked": in the public operation that signing checks the number with).    *)
Private(x, how) ==
    IF how = "fail" \/ (x.e = 0 /\ x.b[1] # 0) THEN Result("PRIVATE_FAILED", x)
    ELSE IF how = "wrong" THEN Result("ok", [e |-> -1, b |-> Noise(Len(x.b))])
    ELSE Result("ok", [x EXCEPT !.e = @ - 1])
KeyOp(mode, x, how) == IF mode = "PUBLIC" THEN Public(x) ELSE Private(x, how)

-----------------------------------------------------------------------------
(* oid.c: the tables are searched for the same length and the same bytes. *)
mbedtls_oid_get_md_alg(o) ==
    IF \E md \in DOMAIN Mds : Mds[md].oid = o
    THEN CHOOSE md \in DOMAIN Mds : Mds[md].oid = o ELSE "NOT_FOUND"
mbedtls_oid_get_oid_by_md(md) == Mds[md].oid
mbedtls_md_info_from_type(md) == md \in DOMAIN Mds
mbedtls_md_get_size(md) == Mds[md].size

FillWith(n, v) == [i \in 1 .. n |-> v]

(* EMSA-PKCS1-v1_5: what is signed, and the bytes of its padding.  Lengths   *)
(* are unsigned: one that does not fit wraps to a number above the block's.  *)
Payload(md, hash) ==
    IF md = "NONE" THEN hash
    ELSE LET o == mbedtls_oid_get_oid_by_md(md)
             n == mbedtls_md_get_size(md)
         IN <<SEQUENCE, 8 + Len(o) + n, SEQUENCE, 4 + Len(o), OID, Len(o)>> \o o
            \o <<NULL_TAG, 0, OCTET_STRING, n>> \o SubSeq(hash, 1, n)
NbPad(len, md, hashlen) ==
    (len - 3 - (IF md = "NONE" THEN hashlen
                ELSE 10 + Len(mbedtls_oid_get_oid_by_md(md)) + mbedtls_md_get_size(md)))
        % SizeMod
Encoded(len, md, hash) ==
    <<0, 1>> \o FillWith(NbPad(len, md, Len(hash)), 255) \o <<0>> \o Payload(md, hash)

(* v15_sign: the signature is made in sig_try, checked by a public operation *)
(* and copied only when that gives the block back.                           *)
TryUnchecked(block, how, alloc) ==
    LET s == Private(Plain(block), how)
    IN IF ~alloc THEN Result("ALLOC_FAILED", Plain(block))
       ELSE IF s.ret # "ok" THEN Result(s.ret, Plain(block)) ELSE s
Try(block, how, alloc) ==
    LET s == Private(Plain(block), how)
    IN IF ~alloc THEN Result("ALLOC_FAILED", Plain(block))
       ELSE IF s.ret # "ok" THEN Result(s.ret, Plain(block))
       ELSE IF how = "unchecked" THEN Result("PUBLIC_FAILED", Plain(block))
       ELSE IF Bytes(Public(s.x).x) # block THEN Result("PRIVATE_FAILED", Plain(block))
       ELSE s
mbedtls_rsa_rsassa_pkcs1_v15_sign(len, pad, mode, md, hash, how, alloc) ==
    LET nb == NbPad(len, md, Len(hash))
    IN IF mode = "PRIVATE" /\ pad # V15 THEN Result("BAD_INPUT_DATA", number)
       ELSE IF md # "NONE" /\ ~mbedtls_md_info_from_type(md) THEN Result("BAD_INPUT_DATA", number)
       ELSE IF nb < MinPad \/ nb > len THEN Result("BAD_INPUT_DATA", number)
       ELSE IF mode = "PUBLIC" THEN Public(Plain(Encoded(len, md, hash)))
       ELSE Try(Encoded(len, md, hash), how, alloc)

(* v15_verify: the padding is skipped up to its 00 byte, then the ASN.1 is   *)
(* parsed, each header exactly two bytes long.                               *)
RECURSIVE SkipFF(_, _)
SkipFF(b, p) == IF b[p] = 0 THEN p + 1
                ELSE IF p >= Len(b) \/ b[p] # 255 THEN 0
                ELSE SkipFF(b, p + 1)
Header(b, p, tag, Then(_)) ==
    LET g == mbedtls_asn1_get_tag(b, p, Len(b) + 1, tag)
    IN IF g.ret = "ok" /\ g.p = p + 2 THEN Then(g) ELSE "VERIFY_FAILED"
DigestOk(b, p, hash, hashlen) ==
    Header(b, p, NULL_TAG, LAMBDA g :
      Header(b, g.p, OCTET_STRING, LAMBDA h :
        IF /\ h.len = hashlen
           /\ SubSeq(b, h.p, h.p + hashlen - 1) = SubSeq(hash, 1, hashlen)
           /\ h.p + hashlen = Len(b) + 1
        THEN "ok" ELSE "VERIFY_FAILED"))
DigestInfo(b, p, md, hash) ==
    LET len == Len(b) + 1 - p
        hashlen == mbedtls_md_get_size(md)
    IN Header(b, p, SEQUENCE, LAMBDA g :
         IF g.len + 2 # len THEN "VERIFY_FAILED"
         ELSE Header(b, g.p, SEQUENCE, LAMBDA a :
           IF a.len + 6 + hashlen # len THEN "VERIFY_FAILED"
           ELSE Header(b, a.p, OID, LAMBDA o :
             IF mbedtls_oid_get_md_alg(SubSeq(b, o.p, o.p + o.len - 1)) # md
             THEN "VERIFY_FAILED"
             ELSE DigestOk(b, o.p + o.len, hash, hashlen))))
PaddedNoMinimum(b, md, hash) ==
    LET p == SkipFF(b, 3)
    IN IF b[1] # 0 \/ b[2] # 1 \/ p = 0 THEN "INVALID_PADDING"
       ELSE IF md = "NONE" THEN IF SubSeq(b, p, Len(b)) = hash THEN "ok" ELSE "VERIFY_FAILED"
       ELSE IF ~mbedtls_md_info_from_type(md) THEN "BAD_INPUT_DATA"
       ELSE DigestInfo(b, p, md, hash)
Padded(b, md, hash) ==
    LET p == SkipFF(b, 3)
        len == Len(b) + 1 - p
    IN IF b[1] # 0 \/ b[2] # 1 \/ p = 0 THEN "INVALID_PADDING"
       ELSE IF p - 1 < MinPad + 3 THEN "INVALID_PADDING"
       ELSE IF md = "NONE" /\ len = Len(hash)
       THEN IF SubSeq(b, p, Len(b)) = hash THEN "ok" ELSE "VERIFY_FAILED"
       ELSE IF ~mbedtls_md_info_from_type(md) THEN "BAD_INPUT_DATA"
       ELSE DigestInfo(b, p, md, hash)
mbedtls_rsa_rsassa_pkcs1_v15_verify(len, pad, mode, md, hash, x, how) ==
    LET r == KeyOp(mode, x, how)
    IN IF mode = "PRIVATE" /\ pad # V15 THEN "BAD_INPUT_DATA"
       ELSE IF len < MinLen THEN "BAD_INPUT_DATA"
       ELSE IF r.ret # "ok" THEN r.ret
       ELSE Padded(Bytes(r.x), md, hash)

(* v15_encrypt: rng is what the generator does for the padding bytes; a zero *)
(* is drawn again, a hundred times at most.                                  *)
mbedtls_rsa_rsaes_pkcs1_v15_encrypt(len, pad, mode, ilen, input, rng, how) ==
    LET nb == len - 3 - ilen
        Framed(kind, v) == Plain(<<0, kind>> \o FillWith(nb, v) \o <<0>> \o SubSeq(input, 1, ilen))
    IN IF mode = "PRIVATE" /\ pad # V15 THEN Result("BAD_INPUT_DATA", number)
       ELSE IF rng = "none" THEN Result("BAD_INPUT_DATA", number)
       ELSE IF (ilen + MinPad + 3) % SizeMod < ilen \/ len < (ilen + MinPad + 3) % SizeMod
       THEN Result("BAD_INPUT_DATA", number)
       ELSE IF mode = "PUBLIC" /\ rng = "fails" THEN Result("RNG_FAILED", number)
       ELSE IF mode = "PUBLIC" THEN Public(Framed(2, 9))
       ELSE Private(Framed(1, 255), how)

(* v15_decrypt: the padding is counted over the whole block before any of it *)
(* is judged.                                                                *)
PaddingByteOfSign(mode, v) == v = 255
PaddingByte(mode, v) == IF mode = "PRIVATE" THEN v # 0 ELSE v = 255
PadCount(b, mode) ==
    CHOOSE n \in 0 .. Len(b) - 3 :
       /\ \A i \in 3 .. n + 2 : PaddingByte(mode, b[i])
       /\ n < Len(b) - 3 => ~PaddingByte(mode, b[n + 3])
Unpadded(b, mode, room) ==
    LET n == PadCount(b, mode)
        m == SubSeq(b, n + 4, Len(b))
    IN IF \/ b[1] # 0 \/ b[2] # (IF mode = "PRIVATE" THEN 2 ELSE 1)
          \/ b[n + 3] # 0 \/ n < MinPad
       THEN [Result("INVALID_PADDING", number) EXCEPT !.out = <<>>]
       ELSE IF Len(m) > room THEN Result("OUTPUT_TOO_LARGE", number)
       ELSE [Result("ok", number) EXCEPT !.out = m]
mbedtls_rsa_rsaes_pkcs1_v15_decrypt(len, pad, mode, x, room, how) ==
    LET r == KeyOp(mode, x, how)
    IN IF mode = "PRIVATE" /\ pad # V15 THEN Result("BAD_INPUT_DATA", number)
       ELSE IF len < MinLen THEN Result("BAD_INPUT_DATA", number)
       ELSE IF r.ret # "ok" THEN Result(r.ret, number)
       ELSE Unpadded(Bytes(r.x), mode, room)

-----------------------------------------------------------------------------
NoOp == [op |-> "none", ret |-> "ok"]
PkcsInit == padding \in {V15, V21} /\ number = Plain(<<>>) /\ pkcs = NoOp

(* The calls, through the switches on ctx->padding: only V15 is compiled. *)
Dispatch(r) == IF padding = V15 THEN r ELSE Result("INVALID_PADDING", number)
mbedtls_rsa_set_padding(p) ==
    /\ pkcs.op = "none" /\ padding # p
    /\ padding' = p /\ UNCHANGED <<number, pkcs>>
mbedtls_rsa_pkcs1_sign(len, mode, md, hash, how, alloc) ==
    LET r == Dispatch(mbedtls_rsa_rsassa_pkcs1_v15_sign(len, padding, mode, md, hash, how, alloc))
    IN /\ pkcs.op = "none"
       /\ number' = r.x
       /\ pkcs' = [op |-> "sign", ret |-> r.ret, mode |-> mode, md |-> md, hash |-> hash,
                   len |-> len]
       /\ UNCHANGED padding
mbedtls_rsa_pkcs1_encrypt(len, mode, ilen, input, rng, how) ==
    LET r == Dispatch(mbedtls_rsa_rsaes_pkcs1_v15_encrypt(len, padding, mode, ilen, input, rng, how))
    IN /\ pkcs.op = "none"
       /\ number' = r.x
       /\ pkcs' = [op |-> "encrypt", ret |-> r.ret, mode |-> mode, len |-> len,
                   msg |-> IF r.ret = "ok" THEN SubSeq(input, 1, ilen) ELSE <<>>]
       /\ UNCHANGED padding

(* The number on its way: as it is, or another one.  Any number below the    *)
(* modulus is the signature of some block; these are the near misses.        *)
Near(b) == [e : {-1}, b : {b, SubSeq(b, 1, 2) \o SubSeq(b, 4, Len(b))} \cup
              UNION {{[b EXCEPT ![i] = v],
                      SubSeq(b, 1, 2) \o SubSeq(b, 4, i) \o <<v>> \o SubSeq(b, i + 1, Len(b)),
                      SubSeq(b, 1, 2) \o <<255>> \o SubSeq(b, 3, i - 1) \o SubSeq(b, i + 1, Len(b))} :
                      i \in 4 .. Len(b), v \in Substitutes}]
mbedtls_rsa_pkcs1_verify(mode, md, hash, x, how) ==
    LET ret == Dispatch([ret |-> mbedtls_rsa_rsassa_pkcs1_v15_verify(pkcs.len, padding, mode,
                                     md, hash, x, how)]).ret
    IN /\ pkcs.op = "sign" /\ number.b # <<>>
       /\ number' = x
       /\ pkcs' = [op |-> "verify", ret |-> ret, signed |-> pkcs, mode |-> mode, md |-> md,
                   hash |-> hash]
       /\ UNCHANGED padding
mbedtls_rsa_pkcs1_decrypt(mode, room, how) ==
    LET r == Dispatch(mbedtls_rsa_rsaes_pkcs1_v15_decrypt(pkcs.len, padding, mode, number,
                                                          room, how))
    IN /\ pkcs.op = "encrypt" /\ pkcs.ret = "ok"
       /\ pkcs' = [op |-> "decrypt", ret |-> r.ret, out |-> r.out, mode |-> mode, of |-> pkcs,
                   room |-> room, how |-> how]
       /\ UNCHANGED <<padding, number>>

Modes == {"PUBLIC", "PRIVATE"}
Hows == {"right", "wrong", "fail"}
PkcsNext ==
    \/ \E p \in {V15, V21} : mbedtls_rsa_set_padding(p)
    \/ \E len \in Blocks, mode \in Modes, md \in DOMAIN Mds \cup {"NONE", "SHA1"},
          hash \in Hashes, how \in Hows \cup {"unchecked"}, alloc \in BOOLEAN :
             mbedtls_rsa_pkcs1_sign(len, mode, md, hash, how, alloc)
    \/ \E mode \in Modes, md \in DOMAIN Mds \cup {"NONE", "SHA1"}, hash \in Hashes,
          how \in {"right", "fail"} : mbedtls_rsa_pkcs1_verify(mode, md, hash, number, how)
    \/ \E x \in (IF pkcs.op = "sign" /\ pkcs.ret = "ok" /\ pkcs.mode = "PRIVATE"
                 THEN Near(number.b) ELSE {}) :
             mbedtls_rsa_pkcs1_verify("PUBLIC", pkcs.md, pkcs.hash, x, "right")
    \/ \E len \in Blocks, mode \in Modes, m \in Messages, n \in Lengths,
          rng \in {"none", "fails", "draws"}, how \in Hows :
             mbedtls_rsa_pkcs1_encrypt(len, mode, n, m, rng, how)
    \/ \E mode \in Modes, room \in Rooms, how \in Hows :
             mbedtls_rsa_pkcs1_decrypt(mode, room, how)

-----------------------------------------------------------------------------
(* The verifier accepts a number for a digest exactly when it is the private *)
(* operation on the encoding of that digest: every near miss is refused, and *)
(* nothing in the block is free but the length byte of the NULL parameters,  *)
(* which v15_verify reads and does not compare (v15_verify).                 *)
NullLength(b, md) == Len(b) - mbedtls_md_get_size(md) - 2
OneEncoding ==
    (pkcs.op = "verify" /\ pkcs.mode = "PUBLIC" /\ padding = V15
        /\ pkcs.md \in DOMAIN Mds \cup {"NONE"} /\ pkcs.signed.len >= MinLen) =>
       LET b == number.b
           fits == NbPad(Len(b), pkcs.md, Len(pkcs.hash)) \in MinPad .. Len(b)
           i == NullLength(b, pkcs.md)
       IN pkcs.ret = "ok" <=>
            /\ number.e = -1 /\ fits
            /\ IF pkcs.md = "NONE" THEN b = Encoded(Len(b), pkcs.md, pkcs.hash)
               ELSE /\ [b EXCEPT ![i] = 0] = Encoded(Len(b), pkcs.md, pkcs.hash)
                    /\ b[i] <= Len(b) - i

(* A signing call that reports success leaves a number the verifier accepts, *)
(* and one that fails never leaves a wrong signature behind (v15_sign).      *)
SignedIsVerifiable ==
    (pkcs.op = "sign" /\ pkcs.mode = "PRIVATE") =>
       IF pkcs.ret = "ok"
       THEN number = [e |-> -1, b |-> Encoded(pkcs.len, pkcs.md, pkcs.hash)]
       ELSE number.e = 0

(* Decryption with the other half of the key gives the message back, its     *)
(* length included, whenever the room suffices: no message is taken for      *)
(* padding and no padding for a message (v15_encrypt, v15_decrypt).          *)
DecryptGivesBack ==
    (pkcs.op = "decrypt" /\ pkcs.mode # pkcs.of.mode /\ pkcs.how = "right"
        /\ pkcs.of.len >= MinLen) =>
       (number.b # Noise(pkcs.of.len) =>
          IF Len(pkcs.of.msg) <= pkcs.room
          THEN pkcs.ret = "ok" /\ pkcs.out = pkcs.of.msg
          ELSE pkcs.ret = "OUTPUT_TOO_LARGE")
=============================================================================
