------------------------------- MODULE NlAttr -------------------------------
(***************************************************************************)
(* Netlink attributes (compat/backport-5.2.c, compat/backport-4.7.c,       *)
(* backport-include/net/netlink.h): a message is put together attribute by *)
(* attribute, or comes from user space as it pleases; the receiver parses  *)
(* it against a policy with one of the entry points.  A message is a       *)
(* sequence of bytes, an attribute the offset of its header: a length of   *)
(* two bytes, a type, and the flags.                                       *)
(***************************************************************************)
EXTENDS Integers, Sequences, FiniteSets, SequencesExt

CONSTANTS UserMessages,     \* messages from user space
          Policies,         \* a policy is a function 0 .. maxtype -> entry
          SendPolicy        \* the policy of the attributes that drivers put

VARIABLE nlm    \* the message: [from: "user" or "driver", bytes, base: the address of the first
                \* byte modulo 8, efficient: CONFIG_HAVE_EFFICIENT_UNALIGNED_ACCESS, nests: the
                \* attributes that are open, noflag: one was opened without NLA_F_NESTED, wide: the
                \* offsets of the 64 bit ones, ret: what the last of the sender's calls returned,
                \* last: the parse of the message, inner: that of a nested attribute of it]

NLA_HDRLEN == 4
NLA_F_NESTED == 128         \* in the upper byte of the type
Align(n) == ((n + 3) \div 4) * 4
nla_total_size(payload) == Align(NLA_HDRLEN + payload)
nla_attr_size(b, o) == b[o + 1] + 256 * b[o + 2]
nla_len(b, o) == nla_attr_size(b, o) - NLA_HDRLEN
nla_type(b, o) == b[o + 3]
IsNested(b, o) == b[o + 4] >= NLA_F_NESTED
\* The i-th byte of the payload; what is behind the message reads as 0.
Byte(b, o, i) == IF o + NLA_HDRLEN + i <= Len(b) THEN b[o + NLA_HDRLEN + i] ELSE 0
nla_ok(b, o, rem) == rem >= NLA_HDRLEN /\ nla_attr_size(b, o) \in NLA_HDRLEN .. rem

-----------------------------------------------------------------------------
(* struct nla_policy, enum netlink_validation *)
NL_VALIDATE_LIBERAL == {}
NL_VALIDATE_DEPRECATED_STRICT == {"TRAILING", "MAXTYPE"}
NL_VALIDATE_STRICT == {"TRAILING", "MAXTYPE", "UNSPEC", "STRICT_ATTRS", "NESTED"}

NLA_POLICY(type, len) ==
    [type |-> type, len |-> len, vtype |-> "NONE", min |-> 0, max |-> 0, data |-> <<>>, strict |-> 0]
MaxType(policy) == Len(policy) - 1
Entry(policy, type) == policy[type + 1]
NLA_POLICY_NESTED(policy) == [NLA_POLICY("NESTED", MaxType(policy)) EXCEPT !.data = policy]
NLA_POLICY_NESTED_ARRAY(policy) == [NLA_POLICY("NESTED_ARRAY", MaxType(policy)) EXCEPT !.data = policy]
NLA_POLICY_EXACT_LEN(len) == NLA_POLICY("EXACT_LEN", len)
NLA_POLICY_EXACT_LEN_WARN(len) == NLA_POLICY("EXACT_LEN_WARN", len)
NLA_POLICY_RANGE(type, min, max) ==
    [NLA_POLICY(type, 0) EXCEPT !.vtype = "RANGE", !.min = min, !.max = max]
NLA_POLICY_MIN(type, min) == [NLA_POLICY(type, 0) EXCEPT !.vtype = "MIN", !.min = min]
NLA_POLICY_MAX(type, max) == [NLA_POLICY(type, 0) EXCEPT !.vtype = "MAX", !.max = max]
\* validate(): the functions there are accept attributes whose first byte is not 0.
NLA_POLICY_VALIDATE_FN(type, len) == [NLA_POLICY(type, len) EXCEPT !.vtype = "FUNCTION"]
\* A NULL policy for maxtype types: nothing is validated.
NoPolicy(maxtype) == [t \in 1 .. maxtype + 1 |-> NLA_POLICY("NULL", 0)]
IsNoPolicy(policy) == Entry(policy, 0).type = "NULL"

IntTypes == {"U8", "U16", "U32", "U64", "S8", "S16", "S32", "S64"}
IntLen(type) ==
    CASE type \in {"U8", "S8"} -> 1 [] type \in {"U16", "S16"} -> 2
      [] type \in {"U32", "S32"} -> 4 [] type \in {"U64", "S64"} -> 8
nla_attr_len(type) == IF type \in IntTypes THEN IntLen(type) ELSE 0
\* Bug: the table has no entries for the integers.
nla_attr_minlenNoIntegers(type) == CASE type = "MSECS" -> 8 [] type = "NESTED" -> NLA_HDRLEN [] OTHER -> 0
nla_attr_minlen(type) ==
    CASE type = "MSECS" -> 8 [] type = "NESTED" -> NLA_HDRLEN [] OTHER -> nla_attr_len(type)

nla_policy_len(policy) ==
    LET size(pt) == CASE pt.len # 0 -> nla_total_size(pt.len)
                      [] pt.len = 0 /\ nla_attr_minlen(pt.type) # 0 -> nla_total_size(nla_attr_minlen(pt.type))
                      [] OTHER -> 0
    IN  FoldLeft(LAMBDA len, pt : len + size(pt), 0, policy)

-----------------------------------------------------------------------------
(* validate_nla *)
Good == [ret |-> "0", attr |-> -1]
Bad(err, o) == [ret |-> err, attr |-> o]

\* nla_get_u8() and the others: the bytes of the type, the lowest first.
RECURSIVE UnsignedOf(_, _, _, _)
UnsignedOf(b, o, i, n) == IF i > n THEN 0 ELSE Byte(b, o, i) + 256 * UnsignedOf(b, o, i + 1, n)
ValueOf(b, o, type) ==
    LET n == IntLen(type)
        top == Byte(b, o, n)
    IN  IF type \in {"S8", "S16", "S32", "S64"} /\ top >= 128
        THEN (top - 256) * 256 ^ (n - 1) + UnsignedOf(b, o, 1, n - 1) ELSE UnsignedOf(b, o, 1, n)

\* min and max are s16; against a u64 a negative one counts as a very large one.
Below(v, type, min) == IF type = "U64" /\ min < 0 THEN TRUE ELSE v < min
Above(v, type, max) == IF type = "U64" /\ max < 0 THEN FALSE ELSE v > max
nla_validate_int_range(b, o, pt) ==
    IF pt.type \notin IntTypes THEN Bad("EINVAL", -1)
    ELSE LET v == ValueOf(b, o, pt.type)
         IN  IF \/ pt.vtype \in {"RANGE", "MIN"} /\ Below(v, pt.type, pt.min)
                \/ pt.vtype \in {"RANGE", "MAX"} /\ Above(v, pt.type, pt.max)
             THEN Bad("ERANGE", o) ELSE Good

\* A bitfield of one byte each for the value and the selector, whose other
\* bytes are 0; the mask of the valid bits is data.
Bits(n) == {i \in 0 .. 7 : (n \div 2 ^ i) % 2 = 1}
validate_nla_bitfield32(b, o, data) ==
    /\ data # <<>>
    /\ Bits(Byte(b, o, 5)) \subseteq data[1] /\ Bits(Byte(b, o, 1)) \subseteq data[1]
    /\ Bits(Byte(b, o, 1)) \subseteq Bits(Byte(b, o, 5))

HasNul(b, o, n) == \E i \in 1 .. n : Byte(b, o, i) = 0
Least(a, b) == IF a < b THEN a ELSE b
StringFits(b, o, pt) ==
    LET n == nla_len(b, o)
    IN  n >= 1 /\ (pt.len # 0 => (IF Byte(b, o, n) = 0 THEN n - 1 ELSE n) <= pt.len)

\* What "goto out_err" returns, "0" where it is not taken, for the types that
\* have no attributes in them.
TypeError(b, o, pt, flags) ==
    LET n == nla_len(b, o)
        nulIn == IF pt.len # 0 THEN Least(n, pt.len + 1) ELSE n
        range(ok) == IF ok THEN "0" ELSE "ERANGE"
    IN  CASE pt.type = "EXACT_LEN" -> range(n = pt.len)
          [] pt.type = "REJECT" -> "EINVAL"
          [] pt.type = "FLAG" -> range(n = 0)
          [] pt.type = "BITFIELD32" ->
                IF n # 8 THEN "ERANGE" ELSE IF validate_nla_bitfield32(b, o, pt.data) THEN "0" ELSE "EINVAL"
          [] pt.type = "NUL_STRING" ->
                IF nulIn = 0 \/ ~HasNul(b, o, nulIn) THEN "EINVAL" ELSE range(StringFits(b, o, pt))
          [] pt.type = "STRING" -> range(StringFits(b, o, pt))
          [] pt.type = "BINARY" -> range(pt.len = 0 \/ n <= pt.len)
          [] pt.type \in {"NESTED", "NESTED_ARRAY"} -> range(n = 0 \/ n >= NLA_HDRLEN)
          [] pt.type = "UNSPEC" -> IF "UNSPEC" \in flags THEN "EINVAL" ELSE range(n >= pt.len)
          [] pt.type = "MIN_LEN" -> range(n >= pt.len)
          [] OTHER -> range(n >= IF pt.len # 0 THEN pt.len ELSE nla_attr_minlen(pt.type))

WrongLength(b, o, pt) ==
    \/ nla_attr_len(pt.type) # 0 /\ nla_len(b, o) # nla_attr_len(pt.type)
    \/ pt.type = "EXACT_LEN_WARN" /\ nla_len(b, o) # pt.len
WrongFlag(b, o, pt) ==
    \/ pt.type \in {"NESTED", "NESTED_ARRAY"} /\ ~IsNested(b, o)
    \/ pt.type \notin {"NESTED", "NESTED_ARRAY", "UNSPEC"} /\ IsNested(b, o)

FurtherValidation(b, o, pt) ==
    CASE pt.vtype \in {"RANGE", "MIN", "MAX"} -> nla_validate_int_range(b, o, pt)
      [] pt.vtype = "FUNCTION" -> IF HasNul(b, o, Least(1, nla_len(b, o))) THEN Bad("EINVAL", -1) ELSE Good
      [] OTHER -> Good

RECURSIVE __nla_validate(_, _, _, _, _)

\* The elements of an array are streams of attributes of their own.
RECURSIVE nla_validate_array(_, _, _, _, _)
nla_validate_array(b, o, rem, policy, flags) ==
    IF ~nla_ok(b, o, rem) THEN Good
    ELSE LET n == nla_len(b, o)
             one == CASE n = 0 -> Good
                      [] n \in 1 .. NLA_HDRLEN - 1 -> Bad("ERANGE", o)
                      [] OTHER -> __nla_validate(b, o + NLA_HDRLEN, n, policy, flags).v
         IN  IF one.ret # "0" THEN one
             ELSE nla_validate_array(b, o + Align(nla_attr_size(b, o)), rem - Align(nla_attr_size(b, o)), policy, flags)

\* Bug: what is nested is validated liberally.
ValidateNestedLiberal(b, o, pt, flags) ==
    IF nla_len(b, o) = 0 \/ pt.data = <<>> THEN Good
    ELSE IF pt.type = "NESTED" THEN __nla_validate(b, o + NLA_HDRLEN, nla_len(b, o), pt.data, {}).v
    ELSE nla_validate_array(b, o + NLA_HDRLEN, nla_len(b, o), pt.data, {})
ValidateNested(b, o, pt, flags) ==
    IF nla_len(b, o) = 0 \/ pt.data = <<>> THEN Good
    ELSE IF pt.type = "NESTED" THEN __nla_validate(b, o + NLA_HDRLEN, nla_len(b, o), pt.data, flags).v
    ELSE nla_validate_array(b, o + NLA_HDRLEN, nla_len(b, o), pt.data, flags)

\* From the type strict_start_type on, which is in entry 0, a policy is strict.
Strictness(policy, type, flags) ==
    LET start == Entry(policy, 0).strict
    IN  IF start # 0 /\ type >= start THEN flags \cup NL_VALIDATE_STRICT ELSE flags

\* The error of an inner attribute is returned as it is, with its attribute.
validate_nla(b, o, policy, given) ==
    LET pt == Entry(policy, nla_type(b, o))
        flags == Strictness(policy, nla_type(b, o), given)
        err == TypeError(b, o, pt, flags)
    IN  IF "STRICT_ATTRS" \in flags /\ WrongLength(b, o, pt) THEN Bad("EINVAL", o)
        ELSE IF "NESTED" \in flags /\ WrongFlag(b, o, pt) THEN Bad("EINVAL", o)
        ELSE IF err # "0" THEN Bad(err, o)
        ELSE LET inner == IF pt.type \in {"NESTED", "NESTED_ARRAY"} THEN ValidateNested(b, o, pt, flags) ELSE Good
             IN  IF inner.ret # "0" THEN inner ELSE FurtherValidation(b, o, pt)

-----------------------------------------------------------------------------
(* __nla_validate_parse: the verdict and tb, for a caller that passes one. *)
NoTb == <<>>        \* no table, or one that was not touched
RECURSIVE __nla_validate_parse(_, _, _, _, _, _)
__nla_validate_parse(b, o, rem, policy, flags, tb) ==
    IF ~nla_ok(b, o, rem)
    THEN [v |-> IF rem > 0 /\ "TRAILING" \in flags THEN Bad("EINVAL", -1) ELSE Good, tb |-> tb]
    ELSE LET type == nla_type(b, o)
             known == type \in 1 .. MaxType(policy)
             v == CASE known /\ ~IsNoPolicy(policy) -> validate_nla(b, o, policy, flags)
                    [] ~known /\ "MAXTYPE" \in flags -> Bad("EINVAL", o)
                    [] OTHER -> Good
             step == Align(nla_attr_size(b, o))
         IN  IF v.ret # "0" THEN [v |-> v, tb |-> tb]
             ELSE __nla_validate_parse(b, o + step, rem - step, policy, flags,
                                       IF known /\ tb # NoTb THEN [tb EXCEPT ![type] = o] ELSE tb)
__nla_validate(b, o, len, policy, flags) == __nla_validate_parse(b, o, len, policy, flags, NoTb)
__nla_parse(b, o, len, policy, flags) ==
    __nla_validate_parse(b, o, len, policy, flags, [t \in 1 .. MaxType(policy) |-> -1])

\* The functions for messages: the flags, whether the length of the header is
\* checked, and whether they fill a table.  nlmsg_parse() does not check it; a
\* negative rest holds no attribute.
Strict(header, tb) == [flags |-> NL_VALIDATE_STRICT, header |-> header, tb |-> tb]
Liberal(header, tb) == [flags |-> NL_VALIDATE_LIBERAL, header |-> header, tb |-> tb]
DeprecatedStrict(header, tb) == [flags |-> NL_VALIDATE_DEPRECATED_STRICT, header |-> header, tb |-> tb]
EntryPoints ==
    [nla_parse |-> Strict(FALSE, TRUE),
     nla_parse_deprecated |-> Liberal(FALSE, TRUE),
     nla_parse_deprecated_strict |-> DeprecatedStrict(FALSE, TRUE),
     nlmsg_parse |-> Strict(FALSE, TRUE),
     nlmsg_parse_deprecated |-> Liberal(TRUE, TRUE),
     nlmsg_parse_deprecated_strict |-> DeprecatedStrict(TRUE, TRUE),
     nla_validate_deprecated |-> Liberal(FALSE, FALSE),
     nla_validate |-> Strict(FALSE, FALSE),
     nlmsg_validate_deprecated |-> Liberal(TRUE, FALSE),
     nlmsg_validate |-> Strict(TRUE, FALSE)]
__nlmsg_parse(entry, b, short, policy) ==
    LET e == EntryPoints[entry]
        len == IF short THEN -4 ELSE Len(b)
    IN  CASE short /\ e.header -> [v |-> Bad("EINVAL", -1), tb |-> NoTb]
          [] ~(short /\ e.header) /\ e.tb -> __nla_parse(b, 0, len, policy, e.flags)
          [] ~(short /\ e.header) /\ ~e.tb -> __nla_validate(b, 0, len, policy, e.flags)
\* Those for a nested attribute.
nla_parse_nested(b, o, policy) ==
    IF ~IsNested(b, o) THEN [v |-> Bad("EINVAL", o), tb |-> NoTb]
    ELSE __nla_parse(b, o + NLA_HDRLEN, nla_len(b, o), policy, NL_VALIDATE_STRICT)
nla_parse_nested_deprecated(b, o, policy) == __nla_parse(b, o + NLA_HDRLEN, nla_len(b, o), policy, NL_VALIDATE_LIBERAL)
nla_validate_nested(b, o, policy) == __nla_validate(b, o + NLA_HDRLEN, nla_len(b, o), policy, NL_VALIDATE_STRICT)
nla_validate_nested_deprecated(b, o, policy) == __nla_validate(b, o + NLA_HDRLEN, nla_len(b, o), policy, NL_VALIDATE_LIBERAL)

\* A handler parses the message, then a nested attribute that it found in it.
NoParse == [entry |-> "none"]
Parse(entry, policy, short) ==
    /\ nlm.last = NoParse /\ nlm.nests = <<>>
    /\ nlm' = [nlm EXCEPT !.last = [entry |-> entry, policy |-> policy, short |-> short,
                                    res |-> __nlmsg_parse(entry, nlm.bytes, short, policy)]]
ParseNested(entry, call(_, _, _), t) ==
    /\ nlm.from = "user" /\ nlm.last # NoParse /\ nlm.inner = NoParse
    /\ nlm.last.res.v.ret = "0" /\ t \in DOMAIN nlm.last.res.tb /\ nlm.last.res.tb[t] # -1
    /\ LET pt == Entry(nlm.last.policy, t)
       IN  /\ pt.type = "NESTED" /\ pt.data # <<>>
           /\ nlm' = [nlm EXCEPT !.inner = [entry |-> entry, type |-> t, res |-> call(nlm.bytes, nlm.last.res.tb[t], pt.data)]]

-----------------------------------------------------------------------------
(* The sender, as functions of the message z.  skb_tailroom(), nla_put(),  *)
(* nla_reserve(), nla_nest_end() and nla_nest_cancel() belong to the       *)
(* kernel.  The skb was allocated for the attributes of the policy.        *)
Header(size, type, flag) == <<size % 256, size \div 256, type, flag>>
Zeros(n) == [i \in 1 .. n |-> 0]
Room == nla_policy_len(SendPolicy)
Tailroom(z) == Room - Len(z.bytes)
__nla_reserve(z, type, flag, n) == [z EXCEPT !.bytes = @ \o Header(NLA_HDRLEN + n, type, flag) \o Zeros(nla_total_size(n) - NLA_HDRLEN)]
\* memcpy() to the payload of the attribute at o
Filled(z, o, data) ==
    [z EXCEPT !.bytes = [i \in DOMAIN @ |-> IF i - o - NLA_HDRLEN \in DOMAIN data THEN data[i - o - NLA_HDRLEN] ELSE @[i]]]
nla_put(z, type, flag, data) ==
    IF Tailroom(z) < nla_total_size(Len(data)) THEN [z EXCEPT !.ret = "EMSGSIZE"]
    ELSE [Filled(__nla_reserve(z, type, flag, Len(data)), Len(z.bytes), data) EXCEPT !.ret = "0"]
nla_reserve(z, type, n) == IF Tailroom(z) < nla_total_size(n) THEN z ELSE __nla_reserve(z, type, 0, n)

nla_need_padding_for_64bit(z) == ~z.efficient /\ (z.base + Len(z.bytes)) % 8 = 0
nla_total_size_64bit(payload) == nla_total_size(payload) + nla_total_size(0)
nla_align_64bit(z, pad) == IF nla_need_padding_for_64bit(z) THEN nla_reserve(z, pad, 0) ELSE z
__nla_reserve_64bit(z, type, n, pad) ==
    LET b == IF nla_need_padding_for_64bit(z) THEN nla_align_64bit(z, pad) ELSE z
    IN  [__nla_reserve(b, type, 0, n) EXCEPT !.wide = @ \cup {Len(b.bytes)}]
\* Bug: the padding is not counted.
Len64NoPadding(z, n) == nla_total_size(n)
\* What nla_reserve_64bit() and nla_put_64bit() ask for
Len64(z, n) == IF nla_need_padding_for_64bit(z) THEN nla_total_size_64bit(n) ELSE nla_total_size(n)
nla_reserve_64bit(z, type, n, pad) ==
    IF Tailroom(z) < Len64(z, n) THEN [z EXCEPT !.ret = "NULL"]
    ELSE [__nla_reserve_64bit(z, type, n, pad) EXCEPT !.ret = "0"]
__nla_put_64bit(z, type, data, pad) ==
    LET reserved == __nla_reserve_64bit(z, type, Len(data), pad)
    IN  Filled(reserved, Len(reserved.bytes) - nla_total_size(Len(data)), data)
nla_put_64bit(z, type, data, pad) ==
    IF Tailroom(z) < Len64(z, Len(data)) THEN [z EXCEPT !.ret = "EMSGSIZE"]
    ELSE [__nla_put_64bit(z, type, data, pad) EXCEPT !.ret = "0"]
\* A value below 256, in bytes
Bytes(v, n) == <<v>> \o Zeros(n - 1)
nla_put_u64_64bit(z, type, v, pad) == nla_put_64bit(z, type, Bytes(v, 8), pad)
nla_put_s32(z, type, v) == nla_put(z, type, 0, Bytes(v, 4))

nla_nest_start_noflag(z, type, flag) ==
    LET put == nla_put(z, type, flag, <<>>)
    IN  IF put.ret # "0" THEN [put EXCEPT !.ret = "NULL"]
        ELSE [put EXCEPT !.nests = Append(@, Len(z.bytes)), !.noflag = @ \/ flag = 0]
nla_nest_start(z, type) == nla_nest_start_noflag(z, type, NLA_F_NESTED)
nla_nest_end(z) ==
    LET o == Last(z.nests)
        size == Len(z.bytes) - o
    IN  [z EXCEPT !.bytes[o + 1] = size % 256, !.bytes[o + 2] = size \div 256, !.nests = Front(@), !.ret = "0"]
nla_nest_cancel(z) == [z EXCEPT !.bytes = SubSeq(@, 1, Last(z.nests)), !.nests = Front(@), !.ret = "0"]

-----------------------------------------------------------------------------
NlMessage(from, bytes, base, efficient) ==
    [from |-> from, bytes |-> bytes, base |-> base, efficient |-> efficient, nests |-> <<>>, noflag |-> FALSE,
     wide |-> {}, ret |-> "0", last |-> NoParse, inner |-> NoParse]
NlInit == \/ \E m \in UserMessages : nlm = NlMessage("user", m, 0, FALSE)
          \/ \E base \in {0, 4} : nlm = NlMessage("driver", <<>>, base, FALSE)
          \/ nlm = NlMessage("driver", <<>>, 0, TRUE)

\* A driver's message.  Types 1: an s32, 2: an u64, 3: the padding, 4: a nest with
\* a flag 1 and a nest 2 in it.
NlSend ==
    /\ nlm.from = "driver" /\ nlm.last = NoParse
    /\ \/ nlm.nests = <<>> /\ nlm' = nla_put_s32(nlm, 1, 7)
       \/ nlm.nests = <<>> /\ nlm' = nla_put_u64_64bit(nlm, 2, 1, 3)
       \/ nlm.nests = <<>> /\ nlm' = nla_reserve_64bit(nlm, 2, 8, 3)
       \/ nlm.nests = <<>> /\ nlm' = nla_nest_start(nlm, 4)
       \/ nlm.nests = <<>> /\ nlm' = nla_nest_start_noflag(nlm, 4, 0)
       \/ Len(nlm.nests) = 1 /\ nlm' = nla_nest_start(nlm, 2)
       \/ nlm.nests # <<>> /\ nlm' = nla_put(nlm, 1, 0, <<>>)
       \/ nlm.nests # <<>> /\ nlm' = nla_nest_end(nlm)
       \/ nlm.nests # <<>> /\ nlm' = nla_nest_cancel(nlm)
NlReceive ==
    \/ /\ nlm.from = "user"
       /\ \E entry \in DOMAIN EntryPoints, policy \in Policies, short \in BOOLEAN : Parse(entry, policy, short)
    \/ /\ nlm.from = "driver"
       /\ \E entry \in {"nla_parse", "nla_parse_deprecated", "nla_parse_deprecated_strict"} : Parse(entry, SendPolicy, FALSE)
NlReceiveNested ==
    \E t \in 1 .. 4 :
        \/ ParseNested("nla_parse_nested", nla_parse_nested, t)
        \/ ParseNested("nla_parse_nested_deprecated", nla_parse_nested_deprecated, t)
        \/ ParseNested("nla_validate_nested", nla_validate_nested, t)
        \/ ParseNested("nla_validate_nested_deprecated", nla_validate_nested_deprecated, t)
NlNext == NlSend \/ NlReceive \/ NlReceiveNested

-----------------------------------------------------------------------------
(* What a reader of tb relies on, without the code's order of tests. *)
\* The attributes of the stream b[from + 1 .. to], and those one finds behind them.
RECURSIVE Attributes(_, _, _)
Attributes(b, from, to) ==
    IF ~nla_ok(b, from, to - from) THEN {}
    ELSE {from} \cup Attributes(b, from + Align(nla_attr_size(b, from)), to)
End(b, o) == o + nla_attr_size(b, o)
Inside(b, o) == Attributes(b, o + NLA_HDRLEN, End(b, o))

InRange(v, pt) ==
    /\ pt.vtype \in {"RANGE", "MIN"} => v >= pt.min
    /\ pt.vtype \in {"RANGE", "MAX"} => v <= pt.max
RECURSIVE Usable(_, _, _, _)
Usable(b, o, to, policy) ==
    nla_type(b, o) \in 1 .. MaxType(policy) =>
    LET pt == Entry(policy, nla_type(b, o))
        n == nla_len(b, o)
        text == {i \in 1 .. n : Byte(b, o, i) = 0}
    IN  /\ End(b, o) <= to /\ pt.type # "REJECT"
        /\ pt.type \in IntTypes => n >= IntLen(pt.type) /\ InRange(ValueOf(b, o, pt.type), pt)
        /\ pt.type \in {"FLAG", "EXACT_LEN"} => n = pt.len
        /\ pt.type \in {"MIN_LEN", "UNSPEC"} => n >= pt.len
        /\ pt.type = "MSECS" => n >= 8
        /\ pt.type = "BINARY" /\ pt.len # 0 => n <= pt.len
        /\ pt.type = "NUL_STRING" => \E i \in text : pt.len # 0 => i <= pt.len + 1
        /\ pt.type = "STRING" => n >= 1 /\ (pt.len # 0 /\ n > pt.len => n = pt.len + 1 /\ n \in text)
        /\ pt.type = "BITFIELD32" => n = 8 /\ Bits(Byte(b, o, 1)) \subseteq (Bits(Byte(b, o, 5)) \cap pt.data[1])
        /\ pt.vtype = "FUNCTION" => 1 \notin text
        /\ pt.type = "NESTED" /\ pt.data # <<>> => \A a \in Inside(b, o) : Usable(b, a, End(b, o), pt.data)
        /\ pt.type = "NESTED_ARRAY" /\ pt.data # <<>> =>
              \A e \in Inside(b, o) : \A a \in Inside(b, e) : Usable(b, a, End(b, e), pt.data)

Done == nlm.last # NoParse
Verdict == nlm.last.res.v
Stream == IF nlm.last.short THEN {} ELSE Attributes(nlm.bytes, 0, Len(nlm.bytes))
FlagSets == {EntryPoints[e].flags : e \in DOMAIN EntryPoints}
Again(flags) == __nla_validate(nlm.bytes, 0, IF nlm.last.short THEN -4 ELSE Len(nlm.bytes), nlm.last.policy, flags)

(* What a handler finds in tb is inside the message and is what the policy *)
(* says of its type, at every depth, whichever entry point parsed it; tb   *)
(* has the last attribute of each type; a validation finds the same.  A    *)
(* refusal that names an attribute names one of the message.               *)
ParsedIsUsable ==
    Done /\ nlm.from = "user" =>
    /\ Verdict.ret = "0" =>
        \A t \in 1 .. MaxType(nlm.last.policy) :
            LET of == {o \in Stream : nla_type(nlm.bytes, o) = t}
            IN  /\ \A p \in of : Usable(nlm.bytes, p, Len(nlm.bytes), nlm.last.policy)
                /\ EntryPoints[nlm.last.entry].tb =>
                      LET o == nlm.last.res.tb[t] IN IF of = {} THEN o = -1 ELSE o \in of /\ \A p \in of : p <= o
    /\ Verdict.ret # "0" /\ Verdict.attr # -1 => Verdict.attr >= 0 /\ nla_ok(nlm.bytes, Verdict.attr, Len(nlm.bytes) - Verdict.attr)

(* The validations are ordered: what a stricter one takes a more liberal   *)
(* one takes too; and the attributes in a nested one that has been         *)
(* accepted with the message are accepted when the handler parses them by  *)
(* themselves as strictly, or more liberally, and are what the policy      *)
(* says.                                                                   *)
ValidationsAgree ==
    Done /\ nlm.from = "user" /\ Verdict.ret = "0" =>
    LET flags == EntryPoints[nlm.last.entry].flags
    IN  /\ \A f \in FlagSets : f \subseteq flags => Again(f).v = Verdict
        /\ nlm.inner # NoParse =>
              LET o == nlm.last.res.tb[nlm.inner.type]
                  pt == Entry(nlm.last.policy, nlm.inner.type)
                  strict == nlm.inner.entry \in {"nla_parse_nested", "nla_validate_nested"}
              IN  /\ strict /\ flags = NL_VALIDATE_STRICT => nlm.inner.res.v = Good
                  /\ ~strict => nlm.inner.res.v = Good
                  /\ nlm.inner.res.v = Good => \A a \in Inside(nlm.bytes, o) : Usable(nlm.bytes, a, End(nlm.bytes, o), pt.data)

(* What the senders put together is parsed again as they meant it: nothing *)
(* is written behind the skb's room, every 64 bit value is at an address   *)
(* that is a multiple of 8 where that matters, and every validation that does not ask for a   *)
(* known padding (nor, after nla_nest_start_noflag(), for the nested flag) *)
(* takes the message.                                                      *)
SentIsParsed ==
    nlm.from = "driver" =>
    /\ Len(nlm.bytes) <= Room
    /\ ~nlm.efficient => \A o \in nlm.wide : (nlm.base + o + NLA_HDRLEN) % 8 = 0
    /\ Done =>
        LET flags == EntryPoints[nlm.last.entry].flags
            asks == (IF nlm.noflag THEN {"NESTED"} ELSE {}) \cup (IF \E o \in Stream : nla_type(nlm.bytes, o) = 3 THEN {"UNSPEC"} ELSE {})
        IN  /\ asks \cap flags = {} => Verdict = Good
            /\ nlm.wide # {} /\ Verdict = Good /\ EntryPoints[nlm.last.entry].tb => nlm.last.res.tb[2] = CHOOSE o \in nlm.wide : \A p \in nlm.wide : p <= o

\* Whatever bytes arrive and whichever function is called, a handler gets what
\* its policy promises and the functions do not contradict each other
\* (backport-5.2.c, net/netlink.h).
ValidationHolds == ParsedIsUsable /\ ValidationsAgree
=============================================================================
