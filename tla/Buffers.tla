------------------------------ MODULE Buffers ------------------------------
(***************************************************************************)
(* Compat functions that read or fill a buffer of a given size: hex dumps  *)
(* (compat/backport-4.0.c, compat/backport-4.3.c), strings that become     *)
(* flags (compat/backport-4.6.c, compat/compat-3.0.c), bounded copies,     *)
(* CDC descriptors of a USB interface (compat/backport-4.8.c), the headers *)
(* of an Ethernet frame (compat/backport-3.18.c) and MAC addresses of the  *)
(* firmware (compat/backport-4.3.c).                                       *)
(***************************************************************************)
EXTENDS Integers, Sequences, FiniteSets, SequencesExt

CONSTANTS Dumps,        \* the dumps: [len, rowsize, groupsize, ascii, prefix, size]
          CdcBuffers,   \* sequences of descriptors: [elength, cs, type]
          BoolTexts,    \* sequences of characters
          Frames        \* [vlan, proto, ihl, frag, l4, doff, max_len]

ASSUME BuffersAssumption ==
    /\ Dumps \subseteq [len : Nat, rowsize : Nat, groupsize : Nat, ascii : BOOLEAN, prefix : Nat, size : Nat]
    /\ CdcBuffers \subseteq Seq([elength : Nat, cs : BOOLEAN, type : STRING])
    /\ BoolTexts \subseteq Seq(STRING)
    /\ Frames \subseteq [vlan : BOOLEAN, proto : {"ip", "ipv6", "fcoe", "arp"}, ihl : Nat, frag : BOOLEAN, l4 : {"tcp", "udp", "icmp"},
                         doff : Nat, max_len : Nat]

VARIABLE job    \* what is under way and how far, a record whose field job names it

Lesser(a, b) == IF a < b THEN a ELSE b

-----------------------------------------------------------------------------
(* hex_dump_to_buffer(): a row of len bytes into size characters.  The     *)
(* text of a row is known by its length: text is how many of its           *)
(* characters are in the buffer, and end where the NUL is.                 *)
RowSize(rowsize) == IF rowsize \in {16, 32} THEN rowsize ELSE 16
GroupSize(groupsize, len) == IF groupsize \in {1, 2, 4, 8} /\ len % groupsize = 0 THEN groupsize ELSE 1
\* The groups, with blanks between them
HexText(len, group) == LET groups == len \div group IN IF groups = 0 THEN 0 ELSE groups * (2 * group + 1) - 1
hex_dump_to_buffer(buflen, rowsize0, groupsize0, size, ascii) ==
    LET rowsize == RowSize(rowsize0)
        len == Lesser(buflen, rowsize)
        groupsize == GroupSize(groupsize0, len)
        ascii_column == rowsize * 2 + rowsize \div groupsize + 1
        overflow == IF ascii THEN ascii_column + len ELSE (groupsize * 2 + 1) * (len \div groupsize) - 1
        hex == HexText(len, groupsize)
        all == IF ascii THEN ascii_column + len ELSE hex
    IN  CASE size = 0 -> [ret |-> overflow, text |-> 0, end |-> 0]
          [] size > 0 /\ len = 0 -> [ret |-> 0, text |-> 0, end |-> 0]
          \* snprintf() fills what there is.
          [] size > 0 /\ len > 0 /\ groupsize > 1 /\ hex >= size -> [ret |-> overflow, text |-> size - 1, end |-> size - 1]
          \* Bytes go in with the blank behind them: the NUL can be at linebuf[size].
          [] size > 0 /\ len > 0 /\ groupsize = 1 /\ size < 3 * len -> [ret |-> overflow, text |-> 3 * (size \div 3), end |-> 3 * (size \div 3)]
          \* The blanks and the characters go in one by one.
          [] size > 0 /\ len > 0 /\ hex < size /\ (groupsize = 1 => size >= 3 * len) ->
                IF all < size THEN [ret |-> all, text |-> all, end |-> all]
                ELSE [ret |-> overflow, text |-> size - 1, end |-> size - 1]

(* seq_hex_dump(): rows into a seq_file, whose reader starts again with    *)
(* twice the space when they do not fit.                                   *)
DumpStart(d) == [job |-> "dump", d |-> d, size |-> d.size, count |-> 0, i |-> 0, remaining |-> d.len, rows |-> <<>>, last |-> <<>>, pc |-> "rows"]
Overflowed(z) == z.count = z.size
\* seq_printf() and seq_putc(): all of it, or an overflow
Print1(z, n) == [z EXCEPT !.count = IF z.count + n < z.size THEN @ + n ELSE z.size]
Putc(z) == [z EXCEPT !.count = IF z.count < z.size THEN @ + 1 ELSE @]
seq_hex_dump ==
    /\ job.job = "dump" /\ job.pc = "rows"
    /\ IF job.i >= job.d.len \/ Overflowed(job) THEN job' = [job EXCEPT !.pc = "returned"]
       ELSE LET rowsize == RowSize(job.d.rowsize)
                linelen == Lesser(job.remaining, rowsize)
                z == Print1(job, job.d.prefix)
                r == hex_dump_to_buffer(linelen, rowsize, job.d.groupsize, z.size - z.count, job.d.ascii)
                next == [z EXCEPT !.i = @ + rowsize, !.remaining = @ - rowsize, !.last = <<linelen, z.size - z.count, r>>]
            IN  job' = IF r.ret >= z.size - z.count THEN [next EXCEPT !.count = z.size]
                       ELSE Putc([next EXCEPT !.count = @ + r.ret, !.rows = Append(@, <<job.i, linelen, r.text>>)])
SeqRead ==
    /\ job.job = "dump" /\ job.pc = "returned"
    /\ job' = IF Overflowed(job) THEN DumpStart([job.d EXCEPT !.size = 2 * job.size]) ELSE [job EXCEPT !.pc = "shown"]

(* A dump that is shown has each byte once, in whole rows; a row that does *)
(* not fit says so by its answer, which is what it would need, and keeps   *)
(* the beginning of its text.                                              *)
DumpsAreWhole ==
    job.job = "dump" =>
        /\ job.pc = "shown" =>
              LET rowsize == RowSize(job.d.rowsize)
              IN  /\ Len(job.rows) = (job.d.len + rowsize - 1) \div rowsize
                  /\ \A k \in DOMAIN job.rows :
                        job.rows[k][1] = (k - 1) * rowsize /\ job.rows[k][2] = Lesser(rowsize, job.d.len - job.rows[k][1])
        /\ job.last # <<>> =>
              LET len == job.last[1]
                  size == job.last[2]
                  r == job.last[3]
                  free == hex_dump_to_buffer(len, job.d.rowsize, job.d.groupsize, 1000, job.d.ascii)
              IN  /\ r.ret = free.ret /\ free.text = free.ret /\ r.end <= size
                  /\ IF size > r.ret THEN r.text = r.ret ELSE r.text <= size

-----------------------------------------------------------------------------
(* kstrtobool(), kstrtobool_from_user(), the older strtobool(), and        *)
(* strscpy() of a text into a buffer of n characters.                      *)
NoText == <<"NULL">>        \* a NULL pointer
Char(s, i) == IF i <= Len(s) THEN s[i] ELSE "NUL"
Yes == {"y", "Y", "1"}
No == {"n", "N", "0"}
kstrtobool(s) ==
    CASE s = NoText -> "EINVAL"
      [] Char(s, 1) \in Yes -> "true"
      [] Char(s, 1) \in No -> "false"
      [] Char(s, 1) \in {"o", "O"} /\ Char(s, 2) \in {"n", "N"} -> "true"
      [] Char(s, 1) \in {"o", "O"} /\ Char(s, 2) \in {"f", "F"} -> "false"
      [] OTHER -> "EINVAL"
strtobool(s) == CASE Char(s, 1) \in Yes -> "true" [] Char(s, 1) \in No -> "false" [] OTHER -> "EINVAL"
BoolBuf == 4
\* s has count characters; fault: copy_from_user() cannot read them.
kstrtobool_from_user(s, count, fault) ==
    IF fault THEN "EFAULT" ELSE kstrtobool(SubSeq(s, 1, Lesser(count, BoolBuf - 1)))
E2BIG == 7
\* Characters up to the NUL; without one among the first n, the last is replaced.
strscpy(s, n) ==
    CASE n = 0 -> [ret |-> -E2BIG, dest |-> <<>>]
      [] n > 0 /\ Len(s) < n -> [ret |-> Len(s), dest |-> Append(s, "NUL")]
      [] n > 0 /\ Len(s) >= n -> [ret |-> -E2BIG, dest |-> Append(SubSeq(s, 1, n - 1), "NUL")]

\* Users call each of them with a text; only kstrtobool() takes a NULL pointer.
TextStart(s, n) == [job |-> "text", s |-> s, n |-> n, pc |-> "start", flags |-> <<>>, copy |-> <<>>]
UseText(fault) ==
    /\ job.job = "text" /\ job.pc = "start"
    /\ job' = IF job.s = NoText THEN [job EXCEPT !.pc = "null", !.flags = <<kstrtobool(job.s)>>]
              ELSE [job EXCEPT !.pc = "done", !.copy = strscpy(job.s, job.n),
                               !.flags = <<kstrtobool(job.s), kstrtobool_from_user(job.s, Len(job.s), fault), strtobool(job.s)>>]
(* The three characters that are fetched from user space are enough: the   *)
(* flag is that of the whole text, and that of strtobool() where it knows  *)
(* one.  A copied text ends within the buffer, and is told to be cut       *)
(* exactly if it is.                                                       *)
TextsKeepTheirMeaning ==
    job.job = "text" /\ job.pc = "done" =>
        /\ job.flags[2] \in {job.flags[1], "EFAULT"} /\ job.flags[3] \in {job.flags[1], "EINVAL"}
        /\ Len(job.copy.dest) <= job.n /\ (job.n > 0 => Last(job.copy.dest) = "NUL")
        /\ IsPrefix(SubSeq(job.copy.dest, 1, Len(job.copy.dest) - 1), job.s)
        /\ job.copy.ret >= 0 <=> Front(Append(job.s, "NUL")) = SubSeq(job.copy.dest, 1, Len(job.copy.dest) - 1) /\ job.n > 0

-----------------------------------------------------------------------------
(* cdc_parse_cdc_header(): a round per descriptor.  A descriptor of length *)
(* 0 is a byte that is skipped; the last may claim more bytes than the     *)
(* buffer has, and is taken like the others.  The sizes are those of the   *)
(* structures, of a pointer for the two of MDLM.                           *)
Sizes == [union |-> 5, country |-> 6, header |-> 5, acm |-> 4, ether |-> 13, call |-> 5, dmm |-> 7, mdlm |-> 8, detail |-> 8,
          ncm |-> 6, mbim |-> 12, mbim_ext |-> 8, phonet |-> 0]
FirstOfMany == {"union"}
OnlyOnce == {"header", "ether", "mdlm", "detail"}
Exactly == {"header", "ether"}
AtTheEnd == FirstOfMany \cup OnlyOnce       \* stored in hdr behind the loop
CdcStart(b) ==
    [job |-> "cdc", buffer |-> b, at |-> 1, found |-> [t \in DOMAIN Sizes |-> 0], cnt |-> 0, pc |-> "loop", ret |-> 0,
     hdr |-> [t \in DOMAIN Sizes |-> 0]]
LongEnough(d) == IF d.type \in Exactly THEN d.elength = Sizes[d.type] ELSE d.elength >= Sizes[d.type]
Known1(d) == d.elength > 0 /\ d.cs /\ d.type \in DOMAIN Sizes
Skip(z) == [z EXCEPT !.at = @ + 1]
Take(z, d) ==
    IF d.type \in AtTheEnd THEN [Skip(z) EXCEPT !.found[d.type] = z.at, !.cnt = @ + 1]
    ELSE [Skip(z) EXCEPT !.hdr[d.type] = z.at, !.cnt = @ + 1]
cdc_parse_descriptor ==
    /\ job.job = "cdc" /\ job.pc = "loop" /\ job.at <= Len(job.buffer)
    /\ LET d == job.buffer[job.at]
       IN  job' = IF ~Known1(d) THEN Skip(job)
                  ELSE IF ~LongEnough(d)                                 \* break, where the others go on
                  THEN IF d.type = "mbim_ext" THEN [Skip(job) EXCEPT !.cnt = @ + 1] ELSE Skip(job)
                  ELSE IF job.found[d.type] = 0 THEN Take(job, d)
                  ELSE IF d.type \in FirstOfMany THEN Skip(job)
                  ELSE [job EXCEPT !.pc = "done", !.ret = -1]
cdc_parse_cdc_header ==
    /\ job.job = "cdc" /\ job.pc = "loop" /\ job.at > Len(job.buffer)
    /\ job' = [job EXCEPT !.pc = "done", !.ret = job.cnt, !.hdr = [t \in DOMAIN @ |-> IF t \in AtTheEnd THEN job.found[t] ELSE @[t]]]

(* The parsed header has, for each kind, a descriptor of that kind that is *)
(* long enough: the only one of the kinds that may not come twice, the     *)
(* first union, the last of the others; a duplicate is refused, and then   *)
(* none of the descriptors that drivers look for first is there.           *)
DescriptorsFound ==
    job.job = "cdc" /\ job.pc = "done" =>
        \A t \in DOMAIN Sizes :
            LET good == {i \in DOMAIN job.buffer : LET d == job.buffer[i] IN Known1(d) /\ d.type = t /\ LongEnough(d)}
            IN  IF job.ret < 0
                THEN job.hdr[t] \in {0} \cup IF t \in AtTheEnd THEN {} ELSE good
                ELSE /\ t \in OnlyOnce => Cardinality(good) <= 1
                     /\ job.hdr[t] \in IF good = {} THEN {0} ELSE good
                     /\ \A i \in good : IF t \in AtTheEnd THEN job.hdr[t] <= i ELSE job.hdr[t] >= i

-----------------------------------------------------------------------------
(* eth_get_headlen(): max_len minus the size of a header is unsigned, and  *)
(* a frame shorter than the header passes the test.                        *)
ETH == 14
VLAN == 4
L3 == [ip |-> 20, ipv6 |-> 40, fcoe |-> 38]
L4 == [tcp |-> 20, udp |-> 8]
Beyond(off, size, max_len) == max_len >= size /\ off > max_len - size
eth_get_headlen(f) ==
    LET network == ETH + IF f.vlan THEN VLAN ELSE 0
        hlen == IF f.proto = "ip" THEN f.ihl ELSE L3[f.proto]
        nexthdr == IF f.proto = "ipv6" \/ (f.proto = "ip" /\ ~f.frag) THEN f.l4 ELSE "none"
        transport == network + hlen
        data == transport + CASE nexthdr = "tcp" -> f.doff [] nexthdr = "udp" -> L4["udp"] [] OTHER -> 0
    IN  CASE f.max_len < ETH \/ (f.vlan /\ Beyond(ETH, VLAN, f.max_len)) -> f.max_len
          [] OTHER ->
             IF f.proto \notin DOMAIN L3 THEN network
             ELSE IF Beyond(network, L3[f.proto], f.max_len) THEN f.max_len
             ELSE IF f.proto = "ip" /\ f.ihl < L3["ip"] THEN network
             ELSE IF nexthdr \in DOMAIN L4 /\ Beyond(transport, L4[nexthdr], f.max_len) THEN f.max_len
             ELSE IF nexthdr = "tcp" /\ f.doff < L4["tcp"] THEN transport
             ELSE Lesser(data, f.max_len)
FrameStart(f) == [job |-> "frame", f |-> f, pc |-> "start", ret |-> 0]
GetHeadlen ==
    /\ job.job = "frame" /\ job.pc = "start"
    /\ job' = [job EXCEPT !.pc = "done", !.ret = eth_get_headlen(job.f)]

\* The headers of a frame that are there and well formed, summed up.
TrueHeaders(f) ==
    ETH + (IF f.vlan THEN VLAN ELSE 0)
    + (IF f.proto = "ip" THEN f.ihl ELSE IF f.proto \in DOMAIN L3 THEN L3[f.proto] ELSE 0)
    + (IF f.proto = "ipv6" \/ (f.proto = "ip" /\ ~f.frag)
       THEN IF f.l4 = "tcp" THEN f.doff ELSE IF f.l4 = "udp" THEN L4["udp"] ELSE 0 ELSE 0)
WellFormed(f) == f.ihl >= L3["ip"] /\ f.doff >= L4["tcp"]
(* The headers are never longer than a frame that could hold the longest   *)
(* of them (in a shorter one, less than any Ethernet frame, the bytes      *)
(* behind it count), and those of a well formed frame are all found,       *)
(* whichever layers it has.                                                *)
HeadersFound ==
    job.job = "frame" /\ job.pc = "done" =>
        /\ job.f.max_len >= L3["ipv6"] => job.ret <= job.f.max_len
        /\ WellFormed(job.f) => job.ret = Lesser(TrueHeaders(job.f), job.f.max_len)

-----------------------------------------------------------------------------
(* device_get_mac_address(): the first of three properties that has an     *)
(* address, in a buffer of alen bytes.  A property is missing, has no      *)
(* value, is too short for the buffer, has bytes that are no address (all  *)
(* zeros, or a group), or an address.                                      *)
ETH_ALEN == 6
MacNames == <<"mac-address", "local-mac-address", "address">>
Properties == [1 .. 3 -> {"missing", "empty", "short", "invalid", "address"}]
MacStart(props, alen) ==
    [job |-> "mac", props |-> props, alen |-> alen, at |-> 1, addr |-> <<>>, ret |-> "0", pc |-> "look", res |-> FALSE]
of_find_property_value_of_size(p) ==
    CASE p = "missing" -> "EINVAL" [] p = "empty" -> "ENODATA" [] p = "short" -> "EOVERFLOW" [] OTHER -> "0"
\* The bytes of the property are in the buffer, whatever they are.
of_property_read_u8_array(z) ==
    LET ret == of_find_property_value_of_size(z.props[z.at])
    IN  IF ret # "0" THEN [z EXCEPT !.ret = ret] ELSE [z EXCEPT !.ret = "0", !.addr = <<z.props[z.at], z.at>>]
device_get_mac_addr(z) ==
    LET read == of_property_read_u8_array(z)
    IN  [read EXCEPT !.res = read.ret = "0" /\ read.alen = ETH_ALEN /\ read.addr[1] = "address"]
device_get_mac_address ==
    /\ job.job = "mac" /\ job.pc = "look"
    /\ LET z == device_get_mac_addr(job)
       IN  job' = IF z.res \/ z.at = Len(MacNames) THEN [z EXCEPT !.pc = "done"] ELSE [z EXCEPT !.at = @ + 1]
(* The address of the first property that has one is in the buffer, and    *)
(* NULL is answered only if there is none or the buffer is not for one.    *)
MacFound ==
    job.job = "mac" /\ job.pc = "done" =>
        /\ job.res <=> job.alen = ETH_ALEN /\ \E i \in DOMAIN job.props : job.props[i] = "address"
        /\ job.res => job.addr[1] = "address" /\ \A i \in 1 .. job.addr[2] - 1 : job.props[i] # "address"

-----------------------------------------------------------------------------
BufInit ==
    \/ \E d \in Dumps : job = DumpStart(d)
    \/ \E b \in CdcBuffers : job = CdcStart(b)
    \/ \E s \in BoolTexts, n \in 0 .. 4 : job = TextStart(s, n)
    \/ \E f \in Frames : job = FrameStart(f)
    \/ \E props \in Properties, alen \in {ETH_ALEN, ETH_ALEN - 1} : job = MacStart(props, alen)
BufNext ==
    \/ seq_hex_dump \/ SeqRead \/ (\E fault \in BOOLEAN : UseText(fault)) \/ cdc_parse_descriptor \/ cdc_parse_cdc_header
    \/ GetHeadlen \/ device_get_mac_address

(* What is read from or written to a buffer is all of it and no more than  *)
(* its size tells.                                                         *)
BuffersAsSized == DumpsAreWhole /\ TextsKeepTheirMeaning /\ DescriptorsFound /\ HeadersFound /\ MacFound
=============================================================================
