-------------------------------- MODULE Net --------------------------------
(***************************************************************************)
(* Network helpers.                                                        *)
(*                                                                         *)
(* TCP segmentation in software (compat/backport-4.4.c): tso_start(),      *)
(* tso_build_hdr() and tso_build_data() cut the payload of an skb, which   *)
(* lies behind its headers and in fragments, into packets.  The loop over  *)
(* them is a driver's.  A byte of the payload is its number; sequence      *)
(* numbers and IP ids wrap at 2^NumBits.                                   *)
(***************************************************************************)
EXTENDS Integers, Sequences, FiniteSets, SequencesExt

CONSTANTS MaxHead,      \* payload bytes in the linear part of an skb
          MaxFrag,      \* bytes in a fragment
          MaxFrags,     \* fragments
          MaxMss,       \* the longest segment a path takes
          NumBits

ASSUME NetAssumption ==
    /\ MaxHead \in Nat /\ MaxFrag \in Nat /\ MaxFrags \in Nat /\ MaxMss \in Nat
    /\ 2 ^ NumBits \in Nat \ {0, 1}

VARIABLE tso    \* [skb: [head, frags, mss, seq, id, ipv6], size, data, next_frag_idx, tcp_seq, ip_id: struct tso_t
                \*  (data is the number of the next byte), total, left: the driver's, descs: descriptors
                \*  used, packets: [seq, id, len, last, bytes]]

Wrap(n) == n % 2 ^ NumBits
Total(s) == LET sum[i \in 0 .. Len(s)] == IF i = 0 THEN 0 ELSE sum[i - 1] + s[i] IN sum[Len(s)]
Payload(skb) == skb.head + Total(skb.frags)
Segs(skb) == (Payload(skb) + skb.mss - 1) \div skb.mss
tso_count_descs(skb) == Segs(skb) * 2 + Len(skb.frags)

\* A fragment begins at the byte after those in front of it.
FragStart(skb, i) == skb.head + Total(SubSeq(skb.frags, 1, i - 1)) + 1
NextFrag(t) ==
    IF t.size = 0 /\ t.next_frag_idx <= Len(t.skb.frags)
    THEN [t EXCEPT !.size = t.skb.frags[t.next_frag_idx], !.data = FragStart(t.skb, t.next_frag_idx),
                   !.next_frag_idx = @ + 1]
    ELSE t
tso_start(skb) ==
    NextFrag([skb |-> skb, size |-> skb.head, data |-> 1, next_frag_idx |-> 1, tcp_seq |-> skb.seq, ip_id |-> skb.id,
              total |-> Payload(skb), left |-> 0, descs |-> 0, packets |-> <<>>])
TsoInit ==
    \E head \in 0 .. MaxHead, frags \in SeqOf(1 .. MaxFrag, MaxFrags), mss \in 1 .. MaxMss, seq \in {0, 2 ^ NumBits - 2}, ipv6 \in BOOLEAN :
        /\ head + Total(frags) > 0
        /\ tso = tso_start([head |-> head, frags |-> frags, mss |-> mss, seq |-> seq, id |-> seq, ipv6 |-> ipv6])

tso_build_hdr(size, is_last) ==
    /\ tso.left = 0 /\ tso.total > 0
    /\ tso' = [tso EXCEPT !.left = size, !.total = @ - size, !.ip_id = IF tso.skb.ipv6 THEN @ ELSE Wrap(@ + 1), !.descs = @ + 1,
                  !.packets = Append(@, [seq |-> tso.tcp_seq, id |-> tso.ip_id, len |-> size, last |-> is_last, bytes |-> <<>>])]
Chunk(size) == [i \in 1 .. size |-> tso.data + i - 1]
Moved(size) == [tso EXCEPT !.tcp_seq = Wrap(@ + size), !.size = @ - size, !.data = @ + size, !.left = @ - size, !.descs = @ + 1,
                           !.packets[Len(tso.packets)].bytes = @ \o Chunk(size)]
\* Bug: next_frag_idx stays.
tso_build_dataAgain(size) ==
    /\ tso.left > 0
    /\ tso' = [NextFrag(Moved(size)) EXCEPT !.next_frag_idx = tso.next_frag_idx]
tso_build_data(size) ==
    /\ tso.left > 0
    /\ tso' = NextFrag(Moved(size))

Smaller(a, b) == IF a < b THEN a ELSE b
\* The driver: a header per packet, and a descriptor for each piece of its data.
TsoNext ==
    \/ LET size == Smaller(tso.skb.mss, tso.total) IN tso_build_hdr(size, size = tso.total)
    \/ tso_build_data(Smaller(tso.size, tso.left))

-----------------------------------------------------------------------------
(* Every byte of the payload is sent once and in order, in packets that    *)
(* are no longer than the path takes and whose sequence numbers and ids    *)
(* go on from the skb's, across the wrap too; only the last packet has the *)
(* skb's flags; and no more descriptors are used than tso_count_descs()    *)
(* told the driver to have free.                                           *)
TsoSendsAll ==
    LET sent == FlattenSeq([i \in DOMAIN tso.packets |-> tso.packets[i].bytes])
        before(i) == Total([j \in 1 .. i - 1 |-> tso.packets[j].len])
    IN  /\ sent = [i \in DOMAIN sent |-> i] /\ tso.descs <= tso_count_descs(tso.skb)
        /\ \A i \in DOMAIN tso.packets :
              LET p == tso.packets[i]
              IN  /\ p.len \in 1 .. tso.skb.mss /\ (p.last <=> before(i) + p.len = Payload(tso.skb))
                  /\ p.seq = Wrap(tso.skb.seq + before(i)) /\ (~tso.skb.ipv6 => p.id = Wrap(tso.skb.id + i - 1))
        /\ tso.total = 0 /\ tso.left = 0 => Len(sent) = Payload(tso.skb)

-----------------------------------------------------------------------------
(* net_get_random_once() (linux/net.h, compat/backport-3.13.c), as         *)
(* netdev_rss_key_fill() uses it (compat/backport-3.19.c): several devices *)
(* ask for the key at the same time, and a work item patches the test out. *)
(* A build without __BACKPORT_NET_GET_RANDOM_ONCE has random bytes for     *)
(* each of them.                                                           *)
CONSTANT OnceTasks
VARIABLE once   \* [static: __BACKPORT_NET_GET_RANDOM_ONCE; key: the static key is enabled; done; fills: how often bytes were
                \*  drawn; pc, got: per task, got is the number of the draw; works; incs: how often the key was enabled]

OnceStart(static) ==
    [static |-> static, key |-> FALSE, done |-> FALSE, fills |-> 0, pc |-> [t \in OnceTasks |-> "test"],
     got |-> [t \in OnceTasks |-> 0], works |-> 0, incs |-> 0]
OnceInit == \E static \in BOOLEAN : once = OnceStart(static)

At(t, pc) == once.pc[t] = pc
net_get_random_once(t) ==
    /\ once.static /\ At(t, "test")
    /\ once' = [once EXCEPT !.pc[t] = IF once.key THEN "copy" ELSE "call"]
\* What is done under the spinlock
__net_get_random_once(t) ==
    /\ At(t, "call")
    /\ once' = IF once.done THEN [once EXCEPT !.pc[t] = "copy"]
               ELSE [once EXCEPT !.fills = @ + 1, !.done = TRUE, !.pc[t] = "disable"]
\* kmalloc() may fail; then the test stays.
__net_random_once_disable_jump(t) ==
    /\ At(t, "disable")
    /\ once' \in {[once EXCEPT !.pc[t] = "copy"], [once EXCEPT !.pc[t] = "copy", !.works = @ + 1]}
__net_random_once_deferred ==
    /\ once.works > 0
    /\ once' = [once EXCEPT !.works = @ - 1, !.key = TRUE, !.incs = IF once.key THEN @ ELSE @ + 1]
netdev_rss_key_fill(t) ==
    \/ /\ once.static /\ At(t, "copy")
       /\ once' = [once EXCEPT !.pc[t] = "done", !.got[t] = once.fills]
    \/ /\ ~once.static /\ At(t, "test")
       /\ once' = [once EXCEPT !.pc[t] = "done", !.fills = @ + 1, !.got[t] = once.fills + 1]
OnceNext ==
    \/ \E t \in OnceTasks :
          \/ net_get_random_once(t) \/ __net_get_random_once(t)
          \/ __net_random_once_disable_jump(t) \/ netdev_rss_key_fill(t)
    \/ __net_random_once_deferred

(* No device gets an empty key; with net_get_random_once() all get the     *)
(* same, also those that found the test patched out, without it no two.    *)
OneKeyForAll ==
    /\ \A t, u \in OnceTasks :
          At(t, "done") /\ At(u, "done") =>
              once.got[t] > 0 /\ (once.got[t] = once.got[u] <=> (once.static \/ t = u))
    /\ once.incs <= 1

-----------------------------------------------------------------------------
(* u64_stats_sync (linux/u64_stats_sync.h): a counter of two words that is *)
(* counted by one writer and read meanwhile.  The kernel is 32 bit with    *)
(* several processors, with one, or 64 bit.                                *)
CONSTANTS MaxCount,     \* how far the writer counts
          MaxRetries    \* the reader's retries that are followed
VARIABLE stats  \* [kernel; irqwriter: it counts in an interrupt; irqreader: the reader uses the _irq functions;
                \*  seq; words: <<high, low>>; wpc; rpc; start, read: the reader's; low: the count when it began;
                \*  tries; off: what the reader switched off: "none", "preempt" or "irq"]

WordSize == 2
Count(words) == words[1] * WordSize + words[2]
Plus1(words) == IF words[2] = WordSize - 1 THEN <<words[1] + 1, 0>> ELSE <<words[1], words[2] + 1>>
StatsStart(kernel, irqwriter, irqreader) ==
    [kernel |-> kernel, irqwriter |-> irqwriter, irqreader |-> irqreader, seq |-> 0, words |-> <<0, 0>>, next |-> <<0, 0>>,
     wpc |-> "idle", rpc |-> "idle", start |-> 0, read |-> <<0, 0>>, low |-> 0, tries |-> 0, off |-> "none"]
\* "If counter might be written by an interrupt, readers should block
\* interrupts" (point 6 of the header).
StatsInit ==
    \E kernel \in {"smp32", "up32", "smp64"}, irqwriter, irqreader \in BOOLEAN :
        /\ irqwriter => irqreader
        /\ stats = StatsStart(kernel, irqwriter, irqreader)

\* On one processor an update is not interrupted by the reader ("write side
\* should not allow preemption", point 3.2), nor does it begin in what the
\* reader has protected.
MayWrite == stats.off = "none" \/ (stats.off = "preempt" /\ stats.irqwriter)
MayRead == stats.kernel = "up32" => stats.wpc = "idle"
Sequenced == stats.kernel = "smp32"
u64_stats_update_begin ==
    /\ stats.wpc = "idle" /\ MayWrite /\ Count(stats.words) < MaxCount
    /\ stats' = [stats EXCEPT !.wpc = "low", !.seq = IF Sequenced THEN @ + 1 ELSE @, !.next = Plus1(stats.words)]
\* A word at a time, or both at once on 64 bit
StoreLow ==
    /\ stats.wpc = "low"
    /\ stats' = IF stats.kernel = "smp64" THEN [stats EXCEPT !.wpc = "end", !.words = stats.next]
                ELSE [stats EXCEPT !.wpc = "high", !.words[2] = stats.next[2]]
StoreHigh ==
    /\ stats.wpc = "high"
    /\ stats' = [stats EXCEPT !.wpc = "end", !.words = stats.next]
u64_stats_update_end ==
    /\ stats.wpc = "end"
    /\ stats' = [stats EXCEPT !.wpc = "idle", !.seq = IF Sequenced THEN @ + 1 ELSE @]

\* With a sequence counter the reader waits for an even number; on one
\* processor it switches off preemption or interrupts.
FetchBegin(off) ==
    /\ stats.rpc = "idle" /\ MayRead /\ (Sequenced => stats.seq % 2 = 0)
    /\ stats' = [stats EXCEPT !.rpc = "low", !.start = stats.seq, !.low = IF stats.tries = 0 THEN Count(stats.words) ELSE @,
                              !.off = IF stats.kernel = "up32" THEN off ELSE @]
u64_stats_fetch_begin == ~stats.irqreader /\ FetchBegin("preempt")
u64_stats_fetch_begin_irq == stats.irqreader /\ FetchBegin("irq")
LoadLow ==
    /\ stats.rpc = "low" /\ MayRead
    /\ stats' = IF stats.kernel = "smp64" THEN [stats EXCEPT !.rpc = "retry", !.read = stats.words]
                ELSE [stats EXCEPT !.rpc = "high", !.read[2] = stats.words[2]]
LoadHigh ==
    /\ stats.rpc = "high" /\ MayRead
    /\ stats' = [stats EXCEPT !.rpc = "retry", !.read[1] = stats.words[1]]
\* Bug: what was read while the writer stored is kept.
FetchRetryNever ==
    /\ stats.rpc = "retry" /\ MayRead
    /\ stats' = [stats EXCEPT !.rpc = "done", !.off = "none"]
FetchRetry ==
    /\ stats.rpc = "retry" /\ MayRead
    /\ IF Sequenced /\ stats.seq # stats.start
       THEN stats.tries < MaxRetries /\ stats' = [stats EXCEPT !.rpc = "idle", !.tries = @ + 1]
       ELSE stats' = [stats EXCEPT !.rpc = "done", !.off = "none"]
u64_stats_fetch_retry == ~stats.irqreader /\ FetchRetry
u64_stats_fetch_retry_irq == stats.irqreader /\ FetchRetry
Again ==
    /\ stats.rpc = "done"
    /\ stats' = [stats EXCEPT !.rpc = "idle", !.tries = 0]
StatsNext ==
    \/ u64_stats_update_begin \/ StoreLow \/ StoreHigh \/ u64_stats_update_end
    \/ u64_stats_fetch_begin \/ u64_stats_fetch_begin_irq \/ LoadLow \/ LoadHigh
    \/ u64_stats_fetch_retry \/ u64_stats_fetch_retry_irq \/ Again

(* A reader never gets the halves of two counts: its answer is a count     *)
(* between the one when it began and the present one.                      *)
WholeCounts ==
    stats.rpc = "done" => Count(stats.read) \in stats.low .. Count(IF stats.wpc = "high" THEN stats.next ELSE stats.words)

-----------------------------------------------------------------------------
(* skb_clone_sk() and skb_complete_wifi_ack() (compat/backport-3.18.c):    *)
(* the status of a frame goes to the error queue of its socket, which its  *)
(* user may close at any time.  The frame itself keeps the memory of the   *)
(* socket, not a reference.                                                *)
VARIABLE sk     \* [sock: the frame has a socket; ref: sk_refcnt; closed; tx: the frame is still with the driver;
                \*  clone: "none", "failed", "made", "queued" or "freed"; pc; freed; bad: the socket was used after
                \*  it was freed]

SkStart(sock) ==
    [sock |-> sock, ref |-> IF sock THEN 1 ELSE 0, closed |-> ~sock, tx |-> TRUE, clone |-> "none", pc |-> "idle",
     freed |-> ~sock, bad |-> FALSE]
SkInit == \E sock \in BOOLEAN : sk = SkStart(sock)
Used(z) == [z EXCEPT !.bad = @ \/ z.freed]
\* The memory goes with the last reference and the last frame.
Settled(z) == [z EXCEPT !.freed = @ \/ (z.ref = 0 /\ ~z.tx)]
sock_hold(z) == [Used(z) EXCEPT !.ref = @ + 1]
sock_put(z) == Settled([Used(z) EXCEPT !.ref = @ - 1])
\* sock_efree() is the destructor of the clone.
sock_efree(z) == sock_put(z)

Close == ~sk.closed /\ sk' = sock_put([sk EXCEPT !.closed = TRUE])
TxDone ==
    /\ sk.tx /\ sk.clone # "none" /\ sk.pc # "clone"
    /\ sk' = IF sk.sock THEN Settled([Used(sk) EXCEPT !.tx = FALSE]) ELSE [sk EXCEPT !.tx = FALSE]
\* if (!sk || !atomic_inc_not_zero(&sk->sk_refcnt)) return NULL; and skb_clone(),
\* which may fail.
skb_clone_sk ==
    \/ /\ sk.tx /\ sk.clone = "none" /\ sk.pc = "idle"
       /\ sk' = IF ~sk.sock THEN [sk EXCEPT !.clone = "failed"]
                ELSE IF sk.ref = 0 THEN [Used(sk) EXCEPT !.clone = "failed"] ELSE [sock_hold(sk) EXCEPT !.pc = "clone"]
    \/ /\ sk.pc = "clone"
       /\ sk' \in {[sk EXCEPT !.pc = "idle", !.clone = "made"],
                   [sock_put(sk) EXCEPT !.pc = "idle", !.clone = "failed"]}
kfree_skb ==
    /\ sk.pc = "idle" /\ sk.clone = "made"
    /\ sk' = [sock_efree(sk) EXCEPT !.clone = "freed"]
(* skb_complete_wifi_ack() *)
\* Bug: no reference is held over sock_queue_err_skb().
HoldNothing ==
    /\ sk.pc = "idle" /\ sk.clone = "made"
    /\ sk' = [Used(sk) EXCEPT !.pc = "queue", !.ref = @]
Hold ==
    /\ sk.pc = "idle" /\ sk.clone = "made"
    /\ sk' = [sock_hold(sk) EXCEPT !.pc = "queue"]
\* sock_queue_err_skb() takes the clone from its socket, and then puts it into
\* the queue; or the queue is full and the clone is freed.
Queue ==
    \/ /\ sk.pc = "queue"
       /\ sk' \in {[sock_efree(Used(sk)) EXCEPT !.pc = "orphaned"],
                   [sock_efree(Used(sk)) EXCEPT !.pc = "put", !.clone = "freed"]}
    \/ /\ sk.pc = "orphaned"
       /\ sk' = [Used(sk) EXCEPT !.pc = "put", !.clone = "queued"]
PutBack ==
    /\ sk.pc = "put"
    /\ sk' = [sock_put(sk) EXCEPT !.pc = "idle"]
SkNext == Close \/ TxDone \/ skb_clone_sk \/ kfree_skb \/ Hold \/ Queue \/ PutBack

(* The socket is not used after it was freed, however its user closes it   *)
(* while the status is on its way, and it is freed once nobody needs it.   *)
SocketOutlivesStatus ==
    /\ ~sk.bad /\ (sk.clone = "made" => ~sk.freed)
    /\ sk.closed /\ ~sk.tx /\ sk.pc = "idle" /\ sk.clone # "made" => sk.freed

-----------------------------------------------------------------------------
(* __pskb_copy() (compat/compat-3.3.c): a copy with a head of its own and  *)
(* another headroom shares the pages of the fragments, the list of         *)
(* fragments and what the header refers to.  Positions are addresses, or   *)
(* offsets from the head.                                                  *)
VARIABLE skb    \* [offsets: NET_SKBUFF_DATA_USES_OFFSET; bufs: per buffer <<>> or <<[data, pos, linear, fields]>>, 0 is an
                \*  unset position, linear the bytes before the fragments, fields those that are assigned one
                \*  by one; refs: per shared part; freed; same: the copy has the headroom of the original; mac]

SharedParts == {"frag1", "frag2", "fraglist", "dst", "secpath", "conntrack"}
Headers == {"mac", "network", "transport"}
HeadAt == <<10, 40>>                                    \* where the heads of the two buffers are
BufferAt(b, offsets, headroom, mac) ==
    LET data == HeadAt[b] + headroom
        from == IF offsets THEN HeadAt[b] ELSE 0
    IN  [data |-> data, pos |-> [mac |-> IF mac THEN data + 0 - from ELSE 0, network |-> data + 2 - from, transport |-> data + 4 - from],
         linear |-> "bytes", fields |-> "fields"]
SkbStart(offsets, parts, headroom, mac) ==
    [offsets |-> offsets, bufs |-> <<<<BufferAt(1, offsets, headroom, mac)>>, <<>>>>, refs |-> [p \in parts |-> 1],
     freed |-> {}, same |-> TRUE, mac |-> mac]
SkbInit ==
    \E offsets, mac \in BOOLEAN, parts \in SUBSET SharedParts, headroom \in 1 .. 3 : skb = SkbStart(offsets, parts, headroom, mac)

\* skb_mac_header_was_set()
WasSet(pos) == pos # 0
\* skb_dst_copy(), secpath_get() and __nf_copy() take references; skb_frag_ref()
\* and skb_clone_fraglist() do it for the fragments.
__copy_skb_header(old, new) == [new EXCEPT !.pos = old.pos, !.fields = old.fields]
Referenced(parts) == [p \in DOMAIN skb.refs |-> IF p \in parts THEN skb.refs[p] + 1 ELSE skb.refs[p]]
\* Addresses move with the data, offsets stay as they are.
copy_skb_header(old, n) ==
    LET new == __copy_skb_header(old, n)
        offset == new.data - old.data
    IN  IF skb.offsets THEN new
        ELSE [new EXCEPT !.pos = [h \in Headers |-> IF h = "mac" /\ ~WasSet(@[h]) THEN @[h] ELSE @[h] + offset]]
__pskb_copy(headroom) ==
    /\ skb.bufs[1] # <<>> /\ skb.bufs[2] = <<>>
    /\ LET old == skb.bufs[1][1]
           n == [data |-> HeadAt[2] + headroom, pos |-> [h \in Headers |-> 0], linear |-> old.linear, fields |-> "none"]
       IN  skb' \in {skb,                                                \* alloc_skb() fails
                     [skb EXCEPT !.bufs[2] = <<copy_skb_header(old, n)>>, !.refs = Referenced(SharedParts),
                                 !.same = headroom = old.data - HeadAt[1]]}
FreeSkb(b) ==
    /\ skb.bufs[b] # <<>>
    /\ skb' = [skb EXCEPT !.bufs[b] = <<>>, !.refs = [p \in DOMAIN @ |-> @[p] - 1],
                          !.freed = @ \cup {p \in DOMAIN skb.refs : skb.refs[p] = 1}]
SkbNext == (\E headroom \in 1 .. 3 : __pskb_copy(headroom)) \/ (\E b \in {1, 2} : FreeSkb(b))

(* The headers of a copy are where those of the original are in its data,  *)
(* if positions are addresses or the headroom stays the same (what         *)
(* pskb_copy() asks for), and no header appears that was not set; and the  *)
(* shared parts live as long as one of the two buffers, in any order.      *)
CopiesStandAlone ==
    /\ skb.bufs[2] # <<>> =>
          LET new == skb.bufs[2][1]
              from == IF skb.offsets THEN HeadAt[2] ELSE 0
          IN  /\ ~skb.offsets \/ skb.same => new.pos.network = new.data + 2 - from /\ new.pos.transport = new.data + 4 - from
              /\ WasSet(new.pos.mac) = skb.mac /\ new.linear = "bytes" /\ new.fields = "fields"
    /\ \A p \in DOMAIN skb.refs :
          /\ skb.refs[p] = Cardinality({b \in {1, 2} : skb.bufs[b] # <<>>})
          /\ p \in skb.freed <=> skb.refs[p] = 0
=============================================================================
