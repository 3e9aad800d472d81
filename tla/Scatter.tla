------------------------------ MODULE Scatter ------------------------------
(***************************************************************************)
(* Scatterlists: the iterator over the pages of a list and the mappings it *)
(* hands out (compat/compat-3.9.c), the copy between a list and a buffer   *)
(* (compat/backport-3.11.c), the device coredump that is read through it   *)
(* in pieces and then freed (compat/backport-4.7.c), and the lists that an *)
(* AEAD cipher of an old kernel gets (compat/backport-4.2.c).  An address  *)
(* is <<entry, bytes from the start of the entry's first page>>; of a copy *)
(* the model keeps which addresses it moves, in the order of the buffer,   *)
(* which is the same in both directions.  The functions keep nothing from  *)
(* one call to the next but in the iterator.                               *)
(***************************************************************************)
EXTENDS Naturals, Sequences, SequencesExt

CONSTANTS SgLists,      \* the lists: sequences of [offset, length], an offset within the first page
          PageSize,
          BufLens       \* the sizes of a reader's buffer, and the places where it reads

ASSUME ScatterAssumption ==
    /\ PageSize \in Nat \ {0} /\ BufLens \subseteq Nat
    /\ SgLists \subseteq Seq([offset : 0 .. PageSize - 1, length : Nat])

VARIABLE sg     \* [list, nents: how many entries the user names; miter: struct sg_mapping_iter with its page iterator;
                \*  pc; moved: the addresses consumed so far; skip, buf, buflen: of the copy under way; want, got:
                \*  what it is to copy and has copied; pages: how often the pages of an entry were freed;
                \*  cut: entries of the first table of the chain; alive: the tables of the chain not freed;
                \*  iter, delete_iter; bad: a freed table was read or freed]

Smallest(a, b) == IF a < b THEN a ELSE b
sg_page_count(e) == (e.offset + e.length + PageSize - 1) \div PageSize
\* backport_sg_miter_start() with __sg_page_iter_start(); more is the answer of
\* the last call of __sg_page_iter_next().
Start(nents) ==
    [i |-> 1, sg_pgoffset |-> 0, pg_advance |-> 0, nents |-> nents, offset |-> 0, remaining |-> 0,
     addr |-> <<>>, length |-> 0, consumed |-> 0, more |-> TRUE]

-----------------------------------------------------------------------------
(* The next page of the list, over entries without a page and over several *)
(* pages of one entry.                                                     *)
AtEnd(list, m) == m.nents = 0 \/ m.i > Len(list)
\* One round of the loop
NextEntry(list, m) ==
    IF ~m.more \/ m.sg_pgoffset < sg_page_count(list[m.i]) THEN m
    ELSE LET n == [m EXCEPT !.sg_pgoffset = @ - sg_page_count(list[m.i]), !.i = @ + 1, !.nents = @ - 1]
         IN  [n EXCEPT !.more = ~AtEnd(list, n)]
__sg_page_iter_next(list, m) ==
    IF AtEnd(list, m) THEN [m EXCEPT !.more = FALSE]
    ELSE LET round[k \in 0 .. Len(list)] ==
                IF k = 0 THEN [m EXCEPT !.sg_pgoffset = @ + m.pg_advance, !.pg_advance = 1] ELSE NextEntry(list, round[k - 1])
         IN  round[Len(list)]

\* Bug: an entry's offset counts on each of its pages.
sg_miter_get_next_pageOffset(list, m) ==
    IF m.remaining > 0 THEN m
    ELSE LET p == __sg_page_iter_next(list, m)
             e == list[p.i]
         IN  IF ~p.more THEN p
             ELSE [p EXCEPT !.offset = e.offset,
                            !.remaining = Smallest(e.offset + e.length - p.sg_pgoffset * PageSize, PageSize) - e.offset]
sg_miter_get_next_page(list, m) ==
    IF m.remaining > 0 THEN m
    ELSE LET p == __sg_page_iter_next(list, m)
             e == list[p.i]
             offset == IF p.sg_pgoffset # 0 THEN 0 ELSE e.offset
         IN  IF ~p.more THEN p
             ELSE [p EXCEPT !.offset = offset,
                            !.remaining = Smallest(e.offset + e.length - p.sg_pgoffset * PageSize - offset, PageSize - offset)]

backport_sg_miter_stop(m) ==
    IF m.addr = <<>> THEN m
    ELSE [m EXCEPT !.offset = @ + m.consumed, !.remaining = @ - m.consumed, !.addr = <<>>, !.length = 0, !.consumed = 0]
backport_sg_miter_next(list, stopped) ==
    LET m == sg_miter_get_next_page(list, backport_sg_miter_stop(stopped))
    IN  IF ~m.more THEN m
        ELSE [m EXCEPT !.addr = <<m.i, m.sg_pgoffset * PageSize + m.offset>>, !.length = m.remaining, !.consumed = m.remaining]

-----------------------------------------------------------------------------
(* The addresses of a mapping, and of all bytes that nents entries hold.   *)
Mapped(addr, len) == [k \in 1 .. len |-> <<addr[1], addr[2] + k - 1>>]
Consumed(m) == IF m.addr = <<>> THEN <<>> ELSE Mapped(m.addr, m.consumed)
AllBytes(list, nents) ==
    FlattenSeq([i \in 1 .. Smallest(nents, Len(list)) |-> Mapped(<<i, list[i].offset>>, list[i].length)])
Piece(list, nents, skip, len) ==
    LET all == AllBytes(list, nents) IN SubSeq(all, skip + 1, Smallest(skip + len, Len(all)))
Behind(list, skip) == LET all == AllBytes(list, Len(list)) IN SubSeq(all, skip + 1, Len(all))

SgStart(list, nents) ==
    [list |-> list, nents |-> nents, miter |-> Start(nents), pc |-> "idle", moved |-> <<>>,
     skip |-> 0, buf |-> <<>>, buflen |-> 0, want |-> <<>>, got |-> <<>>, pages |-> [i \in DOMAIN list |-> 0],
     cut |-> Len(list), alive |-> {}, iter |-> <<1, 1>>, delete_iter |-> 1, bad |-> FALSE]
SgInit == \E list \in SgLists : \E nents \in 0 .. Len(list) + 1 : sg = SgStart(list, nents)

(* A user of the mappings, which may give back part of one and stop.       *)
backport_sg_miter_start ==
    /\ sg.pc = "idle"
    /\ sg' = [sg EXCEPT !.pc = "iterate", !.miter = Start(sg.nents)]
Iterate ==
    /\ sg.pc = "iterate"
    /\ LET m == backport_sg_miter_next(sg.list, sg.miter)
       IN  sg' = [sg EXCEPT !.miter = m, !.moved = @ \o Consumed(sg.miter), !.pc = IF m.more THEN @ ELSE "all"]
ConsumeLess ==
    /\ sg.pc = "iterate" /\ sg.miter.addr # <<>>
    /\ \E n \in 0 .. sg.miter.consumed : sg' = [sg EXCEPT !.miter.consumed = n]
Stop ==
    /\ sg.pc = "iterate" /\ sg.miter.addr # <<>>
    /\ sg' = [sg EXCEPT !.miter = backport_sg_miter_stop(@), !.moved = @ \o Consumed(sg.miter)]

-----------------------------------------------------------------------------
(* The copy: sg_miter_skip() passes over the first bytes, a round of its   *)
(* loop at a time, and so does the loop that copies.                       *)
sg_copy_buffer(nents, len, skip) ==
    [sg EXCEPT !.pc = "skip", !.nents = nents, !.miter = Start(nents), !.skip = skip, !.buf = <<>>, !.buflen = len,
               !.want = Piece(sg.list, nents, skip, len)]
sg_pcopy_to_buffer(len, skip) == sg.pc = "idle" /\ sg' = sg_copy_buffer(sg.nents, len, skip)
sg_pcopy_from_buffer(len, skip) == sg.pc = "idle" /\ sg' = sg_copy_buffer(sg.nents, len, skip)
Returned(copied) == [sg EXCEPT !.pc = "returned", !.buf = <<>>, !.got = copied]
\* The iterator has not been used: stopping it first does nothing.
sg_miter_skip ==
    /\ sg.pc = "skip"
    /\ IF sg.skip = 0 THEN sg' = [sg EXCEPT !.pc = "copy"]
       ELSE LET m == sg_miter_get_next_page(sg.list, backport_sg_miter_stop(sg.miter))
                n == Smallest(sg.skip, m.remaining)
            IN  sg' = IF ~m.more THEN [Returned(<<>>) EXCEPT !.miter = m]
                      ELSE [sg EXCEPT !.skip = @ - n, !.miter = [m EXCEPT !.offset = @ + n, !.remaining = @ - n]]
Copy ==
    /\ sg.pc = "copy"
    /\ LET m == backport_sg_miter_next(sg.list, sg.miter)
           len == Smallest(m.length, sg.buflen - Len(sg.buf))
       IN  sg' = IF m.more /\ Len(sg.buf) < sg.buflen
                 THEN [sg EXCEPT !.miter = m, !.buf = @ \o Mapped(m.addr, len)]
                 ELSE [Returned(sg.buf) EXCEPT !.miter = backport_sg_miter_stop(m)]

-----------------------------------------------------------------------------
(* A coredump of the whole list, read with a buffer of any size anywhere.  *)
sg_nents == Len(sg.list)
data_len == Len(AllBytes(sg.list, sg_nents))
devcd_read_from_sgtable(offset, buf_len) ==
    /\ sg.pc = "idle"
    /\ sg' = IF offset > data_len THEN Returned(<<>>)      \* -EINVAL
             ELSE sg_copy_buffer(sg_nents, IF offset + buf_len > data_len THEN data_len - offset ELSE buf_len, offset)

(* devcd_free_sgtable(): the list is one table, or two that are chained by *)
(* the entry behind the first cut ones.                                    *)
Tables == IF sg.cut = sg_nents THEN 1 ELSE 2
Entries(t) == IF Tables = 1 THEN sg_nents ELSE IF t = 1 THEN sg.cut + 1 ELSE sg_nents - sg.cut
sg_is_last(it) == it[1] = Tables /\ it[2] = Entries(it[1])
sg_is_chain(it) == it[1] < Tables /\ it[2] = Entries(it[1])
FreePages ==
    /\ sg.pc = "idle"
    /\ \E cut \in 1 .. sg_nents :
          sg' = [sg EXCEPT !.pc = "free", !.cut = cut, !.alive = IF cut = sg_nents THEN {1} ELSE {1, 2},
                           !.pages = [i \in DOMAIN sg.list |-> @[i] + 1]]
kfree(z) == [z EXCEPT !.alive = @ \ {z.delete_iter}, !.bad = @ \/ z.delete_iter \notin z.alive]
\* A round of the loop over the tables, and what comes after the last one
devcd_free_sgtable ==
    /\ sg.pc = "free"
    /\ LET next == <<sg.iter[1], sg.iter[2] + 1>>
           read == [sg EXCEPT !.bad = @ \/ sg.iter[1] \notin sg.alive]
       IN  sg' = IF sg_is_last(sg.iter) THEN [kfree(read) EXCEPT !.pc = "freed"]
                 ELSE IF sg_is_chain(next) THEN [kfree(read) EXCEPT !.iter = <<2, 1>>, !.delete_iter = 2]
                 ELSE [read EXCEPT !.iter = next]

-----------------------------------------------------------------------------
(* crypto_backport_convert() (compat/backport-4.2.c): the old interface    *)
(* gets the lists from behind the associated data on.                      *)
\* The entries are passed while they are no longer than what is left to skip;
\* what remains of the next one becomes an entry in front of the others.
PassEntry(s, e) ==
    IF s.stop \/ s.len = 0 \/ e.length > s.len THEN [s EXCEPT !.stop = TRUE]
    ELSE [s EXCEPT !.len = @ - e.length, !.i = @ + 1]
scatterwalk_ffwd(list, len) ==
    LET pass[k \in 0 .. Len(list)] == IF k = 0 THEN [i |-> 1, len |-> len, stop |-> FALSE] ELSE PassEntry(pass[k - 1], list[k])
        s == pass[Len(list)]
    IN  [j \in 1 .. Len(list) - s.i + 1 |->
            LET n == s.i + j - 1
                skip == IF j = 1 THEN s.len ELSE 0
            IN  [entry |-> n, offset |-> list[n].offset + skip, length |-> list[n].length - skip]]
BytesOf(parts) == FlattenSeq([j \in DOMAIN parts |-> Mapped(<<parts[j].entry, parts[j].offset>>, parts[j].length)])
\* The destination is the source or another list; the old request names the
\* associated data in the source.
crypto_backport_convert(assoclen, inplace) ==
    /\ sg.pc = "idle" /\ sg.nents = sg_nents /\ assoclen <= data_len
    /\ LET dst == Reverse(sg.list)
           src_part == scatterwalk_ffwd(sg.list, assoclen)
           dst_part == IF inplace THEN src_part ELSE scatterwalk_ffwd(dst, assoclen)
       IN  sg' = [sg EXCEPT !.pc = "returned",
                    !.want = <<Behind(sg.list, assoclen), Behind(IF inplace THEN sg.list ELSE dst, assoclen)>>,
                    !.got = <<BytesOf(src_part), BytesOf(dst_part)>>]

SgNext ==
    \/ backport_sg_miter_start \/ Iterate \/ ConsumeLess \/ Stop
    \/ \E skip, len \in BufLens : sg_pcopy_to_buffer(len, skip) \/ sg_pcopy_from_buffer(len, skip) \/ devcd_read_from_sgtable(skip, len)
    \/ sg_miter_skip \/ Copy
    \/ FreePages \/ devcd_free_sgtable
    \/ \E assoclen \in 0 .. data_len, inplace \in BOOLEAN : crypto_backport_convert(assoclen, inplace)

-----------------------------------------------------------------------------
(* However a user takes the mappings, in part, with stops, or in copies of *)
(* any size from anywhere, the bytes of the entries it named come once     *)
(* each and in order, none outside them and none in a mapping that leaves  *)
(* its page; only the end of the list ends it early, with no mapping left; *)
(* a cipher gets all that is behind the associated data, in both lists;    *)
(* and a coredump's pages and tables are each freed once and no table is   *)
(* read afterwards.                                                        *)
SgBytesOnce ==
    LET all == AllBytes(sg.list, sg.nents)
    IN  /\ IsPrefix(sg.moved, all) /\ (sg.pc = "copy" => IsPrefix(sg.buf, sg.want))
        /\ sg.miter.addr # <<>> =>
              /\ (sg.miter.addr[2] % PageSize) + sg.miter.length <= PageSize
              /\ sg.pc = "iterate" => IsPrefix(sg.moved \o Mapped(sg.miter.addr, sg.miter.length), all)
        /\ sg.pc \in {"returned", "all"} => sg.miter.addr = <<>>
        /\ sg.pc = "returned" => sg.got = sg.want
        /\ sg.pc = "all" => sg.moved = all
        /\ ~sg.bad /\ (sg.pc = "freed" => sg.alive = {} /\ \A i \in DOMAIN sg.pages : sg.pages[i] = 1)
=============================================================================
