------------------------------ MODULE KeyRing ------------------------------
(***************************************************************************)
(* Keys and keyrings: verification/key.c, public_key.c and verify.c.  A    *)
(* keyring is a key whose list head links its keys; a reference is counted *)
(* for the list and one for every caller.  The links are those of          *)
(* list_head, and stray records that a step wrote through a freed node.    *)
(* The loops over the list take a step per key; nothing takes a lock, so   *)
(* that callers make one call at a time.                                   *)
(***************************************************************************)
EXTENDS Integers, FiniteSets, Sequences

CONSTANTS Ring, KeyIds,     \* the keyring, and the keys created into it
          CertIds,          \* the identifiers a certificate may carry
          MaxHeld,          \* references a caller keeps of one key
          RsaLen,           \* bytes of the modulus
          MaxPuts           \* keys and lookups in one behaviour

VARIABLES heap,     \* [alive, ref, next, prev, ids, stray, leaked]
          held,     \* references the callers have
          said,     \* what the last call answered
          puts,
          walk      \* [op, at, ids]: the loop over the ring that is under way
ringVars == <<heap, held, said, puts, walk>>

Nodes == {Ring} \cup KeyIds
POISON == "poison"
NoId == "no id"
NoWalk == [op |-> "none", at |-> Ring, ids |-> <<NoId, NoId>>]

ASSUME KeyRingAssumption == Ring \notin KeyIds /\ POISON \notin Nodes

RingInit ==
    /\ heap = [alive |-> {}, ref |-> [n \in Nodes |-> 0], next |-> [n \in Nodes |-> n],
               prev |-> [n \in Nodes |-> n], ids |-> [n \in Nodes |-> <<NoId, NoId>>],
               stray |-> FALSE, leaked |-> 0]
    /\ held = [n \in Nodes |-> 0]
    /\ said = "nothing"
    /\ puts = 0
    /\ walk = NoWalk

-----------------------------------------------------------------------------
(* list.h *)
Wild(h, n) == n = POISON \/ n \notin h.alive
list_add_tail(h, new, head) ==
    [h EXCEPT !.next = [@ EXCEPT ![new] = head, ![h.prev[head]] = new],
              !.prev = [@ EXCEPT ![new] = h.prev[head], ![head] = new]]
list_del(h, n) ==
    LET p == h.prev[n]
        q == h.next[n]
    IN IF Wild(h, p) \/ Wild(h, q) THEN [h EXCEPT !.stray = TRUE]
       ELSE [h EXCEPT !.next = [[@ EXCEPT ![p] = q] EXCEPT ![n] = POISON],
                      !.prev = [[@ EXCEPT ![q] = p] EXCEPT ![n] = POISON]]

(* key_put frees with the last reference: the keys of a ring are put first,  *)
(* one by one, and the ring's own head is taken out of the list of those     *)
(* that remain.                                                              *)
Dropped(h, n) == [h EXCEPT !.ref[n] = @ - 1]
Freed(h, n) == [h EXCEPT !.alive = @ \ {n}]
key_put(h, n) ==
    LET d == Dropped(h, n)
    IN IF d.ref[n] # 0 THEN d ELSE Freed(list_del(d, n), n)
keyring_clearKeeps(h) == [NoWalk EXCEPT !.op = "clear"]
keyring_clear(h) == [NoWalk EXCEPT !.op = "clear", !.at = h.next[Ring]]

key_alloc(h, n) ==
    [h EXCEPT !.alive = @ \cup {n}, !.ref[n] = 1, !.next[n] = n, !.prev[n] = n]

-----------------------------------------------------------------------------
Callable == puts < MaxPuts /\ ~heap.stray /\ walk.op = "none"
Say(what) == said' = what /\ puts' = puts + 1

bp_keyring_alloc(ok) ==
    /\ Callable /\ Ring \notin heap.alive /\ puts = 0
    /\ IF ok THEN /\ heap' = key_alloc(heap, Ring)
                  /\ held' = [held EXCEPT ![Ring] = 1]
             ELSE UNCHANGED <<heap, held>>
    /\ UNCHANGED walk
    /\ Say(IF ok THEN "ring" ELSE "NULL")

(* The certificate is parsed, its identifiers, public key and signature move *)
(* to the key, which joins the ring.  An error frees the key alone: the      *)
(* parsed certificate is not freed when the description cannot be allocated. *)
bp_key_create_or_update(k, ids, how) ==
    /\ Callable /\ Ring \in heap.alive /\ held[Ring] > 0
    /\ k \notin heap.alive /\ held[k] = 0
    /\ CASE how = "no key" -> Say("NULL") /\ UNCHANGED <<heap, held>>
         [] how = "bad certificate" -> Say("EBADMSG") /\ UNCHANGED <<heap, held>>
         [] how = "no description" -> /\ Say("ENOMEM")
                                      /\ heap' = [heap EXCEPT !.leaked = 1]
                                      /\ UNCHANGED held
         [] how = "ok" -> /\ heap' = list_add_tail([[key_alloc(heap, k) EXCEPT !.ref[k] = 2]
                                                       EXCEPT !.ids[k] = ids], k, Ring)
                          /\ held' = [held EXCEPT ![k] = 1]
                          /\ Say("created")
    /\ UNCHANGED walk

(* The second identifier is asked for, but it is the first one that is       *)
(* compared with the key's second; no identifier equals none.                *)
Matches(k, id0, id1) ==
    /\ id0 # NoId => heap.ids[k][1] # NoId /\ heap.ids[k][1] = id0
    /\ id1 # NoId => heap.ids[k][2] # NoId /\ heap.ids[k][2] = id0
find_asymmetric_key(id0, id1) ==
    /\ Callable /\ Ring \in heap.alive /\ held[Ring] > 0
    /\ \A k \in KeyIds : held[k] < MaxHeld
    /\ walk' = [op |-> "find", at |-> heap.next[Ring], ids |-> <<id0, id1>>]
    /\ Say("nothing") /\ UNCHANGED <<heap, held>>
FindNext ==
    /\ walk.op = "find" /\ walk.at # Ring /\ ~Matches(walk.at, walk.ids[1], walk.ids[2])
    /\ walk' = [walk EXCEPT !.at = heap.next[walk.at]]
    /\ UNCHANGED <<heap, held, said, puts>>
Found ==
    /\ walk.op = "find" /\ walk.at # Ring /\ Matches(walk.at, walk.ids[1], walk.ids[2])
    /\ heap' = [heap EXCEPT !.ref[walk.at] = @ + 1]
    /\ held' = [held EXCEPT ![walk.at] = @ + 1]
    /\ walk' = NoWalk /\ said' = "found" /\ UNCHANGED puts
NotFound ==
    /\ walk.op = "find" /\ walk.at = Ring
    /\ walk' = NoWalk /\ said' = "ENOKEY" /\ UNCHANGED <<heap, held, puts>>

(* A caller gives a reference back; with the ring's last one its keys go.    *)
put(n) ==
    /\ Callable /\ held[n] > 0
    /\ held' = [held EXCEPT ![n] = @ - 1]
    /\ Say("put")
    /\ IF n = Ring /\ heap.ref[n] = 1
       THEN heap' = Dropped(heap, n) /\ walk' = keyring_clear(heap)
       ELSE heap' = key_put(heap, n) /\ UNCHANGED walk
(* The next key is read before this one is put.                              *)
PutNext ==
    /\ walk.op = "clear" /\ walk.at # Ring /\ ~heap.stray
    /\ heap' = IF Wild(heap, walk.at) THEN [heap EXCEPT !.stray = TRUE] ELSE key_put(heap, walk.at)
    /\ walk' = IF Wild(heap, walk.at) THEN walk ELSE [walk EXCEPT !.at = heap.next[walk.at]]
    /\ UNCHANGED <<held, said, puts>>
RingFreed ==
    /\ walk.op = "clear" /\ walk.at = Ring
    /\ heap' = Freed(list_del(heap, Ring), Ring)
    /\ walk' = NoWalk /\ UNCHANGED <<held, said, puts>>

(* public_key.c: sig is [algo, hash, size, first, good]; a bit string's      *)
(* leading count of unused bits is skipped when the size tells there is one. *)
rsa_get(vlen, alloc) == IF vlen = 0 \/ ~alloc THEN "EINVAL" ELSE "ok"
Verdict(sig) ==
    IF sig.size # RsaLen /\ ~(sig.size = RsaLen + 1 /\ sig.first = 0) THEN "EINVAL"
    ELSE IF sig.good /\ sig.hash = "sha256" THEN "verified" ELSE "EKEYREJECTED"
public_key_verify_signature(k, sig, nlen, alloc) ==
    /\ Callable /\ k \in KeyIds /\ held[k] > 0
    /\ Say(IF sig.algo # "rsa" THEN "ENOTSUPP"
           ELSE IF sig.hash \notin {"sha1", "sha256"} THEN "ENOTSUPP"
           ELSE IF rsa_get(nlen, alloc) # "ok" THEN rsa_get(nlen, alloc)
           ELSE Verdict(sig))
    /\ UNCHANGED <<heap, held, walk>>

(* verify.c: one message; where the first step that fails stops it. *)
verify_pkcs7_signature(data, stop, view) ==
    /\ Callable /\ Ring \in heap.alive /\ held[Ring] > 0
    /\ Say(IF stop = "parse" THEN "EBADMSG"
           ELSE IF data /\ stop = "detached" THEN "EBADMSG"
           ELSE IF stop = "verify" THEN "EKEYREJECTED"
           ELSE IF stop = "trust" \/ heap.next[Ring] = Ring THEN "ENOKEY"
           ELSE IF view /\ stop = "content" THEN "ENODATA"
           ELSE IF view THEN "viewed" ELSE "trusted")
    /\ UNCHANGED <<heap, held, walk>>

RingNext ==
    \/ \E ok \in BOOLEAN : bp_keyring_alloc(ok)
    \/ \E k \in KeyIds, i, j \in CertIds \cup {NoId},
          how \in {"no key", "bad certificate", "no description", "ok"} :
             bp_key_create_or_update(k, <<i, j>>, how)
    \/ \E i, j \in CertIds \cup {NoId} : find_asymmetric_key(i, j)
    \/ FindNext \/ Found \/ NotFound
    \/ \E n \in Nodes : put(n)
    \/ PutNext \/ RingFreed
    \/ \E k \in KeyIds, nlen \in {0, RsaLen}, alloc \in BOOLEAN,
          sig \in [algo : {"rsa", "ecdsa"}, hash : {"sha1", "sha256", "md5"},
                   size : {RsaLen, RsaLen + 1}, first : {0, 1}, good : BOOLEAN] :
             public_key_verify_signature(k, sig, nlen, alloc)
    \/ \E data, view \in BOOLEAN, stop \in {"parse", "detached", "verify", "trust", "content", "no"} :
             verify_pkcs7_signature(data, stop, view)

RingSpec == RingInit /\ [][RingNext]_ringVars

-----------------------------------------------------------------------------
\* What a walk from the ring along the links comes to.
Reached(n) == \A S \in SUBSET Nodes : Ring \in S /\ (\A m \in S : heap.next[m] \in S) => n \in S

(* No step writes through a freed key or keyring, and the list is whole at   *)
(* any time, also in the middle of freeing a ring: a key that a caller holds *)
(* outlives its ring, in a list whose head is gone, and its memory goes with *)
(* the last reference; between calls a key is alive just when a caller holds *)
(* it or a living ring leads to it, and is counted once for each (key_put,   *)
(* keyring_clear, find_asymmetric_key).                                      *)
KeysOutliveTheRing ==
    /\ ~heap.stray
    /\ \A n \in heap.alive : heap.next[n] \in heap.alive /\ heap.prev[heap.next[n]] = n
    /\ \A k \in KeyIds : held[k] > 0 => k \in heap.alive /\ heap.ref[k] >= held[k]
    /\ walk.op = "none" =>
         \A k \in KeyIds :
            LET linked == Ring \in heap.alive /\ Reached(k)
            IN  /\ k \in heap.alive <=> held[k] > 0 \/ linked
                /\ k \in heap.alive => heap.ref[k] = held[k] + IF linked THEN 1 ELSE 0
=============================================================================
