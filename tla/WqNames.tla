------------------------------ MODULE WqNames ------------------------------
(***************************************************************************)
(* The workqueue names of compat/compat-3.3.c.  Before Linux 3.3 a         *)
(* workqueue keeps the pointer to the name it was created with, so         *)
(* backport_alloc_workqueue() formats the name into a struct wq_name of    *)
(* its own and links it into wq_name_list; backport_destroy_workqueue()    *)
(* finds the entry again by the address of the workqueue.  The workqueue   *)
(* is freed before the list is searched, so its address may already belong *)
(* to another workqueue.                                                   *)
(***************************************************************************)
EXTENDS Naturals, Sequences, FiniteSets, SequencesExt

CONSTANTS
    Tasks,      \* tasks that create and destroy workqueues
    Addrs,      \* addresses of struct workqueue_struct
    Names,      \* addresses of struct wq_name
    Null        \* none of them

VARIABLES
    heap,       \* the wq_name structures that are allocated
    key,        \* n->wq of each wq_name
    list,       \* wq_name_list
    wqs,        \* each live workqueue's name pointer; Null: no workqueue here
    users,      \* workqueues returned to a driver, not yet being destroyed
    pc,         \* per task
    n,          \* the local variable n
    wq          \* the local variable wq

nvars == <<heap, key, list, wqs, users, pc, n, wq>>

Init ==
    /\ heap = {} /\ key = [e \in Names |-> Null] /\ list = <<>>
    /\ wqs = [a \in Addrs |-> Null] /\ users = {}
    /\ pc = [t \in Tasks |-> "idle"]
    /\ n = [t \in Tasks |-> Null] /\ wq = [t \in Tasks |-> Null]

-----------------------------------------------------------------------------
(* backport_alloc_workqueue()                                              *)

\* n = kzalloc(..), vsnprintf(n->name, ..); out of memory: return NULL.
AllocName(t) ==
    /\ pc[t] = "idle"
    /\ \E e \in Names \ heap :
        /\ heap' = heap \union {e}
        /\ key' = [key EXCEPT ![e] = Null]
        /\ n' = [n EXCEPT ![t] = e]
    /\ pc' = [pc EXCEPT ![t] = "alloc"]
    /\ UNCHANGED <<list, wqs, users, wq>>

\* wq = __alloc_workqueue_key(n->name, ..), at any address that is free.
AllocWorkqueue(t) ==
    /\ pc[t] = "alloc"
    /\ \E a \in Addrs :
        /\ wqs[a] = Null
        /\ wqs' = [wqs EXCEPT ![a] = n[t]]
        /\ wq' = [wq EXCEPT ![t] = a]
    /\ pc' = [pc EXCEPT ![t] = "add"]
    /\ UNCHANGED <<heap, key, list, users, n>>

\* if (!wq) { kfree(n); return NULL; } forgotten.
AllocFailsKeepsName(t) ==
    /\ pc[t] = "alloc"
    /\ n' = [n EXCEPT ![t] = Null]
    /\ pc' = [pc EXCEPT ![t] = "idle"]
    /\ UNCHANGED <<heap, key, list, wqs, users, wq>>

\* if (!wq) { kfree(n); return NULL; }
AllocFails(t) ==
    /\ pc[t] = "alloc"
    /\ heap' = heap \ {n[t]}
    /\ n' = [n EXCEPT ![t] = Null]
    /\ pc' = [pc EXCEPT ![t] = "idle"]
    /\ UNCHANGED <<key, list, wqs, users, wq>>

\* n->wq = n.
AddNameWrongKey(t) ==
    /\ pc[t] = "add"
    /\ key' = [key EXCEPT ![n[t]] = n[t]]
    /\ list' = <<n[t]>> \o list
    /\ users' = users \union {wq[t]}
    /\ n' = [n EXCEPT ![t] = Null] /\ wq' = [wq EXCEPT ![t] = Null]
    /\ pc' = [pc EXCEPT ![t] = "idle"]
    /\ UNCHANGED <<heap, wqs>>

\* n->wq = wq; list_add() at the head, under wq_name_lock; return wq.
AddName(t) ==
    /\ pc[t] = "add"
    /\ key' = [key EXCEPT ![n[t]] = wq[t]]
    /\ list' = <<n[t]>> \o list
    /\ users' = users \union {wq[t]}
    /\ n' = [n EXCEPT ![t] = Null] /\ wq' = [wq EXCEPT ![t] = Null]
    /\ pc' = [pc EXCEPT ![t] = "idle"]
    /\ UNCHANGED <<heap, wqs>>

-----------------------------------------------------------------------------
(* backport_destroy_workqueue()                                            *)

\* The original destroy_workqueue(wq) frees the workqueue.
DestroyWorkqueue(t) ==
    /\ pc[t] = "idle"
    /\ \E a \in users :
        /\ users' = users \ {a}
        /\ wqs' = [wqs EXCEPT ![a] = Null]
        /\ wq' = [wq EXCEPT ![t] = a]
    /\ pc' = [pc EXCEPT ![t] = "scan"]
    /\ UNCHANGED <<heap, key, list, n>>

\* The entries of the list that name the workqueue at a.
Matches(a) == {i \in DOMAIN list : key[list[i]] = a}

\* Every entry with this address goes, not only the first (no break).
RemoveAllNames(t) ==
    /\ pc[t] = "scan"
    /\ list' = SelectSeq(list, LAMBDA e : key[e] # wq[t])
    /\ heap' = heap \ {list[i] : i \in Matches(wq[t])}
    /\ wq' = [wq EXCEPT ![t] = Null]
    /\ pc' = [pc EXCEPT ![t] = "idle"]
    /\ UNCHANGED <<key, wqs, users, n>>

\* Under wq_name_lock: the first entry with n->wq == wq is unlinked and freed.
RemoveName(t) ==
    /\ pc[t] = "scan"
    /\ IF Matches(wq[t]) = {} THEN UNCHANGED <<list, heap>>
       ELSE LET i == CHOOSE j \in Matches(wq[t]) : \A k \in Matches(wq[t]) : j <= k
            IN  list' = RemoveAt(list, i) /\ heap' = heap \ {list[i]}
    /\ wq' = [wq EXCEPT ![t] = Null]
    /\ pc' = [pc EXCEPT ![t] = "idle"]
    /\ UNCHANGED <<key, wqs, users, n>>

-----------------------------------------------------------------------------
Step(t) ==
    \/ AllocName(t) \/ AllocWorkqueue(t) \/ AllocFails(t) \/ AddName(t)
    \/ DestroyWorkqueue(t) \/ RemoveName(t)

Next == \E t \in Tasks : Step(t)

Spec == Init /\ [][Next]_nvars

-----------------------------------------------------------------------------
TypeOK ==
    /\ heap \subseteq Names
    /\ key \in [Names -> Addrs \union {Null}]
    /\ list \in Seq(Names)
    /\ wqs \in [Addrs -> Names \union {Null}]
    /\ users \subseteq Addrs
    /\ pc \in [Tasks -> {"idle", "alloc", "add", "scan"}]
    /\ n \in [Tasks -> Names \union {Null}]
    /\ wq \in [Tasks -> Addrs \union {Null}]

Scanning(a) == {t \in Tasks : pc[t] = "scan" /\ wq[t] = a}

\* However the calls interleave, an address has as many entries as there are
\* workqueues and unfinished backport_destroy_workqueue() calls for it: each
\* destroy finds an entry to free, even when the address was reused meanwhile.
OneEntryPerQueue ==
    \A a \in Addrs :
        Cardinality(Matches(a)) = Cardinality(Scanning(a)) + (IF a \in users THEN 1 ELSE 0)

\* The wq_name structures that are allocated are exactly the ones on the list,
\* once each, and the ones of calls that will still link or free them: none
\* leaks, none is freed while it is linked.
NoNameLeaks ==
    /\ IsInjective(list)
    /\ heap = Range(list) \union {n[t] : t \in {u \in Tasks : n[u] # Null}}

\* The name that alloc_workqueue() formatted for a workqueue stays allocated as
\* long as the workqueue, which points to it, is alive.
NameOutlivesQueue == \A a \in Addrs : wqs[a] # Null => wqs[a] \in heap
=============================================================================
