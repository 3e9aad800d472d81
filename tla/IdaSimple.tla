----------------------------- MODULE IdaSimple -----------------------------
(***************************************************************************)
(* ida_simple_get() and ida_simple_remove() of compat/compat-3.1.c, run by *)
(* several callers at once.  Memory for the id tree is reserved before the *)
(* spinlock is taken, so another caller can use up the reserve and force a *)
(* retry; an id above the caller's maximum is taken and given back within  *)
(* one critical section.                                                   *)
(***************************************************************************)
EXTENDS Integers

CONSTANTS
    Callers,
    Nobody,     \* compat_simple_ida_lock is free
    Ranges,     \* <<start, end>> of the calls (end = 0: no limit)
    Top         \* INT_MAX: bound on the ids

ASSUME IdaAssumption ==
    /\ Nobody \notin Callers
    /\ Top \in Nat
    /\ Ranges \subseteq Nat \X Nat
    /\ \A r \in Ranges : r[2] = 0 \/ r[1] <= r[2]   \* BUG_ON(end < start)

VARIABLES
    ida,        \* the ids that are set in the ida
    reserve,    \* ida_pre_get() has left memory in the ida
    lock,       \* holder of compat_simple_ida_lock
    pc,
    range,      \* start and end of each caller's call
    id,         \* the id that a call holds between its set and its return
    ret,        \* the local variable ret
    owned       \* ids callers got and have not begun to remove

ivars == <<ida, reserve, lock, pc, range, id, ret, owned>>

Ids == 0..Top
NoId == -1      \* id or ret not set
ENOMEM == -12
EAGAIN == -11
ENOSPC == -28

Init ==
    /\ ida = {} /\ reserve = FALSE /\ lock = Nobody
    /\ pc = [c \in Callers |-> "idle"]
    /\ range \in [Callers -> Ranges]
    /\ id = [c \in Callers |-> NoId]
    /\ ret = [c \in Callers |-> NoId]
    /\ owned = {}

Goto(c, from, to) == pc[c] = from /\ pc' = [pc EXCEPT ![c] = to]

-----------------------------------------------------------------------------
(* ida_simple_get()                                                        *)

Call(c) ==
    /\ Goto(c, "idle", "pre")
    /\ \E r \in Ranges : range' = [range EXCEPT ![c] = r]
    /\ UNCHANGED <<ida, reserve, lock, id, ret, owned>>

\* if (end == 0) max = 0x80000000; else max = end - 1;
MaxInclusive(end) == IF end = 0 THEN Top + 1 ELSE end
MaxId(end) == IF end = 0 THEN Top + 1 ELSE end - 1

\* ida_pre_get() fills the reserve, outside the lock.
PreGet(c) ==
    /\ Goto(c, "pre", "lock")
    /\ reserve' = TRUE
    /\ UNCHANGED <<ida, lock, range, id, ret, owned>>

\* ... or fails: return -ENOMEM.
PreGetFails(c) ==
    /\ Goto(c, "pre", "ret")
    /\ ret' = [ret EXCEPT ![c] = ENOMEM]
    /\ UNCHANGED <<ida, reserve, lock, range, id, owned>>

Lock(c) ==
    /\ Goto(c, "lock", "get")
    /\ lock = Nobody /\ lock' = c
    /\ UNCHANGED <<ida, reserve, range, id, ret, owned>>

\* The smallest id not in use, from start on.
IsNewAbove(start, new) ==
    /\ new \in Ids \ ida /\ new >= start
    /\ \A i \in Ids : start <= i /\ i < new => i \in ida

\* ida_get_new_above() sets an id; it may need (or not) the reserved memory.
GetNewAbove(c) ==
    /\ Goto(c, "get", "check")
    /\ \E new \in Ids : /\ IsNewAbove(range[c][1], new)
                        /\ id' = [id EXCEPT ![c] = new]
                        /\ ida' = ida \union {new}
    /\ \/ reserve' = reserve
       \/ reserve /\ reserve' = FALSE
    /\ UNCHANGED <<lock, range, ret, owned>>

\* It needs memory and the reserve has been used up by another caller.
GetNewAgain(c) ==
    /\ Goto(c, "get", "unlock")
    /\ ~reserve
    /\ ret' = [ret EXCEPT ![c] = EAGAIN]
    /\ UNCHANGED <<ida, reserve, lock, range, id, owned>>

\* No id from start on is free.
GetNewFull(c) ==
    /\ Goto(c, "get", "unlock")
    /\ \A i \in Ids : range[c][1] <= i => i \in ida
    /\ ret' = [ret EXCEPT ![c] = ENOSPC]
    /\ UNCHANGED <<ida, reserve, lock, range, id, owned>>

\* The id above the maximum is not given back.
TooLargeKept(c) ==
    /\ Goto(c, "check", "unlock")
    /\ id[c] > MaxId(range[c][2])
    /\ ret' = [ret EXCEPT ![c] = ENOSPC]
    /\ id' = [id EXCEPT ![c] = NoId]
    /\ UNCHANGED <<ida, reserve, lock, range, owned>>

\* The caller is told of an error that ida_simple_get() does not have.
TooLargeInvalid(c) ==
    /\ Goto(c, "check", "unlock")
    /\ id[c] > MaxId(range[c][2])
    /\ ida' = ida \ {id[c]}
    /\ ret' = [ret EXCEPT ![c] = -22]
    /\ id' = [id EXCEPT ![c] = NoId]
    /\ UNCHANGED <<reserve, lock, range, owned>>

\* if (id > max) { ida_remove(ida, id); ret = -ENOSPC; }
TooLarge(c) ==
    /\ Goto(c, "check", "unlock")
    /\ id[c] > MaxId(range[c][2])
    /\ ida' = ida \ {id[c]}
    /\ ret' = [ret EXCEPT ![c] = ENOSPC]
    /\ id' = [id EXCEPT ![c] = NoId]
    /\ UNCHANGED <<reserve, lock, range, owned>>

\* else ret = id;
InBounds(c) ==
    /\ Goto(c, "check", "unlock")
    /\ id[c] <= MaxId(range[c][2])
    /\ ret' = [ret EXCEPT ![c] = id[c]]
    /\ UNCHANGED <<ida, reserve, lock, range, id, owned>>

\* spin_unlock; if (ret == -EAGAIN) goto again;
Unlock(c) ==
    /\ Goto(c, "unlock", IF ret[c] = EAGAIN THEN "pre" ELSE "ret")
    /\ lock' = Nobody
    /\ ret' = [ret EXCEPT ![c] = IF @ = EAGAIN THEN NoId ELSE @]
    /\ UNCHANGED <<ida, reserve, range, id, owned>>

\* The caller looks at what it got.
Return(c) ==
    /\ Goto(c, "ret", "idle")
    /\ owned' = IF ret[c] \in Ids THEN owned \union {ret[c]} ELSE owned
    /\ ret' = [ret EXCEPT ![c] = NoId] /\ id' = [id EXCEPT ![c] = NoId]
    /\ UNCHANGED <<ida, reserve, lock, range>>

-----------------------------------------------------------------------------
(* ida_simple_remove()                                                     *)

RemoveCall(c) ==
    /\ Goto(c, "idle", "rlock")
    /\ \E i \in owned : id' = [id EXCEPT ![c] = i] /\ owned' = owned \ {i}
    /\ UNCHANGED <<ida, reserve, lock, range, ret>>

RemoveLock(c) ==
    /\ Goto(c, "rlock", "remove")
    /\ lock = Nobody /\ lock' = c
    /\ UNCHANGED <<ida, reserve, range, id, ret, owned>>

RemoveId(c) ==
    /\ Goto(c, "remove", "runlock")
    /\ ida' = ida \ {id[c]}
    /\ id' = [id EXCEPT ![c] = NoId]
    /\ UNCHANGED <<reserve, lock, range, ret, owned>>

RemoveUnlock(c) ==
    /\ Goto(c, "runlock", "idle")
    /\ lock' = Nobody
    /\ UNCHANGED <<ida, reserve, range, id, ret, owned>>

-----------------------------------------------------------------------------
Get(c) ==
    \/ Call(c) \/ PreGet(c) \/ PreGetFails(c) \/ Lock(c)
    \/ GetNewAbove(c) \/ GetNewAgain(c) \/ GetNewFull(c)
    \/ TooLarge(c) \/ InBounds(c) \/ Unlock(c) \/ Return(c)

Put(c) == RemoveCall(c) \/ RemoveLock(c) \/ RemoveId(c) \/ RemoveUnlock(c)

Next == \E c \in Callers : Get(c) \/ Put(c)

Spec == Init /\ [][Next]_ivars

-----------------------------------------------------------------------------
TypeOK ==
    /\ ida \subseteq Ids /\ reserve \in BOOLEAN
    /\ lock \in Callers \union {Nobody}
    /\ pc \in [Callers -> {"idle", "pre", "lock", "get", "check", "unlock", "ret",
                           "rlock", "remove", "runlock"}]
    /\ range \in [Callers -> Ranges]
    /\ id \in [Callers -> Ids \union {NoId}]
    /\ ret \in [Callers -> Ids \union {NoId, ENOMEM, EAGAIN, ENOSPC}]
    /\ owned \subseteq Ids

\* Ids above their caller's maximum, between ida_get_new_above() and ida_remove().
Transient == {id[c] : c \in {d \in Callers : pc[d] = "check" /\ id[d] > MaxId(range[d][2])}}

\* The call as the abstract allocator sees it: answered as soon as the outcome is fixed
\* inside the critical section.
AbsCall(c) ==
    CASE pc[c] \in {"pre", "lock", "get"} -> [status |-> "open", range |-> range[c]]
      [] pc[c] = "check" -> [status |-> "done",
                             answer |-> IF id[c] > MaxId(range[c][2]) THEN ENOSPC ELSE id[c]]
      [] pc[c] = "unlock" -> IF ret[c] = EAGAIN THEN [status |-> "open", range |-> range[c]]
                             ELSE [status |-> "done", answer |-> ret[c]]
      [] pc[c] = "ret" -> [status |-> "done", answer |-> ret[c]]
      [] OTHER -> [status |-> "idle"]

Abs == INSTANCE IdAllocator WITH held <- ida \ Transient,
                                 call <- [c \in Callers |-> AbsCall(c)]

\* Concurrent ida_simple_get() and ida_simple_remove() calls behave as one
\* atomic allocator: ids are never handed out twice, stay in the requested
\* range, and -ENOSPC is only returned when the whole range is in use.
Atomic == Abs!Spec

\* Every id that is set in the ida answers to exactly one owner: the caller
\* that got it, or the one call that is about to return or to remove it.  No
\* id leaks on the -ENOSPC path, and none is owned twice.
OneOwner ==
    /\ ida = owned \union {id[c] : c \in {d \in Callers : id[d] # NoId}}
    /\ \A c \in Callers : id[c] # NoId =>
            /\ id[c] \notin owned
            /\ \A d \in Callers \ {c} : id[d] # id[c]
=============================================================================
