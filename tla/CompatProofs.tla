---------------------------- MODULE CompatProofs ----------------------------
(***************************************************************************)
(* The compat functions that share values and memory between tasks, for    *)
(* any number of tasks, devices, resources and addresses: what is shared   *)
(* is read whole, and what is registered or referenced is released once,   *)
(* when its last user is gone.  The parts have no state in common, so that *)
(* each has an inductive invariant of its own.                             *)
(***************************************************************************)
EXTENDS MCCompat, CompatLemmas, FiniteSetTheorems, SequenceTheorems, TLAPS

-----------------------------------------------------------------------------
(* The ids (ida_simple_get, ida_simple_remove): for any number of callers, *)
(* any ranges and any largest id, the calls are typed, every id has one    *)
(* owner, and the calls implement the atomic allocator of IdAllocator.     *)
\* The program counters between spin_lock_irqsave() and spin_unlock_irqrestore().
Critical == {"get", "check", "unlock", "remove", "runlock"}

\* compat_simple_ida_lock is held by the caller that is in a critical section.
LockInv == \A c \in Callers : pc[c] \in Critical => lock = c

\* What id and ret mean at each place of the two functions.
Holding ==
    \A c \in Callers :
        /\ pc[c] \in {"check", "rlock", "remove"} => id[c] # NoId
        /\ pc[c] \in {"idle", "pre", "lock", "get", "runlock"} => id[c] = NoId
        /\ pc[c] \in {"unlock", "ret"} =>
              \/ id[c] # NoId /\ ret[c] = id[c]
              \/ id[c] = NoId /\ ret[c] \in {ENOMEM, ENOSPC}
              \/ id[c] = NoId /\ ret[c] = EAGAIN /\ pc[c] = "unlock"

IInv == TypeOK /\ LockInv /\ Holding

LEMMA InitIInv == Init => IInv
BY IdaAssumption DEF Init, IInv, TypeOK, LockInv, Holding, Critical, NoId, Ids

LEMMA StepIInv == IInv /\ [Next]_ivars => IInv'
<1> SUFFICES ASSUME IInv, [Next]_ivars PROVE IInv'
    OBVIOUS
<1> USE IdaAssumption DEF IInv, TypeOK, LockInv, Holding, Critical, Goto
<1>1. ASSUME NEW c \in Callers, Call(c) PROVE IInv'
    BY <1>1 DEF Call
<1>2. ASSUME NEW c \in Callers, PreGet(c) PROVE IInv'
    BY <1>2 DEF PreGet
<1>3. ASSUME NEW c \in Callers, PreGetFails(c) PROVE IInv'
    BY <1>3 DEF PreGetFails
<1>4. ASSUME NEW c \in Callers, Lock(c) PROVE IInv'
    BY <1>4 DEF Lock
<1>5. ASSUME NEW c \in Callers, GetNewAbove(c) PROVE IInv'
    <2>1. PICK new \in Ids : /\ id' = [id EXCEPT ![c] = new]
                             /\ ida' = ida \union {new}
        BY <1>5 DEF GetNewAbove
    <2>2. new # NoId
        BY DEF Ids, NoId
    <2>. QED
        BY <1>5, <2>1, <2>2 DEF GetNewAbove
<1>6. ASSUME NEW c \in Callers, GetNewAgain(c) PROVE IInv'
    BY <1>6 DEF GetNewAgain
<1>7. ASSUME NEW c \in Callers, GetNewFull(c) PROVE IInv'
    BY <1>7 DEF GetNewFull
<1>8. ASSUME NEW c \in Callers, TooLarge(c) PROVE IInv'
    BY <1>8 DEF TooLarge
<1>9. ASSUME NEW c \in Callers, InBounds(c) PROVE IInv'
    BY <1>9 DEF InBounds
<1>10. ASSUME NEW c \in Callers, Unlock(c) PROVE IInv'
    BY <1>10 DEF Unlock, EAGAIN, NoId, ENOMEM, ENOSPC, Ids
<1>11. ASSUME NEW c \in Callers, Return(c) PROVE IInv'
    BY <1>11 DEF Return
<1>12. ASSUME NEW c \in Callers, RemoveCall(c) PROVE IInv'
    BY <1>12 DEF RemoveCall, Ids, NoId
<1>13. ASSUME NEW c \in Callers, RemoveLock(c) PROVE IInv'
    BY <1>13 DEF RemoveLock
<1>14. ASSUME NEW c \in Callers, RemoveId(c) PROVE IInv'
    BY <1>14 DEF RemoveId
<1>15. ASSUME NEW c \in Callers, RemoveUnlock(c) PROVE IInv'
    BY <1>15 DEF RemoveUnlock
<1>16. CASE UNCHANGED ivars
    BY <1>16 DEF ivars
<1>. QED
    BY <1>1, <1>2, <1>3, <1>4, <1>5, <1>6, <1>7, <1>8, <1>9, <1>10, <1>11, <1>12, <1>13,
       <1>14, <1>15, <1>16 DEF Next, Get, Put

\* Nothing of ida_simple_get() or ida_simple_remove() leaves its type: ids stay
\* between 0 and Top, and the error codes are the ones the code returns.
THEOREM TypeCorrect == Spec => []TypeOK
<1>1. IInv => TypeOK
    BY DEF IInv
<1>. QED
    BY InitIInv, StepIInv, <1>1, PTL DEF Spec

-----------------------------------------------------------------------------
(* One owner for each id.                                                  *)

LEMMA OwnerStep == IInv /\ OneOwner /\ [Next]_ivars => OneOwner'
<1> SUFFICES ASSUME IInv, OneOwner, [Next]_ivars PROVE OneOwner'
    OBVIOUS
<1> USE DEF Goto
<1>1. ASSUME NEW c \in Callers, GetNewAbove(c) PROVE OneOwner'
    <2>1. PICK new \in Ids \ ida : /\ id' = [id EXCEPT ![c] = new]
                                   /\ ida' = ida \union {new}
        BY <1>1 DEF GetNewAbove, IsNewAbove
    <2>2. id[c] = NoId /\ owned' = owned /\ new # NoId
        BY <1>1 DEF IInv, Holding, GetNewAbove, Ids, NoId
    <2>3. id \in [Callers -> Ids \union {NoId}]
        BY DEF IInv, TypeOK
    <2>. QED
        BY <2>1, <2>2, <2>3 DEF OneOwner
<1>2. ASSUME NEW c \in Callers, TooLarge(c) \/ RemoveId(c) PROVE OneOwner'
    <2>1. /\ ida' = ida \ {id[c]} /\ owned' = owned
          /\ id' = [id EXCEPT ![c] = NoId]
        BY <1>2 DEF TooLarge, RemoveId
    <2>2. id[c] # NoId /\ id \in [Callers -> Ids \union {NoId}]
        BY <1>2 DEF IInv, Holding, TooLarge, RemoveId, TypeOK
    <2>. QED
        BY <2>1, <2>2 DEF OneOwner
<1>3. ASSUME NEW c \in Callers, Return(c) PROVE OneOwner'
    <2>1. /\ ida' = ida /\ id' = [id EXCEPT ![c] = NoId]
          /\ id \in [Callers -> Ids \union {NoId}]
        BY <1>3 DEF Return, IInv, TypeOK
    <2>2. CASE id[c] # NoId
        <3>1. ret[c] = id[c] /\ id[c] \in Ids
            BY <1>3, <2>1, <2>2 DEF Return, IInv, Holding
        <3>2. owned' = owned \union {id[c]}
            BY <1>3, <3>1 DEF Return
        <3>. QED
            BY <2>1, <2>2, <3>2 DEF OneOwner
    <2>3. CASE id[c] = NoId
        <3>1. ret[c] \notin Ids
            BY <1>3, <2>3 DEF Return, IInv, Holding, Ids, ENOMEM, ENOSPC
        <3>2. owned' = owned
            BY <1>3, <3>1 DEF Return
        <3>. QED
            BY <2>1, <2>3, <3>2 DEF OneOwner
    <2>. QED
        BY <2>2, <2>3
<1>4. ASSUME NEW c \in Callers, RemoveCall(c) PROVE OneOwner'
    <2>1. PICK i \in owned : id' = [id EXCEPT ![c] = i] /\ owned' = owned \ {i}
        BY <1>4 DEF RemoveCall
    <2>2. /\ id[c] = NoId /\ ida' = ida /\ i # NoId
          /\ id \in [Callers -> Ids \union {NoId}]
        BY <1>4 DEF RemoveCall, IInv, TypeOK, Holding, Ids, NoId
    <2>. QED
        BY <2>1, <2>2 DEF OneOwner
<1>5. ASSUME NEW c \in Callers,
             \/ Call(c) \/ PreGet(c) \/ PreGetFails(c) \/ Lock(c) \/ GetNewAgain(c)
             \/ GetNewFull(c) \/ InBounds(c) \/ Unlock(c) \/ RemoveLock(c) \/ RemoveUnlock(c)
      PROVE  OneOwner'
    <2>1. UNCHANGED <<ida, id, owned>>
        BY <1>5 DEF Call, PreGet, PreGetFails, Lock, GetNewAgain, GetNewFull, InBounds, Unlock,
                    RemoveLock, RemoveUnlock
    <2>. QED
        BY <2>1 DEF OneOwner
<1>6. CASE UNCHANGED ivars
    BY <1>6 DEF ivars, OneOwner
<1>. QED
    BY <1>1, <1>2, <1>3, <1>4, <1>5, <1>6 DEF Next, Get, Put

\* Every id set in the ida answers to exactly one owner, whatever the
\* interleaving of the calls: none leaks when ida_simple_get() gives an id
\* above the maximum back, and none is handed out twice.
THEOREM EveryIdOwnedOnce == Spec => []OneOwner
<1>1. Init => OneOwner
    BY DEF Init, OneOwner
<1>. QED
    BY InitIInv, StepIInv, OwnerStep, <1>1, PTL DEF Spec

-----------------------------------------------------------------------------
(* Refinement of the atomic allocator.                                     *)

AbsHeld == ida \ Transient
AbsCalls == [c \in Callers |-> AbsCall(c)]

\* Only the holder of the lock can be holding an id above its maximum.
LEMMA NoOtherTransient ==
    ASSUME IInv, NEW c \in Callers, pc[c] \in Critical
    PROVE  Transient = IF pc[c] = "check" /\ id[c] > MaxId(range[c][2]) THEN {id[c]} ELSE {}
BY DEF IInv, LockInv, Critical, Transient

\* Only caller c moves.
OthersSame(c) ==
    \A d \in Callers \ {c} :
        pc'[d] = pc[d] /\ range'[d] = range[d] /\ id'[d] = id[d] /\ ret'[d] = ret[d]

LEMMA CallFrame ==
    ASSUME NEW c \in Callers, OthersSame(c)
    PROVE  AbsCalls' = [AbsCalls EXCEPT ![c] = AbsCall(c)']
<1>1. ASSUME NEW d \in Callers \ {c} PROVE AbsCall(d)' = AbsCall(d)
    BY <1>1 DEF OthersSame, AbsCall
<1>. QED
    BY <1>1 DEF AbsCalls

LEMMA TransientFrame ==
    ASSUME NEW c \in Callers, OthersSame(c), pc[c] # "check", pc'[c] # "check"
    PROVE  Transient' = Transient
BY DEF OthersSame, Transient

\* A step that leaves the ida alone, does not pass "check" and does not
\* change how the call looks from outside is invisible.
LEMMA Invisible ==
    ASSUME NEW c \in Callers, OthersSame(c), pc[c] # "check", pc'[c] # "check",
           ida' = ida, AbsCall(c)' = AbsCall(c)
    PROVE  AbsHeld' = AbsHeld /\ AbsCalls' = AbsCalls
<1>1. AbsHeld' = AbsHeld
    BY TransientFrame DEF AbsHeld
<1>2. AbsCalls' = [AbsCalls EXCEPT ![c] = AbsCall(c)]
    BY CallFrame
<1>. QED
    BY <1>1, <1>2 DEF AbsCalls

\* Every step of a call is a step of the atomic allocator, or invisible to it.
LEMMA RefinementStep ==
    IInv /\ IInv' /\ [Next]_ivars => Abs!Next \/ UNCHANGED <<AbsHeld, AbsCalls>>
<1> SUFFICES ASSUME IInv, IInv', [Next]_ivars
             PROVE  Abs!Next \/ UNCHANGED <<AbsHeld, AbsCalls>>
    OBVIOUS
<1> USE IdaAssumption DEF Goto
<1>t. /\ pc \in [Callers -> {"idle", "pre", "lock", "get", "check", "unlock", "ret",
                              "rlock", "remove", "runlock"}]
      /\ range \in [Callers -> Ranges]
      /\ id \in [Callers -> Ids \union {NoId}]
      /\ ret \in [Callers -> Ids \union {NoId, ENOMEM, EAGAIN, ENOSPC}]
      /\ ida \subseteq Ids
    BY DEF IInv, TypeOK
<1>1. ASSUME NEW c \in Callers, Call(c) PROVE Abs!Next
    <2>1. OthersSame(c) /\ pc[c] = "idle" /\ pc'[c] = "pre"
        BY <1>1, <1>t DEF Call, OthersSame
    <2>2. PICK r \in Ranges : range' = [range EXCEPT ![c] = r]
        BY <1>1 DEF Call
    <2>3. AbsHeld' = AbsHeld
        BY <1>1, <2>1, TransientFrame DEF AbsHeld, Call
    <2>4. AbsCall(c)' = Abs!Open(r) /\ AbsCalls[c] = Abs!Idle
        BY <2>1, <2>2, <1>t DEF AbsCall, AbsCalls, Abs!Open, Abs!Idle
    <2>5. AbsCalls' = [AbsCalls EXCEPT ![c] = Abs!Open(r)]
        BY <2>1, <2>4, CallFrame
    <2>6. Abs!Request(c)
        BY <2>3, <2>4, <2>5 DEF Abs!Request, AbsHeld, AbsCalls
    <2>. QED
        BY <2>6 DEF Abs!Next
<1>2. ASSUME NEW c \in Callers, PreGet(c) \/ Lock(c) \/ GetNewAgain(c)
      PROVE  UNCHANGED <<AbsHeld, AbsCalls>>
    <2>1. OthersSame(c) /\ pc[c] # "check" /\ pc'[c] # "check" /\ ida' = ida
        BY <1>2, <1>t DEF PreGet, Lock, GetNewAgain, OthersSame
    <2>2. AbsCall(c)' = AbsCall(c)
        BY <1>2, <1>t DEF PreGet, Lock, GetNewAgain, AbsCall
    <2>. QED
        BY <2>1, <2>2, Invisible
<1>3. ASSUME NEW c \in Callers, PreGetFails(c) PROVE Abs!Next
    <2>1. OthersSame(c) /\ pc[c] = "pre" /\ pc'[c] = "ret" /\ ida' = ida
        BY <1>3, <1>t DEF PreGetFails, OthersSame
    <2>2. AbsHeld' = AbsHeld
        BY <2>1, TransientFrame DEF AbsHeld
    <2>3. AbsCall(c)' = Abs!Done(ENOMEM) /\ AbsCalls[c] = Abs!Open(range[c])
        BY <1>3, <2>1, <1>t DEF AbsCall, AbsCalls, Abs!Open, Abs!Done, PreGetFails
    <2>4. Abs!GetNoMem(c, range[c])
        BY <2>1, <2>2, <2>3, CallFrame DEF Abs!GetNoMem, AbsHeld, AbsCalls, ENOMEM, Abs!ENOMEM
    <2>. QED
        BY <2>4, <1>t DEF Abs!Next
<1>4. ASSUME NEW c \in Callers, GetNewAbove(c) PROVE Abs!Next
    <2>1. OthersSame(c) /\ pc[c] = "get" /\ pc'[c] = "check" /\ range' = range
        BY <1>4, <1>t DEF GetNewAbove, OthersSame
    <2>2. PICK new \in Ids : /\ IsNewAbove(range[c][1], new)
                             /\ id' = [id EXCEPT ![c] = new]
                             /\ ida' = ida \union {new}
        BY <1>4 DEF GetNewAbove
    <2>3. Transient = {}
        BY <2>1, NoOtherTransient DEF Critical
    <2>4. Transient' = IF new > MaxId(range[c][2]) THEN {new} ELSE {}
        <3>1. \A d \in Callers \ {c} : pc'[d] # "check"
            BY <2>1, <1>t DEF IInv, LockInv, Critical, OthersSame
        <3>2. id'[c] = new
            BY <2>2, <1>t
        <3>. QED
            BY <2>1, <3>1, <3>2 DEF Transient, MaxId
    <2>5. AbsCalls[c] = Abs!Open(range[c])
        BY <2>1, <1>t DEF AbsCall, AbsCalls, Abs!Open
    <2>6. PICK lo \in Nat, hi \in Nat : range[c] = <<lo, hi>> /\ (hi = 0 \/ lo <= hi)
        BY <1>t
    <2>7. new \notin ida /\ new >= lo /\ \A i \in Ids : lo <= i /\ i < new => i \in ida
        BY <2>2, <2>6 DEF IsNewAbove
    <2>8. CASE new > MaxId(hi)
        <3>1. AbsHeld' = AbsHeld
            BY <2>2, <2>3, <2>4, <2>6, <2>7, <2>8 DEF AbsHeld
        <3>2. AbsCall(c)' = Abs!Done(ENOSPC)
            BY <2>1, <2>2, <2>6, <2>8, <1>t DEF AbsCall, Abs!Done, MaxId
        <3>3. Abs!InRange(range[c]) \subseteq AbsHeld
            BY <2>3, <2>6, <2>7, <2>8 DEF Abs!InRange, Abs!Ids, Ids, MaxId, AbsHeld
        <3>4. Abs!GetNoSpace(c, range[c])
            BY <2>1, <2>5, <3>1, <3>2, <3>3, CallFrame
               DEF Abs!GetNoSpace, AbsHeld, AbsCalls, ENOSPC, Abs!ENOSPC
        <3>. QED
            BY <3>4, <1>t DEF Abs!Next
    <2>9. CASE ~(new > MaxId(hi))
        <3>1. AbsHeld' = AbsHeld \union {new}
            BY <2>2, <2>3, <2>4, <2>6, <2>9 DEF AbsHeld
        <3>2. AbsCall(c)' = Abs!Done(new)
            BY <2>1, <2>2, <2>6, <2>9, <1>t DEF AbsCall, Abs!Done, MaxId
        <3>3. new \in Abs!InRange(range[c]) \ AbsHeld
            BY <2>6, <2>7, <2>9 DEF Abs!InRange, Abs!Ids, Ids, MaxId, AbsHeld
        <3>4. Abs!GetId(c, range[c])
            BY <2>1, <2>5, <3>1, <3>2, <3>3, CallFrame DEF Abs!GetId, AbsHeld, AbsCalls
        <3>. QED
            BY <3>4, <1>t DEF Abs!Next
    <2>. QED
        BY <2>8, <2>9
<1>5. ASSUME NEW c \in Callers, GetNewFull(c) PROVE Abs!Next
    <2>1. OthersSame(c) /\ pc[c] = "get" /\ pc'[c] = "unlock" /\ ida' = ida
        BY <1>5, <1>t DEF GetNewFull, OthersSame
    <2>2. AbsHeld' = AbsHeld /\ Transient = {}
        BY <2>1, TransientFrame, NoOtherTransient DEF AbsHeld, Critical
    <2>3. AbsCall(c)' = Abs!Done(ENOSPC) /\ AbsCalls[c] = Abs!Open(range[c])
        BY <1>5, <2>1, <1>t DEF AbsCall, AbsCalls, Abs!Open, Abs!Done, GetNewFull, ENOSPC, EAGAIN
    <2>4. Abs!InRange(range[c]) \subseteq AbsHeld
        BY <1>5, <2>2 DEF GetNewFull, Abs!InRange, Abs!Ids, Ids, AbsHeld
    <2>5. Abs!GetNoSpace(c, range[c])
        BY <2>1, <2>2, <2>3, <2>4, CallFrame
           DEF Abs!GetNoSpace, AbsHeld, AbsCalls, ENOSPC, Abs!ENOSPC
    <2>. QED
        BY <2>5, <1>t DEF Abs!Next
<1>6. ASSUME NEW c \in Callers, TooLarge(c) PROVE UNCHANGED <<AbsHeld, AbsCalls>>
    <2>1. OthersSame(c) /\ pc[c] = "check" /\ pc'[c] = "unlock" /\ id[c] > MaxId(range[c][2])
        BY <1>6, <1>t DEF TooLarge, OthersSame
    <2>2. Transient = {id[c]}
        BY <2>1, NoOtherTransient DEF Critical
    <2>3. \A d \in Callers : pc'[d] # "check"
        BY <2>1, <1>t DEF IInv, LockInv, Critical, OthersSame
    <2>4. AbsHeld' = AbsHeld
        BY <1>6, <2>2, <2>3 DEF AbsHeld, Transient, TooLarge
    <2>5. AbsCall(c)' = AbsCall(c)
        BY <1>6, <2>1, <1>t DEF AbsCall, TooLarge, ENOSPC, EAGAIN
    <2>. QED
        BY <2>1, <2>4, <2>5, CallFrame DEF AbsCalls
<1>7. ASSUME NEW c \in Callers, InBounds(c) PROVE UNCHANGED <<AbsHeld, AbsCalls>>
    <2>1. /\ OthersSame(c) /\ pc[c] = "check" /\ pc'[c] = "unlock"
          /\ id[c] <= MaxId(range[c][2]) /\ id[c] \in Ids /\ ret'[c] = id[c] /\ range' = range
        BY <1>7, <1>t DEF InBounds, OthersSame, IInv, Holding
    <2>2. PICK lo \in Nat, hi \in Nat : range[c] = <<lo, hi>>
        BY <1>t
    <2>3. ~(id[c] > MaxId(range[c][2]))
        BY <2>1, <2>2 DEF MaxId, Ids
    <2>4. Transient = {}
        BY <2>1, <2>3, NoOtherTransient DEF Critical
    <2>5. \A d \in Callers : pc'[d] # "check"
        BY <2>1, <1>t DEF IInv, LockInv, Critical, OthersSame
    <2>6. AbsHeld' = AbsHeld
        BY <1>7, <2>4, <2>5 DEF AbsHeld, Transient, InBounds
    <2>7. AbsCall(c)' = AbsCall(c)
        BY <2>1, <2>3, <1>t DEF AbsCall, Ids, EAGAIN
    <2>. QED
        BY <2>1, <2>6, <2>7, CallFrame DEF AbsCalls
<1>8. ASSUME NEW c \in Callers, Unlock(c) PROVE UNCHANGED <<AbsHeld, AbsCalls>>
    <2>1. OthersSame(c) /\ pc[c] # "check" /\ pc'[c] # "check" /\ ida' = ida
        BY <1>8, <1>t DEF Unlock, OthersSame
    <2>2. AbsCall(c)' = AbsCall(c)
        BY <1>8, <1>t DEF Unlock, AbsCall
    <2>. QED
        BY <2>1, <2>2, Invisible
<1>9. ASSUME NEW c \in Callers, Return(c) PROVE Abs!Next
    <2>1. OthersSame(c) /\ pc[c] = "ret" /\ pc'[c] = "idle" /\ ida' = ida
        BY <1>9, <1>t DEF Return, OthersSame
    <2>2. AbsHeld' = AbsHeld
        BY <2>1, TransientFrame DEF AbsHeld
    <2>3. AbsCalls[c] = Abs!Done(ret[c]) /\ AbsCall(c)' = Abs!Idle
        BY <2>1, <1>t DEF AbsCall, AbsCalls, Abs!Done, Abs!Idle
    <2>4. ret[c] \in Ids \union {ENOSPC, ENOMEM}
        BY <2>1, <1>t DEF IInv, Holding
    <2>5. Abs!Return(c)
        BY <2>1, <2>2, <2>3, <2>4, CallFrame
           DEF Abs!Return, AbsHeld, AbsCalls, Ids, Abs!Ids, ENOSPC, Abs!ENOSPC, ENOMEM, Abs!ENOMEM
    <2>. QED
        BY <2>5 DEF Abs!Next
<1>10. ASSUME NEW c \in Callers, RemoveCall(c) \/ RemoveLock(c) \/ RemoveUnlock(c)
       PROVE  UNCHANGED <<AbsHeld, AbsCalls>>
    <2>1. OthersSame(c) /\ pc[c] # "check" /\ pc'[c] # "check" /\ ida' = ida
        BY <1>10, <1>t DEF RemoveCall, RemoveLock, RemoveUnlock, OthersSame
    <2>2. AbsCall(c)' = AbsCall(c)
        BY <1>10, <1>t DEF RemoveCall, RemoveLock, RemoveUnlock, AbsCall
    <2>. QED
        BY <2>1, <2>2, Invisible
<1>11. ASSUME NEW c \in Callers, RemoveId(c) PROVE Abs!Next \/ UNCHANGED <<AbsHeld, AbsCalls>>
    <2>1. OthersSame(c) /\ pc[c] = "remove" /\ pc'[c] = "runlock" /\ ida' = ida \ {id[c]}
        BY <1>11, <1>t DEF RemoveId, OthersSame
    <2>2. Transient = {} /\ Transient' = {}
        BY <2>1, TransientFrame, NoOtherTransient DEF Critical
    <2>3. AbsCall(c)' = AbsCall(c)
        BY <2>1, <1>t DEF AbsCall
    <2>4. AbsCalls' = AbsCalls
        BY <2>1, <2>3, CallFrame DEF AbsCalls
    <2>5. CASE id[c] \in ida
        BY <2>1, <2>2, <2>4, <2>5 DEF Abs!Next, Abs!Remove, AbsHeld, AbsCalls
    <2>6. CASE id[c] \notin ida
        BY <2>1, <2>2, <2>4, <2>6 DEF AbsHeld
    <2>. QED
        BY <2>5, <2>6
<1>12. CASE UNCHANGED ivars
    <2>1. \A c \in Callers : AbsCall(c)' = AbsCall(c)
        BY <1>12 DEF AbsCall, ivars
    <2>2. Transient' = Transient
        BY <1>12 DEF Transient, ivars
    <2>. QED
        BY <1>12, <2>1, <2>2 DEF AbsHeld, AbsCalls, ivars
<1>. QED
    BY <1>1, <1>2, <1>3, <1>4, <1>5, <1>6, <1>7, <1>8, <1>9, <1>10, <1>11, <1>12
       DEF Next, Get, Put

\* Concurrent ida_simple_get() and ida_simple_remove() calls implement the
\* atomic allocator that the comments promise: an id handed out is free and in
\* its range, and -ENOSPC means that the whole range is in use.
THEOREM ImplementsIdAllocator == Spec => Atomic
<1>1. Init => Abs!Init
    <2> SUFFICES ASSUME Init PROVE Abs!Init
        OBVIOUS
    <2>1. AbsHeld = {} /\ \A c \in Callers : AbsCall(c) = Abs!Idle
        BY DEF Init, AbsHeld, AbsCall, Abs!Idle
    <2>. QED
        BY <2>1 DEF Abs!Init, AbsHeld
<1>2. IInv /\ IInv' /\ [Next]_ivars => [Abs!Next]_(Abs!avars)
    BY RefinementStep DEF Abs!avars, AbsHeld, AbsCalls
<1>. QED
    BY InitIInv, StepIInv, <1>1, <1>2, PTL DEF Spec, Atomic, Abs!Spec

-----------------------------------------------------------------------------
(* The random key (net_get_random_once, netdev_rss_key_fill).              *)
OnceType ==
    /\ DOMAIN once = {"static", "key", "done", "fills", "pc", "got", "works", "incs"}
    /\ once.static \in BOOLEAN /\ once.key \in BOOLEAN /\ once.done \in BOOLEAN
    /\ once.fills \in Nat /\ once.works \in Nat /\ once.incs \in Nat
    /\ once.pc \in [OnceTasks -> {"test", "call", "disable", "copy", "done"}]
    /\ once.got \in [OnceTasks -> Nat]
\* The bytes are drawn once, before anyone is past the test or the test is
\* patched out, so that whoever copies them has the first draw.
DrawnOnce ==
    /\ once.fills = IF once.done THEN 1 ELSE 0
    /\ once.key \/ once.works > 0 => once.done
    /\ \A t \in OnceTasks : At(t, "disable") \/ At(t, "copy") \/ At(t, "done") => once.done
    /\ \A t \in OnceTasks : At(t, "done") => once.got[t] = 1
\* Without net_get_random_once() each has a draw of its own.
DrawnEach ==
    /\ ~once.key /\ once.works = 0
    /\ \A t \in OnceTasks : At(t, "test") \/ At(t, "done")
    /\ \A t \in OnceTasks : At(t, "done") => once.got[t] \in 1 .. once.fills
    /\ \A t, u \in OnceTasks : At(t, "done") /\ At(u, "done") /\ once.got[t] = once.got[u] => t = u
OnceInv ==
    /\ OnceType
    /\ once.incs = IF once.key THEN 1 ELSE 0
    /\ IF once.static THEN DrawnOnce ELSE DrawnEach

-----------------------------------------------------------------------------
(* The counter of two words (u64_stats_sync).                              *)
TwoWords(w) == DOMAIN w = 1 .. 2 /\ w[1] \in Nat /\ w[2] \in 0 .. 1
StatsType ==
    /\ DOMAIN stats = {"kernel", "irqwriter", "irqreader", "seq", "words", "next", "wpc", "rpc", "start", "read", "low", "tries", "off"}
    /\ stats.kernel \in {"smp32", "up32", "smp64"} /\ stats.irqwriter \in BOOLEAN /\ stats.irqreader \in BOOLEAN
    /\ stats.seq \in Nat /\ stats.start \in Nat /\ stats.low \in Nat /\ stats.tries \in Nat
    /\ TwoWords(stats.words) /\ TwoWords(stats.next) /\ TwoWords(stats.read)
    /\ stats.wpc \in {"idle", "low", "high", "end"} /\ stats.rpc \in {"idle", "low", "high", "retry", "done"}
    /\ stats.off \in {"none", "preempt", "irq"}
\* The count that the words are on the way to once a half of it is stored.
Present == IF stats.wpc = "high" THEN stats.next ELSE stats.words
\* What the words are while the writer is in an update.
WriterInv ==
    /\ stats.wpc = "low" => Count(stats.next) = Count(stats.words) + 1
    /\ stats.wpc = "high" => stats.words[2] = stats.next[2] /\ stats.kernel # "smp64"
    /\ stats.rpc = "high" => stats.kernel # "smp64"
\* What the reader has, if no update came between.
ReadSoFar ==
    /\ stats.wpc = "idle"
    /\ stats.rpc = "high" => stats.read[2] = stats.words[2]
    /\ stats.rpc = "retry" => stats.read[1] = stats.words[1] /\ stats.read[2] = stats.words[2]
ReaderInv ==
    /\ stats.rpc # "idle" \/ stats.tries > 0 => stats.low <= Count(Present)
    /\ stats.rpc = "done" => Count(stats.read) \in stats.low .. Count(Present)
\* A sequence counter is odd in an update.
SeqInv ==
    /\ stats.seq % 2 = IF stats.wpc = "idle" THEN 0 ELSE 1
    /\ stats.start % 2 = 0 /\ stats.start <= stats.seq
    /\ stats.rpc \in {"low", "high", "retry"} /\ stats.seq = stats.start => ReadSoFar
\* On one processor the update and the reader exclude each other.
OffInv ==
    /\ stats.off # "none" <=> stats.rpc \in {"low", "high", "retry"}
    /\ stats.off = "preempt" => ~stats.irqwriter
    /\ stats.off # "none" => ReadSoFar
LongInv ==
    /\ stats.off = "none"
    /\ stats.rpc = "retry" => Count(stats.read) \in stats.low .. Count(stats.words)
StatsInv ==
    /\ StatsType /\ WriterInv /\ ReaderInv
    /\ stats.irqwriter => stats.irqreader
    /\ stats.kernel = "smp32" => SeqInv /\ stats.off = "none"
    /\ stats.kernel = "up32" => OffInv
    /\ stats.kernel = "smp64" => LongInv

-----------------------------------------------------------------------------
(* The socket of a frame (skb_clone_sk, skb_complete_wifi_ack).            *)
One(b) == IF b THEN 1 ELSE 0
SkType ==
    /\ DOMAIN sk = {"sock", "ref", "closed", "tx", "clone", "pc", "freed", "bad"}
    /\ sk.sock \in BOOLEAN /\ sk.closed \in BOOLEAN /\ sk.tx \in BOOLEAN /\ sk.freed \in BOOLEAN /\ sk.bad = FALSE
    /\ sk.ref \in Nat
    /\ sk.clone \in {"none", "failed", "made", "queued", "freed"}
    /\ sk.pc \in {"idle", "clone", "queue", "orphaned", "put"}
\* Who has a reference: the user, the clone that is being made or is made, and
\* skb_complete_wifi_ack() until it puts it back.
SkRefs ==
    sk.ref = One(~sk.closed) + One(sk.pc = "clone") + One(sk.clone = "made" /\ sk.pc \in {"idle", "queue"})
             + One(sk.pc \in {"queue", "orphaned", "put"})
SkInv ==
    /\ SkType /\ SkRefs
    /\ sk.pc = "clone" => sk.clone = "none"
    /\ sk.clone = "none" => sk.tx
    /\ sk.pc \in {"queue", "orphaned"} => sk.clone = "made"
    /\ sk.pc = "put" => sk.clone \in {"queued", "freed"}
    /\ IF sk.sock THEN sk.freed <=> sk.ref = 0 /\ ~sk.tx
       ELSE sk.closed /\ sk.freed /\ sk.pc = "idle" /\ sk.clone \in {"none", "failed"}

-----------------------------------------------------------------------------
(* Copies of an skb (__pskb_copy).                                         *)
Held(b) == skb.bufs[b] # <<>>
SkbType ==
    /\ DOMAIN skb = {"offsets", "bufs", "refs", "freed", "same", "mac"}
    /\ skb.offsets \in BOOLEAN /\ skb.mac \in BOOLEAN /\ skb.same \in BOOLEAN
    /\ DOMAIN skb.bufs = {1, 2}
    /\ DOMAIN skb.refs \subseteq SharedParts
\* The original is as it was made.
Original == Held(1) => \E headroom \in 1 .. 3 : skb.bufs[1] = <<BufferAt(1, skb.offsets, headroom, skb.mac)>>
CopyInv ==
    Held(2) =>
        LET new == skb.bufs[2][1]
            from == IF skb.offsets THEN HeadAt[2] ELSE 0
        IN  /\ ~skb.offsets \/ skb.same => new.pos.network = new.data + 2 - from /\ new.pos.transport = new.data + 4 - from
            /\ WasSet(new.pos.mac) = skb.mac /\ new.linear = "bytes" /\ new.fields = "fields"
SkbRefs ==
    \A p \in DOMAIN skb.refs :
        /\ skb.refs[p] = One(Held(1)) + One(Held(2))
        /\ p \in skb.freed <=> skb.refs[p] = 0
SkbInv == SkbType /\ Original /\ CopyInv /\ SkbRefs

-----------------------------------------------------------------------------
(* Thermal zones.                                                          *)
ZoneType ==
    /\ DOMAIN zone = {"pc", "wrapper", "known", "ops", "call", "frees", "seen", "bad"}
    /\ zone.pc \in {"new", "failed", "register", "done", "error", "wait", "gone"}
    /\ zone.wrapper \in {"none", "live", "freed"} /\ zone.known \in BOOLEAN /\ zone.bad = FALSE
    /\ zone.ops \subseteq DriverOps \cap (copy \cup assign_ops)
    /\ zone.call \in [ZoneUsers -> (DriverOps \cap (copy \cup assign_ops)) \cup {"none"}]
SameTemp(seen) == Signed(seen[2]) \in Ints => Signed(seen[2]) = seen[1]
ZoneInv ==
    /\ ZoneType
    /\ zone.wrapper = "live" <=> zone.pc \in {"register", "done", "error", "wait"}
    /\ (zone.pc = "new" => zone.wrapper = "none") /\ (zone.pc = "gone" => zone.wrapper = "freed")
    /\ zone.known <=> zone.pc \in {"register", "done"}
    /\ zone.frees = One(zone.wrapper = "freed")
    /\ \A c \in ZoneUsers : zone.call[c] # "none" => zone.pc \in {"register", "done", "wait"}
    /\ zone.seen # <<>> => SameTemp(zone.seen)

-----------------------------------------------------------------------------
(* Managed resources.                                                      *)
Releases == {"devm_gpio_release", "devm_regmap_release", "devm_led_trigger_release", "devm_hwmon_release", "devm_action_release"}
Resources == {r \in DevmResources : r[1] \in Releases}
ResType ==
    /\ DOMAIN res = {"list", "nodes", "held", "calls", "pc", "bad"}
    /\ res.list \in Seq(Resources) /\ res.nodes \in Nat /\ res.bad = FALSE
    /\ res.pc \in {"bound", "oops", "detach", "gone"}
OneNodeEach ==
    /\ {res.list[i] : i \in DOMAIN res.list} = res.held
    /\ \A i, j \in DOMAIN res.list : res.list[i] = res.list[j] => i = j
    /\ res.nodes = Len(res.list)
ResInv ==
    /\ ResType
    /\ res.pc # "oops" => OneNodeEach
    /\ res.pc = "gone" => res.list = <<>>

-----------------------------------------------------------------------------
(* Workqueue names.                                                        *)
Listed == {list[i] : i \in DOMAIN list}
EntriesOf(a) == {e \in Listed : key[e] = a}
Named(t) == wqpc[t] \in {"alloc", "add"}
NamesInv ==
    /\ \A i, j \in DOMAIN list : list[i] = list[j] => i = j
    /\ heap = Listed \cup {n[t] : t \in {u \in Tasks : n[u] # Null}}
    /\ \A t \in Tasks : n[t] # Null <=> Named(t)
    /\ \A t \in Tasks : Named(t) => n[t] \notin Listed
    /\ \A t, u \in Tasks : Named(t) /\ Named(u) /\ n[t] = n[u] => t = u
\* A workqueue belongs to the call that is about to return it, or to a driver.
QueuesInv ==
    /\ \A t \in Tasks : wqpc[t] \in {"add", "scan"} => wq[t] \in Addrs
    /\ \A t \in Tasks : wqpc[t] = "add" => wqs[wq[t]] = n[t] /\ wq[t] \notin users
    /\ \A a \in users : wqs[a] # Null
    /\ \A t, u \in Tasks : wqpc[t] = "add" /\ wqpc[u] = "add" /\ wq[t] = wq[u] => t = u
EntriesInv ==
    \A a \in Addrs :
        /\ IsFiniteSet(WQ!Scanning(a)) /\ IsFiniteSet(EntriesOf(a))
        /\ Cardinality(EntriesOf(a)) = Cardinality(WQ!Scanning(a)) + One(a \in users)
WqInv == WQ!TypeOK /\ NamesInv /\ QueuesInv /\ EntriesInv

-----------------------------------------------------------------------------
(* The random key: proofs.                                                 *)

LEMMA OnceStarts == \A static \in BOOLEAN : once = OnceStart(static) => OnceInv
BY DEF OnceStart, OnceInv, OnceType, DrawnOnce, DrawnEach, At

\* A step that leaves the flags and the draws alone.
LEMMA OnceMoves ==
    ASSUME OnceInv, NEW t \in OnceTasks, NEW where \in {"call", "copy"}, NEW works \in Nat,
           once' = [once EXCEPT !.pc[t] = where, !.works = works],
           once.static, ~At(t, "done"), where = "copy" \/ works > 0 => once.done
    PROVE  OnceInv'
<1> USE DEF OnceInv, OnceType, At
<1>1. /\ DOMAIN once' = DOMAIN once
      /\ once'.static = once.static /\ once'.key = once.key /\ once'.done = once.done /\ once'.fills = once.fills
      /\ once'.works = works /\ once'.incs = once.incs /\ once'.got = once.got
      /\ once'.pc = [once.pc EXCEPT ![t] = where]
  OBVIOUS
<1>2. OnceType'
  BY <1>1
<1> QED BY <1>1, <1>2 DEF DrawnOnce

LEMMA OnceSteps == OnceInv /\ (OnceNext \/ UNCHANGED once) => OnceInv'
<1> SUFFICES ASSUME OnceInv, OnceNext \/ UNCHANGED once PROVE OnceInv'
  OBVIOUS
<1> USE DEF OnceInv, OnceType, At
<1>0. CASE UNCHANGED once
  BY <1>0 DEF DrawnOnce, DrawnEach
<1>1. ASSUME NEW t \in OnceTasks, net_get_random_once(t) PROVE OnceInv'
  <2>0. once.static /\ DrawnOnce /\ once.pc[t] = "test"
    BY <1>1 DEF net_get_random_once
  <2>1. CASE once.key
    <3>1. once.done
      BY <2>0, <2>1 DEF DrawnOnce
    <3>2. once' = [once EXCEPT !.pc[t] = "copy", !.works = once.works]
      BY <1>1, <2>1 DEF net_get_random_once
    <3> QED BY <2>0, <3>1, <3>2, OnceMoves
  <2>2. CASE ~once.key
    <3>1. once' = [once EXCEPT !.pc[t] = "call", !.works = once.works]
      BY <1>1, <2>2 DEF net_get_random_once
    <3>2. once.works > 0 => once.done
      BY <2>0 DEF DrawnOnce
    <3> QED BY <2>0, <3>1, <3>2, OnceMoves
  <2> QED BY <2>1, <2>2
<1>2. ASSUME NEW t \in OnceTasks, __net_get_random_once(t) PROVE OnceInv'
  <2>0. once.static /\ DrawnOnce /\ once.pc[t] = "call"
    BY <1>2 DEF __net_get_random_once, DrawnEach
  <2>1. CASE once.done
    <3>1. once' = [once EXCEPT !.pc[t] = "copy", !.works = once.works]
      BY <1>2, <2>1 DEF __net_get_random_once
    <3> QED BY <2>0, <2>1, <3>1, OnceMoves
  <2>2. CASE ~once.done
    <3>1. once' = [once EXCEPT !.fills = @ + 1, !.done = TRUE, !.pc[t] = "disable"]
      BY <1>2, <2>2 DEF __net_get_random_once
    <3>2. /\ DOMAIN once' = DOMAIN once
          /\ once'.static = once.static /\ once'.key = once.key /\ once'.done \in BOOLEAN /\ once'.done /\ once'.fills = once.fills + 1
          /\ once'.works = once.works /\ once'.incs = once.incs /\ once'.got = once.got
          /\ once'.pc = [once.pc EXCEPT ![t] = "disable"]
      BY <3>1
    <3>3. OnceType'
      BY <3>2
    <3>4. once.fills = 0
      BY <2>0, <2>2 DEF DrawnOnce
    <3> QED BY <2>0, <3>2, <3>3, <3>4 DEF DrawnOnce
  <2> QED BY <2>1, <2>2
<1>3. ASSUME NEW t \in OnceTasks, __net_random_once_disable_jump(t) PROVE OnceInv'
  <2>0. once.static /\ once.done /\ once.pc[t] = "disable"
    BY <1>3 DEF __net_random_once_disable_jump, DrawnOnce, DrawnEach
  <2>1. \/ once' = [once EXCEPT !.pc[t] = "copy", !.works = once.works]
        \/ once' = [once EXCEPT !.pc[t] = "copy", !.works = once.works + 1]
    BY <1>3 DEF __net_random_once_disable_jump
  <2>2. CASE once' = [once EXCEPT !.pc[t] = "copy", !.works = once.works]
    BY <2>0, <2>2, OnceMoves
  <2>3. CASE once' = [once EXCEPT !.pc[t] = "copy", !.works = once.works + 1]
    <3>1. once.works + 1 \in Nat
      OBVIOUS
    <3> QED BY <2>0, <2>3, <3>1, OnceMoves
  <2> QED BY <2>1, <2>2, <2>3
<1>4. ASSUME NEW t \in OnceTasks, netdev_rss_key_fill(t) PROVE OnceInv'
  <2>1. CASE once.static
    <3>0. DrawnOnce /\ once.pc[t] = "copy" /\ once.done
      BY <1>4, <2>1 DEF netdev_rss_key_fill, DrawnOnce
    <3>1. once' = [once EXCEPT !.pc[t] = "done", !.got[t] = once.fills]
      BY <1>4, <2>1 DEF netdev_rss_key_fill
    <3>2. /\ DOMAIN once' = DOMAIN once
          /\ once'.static = once.static /\ once'.key = once.key /\ once'.done = once.done /\ once'.fills = once.fills
          /\ once'.works = once.works /\ once'.incs = once.incs
          /\ once'.pc = [once.pc EXCEPT ![t] = "done"] /\ once'.got = [once.got EXCEPT ![t] = once.fills]
      BY <3>1
    <3>3. OnceType'
      BY <3>2
    <3> QED BY <2>1, <3>0, <3>2, <3>3 DEF DrawnOnce
  <2>2. CASE ~once.static
    <3>0. DrawnEach /\ once.pc[t] = "test"
      BY <1>4, <2>2 DEF netdev_rss_key_fill
    <3>1. once' = [once EXCEPT !.pc[t] = "done", !.fills = @ + 1, !.got[t] = once.fills + 1]
      BY <1>4, <2>2 DEF netdev_rss_key_fill
    <3>2. /\ DOMAIN once' = DOMAIN once
          /\ once'.static = once.static /\ once'.key = once.key /\ once'.done = once.done /\ once'.fills = once.fills + 1
          /\ once'.works = once.works /\ once'.incs = once.incs
          /\ once'.pc = [once.pc EXCEPT ![t] = "done"] /\ once'.got = [once.got EXCEPT ![t] = once.fills + 1]
      BY <3>1
    <3>3. OnceType'
      BY <3>2
    <3> QED BY <2>2, <3>0, <3>2, <3>3 DEF DrawnEach
  <2> QED BY <2>1, <2>2
<1>5. ASSUME __net_random_once_deferred PROVE OnceInv'
  <2>0. once.static /\ DrawnOnce /\ once.works > 0 /\ once.done
    BY <1>5 DEF __net_random_once_deferred, DrawnOnce, DrawnEach
  <2>1. /\ DOMAIN once' = DOMAIN once
        /\ once'.static = once.static /\ once'.key \in BOOLEAN /\ once'.key /\ once'.done = once.done /\ once'.fills = once.fills
        /\ once'.works = once.works - 1 /\ once'.incs = 1 /\ once'.got = once.got /\ once'.pc = once.pc
    BY <1>5 DEF __net_random_once_deferred
  <2>2. OnceType'
    BY <2>0, <2>1
  <2> QED BY <2>0, <2>1, <2>2 DEF DrawnOnce
<1> QED BY <1>0, <1>1, <1>2, <1>3, <1>4, <1>5 DEF OnceNext

LEMMA OnceSafe == OnceInv => OneKeyForAll
BY DEF OnceInv, OnceType, DrawnOnce, DrawnEach, OneKeyForAll, At

-----------------------------------------------------------------------------
(* The counter: proofs.                                                    *)

LEMMA PlusOne == ASSUME NEW w, TwoWords(w) PROVE TwoWords(Plus1(w)) /\ Count(Plus1(w)) = Count(w) + 1
BY DEF TwoWords, Plus1, Count, WordSize

LEMMA StatsStarts ==
    ASSUME NEW kernel \in {"smp32", "up32", "smp64"}, NEW irqwriter \in BOOLEAN, NEW irqreader \in BOOLEAN, irqwriter => irqreader,
           stats = StatsStart(kernel, irqwriter, irqreader)
    PROVE  StatsInv
BY DEF StatsStart, StatsInv, StatsType, TwoWords, WriterInv, ReaderInv, SeqInv, OffInv, LongInv, ReadSoFar, Present, Count, WordSize

LEMMA StatsSteps == StatsInv /\ (StatsNext \/ UNCHANGED stats) => StatsInv'
<1> SUFFICES ASSUME StatsInv, StatsNext \/ UNCHANGED stats PROVE StatsInv'
  OBVIOUS
<1> USE DEF StatsInv, StatsType
<1>0. CASE UNCHANGED stats
  BY <1>0 DEF WriterInv, ReaderInv, SeqInv, OffInv, LongInv, ReadSoFar, Present, TwoWords, Count, WordSize
<1>1. ASSUME u64_stats_update_begin PROVE StatsInv'
  <2>1. /\ DOMAIN stats' = DOMAIN stats
        /\ stats'.kernel = stats.kernel /\ stats'.irqwriter = stats.irqwriter /\ stats'.irqreader = stats.irqreader
        /\ stats'.words = stats.words /\ stats'.rpc = stats.rpc /\ stats'.start = stats.start /\ stats'.read = stats.read
        /\ stats'.low = stats.low /\ stats'.tries = stats.tries /\ stats'.off = stats.off
        /\ stats'.wpc = "low"
        /\ stats'.seq = IF Sequenced THEN stats.seq + 1 ELSE stats.seq
        /\ stats'.next = Plus1(stats.words)
    BY <1>1 DEF u64_stats_update_begin
  <2>0. stats.wpc = "idle" /\ (stats.kernel = "up32" => stats.off = "none")
    BY <1>1 DEF u64_stats_update_begin, MayWrite, OffInv
  <2>2. StatsType'
    BY <2>1, PlusOne DEF TwoWords
  <2>3. WriterInv'
    BY <2>1, <2>0, PlusOne DEF WriterInv
  <2>4. ReaderInv'
    BY <2>1, <2>0 DEF ReaderInv, Present, Count, WordSize, TwoWords
  <2>5. (stats.kernel = "smp32" => SeqInv /\ stats.off = "none")'
    BY <2>1, <2>0 DEF SeqInv, ReadSoFar, Sequenced
  <2>6. (stats.kernel = "up32" => OffInv)'
    BY <2>1, <2>0 DEF OffInv, ReadSoFar
  <2>7. (stats.kernel = "smp64" => LongInv)'
    BY <2>1, <2>0 DEF LongInv, Count, WordSize, TwoWords
  <2> QED BY <2>1, <2>2, <2>3, <2>4, <2>5, <2>6, <2>7
<1>2. ASSUME StoreLow, stats.kernel = "smp64" PROVE StatsInv'
  <2>1. /\ DOMAIN stats' = DOMAIN stats
        /\ stats'.kernel = stats.kernel /\ stats'.irqwriter = stats.irqwriter /\ stats'.irqreader = stats.irqreader
        /\ stats'.seq = stats.seq /\ stats'.next = stats.next /\ stats'.rpc = stats.rpc /\ stats'.start = stats.start
        /\ stats'.read = stats.read /\ stats'.low = stats.low /\ stats'.tries = stats.tries /\ stats'.off = stats.off
        /\ stats'.wpc = "end"
        /\ stats'.words = stats.next
    BY <1>2 DEF StoreLow
  <2>0. stats.wpc = "low" /\ Count(stats.next) = Count(stats.words) + 1
    BY <1>2 DEF StoreLow, WriterInv
  <2>2. StatsType'
    BY <2>1 DEF TwoWords
  <2>3. WriterInv'
    BY <2>1, <2>0, <1>2 DEF WriterInv
  <2>4. ReaderInv'
    BY <2>1, <2>0, <1>2 DEF ReaderInv, Present, Count, WordSize, TwoWords
  <2>5. (stats.kernel = "smp32" => SeqInv /\ stats.off = "none")'
    BY <2>1, <1>2 DEF SeqInv, ReadSoFar
  <2>6. (stats.kernel = "up32" => OffInv)'
    BY <2>1, <1>2 DEF OffInv, ReadSoFar
  <2>7. (stats.kernel = "smp64" => LongInv)'
    BY <2>1, <2>0 DEF LongInv, Count, WordSize, TwoWords
  <2> QED BY <2>1, <2>2, <2>3, <2>4, <2>5, <2>6, <2>7
<1>3. ASSUME StoreLow, stats.kernel # "smp64" PROVE StatsInv'
  <2>1. /\ DOMAIN stats' = DOMAIN stats
        /\ stats'.kernel = stats.kernel /\ stats'.irqwriter = stats.irqwriter /\ stats'.irqreader = stats.irqreader
        /\ stats'.seq = stats.seq /\ stats'.next = stats.next /\ stats'.rpc = stats.rpc /\ stats'.start = stats.start
        /\ stats'.read = stats.read /\ stats'.low = stats.low /\ stats'.tries = stats.tries /\ stats'.off = stats.off
        /\ stats'.wpc = "high"
        /\ stats'.words = [stats.words EXCEPT ![2] = stats.next[2]]
    BY <1>3 DEF StoreLow
  <2>0. stats.wpc = "low" /\ Count(stats.next) = Count(stats.words) + 1
    BY <1>3 DEF StoreLow, WriterInv
  <2>2. StatsType'
    BY <2>1 DEF TwoWords
  <2>3. WriterInv'
    BY <2>1, <2>0, <1>3 DEF WriterInv, TwoWords
  <2>4. ReaderInv'
    BY <2>1, <2>0 DEF ReaderInv, Present, Count, WordSize, TwoWords
  <2>5. (stats.kernel = "smp32" => SeqInv /\ stats.off = "none")'
    BY <2>1, <2>0 DEF SeqInv, ReadSoFar
  <2>6. (stats.kernel = "up32" => OffInv)'
    BY <2>1, <2>0 DEF OffInv, ReadSoFar
  <2>7. (stats.kernel = "smp64" => LongInv)'
    BY <2>1, <1>3 DEF LongInv
  <2> QED BY <2>1, <2>2, <2>3, <2>4, <2>5, <2>6, <2>7
<1>4. ASSUME StoreHigh PROVE StatsInv'
  <2>1. /\ DOMAIN stats' = DOMAIN stats
        /\ stats'.kernel = stats.kernel /\ stats'.irqwriter = stats.irqwriter /\ stats'.irqreader = stats.irqreader
        /\ stats'.seq = stats.seq /\ stats'.next = stats.next /\ stats'.rpc = stats.rpc /\ stats'.start = stats.start
        /\ stats'.read = stats.read /\ stats'.low = stats.low /\ stats'.tries = stats.tries /\ stats'.off = stats.off
        /\ stats'.wpc = "end"
        /\ stats'.words = stats.next
    BY <1>4 DEF StoreHigh
  <2>0. stats.wpc = "high"
    BY <1>4 DEF StoreHigh
  <2>2. StatsType'
    BY <2>1 DEF TwoWords
  <2>3. WriterInv'
    BY <2>1, <2>0 DEF WriterInv
  <2>4. ReaderInv'
    BY <2>1, <2>0 DEF ReaderInv, Present, Count, WordSize, TwoWords
  <2>5. (stats.kernel = "smp32" => SeqInv /\ stats.off = "none")'
    BY <2>1, <2>0 DEF SeqInv, ReadSoFar
  <2>6. (stats.kernel = "up32" => OffInv)'
    BY <2>1, <2>0 DEF OffInv, ReadSoFar
  <2>7. (stats.kernel = "smp64" => LongInv)'
    BY <2>1, <2>0 DEF LongInv, WriterInv
  <2> QED BY <2>1, <2>2, <2>3, <2>4, <2>5, <2>6, <2>7
<1>5. ASSUME u64_stats_update_end PROVE StatsInv'
  <2>1. /\ DOMAIN stats' = DOMAIN stats
        /\ stats'.kernel = stats.kernel /\ stats'.irqwriter = stats.irqwriter /\ stats'.irqreader = stats.irqreader
        /\ stats'.words = stats.words /\ stats'.next = stats.next /\ stats'.rpc = stats.rpc /\ stats'.start = stats.start
        /\ stats'.read = stats.read /\ stats'.low = stats.low /\ stats'.tries = stats.tries /\ stats'.off = stats.off
        /\ stats'.wpc = "idle"
        /\ stats'.seq = IF Sequenced THEN stats.seq + 1 ELSE stats.seq
    BY <1>5 DEF u64_stats_update_end
  <2>0. stats.wpc = "end"
    BY <1>5 DEF u64_stats_update_end
  <2>2. StatsType'
    BY <2>1 DEF TwoWords
  <2>3. WriterInv'
    BY <2>1, <2>0 DEF WriterInv
  <2>4. ReaderInv'
    BY <2>1, <2>0 DEF ReaderInv, Present, Count, WordSize, TwoWords
  <2>5. (stats.kernel = "smp32" => SeqInv /\ stats.off = "none")'
    BY <2>1, <2>0 DEF SeqInv, ReadSoFar, Sequenced
  <2>6. (stats.kernel = "up32" => OffInv)'
    BY <2>1, <2>0 DEF OffInv, ReadSoFar
  <2>7. (stats.kernel = "smp64" => LongInv)'
    BY <2>1, <2>0 DEF LongInv, Count, WordSize, TwoWords
  <2> QED BY <2>1, <2>2, <2>3, <2>4, <2>5, <2>6, <2>7
<1>6. ASSUME u64_stats_fetch_begin PROVE StatsInv'
  <2>1. /\ DOMAIN stats' = DOMAIN stats
        /\ stats'.kernel = stats.kernel /\ stats'.irqwriter = stats.irqwriter /\ stats'.irqreader = stats.irqreader
        /\ stats'.seq = stats.seq /\ stats'.words = stats.words /\ stats'.next = stats.next /\ stats'.wpc = stats.wpc
        /\ stats'.read = stats.read /\ stats'.tries = stats.tries
        /\ stats'.rpc = "low"
        /\ stats'.start = stats.seq
        /\ stats'.low = IF stats.tries = 0 THEN Count(stats.words) ELSE stats.low
        /\ stats'.off = IF stats.kernel = "up32" THEN "preempt" ELSE stats.off
    BY <1>6 DEF u64_stats_fetch_begin, FetchBegin
  <2>0. stats.rpc = "idle" /\ ~stats.irqreader /\ (stats.kernel = "up32" => stats.wpc = "idle") /\ (Sequenced => stats.seq % 2 = 0)
    BY <1>6 DEF u64_stats_fetch_begin, FetchBegin, MayRead
  <2>2. StatsType'
    BY <2>1 DEF TwoWords, Count, WordSize
  <2>3. WriterInv'
    BY <2>1 DEF WriterInv
  <2>4. ReaderInv'
    BY <2>1, <2>0 DEF ReaderInv, Present, Count, WordSize, TwoWords, WriterInv, Sequenced, SeqInv
  <2>5. (stats.kernel = "smp32" => SeqInv /\ stats.off = "none")'
    BY <2>1, <2>0 DEF SeqInv, ReadSoFar, Sequenced
  <2>6. (stats.kernel = "up32" => OffInv)'
    BY <2>1, <2>0 DEF OffInv, ReadSoFar
  <2>7. (stats.kernel = "smp64" => LongInv)'
    BY <2>1, <2>0 DEF LongInv
  <2> QED BY <2>1, <2>2, <2>3, <2>4, <2>5, <2>6, <2>7
<1>7. ASSUME u64_stats_fetch_begin_irq PROVE StatsInv'
  <2>1. /\ DOMAIN stats' = DOMAIN stats
        /\ stats'.kernel = stats.kernel /\ stats'.irqwriter = stats.irqwriter /\ stats'.irqreader = stats.irqreader
        /\ stats'.seq = stats.seq /\ stats'.words = stats.words /\ stats'.next = stats.next /\ stats'.wpc = stats.wpc
        /\ stats'.read = stats.read /\ stats'.tries = stats.tries
        /\ stats'.rpc = "low"
        /\ stats'.start = stats.seq
        /\ stats'.low = IF stats.tries = 0 THEN Count(stats.words) ELSE stats.low
        /\ stats'.off = IF stats.kernel = "up32" THEN "irq" ELSE stats.off
    BY <1>7 DEF u64_stats_fetch_begin_irq, FetchBegin
  <2>0. stats.rpc = "idle" /\ stats.irqreader /\ (stats.kernel = "up32" => stats.wpc = "idle") /\ (Sequenced => stats.seq % 2 = 0)
    BY <1>7 DEF u64_stats_fetch_begin_irq, FetchBegin, MayRead
  <2>2. StatsType'
    BY <2>1 DEF TwoWords, Count, WordSize
  <2>3. WriterInv'
    BY <2>1 DEF WriterInv
  <2>4. ReaderInv'
    BY <2>1, <2>0 DEF ReaderInv, Present, Count, WordSize, TwoWords, WriterInv, Sequenced, SeqInv
  <2>5. (stats.kernel = "smp32" => SeqInv /\ stats.off = "none")'
    BY <2>1, <2>0 DEF SeqInv, ReadSoFar, Sequenced
  <2>6. (stats.kernel = "up32" => OffInv)'
    BY <2>1, <2>0 DEF OffInv, ReadSoFar
  <2>7. (stats.kernel = "smp64" => LongInv)'
    BY <2>1, <2>0 DEF LongInv
  <2> QED BY <2>1, <2>2, <2>3, <2>4, <2>5, <2>6, <2>7
<1>8. ASSUME LoadLow, stats.kernel = "smp64" PROVE StatsInv'
  <2>1. /\ DOMAIN stats' = DOMAIN stats
        /\ stats'.kernel = stats.kernel /\ stats'.irqwriter = stats.irqwriter /\ stats'.irqreader = stats.irqreader
        /\ stats'.seq = stats.seq /\ stats'.words = stats.words /\ stats'.next = stats.next /\ stats'.wpc = stats.wpc
        /\ stats'.start = stats.start /\ stats'.low = stats.low /\ stats'.tries = stats.tries /\ stats'.off = stats.off
        /\ stats'.rpc = "retry"
        /\ stats'.read = stats.words
    BY <1>8 DEF LoadLow
  <2>0. stats.rpc = "low" /\ (stats.kernel = "up32" => stats.wpc = "idle")
    BY <1>8 DEF LoadLow, MayRead
  <2>2. StatsType'
    BY <2>1 DEF TwoWords
  <2>3. WriterInv'
    BY <2>1, <1>8 DEF WriterInv
  <2>4. ReaderInv'
    BY <2>1, <2>0 DEF ReaderInv, Present, Count, WordSize, TwoWords
  <2>5. (stats.kernel = "smp32" => SeqInv /\ stats.off = "none")'
    BY <2>1, <2>0, <1>8 DEF SeqInv, ReadSoFar, TwoWords
  <2>6. (stats.kernel = "up32" => OffInv)'
    BY <2>1, <2>0, <1>8 DEF OffInv, ReadSoFar, TwoWords
  <2>7. (stats.kernel = "smp64" => LongInv)'
    BY <2>1, <2>0, <1>8 DEF LongInv, Count, WordSize, TwoWords, ReaderInv, WriterInv, Present
  <2> QED BY <2>1, <2>2, <2>3, <2>4, <2>5, <2>6, <2>7
<1>9. ASSUME LoadLow, stats.kernel # "smp64" PROVE StatsInv'
  <2>1. /\ DOMAIN stats' = DOMAIN stats
        /\ stats'.kernel = stats.kernel /\ stats'.irqwriter = stats.irqwriter /\ stats'.irqreader = stats.irqreader
        /\ stats'.seq = stats.seq /\ stats'.words = stats.words /\ stats'.next = stats.next /\ stats'.wpc = stats.wpc
        /\ stats'.start = stats.start /\ stats'.low = stats.low /\ stats'.tries = stats.tries /\ stats'.off = stats.off
        /\ stats'.rpc = "high"
        /\ stats'.read = [stats.read EXCEPT ![2] = stats.words[2]]
    BY <1>9 DEF LoadLow
  <2>0. stats.rpc = "low" /\ (stats.kernel = "up32" => stats.wpc = "idle")
    BY <1>9 DEF LoadLow, MayRead
  <2>2. StatsType'
    BY <2>1 DEF TwoWords
  <2>3. WriterInv'
    BY <2>1, <1>9 DEF WriterInv
  <2>4. ReaderInv'
    BY <2>1, <2>0 DEF ReaderInv, Present, Count, WordSize, TwoWords
  <2>5. (stats.kernel = "smp32" => SeqInv /\ stats.off = "none")'
    BY <2>1, <2>0, <1>9 DEF SeqInv, ReadSoFar, TwoWords
  <2>6. (stats.kernel = "up32" => OffInv)'
    BY <2>1, <2>0, <1>9 DEF OffInv, ReadSoFar, TwoWords
  <2>7. (stats.kernel = "smp64" => LongInv)'
    BY <2>1, <2>0, <1>9 DEF LongInv, Count, WordSize, TwoWords, ReaderInv, WriterInv, Present
  <2> QED BY <2>1, <2>2, <2>3, <2>4, <2>5, <2>6, <2>7
<1>10. ASSUME LoadHigh PROVE StatsInv'
  <2>1. /\ DOMAIN stats' = DOMAIN stats
        /\ stats'.kernel = stats.kernel /\ stats'.irqwriter = stats.irqwriter /\ stats'.irqreader = stats.irqreader
        /\ stats'.seq = stats.seq /\ stats'.words = stats.words /\ stats'.next = stats.next /\ stats'.wpc = stats.wpc
        /\ stats'.start = stats.start /\ stats'.low = stats.low /\ stats'.tries = stats.tries /\ stats'.off = stats.off
        /\ stats'.rpc = "retry"
        /\ stats'.read = [stats.read EXCEPT ![1] = stats.words[1]]
    BY <1>10 DEF LoadHigh
  <2>0. stats.rpc = "high" /\ (stats.kernel = "up32" => stats.wpc = "idle")
    BY <1>10 DEF LoadHigh, MayRead
  <2>2. StatsType'
    BY <2>1 DEF TwoWords
  <2>3. WriterInv'
    BY <2>1 DEF WriterInv
  <2>4. ReaderInv'
    BY <2>1, <2>0 DEF ReaderInv, Present, Count, WordSize, TwoWords
  <2>5. (stats.kernel = "smp32" => SeqInv /\ stats.off = "none")'
    BY <2>1, <2>0 DEF SeqInv, ReadSoFar, TwoWords
  <2>6. (stats.kernel = "up32" => OffInv)'
    BY <2>1, <2>0 DEF OffInv, ReadSoFar, TwoWords
  <2>7. (stats.kernel = "smp64" => LongInv)'
    BY <2>1, <2>0 DEF LongInv, WriterInv
  <2> QED BY <2>1, <2>2, <2>3, <2>4, <2>5, <2>6, <2>7
<1>11. ASSUME FetchRetry, Sequenced, stats.seq # stats.start PROVE StatsInv'
  <2>1. /\ DOMAIN stats' = DOMAIN stats
        /\ stats'.kernel = stats.kernel /\ stats'.irqwriter = stats.irqwriter /\ stats'.irqreader = stats.irqreader
        /\ stats'.seq = stats.seq /\ stats'.words = stats.words /\ stats'.next = stats.next /\ stats'.wpc = stats.wpc
        /\ stats'.start = stats.start /\ stats'.read = stats.read /\ stats'.low = stats.low /\ stats'.off = stats.off
        /\ stats'.rpc = "idle"
        /\ stats'.tries = stats.tries + 1
    BY <1>11 DEF FetchRetry
  <2>0. stats.rpc = "retry" /\ stats.kernel = "smp32"
    BY <1>11 DEF FetchRetry, Sequenced
  <2>2. StatsType'
    BY <2>1 DEF TwoWords
  <2>3. WriterInv'
    BY <2>1 DEF WriterInv
  <2>4. ReaderInv'
    BY <2>1, <2>0 DEF ReaderInv, Present, Count, WordSize, TwoWords
  <2>5. (stats.kernel = "smp32" => SeqInv /\ stats.off = "none")'
    BY <2>1, <2>0 DEF SeqInv, ReadSoFar
  <2>6. (stats.kernel = "up32" => OffInv)'
    BY <2>1, <2>0 DEF OffInv, ReadSoFar
  <2>7. (stats.kernel = "smp64" => LongInv)'
    BY <2>1, <2>0 DEF LongInv
  <2> QED BY <2>1, <2>2, <2>3, <2>4, <2>5, <2>6, <2>7
<1>12. ASSUME FetchRetry, ~(Sequenced /\ stats.seq # stats.start) PROVE StatsInv'
  <2>1. /\ DOMAIN stats' = DOMAIN stats
        /\ stats'.kernel = stats.kernel /\ stats'.irqwriter = stats.irqwriter /\ stats'.irqreader = stats.irqreader
        /\ stats'.seq = stats.seq /\ stats'.words = stats.words /\ stats'.next = stats.next /\ stats'.wpc = stats.wpc
        /\ stats'.start = stats.start /\ stats'.read = stats.read /\ stats'.low = stats.low /\ stats'.tries = stats.tries
        /\ stats'.rpc = "done"
        /\ stats'.off = "none"
    BY <1>12 DEF FetchRetry
  <2>0. stats.rpc = "retry" /\ (stats.kernel = "up32" => stats.wpc = "idle") /\ (stats.kernel = "smp32" => stats.seq = stats.start)
    BY <1>12 DEF FetchRetry, Sequenced, MayRead
  <2>a. Count(stats.read) \in stats.low .. Count(Present)
    <3>1. CASE stats.kernel = "smp64"
      BY <2>0, <3>1 DEF LongInv, WriterInv, Present
    <3>2. CASE stats.kernel # "smp64"
      <4>1. ReadSoFar
        BY <2>0, <3>2 DEF SeqInv, OffInv
      <4> QED BY <2>0, <4>1 DEF ReadSoFar, ReaderInv, Present, Count, WordSize, TwoWords
    <3> QED BY <3>1, <3>2
  <2>2. StatsType'
    BY <2>1 DEF TwoWords
  <2>3. WriterInv'
    BY <2>1 DEF WriterInv
  <2>4. ReaderInv'
    BY <2>1, <2>0, <2>a DEF ReaderInv, Present, Count, WordSize, TwoWords
  <2>5. (stats.kernel = "smp32" => SeqInv /\ stats.off = "none")'
    BY <2>1, <2>0 DEF SeqInv, ReadSoFar
  <2>6. (stats.kernel = "up32" => OffInv)'
    BY <2>1, <2>0 DEF OffInv, ReadSoFar
  <2>7. (stats.kernel = "smp64" => LongInv)'
    BY <2>1, <2>0 DEF LongInv
  <2> QED BY <2>1, <2>2, <2>3, <2>4, <2>5, <2>6, <2>7
<1>13. ASSUME Again PROVE StatsInv'
  <2>1. /\ DOMAIN stats' = DOMAIN stats
        /\ stats'.kernel = stats.kernel /\ stats'.irqwriter = stats.irqwriter /\ stats'.irqreader = stats.irqreader
        /\ stats'.seq = stats.seq /\ stats'.words = stats.words /\ stats'.next = stats.next /\ stats'.wpc = stats.wpc
        /\ stats'.start = stats.start /\ stats'.read = stats.read /\ stats'.low = stats.low /\ stats'.off = stats.off
        /\ stats'.rpc = "idle"
        /\ stats'.tries = 0
    BY <1>13 DEF Again
  <2>0. stats.rpc = "done"
    BY <1>13 DEF Again
  <2>2. StatsType'
    BY <2>1 DEF TwoWords
  <2>3. WriterInv'
    BY <2>1 DEF WriterInv
  <2>4. ReaderInv'
    BY <2>1, <2>0 DEF ReaderInv, Present
  <2>5. (stats.kernel = "smp32" => SeqInv /\ stats.off = "none")'
    BY <2>1, <2>0 DEF SeqInv, ReadSoFar
  <2>6. (stats.kernel = "up32" => OffInv)'
    BY <2>1, <2>0 DEF OffInv, ReadSoFar
  <2>7. (stats.kernel = "smp64" => LongInv)'
    BY <2>1, <2>0 DEF LongInv
  <2> QED BY <2>1, <2>2, <2>3, <2>4, <2>5, <2>6, <2>7
<1> QED BY <1>0, <1>1, <1>2, <1>3, <1>4, <1>5, <1>6, <1>7, <1>8, <1>9, <1>10, <1>11, <1>12, <1>13
       DEF StatsNext, u64_stats_fetch_retry, u64_stats_fetch_retry_irq

LEMMA StatsSafe == StatsInv => WholeCounts
BY DEF StatsInv, ReaderInv, WholeCounts, Present

-----------------------------------------------------------------------------
(* The socket: proofs.                                                     *)

LEMMA SkStarts == \A sock \in BOOLEAN : sk = SkStart(sock) => SkInv
<1> SUFFICES ASSUME NEW sock \in BOOLEAN, sk = SkStart(sock) PROVE SkInv
  OBVIOUS
<1>1. /\ DOMAIN sk = {"sock", "ref", "closed", "tx", "clone", "pc", "freed", "bad"}
      /\ sk.sock = sock /\ sk.ref = One(sock) /\ sk.tx \in BOOLEAN /\ sk.tx /\ sk.clone = "none" /\ sk.pc = "idle" /\ sk.bad = FALSE
  BY DEF SkStart, One
<1>2. sk.closed \in BOOLEAN /\ sk.freed \in BOOLEAN /\ (sk.closed <=> ~sock) /\ (sk.freed <=> ~sock)
  BY DEF SkStart
<1>3. SkType
  <2>1. sk.ref \in Nat
    BY <1>1 DEF One
  <2> QED BY <1>1, <1>2, <2>1 DEF SkType
<1>4. SkRefs
  BY <1>1, <1>2 DEF SkRefs, One
<1>5. IF sk.sock THEN sk.freed <=> sk.ref = 0 /\ ~sk.tx
      ELSE sk.closed /\ sk.freed /\ sk.pc = "idle" /\ sk.clone \in {"none", "failed"}
  <2>1. CASE sock
    BY <1>1, <1>2, <2>1 DEF One
  <2>2. CASE ~sock
    BY <1>1, <1>2, <2>2
  <2> QED BY <2>1, <2>2
<1> QED BY <1>1, <1>3, <1>4, <1>5 DEF SkInv

LEMMA SkSteps == SkInv /\ (SkNext \/ UNCHANGED sk) => SkInv'
<1> SUFFICES ASSUME SkInv, SkNext \/ UNCHANGED sk PROVE SkInv'
  OBVIOUS
<1> USE DEF SkInv, SkType, SkRefs, One
<1>0. CASE UNCHANGED sk
  BY <1>0
<1>1. ASSUME Close PROVE SkInv'
  <2>0. sk.sock /\ ~sk.closed /\ ~sk.freed
    BY <1>1 DEF Close
  <2>1. /\ DOMAIN sk' = DOMAIN sk /\ sk'.sock = sk.sock /\ sk'.tx = sk.tx /\ sk'.clone = sk.clone /\ sk'.pc = sk.pc /\ sk'.bad = sk.bad
        /\ sk'.closed \in BOOLEAN /\ (sk'.closed <=> TRUE) /\ sk'.ref = sk.ref - 1 /\ sk'.freed \in BOOLEAN /\ (sk'.freed <=> (sk.ref - 1 = 0 /\ ~sk.tx))
    BY <1>1, <2>0 DEF Close, Used, Settled, sock_put, sock_hold, sock_efree
  <2> QED BY <2>0, <2>1
<1>2. ASSUME TxDone, sk.sock PROVE SkInv'
  <2>0. sk.sock /\ sk.tx /\ ~sk.freed /\ sk.clone # "none" /\ sk.pc # "clone"
    BY <1>2 DEF TxDone
  <2>1. /\ DOMAIN sk' = DOMAIN sk /\ sk'.sock = sk.sock /\ sk'.ref = sk.ref /\ sk'.closed = sk.closed /\ sk'.clone = sk.clone /\ sk'.pc = sk.pc /\ sk'.bad = sk.bad
        /\ sk'.tx \in BOOLEAN /\ (sk'.tx <=> FALSE) /\ sk'.freed \in BOOLEAN /\ (sk'.freed <=> sk.ref = 0)
    BY <1>2, <2>0 DEF TxDone, Used, Settled, sock_put, sock_hold, sock_efree
  <2> QED BY <2>0, <2>1
<1>3. ASSUME TxDone, ~sk.sock PROVE SkInv'
  <2>0. ~sk.sock /\ sk.tx /\ sk.clone # "none" /\ sk.pc # "clone"
    BY <1>3 DEF TxDone
  <2>1. /\ DOMAIN sk' = DOMAIN sk /\ sk'.sock = sk.sock /\ sk'.ref = sk.ref /\ sk'.closed = sk.closed /\ sk'.clone = sk.clone /\ sk'.pc = sk.pc /\ sk'.freed = sk.freed /\ sk'.bad = sk.bad
        /\ sk'.tx \in BOOLEAN /\ (sk'.tx <=> FALSE)
    BY <1>3, <2>0 DEF TxDone, Used, Settled, sock_put, sock_hold, sock_efree
  <2> QED BY <2>0, <2>1
<1>4. ASSUME skb_clone_sk, sk.pc = "idle", ~sk.sock PROVE SkInv'
  <2>0. ~sk.sock /\ sk.tx /\ sk.clone = "none" /\ sk.pc = "idle"
    BY <1>4 DEF skb_clone_sk
  <2>1. /\ DOMAIN sk' = DOMAIN sk /\ sk'.sock = sk.sock /\ sk'.ref = sk.ref /\ sk'.closed = sk.closed /\ sk'.tx = sk.tx /\ sk'.pc = sk.pc /\ sk'.freed = sk.freed /\ sk'.bad = sk.bad
        /\ sk'.clone = "failed"
    BY <1>4, <2>0 DEF skb_clone_sk, Used, Settled, sock_put, sock_hold, sock_efree
  <2> QED BY <2>0, <2>1
<1>5. ASSUME skb_clone_sk, sk.pc = "idle", sk.sock, sk.ref = 0 PROVE SkInv'
  <2>0. sk.sock /\ ~sk.freed /\ sk.tx /\ sk.clone = "none" /\ sk.pc = "idle"
    BY <1>5 DEF skb_clone_sk
  <2>1. /\ DOMAIN sk' = DOMAIN sk /\ sk'.sock = sk.sock /\ sk'.ref = sk.ref /\ sk'.closed = sk.closed /\ sk'.tx = sk.tx /\ sk'.pc = sk.pc /\ sk'.freed = sk.freed /\ sk'.bad = sk.bad
        /\ sk'.clone = "failed"
    BY <1>5, <2>0 DEF skb_clone_sk, Used, Settled, sock_put, sock_hold, sock_efree
  <2> QED BY <2>0, <2>1
<1>6. ASSUME skb_clone_sk, sk.pc = "idle", sk.sock, sk.ref # 0 PROVE SkInv'
  <2>0. sk.sock /\ ~sk.freed /\ sk.tx /\ sk.clone = "none" /\ sk.pc = "idle"
    BY <1>6 DEF skb_clone_sk
  <2>1. /\ DOMAIN sk' = DOMAIN sk /\ sk'.sock = sk.sock /\ sk'.closed = sk.closed /\ sk'.tx = sk.tx /\ sk'.clone = sk.clone /\ sk'.freed = sk.freed /\ sk'.bad = sk.bad
        /\ sk'.ref = sk.ref + 1 /\ sk'.pc = "clone"
    BY <1>6, <2>0 DEF skb_clone_sk, Used, Settled, sock_put, sock_hold, sock_efree
  <2> QED BY <2>0, <2>1
<1>7. ASSUME skb_clone_sk, sk.pc = "clone" PROVE SkInv'
  <2>0. sk.sock /\ ~sk.freed /\ sk.pc = "clone" /\ sk.clone = "none" /\ sk.tx
    BY <1>7 DEF skb_clone_sk
  <2>1. sk' = [sk EXCEPT !.pc = "idle", !.clone = "made"] \/ sk' = [sock_put(sk) EXCEPT !.pc = "idle", !.clone = "failed"]
    BY <1>7 DEF skb_clone_sk
  <2>2. CASE sk' = [sk EXCEPT !.pc = "idle", !.clone = "made"]
    <3>1. /\ DOMAIN sk' = DOMAIN sk /\ sk'.sock = sk.sock /\ sk'.ref = sk.ref /\ sk'.closed = sk.closed /\ sk'.tx = sk.tx /\ sk'.freed = sk.freed /\ sk'.bad = sk.bad
          /\ sk'.pc = "idle" /\ sk'.clone = "made"
      BY <2>0, <2>2 DEF Used, Settled, sock_put, sock_efree
    <3> QED BY <2>0, <3>1
  <2>3. CASE sk' = [sock_put(sk) EXCEPT !.pc = "idle", !.clone = "failed"]
    <3>1. /\ DOMAIN sk' = DOMAIN sk /\ sk'.sock = sk.sock /\ sk'.closed = sk.closed /\ sk'.tx = sk.tx /\ sk'.bad = sk.bad
          /\ sk'.pc = "idle" /\ sk'.clone = "failed" /\ sk'.ref = sk.ref - 1 /\ sk'.freed \in BOOLEAN /\ (sk'.freed <=> (sk.ref - 1 = 0 /\ ~sk.tx))
      BY <2>0, <2>3 DEF Used, Settled, sock_put, sock_efree
    <3> QED BY <2>0, <3>1
  <2> QED BY <2>1, <2>2, <2>3
<1>8. ASSUME kfree_skb PROVE SkInv'
  <2>0. sk.sock /\ ~sk.freed /\ sk.pc = "idle" /\ sk.clone = "made"
    BY <1>8 DEF kfree_skb
  <2>1. /\ DOMAIN sk' = DOMAIN sk /\ sk'.sock = sk.sock /\ sk'.closed = sk.closed /\ sk'.tx = sk.tx /\ sk'.pc = sk.pc /\ sk'.bad = sk.bad
        /\ sk'.clone = "freed" /\ sk'.ref = sk.ref - 1 /\ sk'.freed \in BOOLEAN /\ (sk'.freed <=> (sk.ref - 1 = 0 /\ ~sk.tx))
    BY <1>8, <2>0 DEF kfree_skb, Used, Settled, sock_put, sock_hold, sock_efree
  <2> QED BY <2>0, <2>1
<1>9. ASSUME Hold PROVE SkInv'
  <2>0. sk.sock /\ ~sk.freed /\ sk.pc = "idle" /\ sk.clone = "made"
    BY <1>9 DEF Hold
  <2>1. /\ DOMAIN sk' = DOMAIN sk /\ sk'.sock = sk.sock /\ sk'.closed = sk.closed /\ sk'.tx = sk.tx /\ sk'.clone = sk.clone /\ sk'.freed = sk.freed /\ sk'.bad = sk.bad
        /\ sk'.ref = sk.ref + 1 /\ sk'.pc = "queue"
    BY <1>9, <2>0 DEF Hold, Used, Settled, sock_put, sock_hold, sock_efree
  <2> QED BY <2>0, <2>1
<1>10. ASSUME Queue, sk.pc = "queue" PROVE SkInv'
  <2>0. sk.sock /\ ~sk.freed /\ sk.pc = "queue" /\ sk.clone = "made"
    BY <1>10 DEF Queue
  <2>1. sk' = [sock_efree(Used(sk)) EXCEPT !.pc = "orphaned"] \/ sk' = [sock_efree(Used(sk)) EXCEPT !.pc = "put", !.clone = "freed"]
    BY <1>10 DEF Queue
  <2>2. CASE sk' = [sock_efree(Used(sk)) EXCEPT !.pc = "orphaned"]
    <3>1. /\ DOMAIN sk' = DOMAIN sk /\ sk'.sock = sk.sock /\ sk'.closed = sk.closed /\ sk'.tx = sk.tx /\ sk'.clone = sk.clone /\ sk'.bad = sk.bad
          /\ sk'.pc = "orphaned" /\ sk'.ref = sk.ref - 1 /\ sk'.freed \in BOOLEAN /\ (sk'.freed <=> (sk.ref - 1 = 0 /\ ~sk.tx))
      BY <2>0, <2>2 DEF Used, Settled, sock_put, sock_efree
    <3> QED BY <2>0, <3>1
  <2>3. CASE sk' = [sock_efree(Used(sk)) EXCEPT !.pc = "put", !.clone = "freed"]
    <3>1. /\ DOMAIN sk' = DOMAIN sk /\ sk'.sock = sk.sock /\ sk'.closed = sk.closed /\ sk'.tx = sk.tx /\ sk'.bad = sk.bad
          /\ sk'.pc = "put" /\ sk'.clone = "freed" /\ sk'.ref = sk.ref - 1 /\ sk'.freed \in BOOLEAN /\ (sk'.freed <=> (sk.ref - 1 = 0 /\ ~sk.tx))
      BY <2>0, <2>3 DEF Used, Settled, sock_put, sock_efree
    <3> QED BY <2>0, <3>1
  <2> QED BY <2>1, <2>2, <2>3
<1>11. ASSUME Queue, sk.pc = "orphaned" PROVE SkInv'
  <2>0. sk.sock /\ ~sk.freed /\ sk.pc = "orphaned" /\ sk.clone = "made"
    BY <1>11 DEF Queue
  <2>1. /\ DOMAIN sk' = DOMAIN sk /\ sk'.sock = sk.sock /\ sk'.ref = sk.ref /\ sk'.closed = sk.closed /\ sk'.tx = sk.tx /\ sk'.freed = sk.freed /\ sk'.bad = sk.bad
        /\ sk'.pc = "put" /\ sk'.clone = "queued"
    BY <1>11, <2>0 DEF Queue, Used, Settled, sock_put, sock_hold, sock_efree
  <2> QED BY <2>0, <2>1
<1>12. ASSUME PutBack PROVE SkInv'
  <2>0. sk.sock /\ ~sk.freed /\ sk.pc = "put"
    BY <1>12 DEF PutBack
  <2>1. /\ DOMAIN sk' = DOMAIN sk /\ sk'.sock = sk.sock /\ sk'.closed = sk.closed /\ sk'.tx = sk.tx /\ sk'.clone = sk.clone /\ sk'.bad = sk.bad
        /\ sk'.pc = "idle" /\ sk'.ref = sk.ref - 1 /\ sk'.freed \in BOOLEAN /\ (sk'.freed <=> (sk.ref - 1 = 0 /\ ~sk.tx))
    BY <1>12, <2>0 DEF PutBack, Used, Settled, sock_put, sock_hold, sock_efree
  <2> QED BY <2>0, <2>1
<1>13. skb_clone_sk => sk.pc \in {"idle", "clone"}
  BY DEF skb_clone_sk
<1>14. Queue => sk.pc \in {"queue", "orphaned"}
  BY DEF Queue
<1> QED BY <1>0, <1>1, <1>2, <1>3, <1>4, <1>5, <1>6, <1>7, <1>8, <1>9, <1>10, <1>11, <1>12, <1>13, <1>14 DEF SkNext

LEMMA SkSafe == SkInv => SocketOutlivesStatus
BY DEF SkInv, SkType, SkRefs, One, SocketOutlivesStatus

-----------------------------------------------------------------------------
(* Copies of an skb: proofs.                                               *)

LEMMA OneElement == ASSUME NEW x PROVE <<x>> # <<>> /\ <<x>>[1] = x
OBVIOUS

LEMMA SkbStarts ==
    ASSUME NEW offsets \in BOOLEAN, NEW mac \in BOOLEAN, NEW parts \in SUBSET SharedParts, NEW headroom \in 1 .. 3,
           skb = SkbStart(offsets, parts, headroom, mac)
    PROVE  SkbInv
<1>1. /\ DOMAIN skb = {"offsets", "bufs", "refs", "freed", "same", "mac"}
      /\ skb.offsets = offsets /\ skb.bufs = <<<<BufferAt(1, offsets, headroom, mac)>>, <<>>>> /\ skb.refs = [p \in parts |-> 1]
      /\ skb.freed = {} /\ skb.same \in BOOLEAN /\ skb.mac = mac
  BY DEF SkbStart
<1>2. DOMAIN skb.bufs = {1, 2} /\ skb.bufs[1] = <<BufferAt(1, offsets, headroom, mac)>> /\ skb.bufs[2] = <<>>
  BY <1>1
<1>3. Held(1) /\ ~Held(2)
  BY <1>2, OneElement DEF Held
<1>4. SkbType
  BY <1>1, <1>2 DEF SkbType
<1>5. Original
  BY <1>1, <1>2 DEF Original
<1>6. CopyInv /\ SkbRefs
  BY <1>1, <1>3 DEF CopyInv, SkbRefs, One
<1> QED BY <1>4, <1>5, <1>6 DEF SkbInv

\* What a copy of the original has, with another headroom.
LEMMA CopiedHeader ==
    ASSUME SkbType, NEW from \in 1 .. 3, NEW headroom \in 1 .. 3
    PROVE  LET old == BufferAt(1, skb.offsets, from, skb.mac)
               new == copy_skb_header(old, [data |-> HeadAt[2] + headroom, pos |-> [h \in Headers |-> 0], linear |-> old.linear, fields |-> "none"])
               base == IF skb.offsets THEN HeadAt[2] ELSE 0
           IN  /\ old.data = HeadAt[1] + from
               /\ ~skb.offsets \/ headroom = from => new.pos.network = new.data + 2 - base /\ new.pos.transport = new.data + 4 - base
               /\ WasSet(new.pos.mac) = skb.mac /\ new.linear = "bytes" /\ new.fields = "fields"
<1> DEFINE old == BufferAt(1, skb.offsets, from, skb.mac)
           fresh == [data |-> HeadAt[2] + headroom, pos |-> [h \in Headers |-> 0], linear |-> old.linear, fields |-> "none"]
           plain == __copy_skb_header(old, fresh)
           new == copy_skb_header(old, fresh)
<1>1. HeadAt[1] = 10 /\ HeadAt[2] = 40
  BY DEF HeadAt
<1>2. /\ old.data = 10 + from /\ old.linear = "bytes" /\ old.fields = "fields"
      /\ DOMAIN old.pos = Headers
      /\ old.pos["network"] = 10 + from + 2 - (IF skb.offsets THEN 10 ELSE 0)
      /\ old.pos["transport"] = 10 + from + 4 - (IF skb.offsets THEN 10 ELSE 0)
      /\ old.pos["mac"] = IF skb.mac THEN 10 + from + 0 - (IF skb.offsets THEN 10 ELSE 0) ELSE 0
  BY <1>1 DEF BufferAt, Headers
<1> HIDE DEF old
<1>3. /\ DOMAIN plain = {"data", "pos", "linear", "fields"}
      /\ plain.data = 40 + headroom /\ plain.pos = old.pos /\ plain.linear = "bytes" /\ plain.fields = "fields"
  BY <1>1, <1>2 DEF __copy_skb_header
<1>4. CASE skb.offsets
  <2>1. new = plain
    BY <1>4 DEF copy_skb_header
  <2>2. new.data = 40 + headroom /\ new.pos = old.pos /\ new.linear = "bytes" /\ new.fields = "fields"
    BY <2>1, <1>3
  <2>3. WasSet(new.pos["mac"]) <=> skb.mac
    BY <2>2, <1>2, <1>4 DEF WasSet
  <2>4. new.pos["network"] = from + 2 /\ new.pos["transport"] = from + 4
    BY <2>2, <1>2, <1>4
  <2>5. headroom = from => new.pos["network"] = new.data + 2 - HeadAt[2] /\ new.pos["transport"] = new.data + 4 - HeadAt[2]
    BY <2>2, <2>4, <1>1
  <2>6. WasSet(new.pos["mac"]) = skb.mac
    BY <2>3 DEF SkbType, WasSet
  <2> HIDE DEF new
  <2> QED BY ZenonT(60), <2>2, <2>5, <2>6, <1>1, <1>2, <1>4 DEF old, new
<1>5. CASE ~skb.offsets
  <2> DEFINE moved == [h \in Headers |-> IF h = "mac" /\ ~WasSet(old.pos[h]) THEN old.pos[h] ELSE old.pos[h] + (plain.data - old.data)]
  <2>1. new = [plain EXCEPT !.pos = moved]
    BY <1>5, <1>3 DEF copy_skb_header
  <2>2. new.data = 40 + headroom /\ new.pos = moved /\ new.linear = "bytes" /\ new.fields = "fields"
    BY <2>1, <1>3
  <2>3. plain.data - old.data = 30 + headroom - from
    BY <1>2, <1>3
  <2>4. new.pos["network"] = 42 + headroom /\ new.pos["transport"] = 44 + headroom
    BY <2>2, <2>3, <1>2, <1>5 DEF Headers
  <2>5. new.pos["mac"] = IF skb.mac THEN 40 + headroom ELSE 0
    BY <2>2, <2>3, <1>2, <1>5 DEF Headers, WasSet
  <2>6. WasSet(new.pos["mac"]) <=> skb.mac
    BY <2>5 DEF WasSet
  <2> QED BY <2>2, <2>4, <2>6, <1>1, <1>2, <1>5 DEF SkbType, WasSet, old
<1> QED BY <1>4, <1>5

LEMMA SkbSteps == SkbInv /\ (SkbNext \/ UNCHANGED skb) => SkbInv'
<1> SUFFICES ASSUME SkbInv, SkbNext \/ UNCHANGED skb PROVE SkbInv'
  OBVIOUS
<1> USE DEF SkbInv
<1>0. CASE UNCHANGED skb
  BY <1>0 DEF SkbType, Original, CopyInv, SkbRefs, Held
<1>1. ASSUME NEW headroom \in 1 .. 3, __pskb_copy(headroom) PROVE SkbInv'
  <2>1. Held(1) /\ ~Held(2)
    BY <1>1 DEF __pskb_copy, Held
  <2>2. PICK from \in 1 .. 3 : skb.bufs[1] = <<BufferAt(1, skb.offsets, from, skb.mac)>>
    BY <2>1 DEF Original
  <2> DEFINE old == BufferAt(1, skb.offsets, from, skb.mac)
             new == copy_skb_header(old, [data |-> HeadAt[2] + headroom, pos |-> [h \in Headers |-> 0], linear |-> old.linear, fields |-> "none"])
  <2>3. skb.bufs[1][1] = old
    BY <2>2, OneElement
  <2> HIDE DEF old
  <2>4. \/ skb' = skb
        \/ skb' = [skb EXCEPT !.bufs[2] = <<new>>, !.refs = Referenced(SharedParts), !.same = headroom = old.data - HeadAt[1]]
    BY <1>1, <2>3 DEF __pskb_copy
  <2>5. CASE skb' = skb
    BY <2>5, <1>0
  <2>6. CASE skb' = [skb EXCEPT !.bufs[2] = <<new>>, !.refs = Referenced(SharedParts), !.same = headroom = old.data - HeadAt[1]]
    <3> HIDE DEF new
    <3>1. /\ DOMAIN skb' = DOMAIN skb /\ skb'.offsets = skb.offsets /\ skb'.mac = skb.mac /\ skb'.freed = skb.freed
          /\ skb'.refs = Referenced(SharedParts) /\ skb'.bufs = [skb.bufs EXCEPT ![2] = <<new>>]
          /\ skb'.same = (headroom = old.data - HeadAt[1])
      BY <2>6 DEF SkbType
    <3>2. DOMAIN skb'.bufs = {1, 2} /\ skb'.bufs[1] = skb.bufs[1] /\ skb'.bufs[2] = <<new>> /\ skb'.bufs[2][1] = new
      BY <3>1, OneElement DEF SkbType
    <3>3. Held(1)' /\ Held(2)'
      BY <2>1, <3>2, OneElement DEF Held
    <3>4. DOMAIN skb'.refs = DOMAIN skb.refs /\ \A p \in DOMAIN skb.refs : skb'.refs[p] = skb.refs[p] + 1
      BY <3>1 DEF Referenced, SkbType
    <3>5. SkbType'
      BY <3>1, <3>2, <3>4 DEF SkbType
    <3>6. Original'
      BY <2>1, <3>1, <3>2 DEF Original
    <3>7. CopyInv'
      <4>1. /\ old.data = HeadAt[1] + from
            /\ ~skb.offsets \/ headroom = from =>
                  /\ new.pos.network = new.data + 2 - (IF skb.offsets THEN HeadAt[2] ELSE 0)
                  /\ new.pos.transport = new.data + 4 - (IF skb.offsets THEN HeadAt[2] ELSE 0)
            /\ WasSet(new.pos.mac) = skb.mac /\ new.linear = "bytes" /\ new.fields = "fields"
        BY CopiedHeader DEF old, new
      <4>2. skb'.same => headroom = from
        <5>1. HeadAt[1] = 10
          BY DEF HeadAt
        <5>2. old.data - HeadAt[1] = from
          BY <4>1, <5>1
        <5> QED BY <3>1, <5>2
      <4> QED BY <3>1, <3>2, <4>1, <4>2 DEF CopyInv, SkbType
    <3>8. SkbRefs'
      BY <2>1, <3>1, <3>3, <3>4 DEF SkbRefs, One
    <3> QED BY <3>5, <3>6, <3>7, <3>8
  <2> QED BY <2>4, <2>5, <2>6
<1>2. ASSUME NEW b \in {1, 2}, FreeSkb(b) PROVE SkbInv'
  <2>0. Held(b)
    BY <1>2 DEF FreeSkb, Held
  <2>1. /\ DOMAIN skb' = DOMAIN skb /\ skb'.offsets = skb.offsets /\ skb'.mac = skb.mac /\ skb'.same = skb.same
        /\ skb'.refs = [p \in DOMAIN skb.refs |-> skb.refs[p] - 1] /\ skb'.bufs = [skb.bufs EXCEPT ![b] = <<>>]
        /\ skb'.freed = skb.freed \cup {p \in DOMAIN skb.refs : skb.refs[p] = 1}
    BY <1>2 DEF FreeSkb, SkbType
  <2>2. DOMAIN skb'.bufs = {1, 2} /\ skb'.bufs[b] = <<>> /\ \A c \in {1, 2} \ {b} : skb'.bufs[c] = skb.bufs[c]
    BY <2>1 DEF SkbType
  <2>3. ~Held(b)' /\ \A c \in {1, 2} \ {b} : Held(c)' <=> Held(c)
    BY <2>2 DEF Held
  <2>4. SkbType'
    BY <2>1, <2>2 DEF SkbType
  <2>5. Original'
    BY <2>1, <2>2, <2>3 DEF Original
  <2>6. CopyInv'
    BY <2>1, <2>2, <2>3 DEF CopyInv
  <2>7. SkbRefs'
    <3>1. SUFFICES ASSUME NEW p \in DOMAIN skb.refs
                   PROVE  /\ skb'.refs[p] = One(Held(1)') + One(Held(2)')
                          /\ p \in skb'.freed <=> skb'.refs[p] = 0
      BY <2>1 DEF SkbRefs
    <3>2. skb.refs[p] = One(Held(1)) + One(Held(2)) /\ (p \in skb.freed <=> skb.refs[p] = 0) /\ skb'.refs[p] = skb.refs[p] - 1
      BY <2>1 DEF SkbRefs
    <3>3. skb'.refs[p] = One(Held(1)') + One(Held(2)')
      BY <2>0, <2>3, <3>2 DEF One
    <3>4. skb.refs[p] \in {1, 2}
      BY <2>0, <3>2 DEF One
    <3> QED BY <2>1, <3>2, <3>3, <3>4
  <2> QED BY <2>4, <2>5, <2>6, <2>7
<1> QED BY <1>0, <1>1, <1>2 DEF SkbNext

LEMMA SkbSafe == SkbInv => CopiesStandAlone
<1> SUFFICES ASSUME SkbInv PROVE CopiesStandAlone
  OBVIOUS
<1> DEFINE full == {b \in {1, 2} : Held(b)}
<1>1. Cardinality(full) = One(Held(1)) + One(Held(2))
  <2>a. Cardinality({}) = 0
    BY FS_EmptySet
  <2>b. \A x : IsFiniteSet({x}) /\ Cardinality({x}) = 1
    BY FS_Singleton, Zenon
  <2>0. Cardinality({}) = 0 /\ Cardinality({1}) = 1 /\ Cardinality({2}) = 1 /\ IsFiniteSet({1})
    BY <2>a, <2>b
  <2>1. Cardinality({1} \cup {2}) = 2
    BY <2>0, FS_AddElement
  <2>2. /\ Held(1) /\ Held(2) => full = {1} \cup {2}
        /\ Held(1) /\ ~Held(2) => full = {1}
        /\ ~Held(1) /\ Held(2) => full = {2}
        /\ ~Held(1) /\ ~Held(2) => full = {}
    OBVIOUS
  <2> HIDE DEF full
  <2> QED BY <2>0, <2>1, <2>2 DEF One
<1>2. CopyInv /\ SkbRefs
  BY DEF SkbInv
<1>3. full = {b \in {1, 2} : skb.bufs[b] # <<>>}
  BY DEF Held
<1> HIDE DEF full
<1> QED BY <1>1, <1>2, <1>3 DEF CopyInv, SkbRefs, Held, CopiesStandAlone

-----------------------------------------------------------------------------
(* Thermal zones: proofs.                                                  *)

\* A remainder is the only number in its range at that distance.
LEMMA ModIs ==
    ASSUME NEW m \in Nat \ {0}, NEW q \in Int, NEW r \in 0 .. m - 1
    PROVE  (m * q + r) % m = r
BY SMT

LEMMA TempConverted == \A temp \in Ints : SameTemp(<<temp, ToLong(temp)>>)
<1> DEFINE half == 2 ^ (IntBits - 1)
           int == 2 ^ IntBits
           top == 2 ^ (2 * IntBits - 1)
           long == 2 ^ (2 * IntBits)
<1>1. /\ half \in Nat \ {0} /\ int = 2 * half /\ top = int * half /\ long = int * int
  BY WidthAssumption
<1>2. /\ top \in Nat /\ long = 2 * top /\ long \in Nat \ {0} /\ top >= half
  BY <1>1
<1> SUFFICES ASSUME NEW temp \in -half .. half - 1
             PROVE  SameTemp(<<temp, ToLong(temp)>>)
  BY DEF Ints
<1>3. ToLong(temp) = temp % long
  BY DEF ToLong
<1>4. \A l : Signed(l) = IF l >= top THEN l - long ELSE l
  BY DEF Signed
<1> HIDE DEF half, int, top, long
<1>5. CASE temp >= 0
  <2>1. (long * 0 + temp) % long = temp
    BY <1>1, <1>2, <1>5, ModIs
  <2>2. long * 0 + temp = temp
    BY <1>1, <1>2
  <2>3. ToLong(temp) = temp
    BY <1>3, <2>1, <2>2
  <2>4. Signed(ToLong(temp)) = temp
    BY <1>1, <1>2, <1>4, <1>5, <2>3
  <2> QED BY <2>4 DEF SameTemp
<1>6. CASE temp < 0
  <2>1. temp + long \in 0 .. long - 1
    BY <1>1, <1>2, <1>6
  <2>2. (long * (-1) + (temp + long)) % long = temp + long
    BY <1>1, <1>2, <2>1, ModIs
  <2>3. long * (-1) + (temp + long) = temp
    BY <1>1, <1>2
  <2>4. ToLong(temp) = temp + long
    BY <1>3, <2>2, <2>3
  <2>5. Signed(ToLong(temp)) = temp
    BY <1>1, <1>2, <1>4, <1>6, <2>4
  <2> QED BY <2>5 DEF SameTemp
<1> QED BY <1>1, <1>5, <1>6

LEMMA TempTruncated == \A temp \in Longs : SameTemp(<<ToInt(temp), temp>>)
<1> DEFINE half == 2 ^ (IntBits - 1)
           int == 2 ^ IntBits
           top == 2 ^ (2 * IntBits - 1)
           long == 2 ^ (2 * IntBits)
<1>1. /\ half \in Nat \ {0} /\ int = 2 * half /\ top = int * half /\ long = int * int
  BY WidthAssumption
<1>2. /\ int \in Nat \ {0} /\ top \in Nat /\ long = 2 * top /\ long \in Nat \ {0} /\ top >= half
  BY <1>1
<1> SUFFICES ASSUME NEW temp \in 0 .. long - 1, Signed(temp) \in -half .. half - 1
             PROVE  Signed(temp) = ToInt(temp)
  BY DEF Longs, Ints, SameTemp
<1>3. ToInt(temp) = IF temp % int >= half THEN (temp % int) - int ELSE temp % int
  BY DEF ToInt
<1>4. Signed(temp) = IF temp >= top THEN temp - long ELSE temp
  BY DEF Signed
<1> HIDE DEF half, int, top, long
<1>5. CASE temp < top
  <2>1. temp \in 0 .. half - 1
    BY <1>1, <1>2, <1>4, <1>5
  <2>2. (int * 0 + temp) % int = temp
    BY <1>1, <1>2, <2>1, ModIs
  <2>3. int * 0 + temp = temp
    BY <1>1, <1>2
  <2> QED BY <1>1, <1>2, <1>3, <1>4, <1>5, <2>1, <2>2, <2>3
<1>6. CASE temp >= top
  <2>1. temp - long \in -half .. -1
    BY <1>1, <1>2, <1>4, <1>6
  <2>2. temp - long + int \in half .. int - 1
    BY <1>1, <1>2, <2>1
  <2>3. (int * (int - 1) + (temp - long + int)) % int = temp - long + int
    <3>1. int - 1 \in Int /\ int \in Nat \ {0} /\ temp - long + int \in 0 .. int - 1
      BY <1>1, <1>2, <2>2
    <3> QED BY <3>1, ModIs
  <2>4. int * (int - 1) + (temp - long + int) = temp
    BY <1>1, <1>2
  <2>5. temp % int = temp - long + int
    BY <2>3, <2>4
  <2> QED BY <1>1, <1>2, <1>3, <1>4, <1>6, <2>1, <2>2, <2>5
<1> QED BY <1>1, <1>2, <1>5, <1>6

LEMMA ZoneStarts == zone = ThermalStart => ZoneInv
BY DEF ThermalStart, ZoneInv, ZoneType, One

\* What is left when a call of the driver's function has returned.
LEMMA CallReturned ==
    ASSUME ZoneInv, NEW c \in ZoneUsers, zone.call[c] # "none"
    PROVE  /\ DOMAIN Wrapped(c) = DOMAIN zone
           /\ Wrapped(c).pc = zone.pc /\ Wrapped(c).wrapper = zone.wrapper /\ Wrapped(c).known = zone.known
           /\ Wrapped(c).ops = zone.ops /\ Wrapped(c).frees = zone.frees /\ Wrapped(c).seen = zone.seen
           /\ Wrapped(c).call = [zone.call EXCEPT ![c] = "none"] /\ Wrapped(c).bad = FALSE
<1>1. zone.wrapper = "live" /\ zone.call[c] \in DriverOps /\ zone.bad = FALSE
  BY DEF ZoneInv, ZoneType
<1> QED BY <1>1 DEF ZoneInv, ZoneType, Wrapped

LEMMA CallKeepsInv ==
    ASSUME ZoneInv, NEW c \in ZoneUsers, zone.call[c] # "none",
           zone'.seen # <<>> => SameTemp(zone'.seen), DOMAIN zone' = DOMAIN Wrapped(c),
           \A f \in {"pc", "wrapper", "known", "ops", "call", "frees", "bad"} : zone'[f] = Wrapped(c)[f]
    PROVE  ZoneInv'
<1>1. /\ DOMAIN zone' = DOMAIN zone
      /\ zone'.pc = zone.pc /\ zone'.wrapper = zone.wrapper /\ zone'.known = zone.known
      /\ zone'.ops = zone.ops /\ zone'.frees = zone.frees
      /\ zone'.call = [zone.call EXCEPT ![c] = "none"] /\ zone'.bad = FALSE
  BY CallReturned
<1> QED BY <1>1 DEF ZoneInv, ZoneType

LEMMA ConvertedKeeps == ASSUME ZoneInv, NEW c \in ZoneUsers, zone.call[c] # "none", Converted(c) PROVE ZoneInv'
<1>1. CASE zone' = Wrapped(c)
  <2>1. zone'.seen # <<>> => SameTemp(zone'.seen)
    BY <1>1, CallReturned DEF ZoneInv
  <2> QED BY <1>1, <2>1, CallKeepsInv
<1>2. ASSUME NEW temp \in Ints, zone' = [Wrapped(c) EXCEPT !.seen = <<temp, ToLong(temp)>>] PROVE ZoneInv'
  <2>0. DOMAIN Wrapped(c) = {"pc", "wrapper", "known", "ops", "call", "frees", "seen", "bad"}
    BY CallReturned DEF ZoneInv, ZoneType
  <2>1. zone'.seen = <<temp, ToLong(temp)>> /\ DOMAIN zone' = DOMAIN Wrapped(c)
    BY <1>2, <2>0
  <2>2. \A f \in {"pc", "wrapper", "known", "ops", "call", "frees", "bad"} : zone'[f] = Wrapped(c)[f]
    BY <1>2, <2>0
  <2> QED BY <2>1, <2>2, TempConverted, CallKeepsInv
<1> QED BY <1>1, <1>2 DEF Converted

LEMMA TruncatedKeeps == ASSUME ZoneInv, NEW c \in ZoneUsers, zone.call[c] # "none", Truncated(c) PROVE ZoneInv'
<1>1. CASE zone' = Wrapped(c)
  <2>1. zone'.seen # <<>> => SameTemp(zone'.seen)
    BY <1>1, CallReturned DEF ZoneInv
  <2> QED BY <1>1, <2>1, CallKeepsInv
<1>2. ASSUME NEW temp \in Longs, zone' = [Wrapped(c) EXCEPT !.seen = <<ToInt(temp), temp>>] PROVE ZoneInv'
  <2>0. DOMAIN Wrapped(c) = {"pc", "wrapper", "known", "ops", "call", "frees", "seen", "bad"}
    BY CallReturned DEF ZoneInv, ZoneType
  <2>1. zone'.seen = <<ToInt(temp), temp>> /\ DOMAIN zone' = DOMAIN Wrapped(c)
    BY <1>2, <2>0
  <2>2. \A f \in {"pc", "wrapper", "known", "ops", "call", "frees", "bad"} : zone'[f] = Wrapped(c)[f]
    BY <1>2, <2>0
  <2> QED BY <2>1, <2>2, TempTruncated, CallKeepsInv
<1> QED BY <1>1, <1>2 DEF Truncated

LEMMA ZoneSteps == ZoneInv /\ (ThermalNext \/ UNCHANGED zone) => ZoneInv'
<1> SUFFICES ASSUME ZoneInv, ThermalNext \/ UNCHANGED zone PROVE ZoneInv'
  OBVIOUS
<1> USE DEF ZoneInv, ZoneType
<1>0. CASE UNCHANGED zone
  BY <1>0
<1>1. ASSUME backport_thermal_zone_device_register PROVE ZoneInv'
  <2>0. zone.pc = "new" /\ zone.wrapper = "none" /\ ~zone.known /\ \A c \in ZoneUsers : zone.call[c] = "none"
    BY <1>1 DEF backport_thermal_zone_device_register
  <2>1. \/ zone' = [zone EXCEPT !.pc = "failed"]
        \/ zone' = [zone EXCEPT !.pc = "register", !.wrapper = "live", !.known = TRUE, !.ops = DriverOps \cap (copy \cup assign_ops)]
    BY <1>1 DEF backport_thermal_zone_device_register
  <2>2. CASE zone' = [zone EXCEPT !.pc = "failed"]
    <3>1. /\ DOMAIN zone' = DOMAIN zone /\ zone'.wrapper = zone.wrapper /\ zone'.known = zone.known /\ zone'.ops = zone.ops /\ zone'.call = zone.call /\ zone'.frees = zone.frees /\ zone'.seen = zone.seen /\ zone'.bad = zone.bad
          /\ zone'.pc = "failed"
      BY <2>0, <2>2
    <3> QED BY <2>0, <3>1 DEF One
  <2>3. CASE zone' = [zone EXCEPT !.pc = "register", !.wrapper = "live", !.known = TRUE, !.ops = DriverOps \cap (copy \cup assign_ops)]
    <3>1. /\ DOMAIN zone' = DOMAIN zone /\ zone'.call = zone.call /\ zone'.frees = zone.frees /\ zone'.seen = zone.seen /\ zone'.bad = zone.bad
          /\ zone'.pc = "register" /\ zone'.wrapper = "live" /\ zone'.known \in BOOLEAN /\ (zone'.known <=> TRUE) /\ zone'.ops = DriverOps \cap (copy \cup assign_ops)
      BY <2>0, <2>3
    <3> QED BY <2>0, <3>1 DEF One
  <2> QED BY <2>1, <2>2, <2>3
<1>2. ASSUME RegisterReturns, zone'.pc = "done" PROVE ZoneInv'
  <2>0. zone.pc = "register"
    BY <1>2 DEF RegisterReturns
  <2>1. /\ DOMAIN zone' = DOMAIN zone /\ zone'.wrapper = zone.wrapper /\ zone'.known = zone.known /\ zone'.ops = zone.ops /\ zone'.call = zone.call /\ zone'.frees = zone.frees /\ zone'.seen = zone.seen /\ zone'.bad = zone.bad
        /\ zone'.pc = "done"
    BY <1>2, <2>0 DEF RegisterReturns
  <2> QED BY <2>0, <2>1 DEF One
<1>3. ASSUME RegisterReturns, zone'.pc # "done" PROVE ZoneInv'
  <2>0. zone.pc = "register" /\ zone.wrapper = "live" /\ zone.frees = 0 /\ \A c \in ZoneUsers : zone.call[c] = "none"
    BY <1>3 DEF RegisterReturns, One
  <2>1. \/ zone' = [zone EXCEPT !.pc = "failed", !.known = FALSE, !.wrapper = "freed", !.frees = @ + 1]
        \/ zone' = [zone EXCEPT !.pc = "error", !.known = FALSE]
    BY <1>3 DEF RegisterReturns
  <2>2. CASE zone' = [zone EXCEPT !.pc = "failed", !.known = FALSE, !.wrapper = "freed", !.frees = @ + 1]
    <3>1. /\ DOMAIN zone' = DOMAIN zone /\ zone'.ops = zone.ops /\ zone'.call = zone.call /\ zone'.seen = zone.seen /\ zone'.bad = zone.bad
          /\ zone'.pc = "failed" /\ zone'.known \in BOOLEAN /\ (zone'.known <=> FALSE) /\ zone'.wrapper = "freed" /\ zone'.frees = 1
      BY <2>0, <2>2
    <3> QED BY <2>0, <3>1 DEF One
  <2>3. CASE zone' = [zone EXCEPT !.pc = "error", !.known = FALSE]
    <3>1. /\ DOMAIN zone' = DOMAIN zone /\ zone'.wrapper = zone.wrapper /\ zone'.ops = zone.ops /\ zone'.call = zone.call /\ zone'.frees = zone.frees /\ zone'.seen = zone.seen /\ zone'.bad = zone.bad
          /\ zone'.pc = "error" /\ zone'.known \in BOOLEAN /\ (zone'.known <=> FALSE)
      BY <2>0, <2>3
    <3> QED BY <2>0, <3>1 DEF One
  <2> QED BY <2>1, <2>2, <2>3
<1>4. ASSUME NEW c \in ZoneUsers, NEW op \in zone.ops, Enter(c, op) PROVE ZoneInv'
  <2>0. zone.known /\ op # "none"
    BY <1>4 DEF Enter, copy, assign_ops
  <2>1. /\ DOMAIN zone' = DOMAIN zone /\ zone'.pc = zone.pc /\ zone'.wrapper = zone.wrapper /\ zone'.known = zone.known /\ zone'.ops = zone.ops /\ zone'.frees = zone.frees /\ zone'.seen = zone.seen /\ zone'.bad = zone.bad
        /\ zone'.call = [zone.call EXCEPT ![c] = op]
    BY <1>4 DEF Enter
  <2> QED BY <2>0, <2>1
<1>5. ASSUME NEW c \in ZoneUsers, DriversOwn(c) PROVE ZoneInv'
  <2>0. zone.call[c] # "none" /\ zone.call[c] \in DriverOps
    BY <1>5 DEF DriversOwn, copy
  <2>1. /\ DOMAIN zone' = DOMAIN zone /\ zone'.pc = zone.pc /\ zone'.wrapper = zone.wrapper /\ zone'.known = zone.known /\ zone'.ops = zone.ops /\ zone'.frees = zone.frees /\ zone'.seen = zone.seen /\ zone'.bad = zone.bad
        /\ zone'.call = [zone.call EXCEPT ![c] = "none"]
    BY <1>5, <2>0 DEF DriversOwn
  <2> QED BY <2>0, <2>1 DEF One
<1>6. ASSUME UnregisterStart PROVE ZoneInv'
  <2>0. zone.pc = "done"
    BY <1>6 DEF UnregisterStart
  <2>1. /\ DOMAIN zone' = DOMAIN zone /\ zone'.wrapper = zone.wrapper /\ zone'.ops = zone.ops /\ zone'.call = zone.call /\ zone'.frees = zone.frees /\ zone'.seen = zone.seen /\ zone'.bad = zone.bad
        /\ zone'.pc = "wait" /\ zone'.known \in BOOLEAN /\ (zone'.known <=> FALSE)
    BY <1>6, <2>0 DEF UnregisterStart
  <2> QED BY <2>0, <2>1 DEF One
<1>7. ASSUME backport_thermal_zone_device_unregister PROVE ZoneInv'
  <2>0. zone.pc = "wait" /\ zone.frees = 0 /\ \A c \in ZoneUsers : zone.call[c] = "none"
    BY <1>7 DEF backport_thermal_zone_device_unregister, One
  <2>1. /\ DOMAIN zone' = DOMAIN zone /\ zone'.known = zone.known /\ zone'.ops = zone.ops /\ zone'.call = zone.call /\ zone'.seen = zone.seen /\ zone'.bad = zone.bad
        /\ zone'.pc = "gone" /\ zone'.wrapper = "freed" /\ zone'.frees = 1
    BY <1>7, <2>0 DEF backport_thermal_zone_device_unregister
  <2> QED BY <2>0, <2>1 DEF One
<1>8. ASSUME NEW c \in ZoneUsers,
             \/ backport_thermal_get_temp(c) \/ backport_thermal_get_trip_temp(c)
             \/ backport_thermal_get_trip_hyst(c) \/ backport_thermal_get_crit_temp(c)
      PROVE  ZoneInv'
  <2>1. zone.call[c] # "none" /\ Converted(c)
    BY <1>8 DEF backport_thermal_get_temp, backport_thermal_get_trip_temp, backport_thermal_get_trip_hyst, backport_thermal_get_crit_temp
  <2> QED BY <2>1, ConvertedKeeps DEF ZoneInv
<1>9. ASSUME NEW c \in ZoneUsers,
             \/ backport_thermal_set_trip_temp(c) \/ backport_thermal_set_trip_hyst(c) \/ backport_thermal_set_emul_temp(c)
      PROVE  ZoneInv'
  <2>1. zone.call[c] # "none" /\ Truncated(c)
    BY <1>9 DEF backport_thermal_set_trip_temp, backport_thermal_set_trip_hyst, backport_thermal_set_emul_temp
  <2> QED BY <2>1, TruncatedKeeps DEF ZoneInv
<1> QED BY <1>0, <1>1, <1>2, <1>3, <1>4, <1>5, <1>6, <1>7, <1>8, <1>9 DEF ThermalNext

LEMMA ZoneSafe == ZoneInv => WrapperOutlivesCalls
BY DEF ZoneInv, ZoneType, One, SameTemp, WrapperOutlivesCalls

-----------------------------------------------------------------------------
(* Managed resources: proofs.                                              *)

LEMMA Appended ==
    ASSUME NEW S, NEW l \in Seq(S), NEW r \in S, r \notin {l[i] : i \in DOMAIN l},
           \A i, j \in DOMAIN l : l[i] = l[j] => i = j
    PROVE  /\ Append(l, r) \in Seq(S) /\ Len(Append(l, r)) = Len(l) + 1
           /\ {Append(l, r)[i] : i \in DOMAIN Append(l, r)} = {l[i] : i \in DOMAIN l} \cup {r}
           /\ \A i, j \in DOMAIN Append(l, r) : Append(l, r)[i] = Append(l, r)[j] => i = j
<1> DEFINE m == Append(l, r)
<1>1. m \in Seq(S) /\ Len(m) = Len(l) + 1 /\ DOMAIN m = 1 .. Len(l) + 1 /\ DOMAIN l = 1 .. Len(l) /\ Len(l) \in Nat
  OBVIOUS
<1>2. m[Len(l) + 1] = r /\ \A i \in 1 .. Len(l) : m[i] = l[i]
  OBVIOUS
<1> HIDE DEF m
<1>3. {m[i] : i \in DOMAIN m} = {l[i] : i \in DOMAIN l} \cup {r}
  <2>1. \A i \in DOMAIN m : m[i] \in {l[j] : j \in DOMAIN l} \cup {r}
    BY <1>1, <1>2
  <2>2. \A i \in DOMAIN l : i \in DOMAIN m /\ m[i] = l[i]
    BY <1>1, <1>2
  <2>3. Len(l) + 1 \in DOMAIN m
    BY <1>1
  <2> QED BY <1>2, <2>1, <2>2, <2>3
<1>4. \A i, j \in DOMAIN m : m[i] = m[j] => i = j
  BY <1>1, <1>2
<1> QED BY <1>1, <1>3, <1>4 DEF m

Without(l, k) == [j \in 1 .. Len(l) - 1 |-> IF j < k THEN l[j] ELSE l[j + 1]]

LEMMA Removed ==
    ASSUME NEW S, NEW l \in Seq(S), NEW k \in DOMAIN l, \A i, j \in DOMAIN l : l[i] = l[j] => i = j
    PROVE  /\ Without(l, k) \in Seq(S) /\ Len(Without(l, k)) = Len(l) - 1
           /\ {Without(l, k)[i] : i \in DOMAIN Without(l, k)} = {l[i] : i \in DOMAIN l} \ {l[k]}
           /\ \A i, j \in DOMAIN Without(l, k) : Without(l, k)[i] = Without(l, k)[j] => i = j
<1> DEFINE m == Without(l, k)
<1>1. DOMAIN l = 1 .. Len(l) /\ Len(l) \in Nat /\ Len(l) >= 1 /\ k \in 1 .. Len(l) /\ \A i \in 1 .. Len(l) : l[i] \in S
  OBVIOUS
<1>2. DOMAIN m = 1 .. Len(l) - 1 /\ \A j \in 1 .. Len(l) - 1 : m[j] = IF j < k THEN l[j] ELSE l[j + 1]
  BY <1>1 DEF Without
<1>3. m \in Seq(S) /\ Len(m) = Len(l) - 1
  <2>1. Len(l) - 1 \in Nat /\ \A j \in 1 .. Len(l) - 1 : m[j] \in S
    BY <1>1, <1>2
  <2> QED BY <1>1, <2>1 DEF Without
<1> HIDE DEF m
<1>4. {m[i] : i \in DOMAIN m} = {l[i] : i \in DOMAIN l} \ {l[k]}
  <2>1. \A j \in DOMAIN m : \E i \in DOMAIN l : m[j] = l[i] /\ i # k
    <3> SUFFICES ASSUME NEW j \in DOMAIN m PROVE \E i \in DOMAIN l : m[j] = l[i] /\ i # k
      OBVIOUS
    <3>1. CASE j < k
      BY <1>1, <1>2, <3>1
    <3>2. CASE ~(j < k)
      <4>1. m[j] = l[j + 1] /\ j + 1 \in DOMAIN l /\ j + 1 # k
        BY <1>1, <1>2, <3>2
      <4> QED BY <4>1
    <3> QED BY <3>1, <3>2
  <2>2. \A i \in DOMAIN l : i # k => \E j \in DOMAIN m : m[j] = l[i]
    <3> SUFFICES ASSUME NEW i \in DOMAIN l, i # k PROVE \E j \in DOMAIN m : m[j] = l[i]
      OBVIOUS
    <3>1. CASE i < k
      BY <1>1, <1>2, <3>1
    <3>2. CASE i > k
      <4>1. i - 1 \in DOMAIN m /\ m[i - 1] = l[i]
        BY <1>1, <1>2, <3>2
      <4> QED BY <4>1
    <3> QED BY <1>1, <3>1, <3>2
  <2> QED BY <2>1, <2>2
<1>5. \A i, j \in DOMAIN m : m[i] = m[j] => i = j
  BY <1>1, <1>2
<1> QED BY <1>3, <1>4, <1>5 DEF m

LEMMA ResStarts == res = ResStart => ResInv
BY DEF ResStart, ResInv, ResType, OneNodeEach

\* A call that fails leaves no node.
LEMMA NothingAdded ==
    ASSUME ResInv, Driver, NoNode \/ FreeTheNode
    PROVE  ResInv'
<1>1. /\ DOMAIN res' = DOMAIN res /\ res'.list = res.list /\ res'.held = res.held
      /\ res'.pc = res.pc /\ res'.bad = res.bad
  BY DEF ResInv, ResType, NoNode, FreeTheNode, devres_free, devres_alloc, Called
<1>2. res'.nodes = res.nodes
  <2>1. CASE NoNode
    BY <2>1 DEF ResInv, ResType, NoNode, Called
  <2>2. CASE FreeTheNode
    BY <2>2 DEF ResInv, ResType, FreeTheNode, devres_free, devres_alloc, Called
  <2> QED BY <2>1, <2>2
<1> QED BY <1>1, <1>2 DEF ResInv, ResType, OneNodeEach

LEMMA NodeAdded ==
    ASSUME ResInv, Driver, NEW r \in Resources, MayRegister(r), AddTheNode(r)
    PROVE  ResInv'
<1>1. res.pc = "bound" /\ OneNodeEach /\ r \notin res.held /\ res.list \in Seq(Resources)
  BY DEF ResInv, ResType, Driver, MayRegister
<1>2. /\ DOMAIN res' = DOMAIN res /\ res'.list = Append(res.list, r) /\ res'.held = res.held \cup {r}
      /\ res'.nodes = res.nodes + 1 /\ res'.pc = res.pc /\ res'.bad = res.bad
  BY DEF ResInv, ResType, AddTheNode, devres_add, Registered, devres_alloc, Called
<1>3. /\ res'.list \in Seq(Resources) /\ Len(res'.list) = Len(res.list) + 1
      /\ {res'.list[i] : i \in DOMAIN res'.list} = res'.held
      /\ \A i, j \in DOMAIN res'.list : res'.list[i] = res'.list[j] => i = j
  BY <1>1, <1>2, Appended DEF OneNodeEach
<1> QED BY <1>1, <1>2, <1>3 DEF ResInv, ResType, OneNodeEach

\* What is released is what the node that goes names.
LEMMA NodeGone ==
    ASSUME ResInv, res.pc \in {"bound", "detach"}, NEW k \in DOMAIN res.list,
           \/ res' = devres_free(Release(Unlinked(res, k), res.list[k]))
           \/ res' = Freed(devres_free(Unlinked(res, k)), res.list[k])
    PROVE  ResInv'
<1> DEFINE r == res.list[k]
<1>1. OneNodeEach /\ res.list \in Seq(Resources) /\ r \in res.held /\ r[1] \in Releases
  <2>1. OneNodeEach /\ res.list \in Seq(Resources)
    BY DEF ResInv, ResType
  <2>2. r \in Resources
    BY <2>1
  <2> QED BY <2>1, <2>2 DEF OneNodeEach, Resources
<1> DEFINE m == Without(res.list, k)
<1>2. /\ m \in Seq(Resources) /\ Len(m) = Len(res.list) - 1
      /\ {m[i] : i \in DOMAIN m} = res.held \ {r}
      /\ \A i, j \in DOMAIN m : m[i] = m[j] => i = j
  <2>1. /\ res.list \in Seq(Resources) /\ res.held = {res.list[i] : i \in DOMAIN res.list}
        /\ \A i, j \in DOMAIN res.list : res.list[i] = res.list[j] => i = j
    BY <1>1 DEF OneNodeEach
  <2>2. /\ m \in Seq(Resources) /\ Len(m) = Len(res.list) - 1
        /\ {m[i] : i \in DOMAIN m} = {res.list[i] : i \in DOMAIN res.list} \ {r}
        /\ \A i, j \in DOMAIN m : m[i] = m[j] => i = j
    BY <2>1, Removed
  <2> QED BY <2>1, <2>2
<1>3. Unlinked(res, k) = [res EXCEPT !.list = m]
  BY DEF Unlinked, Without, ResInv, ResType
<1>4. Release(Unlinked(res, k), r) = Freed(Unlinked(res, k), r)
  BY <1>1 DEF Releases, Release, devm_gpio_release, devm_regmap_release, devm_led_trigger_release, devm_hwmon_release, devm_action_release
<1>5. \/ res' = devres_free(Freed([res EXCEPT !.list = m], r))
      \/ res' = Freed(devres_free([res EXCEPT !.list = m]), r)
  BY <1>3, <1>4
<1> HIDE DEF m, r
<1>6. /\ DOMAIN res' = DOMAIN res /\ res'.list = m /\ res'.held = res.held \ {r}
      /\ res'.nodes = res.nodes - 1 /\ res'.pc = res.pc /\ res'.bad = FALSE
  BY ZenonT(60), <1>1, <1>5 DEF ResInv, ResType, devres_free, Freed
<1>7. res.nodes = Len(res.list) /\ Len(m) \in Nat
  BY <1>1, <1>2 DEF OneNodeEach
<1> QED BY <1>1, <1>2, <1>6, <1>7 DEF ResInv, ResType, OneNodeEach

LEMMA ResSteps == ResInv /\ (ResNext \/ UNCHANGED res) => ResInv'
<1> SUFFICES ASSUME ResInv, ResNext \/ UNCHANGED res PROVE ResInv'
  OBVIOUS
<1>0. CASE UNCHANGED res
  BY <1>0 DEF ResInv, ResType, OneNodeEach
<1>1. ASSUME NEW r \in DevmResources,
             \/ devm_gpio_request(r) \/ devm_gpio_request_one(r) \/ devm_regmap_init(r) \/ devm_regmap_init_i2c(r)
             \/ devm_led_trigger_register(r)
      PROVE  ResInv'
  <2>1. r \in Resources /\ Driver /\ (NoNode \/ FreeTheNode \/ (MayRegister(r) /\ AddTheNode(r)))
    BY <1>1 DEF Resources, Releases, devm_gpio_request, devm_gpio_request_one, devm_regmap_init, devm_regmap_init_i2c, devm_led_trigger_register
  <2> QED BY <2>1, NothingAdded, NodeAdded
<1>2. ASSUME NEW r \in DevmResources, devm_add_action(r) PROVE ResInv'
  <2>1. r \in Resources /\ Driver /\ (NoNode \/ (MayRegister(r) /\ AddTheNode(r)))
    BY <1>2 DEF Resources, Releases, devm_add_action
  <2> QED BY <2>1, NothingAdded, NodeAdded
<1>3. ASSUME NEW r \in DevmResources, devm_hwmon_device_register_with_groups(r) PROVE ResInv'
  <2>1. r \in Resources /\ Driver /\ MayRegister(r) /\ res.pc = "bound"
    BY <1>3 DEF Resources, Releases, devm_hwmon_device_register_with_groups, Driver
  <2>2. CASE NoNode
    BY <2>1, <2>2, NothingAdded
  <2>3. CASE res' = devres_add(Registered(devres_alloc(Called), r), r)
    BY <2>1, <2>3, NodeAdded DEF AddTheNode
  <2>4. CASE res' = [devres_alloc(Called) EXCEPT !.pc = "oops"]
    <3>1. /\ DOMAIN res' = DOMAIN res /\ res'.list = res.list /\ res'.nodes = res.nodes + 1
          /\ res'.pc = "oops" /\ res'.bad = res.bad
      BY <2>4 DEF ResInv, ResType, devres_alloc, Called
    <3> QED BY <3>1 DEF ResInv, ResType
  <2>5. Registered(devres_alloc(Called), r).pc = "bound" /\ [devres_alloc(Called) EXCEPT !.pc = "oops"].pc = "oops"
    BY <2>1 DEF ResInv, ResType, Registered, devres_alloc, Called
  <2> QED BY <1>3, <2>2, <2>3, <2>4, <2>5 DEF devm_hwmon_device_register_with_groups, hwmon_device_register_with_groups
<1>4. ASSUME NEW r \in DevmResources, res.pc = "bound" PROVE r \in res.held => Newest(r) # {}
  BY <1>4 DEF ResInv, OneNodeEach, Newest
<1>5. ASSUME NEW r, Newest(r) # {}
      PROVE  (CHOOSE i \in Newest(r) : TRUE) \in DOMAIN res.list /\ res.list[CHOOSE i \in Newest(r) : TRUE] = r
  BY <1>5 DEF Newest
<1>6. ASSUME NEW r \in DevmResources, devm_gpio_free(r) PROVE ResInv'
  <2>1. res.pc = "bound" /\ Newest(r) # {}
    BY <1>4, <1>6 DEF devm_gpio_free
  <2> DEFINE k == CHOOSE i \in Newest(r) : TRUE
  <2>2. k \in DOMAIN res.list /\ res.list[k] = r
    BY <1>5, <2>1
  <2> HIDE DEF k
  <2>3. res' = Freed(devres_free(Unlinked(res, k)), r)
    BY <1>6, <2>1 DEF devm_gpio_free, k
  <2> QED BY <2>1, <2>2, <2>3, NodeGone
<1>7. ASSUME NEW r \in DevmResources, devres_release(r) PROVE ResInv'
  <2>1. CASE Newest(r) = {}
    BY <1>0, <1>7, <2>1 DEF devres_release
  <2>2. CASE Newest(r) # {}
    <3> DEFINE k == CHOOSE i \in Newest(r) : TRUE
    <3>1. k \in DOMAIN res.list /\ res.list[k] = r
      BY <1>5, <2>2
    <3> HIDE DEF k
    <3>2. res.pc = "bound" /\ res' = devres_free(Release(Unlinked(res, k), r))
      BY <1>7, <2>2 DEF devres_release, k
    <3> QED BY <3>1, <3>2, NodeGone
  <2> QED BY <2>1, <2>2
<1>8. ASSUME Detach PROVE ResInv'
  <2>1. /\ DOMAIN res' = DOMAIN res /\ res'.list = res.list /\ res'.nodes = res.nodes /\ res'.held = res.held
        /\ res'.pc = "detach" /\ res'.bad = res.bad /\ res.pc = "bound"
    BY <1>8 DEF Detach, ResInv, ResType
  <2> QED BY <2>1 DEF ResInv, ResType, OneNodeEach
<1>9. ASSUME devres_release_all PROVE ResInv'
  <2>1. CASE res.list = <<>>
    <3>1. /\ DOMAIN res' = DOMAIN res /\ res'.list = res.list /\ res'.nodes = res.nodes /\ res'.held = res.held
          /\ res'.pc = "gone" /\ res'.bad = res.bad /\ res.pc = "detach"
      BY <1>9, <2>1 DEF devres_release_all, ResInv, ResType
    <3> QED BY <2>1, <3>1 DEF ResInv, ResType, OneNodeEach
  <2>2. CASE res.list # <<>>
    <3>1. Len(res.list) \in DOMAIN res.list
      BY <2>2 DEF ResInv, ResType
    <3> QED BY <1>9, <2>2, <3>1, NodeGone DEF devres_release_all
  <2> QED BY <2>1, <2>2
<1> QED BY <1>0, <1>1, <1>2, <1>3, <1>6, <1>7, <1>8, <1>9 DEF ResNext

LEMMA ResSafe == ResInv => DevresReleasedOnce
<1> SUFFICES ASSUME ResInv PROVE DevresReleasedOnce
  OBVIOUS
<1>1. res.pc = "gone" => res.held = {} /\ res.nodes = 0
  <2> SUFFICES ASSUME res.pc = "gone" PROVE res.held = {} /\ res.nodes = 0
    OBVIOUS
  <2>1. res.list = <<>> /\ OneNodeEach
    BY DEF ResInv
  <2>2. DOMAIN res.list = {} /\ Len(res.list) = 0
    BY <2>1
  <2> QED BY <2>1, <2>2 DEF OneNodeEach
<1> QED BY <1>1 DEF ResInv, ResType, OneNodeEach, DevresReleasedOnce

-----------------------------------------------------------------------------
(* Workqueue names: proofs.                                                *)

LEMMA Prepended ==
    ASSUME NEW S, NEW l \in Seq(S), NEW x \in S, x \notin {l[i] : i \in DOMAIN l}, \A i, j \in DOMAIN l : l[i] = l[j] => i = j
    PROVE  /\ <<x>> \o l \in Seq(S)
           /\ {(<<x>> \o l)[i] : i \in DOMAIN (<<x>> \o l)} = {l[i] : i \in DOMAIN l} \cup {x}
           /\ \A i, j \in DOMAIN (<<x>> \o l) : (<<x>> \o l)[i] = (<<x>> \o l)[j] => i = j
<1> DEFINE m == <<x>> \o l
<1>1. DOMAIN l = 1 .. Len(l) /\ Len(l) \in Nat
  OBVIOUS
<1>2. m \in Seq(S) /\ Len(m) = Len(l) + 1 /\ m[1] = x /\ \A i \in 1 .. Len(l) : m[i + 1] = l[i]
  OBVIOUS
<1>3. DOMAIN m = 1 .. Len(l) + 1
  BY <1>2
<1> HIDE DEF m
<1>4. \A i \in DOMAIN m : i = 1 \/ (i - 1 \in DOMAIN l /\ m[i] = l[i - 1])
  <2> SUFFICES ASSUME NEW i \in DOMAIN m, i # 1 PROVE i - 1 \in DOMAIN l /\ m[i] = l[i - 1]
    OBVIOUS
  <2>1. i - 1 \in 1 .. Len(l) /\ (i - 1) + 1 = i
    BY <1>1, <1>3
  <2>2. m[(i - 1) + 1] = l[i - 1]
    BY <1>2, <2>1
  <2> QED BY <1>1, <2>1, <2>2
<1>5. {m[i] : i \in DOMAIN m} = {l[i] : i \in DOMAIN l} \cup {x}
  <2>1. \A i \in DOMAIN m : m[i] = x \/ \E j \in DOMAIN l : m[i] = l[j]
    BY <1>2, <1>4
  <2>2. \A j \in DOMAIN l : j + 1 \in DOMAIN m /\ m[j + 1] = l[j]
    BY <1>1, <1>2, <1>3
  <2>3. 1 \in DOMAIN m /\ m[1] = x
    BY <1>1, <1>2, <1>3
  <2> QED BY <2>1, <2>2, <2>3
<1>6. \A i, j \in DOMAIN m : m[i] = m[j] => i = j
  <2> SUFFICES ASSUME NEW i \in DOMAIN m, NEW j \in DOMAIN m, m[i] = m[j] PROVE i = j
    OBVIOUS
  <2>1. i \in Nat /\ j \in Nat
    BY <1>1, <1>3
  <2>2. CASE i = 1 \/ j = 1
    BY <1>2, <1>4, <2>2
  <2>3. CASE i # 1 /\ j # 1
    <3>1. i - 1 = j - 1
      BY <1>4, <2>3
    <3> QED BY <2>1, <3>1
  <2> QED BY <2>2, <2>3
<1> QED BY <1>2, <1>5, <1>6 DEF m

LEMMA RemovedAt ==
    ASSUME NEW S, NEW l \in Seq(S), NEW k \in DOMAIN l
    PROVE  WQ!RemoveAt(l, k) = Without(l, k)
<1> DEFINE a == SubSeq(l, 1, k - 1)
           b == SubSeq(l, k + 1, Len(l))
<1>1. k \in 1 .. Len(l) /\ Len(l) \in Nat
  OBVIOUS
<1>2. a \in Seq(S) /\ Len(a) = k - 1 /\ \A i \in 1 .. k - 1 : a[i] = l[i]
  BY <1>1
<1>3. b \in Seq(S) /\ Len(b) = Len(l) - k /\ \A i \in 1 .. Len(l) - k : b[i] = l[i + k]
  BY <1>1
<1> HIDE DEF a, b
<1>4. a \o b \in Seq(S) /\ Len(a \o b) = Len(l) - 1
  BY <1>1, <1>2, <1>3
<1>5. \A i \in 1 .. Len(l) - 1 : (a \o b)[i] = Without(l, k)[i]
  <2> SUFFICES ASSUME NEW i \in 1 .. Len(l) - 1 PROVE (a \o b)[i] = Without(l, k)[i]
    OBVIOUS
  <2>1. CASE i < k
    BY <1>1, <1>2, <1>3, <2>1 DEF Without
  <2>2. CASE ~(i < k)
    <3>1. i - (k - 1) \in 1 .. Len(l) - k /\ (i - (k - 1)) + k = i + 1
      BY <1>1, <2>2
    <3>2. (a \o b)[i] = b[i - (k - 1)]
      <4>1. a \in Seq(S) /\ b \in Seq(S) /\ Len(a) = k - 1 /\ Len(b) = Len(l) - k
        BY <1>2, <1>3
      <4>2. i \in 1 .. Len(a) + Len(b) /\ ~(i <= Len(a))
        BY ONLY <1>1, <2>2, <4>1, i \in 1 .. Len(l) - 1
      <4>3. \A j \in 1 .. Len(a) + Len(b) : (a \o b)[j] = IF j <= Len(a) THEN a[j] ELSE b[j - Len(a)]
        BY ONLY <4>1, ConcatProperties, Zenon
      <4>4. (a \o b)[i] = b[i - Len(a)]
        BY ONLY <4>2, <4>3, Zenon
      <4> QED BY <4>1, <4>4, Zenon
    <3> QED BY <1>3, <2>2, <3>1, <3>2 DEF Without
  <2> QED BY <2>1, <2>2
<1>6. DOMAIN Without(l, k) = 1 .. Len(l) - 1
  BY DEF Without
<1>7. Without(l, k) \in Seq(S) /\ Len(Without(l, k)) = Len(l) - 1
  <2>1. Len(l) - 1 \in Nat /\ \A i \in 1 .. Len(l) - 1 : Without(l, k)[i] \in S
    BY <1>1 DEF Without
  <2> QED BY <1>6, <2>1 DEF Without
<1>8. a \o b = Without(l, k)
  BY <1>4, <1>5, <1>7, SeqEqual
<1> QED BY <1>8 DEF WQ!RemoveAt, a, b

\* An entry is counted once, since it is linked once.
LEMMA Counted ==
    ASSUME WqInv, NEW a \in Addrs
    PROVE  Cardinality(WQ!Matches(a)) = Cardinality(EntriesOf(a)) /\ (EntriesOf(a) # {} => WQ!Matches(a) # {})
<1> DEFINE M == WQ!Matches(a)
           f == [i \in M |-> list[i]]
<1>1. \A i, j \in DOMAIN list : list[i] = list[j] => i = j
  BY DEF WqInv, NamesInv
<1>2. IsFiniteSet(EntriesOf(a))
  BY DEF WqInv, EntriesInv
<1>3. f \in [M -> EntriesOf(a)]
  BY DEF WQ!Matches, EntriesOf, Listed
<1>4. \A i, j \in M : f[i] = f[j] => i = j
  BY <1>1 DEF WQ!Matches
<1>5. \A e \in EntriesOf(a) : \E i \in M : f[i] = e
  BY DEF WQ!Matches, EntriesOf, Listed
<1>6. f \in Injection(M, EntriesOf(a)) /\ f \in Surjection(M, EntriesOf(a))
  BY <1>3, <1>4, <1>5 DEF Injection, Surjection, IsInjective
<1> HIDE DEF M, f
<1>7. IsFiniteSet(M) /\ Cardinality(M) = Cardinality(EntriesOf(a))
  BY <1>2, <1>6, FS_Injection
<1> QED BY <1>5, <1>7 DEF M

LEMMA WqStarts == WQ!Init => WqInv
<1> SUFFICES ASSUME WQ!Init PROVE WqInv
  OBVIOUS
<1> USE DEF WQ!Init
<1>1. WQ!TypeOK
  BY DEF WQ!TypeOK
<1>2. Listed = {} /\ {n[t] : t \in {u \in Tasks : n[u] # Null}} = {}
  BY DEF Listed
<1>3. NamesInv
  BY <1>2 DEF NamesInv, Named
<1>4. QueuesInv
  BY DEF QueuesInv
<1>5. \A a : EntriesOf(a) = {} /\ WQ!Scanning(a) = {}
  BY <1>2 DEF EntriesOf, WQ!Scanning
<1>6. IsFiniteSet({}) /\ Cardinality({}) = 0
  BY FS_EmptySet
<1>7. EntriesInv
  <2> SUFFICES ASSUME NEW a \in Addrs
               PROVE  /\ IsFiniteSet(WQ!Scanning(a)) /\ IsFiniteSet(EntriesOf(a))
                      /\ Cardinality(EntriesOf(a)) = Cardinality(WQ!Scanning(a)) + One(a \in users)
    BY DEF EntriesInv
  <2>1. EntriesOf(a) = {} /\ WQ!Scanning(a) = {} /\ One(a \in users) = 0
    BY <1>5 DEF One
  <2> QED BY <1>6, <2>1
<1> QED BY <1>1, <1>3, <1>4, <1>7 DEF WqInv

\* A step that changes neither the entries nor who looks for one.
LEMMA EntriesKept ==
    ASSUME WqInv, users' = users, list' = list, \A e \in Listed : key'[e] = key[e],
           \A a : WQ!Scanning(a)' = WQ!Scanning(a)
    PROVE  Listed' = Listed /\ EntriesInv'
<1>1. Listed' = Listed
  BY DEF Listed
<1>2. \A a : EntriesOf(a)' = EntriesOf(a)
  BY <1>1 DEF EntriesOf
<1> QED BY <1>1, <1>2 DEF WqInv, EntriesInv

LEMMA NameAllocated == ASSUME WqInv, NEW t \in Tasks, WQ!AllocName(t) PROVE WqInv'
<1> USE DEF WqInv
<1>1. wqpc[t] = "idle" /\ wqpc' = [wqpc EXCEPT ![t] = "alloc"] /\ UNCHANGED <<list, wqs, users, wq>>
  BY DEF WQ!AllocName
<1>2. PICK e \in Names \ heap : heap' = heap \cup {e} /\ key' = [key EXCEPT ![e] = Null] /\ n' = [n EXCEPT ![t] = e]
  BY DEF WQ!AllocName
<1>3. e # Null /\ e \notin Listed /\ \A u \in Tasks : n[u] # e
  BY <1>2, CompatAssumption DEF NamesInv
<1>4. n[t] = Null
  BY <1>1 DEF NamesInv, Named
<1>5. WQ!TypeOK'
  BY <1>1, <1>2 DEF WQ!TypeOK
<1>6. Listed' = Listed /\ EntriesInv'
  <2>1. \A a : WQ!Scanning(a)' = WQ!Scanning(a)
    BY <1>1 DEF WQ!Scanning, WQ!TypeOK
  <2>2. \A f \in Listed : key'[f] = key[f]
    BY <1>2, <1>3 DEF WQ!TypeOK
  <2> QED BY <1>1, <2>1, <2>2, EntriesKept
<1>7. NamesInv'
  <2>1. heap' = Listed' \cup {n'[u] : u \in {v \in Tasks : n'[v] # Null}}
    <3>1. {n'[u] : u \in {v \in Tasks : n'[v] # Null}} = {n[u] : u \in {v \in Tasks : n[v] # Null}} \cup {e}
      BY <1>2, <1>3, <1>4 DEF WQ!TypeOK
    <3> QED BY <1>2, <1>6, <3>1 DEF NamesInv
  <2>2. \A u \in Tasks : n'[u] # Null <=> Named(u)'
    BY <1>1, <1>2, <1>3 DEF NamesInv, Named, WQ!TypeOK
  <2>3. \A u \in Tasks : Named(u)' => n'[u] \notin Listed'
    BY <1>1, <1>2, <1>3, <1>6 DEF NamesInv, Named, WQ!TypeOK
  <2>4. \A u, v \in Tasks : Named(u)' /\ Named(v)' /\ n'[u] = n'[v] => u = v
    BY <1>1, <1>2, <1>3 DEF NamesInv, Named, WQ!TypeOK
  <2>5. \A i, j \in DOMAIN list' : list'[i] = list'[j] => i = j
    BY <1>1 DEF NamesInv
  <2> QED BY <2>1, <2>2, <2>3, <2>4, <2>5 DEF NamesInv
<1>8. QueuesInv'
  BY <1>1, <1>2 DEF QueuesInv, WQ!TypeOK
<1> QED BY <1>5, <1>6, <1>7, <1>8

LEMMA QueueAllocated == ASSUME WqInv, NEW t \in Tasks, WQ!AllocWorkqueue(t) PROVE WqInv'
<1> USE DEF WqInv
<1>1. wqpc[t] = "alloc" /\ wqpc' = [wqpc EXCEPT ![t] = "add"] /\ UNCHANGED <<heap, key, list, users, n>>
  BY DEF WQ!AllocWorkqueue
<1>2. PICK a \in Addrs : wqs[a] = Null /\ wqs' = [wqs EXCEPT ![a] = n[t]] /\ wq' = [wq EXCEPT ![t] = a]
  BY DEF WQ!AllocWorkqueue
<1>3. n[t] # Null /\ n[t] \in Names
  BY <1>1 DEF NamesInv, Named, WQ!TypeOK
<1>4. a \notin users /\ \A u \in Tasks : wqpc[u] = "add" => wq[u] # a
  <2>1. \A u \in Tasks : wqpc[u] = "add" => n[u] # Null
    BY DEF NamesInv, Named
  <2> QED BY <1>2, <2>1 DEF QueuesInv
<1>5. WQ!TypeOK'
  BY <1>1, <1>2, <1>3 DEF WQ!TypeOK
<1>6. Listed' = Listed /\ EntriesInv'
  <2>1. \A b : WQ!Scanning(b)' = WQ!Scanning(b)
    BY <1>1, <1>2 DEF WQ!Scanning, WQ!TypeOK
  <2> QED BY <1>1, <2>1, EntriesKept
<1>7. NamesInv'
  <2>1. \A u \in Tasks : Named(u)' <=> Named(u)
    BY <1>1 DEF Named, WQ!TypeOK
  <2> QED BY <1>1, <1>6, <2>1 DEF NamesInv
<1>8. QueuesInv'
  <2>1. \A u \in Tasks : wqpc'[u] \in {"add", "scan"} => wq'[u] \in Addrs
    BY <1>1, <1>2 DEF QueuesInv, WQ!TypeOK
  <2>2. \A u \in Tasks : wqpc'[u] = "add" => wqs'[wq'[u]] = n'[u] /\ wq'[u] \notin users'
    BY <1>1, <1>2, <1>4 DEF QueuesInv, WQ!TypeOK
  <2>3. \A b \in users' : wqs'[b] # Null
    BY <1>1, <1>2, <1>4 DEF QueuesInv, WQ!TypeOK
  <2>4. \A u, v \in Tasks : wqpc'[u] = "add" /\ wqpc'[v] = "add" /\ wq'[u] = wq'[v] => u = v
    BY <1>1, <1>2, <1>4 DEF QueuesInv, WQ!TypeOK
  <2> QED BY <2>1, <2>2, <2>3, <2>4 DEF QueuesInv
<1> QED BY <1>5, <1>6, <1>7, <1>8

\* A name that no call keeps any longer.
LEMMA NamesLess ==
    ASSUME WqInv, NEW t \in Tasks, Named(t), n' = [n EXCEPT ![t] = Null]
    PROVE  {n'[u] : u \in {v \in Tasks : n'[v] # Null}} = {n[u] : u \in {v \in Tasks : n[v] # Null}} \ {n[t]}
<1>1. \A u \in Tasks : n[u] # Null /\ n[u] = n[t] => u = t
  BY DEF WqInv, NamesInv
<1>2. n[t] # Null /\ n'[t] = Null /\ \A u \in Tasks : u # t => n'[u] = n[u]
  BY DEF WqInv, NamesInv, WQ!TypeOK
<1> QED BY <1>1, <1>2

LEMMA NameFreed == ASSUME WqInv, NEW t \in Tasks, WQ!AllocFails(t) PROVE WqInv'
<1> USE DEF WqInv
<1>1. /\ wqpc[t] = "alloc" /\ wqpc' = [wqpc EXCEPT ![t] = "idle"] /\ UNCHANGED <<key, list, wqs, users, wq>>
      /\ heap' = heap \ {n[t]} /\ n' = [n EXCEPT ![t] = Null]
  BY DEF WQ!AllocFails
<1>2. Named(t) /\ n[t] # Null /\ n[t] \notin Listed
  BY <1>1 DEF NamesInv, Named
<1>3. WQ!TypeOK'
  BY <1>1 DEF WQ!TypeOK
<1>4. Listed' = Listed /\ EntriesInv'
  <2>1. \A b : WQ!Scanning(b)' = WQ!Scanning(b)
    BY <1>1 DEF WQ!Scanning, WQ!TypeOK
  <2> QED BY <1>1, <2>1, EntriesKept
<1>5. \A u \in Tasks : (Named(u)' <=> Named(u) /\ u # t) /\ (u # t => n'[u] = n[u]) /\ n'[t] = Null
  BY <1>1 DEF Named, WQ!TypeOK
<1>6. NamesInv'
  <2>1. heap' = Listed' \cup {n'[u] : u \in {v \in Tasks : n'[v] # Null}}
    BY <1>1, <1>2, <1>4, NamesLess DEF NamesInv
  <2> QED BY <1>1, <1>4, <1>5, <2>1 DEF NamesInv
<1>7. QueuesInv'
  BY <1>1, <1>5 DEF QueuesInv, WQ!TypeOK
<1> QED BY <1>3, <1>4, <1>6, <1>7

LEMMA NameAdded == ASSUME WqInv, NEW t \in Tasks, WQ!AddName(t) PROVE WqInv'
<1> USE DEF WqInv
<1> DEFINE a == wq[t]
           e == n[t]
<1>1. /\ wqpc[t] = "add" /\ wqpc' = [wqpc EXCEPT ![t] = "idle"] /\ UNCHANGED <<heap, wqs>>
      /\ key' = [key EXCEPT ![e] = a] /\ list' = <<e>> \o list /\ users' = users \cup {a}
      /\ n' = [n EXCEPT ![t] = Null] /\ wq' = [wq EXCEPT ![t] = Null]
  BY DEF WQ!AddName
<1>2. Named(t) /\ e # Null /\ e \in Names /\ e \notin Listed
  BY <1>1 DEF NamesInv, Named, WQ!TypeOK
<1>3. a \in Addrs /\ wqs[a] = e /\ a \notin users
  BY <1>1 DEF QueuesInv
<1>4. /\ list' \in Seq(Names) /\ Listed' = Listed \cup {e}
      /\ \A i, j \in DOMAIN list' : list'[i] = list'[j] => i = j
  <2>1. /\ list \in Seq(Names) /\ e \in Names /\ e \notin {list[i] : i \in DOMAIN list}
        /\ \A i, j \in DOMAIN list : list[i] = list[j] => i = j
    BY <1>2 DEF WQ!TypeOK, NamesInv, Listed
  <2> HIDE DEF e
  <2>2. /\ <<e>> \o list \in Seq(Names)
        /\ {(<<e>> \o list)[i] : i \in DOMAIN (<<e>> \o list)} = {list[i] : i \in DOMAIN list} \cup {e}
        /\ \A i, j \in DOMAIN (<<e>> \o list) : (<<e>> \o list)[i] = (<<e>> \o list)[j] => i = j
    BY <2>1, Prepended
  <2> QED BY <1>1, <2>2 DEF Listed
<1>5. \A u \in Tasks : (Named(u)' <=> Named(u) /\ u # t) /\ (u # t => n'[u] = n[u] /\ wq'[u] = wq[u] /\ wqpc'[u] = wqpc[u])
  BY <1>1 DEF Named, WQ!TypeOK
<1>6. wqpc'[t] = "idle" /\ n'[t] = Null
  BY <1>1 DEF WQ!TypeOK
<1>7. WQ!TypeOK'
  BY <1>1, <1>2, <1>3, <1>4 DEF WQ!TypeOK
<1>8. NamesInv'
  <2>1. heap' = Listed' \cup {n'[u] : u \in {v \in Tasks : n'[v] # Null}}
    <3>1. e \in {n[u] : u \in {v \in Tasks : n[v] # Null}}
      BY <1>2
    <3> QED BY <1>1, <1>2, <1>4, <3>1, NamesLess DEF NamesInv
  <2>2. \A u \in Tasks : Named(u)' => n'[u] \notin Listed'
    BY <1>2, <1>4, <1>5 DEF NamesInv
  <2> QED BY <1>4, <1>5, <1>6, <2>1, <2>2 DEF NamesInv
<1>9. QueuesInv'
  <2>1. \A u \in Tasks : wqpc'[u] \in {"add", "scan"} => wq'[u] \in Addrs
    BY <1>5, <1>6 DEF QueuesInv
  <2>2. \A u \in Tasks : wqpc'[u] = "add" => wqs'[wq'[u]] = n'[u] /\ wq'[u] \notin users'
    BY <1>1, <1>5, <1>6 DEF QueuesInv
  <2>3. \A b \in users' : wqs'[b] # Null
    BY <1>1, <1>2, <1>3 DEF QueuesInv
  <2>4. \A u, v \in Tasks : wqpc'[u] = "add" /\ wqpc'[v] = "add" /\ wq'[u] = wq'[v] => u = v
    BY <1>5, <1>6 DEF QueuesInv
  <2> QED BY <2>1, <2>2, <2>3, <2>4 DEF QueuesInv
<1>10. EntriesInv'
  <2> SUFFICES ASSUME NEW b \in Addrs
               PROVE  /\ IsFiniteSet(WQ!Scanning(b)') /\ IsFiniteSet(EntriesOf(b)')
                      /\ Cardinality(EntriesOf(b)') = Cardinality(WQ!Scanning(b)') + One(b \in users')
    BY DEF EntriesInv
  <2>0. /\ IsFiniteSet(WQ!Scanning(b)) /\ IsFiniteSet(EntriesOf(b))
        /\ Cardinality(EntriesOf(b)) = Cardinality(WQ!Scanning(b)) + One(b \in users)
    BY DEF EntriesInv
  <2>1. WQ!Scanning(b)' = WQ!Scanning(b)
    BY <1>1, <1>5, <1>6 DEF WQ!Scanning
  <2>2. key'[e] = a /\ \A f \in Listed : key'[f] = key[f]
    BY <1>1, <1>2 DEF WQ!TypeOK
  <2>3. CASE b = a
    <3>1. EntriesOf(b)' = EntriesOf(b) \cup {e} /\ e \notin EntriesOf(b)
      BY <1>2, <1>4, <2>2, <2>3 DEF EntriesOf
    <3>2. IsFiniteSet(EntriesOf(b)') /\ Cardinality(EntriesOf(b)') = Cardinality(EntriesOf(b)) + 1
      BY <2>0, <3>1, FS_AddElement
    <3>3. One(b \in users) = 0 /\ One(b \in users') = 1
      BY <1>1, <1>3, <2>3 DEF One
    <3>4. Cardinality(WQ!Scanning(b)) \in Nat
      BY <2>0, FS_CardinalityType
    <3> QED BY <2>0, <2>1, <3>2, <3>3, <3>4
  <2>4. CASE b # a
    <3>1. EntriesOf(b)' = EntriesOf(b) /\ (b \in users' <=> b \in users)
      BY <1>1, <1>4, <2>2, <2>4 DEF EntriesOf
    <3> QED BY <2>0, <2>1, <3>1 DEF One
  <2> QED BY <2>3, <2>4
<1> QED BY <1>7, <1>8, <1>9, <1>10

LEMMA QueueDestroyed == ASSUME WqInv, NEW t \in Tasks, WQ!DestroyWorkqueue(t) PROVE WqInv'
<1> USE DEF WqInv
<1>1. wqpc[t] = "idle" /\ wqpc' = [wqpc EXCEPT ![t] = "scan"] /\ UNCHANGED <<heap, key, list, n>>
  BY DEF WQ!DestroyWorkqueue
<1>2. PICK a \in users : users' = users \ {a} /\ wqs' = [wqs EXCEPT ![a] = Null] /\ wq' = [wq EXCEPT ![t] = a]
  BY DEF WQ!DestroyWorkqueue
<1>3. a \in Addrs /\ \A u \in Tasks : wqpc[u] = "add" => wq[u] # a
  BY <1>2 DEF QueuesInv, WQ!TypeOK
<1>4. \A u \in Tasks : u # t => wq'[u] = wq[u] /\ wqpc'[u] = wqpc[u]
  BY <1>1, <1>2 DEF WQ!TypeOK
<1>5. wqpc'[t] = "scan" /\ wq'[t] = a
  BY <1>1, <1>2 DEF WQ!TypeOK
<1>6. WQ!TypeOK'
  BY <1>1, <1>2, <1>3 DEF WQ!TypeOK
<1>7. Listed' = Listed /\ \A b : EntriesOf(b)' = EntriesOf(b)
  BY <1>1 DEF Listed, EntriesOf
<1>8. NamesInv'
  <2>1. \A u \in Tasks : Named(u)' <=> Named(u)
    BY <1>1, <1>4, <1>5 DEF Named
  <2> QED BY <1>1, <1>7, <2>1 DEF NamesInv
<1>9. QueuesInv'
  <2>1. \A u \in Tasks : wqpc'[u] \in {"add", "scan"} => wq'[u] \in Addrs
    BY <1>3, <1>4, <1>5 DEF QueuesInv
  <2>2. \A u \in Tasks : wqpc'[u] = "add" => wqs'[wq'[u]] = n'[u] /\ wq'[u] \notin users'
    BY <1>1, <1>2, <1>3, <1>4, <1>5 DEF QueuesInv, WQ!TypeOK
  <2>3. \A b \in users' : wqs'[b] # Null
    BY <1>2 DEF QueuesInv, WQ!TypeOK
  <2>4. \A u, v \in Tasks : wqpc'[u] = "add" /\ wqpc'[v] = "add" /\ wq'[u] = wq'[v] => u = v
    BY <1>4, <1>5 DEF QueuesInv
  <2> QED BY <2>1, <2>2, <2>3, <2>4 DEF QueuesInv
<1>10. EntriesInv'
  <2> SUFFICES ASSUME NEW b \in Addrs
               PROVE  /\ IsFiniteSet(WQ!Scanning(b)') /\ IsFiniteSet(EntriesOf(b)')
                      /\ Cardinality(EntriesOf(b)') = Cardinality(WQ!Scanning(b)') + One(b \in users')
    BY DEF EntriesInv
  <2>0. /\ IsFiniteSet(WQ!Scanning(b)) /\ IsFiniteSet(EntriesOf(b))
        /\ Cardinality(EntriesOf(b)) = Cardinality(WQ!Scanning(b)) + One(b \in users)
    BY DEF EntriesInv
  <2>1. CASE b = a
    <3>1. WQ!Scanning(b)' = WQ!Scanning(b) \cup {t} /\ t \notin WQ!Scanning(b)
      BY <1>1, <1>4, <1>5, <2>1 DEF WQ!Scanning
    <3>2. IsFiniteSet(WQ!Scanning(b)') /\ Cardinality(WQ!Scanning(b)') = Cardinality(WQ!Scanning(b)) + 1
      BY <2>0, <3>1, FS_AddElement
    <3>3. One(b \in users) = 1 /\ One(b \in users') = 0
      BY <1>2, <2>1 DEF One
    <3>4. Cardinality(WQ!Scanning(b)) \in Nat
      BY <2>0, FS_CardinalityType
    <3> QED BY <1>7, <2>0, <3>2, <3>3, <3>4
  <2>2. CASE b # a
    <3>1. WQ!Scanning(b)' = WQ!Scanning(b) /\ (b \in users' <=> b \in users)
      BY <1>1, <1>2, <1>4, <1>5, <2>2 DEF WQ!Scanning
    <3> QED BY <1>7, <2>0, <3>1 DEF One
  <2> QED BY <2>1, <2>2
<1> QED BY <1>6, <1>8, <1>9, <1>10

LEMMA Least == ASSUME NEW T \in SUBSET Nat, T # {} PROVE \E i \in T : \A j \in T : i <= j
<1>1. \E i \in T : \A j \in T : <<j, i>> \notin OpToRel(<, Nat)
  BY NatLessThanWellFounded, WFMin
<1>2. \A i, j \in Nat : <<j, i>> \notin OpToRel(<, Nat) => i <= j
  BY DEF OpToRel
<1> QED BY <1>1, <1>2

LEMMA NameRemoved == ASSUME WqInv, NEW t \in Tasks, WQ!RemoveName(t) PROVE WqInv'
<1> USE DEF WqInv
<1> DEFINE a == wq[t]
<1>1. /\ wqpc[t] = "scan" /\ wqpc' = [wqpc EXCEPT ![t] = "idle"] /\ UNCHANGED <<key, wqs, users, n>>
      /\ wq' = [wq EXCEPT ![t] = Null]
  BY DEF WQ!RemoveName
<1>2. a \in Addrs /\ t \in WQ!Scanning(a)
  BY <1>1 DEF QueuesInv, WQ!Scanning
<1>3. \A u \in Tasks : u # t => wq'[u] = wq[u] /\ wqpc'[u] = wqpc[u]
  BY <1>1 DEF WQ!TypeOK
<1>4. wqpc'[t] = "idle"
  BY <1>1 DEF WQ!TypeOK
<1>5. WQ!Matches(a) # {}
  <2>1. /\ IsFiniteSet(WQ!Scanning(a)) /\ IsFiniteSet(EntriesOf(a))
        /\ Cardinality(EntriesOf(a)) = Cardinality(WQ!Scanning(a)) + One(a \in users)
    BY <1>2 DEF EntriesInv
  <2>2. Cardinality(WQ!Scanning(a)) \in Nat /\ Cardinality(WQ!Scanning(a)) # 0
    BY <1>2, <2>1, FS_CardinalityType, FS_EmptySet
  <2>3. Cardinality(EntriesOf(a)) # 0
    BY <2>1, <2>2 DEF One
  <2>4. EntriesOf(a) # {}
    BY <2>3, FS_EmptySet
  <2> QED BY <1>2, <2>4, Counted
<1>6. PICK i \in DOMAIN list : key[list[i]] = a /\ list' = WQ!RemoveAt(list, i) /\ heap' = heap \ {list[i]}
  <2> DEFINE least == CHOOSE j \in WQ!Matches(a) : \A k \in WQ!Matches(a) : j <= k
  <2>1. WQ!Matches(a) \in SUBSET Nat
    BY DEF WQ!Matches, WQ!TypeOK
  <2>2. \E j \in WQ!Matches(a) : \A k \in WQ!Matches(a) : j <= k
    BY <1>5, <2>1, Least
  <2>3. least \in WQ!Matches(a)
    BY <2>2
  <2>4. list' = WQ!RemoveAt(list, least) /\ heap' = heap \ {list[least]}
    BY <1>5 DEF WQ!RemoveName
  <2> HIDE DEF least
  <2> QED BY <2>3, <2>4 DEF WQ!Matches
<1> DEFINE e == list[i]
<1>7. /\ list' \in Seq(Names) /\ Listed' = Listed \ {e}
      /\ \A j, k \in DOMAIN list' : list'[j] = list'[k] => j = k
  <2>1. list \in Seq(Names) /\ \A j, k \in DOMAIN list : list[j] = list[k] => j = k
    BY DEF WQ!TypeOK, NamesInv
  <2>2. list' = Without(list, i)
    BY <1>6, <2>1, RemovedAt
  <2>3. /\ Without(list, i) \in Seq(Names)
        /\ {Without(list, i)[j] : j \in DOMAIN Without(list, i)} = {list[j] : j \in DOMAIN list} \ {list[i]}
        /\ \A j, k \in DOMAIN Without(list, i) : Without(list, i)[j] = Without(list, i)[k] => j = k
    BY <2>1, Removed
  <2> QED BY <2>2, <2>3 DEF Listed
<1>8. e \in Listed /\ key[e] = a /\ heap' = heap \ {e}
  BY <1>6 DEF Listed
<1> HIDE DEF e
<1>9. WQ!TypeOK'
  BY <1>1, <1>7, <1>8 DEF WQ!TypeOK
<1>10. NamesInv'
  <2>1. \A u \in Tasks : Named(u)' <=> Named(u)
    BY <1>1, <1>3, <1>4 DEF Named
  <2>2. heap' = Listed' \cup {n'[u] : u \in {v \in Tasks : n'[v] # Null}}
    <3>1. e \notin {n[u] : u \in {v \in Tasks : n[v] # Null}}
      BY <1>8 DEF NamesInv
    <3> QED BY <1>1, <1>7, <1>8, <3>1 DEF NamesInv
  <2> QED BY <1>1, <1>7, <2>1, <2>2 DEF NamesInv
<1>11. QueuesInv'
  BY <1>1, <1>3, <1>4 DEF QueuesInv
<1>12. EntriesInv'
  <2> SUFFICES ASSUME NEW b \in Addrs
               PROVE  /\ IsFiniteSet(WQ!Scanning(b)') /\ IsFiniteSet(EntriesOf(b)')
                      /\ Cardinality(EntriesOf(b)') = Cardinality(WQ!Scanning(b)') + One(b \in users')
    BY DEF EntriesInv
  <2>0. /\ IsFiniteSet(WQ!Scanning(b)) /\ IsFiniteSet(EntriesOf(b))
        /\ Cardinality(EntriesOf(b)) = Cardinality(WQ!Scanning(b)) + One(b \in users)
    BY DEF EntriesInv
  <2>1. One(b \in users') = One(b \in users) /\ One(b \in users) \in Nat
    BY <1>1 DEF One
  <2>2. CASE b = a
    <3>1. WQ!Scanning(b)' = WQ!Scanning(b) \ {t} /\ t \in WQ!Scanning(b)
      BY <1>2, <1>3, <1>4, <2>2 DEF WQ!Scanning
    <3>2. IsFiniteSet(WQ!Scanning(b)') /\ Cardinality(WQ!Scanning(b)') = Cardinality(WQ!Scanning(b)) - 1
      BY <2>0, <3>1, FS_RemoveElement
    <3>3. EntriesOf(b)' = EntriesOf(b) \ {e} /\ e \in EntriesOf(b)
      BY <1>1, <1>7, <1>8, <2>2 DEF EntriesOf
    <3>4. IsFiniteSet(EntriesOf(b)') /\ Cardinality(EntriesOf(b)') = Cardinality(EntriesOf(b)) - 1
      BY <2>0, <3>3, FS_RemoveElement
    <3>5. Cardinality(WQ!Scanning(b)) \in Nat
      BY <2>0, FS_CardinalityType
    <3> QED BY <2>0, <2>1, <3>2, <3>4, <3>5
  <2>3. CASE b # a
    <3>1. WQ!Scanning(b)' = WQ!Scanning(b)
      BY <1>2, <1>3, <1>4, <2>3 DEF WQ!Scanning
    <3>2. EntriesOf(b)' = EntriesOf(b)
      BY <1>1, <1>7, <1>8, <2>3 DEF EntriesOf
    <3> QED BY <2>0, <2>1, <3>1, <3>2
  <2> QED BY <2>2, <2>3
<1> QED BY <1>9, <1>10, <1>11, <1>12

LEMMA WqSteps == WqInv /\ (WQ!Next \/ UNCHANGED wqvars) => WqInv'
<1> SUFFICES ASSUME WqInv, WQ!Next \/ UNCHANGED wqvars PROVE WqInv'
  OBVIOUS
<1>1. CASE UNCHANGED wqvars
  <2>1. UNCHANGED <<heap, key, list, wqs, users, wqpc, n, wq>>
    BY <1>1 DEF wqvars
  <2>2. WQ!TypeOK' /\ Listed' = Listed
    BY <2>1 DEF WqInv, WQ!TypeOK, Listed
  <2>3. NamesInv' /\ QueuesInv'
    BY <2>1, <2>2 DEF WqInv, NamesInv, QueuesInv, Named
  <2>4. \A a : WQ!Scanning(a)' = WQ!Scanning(a)
    BY <2>1 DEF WQ!Scanning
  <2>5. EntriesInv'
    BY <2>1, <2>4, EntriesKept
  <2> QED BY <2>2, <2>3, <2>5 DEF WqInv
<1>2. CASE WQ!Next
  BY <1>2, NameAllocated, QueueAllocated, NameFreed, NameAdded, QueueDestroyed, NameRemoved DEF WQ!Next, WQ!Step
<1> QED BY <1>1, <1>2

LEMMA WqSafe == WqInv => WQ!OneEntryPerQueue /\ WQ!NoNameLeaks
<1> SUFFICES ASSUME WqInv PROVE WQ!OneEntryPerQueue /\ WQ!NoNameLeaks
  OBVIOUS
<1>1. WQ!OneEntryPerQueue
  <2> SUFFICES ASSUME NEW a \in Addrs
               PROVE  Cardinality(WQ!Matches(a)) = Cardinality(WQ!Scanning(a)) + (IF a \in users THEN 1 ELSE 0)
    <3>1. \A S : WQ!Cardinality(S) = Cardinality(S)
      BY DEF WQ!Cardinality, Cardinality
    <3> QED BY <3>1 DEF WQ!OneEntryPerQueue
  <2>1. Cardinality(EntriesOf(a)) = Cardinality(WQ!Scanning(a)) + (IF a \in users THEN 1 ELSE 0)
    BY DEF WqInv, EntriesInv, One
  <2> QED BY <2>1, Counted
<1>2. WQ!NoNameLeaks
  BY DEF WQ!NoNameLeaks, WQ!IsInjective, WQ!Range, WqInv, NamesInv, Listed
<1> QED BY <1>1, <1>2

-----------------------------------------------------------------------------
(* All together.                                                           *)
RegistersInv == MiiInv /\ PcieInv /\ IrqInv /\ VfInv /\ I2cInv
CompatInv == RegistersInv /\ OnceInv /\ StatsInv /\ SkInv /\ SkbInv /\ ZoneInv /\ ResInv /\ WqInv
compatvars == <<ivars, wqvars, devvars, part>>

LEMMA RegistersStart == CompatInit => RegistersInv
<1> SUFFICES ASSUME CompatInit PROVE RegistersInv
  OBVIOUS
<1>1. MiiInv
  BY MiiStarts DEF CompatInit, MiiInit, MiiIdle
<1>2. PcieInv
  <2>1. CASE PciInit
    BY <2>1, PcieStarts, RegistersAssumption DEF PciInit
  <2>2. CASE PciIdle
    <3>1. {} \in SUBSET Int
      OBVIOUS
    <3> QED BY <2>2, <3>1, PcieStarts DEF PciIdle
  <2> QED BY <2>1, <2>2 DEF CompatInit
<1>3. IrqInv
  <2>1. CASE IrqInit
    <3>1. PICK x, m \in 0 .. MaxVecs, min, max \in 1 .. MaxVecs, flags \in SUBSET {"msix", "msi", "legacy"} : irq = IrqStart([msix |-> x, msi |-> m], min, max, flags)
      BY <2>1 DEF IrqInit
    <3>2. x \in Nat /\ m \in Nat /\ min \in Nat \ {0} /\ max \in Nat \ {0}
      BY RegistersAssumption
    <3> QED BY <3>1, <3>2, IrqStarts
  <2>2. CASE IrqIdle
    <3>1. 0 \in Nat /\ 1 \in Nat \ {0}
      OBVIOUS
    <3> QED BY <2>2, <3>1, IrqStarts DEF IrqIdle
  <2> QED BY <2>1, <2>2 DEF CompatInit
<1>4. VfInv
  <2>1. CASE VfInit
    <3> DEFINE Dev == [ours : BOOLEAN, assigned : BOOLEAN]
    <3>1. PICK devs \in [1 .. MaxVfs -> Dev], physfn \in BOOLEAN : vf = VfStart(devs, physfn)
      BY <2>1 DEF VfInit
    <3>2. devs \in Seq(Dev)
      <4> HIDE DEF Dev
      <4> QED BY <3>1, RegistersAssumption
    <3> QED BY <3>1, <3>2, VfStarts
  <2>2. CASE VfIdle
    <3>1. <<>> \in Seq([ours : BOOLEAN, assigned : BOOLEAN]) /\ FALSE \in BOOLEAN
      OBVIOUS
    <3> QED BY <2>2, <3>1, VfStarts DEF VfIdle
  <2> QED BY <2>1, <2>2 DEF CompatInit
<1>5. I2cInv
  BY I2cStarts DEF CompatInit, I2cInit, I2cIdle
<1> QED BY <1>1, <1>2, <1>3, <1>4, <1>5 DEF RegistersInv

\* What is sent, copied or parsed so far (CompatLemmas).
BytesInv == TsoHolds(tso) /\ SgHolds(sg) /\ BufHolds(job)
LEMMA BytesStart == CompatInit => BytesInv
<1> SUFFICES ASSUME CompatInit PROVE BytesInv
  OBVIOUS
<1>1. TsoHolds(tso)
  <2>1. CASE TsoInit
    BY <2>1, TsoInits
  <2>2. CASE TsoIdle
    <3> DEFINE s == [head |-> 1, frags |-> <<>>, mss |-> 1, seq |-> 0, id |-> 0, ipv6 |-> FALSE]
    <3>1. 0 \in Seqs
      <4> DEFINE words == 2 ^ NumBits
      <4>1. words \in Nat \ {0}
        BY NetAssumption
      <4> HIDE DEF words
      <4>2. 0 \in 0 .. words - 1
        BY <4>1
      <4> QED BY <4>2 DEF Seqs, words
    <3>2. s \in Skbs
      BY <3>1 DEF Skbs
    <3>3. tso = tso_start(s)
      BY <2>2, Zenon DEF TsoIdle
    <3> HIDE DEF s
    <3> QED BY <3>2, <3>3, TsoStarts, Zenon
  <2> QED BY <2>1, <2>2, Zenon DEF CompatInit
<1>2. SgHolds(sg)
  <2>1. CASE SgInit
    BY <2>1, SgInits
  <2>2. CASE SgIdle
    <3> DEFINE one == <<[offset |-> 0, length |-> 0]>>
               none == 0
    <3>1. one \in Seq(Entry) /\ none \in Nat
      BY ScatterAssumption DEF Entry
    <3>2. sg = SgStart(one, none)
      BY <2>2, Zenon DEF SgIdle
    <3> HIDE DEF one, none
    <3> QED BY <3>1, <3>2, SgStarts, Zenon
  <2> QED BY <2>1, <2>2, Zenon DEF CompatInit
<1>3. BufHolds(job)
  <2>1. CASE BufInit
    BY <2>1, BufInits
  <2>2. CASE BufIdle
    <3> DEFINE props == <<"missing", "missing", "missing">>
    <3>1. props \in [1 .. 3 -> PropertyStates]
      BY DEF PropertyStates
    <3>2. job = MacStart(props, ETH_ALEN)
      BY <2>2, Zenon DEF BufIdle
    <3> HIDE DEF props
    <3> QED BY <3>1, <3>2, MacStarts, Zenon DEF BufHolds
  <2> QED BY <2>1, <2>2, Zenon DEF CompatInit
<1> QED BY <1>1, <1>2, <1>3, Zenon DEF BytesInv

LEMMA CompatStarts == CompatInit => CompatInv
<1> SUFFICES ASSUME CompatInit PROVE CompatInv
  OBVIOUS
<1>1. OnceInv
  BY OnceStarts DEF CompatInit, OnceInit, OnceIdle
<1>2. StatsInv
  <2>1. CASE StatsInit
    BY <2>1, StatsStarts DEF StatsInit
  <2>2. CASE StatsIdle
    BY <2>2, StatsStarts DEF StatsIdle
  <2> QED BY <2>1, <2>2 DEF CompatInit
<1>3. SkInv
  BY SkStarts DEF CompatInit, SkInit, SkIdle
<1>4. SkbInv
  <2>1. CASE SkbInit
    BY <2>1, SkbStarts DEF SkbInit
  <2>2. CASE SkbIdle
    <3>1. {} \in SUBSET SharedParts /\ TRUE \in BOOLEAN /\ FALSE \in BOOLEAN /\ 1 \in 1 .. 3
      OBVIOUS
    <3> QED BY <2>2, <3>1, SkbStarts DEF SkbIdle
  <2> QED BY <2>1, <2>2 DEF CompatInit
<1>5. ZoneInv /\ ResInv
  BY ZoneStarts, ResStarts DEF CompatInit, ThermalInit, ResInit
<1>6. WqInv
  BY WqStarts DEF CompatInit
<1> QED BY <1>1, <1>2, <1>3, <1>4, <1>5, <1>6, RegistersStart DEF CompatInv

\* A step of one part leaves the others alone.
LEMMA OnePartSteps ==
    ASSUME [CompatNext]_compatvars
    PROVE  /\ OnceNext \/ UNCHANGED once
           /\ StatsNext \/ UNCHANGED stats
           /\ SkNext \/ UNCHANGED sk
           /\ SkbNext \/ UNCHANGED skb
           /\ ThermalNext \/ UNCHANGED zone
           /\ ResNext \/ UNCHANGED res
           /\ WQ!Next \/ UNCHANGED wqvars
           /\ MiiNext \/ UNCHANGED mii
           /\ PciNext \/ UNCHANGED pcie
           /\ IrqNext \/ UNCHANGED irq
           /\ VfNext \/ UNCHANGED vf
           /\ I2cNext \/ UNCHANGED i2c
           /\ TsoNext \/ UNCHANGED tso
           /\ SgNext \/ UNCHANGED sg
           /\ BufNext \/ UNCHANGED job
<1>1. CASE UNCHANGED compatvars
  BY <1>1 DEF compatvars, devvars, netvars, regvars
<1>2. CASE CompatNext
  BY <1>2 DEF CompatNext, Allocations, QueueNames, Link, Capability, Vectors, VirtualFunctions, I2cBus, Segments,
              RandomKey, Statistics, Status, CopySkb, Zones, Managed, Pages, BufferJobs, devvars, netvars, regvars
<1> QED BY <1>1, <1>2

LEMMA BytesStep == BytesInv /\ [CompatNext]_compatvars => BytesInv'
<1> SUFFICES ASSUME BytesInv, [CompatNext]_compatvars PROVE BytesInv'
  OBVIOUS
<1>1. TsoHolds(tso')
  <2>1. TsoHolds(tso) /\ (TsoNext \/ tso' = tso)
    BY OnePartSteps, Zenon DEF BytesInv
  <2> QED BY <2>1, TsoSteps, Zenon
<1>2. SgHolds(sg')
  <2>1. SgHolds(sg) /\ (SgNext \/ sg' = sg)
    BY OnePartSteps, Zenon DEF BytesInv
  <2> QED BY <2>1, SgSteps, Zenon
<1>3. BufHolds(job')
  <2>1. BufHolds(job) /\ (BufNext \/ job' = job)
    BY OnePartSteps, Zenon DEF BytesInv
  <2> QED BY <2>1, BufSteps, Zenon
<1> QED BY <1>1, <1>2, <1>3, Zenon DEF BytesInv

LEMMA CompatSteps == CompatInv /\ [CompatNext]_compatvars => CompatInv'
<1> SUFFICES ASSUME CompatInv, [CompatNext]_compatvars PROVE CompatInv'
  OBVIOUS
<1>1. RegistersInv'
  BY OnePartSteps, MiiSteps, PcieSteps, IrqSteps, VfSteps, I2cSteps DEF CompatInv, RegistersInv
<1> QED BY <1>1, OnePartSteps, OnceSteps, StatsSteps, SkSteps, SkbSteps, ZoneSteps, ResSteps, WqSteps DEF CompatInv

LEMMA CompatInvHolds == CompatSpec => []CompatInv
BY CompatStarts, CompatSteps, PTL DEF CompatSpec, compatvars

\* Whatever the order in which the tasks of a driver take their steps, however
\* many they are and however often they start again: all devices get the same
\* random key, drawn once (get_random_once() of backport-3.13.c and
\* netdev_rss_key_fill() of backport-3.19.c), and a reader of a counter that is
\* stored in two words never has one of them from before an update and the other
\* from after it (u64_stats_sync.h), on any of the kernels.
THEOREM SharedValues == CompatSpec => []SharedValuesWhole
<1>1. CompatInv => SharedValuesWhole
  BY OnceSafe, StatsSafe DEF CompatInv, SharedValuesWhole
<1> QED BY <1>1, CompatInvHolds, PTL

\* For any tasks, users, resources, addresses and names: a thermal zone's
\* wrapper is there for every call of its operations, a managed resource is
\* released once and its node freed with it, a socket outlives the status that
\* is reported through it, a copy of an skb has references of its own, and every
\* backport_destroy_workqueue() frees one name, of the workqueue it destroys or
\* of one that had the same address, so that no name leaks.
THEOREM Released == CompatSpec => []ReleasedOnceUnused
<1>1. CompatInv => ReleasedOnceUnused
  BY WqSafe, ZoneSafe, ResSafe, SkSafe, SkbSafe DEF CompatInv, ReleasedOnceUnused
<1> QED BY <1>1, CompatInvHolds, PTL

\* For any settings, partners, tasks, calls, vectors, devices, registers and
\* values: link settings that were taken come back (backport-4.10.c), the PCI
\* Express accessors change no bit that nobody asked for and answer no garbage of
\* the bus (compat-3.7.c), pci_alloc_irq_vectors() answers what is enabled
\* (backport-4.8.c, backport-3.14.c), pci_vfs_assigned() counts within what the
\* guests had and keeps no reference (backport-3.10.c), and a register map that
\* reports success has done what was asked (compat-3.4.c).
THEOREM RegistersHold == CompatSpec => []RegistersAsAsked
<1>1. IrqInv /\ I2cInv => VectorsAsAnswered /\ I2cDoneIfOk
  BY DEF IrqInv, I2cInv
<1>2. CompatInv => RegistersAsAsked
  BY <1>1, MiiSafe, PcieSafe, VfSafe DEF CompatInv, RegistersInv, RegistersAsAsked
<1> QED BY <1>2, CompatInvHolds, PTL

\* For any skb with any fragments and any largest segment, any scatterlist of
\* any entries and any lengths, offsets and portions, and any dumps, texts,
\* descriptors, frames and properties: the segments that a driver builds with
\* tso_build_hdr() and tso_build_data() carry each byte of the payload once and
\* in order (backport-4.4.c), what is copied to or from a scatterlist, read from
\* a device coredump or handed to a cipher is the very bytes of the list, each
\* page of which is freed once (compat-3.9.c, backport-3.11.c, backport-4.7.c,
\* backport-4.2.c), and dumps, flags, copies, descriptors, headers and addresses
\* are those that the buffer has, within its size (backport-4.0.c,
\* backport-4.3.c, backport-4.6.c, backport-4.8.c, backport-3.18.c).
THEOREM BytesHandled == CompatSpec => []EveryByteOnce
<1>1. BytesInv => EveryByteOnce
  BY TsoSent, SgSent, BufSent, Zenon DEF BytesInv, EveryByteOnce
<1> QED BY <1>1, BytesStart, BytesStep, PTL DEF CompatSpec, compatvars

\* What is proved of the ida alone holds in the run of all parts.
LEMMA IdsRun == CompatSpec => Spec
<1>1. CompatInit => Init
  BY DEF CompatInit
<1>2. [CompatNext]_compatvars => [Next]_ivars
  BY DEF CompatNext, Allocations, QueueNames, Link, Capability, Vectors, VirtualFunctions, I2cBus, Segments,
         RandomKey, Statistics, Status, CopySkb, Zones, Managed, Pages, BufferJobs, compatvars
<1> QED BY <1>1, <1>2, PTL DEF CompatSpec, Spec, compatvars

\* For any number of callers and any ranges, in the run of all parts: every id
\* that is set has one owner, and ida_simple_get() and ida_simple_remove()
\* (compat-3.1.c) implement the atomic allocator of their comment.
THEOREM IdsHold == CompatSpec => []OneOwner /\ Atomic
BY IdsRun, EveryIdOwnedOnce, ImplementsIdAllocator, PTL
=============================================================================
