-------------------------- MODULE WaitWokenProofs --------------------------
(***************************************************************************)
(* wait_woken() misses no event and no kthread_stop(), for any number of   *)
(* wakers.                                                                 *)
(***************************************************************************)
EXTENDS WaitWoken, TLAPS

\* A waker past wake_up()'s lock holds it.
LockInv == \A w \in Wakers : kpc[w] \in {"func", "wake", "unlock"} => lock = w

\* The entry a waker works on stays queued.
EntryInv == \A w \in Wakers : kpc[w] \in {"func", "wake"} => Queued

\* What a waker may still have in its store buffer, and that smp_wmb() keeps
\* the condition's store ahead of the flag's.
BufferInv == \A w \in Wakers :
    /\ kpc[w] = "idle" => buf[w] = {}
    /\ "woken" \in buf[w] => kpc[w] = "wake"
    /\ kpc[w] = "wake" /\ "cond" \in buf[w] => "woken" \in buf[w]
    /\ kpc[w] = "unlock" /\ "cond" \in buf[w] => ~Queued

\* The heart of the protocol: between its test of the condition and its test
\* of WQ_FLAG_WOKEN the waiter cannot have missed an event for good.
FlagInv == wpc \in {"setA", "test"} /\ cond =>
    \/ woken
    \/ \E w \in Wakers : kpc[w] \in {"lock", "func"} \/ "woken" \in buf[w]

IInv == TypeOK /\ LockInv /\ EntryInv /\ BufferInv /\ FlagInv /\ NoLostWakeup

USE WaitWokenAssumption

\* No step leaves the types.
LEMMA TypeStep == TypeOK /\ [Next]_wvars => TypeOK'
<1> SUFFICES ASSUME TypeOK, [Next]_wvars PROVE TypeOK'
  OBVIOUS
<1> USE DEF TypeOK, WaiterPcs, WakerPcs, StopPcs
<1>1. CASE AddWaitQueue \/ Loop \/ TimerFires \/ DrainWaiter
  BY ZenonT(60), <1>1 DEF AddWaitQueue, Loop, TimerFires, DrainWaiter, CheckCondition,
     SetCurrentState, TestFlag, Resume, SetRunning, ClearWoken, RemoveWaitQueue
<1>2. ASSUME NEW w \in Wakers, SetCondition(w) \/ Waking(w) PROVE TypeOK'
  <2>1. CASE SetCondition(w)
    BY <2>1 DEF SetCondition
  <2>2. CASE LockQueue(w) \/ UnlockQueue(w)
    BY <2>2 DEF LockQueue, UnlockQueue
  <2>3. CASE WokenWakeFunction(w)
    BY <2>3 DEF WokenWakeFunction
  <2>4. CASE DefaultWakeFunction(w)
    BY <2>4 DEF DefaultWakeFunction
  <2>5. CASE DrainCond(w)
    BY <2>5 DEF DrainCond
  <2>6. CASE DrainWoken(w)
    BY <2>6 DEF DrainWoken
  <2> QED
    BY <1>2, <2>1, <2>2, <2>3, <2>4, <2>5, <2>6 DEF Waking
<1>3. CASE StopSet \/ StopWake
  BY <1>3 DEF StopSet, StopWake
<1>4. CASE UNCHANGED wvars
  BY <1>4 DEF wvars
<1> QED
  BY <1>1, <1>2, <1>3, <1>4 DEF Next

\* Every step of every task keeps all variables in their types.
THEOREM TypeCorrect == Spec => []TypeOK
<1>1. Init => TypeOK
  BY DEF Init, TypeOK, WaiterPcs, WakerPcs, StopPcs
<1> QED
  BY <1>1, TypeStep, PTL DEF Spec

LEMMA InitIInv == Init => IInv
BY DEF Init, IInv, TypeOK, WaiterPcs, WakerPcs, StopPcs, LockInv, EntryInv,
   BufferInv, FlagInv, NoLostWakeup, Asleep, Queued, WakeupPending

\* A step of the waiting task touches no waker's state.
LEMMA WaiterKeepsIInv ==
    ASSUME IInv, TypeOK',
           AddWaitQueue \/ Loop \/ TimerFires \/ DrainWaiter
    PROVE  IInv'
<1> USE DEF IInv, TypeOK, LockInv, EntryInv, BufferInv, FlagInv, NoLostWakeup,
            Asleep, Queued, WakeupPending, WaiterPcs
<1>1. CASE AddWaitQueue
  BY <1>1 DEF AddWaitQueue
<1>2. CASE CheckCondition
  BY <1>2 DEF CheckCondition
<1>3. CASE SetCurrentState
  BY <1>3 DEF SetCurrentState
<1>4. CASE TestFlag
  BY <1>4 DEF TestFlag
<1>5. CASE Resume \/ SetRunning
  BY <1>5 DEF Resume, SetRunning
<1>6. CASE ClearWoken
  BY <1>6 DEF ClearWoken
<1>7. CASE RemoveWaitQueue
  BY <1>7 DEF RemoveWaitQueue
<1>8. CASE TimerFires \/ DrainWaiter
  BY <1>8 DEF TimerFires, DrainWaiter
<1> QED
  BY <1>1, <1>2, <1>3, <1>4, <1>5, <1>6, <1>7, <1>8 DEF Loop

\* A step of a waker.  Only here does smp_wmb(), through DrainWoken, matter.
LEMMA WakerKeepsIInv ==
    ASSUME IInv, TypeOK', NEW w \in Wakers,
           SetCondition(w) \/ Waking(w)
    PROVE  IInv'
<1> USE DEF IInv, TypeOK, LockInv, EntryInv, BufferInv, FlagInv, NoLostWakeup,
            Asleep, Queued, WakeupPending, WakerPcs
<1>1. CASE SetCondition(w)
  BY <1>1 DEF SetCondition
<1>2. CASE LockQueue(w)
  BY <1>2 DEF LockQueue
<1>3. CASE WokenWakeFunction(w)
  BY <1>3 DEF WokenWakeFunction
<1>4. CASE DefaultWakeFunction(w)
  BY <1>4 DEF DefaultWakeFunction
<1>5. CASE UnlockQueue(w)
  BY <1>5 DEF UnlockQueue
<1>6. CASE DrainCond(w)
  BY <1>6 DEF DrainCond
<1>7. CASE DrainWoken(w)
  BY <1>7 DEF DrainWoken
<1> QED
  BY <1>1, <1>2, <1>3, <1>4, <1>5, <1>6, <1>7 DEF Waking

\* The waiter never sleeps through an event, whatever smp_wmb() allows: a true condition it sleeps on has a waker that is still going to wake it.
THEOREM WaitWokenMissesNoEvent == Spec => []NoLostWakeup
<1>1. IInv /\ [Next]_wvars => IInv'
  <2> SUFFICES ASSUME IInv, [Next]_wvars, TypeOK' PROVE IInv'
    BY TypeStep DEF IInv
  <2>1. CASE AddWaitQueue \/ Loop \/ TimerFires \/ DrainWaiter
    BY <2>1, WaiterKeepsIInv
  <2>2. ASSUME NEW w \in Wakers, SetCondition(w) \/ Waking(w) PROVE IInv'
    BY <2>2, WakerKeepsIInv
  <2>3. CASE StopSet \/ StopWake
    BY <2>3 DEF StopSet, StopWake, IInv, LockInv, EntryInv, BufferInv, FlagInv,
       NoLostWakeup, Asleep, Queued, WakeupPending
  <2>4. CASE UNCHANGED wvars
    BY <2>4 DEF wvars, IInv, LockInv, EntryInv, BufferInv, FlagInv,
       NoLostWakeup, Asleep, Queued, WakeupPending
  <2> QED
    BY <2>1, <2>2, <2>3, <2>4 DEF Next
<1>2. IInv => NoLostWakeup
  BY DEF IInv
<1> QED
  BY <1>1, <1>2, InitIInv, PTL DEF Spec

\* A thread asleep in wait_woken() with KTHREAD_SHOULD_STOP set is about to be
\* woken by kthread_stop(); no barrier of the wakers is needed for this.
THEOREM WaitWokenMissesNoStop == Spec => []NoLostStop
<1>1. Init => NoLostStop
  BY DEF Init, NoLostStop, Asleep
<1>2. TypeOK /\ NoLostStop /\ [Next]_wvars => NoLostStop'
  <2> SUFFICES ASSUME TypeOK, NoLostStop, [Next]_wvars PROVE NoLostStop'
    OBVIOUS
  <2> USE DEF TypeOK, NoLostStop, Asleep
  <2>1. CASE AddWaitQueue \/ Loop \/ TimerFires \/ DrainWaiter
    BY <2>1 DEF AddWaitQueue, Loop, TimerFires, DrainWaiter, CheckCondition,
       SetCurrentState, TestFlag, Resume, SetRunning, ClearWoken, RemoveWaitQueue
  <2>2. ASSUME NEW w \in Wakers, SetCondition(w) \/ Waking(w) PROVE NoLostStop'
    BY <2>2 DEF SetCondition, Waking, LockQueue, WokenWakeFunction,
       DefaultWakeFunction, UnlockQueue, DrainCond, DrainWoken
  <2>3. CASE StopSet \/ StopWake
    BY <2>3 DEF StopSet, StopWake
  <2>4. CASE UNCHANGED wvars
    BY <2>4 DEF wvars
  <2> QED
    BY <2>1, <2>2, <2>3, <2>4 DEF Next
<1> QED
  BY <1>1, <1>2, TypeCorrect, PTL DEF Spec
=============================================================================
