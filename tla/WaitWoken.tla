----------------------------- MODULE WaitWoken -----------------------------
(***************************************************************************)
(* wait_woken() and woken_wake_function() of compat/backport-3.19.c: a     *)
(* task sleeps until its condition holds, without missing the event, with  *)
(* no lock held on the sleeping side.  One waiting task runs the loop that *)
(* the comment above wait_woken() prescribes; any number of wakers set the *)
(* condition and call wake_up() on the queue; a stopper runs               *)
(* kthread_stop() on the waiting thread.                                   *)
(*                                                                         *)
(* The protocol rests on memory barriers, so plain stores go through store *)
(* buffers: a waker's two stores reach memory in any order that smp_wmb()  *)
(* (the C of the source) allows, and the waiter's store of TASK_RUNNING is *)
(* delayed until set_mb() (B).  set_current_state() (A) is store + mb.     *)
(* A store that reaches memory is seen by every CPU at once (multi-copy    *)
(* atomicity).                                                             *)
(***************************************************************************)
EXTENDS FiniteSets

CONSTANTS
    Wakers,             \* tasks that set the condition and call wake_up()
    NoOne,              \* the wait queue's spinlock is free
    Timed,              \* the waiter passes a finite timeout
    IsKthread           \* the waiter has PF_KTHREAD set

ASSUME WaitWokenAssumption ==
    /\ NoOne \notin Wakers
    /\ Timed \in BOOLEAN
    /\ IsKthread \in BOOLEAN

VARIABLES
    cond,       \* memory: the wait condition
    woken,      \* memory: WQ_FLAG_WOKEN of the wait queue entry
    state,      \* memory: the waiting task's ->state
    sbuf,       \* the waiter's delayed store of its own ->state
    stop,       \* memory: KTHREAD_SHOULD_STOP of the waiting thread
    expired,    \* schedule_timeout() has returned 0
    wpc,        \* where the waiting task is
    lock,       \* holder of the wait queue's spinlock
    kpc,        \* where each waker is
    buf,        \* stores of each waker that have not reached memory
    spc         \* where the stopper is

wvars == <<cond, woken, state, sbuf, stop, expired, wpc, lock, kpc, buf, spc>>

WaiterPcs == {"out", "check", "setA", "test", "sched", "run", "clear", "leave"}
WakerPcs == {"idle", "lock", "func", "wake", "unlock"}
StopPcs == {"idle", "wake", "done"}

\* The entry is on the queue between add_wait_queue and remove_wait_queue.
Queued == wpc # "out"

Init ==
    /\ cond = FALSE /\ woken = FALSE /\ state = "running" /\ sbuf = "none"
    /\ stop = FALSE /\ expired = FALSE
    /\ wpc = "out" /\ lock = NoOne
    /\ kpc = [w \in Wakers |-> "idle"]
    /\ buf = [w \in Wakers |-> {}]
    /\ spc = "idle"

-----------------------------------------------------------------------------
(* Defects that the properties exclude.                                    *)

\* wait->flags |= WQ_FLAG_WOKEN with no smp_wmb() before it.
DrainWokenNoBarrier(w) ==
    /\ "woken" \in buf[w]
    /\ buf' = [buf EXCEPT ![w] = @ \ {"woken"}]
    /\ woken' = TRUE
    /\ UNCHANGED <<cond, state, sbuf, stop, expired, wpc, lock, kpc, spc>>

\* schedule_timeout() called without testing WQ_FLAG_WOKEN.
TestFlagNotWoken ==
    /\ wpc = "test"
    /\ wpc' = IF ~(IsKthread /\ stop) THEN "sched" ELSE "run"
    /\ UNCHANGED <<cond, woken, state, sbuf, stop, expired, lock, kpc, buf, spc>>

\* is_kthread_should_stop() not tested before sleeping.
TestFlagNoStop ==
    /\ wpc = "test"
    /\ wpc' = IF ~woken THEN "sched" ELSE "run"
    /\ UNCHANGED <<cond, woken, state, sbuf, stop, expired, lock, kpc, buf, spc>>

\* The task puts itself back into the sleeping mode instead of TASK_RUNNING.
SetRunningWrongMode ==
    /\ wpc = "run"
    /\ sbuf' = "sleep"
    /\ wpc' = "clear"
    /\ UNCHANGED <<cond, woken, state, stop, expired, lock, kpc, buf, spc>>

-----------------------------------------------------------------------------
(* The waiting task.                                                       *)

\* DEFINE_WAIT_FUNC(wait, ..) gives a fresh entry; add_wait_queue(&wq, &wait)
\* links it under the queue's lock.
AddWaitQueue ==
    /\ wpc = "out" /\ lock = NoOne
    /\ woken' = FALSE /\ expired' = FALSE
    /\ wpc' = "check"
    /\ UNCHANGED <<cond, state, sbuf, stop, lock, kpc, buf, spc>>

\* if (condition) break; the event is consumed by the task that saw it.  A
\* caller that was told to stop, or whose timeout ran out, leaves the loop too.
CheckCondition ==
    /\ wpc = "check"
    /\ IF cond THEN wpc' = "leave" /\ cond' = FALSE
       ELSE /\ wpc' = IF expired \/ (IsKthread /\ stop) THEN "leave" ELSE "setA"
            /\ cond' = cond
    /\ UNCHANGED <<woken, state, sbuf, stop, expired, lock, kpc, buf, spc>>

\* set_current_state(mode): the store and a full barrier (A).
SetCurrentState ==
    /\ wpc = "setA"
    /\ state' = "sleep" /\ sbuf' = "none"
    /\ wpc' = "test"
    /\ UNCHANGED <<cond, woken, stop, expired, lock, kpc, buf, spc>>

\* if (!(wait->flags & WQ_FLAG_WOKEN) && !is_kthread_should_stop())
TestFlag ==
    /\ wpc = "test"
    /\ wpc' = IF ~woken /\ ~(IsKthread /\ stop) THEN "sched" ELSE "run"
    /\ UNCHANGED <<cond, woken, state, sbuf, stop, expired, lock, kpc, buf, spc>>

\* schedule_timeout() returns once the task is runnable again.
Resume ==
    /\ wpc = "sched" /\ state = "running"
    /\ wpc' = "run"
    /\ UNCHANGED <<cond, woken, state, sbuf, stop, expired, lock, kpc, buf, spc>>

\* The timer of schedule_timeout() fires: wake_up_process(), 0 is returned.
TimerFires ==
    /\ Timed /\ wpc = "sched" /\ state = "sleep"
    /\ state' = "running" /\ expired' = TRUE
    /\ UNCHANGED <<cond, woken, sbuf, stop, wpc, lock, kpc, buf, spc>>

\* __set_current_state(TASK_RUNNING): a plain store.
SetRunning ==
    /\ wpc = "run"
    /\ sbuf' = "running"
    /\ wpc' = "clear"
    /\ UNCHANGED <<cond, woken, state, stop, expired, lock, kpc, buf, spc>>

\* The waiter's plain store reaches memory.
DrainWaiter ==
    /\ sbuf # "none"
    /\ state' = sbuf /\ sbuf' = "none"
    /\ UNCHANGED <<cond, woken, stop, expired, wpc, lock, kpc, buf, spc>>

\* set_mb(wait->flags, wait->flags & ~WQ_FLAG_WOKEN): the store and a full
\* barrier (B).  No other bit of ->flags changes while the entry is queued, so
\* the value stored does not depend on when the old one was read.
ClearWoken ==
    /\ wpc = "clear"
    /\ woken' = FALSE
    /\ sbuf' = "none"
    /\ state' = IF sbuf # "none" THEN sbuf ELSE state
    /\ wpc' = "check"
    /\ UNCHANGED <<cond, stop, expired, lock, kpc, buf, spc>>

\* remove_wait_queue(&wq, &wait) under the queue's lock.
RemoveWaitQueue ==
    /\ wpc = "leave" /\ lock = NoOne
    /\ wpc' = "out"
    /\ UNCHANGED <<cond, woken, state, sbuf, stop, expired, lock, kpc, buf, spc>>

-----------------------------------------------------------------------------
(* A waker: condition = true; wake_up(&wq).                                *)

SetCondition(w) ==
    /\ kpc[w] = "idle"
    /\ buf' = [buf EXCEPT ![w] = {"cond"}]
    /\ kpc' = [kpc EXCEPT ![w] = "lock"]
    /\ UNCHANGED <<cond, woken, state, sbuf, stop, expired, wpc, lock, spc>>

\* wake_up() takes the queue's lock (no barrier for the store before it) and
\* calls the entry's function if there is an entry.
LockQueue(w) ==
    /\ kpc[w] = "lock" /\ lock = NoOne
    /\ lock' = w
    /\ kpc' = [kpc EXCEPT ![w] = IF Queued THEN "func" ELSE "unlock"]
    /\ UNCHANGED <<cond, woken, state, sbuf, stop, expired, wpc, buf, spc>>

\* woken_wake_function(): smp_wmb() (C), then wait->flags |= WQ_FLAG_WOKEN.
WokenWakeFunction(w) ==
    /\ kpc[w] = "func"
    /\ buf' = [buf EXCEPT ![w] = @ \union {"woken"}]
    /\ kpc' = [kpc EXCEPT ![w] = "wake"]
    /\ UNCHANGED <<cond, woken, state, sbuf, stop, expired, wpc, lock, spc>>

\* default_wake_function() -> try_to_wake_up(): a full barrier, then the
\* task is made runnable if it is in a sleeping state.
DefaultWakeFunction(w) ==
    /\ kpc[w] = "wake" /\ buf[w] = {}
    /\ state' = "running"
    /\ kpc' = [kpc EXCEPT ![w] = "unlock"]
    /\ UNCHANGED <<cond, woken, sbuf, stop, expired, wpc, lock, buf, spc>>

\* spin_unlock_irqrestore(): a release, so the stores are visible by then.
UnlockQueue(w) ==
    /\ kpc[w] = "unlock" /\ buf[w] = {}
    /\ lock' = NoOne
    /\ kpc' = [kpc EXCEPT ![w] = "idle"]
    /\ UNCHANGED <<cond, woken, state, sbuf, stop, expired, wpc, buf, spc>>

\* The store of the condition reaches memory.
DrainCond(w) ==
    /\ "cond" \in buf[w]
    /\ buf' = [buf EXCEPT ![w] = @ \ {"cond"}]
    /\ cond' = TRUE
    /\ UNCHANGED <<woken, state, sbuf, stop, expired, wpc, lock, kpc, spc>>

\* The store of WQ_FLAG_WOKEN reaches memory, after the condition's (smp_wmb).
DrainWoken(w) ==
    /\ "woken" \in buf[w] /\ "cond" \notin buf[w]
    /\ buf' = [buf EXCEPT ![w] = @ \ {"woken"}]
    /\ woken' = TRUE
    /\ UNCHANGED <<cond, state, sbuf, stop, expired, wpc, lock, kpc, spc>>

-----------------------------------------------------------------------------
(* kthread_stop(): set the bit, then wake_up_process().                    *)

StopSet ==
    /\ IsKthread /\ spc = "idle"
    /\ stop' = TRUE /\ spc' = "wake"
    /\ UNCHANGED <<cond, woken, state, sbuf, expired, wpc, lock, kpc, buf>>

StopWake ==
    /\ spc = "wake"
    /\ state' = "running" /\ spc' = "done"
    /\ UNCHANGED <<cond, woken, sbuf, stop, expired, wpc, lock, kpc, buf>>

-----------------------------------------------------------------------------
Loop == \/ CheckCondition \/ SetCurrentState \/ TestFlag \/ Resume
        \/ SetRunning \/ ClearWoken \/ RemoveWaitQueue

Waking(w) == \/ LockQueue(w) \/ WokenWakeFunction(w)
             \/ DefaultWakeFunction(w) \/ UnlockQueue(w)
             \/ DrainCond(w) \/ DrainWoken(w)

Next ==
    \/ AddWaitQueue \/ Loop \/ TimerFires \/ DrainWaiter
    \/ \E w \in Wakers : SetCondition(w) \/ Waking(w)
    \/ StopSet \/ StopWake

Spec == Init /\ [][Next]_wvars

(***************************************************************************)
(* Running tasks are scheduled, and store buffers drain.  Nothing makes a  *)
(* caller wait again, a waker raise an event, or the timer fire in time;   *)
(* contended spinlocks are granted (strong fairness of the lock step).     *)
(***************************************************************************)
Fairness ==
    /\ WF_wvars(CheckCondition \/ SetCurrentState \/ TestFlag \/ Resume
                \/ SetRunning \/ ClearWoken)
    /\ SF_wvars(RemoveWaitQueue)
    /\ \A w \in Wakers : /\ SF_wvars(LockQueue(w))
                         /\ WF_wvars(WokenWakeFunction(w) \/ DefaultWakeFunction(w)
                                     \/ UnlockQueue(w))
                         /\ WF_wvars(DrainCond(w)) /\ WF_wvars(DrainWoken(w))
    /\ WF_wvars(StopWake)

FairSpec == Spec /\ Fairness

-----------------------------------------------------------------------------
TypeOK ==
    /\ cond \in BOOLEAN /\ woken \in BOOLEAN
    /\ state \in {"running", "sleep"} /\ sbuf \in {"none", "running"}
    /\ stop \in BOOLEAN /\ expired \in BOOLEAN
    /\ wpc \in WaiterPcs
    /\ lock \in Wakers \union {NoOne}
    /\ kpc \in [Wakers -> WakerPcs]
    /\ buf \in [Wakers -> SUBSET {"cond", "woken"}]
    /\ spc \in StopPcs

\* The task is off the CPU and nothing but a wake-up will bring it back.
Asleep == wpc = "sched" /\ state = "sleep"

\* w has still to call try_to_wake_up() for its event.
WakeupPending(w) == kpc[w] \in {"lock", "func", "wake"}

\* "we must either observe the wait condition being true _OR_ WQ_FLAG_WOKEN
\* such that we will not miss an event": the waiter never sleeps on a true
\* condition unless a waker is still on its way to wake it.
NoLostWakeup == Asleep /\ cond => \E w \in Wakers : WakeupPending(w)

\* kthread_stop() is never missed: a thread that sleeps in wait_woken() after
\* the stop bit was set is about to be woken by the stopper.
NoLostStop == Asleep /\ IsKthread /\ stop => spc = "wake"

\* A wait that finds its condition true ends: the task leaves the loop.
WaitEnds == (Queued /\ cond) ~> ~Queued

\* A stopped thread leaves the loop.
StopEnds == (Queued /\ IsKthread /\ stop) ~> ~Queued

\* What the loops of wait_woken()'s callers must not do is sleep for ever: a
\* task whose condition has come true, and a thread that was told to stop, both
\* leave the loop (backport-3.19.c:41-66).
WaitsEnd == WaitEnds /\ StopEnds
=============================================================================
