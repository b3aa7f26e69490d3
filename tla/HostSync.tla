------------------------------ MODULE HostSync ------------------------------
(***************************************************************************)
(* The simulator's own synchronisation objects (common/misc): Semaphore,   *)
(* ConditionVariable (both on a futex word), MTCircularQueue on two        *)
(* condition variables, Barrier, and _SetLock, the lock of a set of cache  *)
(* sets with one mutex per sharing core.  Every behaviour is about ONE     *)
(* object, of kind config.kind, and threads that each run a short program  *)
(* of calls on it.                                                         *)
(*                                                                         *)
(* A step is what happens under the object's Lock, up to its release: the  *)
(* Lock is never held across a step.  The test of the futex word by        *)
(* FUTEX_WAIT is a step of its own: it happens after the release.          *)
(***************************************************************************)
EXTENDS Naturals, Sequences, FiniteSets

CONSTANTS Thread,    \* host threads
          Workload,  \* records: kind, prog (per thread the calls it makes),
                     \* core (of each thread), size (of the queue), interrupts
          NoThread

VARIABLES config,  \* the workload
          thread,  \* per thread: todo, the calls left; pc, where it is in the first
          obj,     \* the object's fields
          pushed, popped  \* history: what went into and came out of the queue
vars == <<config, thread, obj, pushed, popped>>

Kind == {"semaphore", "queue", "barrier", "setlock"}
Futex == {"sem", "full", "empty", "cond"}
Sharers == 0 .. Cardinality(Thread) - 1

\* The workloads the module is about: calls of the object's kind, a sharer for every
\* thread, and no signal handlers in a program that waits on a barrier (Barrier::wait
\* is alone in not looking again whether it may go on).
CallsOf == [semaphore |-> {"wait", "signal", "broadcast"}, queue |-> {"push", "pop"},
            barrier |-> {"wait"}, setlock |-> {"shared", "exclusive", "upgrade"}]
IsWorkload(w) ==
    /\ w.kind \in Kind /\ w.size \in Nat
    /\ w.prog \in [Thread -> Seq(CallsOf[w.kind])]
    /\ w.core \in [Thread -> Sharers]
    /\ w.kind = "barrier" => ~w.interrupts
HostConstants ==
    /\ IsFiniteSet(Thread) /\ Thread # {} /\ NoThread \notin Thread
    /\ \A w \in Workload : IsWorkload(w)

Init ==
    /\ config \in Workload
    /\ thread = [t \in Thread |-> [todo |-> config.prog[t], pc |-> "call",
                                   on |-> "none"]]
    /\ obj = [futx |-> [f \in Futex |-> 0],
              count |-> 0, numWaiting |-> 0,
              first |-> 0, last |-> 0,
              slots |-> [i \in 0 .. config.size |-> 0],
              arrived |-> 0, leaving |-> 0,
              locks |-> [c \in Sharers |-> NoThread]]
    /\ pushed = <<>> /\ popped = <<>>

-----------------------------------------------------------------------------
\* A thread's position.  pc: "call" (about to make its next call), "futex"
\* (about to FUTEX_WAIT on word .on), "asleep" in it, "woken", "broadcast"
\* (Barrier, after m_lock.release()), "holds" (SetLock), "locking" (in
\* acquire_exclusive, or upgrade), "exclusive" (all mutexes held), "releasing".

Idle(t) == thread[t].pc = "call" /\ thread[t].todo # <<>>
Calls(t, op) == Idle(t) /\ Head(thread[t].todo) = op
Goto(th, t, pc) == [th EXCEPT ![t].pc = pc]
Returned(th, t) == [th EXCEPT ![t] = [todo |-> Tail(@.todo), pc |-> "call", on |-> "none"]]
\* Word f is 0 and the Lock released: the thread goes on to FUTEX_WAIT.
ToSleep(th, t, f) == [th EXCEPT ![t] = [todo |-> @.todo, pc |-> "futex", on |-> f]]

Sleepers(f) == {t \in Thread : thread[t].pc = "asleep" /\ thread[t].on = f}
WakeUp(th, W) == [t \in Thread |-> IF t \in W THEN [th[t] EXCEPT !.pc = "woken"]
                                   ELSE th[t]]
\* FUTEX_WAKE, 1 and FUTEX_WAKE, INT_MAX: the sleepers that may be woken.
WakeOne(f) == IF Sleepers(f) = {} THEN {{}} ELSE {{t} : t \in Sleepers(f)}
WakeAll(f) == {Sleepers(f)}

\* FUTEX_WAIT with expected value 0 (external: the kernel).
FutexWait(t) ==
    /\ thread[t].pc = "futex"
    /\ thread' = Goto(thread, t, IF obj.futx[thread[t].on] = 0 THEN "asleep" ELSE "woken")
    /\ UNCHANGED <<config, obj, pushed, popped>>

\* A signal handler interrupts FUTEX_WAIT: syscall() returns -1, which is not
\* -EINTR, so the loop of ConditionVariable::wait ends; Semaphore has no loop.
Interrupt(t) ==
    /\ config.interrupts /\ thread[t].pc = "asleep"
    /\ thread' = Goto(thread, t, "woken")
    /\ UNCHANGED <<config, obj, pushed, popped>>

-----------------------------------------------------------------------------
\* Semaphore

\* One round of the loop of Semaphore::wait, numWaiting as it is then.
SemaphoreTry(t, numWaiting) ==
    \/ /\ obj.count = 0
       /\ obj' = [obj EXCEPT !.numWaiting = numWaiting + 1, !.futx["sem"] = 0]
       /\ thread' = ToSleep(thread, t, "sem")
    \/ /\ obj.count > 0
       /\ obj' = [obj EXCEPT !.numWaiting = numWaiting, !.count = @ - 1]
       /\ thread' = Returned(thread, t)
SemaphoreWait(t) ==
    /\ \/ Calls(t, "wait") /\ config.kind = "semaphore" /\ SemaphoreTry(t, obj.numWaiting)
       \/ thread[t].pc = "woken" /\ thread[t].on = "sem" /\ SemaphoreTry(t, obj.numWaiting - 1)
    /\ UNCHANGED <<config, pushed, popped>>

SemaphorePostSilently(t, W) ==
    /\ obj' = [obj EXCEPT !.count = @ + 1]
    /\ thread' = Returned(WakeUp(thread, W), t)
\* signal and broadcast, W the set FUTEX_WAKE wakes.
SemaphorePost(t, W) ==
    /\ obj' = [obj EXCEPT !.count = @ + 1,
                          !.futx["sem"] = IF obj.numWaiting > 0 THEN 1 ELSE @]
    /\ thread' = Returned(WakeUp(thread, W), t)
SemaphoreSignal(t) ==
    /\ \/ Calls(t, "signal") /\ \E W \in WakeOne("sem") : SemaphorePost(t, W)
       \/ Calls(t, "broadcast") /\ \E W \in WakeAll("sem") : SemaphorePost(t, W)
    /\ UNCHANGED <<config, pushed, popped>>

-----------------------------------------------------------------------------
\* CircularQueue of config.size elements, and MTCircularQueue

QSize == config.size + 1
Full == (obj.first + 1) % QSize = obj.last
Empty == obj.first = obj.last

\* The element is the number of elements pushed before it.
PushWait(t) ==
    /\ Calls(t, "push") \/ (thread[t].pc = "woken" /\ thread[t].on = "full")
    /\ \/ /\ Full
          /\ obj' = [obj EXCEPT !.futx["full"] = 0]
          /\ thread' = ToSleep(thread, t, "full")
          /\ UNCHANGED pushed
       \/ /\ ~Full
          /\ \E W \in IF Empty THEN WakeOne("empty") ELSE {{}} :
                thread' = Returned(WakeUp(thread, W), t)
          /\ obj' = [obj EXCEPT !.slots[obj.first] = Len(pushed),
                                !.first = (@ + 1) % QSize,
                                !.futx["empty"] = IF Empty THEN 1 ELSE @]
          /\ pushed' = Append(pushed, Len(pushed))
    /\ UNCHANGED <<config, popped>>

PopWait(t) ==
    /\ Calls(t, "pop") \/ (thread[t].pc = "woken" /\ thread[t].on = "empty")
    /\ \/ /\ Empty
          /\ obj' = [obj EXCEPT !.futx["empty"] = 0]
          /\ thread' = ToSleep(thread, t, "empty")
          /\ UNCHANGED popped
       \/ /\ ~Empty
          /\ \E W \in IF Full THEN WakeOne("full") ELSE {{}} :
                thread' = Returned(WakeUp(thread, W), t)
          /\ obj' = [obj EXCEPT !.last = (@ + 1) % QSize,
                                !.futx["full"] = IF Full THEN 1 ELSE @]
          /\ popped' = Append(popped, obj.slots[obj.last])
    /\ UNCHANGED <<config, pushed>>

-----------------------------------------------------------------------------
\* Barrier of all the threads

BarrierCount == Cardinality(Thread)

BarrierArrive(t) ==
    /\ Calls(t, "wait") /\ config.kind = "barrier"
    /\ obj.leaving = 0          \* the loop around sched_yield()
    /\ IF obj.arrived + 1 = BarrierCount
       THEN /\ obj' = [obj EXCEPT !.arrived = 0, !.leaving = BarrierCount - 1]
            /\ thread' = Goto(thread, t, "broadcast")
       ELSE /\ obj' = [obj EXCEPT !.arrived = @ + 1, !.futx["cond"] = 0]
            /\ thread' = ToSleep(thread, t, "cond")
    /\ UNCHANGED <<config, pushed, popped>>
BarrierBroadcast(t) ==
    /\ thread[t].pc = "broadcast"
    /\ obj' = [obj EXCEPT !.futx["cond"] = 1]
    /\ thread' = Returned(WakeUp(thread, Sleepers("cond")), t)
    /\ UNCHANGED <<config, pushed, popped>>
BarrierLeave(t) ==
    /\ thread[t].pc = "woken" /\ thread[t].on = "cond"
    /\ obj' = [obj EXCEPT !.leaving = @ - 1]
    /\ thread' = Returned(thread, t)
    /\ UNCHANGED <<config, pushed, popped>>

-----------------------------------------------------------------------------
\* _SetLock: one mutex per sharing core, taken one after the other

Take(t, c) ==
    /\ obj.locks[c] = NoThread
    /\ obj' = [obj EXCEPT !.locks[c] = t]
Give(C) ==
    obj' = [obj EXCEPT !.locks = [c \in Sharers |-> IF c \in C THEN NoThread ELSE obj.locks[c]]]
Mine(t) == {c \in Sharers : obj.locks[c] = t}

AcquireShared(t) ==
    /\ Calls(t, "shared") \/ Calls(t, "upgrade")
    /\ Take(t, config.core[t])
    /\ thread' = Goto(thread, t, "holds")
    /\ UNCHANGED <<config, pushed, popped>>
\* upgrade: release_shared, then acquire_exclusive
Upgrade(t) ==
    /\ thread[t].pc = "holds" /\ Head(thread[t].todo) = "upgrade"
    /\ Give({config.core[t]})
    /\ thread' = Goto(thread, t, "locking")
    /\ UNCHANGED <<config, pushed, popped>>
\* Mutant: the loop ends one mutex too early.
LockNextButOne(t) ==
    LET left == Sharers \ Mine(t)
        c == CHOOSE c \in left : \A d \in left : c <= d
    IN  /\ Take(t, c)
        /\ thread' = Goto(thread, t, IF Cardinality(left) <= 2 THEN "exclusive" ELSE "locking")
\* One turn of the loop of acquire_exclusive: the mutexes in order of core.
LockNext(t) ==
    LET left == Sharers \ Mine(t)
        c == CHOOSE c \in left : \A d \in left : c <= d
    IN  /\ Take(t, c)
        /\ thread' = Goto(thread, t, IF left = {c} THEN "exclusive" ELSE "locking")
AcquireExclusive(t) ==
    /\ Calls(t, "exclusive") \/ thread[t].pc = "locking"
    /\ LockNext(t)
    /\ UNCHANGED <<config, pushed, popped>>
\* The rest of the call is that of a shared holder.
Downgrade(t) ==
    /\ thread[t].pc = "exclusive" /\ Head(thread[t].todo) = "upgrade"
    /\ Give(Sharers \ {config.core[t]})
    /\ thread' = [thread EXCEPT ![t] =
                    [todo |-> <<"shared">> \o Tail(@.todo), pc |-> "holds", on |-> @.on]]
    /\ UNCHANGED <<config, pushed, popped>>
ReleaseShared(t) ==
    /\ thread[t].pc = "holds" /\ Head(thread[t].todo) = "shared"
    /\ Give({config.core[t]})
    /\ thread' = Returned(thread, t)
    /\ UNCHANGED <<config, pushed, popped>>
\* One turn of the loop of release_exclusive.
ReleaseExclusive(t) ==
    /\ \/ thread[t].pc = "exclusive" /\ Head(thread[t].todo) = "exclusive"
       \/ thread[t].pc = "releasing"
    /\ \E c \in Mine(t) :
          /\ \A d \in Mine(t) : c <= d
          /\ Give({c})
          /\ thread' = IF Mine(t) = {c} THEN Returned(thread, t)
                       ELSE Goto(thread, t, "releasing")
    /\ UNCHANGED <<config, pushed, popped>>

-----------------------------------------------------------------------------
Step(t) ==
    \/ FutexWait(t)
    \/ SemaphoreWait(t) \/ SemaphoreSignal(t)
    \/ PushWait(t) \/ PopWait(t)
    \/ BarrierArrive(t) \/ BarrierBroadcast(t) \/ BarrierLeave(t)
    \/ AcquireShared(t) \/ Upgrade(t) \/ AcquireExclusive(t)
    \/ Downgrade(t) \/ ReleaseShared(t) \/ ReleaseExclusive(t)
Next == \E t \in Thread : Step(t) \/ Interrupt(t)

\* The host runs every thread that can run; it owes nobody an interrupt.
Fairness == \A t \in Thread : WF_vars(Step(t))

-----------------------------------------------------------------------------
\* Properties

\* A core that has the set lock exclusively (cache_cntlr.cc acquireLock and
\* acquireStackLock rely on it) is alone: no core holds it shared, and no other
\* has it exclusively.
ExclusiveIsAlone ==
    \A t, u \in Thread :
        t # u /\ thread[t].pc = "exclusive" => thread[u].pc \notin {"holds", "exclusive"}

\* Whatever the size of the queue and the order of pushes and pops, the
\* elements come out in the order they went in, none lost or seen twice, and
\* the ring never holds more than it has room for.
QueueIsFifo ==
    /\ Len(popped) <= Len(pushed)
    /\ \A i \in DOMAIN popped : popped[i] = pushed[i]
    /\ Len(pushed) - Len(popped) <= config.size

\* Nobody leaves Barrier::wait for the n-th time before every thread has come
\* to it for the n-th time.
Left(t) == Len(config.prog[t]) - Len(thread[t].todo)
Arrived(t) == Left(t) + (IF thread[t].pc = "call" THEN 0 ELSE 1)
BarrierLeavesTogether ==
    config.kind = "barrier" => \A t, u \in Thread : Left(t) <= Arrived(u)

\* Every call returns: no wake-up is lost between the release of the Lock and
\* FUTEX_WAIT, no thread sleeps while what it waits for is there, and no order
\* of upgrades and exclusive requests blocks for ever.  (Every program makes as
\* many signals as waits, and as many pushes as pops.)
EveryCallReturns == <>(\A t \in Thread : thread[t].todo = <<>>)
=============================================================================
