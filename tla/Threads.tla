------------------------------- MODULE Threads -------------------------------
(***************************************************************************)
(* The threads of a simulated program that uses mutexes, condition         *)
(* variables, barriers, futexes, sleeps and joins at the same time: the    *)
(* servers of SyncServer and SyscallServer over one thread manager.        *)
(***************************************************************************)
EXTENDS SyncServer, SyscallServer

vars == <<threadVars, syncVars, futexVars>>

Init == ThreadInit /\ SyncInit /\ SyscallInit

Synchronize(t) ==
    /\ owes[t] = NoFutex
    /\ \/ \E m \in Mutex : \/ MutexLock(t, m)
                           \/ MutexTrylock(t, m)
                           \/ MutexUnlock(t, m)
       \/ \E c \in Cond : \/ \E m \in Mutex : CondWait(t, c, m)
                          \/ CondSignal(t, c)
                          \/ CondBroadcast(t, c)
       \/ \E b \in Barrier : BarrierWait(t, b)
    /\ UNCHANGED futexVars

Timeouts == IF Uses("timeout") THEN 1 .. Never ELSE {Never}

FutexCall(t) ==
    /\ \E f \in Futex \cap profile :
         \/ Store(t, f)
         \/ \E timeout \in Timeouts : FutexWait(t, f, timeout)
         \/ \E n \in {1, All} : FutexWake(t, f, n)
         \/ \E g \in Futex \cap profile : \/ \E b \in BOOLEAN : FutexWakeOp(t, f, g, b)
                                       \/ FutexCmpRequeue(t, f, g)
    /\ UNCHANGED syncVars

SleepCall(t) ==
    /\ \E wake \in 1 .. MaxTime : HandleSleepCall(t, wake)
    /\ UNCHANGED syncVars

Spawn(t) ==
    /\ \E u \in Thread : SpawnThread(t, u)
    /\ UNCHANGED <<syncVars, futexVars>>

Start(t) ==
    /\ OnThreadStart(t)
    /\ UNCHANGED <<syncVars, futexVars>>

Join(t) ==
    /\ owes[t] = NoFutex
    /\ \E u \in Thread : JoinThread(t, u)
    /\ UNCHANGED <<syncVars, futexVars>>

\* A thread that holds no mutex exits; the C library may have asked for its
\* thread id to be cleared at f, where another thread waits for that.
Exit(t) ==
    /\ Uses("exit")
    /\ held[t] = {}
    /\ owes[t] = NoFutex
    /\ \/ /\ OnThreadExit(t, {})
          /\ UNCHANGED futexVars
       \/ \E f \in Futex :
            /\ waiting[f] # <<>>
            /\ OnThreadExit(t, Woken(f, 1))
            /\ waiting' = [waiting EXCEPT ![f] = Left(f, 1)]
            /\ msg' = Told(Woken(f, 1), TRUE)
            /\ UNCHANGED <<sleeping, word, owes, now>>
    /\ UNCHANGED syncVars

\* The message of a wake-up is not read again once the call has returned.
Return(t) ==
    /\ ReturnHolding(t)
    /\ msg' = Told({t}, TRUE)
    /\ UNCHANGED <<waiting, sleeping, word, owes, now>>

Tick == FutexPeriodic /\ UNCHANGED syncVars

Next ==
    /\ failed = {}
    /\ \/ Tick
       \/ \E t \in Thread :
            \/ Synchronize(t)
            \/ FutexCall(t)
            \/ SleepCall(t)
            \/ Spawn(t)
            \/ Start(t)
            \/ Join(t)
            \/ Exit(t)
            \/ Return(t)

Spec == Init /\ [][Next]_vars

\* Signalled threads get the lock of the thread manager again, barriers follow
\* each other, and new threads start.
Fairness ==
    /\ WF_vars(Tick)
    /\ \A t \in Thread :
         /\ WF_vars(Start(t))
         /\ WF_vars(Return(t))

FairSpec == Spec /\ Fairness

-----------------------------------------------------------------------------
(* Properties.                                                              *)

\* Where threads wait to be resumed, and who waits there.
Queue ==
    ({"mutex"} \X Mutex) \cup ({"cond"} \X Cond) \cup ({"barrier"} \X Barrier)
      \cup ({"futex"} \X Futex) \cup ({"sleep"} \X {NoFutex}) \cup ({"join"} \X Thread)

Line(q) ==
    CASE q[1] = "mutex"   -> ToSet(mWaiting[q[2]])
      [] q[1] = "cond"    -> ThreadsOf(cWaiting[q[2]])
      [] q[1] = "barrier" -> ToSet(bWaiting[q[2]])
      [] q[1] = "futex"   -> ThreadsOf(waiting[q[2]])
      [] q[1] = "sleep"   -> ThreadsOf(sleeping)
      [] q[1] = "join"    -> {waiter[q[2]]} \ {NoThread}

\* Nobody is forgotten: a thread is blocked exactly if it stands in one queue of
\* the servers, once, or joins a thread that will resume it; and it is STALLED.
NobodyForgotten ==
    /\ SyncOnce /\ FutexOnce
    /\ \A t \in Thread : t \in blocked <=> status[t] = "STALLED"
    /\ \A t \in Thread :
         IF t \in blocked THEN \E q \in Queue : \A r \in Queue : t \in Line(r) <=> r = q
                          ELSE \A q \in Queue : t \notin Line(q)

\* No wake-up is missed: whoever waits at a futex that has been set, and was not moved
\* there, will be woken by the thread that has set it and not yet called FUTEX_WAKE.
NoMissedWake ==
    \A f \in Futex : \A i \in DOMAIN waiting[f] :
        /\ ~waiting[f][i].moved
        /\ word[f] = 1
        => \E t \in Thread : owes[t] = f

\* "Application has deadlocked" is said only when no thread can ever go on: all
\* are blocked or have ended, and none has a timeout.
DeadlockIsReal ==
    "Application has deadlocked" \in failed =>
        \A t \in Thread :
            /\ status[t] \in {"UNUSED", "IDLE", "STALLED"}
            /\ pending[t].reason \in {"FUTEX", "SLEEP"} =>
                  pending[t].object = Never

\* A mutex as a lock with a line: the owner stands before those who wait.
LockLine == [m \in Mutex |-> IF owner[m] = NoThread THEN <<>> ELSE <<owner[m]>> \o mWaiting[m]]
Inside == [m \in Mutex |-> {t \in Thread : m \in held[t]}]
Fifo == INSTANCE FifoLock WITH line <- LockLine, inside <- Inside

\* Each mutex is a lock that serves its callers in the order in which they came.
MutexIsFifo == Fifo!Spec

\* A call with a timeout comes back, unless the last thread to run has exited.
TimeoutsHappen ==
    \A t \in Thread :
        /\ ~Uses("exit")
        /\ pending[t].reason \in {"FUTEX", "SLEEP"}
        /\ pending[t].object # Never
        ~> pending[t] = NoCall
=============================================================================
