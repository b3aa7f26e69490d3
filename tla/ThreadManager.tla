---------------------------- MODULE ThreadManager ----------------------------
(***************************************************************************)
(* The thread manager (system/thread_manager.cc) as the synchronization    *)
(* servers see it: the status of each thread, and who is blocked on its    *)
(* own condition variable (core/thread.h: Thread::wait, Thread::signal).   *)
(*                                                                         *)
(* Every operation runs under m_thread_lock, so it is one step; a blocked  *)
(* thread that is signalled comes back from its call in a step of its own, *)
(* ReturnFromCall.  Simulated time is left out where no decision depends   *)
(* on it; cores and the clock-skew barrier are in BarrierSyncServer.       *)
(***************************************************************************)
EXTENDS Integers, Sequences, FiniteSets, FiniteSetsExt, SequencesExt

CONSTANTS Thread,    \* thread identifiers
          NoThread,  \* INVALID_THREAD_ID
          Main,      \* the thread that runs first
          Profiles   \* for each program, the operations and futexes it uses

ASSUME ThreadAssumption ==
    /\ IsFiniteSet(Thread)
    /\ NoThread \notin Thread
    /\ Main \in Thread

VARIABLES
    status,    \* m_thread_state[t].status; "UNUSED" before createThread
    waiter,    \* m_thread_state[t].waiter: the thread that joins t
    blocked,   \* threads in Thread::wait
    advancing, \* a thread is in stallThread's loop around advance()
    profile,   \* the operations this program uses
    pending,   \* what each thread's current call waits for: see NoCall
    failed     \* assertions that failed

threadVars == <<status, waiter, blocked, advancing, profile, pending, failed>>

\* No call, or the reason of the stall (stalled_reason) with the object waited
\* for: a mutex, a barrier, the thread joined, or the timeout of a futex or sleep.
NoCall == [reason |-> "none"]
Call(reason, object) == [reason |-> reason, object |-> object]

ThreadInit ==
    /\ status = [t \in Thread |-> IF t = Main THEN "RUNNING" ELSE "UNUSED"]
    /\ waiter = [t \in Thread |-> NoThread]
    /\ blocked = {}
    /\ advancing = FALSE
    /\ profile \in Profiles
    /\ pending = [t \in Thread |-> NoCall]
    /\ failed = {}

-----------------------------------------------------------------------------
\* The thread is executing the program.  (After a join that returned too early
\* it does so while it is marked STALLED.)
Executing(t) ==
    /\ ~advancing
    /\ t \notin blocked
    /\ status[t] \in {"RUNNING", "STALLED"}
    /\ pending[t] = NoCall

Uses(op) == op \in profile

AnyThreadRunning(st) == \E t \in Thread : st[t] \in {"RUNNING", "INITIALIZING"}

\* stallThread: the thread is marked, blocks, and if nobody runs any more it
\* keeps the lock and lets the barrier advance time.
StallThread(t, call, wake) ==
    /\ status' = [u \in Thread |-> IF u = t THEN "STALLED"
                                   ELSE IF u \in wake THEN "RUNNING" ELSE status[u]]
    /\ blocked' = (blocked \ wake) \cup {t}
    /\ pending' = [pending EXCEPT ![t] = call]
    /\ advancing' = ~AnyThreadRunning(status')
    /\ UNCHANGED <<waiter, profile, failed>>

\* resumeThread, for each thread of wake.
ResumeThreads(wake) ==
    /\ status' = [u \in Thread |-> IF u \in wake THEN "RUNNING" ELSE status[u]]
    /\ blocked' = blocked \ wake
    /\ advancing' = (advancing /\ wake = {})
    /\ UNCHANGED <<waiter, profile, pending, failed>>

\* A call that went on without blocking.
NoStall == UNCHANGED threadVars

Check(holds, name) == IF holds THEN {} ELSE {name}

\* The threads in a queue of waiters with their mutex or timeout.
ThreadsOf(q) == {q[i].thread : i \in DOMAIN q}
OnceEach(q) == \A i, j \in DOMAIN q : q[i].thread = q[j].thread => i = j

-----------------------------------------------------------------------------
\* spawnThread, createThread_unlocked.
SpawnThread(t, u) ==
    /\ Executing(t)
    /\ status[u] = "UNUSED"
    /\ status' = [status EXCEPT ![u] = "INITIALIZING"]
    /\ UNCHANGED <<waiter, blocked, advancing, profile, pending, failed>>

\* onThreadStart signals whoever waits for the thread.  A thread that joins it
\* is such a waiter: it is signalled but not resumed.
OnThreadStart(t) ==
    /\ ~advancing
    /\ status[t] = "INITIALIZING"
    /\ status' = [status EXCEPT ![t] = "RUNNING"]
    /\ blocked' = blocked \ {waiter[t]}
    /\ waiter' = [waiter EXCEPT ![t] = NoThread]
    /\ UNCHANGED <<advancing, profile, pending, failed>>

\* joinThread.  A program whose threads are all known to have started does not
\* use "early_join".
JoinThread(t, u) ==
    /\ Executing(t)
    /\ Uses("join")
    /\ t # u
    /\ status[u] \notin {"UNUSED", "IDLE"}
    /\ status[u] = "INITIALIZING" => Uses("early_join")
    /\ waiter[u] = NoThread   \* programs join a thread once
    /\ waiter' = [waiter EXCEPT ![u] = t]
    /\ status' = [status EXCEPT ![t] = "STALLED"]
    /\ blocked' = blocked \cup {t}
    /\ pending' = [pending EXCEPT ![t] = Call("JOIN", u)]
    /\ advancing' = ~AnyThreadRunning(status')
    /\ UNCHANGED <<profile, failed>>

\* onThreadExit with wakeUpWaiter; woken are the threads that futexWake resumes
\* because the thread's id is cleared in memory (CLONE_CHILD_CLEARTID).
OnThreadExit(t, woken) ==
    /\ Executing(t)
    /\ LET wake == woken \cup ({waiter[t]} \ {NoThread})
       IN  /\ status' = [u \in Thread |-> IF u \in wake THEN "RUNNING"
                                          ELSE IF u = t THEN "IDLE" ELSE status[u]]
           /\ blocked' = blocked \ wake
    /\ waiter' = [waiter EXCEPT ![t] = NoThread]
    /\ failed' = failed \cup Check(status[t] = "RUNNING", "onThreadExit: RUNNING")
    /\ UNCHANGED <<advancing, profile, pending>>

\* Thread::wait returns: the call of t that blocked comes back to the program.
ReturnFromCall(t) ==
    /\ ~advancing
    /\ t \notin blocked
    /\ pending[t] # NoCall
    /\ pending' = [pending EXCEPT ![t] = NoCall]
    /\ UNCHANGED <<status, waiter, blocked, advancing, profile, failed>>
=============================================================================
