------------------------- MODULE BarrierSyncServer --------------------------
(***************************************************************************)
(* The clock-skew barrier (system/barrier_sync_server.cc) with its client  *)
(* (barrier_sync_client.cc) and the part of the thread manager             *)
(* (thread_manager.cc) that moves threads in and out of it.                *)
(*                                                                         *)
(* Every core carries one thread, as under the static scheduler, so a      *)
(* thread is named by its core.  All operations run under the thread       *)
(* manager's lock, so each is one step, except for barrierRelease: its     *)
(* loop calls HOOK_PERIODIC, which wakes sleeping threads, and one step of *)
(* the model is one turn of it, taken while `busy' holds the lock.         *)
(*                                                                         *)
(* Detailed mode only: m_fastforward is false and no SMT groups are set.   *)
(***************************************************************************)
EXTENDS Integers, FiniteSets

CONSTANTS NumCores,       \* application cores
          NumHostCores,   \* threads restarted at once after a barrier
          Interval,       \* m_barrier_interval
          MaxStep,        \* longest advance of a core between two synchronize()
          RescheduleCost, \* perf_model/sync/reschedule_cost
          MaxTime,        \* bound: a core whose clock passes it only exits
          MaxBarrier,     \* bound: barrierRelease makes no turn beyond it
          Env             \* what threads do besides computing: a subset of
                          \* {"spawn", "wait", "sleep", "syscall", "disable"}

ASSUME BarrierAssumption ==
    /\ NumCores \in Nat \ {0}
    /\ NumHostCores \in Nat \ {0}
    /\ Interval \in Nat \ {0}
    /\ MaxStep \in Nat \ {0}
    /\ RescheduleCost \in 0 .. MaxStep
    /\ MaxTime \in Nat
    /\ MaxBarrier \in Nat

Core == 0 .. NumCores - 1

VARIABLES
    \* The threads
    status,      \* m_thread_state[c].status; "UNUSED" before createThread
    at,          \* where the thread is: see Place
    clock,       \* elapsed time of the core's performance model
    wakeup,      \* when the sleep, system call or start of c ends, or 0
    nextSync,    \* m_next_sync_time of the BarrierSyncClient
    \* The barrier
    localClock,  \* m_local_clock_list
    acquired,    \* cores set in m_barrier_acquire_list
    toRelease,   \* cores in m_to_release, which is shuffled
    nextBarrier, \* m_next_barrier_time
    globalTime,  \* m_global_time
    disabled,    \* m_disable
    \* The thread in the middle of barrierRelease or stallThread, and assertions
    busy, failed

threadVars == <<status, at, clock, wakeup, nextSync>>
barrierVars == <<localClock, acquired, toRelease, nextBarrier, globalTime,
                 disabled>>
vars == <<threadVars, barrierVars, busy, failed>>

Status == {"UNUSED", "INITIALIZING", "RUNNING", "STALLED", "IDLE"}

\* Executing; waiting on m_core_cond; waiting on the thread's own condition
\* variable, without or with a timeout; in a system call of the host, or on the
\* way out of one.
Place == {"run", "barrier", "wait", "sleep", "syscall", "return"}

Assertions == {"synchronize: already in the barrier",
               "barrierRelease: m_to_release", "Application has deadlocked"}

\* What the lock's holder is doing: nothing; barrierRelease called by
\* synchronize, by the hooks of a stall or an exit, or by advance(); or the test
\* of stallThread's loop.
Free == [doing |-> "nothing", core |-> 0]
Busy == [doing : {"nothing", "synchronize", "stall", "syscall", "exit", "advance",
                  "test"},
         core : Core]

TypeOK ==
    /\ status \in [Core -> Status]
    /\ at \in [Core -> Place]
    /\ clock \in [Core -> Nat]
    /\ wakeup \in [Core -> Nat]
    /\ nextSync \in [Core -> Nat]
    /\ localClock \in [Core -> Nat]
    /\ acquired \subseteq Core
    /\ toRelease \subseteq Core
    /\ nextBarrier \in Nat
    /\ globalTime \in Nat
    /\ disabled \in BOOLEAN
    /\ busy \in Busy
    /\ failed \subseteq Assertions

Init ==
    /\ status = [c \in Core |-> IF "spawn" \in Env /\ c # 0 THEN "UNUSED"
                                                            ELSE "RUNNING"]
    /\ at = [c \in Core |-> "run"]
    /\ clock = [c \in Core |-> 0]
    /\ wakeup = [c \in Core |-> 0]
    /\ nextSync = [c \in Core |-> Interval]
    /\ localClock = [c \in Core |-> 0]
    /\ acquired = {}
    /\ toRelease = {}
    /\ nextBarrier = Interval
    /\ globalTime = 0
    /\ disabled = FALSE
    /\ busy = Free
    /\ failed = {}

-----------------------------------------------------------------------------
(* Building blocks.                                                         *)

Executing(c) == status[c] = "RUNNING" /\ at[c] = "run"

\* The thread is between instructions: iterate() calls synchronize after each
\* one, so the thread goes on only when no synchronization is due.
Synced(c) ==
    /\ busy = Free
    /\ Executing(c)
    /\ clock[c] < nextSync[c]

Ready(c) == Synced(c) /\ clock[c] < MaxTime

Later(s, t) == IF s > t THEN s ELSE t

Check(holds, name) == IF holds THEN {} ELSE {name}

\* Mutant: one core is enough.
IsBarrierReachedByOne(s, l) ==
    \E c \in Core : s[c] = "RUNNING" /\ l[c] >= nextBarrier

\* isBarrierReached, for the statuses and clocks s and l.
IsBarrierReached(s, l) ==
    /\ \E c \in Core : s[c] = "RUNNING"
    /\ \A c \in Core : s[c] = "RUNNING" => l[c] >= nextBarrier

\* Mutant: only threads that start are counted.
AnyThreadStarting(s) == \E c \in Core : s[c] = "INITIALIZING"

\* ThreadManager::anyThreadRunning.
AnyThreadRunning(s) == \E c \in Core : s[c] \in {"RUNNING", "INITIALIZING"}

\* doRelease(n): some n of the cores waiting to be restarted, or all of them.
DoRelease(waiting, n) ==
    {S \in SUBSET waiting :
        Cardinality(S) = IF Cardinality(waiting) < n THEN Cardinality(waiting) ELSE n}

\* The threads of S leave the condition variables they wait on.
Restart(S, places) == [c \in Core |-> IF c \in S THEN "run" ELSE places[c]]

\* resumeThread: the threads of S run again, at time t.  st are the statuses.
ResumeThreads(S, t, st) ==
    /\ status' = [c \in Core |-> IF c \in S THEN "RUNNING" ELSE st[c]]
    /\ clock' = [c \in Core |-> IF c \in S THEN Later(clock[c], t) ELSE clock[c]]
    /\ wakeup' = [c \in Core |-> IF c \in S THEN 0 ELSE wakeup[c]]

\* Threads another thread can wake, and what applyRescheduleCost adds: nothing
\* for a join, or before the first instruction.
Stalled == {c \in Core : at[c] \in {"wait", "sleep"}}
Costs == {0, RescheduleCost}

\* The assertion at the start of barrierRelease.
AllRestarted(waiting) == Check(waiting = {}, "barrierRelease: m_to_release")

-----------------------------------------------------------------------------
(* Threads.                                                                 *)

\* A core simulates instructions.
Execute(c) ==
    /\ Ready(c)
    /\ \E d \in 1 .. MaxStep : clock' = [clock EXCEPT ![c] = @ + d]
    /\ UNCHANGED <<status, at, wakeup, nextSync, barrierVars, busy, failed>>

\* BarrierSyncClient::synchronize: what it does on return depends only on the
\* time at which it was called.
NextSync(t) == (t \div Interval) * Interval + Interval

Synchronize(c) ==
    /\ busy = Free
    /\ Executing(c)
    /\ clock[c] >= nextSync[c]
    /\ nextSync' = [nextSync EXCEPT ![c] = NextSync(clock[c])]
    /\ LET errors == Check(disabled \/ c \notin acquired,
                            "synchronize: already in the barrier")
       IN  IF disabled \/ clock[c] < nextBarrier
           THEN /\ failed' = failed \cup errors
                /\ UNCHANGED <<at, localClock, acquired, toRelease, busy>>
           ELSE \E S \in DoRelease(toRelease, 1) :
                  /\ toRelease' = toRelease \ S
                  /\ localClock' = [localClock EXCEPT ![c] = clock[c]]
                  /\ acquired' = acquired \cup {c}
                  /\ at' = Restart(S, [at EXCEPT ![c] = "barrier"])
                  /\ IF IsBarrierReached(status, localClock')
                     THEN /\ busy' = [doing |-> "synchronize", core |-> c]
                          /\ failed' = failed \cup errors \cup AllRestarted(toRelease')
                     ELSE /\ failed' = failed \cup errors
                          /\ UNCHANGED busy
    /\ UNCHANGED <<status, clock, wakeup, nextBarrier, globalTime, disabled>>

\* Mutant: no other thread is restarted in its place.
StopRunningWithoutRelease(c, places, doing, next) ==
    /\ at' = places
    /\ IF ~disabled /\ IsBarrierReached(status', localClock)
       THEN /\ busy' = [doing |-> doing, core |-> c]
            /\ failed' = failed \cup AllRestarted(toRelease)
       ELSE /\ busy' = next
            /\ UNCHANGED failed
    /\ UNCHANGED <<toRelease, nextSync, localClock, acquired, nextBarrier,
                   globalTime, disabled>>

\* releaseThread and signal, the hooks of a stall and of an exit: thread c, which
\* is not in the barrier, stops running; places are then those of the threads.
\* The holder of the lock goes on with next, after barrierRelease if the others
\* only waited for c.
StopRunning(c, places, doing, next) ==
    \E S \in DoRelease(toRelease, 1) :
       /\ toRelease' = toRelease \ S
       /\ at' = Restart(S, places)
       /\ IF ~disabled /\ IsBarrierReached(status', localClock)
          THEN /\ busy' = [doing |-> doing, core |-> c]
               /\ failed' = failed \cup AllRestarted(toRelease')
          ELSE /\ busy' = next
               /\ UNCHANGED failed
       /\ UNCHANGED <<nextSync, localClock, acquired, nextBarrier, globalTime,
                      disabled>>

Test(c) == [doing |-> "test", core |-> c]

\* stallThread: on a mutex, condition, join or futex without a timeout ...
Wait(c) ==
    /\ "wait" \in Env
    /\ Ready(c)
    /\ status' = [status EXCEPT ![c] = "STALLED"]
    /\ UNCHANGED <<clock, wakeup>>
    /\ StopRunning(c, [at EXCEPT ![c] = "wait"], "stall", Test(c))

\* ... in nanosleep, or on a futex with a timeout ...
Sleep(c) ==
    /\ "sleep" \in Env
    /\ Ready(c)
    /\ status' = [status EXCEPT ![c] = "STALLED"]
    /\ \E d \in 1 .. MaxStep : wakeup' = [wakeup EXCEPT ![c] = clock[c] + d]
    /\ UNCHANGED clock
    /\ StopRunning(c, [at EXCEPT ![c] = "sleep"], "stall", Test(c))

\* ... or stallThread_async, when a system call blocks on the host.
SyscallEnter(c) ==
    /\ "syscall" \in Env
    /\ Ready(c)
    /\ status' = [status EXCEPT ![c] = "STALLED"]
    /\ UNCHANGED <<clock, wakeup>>
    /\ StopRunning(c, [at EXCEPT ![c] = "syscall"], "syscall", Free)

\* The call returns: SyscallMdl::runExit reads the time before it takes the lock
SyscallReturn(c) ==
    /\ at[c] = "syscall"
    /\ at' = [at EXCEPT ![c] = "return"]
    /\ wakeup' = [wakeup EXCEPT ![c] = nextBarrier]
    /\ UNCHANGED <<status, clock, nextSync, barrierVars, busy, failed>>

\* and resumes the thread under it.
SyscallExit(c) ==
    /\ busy = Free
    /\ at[c] = "return"
    /\ ResumeThreads({c}, wakeup[c], status)
    /\ at' = [at EXCEPT ![c] = "run"]
    /\ UNCHANGED <<nextSync, barrierVars, busy, failed>>

\* resumeThread by another thread.
Resume(c, by) ==
    /\ Ready(by)
    /\ c \in Stalled
    /\ \E cost \in Costs : ResumeThreads({c}, clock[by] + cost, status)
    /\ at' = [at EXCEPT ![c] = "run"]
    /\ UNCHANGED <<nextSync, barrierVars, busy, failed>>

\* spawnThread, then onThreadStart in the new thread, with its migrate hook.
Spawn(c, by) ==
    /\ Ready(by)
    /\ status[c] = "UNUSED"
    /\ status' = [status EXCEPT ![c] = "INITIALIZING"]
    /\ wakeup' = [wakeup EXCEPT ![c] = clock[by]]
    /\ UNCHANGED <<at, clock, nextSync, barrierVars, busy, failed>>

Start(c) ==
    /\ busy = Free
    /\ status[c] = "INITIALIZING"
    /\ ResumeThreads({c}, wakeup[c], status)
    /\ \E S \in DoRelease(toRelease, 1) :
         /\ toRelease' = toRelease \ S
         /\ at' = Restart(S, at)
    /\ UNCHANGED <<nextSync, localClock, acquired, nextBarrier, globalTime,
                   disabled, busy, failed>>

\* onThreadExit wakes a thread that joins c and one that waits for its thread id
\* to be cleared, or one of them, or none.
Exit(c) ==
    /\ Synced(c)
    /\ \E S \in SUBSET Stalled, cost \in Costs :
         /\ Cardinality(S) <= 2
         /\ ResumeThreads(S, clock[c] + cost, [status EXCEPT ![c] = "IDLE"])
         /\ StopRunning(c, Restart(S, at), "exit", Free)

\* setInstrumentationMode from a magic instruction: setDisable, abortBarrier.
SetDisable(by) ==
    /\ "disable" \in Env
    /\ Ready(by)
    /\ disabled' = ~disabled
    /\ IF disabled' THEN /\ acquired' = {}
                         /\ at' = Restart(acquired, at)
                    ELSE UNCHANGED <<acquired, at>>
    /\ UNCHANGED <<status, clock, wakeup, nextSync, localClock, toRelease,
                   nextBarrier, globalTime, busy, failed>>

-----------------------------------------------------------------------------
(* The holder of the lock.                                                  *)

Releasing == busy.doing \in {"synchronize", "stall", "syscall", "exit", "advance"}

\* Mutant: the thread that stalls is not known any more.
AfterReleaseOfNobody ==
    IF busy.doing \in {"stall", "advance"} THEN [doing |-> "test", core |-> -1]
                                          ELSE Free

\* Where the holder goes when barrierRelease returns.
AfterRelease ==
    IF busy.doing \in {"stall", "advance"} THEN Test(busy.core) ELSE Free

\* HOOK_PERIODIC.  futexPeriodic wakes one sleeper that is due and one waiter
\* that is due on each futex: some of the threads that are due, if there are any.
\* A script may change the instrumentation mode.
Due == {c \in Core : at[c] = "sleep" /\ wakeup[c] <= nextBarrier}
Woken == IF Due = {} THEN {{}} ELSE (SUBSET Due) \ {{}}
Switch == IF "disable" \in Env THEN BOOLEAN ELSE {disabled}

\* The caller of barrierRelease, if it is in the barrier itself.
Caller == IF busy.doing = "synchronize" THEN {busy.core} ELSE {}

\* barrierRelease returns from the loop: advance() woke a thread, or the barrier
\* is disabled.  places are those of the threads after the hook.
ReturnEarly(places) ==
    /\ at' = Restart(Caller, places)
    /\ busy' = AfterRelease
    /\ UNCHANGED <<toRelease, nextBarrier>>

\* Mutant: cores beyond NumHostCores are not kept in m_to_release.
FreeCoresForgotten(places, waiting) ==
    LET next == nextBarrier + Interval
        freed == {c \in waiting : localClock[c] < next}
    IN  /\ nextBarrier' = next
        /\ acquired' = waiting \ freed
        /\ busy' = IF freed = {} THEN busy ELSE AfterRelease
        /\ toRelease' = {}
        /\ \E S \in DoRelease(freed \ Caller, NumHostCores) :
             at' = Restart(S \cup (freed \cap Caller), places)

\* The rest of the turn: freed are the cores in waiting that leave the barrier.
\* The caller of synchronize goes on without waiting; the loop ends when a core
\* was freed.
FreeCores(places, waiting) ==
    LET next == nextBarrier + Interval
        freed == {c \in waiting : localClock[c] < next}
    IN  /\ nextBarrier' = next
        /\ acquired' = waiting \ freed
        /\ busy' = IF freed = {} THEN busy ELSE AfterRelease
        /\ \E S \in DoRelease(freed \ Caller, NumHostCores) :
             /\ toRelease' = (freed \ Caller) \ S
             /\ at' = Restart(S \cup (freed \cap Caller), places)

\* One turn of the loop in barrierRelease.
ReleaseTurn ==
    /\ Releasing
    /\ nextBarrier <= MaxBarrier
    /\ globalTime' = nextBarrier
    /\ \E W \in Woken, off \in Switch :
         LET woke == busy.doing = "advance" /\ W # {}
             waiting == IF off THEN {} ELSE acquired  \* abortBarrier
             places == Restart(W \cup (acquired \ waiting), at)
         IN  /\ ResumeThreads(W, nextBarrier, status)
             /\ disabled' = off
             /\ failed' = failed \cup
                  Check(\/ busy.doing # "advance"
                         \/ \E c \in Core : at[c] = "sleep",
                         "Application has deadlocked")
             /\ IF woke \/ off
                THEN acquired' = waiting /\ ReturnEarly(places)
                ELSE FreeCores(places, waiting)
    /\ UNCHANGED <<nextSync, localClock>>

\* The loop of stallThread around advance().
StallTest ==
    /\ busy.doing = "test"
    /\ IF AnyThreadRunning(status)
       THEN busy' = Free /\ UNCHANGED failed
       ELSE /\ busy' = [doing |-> "advance", core |-> busy.core]
            /\ failed' = failed \cup AllRestarted(toRelease)
    /\ UNCHANGED <<threadVars, barrierVars>>

-----------------------------------------------------------------------------
LockHolder == ReleaseTurn \/ StallTest

Thread(c) ==
    \/ Execute(c)
    \/ Synchronize(c)
    \/ SyscallExit(c)
    \/ Start(c)

\* What the simulated program decides.
Program(c) ==
    \/ Wait(c)
    \/ Sleep(c)
    \/ SyscallEnter(c)
    \/ SyscallReturn(c)
    \/ Exit(c)
    \/ SetDisable(c)
    \/ \E by \in Core : Resume(c, by) \/ Spawn(c, by)

\* A failed assertion ends the simulation.
Next ==
    /\ failed = {}
    /\ \/ LockHolder
       \/ \E c \in Core : Thread(c) \/ Program(c)

Spec == Init /\ [][Next]_vars

\* The host runs every thread and grants it the lock again and again, and every
\* simulated thread comes to an end (at MaxTime).
Fairness ==
    /\ WF_vars(LockHolder)
    /\ \A c \in Core : /\ SF_vars(Thread(c))
                       /\ SF_vars(clock[c] >= MaxTime /\ Exit(c))

FairSpec == Spec /\ Fairness

-----------------------------------------------------------------------------
(* Properties.                                                              *)

\* The assertions of synchronize and barrierRelease hold: no thread enters the
\* barrier twice, and a barrier is not reached while threads of the previous one
\* still wait to be restarted.  A program all of whose threads wait for each
\* other is reported as deadlocked.
AssertionsHold == failed \subseteq {"Application has deadlocked"}

\* No wakeup is lost: exactly the threads that wait on m_core_cond are in the
\* barrier's list or in m_to_release, and they are all RUNNING.
NoLostWakeup ==
    \A c \in Core :
        /\ at[c] = "barrier" <=> c \in acquired \cup toRelease
        /\ at[c] = "barrier" => status[c] = "RUNNING"

\* The quantum bounds the skew: between barriers, threads execute at most one
\* interval behind the next barrier and less than one step ahead of it.
SkewBounded ==
    \A c \in Core : Executing(c) =>
        /\ clock[c] >= nextBarrier - Interval
        /\ clock[c] < nextBarrier + MaxStep

\* The thread manager's lock is not held for ever.
LockIsReleased == busy # Free ~> busy = Free

\* A thread in the barrier is released, and a thread picked to be restarted is.
BarrierOpens ==
    \A c \in Core : at[c] = "barrier" ~> at[c] # "barrier"

\* Computing, waiting and sleeping threads never stop the simulation: the lock of the
\* thread manager comes free, and every thread gets out of the barrier.
BarrierProgresses == LockIsReleased /\ BarrierOpens
=============================================================================
