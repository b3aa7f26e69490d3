------------------------------ MODULE SmtTimer ------------------------------
(***************************************************************************)
(* The barrier between the hardware contexts of one SMT core (smt_timer.cc,*)
(* rob_smt_performance_model.cc).  Every context has a host thread that    *)
(* pushes instructions into the context's reorder buffer; a thread that is *)
(* far enough ahead waits until all running siblings are, then ONE of them *)
(* executes for all and takes the group through the global barrier.  The   *)
(* lock m_lock is given up while a thread waits on its condition variable  *)
(* and during client->synchronize(): between those points a step here is   *)
(* one critical section of m_lock.                                         *)
(***************************************************************************)
EXTENDS Naturals, FiniteSets, FiniteSetsExt

CONSTANTS NumContexts,  \* m_threads.size(): contexts are 0 .. NumContexts - 1
          Thread,       \* application threads
          Enough,       \* stands for 2 * dispatchWidth
          Limit,        \* stands for the 128 of SmtTimer::simulate
          MaxSurplus,   \* bound: uops pushed and not dispatched, per context
          NoThread, NoContext

\* What the constants may be.
SmtConstants ==
    /\ NumContexts \in Nat \ {0}
    /\ {Enough, Limit, MaxSurplus} \subseteq Nat
    /\ Enough <= Limit /\ Limit < MaxSurplus
    /\ NoThread \notin Thread
    /\ NoContext \notin 0 .. NumContexts - 1

VARIABLES context,  \* m_threads: thread, running, in_barrier
          surplus,  \* threadNumSurplusInstructions, per context
          timer,    \* in_sync, enabled, execute_thread; hung: see BarrierRelease;
                    \* failed: the assertion of barrier(); lost: see Barrier and SyncDone
          host      \* per application thread: where its host thread is, the context whose
                    \* model it uses, and whether it was given a core of another group
vars == <<context, surplus, timer, host>>

Context == 0 .. NumContexts - 1
IdleContext == [thread |-> NoThread, running |-> FALSE, inBarrier |-> FALSE]

Init ==
    /\ context = [h \in Context |-> IdleContext]
    /\ surplus = [h \in Context |-> 0]
    /\ timer = [inSync |-> FALSE, enabled |-> TRUE, execute |-> 0,
                hung |-> FALSE, failed |-> FALSE, lost |-> FALSE]
    /\ host = [t \in Thread |-> [pc |-> "new", at |-> NoContext, out |-> FALSE]]

-----------------------------------------------------------------------------
\* The barrier, as operators on the contexts c and the surpluses s.

ContextOf(c, t) == {h \in Context : c[h].thread = t}
HasEnough(h) == surplus[h] > Enough
AllInBarrier(c) ==
    /\ \A h \in Context : c[h].running => c[h].inBarrier
    /\ \E h \in Context : c[h].inBarrier
IsBarrierReachedInSync(c) == AllInBarrier(c)
IsBarrierReached(c) == ~timer.inSync /\ AllInBarrier(c)

\* The first power of two above the surplus of one of the contexts of C, and
\* the contexts of C below it: what the loop "limit <<= 1" ends with.
Lowest(C) ==
    LET limit == CHOOSE l \in {2 ^ k : k \in 0 .. MaxSurplus} :
                    /\ \E h \in C : surplus[h] < l
                    /\ l = 1 \/ \A h \in C : surplus[h] >= l \div 2
    IN  {h \in C : surplus[h] < limit}

\* barrierRelease(release_all, me): the contexts it signals, whether the caller
\* is to go on, who executes next, and whether its second loop never ends (no
\* context runs and none that waits may be released).
BarrierRelease(c, all, me) ==
    LET wanted   == {h \in Context : c[h].inBarrier /\ ~HasEnough(h)}
        first    == IF all \/ wanted = {} THEN wanted ELSE {Min(wanted)}
        counted  == {h \in Context : /\ c[h].running
                                     /\ ~c[h].inBarrier \/ h \in first
                                     /\ all \/ first = {} \/ h <= Min(first)}
        waiting  == {h \in Context : c[h].inBarrier /\ c[h].running} \ (first \ {me})
        lowest   == IF counted # {} \/ waiting = {} THEN {} ELSE Lowest(waiting)
        second   == IF all \/ lowest = {} THEN lowest ELSE {Min(lowest)}
        released == first \cup second
    IN  [signalled |-> released \ {me},
         releaseMe |-> me \in released,
         execute   |-> IF all \/ released = {} THEN me
                       ELSE IF second # {} THEN Min(second) ELSE Min(first),
         hung      |-> counted = {} /\ waiting = {}]

\* thread->in_barrier = false; thread->cond.signal() for the contexts of S.  A signal
\* wakes a thread that waits there, and others only if they have not gone to sleep yet.
Signal(c, S) == [h \in Context |-> [c[h] EXCEPT !.inBarrier = @ /\ h \notin S]]
Woken(hs, S) ==
    LET waiters(h) == {t \in Thread : hs[t].pc = "waiting" /\ hs[t].at = h}
        all == UNION {waiters(h) : h \in S}
    IN  {[t \in Thread |-> IF t \in W THEN [hs[t] EXCEPT !.pc = "woken"] ELSE hs[t]] :
            W \in {V \in SUBSET all : \A h \in S : waiters(h) # {} => waiters(h) \cap V # {}}}

SignalBarrierNever(c, hs) == context' = c /\ host' = hs /\ UNCHANGED timer

\* The hook handlers end in signalBarrier() with contexts c and hosts hs.
SignalBarrier(c, hs) ==
    LET r == BarrierRelease(c, FALSE, NoContext)
    IN  IF IsBarrierReached(c)
        THEN /\ context' = Signal(c, r.signalled)
             /\ host' \in Woken(hs, r.signalled)
             /\ timer' = [timer EXCEPT !.execute = r.execute, !.hung = @ \/ r.hung]
        ELSE context' = c /\ host' = hs /\ UNCHANGED timer

-----------------------------------------------------------------------------
\* The scheduler.  It gives a context to a thread that could run and has no core; which
\* ones it may choose depends on affinities, so a context may also stay empty.
Free(h) == context[h].thread = NoThread
Runnable(t) ==
    /\ host[t].pc \notin {"new", "stalled", "done"}
    /\ ContextOf(context, t) = {} /\ ~host[t].out
Replaced(h, u) == [context EXCEPT ![h] = [thread |-> u, running |-> TRUE, inBarrier |-> FALSE]]
Emptied(h) == [context EXCEPT ![h] = IdleContext]
\* A thread that sleeps in Thread::reschedule is woken when it gets a core; the others
\* find out there.
Given(hs, u) == [hs EXCEPT ![u].pc = IF @ = "ready" THEN "check" ELSE @]
OffCore(pc) == [pc |-> pc, at |-> NoContext, out |-> FALSE]
Checks(hs, t) == [hs EXCEPT ![t].pc = "check", ![t].at = NoContext]
\* threadMigrate signals the barrier of a context that a thread leaves.
Left(hs, h) == Woken(hs, IF context[h].inBarrier THEN {h} ELSE {})

\* onThreadStart: HOOK_THREAD_START, then HOOK_THREAD_MIGRATE to its core.
ThreadStart(t, h) ==
    /\ host[t].pc = "new" /\ Free(h)
    /\ context' = Replaced(h, t)
    /\ host' = [host EXCEPT ![t] = [pc |-> "app", at |-> h, out |-> FALSE]]
    /\ UNCHANGED <<surplus, timer>>

\* A thread blocks or exits.  The scheduler has moved it off its core and another thread
\* in (threadMigrate), or left the core empty; then come HOOK_THREAD_STALL or
\* HOOK_THREAD_EXIT, which look again at the barrier.
LeavesCore(t, pc) ==
    LET gone == [host EXCEPT ![t] = OffCore(pc)]
    IN  /\ host[t].pc = "app"
        /\ \/ \E h \in ContextOf(context, t) : \E hs \in Left(gone, h) :
                  \/ \E u \in Thread : Runnable(u) /\ SignalBarrier(Replaced(h, u), Given(hs, u))
                  \/ SignalBarrier(Emptied(h), hs)
           \/ ContextOf(context, t) = {} /\ SignalBarrier(context, gone)
        /\ UNCHANGED surplus
ThreadStall(t) == LeavesCore(t, "stalled")
ThreadExit(t) == LeavesCore(t, "done")

\* The same under a scheduler that leaves the stalled thread its core.
ThreadStallInPlace(t) ==
    /\ host[t].pc = "app"
    /\ \E h \in ContextOf(context, t) :
          SignalBarrier([context EXCEPT ![h].running = FALSE], [host EXCEPT ![t] = OffCore("stalled")])
    /\ UNCHANGED surplus

\* threadResume: on the core it kept, on a free one, on one of another group, or unscheduled.
ThreadResume(t) ==
    /\ host[t].pc = "stalled"
    /\ \/ \E h \in ContextOf(context, t) :
             /\ context' = [context EXCEPT ![h].running = TRUE]
             /\ host' = Checks(host, t)
       \/ /\ ContextOf(context, t) = {}
          /\ \/ \E h \in Context : Free(h) /\ context' = Replaced(h, t)
                                   /\ host' = Checks(host, t)
             \/ \E o \in BOOLEAN : host' = [host EXCEPT ![t].pc = "check", ![t].out = o]
                                   /\ UNCHANGED context
    /\ UNCHANGED <<surplus, timer>>

\* The scheduler's periodic(), run inside the global barrier and therefore while a thread
\* of the group is in client->synchronize(), gives a context to a thread that has none, or
\* to nobody when its thread may no longer run there.  It may be the context of a thread
\* that waits in the barrier, of the one that executes, or of one in the application.
Preempt(h) ==
    /\ timer.inSync /\ context[h].running
    /\ \E hs \in Left(host, h) :
          \/ \E u \in Thread : /\ Runnable(u)
                               /\ context' = Replaced(h, u) /\ host' = Given(hs, u)
          \/ context' = Emptied(h) /\ host' = hs
    /\ UNCHANGED <<surplus, timer>>

\* A thread that has no core gets a context that is free, or a core outside the group.
Schedule(t) ==
    /\ Runnable(t)
    /\ \/ \E h \in Context : Free(h) /\ context' = Replaced(h, t) /\ host' = Given(host, t)
       \/ host' = [Given(host, t) EXCEPT ![t].out = TRUE] /\ UNCHANGED context
    /\ UNCHANGED <<surplus, timer>>

\* A thread of another group stalls or loses its core: the hook reaches this group too.
ComesBack(t) ==
    /\ host[t].pc = "away"
    /\ SignalBarrier(context, [host EXCEPT ![t] = OffCore("ready")])
    /\ UNCHANGED surplus

\* Thread::reschedule, after every instruction and system call: a thread goes on with the
\* model of the core it has now, or stalls until it has one.
Reschedule(t) ==
    /\ host[t].pc = "check"
    /\ \/ \E h \in ContextOf(context, t) :
             host' = [host EXCEPT ![t].pc = "app", ![t].at = h] /\ UNCHANGED <<context, timer>>
       \/ /\ host[t].out /\ host' = [host EXCEPT ![t].pc = "away", ![t].at = NoContext]
          /\ UNCHANGED <<context, timer>>
       \/ Runnable(t) /\ SignalBarrier(context, [host EXCEPT ![t] = OffCore("ready")])
    /\ UNCHANGED surplus

-----------------------------------------------------------------------------
\* RobSmtPerformanceModel::simulate: push the micro-ops of an instruction, to the model
\* of the context that was this thread's at its last Reschedule.
PushInstructions(t) ==
    LET h == host[t].at
    IN  /\ host[t].pc = "app"
        /\ \E n \in surplus[h] .. MaxSurplus :
              (n = surplus[h] => n = MaxSurplus) /\ surplus' = [surplus EXCEPT ![h] = n]
        /\ host' = [host EXCEPT ![t].pc = "pushed"]
        /\ UNCHANGED <<context, timer>>

\* execute(): cycles are simulated until a running context has fewer than
\* 2 * dispatchWidth micro-ops left; then the group synchronizes, unlocked.
Execute(t, c, hs) ==
    /\ \E s \in [Context -> 0 .. MaxSurplus] :
          /\ \A h \in Context : IF c[h].running THEN s[h] <= surplus[h]
                                ELSE s[h] = surplus[h]
          /\ \E h \in Context : c[h].running /\ s[h] < Enough
          /\ surplus' = s
    /\ context' = c
    /\ timer' = [timer EXCEPT !.inSync = TRUE, !.execute = NoContext]
    /\ host' = [hs EXCEPT ![t].pc = "sync"]

\* barrier() for context h: lost records that its thread is no longer t, which uses the
\* condition variable and the flag of somebody else.
Barrier(t, h) ==
    LET c == [context EXCEPT ![h].inBarrier = TRUE]
        r == BarrierRelease(c, FALSE, h)
        tm == [timer EXCEPT !.lost = @ \/ context[h].thread # t]
    IN  \/ /\ ~IsBarrierReached(c)
           /\ context' = c
           /\ host' = [host EXCEPT ![t].pc = "waiting"]
           /\ timer' = tm
           /\ UNCHANGED surplus
        \/ /\ IsBarrierReached(c) /\ ~r.releaseMe
           /\ context' = Signal(c, r.signalled)
           /\ \E hs \in Woken(host, r.signalled) : host' = [hs EXCEPT ![t].pc = "waiting"]
           /\ timer' = [tm EXCEPT !.execute = r.execute, !.hung = @ \/ r.hung]
           /\ UNCHANGED surplus
        \/ /\ IsBarrierReached(c) /\ r.releaseMe
           /\ \E hs \in Woken(host, r.signalled) : Execute(t, Signal(c, r.signalled \cup {h}), hs)

\* RobSmtPerformanceModel::synchronize -> SmtTimer::simulate -> barrier.
Simulate(t) ==
    LET h == host[t].at
    IN  /\ host[t].pc = "pushed"
        /\ \/ /\ surplus[h] <= Limit \/ ~timer.enabled
              /\ host' = Checks(host, t)
              /\ UNCHANGED <<context, surplus, timer>>
           \/ /\ surplus[h] > Limit /\ timer.enabled /\ Free(h)
              /\ timer' = [timer EXCEPT !.failed = TRUE]
              /\ UNCHANGED <<context, surplus, host>>
           \/ /\ surplus[h] > Limit /\ timer.enabled /\ ~Free(h)
              /\ Barrier(t, h)

\* barrier() returns in a thread that waited.
BarrierExit(t) ==
    /\ host[t].pc = "woken"
    /\ \/ /\ host[t].at = timer.execute
          /\ Execute(t, context, host)
       \/ /\ host[t].at # timer.execute
          /\ host' = Checks(host, t)
          /\ UNCHANGED <<context, surplus, timer>>

\* client->synchronize() has returned.  lost records that the context to release is this
\* thread's old one: its new thread, in the barrier already, is not signalled.
SyncDone(t) ==
    LET h == host[t].at
        r == BarrierRelease(context, TRUE, h)
    IN  /\ host[t].pc = "sync"
        /\ context' = Signal(context, r.signalled)
        /\ \E hs \in Woken(host, r.signalled) : host' = Checks(hs, t)
        /\ timer' = [timer EXCEPT !.inSync = FALSE, !.execute = r.execute, !.hung = @ \/ r.hung,
                                  !.lost = @ \/ (r.releaseMe /\ context[h].thread # t)]
        /\ UNCHANGED surplus

\* enableDetailedModel; disableDetailedModel, which empties the barrier.
Enable ==
    /\ ~timer.enabled
    /\ timer' = [timer EXCEPT !.enabled = TRUE]
    /\ UNCHANGED <<context, surplus, host>>
Disable ==
    /\ timer.enabled
    /\ timer' = [timer EXCEPT !.enabled = FALSE]
    /\ context' = Signal(context, Context)
    /\ host' \in Woken(host, {h \in Context : context[h].inBarrier})
    /\ UNCHANGED surplus

\* A thread that hangs in barrierRelease keeps m_lock, which every step needs; a failed
\* assertion ends the simulator.
Goes == ~timer.hung /\ ~timer.failed
HostStep(t) ==
    /\ Goes
    /\ \/ PushInstructions(t) \/ Simulate(t) \/ BarrierExit(t) \/ SyncDone(t)
       \/ Reschedule(t)
SchedulerStep(t) ==
    /\ Goes
    /\ \/ ThreadStall(t) \/ ThreadStallInPlace(t) \/ ThreadExit(t) \/ ThreadResume(t)
       \/ Schedule(t) \/ ComesBack(t) \/ \E h \in Context : ThreadStart(t, h)
Next ==
    \/ \E t \in Thread : HostStep(t) \/ SchedulerStep(t)
    \/ Goes /\ (Enable \/ Disable \/ \E h \in Context : Preempt(h))

\* A host thread that can go on does, and one that blocks again and again
\* executes instructions in between (a system call is one); blocked threads need
\* never be resumed and the scheduler need never preempt.
Fairness == \A t \in Thread : SF_vars(HostStep(t))
Spec == Init /\ [][Next]_vars
FairSpec == Spec /\ Fairness

-----------------------------------------------------------------------------

\* At most one thread of the group executes and is in the global barrier: no
\* sibling is released into execute() before the first has come back, although
\* m_lock is free meanwhile ("Core or its sibling is already in the barrier").
OneExecutor == Cardinality({t \in Thread : host[t].pc = "sync"}) <= 1

\* A context marked as in the barrier has a thread that waits on its condition variable:
\* whoever is released is there to go on, whatever was preempted, stalled, resumed or
\* disabled.
MarkedAreWaiting ==
    \A h \in Context : context[h].inBarrier => \E t \in Thread : host[t].pc = "waiting" /\ host[t].at = h

\* The barrier of a group of hardware contexts is sound: whom it releases waits there, and
\* it lets one thread at a time into the global barrier.
GroupBarrierIsSound == MarkedAreWaiting /\ OneExecutor

\* The group never stops with threads in the barrier: when someone waits there, someone
\* comes to execute, or all leave.  Two preemptions by periodic() are outside of this, and
\* are what lost records: of a thread between its last Thread::reschedule and simulate(),
\* and of the executing thread, when its successor reaches the barrier before it is back.
\* So are the endless loop and the failed assertion (Goes), which need a preemption too.
GroupGoesOn ==
    (\E t \in Thread : host[t].pc = "waiting")
        ~> \/ timer.inSync \/ \A t \in Thread : host[t].pc # "waiting"
           \/ timer.lost \/ ~Goes

\* barrierRelease: "We still need to release someone to make forward progress. Find the thread
\* with the (approximately) lowest number of surplus instructions and release it": its loop
\* ends.
SomeoneIsReleased == ~timer.hung
=============================================================================
