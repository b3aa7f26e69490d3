--------------------------- MODULE SmtTimerProofs ---------------------------
(***************************************************************************)
(* The barrier of an SMT group is sound for any number of contexts and     *)
(* threads, whatever the scheduler does with the contexts of threads that  *)
(* wait, execute or are in the application: a context that is marked as in *)
(* the barrier has a thread that waits there, and one thread at a time     *)
(* executes for the group and is in the global barrier.                    *)
(***************************************************************************)
EXTENDS SmtTimer, FiniteSetTheorems, TLAPS

Places == {"new", "app", "pushed", "check", "waiting", "woken", "sync", "stalled",
           "ready", "done", "away"}
ContextRecord == [thread : Thread \cup {NoThread}, running : BOOLEAN, inBarrier : BOOLEAN]
HostRecord == [pc : Places, at : Context \cup {NoContext}, out : BOOLEAN]

\* The parts of the invariant, of contexts c, hosts hs and a timer tm that a step computes.
ContextType(c) == c \in [Context -> ContextRecord]
HostType(hs) == hs \in [Thread -> HostRecord]

\* A thread that uses the model of a context was placed on it.
Placed(hs) ==
    \A t \in Thread : hs[t].pc \in {"app", "pushed", "waiting", "woken", "sync"} => hs[t].at \in Context

\* A marked context has a thread that waits there.
Marked(c, hs) ==
    \A h \in Context : c[h].inBarrier => \E t \in Thread : hs[t].pc = "waiting" /\ hs[t].at = h

\* A thread is in client->synchronize() only with in_sync set, there is one of
\* them, and meanwhile execute_thread names nobody, so that none of those that
\* come back from the barrier executes.
OneSyncs(hs, tm) ==
    /\ {"inSync", "enabled", "execute", "hung", "failed", "lost"} \subseteq DOMAIN tm
    /\ \A t \in Thread : hs[t].pc = "sync" => tm.inSync
    /\ tm.inSync => tm.execute = NoContext
    /\ \A t, u \in Thread : hs[t].pc = "sync" /\ hs[u].pc = "sync" => t = u

HostPart(hs, tm) == HostType(hs) /\ Placed(hs) /\ OneSyncs(hs, tm)
BarrierPart(c, hs) == ContextType(c) /\ Marked(c, hs)
SmtInv == BarrierPart(context, host) /\ HostPart(host, timer)

\* The initial state has nobody in the barrier.
LEMMA InitInv == Init => SmtInv
<1> SUFFICES ASSUME Init PROVE SmtInv
  OBVIOUS
<1>1. ContextType(context) /\ Marked(context, host)
  BY DEF Init, ContextType, ContextRecord, IdleContext, Marked
<1>2. HostType(host) /\ Placed(host)
  BY DEF Init, HostType, HostRecord, Places, Placed
<1>3. OneSyncs(host, timer)
  BY DEF Init, OneSyncs
<1> QED BY <1>1, <1>2, <1>3 DEF SmtInv, HostPart, BarrierPart

-----------------------------------------------------------------------------
\* What the operators of the barrier do.

\* Threads that a signal wakes up waited at a signalled context; all others stay.
LEMMA WokenAre ==
  ASSUME NEW hs, NEW S, NEW hs2 \in Woken(hs, S)
  PROVE  /\ hs2 = [t \in Thread |-> hs2[t]]
         /\ \A t \in Thread : \/ hs2[t] = hs[t]
                              \/ /\ hs[t].pc = "waiting" /\ hs[t].at \in S
                                 /\ hs2[t] = [hs[t] EXCEPT !.pc = "woken"]
<1> DEFINE waiters(h) == {t \in Thread : hs[t].pc = "waiting" /\ hs[t].at = h}
           all == UNION {waiters(h) : h \in S}
           G(W) == [t \in Thread |-> IF t \in W THEN [hs[t] EXCEPT !.pc = "woken"] ELSE hs[t]]
<1>1. PICK W \in SUBSET all : hs2 = G(W)
  BY DEF Woken
<1>2. \A t \in all : hs[t].pc = "waiting" /\ hs[t].at \in S
  OBVIOUS
<1> HIDE DEF all
<1> QED BY <1>1, <1>2

\* Signalling the contexts of S keeps the barrier sound.
LEMMA SignalKeeps ==
  ASSUME NEW c, NEW hs, NEW tm, NEW S, NEW hs2 \in Woken(hs, S),
         BarrierPart(c, hs), HostPart(hs, tm)
  PROVE  BarrierPart(Signal(c, S), hs2) /\ HostPart(hs2, tm)
<1>1. /\ hs2 = [t \in Thread |-> hs2[t]]
      /\ \A t \in Thread : \/ hs2[t] = hs[t]
                           \/ /\ hs[t].pc = "waiting" /\ hs[t].at \in S
                              /\ hs2[t] = [hs[t] EXCEPT !.pc = "woken"]
  BY WokenAre
<1>2. \A t \in Thread : hs[t] \in HostRecord
  BY DEF HostPart, HostType
<1>3. \A t \in Thread : /\ hs2[t] \in HostRecord
                        /\ hs2[t].at = hs[t].at
                        /\ hs2[t].pc = hs[t].pc \/ (hs[t].pc = "waiting" /\ hs[t].at \in S /\ hs2[t].pc = "woken")
  BY <1>1, <1>2 DEF HostRecord, Places
<1>4. HostType(hs2)
  BY <1>1, <1>3 DEF HostType
<1>5. Placed(hs2)
  BY <1>3 DEF HostPart, Placed
<1>6. OneSyncs(hs2, tm)
  BY <1>3 DEF HostPart, OneSyncs
<1>7. ContextType(Signal(c, S))
  BY DEF BarrierPart, ContextType, ContextRecord, Signal
<1>8. ASSUME NEW h \in Context, Signal(c, S)[h].inBarrier
      PROVE  \E t \in Thread : hs2[t].pc = "waiting" /\ hs2[t].at = h
  <2>1. c[h].inBarrier /\ h \notin S
    BY <1>8 DEF Signal, BarrierPart, ContextType, ContextRecord
  <2>2. PICK t \in Thread : hs[t].pc = "waiting" /\ hs[t].at = h
    BY <2>1 DEF BarrierPart, Marked
  <2> QED BY <2>1, <2>2, <1>3
<1> QED BY <1>4, <1>5, <1>6, <1>7, <1>8 DEF HostPart, BarrierPart, Marked

\* Without a signal nothing is woken.
LEMMA LeftKeeps ==
  ASSUME NEW hs, NEW h \in Context, NEW hs2 \in Left(hs, h), NEW tm, NEW c2, HostPart(hs, tm),
         ContextType(c2), ~c2[h].inBarrier,
         \A k \in Context : k # h => c2[k] = context[k],
         BarrierPart(context, hs)
  PROVE  BarrierPart(c2, hs2) /\ HostPart(hs2, tm)
<1> DEFINE S == IF context[h].inBarrier THEN {h} ELSE {}
<1>1. hs2 \in Woken(hs, S)
  BY DEF Left
<1>2. S \subseteq {h}
  OBVIOUS
<1> HIDE DEF S
<1>3. BarrierPart(Signal(context, S), hs2) /\ HostPart(hs2, tm)
  BY <1>1, SignalKeeps
<1>4. \A k \in Context : c2[k].inBarrier => Signal(context, S)[k].inBarrier
  BY <1>2 DEF Signal, BarrierPart, ContextType, ContextRecord
<1> QED BY <1>3, <1>4 DEF BarrierPart, Marked

\* A thread that does not wait goes somewhere other than the barrier and the executor's place.
LEMMA HostMoves ==
  ASSUME NEW hs, NEW tm, NEW c, NEW t \in Thread, NEW r \in HostRecord,
         HostPart(hs, tm), BarrierPart(c, hs),
         hs[t].pc # "waiting", r.pc \notin {"waiting", "sync"},
         r.pc \in {"app", "pushed", "woken"} => r.at \in Context
  PROVE  HostPart([hs EXCEPT ![t] = r], tm) /\ BarrierPart(c, [hs EXCEPT ![t] = r])
<1> DEFINE hs2 == [hs EXCEPT ![t] = r]
<1>1. /\ hs2 \in [Thread -> HostRecord] /\ hs2[t] = r
      /\ \A u \in Thread : u # t => hs2[u] = hs[u]
  BY DEF HostPart, HostType
<1> HIDE DEF hs2
<1>2. Placed(hs2)
  BY <1>1 DEF HostPart, Placed
<1>3. OneSyncs(hs2, tm)
  BY <1>1 DEF HostPart, OneSyncs
<1>4. Marked(c, hs2)
  BY <1>1 DEF BarrierPart, Marked
<1>5. HostPart(hs2, tm) /\ BarrierPart(c, hs2)
  BY <1>1, <1>2, <1>3, <1>4 DEF HostPart, HostType, BarrierPart
<1> QED BY <1>5 DEF hs2

\* The thread that is given a core wakes up if it slept for one.
LEMMA GivenKeeps ==
  ASSUME NEW hs, NEW tm, NEW c, NEW u \in Thread, HostPart(hs, tm), BarrierPart(c, hs)
  PROVE  HostPart(Given(hs, u), tm) /\ BarrierPart(c, Given(hs, u))
<1>1. hs[u] \in HostRecord /\ hs \in [Thread -> HostRecord]
  BY DEF HostPart, HostType
<1>2. CASE hs[u].pc = "ready"
  <2> DEFINE r == [hs[u] EXCEPT !.pc = "check"]
  <2>1. r \in HostRecord /\ r.pc \notin {"waiting", "sync"} /\ r.pc \notin {"app", "pushed", "woken"}
    BY <1>1 DEF HostRecord, Places
  <2>2. Given(hs, u) = [hs EXCEPT ![u] = r]
    BY <1>1, <1>2 DEF Given
  <2> HIDE DEF r
  <2>3. hs[u].pc # "waiting"
    BY <1>2
  <2>4. HostPart([hs EXCEPT ![u] = r], tm) /\ BarrierPart(c, [hs EXCEPT ![u] = r])
    BY <2>1, <2>3, HostMoves
  <2> QED BY <2>2, <2>4
<1>3. CASE hs[u].pc # "ready"
  <2>1. Given(hs, u) = hs
    BY <1>1, <1>3 DEF Given, HostRecord
  <2> QED BY <2>1
<1> QED BY <1>2, <1>3

\* Fewer marks need fewer threads that wait.
LEMMA FewerMarks ==
  ASSUME NEW c, NEW hs, NEW c2, BarrierPart(c, hs), ContextType(c2),
         \A h \in Context : c2[h].inBarrier => c[h].inBarrier
  PROVE  BarrierPart(c2, hs)
BY DEF BarrierPart, Marked

\* What a step that leaves in_sync and execute_thread alone has to show.
LEMMA StepKeeps ==
  ASSUME BarrierPart(context', host'), HostPart(host', timer),
         timer'.inSync = timer.inSync, DOMAIN timer' = DOMAIN timer,
         timer'.execute = timer.execute \/ ~timer.inSync
  PROVE  SmtInv'
<1>1. OneSyncs(host', timer')
  BY DEF HostPart, OneSyncs
<1> QED BY <1>1 DEF SmtInv, HostPart, BarrierPart, HostType, Placed, ContextType, Marked, OneSyncs

\* The hook handlers leave the barrier sound.
LEMMA SignalBarrierKeeps ==
  ASSUME NEW c, NEW hs, BarrierPart(c, hs), HostPart(hs, timer), SignalBarrier(c, hs)
  PROVE  SmtInv'
<1> DEFINE r == BarrierRelease(c, FALSE, NoContext)
           S == r.signalled
<1>1. CASE IsBarrierReached(c)
  <2>1. /\ context' = Signal(c, S) /\ host' \in Woken(hs, S)
        /\ timer' = [timer EXCEPT !.execute = r.execute, !.hung = @ \/ r.hung]
    BY <1>1 DEF SignalBarrier
  <2>2. ~timer.inSync
    BY <1>1 DEF IsBarrierReached
  <2> HIDE DEF r, S
  <2>3. BarrierPart(context', host') /\ HostPart(host', timer)
    BY <2>1, SignalKeeps
  <2>4. timer'.inSync = timer.inSync /\ DOMAIN timer' = DOMAIN timer
    BY <2>1, <2>3 DEF HostPart, OneSyncs
  <2> QED BY <2>2, <2>3, <2>4, StepKeeps
<1>2. CASE ~IsBarrierReached(c)
  <2>1. context' = c /\ host' = hs /\ timer' = timer
    BY <1>2 DEF SignalBarrier
  <2> QED BY <2>1, StepKeeps
<1> QED BY <1>1, <1>2
-----------------------------------------------------------------------------
\* One lemma per action.

\* Contexts that the scheduler or the hooks rewrite have their type.
LEMMA ContextTypes ==
  ASSUME ContextType(context), NEW h \in Context, NEW u \in Thread
  PROVE  /\ ContextType(Replaced(h, u)) /\ ContextType(Emptied(h))
         /\ ~Replaced(h, u)[h].inBarrier /\ ~Emptied(h)[h].inBarrier
         /\ \A k \in Context : k # h => Replaced(h, u)[k] = context[k] /\ Emptied(h)[k] = context[k]
BY DEF ContextType, ContextRecord, Replaced, Emptied, IdleContext

\* A thread starts on a free context.
LEMMA ThreadStartInv ==
  ASSUME SmtInv, NEW t \in Thread, NEW h \in Context, ThreadStart(t, h)
  PROVE  SmtInv'
<1> DEFINE r == [pc |-> "app", at |-> h, out |-> FALSE]
<1>1. /\ host[t].pc = "new" /\ context' = Replaced(h, t)
      /\ host' = [host EXCEPT ![t] = r] /\ timer' = timer
  BY DEF ThreadStart
<1>2. r \in HostRecord /\ r.pc \notin {"waiting", "sync"} /\ r.at \in Context
  BY DEF HostRecord, Places
<1> HIDE DEF r
<1>3. HostPart(host', timer) /\ BarrierPart(context, host')
  BY <1>1, <1>2, HostMoves DEF SmtInv
<1>4. ContextType(context') /\ \A k \in Context : context'[k].inBarrier => context[k].inBarrier
  <2>1. ContextType(context)
    BY DEF SmtInv, BarrierPart
  <2> QED BY <1>1, <2>1, ContextTypes
<1>5. BarrierPart(context', host')
  BY <1>3, <1>4, FewerMarks
<1> QED BY <1>1, <1>3, <1>5, StepKeeps

\* A thread that is off its core.
LEMMA OffCoreKeeps ==
  ASSUME SmtInv, NEW t \in Thread, host[t].pc # "waiting",
         NEW pc \in {"stalled", "done", "ready"}
  PROVE  LET gone == [host EXCEPT ![t] = OffCore(pc)]
         IN  HostPart(gone, timer) /\ BarrierPart(context, gone)
<1> DEFINE r == OffCore(pc)
<1>1. r \in HostRecord /\ r.pc \notin {"waiting", "sync"} /\ r.pc \notin {"app", "pushed", "woken"}
  BY DEF OffCore, HostRecord, Places
<1> HIDE DEF r
<1>2. HostPart([host EXCEPT ![t] = r], timer) /\ BarrierPart(context, [host EXCEPT ![t] = r])
  BY <1>1, HostMoves DEF SmtInv
<1> QED BY <1>2 DEF r

\* A thread blocks or exits, and its context goes to another one or to nobody.
LEMMA LeavesCoreInv ==
  ASSUME SmtInv, NEW t \in Thread, NEW pc \in {"stalled", "done"}, LeavesCore(t, pc)
  PROVE  SmtInv'
<1> DEFINE gone == [host EXCEPT ![t] = OffCore(pc)]
<1>1. HostPart(gone, timer) /\ BarrierPart(context, gone)
  BY OffCoreKeeps DEF LeavesCore
<1>2. \/ \E h \in ContextOf(context, t) : \E hs \in Left(gone, h) :
            \/ \E u \in Thread : SignalBarrier(Replaced(h, u), Given(hs, u))
            \/ SignalBarrier(Emptied(h), hs)
      \/ SignalBarrier(context, gone)
  BY DEF LeavesCore
<1> HIDE DEF gone
<1>3. CASE SignalBarrier(context, gone)
  BY <1>1, <1>3, SignalBarrierKeeps
<1>4. ASSUME NEW h \in ContextOf(context, t), NEW hs \in Left(gone, h)
      PROVE  /\ (\E u \in Thread : SignalBarrier(Replaced(h, u), Given(hs, u))) => SmtInv'
             /\ SignalBarrier(Emptied(h), hs) => SmtInv'
  <2>1. h \in Context /\ ContextType(context)
    BY <1>4 DEF ContextOf, SmtInv, BarrierPart
  <2>2. ASSUME NEW u \in Thread, SignalBarrier(Replaced(h, u), Given(hs, u))
        PROVE  SmtInv'
    <3>1. /\ ContextType(Replaced(h, u)) /\ ~Replaced(h, u)[h].inBarrier
          /\ \A k \in Context : k # h => Replaced(h, u)[k] = context[k]
      BY <2>1, ContextTypes
    <3>2. BarrierPart(Replaced(h, u), hs) /\ HostPart(hs, timer)
      BY <1>1, <1>4, <2>1, <3>1, LeftKeeps
    <3>3. BarrierPart(Replaced(h, u), Given(hs, u)) /\ HostPart(Given(hs, u), timer)
      BY <3>2, GivenKeeps
    <3> QED BY <2>2, <3>3, SignalBarrierKeeps
  <2>3. ASSUME SignalBarrier(Emptied(h), hs)
        PROVE  SmtInv'
    <3>1. /\ ContextType(Emptied(h)) /\ ~Emptied(h)[h].inBarrier
          /\ \A k \in Context : k # h => Emptied(h)[k] = context[k]
      BY <2>1, ContextTypes
    <3>2. BarrierPart(Emptied(h), hs) /\ HostPart(hs, timer)
      BY <1>1, <1>4, <2>1, <3>1, LeftKeeps
    <3> QED BY <2>3, <3>2, SignalBarrierKeeps
  <2> QED BY <2>2, <2>3
<1> QED BY <1>2, <1>3, <1>4

\* A thread blocks and keeps its context.
LEMMA ThreadStallInPlaceInv ==
  ASSUME SmtInv, NEW t \in Thread, ThreadStallInPlace(t)
  PROVE  SmtInv'
<1> DEFINE gone == [host EXCEPT ![t] = OffCore("stalled")]
           c(h) == [context EXCEPT ![h].running = FALSE]
<1>1. HostPart(gone, timer) /\ BarrierPart(context, gone)
  BY OffCoreKeeps DEF ThreadStallInPlace
<1>2. PICK h \in Context : SignalBarrier(c(h), gone)
  BY DEF ThreadStallInPlace, ContextOf
<1>3. ContextType(c(h)) /\ \A k \in Context : c(h)[k].inBarrier => context[k].inBarrier
  BY DEF SmtInv, BarrierPart, ContextType, ContextRecord
<1> HIDE DEF gone, c
<1>4. BarrierPart(c(h), gone)
  BY <1>1, <1>3, FewerMarks
<1> QED BY <1>1, <1>2, <1>4, SignalBarrierKeeps

\* A thread that was blocked goes to Thread::reschedule.
LEMMA ChecksKeeps ==
  ASSUME NEW hs, NEW tm, NEW c, NEW t \in Thread, HostPart(hs, tm), BarrierPart(c, hs),
         hs[t].pc # "waiting"
  PROVE  HostPart(Checks(hs, t), tm) /\ BarrierPart(c, Checks(hs, t))
<1> DEFINE r == [hs[t] EXCEPT !.pc = "check", !.at = NoContext]
<1>1. hs[t] \in HostRecord /\ hs \in [Thread -> HostRecord]
  BY DEF HostPart, HostType
<1>2. r \in HostRecord /\ r.pc \notin {"waiting", "sync"} /\ r.pc \notin {"app", "pushed", "woken"}
  BY <1>1 DEF HostRecord, Places
<1>3. Checks(hs, t) = [hs EXCEPT ![t] = r]
  BY <1>1 DEF Checks
<1> HIDE DEF r
<1>4. HostPart([hs EXCEPT ![t] = r], tm) /\ BarrierPart(c, [hs EXCEPT ![t] = r])
  BY <1>2, HostMoves
<1> QED BY <1>3, <1>4

\* A blocked thread is resumed.
LEMMA ThreadResumeInv ==
  ASSUME SmtInv, NEW t \in Thread, ThreadResume(t)
  PROVE  SmtInv'
<1>1. host[t].pc = "stalled" /\ timer' = timer /\ ContextType(context)
  BY DEF ThreadResume, SmtInv, BarrierPart
<1>2. HostPart(Checks(host, t), timer) /\ BarrierPart(context, Checks(host, t))
  BY <1>1, ChecksKeeps DEF SmtInv
<1>3. CASE \E h \in ContextOf(context, t) : /\ context' = [context EXCEPT ![h].running = TRUE]
                                           /\ host' = Checks(host, t)
  <2>1. PICK h \in Context : context' = [context EXCEPT ![h].running = TRUE]
    BY <1>3 DEF ContextOf
  <2>2. ContextType(context') /\ \A k \in Context : context'[k].inBarrier => context[k].inBarrier
    BY <1>1, <2>1 DEF ContextType, ContextRecord
  <2>3. BarrierPart(context', host') /\ HostPart(host', timer)
    BY <1>2, <1>3, <2>2, FewerMarks
  <2> QED BY <1>1, <2>3, StepKeeps
<1>4. CASE \E h \in Context : context' = Replaced(h, t) /\ host' = Checks(host, t)
  <2>1. PICK h \in Context : context' = Replaced(h, t)
    BY <1>4
  <2>2. ContextType(context') /\ \A k \in Context : context'[k].inBarrier => context[k].inBarrier
    BY <1>1, <2>1, ContextTypes
  <2>3. BarrierPart(context', host') /\ HostPart(host', timer)
    BY <1>2, <1>4, <2>2, FewerMarks
  <2> QED BY <1>1, <2>3, StepKeeps
<1>5. CASE /\ \E o \in BOOLEAN : host' = [host EXCEPT ![t].pc = "check", ![t].out = o]
           /\ context' = context
  <2>1. PICK o \in BOOLEAN : host' = [host EXCEPT ![t].pc = "check", ![t].out = o]
    BY <1>5
  <2> DEFINE r == [host[t] EXCEPT !.pc = "check", !.out = o]
  <2>2. host[t] \in HostRecord /\ host \in [Thread -> HostRecord]
    BY DEF SmtInv, HostPart, HostType
  <2>3. r \in HostRecord /\ r.pc \notin {"waiting", "sync"} /\ r.pc \notin {"app", "pushed", "woken"}
    BY <2>2 DEF HostRecord, Places
  <2>4. host' = [host EXCEPT ![t] = r]
    BY <2>1, <2>2
  <2> HIDE DEF r
  <2>5. HostPart(host', timer) /\ BarrierPart(context', host')
    BY <1>1, <1>5, <2>3, <2>4, HostMoves DEF SmtInv
  <2> QED BY <1>1, <2>5, StepKeeps
<1> QED BY <1>3, <1>4, <1>5 DEF ThreadResume

\* The scheduler takes a context from its thread, wherever that thread is.
LEMMA PreemptInv ==
  ASSUME SmtInv, NEW h \in Context, Preempt(h)
  PROVE  SmtInv'
<1>1. timer' = timer /\ ContextType(context)
  BY DEF Preempt, SmtInv, BarrierPart
<1>2. PICK hs \in Left(host, h) :
         \/ \E u \in Thread : context' = Replaced(h, u) /\ host' = Given(hs, u)
         \/ context' = Emptied(h) /\ host' = hs
  BY DEF Preempt
<1>3. ASSUME NEW u \in Thread, context' = Replaced(h, u), host' = Given(hs, u)
      PROVE  SmtInv'
  <2>1. /\ ContextType(Replaced(h, u)) /\ ~Replaced(h, u)[h].inBarrier
        /\ \A k \in Context : k # h => Replaced(h, u)[k] = context[k]
    BY <1>1, ContextTypes
  <2>2. BarrierPart(Replaced(h, u), hs) /\ HostPart(hs, timer)
    BY <2>1, LeftKeeps DEF SmtInv
  <2>3. BarrierPart(context', host') /\ HostPart(host', timer)
    BY <1>3, <2>2, GivenKeeps
  <2> QED BY <1>1, <2>3, StepKeeps
<1>4. ASSUME context' = Emptied(h), host' = hs
      PROVE  SmtInv'
  <2>2. /\ ContextType(Emptied(h)) /\ ~Emptied(h)[h].inBarrier
        /\ \A k \in Context : k # h => Emptied(h)[k] = context[k]
    BY <1>1 DEF ContextType, ContextRecord, Emptied, IdleContext
  <2>3. BarrierPart(context', host') /\ HostPart(host', timer)
    BY <1>4, <2>2, LeftKeeps DEF SmtInv
  <2> QED BY <1>1, <2>3, StepKeeps
<1> QED BY <1>2, <1>3, <1>4

\* A thread without a core gets one, in the group or outside of it.
LEMMA ScheduleInv ==
  ASSUME SmtInv, NEW t \in Thread, Schedule(t)
  PROVE  SmtInv'
<1>1. timer' = timer /\ ContextType(context)
  BY DEF Schedule, SmtInv, BarrierPart
<1>2. HostPart(Given(host, t), timer) /\ BarrierPart(context, Given(host, t))
  BY GivenKeeps DEF SmtInv
<1>3. ASSUME NEW h \in Context, context' = Replaced(h, t), host' = Given(host, t)
      PROVE  SmtInv'
  <2>1. ContextType(context') /\ \A k \in Context : context'[k].inBarrier => context[k].inBarrier
    BY <1>1, <1>3, ContextTypes
  <2>2. BarrierPart(context', host') /\ HostPart(host', timer)
    BY <1>2, <1>3, <2>1, FewerMarks
  <2> QED BY <1>1, <2>2, StepKeeps
<1>4. ASSUME host' = [Given(host, t) EXCEPT ![t].out = TRUE], context' = context
      PROVE  SmtInv'
  <2> DEFINE hs == Given(host, t)
  <2>1. hs \in [Thread -> HostRecord]
    BY <1>2 DEF HostPart, HostType
  <2> HIDE DEF hs
  <2>2. \A u \in Thread : /\ host'[u] \in HostRecord
                          /\ host'[u].pc = hs[u].pc /\ host'[u].at = hs[u].at
    BY <1>4, <2>1 DEF hs, HostRecord
  <2>3. host' \in [Thread -> HostRecord]
    BY <1>4, <2>1, <2>2 DEF hs
  <2>4. HostPart(host', timer) /\ BarrierPart(context', host')
    <3>1. HostPart(hs, timer) /\ BarrierPart(context, hs)
      BY <1>2 DEF hs
    <3>2. HostType(host') /\ Placed(host')
      BY <3>1, <2>2, <2>3 DEF HostPart, HostType, Placed
    <3>3. OneSyncs(host', timer)
      BY <3>1, <2>2 DEF HostPart, OneSyncs
    <3>4. Marked(context', host') /\ ContextType(context')
      BY <3>1, <2>2, <1>4 DEF BarrierPart, Marked
    <3> QED BY <3>2, <3>3, <3>4 DEF HostPart, BarrierPart
  <2> QED BY <1>1, <2>4, StepKeeps
<1> QED BY <1>3, <1>4 DEF Schedule

\* The hook of a thread of another group.
LEMMA ComesBackInv ==
  ASSUME SmtInv, NEW t \in Thread, ComesBack(t)
  PROVE  SmtInv'
<1> DEFINE gone == [host EXCEPT ![t] = OffCore("ready")]
<1>1. HostPart(gone, timer) /\ BarrierPart(context, gone)
  BY OffCoreKeeps DEF ComesBack
<1>2. SignalBarrier(context, gone)
  BY DEF ComesBack
<1> HIDE DEF gone
<1> QED BY <1>1, <1>2, SignalBarrierKeeps

\* Thread::reschedule goes on with the core of the thread, or stalls.
LEMMA RescheduleInv ==
  ASSUME SmtInv, NEW t \in Thread, Reschedule(t)
  PROVE  SmtInv'
<1> DEFINE gone == [host EXCEPT ![t] = OffCore("ready")]
           on(h) == [host[t] EXCEPT !.pc = "app", !.at = h]
           away == [host[t] EXCEPT !.pc = "away", !.at = NoContext]
<1>1. host[t].pc = "check" /\ host[t] \in HostRecord /\ host \in [Thread -> HostRecord]
  BY DEF Reschedule, SmtInv, HostPart, HostType
<1>2. \/ \E h \in Context : host' = [host EXCEPT ![t] = on(h)] /\ UNCHANGED <<context, timer>>
      \/ host' = [host EXCEPT ![t] = away] /\ UNCHANGED <<context, timer>>
      \/ SignalBarrier(context, gone)
  BY <1>1 DEF Reschedule, ContextOf
<1>3. HostPart(gone, timer) /\ BarrierPart(context, gone)
  BY <1>1, OffCoreKeeps
<1>4. CASE SignalBarrier(context, gone)
  <2> HIDE DEF gone
  <2> QED BY <1>3, <1>4, SignalBarrierKeeps
<1>5. ASSUME NEW h \in Context, host' = [host EXCEPT ![t] = on(h)], UNCHANGED <<context, timer>>
      PROVE  SmtInv'
  <2>1. on(h) \in HostRecord /\ on(h).pc \notin {"waiting", "sync"} /\ on(h).at \in Context
    BY <1>1 DEF HostRecord, Places
  <2> HIDE DEF on
  <2>2. HostPart(host', timer) /\ BarrierPart(context', host')
    BY <1>1, <1>5, <2>1, HostMoves DEF SmtInv
  <2> QED BY <1>5, <2>2, StepKeeps
<1>6. ASSUME host' = [host EXCEPT ![t] = away], UNCHANGED <<context, timer>>
      PROVE  SmtInv'
  <2>1. away \in HostRecord /\ away.pc \notin {"waiting", "sync"} /\ away.pc \notin {"app", "pushed", "woken"}
    BY <1>1 DEF HostRecord, Places
  <2> HIDE DEF away
  <2>2. HostPart(host', timer) /\ BarrierPart(context', host')
    BY <1>1, <1>6, <2>1, HostMoves DEF SmtInv
  <2> QED BY <1>6, <2>2, StepKeeps
<1> QED BY <1>2, <1>4, <1>5, <1>6

\* Pushing an instruction is no business of the barrier.
LEMMA PushInstructionsInv ==
  ASSUME SmtInv, NEW t \in Thread, PushInstructions(t)
  PROVE  SmtInv'
<1> DEFINE r == [host[t] EXCEPT !.pc = "pushed"]
<1>1. host[t].pc = "app" /\ host[t] \in HostRecord /\ host \in [Thread -> HostRecord]
  BY DEF PushInstructions, SmtInv, HostPart, HostType
<1>2. host[t].at \in Context
  BY <1>1 DEF SmtInv, HostPart, Placed
<1>3. host' = [host EXCEPT ![t] = r] /\ context' = context /\ timer' = timer
  BY <1>1 DEF PushInstructions
<1>4. r \in HostRecord /\ r.pc \notin {"waiting", "sync"} /\ r.at \in Context
  BY <1>1, <1>2 DEF HostRecord, Places
<1> HIDE DEF r
<1>5. HostPart(host', timer) /\ BarrierPart(context', host')
  BY <1>1, <1>3, <1>4, HostMoves DEF SmtInv
<1> QED BY <1>3, <1>5, StepKeeps

\* A thread begins to execute while nobody does.
LEMMA ExecuteKeeps ==
  ASSUME NEW c, NEW hs, NEW t \in Thread, BarrierPart(c, hs), HostPart(hs, timer),
         ~timer.inSync, hs[t].pc \in {"pushed", "woken"}, Execute(t, c, hs)
  PROVE  SmtInv'
<1>1. /\ context' = c /\ host' = [hs EXCEPT ![t].pc = "sync"]
      /\ timer' = [timer EXCEPT !.inSync = TRUE, !.execute = NoContext]
  BY DEF Execute
<1>2. hs \in [Thread -> HostRecord] /\ hs[t] \in HostRecord
  BY DEF HostPart, HostType
<1>3. /\ host'[t] \in HostRecord /\ host'[t].pc = "sync" /\ host'[t].at = hs[t].at
      /\ \A u \in Thread : u # t => host'[u] = hs[u]
      /\ host' \in [Thread -> HostRecord]
  BY <1>1, <1>2 DEF HostRecord, Places
<1>4. Placed(host')
  BY <1>3 DEF HostPart, Placed
<1>5. \A u \in Thread : hs[u].pc # "sync"
  BY DEF HostPart, OneSyncs
<1>6. /\ DOMAIN timer' = DOMAIN timer /\ timer'.inSync = TRUE /\ timer'.execute = NoContext
  BY <1>1 DEF HostPart, OneSyncs
<1>7. OneSyncs(host', timer')
  BY <1>3, <1>5, <1>6 DEF HostPart, OneSyncs
<1>8. Marked(context', host')
  BY <1>1, <1>3 DEF BarrierPart, Marked
<1> QED BY <1>1, <1>3, <1>4, <1>7, <1>8
        DEF SmtInv, HostPart, BarrierPart, HostType, Placed, ContextType, Marked, OneSyncs

\* A thread marks its context and waits.
LEMMA WaitKeeps ==
  ASSUME NEW c, NEW c2, NEW hs, NEW tm, NEW t \in Thread, BarrierPart(c, hs), HostPart(hs, tm),
         hs[t].pc = "pushed", ContextType(c2),
         \A k \in Context : k # hs[t].at /\ c2[k].inBarrier => c[k].inBarrier
  PROVE  LET hs2 == [hs EXCEPT ![t].pc = "waiting"]
         IN  BarrierPart(c2, hs2) /\ HostPart(hs2, tm)
<1> DEFINE hs2 == [hs EXCEPT ![t].pc = "waiting"]
<1> SUFFICES BarrierPart(c2, hs2) /\ HostPart(hs2, tm)
  OBVIOUS
<1>1. hs \in [Thread -> HostRecord] /\ hs[t] \in HostRecord
  BY DEF HostPart, HostType
<1>2. /\ hs2[t] \in HostRecord /\ hs2[t].pc = "waiting" /\ hs2[t].at = hs[t].at
      /\ \A u \in Thread : u # t => hs2[u] = hs[u]
      /\ hs2 \in [Thread -> HostRecord]
  BY <1>1 DEF HostRecord, Places
<1> HIDE DEF hs2
<1>3. Placed(hs2)
  BY <1>2 DEF HostPart, Placed
<1>4. OneSyncs(hs2, tm)
  BY <1>2 DEF HostPart, OneSyncs
<1>5. Marked(c2, hs2)
  BY <1>2 DEF BarrierPart, Marked
<1> QED BY <1>2, <1>3, <1>4, <1>5 DEF HostPart, HostType, BarrierPart

\* barrier(): the thread waits, waits and wakes others, or executes.
LEMMA BarrierInv ==
  ASSUME SmtInv, NEW t \in Thread, host[t].pc = "pushed", Barrier(t, host[t].at)
  PROVE  SmtInv'
<1> DEFINE h == host[t].at
           c == [context EXCEPT ![h].inBarrier = TRUE]
           r == BarrierRelease(c, FALSE, h)
           tm == [timer EXCEPT !.lost = @ \/ context[h].thread # t]
           S == r.signalled
<1>1. h \in Context /\ ContextType(context)
  BY DEF SmtInv, HostPart, Placed, BarrierPart
<1>2. /\ ContextType(c)
      /\ \A k \in Context : k # h /\ c[k].inBarrier => context[k].inBarrier
      /\ \A k \in Context : k # h => c[k] = context[k]
  BY <1>1 DEF ContextType, ContextRecord
<1>3. h \notin S
  BY DEF BarrierRelease
<1>4. tm.inSync = timer.inSync /\ tm.execute = timer.execute /\ DOMAIN tm = DOMAIN timer
  BY DEF SmtInv, HostPart, OneSyncs
<1>5. \/ context' = c /\ host' = [host EXCEPT ![t].pc = "waiting"] /\ timer' = tm
      \/ /\ ~timer.inSync /\ context' = Signal(c, S)
         /\ \E hs \in Woken(host, S) : host' = [hs EXCEPT ![t].pc = "waiting"]
         /\ timer' = [tm EXCEPT !.execute = r.execute, !.hung = @ \/ r.hung]
      \/ /\ ~timer.inSync
         /\ \E hs \in Woken(host, S) : Execute(t, Signal(c, S \cup {h}), hs)
  BY DEF Barrier, IsBarrierReached
<1> HIDE DEF c, r, tm, S
<1>6. CASE context' = c /\ host' = [host EXCEPT ![t].pc = "waiting"] /\ timer' = tm
  <2>1. BarrierPart(context', host') /\ HostPart(host', timer)
    BY <1>2, <1>6, WaitKeeps DEF SmtInv
  <2> QED BY <1>4, <1>6, <2>1, StepKeeps
<1>7. ASSUME NEW hs \in Woken(host, S)
      PROVE  /\ BarrierPart(Signal(context, S), hs) /\ HostPart(hs, timer)
             /\ hs[t] = host[t]
  <2>1. BarrierPart(Signal(context, S), hs) /\ HostPart(hs, timer)
    BY <1>7, SignalKeeps DEF SmtInv
  <2>2. \A u \in Thread : \/ hs[u] = host[u]
                           \/ /\ host[u].pc = "waiting" /\ host[u].at \in S
                              /\ hs[u] = [host[u] EXCEPT !.pc = "woken"]
    BY <1>7, WokenAre
  <2>3. hs[t] = host[t]
    BY <2>2
  <2> QED BY <2>1, <2>3
<1>8. ASSUME ~timer.inSync, context' = Signal(c, S), NEW hs \in Woken(host, S),
             host' = [hs EXCEPT ![t].pc = "waiting"],
             timer' = [tm EXCEPT !.execute = r.execute, !.hung = @ \/ r.hung]
      PROVE  SmtInv'
  <2>1. BarrierPart(Signal(context, S), hs) /\ HostPart(hs, timer) /\ hs[t] = host[t]
    BY <1>7
  <2>2. /\ ContextType(Signal(c, S))
        /\ \A k \in Context : k # h /\ Signal(c, S)[k].inBarrier => Signal(context, S)[k].inBarrier
    <3> HIDE DEF h
    <3>1. \A k \in Context : c[k] \in ContextRecord /\ context[k] \in ContextRecord
      BY <1>1, <1>2 DEF ContextType
    <3>2. ContextType(Signal(c, S))
      BY <3>1 DEF Signal, ContextType, ContextRecord
    <3>3. ASSUME NEW k \in Context, k # h PROVE Signal(c, S)[k] = Signal(context, S)[k]
      BY <1>2, <3>3 DEF Signal
    <3> QED BY <3>2, <3>3
  <2>3. hs[t].pc = "pushed" /\ hs[t].at = h
    BY <2>1
  <2>4. BarrierPart(context', host') /\ HostPart(host', timer)
    BY <1>8, <2>1, <2>2, <2>3, WaitKeeps
  <2>5. timer'.inSync = timer.inSync /\ DOMAIN timer' = DOMAIN timer
    BY <1>4, <1>8 DEF SmtInv, HostPart, OneSyncs
  <2> QED BY <1>8, <2>4, <2>5, StepKeeps
<1>9. ASSUME ~timer.inSync, NEW hs \in Woken(host, S), Execute(t, Signal(c, S \cup {h}), hs)
      PROVE  SmtInv'
  <2>1. BarrierPart(Signal(context, S), hs) /\ HostPart(hs, timer) /\ hs[t] = host[t]
    BY <1>7
  <2>2. /\ ContextType(Signal(c, S \cup {h}))
        /\ \A k \in Context : Signal(c, S \cup {h})[k].inBarrier => Signal(context, S)[k].inBarrier
    <3> HIDE DEF h
    <3>1. \A k \in Context : c[k] \in ContextRecord /\ context[k] \in ContextRecord
      BY <1>1, <1>2 DEF ContextType
    <3>2. ContextType(Signal(c, S \cup {h}))
      BY <3>1 DEF Signal, ContextType, ContextRecord
    <3>3. ASSUME NEW k \in Context, Signal(c, S \cup {h})[k].inBarrier
          PROVE  Signal(context, S)[k].inBarrier
      <4>1. Signal(c, S \cup {h})[k].inBarrier = (c[k].inBarrier /\ k \notin S \cup {h})
        BY <3>1 DEF Signal, ContextRecord
      <4>2. Signal(context, S)[k].inBarrier = (context[k].inBarrier /\ k \notin S)
        BY <3>1 DEF Signal, ContextRecord
      <4>3. k # h /\ k \notin S /\ c[k].inBarrier
        BY <3>3, <4>1
      <4> QED BY <1>2, <4>2, <4>3
    <3> QED BY <3>2, <3>3
  <2>3. BarrierPart(Signal(c, S \cup {h}), hs)
    BY <2>1, <2>2, FewerMarks
  <2>4. hs[t].pc \in {"pushed", "woken"}
    BY <2>1
  <2> QED BY <1>9, <2>1, <2>3, <2>4, ExecuteKeeps
<1> QED BY <1>5, <1>6, <1>8, <1>9

\* A thread below the limit goes on; otherwise it comes to the barrier.
LEMMA SimulateInv ==
  ASSUME SmtInv, NEW t \in Thread, Simulate(t)
  PROVE  SmtInv'
<1>1. host[t].pc = "pushed"
  BY DEF Simulate
<1>2. CASE host' = Checks(host, t) /\ UNCHANGED <<context, timer>>
  <2>1. HostPart(host', timer) /\ BarrierPart(context', host')
    BY <1>1, <1>2, ChecksKeeps DEF SmtInv
  <2> QED BY <1>2, <2>1, StepKeeps
<1>3. CASE timer' = [timer EXCEPT !.failed = TRUE] /\ UNCHANGED <<context, host>>
  <2>1. /\ timer'.inSync = timer.inSync /\ timer'.execute = timer.execute
        /\ DOMAIN timer' = DOMAIN timer
    BY <1>3 DEF SmtInv, HostPart, OneSyncs
  <2>2. HostPart(host', timer) /\ BarrierPart(context', host')
    BY <1>3 DEF SmtInv
  <2> QED BY <2>1, <2>2, StepKeeps
<1>4. CASE Barrier(t, host[t].at)
  BY <1>1, <1>4, BarrierInv
<1> QED BY <1>2, <1>3, <1>4 DEF Simulate

\* A thread comes back from the barrier: execute_thread names it only while nobody executes.
LEMMA BarrierExitInv ==
  ASSUME SmtConstants, SmtInv, NEW t \in Thread, BarrierExit(t)
  PROVE  SmtInv'
<1>1. host[t].pc = "woken" /\ host[t].at \in Context
  BY DEF BarrierExit, SmtInv, HostPart, Placed
<1>2. CASE host[t].at = timer.execute /\ Execute(t, context, host)
  <2>1. ~timer.inSync
    BY <1>1, <1>2 DEF SmtConstants, SmtInv, HostPart, OneSyncs, Context
  <2> QED BY <1>1, <1>2, <2>1, ExecuteKeeps DEF SmtInv
<1>3. CASE host' = Checks(host, t) /\ UNCHANGED <<context, timer>>
  <2>1. HostPart(host', timer) /\ BarrierPart(context', host')
    BY <1>1, <1>3, ChecksKeeps DEF SmtInv
  <2> QED BY <1>3, <2>1, StepKeeps
<1> QED BY <1>2, <1>3 DEF BarrierExit

\* The executor comes back and releases the others.
LEMMA SyncDoneInv ==
  ASSUME SmtInv, NEW t \in Thread, SyncDone(t)
  PROVE  SmtInv'
<1> DEFINE r == BarrierRelease(context, TRUE, host[t].at)
           S == r.signalled
<1>1. /\ host[t].pc = "sync" /\ context' = Signal(context, S)
      /\ \E hs \in Woken(host, S) : host' = Checks(hs, t)
      /\ timer' = [timer EXCEPT !.inSync = FALSE, !.execute = r.execute, !.hung = @ \/ r.hung,
                      !.lost = @ \/ (r.releaseMe /\ context[host[t].at].thread # t)]
  BY DEF SyncDone
<1> HIDE DEF r, S
<1>2. PICK hs \in Woken(host, S) : host' = Checks(hs, t)
  BY <1>1
<1>3. BarrierPart(Signal(context, S), hs) /\ HostPart(hs, timer)
  BY SignalKeeps DEF SmtInv
<1>4. hs[t] = host[t]
  <2>1. \A u \in Thread : \/ hs[u] = host[u]
                           \/ /\ host[u].pc = "waiting" /\ host[u].at \in S
                              /\ hs[u] = [host[u] EXCEPT !.pc = "woken"]
    BY WokenAre
  <2> QED BY <1>1, <2>1
<1>5. HostPart(host', timer) /\ BarrierPart(context', host')
  BY <1>1, <1>2, <1>3, <1>4, ChecksKeeps
<1>6. DOMAIN timer' = DOMAIN timer /\ timer'.inSync = FALSE
  BY <1>1 DEF SmtInv, HostPart, OneSyncs
<1>7. \A u \in Thread : host'[u].pc # "sync"
  <2>1. hs \in [Thread -> HostRecord] /\ hs[t].pc = "sync"
    BY <1>1, <1>3, <1>4 DEF HostPart, HostType
  <2>2. \A u \in Thread : u # t => host'[u] = hs[u]
    BY <1>2, <2>1 DEF Checks
  <2>3. host'[t].pc = "check"
    BY <1>2, <2>1 DEF Checks, HostRecord
  <2> QED BY <1>3, <2>1, <2>2, <2>3 DEF HostPart, OneSyncs
<1>8. OneSyncs(host', timer')
  BY <1>5, <1>6, <1>7 DEF HostPart, OneSyncs
<1> QED BY <1>5, <1>8
        DEF SmtInv, HostPart, BarrierPart, HostType, Placed, ContextType, Marked, OneSyncs

\* Detailed simulation is switched on, or off with everybody released.
LEMMA EnableInv ==
  ASSUME SmtInv, Enable \/ Disable
  PROVE  SmtInv'
<1>1. /\ timer'.inSync = timer.inSync /\ timer'.execute = timer.execute
      /\ DOMAIN timer' = DOMAIN timer
  BY DEF Enable, Disable, SmtInv, HostPart, OneSyncs
<1>2. CASE Enable
  <2>1. HostPart(host', timer) /\ BarrierPart(context', host')
    BY <1>2 DEF Enable, SmtInv
  <2> QED BY <1>1, <2>1, StepKeeps
<1>3. CASE Disable
  <2> DEFINE S == {h \in Context : context[h].inBarrier}
  <2>1. context' = Signal(context, Context) /\ host' \in Woken(host, S)
    BY <1>3 DEF Disable
  <2>2. /\ ContextType(context')
        /\ \A k \in Context : context'[k].inBarrier => Signal(context, S)[k].inBarrier
    BY <2>1 DEF Signal, SmtInv, BarrierPart, ContextType, ContextRecord
  <2> HIDE DEF S
  <2>3. BarrierPart(Signal(context, S), host') /\ HostPart(host', timer)
    BY <2>1, SignalKeeps DEF SmtInv
  <2>4. BarrierPart(context', host')
    BY <2>2, <2>3, FewerMarks
  <2> QED BY <1>1, <2>3, <2>4, StepKeeps
<1> QED BY <1>2, <1>3

-----------------------------------------------------------------------------
\* Every step keeps the invariant.
LEMMA NextInv ==
  ASSUME SmtConstants, SmtInv, [Next]_vars
  PROVE  SmtInv'
<1>1. CASE UNCHANGED vars
  <2>1. HostPart(host', timer) /\ BarrierPart(context', host') /\ timer' = timer
    BY <1>1 DEF vars, SmtInv
  <2> QED BY <2>1, StepKeeps
<1>2. ASSUME NEW t \in Thread, HostStep(t) PROVE SmtInv'
  BY <1>2, PushInstructionsInv, SimulateInv, BarrierExitInv, SyncDoneInv, RescheduleInv
     DEF HostStep
<1>3. ASSUME NEW t \in Thread, SchedulerStep(t) PROVE SmtInv'
  BY <1>3, LeavesCoreInv, ThreadStallInPlaceInv, ThreadResumeInv, ScheduleInv, ComesBackInv,
     ThreadStartInv DEF SchedulerStep, ThreadStall, ThreadExit
<1> QED BY <1>1, <1>2, <1>3, EnableInv, PreemptInv DEF Next

\* The invariant is what the group's barrier promises.
LEMMA InvIsSound == SmtInv => GroupBarrierIsSound
<1> SUFFICES ASSUME SmtInv PROVE GroupBarrierIsSound
  OBVIOUS
<1> DEFINE E == {t \in Thread : host[t].pc = "sync"}
<1>1. MarkedAreWaiting
  BY DEF SmtInv, BarrierPart, Marked, MarkedAreWaiting
<1>2. \A t, u \in E : t = u
  BY DEF SmtInv, HostPart, OneSyncs
<1>3. Cardinality(E) <= 1
  <2> HIDE DEF E
  <2>1. CASE E = {}
    BY <2>1, FS_EmptySet
  <2>2. CASE E # {}
    <3>1. PICK t : t \in E
      BY <2>2
    <3>2. E = {t}
      BY <1>2, <3>1
    <3>3. Cardinality({t}) = 1
      BY FS_Singleton
    <3> QED BY <3>2, <3>3
  <2> QED BY <2>1, <2>2
<1> QED BY <1>1, <1>3 DEF GroupBarrierIsSound, OneExecutor

\* In every group of hardware contexts, whatever the scheduler preempts and whoever stalls, a
\* context that the SMT barrier releases has a thread that waits on it, and at most one thread
\* executes for the group.
THEOREM GroupBarrierIsSoundHolds ==
  ASSUME SmtConstants
  PROVE  Spec => []GroupBarrierIsSound
<1>1. SmtInv /\ [Next]_vars => SmtInv'
  BY NextInv
<1> QED
  BY InitInv, <1>1, InvIsSound, PTL DEF Spec
=============================================================================
