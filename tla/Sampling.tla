------------------------------ MODULE Sampling ------------------------------
(***************************************************************************)
(* Fast-forwarding.  SamplingManager and PeriodicSampling switch the cores *)
(* between detailed simulation and fast-forwarding at a per-core CPI;       *)
(* FastForwardPerformanceManager fast-forwards at one instruction per cycle *)
(* whatever is outside the region of interest.  Both are driven by the      *)
(* periodic hook of the clock-skew barrier and by the instruction-count     *)
(* callback of every core (core.cc).  One thread per core; threads may      *)
(* sleep and wake one another.                                              *)
(*                                                                          *)
(* Time is in cycles.  barrierRelease holds the thread manager's lock; one  *)
(* turn of its loop is one Release step.  A setting with manager = TRUE is   *)
(* the manager without sampling; one with manager = FALSE is sampling in a   *)
(* region of interest, with aim the target that the manager had when the     *)
(* region began (Never: there is no manager).  Left out: the sampling        *)
(* provider, instrumentation modes, random placement (see the README) and    *)
(* the limit on released threads (BarrierSyncServer has it).                 *)
(***************************************************************************)
EXTENDS Integers, Sequences, FiniteSets, FiniteSetsExt, SequencesExt

CONSTANTS Core,        \* application cores
          Setting,     \* the settings that are tried; sleeps bounds how often threads go to sleep
          Cost,        \* what one instruction may cost in detailed mode
          MaxTime,     \* bound: no core runs beyond this time
          MaxRegions,  \* bound: how often the region of interest begins
          Never        \* UINT64_MAX, SubsecondTime::MaxTime()

\* The assertion of PeriodicSampling's constructor.  Never is larger than any count.
ASSUME SamplingAssumption ==
    /\ IsFiniteSet(Core) /\ Core # {} /\ Cost \subseteq Nat /\ Never \notin Int
    /\ \A p \in Setting :
           /\ p.manager \in BOOLEAN /\ p.uncoordinated \in BOOLEAN /\ p.detailedSync \in BOOLEAN
           /\ p.sync \in Nat \ {0} /\ p.quantum \in Nat \ {0}
           /\ p.fastforward \in Nat /\ p.warmup \in Nat /\ p.detailed \in Nat /\ p.detailedWarmup \in Nat
           /\ p.sync <= p.fastforward \/ p.sync <= p.warmup
           /\ p.latency \subseteq Nat /\ p.aim \in Nat \cup {Never}

VARIABLES set, core, bar, smp,
          budget   \* bounds: [sleeps, regions] used
vars == <<set, core, bar, smp, budget>>

\* What the code takes as differences from the values resetCoreHistoricCPIs
\* stored: instructions, time, time without the idle time, and
\* m_fastforwarded_time.
NothingSince == [insns |-> 0, time |-> 0, busy |-> 0, forwarded |-> 0]
\* callback is m_instructions_callback - m_instructions; late, a history: what memory
\* accesses and branches took since the callback was set.
NewCore ==
    [elapsed |-> 0, since |-> NothingSince, callback |-> Never,
     late |-> 0, cpi |-> 0, clock |-> 0, sync |-> set.quantum, state |-> "run"]
NewBarrier == [ff |-> FALSE, next |-> set.quantum, global |-> 0, releasing |-> FALSE]
NewSampler ==
    [ff |-> FALSE, detailedSync |-> TRUE, target |-> 0, last |-> 0,
     ffLeft |-> 0, warmupLeft |-> 0, detailedLeft |-> 0,
     history |-> [c \in Core |-> <<>>],
     planned |-> 0, failed |-> FALSE]   \* history: time planned in this cycle; an assertion

Larger(a, b) == IF a > b THEN a ELSE b
Smaller(a, b) == IF a < b THEN a ELSE b
\* SubsecondTime::divideRounded (its extra femtosecond never shows in cycles)
DivideRounded(a, b) == (2 * a + b) \div (2 * b)
IsRunning(k) == k.state # "sleep"
\* Time goes on: busy or idle, simulated or fast-forwarded.  (Only sampling
\* looks at the differences.)
Advance(k, d, busy, forwarded) ==
    IF set.manager THEN [k EXCEPT !.elapsed = @ + d]
    ELSE [k EXCEPT !.elapsed = @ + d,
                   !.since = [insns |-> @.insns, time |-> @.time + d, busy |-> @.busy + busy,
                              forwarded |-> @.forwarded + forwarded]]
Latest(C) == Max({0} \cup {core[c].elapsed : c \in C})

-----------------------------------------------------------------------------
\* SamplingManager

\* recalibrateInstructionsCallback
InstructionsUntil(k, target) ==
    IF k.elapsed > target THEN 1 ELSE DivideRounded(target - k.elapsed, Larger(k.cpi, 1))
Recalibrate(k, target) == [k EXCEPT !.callback = InstructionsUntil(k, target), !.late = 0]

\* One turn of the loop of barrierRelease, after the hooks left the cores
\* as cs and called setFastForward(ff, next): the next barrier time, and
\* everybody who waits for an earlier one goes on.
Released(k, time) == IF k.state = "wait" /\ k.clock < time THEN [k EXCEPT !.state = "run"] ELSE k
EndOfTurn(cs, ff, next) ==
    LET time == next + set.quantum
        resumed == \E c \in Core : cs[c].state = "wait" /\ cs[c].clock < time
    IN  /\ core' = [c \in Core |-> Released(cs[c], time)]
        /\ bar' = [ff |-> ff, next |-> time, global |-> bar.next, releasing |-> ~resumed]

\* enableFastForward: cs are the cores with their CPI, x the sampler.
EnableFastForward(cs, x, until) ==
    /\ smp' = [x EXCEPT !.ff = TRUE, !.target = until,
                        !.detailedSync = IF smp.ff THEN @ ELSE set.detailedSync]
    /\ EndOfTurn([c \in Core |-> Recalibrate(cs[c], until)], TRUE, Larger(bar.next, Latest(Core)))

\* disableFastForward: in uncoordinated mode the cores that are behind are
\* put forward.
CatchUp(k, next) ==
    IF set.uncoordinated
    THEN Advance([k EXCEPT !.callback = Never], next - k.elapsed, next - k.elapsed, next - k.elapsed)
    ELSE [k EXCEPT !.callback = Never]
DisableFastForward(cs, x) ==
    LET next == Latest({c \in Core : IsRunning(core[c])})
    IN  /\ smp' = [x EXCEPT !.ff = FALSE, !.detailedSync = TRUE]
        /\ EndOfTurn([c \in Core |-> CatchUp(cs[c], next)], FALSE, Larger(bar.next, next))

\* resetCoreHistoricCPIs
ResetHistoricCPIs == [c \in Core |-> [core[c] EXCEPT !.since = NothingSince]]
\* getCoreHistoricCPI
HistoricCPI(k) ==
    LET time == IF set.detailedSync THEN k.since.busy ELSE k.since.time
    IN  CASE k.since.insns = 0 -> Never
          [] k.since.insns # 0 /\ time <= set.detailed \div 5 -> 0
          [] OTHER -> time \div k.since.insns

-----------------------------------------------------------------------------
\* PeriodicSampling

\* The CPI to fast-forward with: the mean of the last samples, at least one
\* cycle (the dispatch width is one) and at most 100.
PushCircular(q, cpi) == LET all == Append(q, cpi)
                        IN  IF Len(all) > set.intervals THEN Tail(all) ELSE all
MeanOf(q) == FoldSeq(+, 0, q) \div Len(q)
Samples(c) ==
    LET cpi == HistoricCPI(core[c])
    IN  IF set.oneipc \/ cpi \in {0, Never} THEN smp.history[c] ELSE PushCircular(smp.history[c], cpi)
Clamped(cpi) == IF cpi \in 1 .. 100 THEN cpi ELSE IF cpi > 100 THEN 100 ELSE 1
FastForwardCPI(q) == IF set.oneipc \/ q = <<>> THEN 1 ELSE Clamped(MeanOf(q))

PieceOf(left) == [take |-> Smaller(left, set.sync), left |-> left - Smaller(left, set.sync)]
StepFastForward(cs, x) ==
    \/ /\ x.ffLeft > 0
       /\ EnableFastForward(cs, [x EXCEPT !.ffLeft = PieceOf(@).left, !.planned = @ + PieceOf(x.ffLeft).take],
                            bar.next + PieceOf(x.ffLeft).take)
    \/ /\ x.ffLeft <= 0 /\ x.warmupLeft > 0
       /\ EnableFastForward(cs, [x EXCEPT !.warmupLeft = PieceOf(@).left, !.planned = @ + PieceOf(x.warmupLeft).take],
                            bar.next + PieceOf(x.warmupLeft).take)

\* callbackDetailed
SampleIsOver == bar.next > smp.last + set.detailed
WarmupIsOver == smp.detailedLeft > 0 /\ bar.next > smp.last + set.detailedWarmup
EndSample ==
    /\ ~smp.ff /\ SampleIsOver
    /\ \E q \in {[c \in Core |-> Samples(c)]} :
           StepFastForward([c \in Core |-> [core[c] EXCEPT !.cpi = FastForwardCPI(q[c])]],
                           [smp EXCEPT !.history = q, !.ffLeft = set.fastforward, !.warmupLeft = set.warmup,
                                       !.planned = 0, !.last = bar.next,
                                       !.failed = @ \/ smp.detailedLeft > 0])
EndDetailedWarmup ==
    /\ ~smp.ff /\ ~SampleIsOver /\ WarmupIsOver
    /\ smp' = [smp EXCEPT !.detailedLeft = 0]
    /\ EndOfTurn(ResetHistoricCPIs, bar.ff, bar.next)
GoOnDetailed ==
    /\ ~smp.ff /\ ~SampleIsOver /\ ~WarmupIsOver
    /\ UNCHANGED smp
    /\ EndOfTurn(core, bar.ff, bar.next)

\* callbackFastForward
GoOnFastForward == smp.ff /\ StepFastForward(core, smp)
EndFastForwardUnmeasured ==
    /\ smp.ff /\ smp.ffLeft <= 0 /\ smp.warmupLeft <= 0
    /\ DisableFastForward(core, [smp EXCEPT !.last = bar.next,
            !.detailedLeft = IF set.detailedWarmup > 0 THEN set.detailedWarmup ELSE @])
EndFastForward ==
    /\ smp.ff /\ smp.ffLeft <= 0 /\ smp.warmupLeft <= 0
    /\ DisableFastForward(ResetHistoricCPIs, [smp EXCEPT !.last = bar.next,
            !.detailedLeft = IF set.detailedWarmup > 0 THEN set.detailedWarmup ELSE @])

-----------------------------------------------------------------------------
\* FastForwardPerformanceManager: outside the region of interest.

\* step: the next synchronisation interval, at one cycle per instruction (a
\* core that is beyond the target keeps its CPI).
OneIpc(k, target) ==
    Recalibrate(IF k.elapsed > target THEN k ELSE [k EXCEPT !.cpi = 1], target)
ManagerStep ==
    /\ smp.ff
    /\ smp' = [smp EXCEPT !.target = bar.next + set.sync]
    /\ EndOfTurn([c \in Core |-> OneIpc(core[c], bar.next + set.sync)], TRUE, Larger(bar.next, Latest(Core)))
ManagerOff ==
    /\ ~smp.ff
    /\ UNCHANGED smp
    /\ EndOfTurn(core, bar.ff, bar.next)

\* abortBarrier
LetGo(k) == IF k.state = "wait" THEN [k EXCEPT !.state = "run"] ELSE k

Over == smp.failed \/ \E c \in Core : core[c].elapsed >= MaxTime

\* A thread begins (disable) or ends (enable) the region of interest.
BeginRegion ==
    /\ set.manager /\ smp.ff /\ ~Over /\ ~bar.releasing /\ budget.regions < MaxRegions
    /\ \E c \in Core : core[c].state = "run"
    /\ core' = [c \in Core |-> LetGo([core[c] EXCEPT !.callback = Never])]
    /\ bar' = [bar EXCEPT !.ff = FALSE, !.next = Larger(@, Latest({c \in Core : IsRunning(core[c])}))]
    /\ smp' = [smp EXCEPT !.ff = FALSE]
    /\ budget' = [budget EXCEPT !.regions = @ + 1]
    /\ UNCHANGED set
EndRegion ==
    /\ set.manager /\ ~smp.ff /\ ~Over /\ ~bar.releasing
    /\ \E c \in Core : core[c].state = "run"
    /\ core' = [c \in Core |-> LetGo(OneIpc(core[c], bar.global + set.sync))]
    /\ bar' = [bar EXCEPT !.ff = TRUE, !.next = Larger(@, Latest(Core))]
    /\ smp' = [smp EXCEPT !.ff = TRUE, !.target = bar.global + set.sync]
    /\ UNCHANGED <<set, budget>>

-----------------------------------------------------------------------------
\* The clock-skew barrier: the hooks run in the loop of barrierRelease.

IsBarrierReachedByAll(cs, b) ==
    \A c \in Core : IF b.ff THEN cs[c].state = "wait" ELSE cs[c].clock >= b.next
IsBarrierReached(cs, b) ==
    LET running == {c \in Core : IsRunning(cs[c])}
    IN  /\ running # {}
        /\ \A c \in running : IF b.ff THEN cs[c].state = "wait" ELSE cs[c].clock >= b.next
\* The start of barrierRelease: fast-forwarding skips many intervals at once.
StartRelease(cs, b) ==
    IF ~IsBarrierReached(cs, b) THEN b
    ELSE [b EXCEPT !.releasing = TRUE,
                   !.next = IF b.ff THEN Max({@} \cup {cs[c].clock : c \in Core}) ELSE @]
\* The loop ends when it has resumed somebody; if nobody waits, it turns for ever.
SomeoneWaits == \E c \in Core : core[c].state = "wait"
Release ==
    /\ bar.releasing /\ SomeoneWaits
    /\ \/ ~set.manager /\ (EndSample \/ EndDetailedWarmup \/ GoOnDetailed \/ GoOnFastForward \/ EndFastForward)
       \/ set.manager /\ (ManagerStep \/ ManagerOff)
    /\ UNCHANGED <<set, budget>>

\* BarrierSyncClient::synchronize and BarrierSyncServer::synchronize
Synchronize(cs, c, ignoreTime) ==
    LET now == cs[c].elapsed
        due == now >= cs[c].sync \/ ignoreTime
        waits == due /\ (now >= bar.next \/ bar.ff)
        k == IF due THEN [cs[c] EXCEPT !.sync = (now \div set.quantum + 1) * set.quantum] ELSE cs[c]
    IN  \E ds \in {[cs EXCEPT ![c] = IF waits THEN [k EXCEPT !.state = "wait", !.clock = now] ELSE k]} :
            /\ core' = ds
            /\ bar' = IF waits THEN StartRelease(ds, bar) ELSE bar

-----------------------------------------------------------------------------
\* Core::countInstructions while fast-forwarding: the time of one instruction,
\* and the callback, which in uncoordinated mode calls everybody.
InstrCount(cs, c) ==
    Synchronize(IF set.uncoordinated /\ ~set.manager
                THEN [d \in Core |-> [cs[d] EXCEPT !.callback = 1]]
                ELSE [cs EXCEPT ![c].callback = Never], c, TRUE)
CountInstruction(k) ==
    Advance([k EXCEPT !.callback = IF @ = Never THEN Never ELSE @ - 1], k.cpi, k.cpi, k.cpi)
\* handleMemoryLatency and handleBranchMispredict of the instruction before, with
\* include_memory_latency and include_branch_misprediction: time goes on, the callback stays.
Delayed(k, d) == [Advance(k, d, d, d) EXCEPT !.late = @ + d]
ExecuteFast(c) ==
    \E d \in set.latency : \E cs \in {[core EXCEPT ![c] = CountInstruction(Delayed(@, d))]} :
        \/ cs[c].callback <= 0 /\ InstrCount(cs, c)
        \/ cs[c].callback > 0 /\ core' = cs /\ UNCHANGED bar
\* One instruction in detail: the performance model, then iterate()'s synchronize().
Simulated(k, cost) ==
    [Advance(k, cost, cost, 0) EXCEPT !.since.insns = IF set.manager THEN @ ELSE @ + 1]
ExecuteDetailed(c) ==
    \E cost \in Cost :
        \E cs \in {[core EXCEPT ![c] = Simulated(@, cost)]} : Synchronize(cs, c, FALSE)
Execute(c) ==
    /\ ~Over /\ ~bar.releasing /\ core[c].state = "run"
    /\ IF smp.ff THEN ExecuteFast(c) ELSE ExecuteDetailed(c)
    /\ UNCHANGED <<set, smp, budget>>

\* A thread goes to sleep (threadStall: is the barrier waiting for it only?).
Sleep(c) ==
    /\ ~Over /\ ~bar.releasing /\ budget.sleeps < set.sleeps /\ core[c].state = "run"
    /\ \E d \in Core \ {c} : IsRunning(core[d])
    /\ \E cs \in {[core EXCEPT ![c].state = "sleep"]} :
           core' = cs /\ bar' = StartRelease(cs, bar)
    /\ budget' = [budget EXCEPT !.sleeps = @ + 1]
    /\ UNCHANGED <<set, smp>>

\* notifyElapsedTimeUpdate: sampling recalibrates for its target, then the manager, if there
\* is one, for its own.  Without sampling the manager's is the one that stays.
Aimed(k) ==
    IF set.manager THEN OneIpc(k, smp.target)
    ELSE IF set.aim = Never THEN Recalibrate(k, smp.target)
    ELSE OneIpc(Recalibrate(k, smp.target), set.aim)
\* Thread d wakes the thread of core c, which goes on at the time of d
\* (handleIdleInstruction, incrementIdleElapsedTime).
Wake(c, d) ==
    /\ ~Over /\ ~bar.releasing /\ core[c].state = "sleep" /\ core[d].state = "run"
    /\ LET idle == IF smp.ff /\ ~smp.detailedSync THEN 0 ELSE Larger(0, core[d].elapsed - core[c].elapsed)
           k == Advance([core[c] EXCEPT !.state = "run"], idle, 0, 0)
       IN  core' = [core EXCEPT ![c] = IF smp.ff /\ smp.detailedSync THEN Aimed(k) ELSE k]
    /\ UNCHANGED <<set, bar, smp, budget>>

\* The manager is enabled when the simulator starts.
Init ==
    /\ set \in Setting
    /\ core = [c \in Core |-> IF set.manager THEN OneIpc(NewCore, set.sync) ELSE NewCore]
    /\ bar = [NewBarrier EXCEPT !.ff = set.manager]
    /\ smp = [NewSampler EXCEPT !.ff = set.manager, !.target = IF set.manager THEN set.sync ELSE 0]
    /\ budget = [sleeps |-> 0, regions |-> 0]
Next ==
    \/ Release \/ BeginRegion \/ EndRegion
    \/ \E c \in Core : Execute(c) \/ Sleep(c)
    \/ \E c, d \in Core : Wake(c, d)
Spec == Init /\ [][Next]_vars
\* Every thread that runs goes on executing instructions, and the release
\* loop, which holds the lock, goes on.
FairSpec == Spec /\ WF_vars(Release) /\ \A c \in Core : WF_vars(Execute(c))

-----------------------------------------------------------------------------
\* Properties

\* The CPI that the next fast-forward will use is measured on detailed
\* execution only: between resetCoreHistoricCPIs and the end of the sample no
\* core's time is fast-forwarded.  (In uncoordinated mode disableFastForward
\* moves the clocks after the reset, and the property is not claimed.)
SamplesAreDetailed ==
    ~smp.ff /\ ~set.uncoordinated /\ ~set.manager =>
        \A c \in Core : core[c].since.forwarded = 0

\* One cycle fast-forwards and warms up for the configured time, whatever the
\* synchronisation interval divides; and a sample does not end in its detailed
\* warm-up (the assertion of callbackDetailed) when a barrier fits between the two.
WarmupIsComplete == ~smp.failed
CyclesAreComplete ==
    /\ set.detailedWarmup + set.quantum <= set.detailed => WarmupIsComplete
    /\ ~smp.ff /\ ~set.manager => smp.planned \in {0, set.fastforward + set.warmup}

\* While the simulator fast-forwards, every core that runs is called at the
\* instruction with which it reaches the target time, whenever it woke up and
\* whatever CPI it was given: it runs past it by no more than the rounding (half an
\* instruction), the one instruction that is always executed, and the memory accesses
\* and mispredicted branches since it was set.  The target is the later one of those that
\* notifyElapsedTimeUpdate aims at.
LastTarget == IF set.manager \/ set.aim = Never THEN smp.target ELSE Larger(smp.target, set.aim)
RunnersAreCalled ==
    smp.ff => \A c \in Core :
        core[c].state = "run" =>
            /\ core[c].callback # Never
            /\ core[c].elapsed + core[c].callback * core[c].cpi
                   <= Larger(LastTarget, core[c].elapsed) + core[c].cpi + core[c].late

\* barrierRelease: "advance the sync time till a core can be resumed".  There is such a
\* core, so the loop, which holds the thread manager's lock, ends.
ReleaseEnds == bar.releasing => SomeoneWaits

\* Sampling measures what it claims to, in cycles that are as long as configured, with
\* every core along, and its switches of mode leave nobody's clock at a barrier where
\* he does not wait.
SamplingIsSound ==
    SamplesAreDetailed /\ CyclesAreComplete /\ RunnersAreCalled /\ (~set.manager => ReleaseEnds)

\* Fast-forwarding goes on: that of sampling always ends, that of the manager goes as far
\* as the application does, although every thread must reach the barrier for it, and some
\* may sleep through it.
FastForwardEnds == smp.ff ~> (~smp.ff \/ Over)
=============================================================================
