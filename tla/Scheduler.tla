------------------------------ MODULE Scheduler ------------------------------
(***************************************************************************)
(* The schedulers (common/scheduler): which thread runs on which core.     *)
(* SchedulerPinnedBase keeps, for each core, the thread it gave it to, and *)
(* for each thread its core, affinity and the times it was scheduled in    *)
(* and out; pinned, roaming, big_small and sequential differ in the first  *)
(* affinity of a thread and in a few overridden hooks.  The thread manager *)
(* keeps the same relation in Thread::m_core and Core::m_thread and moves  *)
(* a thread when told to (ThreadManager::moveThread).                      *)
(*                                                                         *)
(* Everything runs under m_thread_lock, so an operation is one step.  The  *)
(* code calls itself: reschedule moves a thread, moveThread may resume it, *)
(* the resume hook looks for a free core and calls reschedule for that     *)
(* core.  The operators below therefore take the state s and return the    *)
(* state afterwards.                                                       *)
(***************************************************************************)
EXTENDS Integers, Sequences, FiniteSets, FiniteSetsExt, SequencesExt

CONSTANTS NoThread,  \* INVALID_THREAD_ID
          NoCore,    \* INVALID_CORE_ID
          Configs,   \* the configurations that are tried: see ConfigType
          Tick       \* picoseconds between two calls of periodic

VARIABLES
    cfg,     \* the configuration
    s,       \* the tables of the scheduler and of the thread manager
    now,     \* time of the last periodic, in ticks (m_last_periodic)
    waited   \* history: calls of periodic that a ready thread has waited for

vars == <<cfg, s, now, waited>>

ConfigType ==
    [type : {"static", "pinned", "roaming", "big_small", "sequential"},
     threads : Nat, cores : Nat, quantum : Nat, mask : SUBSET Nat,
     interleaving : Nat, seqs : Seq(Nat), ops : SUBSET STRING,
     ticks : Nat]   \* bound: calls of periodic

Core == 0 .. cfg.cores - 1
Thread == 0 .. cfg.threads - 1
Uses(op) == op \in cfg.ops
Type(types) == cfg.type \in types
Pinning == {"pinned", "roaming", "big_small", "sequential"}
Quantum == cfg.quantum * Tick

InitialState ==
    [\* ThreadManager, Thread, Core; UNSCHEDULED is STALLED for STALL_UNSCHEDULED
     status |-> [t \in Thread |-> "UNUSED"],
     core |-> [t \in Thread |-> NoCore],
     thread |-> [c \in Core |-> NoThread],
     coreState |-> [c \in Core |-> "IDLE"],
     \* SchedulerDynamic, SchedulerPinnedBase
     runnable |-> [t \in Thread |-> FALSE],
     affinity |-> [t \in Thread |-> {}],
     running |-> [t \in Thread |-> NoCore],
     in |-> [t \in Thread |-> 0],
     out |-> [t \in Thread |-> 0],
     onCore |-> [c \in Core |-> NoThread],
     left |-> [c \in Core |-> 0],
     \* SchedulerPinned, SchedulerBigSmall, SchedulerSequential
     nextCore |-> 0,
     big |-> {}, reshuffled |-> 0,
     set |-> 1, setLeft |-> cfg.seqs, queue |-> [c \in Core |-> {}],
     nextToRun |-> [c \in Core |-> FoldLeft(LAMBDA sum, n : sum + n, 0,
                                            SubSeq(cfg.seqs, 1, c))],
     asserts |-> TRUE]

Init ==
    /\ cfg \in Configs
    /\ s = InitialState
    /\ now = 0
    /\ waited = [t \in Thread |-> 0]

-----------------------------------------------------------------------------
(* SchedulerPinnedBase and the thread manager.                              *)

FreeCores(st, t) == {c \in st.affinity[t] : st.onCore[c] = NoThread}
FindFreeCore(st, t) == IF FreeCores(st, t) = {} THEN NoCore ELSE Min(FreeCores(st, t))

\* Thread::setCore, with its assertion that nobody is on the core.
SetCore(st, t, c) ==
    LET gone == IF st.core[t] = NoCore THEN st.thread
                                       ELSE [st.thread EXCEPT ![st.core[t]] = NoThread]
    IN  IF c = NoCore
        THEN [st EXCEPT !.core[t] = NoCore, !.thread = gone]
        ELSE [st EXCEPT !.core[t] = c, !.thread = [gone EXCEPT ![c] = t],
                        !.asserts = @ /\ gone[c] = NoThread]

\* Threads that may have core c: allowed there, not stalled, not elsewhere.
Eligible(st, c) ==
    {t \in Thread : /\ c \in st.affinity[t]
                    /\ st.runnable[t]
                    /\ st.running[t] \in {NoCore, c}}

\* How long a thread has waited, or minus how long it has run.
Score(st, t, time) ==
    IF st.running[t] # NoCore THEN st.in[t] - time ELSE time - st.out[t]

\* Mutant: the thread that has waited least.
NextThreadNewest(st, c, time) ==
    LET best == {t \in Eligible(st, c) :
                    \A u \in Eligible(st, c) : Score(st, t, time) <= Score(st, u, time)}
    IN  IF best = {} THEN NoThread ELSE Min(best)

\* The thread that was scheduled the longest time ago; the first one of several.
NextThread(st, c, time) ==
    LET best == {t \in Eligible(st, c) :
                    \A u \in Eligible(st, c) : Score(st, t, time) >= Score(st, u, time)}
    IN  IF best = {} THEN NoThread ELSE Min(best)

RECURSIVE Reschedule(_, _, _)

\* resumeThread and the hook __threadResume, threadResume.
ResumeThread(st, t, time) ==
    LET awake == [st EXCEPT !.status[t] = "RUNNING", !.runnable[t] = TRUE]
        c == FindFreeCore(st, t)
    IN  IF c # NoCore /\ Type(Pinning) THEN Reschedule(awake, time, c) ELSE awake

\* moveThread, second half: the thread that is on no core wakes up; c runs it.
Awake(st, t, time) ==
    IF st.core[t] = NoCore /\ st.status[t] = "UNSCHEDULED" THEN ResumeThread(st, t, time) ELSE st
Runs(st, t, c) ==
    IF st.status[t] \in {"STALLED", "UNSCHEDULED"} THEN st
    ELSE [st EXCEPT !.coreState[c] = "RUNNING"]
MoveTo(st, t, c, time) ==
    IF c = NoCore THEN SetCore(st, t, NoCore) ELSE Runs(SetCore(Awake(st, t, time), t, c), t, c)

\* Mutant: the core that a thread leaves is not told so.
MoveThreadLeavesState(st, t, c, time) == MoveTo(st, t, c, time)

\* ThreadManager::moveThread.
MoveThread(st, t, c, time) ==
    MoveTo(IF st.core[t] = NoCore THEN st ELSE [st EXCEPT !.coreState[st.core[t]] = "IDLE"],
           t, c, time)

\* reschedule, first half: the core is taken away from t.
Unschedule(st, t, c, time) ==
    MoveThread([st EXCEPT !.running[t] = NoCore, !.out[t] = time + c], t, NoCore, time)

\* Second half: the core is given to t, in the table first and then for real.
Schedule(st, t, c, time) ==
    LET known == [st EXCEPT !.onCore[c] = IF st.running[t] = NoCore THEN t ELSE NoThread,
                            !.running[t] = c, !.in[t] = time]
    IN  MoveThread(known, t, c, time)

\* reschedule.
Reschedule(st, time, c) ==
    LET current == st.onCore[c]
        new == NextThread(st, c, time)
        free == IF current = NoThread THEN st
                ELSE [Unschedule(st, current, c, time) EXCEPT !.onCore[c] = NoThread]
        Give(f) == IF new = NoThread THEN f ELSE Schedule(f, new, c, time)
    IN  IF current # NoThread /\ st.status[current] = "INITIALIZING" THEN st
        ELSE [(IF current = new THEN st ELSE Give(free)) EXCEPT !.left[c] = Quantum]

-----------------------------------------------------------------------------
(* Affinity.                                                                *)

\* SchedulerPinnedBase::threadYield.
Yield(st, t, time) ==
    LET c == st.running[t]
        Elsewhere(given) ==
            LET other == FindFreeCore(given, t)
            IN  IF c \notin given.affinity[t] /\ other # NoCore
                THEN Reschedule(given, time, other) ELSE given
    IN  IF c = NoCore THEN st ELSE Elsewhere(Reschedule([st EXCEPT !.left[c] = 0], time, c))

\* Mutant: a thread that must leave its core is not hurried.
SetAffinityMaskLater(st, caller, t, mask, time) ==
    LET set == [st EXCEPT !.affinity[t] = mask]
        other == FindFreeCore(set, t)
    IN  IF st.status[t] = "UNUSED" THEN set
        ELSE IF t = caller THEN Yield(set, t, time)
        ELSE IF set.runnable[t] /\ st.running[t] = NoCore /\ other # NoCore
        THEN Reschedule(set, time, other) ELSE set

\* threadSetAffinity, by a thread for itself or another, or by the scheduler.
SetAffinityMask(st, caller, t, mask, time) ==
    LET set == [st EXCEPT !.affinity[t] = mask]
        c == st.running[t]
        other == FindFreeCore(set, t)
    IN  IF st.status[t] = "UNUSED" THEN set
        ELSE IF t = caller THEN Yield(set, t, time)
        ELSE IF c # NoCore /\ c \notin mask THEN [set EXCEPT !.left[c] = 0]
        ELSE IF set.runnable[t] /\ c = NoCore /\ other # NoCore
        THEN Reschedule(set, time, other) ELSE set

StepCore(c) ==
    LET d == c + cfg.interleaving
    IN  IF d >= cfg.cores THEN ((d % cfg.cores) + 1) % cfg.interleaving ELSE d

RECURSIVE GetNextCore(_)
GetNextCore(c) == IF StepCore(c) \in cfg.mask THEN StepCore(c) ELSE GetNextCore(StepCore(c))

\* getFreeCore: the first free core from first on, else first itself.
RECURSIVE GetFreeCoreFrom(_, _, _)
GetFreeCoreFrom(st, first, c) ==
    IF st.onCore[c] = NoThread /\ c \in cfg.mask THEN c
    ELSE IF GetNextCore(c) = first THEN first ELSE GetFreeCoreFrom(st, first, GetNextCore(c))

BigCores == Core \ cfg.mask   \* big_small: the mask is that of the small cores

\* threadSetInitialAffinity of the four schedulers.
SetInitialAffinity(st, t) ==
    CASE cfg.type = "pinned" ->
           LET c == GetFreeCoreFrom(st, st.nextCore, st.nextCore)
           IN  [st EXCEPT !.affinity[t] = {c}, !.nextCore = GetNextCore(c)]
      [] cfg.type = "roaming" -> [st EXCEPT !.affinity[t] = cfg.mask]
      [] cfg.type = "big_small" -> SetAffinityMask(st, NoThread, t, cfg.mask, 0)
      [] cfg.type = "sequential" ->
           [st EXCEPT !.affinity[t] = {st.set - 1},
                      !.setLeft[st.set] = @ - 1,
                      !.set = IF st.setLeft[st.set] = 1 THEN @ + 1 ELSE @]

-----------------------------------------------------------------------------
(* Operations.  A hook is called at the time of a core, which is between    *)
(* the last periodic and the next.                                          *)

CallTime ==
    {now * Tick} \cup IF Uses("late") THEN {now * Tick + Tick \div 2} ELSE {}

\* The thread executes the program.
Executing(t) == s.status[t] = "RUNNING" /\ s.core[t] # NoCore

\* A ready thread that has no core counts the calls of periodic, except while a
\* thread that has not started holds a core it may use.
Ready(st, t) == st.runnable[t] /\ st.running[t] = NoCore
Held(st, t) == \E c \in st.affinity[t] : st.coreState[c] = "INITIALIZING"
Counting(st) == [t \in Thread |-> IF Ready(st, t) THEN waited[t] ELSE 0]

Becomes(st) ==
    /\ s' = st
    /\ waited' = Counting(st)
    /\ UNCHANGED <<cfg, now>>

\* createThread_unlocked with threadCreate.
Create(t) ==
    /\ s.status[t] = "UNUSED"
    /\ \A u \in Thread : u < t => s.status[u] # "UNUSED"
    /\ LET new == [s EXCEPT !.status[t] = "INITIALIZING"]
           idle == {c \in cfg.mask : s.coreState[c] = "IDLE"}
       IN  /\ Type({"static"}) => idle # {}   \* else the simulation ends
           /\ \E known \in {IF Type({"static"}) \/ s.affinity[t] # {} THEN new
                             ELSE SetInitialAffinity(new, t)} :
                LET c == IF Type({"static"}) THEN Min(idle) ELSE FindFreeCore(known, t)
                    given == IF Type({"static"}) THEN known
                             ELSE [known EXCEPT !.running[t] = c, !.onCore[c] = t, !.left[c] = Quantum]
                IN  Becomes(IF c = NoCore THEN known
                            ELSE [SetCore(given, t, c) EXCEPT !.coreState[c] = "INITIALIZING"])

\* SchedulerSequential::threadStart.
SequentialStart(st, t) ==
    LET c == Min(st.affinity[t])
    IN  IF st.onCore[c] = t THEN [st EXCEPT !.nextToRun[c] = @ + 1]
        ELSE [st EXCEPT !.runnable[t] = FALSE, !.queue[c] = @ \cup {t}]

\* onThreadStart, __threadStart, threadStart.
Start(t) ==
    /\ s.status[t] = "INITIALIZING"
    /\ \E time \in CallTime :
         LET up == [s EXCEPT !.status[t] = "RUNNING", !.runnable[t] = TRUE]
             c == FindFreeCore(up, t)
         IN  \E hooked \in {IF Type({"sequential"}) THEN SequentialStart(up, t)
                            ELSE IF Type(Pinning) /\ c # NoCore THEN Reschedule(up, time, c)
                            ELSE up} :
                Becomes(IF hooked.core[t] = NoCore
                        THEN [hooked EXCEPT !.status[t] = "UNSCHEDULED"]
                        ELSE [hooked EXCEPT !.coreState[hooked.core[t]] = "RUNNING"])

\* big_small: pickBigThread; order is the order in which the dice would have it.
PickBigThread(st, order, time) ==
    LET eligible == SelectSeq(order, LAMBDA t : /\ st.status[t] # "UNUSED"
                                                /\ t \notin st.big
                                                /\ st.runnable[t])
    IN  IF eligible = <<>> THEN st
        ELSE [SetAffinityMask(st, NoThread, Head(eligible), BigCores, time)
                 EXCEPT !.big = @ \cup {Head(eligible)}]

MoveToSmall(st, t, time) ==
    [SetAffinityMask(st, NoThread, t, cfg.mask, time) EXCEPT !.big = @ \ {t}]

Orders == IF Type({"big_small"}) THEN SetToSeqs(Thread) ELSE {<<>>}

\* If the thread had a core, the core is given to another one.
LeaveCore(st, t, time) ==
    IF st.running[t] = NoCore THEN st ELSE Reschedule(st, time, st.running[t])

\* stallThread for a mutex, futex, join..., __threadStall, threadStall.
Stall(t) ==
    /\ Uses("stall")
    /\ Executing(t)
    /\ \E time \in CallTime, order \in Orders :
         LET down == [s EXCEPT !.status[t] = "STALLED", !.runnable[t] = FALSE]
             small == IF t \in s.big
                      THEN MoveToSmall(PickBigThread(down, order, time), t, time) ELSE down
         IN  Becomes(IF Type(Pinning) THEN LeaveCore(small, t, time) ELSE down)

\* resumeThread by whoever releases what the thread waits for.
Resume(t) ==
    /\ s.status[t] = "STALLED"
    /\ \E time \in CallTime : Becomes(ResumeThread(s, t, time))

\* Thread::reschedule: a thread without a core stops until it is given one.
Unscheduled(t) ==
    /\ s.status[t] = "RUNNING"
    /\ s.core[t] = NoCore
    /\ Becomes([s EXCEPT !.status[t] = "UNSCHEDULED"])

\* SchedulerSequential::threadExit.
SequentialExit(st, t, time) ==
    LET c == Min(st.affinity[t])
        out == [st EXCEPT !.out[t] = time]
        next == IF st.queue[c] = {} THEN NoThread ELSE Min(st.queue[c])
    IN  IF next = NoThread \/ next # st.nextToRun[c] THEN out
        ELSE Reschedule([out EXCEPT !.queue[c] = @ \ {next},
                                    !.runnable[next] = TRUE,
                                    !.nextToRun[c] = @ + 1], time, c)

\* onThreadExit, __threadExit, threadExit.
Exit(t) ==
    /\ Uses("exit")
    /\ Executing(t)
    /\ \E time \in CallTime, order \in Orders :
         LET off == [SetCore(s, t, NoCore) EXCEPT !.status[t] = "IDLE",
                                                  !.coreState[s.core[t]] = "IDLE",
                                                  !.runnable[t] = FALSE]
             small == IF t \in s.big THEN PickBigThread(off, order, time) ELSE off
         IN  Becomes(CASE Type({"static"}) -> off
                       [] Type({"sequential"}) -> SequentialExit(off, t, time)
                       [] OTHER -> LeaveCore(small, t, time))

\* sched_yield.
ThreadYield(t) ==
    /\ Uses("yield")
    /\ Executing(t)
    /\ Type(Pinning)
    /\ \E time \in CallTime : Becomes(Yield(s, t, time))

\* sched_setaffinity by an executing thread, or by a script for any thread.
ThreadSetAffinity(caller, t) ==
    /\ Uses("affinity")
    /\ Type(Pinning)
    /\ caller # NoThread => Executing(caller) /\ s.status[t] # "UNUSED"
    /\ \E time \in CallTime, mask \in SUBSET Core \ {{}} :
         Becomes(SetAffinityMask(s, caller, t, mask, time))

\* SchedulerBigSmall::periodic, before it calls that of the base class.
Reshuffle(st, order, time) ==
    LET small == FoldLeft(LAMBDA acc, t : MoveToSmall(acc, t, time), st,
                         SetToSortSeq(st.big, <))
        created == {t \in Thread : st.status[t] # "UNUSED"}
        picks == Min({Cardinality(BigCores), Cardinality(created)})
    IN  IF time > st.reshuffled + Quantum
        THEN [FoldLeft(LAMBDA acc, i : PickBigThread(acc, order, time), small,
                      [i \in 1 .. picks |-> i]) EXCEPT !.reshuffled = time]
        ELSE st

\* Mutant: a core is rescheduled only when its quantum is over.
PeriodicCoreBusy(st, c, time) ==
    IF Tick > st.left[c] THEN Reschedule(st, time, c)
                         ELSE [st EXCEPT !.left[c] = @ - Tick]

\* SchedulerPinnedBase::periodic, for one core.
PeriodicCore(st, c, time) ==
    IF Tick > st.left[c] \/ st.onCore[c] = NoThread THEN Reschedule(st, time, c)
                                                    ELSE [st EXCEPT !.left[c] = @ - Tick]

Periodic ==
    /\ now < cfg.ticks
    /\ now' = now + 1
    /\ \E order \in Orders :
         LET time == now' * Tick
             shuffled == IF Type({"big_small"}) THEN Reshuffle(s, order, time) ELSE s
         IN  s' = IF Type(Pinning)
                  THEN FoldLeft(LAMBDA st, c : PeriodicCore(st, c, time), shuffled,
                               [i \in 1 .. cfg.cores |-> i - 1])
                  ELSE s
    /\ waited' = [t \in Thread |-> IF ~Ready(s, t) \/ ~Ready(s', t) THEN 0
                                   ELSE IF Held(s, t) THEN waited[t] ELSE waited[t] + 1]
    /\ UNCHANGED cfg

Next ==
    \/ Periodic
    \/ \E t \in Thread :
         \/ Create(t)
         \/ Start(t)
         \/ Stall(t)
         \/ Resume(t)
         \/ Unscheduled(t)
         \/ Exit(t)
         \/ ThreadYield(t)
         \/ \E caller \in Thread \cup {NoThread} : ThreadSetAffinity(caller, t)

Spec == Init /\ [][Next]_vars

-----------------------------------------------------------------------------
(* Properties.                                                              *)

\* The scheduler's two tables, Thread::m_core and Core::m_thread are one relation,
\* and the assertion in Thread::setCore has never failed.  (The sequential
\* scheduler leaves the last thread of a set in its tables when it ends.)
TablesAgree ==
    /\ s.asserts
    /\ \A t \in Thread, c \in Core :
         /\ s.core[t] = c <=> s.thread[c] = t
         /\ s.running[t] = c <=> s.onCore[c] = t
         /\ Type(Pinning) /\ s.status[t] # "IDLE" => (s.running[t] = c <=> s.core[t] = c)

\* A core is RUNNING exactly if its thread is: the barrier waits for every core
\* in that state, and would wait for ever for a thread that sleeps on a core.
CoreStateIsThreads ==
    Type(Pinning) =>
        \A c \in Core :
            s.coreState[c] = IF s.thread[c] = NoThread THEN "IDLE" ELSE s.status[s.thread[c]]

\* A ready thread and a core it may use do not both wait across a periodic call.
IdleCoresAreUsed ==
    [][now' # now =>
          ~ \E t \in Thread, c \in Core :
               /\ Ready(s, t) /\ Ready(s', t)
               /\ c \in FreeCores(s, t) \cap FreeCores(s', t)]_vars

\* A change of affinity has taken effect when the next periodic call is over.
AffinityHonoured ==
    [][now' # now /\ Type(Pinning) =>
          \A c \in Core :
             LET t == s'.thread[c]
             IN  t # NoThread /\ s'.status[t] # "INITIALIZING" => c \in s'.affinity[t]]_vars

\* A ready thread gets a core before every other thread has used up its quantum
\* twice over, as long as nobody changes affinities.
NoStarvation ==
    ~Uses("affinity") =>
        \A t \in Thread : waited[t] <= (cfg.threads - 1) * (cfg.quantum + 1)

=============================================================================
