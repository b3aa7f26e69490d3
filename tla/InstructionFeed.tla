--------------------------- MODULE InstructionFeed ---------------------------
(***************************************************************************)
(* How the instructions of the traces reach the cores: the loop of          *)
(* TraceThread::run with its reconstruction of basic blocks, warming up or  *)
(* simulating in detail, and the part of Core that counts instructions,     *)
(* calls the periodic hook and cuts accesses into cache lines.              *)
(*                                                                          *)
(* Left out: latencies and where an access hits, which the timers and the   *)
(* cache modules have, and the call of decode, whose result is the          *)
(* instruction.  A thread changes its core at the end of an iteration.      *)
(***************************************************************************)
EXTENDS Integers, Sequences, FiniteSetsExt, SequencesExt

CONSTANTS FeedConfig,   \* records [cores, threads, menu, instructions, modes, perCore, global]: the
                        \* instructions of the traces, a bound on their number, the modes used
          BlockSize     \* bytes of a cache line

VARIABLES fd,     \* what is common: configuration, instrumentation mode, the hook's counters
          cpu,    \* per core
          feeder  \* per thread

feedVars == <<fd, cpu, feeder>>

FeedCores == DOMAIN cpu
FeedThreads == DOMAIN feeder

NewCore == [instructions |-> 0, callback |-> 2, calls |-> 0,
            hpiCallback |-> 0, hpiLast |-> 0, lastBlock |-> -1]
NewFeeder(c) == [pc |-> "read", core |-> c, inst |-> [addr |-> 0], fed |-> 0,
                 base |-> 0, count |-> 0, last |-> 0, end |-> FALSE, warm |-> <<>>,
                 mode |-> "none", data |-> <<>>, fetched |-> {}]   \* history: how the last instruction was handled
FeedInit ==
    \E c \in FeedConfig :
          /\ fd = [config |-> c, mode |-> "DETAILED", hpi |-> 0, hpiCallback |-> 0, hooks |-> 0]
          /\ cpu = [k \in 1..c.cores |-> NewCore]
          /\ feeder = [t \in 1..c.threads |-> NewFeeder(t)]

-----------------------------------------------------------------------------
Align(a) == a - (a % BlockSize)
\* Core::initiateMemoryAccess: one access per line, the last one perhaps empty.

InitiateMemoryAccess(op, address, size) ==
    LET end == address + size
        lines == {a \in Align(address)..Align(end) : a % BlockSize = 0}
        offset(a) == IF a = Align(address) THEN address % BlockSize ELSE 0
        length(a) == (IF a = Align(end) THEN end % BlockSize ELSE BlockSize) - offset(a)
    IN  IF size = 0 THEN <<>>
        ELSE SetToSortSeq({[op |-> op, line |-> a, offset |-> offset(a), size |-> length(a)] :
                               a \in {l \in lines : length(l) # 0}},
                          LAMBDA x, y : x.line < y.line)

AccessMemory(op, address, size) == InitiateMemoryAccess(op, address, size)

\* readInstructionMemory: nothing is read again from the line of the last fetch.
\* Of an instruction over two lines, one is read.
FetchLine(c, address, size) ==
    IF Align(address) # cpu[c].lastBlock THEN {Align(address)}
    ELSE IF Align(address + size - 1) = Align(address) THEN {}
    ELSE {Align(address) + BlockSize}
ReadInstructionMemory(c, address, size) ==
    IF FetchLine(c, address, size) = {} THEN cpu[c]
    ELSE [cpu[c] EXCEPT !.lastBlock = Max(FetchLine(c, address, size))]

-----------------------------------------------------------------------------
\* Core::countInstructions and the periodic hook.

CountInstructions(c, n) ==
    LET k == cpu[c].instructions + n
    IN  IF cpu[c].callback # -1 /\ k >= cpu[c].callback
        THEN [cpu[c] EXCEPT !.instructions = k, !.callback = -1, !.calls = @ + 1]
        ELSE [cpu[c] EXCEPT !.instructions = k]

\* hookPeriodicInsCheck: the instructions since the last check go to the global count.
HookPeriodicInsCheck(core) ==
    IF core.instructions > core.hpiCallback
    THEN [core EXCEPT !.hpiCallback = @ + fd.config.perCore, !.hpiLast = core.instructions]
    ELSE core

HookIsDue == fd.hpi > fd.hpiCallback

\* The quick, unlocked check.
HookUnlockedCheck(t) ==
    /\ feeder[t].pc = "check"
    /\ feeder' = [feeder EXCEPT ![t].pc = IF HookIsDue THEN "hook" ELSE "handle"]
    /\ UNCHANGED <<fd, cpu>>

\* A bug: what the unlocked check saw is believed.
HookPeriodicInsCallUnchecked(t) ==
    /\ feeder[t].pc = "hook"
    /\ fd' = [fd EXCEPT !.hooks = @ + 1, !.hpiCallback = @ + fd.config.global]
    /\ feeder' = [feeder EXCEPT ![t].pc = "handle"]
    /\ UNCHANGED cpu
\* hookPeriodicInsCall, under the lock of the thread manager.
HookPeriodicInsCall(t) ==
    /\ feeder[t].pc = "hook"
    /\ fd' = IF HookIsDue THEN [fd EXCEPT !.hooks = @ + 1, !.hpiCallback = @ + fd.config.global] ELSE fd
    /\ feeder' = [feeder EXCEPT ![t].pc = "handle"]
    /\ UNCHANGED cpu

-----------------------------------------------------------------------------
\* TraceThread::run.

StartsBlock(f, i) == f.end \/ f.last # i.addr

\* A basic block is counted when the next one starts.
ReadInstruction(t) ==
    \E i \in fd.config.menu :
        LET f == feeder[t]
            counted == HookPeriodicInsCheck(CountInstructions(f.core, f.count))
            crossed == counted.hpiLast # cpu[f.core].hpiLast
            in == [f EXCEPT !.inst = i, !.fed = @ + 1, !.last = i.addr + i.size, !.end = i.branch,
                            !.data = <<>>, !.fetched = {}]
        IN  /\ f.pc = "read" /\ f.fed < fd.config.instructions
            /\ IF StartsBlock(f, i)
               THEN /\ cpu' = [cpu EXCEPT ![f.core] = counted]
                    /\ fd' = [fd EXCEPT !.hpi = @ + counted.hpiLast - cpu[f.core].hpiLast]
                    /\ feeder' = [feeder EXCEPT ![t] =
                           [in EXCEPT !.pc = IF crossed THEN "check" ELSE "handle", !.base = i.addr, !.count = 1,
                                      !.warm = IF f.base = 0 THEN <<>> ELSE <<f.base, f.last - f.base>>]]
               ELSE /\ feeder' = [feeder EXCEPT ![t] = [in EXCEPT !.pc = "handle", !.count = @ + 1, !.warm = <<>>]]
                    /\ UNCHANGED <<fd, cpu>>

\* The end of an iteration, with a rescheduling to a free core or without.
Rescheduled(f) == {f.core} \cup {c \in FeedCores : \A o \in FeedThreads : feeder[o].core # c}
Finish(t, core, f) ==
    /\ cpu' = [cpu EXCEPT ![f.core] = core]
    /\ \E c \in Rescheduled(f) : feeder' = [feeder EXCEPT ![t] = [f EXCEPT !.pc = "read", !.core = c, !.mode = fd.mode]]
    /\ UNCHANGED fd

\* The memory operands of an instruction: reads first, then writes.
Operands(i) ==
    IF i.nop THEN <<>>
    ELSE SelectSeq(i.operands, LAMBDA o : o.dir = "R") \o SelectSeq(i.operands, LAMBDA o : o.dir = "W")

\* handleInstructionWarmup: a prefetch without a mapping is skipped, the write of
\* an atomic update only counted as a hit.
WarmupAccess(i, o) ==
    IF o.unmapped \/ (i.atomic /\ o.dir = "W") THEN <<>>
    ELSE AccessMemory(IF o.dir = "W" THEN "WRITE" ELSE IF i.atomic THEN "READ_EX" ELSE "READ", o.addr, o.size)
WarmupAccesses(i) ==
    IF i.executed THEN FlattenSeq([k \in DOMAIN Operands(i) |-> WarmupAccess(i, Operands(i)[k])]) ELSE <<>>
HandleInstructionWarmup(t) ==
    LET f == feeder[t]
        fetch == f.warm # <<>>
    IN  /\ f.pc = "handle" /\ fd.mode = "CACHE_ONLY"
        /\ Finish(t, IF fetch THEN ReadInstructionMemory(f.core, f.warm[1], f.warm[2]) ELSE cpu[f.core],
                  [f EXCEPT !.data = WarmupAccesses(f.inst),
                            !.fetched = IF fetch THEN FetchLine(f.core, f.warm[1], f.warm[2]) ELSE {}])

\* handleInstructionDetailed, and what the performance model does with the
\* instruction: fetch it, DynamicInstruction::accessMemory.
DetailedAccess(i, o) ==
    IF ~i.executed \/ o.unmapped THEN <<>>
    ELSE AccessMemory(IF o.dir = "W" THEN "WRITE" ELSE IF i.atomic THEN "READ_EX" ELSE "READ", o.addr, o.size)
Accesses(i) == FlattenSeq([k \in DOMAIN Operands(i) |-> DetailedAccess(i, Operands(i)[k])])
HandleInstructionDetailed(t) ==
    LET f == feeder[t]
    IN  /\ f.pc = "handle" /\ fd.mode = "DETAILED"
        /\ Finish(t, ReadInstructionMemory(f.core, f.inst.addr, f.inst.size),
                  [f EXCEPT !.data = Accesses(f.inst),
                            !.fetched = FetchLine(f.core, f.inst.addr, f.inst.size)])

HandleFastForward(t) ==
    /\ feeder[t].pc = "handle" /\ fd.mode = "FAST_FORWARD"
    /\ Finish(t, cpu[feeder[t].core], feeder[t])

\* Simulator::setInstrumentationMode.
SetInstrumentationMode ==
    \E m \in fd.config.modes \ {fd.mode} :
        fd' = [fd EXCEPT !.mode = m] /\ UNCHANGED <<cpu, feeder>>

FeedNext ==
    \/ \E t \in FeedThreads :
          \/ ReadInstruction(t) \/ HookUnlockedCheck(t) \/ HookPeriodicInsCall(t)
          \/ HandleInstructionWarmup(t) \/ HandleInstructionDetailed(t) \/ HandleFastForward(t)
    \/ SetInstrumentationMode

-----------------------------------------------------------------------------

Sum(S, F(_)) == MapThenSumSet(F, S)

\* HOOK_PERIODIC_INS follows the instructions of all cores together (core.cc, the
\* "definitive, locked" check): none is lost or counted twice on the way from
\* basic blocks over the cores, wherever a thread has moved, to the global count,
\* and two cores that both see the hook due call it once.
PeriodicHookCounts ==
    /\ Sum(FeedThreads, LAMBDA t : feeder[t].fed)
         = Sum(FeedCores, LAMBDA c : cpu[c].instructions) + Sum(FeedThreads, LAMBDA t : feeder[t].count)
    /\ fd.hpi = Sum(FeedCores, LAMBDA c : cpu[c].hpiLast)
    /\ fd.hooks > 0 => fd.hpi > (fd.hooks - 1) * fd.config.global

PieceBytes(p) == {p.line + p.offset + k : k \in 0..(p.size - 1)}
Due(f) == {k \in DOMAIN f.inst.operands :
              /\ f.inst.executed /\ ~f.inst.nop /\ ~f.inst.operands[k].unmapped
              /\ ~(f.mode = "CACHE_ONLY" /\ f.inst.atomic /\ f.inst.operands[k].dir = "W")}

\* Warmed up or simulated in detail, an instruction's operands reach the caches
\* byte for byte: every access stays in its line, and together they are the
\* operands that the instruction reads and writes, each once.
OperandsReachCaches ==
    \A t \in FeedThreads :
        LET f == feeder[t]
            operand(k) == {f.inst.operands[k].addr + n : n \in 0..(f.inst.operands[k].size - 1)}
        IN  f.pc = "read" /\ f.mode \in {"CACHE_ONLY", "DETAILED"} =>
              /\ \A k \in DOMAIN f.data : f.data[k].offset + f.data[k].size <= BlockSize
              /\ UNION {PieceBytes(f.data[k]) : k \in DOMAIN f.data} = UNION {operand(k) : k \in Due(f)}
              /\ Sum(DOMAIN f.data, LAMBDA k : f.data[k].size) = Sum(Due(f), LAMBDA k : f.inst.operands[k].size)

\* The feed loses nothing between the trace and the models, neither of the count that
\* HOOK_PERIODIC_INS follows nor of an instruction's operands.
FeedIsComplete == PeriodicHookCounts /\ OperandsReachCaches
=============================================================================
