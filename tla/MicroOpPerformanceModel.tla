----------------------- MODULE MicroOpPerformanceModel -----------------------
(***************************************************************************)
(* The performance model of a core: the queue of instructions, idle time,   *)
(* fast-forwarding (performance_model.cc, fastforward_performance_model.cc) *)
(* and what one instruction costs, in the one-IPC model                     *)
(* (oneipc_performance_model.cc) or in the interval model, where it is      *)
(* decoded to micro-operations (instruction_decoder.cc) of which repeated   *)
(* accesses to a cache line are squashed (micro_op_performance_model.cc).   *)
(*                                                                          *)
(* Time is in cycles of a fixed frequency.  Left out: the registers but     *)
(* one, string instructions, the instruction tracer, and the calls of       *)
(* notifyElapsedTimeUpdate, which these two timers ignore (interval_timer.h *)
(* synchronize does nothing).                                               *)
(***************************************************************************)
EXTENDS IntervalTimer

CONSTANTS CoreConfig,     \* the configurations that are tried
          Instruction,    \* instructions of the program, see the fields used by Decode
          PseudoInstruction,
          QueueSize       \* bound: instructions waiting in the queue

VARIABLES pm   \* the PerformanceModel

coreVars == <<prm, w, pm>>

\* m_cpi...: idle components, those paid at once, fast-forwarding, one-IPC.
TimeComponent == {"start", "unscheduled", "sync", "delay", "recv", "tlb", "unknown", "memaccess",
                  "fastforward", "onebase", "onebranch", "onedata"}
NewPerformanceModel ==
    [elapsed |-> 0, idle |-> 0, enabled |-> TRUE, ff |-> FALSE, detailedSync |-> TRUE,
     queue |-> <<>>, count |-> 0, cpi |-> [k \in TimeComponent |-> 0],
     fed |-> 0, ops |-> 0, lasts |-> 0]   \* history: bounds, and instructions simulated

Spend(m, component, cycles) == [m EXCEPT !.elapsed = @ + cycles, !.cpi[component] = @ + cycles]

-----------------------------------------------------------------------------
\* InstructionDecoder::decode: the loads, then the execution, then the stores.

Count(flag) == IF flag THEN 1 ELSE 0
MicroOp(i, type, k, intra) ==
    [type |-> type, offset |-> k - 1, intra |-> intra, branch |-> FALSE, mispredict |-> FALSE,
     serial |-> FALSE, barrier |-> FALSE, reads |-> FALSE, writes |-> FALSE, cell |-> 0, lat |-> i.lat,
     mem |-> 0, bypass |-> 0, imiss |-> 0, port |-> i.port, last |-> FALSE, forced |-> FALSE]
Access(i, type, cells, k, intra) ==
    [MicroOp(i, type, k, intra) EXCEPT !.cell = cells[k], !.mem = i.mem, !.bypass = i.bypass,
        !.lat = i.bypass + IF prm.atDispatch THEN 0 ELSE i.mem,
        !.port = IF type = "load" THEN "p2" ELSE "p34"]
DecodeLoad(i, k) ==
    [Access(i, "load", i.loads, k, 0) EXCEPT
        !.reads = i.address \/ (~i.exec /\ i.reads),
        !.writes = ~i.exec /\ i.stores = <<>> /\ i.writes]
DecodeExecute(i) ==
    [MicroOp(i, "exec", 1, Len(i.loads)) EXCEPT
        !.reads = i.reads, !.writes = i.writes, !.barrier = i.fence,
        !.branch = i.branch, !.mispredict = i.mispredict]
DecodeStore(i, k) ==
    [Access(i, "store", i.stores, k, Count(i.exec)) EXCEPT
        !.reads = i.address \/ (~i.exec /\ i.loads = <<>> /\ i.reads),
        !.writes = ~i.exec /\ i.writes, !.barrier = i.atomic]
DecodeOperations(i) ==
    [k \in DOMAIN i.loads |-> DecodeLoad(i, k)]
    \o (IF i.exec THEN <<DecodeExecute(i)>> ELSE <<>>)
    \o [k \in DOMAIN i.stores |-> DecodeStore(i, k)]
Decode(i) ==
    LET uops == DecodeOperations(i)
    IN  [uops EXCEPT ![1].imiss = i.imiss, ![Len(uops)].last = TRUE, ![Len(uops)].serial = i.serial]

\* handleInstruction squashes an access to a line that an earlier access of the
\* same kind touched; squash() moves the mark of the last micro-operation, and
\* doSquashing recomputes the offsets and the lengths of the dependencies.
CacheLine(cell) == cell \div 2
IsSquashed(uops, k) ==
    \E j \in 1 .. k - 1 : /\ uops[j].type = uops[k].type
                          /\ uops[k].type \in {"load", "store"}
                          /\ CacheLine(uops[j].cell) = CacheLine(uops[k].cell)
SquashedCount(uops, k) == Cardinality({j \in 1 .. k : IsSquashed(uops, j)})
IsLastLeft(uops, k) == uops[k].last \/ \A j \in k + 1 .. Len(uops) : IsSquashed(uops, j)
TypeOffset(uops, k) ==
    Cardinality({j \in 1 .. k - 1 : uops[j].type = uops[k].type /\ ~IsSquashed(uops, j)})
IntraLength(uops, k) ==
    LET base == k - uops[k].offset
    IN  IF uops[k].intra = 0 THEN 0
        ELSE uops[k].intra - (SquashedCount(uops, base) - SquashedCount(uops, base - uops[k].intra))
DoSquashing(uops) ==
    LET fixed(k) == [uops[k] EXCEPT !.offset = TypeOffset(uops, k), !.intra = IntraLength(uops, k),
                                    !.last = IsLastLeft(uops, k)]
        kept == SelectSeq([k \in DOMAIN uops |-> k], LAMBDA k : ~IsSquashed(uops, k))
    IN  [n \in DOMAIN kept |-> fixed(kept[n])]

-----------------------------------------------------------------------------
\* MicroOpPerformanceModel::handleInstruction: s is [m, x], the performance
\* model and the timer.

DynamicUop ==
    [type |-> "exec", offset |-> 0, intra |-> 0, branch |-> FALSE, mispredict |-> FALSE, serial |-> FALSE,
     barrier |-> FALSE, reads |-> FALSE, writes |-> FALSE, cell |-> 0, lat |-> 1, mem |-> 0, bypass |-> 0,
     imiss |-> 0, port |-> "p015", last |-> TRUE, forced |-> FALSE]
SerializeUop == [DynamicUop EXCEPT !.serial = TRUE]
MfenceUop == [DynamicUop EXCEPT !.barrier = TRUE]
MemAccessUop(lat, forced) ==
    [DynamicUop EXCEPT !.type = "load", !.barrier = TRUE, !.port = "p2",
                                    !.lat = lat, !.forced = forced]

Simulated(s, uops) ==
    LET Advance(r) ==
            [m |-> [s.m EXCEPT !.elapsed = @ + r.latency, !.count = @ + r.insns,
                               !.lasts = @ + Cardinality({k \in DOMAIN uops : uops[k].last})],
             x |-> r.x]
    IN  Advance(Simulate(s.x, uops))
\* A pseudo-instruction with a cost that is not a memory access: its cost is
\* paid at once, and the timer only drains.
HandleSerializing(s, i) ==
    [Simulated(s, <<SerializeUop>>) EXCEPT !.m = Spend(@, i.type, i.cost)]
\* A memory access made for the simulated operating system: a long one is paid
\* at once, a short one is left to the timer.
HandleMemAccess(s, i) ==
    LET long == prm.cutoff > 0 /\ i.cost > prm.cutoff
        uop == MemAccessUop(IF long THEN 1 ELSE i.cost, long)
    IN  [Simulated(s, IF i.fence THEN <<MfenceUop, uop, MfenceUop>> ELSE <<uop>>)
            EXCEPT !.m = IF long THEN Spend(@, "memaccess", i.cost) ELSE @]
HandleMicroOps(s, i) ==
    CASE i.type = "insn" -> Simulated(s, DoSquashing(Decode(i)))
      [] i.type \in {"tlb", "unknown"} /\ i.cost > 0 -> HandleSerializing(s, i)
      [] i.type = "memaccess" /\ i.cost > 0 -> HandleMemAccess(s, i)
      [] OTHER -> s

\* OneIPCPerformanceModel::handleInstruction.  Only loads beyond the cut-off
\* cost more than their cycle; a branch costs what the class costs.
OneIpcCost(i) ==
    IF i.type # "insn" THEN i.cost
    ELSE (IF i.mem > prm.cutoff THEN i.mem * Len(i.loads) ELSE 0) + 1
OneIpcComponent(i) ==
    CASE i.type = "insn" /\ (i.loads # <<>> \/ i.stores # <<>>) -> "onedata"
      [] i.type = "insn" /\ i.loads = <<>> /\ i.stores = <<>> /\ i.branch -> "onebranch"
      [] OTHER -> "onebase"
HandleOneIpc(s, i) ==
    [s EXCEPT !.m = [Spend(@, OneIpcComponent(i), OneIpcCost(i)) EXCEPT !.count = @ + 1, !.lasts = @ + 1]]

HandleInstruction(s, i) == IF prm.type = "oneipc" THEN HandleOneIpc(s, i) ELSE HandleMicroOps(s, i)

-----------------------------------------------------------------------------
\* PerformanceModel

\* incrementIdleElapsedTime
Idle(m, component, cycles) == [Spend(m, component, cycles) EXCEPT !.idle = @ + cycles]
\* setElapsedTime, for a thread that starts here
SetElapsedTime(m, time) ==
    Idle(m, IF m.elapsed > 0 THEN "unscheduled" ELSE "start", time - m.elapsed)
IsIdle(i) == i.type \in {"sync", "delay", "recv"}
\* A synchronisation names the time at which the thread goes on, which this
\* core may have passed; a delay and a receive name their cost.
HandleIdleInstruction(m, i) ==
    IF m.ff /\ ~m.detailedSync THEN m
    ELSE Idle(m, i.type, IF i.type = "sync" THEN Larger(0, i.time - m.elapsed) ELSE i.cost)

CoreInit ==
    /\ prm \in CoreConfig
    /\ w = NewTimer
    /\ pm = NewPerformanceModel

\* queueInstruction: dropped while fast-forwarding or disabled.
QueueInstruction(i) ==
    /\ pm.fed < prm.instructions /\ Len(pm.queue) < QueueSize
    /\ pm' = [pm EXCEPT !.fed = @ + 1, !.queue = IF pm.ff \/ ~pm.enabled THEN @ ELSE Append(@, i)]
    /\ UNCHANGED <<prm, w>>

\* queuePseudoInstruction.  A thread starts no earlier than the core's time.
QueuePseudoInstruction(i) ==
    /\ pm.fed < prm.instructions /\ Len(pm.queue) < QueueSize
    /\ i.type = "spawn" => i.time >= pm.elapsed
    /\ LET m == [pm EXCEPT !.fed = @ + 1]
       IN  pm' = CASE i.type = "spawn" -> SetElapsedTime(m, i.time)
                   [] i.type # "spawn" /\ ~pm.enabled -> m
                   [] i.type # "spawn" /\ pm.enabled /\ IsIdle(i) -> HandleIdleInstruction(m, i)
                   [] i.type # "spawn" /\ pm.enabled /\ ~IsIdle(i) /\ pm.ff -> Spend(m, "fastforward", i.cost)
                   [] OTHER -> [m EXCEPT !.queue = Append(@, i)]
    /\ UNCHANGED <<prm, w>>

\* iterate: the instructions that are left in the queue when the model is
\* disabled or fast-forwarding are thrown away.
Iterate ==
    /\ pm.queue # <<>>
    /\ LET s == [m |-> [pm EXCEPT !.queue = <<>>], x |-> w]
       IN  \E r \in {IF pm.ff \/ ~pm.enabled THEN s ELSE FoldLeft(HandleInstruction, s, pm.queue)} :
              pm' = r.m /\ w' = r.x
    /\ UNCHANGED prm

\* The other calls, from the sampling manager and the magic instructions.
Call == pm.ops < prm.operations
SetEnabled ==
    /\ Call
    /\ pm' = [pm EXCEPT !.enabled = ~@, !.ops = @ + 1]
    /\ UNCHANGED <<prm, w>>
SetFastForward(fastforward, detailedSync) ==
    /\ Call
    /\ pm' = [pm EXCEPT !.ff = fastforward, !.ops = @ + 1,
                        !.detailedSync = IF pm.ff = fastforward THEN @ ELSE detailedSync]
    /\ UNCHANGED <<prm, w>>
\* countInstructions, handleMemoryLatency, handleBranchMispredict
FastForwardTime ==
    /\ Call /\ pm.ff
    /\ \E cycles \in {1, prm.penalty} :
           pm' = [Spend(pm, "fastforward", cycles) EXCEPT !.ops = @ + 1]
    /\ UNCHANGED <<prm, w>>

CoreNext ==
    \/ \E i \in Instruction : QueueInstruction(i)
    \/ \E i \in PseudoInstruction : QueuePseudoInstruction(i)
    \/ Iterate
    \/ SetEnabled
    \/ \E fastforward, detailedSync \in BOOLEAN : SetFastForward(fastforward, detailedSync)
    \/ FastForwardTime

-----------------------------------------------------------------------------
\* Properties

\* Every cycle of a core is in exactly one component of its CPI stack, and the
\* idle time is the idle components: no path through the model (a cost paid at
\* once, a cost left to the timer, fast-forwarding, a thread that arrives)
\* forgets or counts twice.
SumOf(f, S) == FoldSet(LAMBDA k, sum : f[k] + sum, 0, S)
TimeIsAccounted ==
    /\ pm.elapsed = SumOf(pm.cpi, TimeComponent) + SumOf(w.cpi, Component)
    /\ pm.idle = SumOf(pm.cpi, {"start", "unscheduled", "sync", "delay", "recv"})

\* What was handed over is counted or waits in the window.
InstructionsAreCounted ==
    pm.count + Cardinality({i \in NewWindow(w) : w.ring[i].u.last}) = pm.lasts

\* What a micro-operation depends on inside its instruction: an execution needs
\* every load that is left, a store the execution.  The micro-operations of an
\* instruction are neighbours without a last one in between.
SameInstruction(e, f) ==
    /\ f.seq < e.seq
    /\ \A i \in NewWindow(w) \cup OldWindow(w) :
           f.seq <= w.ring[i].seq /\ w.ring[i].seq < e.seq => ~w.ring[i].u.last
Produces(f, e) ==
    \/ e.u.type = "exec" /\ f.u.type = "load"
    \/ e.u.type = "store" /\ f.u.type = "exec"
IntraDependenciesAreOwn ==
    \A i, j \in NewWindow(w) \cup OldWindow(w) :
        LET e == w.ring[i]
            f == w.ring[j]
            first == e.seq - e.u.offset - e.u.intra
        IN  f.seq \in first .. first + e.u.intra - 1 <=> SameInstruction(e, f) /\ Produces(f, e)

\* Squashing the repeated accesses of a gather or scatter leaves a well-formed
\* instruction: it is counted once however many of its micro-operations are
\* gone, and those left find their producers in the same instruction, at the
\* distance that doSquashing recomputed, and nothing of another instruction.
SquashingKeepsInstructions == InstructionsAreCounted /\ IntraDependenciesAreOwn

\* The interval model keeps its books, whatever is squashed, overlapped, idle or
\* fast-forwarded: every cycle and instruction is counted once, dependencies stay those
\* of the program, and no latency is hidden that a dependent load would see.
IntervalModelIsSound ==
    TimeIsAccounted /\ SquashingKeepsInstructions /\ HiddenLoadsAreIndependent
=============================================================================
