------------------------------ MODULE MCCores ------------------------------
(* Short programs.  For the reorder buffer: micro-operations over one        *)
(* register and two memory cells.  For the interval model: instructions over *)
(* one register and three cells, the first two in one cache line.            *)
EXTENDS CoreModels

Uop(type, src, dst, lat) ==
    [type |-> type, src |-> src, addr |-> {}, dst |-> dst, cell |-> 0, lat |-> lat, imiss |-> 0,
     barrier |-> FALSE, serial |-> FALSE, mispredict |-> FALSE, port |-> "p015", alu |-> FALSE]

MCFiller == [Uop("exec", {}, {}, 1) EXCEPT !.port = "p05"]

MCMenu ==
    {Uop("exec", {"r"}, {"r"}, 1),
     [Uop("exec", {}, {"r"}, 1) EXCEPT !.imiss = 3],
     [Uop("load", {}, {"r"}, 4) EXCEPT !.port = "p2"],
     [Uop("store", {"r"}, {}, 3) EXCEPT !.addr = {"r"}, !.port = "p34"],
     [Uop("exec", {}, {}, 1) EXCEPT !.barrier = TRUE],
     [Uop("branch", {"r"}, {}, 1) EXCEPT !.mispredict = TRUE, !.port = "p5"],
     [Uop("store", {"r"}, {}, 2) EXCEPT !.barrier = TRUE, !.cell = 1, !.port = "p34"],
     [Uop("exec", {"r"}, {"r"}, 3) EXCEPT !.alu = TRUE, !.port = "p0"],
     [Uop("exec", {}, {"r"}, 2) EXCEPT !.serial = TRUE]}

Rob == [smt |-> FALSE, threads |-> 1, width |-> 1, commit |-> 1, window |-> 3, rs |-> 2, penalty |-> 4,
        forwarding |-> FALSE, disambiguation |-> TRUE, inorder |-> FALSE, contention |-> FALSE,
        simultaneous |-> FALSE, loads |-> 1, stores |-> 1, jumps |-> {}, uops |-> 4]

MCConfigs ==
    {[Rob EXCEPT !.disambiguation = FALSE, !.uops = 3],
     [Rob EXCEPT !.forwarding = TRUE, !.window = 4, !.rs = 3, !.loads = 2],
     [Rob EXCEPT !.inorder = TRUE, !.jumps = {5}, !.uops = 3],
     [Rob EXCEPT !.width = 2, !.commit = 2, !.contention = TRUE, !.window = 4, !.rs = 4],
     [Rob EXCEPT !.smt = TRUE, !.jumps = {5}, !.uops = 3],
     [Rob EXCEPT !.smt = TRUE, !.threads = 2, !.window = 4, !.uops = 3],
     [Rob EXCEPT !.smt = TRUE, !.threads = 2, !.window = 6, !.simultaneous = TRUE, !.jumps = {5}, !.uops = 2]}

-----------------------------------------------------------------------------

Plain == [type |-> "insn", loads |-> <<>>, stores |-> <<>>, exec |-> TRUE, branch |-> FALSE,
          mispredict |-> FALSE, serial |-> FALSE, fence |-> FALSE, atomic |-> FALSE, address |-> FALSE,
          reads |-> FALSE, writes |-> TRUE, lat |-> 1, mem |-> 1, bypass |-> 0, imiss |-> 0, port |-> "p015"]
MCInstruction ==
    {[Plain EXCEPT !.reads = TRUE, !.lat = 3, !.port = "p0"],
     [Plain EXCEPT !.loads = <<0>>, !.exec = FALSE, !.mem = 6],
     [Plain EXCEPT !.loads = <<2>>, !.exec = FALSE, !.mem = 6, !.address = TRUE, !.imiss = 2],
     [Plain EXCEPT !.loads = <<0, 1, 2>>],
     [Plain EXCEPT !.loads = <<0>>, !.stores = <<0, 1>>, !.reads = TRUE, !.bypass = 1, !.atomic = TRUE],
     [Plain EXCEPT !.branch = TRUE, !.mispredict = TRUE, !.reads = TRUE, !.writes = FALSE, !.port = "p5"],
     [Plain EXCEPT !.fence = TRUE, !.writes = FALSE],
     [Plain EXCEPT !.serial = TRUE, !.writes = FALSE]}
Pseudo(type, cost, time) == [type |-> type, cost |-> cost, time |-> time, fence |-> FALSE]
MCPseudoInstruction ==
    {Pseudo("tlb", 2, 0), Pseudo("memaccess", 6, 0), [Pseudo("memaccess", 2, 0) EXCEPT !.fence = TRUE],
     Pseudo("unknown", 0, 0), Pseudo("sync", 0, 5), Pseudo("delay", 2, 0), Pseudo("recv", 1, 0), Pseudo("spawn", 0, 9)}

Interval == [type |-> "interval", windowSize |-> 3, dispatchWidth |-> 2, penalty |-> 2, cutoff |-> 4, slots |-> 1,
             contention |-> FALSE, atDispatch |-> FALSE, instructions |-> 4, operations |-> 0]
MCCoreConfig ==
    {Interval,
     [Interval EXCEPT !.contention = TRUE, !.atDispatch = TRUE, !.windowSize = 4, !.slots = 2, !.cutoff = 0,
                     !.instructions = 3],
     [Interval EXCEPT !.instructions = 2, !.operations = 2],
     [Interval EXCEPT !.type = "oneipc", !.instructions = 3, !.operations = 2]}

-----------------------------------------------------------------------------
\* One branch for long; branches that share a loop set, of which 16 has tag 0.
PentiumM(branches, executions) ==
    [type |-> "pentium_m", branches |-> branches, size |-> 0, executions |-> executions]
MCBranchConfig ==
    {PentiumM({1040}, 13), PentiumM({16, 1040}, 6), PentiumM({1040, 2064, 3088}, 5),
     [PentiumM({2064, 2065, 2066}, 4) EXCEPT !.type = "one_bit", !.size = 2]}

-----------------------------------------------------------------------------
\* One trace with every kind of instruction in all modes; two traces of short
\* basic blocks on three cores.
Opd(dir, addr, size) == [dir |-> dir, addr |-> addr, size |-> size, unmapped |-> FALSE]
Insn(addr, size, operands) ==
    [addr |-> addr, size |-> size, branch |-> FALSE, executed |-> TRUE, atomic |-> FALSE, nop |-> FALSE,
     operands |-> operands]
Branch == [Insn(13, 1, <<>>) EXCEPT !.branch = TRUE]
EveryKind ==
    {Insn(8, 2, <<Opd("R", 16, 4), Opd("W", 23, 3)>>),
     Insn(10, 3, <<Opd("R", 17, 8), [Opd("R", 40, 1) EXCEPT !.unmapped = TRUE]>>),
     [Branch EXCEPT !.atomic = TRUE, !.operands = <<Opd("R", 20, 4), Opd("W", 20, 4)>>],
     [Insn(14, 2, <<Opd("W", 30, 4)>>) EXCEPT !.executed = FALSE],
     [Insn(16, 1, <<Opd("R", 30, 4)>>) EXCEPT !.nop = TRUE]}
MCFeedConfig ==
    {[cores |-> 2, threads |-> 1, menu |-> EveryKind, instructions |-> 3,
      modes |-> {"DETAILED", "CACHE_ONLY", "FAST_FORWARD"}, perCore |-> 1, global |-> 2],
     [cores |-> 3, threads |-> 2, menu |-> {Insn(12, 1, <<>>), Branch}, instructions |-> 3,
      modes |-> {}, perCore |-> 1, global |-> 2]}

-----------------------------------------------------------------------------
\* Schedulers: each configuration exercises some of the operations.

Sched(type, threads, cores, mask, ticks, ops) ==
    [type |-> type, threads |-> threads, cores |-> cores, quantum |-> 1, mask |-> mask,
     interleaving |-> cores, seqs |-> [i \in 1 .. cores |-> 0], ticks |-> ticks, ops |-> ops]

MCSchedulerConfig ==
    {Sched("pinned", 3, 1, {0}, 5, {"yield"}),
     Sched("pinned", 3, 2, {0, 1}, 2, {"stall", "yield"}),
     Sched("pinned", 2, 1, {0}, 3, {"stall", "yield", "late"}),
     Sched("pinned", 2, 2, {0, 1}, 2, {"affinity", "exit"}),
     Sched("roaming", 3, 2, {0, 1}, 2, {"stall", "exit"}),
     Sched("roaming", 2, 2, {0, 1}, 1, {"affinity", "yield"}),
     Sched("big_small", 3, 2, {0}, 2, {"stall", "exit"}),
     [Sched("sequential", 4, 2, {0, 1}, 1, {"exit"}) EXCEPT !.seqs = <<3, 1>>,
                                                             !.quantum = 9],
     Sched("static", 3, 2, {0, 1}, 1, {"stall", "exit"})}
=============================================================================
