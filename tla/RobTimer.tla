------------------------------ MODULE RobTimer ------------------------------
(***************************************************************************)
(* The out-of-order core models: RobTimer (rob_timer.cc), and RobSmtTimer  *)
(* (rob_smt_timer.cc) for the hardware threads that share a core.  They    *)
(* are trace-driven: the front-end hands over micro-operations in program  *)
(* order, execute() runs cycles of dispatch, issue and commit until the    *)
(* buffer before the reorder buffer runs low, and cycles in which nothing  *)
(* can happen are skipped.                                                 *)
(*                                                                         *)
(* A cycle is a function of the state c of the core; what is chosen is the *)
(* micro-operations that are fed, and when the clock jumps.  Time is in    *)
(* cycles.  Left out: statistics and CPI stacks, the dependencies between  *)
(* the micro-operations of one instruction, and the memory access at issue *)
(* (a latency here).                                                       *)
(***************************************************************************)
EXTENDS Integers, Sequences, FiniteSets, FiniteSetsExt, SequencesExt, ContentionModel

CONSTANTS Config,     \* the configurations that are tried: see ConfigType
          Register,
          Menu,       \* the micro-operations that programs are made of
          Filler,     \* the one that follows when the program is over
          Never,      \* SubsecondTime::MaxTime()
          MaxCycle    \* bound: the time at which a run is cut

VARIABLES config, c,
          fed,        \* micro-operations of the program that were handed over
          jumps       \* jumps of the clock so far

vars == <<config, c, fed, jumps>>

ConfigType ==
    [smt : BOOLEAN, threads : Nat, width : Nat, commit : Nat, window : Nat, rs : Nat, penalty : Nat,
     forwarding : BOOLEAN, disambiguation : BOOLEAN, inorder : BOOLEAN, contention : BOOLEAN,
     simultaneous : BOOLEAN, loads : Nat, stores : Nat, jumps : SUBSET Nat,
     uops : Nat]   \* bound: length of the program

UopType ==
    [type : {"exec", "load", "store", "branch"}, src : SUBSET Register, addr : SUBSET Register,
     dst : SUBSET Register, cell : Nat, lat : Nat, imiss : Nat, barrier : BOOLEAN,
     serial : BOOLEAN, mispredict : BOOLEAN, port : STRING, alu : BOOLEAN]

ASSUME RobAssumption ==
    Config \subseteq ConfigType /\ Menu \subseteq UopType /\ Filler \in UopType

Threads == 0 .. config.threads - 1
Lower(a, b) == IF a < b THEN a ELSE b
Higher(a, b) == IF a > b THEN a ELSE b

NewThread ==
    [rob |-> <<>>, inRob |-> 0, next |-> 1, stalled |-> 0, miss |-> FALSE, event |-> 0, now |-> 0,
     producer |-> [r \in Register |-> 0], stores |-> <<>>, membar |-> 0]

InitialCore ==
    [now |-> 0, thread |-> [t \in Threads |-> NewThread], rs |-> 0, lastStore |-> 0,
     loadQueue |-> NewContention(config.loads), storeQueue |-> NewContention(config.stores),
     alu |-> 0, dispatchThread |-> 0, issueThread |-> 0]

\* RobSmtTimer::computeCurrentWindowsize with all threads running.
Window == config.window \div config.threads

(***************************************************************************)
(* Dependencies.                                                           *)
(***************************************************************************)

NewEntry(u, seq) ==
    [u |-> u, seq |-> seq, ready |-> Never, readyMax |-> 0, addrReady |-> Never, addrMax |-> 0,
     addrFrom |-> {}, issued |-> Never, done |-> Never, deps |-> {}]

\* findEntryBySequenceNumber: entries are numbered consecutively.
Entry(th, seq) == th.rob[seq - th.rob[1].seq + 1]
InBuffer(th, seq) == seq # 0 /\ seq >= th.rob[1].seq

\* RegisterDependencies and MemoryDependencies.  A store that is a memory barrier
\* counts as a store only, and the oldest entry is not waited for as a barrier.
RegisterProducersNotFirst(th, u) ==   \* mutant: the oldest entry is not a producer
    {p \in {th.producer[r] : r \in u.src} : p # 0 /\ p > th.rob[1].seq}
RegisterProducers(th, u) == {p \in {th.producer[r] : r \in u.src} : InBuffer(th, p)}
SetProducers(th, u, seq) ==
    [th EXCEPT !.producer = [r \in Register |-> IF r \in u.dst THEN seq ELSE @[r]],
               !.stores = LET valid == SelectSeq(@, LAMBDA p : InBuffer(th, p.seq))
                          IN IF u.type = "store" THEN Append(valid, [seq |-> seq, cell |-> u.cell])
                             ELSE valid,
               !.membar = IF u.barrier /\ u.type \notin {"load", "store"} THEN seq ELSE @]

StoredBy(th, u) ==
    LET same == {i \in DOMAIN th.stores : th.stores[i].cell = u.cell /\ InBuffer(th, th.stores[i].seq)}
    IN IF u.type = "load" /\ same # {} THEN {th.stores[Max(same)].seq} ELSE {}
MemoryProducers(th, u) ==
    StoredBy(th, u) \cup
    IF (u.type \in {"load", "store"} \/ u.barrier) /\ th.membar > th.rob[1].seq THEN {th.membar} ELSE {}

\* With store-to-load forwarding a load waits for what its store still waits for.
Forwarded(th, u, deps) ==
    LET stores == {d \in deps : Entry(th, d).u.type = "store"}
        store == Min(stores)
    IN IF config.forwarding /\ u.type = "load" /\ stores # {}
       THEN (deps \ {store}) \cup Entry(th, store).deps ELSE deps

\* The first loop of RobTimer::simulate, RobSmtTimer::setDependencies and
\* setStoreAddressProducers, for the entry at place i.
SetDependencies(th, i) ==
    LET e == th.rob[i]
        deps == Forwarded(th, e.u, RegisterProducers(th, e.u) \cup MemoryProducers(th, e.u))
        issued(S) == {d \in S : Entry(th, d).done # Never}
        latest(S) == Max({0} \cup {Entry(th, d).done : d \in issued(S)})
        addr == {p \in {th.producer[r] : r \in e.u.addr} : InBuffer(th, p)}
        left == deps \ issued(deps)
        addrLeft == addr \ issued(addr)
    IN SetProducers(
         [th EXCEPT !.rob[i].deps = left,
                    !.rob[i].readyMax = latest(deps),
                    !.rob[i].ready = IF left = {} THEN latest(deps) ELSE Never,
                    !.rob[i].addrFrom = addrLeft,
                    !.rob[i].addrMax = latest(addr),
                    !.rob[i].addrReady = IF e.u.type = "store" /\ addrLeft = {} THEN latest(addr)
                                         ELSE Never],
         e.u, e.seq)

\* RobSmtTimer::pushInstructions, and the first loop of RobTimer::simulate: only the
\* latter looks for dependencies already here.
Push(th, u) ==
    LET pushed == [th EXCEPT !.rob = Append(@, NewEntry(u, th.next)), !.next = @ + 1]
    IN IF config.smt THEN pushed ELSE SetDependencies(pushed, Len(pushed.rob))

(***************************************************************************)
(* Dispatch.                                                               *)
(***************************************************************************)

\* The loop of doDispatch (tryDispatch), for thread t: d is [c, event, n, stop].
DispatchOne(d, t) ==
    LET th == d.c.thread[t]
        i == th.inRob + 1
        e == th.rob[i]
        missing == e.u.imiss > 0 /\ ~th.miss
        hit == [th EXCEPT !.miss = IF e.u.imiss > 0 THEN FALSE ELSE @]   \* icache return
        known == IF config.smt THEN SetDependencies(hit, i) ELSE hit
        ready == Higher(known.rob[i].ready, d.c.now + 1)
        event == Lower(d.event, ready)
        mispredicted == e.u.type = "branch" /\ e.u.mispredict
    IN IF d.stop \/ th.inRob >= Window THEN [d EXCEPT !.stop = TRUE]
       ELSE IF missing
       THEN [d EXCEPT !.c.thread[t].stalled = d.c.now + e.u.imiss, !.c.thread[t].miss = TRUE,
                      !.stop = TRUE]
       ELSE IF d.c.rs = config.rs THEN [d EXCEPT !.c.thread[t] = hit, !.stop = TRUE]
       ELSE [d EXCEPT !.c.thread[t] = [known EXCEPT !.rob[i].ready = ready, !.inRob = @ + 1,
                                           !.event = IF config.smt THEN Lower(@, event) ELSE @,
                                           !.stalled = IF mispredicted THEN Never ELSE @],
                      !.c.rs = @ + 1, !.event = event, !.n = @ + 1, !.stop = mispredicted]

\* dispatchWidth micro-operations at most; then when the front-end may go on.
TryDispatch(core, t, event) ==
    LET frontEnd(d) == IF d.c.thread[t].inRob < Window
                       THEN [d EXCEPT !.event = Lower(@, d.c.thread[t].stalled)] ELSE d
    IN frontEnd(FoldLeft(LAMBDA x, k : DispatchOne(x, t),
                         [c |-> core, event |-> event, n |-> 0, stop |-> FALSE], [k \in 1 .. config.width |-> k]))

\* Mutant: only a front-end that runs says when the next event is.
DoDispatchUnaware(core) ==
    IF core.thread[0].stalled <= core.now THEN TryDispatch(core, 0, Never) ELSE [c |-> core, event |-> Never]

\* RobTimer::doDispatch.
DoDispatch(core) ==
    LET th == core.thread[0]
        idle == [c |-> core, event |-> Never]
    IN IF th.stalled <= core.now THEN TryDispatch(core, 0, Never)
       ELSE IF th.inRob < Window THEN [idle EXCEPT !.event = th.stalled] ELSE idle

\* RobSmtTimer::canExecute(thread): the threads that may dispatch in this cycle.
CanDispatch(core, t) ==
    LET th == core.thread[t] IN th.stalled <= core.now /\ th.now <= core.now /\ th.inRob < Window

\* RobSmtTimer::doDispatch: round-robin, all from the first thread that can.  A
\* thread whose front-end is stalled has no say in when the next event is.
SmtDoDispatch(core) ==
    LET first == core.dispatchThread
        order == [k \in 1 .. config.threads |-> (first + k - 1) % config.threads]
        tried(r, d, t) == [c |-> r.c, event |-> r.event, n |-> r.n, from |-> IF r.n > 0 THEN t ELSE d.from]
        visit(d, t) == IF d.n = 0 /\ CanDispatch(d.c, t) THEN tried(TryDispatch(d.c, t, d.event), d, t) ELSE d
        rotated(d) == [c |-> [d.c EXCEPT !.dispatchThread = (d.from + 1) % config.threads], event |-> d.event]
    IN rotated(FoldLeft(visit, [c |-> core, event |-> Never, n |-> 0, from |-> first], order))

(***************************************************************************)
(* Issue.                                                                  *)
(***************************************************************************)

\* RobContentionNehalem: the ports used in this cycle.  A micro-operation that then
\* finds the divider busy does not issue but keeps its port.
NoPorts == [used |-> {}, generic |-> 0, generic05 |-> 0]
PortFree(p, port) ==
    CASE port = "p015" -> p.generic < 3
      [] port = "p05" -> p.generic05 < 2
      [] port \in {"p2", "p34"} -> port \notin p.used
      [] OTHER -> port \notin p.used /\ p.generic < 3 /\ (port = "p1" \/ p.generic05 < 2)
TakePort(p, port) ==
    [used |-> IF port \in {"p015", "p05"} THEN p.used ELSE p.used \cup {port},
     generic |-> p.generic + IF port \in {"p015", "p0", "p1", "p5"} THEN 1 ELSE 0,
     generic05 |-> p.generic05 + IF port \in {"p05", "p0", "p5"} THEN 1 ELSE 0]
NoMorePorts(p) == {"p2", "p34"} \subseteq p.used /\ p.generic >= 3

\* issueInstruction: the entries that depend on the one at place i, and the store
\* addresses that it produces.
Wake(th, i, depend) ==
    LET seq == th.rob[i].seq
        woken(e) ==
            LET left == e.deps \ {seq}
                readyMax == Higher(e.readyMax, depend)
                addrMax == IF seq \in e.addrFrom THEN Higher(e.addrMax, depend) ELSE e.addrMax
                known == \A p \in e.addrFrom : p < th.rob[1].seq \/ Entry(th, p).done # Never
            IN [e EXCEPT !.deps = left, !.readyMax = readyMax,
                         !.ready = IF left = {} THEN readyMax ELSE @,
                         !.addrMax = IF e.u.type = "store" /\ e.addrReady = Never THEN addrMax ELSE @,
                         !.addrReady = IF e.u.type = "store" /\ @ = Never /\ known THEN addrMax ELSE @]
    IN [th EXCEPT !.rob = [k \in DOMAIN @ |-> IF seq \in @[k].deps THEN woken(@[k]) ELSE @[k]]]

Refill(now) == now + config.penalty - 2

IssueInstruction(core, t, i) ==
    LET u == core.thread[t].rob[i].u
        now == core.now
        done == IF u.type = "store" THEN now + 1 ELSE now + u.lat + 1
        depend == IF u.type = "store" THEN now + 1 ELSE now + u.lat
        marked == [core.thread[t] EXCEPT !.rob[i].issued = now, !.rob[i].done = done]
        resolved == u.type = "branch" /\ u.mispredict
    IN [core EXCEPT
          !.thread[t] = [Wake(marked, i, depend) EXCEPT !.stalled = IF resolved THEN Refill(now) ELSE @],
          !.rs = @ - 1,
          !.lastStore = IF u.type = "store" THEN Higher(@, now + u.lat + 1) ELSE @,
          !.alu = IF config.contention /\ u.alu THEN now + u.lat ELSE @,
          !.loadQueue = IF u.type = "load" THEN AfterRequest(@, now, u.lat) ELSE @,
          !.storeQueue = IF u.type = "store" THEN AfterRequest(@, now, u.lat) ELSE @]

FenceMayIssue(x) == x.head /\ x.c.lastStore <= x.c.now

\* Nothing but the ports is in the way of e.
CanIssue(x, e) ==
    LET u == e.u
    IN /\ e.ready <= x.c.now
       /\ ~(x.barrier /\ u.type \in {"load", "store"})
       /\ IF u.serial \/ u.barrier THEN FenceMayIssue(x)
          ELSE /\ config.contention \/ x.n < config.width
               /\ u.type = "load" => /\ HasFreeSlot(x.c.loadQueue, x.c.now)
                                     /\ config.disambiguation \/ ~x.unresolved
               /\ u.type = "store" => x.head /\ HasFreeSlot(x.c.storeQueue, x.c.now)

\* The loop of doIssue (tryIssue) on the entry at place i of thread t.
IssueOne(x, t, i) ==
    LET e == x.c.thread[t].rob[i]
        u == e.u
        event == Lower(x.event, IF e.done # Never THEN e.done ELSE e.ready)
        can == CanIssue(x, e)
        ports == IF can /\ config.contention /\ PortFree(x.ports, u.port) THEN TakePort(x.ports, u.port)
                 ELSE x.ports
        issues == can /\ (config.contention => PortFree(x.ports, u.port) /\ (u.alu => x.c.alu <= x.c.now))
        core == IF issues THEN IssueInstruction(x.c, t, i) ELSE x.c
        n == IF issues THEN x.n + 1 ELSE x.n
        blocked == e.ready <= x.c.now /\ ~(x.barrier /\ u.type \in {"load", "store"})
    IN IF x.stop THEN x
       ELSE IF e.done # Never THEN [x EXCEPT !.event = event]
       ELSE IF blocked /\ u.serial /\ ~can THEN [x EXCEPT !.event = event, !.stop = TRUE]
       ELSE [c |-> core, ports |-> ports, n |-> n,
             event |-> IF issues THEN Lower(event, core.thread[t].rob[i].done) ELSE event,
             head |-> x.head /\ issues,
             barrier |-> x.barrier \/ (blocked /\ u.barrier /\ ~can),
             unresolved |-> x.unresolved \/ (~issues /\ u.type = "store" /\ e.addrReady > x.c.now),
             stop |-> \/ ~issues /\ config.inorder
                      \/ IF config.contention THEN NoMorePorts(ports) ELSE n = config.width]

IssueFrom(core, ports, t) ==
    FoldLeft(LAMBDA x, i : IssueOne(x, t, i),
             [c |-> core, ports |-> ports, n |-> 0, event |-> Never, head |-> TRUE, barrier |-> FALSE,
              unresolved |-> FALSE, stop |-> FALSE],
             [i \in 1 .. core.thread[t].inRob |-> i])

\* RobTimer::doIssue.
DoIssue(core) == IssueFrom(core, NoPorts, 0)

\* RobSmtTimer::doIssue: round-robin, and from one thread unless issue is
\* simultaneous.  A thread that has nothing before its event is passed over, and
\* that event is not counted.
SmtDoIssue(core) ==
    LET first == core.issueThread
        order == [k \in 1 .. config.threads |-> (first + k - 1) % config.threads]
        tried(x, d, t) ==
            [c |-> [x.c EXCEPT !.thread[t].event = x.event], ports |-> x.ports,
             event |-> Lower(d.event, x.event),
             stop |-> x.n > 0 /\ ~config.simultaneous,
             last |-> IF x.n > 0 /\ ~config.simultaneous THEN t ELSE d.last]
        visit(d, t) ==
            LET th == d.c.thread[t]
            IN IF d.stop \/ th.event > core.now \/ th.inRob = 0 THEN d
               ELSE tried(IssueFrom(d.c, d.ports, t), d, t)
        rotated(d) == [c |-> [d.c EXCEPT !.issueThread = (d.last + 1) % config.threads], event |-> d.event]
    IN rotated(FoldLeft(visit, [c |-> core, ports |-> NoPorts, event |-> Never, stop |-> FALSE, last |-> first],
                        order))

(***************************************************************************)
(* Commit, and the cycle.                                                  *)
(***************************************************************************)

CommitFrom(th, now) ==
    LET n == Max({k \in 0 .. Lower(config.commit, Len(th.rob)) : \A i \in 1 .. k : th.rob[i].done <= now})
    IN [th EXCEPT !.rob = SubSeq(@, n + 1, Len(@)), !.inRob = @ - n]

DoCommit(core) ==
    LET after == [core EXCEPT !.thread = [t \in Threads |-> CommitFrom(@[t], core.now)]]
    IN [c |-> after, event |-> IF after.thread[0].rob = <<>> THEN Never ELSE after.thread[0].rob[1].done]

\* One cycle, without the advance of the clock, from its end: [c, event].
CommitAfter(d, i) ==
    LET m == DoCommit(i.c) IN [c |-> m.c, event |-> Min({d.event, i.event, m.event})]
IssueAfter(d) == CommitAfter(d, IF config.smt THEN SmtDoIssue(d.c) ELSE DoIssue(d.c))
Cycle(core) == IssueAfter(IF config.smt THEN SmtDoDispatch(core) ELSE DoDispatch(core))

\* The time of the next cycle: RobSmtTimer skips with one thread only.
NextCycle(now, event) ==
    IF config.threads = 1 /\ event # Never /\ event > now + 1 THEN event ELSE now + 1

\* The threads that must be given micro-operations before the next cycle.
Starved(core) ==
    {t \in Threads : /\ IF config.smt THEN CanDispatch(core, t) ELSE core.thread[t].stalled <= core.now
                     /\ Len(core.thread[t].rob) < core.thread[t].inRob + 2 * config.width}

(***************************************************************************)
(* The specification.                                                      *)
(***************************************************************************)

ProgramOver == fed = config.uops /\ \A t \in Threads : \A i \in DOMAIN c.thread[t].rob : c.thread[t].rob[i].u = Filler

Init == config \in Config /\ c = InitialCore /\ fed = 0 /\ jumps = 0

\* simulate: execute() stops when a thread is starved; its front-end then hands over
\* the next micro-operation (RobSmtTimer::returnLatency sets the thread's clock).
Feed(t) ==
    /\ ~ProgramOver
    /\ t \in Starved(c)
    /\ \E u \in IF fed < config.uops THEN Menu ELSE {Filler} :
          c' = [c EXCEPT !.thread[t] = [Push(@, u) EXCEPT !.now = IF config.smt THEN Higher(@, c.now) ELSE @]]
    /\ fed' = IF fed < config.uops THEN fed + 1 ELSE fed
    /\ UNCHANGED <<config, jumps>>

\* execute, executeCycle.
Execute ==
    /\ ~ProgramOver /\ Starved(c) = {} /\ c.now < MaxCycle
    /\ \E r \in {Cycle(c)} : c' = [r.c EXCEPT !.now = NextCycle(c.now, r.event)]
    /\ UNCHANGED <<config, fed, jumps>>

\* synchronize, when the performance model has added a latency of its own: the clock
\* of the core, or of the thread, jumps ahead.
Synchronize(t) ==
    /\ ~ProgramOver /\ jumps = 0 /\ t \in Starved(c)
    /\ \E d \in config.jumps :
          LET moved == [c EXCEPT !.thread[t].now = c.now + d]
              earliest == Min({moved.thread[o].now : o \in Threads})
          IN c' = IF config.smt THEN [moved EXCEPT !.now = Higher(@, earliest)] ELSE [c EXCEPT !.now = @ + d]
    /\ jumps' = 1
    /\ UNCHANGED <<config, fed>>

Next == Execute \/ \E t \in Threads : Feed(t) \/ Synchronize(t)

Spec == Init /\ [][Next]_vars

(***************************************************************************)
(* Properties.                                                             *)
(***************************************************************************)

\* A cycle that is skipped is one in which nothing would have been dispatched,
\* issued or committed: the assertion under ASSERT_SKIP of rob_timer.cc.
SameEntries(core, r) ==
    \A t \in Threads : /\ r.thread[t].inRob = core.thread[t].inRob
                       /\ r.thread[t].next = core.thread[t].next
                       /\ \A i \in 1 .. r.thread[t].inRob : r.thread[t].rob[i].issued = core.thread[t].rob[i].issued
IdleCycle(core) == SameEntries(core, Cycle(core).c)
SkippedAreIdle ==
    \A r \in {Cycle(c)} :
       \A now \in c.now + 1 .. NextCycle(c.now, r.event) - 1 : IdleCycle([r.c EXCEPT !.now = now])
SkipsOnlyIdleCycles == Starved(c) = {} /\ ~config.smt => SkippedAreIdle

\* No micro-operation issues before the values that it reads are there: not before
\* the older one in the buffer that last wrote a register of it has its result, nor a
\* load, unless it is forwarded, before the store that last wrote its address.
Result(e) == IF e.done = Never THEN Never ELSE IF e.u.type = "store" THEN e.issued + 1 ELSE e.issued + e.u.lat
LastWriter(th, i, P(_)) == LET S == {k \in 1 .. i - 1 : P(th.rob[k].u)} IN IF S = {} THEN {} ELSE {Max(S)}
ReadsFollowWrites ==
    \A t \in Threads : LET th == c.thread[t] IN
      \A i \in 1 .. th.inRob : LET e == th.rob[i] IN e.issued # Never =>
        /\ \A r \in e.u.src : \A k \in LastWriter(th, i, LAMBDA u : r \in u.dst) : Result(th.rob[k]) <= e.issued
        /\ e.u.type = "load" /\ ~config.forwarding =>
              \A k \in LastWriter(th, i, LAMBDA u : u.type = "store" /\ u.cell = e.u.cell) :
                 Result(th.rob[k]) <= e.issued

\* No memory operation issues before an older fence (they may issue in one cycle, when
\* the fence was the oldest entry: then it is not recorded as a dependency), nor a fence before every
\* older store has reached memory.
FencesOrder ==
    \A t \in Threads : LET th == c.thread[t] IN
      \A i, j \in 1 .. th.inRob :
        /\ i < j /\ th.rob[i].u.barrier /\ th.rob[i].u.type = "exec" /\ th.rob[j].u.type \in {"load", "store"}
           => th.rob[j].issued = Never \/ th.rob[i].issued <= th.rob[j].issued
        /\ i < j /\ th.rob[j].u.barrier /\ th.rob[j].issued # Never /\ th.rob[i].u.type = "store"
           => th.rob[i].issued + th.rob[i].u.lat + 1 <= th.rob[j].issued

\* Micro-operations execute out of order, but never before what they depend on: the
\* registers and memory they read, and the fences before them.
ExecutionRespectsOrder == ReadsFollowWrites /\ FencesOrder
=============================================================================
