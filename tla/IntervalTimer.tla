---------------------------- MODULE IntervalTimer ----------------------------
(***************************************************************************)
(* The interval core model (interval_timer.cc, windows.cc).  Two windows    *)
(* share a ring of 2 * windowSize entries: micro-operations wait in the     *)
(* window until it is full, and those dispatched make up the old window,    *)
(* whose critical path gives the dispatch rate.  A long-latency load blocks *)
(* the window and overlaps the independent misses behind it.                *)
(*                                                                          *)
(* Operators on the state w of the timer; parameters in prm.  Time is in    *)
(* cycles.  Left out: statistics other than the CPI stack, and fetchTime,   *)
(* which nothing sets.                                                      *)
(***************************************************************************)
EXTENDS Integers, Sequences, FiniteSets, FiniteSetsExt, SequencesExt, ContentionModel

CONSTANTS FixedPointOne   \* the "one" of FixedPoint: 0x4000 in the code

VARIABLES prm,   \* windowSize, dispatchWidth, penalty, cutoff, slots, contention, atDispatch
          w      \* the timer

RingSize == 2 * prm.windowSize
Inc(i) == (i + 1) % RingSize
Dec(i) == (i + RingSize - 1) % RingSize
Larger(a, b) == IF a > b THEN a ELSE b
Largest(S) == Max({0} \cup S)

Component == {"base", "branch", "icache", "serial", "long", "dcache"}
Port == {"p0", "p1", "p5", "p2", "p34", "p05", "p015"}
Producers == [reg |-> 0, stores |-> <<>>, membar |-> 0]

\* Sequence numbers start at 1; an entry with seq 0 has no micro-operation yet.
\* under: history, the sequence number of the load the entry is hidden under.
NoUop == [seq |-> 0]
NewTimer ==
    [ring |-> [i \in 0 .. RingSize - 1 |-> NoUop], head |-> 0, tail |-> 0, oldHead |-> 0,
     len |-> 0, oldLen |-> 0, next |-> 1, producers |-> Producers,
     cpHead |-> 0, cpTail |-> 0, ports |-> [p \in Port |-> 0],
     bandwidth |-> 0, maxLoad |-> 0, maxStore |-> 0, queue |-> NewContention(prm.slots),
     cpi |-> [k \in Component |-> 0]]

-----------------------------------------------------------------------------
\* Windows

WIsFull(x) == x.len = prm.windowSize
WIsEmpty(x) == x.len = 0
NewWindow(x) == {(x.head + k) % RingSize : k \in 0 .. x.len - 1}
OldWindow(x) == {(x.oldHead + k) % RingSize : k \in 0 .. x.oldLen - 1}

\* DynamicMicroOp::getDependency: first those on the same instruction, counted
\* back from the micro-operation, then those found when it was added.
Dependencies(e) ==
    {e.seq - e.u.offset - e.u.intra + k : k \in 0 .. e.u.intra - 1} \cup e.deps

\* RegisterDependencies and MemoryDependencies, with one register.
FindProducers(p, u, lowest) ==
    LET store == {k \in DOMAIN p.stores : p.stores[k].cell = u.cell /\ p.stores[k].seq >= lowest}
    IN  (IF u.reads /\ p.reg # 0 /\ p.reg >= lowest THEN {p.reg} ELSE {})
        \cup (IF u.type = "load" /\ store # {} THEN {p.stores[Max(store)].seq} ELSE {})
        \cup (IF (u.type \in {"load", "store"} \/ u.barrier) /\ p.membar > lowest
              THEN {p.membar} ELSE {})
UpdateProducers(p, u, seq, lowest) ==
    [reg |-> IF u.writes THEN seq ELSE p.reg,
     stores |-> LET valid == SelectSeq(p.stores, LAMBDA s : s.seq >= lowest)
                IN  IF u.type = "store" THEN Append(valid, [seq |-> seq, cell |-> u.cell]) ELSE valid,
     membar |-> IF u.type \notin {"load", "store"} /\ u.barrier THEN seq ELSE p.membar]

\* Windows::add
AddToWindow(x, u) ==
    LET seq == x.next
        lowest == IF x.oldHead = x.tail THEN seq ELSE x.ring[x.oldHead].seq
        entry == [u |-> u, seq |-> seq, lat |-> u.lat, known |-> ~prm.atDispatch, exec |-> 0,
                  over |-> {}, dep |-> "none", under |-> 0,
                  deps |-> FindProducers(x.producers, u, lowest)]
    IN  [x EXCEPT !.ring[x.tail] = entry, !.tail = Inc(@), !.len = @ + 1, !.next = @ + 1,
                  !.producers = UpdateProducers(@, u, seq, lowest)]

\* getInstruction: the place in the ring, from the distance to the head.
PlaceOf(x, seq) == (x.head - (x.ring[x.head].seq - seq)) % RingSize
\* windowContains, oldWindowContains
WindowContains(x, seq) == x.ring[x.head].seq <= seq /\ seq <= x.ring[Dec(x.tail)].seq
OldWindowContains(x, seq) == x.ring[x.oldHead].seq <= seq /\ seq <= x.ring[Dec(x.head)].seq

\* Windows::dispatchInstruction: the head goes to the old window.
MoveToOldWindow(x) ==
    LET full == x.oldLen = prm.windowSize
        oldest == x.ring[x.oldHead]
        y == IF full
             THEN [x EXCEPT !.ports[oldest.u.port] = @ - 1, !.cpHead = Larger(@, oldest.exec),
                            !.oldHead = Inc(@), !.oldLen = @ - 1]
             ELSE x
    IN  [y EXCEPT !.ports[y.ring[y.head].u.port] = @ + 1, !.head = Inc(@),
                  !.len = @ - 1, !.oldLen = @ + 1]

ClearOldWindow(x, cp) ==
    [x EXCEPT !.cpHead = cp, !.cpTail = cp, !.oldLen = 0, !.oldHead = x.head,
              !.ports = [p \in Port |-> 0]]

CriticalPathLength(x) == IF x.cpHead <= x.cpTail THEN x.cpTail - x.cpHead ELSE 0

\* IntervalContentionNehalem::getEffectiveCriticalPathLength
EffectiveCriticalPath(x) ==
    LET one == Larger(CriticalPathLength(x), Largest({x.ports[p] : p \in Port \ {"p05", "p015"}}))
        p05 == x.ports["p0"] + x.ports["p5"] + x.ports["p05"]
        two == IF p05 > 2 * one THEN (p05 + 1) \div 2 ELSE one
        p015 == x.ports["p0"] + x.ports["p1"] + x.ports["p5"] + x.ports["p015"]
    IN  IF ~prm.contention THEN CriticalPathLength(x)
        ELSE IF p015 > 3 * two THEN (p015 + 2) \div 3 ELSE two

MinimalFlushLatency(x) == (x.oldLen + prm.dispatchWidth - 1) \div prm.dispatchWidth

\* calculateBranchResolutionLatency: the longest chain of producers of the
\* head in the old window, found from the youngest to the oldest.
OldProducers(x, e) == {PlaceOf(x, d) : d \in {s \in Dependencies(e) : OldWindowContains(x, s)}}
BranchResolution(x) ==
    LET direct == [i \in 0 .. RingSize - 1 |->
                      IF i \in OldProducers(x, x.ring[x.head]) THEN x.ring[i].lat ELSE 0]
        back(m, k) ==
            LET i == (x.head - k) % RingSize
            IN  IF m[i] = 0 THEN m
                ELSE [j \in DOMAIN m |-> IF j \in OldProducers(x, x.ring[i])
                                         THEN Larger(x.ring[j].lat + m[i], m[j]) ELSE m[j]]
        map == FoldLeft(back, direct, [k \in 1 .. x.oldLen |-> k])
    IN  Largest({map[i] : i \in DOMAIN map})

-----------------------------------------------------------------------------
\* IntervalTimer

IsLongLatency(e) == e.u.forced \/ (prm.cutoff > 0 /\ e.lat > prm.cutoff)
\* issueMemOp: execLatency holds the bypass latency until the access is made.
IssueMemOp(e) ==
    IF e.u.type \in {"load", "store"} /\ ~e.known
    THEN [e EXCEPT !.known = TRUE, !.lat = @ + e.u.mem] ELSE e

Pay(r, component, cycles) ==
    [r EXCEPT !.x.cpi[component] = @ + cycles, !.latency = @ + cycles]
SetHead(r, field, value) == [r EXCEPT !.x.ring[r.x.head][field] = value]

\* longLatencyOperationLatency: for a long extension it returns "true".
LongLatencyOperation(x, exec) ==
    IF exec < x.cpTail \/ exec - x.cpTail < prm.cutoff THEN 0 ELSE 1
\* updateCriticalPath: an extension beyond the cut-off clears the old window.
UpdateCriticalPath(r, exec) ==
    LET s == SetHead(r, "exec", exec)
        lll == LongLatencyOperation(s.x, exec)
    IN  IF lll = 0 THEN [s EXCEPT !.x.cpTail = Larger(@, exec)]
        ELSE LET paid == Pay(s, "long", lll) IN [paid EXCEPT !.x = ClearOldWindow(@, exec)]

HideUnderDirect(s, i) ==
    LET x == s.x
        head == x.ring[x.head]
        e == [x.ring[i] EXCEPT !.dep = "none", !.over = @ \cup {"icache"}]
        hides == e.u.type = "load" /\ "dcache" \notin e.over /\ head.seq \notin Dependencies(e)
    IN  IF hides
        THEN [s EXCEPT !.x.ring[i] = [IssueMemOp(e) EXCEPT !.over = @ \cup {"dcache"}, !.dep = "indep",
                                                           !.exec = x.cpHead, !.under = head.seq]]
        ELSE s
\* blockWindow, for the entry at place i: s is [x, pending, over].
HideUnder(s, i) ==
    LET x == s.x
        head == x.ring[x.head]
        e == [x.ring[i] EXCEPT !.dep = "none", !.over = @ \cup {"icache"}]
        pending == s.pending \/ e.u.barrier
        blocked(d) == LET p == x.ring[PlaceOf(x, d)]
                      IN  p.dep = "data" \/ (p.dep = "indep" /\ IsLongLatency(p))
        dependent ==
            \/ \E d \in Dependencies(e) : WindowContains(x, d) /\ blocked(d)
            \/ e.u.type = "load" /\ e.u.cell = head.u.cell
        hides == e.u.type = "load" /\ ~dependent /\ ~pending /\ "dcache" \notin e.over
        after == CASE dependent -> [e EXCEPT !.dep = "data"]
                   [] ~dependent /\ e.u.branch -> [e EXCEPT !.over = @ \cup {"bpred"}]
                   [] hides -> [IssueMemOp(e) EXCEPT !.over = @ \cup {"dcache"}, !.dep = "indep",
                                                     !.exec = x.cpHead, !.under = head.seq]
                   [] OTHER -> e
    IN  IF s.over THEN s
        ELSE IF e.u.serial THEN [s EXCEPT !.x.ring[i] = e, !.over = TRUE]
        ELSE [s EXCEPT !.x.ring[i] = after, !.pending = pending]
BlockWindow(x) ==
    LET rest == [k \in 1 .. x.len - 1 |-> (x.head + k) % RingSize]
        start == [x |-> [x EXCEPT !.ring[x.head].dep = "indep"], pending |-> FALSE, over |-> FALSE]
    IN  FoldLeft(HideUnder, start, rest).x

\* The front-end part of dispatchInstruction: instruction cache and branch.
\* Both count from the critical path as it was before either.
DispatchFrontEnd(r) ==
    LET e == r.x.ring[r.x.head]
        tail == r.x.cpTail
        miss == e.u.imiss > 0 /\ "icache" \notin e.over
        s == IF miss
             THEN LET p == Pay(r, "icache", e.u.imiss)
                  IN  [p EXCEPT !.x = ClearOldWindow(@, tail + e.u.imiss), !.stop = TRUE]
             ELSE r
        mispredicted == e.u.branch /\ e.u.mispredict /\ "bpred" \notin e.over
        flushed(t, cost) == [Pay(t, "branch", cost) EXCEPT !.x = ClearOldWindow(@, tail + cost), !.stop = TRUE]
        resolved(t) == flushed(t, prm.penalty + BranchResolution(t.x))
    IN  IF mispredicted THEN resolved(s) ELSE s

Slot(x, e, start) ==
    IF e.u.barrier
    THEN [done |-> BarrierCompletionTime(x.queue, start, e.lat), queue |-> AfterBarrier(x.queue, start, e.lat)]
    ELSE [done |-> CompletionTime(x.queue, start, e.lat), queue |-> AfterRequest(x.queue, start, e.lat)]

DispatchSerializing(r, e) ==
    LET flush == Larger(CriticalPathLength(r.x), MinimalFlushLatency(r.x))
        s == SetHead(Pay(r, "serial", flush + e.lat), "exec", r.x.cpTail)
    IN  [s EXCEPT !.x = ClearOldWindow(@, r.x.cpTail)]
DispatchFence(r, e, ready) ==
    UpdateCriticalPath(r, Max({ready, r.x.maxStore, r.x.maxLoad}) + e.lat)
\* A load that blocks the window for cost; then every load moves the fence.
LongLoad(r, cost) ==
    LET s == SetHead(Pay(r, "dcache", cost), "exec", r.x.cpTail)
    IN  [s EXCEPT !.x = BlockWindow(ClearOldWindow(@, r.x.cpTail + cost))]
RecordLoad(r) == [r EXCEPT !.x.maxLoad = Larger(@, r.x.ring[r.x.head].exec)]
DispatchLoad(r, e, ready) ==
    LET start == Larger(ready, r.x.cpHead)
        access(slot) ==
            LET taken == [r EXCEPT !.x.queue = slot.queue]
            IN  IF IsLongLatency(e) THEN LongLoad(taken, slot.done - start)
                ELSE UpdateCriticalPath(taken, slot.done)
    IN  RecordLoad(IF "dcache" \in e.over THEN r ELSE access(Slot(r.x, e, start)))
DispatchStore(r, e, ready) ==
    LET start == Larger(ready, r.x.cpHead)
        s == UpdateCriticalPath(r, start + e.u.bypass + 1)
    IN  [s EXCEPT !.x.maxStore = Larger(@, start + e.lat)]
DispatchExecute(r, e, ready) == UpdateCriticalPath(r, Larger(ready, r.x.cpHead) + e.lat)

\* dispatchInstruction on the head of the window.  r is [x, latency, stop].
DispatchInstruction(r) ==
    LET i == r.x.head
        issued == [r EXCEPT !.x.ring[i] = IssueMemOp(@)]
        e == issued.x.ring[i]
        ready == Largest({issued.x.ring[p].exec : p \in OldProducers(issued.x, e)})
        backEnd(s) ==
            CASE e.u.serial -> DispatchSerializing(s, e)
              [] ~e.u.serial /\ e.u.type = "exec" /\ e.u.barrier -> DispatchFence(s, e, ready)
              [] ~e.u.serial /\ e.u.type = "load" -> DispatchLoad(s, e, ready)
              [] ~e.u.serial /\ e.u.type = "store" -> DispatchStore(s, e, ready)
              [] OTHER -> DispatchExecute(s, e, ready)
    IN  backEnd(DispatchFrontEnd(issued))

\* calculateCurrentDispatchRate: bandwidth is in units of 1 / FixedPointOne.
IpcOf(x) == (x.oldLen * FixedPointOne) \div EffectiveCriticalPath(x) + x.bandwidth
DispatchRate(x) ==
    IF CriticalPathLength(x) > 0 THEN IpcOf(x) \div FixedPointOne ELSE prm.dispatchWidth
KeepBandwidth(x) ==
    [x EXCEPT !.bandwidth = IF CriticalPathLength(x) > 0 /\ DispatchRate(x) < prm.dispatchWidth
                            THEN IpcOf(x) % FixedPointOne ELSE 0]

\* The head has been dispatched: it moves to the old window and is counted.
CountDispatched(s) ==
    LET last == s.x.ring[s.x.head].u.last
    IN  [s EXCEPT !.x = MoveToOldWindow(@), !.uops = @ + 1, !.insns = IF last THEN @ + 1 ELSE @]

\* dispatchWindow: one cycle, or more.  Returns [x, latency, stop, insns, uops].
DispatchWindow(x) ==
    LET rate == DispatchRate(x)
        one(r, k) ==
            IF r.stop \/ WIsEmpty(r.x) \/ r.insns >= prm.dispatchWidth \/ r.uops >= rate THEN r
            ELSE CountDispatched(DispatchInstruction(r))
        start == [x |-> KeepBandwidth(x), latency |-> 0, stop |-> FALSE, insns |-> 0, uops |-> 0]
        oneCycle(r) == IF r.latency = 0 THEN Pay(r, "base", 1) ELSE r
    IN  oneCycle(FoldLeft(one, start, [k \in 1 .. x.len |-> k]))

\* simulate, for one micro-operation: r is [x, latency, insns].
RECURSIVE Drain(_)
Drain(r) ==
    IF ~WIsFull(r.x) THEN r
    ELSE LET sum(d) == [x |-> d.x, latency |-> r.latency + d.latency, insns |-> r.insns + d.insns]
         IN  Drain(sum(DispatchWindow(r.x)))
SimulateOne(r, u) == Drain([r EXCEPT !.x = AddToWindow(@, u)])
Simulate(x, uops) == FoldLeft(SimulateOne, [x |-> x, latency |-> 0, insns |-> 0], uops)

-----------------------------------------------------------------------------
\* Properties

RECURSIVE Needs(_, _)
Needs(i, seq) ==
    \E d \in Dependencies(w.ring[i]) :
        \/ d = seq
        \/ d > seq /\ Needs(CHOOSE j \in 0 .. RingSize - 1 : w.ring[j].seq = d, seq)
\* A load that was overlapped with a long-latency load (blockWindow marks it
\* DCACHE-overlapped, so it will cost nothing) does not need the result of that
\* load, directly or through other micro-operations.
HiddenLoadsAreIndependent ==
    \A i \in NewWindow(w) \cup OldWindow(w) :
        LET e == w.ring[i]
        IN  e.under # 0 /\ e.under >= w.next - RingSize => ~Needs(i, e.under)
=============================================================================
