--------------------------- MODULE ContentionModel ---------------------------
(***************************************************************************)
(* A resource with a number of slots, each busy until some time            *)
(* (common/performance_model/contention_model.cc): the load and store      *)
(* queues of a core, the MSHRs of a cache, the ports of a TLB.  A model is *)
(* [slot, last]: until when each slot is busy, and when the last request   *)
(* that used one started.                                                  *)
(***************************************************************************)
EXTENDS Integers, Sequences

NewContention(slots) == [slot |-> [i \in 1 .. slots |-> 0], last |-> 0]

\* The tag of a request is not modelled: no caller here passes one.  With no
\* slots there is never a free one, although CompletionTime then never waits.
HasFreeSlot(m, start) == \E i \in DOMAIN m.slot : m.slot[i] <= start

\* The slot that is free at start, or the first to become free.
FirstFree(m, start) ==
    LET free == {i \in DOMAIN m.slot : m.slot[i] <= start}
        soonest == {i \in DOMAIN m.slot : \A j \in DOMAIN m.slot : m.slot[i] <= m.slot[j]}
        first(S) == CHOOSE i \in S : \A j \in S : i <= j
    IN first(IF free # {} THEN free ELSE soonest)

StartTime(m, start) ==
    IF m.slot = <<>> \/ start < m.last THEN start
    ELSE LET free == m.slot[FirstFree(m, start)] IN IF start < free THEN free ELSE start

\* A request out of order, or at time zero, does not occupy a slot.
Occupies(m, start) == m.slot # <<>> /\ start # 0 /\ start >= m.last

CompletionTime(m, start, delay) ==
    IF Occupies(m, start) THEN StartTime(m, start) + delay ELSE start + delay

AfterRequest(m, start, delay) ==
    IF Occupies(m, start)
    THEN [slot |-> [m.slot EXCEPT ![FirstFree(m, start)] = CompletionTime(m, start, delay)],
          last |-> start]
    ELSE m

\* A barrier waits until every slot is free, and then occupies them all.
BarrierStart(m, start) ==
    CHOOSE t \in {start} \cup {m.slot[i] : i \in DOMAIN m.slot} :
        t >= start /\ \A i \in DOMAIN m.slot : t >= m.slot[i]
BarrierCompletionTime(m, start, delay) == BarrierStart(m, start) + delay
AfterBarrier(m, start, delay) ==
    [m EXCEPT !.slot = [i \in DOMAIN m.slot |-> BarrierCompletionTime(m, start, delay)]]
=============================================================================
