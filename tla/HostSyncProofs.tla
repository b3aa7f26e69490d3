--------------------------- MODULE HostSyncProofs ---------------------------
(***************************************************************************)
(* Proofs about the host synchronisation objects, for every number of      *)
(* threads, every size of the queue and all programs of calls.             *)
(*                                                                         *)
(* Inv has a part per object.  Owners: what a thread's position says of    *)
(* the mutexes of the set lock it holds.  Ring: the indices of the queue   *)
(* are the numbers of pushes and pops modulo its size, and the elements    *)
(* between them are in their slots.  Rounds: a barrier gathers, has its    *)
(* last arrival about to broadcast, or is being left, and the counters     *)
(* count the threads that wait.                                            *)
(***************************************************************************)
EXTENDS HostSync, FiniteSetTheorems, TLAPS

Call == {"wait", "signal", "broadcast", "push", "pop", "shared", "exclusive", "upgrade"}
Locking == {"holds", "locking", "exclusive", "releasing"}
Outside == {"call", "futex", "asleep", "woken", "broadcast"}
ThreadState == [todo : Seq(Call), pc : Locking \cup Outside, on : Futex \cup {"none"}]

TypeOfThreads(th) ==
    /\ th \in [Thread -> ThreadState]
    /\ \A t \in Thread : th[t].pc # "call" => th[t].todo # <<>>
ObjType(size) ==
    [futx : [Futex -> {0, 1}], count : Int, numWaiting : Int,
     first : 0 .. size, last : 0 .. size, slots : [0 .. size -> Nat],
     arrived : Int, leaving : Int, locks : [Sharers -> Thread \cup {NoThread}]]

\* The fields are of their types, and a thread inside a call still has it to do.
Types ==
    /\ IsWorkload(config)
    /\ TypeOfThreads(thread)
    /\ obj \in ObjType(config.size)
    /\ pushed \in Seq(Nat) /\ popped \in Seq(Nat)

\* What a thread's position says of the mutexes it holds.
Owners ==
    \A t \in Thread :
        /\ thread[t].pc = "holds" => Mine(t) = {config.core[t]}
        /\ thread[t].pc = "exclusive" => Mine(t) = Sharers
        /\ thread[t].pc \in Outside => Mine(t) = {}

\* The indices of the ring follow the numbers of pushes and pops.
Ring ==
    /\ obj.first = Len(pushed) % QSize /\ obj.last = Len(popped) % QSize
    /\ Len(popped) <= Len(pushed) /\ Len(pushed) - Len(popped) <= config.size
    /\ \A i \in 1 .. Len(pushed) : pushed[i] = i - 1
    /\ \A i \in 1 .. Len(popped) : popped[i] = i - 1
    /\ \A n \in Nat : Len(popped) <= n /\ n < Len(pushed) => obj.slots[n % QSize] = n

\* The rounds of a barrier.
Waiting == {t \in Thread : thread[t].pc # "call"}
Gathering(n) ==
    /\ obj.leaving = 0 /\ obj.arrived = Cardinality(Waiting) /\ Waiting # Thread
    /\ Waiting # {} => obj.futx["cond"] = 0
    /\ \A t \in Thread : Left(t) = n /\ thread[t].pc \in {"call", "futex", "asleep"}
Releasing(n) ==
    /\ obj.leaving = BarrierCount - 1 /\ obj.arrived = 0
    /\ \E b \in Thread :
          /\ thread[b].pc = "broadcast"
          /\ \A t \in Thread \ {b} :
                thread[t].pc \in {"futex", "asleep"} /\ obj.futx["cond"] = 0
    /\ \A t \in Thread : Left(t) = n
Leaving(n) ==
    /\ obj.leaving = Cardinality(Waiting) /\ Waiting # {} /\ obj.arrived = 0
    /\ obj.futx["cond"] = 1
    /\ \A t \in Thread :
          \/ thread[t].pc = "call" /\ Left(t) = n + 1
          \/ thread[t].pc \in {"futex", "woken"} /\ Left(t) = n
Waiter(s) ==
    /\ s.todo \in Seq({"wait"})
    /\ s.pc \in {"futex", "asleep", "woken"} => s.on = "cond"
Rounds ==
    config.kind = "barrier" =>
        /\ \A t \in Thread : Waiter(thread[t])
        /\ \E n \in Nat : Gathering(n) \/ Releasing(n) \/ Leaving(n)

Inv == Types /\ Owners /\ Ring /\ Rounds

-----------------------------------------------------------------------------
(* What the operators on positions do.                                      *)

LEMMA GotoThreads ==
    ASSUME NEW th, TypeOfThreads(th), NEW t \in Thread, NEW pc \in Locking \cup Outside,
           th[t].todo # <<>>
    PROVE  /\ TypeOfThreads(Goto(th, t, pc))
           /\ Goto(th, t, pc)[t] = [todo |-> th[t].todo, pc |-> pc, on |-> th[t].on]
           /\ \A u \in Thread \ {t} : Goto(th, t, pc)[u] = th[u]
<1>1. th[t] \in ThreadState /\ DOMAIN th = Thread
  BY DEF TypeOfThreads
<1>2. Goto(th, t, pc) = [th EXCEPT ![t] = [todo |-> th[t].todo, pc |-> pc, on |-> th[t].on]]
  <2>1. \A r \in ThreadState : [r EXCEPT !.pc = pc] = [todo |-> r.todo, pc |-> pc, on |-> r.on]
    BY DEF ThreadState
  <2>2. [th EXCEPT ![t].pc = pc] = [th EXCEPT ![t] = [th[t] EXCEPT !.pc = pc]]
    BY <1>1
  <2> QED
    BY <1>1, <2>1, <2>2 DEF Goto
<1>3. [todo |-> th[t].todo, pc |-> pc, on |-> th[t].on] \in ThreadState
  BY <1>1 DEF ThreadState
<1> QED
  BY <1>1, <1>2, <1>3 DEF TypeOfThreads

LEMMA ReturnedThreads ==
    ASSUME NEW th, TypeOfThreads(th), NEW t \in Thread, th[t].todo # <<>>
    PROVE  /\ TypeOfThreads(Returned(th, t))
           /\ Returned(th, t)[t] = [todo |-> Tail(th[t].todo), pc |-> "call", on |-> "none"]
           /\ \A u \in Thread \ {t} : Returned(th, t)[u] = th[u]
<1>1. th[t] \in ThreadState /\ DOMAIN th = Thread
  BY DEF TypeOfThreads
<1>2. Returned(th, t)
        = [th EXCEPT ![t] = [todo |-> Tail(th[t].todo), pc |-> "call", on |-> "none"]]
  BY DEF Returned
<1>3. Tail(th[t].todo) \in Seq(Call)
  BY <1>1 DEF ThreadState
<1>4. [todo |-> Tail(th[t].todo), pc |-> "call", on |-> "none"] \in ThreadState
  BY <1>3 DEF ThreadState, Outside
<1> QED
  BY <1>1, <1>2, <1>4 DEF TypeOfThreads

LEMMA ToSleepThreads ==
    ASSUME NEW th, TypeOfThreads(th), NEW t \in Thread, th[t].todo # <<>>, NEW f \in Futex
    PROVE  /\ TypeOfThreads(ToSleep(th, t, f))
           /\ ToSleep(th, t, f)[t] = [todo |-> th[t].todo, pc |-> "futex", on |-> f]
           /\ \A u \in Thread \ {t} : ToSleep(th, t, f)[u] = th[u]
<1>1. th[t] \in ThreadState /\ DOMAIN th = Thread
  BY DEF TypeOfThreads
<1>2. ToSleep(th, t, f) = [th EXCEPT ![t] = [todo |-> th[t].todo, pc |-> "futex", on |-> f]]
  BY DEF ToSleep
<1>3. [todo |-> th[t].todo, pc |-> "futex", on |-> f] \in ThreadState
  BY <1>1 DEF ThreadState, Outside
<1> QED
  BY <1>1, <1>2, <1>3 DEF TypeOfThreads

LEMMA WakeUpThreads ==
    ASSUME NEW th, TypeOfThreads(th), NEW W,
           \A u \in W : u \in Thread /\ th[u].pc = "asleep"
    PROVE  /\ TypeOfThreads(WakeUp(th, W))
           /\ \A u \in Thread \ W : WakeUp(th, W)[u] = th[u]
           /\ \A u \in W : WakeUp(th, W)[u] = [todo |-> th[u].todo, pc |-> "woken", on |-> th[u].on]
<1>1. \A u \in Thread : th[u] \in ThreadState
  BY DEF TypeOfThreads
<1>2. \A u \in Thread :
        [th[u] EXCEPT !.pc = "woken"] = [todo |-> th[u].todo, pc |-> "woken", on |-> th[u].on]
  BY <1>1 DEF ThreadState
<1>3. \A u \in Thread : [todo |-> th[u].todo, pc |-> "woken", on |-> th[u].on] \in ThreadState
  BY <1>1 DEF ThreadState, Outside
<1>4. \A u \in W : u \in Thread /\ th[u].todo # <<>>
  BY DEF TypeOfThreads
<1>5. WakeUp(th, W) = [u \in Thread |-> IF u \in W
                          THEN [todo |-> th[u].todo, pc |-> "woken", on |-> th[u].on] ELSE th[u]]
  BY <1>2 DEF WakeUp
<1> QED
  BY <1>1, <1>3, <1>4, <1>5 DEF TypeOfThreads

-----------------------------------------------------------------------------
(* What the actions do: the types hold, the other threads stay where they   *)
(* are or are woken, and the parts of the object that are left alone.       *)

WokenUp(u) ==
    /\ thread[u].pc = "asleep"
    /\ thread'[u] = [todo |-> thread[u].todo, pc |-> "woken", on |-> thread[u].on]
Others(t) == \A u \in Thread \ {t} : thread'[u] = thread[u] \/ WokenUp(u)
Effect(t) == config' = config /\ Types' /\ Others(t)

SameLocks == obj'.locks = obj.locks
SameRing ==
    /\ obj'.first = obj.first /\ obj'.last = obj.last /\ obj'.slots = obj.slots
    /\ pushed' = pushed /\ popped' = popped

LEMMA ReturnedWake ==
    ASSUME TypeOfThreads(thread), NEW t \in Thread, thread[t].todo # <<>>,
           thread[t].pc # "asleep", NEW W, \A u \in W : u \in Thread /\ thread[u].pc = "asleep",
           thread' = Returned(WakeUp(thread, W), t)
    PROVE  /\ TypeOfThreads(thread') /\ Others(t)
           /\ thread'[t] = [todo |-> Tail(thread[t].todo), pc |-> "call", on |-> "none"]
           /\ \A u \in W : WokenUp(u)
<1> DEFINE th == WakeUp(thread, W)
<1>1. /\ TypeOfThreads(th)
      /\ \A u \in Thread \ W : th[u] = thread[u]
      /\ \A u \in W : th[u] = [todo |-> thread[u].todo, pc |-> "woken", on |-> thread[u].on]
  BY WakeUpThreads
<1>2. t \notin W /\ th[t] = thread[t]
  BY <1>1
<1>3. /\ TypeOfThreads(Returned(th, t))
      /\ Returned(th, t)[t] = [todo |-> Tail(th[t].todo), pc |-> "call", on |-> "none"]
      /\ \A u \in Thread \ {t} : Returned(th, t)[u] = th[u]
  <2>1. th[t].todo # <<>>
    BY <1>2
  <2> HIDE DEF th
  <2>2. TypeOfThreads(th)
    BY <1>1
  <2> QED
    BY <2>1, <2>2, ReturnedThreads
<1>4. thread' = Returned(th, t)
  OBVIOUS
<1> HIDE DEF th
<1>5. \A u \in W : u \in Thread \ {t} /\ WokenUp(u)
  BY <1>1, <1>2, <1>3, <1>4 DEF WokenUp
<1> QED
  BY <1>1, <1>2, <1>3, <1>4, <1>5 DEF Others

LEMMA ReturnedAlone ==
    ASSUME TypeOfThreads(thread), NEW t \in Thread, thread[t].todo # <<>>,
           thread' = Returned(thread, t)
    PROVE  /\ TypeOfThreads(thread') /\ Others(t)
           /\ thread'[t] = [todo |-> Tail(thread[t].todo), pc |-> "call", on |-> "none"]
           /\ \A u \in Thread \ {t} : thread'[u] = thread[u]
<1>1. /\ TypeOfThreads(Returned(thread, t))
      /\ Returned(thread, t)[t] = [todo |-> Tail(thread[t].todo), pc |-> "call", on |-> "none"]
      /\ \A u \in Thread \ {t} : Returned(thread, t)[u] = thread[u]
  BY ReturnedThreads
<1> QED
  BY <1>1 DEF Others

LEMMA ToSleptThreads ==
    ASSUME TypeOfThreads(thread), NEW t \in Thread, thread[t].todo # <<>>, NEW f \in Futex,
           thread' = ToSleep(thread, t, f)
    PROVE  /\ TypeOfThreads(thread') /\ Others(t)
           /\ thread'[t] = [todo |-> thread[t].todo, pc |-> "futex", on |-> f]
           /\ \A u \in Thread \ {t} : thread'[u] = thread[u]
<1>1. /\ TypeOfThreads(ToSleep(thread, t, f))
      /\ ToSleep(thread, t, f)[t] = [todo |-> thread[t].todo, pc |-> "futex", on |-> f]
      /\ \A u \in Thread \ {t} : ToSleep(thread, t, f)[u] = thread[u]
  BY ToSleepThreads
<1> QED
  BY <1>1 DEF Others

LEMMA WentThreads ==
    ASSUME TypeOfThreads(thread), NEW t \in Thread, thread[t].todo # <<>>,
           NEW pc \in Locking \cup Outside, thread' = Goto(thread, t, pc)
    PROVE  /\ TypeOfThreads(thread') /\ Others(t)
           /\ thread'[t] = [todo |-> thread[t].todo, pc |-> pc, on |-> thread[t].on]
           /\ \A u \in Thread \ {t} : thread'[u] = thread[u]
<1>1. /\ TypeOfThreads(Goto(thread, t, pc))
      /\ Goto(thread, t, pc)[t] = [todo |-> thread[t].todo, pc |-> pc, on |-> thread[t].on]
      /\ \A u \in Thread \ {t} : Goto(thread, t, pc)[u] = thread[u]
  BY GotoThreads
<1> QED
  BY <1>1 DEF Others

LEMMA WakeSets ==
    ASSUME NEW f, NEW W \in WakeOne(f) \cup WakeAll(f) \cup {{}}
    PROVE  \A u \in W : u \in Thread /\ thread[u].pc = "asleep" /\ thread[u].on = f
  BY DEF WakeOne, WakeAll, Sleepers

LEMMA FutexWaitEffect ==
    ASSUME Types, NEW t \in Thread, FutexWait(t) \/ Interrupt(t)
    PROVE  /\ Effect(t) /\ obj' = obj /\ SameLocks /\ SameRing
           /\ thread[t].pc \in {"futex", "asleep"}
           /\ \A u \in Thread \ {t} : thread'[u] = thread[u]
           /\ \E pc \in {"asleep", "woken"} :
                 /\ thread'[t] = [todo |-> thread[t].todo, pc |-> pc, on |-> thread[t].on]
                 /\ pc = "asleep" => obj.futx[thread[t].on] = 0
                 /\ thread[t].pc = "futex" /\ pc = "woken" => obj.futx[thread[t].on] # 0
<1>1. /\ thread[t].pc \in {"futex", "asleep"} /\ UNCHANGED <<config, obj, pushed, popped>>
      /\ \E pc \in {"asleep", "woken"} :
                 /\ thread' = Goto(thread, t, pc)
                 /\ pc = "asleep" => obj.futx[thread[t].on] = 0
                 /\ thread[t].pc = "futex" /\ pc = "woken" => obj.futx[thread[t].on] # 0
  <2>1. CASE FutexWait(t)
    BY <2>1 DEF FutexWait
  <2>2. CASE Interrupt(t)
    BY <2>2 DEF Interrupt
  <2> QED
    BY <2>1, <2>2
<1>2. PICK pc \in {"asleep", "woken"} :
                 /\ thread' = Goto(thread, t, pc)
                 /\ pc = "asleep" => obj.futx[thread[t].on] = 0
                 /\ thread[t].pc = "futex" /\ pc = "woken" => obj.futx[thread[t].on] # 0
  BY <1>1
<1>3. /\ TypeOfThreads(thread) /\ pc \in Locking \cup Outside /\ thread[t].todo # <<>>
  BY <1>1 DEF Types, TypeOfThreads, Outside
<1>4. /\ TypeOfThreads(Goto(thread, t, pc))
      /\ Goto(thread, t, pc)[t] = [todo |-> thread[t].todo, pc |-> pc, on |-> thread[t].on]
      /\ \A u \in Thread \ {t} : Goto(thread, t, pc)[u] = thread[u]
  BY <1>3, GotoThreads
<1>5. Types'
  BY <1>1, <1>2, <1>4 DEF Types
<1>6. Others(t)
  BY <1>2, <1>4 DEF Others
<1> QED
  BY <1>1, <1>2, <1>4, <1>5, <1>6 DEF Effect, SameLocks, SameRing

SemaphoreStep(o, x, size) ==
    /\ x \in ObjType(size) /\ x.locks = o.locks
    /\ x.first = o.first /\ x.last = o.last /\ x.slots = o.slots

LEMMA SemaphoreFields ==
    ASSUME NEW size, NEW o \in ObjType(size), NEW n \in Int, NEW c \in Int, NEW f \in {0, 1}
    PROVE  /\ SemaphoreStep(o, [o EXCEPT !.numWaiting = n, !.futx["sem"] = f], size)
           /\ SemaphoreStep(o, [o EXCEPT !.numWaiting = n, !.count = c], size)
           /\ SemaphoreStep(o, [o EXCEPT !.count = c, !.futx["sem"] = f], size)
<1>1. SemaphoreStep(o, [o EXCEPT !.numWaiting = n, !.futx["sem"] = f], size)
  BY DEF ObjType, Futex, SemaphoreStep
<1>2. SemaphoreStep(o, [o EXCEPT !.numWaiting = n, !.count = c], size)
  BY DEF ObjType, Futex, SemaphoreStep
<1>3. SemaphoreStep(o, [o EXCEPT !.count = c, !.futx["sem"] = f], size)
  BY DEF ObjType, Futex, SemaphoreStep
<1> QED
  BY <1>1, <1>2, <1>3

LEMMA SemaphoreEffect ==
    ASSUME Types, NEW t \in Thread, SemaphoreWait(t) \/ SemaphoreSignal(t)
    PROVE  /\ Effect(t) /\ SameLocks /\ SameRing
           /\ thread[t].pc \in Outside /\ thread'[t].pc \in Outside
           /\ config.kind = "barrier" =>
                 \/ thread[t].pc = "woken" /\ thread[t].on = "sem"
                 \/ Calls(t, "signal") \/ Calls(t, "broadcast")
<1>1. /\ TypeOfThreads(thread) /\ obj \in ObjType(config.size)
      /\ obj.numWaiting \in Int /\ obj.count \in Int /\ obj.futx \in [Futex -> {0, 1}]
      /\ UNCHANGED <<config, pushed, popped>>
  BY DEF Types, ObjType, SemaphoreWait, SemaphoreSignal
<1>2. /\ thread[t].pc \in {"call", "woken"} /\ thread[t].todo # <<>>
      /\ config.kind = "barrier" =>
                 \/ thread[t].pc = "woken" /\ thread[t].on = "sem"
                 \/ Calls(t, "signal") \/ Calls(t, "broadcast")
  BY <1>1 DEF SemaphoreWait, SemaphoreSignal, Calls, Idle, TypeOfThreads
<1>3. SemaphoreStep(obj, obj', config.size)
  <2>1. PICK n \in Int, c \in Int, f \in {0, 1} :
          \/ obj' = [obj EXCEPT !.numWaiting = n, !.futx["sem"] = f]
          \/ obj' = [obj EXCEPT !.numWaiting = n, !.count = c]
          \/ obj' = [obj EXCEPT !.count = c, !.futx["sem"] = f]
    <3>1. CASE SemaphoreWait(t)
      <4>1. PICK n \in Int : SemaphoreTry(t, n)
        BY <1>1, <3>1 DEF SemaphoreWait
      <4>2. n + 1 \in Int /\ obj.count - 1 \in Int
        BY <1>1
      <4> QED
        BY <4>1, <4>2 DEF SemaphoreTry
    <3>2. CASE SemaphoreSignal(t)
      <4>1. obj' = [obj EXCEPT !.count = @ + 1,
                               !.futx["sem"] = IF obj.numWaiting > 0 THEN 1 ELSE @]
        BY <3>2 DEF SemaphoreSignal, SemaphorePost
      <4>2. PICK f \in {0, 1} : f = IF obj.numWaiting > 0 THEN 1 ELSE obj.futx["sem"]
        BY <1>1 DEF Futex
      <4>3. obj' = [obj EXCEPT !.count = obj.count + 1, !.futx["sem"] = f]
        BY <4>1, <4>2
      <4>4. obj.count + 1 \in Int
        BY <1>1
      <4> QED
        BY <4>3, <4>4
    <3> QED
      BY <3>1, <3>2
  <2>2. /\ SemaphoreStep(obj, [obj EXCEPT !.numWaiting = n, !.futx["sem"] = f], config.size)
        /\ SemaphoreStep(obj, [obj EXCEPT !.numWaiting = n, !.count = c], config.size)
        /\ SemaphoreStep(obj, [obj EXCEPT !.count = c, !.futx["sem"] = f], config.size)
    BY <1>1, SemaphoreFields
  <2> QED
    BY <2>1, <2>2
<1>4. TypeOfThreads(thread') /\ Others(t) /\ thread'[t].pc \in Outside
  <2>1. \/ thread' = ToSleep(thread, t, "sem")
        \/ thread' = Returned(thread, t)
        \/ \E W \in WakeOne("sem") \cup WakeAll("sem") : thread' = Returned(WakeUp(thread, W), t)
    <3>1. CASE SemaphoreWait(t)
      BY <3>1 DEF SemaphoreWait, SemaphoreTry
    <3>2. CASE SemaphoreSignal(t)
      BY <3>2 DEF SemaphoreSignal, SemaphorePost
    <3> QED
      BY <3>1, <3>2
  <2>2. CASE thread' = ToSleep(thread, t, "sem")
    <3>1. "sem" \in Futex /\ thread[t].todo # <<>> /\ TypeOfThreads(thread)
      BY <1>1, <1>2 DEF Futex
    <3>2. /\ TypeOfThreads(thread') /\ Others(t)
          /\ thread'[t] = [todo |-> thread[t].todo, pc |-> "futex", on |-> "sem"]
      BY <2>2, <3>1, ToSleptThreads
    <3> QED
      BY <3>2 DEF Outside
  <2>3. CASE thread' = Returned(thread, t)
    <3>1. thread[t].todo # <<>> /\ TypeOfThreads(thread)
      BY <1>1, <1>2
    <3>2. /\ TypeOfThreads(thread') /\ Others(t)
          /\ thread'[t] = [todo |-> Tail(thread[t].todo), pc |-> "call", on |-> "none"]
      BY <2>3, <3>1, ReturnedAlone
    <3> QED
      BY <3>2 DEF Outside
  <2>4. ASSUME NEW W \in WakeOne("sem") \cup WakeAll("sem"), thread' = Returned(WakeUp(thread, W), t)
        PROVE  TypeOfThreads(thread') /\ Others(t) /\ thread'[t].pc \in Outside
    <3>1. \A u \in W : u \in Thread /\ thread[u].pc = "asleep"
      BY WakeSets
    <3>2. thread[t].pc # "asleep" /\ thread[t].todo # <<>> /\ TypeOfThreads(thread)
      BY <1>1, <1>2
    <3>3. /\ TypeOfThreads(thread') /\ Others(t)
          /\ thread'[t] = [todo |-> Tail(thread[t].todo), pc |-> "call", on |-> "none"]
      BY <2>4, <3>1, <3>2, ReturnedWake
    <3> QED
      BY <3>3 DEF Outside
  <2> QED
    BY <2>1, <2>2, <2>3, <2>4
<1>5. Types'
  BY <1>1, <1>3, <1>4 DEF Types, SemaphoreStep
<1> QED
  BY <1>1, <1>2, <1>3, <1>4, <1>5 DEF Effect, SameLocks, SameRing, Outside, SemaphoreStep

LEMMA ModRange ==
    ASSUME NEW a \in Nat, NEW size \in Nat
    PROVE  a % (size + 1) \in 0 .. size
  OBVIOUS

QueueSleep(o, x, size) ==
    /\ x \in ObjType(size) /\ x.locks = o.locks
    /\ x.first = o.first /\ x.last = o.last /\ x.slots = o.slots
QueuePush(o, x, size, e) ==
    /\ x \in ObjType(size) /\ x.locks = o.locks
    /\ x.first = (o.first + 1) % (size + 1) /\ x.last = o.last
    /\ x.slots = [o.slots EXCEPT ![o.first] = e]
QueuePop(o, x, size) ==
    /\ x \in ObjType(size) /\ x.locks = o.locks
    /\ x.first = o.first /\ x.last = (o.last + 1) % (size + 1) /\ x.slots = o.slots

LEMMA QueueFields ==
    ASSUME NEW size \in Nat, NEW o \in ObjType(size), NEW e \in Nat, NEW f \in {0, 1},
           NEW w \in {"full", "empty"}
    PROVE  /\ QueueSleep(o, [o EXCEPT !.futx[w] = f], size)
           /\ QueuePush(o, [o EXCEPT !.slots[o.first] = e, !.first = (@ + 1) % (size + 1),
                                     !.futx[w] = f], size, e)
           /\ QueuePop(o, [o EXCEPT !.last = (@ + 1) % (size + 1), !.futx[w] = f], size)
<1>1. /\ o.first \in 0 .. size /\ o.last \in 0 .. size /\ w \in Futex
      /\ o.slots \in [0 .. size -> Nat] /\ o.futx \in [Futex -> {0, 1}]
  BY DEF ObjType, Futex
<1>2. /\ (o.first + 1) % (size + 1) \in 0 .. size
      /\ (o.last + 1) % (size + 1) \in 0 .. size
  <2>1. o.first + 1 \in Nat /\ o.last + 1 \in Nat
    BY <1>1
  <2> QED
    BY <2>1, ModRange
<1>3. [o.futx EXCEPT ![w] = f] \in [Futex -> {0, 1}] /\ [o.slots EXCEPT ![o.first] = e] \in [0 .. size -> Nat]
  BY <1>1
<1>4. ASSUME NEW futx \in [Futex -> {0, 1}], NEW slots \in [0 .. size -> Nat],
             NEW first \in 0 .. size, NEW last \in 0 .. size
      PROVE  /\ [o EXCEPT !.futx = futx] \in ObjType(size)
             /\ [o EXCEPT !.slots = slots, !.first = first, !.futx = futx] \in ObjType(size)
             /\ [o EXCEPT !.last = last, !.futx = futx] \in ObjType(size)
  BY DEF ObjType
<1>5. QueueSleep(o, [o EXCEPT !.futx[w] = f], size)
  <2>1. [o EXCEPT !.futx[w] = f] = [o EXCEPT !.futx = [o.futx EXCEPT ![w] = f]]
    OBVIOUS
  <2> QED
    BY <1>3, <1>4, <2>1 DEF QueueSleep, ObjType
<1>6. QueuePush(o, [o EXCEPT !.slots[o.first] = e, !.first = (@ + 1) % (size + 1),
                             !.futx[w] = f], size, e)
  <2>1. [o EXCEPT !.slots[o.first] = e, !.first = (@ + 1) % (size + 1), !.futx[w] = f]
          = [o EXCEPT !.slots = [o.slots EXCEPT ![o.first] = e],
                      !.first = (o.first + 1) % (size + 1),
                      !.futx = [o.futx EXCEPT ![w] = f]]
    BY DEF ObjType
  <2> QED
    BY <1>2, <1>3, <1>4, <2>1 DEF QueuePush, ObjType
<1>7. QueuePop(o, [o EXCEPT !.last = (@ + 1) % (size + 1), !.futx[w] = f], size)
  <2>1. [o EXCEPT !.last = (@ + 1) % (size + 1), !.futx[w] = f]
          = [o EXCEPT !.last = (o.last + 1) % (size + 1), !.futx = [o.futx EXCEPT ![w] = f]]
    BY DEF ObjType
  <2> QED
    BY <1>2, <1>3, <1>4, <2>1 DEF QueuePop, ObjType
<1> QED
  BY <1>5, <1>6, <1>7

PushStep ==
    /\ ~Full /\ QueuePush(obj, obj', config.size, Len(pushed))
    /\ pushed' = Append(pushed, Len(pushed)) /\ popped' = popped
PopStep ==
    /\ ~Empty /\ QueuePop(obj, obj', config.size)
    /\ popped' = Append(popped, obj.slots[obj.last]) /\ pushed' = pushed

LEMMA QueueEffect ==
    ASSUME Types, NEW t \in Thread, PushWait(t) \/ PopWait(t)
    PROVE  /\ Effect(t) /\ SameLocks
           /\ thread[t].pc \in Outside /\ thread'[t].pc \in Outside
           /\ SameRing \/ PushStep \/ PopStep
           /\ \/ thread[t].pc = "woken" /\ thread[t].on \in {"full", "empty"}
              \/ Calls(t, "push") \/ Calls(t, "pop")
<1>1. /\ TypeOfThreads(thread) /\ obj \in ObjType(config.size) /\ config.size \in Nat
      /\ obj.futx \in [Futex -> {0, 1}] /\ obj.slots \in [0 .. config.size -> Nat]
      /\ obj.last \in 0 .. config.size
      /\ pushed \in Seq(Nat) /\ popped \in Seq(Nat) /\ Len(pushed) \in Nat
      /\ config' = config
  <2>1. config' = config
    BY DEF PushWait, PopWait
  <2>2. /\ obj \in ObjType(config.size) /\ TypeOfThreads(thread) /\ config.size \in Nat
        /\ pushed \in Seq(Nat) /\ popped \in Seq(Nat) /\ Len(pushed) \in Nat
    BY DEF Types, IsWorkload
  <2> QED
    BY <2>1, <2>2 DEF ObjType
<1>2. /\ thread[t].pc \in {"call", "woken"} /\ thread[t].todo # <<>>
      /\ \/ thread[t].pc = "woken" /\ thread[t].on \in {"full", "empty"}
         \/ Calls(t, "push") \/ Calls(t, "pop")
  BY <1>1 DEF PushWait, PopWait, Calls, Idle, TypeOfThreads
<1>3. \/ QueueSleep(obj, obj', config.size) /\ pushed' = pushed /\ popped' = popped
      \/ PushStep \/ PopStep
  <2>1. CASE PushWait(t)
    <3>1. PICK f \in {0, 1} :
            \/ obj' = [obj EXCEPT !.futx["full"] = 0] /\ pushed' = pushed
            \/ /\ ~Full
               /\ obj' = [obj EXCEPT !.slots[obj.first] = Len(pushed),
                                     !.first = (@ + 1) % (config.size + 1), !.futx["empty"] = f]
               /\ pushed' = Append(pushed, Len(pushed))
      <4>1. PICK f \in {0, 1} : f = IF Empty THEN 1 ELSE obj.futx["empty"]
        BY <1>1 DEF Futex
      <4> QED
        BY <2>1, <4>1 DEF PushWait, QSize
    <3>2. popped' = popped
      BY <2>1 DEF PushWait
    <3>3. QueueSleep(obj, [obj EXCEPT !.futx["full"] = 0], config.size)
      BY <1>1, QueueFields
    <3>4. QueuePush(obj, [obj EXCEPT !.slots[obj.first] = Len(pushed),
                                     !.first = (@ + 1) % (config.size + 1), !.futx["empty"] = f],
                    config.size, Len(pushed))
      BY <1>1, QueueFields
    <3> QED
      BY <3>1, <3>2, <3>3, <3>4 DEF PushStep
  <2>2. CASE PopWait(t)
    <3>1. PICK f \in {0, 1} :
            \/ obj' = [obj EXCEPT !.futx["empty"] = 0] /\ popped' = popped
            \/ /\ ~Empty
               /\ obj' = [obj EXCEPT !.last = (@ + 1) % (config.size + 1), !.futx["full"] = f]
               /\ popped' = Append(popped, obj.slots[obj.last])
      <4>1. PICK f \in {0, 1} : f = IF Full THEN 1 ELSE obj.futx["full"]
        BY <1>1 DEF Futex
      <4> QED
        BY <2>2, <4>1 DEF PopWait, QSize
    <3>2. pushed' = pushed
      BY <2>2 DEF PopWait
    <3>3. QueueSleep(obj, [obj EXCEPT !.futx["empty"] = 0], config.size)
      BY <1>1, QueueFields
    <3>4. QueuePop(obj, [obj EXCEPT !.last = (@ + 1) % (config.size + 1), !.futx["full"] = f],
                   config.size)
      BY <1>1, QueueFields
    <3> QED
      BY <3>1, <3>2, <3>3, <3>4 DEF PopStep
  <2> QED
    BY <2>1, <2>2
<1>4. TypeOfThreads(thread') /\ Others(t) /\ thread'[t].pc \in Outside
  <2>1. \E f \in {"full", "empty"} :
          \/ thread' = ToSleep(thread, t, f)
          \/ \E W \in WakeOne(f) \cup {{}} : thread' = Returned(WakeUp(thread, W), t)
    <3>1. CASE PushWait(t)
      BY <3>1 DEF PushWait
    <3>2. CASE PopWait(t)
      BY <3>2 DEF PopWait
    <3> QED
      BY <3>1, <3>2
  <2>2. ASSUME NEW f \in {"full", "empty"}, thread' = ToSleep(thread, t, f)
        PROVE  TypeOfThreads(thread') /\ Others(t) /\ thread'[t].pc \in Outside
    <3>1. f \in Futex /\ thread[t].todo # <<>> /\ TypeOfThreads(thread)
      BY <1>1, <1>2 DEF Futex
    <3>2. /\ TypeOfThreads(thread') /\ Others(t)
          /\ thread'[t] = [todo |-> thread[t].todo, pc |-> "futex", on |-> f]
      BY <2>2, <3>1, ToSleptThreads
    <3> QED
      BY <3>2 DEF Outside
  <2>3. ASSUME NEW f \in {"full", "empty"}, NEW W \in WakeOne(f) \cup {{}},
               thread' = Returned(WakeUp(thread, W), t)
        PROVE  TypeOfThreads(thread') /\ Others(t) /\ thread'[t].pc \in Outside
    <3>1. \A u \in W : u \in Thread /\ thread[u].pc = "asleep"
      BY WakeSets
    <3>2. thread[t].pc # "asleep" /\ thread[t].todo # <<>> /\ TypeOfThreads(thread)
      BY <1>1, <1>2
    <3>3. /\ TypeOfThreads(thread') /\ Others(t)
          /\ thread'[t] = [todo |-> Tail(thread[t].todo), pc |-> "call", on |-> "none"]
      BY <2>3, <3>1, <3>2, ReturnedWake
    <3> QED
      BY <3>3 DEF Outside
  <2> QED
    BY <2>1, <2>2, <2>3
<1>5. obj' \in ObjType(config.size) /\ SameLocks
  BY <1>3 DEF QueueSleep, QueuePush, QueuePop, PushStep, PopStep, SameLocks
<1>6. pushed' \in Seq(Nat) /\ popped' \in Seq(Nat)
  <2>1. obj.slots[obj.last] \in Nat
    BY <1>1
  <2>2. \/ pushed' = pushed /\ popped' = popped
        \/ pushed' = Append(pushed, Len(pushed)) /\ popped' = popped
        \/ popped' = Append(popped, obj.slots[obj.last]) /\ pushed' = pushed
    BY <1>3 DEF PushStep, PopStep
  <2>3. Append(pushed, Len(pushed)) \in Seq(Nat) /\ Append(popped, obj.slots[obj.last]) \in Seq(Nat)
    BY <1>1, <2>1
  <2> QED
    BY <1>1, <2>2, <2>3
<1>7. Types'
  BY <1>1, <1>4, <1>5, <1>6 DEF Types
<1>8. SameRing \/ PushStep \/ PopStep
  BY <1>3 DEF QueueSleep, SameRing
<1> QED
  BY <1>1, <1>2, <1>4, <1>5, <1>7, <1>8 DEF Effect, Outside

BarrierFields(o, x, size) ==
    /\ x \in ObjType(size) /\ x.locks = o.locks
    /\ x.first = o.first /\ x.last = o.last /\ x.slots = o.slots

\* The effect that the actions on a barrier have in common.
BarrierEffect(t) ==
    /\ Effect(t) /\ SameLocks /\ SameRing
    /\ thread[t].pc \in Outside /\ thread'[t].pc \in Outside

LEMMA BarrierCommon ==
    ASSUME Types, NEW t \in Thread, BarrierFields(obj, obj', config.size),
           UNCHANGED <<config, pushed, popped>>, TypeOfThreads(thread'), Others(t),
           thread[t].pc \in Outside, thread'[t].pc \in Outside
    PROVE  BarrierEffect(t)
<1>1. Types'
  BY DEF Types, BarrierFields
<1> QED
  BY <1>1 DEF BarrierEffect, Effect, SameLocks, SameRing, BarrierFields

LEMMA ArriveEffect ==
    ASSUME Types, HostConstants, NEW t \in Thread, BarrierArrive(t)
    PROVE  /\ BarrierEffect(t) /\ thread[t].pc = "call" /\ thread[t].todo # <<>> /\ obj.leaving = 0
           /\ \A u \in Thread \ {t} : thread'[u] = thread[u]
           /\ \/ /\ obj.arrived + 1 = BarrierCount
                 /\ obj'.arrived = 0 /\ obj'.leaving = BarrierCount - 1 /\ obj'.futx = obj.futx
                 /\ thread'[t] = [todo |-> thread[t].todo, pc |-> "broadcast", on |-> thread[t].on]
              \/ /\ obj.arrived + 1 # BarrierCount
                 /\ obj'.arrived = obj.arrived + 1 /\ obj'.leaving = 0 /\ obj'.futx["cond"] = 0
                 /\ thread'[t] = [todo |-> thread[t].todo, pc |-> "futex", on |-> "cond"]
<1>1. /\ TypeOfThreads(thread) /\ obj \in ObjType(config.size)
      /\ obj.arrived \in Int /\ obj.leaving = 0
      /\ thread[t].pc = "call" /\ thread[t].todo # <<>> /\ thread[t].pc \in Outside
      /\ UNCHANGED <<config, pushed, popped>>
  BY DEF Types, ObjType, BarrierArrive, Calls, Idle, Outside
<1>2. BarrierCount - 1 \in Int /\ obj.arrived + 1 \in Int
  BY <1>1, FS_CardinalityType DEF HostConstants, BarrierCount
<1>3. CASE obj.arrived + 1 = BarrierCount
  <2>1. /\ obj' = [obj EXCEPT !.arrived = 0, !.leaving = BarrierCount - 1]
        /\ thread' = Goto(thread, t, "broadcast") /\ "broadcast" \in Locking \cup Outside
    BY <1>3 DEF BarrierArrive, Outside
  <2>2. /\ TypeOfThreads(thread') /\ Others(t)
        /\ thread'[t] = [todo |-> thread[t].todo, pc |-> "broadcast", on |-> thread[t].on]
        /\ \A u \in Thread \ {t} : thread'[u] = thread[u]
    BY <1>1, <2>1, WentThreads
  <2>3. /\ BarrierFields(obj, obj', config.size)
        /\ obj'.arrived = 0 /\ obj'.leaving = BarrierCount - 1 /\ obj'.futx = obj.futx
    <3>1. PICK l \in Int : l = BarrierCount - 1
      BY <1>2
    <3>2. 0 \in Int /\ obj \in ObjType(config.size) /\ obj' = [obj EXCEPT !.arrived = 0, !.leaving = l]
      BY <1>1, <2>1, <3>1
    <3> QED
      BY <3>1, <3>2 DEF ObjType, BarrierFields
  <2>4. BarrierEffect(t)
    BY <1>1, <2>2, <2>3, BarrierCommon DEF Outside
  <2> QED
    BY <1>1, <1>3, <2>2, <2>3, <2>4
<1>4. CASE obj.arrived + 1 # BarrierCount
  <2>1. /\ obj' = [obj EXCEPT !.arrived = obj.arrived + 1, !.futx["cond"] = 0]
        /\ thread' = ToSleep(thread, t, "cond") /\ "cond" \in Futex
    BY <1>4 DEF BarrierArrive, Futex
  <2>2. /\ TypeOfThreads(thread') /\ Others(t)
        /\ thread'[t] = [todo |-> thread[t].todo, pc |-> "futex", on |-> "cond"]
        /\ \A u \in Thread \ {t} : thread'[u] = thread[u]
    BY <1>1, <2>1, ToSleptThreads
  <2>3. /\ BarrierFields(obj, obj', config.size)
        /\ obj'.arrived = obj.arrived + 1 /\ obj'.leaving = obj.leaving /\ obj'.futx["cond"] = 0
    <3>1. PICK a \in Int : a = obj.arrived + 1
      BY <1>2
    <3>2. obj \in ObjType(config.size) /\ obj' = [obj EXCEPT !.arrived = a, !.futx["cond"] = 0]
      BY <1>1, <2>1, <3>1
    <3> QED
      BY <3>1, <3>2 DEF ObjType, BarrierFields, Futex
  <2>4. BarrierEffect(t)
    BY <1>1, <2>2, <2>3, BarrierCommon DEF Outside
  <2> QED
    BY <1>1, <1>4, <2>2, <2>3, <2>4
<1> QED
  BY <1>3, <1>4

LEMMA BroadcastEffect ==
    ASSUME Types, NEW t \in Thread, BarrierBroadcast(t)
    PROVE  /\ BarrierEffect(t) /\ thread[t].pc = "broadcast" /\ thread[t].todo # <<>>
           /\ obj'.futx["cond"] = 1 /\ obj'.arrived = obj.arrived /\ obj'.leaving = obj.leaving
           /\ thread'[t] = [todo |-> Tail(thread[t].todo), pc |-> "call", on |-> "none"]
           /\ \A u \in Sleepers("cond") : WokenUp(u)
<1>1. /\ TypeOfThreads(thread) /\ obj \in ObjType(config.size)
      /\ obj.arrived \in Int /\ obj.leaving \in Int
      /\ thread[t].pc = "broadcast" /\ thread[t].todo # <<>> /\ thread[t].pc \in Outside
      /\ obj' = [obj EXCEPT !.futx["cond"] = 1]
      /\ thread' = Returned(WakeUp(thread, Sleepers("cond")), t)
      /\ UNCHANGED <<config, pushed, popped>>
  BY DEF Types, ObjType, BarrierBroadcast, Outside, TypeOfThreads
<1>2. \A u \in Sleepers("cond") : u \in Thread /\ thread[u].pc = "asleep"
  BY DEF Sleepers
<1>3. /\ TypeOfThreads(thread') /\ Others(t)
      /\ thread'[t] = [todo |-> Tail(thread[t].todo), pc |-> "call", on |-> "none"]
      /\ \A u \in Sleepers("cond") : WokenUp(u)
  BY <1>1, <1>2, ReturnedWake
<1>4. /\ BarrierFields(obj, obj', config.size)
      /\ obj'.arrived = obj.arrived /\ obj'.leaving = obj.leaving /\ obj'.futx["cond"] = 1
  <2>1. obj \in ObjType(config.size) /\ obj' = [obj EXCEPT !.futx["cond"] = 1]
    BY <1>1
  <2> QED
    BY <2>1 DEF ObjType, BarrierFields, Futex
<1>5. BarrierEffect(t)
  BY <1>1, <1>3, <1>4, BarrierCommon DEF Outside
<1> QED
  BY <1>1, <1>3, <1>4, <1>5

LEMMA LeaveEffect ==
    ASSUME Types, NEW t \in Thread, BarrierLeave(t)
    PROVE  /\ BarrierEffect(t) /\ thread[t].pc = "woken" /\ thread[t].todo # <<>>
           /\ obj'.futx = obj.futx /\ obj'.arrived = obj.arrived /\ obj'.leaving = obj.leaving - 1
           /\ thread'[t] = [todo |-> Tail(thread[t].todo), pc |-> "call", on |-> "none"]
           /\ \A u \in Thread \ {t} : thread'[u] = thread[u]
<1>1. /\ TypeOfThreads(thread) /\ obj \in ObjType(config.size)
      /\ obj.arrived \in Int /\ obj.leaving - 1 \in Int
      /\ thread[t].pc = "woken" /\ thread[t].todo # <<>> /\ thread[t].pc \in Outside
      /\ obj' = [obj EXCEPT !.leaving = obj.leaving - 1]
      /\ thread' = Returned(thread, t)
      /\ UNCHANGED <<config, pushed, popped>>
  BY DEF Types, ObjType, BarrierLeave, Outside, TypeOfThreads
<1>2. /\ TypeOfThreads(thread') /\ Others(t)
      /\ thread'[t] = [todo |-> Tail(thread[t].todo), pc |-> "call", on |-> "none"]
      /\ \A u \in Thread \ {t} : thread'[u] = thread[u]
  BY <1>1, ReturnedAlone
<1>3. /\ BarrierFields(obj, obj', config.size) /\ obj'.futx = obj.futx
      /\ obj'.arrived = obj.arrived /\ obj'.leaving = obj.leaving - 1
  <2>1. PICK l \in Int : l = obj.leaving - 1
    BY <1>1
  <2>2. obj \in ObjType(config.size) /\ obj' = [obj EXCEPT !.leaving = l]
    BY <1>1, <2>1
  <2> QED
    BY <2>1, <2>2 DEF ObjType, BarrierFields
<1>4. BarrierEffect(t)
  BY <1>1, <1>2, <1>3, BarrierCommon DEF Outside
<1> QED
  BY <1>1, <1>2, <1>3, <1>4

-----------------------------------------------------------------------------
(* The set lock.                                                            *)

SameOther ==
    /\ obj' \in ObjType(config.size)
    /\ obj'.first = obj.first /\ obj'.last = obj.last /\ obj'.slots = obj.slots

LEMMA TakeMine ==
    ASSUME Types, HostConstants, NEW t \in Thread, NEW c, Take(t, c)
    PROVE  /\ SameOther
           /\ Mine(t)' = Mine(t) \cup ({c} \cap Sharers) /\ c \notin Mine(t)
           /\ \A u \in Thread \ {t} : Mine(u)' = Mine(u)
<1>1. /\ obj \in ObjType(config.size) /\ obj.locks[c] = NoThread
      /\ obj' = [obj EXCEPT !.locks = [obj.locks EXCEPT ![c] = t]]
      /\ obj.locks \in [Sharers -> Thread \cup {NoThread}]
  BY DEF Take, Types, ObjType
<1>2. [obj.locks EXCEPT ![c] = t] \in [Sharers -> Thread \cup {NoThread}]
  BY <1>1
<1>3. SameOther /\ obj'.locks = [obj.locks EXCEPT ![c] = t]
  BY <1>1, <1>2 DEF SameOther, ObjType
<1>4. NoThread # t /\ \A u \in Thread \ {t} : NoThread # u
  BY DEF HostConstants
<1>5. c \notin Mine(t)
  BY <1>1, <1>4 DEF Mine
<1>6. Mine(t)' = Mine(t) \cup ({c} \cap Sharers)
  BY <1>1, <1>3 DEF Mine, Sharers
<1>7. \A u \in Thread \ {t} : Mine(u)' = Mine(u)
  BY <1>1, <1>3, <1>4 DEF Mine, Sharers
<1> QED
  BY <1>3, <1>5, <1>6, <1>7

LEMMA GiveMine ==
    ASSUME Types, HostConstants, NEW t \in Thread, NEW C, C \subseteq Mine(t), Give(C)
    PROVE  /\ SameOther
           /\ Mine(t)' = Mine(t) \ C
           /\ \A u \in Thread \ {t} : Mine(u)' = Mine(u)
<1> DEFINE given == [c \in Sharers |-> IF c \in C THEN NoThread ELSE obj.locks[c]]
<1>1. /\ obj \in ObjType(config.size) /\ obj' = [obj EXCEPT !.locks = given]
      /\ obj.locks \in [Sharers -> Thread \cup {NoThread}]
  BY DEF Give, Types, ObjType
<1>2. given \in [Sharers -> Thread \cup {NoThread}]
  BY <1>1
<1>3. SameOther /\ obj'.locks = given
  <2> HIDE DEF given
  <2> QED
    BY <1>1, <1>2 DEF SameOther, ObjType
<1>4. \A u \in Thread : NoThread # u
  BY DEF HostConstants
<1>5. Mine(t)' = Mine(t) \ C
  BY <1>3, <1>4 DEF Mine, Sharers
<1>6. \A u \in Thread \ {t} : Mine(u)' = Mine(u)
  BY <1>3, <1>4 DEF Mine, Sharers
<1> QED
  BY <1>3, <1>5, <1>6

\* A step on the set lock by t alone keeps Owners when it holds for t's new position.
OwnerOf(pc, mine, t) ==
    /\ pc = "holds" => mine = {config.core[t]}
    /\ pc = "exclusive" => mine = Sharers
    /\ pc \in Outside => mine = {}
LockStep(t) == Effect(t) /\ SameRing /\ Owners' /\ (thread[t].pc \in Locking \/ Calls(t, "shared")
                  \/ Calls(t, "upgrade") \/ Calls(t, "exclusive"))

LEMMA OwnersOf == Owners <=> \A t \in Thread : OwnerOf(thread[t].pc, Mine(t), t)
  BY DEF Owners, OwnerOf

LEMMA LockStepDone ==
    ASSUME Types, Owners, NEW t \in Thread, SameOther, UNCHANGED <<config, pushed, popped>>,
           TypeOfThreads(thread'), \A u \in Thread \ {t} : thread'[u] = thread[u],
           \A u \in Thread \ {t} : Mine(u)' = Mine(u),
           OwnerOf(thread'[t].pc, Mine(t)', t),
           thread[t].pc \in Locking \/ Calls(t, "shared") \/ Calls(t, "upgrade")
              \/ Calls(t, "exclusive")
    PROVE  LockStep(t)
<1>1. Types'
  BY DEF Types, SameOther
<1>2. Effect(t) /\ SameRing
  BY <1>1 DEF Effect, Others, SameRing, SameOther
<1>3. \A u \in Thread : OwnerOf(thread'[u].pc, Mine(u)', u)
  <2>1. \A u \in Thread \ {t} : OwnerOf(thread[u].pc, Mine(u), u)
    BY OwnersOf
  <2> QED
    BY <2>1
<1>4. Owners'
  <2>1. config'.core = config.core
    OBVIOUS
  <2>2. \A u \in Thread :
          /\ thread'[u].pc = "holds" => Mine(u)' = {config.core[u]}
          /\ thread'[u].pc = "exclusive" => Mine(u)' = Sharers
          /\ thread'[u].pc \in Outside => Mine(u)' = {}
    BY <1>3 DEF OwnerOf
  <2> QED
    BY <2>1, <2>2 DEF Owners, Sharers, Outside
<1> QED
  BY <1>2, <1>4 DEF LockStep

LEMMA SetLockSteps ==
    ASSUME Types, HostConstants, Owners, NEW t \in Thread,
           \/ AcquireShared(t) \/ Upgrade(t) \/ AcquireExclusive(t)
           \/ Downgrade(t) \/ ReleaseShared(t) \/ ReleaseExclusive(t)
    PROVE  LockStep(t)
<1>1. /\ TypeOfThreads(thread) /\ OwnerOf(thread[t].pc, Mine(t), t)
      /\ config.core[t] \in Sharers
      /\ "holds" \in Locking \cup Outside /\ "locking" \in Locking \cup Outside
      /\ "exclusive" \in Locking \cup Outside /\ "releasing" \in Locking \cup Outside
  BY OwnersOf DEF Types, IsWorkload, Locking
<1>2. Idle(t) => thread[t].todo # <<>> /\ Mine(t) = {}
  BY <1>1 DEF Idle, OwnerOf, Outside
<1>3. thread[t].pc # "call" => thread[t].todo # <<>>
  BY <1>1 DEF TypeOfThreads
<1>4. CASE AcquireShared(t)
  <2>1. /\ Calls(t, "shared") \/ Calls(t, "upgrade")
        /\ Take(t, config.core[t]) /\ thread' = Goto(thread, t, "holds")
        /\ UNCHANGED <<config, pushed, popped>>
    BY <1>4 DEF AcquireShared
  <2>2. thread[t].todo # <<>> /\ Mine(t) = {}
    BY <1>2, <2>1 DEF Calls
  <2>3. /\ TypeOfThreads(thread') /\ \A u \in Thread \ {t} : thread'[u] = thread[u]
        /\ thread'[t] = [todo |-> thread[t].todo, pc |-> "holds", on |-> thread[t].on]
    BY <1>1, <2>1, <2>2, WentThreads
  <2>4. /\ SameOther /\ Mine(t)' = Mine(t) \cup ({config.core[t]} \cap Sharers)
        /\ \A u \in Thread \ {t} : Mine(u)' = Mine(u)
    BY <2>1, TakeMine
  <2>5. OwnerOf(thread'[t].pc, Mine(t)', t)
    BY <1>1, <2>2, <2>3, <2>4 DEF OwnerOf, Outside
  <2> QED
    BY <2>1, <2>3, <2>4, <2>5, LockStepDone
<1>5. CASE Upgrade(t)
  <2>1. /\ thread[t].pc = "holds" /\ Give({config.core[t]}) /\ thread' = Goto(thread, t, "locking")
        /\ UNCHANGED <<config, pushed, popped>>
    BY <1>5 DEF Upgrade
  <2>2. thread[t].todo # <<>> /\ Mine(t) = {config.core[t]} /\ thread[t].pc \in Locking
    BY <1>1, <1>3, <2>1 DEF OwnerOf, Locking
  <2>3. /\ TypeOfThreads(thread') /\ \A u \in Thread \ {t} : thread'[u] = thread[u]
        /\ thread'[t] = [todo |-> thread[t].todo, pc |-> "locking", on |-> thread[t].on]
    BY <1>1, <2>1, <2>2, WentThreads
  <2>4. /\ SameOther /\ \A u \in Thread \ {t} : Mine(u)' = Mine(u)
    BY <2>1, <2>2, GiveMine
  <2>5. OwnerOf(thread'[t].pc, Mine(t)', t)
    BY <2>3 DEF OwnerOf, Outside
  <2> QED
    BY <2>1, <2>2, <2>3, <2>4, <2>5, LockStepDone
<1>6. CASE AcquireExclusive(t)
  <2> DEFINE left == Sharers \ Mine(t)
             c == CHOOSE c \in left : \A d \in left : c <= d
             pc == IF left = {c} THEN "exclusive" ELSE "locking"
  <2>1. /\ Calls(t, "exclusive") \/ thread[t].pc = "locking"
        /\ Take(t, c) /\ thread' = Goto(thread, t, pc)
        /\ UNCHANGED <<config, pushed, popped>>
    BY <1>6 DEF AcquireExclusive, LockNext
  <2>2. thread[t].todo # <<>> /\ pc \in Locking \cup Outside
    BY <1>2, <1>3, <2>1 DEF Calls, Locking
  <2>3. (pc = "exclusive" => left = {c}) /\ pc \in {"exclusive", "locking"}
    OBVIOUS
  <2> HIDE DEF c, pc
  <2>4. /\ TypeOfThreads(thread') /\ \A u \in Thread \ {t} : thread'[u] = thread[u]
        /\ thread'[t] = [todo |-> thread[t].todo, pc |-> pc, on |-> thread[t].on]
    BY <1>1, <2>1, <2>2, WentThreads
  <2>5. /\ SameOther /\ Mine(t)' = Mine(t) \cup ({c} \cap Sharers)
        /\ \A u \in Thread \ {t} : Mine(u)' = Mine(u)
    BY <2>1, TakeMine
  <2>6. pc = "exclusive" => Mine(t)' = Sharers
    BY <2>3, <2>5 DEF Mine
  <2>7. OwnerOf(thread'[t].pc, Mine(t)', t)
    BY <2>3, <2>4, <2>6 DEF OwnerOf, Outside
  <2>8. thread[t].pc \in Locking \/ Calls(t, "exclusive")
    BY <2>1 DEF Locking
  <2> QED
    BY <2>1, <2>4, <2>5, <2>7, <2>8, LockStepDone
<1>7. CASE Downgrade(t)
  <2>1. /\ thread[t].pc = "exclusive" /\ Give(Sharers \ {config.core[t]})
        /\ thread' = [thread EXCEPT ![t] =
                [todo |-> <<"shared">> \o Tail(thread[t].todo), pc |-> "holds", on |-> thread[t].on]]
        /\ UNCHANGED <<config, pushed, popped>>
    BY <1>7 DEF Downgrade
  <2>2. thread[t].todo # <<>> /\ Mine(t) = Sharers /\ thread[t].pc \in Locking
    BY <1>1, <1>3, <2>1 DEF OwnerOf, Locking
  <2>3. /\ TypeOfThreads(thread') /\ \A u \in Thread \ {t} : thread'[u] = thread[u]
        /\ thread'[t] = [todo |-> <<"shared">> \o Tail(thread[t].todo), pc |-> "holds",
                         on |-> thread[t].on]
    <3>1. thread \in [Thread -> ThreadState] /\ thread[t].todo \in Seq(Call)
             /\ thread[t].on \in Futex \cup {"none"}
      BY <1>1 DEF TypeOfThreads, ThreadState
    <3>2. PICK todo : todo = <<"shared">> \o Tail(thread[t].todo)
      OBVIOUS
    <3>3. todo \in Seq(Call) /\ todo # <<>>
      <4>1. Tail(thread[t].todo) \in Seq(Call) /\ <<"shared">> \in Seq(Call)
        BY <2>2, <3>1 DEF Call
      <4>2. \A a, b \in Seq(Call) : a # <<>> => a \o b \in Seq(Call) /\ a \o b # <<>>
        OBVIOUS
      <4>3. <<"shared">> # <<>>
        OBVIOUS
      <4> QED
        BY <3>2, <4>1, <4>2, <4>3
    <3>4. [todo |-> todo, pc |-> "holds", on |-> thread[t].on] \in ThreadState
      BY <3>1, <3>3 DEF ThreadState, Locking
    <3> QED
      BY <1>1, <2>1, <3>1, <3>2, <3>3, <3>4 DEF TypeOfThreads
  <2>4. /\ SameOther /\ Mine(t)' = Mine(t) \ (Sharers \ {config.core[t]})
        /\ \A u \in Thread \ {t} : Mine(u)' = Mine(u)
    BY <2>1, <2>2, GiveMine
  <2>5. OwnerOf(thread'[t].pc, Mine(t)', t)
    BY <1>1, <2>2, <2>3, <2>4 DEF OwnerOf, Outside
  <2> QED
    BY <2>1, <2>2, <2>3, <2>4, <2>5, LockStepDone
<1>8. CASE ReleaseShared(t)
  <2>1. /\ thread[t].pc = "holds" /\ Give({config.core[t]}) /\ thread' = Returned(thread, t)
        /\ UNCHANGED <<config, pushed, popped>>
    BY <1>8 DEF ReleaseShared
  <2>2. thread[t].todo # <<>> /\ Mine(t) = {config.core[t]} /\ thread[t].pc \in Locking
    BY <1>1, <1>3, <2>1 DEF OwnerOf, Locking
  <2>3. /\ TypeOfThreads(thread') /\ \A u \in Thread \ {t} : thread'[u] = thread[u]
        /\ thread'[t] = [todo |-> Tail(thread[t].todo), pc |-> "call", on |-> "none"]
    BY <1>1, <2>1, <2>2, ReturnedAlone
  <2>4. /\ SameOther /\ Mine(t)' = Mine(t) \ {config.core[t]}
        /\ \A u \in Thread \ {t} : Mine(u)' = Mine(u)
    BY <2>1, <2>2, GiveMine
  <2>5. OwnerOf(thread'[t].pc, Mine(t)', t)
    BY <2>2, <2>3, <2>4 DEF OwnerOf
  <2> QED
    BY <2>1, <2>2, <2>3, <2>4, <2>5, LockStepDone
<1>9. CASE ReleaseExclusive(t)
  <2>1. PICK c \in Mine(t) :
          /\ Give({c})
          /\ thread' = IF Mine(t) = {c} THEN Returned(thread, t) ELSE Goto(thread, t, "releasing")
    BY <1>9 DEF ReleaseExclusive
  <2>2. /\ thread[t].pc \in Locking /\ thread[t].todo # <<>>
        /\ UNCHANGED <<config, pushed, popped>>
    BY <1>3, <1>9 DEF ReleaseExclusive, Locking
  <2>3. /\ SameOther /\ Mine(t)' = Mine(t) \ {c}
        /\ \A u \in Thread \ {t} : Mine(u)' = Mine(u)
    BY <2>1, GiveMine
  <2>4. CASE Mine(t) = {c}
    <3>1. thread' = Returned(thread, t)
      BY <2>1, <2>4
    <3>2. /\ TypeOfThreads(thread') /\ \A u \in Thread \ {t} : thread'[u] = thread[u]
          /\ thread'[t] = [todo |-> Tail(thread[t].todo), pc |-> "call", on |-> "none"]
      BY <1>1, <2>2, <3>1, ReturnedAlone
    <3>3. OwnerOf(thread'[t].pc, Mine(t)', t)
      BY <2>3, <2>4, <3>2 DEF OwnerOf
    <3> QED
      BY <2>2, <2>3, <3>2, <3>3, LockStepDone
  <2>5. CASE Mine(t) # {c}
    <3>1. thread' = Goto(thread, t, "releasing")
      BY <2>1, <2>5
    <3>2. /\ TypeOfThreads(thread') /\ \A u \in Thread \ {t} : thread'[u] = thread[u]
          /\ thread'[t] = [todo |-> thread[t].todo, pc |-> "releasing", on |-> thread[t].on]
      BY <1>1, <2>2, <3>1, WentThreads
    <3>3. OwnerOf(thread'[t].pc, Mine(t)', t)
      BY <3>2 DEF OwnerOf, Outside
    <3> QED
      BY <2>2, <2>3, <3>2, <3>3, LockStepDone
  <2> QED
    BY <2>4, <2>5
<1> QED
  BY <1>4, <1>5, <1>6, <1>7, <1>8, <1>9

LEMMA OwnersKept ==
    ASSUME Owners, NEW t \in Thread, Effect(t), SameLocks,
           thread[t].pc \in Outside, thread'[t].pc \in Outside
    PROVE  Owners'
<1>1. \A u \in Thread : Mine(u)' = Mine(u)
  BY DEF SameLocks, Mine, Sharers
<1>2. \A u \in Thread :
        \/ thread'[u].pc = thread[u].pc
        \/ thread[u].pc \in Outside /\ thread'[u].pc \in Outside
  <2>1. \A u \in Thread \ {t} : thread'[u] = thread[u] \/ WokenUp(u)
    BY DEF Effect, Others
  <2>2. \A u \in Thread : WokenUp(u) => thread[u].pc \in Outside /\ thread'[u].pc \in Outside
    BY DEF WokenUp, Outside
  <2> QED
    BY <2>1, <2>2
<1>3. config' = config
  BY DEF Effect
<1> QED
  BY <1>1, <1>2, <1>3 DEF Owners, Sharers, Outside

-----------------------------------------------------------------------------
(* The ring.                                                                *)

LEMMA ModUnique ==
    ASSUME NEW q \in Nat \ {0}, NEW r \in Nat, NEW k \in Nat, r < q
    PROVE  (k * q + r) % q = r
  OBVIOUS

LEMMA DivMod ==
    ASSUME NEW q \in Nat \ {0}, NEW a \in Nat
    PROVE  \E k \in Nat, r \in 0 .. q - 1 : a = k * q + r /\ a % q = r
<1>1. PICK r \in 0 .. q - 1 : r = a % q
  OBVIOUS
<1>2. PICK k \in Nat : k = a \div q
  OBVIOUS
<1>3. a = k * q + r
  BY <1>1, <1>2
<1> QED
  BY <1>1, <1>3

LEMMA ModSucc ==
    ASSUME NEW q \in Nat \ {0}, NEW a \in Nat
    PROVE  ((a % q) + 1) % q = (a + 1) % q
<1>1. PICK k \in Nat, r \in 0 .. q - 1 : a = k * q + r /\ a % q = r
  BY DivMod
<1>2. CASE r + 1 < q
  <2>1. (k * q + (r + 1)) % q = r + 1
    BY <1>2, ModUnique
  <2>2. (0 * q + (r + 1)) % q = r + 1
    BY <1>2, ModUnique
  <2>3. a + 1 = k * q + (r + 1) /\ r + 1 = 0 * q + (r + 1)
    BY <1>1
  <2> QED
    BY <1>1, <2>1, <2>2, <2>3
<1>3. CASE r + 1 = q
  <2>1. ((k + 1) * q + 0) % q = 0
    BY ModUnique
  <2>2. (1 * q + 0) % q = 0
    BY ModUnique
  <2>3. a + 1 = (k + 1) * q + 0 /\ r + 1 = 1 * q + 0
    BY <1>1, <1>3
  <2> QED
    BY <1>1, <2>1, <2>2, <2>3
<1> QED
  BY <1>2, <1>3

LEMMA ModPlus ==
    ASSUME NEW q \in Nat \ {0}, NEW a \in Nat
    PROVE  (a + q) % q = a % q
<1>1. PICK k \in Nat, r \in 0 .. q - 1 : a = k * q + r /\ a % q = r
  BY DivMod
<1>2. ((k + 1) * q + r) % q = r
  BY ModUnique
<1>3. a + q = (k + 1) * q + r
  BY <1>1
<1> QED
  BY <1>1, <1>2, <1>3

LEMMA ModDistinct ==
    ASSUME NEW q \in Nat \ {0}, NEW a \in Nat, NEW b \in Nat, a < b, b - a < q
    PROVE  a % q # b % q
<1>1. PICK k \in Nat, r \in 0 .. q - 1 : a = k * q + r /\ a % q = r
  BY DivMod
<1>2. PICK d \in Nat : b = a + d /\ 0 < d /\ d < q
  BY SMT
<1>3. CASE r + d < q
  <2>1. (k * q + (r + d)) % q = r + d
    BY <1>2, <1>3, ModUnique
  <2> QED
    BY <1>1, <1>2, <2>1
<1>4. CASE r + d >= q
  <2>1. PICK s \in Nat : s = r + d - q
    BY <1>4, <1>2, <1>1
  <2>2. ((k + 1) * q + s) % q = s
    <3>1. k + 1 \in Nat /\ s < q
      BY <1>1, <1>2, <2>1
    <3> QED
      BY <3>1, ModUnique
  <2>3. b = (k + 1) * q + s
    BY <1>1, <1>2, <2>1
  <2> QED
    BY <1>1, <1>2, <2>1, <2>2, <2>3
<1> QED
  BY <1>1, <1>2, <1>3, <1>4

LEMMA RingPush ==
    ASSUME Types, Ring, config' = config, PushStep
    PROVE  Ring'
<1> DEFINE q == config.size + 1
           P == Len(pushed)
           O == Len(popped)
<1>1. /\ config.size \in Nat /\ q \in Nat \ {0} /\ P \in Nat /\ O \in Nat
      /\ pushed \in Seq(Nat) /\ popped \in Seq(Nat)
      /\ obj.slots \in [0 .. config.size -> Nat]
  <2>1. /\ config.size \in Nat /\ pushed \in Seq(Nat) /\ popped \in Seq(Nat)
        /\ obj \in ObjType(config.size)
    BY DEF Types, IsWorkload
  <2>2. obj.slots \in [0 .. config.size -> Nat]
    BY <2>1 DEF ObjType
  <2> QED
    BY <2>1, <2>2
<1>2. /\ obj.first = P % q /\ obj.last = O % q /\ O <= P /\ P - O <= config.size
      /\ \A i \in 1 .. P : pushed[i] = i - 1
      /\ \A n \in Nat : O <= n /\ n < P => obj.slots[n % q] = n
  BY DEF Ring, QSize
<1>3. /\ obj'.first = (obj.first + 1) % q /\ obj'.last = obj.last
      /\ obj'.slots = [obj.slots EXCEPT ![obj.first] = P]
      /\ pushed' = Append(pushed, P) /\ popped' = popped
      /\ (obj.first + 1) % q # obj.last
  BY DEF PushStep, QueuePush, Full, QSize
<1>4. Len(pushed') = P + 1 /\ \A i \in 1 .. P + 1 : pushed'[i] = i - 1
  <2>1. Len(pushed') = P + 1 /\ pushed'[P + 1] = P /\ \A i \in 1 .. P : pushed'[i] = pushed[i]
    BY <1>1, <1>3
  <2> HIDE DEF q, P, O
  <2>2. \A i \in 1 .. P + 1 : i \in 1 .. P \/ i = P + 1
    BY <1>1
  <2>3. P \in Nat /\ \A i \in 1 .. P : pushed[i] = i - 1
    BY <1>1, <1>2
  <2> QED
    BY <2>1, <2>2, <2>3
<1> HIDE DEF q, P, O
<1>5. obj'.first = (P + 1) % q
  BY <1>1, <1>2, <1>3, ModSucc
<1>6. P - O < config.size
  <2> SUFFICES ASSUME ~(P - O < config.size)
               PROVE  FALSE
    OBVIOUS
  <2>1. P - O = config.size
    <3>1. O <= P /\ P - O <= config.size /\ ~(P - O < config.size)
      BY <1>2
    <3>2. P \in Nat /\ O \in Nat /\ config.size \in Nat
      BY <1>1
    <3> QED
      BY <3>1, <3>2
  <2>2. P + 1 = O + q
    BY <1>1, <2>1 DEF q
  <2>3. (P + 1) % q = O % q
    BY <1>1, <2>2, ModPlus
  <2> QED
    BY <1>2, <1>3, <1>5, <2>3
<1>7. \A n \in Nat : O <= n /\ n < P + 1 => obj'.slots[n % q] = n
  <2> SUFFICES ASSUME NEW n \in Nat, O <= n, n < P + 1
               PROVE  obj'.slots[n % q] = n
    OBVIOUS
  <2>1. n % q \in 0 .. config.size
    BY <1>1, ModRange DEF q
  <2>2. CASE n = P
    BY <1>1, <1>2, <1>3, <2>1, <2>2
  <2>3. CASE n < P
    <3>1. n % q # P % q
      <4>1. P - n < q
        BY <1>1, <1>2 DEF q
      <4> QED
        BY <1>1, <2>3, <4>1, ModDistinct
    <3>2. obj.slots[n % q] = n
      BY <1>2, <2>3
    <3> QED
      BY <1>1, <1>2, <1>3, <2>1, <3>1, <3>2
  <2> QED
    BY <1>1, <2>2, <2>3
<1>8. O <= P + 1 /\ P + 1 - O <= config.size
  BY <1>1, <1>2, <1>6
<1>9. Len(popped) = O /\ \A i \in 1 .. O : popped[i] = i - 1
  BY DEF Ring, O
<1>10. QSize = q /\ QSize' = q
  BY DEF QSize, q
<1> QED
  BY <1>2, <1>3, <1>4, <1>5, <1>7, <1>8, <1>9, <1>10 DEF Ring

LEMMA RingPop ==
    ASSUME Types, Ring, config' = config, PopStep
    PROVE  Ring'
<1> DEFINE q == config.size + 1
           P == Len(pushed)
           O == Len(popped)
<1>1. /\ config.size \in Nat /\ q \in Nat \ {0} /\ P \in Nat /\ O \in Nat
      /\ pushed \in Seq(Nat) /\ popped \in Seq(Nat)
  BY DEF Types, IsWorkload, ObjType
<1>2. /\ obj.first = P % q /\ obj.last = O % q /\ O <= P /\ P - O <= config.size
      /\ \A i \in 1 .. O : popped[i] = i - 1
      /\ \A n \in Nat : O <= n /\ n < P => obj.slots[n % q] = n
  BY DEF Ring, QSize
<1>3. /\ obj'.first = obj.first /\ obj'.last = (obj.last + 1) % q /\ obj'.slots = obj.slots
      /\ popped' = Append(popped, obj.slots[obj.last]) /\ pushed' = pushed
      /\ obj.first # obj.last
  BY DEF PopStep, QueuePop, Empty
<1>4. O < P
  BY <1>1, <1>2, <1>3
<1>5. obj.slots[obj.last] = O
  <2> HIDE DEF q, P, O
  <2>1. O \in Nat /\ O <= O /\ O < P
    BY <1>1, <1>4
  <2> QED
    BY <1>2, <2>1
<1>6. Len(popped') = O + 1 /\ \A i \in 1 .. O + 1 : popped'[i] = i - 1
  <2>1. Len(popped') = O + 1 /\ popped'[O + 1] = O /\ \A i \in 1 .. O : popped'[i] = popped[i]
    BY <1>1, <1>3, <1>5
  <2> HIDE DEF q, P, O
  <2>2. \A i \in 1 .. O + 1 : i \in 1 .. O \/ i = O + 1
    BY <1>1
  <2> QED
    BY <1>1, <1>2, <2>1, <2>2
<1> HIDE DEF q, P, O
<1>7. obj'.last = (O + 1) % q
  BY <1>1, <1>2, <1>3, ModSucc
<1>8. O + 1 <= P /\ P - (O + 1) <= config.size
  BY <1>1, <1>2, <1>4
<1>9. Len(pushed) = P /\ \A i \in 1 .. P : pushed[i] = i - 1
  BY DEF Ring, P
<1>10. QSize = q /\ QSize' = q
  BY DEF QSize, q
<1>11. \A n \in Nat : O + 1 <= n /\ n < P => obj'.slots[n % q] = n
  BY <1>1, <1>2, <1>3
<1> QED
  BY <1>2, <1>3, <1>6, <1>7, <1>8, <1>9, <1>10, <1>11 DEF Ring

LEMMA RingKept ==
    ASSUME Ring, config' = config, SameRing
    PROVE  Ring'
  BY DEF Ring, SameRing, QSize

-----------------------------------------------------------------------------
(* The barrier.                                                             *)

LEMMA WaitsOnly ==
    ASSUME Types, Rounds, config.kind = "barrier", NEW t \in Thread
    PROVE  /\ thread[t].pc \in Outside
           /\ thread[t].pc = "woken" => thread[t].on = "cond"
           /\ \A op : Calls(t, op) => op = "wait"
<1>1. Waiter(thread[t])
  BY DEF Rounds
<1>2. \A op : Calls(t, op) => op = "wait"
  <2> SUFFICES ASSUME NEW op, Calls(t, op)
               PROVE  op = "wait"
    OBVIOUS
  <2>1. thread[t].todo \in Seq({"wait"}) /\ thread[t].todo # <<>> /\ Head(thread[t].todo) = op
    BY <1>1 DEF Waiter, Calls, Idle
  <2> QED
    BY <2>1
<1>3. PICK n \in Nat : Gathering(n) \/ Releasing(n) \/ Leaving(n)
  BY DEF Rounds
<1>4. thread[t].pc \in Outside
  BY <1>3 DEF Gathering, Releasing, Leaving, Outside
<1> QED
  BY <1>1, <1>2, <1>4 DEF Waiter

LEMMA WaiterCalls ==
    ASSUME NEW s, Waiter(s), s.todo # <<>>
    PROVE  /\ Waiter([todo |-> Tail(s.todo), pc |-> "call", on |-> "none"])
           /\ Waiter([todo |-> s.todo, pc |-> "futex", on |-> "cond"])
           /\ Waiter([todo |-> s.todo, pc |-> "broadcast", on |-> s.on])
           /\ s.on = "cond" => \A pc : Waiter([todo |-> s.todo, pc |-> pc, on |-> s.on])
           /\ Len(Tail(s.todo)) = Len(s.todo) - 1
<1>1. Tail(s.todo) \in Seq({"wait"}) /\ s.todo \in Seq({"wait"})
  BY DEF Waiter
<1>2. Len(Tail(s.todo)) = Len(s.todo) - 1
  BY <1>1
<1> QED
  BY <1>1, <1>2 DEF Waiter

LEMMA WaitersKept ==
    ASSUME Rounds, config.kind = "barrier", NEW t \in Thread, Others(t), Waiter(thread'[t])
    PROVE  \A u \in Thread : Waiter(thread'[u])
<1>1. \A u \in Thread : Waiter(thread[u])
  BY DEF Rounds
<1>2. \A u \in Thread : WokenUp(u) => Waiter(thread'[u])
  BY <1>1 DEF Waiter, WokenUp
<1> QED
  BY <1>1, <1>2 DEF Others

LEMMA LeftOf ==
    ASSUME Types, config' = config, NEW u \in Thread
    PROVE  /\ Left(u) = Len(config.prog[u]) - Len(thread[u].todo) /\ Left(u) \in Int
           /\ Left(u)' = Len(config.prog[u]) - Len(thread'[u].todo)
           /\ thread'[u].todo = thread[u].todo => Left(u)' = Left(u)
           /\ thread[u].todo # <<>> /\ thread'[u].todo = Tail(thread[u].todo) => Left(u)' = Left(u) + 1
<1>1. Len(config.prog[u]) \in Nat /\ Len(thread[u].todo) \in Nat /\ thread[u].todo \in Seq(Call)
  BY DEF Types, IsWorkload, TypeOfThreads, ThreadState
<1>2. thread[u].todo # <<>> => Len(Tail(thread[u].todo)) = Len(thread[u].todo) - 1
  BY <1>1
<1>3. /\ Left(u) = Len(config.prog[u]) - Len(thread[u].todo)
      /\ Left(u)' = Len(config.prog[u]) - Len(thread'[u].todo)
  BY DEF Left
<1>4. thread[u].todo # <<>> /\ thread'[u].todo = Tail(thread[u].todo) => Left(u)' = Left(u) + 1
  <2> SUFFICES ASSUME thread[u].todo # <<>>, thread'[u].todo = Tail(thread[u].todo)
               PROVE  Left(u)' = Left(u) + 1
    OBVIOUS
  <2>1. Len(thread'[u].todo) = Len(thread[u].todo) - 1
    BY <1>2
  <2>2. \A a, b \in Nat : a - (b - 1) = (a - b) + 1
    OBVIOUS
  <2>3. Left(u)' = Len(config.prog[u]) - (Len(thread[u].todo) - 1)
    BY <1>3, <2>1
  <2> QED
    BY <1>1, <1>3, <2>2, <2>3
<1>5. thread'[u].todo = thread[u].todo => Left(u)' = Left(u)
  BY DEF Left
<1>6. Left(u) \in Int
  BY <1>1 DEF Left
<1> QED
  BY <1>3, <1>4, <1>5, <1>6

LEMMA FutexRound ==
    ASSUME Types, HostConstants, Rounds, config.kind = "barrier", NEW t \in Thread,
           FutexWait(t) \/ Interrupt(t)
    PROVE  Rounds'
<1>1. ~Interrupt(t)
  BY DEF Interrupt, Types, IsWorkload
<1>2. /\ Effect(t) /\ obj' = obj /\ thread[t].pc = "futex"
      /\ \A u \in Thread \ {t} : thread'[u] = thread[u]
      /\ \E pc \in {"asleep", "woken"} :
            /\ thread'[t] = [todo |-> thread[t].todo, pc |-> pc, on |-> thread[t].on]
            /\ pc = "asleep" => obj.futx[thread[t].on] = 0
            /\ pc = "woken" => obj.futx[thread[t].on] # 0
  <2>1. thread[t].pc = "futex"
    BY <1>1 DEF FutexWait
  <2> QED
    BY <2>1, FutexWaitEffect
<1>3. Waiter(thread[t]) /\ thread[t].on = "cond" /\ thread[t].todo # <<>>
  BY <1>2 DEF Rounds, Waiter, Types, TypeOfThreads
<1>4. PICK pc \in {"asleep", "woken"} :
            /\ thread'[t] = [todo |-> thread[t].todo, pc |-> pc, on |-> thread[t].on]
            /\ pc = "asleep" => obj.futx["cond"] = 0
            /\ pc = "woken" => obj.futx["cond"] # 0
  BY <1>2, <1>3
<1>5. \A u \in Thread : Waiter(thread'[u])
  BY <1>2, <1>3, <1>4, WaiterCalls, WaitersKept DEF Effect
<1>6. /\ config' = config
      /\ \A u \in Thread \ {t} : thread'[u] = thread[u]
  BY <1>2 DEF Effect
<1>7. \A u \in Thread : Left(u)' = Left(u)
  <2>1. \A u \in Thread : thread'[u].todo = thread[u].todo
    BY <1>4, <1>6
  <2> QED
    BY <1>6, <2>1, LeftOf
<1>8. Waiting' = Waiting /\ t \in Waiting
  BY <1>2, <1>4, <1>6 DEF Waiting
<1>9. PICK n \in Nat : Gathering(n) \/ Releasing(n) \/ Leaving(n)
  BY DEF Rounds
<1>10. CASE Gathering(n)
  <2>1. pc = "asleep"
    BY <1>4, <1>8, <1>10 DEF Gathering
  <2>2. Gathering(n)'
    BY <1>2, <1>4, <1>6, <1>7, <1>8, <1>10, <2>1 DEF Gathering
  <2> QED
    BY <1>5, <1>6, <2>2 DEF Rounds
<1>11. CASE Releasing(n)
  <2>1. PICK b \in Thread :
          /\ thread[b].pc = "broadcast"
          /\ \A u \in Thread \ {b} : thread[u].pc \in {"futex", "asleep"} /\ obj.futx["cond"] = 0
    BY <1>11 DEF Releasing
  <2>2. t # b /\ pc = "asleep"
    BY <1>2, <1>4, <2>1
  <2>3. /\ thread'[b].pc = "broadcast"
        /\ \A u \in Thread \ {b} : thread'[u].pc \in {"futex", "asleep"} /\ obj'.futx["cond"] = 0
    BY <1>2, <1>4, <1>6, <2>1, <2>2
  <2>4. Releasing(n)'
    BY <1>2, <1>7, <1>11, <2>3 DEF Releasing, BarrierCount
  <2> QED
    BY <1>5, <1>6, <2>4 DEF Rounds
<1>12. CASE Leaving(n)
  <2>1. pc = "woken"
    BY <1>4, <1>12 DEF Leaving
  <2>2. Leaving(n)'
    BY <1>2, <1>4, <1>6, <1>7, <1>8, <1>12, <2>1 DEF Leaving
  <2> QED
    BY <1>5, <1>6, <2>2 DEF Rounds
<1> QED
  BY <1>9, <1>10, <1>11, <1>12

LEMMA WaitingCount ==
    ASSUME HostConstants
    PROVE  /\ IsFiniteSet(Waiting) /\ Cardinality(Waiting) \in Nat
           /\ Waiting \subseteq Thread /\ BarrierCount \in Nat
           /\ Waiting = {} <=> Cardinality(Waiting) = 0
           /\ \A t \in Thread \ Waiting : Cardinality(Waiting \cup {t}) = Cardinality(Waiting) + 1
           /\ \A t \in Waiting : Cardinality(Waiting \ {t}) = Cardinality(Waiting) - 1
           /\ \A t \in Thread : Cardinality(Thread \ {t}) = BarrierCount - 1
           /\ \A t \in Thread : Cardinality(Waiting \cup {t}) = BarrierCount => Waiting \cup {t} = Thread
<1>1. Waiting \subseteq Thread /\ IsFiniteSet(Thread)
  BY DEF Waiting, HostConstants
<1>2. IsFiniteSet(Waiting)
  BY <1>1, FS_Subset
<1>3. \A t \in Thread : IsFiniteSet(Waiting \cup {t})
  BY <1>2, FS_AddElement
<1>4. \A t \in Thread : Cardinality(Waiting \cup {t}) = Cardinality(Thread) => Waiting \cup {t} = Thread
  BY <1>1, FS_Subset
<1> QED
  BY <1>1, <1>2, <1>4, FS_CardinalityType, FS_EmptySet, FS_AddElement, FS_RemoveElement
     DEF BarrierCount

LEMMA ArriveRound ==
    ASSUME Types, HostConstants, Rounds, config.kind = "barrier", NEW t \in Thread, BarrierArrive(t)
    PROVE  Rounds'
<1>1. /\ Effect(t) /\ thread[t].pc = "call" /\ thread[t].todo # <<>> /\ obj.leaving = 0
      /\ \A u \in Thread \ {t} : thread'[u] = thread[u]
      /\ \/ /\ obj.arrived + 1 = BarrierCount
            /\ obj'.arrived = 0 /\ obj'.leaving = BarrierCount - 1 /\ obj'.futx = obj.futx
            /\ thread'[t] = [todo |-> thread[t].todo, pc |-> "broadcast", on |-> thread[t].on]
         \/ /\ obj.arrived + 1 # BarrierCount
            /\ obj'.arrived = obj.arrived + 1 /\ obj'.leaving = 0 /\ obj'.futx["cond"] = 0
            /\ thread'[t] = [todo |-> thread[t].todo, pc |-> "futex", on |-> "cond"]
  BY ArriveEffect DEF BarrierEffect
<1>2. config' = config
  BY <1>1 DEF Effect
<1>3. \A u \in Thread : Waiter(thread'[u])
  <2>1. Waiter(thread[t])
    BY DEF Rounds
  <2>2. Waiter(thread'[t])
    BY <1>1, <2>1, WaiterCalls
  <2> QED
    BY <1>1, <2>2, WaitersKept DEF Effect
<1>4. \A u \in Thread : Left(u)' = Left(u)
  <2>1. \A u \in Thread : thread'[u].todo = thread[u].todo
    BY <1>1
  <2> QED
    BY <1>2, <2>1, LeftOf
<1>5. t \notin Waiting /\ Waiting' = Waiting \cup {t}
  BY <1>1 DEF Waiting
<1>6. /\ Cardinality(Waiting) \in Nat /\ BarrierCount \in Nat
      /\ Cardinality(Waiting \cup {t}) = Cardinality(Waiting) + 1
      /\ Cardinality(Waiting \cup {t}) = BarrierCount => Waiting \cup {t} = Thread
      /\ Waiting = {} <=> Cardinality(Waiting) = 0
  BY <1>5, WaitingCount
<1>7. PICK n \in Nat : Gathering(n)
  <2>1. PICK n \in Nat : Gathering(n) \/ Releasing(n) \/ Leaving(n)
    BY DEF Rounds
  <2>2. ~Releasing(n)
    BY <1>1 DEF Releasing
  <2>3. ~Leaving(n)
    BY <1>1, <1>6 DEF Leaving
  <2> QED
    BY <2>1, <2>2, <2>3
<1>8. CASE obj.arrived + 1 = BarrierCount
  <2>1. Waiting \cup {t} = Thread
    BY <1>6, <1>7, <1>8 DEF Gathering
  <2>2. \A u \in Thread \ {t} : thread'[u].pc \in {"futex", "asleep"} /\ obj'.futx["cond"] = 0
    BY <1>1, <1>7, <1>8, <2>1 DEF Gathering, Waiting
  <2>3. Releasing(n)'
    BY <1>1, <1>4, <1>7, <1>8, <2>2 DEF Releasing, BarrierCount, Gathering
  <2> QED
    BY <1>2, <1>3, <2>3 DEF Rounds
<1>9. CASE obj.arrived + 1 # BarrierCount
  <2>1. Waiting' # Thread /\ obj'.arrived = Cardinality(Waiting')
    BY <1>1, <1>5, <1>6, <1>7, <1>9 DEF Gathering, BarrierCount
  <2>2. Gathering(n)'
    BY <1>1, <1>4, <1>7, <1>9, <2>1 DEF Gathering
  <2> QED
    BY <1>2, <1>3, <2>2 DEF Rounds
<1> QED
  BY <1>8, <1>9

LEMMA BroadcastRound ==
    ASSUME Types, HostConstants, Rounds, config.kind = "barrier", NEW t \in Thread, BarrierBroadcast(t)
    PROVE  Rounds'
<1>1. /\ Effect(t) /\ thread[t].pc = "broadcast" /\ thread[t].todo # <<>>
      /\ obj'.futx["cond"] = 1 /\ obj'.arrived = obj.arrived /\ obj'.leaving = obj.leaving
      /\ thread'[t] = [todo |-> Tail(thread[t].todo), pc |-> "call", on |-> "none"]
      /\ \A u \in Sleepers("cond") : WokenUp(u)
  BY BroadcastEffect DEF BarrierEffect
<1>2. config' = config
  BY <1>1 DEF Effect
<1>3. \A u \in Thread : Waiter(thread'[u])
  <2>1. Waiter(thread[t])
    BY DEF Rounds
  <2>2. Waiter(thread'[t])
    BY <1>1, <2>1, WaiterCalls
  <2> QED
    BY <1>1, <2>2, WaitersKept DEF Effect
<1>4. \A u \in Thread \ {t} : thread'[u].todo = thread[u].todo
  <2>1. \A u \in Thread \ {t} : thread'[u] = thread[u] \/ WokenUp(u)
    BY <1>1 DEF Effect, Others
  <2>2. \A u \in Thread : WokenUp(u) => thread'[u].todo = thread[u].todo
    BY DEF WokenUp
  <2> QED
    BY <2>1, <2>2
<1>5. PICK n \in Nat : Releasing(n)
  <2>1. PICK n \in Nat : Gathering(n) \/ Releasing(n) \/ Leaving(n)
    BY DEF Rounds
  <2>2. ~Gathering(n) /\ ~Leaving(n)
    BY <1>1 DEF Gathering, Leaving
  <2> QED
    BY <2>1, <2>2
<1>6. /\ obj.leaving = BarrierCount - 1 /\ obj.arrived = 0 /\ \A u \in Thread : Left(u) = n
      /\ \A u \in Thread \ {t} : thread[u].pc \in {"futex", "asleep"}
  BY <1>1, <1>5 DEF Releasing
<1>7. \A u \in Thread \ {t} : thread'[u].pc \in {"futex", "woken"}
  <2> SUFFICES ASSUME NEW u \in Thread \ {t}
               PROVE  thread'[u].pc \in {"futex", "woken"}
    OBVIOUS
  <2>1. thread'[u] = thread[u] \/ WokenUp(u)
    BY <1>1 DEF Effect, Others
  <2>2. thread[u].pc = "asleep" => u \in Sleepers("cond")
    BY DEF Rounds, Waiter, Sleepers
  <2>3. WokenUp(u) => thread'[u].pc = "woken"
    BY DEF WokenUp
  <2> QED
    BY <1>1, <1>6, <2>1, <2>2, <2>3
<1>8. /\ Left(t)' = n + 1 /\ \A u \in Thread \ {t} : Left(u)' = n
  <2>1. thread'[t].todo = Tail(thread[t].todo)
    BY <1>1
  <2>2. Left(t)' = Left(t) + 1
    BY <1>1, <1>2, <2>1, LeftOf
  <2>3. \A u \in Thread \ {t} : Left(u)' = Left(u)
    BY <1>2, <1>4, LeftOf
  <2> QED
    BY <1>6, <2>2, <2>3
<1>9. Waiting' = Thread \ {t}
  BY <1>1, <1>7 DEF Waiting
<1>10. Cardinality(Waiting') = BarrierCount - 1 /\ BarrierCount \in Nat
  BY <1>9, WaitingCount
<1>11. CASE Thread \ {t} = {}
  <2>1. n + 1 \in Nat /\ obj'.leaving = 0
    <3>1. Cardinality(Waiting') = 0
      BY <1>9, <1>11, FS_EmptySet
    <3> QED
      BY <1>1, <1>6, <1>10, <3>1
  <2>2. Gathering(n + 1)'
    BY <1>1, <1>6, <1>8, <1>9, <1>10, <1>11, <2>1 DEF Gathering
  <2> QED
    BY <1>2, <1>3, <2>1, <2>2 DEF Rounds
<1>12. CASE Thread \ {t} # {}
  <2>1. Leaving(n)'
    BY <1>1, <1>6, <1>7, <1>8, <1>9, <1>10, <1>12 DEF Leaving
  <2> QED
    BY <1>2, <1>3, <2>1 DEF Rounds
<1> QED
  BY <1>11, <1>12

LEMMA LeaveRound ==
    ASSUME Types, HostConstants, Rounds, config.kind = "barrier", NEW t \in Thread, BarrierLeave(t)
    PROVE  Rounds'
<1>1. /\ Effect(t) /\ thread[t].pc = "woken" /\ thread[t].todo # <<>>
      /\ obj'.futx = obj.futx /\ obj'.arrived = obj.arrived /\ obj'.leaving = obj.leaving - 1
      /\ thread'[t] = [todo |-> Tail(thread[t].todo), pc |-> "call", on |-> "none"]
      /\ \A u \in Thread \ {t} : thread'[u] = thread[u]
  BY LeaveEffect DEF BarrierEffect
<1>2. config' = config
  BY <1>1 DEF Effect
<1>3. \A u \in Thread : Waiter(thread'[u])
  <2>1. Waiter(thread[t])
    BY DEF Rounds
  <2>2. Waiter(thread'[t])
    BY <1>1, <2>1, WaiterCalls
  <2> QED
    BY <1>1, <2>2, WaitersKept DEF Effect
<1>4. PICK n \in Nat : Leaving(n)
  <2>1. PICK n \in Nat : Gathering(n) \/ Releasing(n) \/ Leaving(n)
    BY DEF Rounds
  <2>2. ~Gathering(n) /\ ~Releasing(n)
    BY <1>1 DEF Gathering, Releasing
  <2> QED
    BY <2>1, <2>2
<1>5. /\ obj.leaving = Cardinality(Waiting) /\ obj.arrived = 0 /\ obj.futx["cond"] = 1
      /\ Left(t) = n
      /\ \A u \in Thread :
            \/ thread[u].pc = "call" /\ Left(u) = n + 1
            \/ thread[u].pc \in {"futex", "woken"} /\ Left(u) = n
  BY <1>1, <1>4 DEF Leaving
<1>6. Left(t)' = n + 1 /\ \A u \in Thread \ {t} : Left(u)' = Left(u)
  <2>1. thread'[t].todo = Tail(thread[t].todo)
    BY <1>1
  <2>2. \A u \in Thread \ {t} : thread'[u].todo = thread[u].todo
    BY <1>1
  <2>3. Left(t)' = Left(t) + 1
    BY <1>1, <1>2, <2>1, LeftOf
  <2>4. \A u \in Thread \ {t} : Left(u)' = Left(u)
    BY <1>2, <2>2, LeftOf
  <2> QED
    BY <1>5, <2>3, <2>4
<1>7. t \in Waiting /\ Waiting' = Waiting \ {t}
  BY <1>1 DEF Waiting
<1>8. obj'.leaving = Cardinality(Waiting')
  BY <1>1, <1>5, <1>7, WaitingCount
<1>9. CASE Waiting \ {t} = {}
  <2>1. n + 1 \in Nat /\ obj'.leaving = 0 /\ Cardinality(Waiting') = 0 /\ Waiting' # Thread
    BY <1>7, <1>8, <1>9, FS_EmptySet
  <2>2. \A u \in Thread : thread'[u].pc = "call" /\ Left(u)' = n + 1
    BY <1>1, <1>5, <1>6, <1>9 DEF Waiting
  <2>3. Gathering(n + 1)'
    BY <1>1, <1>5, <1>7, <1>9, <2>1, <2>2 DEF Gathering
  <2> QED
    BY <1>2, <1>3, <2>1, <2>3 DEF Rounds
<1>10. CASE Waiting \ {t} # {}
  <2>1. Leaving(n)'
    BY <1>1, <1>5, <1>6, <1>7, <1>8, <1>10 DEF Leaving
  <2> QED
    BY <1>2, <1>3, <2>1 DEF Rounds
<1> QED
  BY <1>9, <1>10

-----------------------------------------------------------------------------
(* Inv holds at the start, every step keeps it, and it implies what the     *)
(* objects promise.                                                         *)

LEMMA InvStarts ==
    ASSUME HostConstants, Init
    PROVE  Inv
<1>1. /\ IsWorkload(config) /\ config.kind \in Kind /\ config.size \in Nat
      /\ config.prog \in [Thread -> Seq(CallsOf[config.kind])]
      /\ IsFiniteSet(Thread) /\ NoThread \notin Thread
  BY DEF HostConstants, Init, IsWorkload
<1>2. /\ thread = [t \in Thread |-> [todo |-> config.prog[t], pc |-> "call", on |-> "none"]]
      /\ obj = [futx |-> [f \in Futex |-> 0], count |-> 0, numWaiting |-> 0,
                first |-> 0, last |-> 0, slots |-> [i \in 0 .. config.size |-> 0],
                arrived |-> 0, leaving |-> 0, locks |-> [c \in Sharers |-> NoThread]]
      /\ pushed = <<>> /\ popped = <<>>
  BY DEF Init
<1>3. Types
  <2>1. CallsOf[config.kind] \subseteq Call
    BY <1>1 DEF CallsOf, Call, Kind
  <2>2. \A t \in Thread : config.prog[t] \in Seq(Call)
    <3>1. \A s \in Seq(CallsOf[config.kind]) : s \in Seq(Call)
      BY <2>1
    <3> QED
      BY <1>1, <3>1
  <2>3. \A t \in Thread : [todo |-> config.prog[t], pc |-> "call", on |-> "none"] \in ThreadState
    BY <2>2 DEF ThreadState, Outside
  <2>4. TypeOfThreads(thread)
    BY <1>2, <2>3 DEF TypeOfThreads
  <2>5. obj \in ObjType(config.size)
    BY <1>1, <1>2 DEF ObjType, Futex
  <2>6. pushed \in Seq(Nat) /\ popped \in Seq(Nat)
    BY <1>2
  <2> QED
    BY <1>1, <2>4, <2>5, <2>6 DEF Types
<1>4. Owners
  <2>1. \A t \in Thread : thread[t].pc = "call" /\ Mine(t) = {}
    BY <1>1, <1>2 DEF Mine
  <2> QED
    BY <2>1 DEF Owners
<1>5. Ring
  <2>1. QSize \in Nat \ {0} /\ Len(pushed) = 0 /\ Len(popped) = 0
    BY <1>1, <1>2 DEF QSize
  <2>2. 0 % QSize = 0
    BY <2>1
  <2> QED
    BY <1>1, <1>2, <2>1, <2>2 DEF Ring
<1>6. ASSUME config.kind = "barrier"
      PROVE  /\ \A t \in Thread : Waiter(thread[t])
             /\ \E n \in Nat : Gathering(n) \/ Releasing(n) \/ Leaving(n)
  <2>1. \A t \in Thread : config.prog[t] \in Seq({"wait"}) /\ Len(config.prog[t]) \in Nat
    BY <1>1, <1>6 DEF CallsOf
  <2>2. \A t \in Thread : /\ thread[t].todo = config.prog[t] /\ thread[t].pc = "call"
                          /\ Waiter(thread[t])
    BY <1>2, <2>1 DEF Waiter
  <2>3. Waiting = {} /\ Cardinality(Waiting) = 0
    BY <2>2, FS_EmptySet DEF Waiting
  <2>4. \A t \in Thread : Left(t) = 0
    BY <2>1, <2>2 DEF Left
  <2>5. Gathering(0)
    BY <1>2, <2>2, <2>3, <2>4 DEF Gathering, HostConstants
  <2> QED
    BY <2>2, <2>5
<1> QED
  BY <1>3, <1>4, <1>5, <1>6 DEF Inv, Rounds

LEMMA InvSteps ==
    ASSUME HostConstants, Inv, [Next]_vars
    PROVE  Inv'
<1>1. Types /\ Owners /\ Ring /\ Rounds
  BY DEF Inv
<1>2. ASSUME NEW t \in Thread, FutexWait(t) \/ Interrupt(t)
      PROVE  Inv'
  <2>1. /\ Effect(t) /\ SameLocks /\ SameRing /\ thread[t].pc \in {"futex", "asleep"}
        /\ thread'[t].pc \in {"asleep", "woken"}
    <3>1. /\ Effect(t) /\ SameLocks /\ SameRing /\ thread[t].pc \in {"futex", "asleep"}
          /\ \E pc \in {"asleep", "woken"} :
                thread'[t] = [todo |-> thread[t].todo, pc |-> pc, on |-> thread[t].on]
      BY <1>1, <1>2, FutexWaitEffect
    <3> QED
      BY <3>1
  <2>2. thread[t].pc \in Outside /\ thread'[t].pc \in Outside
    BY <2>1 DEF Outside
  <2>3. Owners'
    BY <1>1, <2>1, <2>2, OwnersKept
  <2>4. Ring' /\ Types' /\ config' = config
    BY <1>1, <2>1, RingKept DEF Effect
  <2>5. Rounds'
    BY <1>1, <1>2, <2>4, FutexRound DEF Rounds
  <2> QED
    BY <2>3, <2>4, <2>5 DEF Inv
<1>3. ASSUME NEW t \in Thread, SemaphoreWait(t) \/ SemaphoreSignal(t)
      PROVE  Inv'
  <2>1. /\ Effect(t) /\ SameLocks /\ SameRing
        /\ thread[t].pc \in Outside /\ thread'[t].pc \in Outside
        /\ config.kind = "barrier" =>
              \/ thread[t].pc = "woken" /\ thread[t].on = "sem"
              \/ Calls(t, "signal") \/ Calls(t, "broadcast")
    BY <1>1, <1>3, SemaphoreEffect
  <2>2. Owners'
    BY <1>1, <2>1, OwnersKept
  <2>3. Ring' /\ Types' /\ config' = config
    BY <1>1, <2>1, RingKept DEF Effect
  <2>4. config.kind # "barrier"
    BY <1>1, <2>1, WaitsOnly
  <2> QED
    BY <2>2, <2>3, <2>4 DEF Inv, Rounds
<1>4. ASSUME NEW t \in Thread, PushWait(t) \/ PopWait(t)
      PROVE  Inv'
  <2>1. /\ Effect(t) /\ SameLocks /\ thread[t].pc \in Outside /\ thread'[t].pc \in Outside
        /\ SameRing \/ PushStep \/ PopStep
        /\ \/ thread[t].pc = "woken" /\ thread[t].on \in {"full", "empty"}
           \/ Calls(t, "push") \/ Calls(t, "pop")
    BY <1>1, <1>4, QueueEffect
  <2>2. Owners'
    BY <1>1, <2>1, OwnersKept
  <2>3. Types' /\ config' = config
    BY <2>1 DEF Effect
  <2>4. Ring'
    BY <1>1, <2>1, <2>3, RingKept, RingPush, RingPop
  <2>5. config.kind # "barrier"
    BY <1>1, <2>1, WaitsOnly
  <2> QED
    BY <2>2, <2>3, <2>4, <2>5 DEF Inv, Rounds
<1>5. ASSUME NEW t \in Thread, BarrierArrive(t) \/ BarrierBroadcast(t) \/ BarrierLeave(t)
      PROVE  Inv'
  <2>1. BarrierEffect(t)
    BY <1>1, <1>5, ArriveEffect, BroadcastEffect, LeaveEffect
  <2>2. Owners'
    BY <1>1, <2>1, OwnersKept DEF BarrierEffect
  <2>3. Ring' /\ Types' /\ config' = config
    BY <1>1, <2>1, RingKept DEF BarrierEffect, Effect
  <2>4. Rounds'
    BY <1>1, <1>5, <2>3, ArriveRound, BroadcastRound, LeaveRound DEF Rounds
  <2> QED
    BY <2>2, <2>3, <2>4 DEF Inv
<1>6. ASSUME NEW t \in Thread,
             \/ AcquireShared(t) \/ Upgrade(t) \/ AcquireExclusive(t)
             \/ Downgrade(t) \/ ReleaseShared(t) \/ ReleaseExclusive(t)
      PROVE  Inv'
  <2>1. LockStep(t)
    BY <1>1, <1>6, SetLockSteps
  <2>2. Ring' /\ Types' /\ Owners' /\ config' = config
    BY <1>1, <2>1, RingKept DEF LockStep, Effect
  <2>3. config.kind # "barrier"
    <3>1. config.kind = "barrier" => thread[t].pc \in Outside /\ \A op : Calls(t, op) => op = "wait"
      BY <1>1, WaitsOnly
    <3>2. \/ thread[t].pc \in Locking \/ Calls(t, "shared") \/ Calls(t, "upgrade")
          \/ Calls(t, "exclusive")
      BY <2>1 DEF LockStep
    <3> QED
      BY <3>1, <3>2 DEF Locking, Outside
  <2> QED
    BY <2>2, <2>3 DEF Inv, Rounds
<1>7. CASE UNCHANGED vars
  <2>1. config' = config /\ thread' = thread /\ obj' = obj /\ pushed' = pushed /\ popped' = popped
    BY <1>7 DEF vars
  <2>2. Types' /\ Ring'
    BY <1>1, <2>1 DEF Types, Ring, QSize
  <2>3. Owners'
    BY <1>1, <2>1 DEF Owners, Mine, Sharers, Outside
  <2>4. Rounds'
    <3>1. Waiting' = Waiting /\ \A t \in Thread : Left(t)' = Left(t)
      BY <2>1 DEF Waiting, Left
    <3>2. \A n \in Nat : Gathering(n) => Gathering(n)'
      BY <2>1, <3>1 DEF Gathering
    <3>3. \A n \in Nat : Releasing(n) => Releasing(n)'
      BY <2>1, <3>1 DEF Releasing, BarrierCount
    <3>4. \A n \in Nat : Leaving(n) => Leaving(n)'
      BY <2>1, <3>1 DEF Leaving
    <3> QED
      BY <1>1, <2>1, <3>2, <3>3, <3>4 DEF Rounds
  <2> QED
    BY <2>2, <2>3, <2>4 DEF Inv
<1> QED
  BY <1>2, <1>3, <1>4, <1>5, <1>6, <1>7 DEF Next, Step

LEMMA InvIsSafe ==
    ASSUME HostConstants, Inv
    PROVE  ExclusiveIsAlone /\ QueueIsFifo /\ BarrierLeavesTogether
<1>1. Types /\ Owners /\ Ring /\ Rounds
  BY DEF Inv
<1>2. ExclusiveIsAlone
  <2> SUFFICES ASSUME NEW t \in Thread, NEW u \in Thread, t # u, thread[t].pc = "exclusive",
                      thread[u].pc \in {"holds", "exclusive"}
               PROVE  FALSE
    BY DEF ExclusiveIsAlone
  <2>1. config.core[u] \in Sharers
    BY <1>1 DEF Types, IsWorkload
  <2>2. Mine(t) = Sharers /\ config.core[u] \in Mine(u)
    BY <1>1, <2>1 DEF Owners
  <2>3. obj.locks[config.core[u]] = t /\ obj.locks[config.core[u]] = u
    BY <2>1, <2>2 DEF Mine
  <2> QED
    BY <2>3
<1>3. QueueIsFifo
  <2>1. Len(pushed) \in Nat /\ Len(popped) \in Nat /\ DOMAIN popped = 1 .. Len(popped)
    BY <1>1 DEF Types
  <2>2. /\ Len(popped) <= Len(pushed) /\ Len(pushed) - Len(popped) <= config.size
        /\ \A i \in 1 .. Len(pushed) : pushed[i] = i - 1
        /\ \A i \in 1 .. Len(popped) : popped[i] = i - 1
    BY <1>1 DEF Ring
  <2>3. \A i \in 1 .. Len(popped) : i \in 1 .. Len(pushed)
    BY <2>1, <2>2
  <2> QED
    BY <2>1, <2>2, <2>3 DEF QueueIsFifo
<1>4. BarrierLeavesTogether
  <2> SUFFICES ASSUME config.kind = "barrier", NEW t \in Thread, NEW u \in Thread
               PROVE  Left(t) <= Arrived(u)
    BY DEF BarrierLeavesTogether
  <2>1. PICK n \in Nat : Gathering(n) \/ Releasing(n) \/ Leaving(n)
    BY <1>1 DEF Rounds
  <2>2. CASE Gathering(n) \/ Releasing(n)
    <3>1. Left(t) = n /\ Left(u) = n
      BY <2>2 DEF Gathering, Releasing
    <3> QED
      BY <3>1 DEF Arrived
  <2>3. CASE Leaving(n)
    <3>1. Left(t) \in {n, n + 1} /\ \/ thread[u].pc = "call" /\ Left(u) = n + 1
                                    \/ thread[u].pc # "call" /\ Left(u) = n
      BY <2>3 DEF Leaving
    <3> QED
      BY <3>1 DEF Arrived
  <2> QED
    BY <2>1, <2>2, <2>3
<1> QED
  BY <1>2, <1>3, <1>4
=============================================================================
