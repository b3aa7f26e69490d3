--------------------------- MODULE SamplingProofs ---------------------------
(***************************************************************************)
(* Sampling measures what it claims to, for any number of cores, lengths    *)
(* of the intervals, costs of instructions and orders in which threads      *)
(* sleep, wake and reach the barrier.                                       *)
(***************************************************************************)
EXTENDS Sampling, FiniteSetTheorems, WellFoundedInduction, TLAPS

\* The part of a core's state that the properties depend on.
IsCore(k) ==
    /\ "elapsed" \in DOMAIN k /\ "since" \in DOMAIN k /\ "callback" \in DOMAIN k
    /\ "cpi" \in DOMAIN k /\ "clock" \in DOMAIN k /\ "sync" \in DOMAIN k /\ "state" \in DOMAIN k
    /\ "late" \in DOMAIN k /\ k.late \in Nat
    /\ k.elapsed \in Nat /\ k.cpi \in Nat /\ k.clock \in Nat
    /\ k.callback \in Int \cup {Never} /\ k.state \in {"run", "wait", "sleep"}
    /\ "forwarded" \in DOMAIN k.since /\ k.since.forwarded \in Int
IsBarrier(b) ==
    /\ "ff" \in DOMAIN b /\ "next" \in DOMAIN b /\ "global" \in DOMAIN b /\ "releasing" \in DOMAIN b
    /\ b.ff \in BOOLEAN /\ b.releasing \in BOOLEAN /\ b.next \in Nat /\ b.global \in Nat
IsSampler(x) ==
    /\ "ff" \in DOMAIN x /\ "detailedSync" \in DOMAIN x /\ "target" \in DOMAIN x /\ "last" \in DOMAIN x
    /\ "ffLeft" \in DOMAIN x /\ "warmupLeft" \in DOMAIN x /\ "detailedLeft" \in DOMAIN x
    /\ "history" \in DOMAIN x /\ "planned" \in DOMAIN x /\ "failed" \in DOMAIN x
    /\ x.ff \in BOOLEAN /\ x.detailedSync \in BOOLEAN /\ x.failed \in BOOLEAN
    /\ x.target \in Nat /\ x.last \in Nat /\ x.ffLeft \in Nat /\ x.warmupLeft \in Nat
    /\ x.detailedLeft \in Nat /\ x.planned \in Nat
AreCores(cs) == DOMAIN cs = Core /\ \A c \in Core : IsCore(cs[c])
Typed == set \in Setting /\ AreCores(core) /\ IsBarrier(bar) /\ IsSampler(smp)

\* A core is called before it passes the target by more than one instruction and its delays.
Called(k, target) ==
    /\ k.callback # Never
    /\ k.elapsed + k.callback * k.cpi <= Larger(target, k.elapsed) + k.cpi + k.late
AllCalled(cs, target) == \A c \in Core : cs[c].state # "wait" => Called(cs[c], target)

\* A core that waits came to the barrier at its own time; the others have not reached it.
Placed(k, next) == IF k.state = "wait" THEN k.clock = k.elapsed ELSE k.clock < next
\* While barrierRelease runs, everybody waits or sleeps, and somebody waits.
OnlyWaiters(cs, b) ==
    b.releasing => /\ \E c \in Core : cs[c].state = "wait"
                   /\ \A c \in Core : cs[c].state # "run"
                   /\ b.ff => \A c \in Core : cs[c].state = "wait" => cs[c].elapsed <= b.next
AtBarrier(cs, b) == (\A c \in Core : Placed(cs[c], b.next)) /\ OnlyWaiters(cs, b)
Measured(p, cs, ff) == ~ff /\ ~p.uncoordinated => \A c \in Core : cs[c].since.forwarded = 0

\* What is left of a cycle, and the barriers of a detailed warm-up.
Cycle(p, x) ==
    IF x.ff THEN x.planned + x.ffLeft + x.warmupLeft = p.fastforward + p.warmup
    ELSE x.planned \in {0, p.fastforward + p.warmup}
Warmup(p, x, next) == ~x.ff /\ x.detailedLeft > 0 => next <= x.last + p.detailedWarmup + p.quantum

\* The assertion of callbackDetailed holds if a barrier fits after the warm-up.
Unfailed(p, x) == p.detailedWarmup + p.quantum <= p.detailed => ~x.failed

Sampled ==
    ~set.manager =>
        AtBarrier(core, bar) /\ Measured(set, core, smp.ff) /\ Cycle(set, smp) /\ Warmup(set, smp, bar.next)
Inv ==
    /\ Typed /\ bar.ff = smp.ff
    /\ smp.ff => AllCalled(core, LastTarget)
    /\ Unfailed(set, smp) /\ Sampled

-----------------------------------------------------------------------------
(* The operators.                                                           *)

\* The latest of finitely many times exists.
LEMMA MaxOver ==
    ASSUME NEW f \in [Core -> Nat], NEW a \in Nat, NEW C \in SUBSET Core
    PROVE  LET S == {a} \cup {f[c] : c \in C} IN Max(S) \in S /\ \A y \in S : y <= Max(S)
<1> DEFINE Of(T) == {a} \cup {f[c] : c \in T}
           Bounded(T) == \E m \in Of(T) : \A y \in Of(T) : y <= m
           Bad == {Cardinality(T) : T \in {U \in SUBSET Core : ~Bounded(U)}}
           R == OpToRel(<, Nat)
<1>1. \A T \in SUBSET Core : IsFiniteSet(T) /\ Cardinality(T) \in Nat
  BY SamplingAssumption, FS_Subset, FS_CardinalityType
<1>2. \A T \in SUBSET Core : Of(T) \subseteq Nat
  OBVIOUS
<1>3. Bad = {}
  <2> SUFFICES ASSUME Bad # {} PROVE FALSE
    OBVIOUS
  <2>1. Bad \subseteq Nat
    BY <1>1
  <2>2. IsWellFoundedOn(R, Nat)
    BY NatLessThanWellFounded
  <2> HIDE DEF R, Bad
  <2>3. PICK n \in Bad : \A m \in Bad : ~(<<m, n>> \in R)
    BY <2>1, <2>2, WFMin
  <2>4. \A m \in Bad : ~(m < n)
    BY <2>1, <2>3 DEF R, OpToRel
  <2>5. PICK T \in SUBSET Core : ~Bounded(T) /\ n = Cardinality(T)
    BY <2>3 DEF Bad
  <2>6. T # {}
    <3>1. Of({}) = {a} /\ a <= a
      OBVIOUS
    <3>2. Bounded({})
      BY <3>1
    <3> QED
      BY <2>5, <3>2
  <2>7. PICK c \in T : TRUE
    BY <2>6
  <2> DEFINE U == T \ {c}
  <2>8. U \in SUBSET Core /\ Cardinality(U) = n - 1
    BY <1>1, <2>5, <2>7, FS_RemoveElement
  <2>9. Bounded(U)
    <3>1. n \in Nat /\ n - 1 < n
      BY <2>1
    <3>2. Cardinality(U) \notin Bad
      BY <2>4, <2>8, <3>1
    <3> HIDE DEF Bounded, U
    <3> QED
      BY <2>8, <3>2 DEF Bad
  <2>10. PICK m \in Of(U) : \A y \in Of(U) : y <= m
    BY <2>9
  <2>11. Of(T) = Of(U) \cup {f[c]}
    BY <2>7
  <2>12. m \in Nat /\ f[c] \in Nat /\ Of(U) \subseteq Nat
    BY <1>2, <2>7, <2>8, <2>10
  <2> HIDE DEF Of, U
  <2>13. Bounded(T)
    <3>1. CASE f[c] <= m
      BY <2>10, <2>11, <3>1
    <3>2. CASE m < f[c]
      <4>1. \A y \in Of(T) : y <= f[c]
        BY <2>10, <2>11, <2>12, <3>2
      <4> QED
        BY <2>11, <4>1
    <3> QED
      BY <2>12, <3>1, <3>2
  <2> QED
    BY <2>5, <2>13
<1> HIDE DEF Bounded
<1>4. Bounded(C)
  BY <1>3
<1>5. Of(C) \subseteq Nat
  BY <1>2
<1>6. PICK m \in Of(C) : \A y \in Of(C) : y <= m
  BY <1>4 DEF Bounded
<1> HIDE DEF Of
<1>7. \A y \in Of(C) : m >= y
  BY <1>5, <1>6
<1>8. Max(Of(C)) \in Of(C) /\ \A y \in Of(C) : Max(Of(C)) >= y
  BY <1>6, <1>7 DEF Max
<1>9. \A y \in Of(C) : y <= Max(Of(C))
  BY <1>5, <1>8
<1> QED
  BY <1>8, <1>9 DEF Of

LEMMA LatestOf ==
    ASSUME AreCores(core), NEW C \in SUBSET Core
    PROVE  /\ Latest(C) \in Nat
           /\ \A c \in C : core[c].elapsed <= Latest(C)
           /\ \A n \in Nat : (\A c \in C : core[c].elapsed <= n) => Latest(C) <= n
<1> DEFINE f == [c \in Core |-> core[c].elapsed]
           S == {0} \cup {f[c] : c \in C}
<1>1. f \in [Core -> Nat]
  BY DEF AreCores, IsCore
<1>2. Max(S) \in S /\ \A y \in S : y <= Max(S)
  BY <1>1, MaxOver
<1>3. S = {0} \cup {core[c].elapsed : c \in C}
  OBVIOUS
<1>4. Latest(C) = Max(S)
  BY <1>3 DEF Latest
<1>0. S \subseteq Nat
  <2> HIDE DEF f
  <2> QED
    BY <1>1
<1> HIDE DEF S
<1>5. \A n \in Nat : (\A c \in C : core[c].elapsed <= n) => Latest(C) <= n
  BY <1>2, <1>3, <1>4
<1>6. \A c \in C : core[c].elapsed <= Latest(C)
  BY <1>2, <1>3, <1>4
<1>7. Latest(C) \in Nat
  BY <1>0, <1>2, <1>4
<1> QED
  BY <1>5, <1>6, <1>7

LEMMA LatestClock ==
    ASSUME NEW cs, AreCores(cs), NEW a \in Nat
    PROVE  LET m == Max({a} \cup {cs[c].clock : c \in Core})
           IN  m \in Nat /\ a <= m /\ \A c \in Core : cs[c].clock <= m
<1> DEFINE f == [c \in Core |-> cs[c].clock]
           S == {a} \cup {f[c] : c \in Core}
<1>1. f \in [Core -> Nat]
  BY DEF AreCores, IsCore
<1>2. Max(S) \in S /\ \A y \in S : y <= Max(S)
  BY <1>1, MaxOver
<1>3. S = {a} \cup {cs[c].clock : c \in Core}
  OBVIOUS
<1>4. Max(S) \in Nat
  BY <1>1, <1>2
<1> HIDE DEF S
<1> QED
  BY <1>2, <1>3, <1>4

\* What stays of a core when it is only put forward, called or resumed.
Alike(j, k) == /\ IsCore(j) /\ j.cpi = k.cpi /\ j.clock = k.clock /\ j.state = k.state
LEMMA AdvanceCore ==
    ASSUME NEW k, IsCore(k), NEW d \in Int, k.elapsed + d \in Nat, NEW busy, NEW forwarded \in Int
    PROVE  LET j == Advance(k, d, busy, forwarded)
           IN  /\ Alike(j, k) /\ j.elapsed = k.elapsed + d /\ j.callback = k.callback /\ j.late = k.late
               /\ ~set.manager => j.since.forwarded = k.since.forwarded + forwarded
               /\ set.manager => j.since = k.since
<1>1. CASE set.manager
  BY <1>1 DEF Advance, IsCore, Alike
<1>2. CASE ~set.manager
  BY <1>2 DEF Advance, IsCore, Alike
<1> QED
  BY <1>1, <1>2

LEMMA DivideBound ==
    ASSUME NEW a \in Nat, NEW b \in Nat, b > 0
    PROVE  DivideRounded(a, b) \in Int /\ DivideRounded(a, b) * b <= a + b
<1> DEFINE q == (2 * a + b) \div (2 * b)
<1>1. q \in Int /\ q * (2 * b) <= 2 * a + b
  OBVIOUS
<1> HIDE DEF q
<1>2. q * (2 * b) = 2 * (q * b) /\ q * b \in Int
  BY <1>1
<1>3. \A x \in Int : 2 * x <= 2 * a + b => x <= a + b
  OBVIOUS
<1>4. q * b <= a + b
  BY <1>1, <1>2, <1>3
<1> QED
  BY <1>1, <1>4 DEF DivideRounded, q

LEMMA RecalibrateCore ==
    ASSUME NEW k, IsCore(k), NEW target \in Nat
    PROVE  LET j == Recalibrate(k, target)
           IN  Alike(j, k) /\ j.elapsed = k.elapsed /\ j.since = k.since /\ Called(j, target)
<1> DEFINE n == InstructionsUntil(k, target)
           j == Recalibrate(k, target)
<1>1. k.elapsed \in Nat /\ k.cpi \in Nat /\ Never \notin Int
  BY SamplingAssumption DEF IsCore
<1>2. n \in Int /\ k.elapsed + n * k.cpi <= Larger(target, k.elapsed) + k.cpi
  <2>1. CASE k.elapsed > target
    <3>1. n = 1 /\ Larger(target, k.elapsed) = k.elapsed
      BY <1>1, <2>1 DEF InstructionsUntil, Larger
    <3> QED
      BY <1>1, <3>1
  <2>2. CASE ~(k.elapsed > target)
    <3> DEFINE b == Larger(k.cpi, 1)
               a == target - k.elapsed
    <3>1. b \in Nat /\ b > 0 /\ a \in Nat
      BY <1>1, <2>2 DEF Larger
    <3>2. n = DivideRounded(a, b)
      BY <2>2 DEF InstructionsUntil
    <3>3. n \in Int /\ n * b <= a + b
      BY <3>1, <3>2, DivideBound
    <3>4. Larger(target, k.elapsed) = target
      BY <1>1, <2>2 DEF Larger
    <3> HIDE DEF n
    <3>5. CASE k.cpi = 0
      BY <1>1, <2>2, <3>3, <3>4, <3>5
    <3>6. CASE k.cpi # 0
      <4>1. b = k.cpi
        BY <1>1, <3>6 DEF Larger
      <4>2. PICK x \in Int : x = n * k.cpi
        BY <1>1, <3>3
      <4>3. x <= (target - k.elapsed) + k.cpi
        BY <3>3, <4>1, <4>2
      <4>4. k.elapsed + x <= target + k.cpi
        BY <1>1, <4>3
      <4> QED
        BY <3>3, <3>4, <4>2, <4>4
    <3> QED
      BY <3>5, <3>6
  <2> QED
    BY <2>1, <2>2
<1> HIDE DEF n
<1>3. j = [k EXCEPT !.callback = n, !.late = 0]
  BY DEF Recalibrate, n
<1>4. j.callback = n /\ j.elapsed = k.elapsed /\ j.since = k.since /\ j.cpi = k.cpi /\ j.late = 0
  BY <1>3 DEF IsCore
<1>5. Alike(j, k)
  BY <1>2, <1>3 DEF IsCore, Alike
<1> HIDE DEF j
<1>6. Called(j, target)
  <2>1. PICK x \in Int : x = k.elapsed + n * k.cpi
    BY <1>1, <1>2
  <2>2. PICK y \in Int : y = Larger(target, k.elapsed)
    BY <1>1 DEF Larger
  <2>3. x <= y + k.cpi + 0
    BY <1>1, <1>2, <2>1, <2>2
  <2> QED
    BY <1>1, <1>2, <1>4, <2>1, <2>2, <2>3 DEF Called
<1> QED
  BY <1>4, <1>5, <1>6 DEF j

\* Who is called for one time is called for a later one.
LEMMA CalledLater ==
    ASSUME NEW k, IsCore(k), NEW t \in Nat, NEW u \in Nat, t <= u, Called(k, t)
    PROVE  Called(k, u)
<1>1. k.callback \in Int /\ k.cpi \in Nat /\ k.elapsed \in Nat /\ k.late \in Nat
  BY DEF IsCore, Called
<1>2. PICK x \in Int : x = k.elapsed + k.callback * k.cpi
  BY <1>1
<1>3. PICK y, z \in Int : y = Larger(t, k.elapsed) /\ z = Larger(u, k.elapsed) /\ y <= z
  BY <1>1 DEF Larger
<1>4. x <= y + k.cpi + k.late
  BY <1>2, <1>3 DEF Called
<1>5. x <= z + k.cpi + k.late
  BY <1>1, <1>3, <1>4
<1> QED
  BY <1>2, <1>3, <1>5 DEF Called

LEMMA AllCalledLater ==
    ASSUME NEW cs, AreCores(cs), NEW t \in Nat, NEW u \in Nat, t <= u, AllCalled(cs, t)
    PROVE  AllCalled(cs, u)
  BY CalledLater DEF AllCalled, AreCores

LEMMA LastTargetIsLast ==
    ASSUME set \in Setting, IsSampler(smp)
    PROVE  /\ LastTarget \in Nat /\ smp.target <= LastTarget
           /\ set.manager => LastTarget = smp.target
           /\ ~set.manager /\ set.aim # Never => set.aim \in Nat /\ set.aim <= LastTarget
<1>1. smp.target \in Nat /\ set.aim \in Nat \cup {Never}
  BY SamplingAssumption DEF IsSampler
<1>2. CASE set.manager \/ set.aim = Never
  BY <1>1, <1>2 DEF LastTarget
<1>3. CASE ~set.manager /\ set.aim # Never
  BY <1>1, <1>3 DEF LastTarget, Larger
<1> QED
  BY <1>2, <1>3

LEMMA OneIpcCore ==
    ASSUME NEW k, IsCore(k), NEW target \in Nat
    PROVE  LET j == OneIpc(k, target)
           IN  /\ IsCore(j) /\ j.state = k.state /\ j.clock = k.clock /\ j.since = k.since
               /\ Called(j, target)
<1> DEFINE i == IF k.elapsed > target THEN k ELSE [k EXCEPT !.cpi = 1]
<1>1. IsCore(i) /\ i.state = k.state /\ i.clock = k.clock /\ i.since = k.since
  BY DEF IsCore
<1>2. OneIpc(k, target) = Recalibrate(i, target)
  BY DEF OneIpc
<1> HIDE DEF i
<1> QED
  BY <1>1, <1>2, RecalibrateCore DEF Alike

-----------------------------------------------------------------------------
(* The barrier.                                                             *)

\* k goes on from the barrier as j.
Goes(j, k, time) ==
    /\ IsCore(j) /\ j.elapsed = k.elapsed /\ j.callback = k.callback /\ j.cpi = k.cpi
    /\ j.clock = k.clock /\ j.since = k.since /\ j.late = k.late
    /\ j.state = IF k.state = "wait" /\ k.clock < time THEN "run" ELSE k.state
LEMMA TurnEnds ==
    ASSUME set \in Setting, IsBarrier(bar), NEW cs, AreCores(cs), NEW ff \in BOOLEAN, NEW next \in Nat,
           EndOfTurn(cs, ff, next)
    PROVE  /\ AreCores(core') /\ IsBarrier(bar') /\ bar'.ff = ff /\ bar'.next = next + set.quantum
           /\ \A c \in Core : Goes(core'[c], cs[c], next + set.quantum)
           /\ bar'.releasing <=> ~\E c \in Core : cs[c].state = "wait" /\ cs[c].clock < next + set.quantum
<1> DEFINE time == next + set.quantum
<1>1. time \in Nat
  BY SamplingAssumption
<1>2. /\ core' = [c \in Core |-> Released(cs[c], time)]
      /\ bar' = [ff |-> ff, next |-> time, global |-> bar.next,
                 releasing |-> ~(\E c \in Core : cs[c].state = "wait" /\ cs[c].clock < time)]
  BY DEF EndOfTurn
<1> HIDE DEF time
<1>3. \A k : IsCore(k) => Goes(Released(k, time), k, time)
  BY DEF Goes, Released, IsCore
<1>4. \A c \in Core : Goes(core'[c], cs[c], time)
  BY <1>2, <1>3 DEF AreCores
<1>5. AreCores(core')
  BY <1>2, <1>4 DEF AreCores, Goes
<1>6. /\ bar'.ff = ff /\ bar'.next = time /\ IsBarrier(bar')
      /\ bar'.releasing <=> ~(\E c \in Core : cs[c].state = "wait" /\ cs[c].clock < time)
  BY <1>1, <1>2 DEF IsBarrier
<1> QED
  BY <1>4, <1>5, <1>6 DEF time

LEMMA TurnCalled ==
    ASSUME NEW cs, NEW time, \A c \in Core : Goes(core'[c], cs[c], time),
           NEW target, \A c \in Core : Called(cs[c], target)
    PROVE  AllCalled(core', target)
  BY DEF Goes, Called, AllCalled

\* Everybody who waits goes on.
LEMMA AllResume ==
    ASSUME set \in Setting, IsBarrier(bar), NEW cs, AreCores(cs), NEW ff \in BOOLEAN, NEW next \in Nat,
           EndOfTurn(cs, ff, next),
           \E c \in Core : cs[c].state = "wait", \A c \in Core : cs[c].clock <= next
    PROVE  AtBarrier(core', bar')
<1> DEFINE time == next + set.quantum
<1>1. set.quantum \in Nat /\ set.quantum > 0
  BY SamplingAssumption
<1>2. \A c \in Core : cs[c].clock \in Nat
  BY DEF AreCores, IsCore
<1>3. /\ \A c \in Core : Goes(core'[c], cs[c], time)
      /\ bar'.next = time
      /\ bar'.releasing <=> ~\E c \in Core : cs[c].state = "wait" /\ cs[c].clock < time
  BY TurnEnds
<1>4. \A c \in Core : cs[c].clock < time
  BY <1>1, <1>2
<1> HIDE DEF time
<1>5. ~bar'.releasing
  BY <1>3, <1>4
<1>6. \A c \in Core : Placed(core'[c], bar'.next)
  BY <1>3, <1>4 DEF Goes, Placed
<1> QED
  BY <1>5, <1>6 DEF AtBarrier, OnlyWaiters

\* barrierRelease goes round, in detailed mode.
LEMMA DetailedTurn ==
    ASSUME set \in Setting, IsBarrier(bar), AreCores(core), AtBarrier(core, bar), bar.releasing,
           NEW cs, AreCores(cs), bar.ff = FALSE, EndOfTurn(cs, bar.ff, bar.next),
           \A c \in Core : /\ cs[c].state = core[c].state /\ cs[c].clock = core[c].clock
                           /\ cs[c].elapsed = core[c].elapsed
    PROVE  AtBarrier(core', bar')
<1> DEFINE time == bar.next + set.quantum
<1>1. set.quantum \in Nat /\ set.quantum > 0 /\ bar.next \in Nat
  BY SamplingAssumption DEF IsBarrier
<1>2. \A c \in Core : cs[c].clock \in Nat
  BY DEF AreCores, IsCore
<1>3. /\ \A c \in Core : Goes(core'[c], cs[c], time)
      /\ bar'.next = time /\ bar'.ff = FALSE
      /\ bar'.releasing <=> ~\E c \in Core : cs[c].state = "wait" /\ cs[c].clock < time
  BY <1>1, TurnEnds
<1>4. time \in Nat /\ bar.next < time
  BY <1>1
<1> HIDE DEF time
<1>5. \A c \in Core : Placed(core'[c], bar'.next)
  <2> TAKE c \in Core
  <2>1. Goes(core'[c], cs[c], time) /\ Placed(core[c], bar.next)
    BY <1>3 DEF AtBarrier
  <2>2. cs[c].state # "wait" => cs[c].clock < time
    BY <1>1, <1>2, <1>4, <2>1 DEF Placed
  <2> QED
    BY <1>3, <2>1, <2>2 DEF Placed, Goes
<1>6. ASSUME bar'.releasing
      PROVE  (\E c \in Core : core'[c].state = "wait") /\ \A c \in Core : core'[c].state # "run"
  <2>1. \A c \in Core : core'[c].state = core[c].state
    BY <1>3, <1>6 DEF Goes
  <2> QED
    BY <2>1 DEF AtBarrier, OnlyWaiters
<1> QED
  BY <1>3, <1>5, <1>6 DEF AtBarrier, OnlyWaiters

LEMMA Starts ==
    ASSUME NEW cs, AreCores(cs), NEW b, IsBarrier(b)
    PROVE  LET d == StartRelease(cs, b)
           IN  /\ IsBarrier(d) /\ d.ff = b.ff /\ b.next <= d.next /\ (~b.ff => d.next = b.next)
               /\ d.releasing => b.releasing \/ IsBarrierReached(cs, b)
               /\ d.releasing /\ ~b.releasing /\ b.ff => \A c \in Core : cs[c].clock <= d.next
<1> DEFINE m == Max({b.next} \cup {cs[c].clock : c \in Core})
           d == StartRelease(cs, b)
<1>1. m \in Nat /\ b.next <= m /\ \A c \in Core : cs[c].clock <= m
  BY LatestClock DEF IsBarrier
<1>2. CASE ~IsBarrierReached(cs, b)
  BY <1>2 DEF StartRelease, IsBarrier
<1>3. CASE IsBarrierReached(cs, b) /\ b.ff
  <2>1. d = [b EXCEPT !.releasing = TRUE, !.next = m]
    BY <1>3 DEF StartRelease
  <2> HIDE DEF d, m
  <2>2. d.releasing = TRUE /\ d.next = m /\ d.ff = b.ff /\ IsBarrier(d)
    BY <1>1, <2>1 DEF IsBarrier
  <2> QED
    BY <1>1, <1>3, <2>2 DEF d
<1>4. CASE IsBarrierReached(cs, b) /\ ~b.ff
  <2>1. d = [b EXCEPT !.releasing = TRUE, !.next = b.next]
    BY <1>4 DEF StartRelease
  <2> HIDE DEF d, m
  <2>2. d.releasing = TRUE /\ d.next = b.next /\ d.ff = b.ff /\ IsBarrier(d)
    BY <1>1, <2>1 DEF IsBarrier
  <2>3. b.next <= b.next
    BY DEF IsBarrier
  <2> QED
    BY <1>4, <2>2, <2>3 DEF d
<1> QED
  BY <1>2, <1>3, <1>4

\* The barrier is reached by those who wait at it.
LEMMA ReachedByWaiters ==
    ASSUME NEW cs, AreCores(cs), NEW b, IsBarrier(b), ~b.releasing, \A c \in Core : Placed(cs[c], b.next)
    PROVE  AtBarrier(cs, StartRelease(cs, b))
<1> DEFINE d == StartRelease(cs, b)
<1>1. /\ IsBarrier(d) /\ d.ff = b.ff /\ b.next <= d.next /\ b.next \in Nat /\ d.next \in Nat
      /\ d.releasing => IsBarrierReached(cs, b)
      /\ d.releasing /\ b.ff => \A c \in Core : cs[c].clock <= d.next
  BY Starts DEF IsBarrier
<1> HIDE DEF d
<1>2. \A c \in Core : cs[c].clock \in Nat /\ cs[c].elapsed \in Nat /\ cs[c].state \in {"run", "wait", "sleep"}
  BY DEF AreCores, IsCore
<1>3. \A c \in Core : Placed(cs[c], d.next)
  BY <1>1, <1>2 DEF Placed
<1>4. ASSUME d.releasing
      PROVE  (\E c \in Core : cs[c].state = "wait") /\ \A c \in Core : cs[c].state # "run"
  <2>1. IsBarrierReached(cs, b)
    BY <1>1, <1>4
  <2>2. \A c \in Core : cs[c].state # "sleep" => cs[c].state = "wait"
    BY <1>1, <1>2, <2>1 DEF IsBarrierReached, IsRunning, Placed
  <2>3. \E c \in Core : cs[c].state # "sleep"
    BY <2>1 DEF IsBarrierReached, IsRunning
  <2> QED
    BY <1>2, <2>2, <2>3
<1>5. ASSUME d.releasing, d.ff
      PROVE  \A c \in Core : cs[c].state = "wait" => cs[c].elapsed <= d.next
  BY <1>1, <1>5 DEF Placed
<1> QED
  BY <1>3, <1>4, <1>5 DEF AtBarrier, OnlyWaiters, d

\* Thread c of cores cs comes to the barrier, or goes on, as j.
Comes(j, k, waits) ==
    /\ IsCore(j) /\ j.elapsed = k.elapsed /\ j.callback = k.callback /\ j.cpi = k.cpi /\ j.since = k.since
    /\ IF waits THEN j.state = "wait" /\ j.clock = k.elapsed ELSE j.state = k.state /\ j.clock = k.clock
LEMMA Synchronizes ==
    ASSUME set \in Setting, IsBarrier(bar), ~bar.releasing, NEW cs, AreCores(cs), NEW c \in Core, NEW ignoreTime \in BOOLEAN,
           Synchronize(cs, c, ignoreTime), cs[c].state = "run"
    PROVE  /\ AreCores(core') /\ IsBarrier(bar') /\ bar'.ff = bar.ff
           /\ ~bar.ff => bar'.next = bar.next
           /\ \A d \in Core \ {c} : core'[d] = cs[d]
           /\ Comes(core'[c], cs[c], core'[c].state = "wait")
           /\ ignoreTime /\ bar.ff => core'[c].state = "wait"
           /\ (\A d \in Core : Placed(cs[d], bar.next)) => AtBarrier(core', bar')
<1> DEFINE now == cs[c].elapsed
           due == now >= cs[c].sync \/ ignoreTime
           waits == due /\ (now >= bar.next \/ bar.ff)
           k == IF due THEN [cs[c] EXCEPT !.sync = (now \div set.quantum + 1) * set.quantum] ELSE cs[c]
           j == IF waits THEN [k EXCEPT !.state = "wait", !.clock = now] ELSE k
<1>1. core' = [cs EXCEPT ![c] = j] /\ bar' = IF waits THEN StartRelease(core', bar) ELSE bar
  BY DEF Synchronize
<1>2. IsCore(cs[c]) /\ DOMAIN cs = Core
  BY DEF AreCores
<1>3. IsCore(k) /\ k.elapsed = now /\ k.callback = cs[c].callback /\ k.cpi = cs[c].cpi /\ k.since = cs[c].since
      /\ k.state = "run" /\ k.clock = cs[c].clock
  BY <1>2 DEF IsCore
<1>4. ignoreTime /\ bar.ff => waits
  OBVIOUS
<1> HIDE DEF now, due, waits, k
<1>5. CASE waits
  <2>1. j = [k EXCEPT !.state = "wait", !.clock = now]
    BY <1>5
  <2> HIDE DEF j
  <2>2. /\ IsCore(j) /\ j.elapsed = now /\ j.callback = cs[c].callback /\ j.cpi = cs[c].cpi /\ j.since = cs[c].since
        /\ j.state = "wait" /\ j.clock = now
    BY <1>3, <2>1 DEF IsCore
  <2>3. core'[c] = j /\ DOMAIN core' = Core /\ \A d \in Core \ {c} : core'[d] = cs[d]
    BY <1>1, <1>2
  <2>4. AreCores(core')
    BY <2>2, <2>3 DEF AreCores
  <2>5. bar' = StartRelease(core', bar)
    BY <1>1, <1>5
  <2>6. IsBarrier(bar') /\ bar'.ff = bar.ff /\ (~bar.ff => bar'.next = bar.next)
    BY <2>4, <2>5, Starts
  <2>7. Comes(core'[c], cs[c], core'[c].state = "wait")
    BY <2>2, <2>3 DEF Comes, now
  <2>8. ASSUME \A d \in Core : Placed(cs[d], bar.next)
        PROVE  AtBarrier(core', bar')
    <3>1. \A d \in Core : Placed(core'[d], bar.next)
      BY <2>2, <2>3, <2>8 DEF Placed
    <3> QED
      BY <2>4, <2>5, <3>1, ReachedByWaiters
  <2> QED
    BY <2>2, <2>3, <2>4, <2>6, <2>7, <2>8
<1>6. CASE ~waits
  <2>1. j = k /\ bar' = bar
    BY <1>1, <1>6
  <2> HIDE DEF j
  <2>2. core'[c] = k /\ DOMAIN core' = Core /\ \A d \in Core \ {c} : core'[d] = cs[d]
    BY <1>1, <1>2, <2>1
  <2>3. AreCores(core')
    BY <1>3, <2>2 DEF AreCores
  <2>4. Comes(core'[c], cs[c], core'[c].state = "wait")
    BY <1>3, <2>2 DEF Comes, now
  <2>5. ASSUME \A d \in Core : Placed(cs[d], bar.next)
        PROVE  AtBarrier(core', bar')
    <3>1. \A d \in Core : Placed(core'[d], bar.next)
      BY <1>3, <2>2, <2>5 DEF Placed
    <3> QED
      BY <2>1, <3>1 DEF AtBarrier, OnlyWaiters
  <2> QED
    BY <1>4, <1>6, <2>1, <2>2, <2>3, <2>4, <2>5
<1> QED
  BY <1>5, <1>6

-----------------------------------------------------------------------------
(* The sampler.                                                             *)

Agree(cs) == \A c \in Core : /\ cs[c].state = core[c].state /\ cs[c].clock = core[c].clock
                             /\ cs[c].elapsed = core[c].elapsed

LEMMA StartsFastForward ==
    ASSUME Inv, ~set.manager, bar.releasing, set' = set, NEW cs, AreCores(cs), Agree(cs),
           NEW x, IsSampler(x), Unfailed(set, x), NEW until \in Nat,
           x.planned + x.ffLeft + x.warmupLeft = set.fastforward + set.warmup,
           EnableFastForward(cs, x, until)
    PROVE  Inv'
<1> DEFINE ds == [c \in Core |-> Recalibrate(cs[c], until)]
           next == Larger(bar.next, Latest(Core))
<1>1. /\ set \in Setting /\ AreCores(core) /\ IsBarrier(bar) /\ IsSampler(smp) /\ AtBarrier(core, bar)
      /\ set.detailedSync \in BOOLEAN
  BY SamplingAssumption DEF Inv, Typed, Sampled
<1>2. /\ smp' = [x EXCEPT !.ff = TRUE, !.target = until,
                          !.detailedSync = IF smp.ff THEN @ ELSE set.detailedSync]
      /\ EndOfTurn(ds, TRUE, next)
  BY DEF EnableFastForward
<1>3. /\ IsSampler(smp') /\ smp'.ff = TRUE /\ smp'.target = until /\ Unfailed(set, smp')
      /\ smp'.planned = x.planned /\ smp'.ffLeft = x.ffLeft /\ smp'.warmupLeft = x.warmupLeft
  BY <1>1, <1>2 DEF IsSampler, Unfailed
<1>4. \A c \in Core : /\ IsCore(ds[c]) /\ ds[c].state = core[c].state /\ ds[c].clock = core[c].clock
                      /\ Called(ds[c], until)
  BY RecalibrateCore DEF AreCores, Agree, Alike
<1>5. AreCores(ds)
  BY <1>4 DEF AreCores
<1>6. /\ next \in Nat /\ bar.next <= next /\ Latest(Core) <= next
      /\ \A c \in Core : core[c].elapsed <= Latest(Core)
      /\ bar.next \in Nat /\ Latest(Core) \in Nat
  BY <1>1, LatestOf DEF Larger, IsBarrier
<1> HIDE DEF ds, next
<1>7. \A c \in Core : ds[c].clock <= next
  <2> TAKE c \in Core
  <2>1. core[c].clock \in Nat /\ core[c].elapsed \in Nat /\ Placed(core[c], bar.next)
    BY <1>1 DEF AreCores, IsCore, AtBarrier
  <2>2. core[c].elapsed <= Latest(Core)
    BY <1>6
  <2>3. core[c].clock <= next
    BY <1>6, <2>1, <2>2 DEF Placed
  <2> QED
    BY <1>4, <2>3
<1>8. \E c \in Core : ds[c].state = "wait"
  BY <1>1, <1>4 DEF AtBarrier, OnlyWaiters
<1>9. AtBarrier(core', bar')
  BY <1>1, <1>2, <1>5, <1>6, <1>7, <1>8, AllResume
<1>10. /\ AreCores(core') /\ IsBarrier(bar') /\ bar'.ff = TRUE
       /\ \A c \in Core : Goes(core'[c], ds[c], next + set.quantum)
  BY <1>1, <1>2, <1>5, <1>6, TurnEnds
<1>11. AllCalled(core', LastTarget')
  <2>1. AllCalled(core', until)
    BY <1>4, <1>10, TurnCalled
  <2>2. LastTarget' \in Nat /\ until <= LastTarget'
    <3>1. set.aim \in Nat \cup {Never} /\ until <= until
      BY <1>1, SamplingAssumption
    <3>2. LastTarget' = IF set.manager \/ set.aim = Never THEN until ELSE Larger(until, set.aim)
      BY <1>3 DEF LastTarget
    <3> QED
      BY <3>1, <3>2 DEF Larger
  <2> QED
    BY <1>10, <2>1, <2>2, AllCalledLater
<1>12. Cycle(set, smp') /\ Measured(set, core', smp'.ff) /\ Warmup(set, smp', bar'.next)
  BY <1>3 DEF Cycle, Measured, Warmup
<1> QED
  BY <1>1, <1>3, <1>9, <1>10, <1>11, <1>12 DEF Inv, Typed, Sampled

LEMMA FastForwards ==
    ASSUME Inv, ~set.manager, bar.releasing, set' = set, NEW cs, AreCores(cs), Agree(cs),
           NEW x, IsSampler(x), Unfailed(set, x),
           x.planned + x.ffLeft + x.warmupLeft = set.fastforward + set.warmup,
           StepFastForward(cs, x)
    PROVE  Inv'
<1>1. set.sync \in Nat /\ bar.next \in Nat
  BY SamplingAssumption DEF Inv, Typed, IsBarrier
<1>2. \A n \in Nat : PieceOf(n).take \in Nat /\ PieceOf(n).left \in Nat /\ PieceOf(n).take + PieceOf(n).left = n
  BY <1>1 DEF PieceOf, Smaller
<1>3. CASE /\ x.ffLeft > 0
           /\ EnableFastForward(cs, [x EXCEPT !.ffLeft = PieceOf(@).left,
                                              !.planned = @ + PieceOf(x.ffLeft).take],
                                bar.next + PieceOf(x.ffLeft).take)
  <2> DEFINE y == [x EXCEPT !.ffLeft = PieceOf(@).left, !.planned = @ + PieceOf(x.ffLeft).take]
             until == bar.next + PieceOf(x.ffLeft).take
  <2>1. x.ffLeft \in Nat /\ x.planned \in Nat /\ x.warmupLeft \in Nat
    BY DEF IsSampler
  <2>2. PICK take \in Nat, left \in Nat : take = PieceOf(x.ffLeft).take /\ left = PieceOf(x.ffLeft).left /\ take + left = x.ffLeft
    BY <1>2, <2>1
  <2>3. y = [x EXCEPT !.ffLeft = left, !.planned = @ + take]
    BY <2>2
  <2>4. EnableFastForward(cs, y, until)
    BY <1>3
  <2>5. until \in Nat
    BY <1>1, <2>2
  <2> HIDE DEF y, until
  <2>6. /\ IsSampler(y) /\ Unfailed(set, y) /\ y.ffLeft = left /\ y.planned = x.planned + take /\ y.warmupLeft = x.warmupLeft
    BY <2>1, <2>2, <2>3 DEF IsSampler, Unfailed
  <2>7. y.planned + y.ffLeft + y.warmupLeft = set.fastforward + set.warmup
    BY <2>1, <2>2, <2>6
  <2> QED
    BY <2>4, <2>5, <2>6, <2>7, StartsFastForward
<1>4. CASE /\ x.ffLeft <= 0 /\ x.warmupLeft > 0
           /\ EnableFastForward(cs, [x EXCEPT !.warmupLeft = PieceOf(@).left,
                                              !.planned = @ + PieceOf(x.warmupLeft).take],
                                bar.next + PieceOf(x.warmupLeft).take)
  <2> DEFINE y == [x EXCEPT !.warmupLeft = PieceOf(@).left, !.planned = @ + PieceOf(x.warmupLeft).take]
             until == bar.next + PieceOf(x.warmupLeft).take
  <2>1. x.ffLeft \in Nat /\ x.planned \in Nat /\ x.warmupLeft \in Nat
    BY DEF IsSampler
  <2>2. PICK take \in Nat, left \in Nat : take = PieceOf(x.warmupLeft).take /\ left = PieceOf(x.warmupLeft).left /\ take + left = x.warmupLeft
    BY <1>2, <2>1
  <2>3. y = [x EXCEPT !.warmupLeft = left, !.planned = @ + take]
    BY <2>2
  <2>4. EnableFastForward(cs, y, until)
    BY <1>4
  <2>5. until \in Nat
    BY <1>1, <2>2
  <2> HIDE DEF y, until
  <2>6. /\ IsSampler(y) /\ Unfailed(set, y) /\ y.ffLeft = x.ffLeft /\ y.planned = x.planned + take /\ y.warmupLeft = left
    BY <2>1, <2>2, <2>3 DEF IsSampler, Unfailed
  <2>7. y.planned + y.ffLeft + y.warmupLeft = set.fastforward + set.warmup
    BY <2>1, <2>2, <2>6
  <2> QED
    BY <2>4, <2>5, <2>6, <2>7, StartsFastForward
<1> QED
  BY <1>3, <1>4 DEF StepFastForward

LEMMA EndSampleKeeps ==
    ASSUME Inv, ~set.manager, bar.releasing, set' = set, EndSample
    PROVE  Inv'
<1>1. PICK q : StepFastForward([c \in Core |-> [core[c] EXCEPT !.cpi = FastForwardCPI(q[c])]],
                           [smp EXCEPT !.history = q, !.ffLeft = set.fastforward, !.warmupLeft = set.warmup,
                                       !.planned = 0, !.last = bar.next,
                                       !.failed = @ \/ smp.detailedLeft > 0])
  BY DEF EndSample
<1> DEFINE cs == [c \in Core |-> [core[c] EXCEPT !.cpi = FastForwardCPI(q[c])]]
           x == [smp EXCEPT !.history = q, !.ffLeft = set.fastforward, !.warmupLeft = set.warmup,
                            !.planned = 0, !.last = bar.next,
                            !.failed = @ \/ smp.detailedLeft > 0]
<1>2. /\ set \in Setting /\ AreCores(core) /\ bar.next \in Nat /\ IsSampler(smp) /\ Unfailed(set, smp)
      /\ Warmup(set, smp, bar.next)
  BY DEF Inv, Typed, Sampled, IsBarrier
<1>3. /\ set.fastforward \in Nat /\ set.warmup \in Nat /\ set.detailed \in Nat /\ set.detailedWarmup \in Nat
      /\ set.quantum \in Nat
  BY <1>2, SamplingAssumption
<1>4. set.detailedWarmup + set.quantum <= set.detailed => ~(smp.detailedLeft > 0)
  <2>1. ~smp.ff /\ bar.next > smp.last + set.detailed /\ smp.last \in Nat
    BY <1>2 DEF EndSample, SampleIsOver, IsSampler
  <2> QED
    BY <1>2, <1>3, <2>1 DEF Warmup
<1>5. \A c \in Core : FastForwardCPI(q[c]) \in Nat
  <2>1. \A n : Clamped(n) \in Nat
    BY DEF Clamped
  <2> QED
    BY <2>1 DEF FastForwardCPI
<1>6. AreCores(cs) /\ Agree(cs)
  BY <1>2, <1>5 DEF AreCores, IsCore, Agree
<1>7. StepFastForward(cs, x)
  BY <1>1
<1>8. IsSampler(x) /\ Unfailed(set, x) /\ x.planned = 0 /\ x.ffLeft = set.fastforward /\ x.warmupLeft = set.warmup
  BY <1>2, <1>3, <1>4 DEF IsSampler, Unfailed
<1> HIDE DEF cs, x
<1>9. x.planned + x.ffLeft + x.warmupLeft = set.fastforward + set.warmup
  BY <1>3, <1>8
<1> QED
  BY <1>6, <1>7, <1>8, <1>9, FastForwards

LEMMA GoOnFastForwardKeeps ==
    ASSUME Inv, ~set.manager, bar.releasing, set' = set, GoOnFastForward
    PROVE  Inv'
<1>1. smp.ff /\ StepFastForward(core, smp)
  BY DEF GoOnFastForward
<1>2. AreCores(core) /\ IsSampler(smp) /\ Unfailed(set, smp) /\ Cycle(set, smp)
  BY DEF Inv, Typed, Sampled
<1>3. smp.planned + smp.ffLeft + smp.warmupLeft = set.fastforward + set.warmup
  BY <1>1, <1>2 DEF Cycle
<1>4. Agree(core)
  BY DEF Agree
<1> QED
  BY <1>1, <1>2, <1>3, <1>4, FastForwards

\* A turn in detailed mode that may forget what was measured.
LEMMA DetailedTurnKeeps ==
    ASSUME Inv, ~set.manager, bar.releasing, set' = set, ~smp.ff, NEW cs, AreCores(cs), Agree(cs),
           \A c \in Core : cs[c].since.forwarded \in {0, core[c].since.forwarded},
           EndOfTurn(cs, bar.ff, bar.next), IsSampler(smp'), ~smp'.ff, Unfailed(set, smp'),
           smp'.planned = smp.planned, Warmup(set, smp', bar.next + set.quantum)
    PROVE  Inv'
<1>1. /\ set \in Setting /\ AreCores(core) /\ IsBarrier(bar) /\ IsSampler(smp) /\ bar.ff = FALSE /\ bar.next \in Nat
      /\ AtBarrier(core, bar) /\ Measured(set, core, FALSE) /\ Cycle(set, smp)
  BY DEF Inv, Typed, Sampled, IsBarrier, IsSampler, Measured
<1>2. AtBarrier(core', bar')
  BY <1>1, DetailedTurn DEF Agree
<1>3. /\ AreCores(core') /\ IsBarrier(bar') /\ bar'.ff = FALSE /\ bar'.next = bar.next + set.quantum
      /\ \A c \in Core : Goes(core'[c], cs[c], bar.next + set.quantum)
  BY <1>1, TurnEnds
<1>4. Measured(set, core', smp'.ff)
  BY <1>1, <1>3 DEF Measured, Goes
<1>5. Cycle(set, smp')
  BY <1>1 DEF Cycle
<1>6. bar'.ff = smp'.ff
  BY <1>3 DEF IsSampler
<1> QED
  BY <1>1, <1>2, <1>3, <1>4, <1>5, <1>6 DEF Inv, Typed, Sampled

LEMMA EndDetailedWarmupKeeps ==
    ASSUME Inv, ~set.manager, bar.releasing, set' = set, EndDetailedWarmup
    PROVE  Inv'
<1>1. /\ ~smp.ff /\ smp' = [smp EXCEPT !.detailedLeft = 0]
      /\ EndOfTurn(ResetHistoricCPIs, bar.ff, bar.next)
  BY DEF EndDetailedWarmup
<1>2. AreCores(core) /\ IsSampler(smp) /\ Unfailed(set, smp)
  BY DEF Inv, Typed
<1>3. /\ AreCores(ResetHistoricCPIs) /\ Agree(ResetHistoricCPIs)
      /\ \A c \in Core : ResetHistoricCPIs[c].since.forwarded = 0
  BY <1>2 DEF ResetHistoricCPIs, AreCores, IsCore, Agree, NothingSince
<1>4. IsSampler(smp') /\ ~smp'.ff /\ Unfailed(set, smp') /\ smp'.planned = smp.planned /\ smp'.detailedLeft = 0
  BY <1>1, <1>2 DEF IsSampler, Unfailed
<1>5. Warmup(set, smp', bar.next + set.quantum)
  BY <1>4 DEF Warmup
<1> QED
  BY <1>1, <1>3, <1>4, <1>5, DetailedTurnKeeps

LEMMA GoOnDetailedKeeps ==
    ASSUME Inv, ~set.manager, bar.releasing, set' = set, GoOnDetailed
    PROVE  Inv'
<1>1. ~smp.ff /\ smp' = smp /\ EndOfTurn(core, bar.ff, bar.next) /\ ~WarmupIsOver
  BY DEF GoOnDetailed
<1>2. AreCores(core) /\ IsSampler(smp) /\ Unfailed(set, smp) /\ set \in Setting /\ bar.next \in Nat
  BY DEF Inv, Typed, IsBarrier
<1>3. Agree(core) /\ \A c \in Core : core[c].since.forwarded \in {0, core[c].since.forwarded}
  BY DEF Agree
<1>4. Warmup(set, smp, bar.next + set.quantum)
  <2>1. set.detailedWarmup \in Nat /\ set.quantum \in Nat /\ smp.last \in Nat
    BY <1>2, SamplingAssumption DEF IsSampler
  <2> QED
    BY <1>1, <1>2, <2>1 DEF Warmup, WarmupIsOver
<1> QED
  BY <1>1, <1>2, <1>3, <1>4, DetailedTurnKeeps

LEMMA EndFastForwardKeeps ==
    ASSUME Inv, ~set.manager, bar.releasing, set' = set, EndFastForward
    PROVE  Inv'
<1> DEFINE x == [smp EXCEPT !.last = bar.next,
                   !.detailedLeft = IF set.detailedWarmup > 0 THEN set.detailedWarmup ELSE @]
           next == Latest({c \in Core : IsRunning(core[c])})
           cs == [c \in Core |-> CatchUp(ResetHistoricCPIs[c], next)]
<1>1. smp.ff /\ smp.ffLeft <= 0 /\ smp.warmupLeft <= 0 /\ DisableFastForward(ResetHistoricCPIs, x)
  BY DEF EndFastForward
<1>2. /\ smp' = [x EXCEPT !.ff = FALSE, !.detailedSync = TRUE]
      /\ EndOfTurn(cs, FALSE, Larger(bar.next, next))
  BY <1>1 DEF DisableFastForward
<1>3. /\ set \in Setting /\ AreCores(core) /\ IsBarrier(bar) /\ IsSampler(smp) /\ bar.ff = TRUE /\ bar.next \in Nat
      /\ AtBarrier(core, bar) /\ Cycle(set, smp) /\ Unfailed(set, smp)
  BY <1>1 DEF Inv, Typed, Sampled, IsBarrier, IsSampler
<1>4. /\ set.detailedWarmup \in Nat /\ set.quantum \in Nat /\ set.fastforward \in Nat /\ set.warmup \in Nat
      /\ set.uncoordinated \in BOOLEAN
  BY <1>3, SamplingAssumption
<1>5. /\ IsSampler(x) /\ x.last = bar.next /\ x.planned = smp.planned /\ Unfailed(set, x)
  BY <1>3, <1>4 DEF IsSampler, Unfailed
<1> HIDE DEF x
<1>6. /\ IsSampler(smp') /\ ~smp'.ff /\ smp'.last = bar.next /\ smp'.planned = smp.planned /\ Unfailed(set, smp')
  BY <1>2, <1>5 DEF IsSampler, Unfailed
<1>7. Cycle(set, smp')
  <2>1. smp.ffLeft = 0 /\ smp.warmupLeft = 0 /\ smp.planned \in Nat
    BY <1>1, <1>3 DEF IsSampler
  <2>2. smp.planned = set.fastforward + set.warmup
    BY <1>1, <1>3, <1>4, <2>1 DEF Cycle
  <2> QED
    BY <1>6, <2>2 DEF Cycle
<1>8. next \in Nat /\ next <= bar.next
  <2>1. \A c \in Core : IsRunning(core[c]) => core[c].elapsed <= bar.next
    BY <1>3 DEF AtBarrier, OnlyWaiters, AreCores, IsCore, IsRunning
  <2> DEFINE C == {c \in Core : IsRunning(core[c])}
  <2>2. C \in SUBSET Core /\ \A c \in C : core[c].elapsed <= bar.next
    BY <2>1
  <2> HIDE DEF C
  <2>3. Latest(C) \in Nat /\ Latest(C) <= bar.next
    BY <1>3, <2>2, LatestOf
  <2> QED
    BY <2>3 DEF C
<1> HIDE DEF next
<1>9. Larger(bar.next, next) = bar.next
  BY <1>3, <1>8 DEF Larger
<1>10. \A c \in Core : /\ IsCore(cs[c]) /\ cs[c].state = core[c].state /\ cs[c].clock = core[c].clock
                       /\ ~set.uncoordinated => cs[c].since.forwarded = 0
  <2> TAKE c \in Core
  <2> DEFINE k == ResetHistoricCPIs[c]
             j == [k EXCEPT !.callback = Never]
  <2>1. IsCore(k) /\ k.state = core[c].state /\ k.clock = core[c].clock /\ k.since.forwarded = 0
    BY <1>3 DEF ResetHistoricCPIs, AreCores, IsCore, NothingSince
  <2> HIDE DEF k
  <2>2. IsCore(j) /\ j.state = core[c].state /\ j.clock = core[c].clock /\ j.since.forwarded = 0 /\ j.elapsed = k.elapsed
    BY <2>1 DEF IsCore
  <2>3. cs[c] = CatchUp(k, next)
    BY DEF k
  <2> HIDE DEF j
  <2>4. CASE ~set.uncoordinated
    BY <2>2, <2>3, <2>4 DEF CatchUp, j
  <2>5. CASE set.uncoordinated
    <3> DEFINE d == next - k.elapsed
    <3>1. cs[c] = Advance(j, d, d, d)
      BY <2>3, <2>5 DEF CatchUp, j
    <3>2. d \in Int /\ j.elapsed + d \in Nat
      BY <1>8, <2>1, <2>2 DEF IsCore
    <3> HIDE DEF d
    <3> QED
      BY <2>2, <2>5, <3>1, <3>2, AdvanceCore DEF Alike
  <2> QED
    BY <2>4, <2>5
<1>11. AreCores(cs)
  BY <1>10 DEF AreCores
<1> HIDE DEF cs
<1>12. \A c \in Core : cs[c].clock <= bar.next
  <2> TAKE c \in Core
  <2>1. Placed(core[c], bar.next) /\ core[c].clock \in Nat /\ (core[c].state = "wait" => core[c].elapsed <= bar.next)
    BY <1>3 DEF AtBarrier, OnlyWaiters, AreCores, IsCore
  <2>2. core[c].clock <= bar.next
    BY <1>3, <2>1 DEF Placed
  <2> QED
    BY <1>10, <2>2
<1>13. \E c \in Core : cs[c].state = "wait"
  BY <1>3, <1>10 DEF AtBarrier, OnlyWaiters
<1>14. EndOfTurn(cs, FALSE, bar.next)
  BY <1>2, <1>9
<1>15. AtBarrier(core', bar')
  BY <1>3, <1>11, <1>12, <1>13, <1>14, AllResume
<1>16. /\ AreCores(core') /\ IsBarrier(bar') /\ bar'.ff = FALSE /\ bar'.next = bar.next + set.quantum
       /\ \A c \in Core : Goes(core'[c], cs[c], bar.next + set.quantum)
  BY <1>3, <1>11, <1>14, TurnEnds
<1>17. Measured(set, core', smp'.ff)
  BY <1>10, <1>16 DEF Measured, Goes
<1>18. Warmup(set, smp', bar'.next)
  BY <1>3, <1>4, <1>6, <1>16 DEF Warmup
<1>19. bar'.ff = smp'.ff
  BY <1>6, <1>16 DEF IsSampler
<1> QED
  BY <1>3, <1>6, <1>7, <1>15, <1>16, <1>17, <1>18, <1>19 DEF Inv, Typed, Sampled

-----------------------------------------------------------------------------
(* FastForwardPerformanceManager.                                           *)

LEMMA ManagerKeeps ==
    ASSUME Inv, set.manager, bar.releasing, set' = set, ManagerStep \/ ManagerOff
    PROVE  Inv'
<1>1. /\ set \in Setting /\ AreCores(core) /\ IsBarrier(bar) /\ IsSampler(smp) /\ bar.ff = smp.ff /\ bar.next \in Nat
      /\ Unfailed(set, smp) /\ set.sync \in Nat /\ bar.ff \in BOOLEAN
  BY SamplingAssumption DEF Inv, Typed, IsBarrier
<1>2. CASE ManagerStep
  <2> DEFINE target == bar.next + set.sync
             ds == [c \in Core |-> OneIpc(core[c], target)]
             next == Larger(bar.next, Latest(Core))
  <2>1. target \in Nat
    BY <1>1
  <2>2. smp' = [smp EXCEPT !.target = target] /\ EndOfTurn(ds, TRUE, next) /\ smp.ff
    BY <1>2 DEF ManagerStep
  <2> HIDE DEF target
  <2>3. IsSampler(smp') /\ smp'.ff = smp.ff /\ Unfailed(set, smp') /\ smp'.target = target
    BY <1>1, <2>1, <2>2 DEF IsSampler, Unfailed
  <2>4. \A c \in Core : IsCore(ds[c]) /\ Called(ds[c], target)
    BY <1>1, <2>1, OneIpcCore DEF AreCores
  <2>5. AreCores(ds)
    BY <2>4 DEF AreCores
  <2>6. next \in Nat
    BY <1>1, LatestOf DEF Larger
  <2> HIDE DEF ds, next
  <2>7. /\ AreCores(core') /\ IsBarrier(bar') /\ bar'.ff = TRUE
        /\ \A c \in Core : Goes(core'[c], ds[c], next + set.quantum)
    BY <1>1, <2>2, <2>5, <2>6, TurnEnds
  <2>8. AllCalled(core', LastTarget')
    <3>1. LastTarget' = target
      BY <2>3 DEF LastTarget
    <3>2. AllCalled(core', target)
      BY <2>4, <2>7, TurnCalled
    <3> QED
      BY <3>1, <3>2
  <2>9. bar'.ff = smp'.ff
    BY <1>1, <2>2, <2>3, <2>7 DEF IsSampler
  <2> QED
    BY <1>1, <2>3, <2>7, <2>8, <2>9 DEF Inv, Typed, Sampled
<1>3. CASE ManagerOff
  <2>1. ~smp.ff /\ smp' = smp /\ EndOfTurn(core, bar.ff, bar.next)
    BY <1>3 DEF ManagerOff
  <2>2. AreCores(core') /\ IsBarrier(bar') /\ bar'.ff = bar.ff
    BY <1>1, <2>1, TurnEnds
  <2> QED
    BY <1>1, <2>1, <2>2 DEF Inv, Typed, Sampled
<1> QED
  BY <1>2, <1>3

LEMMA RegionKeeps ==
    ASSUME Inv, BeginRegion \/ EndRegion
    PROVE  Inv'
<1>1. /\ set \in Setting /\ AreCores(core) /\ IsBarrier(bar) /\ IsSampler(smp) /\ bar.ff = smp.ff /\ bar.next \in Nat
      /\ Unfailed(set, smp) /\ set.sync \in Nat /\ bar.global \in Nat
  BY SamplingAssumption DEF Inv, Typed, IsBarrier
<1>2. \A C \in SUBSET Core : Larger(bar.next, Latest(C)) \in Nat
  BY <1>1, LatestOf DEF Larger
<1>3. \A k : IsCore(k) => /\ IsCore(LetGo(k)) /\ LetGo(k).callback = k.callback /\ LetGo(k).elapsed = k.elapsed
                            /\ LetGo(k).cpi = k.cpi /\ LetGo(k).late = k.late
  BY DEF LetGo, IsCore
<1>4. CASE BeginRegion
  <2> DEFINE C == {c \in Core : IsRunning(core[c])}
             n == Larger(bar.next, Latest(C))
  <2>1. /\ core' = [c \in Core |-> LetGo([core[c] EXCEPT !.callback = Never])]
        /\ bar' = [bar EXCEPT !.ff = FALSE, !.next = n]
        /\ smp' = [smp EXCEPT !.ff = FALSE] /\ set' = set /\ set.manager
    BY <1>4 DEF BeginRegion
  <2>2. n \in Nat
    BY <1>2
  <2> HIDE DEF n
  <2>3. IsBarrier(bar') /\ bar'.ff = FALSE
    BY <1>1, <2>1, <2>2 DEF IsBarrier
  <2>4. IsSampler(smp') /\ smp'.ff = FALSE /\ Unfailed(set, smp')
    BY <1>1, <2>1 DEF IsSampler, Unfailed
  <2>5. \A c \in Core : IsCore([core[c] EXCEPT !.callback = Never])
    BY <1>1 DEF AreCores, IsCore
  <2>6. AreCores(core')
    BY <1>3, <2>1, <2>5 DEF AreCores
  <2> QED
    BY <1>1, <2>1, <2>3, <2>4, <2>6 DEF Inv, Typed, Sampled
<1>5. CASE EndRegion
  <2> DEFINE n == Larger(bar.next, Latest(Core))
             target == bar.global + set.sync
  <2>1. /\ core' = [c \in Core |-> LetGo(OneIpc(core[c], target))]
        /\ bar' = [bar EXCEPT !.ff = TRUE, !.next = n]
        /\ smp' = [smp EXCEPT !.ff = TRUE, !.target = target] /\ set' = set /\ set.manager
    BY <1>5 DEF EndRegion
  <2>2. n \in Nat /\ target \in Nat
    BY <1>1, <1>2
  <2> HIDE DEF n, target
  <2>3. IsBarrier(bar') /\ bar'.ff = TRUE
    BY <1>1, <2>1, <2>2 DEF IsBarrier
  <2>4. IsSampler(smp') /\ smp'.ff = TRUE /\ Unfailed(set, smp') /\ smp'.target = target
    BY <1>1, <2>1, <2>2 DEF IsSampler, Unfailed
  <2>5. \A c \in Core : IsCore(OneIpc(core[c], target)) /\ Called(OneIpc(core[c], target), target)
    BY <1>1, <2>2, OneIpcCore DEF AreCores
  <2>6. \A c \in Core : IsCore(core'[c]) /\ Called(core'[c], target)
    BY <1>3, <2>1, <2>5 DEF Called
  <2>8. LastTarget' = target
    BY <2>1, <2>4 DEF LastTarget
  <2>7. AreCores(core') /\ AllCalled(core', LastTarget')
    BY <2>1, <2>6, <2>8 DEF AreCores, AllCalled
  <2> QED
    BY <1>1, <2>1, <2>3, <2>4, <2>7 DEF Inv, Typed, Sampled
<1> QED
  BY <1>4, <1>5

-----------------------------------------------------------------------------
(* Threads execute, sleep and wake.                                         *)

\* The facts about the state before a step of a thread.
Before ==
    /\ set \in Setting /\ AreCores(core) /\ IsBarrier(bar) /\ IsSampler(smp) /\ bar.ff = smp.ff
    /\ Unfailed(set, smp) /\ smp.target \in Nat /\ LastTarget \in Nat
    /\ smp.ff => AllCalled(core, LastTarget)
    /\ ~set.manager => /\ \A c \in Core : Placed(core[c], bar.next)
                       /\ Measured(set, core, smp.ff) /\ Cycle(set, smp) /\ Warmup(set, smp, bar.next)
LEMMA InvBefore == Inv => Before
  BY LastTargetIsLast DEF Inv, Typed, Sampled, Before, AtBarrier, IsSampler

\* A step of a thread that leaves the sampler alone.
LEMMA ThreadStep ==
    ASSUME Before, set' = set, smp' = smp, AreCores(core'), IsBarrier(bar'), bar'.ff = bar.ff,
           smp.ff => AllCalled(core', LastTarget),
           ~set.manager => AtBarrier(core', bar') /\ Measured(set, core', smp.ff),
           ~bar.ff => bar'.next = bar.next
    PROVE  Inv'
<1>1. ~set.manager => Warmup(set, smp, bar'.next)
  BY DEF Before, Warmup
<1>2. LastTarget' = LastTarget
  BY DEF LastTarget
<1> QED
  BY <1>1, <1>2 DEF Before, Inv, Typed, Sampled

\* Time that is lost on the way counts on both sides.
LEMMA DelayCore ==
    ASSUME NEW k, IsCore(k), NEW target \in Nat, Called(k, target), NEW d \in Nat
    PROVE  LET j == Delayed(k, d)
           IN  /\ Alike(j, k) /\ Called(j, target)
<1> DEFINE i == Advance(k, d, d, d)
           j == Delayed(k, d)
<1>1. /\ k.callback \in Int /\ k.callback # Never /\ k.cpi \in Nat /\ k.elapsed \in Nat /\ k.late \in Nat
      /\ d \in Int /\ k.elapsed + d \in Nat
  BY DEF IsCore, Called
<1>2. Alike(i, k) /\ i.elapsed = k.elapsed + d /\ i.callback = k.callback /\ i.late = k.late
  BY <1>1, AdvanceCore
<1>3. j = [i EXCEPT !.late = @ + d]
  BY DEF Delayed
<1> HIDE DEF i, j
<1>4. Alike(j, k) /\ j.elapsed = k.elapsed + d /\ j.callback = k.callback /\ j.late = k.late + d /\ j.cpi = k.cpi
  BY <1>1, <1>2, <1>3 DEF Alike, IsCore
<1>5. PICK x \in Int : x = k.callback * k.cpi
  BY <1>1
<1>6. PICK y, z \in Int : y = Larger(target, k.elapsed) /\ z = Larger(target, k.elapsed + d) /\ y <= z
  BY <1>1 DEF Larger
<1>7. k.elapsed + x <= y + k.cpi + k.late
  BY <1>5, <1>6 DEF Called
<1>8. (k.elapsed + d) + x <= z + k.cpi + (k.late + d)
  BY <1>1, <1>6, <1>7
<1>9. Called(j, target)
  BY <1>1, <1>4, <1>5, <1>6, <1>8 DEF Called
<1> QED
  BY <1>4, <1>9 DEF j

LEMMA CountCore ==
    ASSUME NEW k, IsCore(k), NEW target \in Nat, Called(k, target)
    PROVE  LET j == CountInstruction(k)
           IN  /\ Alike(j, k) /\ Called(j, target)
<1> DEFINE i == [k EXCEPT !.callback = IF @ = Never THEN Never ELSE @ - 1]
           j == CountInstruction(k)
<1>1. /\ k.callback \in Int /\ k.callback # Never /\ k.cpi \in Nat /\ k.elapsed \in Nat /\ Never \notin Int
      /\ k.late \in Nat
  BY SamplingAssumption DEF IsCore, Called
<1>2. i = [k EXCEPT !.callback = k.callback - 1]
  BY <1>1
<1>3. Alike(i, k) /\ i.callback = k.callback - 1 /\ i.elapsed = k.elapsed /\ i.late = k.late
  BY <1>1, <1>2 DEF IsCore, Alike
<1>4. j = Advance(i, k.cpi, k.cpi, k.cpi)
  BY DEF CountInstruction
<1> HIDE DEF i, j
<1>5. IsCore(i) /\ k.cpi \in Int /\ i.elapsed + k.cpi \in Nat
  BY <1>1, <1>3 DEF Alike
<1>6. Alike(j, i) /\ j.elapsed = k.elapsed + k.cpi /\ j.callback = k.callback - 1 /\ j.late = k.late
  BY <1>3, <1>4, <1>5, AdvanceCore
<1>7. Alike(j, k)
  BY <1>3, <1>6 DEF Alike
<1>8. Called(j, target)
  <2>1. \A e, c, n \in Int : (e + c) + (n - 1) * c = e + n * c
    <3> TAKE e, c, n \in Int
    <3>1. (n - 1) * c = n * c - c /\ n * c \in Int
      OBVIOUS
    <3> QED
      BY <3>1
  <2>2. j.elapsed + j.callback * j.cpi = k.elapsed + k.callback * k.cpi
    <3>1. j.cpi = k.cpi /\ k.elapsed \in Int /\ k.cpi \in Int /\ k.callback \in Int
      BY <1>1, <1>7 DEF Alike
    <3>2. (k.elapsed + k.cpi) + (k.callback - 1) * k.cpi = k.elapsed + k.callback * k.cpi
      BY <2>1, <3>1
    <3> QED
      BY <1>6, <3>1, <3>2
  <2>3. Larger(target, k.elapsed) <= Larger(target, j.elapsed) /\ Larger(target, k.elapsed) \in Int /\ Larger(target, j.elapsed) \in Int
    BY <1>1, <1>6 DEF Larger
  <2>4. j.callback # Never /\ j.cpi = k.cpi
    BY <1>1, <1>6, <1>7 DEF Alike
  <2>5. PICK x \in Int : x = k.elapsed + k.callback * k.cpi
    BY <1>1
  <2>6. x <= Larger(target, k.elapsed) + k.cpi + k.late
    BY <2>5 DEF Called
  <2>7. x <= Larger(target, j.elapsed) + k.cpi + k.late
    BY <1>1, <2>3, <2>6
  <2> QED
    BY <1>6, <2>2, <2>4, <2>5, <2>7 DEF Called
<1> QED
  BY <1>7, <1>8 DEF j

LEMMA ExecuteFastKeeps ==
    ASSUME Before, ~bar.releasing, NEW c \in Core, core[c].state = "run", smp.ff, ExecuteFast(c),
           set' = set, smp' = smp
    PROVE  Inv'
<1>0. PICK late \in set.latency :
        \E cs \in {[core EXCEPT ![c] = CountInstruction(Delayed(@, late))]} :
           \/ cs[c].callback <= 0 /\ InstrCount(cs, c)
           \/ cs[c].callback > 0 /\ core' = cs /\ UNCHANGED bar
  BY DEF ExecuteFast
<1> DEFINE i == Delayed(core[c], late)
           k == CountInstruction(i)
           cs == [core EXCEPT ![c] = k]
<1>1. /\ set \in Setting /\ AreCores(core) /\ IsBarrier(bar) /\ bar.ff = smp.ff /\ LastTarget \in Nat
      /\ AllCalled(core, LastTarget)
  BY DEF Before
<1>2. IsCore(core[c]) /\ Called(core[c], LastTarget) /\ DOMAIN core = Core
  BY <1>1 DEF AreCores, AllCalled
<1>10. late \in Nat
  BY <1>0, <1>1, SamplingAssumption
<1>11. IsCore(i) /\ i.state = "run" /\ i.clock = core[c].clock /\ Called(i, LastTarget)
  BY <1>1, <1>2, <1>10, DelayCore DEF Alike
<1>4. \/ cs[c].callback <= 0 /\ InstrCount(cs, c)
      \/ cs[c].callback > 0 /\ core' = cs /\ bar' = bar
  BY <1>0, <1>2
<1> HIDE DEF i
<1>3. IsCore(k) /\ k.state = "run" /\ k.clock = core[c].clock /\ Called(k, LastTarget)
  BY <1>1, <1>11, CountCore DEF Alike
<1> HIDE DEF k
<1>5. cs[c] = k /\ DOMAIN cs = Core /\ \A d \in Core \ {c} : cs[d] = core[d]
  BY <1>2
<1> HIDE DEF cs
<1>6. AreCores(cs) /\ AllCalled(cs, LastTarget)
  BY <1>1, <1>3, <1>5 DEF AreCores, AllCalled
<1>7. ~set.manager => \A d \in Core : Placed(cs[d], bar.next)
  BY <1>3, <1>5 DEF Before, Placed
<1>8. CASE core' = cs /\ bar' = bar
  <2>1. ~set.manager => AtBarrier(core', bar') /\ Measured(set, core', smp.ff)
    BY <1>7, <1>8 DEF AtBarrier, OnlyWaiters, Measured
  <2> QED
    BY <1>1, <1>6, <1>8, <2>1, ThreadStep
<1>9. CASE InstrCount(cs, c)
  <2>1. PICK ds : /\ Synchronize(ds, c, TRUE)
                  /\ ds = IF set.uncoordinated /\ ~set.manager
                          THEN [d \in Core |-> [cs[d] EXCEPT !.callback = 1]]
                          ELSE [cs EXCEPT ![c].callback = Never]
    BY <1>9 DEF InstrCount
  <2>2. DOMAIN ds = Core /\ ds[c].state = "run" /\
        \A d \in Core : /\ IsCore(ds[d]) /\ ds[d].clock = cs[d].clock /\ ds[d].elapsed = cs[d].elapsed
                        /\ ds[d].state = cs[d].state /\ ds[d].cpi = cs[d].cpi /\ ds[d].late = cs[d].late
                        /\ d # c => ds[d].callback \in {1, cs[d].callback}
    <3>1. CASE set.uncoordinated /\ ~set.manager
      BY <1>3, <1>5, <1>6, <2>1, <3>1 DEF AreCores, IsCore
    <3>2. CASE ~(set.uncoordinated /\ ~set.manager)
      <4>1. ds = [cs EXCEPT ![c] = [cs[c] EXCEPT !.callback = Never]]
        BY <1>5, <2>1, <3>2
      <4>2. \A d \in Core : ds[d] = IF d = c THEN [cs[c] EXCEPT !.callback = Never] ELSE cs[d]
        BY <1>5, <4>1
      <4> QED
        BY <1>3, <1>5, <1>6, <4>1, <4>2 DEF AreCores, IsCore
    <3> QED
      BY <3>1, <3>2
  <2>3. AreCores(ds)
    BY <2>2 DEF AreCores
  <2>4. \A d \in Core \ {c} : ds[d].state # "wait" => Called(ds[d], LastTarget)
    <3> TAKE d \in Core \ {c}
    <3>1. CASE ds[d].callback = cs[d].callback
      BY <1>6, <2>2, <3>1 DEF AllCalled, Called
    <3>2. CASE ds[d].callback = 1
      <4>1. ds[d].elapsed \in Nat /\ ds[d].cpi \in Nat /\ ds[d].late \in Nat /\ Never \notin Int
        BY <2>2, SamplingAssumption DEF IsCore
      <4>2. ds[d].elapsed <= Larger(LastTarget, ds[d].elapsed) /\ Larger(LastTarget, ds[d].elapsed) \in Nat
        BY <1>1, <4>1 DEF Larger
      <4> QED
        BY <3>2, <4>1, <4>2 DEF Called
    <3> QED
      BY <2>2, <3>1, <3>2
  <2>5. ~set.manager => \A d \in Core : Placed(ds[d], bar.next)
    BY <1>7, <2>2 DEF Placed
  <2>6. /\ AreCores(core') /\ IsBarrier(bar') /\ bar'.ff = bar.ff
        /\ (~bar.ff => bar'.next = bar.next)
        /\ \A d \in Core \ {c} : core'[d] = ds[d]
        /\ (bar.ff => core'[c].state = "wait")
        /\ ((\A d \in Core : Placed(ds[d], bar.next)) => AtBarrier(core', bar'))
    <3>1. Synchronize(ds, c, TRUE) /\ ds[c].state = "run"
      BY <2>1, <2>2
    <3> QED
      BY <1>1, <2>3, <3>1, Synchronizes
  <2>7. AllCalled(core', LastTarget)
    BY <1>1, <2>4, <2>6 DEF AllCalled
  <2>8. ~set.manager => AtBarrier(core', bar') /\ Measured(set, core', smp.ff)
    BY <2>5, <2>6 DEF Measured
  <2> QED
    BY <2>6, <2>7, <2>8, ThreadStep
<1> QED
  BY <1>4, <1>8, <1>9

LEMMA ExecuteDetailedKeeps ==
    ASSUME Before, ~bar.releasing, NEW c \in Core, core[c].state = "run", ~smp.ff, ExecuteDetailed(c),
           set' = set, smp' = smp
    PROVE  Inv'
<1>1. /\ set \in Setting /\ AreCores(core) /\ IsBarrier(bar) /\ bar.ff = smp.ff
  BY DEF Before
<1>2. PICK cost \in Cost : Synchronize([core EXCEPT ![c] = Simulated(core[c], cost)], c, FALSE)
  BY <1>1 DEF ExecuteDetailed, AreCores
<1> DEFINE a == Advance(core[c], cost, cost, 0)
           k == Simulated(core[c], cost)
           cs == [core EXCEPT ![c] = k]
<1>6. Synchronize(cs, c, FALSE)
  BY <1>2
<1>0. Cost \subseteq Nat
  BY SamplingAssumption
<1>3. IsCore(core[c]) /\ DOMAIN core = Core /\ cost \in Nat /\ core[c].elapsed + cost \in Nat
  BY <1>0, <1>1 DEF AreCores, IsCore
<1>4. IsCore(a) /\ a.state = "run" /\ a.clock = core[c].clock
      /\ (~set.manager => a.since.forwarded = core[c].since.forwarded + 0)
  BY <1>3, AdvanceCore DEF Alike
<1>12. k = [a EXCEPT !.since.insns = IF set.manager THEN @ ELSE @ + 1]
  BY DEF Simulated
<1> HIDE DEF a, k
<1>5. IsCore(k) /\ k.state = "run" /\ k.clock = core[c].clock /\ k.since.forwarded = a.since.forwarded
  BY <1>4, <1>12 DEF IsCore
<1>7. cs[c] = k /\ DOMAIN cs = Core /\ \A d \in Core \ {c} : cs[d] = core[d]
  BY <1>3
<1> HIDE DEF cs
<1>8. AreCores(cs)
  BY <1>1, <1>5, <1>7 DEF AreCores
<1>9. ~set.manager => \A d \in Core : Placed(cs[d], bar.next)
  BY <1>5, <1>7 DEF Before, Placed
<1>10. /\ AreCores(core') /\ IsBarrier(bar') /\ bar'.ff = bar.ff
       /\ (~bar.ff => bar'.next = bar.next)
       /\ \A d \in Core \ {c} : core'[d] = cs[d]
       /\ Comes(core'[c], cs[c], core'[c].state = "wait")
       /\ ((\A d \in Core : Placed(cs[d], bar.next)) => AtBarrier(core', bar'))
  BY <1>1, <1>5, <1>6, <1>7, <1>8, Synchronizes
<1>11. ~set.manager => Measured(set, core', smp.ff)
  <2> SUFFICES ASSUME ~set.manager, ~set.uncoordinated, NEW d \in Core
               PROVE  core'[d].since.forwarded = 0
    BY DEF Measured
  <2>1. core[d].since.forwarded = 0
    BY DEF Before, Measured
  <2>2. CASE d = c
    BY <1>4, <1>5, <1>7, <1>10, <2>1, <2>2 DEF Comes
  <2> QED
    BY <1>7, <1>10, <2>1, <2>2
<1> QED
  BY <1>9, <1>10, <1>11, ThreadStep

LEMMA SleepKeeps ==
    ASSUME Before, NEW c \in Core, Sleep(c)
    PROVE  Inv'
<1>1. /\ core' = [core EXCEPT ![c].state = "sleep"] /\ bar' = StartRelease(core', bar) /\ set' = set /\ smp' = smp
      /\ ~bar.releasing /\ core[c].state = "run"
  BY DEF Sleep
<1>2. AreCores(core) /\ IsBarrier(bar) /\ IsCore(core[c]) /\ DOMAIN core = Core
  BY DEF Before, AreCores
<1> DEFINE k == [core[c] EXCEPT !.state = "sleep"]
<1>3. /\ IsCore(k) /\ k.state = "sleep" /\ k.clock = core[c].clock /\ k.elapsed = core[c].elapsed
      /\ k.callback = core[c].callback /\ k.cpi = core[c].cpi /\ k.since = core[c].since /\ k.late = core[c].late
  BY <1>2 DEF IsCore
<1>4. core' = [core EXCEPT ![c] = k]
  BY <1>1, <1>2
<1> HIDE DEF k
<1>5. core'[c] = k /\ DOMAIN core' = Core /\ \A d \in Core \ {c} : core'[d] = core[d]
  BY <1>2, <1>4
<1>6. AreCores(core')
  BY <1>2, <1>3, <1>5 DEF AreCores
<1>7. IsBarrier(bar') /\ bar'.ff = bar.ff /\ (~bar.ff => bar'.next = bar.next)
  BY <1>1, <1>2, <1>6, Starts
<1>8. smp.ff => AllCalled(core', LastTarget)
  BY <1>1, <1>3, <1>5 DEF Before, AllCalled, Called
<1>9. ~set.manager => Measured(set, core', smp.ff)
  BY <1>3, <1>5 DEF Before, Measured
<1>10. ~set.manager => AtBarrier(core', bar')
  <2> SUFFICES ASSUME ~set.manager PROVE AtBarrier(core', bar')
    OBVIOUS
  <2>1. \A d \in Core : Placed(core'[d], bar.next)
    BY <1>1, <1>3, <1>5 DEF Before, Placed
  <2> QED
    BY <1>1, <1>2, <1>6, <2>1, ReachedByWaiters
<1> QED
  BY <1>1, <1>6, <1>7, <1>8, <1>9, <1>10, ThreadStep

LEMMA AimedCore ==
    ASSUME set \in Setting, IsSampler(smp), NEW k, IsCore(k)
    PROVE  LET j == Aimed(k)
           IN  IsCore(j) /\ j.state = k.state /\ j.clock = k.clock /\ j.since = k.since /\ Called(j, LastTarget)
<1>1. /\ LastTarget \in Nat /\ smp.target \in Nat /\ smp.target <= LastTarget
      /\ ~set.manager /\ set.aim # Never => set.aim \in Nat /\ set.aim <= LastTarget
  BY LastTargetIsLast DEF IsSampler
<1> DEFINE i == Recalibrate(k, smp.target)
<1>2. IsCore(i) /\ i.state = k.state /\ i.clock = k.clock /\ i.since = k.since /\ Called(i, smp.target)
  BY <1>1, RecalibrateCore DEF Alike
<1> HIDE DEF i
<1>3. CASE set.manager
  <2> DEFINE j == OneIpc(k, smp.target)
  <2>1. IsCore(j) /\ j.state = k.state /\ j.clock = k.clock /\ j.since = k.since /\ Called(j, smp.target)
    BY <1>1, OneIpcCore
  <2>2. Aimed(k) = j
    BY <1>3 DEF Aimed
  <2> HIDE DEF j
  <2> QED
    BY <1>1, <2>1, <2>2, CalledLater
<1>4. CASE ~set.manager /\ set.aim = Never
  <2>1. Aimed(k) = i
    BY <1>4 DEF Aimed, i
  <2> QED
    BY <1>1, <1>2, <2>1, CalledLater
<1>5. CASE ~set.manager /\ set.aim # Never
  <2> DEFINE j == OneIpc(i, set.aim)
  <2>1. IsCore(j) /\ j.state = k.state /\ j.clock = k.clock /\ j.since = k.since /\ Called(j, set.aim)
    BY <1>1, <1>2, <1>5, OneIpcCore
  <2>2. Aimed(k) = j
    BY <1>5 DEF Aimed, i
  <2> HIDE DEF j
  <2> QED
    BY <1>1, <1>5, <2>1, <2>2, CalledLater
<1> QED
  BY <1>3, <1>4, <1>5

LEMMA WakeKeeps ==
    ASSUME Before, NEW c \in Core, NEW d \in Core, Wake(c, d)
    PROVE  Inv'
<1> DEFINE idle == IF smp.ff /\ ~smp.detailedSync THEN 0 ELSE Larger(0, core[d].elapsed - core[c].elapsed)
           i == [core[c] EXCEPT !.state = "run"]
           k == Advance(i, idle, 0, 0)
           j == IF smp.ff /\ smp.detailedSync THEN Aimed(k) ELSE k
<1>1. /\ core' = [core EXCEPT ![c] = j] /\ bar' = bar /\ set' = set /\ smp' = smp
      /\ ~bar.releasing /\ core[c].state = "sleep"
  BY DEF Wake
<1>2. AreCores(core) /\ IsBarrier(bar) /\ IsCore(core[c]) /\ IsCore(core[d]) /\ DOMAIN core = Core /\ smp.target \in Nat
  BY DEF Before, AreCores
<1>3. /\ IsCore(i) /\ i.state = "run" /\ i.clock = core[c].clock /\ i.elapsed = core[c].elapsed
      /\ i.callback = core[c].callback /\ i.cpi = core[c].cpi /\ i.since = core[c].since /\ i.late = core[c].late
  BY <1>2 DEF IsCore
<1>4. idle \in Nat /\ i.elapsed + idle \in Nat /\ idle \in Int
  BY <1>2, <1>3 DEF IsCore, Larger
<1>5. smp.ff /\ ~smp.detailedSync => idle = 0
  OBVIOUS
<1> HIDE DEF idle, i
<1>6. /\ IsCore(k) /\ k.state = "run" /\ k.clock = core[c].clock /\ k.elapsed = core[c].elapsed + idle
      /\ k.callback = core[c].callback /\ k.cpi = core[c].cpi /\ k.late = core[c].late
      /\ (~set.manager => k.since.forwarded = core[c].since.forwarded + 0)
  BY <1>3, <1>4, AdvanceCore DEF Alike
<1> HIDE DEF k
<1>7. /\ IsCore(Aimed(k)) /\ Aimed(k).state = "run" /\ Aimed(k).clock = k.clock /\ Aimed(k).since = k.since
      /\ Called(Aimed(k), LastTarget)
  BY <1>6, AimedCore DEF Before
<1>8. /\ IsCore(j) /\ j.state = "run" /\ j.clock = core[c].clock
      /\ (~set.manager => j.since.forwarded = core[c].since.forwarded + 0)
  BY <1>6, <1>7
<1>9. smp.ff => Called(j, LastTarget)
  <2>1. CASE smp.ff /\ smp.detailedSync
    BY <1>7, <2>1
  <2>2. CASE smp.ff /\ ~smp.detailedSync
    <3>1. k.elapsed = core[c].elapsed
      BY <1>2, <1>5, <1>6, <2>2 DEF IsCore
    <3>2. Called(core[c], LastTarget)
      BY <1>1, <2>2 DEF Before, AllCalled
    <3> QED
      BY <1>6, <2>2, <3>1, <3>2 DEF Called
  <2> QED
    BY <2>1, <2>2
<1> HIDE DEF j
<1>10. core'[c] = j /\ DOMAIN core' = Core /\ \A e \in Core \ {c} : core'[e] = core[e]
  BY <1>1, <1>2
<1>11. AreCores(core')
  BY <1>2, <1>8, <1>10 DEF AreCores
<1>12. smp.ff => AllCalled(core', LastTarget)
  BY <1>9, <1>10 DEF Before, AllCalled
<1>13. ~set.manager => Measured(set, core', smp.ff)
  <2> SUFFICES ASSUME ~set.manager, ~set.uncoordinated, ~smp.ff, NEW e \in Core
               PROVE  core'[e].since.forwarded = 0
    BY DEF Measured
  <2>1. core[e].since.forwarded = 0
    BY DEF Before, Measured
  <2>2. CASE e = c
    BY <1>8, <1>10, <2>1, <2>2
  <2> QED
    BY <1>10, <2>1, <2>2
<1>14. ~set.manager => AtBarrier(core', bar')
  BY <1>1, <1>8, <1>10 DEF Before, Placed, AtBarrier, OnlyWaiters
<1> QED
  BY <1>1, <1>2, <1>11, <1>12, <1>13, <1>14, ThreadStep

-----------------------------------------------------------------------------
(* The specification.                                                       *)

\* The manager starts fast-forwarding, sampling starts with a sample.
LEMMA InvStarts == Init => Inv
<1> SUFFICES ASSUME Init PROVE Inv
  OBVIOUS
<1>1. /\ set \in Setting /\ set.manager \in BOOLEAN /\ set.quantum \in Nat /\ set.quantum > 0
      /\ set.sync \in Nat /\ Never \notin Int
  BY SamplingAssumption DEF Init
<1>2. IsCore(NewCore) /\ NewCore.state = "run" /\ NewCore.clock = 0 /\ NewCore.since.forwarded = 0
  BY <1>1 DEF NewCore, NothingSince, IsCore
<1>3. IsBarrier(bar) /\ bar.ff = set.manager /\ bar.next = set.quantum /\ bar.releasing = FALSE
  BY <1>1 DEF Init, NewBarrier, IsBarrier
<1>4. /\ IsSampler(smp) /\ smp.ff = set.manager /\ smp.failed = FALSE /\ smp.planned = 0
      /\ smp.detailedLeft = 0 /\ smp.target = IF set.manager THEN set.sync ELSE 0
  BY <1>1 DEF Init, NewSampler, IsSampler
<1>5. CASE set.manager
  <2> DEFINE k == OneIpc(NewCore, set.sync)
  <2>1. core = [c \in Core |-> k]
    BY <1>5 DEF Init
  <2>2. IsCore(k) /\ Called(k, set.sync)
    BY <1>1, <1>2, OneIpcCore
  <2> HIDE DEF k
  <2>3. AreCores(core) /\ AllCalled(core, LastTarget)
    BY <1>4, <1>5, <2>1, <2>2 DEF AreCores, AllCalled, LastTarget
  <2> QED
    BY <1>1, <1>3, <1>4, <1>5, <2>3 DEF Inv, Typed, Sampled, Unfailed
<1>6. CASE ~set.manager
  <2>1. core = [c \in Core |-> NewCore]
    BY <1>6 DEF Init
  <2>2. AreCores(core)
    BY <1>2, <2>1 DEF AreCores
  <2>3. AtBarrier(core, bar)
    BY <1>1, <1>2, <1>3, <2>1 DEF AtBarrier, Placed, OnlyWaiters
  <2>4. Measured(set, core, smp.ff)
    BY <1>2, <2>1 DEF Measured
  <2>5. Cycle(set, smp) /\ Warmup(set, smp, bar.next)
    BY <1>4, <1>6 DEF Cycle, Warmup
  <2> QED
    BY <1>1, <1>3, <1>4, <1>6, <2>2, <2>3, <2>4, <2>5 DEF Inv, Typed, Sampled, Unfailed
<1> QED
  BY <1>5, <1>6

LEMMA InvSteps == Inv /\ [Next]_vars => Inv'
<1> SUFFICES ASSUME Inv, [Next]_vars PROVE Inv'
  OBVIOUS
<1>0. Before
  BY InvBefore
<1>1. CASE Release
  <2>1. /\ bar.releasing /\ set' = set
        /\ \/ ~set.manager /\ (EndSample \/ EndDetailedWarmup \/ GoOnDetailed \/ GoOnFastForward \/ EndFastForward)
           \/ set.manager /\ (ManagerStep \/ ManagerOff)
    BY <1>1 DEF Release
  <2>2. CASE ~set.manager
    BY <2>1, <2>2, EndSampleKeeps, EndDetailedWarmupKeeps, GoOnDetailedKeeps, GoOnFastForwardKeeps,
       EndFastForwardKeeps
  <2>3. CASE set.manager
    BY <2>1, <2>3, ManagerKeeps
  <2> QED
    BY <2>2, <2>3
<1>2. CASE BeginRegion \/ EndRegion
  BY <1>2, RegionKeeps
<1>3. ASSUME NEW c \in Core, Execute(c) PROVE Inv'
  <2>1. /\ ~bar.releasing /\ core[c].state = "run" /\ set' = set /\ smp' = smp
        /\ IF smp.ff THEN ExecuteFast(c) ELSE ExecuteDetailed(c)
    BY <1>3 DEF Execute
  <2>2. CASE smp.ff
    BY <1>0, <2>1, <2>2, ExecuteFastKeeps
  <2>3. CASE ~smp.ff
    BY <1>0, <2>1, <2>3, ExecuteDetailedKeeps
  <2> QED
    BY <2>2, <2>3
<1>4. ASSUME NEW c \in Core, Sleep(c) PROVE Inv'
  BY <1>0, <1>4, SleepKeeps
<1>5. ASSUME NEW c \in Core, NEW d \in Core, Wake(c, d) PROVE Inv'
  BY <1>0, <1>5, WakeKeeps
<1>6. CASE UNCHANGED vars
  BY <1>6 DEF vars, Inv, Typed, Sampled, LastTarget
<1> QED
  BY <1>1, <1>2, <1>3, <1>4, <1>5, <1>6 DEF Next

LEMMA InvIsSound == Inv => SamplingIsSound
<1> SUFFICES ASSUME Inv PROVE SamplingIsSound
  OBVIOUS
<1>1. SamplesAreDetailed
  BY DEF Inv, Sampled, Measured, SamplesAreDetailed
<1>2. CyclesAreComplete
  BY DEF Inv, Sampled, Cycle, Unfailed, CyclesAreComplete, WarmupIsComplete
<1>3. RunnersAreCalled
  BY DEF Inv, AllCalled, Called, RunnersAreCalled
<1>4. ~set.manager => ReleaseEnds
  BY DEF Inv, Sampled, AtBarrier, OnlyWaiters, ReleaseEnds, SomeoneWaits
<1> QED
  BY <1>1, <1>2, <1>3, <1>4 DEF SamplingIsSound

\* Whatever the lengths of the intervals, the costs of the instructions and the
\* order in which threads execute, sleep, wake one another and reach the
\* barrier: a sample measures detailed execution only, every cycle
\* fast-forwards for the configured time and, if a barrier interval fits
\* between the two, none ends before its detailed warm-up (the assertion of
\* callbackDetailed); a running core passes the last target it was given by no
\* more than an instruction and what memory accesses and branches added to it;
\* and under sampling barrierRelease always finds somebody to resume.
THEOREM SamplingSound == Spec => []SamplingIsSound
<1>1. Init => Inv
  BY InvStarts
<1>2. Inv /\ [Next]_vars => Inv'
  BY InvSteps
<1>3. Inv => SamplingIsSound
  BY InvIsSound
<1> QED
  BY <1>1, <1>2, <1>3, PTL DEF Spec
=============================================================================
