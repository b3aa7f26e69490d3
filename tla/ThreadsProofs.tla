---------------------------- MODULE ThreadsProofs ----------------------------
(***************************************************************************)
(* What the thread manager and the synchronization servers promise, for    *)
(* any number of threads, mutexes, conditions, barriers and futexes:       *)
(* nobody is forgotten, no futex wake-up is missed, a reported deadlock is *)
(* real, and each mutex is a lock with a line (FifoLock).                  *)
(*                                                                         *)
(* QueueInv says where each thread is: in the queue that its call put it   *)
(* into, and nowhere else.  One lemma per operation shows that it is kept; *)
(* they rest on EnterStep, LeaveStep and MovesPlaced, which say what a     *)
(* step does that blocks or resumes threads.  MutexInv relates the owner   *)
(* of a mutex to the threads that hold it or are about to.                 *)
(***************************************************************************)
EXTENDS Threads, TLAPS, FiniteSetTheorems, SequenceTheorems

-----------------------------------------------------------------------------
(* The queues of the synchronization servers (m_waiting of SimMutex,         *)
(* SimCond, SimBarrier and SimFutex, m_sleeping): what joining, leaving and  *)
(* moving do to the threads that stand in them.                              *)

\* m_waiting.push of a thread that is not in the queue yet: it comes in last, once.
LEMMA AppendQueue ==
    ASSUME NEW S, NEW s \in Seq(S), NEW e \in S
    PROVE  /\ Append(s, e) \in Seq(S)
           /\ ToSet(Append(s, e)) = ToSet(s) \cup {e}
           /\ IsInjective(s) /\ e \notin ToSet(s) => IsInjective(Append(s, e))
<1> DEFINE a == Append(s, e)
<1>1. /\ a \in Seq(S) /\ Len(a) = Len(s) + 1 /\ Len(s) \in Nat
      /\ \A i \in 1 .. Len(s) : a[i] = s[i]
      /\ a[Len(s) + 1] = e
      /\ DOMAIN a = 1 .. Len(s) + 1 /\ DOMAIN s = 1 .. Len(s)
  BY AppendProperties, LenProperties
<1> HIDE DEF a
<1>2. ToSet(a) = ToSet(s) \cup {e}
  <2>1. ASSUME NEW x \in ToSet(a) PROVE x \in ToSet(s) \cup {e}
    BY <1>1, <2>1 DEF ToSet
  <2>2. ASSUME NEW x \in ToSet(s) PROVE x \in ToSet(a)
    BY <1>1, <2>2 DEF ToSet
  <2>3. e \in ToSet(a)
    BY <1>1 DEF ToSet
  <2> QED BY <2>1, <2>2, <2>3
<1>3. ASSUME IsInjective(s), e \notin ToSet(s) PROVE IsInjective(a)
  BY <1>1, <1>3 DEF IsInjective, ToSet
<1> QED BY <1>1, <1>2, <1>3 DEF a

\* m_waiting.front and pop: the first of a queue leaves it, nobody else does.
LEMMA TailQueue ==
    ASSUME NEW S, NEW s \in Seq(S), s # <<>>, IsInjective(s)
    PROVE  /\ Tail(s) \in Seq(S)
           /\ Head(s) \in ToSet(s)
           /\ ToSet(Tail(s)) = ToSet(s) \ {Head(s)}
           /\ IsInjective(Tail(s))
<1> DEFINE a == Tail(s)
<1>1. /\ a \in Seq(S) /\ Len(s) \in Nat /\ Len(s) # 0 /\ Len(a) = Len(s) - 1
      /\ \A i \in 1 .. Len(s) - 1 : a[i] = s[i + 1]
      /\ Head(s) = s[1]
      /\ DOMAIN a = 1 .. Len(s) - 1 /\ DOMAIN s = 1 .. Len(s)
  BY HeadTailProperties, LenProperties, EmptySeq
<1> HIDE DEF a
<1>2. Head(s) \in ToSet(s) BY <1>1 DEF ToSet
<1>3. IsInjective(a) 
  <2>1. ASSUME NEW i \in DOMAIN a, NEW j \in DOMAIN a, a[i] = a[j] PROVE i = j
    <3>1. i + 1 \in DOMAIN s /\ j + 1 \in DOMAIN s BY <1>1
    <3>2. s[i + 1] = s[j + 1] BY <1>1, <2>1
    <3> QED BY <1>1, <3>1, <3>2 DEF IsInjective
  <2> QED BY <2>1 DEF IsInjective
<1>4. ASSUME NEW x \in ToSet(a) PROVE x \in ToSet(s) \ {Head(s)}
  <2>1. PICK i \in DOMAIN a : x = a[i] BY DEF ToSet
  <2>2. i + 1 \in DOMAIN s /\ 1 \in DOMAIN s /\ x = s[i + 1] /\ i + 1 # 1 BY <1>1, <2>1
  <2> QED BY <1>1, <2>2 DEF ToSet, IsInjective
<1>5. ASSUME NEW x \in ToSet(s), x # Head(s) PROVE x \in ToSet(a)
  <2>1. PICK i \in DOMAIN s : x = s[i] BY DEF ToSet
  <2>2. i - 1 \in DOMAIN a /\ x = a[i - 1] BY <1>1, <1>5, <2>1
  <2> QED BY <2>2 DEF ToSet
<1> QED BY <1>1, <1>2, <1>3, <1>4, <1>5 DEF a

\* A queue that takes over another one: nobody is lost or doubled if they shared nobody.
LEMMA ConcatQueue ==
    ASSUME NEW S, NEW s \in Seq(S), NEW r \in Seq(S)
    PROVE  /\ s \o r \in Seq(S)
           /\ ToSet(s \o r) = ToSet(s) \cup ToSet(r)
           /\ IsInjective(s) /\ IsInjective(r) /\ ToSet(s) \cap ToSet(r) = {}
                => IsInjective(s \o r)
<1> DEFINE a == s \o r
<1>1. /\ a \in Seq(S) /\ Len(s) \in Nat /\ Len(r) \in Nat
      /\ \A i \in 1 .. Len(s) + Len(r) : a[i] = IF i <= Len(s) THEN s[i] ELSE r[i - Len(s)]
      /\ DOMAIN a = 1 .. Len(s) + Len(r) /\ DOMAIN s = 1 .. Len(s) /\ DOMAIN r = 1 .. Len(r)
  BY ConcatProperties, LenProperties
<1> HIDE DEF a
<1>2. ASSUME NEW i \in DOMAIN s PROVE i \in DOMAIN a /\ a[i] = s[i] BY <1>1
<1>3. ASSUME NEW i \in DOMAIN r PROVE i + Len(s) \in DOMAIN a /\ a[i + Len(s)] = r[i]
  BY <1>1
<1>4. ASSUME NEW i \in DOMAIN a
      PROVE  \/ i \in DOMAIN s /\ a[i] = s[i]
             \/ i - Len(s) \in DOMAIN r /\ a[i] = r[i - Len(s)]
  BY <1>1
<1>5. ToSet(a) = ToSet(s) \cup ToSet(r)
  <2>1. ASSUME NEW x \in ToSet(a) PROVE x \in ToSet(s) \cup ToSet(r)
    BY <1>4 DEF ToSet
  <2>2. ASSUME NEW x \in ToSet(s) PROVE x \in ToSet(a)
    BY <1>2 DEF ToSet
  <2>3. ASSUME NEW x \in ToSet(r) PROVE x \in ToSet(a)
    BY <1>3 DEF ToSet
  <2> QED BY <2>1, <2>2, <2>3
<1>6. ASSUME IsInjective(s), IsInjective(r), ToSet(s) \cap ToSet(r) = {}
      PROVE  IsInjective(a)
  <2>1. ASSUME NEW i \in DOMAIN s, NEW j \in DOMAIN r PROVE s[i] # r[j]
    BY <1>6 DEF ToSet
  <2>2. ASSUME NEW i \in DOMAIN a, NEW j \in DOMAIN a, a[i] = a[j] PROVE i = j
    <3>1. CASE i \in DOMAIN s /\ j \in DOMAIN s
      BY <3>1, <1>2, <1>6, <2>2 DEF IsInjective
    <3>2. CASE i \in DOMAIN s /\ j \notin DOMAIN s
      BY <3>2, <1>2, <1>4, <2>1, <2>2
    <3>3. CASE i \notin DOMAIN s /\ j \in DOMAIN s
      BY <3>3, <1>2, <1>4, <2>1, <2>2
    <3>4. CASE i \notin DOMAIN s /\ j \notin DOMAIN s
      <4>1. i - Len(s) = j - Len(s) 
        BY <3>4, <1>4, <1>6, <2>2 DEF IsInjective
      <4> QED BY <4>1, <1>1
    <3> QED BY <3>1, <3>2, <3>3, <3>4
  <2> QED BY <2>2 DEF IsInjective
<1> QED BY <1>1, <1>5, <1>6 DEF a

\* SimFutex::enqueueWaiter and SimCond::wait: the thread of a new waiter joins the queue.
LEMMA AppendWaiters ==
    ASSUME NEW S, NEW s \in Seq(S), NEW e \in S
    PROVE  /\ Append(s, e) \in Seq(S)
           /\ ThreadsOf(Append(s, e)) = ThreadsOf(s) \cup {e.thread}
           /\ OnceEach(s) /\ e.thread \notin ThreadsOf(s) => OnceEach(Append(s, e))
<1> DEFINE a == Append(s, e)
<1>1. /\ a \in Seq(S) /\ Len(a) = Len(s) + 1 /\ Len(s) \in Nat
      /\ \A i \in 1 .. Len(s) : a[i] = s[i]
      /\ a[Len(s) + 1] = e
      /\ DOMAIN a = 1 .. Len(s) + 1 /\ DOMAIN s = 1 .. Len(s)
  BY AppendProperties, LenProperties
<1> HIDE DEF a
<1>2. ThreadsOf(a) = ThreadsOf(s) \cup {e.thread}
  <2>1. ASSUME NEW x \in ThreadsOf(a) PROVE x \in ThreadsOf(s) \cup {e.thread}
    BY <1>1, <2>1 DEF ThreadsOf
  <2>2. ASSUME NEW x \in ThreadsOf(s) PROVE x \in ThreadsOf(a)
    BY <1>1, <2>2 DEF ThreadsOf
  <2>3. e.thread \in ThreadsOf(a)
    BY <1>1 DEF ThreadsOf
  <2> QED BY <2>1, <2>2, <2>3
<1>3. ASSUME OnceEach(s), e.thread \notin ThreadsOf(s) PROVE OnceEach(a)
  BY <1>1, <1>3 DEF OnceEach, ThreadsOf
<1> QED BY <1>1, <1>2, <1>3 DEF a

\* The threads of the first n waiters.
FirstN(s, n) == {s[i].thread : i \in DOMAIN s \cap 1 .. n}

\* SimFutex::dequeueWaiter called n times: the first n waiters leave, the others stay.
LEMMA DropWaiters ==
    ASSUME NEW S, NEW s \in Seq(S), NEW n \in Nat, OnceEach(s)
    PROVE  /\ SubSeq(s, n + 1, Len(s)) \in Seq(S)
           /\ ThreadsOf(SubSeq(s, n + 1, Len(s))) = ThreadsOf(s) \ FirstN(s, n)
           /\ OnceEach(SubSeq(s, n + 1, Len(s)))
           /\ FirstN(s, n) \subseteq ThreadsOf(s)
           /\ ToSet(SubSeq(s, n + 1, Len(s))) \subseteq ToSet(s)
<1> DEFINE a == SubSeq(s, n + 1, Len(s))
<1>0. /\ Len(s) \in Nat /\ DOMAIN s = 1 .. Len(s) /\ \A i \in 1 .. Len(s) : s[i] \in S
  BY LenProperties
<1>1. /\ a \in Seq(S)
      /\ \A i \in DOMAIN a : a[i] = s[i + n]
      /\ DOMAIN a = {i \in Nat \ {0} : i + n <= Len(s)}
  <2>1. \A i \in n + 1 .. Len(s) : s[i] \in S BY <1>0
  <2>2. /\ a \in Seq(S)
        /\ Len(a) = IF n + 1 <= Len(s) THEN Len(s) - (n + 1) + 1 ELSE 0
        /\ \A i \in 1 .. Len(s) - (n + 1) + 1 : a[i] = s[n + 1 + i - 1]
    BY <1>0, <2>1, SubSeqProperties
  <2> HIDE DEF a
  <2>3. DOMAIN a = {i \in Nat \ {0} : i + n <= Len(s)}
    <3>1. DOMAIN a = 1 .. Len(a) BY <2>2, LenProperties
    <3>2. CASE n + 1 <= Len(s)
      <4>1. Len(a) = Len(s) - n BY <1>0, <2>2, <3>2
      <4> QED BY <1>0, <3>1, <4>1
    <3>3. CASE ~(n + 1 <= Len(s))
      <4>1. Len(a) = 0 BY <2>2, <3>3
      <4> QED BY <1>0, <3>1, <3>3, <4>1
    <3> QED BY <3>2, <3>3
  <2>4. ASSUME NEW i \in DOMAIN a PROVE a[i] = s[i + n]
    <3>1. i \in 1 .. Len(s) - (n + 1) + 1 /\ n + 1 + i - 1 = i + n BY <1>0, <2>3
    <3> QED BY <2>2, <3>1
  <2> QED BY <2>2, <2>3, <2>4
<1> HIDE DEF a
<1>2. ASSUME NEW i \in DOMAIN a PROVE i + n \in DOMAIN s /\ a[i] = s[i + n] /\ i + n \notin 1 .. n
  BY <1>0, <1>1
<1>3. ASSUME NEW i \in DOMAIN s, i \notin 1 .. n PROVE i - n \in DOMAIN a /\ a[i - n] = s[i]
  BY <1>0, <1>1, <1>3
<1>4. OnceEach(a)
  <2>1. ASSUME NEW i \in DOMAIN a, NEW j \in DOMAIN a, a[i].thread = a[j].thread PROVE i = j
    <3>1. i + n = j + n BY <1>2, <2>1 DEF OnceEach
    <3> QED BY <3>1, <1>0, <1>1
  <2> QED BY <2>1 DEF OnceEach
<1>5. FirstN(s, n) \subseteq ThreadsOf(s) BY DEF FirstN, ThreadsOf
<1>6. ASSUME NEW x \in ThreadsOf(a) PROVE x \in ThreadsOf(s) \ FirstN(s, n)
  <2>1. PICK i \in DOMAIN a : x = a[i].thread BY DEF ThreadsOf
  <2>2. i + n \in DOMAIN s /\ x = s[i + n].thread /\ i + n \notin 1 .. n BY <1>2, <2>1
  <2>3. x \notin FirstN(s, n) BY <2>2 DEF FirstN, OnceEach
  <2> QED BY <2>2, <2>3 DEF ThreadsOf
<1>7. ASSUME NEW x \in ThreadsOf(s), x \notin FirstN(s, n) PROVE x \in ThreadsOf(a)
  <2>1. PICK i \in DOMAIN s : x = s[i].thread BY DEF ThreadsOf
  <2>2. i \notin 1 .. n BY <2>1, <1>7 DEF FirstN
  <2> QED BY <1>3, <2>1, <2>2 DEF ThreadsOf
<1>8. ToSet(a) \subseteq ToSet(s) BY <1>2 DEF ToSet
<1> QED BY <1>1, <1>4, <1>5, <1>6, <1>7, <1>8 DEF a

\* SimFutex::requeueWaiter: a queue of waiters takes over another one.
LEMMA ConcatWaiters ==
    ASSUME NEW S, NEW s \in Seq(S), NEW r \in Seq(S)
    PROVE  /\ s \o r \in Seq(S)
           /\ ThreadsOf(s \o r) = ThreadsOf(s) \cup ThreadsOf(r)
           /\ OnceEach(s) /\ OnceEach(r) /\ ThreadsOf(s) \cap ThreadsOf(r) = {}
                => OnceEach(s \o r)
<1> DEFINE a == s \o r
<1>1. /\ a \in Seq(S) /\ Len(s) \in Nat /\ Len(r) \in Nat
      /\ \A i \in 1 .. Len(s) + Len(r) : a[i] = IF i <= Len(s) THEN s[i] ELSE r[i - Len(s)]
      /\ DOMAIN a = 1 .. Len(s) + Len(r) /\ DOMAIN s = 1 .. Len(s) /\ DOMAIN r = 1 .. Len(r)
  BY ConcatProperties, LenProperties
<1> HIDE DEF a
<1>2. ASSUME NEW i \in DOMAIN s PROVE i \in DOMAIN a /\ a[i] = s[i] BY <1>1
<1>3. ASSUME NEW i \in DOMAIN r PROVE i + Len(s) \in DOMAIN a /\ a[i + Len(s)] = r[i]
  BY <1>1
<1>4. ASSUME NEW i \in DOMAIN a
      PROVE  \/ i \in DOMAIN s /\ a[i] = s[i]
             \/ i - Len(s) \in DOMAIN r /\ a[i] = r[i - Len(s)]
  BY <1>1
<1>5. ThreadsOf(a) = ThreadsOf(s) \cup ThreadsOf(r)
  <2>1. ASSUME NEW x \in ThreadsOf(a) PROVE x \in ThreadsOf(s) \cup ThreadsOf(r)
    BY <1>4 DEF ThreadsOf
  <2>2. ASSUME NEW x \in ThreadsOf(s) PROVE x \in ThreadsOf(a)
    BY <1>2 DEF ThreadsOf
  <2>3. ASSUME NEW x \in ThreadsOf(r) PROVE x \in ThreadsOf(a)
    BY <1>3 DEF ThreadsOf
  <2> QED BY <2>1, <2>2, <2>3
<1>6. ASSUME OnceEach(s), OnceEach(r), ThreadsOf(s) \cap ThreadsOf(r) = {}
      PROVE  OnceEach(a)
  <2>1. ASSUME NEW i \in DOMAIN s, NEW j \in DOMAIN r PROVE s[i].thread # r[j].thread
    BY <1>6 DEF ThreadsOf
  <2>2. ASSUME NEW i \in DOMAIN a, NEW j \in DOMAIN a, a[i].thread = a[j].thread PROVE i = j
    <3>1. CASE i \in DOMAIN s /\ j \in DOMAIN s
      BY <3>1, <1>2, <1>6, <2>2 DEF OnceEach
    <3>2. CASE i \in DOMAIN s /\ j \notin DOMAIN s
      BY <3>2, <1>2, <1>4, <2>1, <2>2
    <3>3. CASE i \notin DOMAIN s /\ j \in DOMAIN s
      BY <3>3, <1>2, <1>4, <2>1, <2>2
    <3>4. CASE i \notin DOMAIN s /\ j \notin DOMAIN s
      <4>1. i - Len(s) = j - Len(s) 
        BY <3>4, <1>4, <1>6, <2>2 DEF OnceEach
      <4> QED BY <4>1, <1>1
    <3> QED BY <3>1, <3>2, <3>3, <3>4
  <2> QED BY <2>2 DEF OnceEach
<1> QED BY <1>1, <1>5, <1>6 DEF a

\* SimFutex::wakeTimedOut erases one waiter: only its thread leaves the queue.
LEMMA RemoveWaiter ==
    ASSUME NEW S, NEW s \in Seq(S), NEW n \in DOMAIN s, OnceEach(s)
    PROVE  /\ RemoveAt(s, n) \in Seq(S)
           /\ ThreadsOf(RemoveAt(s, n)) = ThreadsOf(s) \ {s[n].thread}
           /\ OnceEach(RemoveAt(s, n))
           /\ ToSet(RemoveAt(s, n)) \subseteq ToSet(s)
<1> DEFINE h == SubSeq(s, 1, n - 1)
           r == SubSeq(s, n + 1, Len(s))
<1>0. /\ Len(s) \in Nat /\ DOMAIN s = 1 .. Len(s) /\ n \in 1 .. Len(s) /\ \A i \in 1 .. Len(s) : s[i] \in S
  BY LenProperties
<1>1. /\ r \in Seq(S) /\ OnceEach(r)
      /\ ThreadsOf(r) = ThreadsOf(s) \ FirstN(s, n)
      /\ ToSet(r) \subseteq ToSet(s)
  <2>1. n \in Nat BY <1>0
  <2> QED BY <2>1, DropWaiters
<1>2. /\ h \in Seq(S) /\ DOMAIN h = 1 .. n - 1
      /\ \A i \in 1 .. n - 1 : h[i] = s[i]
  <2>1. \A i \in 1 .. n - 1 : s[i] \in S BY <1>0
  <2>2. /\ h \in Seq(S) /\ Len(h) = IF 1 <= n - 1 THEN n - 1 - 1 + 1 ELSE 0
        /\ \A i \in 1 .. n - 1 - 1 + 1 : h[i] = s[1 + i - 1]
    BY <1>0, <2>1, SubSeqProperties
  <2> HIDE DEF h
  <2>3. DOMAIN h = 1 .. Len(h) /\ Len(h) = n - 1 BY <1>0, <2>2, LenProperties
  <2>4. ASSUME NEW i \in 1 .. n - 1 PROVE h[i] = s[i]
    <3>1. i \in 1 .. n - 1 - 1 + 1 /\ 1 + i - 1 = i BY <1>0
    <3> QED BY <2>2, <3>1
  <2> QED BY <2>2, <2>3, <2>4
<1>3. RemoveAt(s, n) = h \o r BY DEF RemoveAt
<1> HIDE DEF h, r
<1>4. OnceEach(h) BY <1>0, <1>2 DEF OnceEach
<1>5. ThreadsOf(h) \subseteq FirstN(s, n) \ {s[n].thread}
  BY <1>0, <1>2 DEF ThreadsOf, FirstN, OnceEach
<1>6. FirstN(s, n) \subseteq ThreadsOf(h) \cup {s[n].thread}
  <2>1. ASSUME NEW i \in DOMAIN s \cap 1 .. n PROVE s[i].thread \in ThreadsOf(h) \cup {s[n].thread}
    <3>1. CASE i = n BY <3>1
    <3>2. CASE i # n
      <4>1. i \in DOMAIN h /\ h[i] = s[i] BY <1>0, <1>2, <2>1, <3>2
      <4> QED BY <4>1 DEF ThreadsOf
    <3> QED BY <3>1, <3>2
  <2> QED BY <2>1 DEF FirstN
<1>7. ThreadsOf(h) \cap ThreadsOf(r) = {} BY <1>1, <1>5
<1>8. /\ h \o r \in Seq(S) /\ ThreadsOf(h \o r) = ThreadsOf(h) \cup ThreadsOf(r)
      /\ OnceEach(h \o r)
  <2>1. h \in Seq(S) /\ r \in Seq(S) BY <1>1, <1>2
  <2>2. OnceEach(r) BY <1>1
  <2> QED BY <2>1, <2>2, <1>4, <1>7, ConcatWaiters
<1>9. s[n].thread \in FirstN(s, n) /\ FirstN(s, n) \subseteq ThreadsOf(s) BY <1>0 DEF FirstN, ThreadsOf
<1>10. ThreadsOf(h \o r) = ThreadsOf(s) \ {s[n].thread}
  BY <1>1, <1>5, <1>6, <1>8, <1>9
<1>11. ToSet(h \o r) \subseteq ToSet(s)
  <2>1. ToSet(h) \subseteq ToSet(s) BY <1>0, <1>2 DEF ToSet
  <2>2. ToSet(h \o r) = ToSet(h) \cup ToSet(r) BY <1>1, <1>2, ConcatQueue
  <2> QED BY <1>1, <2>1, <2>2
<1> QED BY <1>3, <1>8, <1>10, <1>11

\* The smallest of some timeouts, as getNextTimeout takes it, exists.
LEMMA LeastNat ==
    ASSUME NEW T \in SUBSET Nat, T # {}
    PROVE  Min(T) \in T /\ \A y \in T : Min(T) <= y
<1> DEFINE P == {ss \in Nat \X Nat : ss[1] < ss[2]}
<1>1. IsWellFoundedOn(P, Nat)
  BY NatLessThanWellFounded DEF OpToRel
<1> HIDE DEF P
<1>2. PICK x \in T : \A y \in T : ~(<<y, x>> \in P)
  BY <1>1, WFMin
<1>3. ASSUME NEW y \in T PROVE x <= y
  <2>1. ~(<<y, x>> \in P) /\ x \in Nat /\ y \in Nat
    BY <1>2
  <2>2. ~(y < x) BY <2>1 DEF P
  <2> QED BY <2>1, <2>2
<1> QED BY <1>2, <1>3 DEF Min

\* The last place of a queue with some property exists.
LEMMA GreatestNat ==
    ASSUME NEW T \in SUBSET Nat, T # {}, NEW n \in Nat, \A y \in T : y <= n
    PROVE  Max(T) \in T /\ \A y \in T : Max(T) >= y
<1> DEFINE U == {k \in Nat : \A y \in T : y <= k}
<1>1. U \in SUBSET Nat /\ U # {} OBVIOUS
<1>2. Min(U) \in U /\ \A k \in U : Min(U) <= k BY <1>1, LeastNat
<1> DEFINE u == Min(U)
<1>3. u \in Nat /\ \A y \in T : y <= u BY <1>2
<1>4. u \in T
  <2> SUFFICES ASSUME u \notin T PROVE FALSE OBVIOUS
  <2>1. PICK y \in T : TRUE OBVIOUS
  <2>2. u # 0 BY <1>3, <2>1
  <2>3. u - 1 \in Nat BY <1>3, <2>2
  <2> HIDE DEF u
  <2>4. \A z \in T : z <= u - 1 BY <1>3
  <2>5. u - 1 \in U BY <2>3, <2>4
  <2>6. u <= u - 1 BY <1>2, <2>5 DEF u
  <2> QED BY <1>3, <2>6
<1> HIDE DEF u
<1> QED BY <1>3, <1>4 DEF Max

\* The waiter that wakeTimedOut finds is one of the queue.
LEMMA FirstDueInQueue ==
    ASSUME NEW S, NEW q \in Seq(S), NEW time
    PROVE  FirstDue(q, time) = 0 \/ FirstDue(q, time) \in DOMAIN q
<1> DEFINE I == {i \in 1 .. Len(q) : q[i].timeout <= time}
<1>1. FirstDue(q, time) = IF I # {} THEN Min(I) ELSE 0
  BY DEF FirstDue, SelectInSeq
<1>2. DOMAIN q = 1 .. Len(q) /\ Len(q) \in Nat BY LenProperties
<1>3. I \subseteq 1 .. Len(q) /\ I \in SUBSET Nat BY <1>2
<1> HIDE DEF I
<1>4. I # {} => Min(I) \in I BY <1>3, LeastNat
<1> QED BY <1>1, <1>2, <1>3, <1>4

\* getNextTimeout finds no timeout in a queue only if nobody there has one.
LEMMA LastFiniteBounds ==
    ASSUME NEW S, NEW q \in Seq(S), \A i \in DOMAIN q : q[i].timeout \in 1 .. Never
    PROVE  /\ LastFinite(q) \in Nat
           /\ LastFinite(q) >= Never => \A i \in DOMAIN q : q[i].timeout = Never
<1> DEFINE I == {i \in 1 .. Len(q) : q[i].timeout < Never}
           m == Max(I)
<1>0. SelectLastInSeq(q, LAMBDA w : w.timeout < Never) = IF I # {} THEN m ELSE 0
  BY DEF SelectLastInSeq
<1>1. LastFinite(q) = IF (IF I # {} THEN m ELSE 0) = 0 THEN Never
                      ELSE q[IF I # {} THEN m ELSE 0].timeout
  BY <1>0 DEF LastFinite
<1>2. DOMAIN q = 1 .. Len(q) /\ Len(q) \in Nat /\ Never \in Nat
  BY LenProperties, SyscallAssumption DEF Never
<1>3. I \subseteq 1 .. Len(q) /\ I \in SUBSET Nat BY <1>2
<1>4. CASE I # {}
  <2>1. m \in I
    <3> HIDE DEF I
    <3>1. \A i \in I : i <= Len(q) BY <1>2, <1>3
    <3> QED BY <1>2, <1>3, <1>4, <3>1, GreatestNat
  <2>2. m \in 1 .. Len(q) /\ q[m].timeout < Never /\ m # 0 BY <1>2, <2>1
  <2> HIDE DEF m, I
  <2>3. LastFinite(q) = q[m].timeout BY <1>1, <1>4, <2>2
  <2> QED BY <1>2, <2>2, <2>3
<1>5. CASE I = {}
  <2>1. LastFinite(q) = Never BY <1>1, <1>5
  <2>2. ASSUME NEW i \in DOMAIN q PROVE q[i].timeout = Never
    <3>1. ~(q[i].timeout < Never) BY <1>2, <1>5, <2>2
    <3> QED BY <1>2, <2>2, <3>1
  <2> QED BY <1>2, <2>1, <2>2
<1> QED BY <1>4, <1>5

\* FUTEX_WAKE with INT_MAX: no queue is longer than there are threads, so all leave it.
LEMMA QueueFitsThreads ==
    ASSUME NEW S, NEW q \in Seq(S), OnceEach(q), ThreadsOf(q) \subseteq Thread
    PROVE  /\ All \in Nat
           /\ SubSeq(q, All + 1, Len(q)) = <<>>
           /\ FirstN(q, All) = ThreadsOf(q)
<1> DEFINE f == [i \in 1 .. Len(q) |-> q[i].thread]
<1>1. DOMAIN q = 1 .. Len(q) /\ Len(q) \in Nat BY LenProperties
<1>2. f \in Injection(1 .. Len(q), Thread)
  <2>1. ASSUME NEW i \in 1 .. Len(q) PROVE q[i].thread \in Thread BY <1>1 DEF ThreadsOf
  <2>2. f \in [1 .. Len(q) -> Thread] BY <2>1
  <2>3. IsInjective(f) BY <1>1 DEF IsInjective, OnceEach
  <2> QED BY <2>2, <2>3 DEF Injection
<1>3. Cardinality(1 .. Len(q)) <= Cardinality(Thread)
  BY <1>2, ThreadAssumption, FS_Injection
<1>4. Cardinality(1 .. Len(q)) = Len(q)
  <2>1. 1 \in Int /\ Len(q) \in Int BY <1>1
  <2>2. Cardinality(1 .. Len(q)) = IF 1 > Len(q) THEN 0 ELSE Len(q) - 1 + 1 BY <2>1, FS_Interval
  <2> QED BY <1>1, <2>2
<1>5. All \in Nat /\ Len(q) <= All
  BY <1>3, <1>4, ThreadAssumption, FS_CardinalityType DEF All
<1>6. SubSeq(q, All + 1, Len(q)) = <<>> BY <1>1, <1>5, SubSeqEmpty
<1>7. DOMAIN q \cap 1 .. All = DOMAIN q BY <1>1, <1>5
<1> QED BY <1>5, <1>6, <1>7 DEF FirstN, ThreadsOf

\* The places in ws of those who want mutex m.
AskedFor(ws, m) == {i \in DOMAIN ws : ws[i].mutex = m}
\* The rank of place i among the places I.
Rank(I, i) == Cardinality({j \in I : j <= i})

\* Ranks number the places 1, 2, ... without a gap.
LEMMA RankIsOneToOne ==
    ASSUME NEW n \in Nat, NEW I, I \subseteq 1 .. n
    PROVE  /\ Cardinality(I) \in Nat
           /\ \A i \in I : Rank(I, i) \in 1 .. Cardinality(I)
           /\ \A i, j \in I : Rank(I, i) = Rank(I, j) => i = j
           /\ \A k \in 1 .. Cardinality(I) : \E i \in I : Rank(I, i) = k
<1> DEFINE below(i) == {j \in I : j <= i}
<1>1. IsFiniteSet(I) /\ Cardinality(I) \in Nat
  <2>1. IsFiniteSet(1 .. n) BY FS_Interval
  <2> QED BY <2>1, FS_Subset, FS_CardinalityType
<1>2. ASSUME NEW i \in I
      PROVE  /\ IsFiniteSet(below(i)) /\ Rank(I, i) \in Nat /\ Rank(I, i) <= Cardinality(I)
             /\ Rank(I, i) = Cardinality(below(i)) /\ Rank(I, i) # 0
  <2>1. below(i) \in SUBSET I /\ i \in below(i) OBVIOUS
  <2>2. Rank(I, i) = Cardinality(below(i)) BY DEF Rank
  <2> HIDE DEF below
  <2>3. IsFiniteSet(below(i)) /\ Cardinality(below(i)) <= Cardinality(I) BY <1>1, <2>1, FS_Subset
  <2>4. Cardinality(below(i)) \in Nat /\ Cardinality(below(i)) # 0
    BY <2>1, <2>3, FS_CardinalityType, FS_EmptySet
  <2> QED BY <2>2, <2>3, <2>4
<1>3. ASSUME NEW i \in I, NEW j \in I, i < j PROVE Rank(I, i) # Rank(I, j)
  <2>1. below(i) \in SUBSET below(j) /\ j \in below(j) /\ j \notin below(i)
    <3>1. i \in Int /\ j \in Int /\ \A k \in I : k \in Int OBVIOUS
    <3>2. \A k \in I : k <= i => k <= j BY <1>3, <3>1
    <3>3. below(i) \subseteq below(j) BY <3>2
    <3>4. j <= j /\ ~(j <= i) BY <1>3, <3>1
    <3>5. j \in below(j) /\ j \notin below(i) BY <3>4
    <3> QED BY <3>3, <3>5
  <2> HIDE DEF below
  <2>2. below(i) # below(j) BY <2>1
  <2>3. Cardinality(below(j)) # Cardinality(below(i)) BY <1>2, <2>1, <2>2, FS_Subset
  <2> QED BY <1>2, <2>3
<1>4. ASSUME NEW i \in I, NEW j \in I, Rank(I, i) = Rank(I, j) PROVE i = j
  BY <1>3, <1>4
<1>5. ASSUME NEW i \in I PROVE Rank(I, i) \in 1 .. Cardinality(I)
  <2>1. Rank(I, i) \in Nat /\ Rank(I, i) <= Cardinality(I) /\ Rank(I, i) # 0 BY <1>2
  <2> QED BY <1>1, <2>1
<1> DEFINE r == [i \in I |-> Rank(I, i)]
           R == 1 .. Cardinality(I)
<1>6. r \in Injection(I, R)
  <2>1. r \in [I -> R] BY <1>5
  <2>2. IsInjective(r) BY <1>4 DEF IsInjective
  <2> QED BY <2>1, <2>2 DEF Injection
<1>7. IsFiniteSet(R) /\ Cardinality(R) = Cardinality(I)
  <2>1. 1 \in Int /\ Cardinality(I) \in Int BY <1>1
  <2>2. /\ IsFiniteSet(R)
        /\ Cardinality(R) = IF 1 > Cardinality(I) THEN 0 ELSE Cardinality(I) - 1 + 1
    BY <2>1, FS_Interval
  <2> QED BY <1>1, <2>2
<1>8. r \in Surjection(I, R)
  <2> HIDE DEF r, R
  <2> QED BY <1>6, <1>7, FS_Injection
<1>9. ASSUME NEW k \in R PROVE \E i \in I : Rank(I, i) = k
  BY <1>8 DEF Surjection
<1> QED BY <1>1, <1>4, <1>5, <1>9

\* SimMutex::lock_async for each waiter of a condition: those who want m, each once.
LEMMA WokenInOrder ==
    ASSUME NEW ws \in Seq([thread : Thread, mutex : Mutex]), OnceEach(ws), NEW m \in Mutex
    PROVE  /\ WokenThreads(ws, m) \in Seq(Thread)
           /\ IsInjective(WokenThreads(ws, m))
           /\ ToSet(WokenThreads(ws, m)) = {ws[i].thread : i \in AskedFor(ws, m)}
<1> DEFINE I == AskedFor(ws, m)
           n == Cardinality(I)
           Nth(k) == CHOOSE i \in I : Rank(I, i) = k
           w == [k \in 1 .. n |-> ws[Nth(k)].thread]
<1>1. WokenThreads(ws, m) = w
  BY DEF WokenThreads, AskedFor, Rank
<1>2. DOMAIN ws = 1 .. Len(ws) /\ Len(ws) \in Nat /\ \A i \in DOMAIN ws : ws[i].thread \in Thread
  <2>1. DOMAIN ws = 1 .. Len(ws) /\ Len(ws) \in Nat BY LenProperties
  <2>2. ASSUME NEW i \in DOMAIN ws PROVE ws[i] \in [thread : Thread, mutex : Mutex]
    BY <2>1, ElementOfSeq
  <2> QED BY <2>1, <2>2
<1>3. I \subseteq 1 .. Len(ws) BY <1>2 DEF AskedFor
<1>4. /\ n \in Nat
      /\ \A i \in I : Rank(I, i) \in 1 .. n
      /\ \A i, j \in I : Rank(I, i) = Rank(I, j) => i = j
      /\ \A k \in 1 .. n : \E i \in I : Rank(I, i) = k
  <2> HIDE DEF I
  <2> QED BY <1>2, <1>3, RankIsOneToOne
<1>5. ASSUME NEW k \in 1 .. n PROVE Nth(k) \in I /\ Rank(I, Nth(k)) = k
  <2> HIDE DEF I
  <2> QED BY <1>4
<1>6. ASSUME NEW i \in I PROVE Nth(Rank(I, i)) = i
  <2> HIDE DEF I
  <2> QED BY <1>4
<1> HIDE DEF I, n, Nth
<1>7. w \in Seq(Thread)
  <2>1. \A k \in 1 .. n : ws[Nth(k)].thread \in Thread BY <1>2, <1>3, <1>5
  <2> QED BY <1>4, <2>1, IsASeq
<1>8. IsInjective(w)
  <2>1. ASSUME NEW k \in 1 .. n, NEW l \in 1 .. n, w[k] = w[l] PROVE k = l
    <3>1. Nth(k) \in DOMAIN ws /\ Nth(l) \in DOMAIN ws BY <1>2, <1>3, <1>5
    <3>2. ws[Nth(k)].thread = ws[Nth(l)].thread BY <2>1
    <3>3. Nth(k) = Nth(l) BY <3>1, <3>2 DEF OnceEach
    <3> QED BY <1>5, <3>3
  <2>2. DOMAIN w = 1 .. n OBVIOUS
  <2> HIDE DEF w
  <2> QED BY <2>1, <2>2 DEF IsInjective
<1>9. ToSet(w) = {ws[i].thread : i \in I}
  <2>1. ASSUME NEW k \in 1 .. n PROVE w[k] \in {ws[i].thread : i \in I} BY <1>5
  <2>2. ASSUME NEW i \in I PROVE \E k \in 1 .. n : w[k] = ws[i].thread BY <1>4, <1>6
  <2>3. DOMAIN w = 1 .. n OBVIOUS
  <2> HIDE DEF w
  <2> QED BY <2>1, <2>2, <2>3 DEF ToSet
<1> QED BY <1>1, <1>7, <1>8, <1>9 DEF I

-----------------------------------------------------------------------------
\* The programs: none joins a thread that may not have started, none tries to lock a
\* mutex it holds.
Orderly == \A p \in Profiles : "early_join" \notin p /\ "try_owned" \notin p

-----------------------------------------------------------------------------
\* The calls a thread may be blocked in.
CallSet ==
    {NoCall} \cup [reason : {"MUTEX", "COND"}, object : Mutex]
             \cup [reason : {"BARRIER"}, object : Barrier]
             \cup [reason : {"FUTEX", "SLEEP"}, object : 1 .. Never]
             \cup [reason : {"JOIN"}, object : Thread]
\* The entries of the queues of conditions, and of futexes and sleepers.
CondWaiter == [thread : Thread, mutex : Mutex]
FutexWaiter == [thread : Thread, timeout : 1 .. Never, moved : BOOLEAN]

\* The types of the variables of the thread manager and of the servers.
ThreadType ==
    /\ status \in [Thread -> {"UNUSED", "INITIALIZING", "RUNNING", "STALLED", "IDLE"}]
    /\ waiter \in [Thread -> Thread \cup {NoThread}]
    /\ blocked \subseteq Thread
    /\ advancing \in BOOLEAN
    /\ profile \in Profiles
    /\ pending \in [Thread -> CallSet]
SyncType ==
    /\ owner \in [Mutex -> Thread \cup {NoThread}]
    /\ mWaiting \in [Mutex -> Seq(Thread)]
    /\ cWaiting \in [Cond -> Seq(CondWaiter)]
    /\ bWaiting \in [Barrier -> Seq(Thread)]
    /\ held \in [Thread -> SUBSET Mutex]
FutexType ==
    /\ waiting \in [Futex -> Seq(FutexWaiter)]
    /\ sleeping \in Seq(FutexWaiter)
    /\ word \in [Futex -> {0, 1}]
    /\ owes \in [Thread -> Futex \cup {NoFutex}]
    /\ now \in 0 .. MaxTime

\* Who stands in which queue.
Lines == [q \in Queue |-> Line(q)]

\* The threads of B stand in one queue each, and nobody else stands in any.
Placed(L, B) ==
    /\ \A q, r \in Queue : \A t \in Thread : t \in L[q] /\ t \in L[r] => q = r
    /\ \A t \in Thread : t \in B <=> \E q \in Queue : t \in L[q]

\* The status of a thread agrees with where it is: STALLED exactly while it is blocked, joined
\* only while it can still end; nobody runs while a thread is in stallThread's loop, and a thread
\* that has not started or has ended is in no call.
StatusInv ==
    /\ \A t \in Thread : t \in blocked <=> status[t] = "STALLED"
    /\ \A t \in Thread : waiter[t] # NoThread => status[t] \in {"RUNNING", "STALLED"}
    /\ advancing => \A t \in Thread : status[t] \notin {"RUNNING", "INITIALIZING"}
    /\ \A t \in Thread :
         status[t] \in {"UNUSED", "INITIALIZING", "IDLE"} => pending[t] = NoCall

\* A thread in a queue is in the call that put it there.
MutexReason ==
    \A m \in Mutex : \A t \in ToSet(mWaiting[m]) :
        pending[t].reason \in {"MUTEX", "COND"} /\ pending[t].object = m
CondReason ==
    \A c \in Cond : \A w \in ToSet(cWaiting[c]) : pending[w.thread] = Call("COND", w.mutex)
BarrierReason ==
    \A b \in Barrier : \A t \in ToSet(bWaiting[b]) : pending[t].reason = "BARRIER"
FutexReason ==
    \A f \in Futex : \A w \in ToSet(waiting[f]) : pending[w.thread] = Call("FUTEX", w.timeout)
SleepReason ==
    \A w \in ToSet(sleeping) : pending[w.thread] = Call("SLEEP", w.timeout)
JoinReason ==
    \A u \in Thread : waiter[u] # NoThread => pending[waiter[u]] = Call("JOIN", u)
Reasons ==
    MutexReason /\ CondReason /\ BarrierReason /\ FutexReason /\ SleepReason /\ JoinReason

\* The inductive invariant of the queues.
QueueInv ==
    /\ ThreadType /\ SyncType /\ FutexType
    /\ SyncOnce /\ FutexOnce
    /\ Placed(Lines, blocked)
    /\ StatusInv
    /\ Reasons

-----------------------------------------------------------------------------
\* The call of t returns with mutex m.
WaitsForMutex(t, m) == pending[t].reason \in {"MUTEX", "COND"} /\ pending[t].object = m

\* The inductive invariant of the mutexes: a free mutex has no queue; who holds a mutex owns it
\* and does not wait for it; and the owner who does not hold it yet is the one thread that has
\* been resumed to take it.
MutexInv ==
    /\ \A m \in Mutex : owner[m] = NoThread => mWaiting[m] = <<>>
    /\ \A m \in Mutex, t \in Thread : m \in held[t] => owner[m] = t
    /\ \A m \in Mutex, t \in Thread : WaitsForMutex(t, m) => m \notin held[t]
    /\ \A m \in Mutex, t \in Thread :
         owner[m] = t /\ m \notin held[t] => t \notin blocked /\ WaitsForMutex(t, m)
    /\ \A m \in Mutex, t \in Thread :
         t \notin blocked /\ WaitsForMutex(t, m) => owner[m] = t

-----------------------------------------------------------------------------

\* The queues of the servers as members of Queue.
LEMMA QueueForms ==
    /\ \A m \in Mutex : /\ <<"mutex", m>> \in Queue
                        /\ Lines[<<"mutex", m>>] = ToSet(mWaiting[m])
                        /\ Lines'[<<"mutex", m>>] = ToSet(mWaiting'[m])
    /\ \A c \in Cond : /\ <<"cond", c>> \in Queue
                       /\ Lines[<<"cond", c>>] = ThreadsOf(cWaiting[c])
                       /\ Lines'[<<"cond", c>>] = ThreadsOf(cWaiting'[c])
    /\ \A b \in Barrier : /\ <<"barrier", b>> \in Queue
                          /\ Lines[<<"barrier", b>>] = ToSet(bWaiting[b])
                          /\ Lines'[<<"barrier", b>>] = ToSet(bWaiting'[b])
    /\ \A f \in Futex : /\ <<"futex", f>> \in Queue
                        /\ Lines[<<"futex", f>>] = ThreadsOf(waiting[f])
                        /\ Lines'[<<"futex", f>>] = ThreadsOf(waiting'[f])
    /\ /\ <<"sleep", NoFutex>> \in Queue
       /\ Lines[<<"sleep", NoFutex>>] = ThreadsOf(sleeping)
       /\ Lines'[<<"sleep", NoFutex>>] = ThreadsOf(sleeping')
    /\ \A u \in Thread : /\ <<"join", u>> \in Queue
                         /\ Lines[<<"join", u>>] = {waiter[u]} \ {NoThread}
                         /\ Lines'[<<"join", u>>] = {waiter'[u]} \ {NoThread}
BY DEF Queue, Lines, Line

\* Every member of Queue is a queue of one of the servers.
LEMMA QueueKinds ==
    ASSUME NEW q \in Queue
    PROVE  \/ \E m \in Mutex : q = <<"mutex", m>>
           \/ \E c \in Cond : q = <<"cond", c>>
           \/ \E b \in Barrier : q = <<"barrier", b>>
           \/ \E f \in Futex : q = <<"futex", f>>
           \/ q = <<"sleep", NoFutex>>
           \/ \E u \in Thread : q = <<"join", u>>
BY DEF Queue

\* The queues that a step leaves alone keep their threads.
LEMMA LinesFrame ==
    ASSUME NEW q \in Queue
    PROVE  /\ q[1] = "mutex" /\ mWaiting'[q[2]] = mWaiting[q[2]] => Lines'[q] = Lines[q]
           /\ q[1] = "cond" /\ cWaiting'[q[2]] = cWaiting[q[2]] => Lines'[q] = Lines[q]
           /\ q[1] = "barrier" /\ bWaiting'[q[2]] = bWaiting[q[2]] => Lines'[q] = Lines[q]
           /\ q[1] = "futex" /\ waiting'[q[2]] = waiting[q[2]] => Lines'[q] = Lines[q]
           /\ q[1] = "sleep" /\ sleeping' = sleeping => Lines'[q] = Lines[q]
           /\ q[1] = "join" /\ waiter'[q[2]] = waiter[q[2]] => Lines'[q] = Lines[q]
           /\ q[1] \in {"mutex", "cond", "barrier", "futex", "sleep", "join"}
BY DEF Queue, Lines, Line

\* A call on futexes leaves the other queues alone.
LEMMA FutexFrame ==
    ASSUME NEW r \in Queue, UNCHANGED <<mWaiting, cWaiting, bWaiting, sleeping, waiter>>,
           \A h \in Futex : r = <<"futex", h>> => waiting'[h] = waiting[h]
    PROVE  Lines'[r] = Lines[r]
<1>1. CASE \E h \in Futex : r = <<"futex", h>>
  <2>1. PICK h \in Futex : r = <<"futex", h>> BY <1>1
  <2>2. r[1] = "futex" /\ waiting'[r[2]] = waiting[r[2]] BY <2>1
  <2> QED BY <2>2, LinesFrame
<1>2. CASE ~\E h \in Futex : r = <<"futex", h>>
  <2>1. r[1] \in {"mutex", "cond", "barrier", "sleep", "join"} BY <1>2, QueueKinds
  <2> QED BY <2>1, LinesFrame
<1> QED BY <1>1, <1>2

\* The threads of R leave their queues, those of D[q] enter q.
Moves(L, L2, R, D) ==
    \A q \in Queue : \A t \in Thread : t \in L2[q] <=> (t \in L[q] /\ t \notin R) \/ t \in D[q]

\* Threads that leave their queues are resumed, threads that enter one are blocked: everybody
\* stays in his place.
LEMMA MovesPlaced ==
    ASSUME NEW L, NEW L2, NEW B, NEW R, NEW D, NEW M,
           Placed(L, B), Placed(D, M), M \cap B \subseteq R, Moves(L, L2, R, D)
    PROVE  Placed(L2, (B \ R) \cup M)
<1> DEFINE B2 == (B \ R) \cup M
<1>1. ASSUME NEW q \in Queue, NEW r \in Queue, NEW t \in Thread, t \in L2[q], t \in L2[r]
      PROVE  q = r
  <2>1. t \in D[q] \/ t \in D[r] => t \in M BY DEF Placed
  <2>2. t \in L[q] \/ t \in L[r] => t \in B BY DEF Placed
  <2>3. t \in L[q] /\ t \in L[r] => q = r BY DEF Placed
  <2>4. t \in D[q] /\ t \in D[r] => q = r BY DEF Placed
  <2>5. (t \in L[q] /\ t \notin R) \/ t \in D[q] BY <1>1 DEF Moves
  <2>6. (t \in L[r] /\ t \notin R) \/ t \in D[r] BY <1>1 DEF Moves
  <2> QED BY <2>1, <2>2, <2>3, <2>4, <2>5, <2>6
<1>2. ASSUME NEW t \in Thread, t \in B2 PROVE \E q \in Queue : t \in L2[q]
  BY <1>2 DEF Placed, Moves
<1>3. ASSUME NEW t \in Thread, NEW q \in Queue, t \in L2[q] PROVE t \in B2
  <2>1. (t \in L[q] /\ t \notin R) \/ t \in D[q] BY <1>3 DEF Moves
  <2>2. t \in D[q] => t \in M BY DEF Placed
  <2>3. t \in L[q] => t \in B BY DEF Placed
  <2> QED BY <2>1, <2>2, <2>3
<1> QED BY <1>1, <1>2, <1>3 DEF Placed

\* Nobody enters a queue; the threads of T enter q only.
Nowhere == [q \in Queue |-> {}]
Only(q, T) == [r \in Queue |-> IF r = q THEN T ELSE {}]

\* A step in which nobody enters a queue.
LEMMA NowherePlaced == Placed(Nowhere, {})
BY DEF Placed, Nowhere

\* A step in which the threads of T enter the queue q.
LEMMA OnlyPlaced ==
    ASSUME NEW q \in Queue, NEW T
    PROVE  Placed(Only(q, T), T)
BY DEF Placed, Only

\* Threads of one queue are resumed.
LEMMA LeavePlaced ==
    ASSUME NEW L, NEW L2, NEW B, NEW R, NEW q \in Queue,
           Placed(L, B), R \subseteq L[q], R \subseteq Thread,
           L2[q] = L[q] \ R, \A r \in Queue : r # q => L2[r] = L[r]
    PROVE  Placed(L2, B \ R)
<1>1. Moves(L, L2, R, Nowhere)
  <2> SUFFICES ASSUME NEW r \in Queue, NEW t \in Thread
               PROVE  t \in L2[r] <=> (t \in L[r] /\ t \notin R) \/ t \in Nowhere[r]
    BY DEF Moves
  <2>1. t \notin Nowhere[r] BY DEF Nowhere
  <2>2. CASE r = q BY <2>1, <2>2
  <2>3. CASE r # q
    <3>1. t \in L[r] => t \notin R BY <2>3 DEF Placed
    <3>2. L2[r] = L[r] BY <2>3
    <3> QED BY <2>1, <3>1, <3>2
  <2> QED BY <2>2, <2>3
<1>2. Placed(L2, (B \ R) \cup {})
  BY <1>1, NowherePlaced, MovesPlaced
<1> QED BY <1>2

\* A thread that runs enters one queue.
LEMMA EnterPlaced ==
    ASSUME NEW L, NEW L2, NEW B, NEW t \in Thread, NEW q \in Queue,
           Placed(L, B), t \notin B,
           L2[q] = L[q] \cup {t}, \A r \in Queue : r # q => L2[r] = L[r]
    PROVE  Placed(L2, B \cup {t})
<1> DEFINE D == Only(q, {t})
<1>1. Moves(L, L2, {}, D)
  <2> SUFFICES ASSUME NEW r \in Queue, NEW u \in Thread
               PROVE  u \in L2[r] <=> (u \in L[r] /\ u \notin {}) \/ u \in D[r]
    BY DEF Moves
  <2> QED BY DEF Only
<1>2. Placed(D, {t}) BY OnlyPlaced
<1> HIDE DEF D
<1>3. Placed(L2, (B \ {}) \cup {t})
  BY <1>1, <1>2, MovesPlaced
<1> QED BY <1>3

-----------------------------------------------------------------------------

\* stallThread keeps the status of every thread in agreement with where it is.
LEMMA StallStatus ==
    ASSUME NEW t \in Thread, NEW call \in CallSet, NEW wake, wake \subseteq blocked,
           ThreadType, StatusInv, Executing(t), StallThread(t, call, wake)
    PROVE  /\ ThreadType'
           /\ StatusInv'
           /\ blocked' = (blocked \ wake) \cup {t}
           /\ t \notin blocked
           /\ pending'[t] = call
           /\ \A u \in Thread : u # t => pending'[u] = pending[u]
           /\ waiter' = waiter
<1>1. ThreadType'
  BY DEF ThreadType, StallThread, AnyThreadRunning
<1>2. t \notin blocked /\ status[t] = "RUNNING" BY DEF Executing, StatusInv
<1>3. StatusInv'
  <2>1. \A u \in Thread : u \in blocked' <=> status'[u] = "STALLED"
    BY DEF ThreadType, StatusInv, StallThread
  <2>2. \A u \in Thread : waiter'[u] # NoThread => status'[u] \in {"RUNNING", "STALLED"}
    BY DEF ThreadType, StatusInv, StallThread
  <2>3. advancing' => \A u \in Thread : status'[u] \notin {"RUNNING", "INITIALIZING"}
    BY DEF StallThread, AnyThreadRunning
  <2>4. \A u \in Thread :
          status'[u] \in {"UNUSED", "INITIALIZING", "IDLE"} => pending'[u] = NoCall
    BY DEF ThreadType, StatusInv, StallThread
  <2> QED BY <2>1, <2>2, <2>3, <2>4 DEF StatusInv
<1>4. blocked' = (blocked \ wake) \cup {t} /\ waiter' = waiter BY DEF StallThread
<1>5. pending'[t] = call /\ \A u \in Thread : u # t => pending'[u] = pending[u]
  BY DEF StallThread, ThreadType
<1> QED BY <1>1, <1>2, <1>3, <1>4, <1>5

\* resumeThread keeps the status of every thread in agreement with where it is.
LEMMA ResumeStatus ==
    ASSUME NEW wake, wake \subseteq blocked, ThreadType, StatusInv, ResumeThreads(wake)
    PROVE  /\ ThreadType'
           /\ StatusInv'
           /\ blocked' = blocked \ wake
           /\ pending' = pending
           /\ waiter' = waiter
<1>1. ThreadType'
  BY DEF ThreadType, ResumeThreads
<1>2. StatusInv'
  <2>1. \A u \in Thread : u \in blocked' <=> status'[u] = "STALLED"
    BY DEF ThreadType, StatusInv, ResumeThreads
  <2>2. \A u \in Thread : waiter'[u] # NoThread => status'[u] \in {"RUNNING", "STALLED"}
    BY DEF ThreadType, StatusInv, ResumeThreads
  <2>3. advancing' => \A u \in Thread : status'[u] \notin {"RUNNING", "INITIALIZING"}
    BY DEF ThreadType, StatusInv, ResumeThreads
  <2>4. \A u \in Thread :
          status'[u] \in {"UNUSED", "INITIALIZING", "IDLE"} => pending'[u] = NoCall
    BY DEF ThreadType, StatusInv, ResumeThreads
  <2> QED BY <2>1, <2>2, <2>3, <2>4 DEF StatusInv
<1>3. blocked' = blocked \ wake /\ pending' = pending /\ waiter' = waiter BY DEF ResumeThreads
<1> QED BY <1>1, <1>2, <1>3

\* What a thread that is blocked waits for changes in no step.
PendingStays == \A u \in blocked : pending'[u] = pending[u]

\* Whoever stands in a queue is blocked in Thread::wait.
LEMMA InLineBlocked ==
    ASSUME ThreadType, SyncType, FutexType, Placed(Lines, blocked)
    PROVE  /\ \A m \in Mutex : ToSet(mWaiting[m]) \subseteq blocked
           /\ \A c \in Cond : ThreadsOf(cWaiting[c]) \subseteq blocked
           /\ \A b \in Barrier : ToSet(bWaiting[b]) \subseteq blocked
           /\ \A f \in Futex : ThreadsOf(waiting[f]) \subseteq blocked
           /\ ThreadsOf(sleeping) \subseteq blocked
           /\ \A u \in Thread : waiter[u] # NoThread => waiter[u] \in blocked
<1>1. ASSUME NEW q \in Queue, NEW u \in Thread, u \in Lines[q] PROVE u \in blocked
  BY <1>1 DEF Placed
<1>2. ASSUME NEW s \in Seq(Thread), NEW u \in ToSet(s) PROVE u \in Thread
  BY LenProperties DEF ToSet
<1>3. ASSUME NEW s \in Seq(CondWaiter), NEW u \in ThreadsOf(s) PROVE u \in Thread
  <2>1. PICK i \in DOMAIN s : u = s[i].thread BY DEF ThreadsOf
  <2>2. s[i] \in CondWaiter BY LenProperties
  <2> QED BY <2>1, <2>2 DEF CondWaiter
<1>4. ASSUME NEW s \in Seq(FutexWaiter), NEW u \in ThreadsOf(s) PROVE u \in Thread
  <2>1. PICK i \in DOMAIN s : u = s[i].thread BY DEF ThreadsOf
  <2>2. s[i] \in FutexWaiter BY LenProperties
  <2> QED BY <2>1, <2>2 DEF FutexWaiter
<1>5. ASSUME NEW m \in Mutex PROVE ToSet(mWaiting[m]) \subseteq blocked
  <2>1. mWaiting[m] \in Seq(Thread) BY DEF SyncType, FutexType
  <2>2. <<"mutex", m>> \in Queue /\ Lines[<<"mutex", m>>] = ToSet(mWaiting[m]) BY QueueForms
  <2>3. ASSUME NEW u \in ToSet(mWaiting[m]) PROVE u \in blocked
    BY <2>1, <2>2, <1>2, <1>1
  <2> QED BY <2>3
<1>6. ASSUME NEW c \in Cond PROVE ThreadsOf(cWaiting[c]) \subseteq blocked
  <2>1. cWaiting[c] \in Seq(CondWaiter) BY DEF SyncType, FutexType
  <2>2. <<"cond", c>> \in Queue /\ Lines[<<"cond", c>>] = ThreadsOf(cWaiting[c]) BY QueueForms
  <2>3. ASSUME NEW u \in ThreadsOf(cWaiting[c]) PROVE u \in blocked
    BY <2>1, <2>2, <1>3, <1>1
  <2> QED BY <2>3
<1>7. ASSUME NEW b \in Barrier PROVE ToSet(bWaiting[b]) \subseteq blocked
  <2>1. bWaiting[b] \in Seq(Thread) BY DEF SyncType, FutexType
  <2>2. <<"barrier", b>> \in Queue /\ Lines[<<"barrier", b>>] = ToSet(bWaiting[b]) BY QueueForms
  <2>3. ASSUME NEW u \in ToSet(bWaiting[b]) PROVE u \in blocked
    BY <2>1, <2>2, <1>2, <1>1
  <2> QED BY <2>3
<1>8. ASSUME NEW f \in Futex PROVE ThreadsOf(waiting[f]) \subseteq blocked
  <2>1. waiting[f] \in Seq(FutexWaiter) BY DEF SyncType, FutexType
  <2>2. <<"futex", f>> \in Queue /\ Lines[<<"futex", f>>] = ThreadsOf(waiting[f]) BY QueueForms
  <2>3. ASSUME NEW u \in ThreadsOf(waiting[f]) PROVE u \in blocked
    BY <2>1, <2>2, <1>4, <1>1
  <2> QED BY <2>3
<1>9. ThreadsOf(sleeping) \subseteq blocked
  <2>1. sleeping \in Seq(FutexWaiter) BY DEF SyncType, FutexType
  <2>2. <<"sleep", NoFutex>> \in Queue /\ Lines[<<"sleep", NoFutex>>] = ThreadsOf(sleeping) BY QueueForms
  <2>3. ASSUME NEW u \in ThreadsOf(sleeping) PROVE u \in blocked
    BY <2>1, <2>2, <1>4, <1>1
  <2> QED BY <2>3
<1>10. ASSUME NEW u \in Thread, waiter[u] # NoThread PROVE waiter[u] \in blocked
  BY <1>1, <1>10, QueueForms DEF ThreadType
<1> QED BY <1>5, <1>6, <1>7, <1>8, <1>9, <1>10

\* The thread of a waiter is one of the threads of its queue.
LEMMA EntryThread ==
    ASSUME NEW s, NEW w \in ToSet(s)
    PROVE  w.thread \in ThreadsOf(s)
BY DEF ToSet, ThreadsOf

\* The reasons of the threads in queues to which nobody is added.
LEMMA ReasonsFrame ==
    ASSUME QueueInv, PendingStays
    PROVE  /\ (\A m \in Mutex : ToSet(mWaiting'[m]) \subseteq ToSet(mWaiting[m])) => MutexReason'
           /\ (\A c \in Cond : ToSet(cWaiting'[c]) \subseteq ToSet(cWaiting[c])) => CondReason'
           /\ (\A b \in Barrier : ToSet(bWaiting'[b]) \subseteq ToSet(bWaiting[b]))
                => BarrierReason'
           /\ (\A f \in Futex : ToSet(waiting'[f]) \subseteq ToSet(waiting[f])) => FutexReason'
           /\ ToSet(sleeping') \subseteq ToSet(sleeping) => SleepReason'
           /\ (\A u \in Thread : waiter'[u] \in {NoThread, waiter[u]}) => JoinReason'
<1>0. /\ \A m \in Mutex : ToSet(mWaiting[m]) \subseteq blocked
      /\ \A c \in Cond : ThreadsOf(cWaiting[c]) \subseteq blocked
      /\ \A b \in Barrier : ToSet(bWaiting[b]) \subseteq blocked
      /\ \A f \in Futex : ThreadsOf(waiting[f]) \subseteq blocked
      /\ ThreadsOf(sleeping) \subseteq blocked
      /\ \A u \in Thread : waiter[u] # NoThread => waiter[u] \in blocked
  BY InLineBlocked DEF QueueInv
<1>1. ASSUME \A m \in Mutex : ToSet(mWaiting'[m]) \subseteq ToSet(mWaiting[m]) PROVE MutexReason'
  BY <1>0, <1>1 DEF QueueInv, Reasons, MutexReason, PendingStays
<1>2. ASSUME \A c \in Cond : ToSet(cWaiting'[c]) \subseteq ToSet(cWaiting[c]) PROVE CondReason'
  BY <1>0, <1>2, EntryThread DEF QueueInv, Reasons, CondReason, PendingStays
<1>3. ASSUME \A b \in Barrier : ToSet(bWaiting'[b]) \subseteq ToSet(bWaiting[b]) PROVE BarrierReason'
  BY <1>0, <1>3 DEF QueueInv, Reasons, BarrierReason, PendingStays
<1>4. ASSUME \A f \in Futex : ToSet(waiting'[f]) \subseteq ToSet(waiting[f]) PROVE FutexReason'
  BY <1>0, <1>4, EntryThread DEF QueueInv, Reasons, FutexReason, PendingStays
<1>5. ASSUME ToSet(sleeping') \subseteq ToSet(sleeping) PROVE SleepReason'
  BY <1>0, <1>5, EntryThread DEF QueueInv, Reasons, SleepReason, PendingStays
<1>6. ASSUME \A u \in Thread : waiter'[u] \in {NoThread, waiter[u]} PROVE JoinReason'
  BY <1>0, <1>6 DEF QueueInv, Reasons, JoinReason, PendingStays
<1> QED BY <1>1, <1>2, <1>3, <1>4, <1>5, <1>6

-----------------------------------------------------------------------------

\* A call that blocks its thread in one queue.
LEMMA EnterStep ==
    ASSUME QueueInv, NEW t \in Thread, NEW call \in CallSet, NEW q \in Queue,
           Executing(t), StallThread(t, call, {}),
           Lines'[q] = Lines[q] \cup {t}, \A r \in Queue : r # q => Lines'[r] = Lines[r]
    PROVE  /\ ThreadType' /\ StatusInv' /\ Placed(Lines, blocked)'
           /\ PendingStays
           /\ pending'[t] = call
           /\ t \notin blocked
           /\ waiter' = waiter
<1>1. /\ ThreadType' /\ StatusInv' /\ blocked' = (blocked \ {}) \cup {t} /\ t \notin blocked
      /\ pending'[t] = call /\ \A u \in Thread : u # t => pending'[u] = pending[u]
      /\ waiter' = waiter
  BY StallStatus DEF QueueInv
<1>2. Placed(Lines', blocked \cup {t})
  BY <1>1, EnterPlaced DEF QueueInv
<1>3. blocked' = blocked \cup {t} BY <1>1
<1>4. PendingStays BY <1>1 DEF QueueInv, ThreadType, PendingStays
<1> QED BY <1>1, <1>2, <1>3, <1>4

\* A call that resumes threads of one queue.
LEMMA LeaveStep ==
    ASSUME QueueInv, NEW R, NEW q \in Queue,
           ResumeThreads(R), R \subseteq Lines[q], R \subseteq Thread,
           Lines'[q] = Lines[q] \ R, \A r \in Queue : r # q => Lines'[r] = Lines[r]
    PROVE  /\ ThreadType' /\ StatusInv' /\ Placed(Lines, blocked)'
           /\ PendingStays
           /\ R \subseteq blocked
           /\ waiter' = waiter
<1>1. R \subseteq blocked BY DEF QueueInv, Placed
<1>2. /\ ThreadType' /\ StatusInv' /\ blocked' = blocked \ R
      /\ pending' = pending /\ waiter' = waiter
  BY <1>1, ResumeStatus DEF QueueInv
<1>3. Placed(Lines', blocked \ R)
  BY LeavePlaced DEF QueueInv
<1>4. PendingStays BY <1>2 DEF PendingStays
<1> QED BY <1>1, <1>2, <1>3, <1>4

\* Steps of the servers that block and resume nobody.
LEMMA SameQueues ==
    ASSUME QueueInv, UNCHANGED <<status, waiter, blocked, advancing, profile, pending>>,
           SyncType', FutexType', UNCHANGED <<mWaiting, cWaiting, bWaiting, waiting, sleeping>>
    PROVE  QueueInv'
<1>1. ThreadType' /\ StatusInv' /\ UNCHANGED <<blocked, pending, waiter>>
  BY DEF QueueInv, ThreadType, StatusInv
<1>2. Lines' = Lines BY <1>1 DEF Lines, Line
<1>3. Placed(Lines, blocked)' BY <1>1, <1>2 DEF QueueInv
<1>4. SyncOnce' /\ FutexOnce' BY DEF QueueInv, SyncOnce, FutexOnce
<1>5. Reasons'
  BY <1>1 DEF QueueInv, Reasons, MutexReason, CondReason, BarrierReason, FutexReason,
              SleepReason, JoinReason
<1> QED BY <1>1, <1>3, <1>4, <1>5 DEF QueueInv

\* SimMutex::lock keeps the queues.
LEMMA LockQueue ==
    ASSUME QueueInv, NEW t \in Thread, NEW m \in Mutex, Executing(t), Lock(t, m),
           UNCHANGED futexVars
    PROVE  QueueInv'
<1>0. FutexType' /\ FutexOnce' /\ UNCHANGED <<waiting, sleeping>>
  BY DEF QueueInv, FutexType, FutexOnce, futexVars
<1>1. CASE owner[m] = NoThread
  <2>0. /\ owner' = [owner EXCEPT ![m] = t] /\ held' = [held EXCEPT ![t] = @ \cup {m}]
        /\ UNCHANGED <<mWaiting, cWaiting, bWaiting>>
    BY <1>1 DEF Lock
  <2>1. SyncType' BY <2>0 DEF QueueInv, SyncType
  <2>2. UNCHANGED <<status, waiter, blocked, advancing, profile, pending>>
    BY <1>1 DEF Lock, NoStall, threadVars
  <2> QED BY <1>0, <2>0, <2>1, <2>2, SameQueues
<1>2. CASE owner[m] # NoThread
  <2> DEFINE q == <<"mutex", m>>
             call == Call("MUTEX", m)
  <2>1. /\ mWaiting' = [mWaiting EXCEPT ![m] = Append(@, t)]
        /\ StallThread(t, call, {})
        /\ UNCHANGED <<owner, held, cWaiting, bWaiting>>
    BY <1>2 DEF Lock
  <2>2. call \in CallSet BY DEF Call, CallSet
  <2>3. q \in Queue /\ Lines[q] = ToSet(mWaiting[m]) /\ Lines'[q] = ToSet(mWaiting'[m])
    BY QueueForms
  <2>4. mWaiting[m] \in Seq(Thread) /\ IsInjective(mWaiting[m])
    BY DEF QueueInv, SyncType, SyncOnce
  <2>5. t \notin ToSet(mWaiting[m])
    <3>1. ToSet(mWaiting[m]) \subseteq blocked BY InLineBlocked DEF QueueInv
    <3> QED BY <3>1 DEF Executing
  <2>6. /\ mWaiting'[m] = Append(mWaiting[m], t)
        /\ \A n \in Mutex : n # m => mWaiting'[n] = mWaiting[n]
    BY <2>1 DEF QueueInv, SyncType
  <2>7. /\ mWaiting'[m] \in Seq(Thread) /\ IsInjective(mWaiting'[m])
        /\ ToSet(mWaiting'[m]) = ToSet(mWaiting[m]) \cup {t}
    BY <2>4, <2>5, <2>6, AppendQueue
  <2>8. ASSUME NEW r \in Queue, r # q PROVE Lines'[r] = Lines[r]
    <3>1. waiter' = waiter BY <2>1 DEF StallThread
    <3> QED BY <1>0, <2>1, <2>6, <2>8, <3>1, QueueKinds, LinesFrame
  <2> HIDE DEF q, call
  <2>9. /\ ThreadType' /\ StatusInv' /\ Placed(Lines, blocked)' /\ PendingStays
        /\ pending'[t] = call /\ waiter' = waiter
    BY <2>1, <2>2, <2>3, <2>7, <2>8, EnterStep
  <2>10. SyncType' 
    <3>1. mWaiting' \in [Mutex -> Seq(Thread)]
      BY <2>1, <2>7, <2>6 DEF QueueInv, SyncType
    <3> QED BY <2>1, <3>1 DEF QueueInv, SyncType
  <2>11. SyncOnce' BY <2>1, <2>6, <2>7 DEF QueueInv, SyncOnce
  <2>12. CondReason' /\ BarrierReason' /\ FutexReason' /\ SleepReason' /\ JoinReason'
    BY <1>0, <2>1, <2>9, ReasonsFrame
  <2>13. MutexReason'
    <3> SUFFICES ASSUME NEW n \in Mutex, NEW u \in ToSet(mWaiting'[n])
                 PROVE  pending'[u].reason \in {"MUTEX", "COND"} /\ pending'[u].object = n
      BY DEF MutexReason
    <3>1. CASE u = t /\ n = m BY <2>9, <3>1 DEF call, Call
    <3>2. CASE u \in ToSet(mWaiting[n])
      <4>1. u \in blocked BY <3>2, InLineBlocked DEF QueueInv
      <4> QED BY <3>2, <4>1, <2>9 DEF QueueInv, Reasons, MutexReason, PendingStays
    <3> QED BY <2>6, <2>7, <3>1, <3>2
  <2> QED BY <1>0, <2>9, <2>10, <2>11, <2>12, <2>13 DEF QueueInv, Reasons
<1> QED BY <1>1, <1>2

\* SimMutex::unlock: who is resumed and who stays in the queue.
LEMMA UnlockedPart ==
    ASSUME QueueInv, NEW m \in Mutex
    PROVE  /\ UnlockedQueue(m) \in Seq(Thread) /\ IsInjective(UnlockedQueue(m))
           /\ ToSet(UnlockedQueue(m)) = ToSet(mWaiting[m]) \ UnlockWakes(m)
           /\ UnlockWakes(m) \subseteq ToSet(mWaiting[m])
           /\ UnlockWakes(m) \subseteq Thread
           /\ UnlockedOwner(m) \in Thread \cup {NoThread}
<1>1. mWaiting[m] \in Seq(Thread) /\ IsInjective(mWaiting[m])
  BY DEF QueueInv, SyncType, SyncOnce
<1>2. CASE mWaiting[m] = <<>>
  <2>1. UnlockedQueue(m) = <<>> /\ UnlockedOwner(m) = NoThread /\ UnlockWakes(m) = {}
    BY <1>2 DEF UnlockedQueue, UnlockedOwner, UnlockWakes
  <2> QED BY <1>1, <1>2, <2>1
<1>3. CASE mWaiting[m] # <<>>
  <2>1. UnlockedQueue(m) = Tail(mWaiting[m]) /\ UnlockedOwner(m) = Head(mWaiting[m])
    BY <1>3 DEF UnlockedQueue, UnlockedOwner
  <2>2. Head(mWaiting[m]) \in Thread BY <1>1, <1>3, HeadTailProperties
  <2>3. UnlockWakes(m) = {Head(mWaiting[m])}
    BY <2>1, <2>2, ThreadAssumption DEF UnlockWakes
  <2> QED BY <1>1, <1>3, <2>1, <2>2, <2>3, TailQueue
<1> QED BY <1>2, <1>3

\* SyncServer::mutexUnlock keeps the queues.
LEMMA UnlockQueue ==
    ASSUME QueueInv, NEW t \in Thread, NEW m \in Mutex, MutexUnlock(t, m), UNCHANGED futexVars
    PROVE  QueueInv'
<1>0. FutexType' /\ FutexOnce' /\ UNCHANGED <<waiting, sleeping>>
  BY DEF QueueInv, FutexType, FutexOnce, futexVars
<1> DEFINE q == <<"mutex", m>>
           R == UnlockWakes(m)
<1>1. /\ owner' = [owner EXCEPT ![m] = UnlockedOwner(m)]
      /\ mWaiting' = [mWaiting EXCEPT ![m] = UnlockedQueue(m)]
      /\ held' = [held EXCEPT ![t] = @ \ {m}]
      /\ ResumeThreads(R)
      /\ UNCHANGED <<cWaiting, bWaiting>>
  BY DEF MutexUnlock
<1>2. q \in Queue /\ Lines[q] = ToSet(mWaiting[m]) /\ Lines'[q] = ToSet(mWaiting'[m])
  BY QueueForms
<1>3. /\ UnlockedQueue(m) \in Seq(Thread) /\ IsInjective(UnlockedQueue(m))
      /\ ToSet(UnlockedQueue(m)) = ToSet(mWaiting[m]) \ R
      /\ R \subseteq ToSet(mWaiting[m]) /\ R \subseteq Thread
      /\ UnlockedOwner(m) \in Thread \cup {NoThread}
  BY UnlockedPart
<1>4. /\ mWaiting'[m] = UnlockedQueue(m)
      /\ \A n \in Mutex : n # m => mWaiting'[n] = mWaiting[n]
  BY <1>1 DEF QueueInv, SyncType
<1>5. ASSUME NEW r \in Queue, r # q PROVE Lines'[r] = Lines[r]
  <2>1. waiter' = waiter BY <1>1 DEF ResumeThreads
  <2> QED BY <1>0, <1>1, <1>4, <1>5, <2>1, QueueKinds, LinesFrame
<1> HIDE DEF q, R
<1>6. Lines'[q] = Lines[q] \ R /\ R \subseteq Lines[q] BY <1>2, <1>3, <1>4
<1>7. /\ ThreadType' /\ StatusInv' /\ Placed(Lines, blocked)' /\ PendingStays
      /\ waiter' = waiter
  BY <1>1, <1>2, <1>3, <1>5, <1>6, LeaveStep
<1>8. SyncType'
  <2>1. mWaiting' \in [Mutex -> Seq(Thread)]
    BY <1>1, <1>3 DEF QueueInv, SyncType
  <2>2. owner' \in [Mutex -> Thread \cup {NoThread}]
    BY <1>1, <1>3 DEF QueueInv, SyncType
  <2>3. held' \in [Thread -> SUBSET Mutex]
    BY <1>1 DEF QueueInv, SyncType
  <2> QED BY <1>1, <2>1, <2>2, <2>3 DEF QueueInv, SyncType
<1>9. SyncOnce' BY <1>1, <1>3, <1>4 DEF QueueInv, SyncOnce
<1>10. \A n \in Mutex : ToSet(mWaiting'[n]) \subseteq ToSet(mWaiting[n])
  BY <1>3, <1>4
<1>11. Reasons'
  BY <1>0, <1>1, <1>7, <1>10, ReasonsFrame DEF Reasons
<1> QED BY <1>0, <1>7, <1>8, <1>9, <1>11 DEF QueueInv

\* SimCond::wait keeps the queues: the caller moves to the condition, the next owner of the mutex
\* is resumed.
LEMMA CondWaitQueue ==
    ASSUME QueueInv, NEW t \in Thread, NEW c \in Cond, NEW m \in Mutex, CondWait(t, c, m),
           UNCHANGED futexVars
    PROVE  QueueInv'
<1>0. FutexType' /\ FutexOnce' /\ UNCHANGED <<waiting, sleeping>>
  BY DEF QueueInv, FutexType, FutexOnce, futexVars
<1> DEFINE q == <<"mutex", m>>
           p == <<"cond", c>>
           R == UnlockWakes(m)
           call == Call("COND", m)
           w == [thread |-> t, mutex |-> m]
<1>1. /\ owner' = [owner EXCEPT ![m] = UnlockedOwner(m)]
      /\ mWaiting' = [mWaiting EXCEPT ![m] = UnlockedQueue(m)]
      /\ held' = [held EXCEPT ![t] = @ \ {m}]
      /\ cWaiting' = [cWaiting EXCEPT ![c] = Append(@, w)]
      /\ StallThread(t, call, R)
      /\ Executing(t)
      /\ UNCHANGED bWaiting
  BY DEF CondWait
<1>2. /\ q \in Queue /\ Lines[q] = ToSet(mWaiting[m]) /\ Lines'[q] = ToSet(mWaiting'[m])
      /\ p \in Queue /\ Lines[p] = ThreadsOf(cWaiting[c]) /\ Lines'[p] = ThreadsOf(cWaiting'[c])
      /\ p # q
  BY QueueForms
<1>3. /\ UnlockedQueue(m) \in Seq(Thread) /\ IsInjective(UnlockedQueue(m))
      /\ ToSet(UnlockedQueue(m)) = ToSet(mWaiting[m]) \ R
      /\ R \subseteq ToSet(mWaiting[m]) /\ R \subseteq Thread
      /\ UnlockedOwner(m) \in Thread \cup {NoThread}
  BY UnlockedPart
<1>4. /\ mWaiting'[m] = UnlockedQueue(m)
      /\ \A n \in Mutex : n # m => mWaiting'[n] = mWaiting[n]
      /\ cWaiting'[c] = Append(cWaiting[c], w)
      /\ \A d \in Cond : d # c => cWaiting'[d] = cWaiting[d]
  BY <1>1 DEF QueueInv, SyncType
<1>5. call \in CallSet /\ w \in CondWaiter /\ w.thread = t /\ w.mutex = m
  BY DEF Call, CallSet, CondWaiter
<1>6. /\ ToSet(mWaiting[m]) \subseteq blocked /\ ThreadsOf(cWaiting[c]) \subseteq blocked
      /\ R \subseteq blocked /\ t \notin blocked
  BY <1>1, <1>3, InLineBlocked DEF QueueInv, Executing
<1>7. cWaiting[c] \in Seq(CondWaiter) /\ OnceEach(cWaiting[c])
  BY DEF QueueInv, SyncType, SyncOnce
<1>8. ASSUME NEW r \in Queue, r # q, r # p PROVE Lines'[r] = Lines[r]
  <2>1. waiter' = waiter BY <1>1 DEF StallThread
  <2> QED BY <1>0, <1>1, <1>4, <1>8, <2>1, QueueKinds, LinesFrame
<1> HIDE DEF q, p, R, call, w
<1>9. /\ cWaiting'[c] \in Seq(CondWaiter) /\ OnceEach(cWaiting'[c])
      /\ ThreadsOf(cWaiting'[c]) = ThreadsOf(cWaiting[c]) \cup {t}
      /\ ToSet(cWaiting'[c]) = ToSet(cWaiting[c]) \cup {w}
  BY <1>4, <1>5, <1>6, <1>7, AppendWaiters, AppendQueue
<1>10. /\ ThreadType' /\ StatusInv' /\ blocked' = (blocked \ R) \cup {t}
       /\ pending'[t] = call /\ \A u \in Thread : u # t => pending'[u] = pending[u]
       /\ waiter' = waiter
  BY <1>1, <1>5, <1>6, StallStatus DEF QueueInv
<1>11. PendingStays BY <1>6, <1>10 DEF QueueInv, ThreadType, PendingStays
<1>12. Placed(Lines, blocked)'
  <2> DEFINE D == Only(p, {t})
  <2>1. Moves(Lines, Lines', R, D)
    <3> SUFFICES ASSUME NEW r \in Queue, NEW u \in Thread
                 PROVE  u \in Lines'[r] <=> (u \in Lines[r] /\ u \notin R) \/ u \in D[r]
      BY DEF Moves
    <3>1. r # q /\ u \in Lines[r] => u \notin R BY <1>2, <1>3 DEF QueueInv, Placed
    <3>2. CASE r = q BY <3>2, <1>2, <1>3, <1>4 DEF Only
    <3>3. CASE r = p BY <3>1, <3>3, <1>2, <1>9 DEF Only
    <3>4. CASE r # p /\ r # q BY <3>1, <3>4, <1>8 DEF Only
    <3> QED BY <3>2, <3>3, <3>4
  <2>2. Placed(D, {t}) BY <1>2, OnlyPlaced
  <2> HIDE DEF D
  <2>3. {t} \cap blocked \subseteq R BY <1>6
  <2>4. Placed(Lines, blocked) BY DEF QueueInv
  <2>5. Placed(Lines', (blocked \ R) \cup {t}) BY <2>1, <2>2, <2>3, <2>4, MovesPlaced
  <2> QED BY <1>10, <2>5
<1>13. SyncType'
  <2>1. mWaiting' \in [Mutex -> Seq(Thread)]
    BY <1>1, <1>3 DEF QueueInv, SyncType
  <2>2. owner' \in [Mutex -> Thread \cup {NoThread}]
    BY <1>1, <1>3 DEF QueueInv, SyncType
  <2>3. held' \in [Thread -> SUBSET Mutex]
    BY <1>1 DEF QueueInv, SyncType
  <2>4. cWaiting' \in [Cond -> Seq(CondWaiter)]
    BY <1>1, <1>4, <1>9 DEF QueueInv, SyncType
  <2> QED BY <1>1, <2>1, <2>2, <2>3, <2>4 DEF QueueInv, SyncType
<1>14. SyncOnce' BY <1>1, <1>3, <1>4, <1>9 DEF QueueInv, SyncOnce
<1>15. \A n \in Mutex : ToSet(mWaiting'[n]) \subseteq ToSet(mWaiting[n])
  BY <1>3, <1>4
<1>16. MutexReason' /\ BarrierReason' /\ FutexReason' /\ SleepReason' /\ JoinReason'
  BY <1>0, <1>1, <1>10, <1>11, <1>15, ReasonsFrame
<1>17. CondReason'
  <2> SUFFICES ASSUME NEW d \in Cond, NEW x \in ToSet(cWaiting'[d])
               PROVE  pending'[x.thread] = Call("COND", x.mutex)
    BY DEF CondReason
  <2>1. CASE x = w BY <1>5, <1>10, <2>1 DEF call
  <2>2. CASE x \in ToSet(cWaiting[d])
    <3>1. x.thread \in blocked
      <4>1. ThreadsOf(cWaiting[d]) \subseteq blocked BY InLineBlocked DEF QueueInv
      <4> QED BY <2>2, <4>1, EntryThread
    <3>2. pending[x.thread] = Call("COND", x.mutex) BY <2>2 DEF QueueInv, Reasons, CondReason
    <3> QED BY <3>1, <3>2, <1>11 DEF PendingStays
  <2> QED BY <1>4, <1>9, <2>1, <2>2
<1> QED BY <1>0, <1>10, <1>12, <1>13, <1>14, <1>16, <1>17 DEF QueueInv, Reasons

\* The threads that a condition variable wakes and that queue for mutex m.
Queued(ws, m) ==
    IF m \in Freed(ws) THEN Tail(WokenThreads(ws, m)) ELSE WokenThreads(ws, m)

\* Every waiter that a condition wakes asks for one mutex, its own.
LEMMA WokenParts ==
    ASSUME NEW ws \in Seq(CondWaiter), OnceEach(ws)
    PROVE  /\ ThreadsOf(ws) \subseteq Thread
           /\ \A m \in Mutex : ToSet(WokenThreads(ws, m)) \subseteq ThreadsOf(ws)
           /\ \A u \in ThreadsOf(ws) : \E m \in Mutex : u \in ToSet(WokenThreads(ws, m))
           /\ \A m, n \in Mutex : \A u \in ThreadsOf(ws) :
                u \in ToSet(WokenThreads(ws, m)) /\ u \in ToSet(WokenThreads(ws, n)) => m = n
           /\ \A m \in Mutex : \A u \in ToSet(WokenThreads(ws, m)) :
                \E w \in ToSet(ws) : w.thread = u /\ w.mutex = m
<1>1. ASSUME NEW i \in DOMAIN ws
      PROVE  ws[i] \in CondWaiter /\ ws[i].thread \in Thread /\ ws[i].mutex \in Mutex
  <2>1. ws[i] \in CondWaiter BY LenProperties
  <2> QED BY <2>1 DEF CondWaiter
<1>2. ASSUME NEW m \in Mutex
      PROVE  ToSet(WokenThreads(ws, m)) = {ws[i].thread : i \in AskedFor(ws, m)}
  BY WokenInOrder DEF CondWaiter
<1>3. ASSUME NEW m \in Mutex, NEW u \in ToSet(WokenThreads(ws, m))
      PROVE  \E i \in DOMAIN ws : ws[i].thread = u /\ ws[i].mutex = m
  BY <1>2 DEF AskedFor
<1>4. ASSUME NEW i \in DOMAIN ws
      PROVE  ws[i].thread \in ToSet(WokenThreads(ws, ws[i].mutex))
  BY <1>1, <1>2 DEF AskedFor
<1>5. ThreadsOf(ws) \subseteq Thread BY <1>1 DEF ThreadsOf
<1>6. ASSUME NEW m \in Mutex PROVE ToSet(WokenThreads(ws, m)) \subseteq ThreadsOf(ws)
  BY <1>3 DEF ThreadsOf
<1>7. ASSUME NEW u \in ThreadsOf(ws) PROVE \E m \in Mutex : u \in ToSet(WokenThreads(ws, m))
  BY <1>1, <1>4 DEF ThreadsOf
<1>8. ASSUME NEW m \in Mutex, NEW n \in Mutex, NEW u,
             u \in ToSet(WokenThreads(ws, m)), u \in ToSet(WokenThreads(ws, n))
      PROVE  m = n
  BY <1>3, <1>8 DEF OnceEach
<1>9. ASSUME NEW m \in Mutex, NEW u \in ToSet(WokenThreads(ws, m))
      PROVE  \E w \in ToSet(ws) : w.thread = u /\ w.mutex = m
  BY <1>3 DEF ToSet
<1> QED BY <1>5, <1>6, <1>7, <1>8, <1>9

\* SimMutex::lock_async: the first for a free mutex is resumed, the others queue.
LEMMA AsyncParts ==
    ASSUME NEW ws \in Seq(CondWaiter), OnceEach(ws)
    PROVE  /\ \A m \in Mutex :
                /\ Queued(ws, m) \in Seq(Thread) /\ IsInjective(Queued(ws, m))
                /\ ToSet(Queued(ws, m)) = ToSet(WokenThreads(ws, m)) \ FirstWoken(ws)
                /\ m \in Freed(ws) => /\ Head(WokenThreads(ws, m)) \in Thread
                                      /\ Head(WokenThreads(ws, m)) \in FirstWoken(ws)
                                      /\ Head(WokenThreads(ws, m)) \in ToSet(WokenThreads(ws, m))
           /\ FirstWoken(ws) \subseteq ThreadsOf(ws)
<1>1. /\ ThreadsOf(ws) \subseteq Thread
      /\ \A m \in Mutex : ToSet(WokenThreads(ws, m)) \subseteq ThreadsOf(ws)
      /\ \A m, n \in Mutex : \A u \in ThreadsOf(ws) :
           u \in ToSet(WokenThreads(ws, m)) /\ u \in ToSet(WokenThreads(ws, n)) => m = n
  BY WokenParts
<1>2. ASSUME NEW m \in Mutex
      PROVE  WokenThreads(ws, m) \in Seq(Thread) /\ IsInjective(WokenThreads(ws, m))
  BY WokenInOrder DEF CondWaiter
<1>3. ASSUME NEW m \in Freed(ws)
      PROVE  /\ m \in Mutex /\ WokenThreads(ws, m) # <<>>
             /\ Head(WokenThreads(ws, m)) \in FirstWoken(ws)
  BY DEF Freed, FirstWoken
<1>4. ASSUME NEW m \in Freed(ws)
      PROVE  /\ Tail(WokenThreads(ws, m)) \in Seq(Thread)
             /\ Head(WokenThreads(ws, m)) \in ToSet(WokenThreads(ws, m))
             /\ ToSet(Tail(WokenThreads(ws, m)))
                  = ToSet(WokenThreads(ws, m)) \ {Head(WokenThreads(ws, m))}
             /\ IsInjective(Tail(WokenThreads(ws, m)))
  BY <1>2, <1>3, TailQueue
<1>5. ASSUME NEW u \in FirstWoken(ws)
      PROVE  \E m \in Freed(ws) : u = Head(WokenThreads(ws, m))
  BY DEF FirstWoken
<1>6. FirstWoken(ws) \subseteq ThreadsOf(ws) BY <1>1, <1>3, <1>4, <1>5
<1>7. ASSUME NEW m \in Mutex, NEW u \in FirstWoken(ws), u \in ToSet(WokenThreads(ws, m))
      PROVE  m \in Freed(ws) /\ u = Head(WokenThreads(ws, m))
  BY <1>1, <1>3, <1>4, <1>5, <1>6, <1>7
<1>8. ASSUME NEW m \in Mutex
      PROVE  /\ Queued(ws, m) \in Seq(Thread) /\ IsInjective(Queued(ws, m))
             /\ ToSet(Queued(ws, m)) = ToSet(WokenThreads(ws, m)) \ FirstWoken(ws)
             /\ m \in Freed(ws) => /\ Head(WokenThreads(ws, m)) \in Thread
                                   /\ Head(WokenThreads(ws, m)) \in FirstWoken(ws)
                                   /\ Head(WokenThreads(ws, m)) \in ToSet(WokenThreads(ws, m))
  <2>1. CASE m \in Freed(ws)
    <3>1. Queued(ws, m) = Tail(WokenThreads(ws, m)) BY <2>1 DEF Queued
    <3>2. ASSUME NEW u \in ToSet(WokenThreads(ws, m))
          PROVE  u \in FirstWoken(ws) <=> u = Head(WokenThreads(ws, m))
      BY <1>3, <1>7, <2>1
    <3>3. Head(WokenThreads(ws, m)) \in Thread BY <1>1, <1>4, <2>1
    <3> QED BY <1>3, <1>4, <2>1, <3>1, <3>2, <3>3
  <2>2. CASE m \notin Freed(ws)
    <3>1. Queued(ws, m) = WokenThreads(ws, m) BY <2>2 DEF Queued
    <3>2. ToSet(WokenThreads(ws, m)) \cap FirstWoken(ws) = {} BY <1>7, <2>2
    <3> QED BY <1>2, <2>2, <3>1, <3>2
  <2> QED BY <2>1, <2>2
<1> QED BY <1>6, <1>8

\* The waiters of a condition move to the queues of their mutexes or are resumed: the queues keep
\* their invariant.
LEMMA LockAsyncQueue ==
    ASSUME QueueInv, NEW c \in Cond, NEW ws \in Seq(CondWaiter), OnceEach(ws),
           NEW rest \in Seq(CondWaiter), OnceEach(rest),
           ToSet(ws) \subseteq ToSet(cWaiting[c]), ToSet(rest) \subseteq ToSet(cWaiting[c]),
           ThreadsOf(rest) = ThreadsOf(cWaiting[c]) \ ThreadsOf(ws),
           LockAsync(ws), cWaiting' = [cWaiting EXCEPT ![c] = rest],
           UNCHANGED <<bWaiting, held>>, UNCHANGED futexVars
    PROVE  QueueInv'
<1>0. FutexType' /\ FutexOnce' /\ UNCHANGED <<waiting, sleeping>>
  BY DEF QueueInv, FutexType, FutexOnce, futexVars
<1> DEFINE p == <<"cond", c>>
           R == ThreadsOf(ws)
           F == FirstWoken(ws)
           W(m) == ToSet(WokenThreads(ws, m))
<1>1. /\ owner' = [m \in Mutex |-> IF m \in Freed(ws) THEN Head(WokenThreads(ws, m))
                                                      ELSE owner[m]]
      /\ mWaiting' = [m \in Mutex |-> mWaiting[m] \o Queued(ws, m)]
      /\ ResumeThreads(F)
  BY DEF LockAsync, Queued
<1>2. /\ R \subseteq Thread
      /\ \A m \in Mutex : W(m) \subseteq R
      /\ \A u \in R : \E m \in Mutex : u \in W(m)
      /\ \A m, n \in Mutex : \A u \in R : u \in W(m) /\ u \in W(n) => m = n
      /\ \A m \in Mutex : \A u \in W(m) : \E w \in ToSet(ws) : w.thread = u /\ w.mutex = m
  BY WokenParts
<1>3. /\ \A m \in Mutex :
           /\ Queued(ws, m) \in Seq(Thread) /\ IsInjective(Queued(ws, m))
           /\ ToSet(Queued(ws, m)) = W(m) \ F
           /\ m \in Freed(ws) => /\ Head(WokenThreads(ws, m)) \in Thread
                                 /\ Head(WokenThreads(ws, m)) \in F
                                 /\ Head(WokenThreads(ws, m)) \in W(m)
      /\ F \subseteq R
  BY AsyncParts
<1>4. R \subseteq ThreadsOf(cWaiting[c])
  <2>1. \A i \in DOMAIN ws : \E j \in DOMAIN cWaiting[c] : ws[i] = cWaiting[c][j] BY DEF ToSet
  <2> QED BY <2>1 DEF ThreadsOf
<1>5. /\ \A m \in Mutex : ToSet(mWaiting[m]) \subseteq blocked
      /\ ThreadsOf(cWaiting[c]) \subseteq blocked
  BY InLineBlocked DEF QueueInv
<1>6. F \subseteq blocked BY <1>3, <1>4, <1>5
<1>7. /\ p \in Queue /\ Lines[p] = ThreadsOf(cWaiting[c]) /\ Lines'[p] = ThreadsOf(cWaiting'[c])
      /\ \A m \in Mutex : /\ <<"mutex", m>> \in Queue
                          /\ Lines[<<"mutex", m>>] = ToSet(mWaiting[m])
                          /\ Lines'[<<"mutex", m>>] = ToSet(mWaiting'[m])
                          /\ <<"mutex", m>> # p
  BY QueueForms
<1>8. /\ cWaiting'[c] = rest
      /\ \A d \in Cond : d # c => cWaiting'[d] = cWaiting[d]
  BY DEF QueueInv, SyncType
<1> HIDE DEF p, R, F, W
<1>9. ASSUME NEW m \in Mutex
      PROVE  ToSet(mWaiting[m]) \cap R = {}
  <2>1. <<"mutex", m>> # p /\ <<"mutex", m>> \in Queue
        /\ Lines[<<"mutex", m>>] = ToSet(mWaiting[m]) BY <1>7
  <2>2. p \in Queue /\ Lines[p] = ThreadsOf(cWaiting[c]) BY <1>7
  <2> QED BY <1>2, <1>4, <2>1, <2>2 DEF QueueInv, Placed
<1>10. ASSUME NEW m \in Mutex
       PROVE  /\ mWaiting'[m] = mWaiting[m] \o Queued(ws, m)
              /\ mWaiting'[m] \in Seq(Thread) /\ IsInjective(mWaiting'[m])
              /\ ToSet(mWaiting'[m]) = ToSet(mWaiting[m]) \cup (W(m) \ F)
  <2>1. mWaiting'[m] = mWaiting[m] \o Queued(ws, m) BY <1>1
  <2>2. mWaiting[m] \in Seq(Thread) /\ IsInjective(mWaiting[m])
    BY DEF QueueInv, SyncType, SyncOnce
  <2>3. /\ Queued(ws, m) \in Seq(Thread) /\ IsInjective(Queued(ws, m))
        /\ ToSet(Queued(ws, m)) = W(m) \ F
    BY <1>3
  <2>4. ToSet(mWaiting[m]) \cap ToSet(Queued(ws, m)) = {} BY <1>2, <1>9, <2>3
  <2> QED BY <2>1, <2>2, <2>3, <2>4, ConcatQueue
<1>11. /\ ThreadType' /\ StatusInv' /\ blocked' = blocked \ F
       /\ pending' = pending /\ waiter' = waiter
  BY <1>1, <1>6, ResumeStatus DEF QueueInv
<1>12. PendingStays BY <1>11 DEF PendingStays
<1>13. Placed(Lines, blocked)'
  <2> DEFINE D == [r \in Queue |-> IF r[1] = "mutex" THEN W(r[2]) \ F ELSE {}]
             M == R \ F
  <2>1. Moves(Lines, Lines', R, D)
    <3> SUFFICES ASSUME NEW r \in Queue, NEW u \in Thread
                 PROVE  u \in Lines'[r] <=> (u \in Lines[r] /\ u \notin R) \/ u \in D[r]
      BY DEF Moves
    <3>1. r # p /\ u \in Lines[r] => u \notin R BY <1>4, <1>7 DEF QueueInv, Placed
    <3>2. CASE r = p
      <4>1. u \notin D[r] BY <3>2 DEF p
      <4> QED BY <3>2, <4>1, <1>7, <1>8 DEF R
    <3>3. CASE \E m \in Mutex : r = <<"mutex", m>>
      <4>1. PICK m \in Mutex : r = <<"mutex", m>> BY <3>3
      <4>2. D[r] = W(m) \ F BY <4>1
      <4>3. Lines[r] = ToSet(mWaiting[m]) /\ Lines'[r] = ToSet(mWaiting[m]) \cup (W(m) \ F) /\ r # p
        BY <1>7, <1>10, <4>1
      <4> QED BY <3>1, <4>2, <4>3
    <3>4. CASE r # p /\ ~\E m \in Mutex : r = <<"mutex", m>>
      <4>1. Lines'[r] = Lines[r] /\ r[1] # "mutex"
        <5>1. r[1] # "mutex" BY <3>4 DEF Queue
        <5>2. Lines'[r] = Lines[r]
          BY <1>0, <1>8, <1>11, <3>4, QueueKinds, LinesFrame DEF p
        <5> QED BY <5>1, <5>2
      <4> QED BY <3>1, <3>4, <4>1
    <3> QED BY <3>2, <3>3, <3>4
  <2>2. Placed(D, M)
    <3>1. ASSUME NEW q \in Queue, NEW r \in Queue, NEW u \in Thread, u \in D[q], u \in D[r]
          PROVE  q = r
      <4>1. PICK m \in Mutex : q = <<"mutex", m>> BY <3>1 DEF Queue
      <4>2. PICK n \in Mutex : r = <<"mutex", n>> BY <3>1 DEF Queue
      <4>3. u \in W(m) /\ u \in W(n) BY <3>1, <4>1, <4>2
      <4> QED BY <1>2, <4>1, <4>2, <4>3
    <3>2. ASSUME NEW u \in M PROVE \E q \in Queue : u \in D[q]
      <4>1. PICK m \in Mutex : u \in W(m) BY <1>2
      <4>2. u \in D[<<"mutex", m>>] BY <1>7, <4>1
      <4> QED BY <1>7, <4>2
    <3>3. ASSUME NEW q \in Queue, NEW u \in D[q] PROVE u \in M
      <4>1. PICK m \in Mutex : q = <<"mutex", m>> BY <3>3 DEF Queue
      <4>2. u \in W(m) /\ u \notin F BY <3>3, <4>1
      <4> QED BY <1>2, <4>2
    <3> HIDE DEF D, M
    <3> QED BY <3>1, <3>2, <3>3 DEF Placed
  <2>3. M \cap blocked \subseteq R OBVIOUS
  <2>4. blocked' = (blocked \ R) \cup M BY <1>3, <1>4, <1>5, <1>11
  <2> HIDE DEF D, M
  <2>5. Placed(Lines, blocked) BY DEF QueueInv
  <2>6. Placed(Lines', (blocked \ R) \cup M) BY <2>1, <2>2, <2>3, <2>5, MovesPlaced
  <2> QED BY <2>4, <2>6
<1>14. SyncType'
  <2>1. mWaiting' \in [Mutex -> Seq(Thread)] BY <1>1, <1>10
  <2>2. owner' \in [Mutex -> Thread \cup {NoThread}]
    BY <1>1, <1>3 DEF QueueInv, SyncType
  <2>3. cWaiting' \in [Cond -> Seq(CondWaiter)] BY DEF QueueInv, SyncType
  <2> QED BY <2>1, <2>2, <2>3 DEF QueueInv, SyncType
<1>15. SyncOnce' BY <1>8, <1>10 DEF QueueInv, SyncOnce
<1>16. \A d \in Cond : ToSet(cWaiting'[d]) \subseteq ToSet(cWaiting[d]) BY <1>8
<1>17. CondReason' /\ BarrierReason' /\ FutexReason' /\ SleepReason' /\ JoinReason'
  BY <1>0, <1>11, <1>12, <1>16, ReasonsFrame
<1>18. MutexReason'
  <2> SUFFICES ASSUME NEW m \in Mutex, NEW u \in ToSet(mWaiting'[m])
               PROVE  pending'[u].reason \in {"MUTEX", "COND"} /\ pending'[u].object = m
    BY DEF MutexReason
  <2>1. CASE u \in ToSet(mWaiting[m])
    BY <1>11, <2>1 DEF QueueInv, Reasons, MutexReason
  <2>2. CASE u \in W(m)
    <3>1. PICK w \in ToSet(ws) : w.thread = u /\ w.mutex = m BY <1>2, <2>2
    <3>2. pending[u] = Call("COND", m) BY <3>1 DEF QueueInv, Reasons, CondReason
    <3> QED BY <1>11, <3>2 DEF Call
  <2> QED BY <1>10, <2>1, <2>2
<1> QED BY <1>0, <1>11, <1>13, <1>14, <1>15, <1>17, <1>18 DEF QueueInv, Reasons

\* SimCond::signal and broadcast both wake some waiters of the condition and keep the others.
LEMMA CondWakes ==
    ASSUME QueueInv, NEW t \in Thread, NEW c \in Cond,
           CondSignal(t, c) \/ CondBroadcast(t, c)
    PROVE  \E ws \in Seq(CondWaiter), rest \in Seq(CondWaiter) :
             /\ OnceEach(ws) /\ OnceEach(rest)
             /\ ToSet(ws) \subseteq ToSet(cWaiting[c]) /\ ToSet(rest) \subseteq ToSet(cWaiting[c])
             /\ ThreadsOf(rest) = ThreadsOf(cWaiting[c]) \ ThreadsOf(ws)
             /\ LockAsync(ws)
             /\ cWaiting' = [cWaiting EXCEPT ![c] = rest]
             /\ UNCHANGED <<bWaiting, held>>
<1> DEFINE s == cWaiting[c]
<1>1. s \in Seq(CondWaiter) /\ OnceEach(s) BY DEF QueueInv, SyncType, SyncOnce
<1>2. s # <<>> BY DEF CondSignal, CondBroadcast
<1>3. CASE CondSignal(t, c)
  <2> DEFINE h == SubSeq(s, 1, 1)
             r == Tail(s)
  <2>1. LockAsync(h) /\ cWaiting' = [cWaiting EXCEPT ![c] = r] /\ UNCHANGED <<bWaiting, held>>
    BY <1>3 DEF CondSignal, QueueInv, SyncType
  <2> HIDE DEF s
  <2>2. Len(s) \in Nat /\ Len(s) # 0 /\ DOMAIN s = 1 .. Len(s) /\ \A i \in DOMAIN s : s[i] \in CondWaiter
    BY <1>1, <1>2, LenProperties, EmptySeq
  <2>3. r = SubSeq(s, 1 + 1, Len(s)) BY <1>1, <1>2, TailIsSubSeq
  <2>4. /\ r \in Seq(CondWaiter) /\ OnceEach(r) /\ ToSet(r) \subseteq ToSet(s)
        /\ ThreadsOf(r) = ThreadsOf(s) \ FirstN(s, 1)
    <3>1. \A n \in Nat :
            /\ SubSeq(s, n + 1, Len(s)) \in Seq(CondWaiter)
            /\ OnceEach(SubSeq(s, n + 1, Len(s)))
            /\ ToSet(SubSeq(s, n + 1, Len(s))) \subseteq ToSet(s)
            /\ ThreadsOf(SubSeq(s, n + 1, Len(s))) = ThreadsOf(s) \ FirstN(s, n)
      BY <1>1, DropWaiters
    <3>2. 1 \in Nat OBVIOUS
    <3>3. /\ SubSeq(s, 1 + 1, Len(s)) \in Seq(CondWaiter)
          /\ OnceEach(SubSeq(s, 1 + 1, Len(s)))
          /\ ToSet(SubSeq(s, 1 + 1, Len(s))) \subseteq ToSet(s)
          /\ ThreadsOf(SubSeq(s, 1 + 1, Len(s))) = ThreadsOf(s) \ FirstN(s, 1)
      BY <3>1, <3>2, Zenon
    <3> HIDE DEF r
    <3> QED BY <2>3, <3>3
  <2>5. 1 \in DOMAIN s /\ s[1] \in CondWaiter BY <2>2
  <2>6. h \in Seq(CondWaiter) /\ Len(h) = 1 /\ h[1] = s[1]
    <3>1. \A i \in 1 .. 1 : s[i] \in CondWaiter BY <2>5
    <3>2. /\ h \in Seq(CondWaiter) /\ Len(h) = IF 1 <= 1 THEN 1 - 1 + 1 ELSE 0
          /\ \A i \in 1 .. 1 - 1 + 1 : h[i] = s[1 + i - 1]
      BY <3>1, SubSeqProperties
    <3> QED BY <3>2
  <2> HIDE DEF h, r
  <2>7. DOMAIN h = {1} BY <2>6, LenProperties
  <2>8. OnceEach(h) /\ ToSet(h) = {s[1]} /\ ThreadsOf(h) = {s[1].thread}
    BY <2>6, <2>7 DEF OnceEach, ToSet, ThreadsOf
  <2>9. FirstN(s, 1) = {s[1].thread}
    <3>1. DOMAIN s \cap 1 .. 1 = {1} BY <2>5
    <3> QED BY <3>1 DEF FirstN
  <2>10. ToSet(h) \subseteq ToSet(s) BY <2>5, <2>8 DEF ToSet
  <2> QED BY <2>1, <2>4, <2>6, <2>8, <2>9, <2>10 DEF s
<1>4. CASE CondBroadcast(t, c)
  <2>1. LockAsync(s) /\ cWaiting' = [cWaiting EXCEPT ![c] = <<>>] /\ UNCHANGED <<bWaiting, held>>
    BY <1>4 DEF CondBroadcast
  <2>2. /\ <<>> \in Seq(CondWaiter) /\ OnceEach(<<>>) /\ ToSet(<<>>) = {} /\ ThreadsOf(<<>>) = {}
    BY DEF OnceEach, ToSet, ThreadsOf
  <2>3. ThreadsOf(<<>>) = ThreadsOf(s) \ ThreadsOf(s) BY <2>2
  <2> QED BY <1>1, <2>1, <2>2, <2>3
<1> QED BY <1>3, <1>4

\* SimCond::signal and broadcast keep the queues.
LEMMA CondWakesQueue ==
    ASSUME QueueInv, NEW t \in Thread, NEW c \in Cond,
           CondSignal(t, c) \/ CondBroadcast(t, c), UNCHANGED futexVars
    PROVE  QueueInv'
BY CondWakes, LockAsyncQueue

\* SimBarrier::wait keeps the queues.
LEMMA BarrierQueue ==
    ASSUME QueueInv, NEW t \in Thread, NEW b \in Barrier, BarrierWait(t, b), UNCHANGED futexVars
    PROVE  QueueInv'
<1>0. FutexType' /\ FutexOnce' /\ UNCHANGED <<waiting, sleeping>>
  BY DEF QueueInv, FutexType, FutexOnce, futexVars
<1> DEFINE q == <<"barrier", b>>
           call == Call("BARRIER", b)
           R == ToSet(bWaiting[b])
<1>1. Executing(t) /\ UNCHANGED <<owner, mWaiting, cWaiting, held>> BY DEF BarrierWait
<1>2. q \in Queue /\ Lines[q] = ToSet(bWaiting[b]) /\ Lines'[q] = ToSet(bWaiting'[b])
  BY QueueForms
<1>3. /\ bWaiting[b] \in Seq(Thread) /\ IsInjective(bWaiting[b])
      /\ bWaiting \in [Barrier -> Seq(Thread)]
  BY DEF QueueInv, SyncType, SyncOnce
<1>4. R \subseteq blocked BY InLineBlocked DEF QueueInv
<1>5. CASE Len(bWaiting[b]) = BarrierCount - 1
  <2>1. bWaiting' = [bWaiting EXCEPT ![b] = <<>>] /\ ResumeThreads(R)
    BY <1>5 DEF BarrierWait
  <2>2. bWaiting'[b] = <<>> /\ \A d \in Barrier : d # b => bWaiting'[d] = bWaiting[d]
    BY <1>3, <2>1
  <2>3. ToSet(<<>>) = {} /\ IsInjective(<<>>) BY DEF ToSet, IsInjective
  <2>4. ASSUME NEW r \in Queue, r # q PROVE Lines'[r] = Lines[r]
    <3>1. waiter' = waiter BY <2>1 DEF ResumeThreads
    <3> QED BY <1>0, <1>1, <2>2, <2>4, <3>1, QueueKinds, LinesFrame
  <2> HIDE DEF q, R
  <2>5. Lines'[q] = Lines[q] \ R /\ R \subseteq Lines[q] BY <1>2, <2>2, <2>3 DEF R
  <2>6. R \subseteq Thread BY <1>4 DEF QueueInv, ThreadType
  <2>7. /\ ThreadType' /\ StatusInv' /\ Placed(Lines, blocked)' /\ PendingStays
        /\ waiter' = waiter
    BY <1>2, <2>1, <2>4, <2>5, <2>6, LeaveStep
  <2>8. SyncType' BY <1>1, <2>1 DEF QueueInv, SyncType
  <2>9. SyncOnce' BY <1>1, <2>2, <2>3 DEF QueueInv, SyncOnce
  <2>10. \A d \in Barrier : ToSet(bWaiting'[d]) \subseteq ToSet(bWaiting[d]) BY <2>2, <2>3
  <2>11. Reasons' BY <1>0, <1>1, <2>7, <2>10, ReasonsFrame DEF Reasons
  <2> QED BY <1>0, <2>7, <2>8, <2>9, <2>11 DEF QueueInv
<1>6. CASE Len(bWaiting[b]) # BarrierCount - 1
  <2>1. bWaiting' = [bWaiting EXCEPT ![b] = Append(@, t)] /\ StallThread(t, call, {})
    BY <1>6 DEF BarrierWait
  <2>2. /\ bWaiting'[b] = Append(bWaiting[b], t)
        /\ \A d \in Barrier : d # b => bWaiting'[d] = bWaiting[d]
    BY <1>3, <2>1
  <2>3. t \notin ToSet(bWaiting[b]) BY <1>1, <1>4 DEF Executing
  <2>4. /\ bWaiting'[b] \in Seq(Thread) /\ IsInjective(bWaiting'[b])
        /\ ToSet(bWaiting'[b]) = ToSet(bWaiting[b]) \cup {t}
    BY <1>3, <2>2, <2>3, AppendQueue
  <2>5. ASSUME NEW r \in Queue, r # q PROVE Lines'[r] = Lines[r]
    <3>1. waiter' = waiter BY <2>1 DEF StallThread
    <3> QED BY <1>0, <1>1, <2>2, <2>5, <3>1, QueueKinds, LinesFrame
  <2>6. call \in CallSet BY DEF Call, CallSet
  <2> HIDE DEF q, call
  <2>7. /\ ThreadType' /\ StatusInv' /\ Placed(Lines, blocked)' /\ PendingStays
        /\ pending'[t] = call /\ waiter' = waiter
    BY <1>1, <1>2, <2>1, <2>4, <2>5, <2>6, EnterStep
  <2>8. SyncType'
    <3>1. bWaiting' \in [Barrier -> Seq(Thread)] BY <1>3, <2>1, <2>2, <2>4
    <3> QED BY <1>1, <3>1 DEF QueueInv, SyncType
  <2>9. SyncOnce' BY <1>1, <2>2, <2>4 DEF QueueInv, SyncOnce
  <2>10. MutexReason' /\ CondReason' /\ FutexReason' /\ SleepReason' /\ JoinReason'
    BY <1>0, <1>1, <2>7, ReasonsFrame
  <2>11. BarrierReason'
    <3> SUFFICES ASSUME NEW d \in Barrier, NEW u \in ToSet(bWaiting'[d])
                 PROVE  pending'[u].reason = "BARRIER"
      BY DEF BarrierReason
    <3>1. CASE u = t BY <2>7, <3>1 DEF call, Call
    <3>2. CASE u \in ToSet(bWaiting[d])
      <4>1. u \in blocked BY <3>2, InLineBlocked DEF QueueInv
      <4> QED BY <3>2, <4>1, <2>7 DEF QueueInv, Reasons, BarrierReason, PendingStays
    <3> QED BY <2>2, <2>4, <3>1, <3>2
  <2> QED BY <1>0, <2>7, <2>8, <2>9, <2>10, <2>11 DEF QueueInv, Reasons
<1> QED BY <1>5, <1>6

-----------------------------------------------------------------------------

\* futexWait keeps the queues.
LEMMA FutexWaitQueue ==
    ASSUME QueueInv, NEW t \in Thread, NEW f \in Futex, NEW timeout \in 1 .. Never,
           FutexWait(t, f, timeout), UNCHANGED syncVars
    PROVE  QueueInv'
<1>0. SyncType' /\ SyncOnce' /\ UNCHANGED <<mWaiting, cWaiting, bWaiting>>
  BY DEF QueueInv, SyncType, SyncOnce, syncVars
<1> DEFINE q == <<"futex", f>>
           call == Call("FUTEX", timeout)
           w == Waiter(t, timeout)
<1>1. /\ Executing(t)
      /\ waiting' = [waiting EXCEPT ![f] = Append(@, w)]
      /\ StallThread(t, call, {})
      /\ UNCHANGED <<sleeping, word, owes, now>>
  BY DEF FutexWait
<1>2. q \in Queue /\ Lines[q] = ThreadsOf(waiting[f]) /\ Lines'[q] = ThreadsOf(waiting'[f])
  BY QueueForms
<1>3. /\ waiting[f] \in Seq(FutexWaiter) /\ OnceEach(waiting[f])
      /\ waiting \in [Futex -> Seq(FutexWaiter)]
  BY DEF QueueInv, FutexType, FutexOnce
<1>4. t \notin ThreadsOf(waiting[f])
  <2>1. ThreadsOf(waiting[f]) \subseteq blocked BY InLineBlocked DEF QueueInv
  <2> QED BY <1>1, <2>1 DEF Executing
<1>5. /\ waiting'[f] = Append(waiting[f], w)
      /\ \A g \in Futex : g # f => waiting'[g] = waiting[g]
  BY <1>1, <1>3
<1>6. /\ w \in FutexWaiter /\ w.thread = t /\ w.timeout = timeout /\ call \in CallSet
  BY DEF Waiter, FutexWaiter, Call, CallSet
<1>7. ASSUME NEW r \in Queue, r # q PROVE Lines'[r] = Lines[r]
  <2>1. waiter' = waiter BY <1>1 DEF StallThread
  <2>2. UNCHANGED <<mWaiting, cWaiting, bWaiting, sleeping>> BY <1>0, <1>1
  <2>3. \A h \in Futex : r = <<"futex", h>> => waiting'[h] = waiting[h] BY <1>5, <1>7
  <2> QED BY <2>1, <2>2, <2>3, FutexFrame
<1> HIDE DEF q, call, w
<1>8. /\ waiting'[f] \in Seq(FutexWaiter) /\ OnceEach(waiting'[f])
      /\ ThreadsOf(waiting'[f]) = ThreadsOf(waiting[f]) \cup {t}
      /\ ToSet(waiting'[f]) = ToSet(waiting[f]) \cup {w}
  BY <1>3, <1>4, <1>5, <1>6, AppendWaiters, AppendQueue
<1>9. /\ ThreadType' /\ StatusInv' /\ Placed(Lines, blocked)' /\ PendingStays
      /\ pending'[t] = call /\ waiter' = waiter
  BY <1>1, <1>2, <1>6, <1>7, <1>8, EnterStep
<1>10. FutexType'
  <2>1. waiting' \in [Futex -> Seq(FutexWaiter)] BY <1>1, <1>3, <1>5, <1>8
  <2> QED BY <1>1, <2>1 DEF QueueInv, FutexType
<1>11. FutexOnce' BY <1>1, <1>5, <1>8 DEF QueueInv, FutexOnce
<1>12. MutexReason' /\ CondReason' /\ BarrierReason' /\ SleepReason' /\ JoinReason'
  BY <1>0, <1>1, <1>9, ReasonsFrame
<1>13. FutexReason'
  <2> SUFFICES ASSUME NEW g \in Futex, NEW x \in ToSet(waiting'[g])
               PROVE  pending'[x.thread] = Call("FUTEX", x.timeout)
    BY DEF FutexReason
  <2>1. CASE x = w BY <1>6, <1>9, <2>1 DEF call
  <2>2. CASE x \in ToSet(waiting[g])
    <3>1. x.thread \in blocked
      <4>1. ThreadsOf(waiting[g]) \subseteq blocked BY InLineBlocked DEF QueueInv
      <4> QED BY <2>2, <4>1, EntryThread
    <3>2. pending[x.thread] = Call("FUTEX", x.timeout) BY <2>2 DEF QueueInv, Reasons, FutexReason
    <3> QED BY <3>1, <3>2, <1>9 DEF PendingStays
  <2> QED BY <1>5, <1>8, <2>1, <2>2
<1> QED BY <1>0, <1>9, <1>10, <1>11, <1>12, <1>13 DEF QueueInv, Reasons

\* handleSleepCall keeps the queues.
LEMMA SleepQueue ==
    ASSUME QueueInv, NEW t \in Thread, NEW wake \in 1 .. MaxTime,
           HandleSleepCall(t, wake), UNCHANGED syncVars
    PROVE  QueueInv'
<1>0. SyncType' /\ SyncOnce' /\ UNCHANGED <<mWaiting, cWaiting, bWaiting>>
  BY DEF QueueInv, SyncType, SyncOnce, syncVars
<1> DEFINE q == <<"sleep", NoFutex>>
           call == Call("SLEEP", wake)
           w == Waiter(t, wake)
<1>1. /\ Executing(t)
      /\ sleeping' = Append(sleeping, w)
      /\ StallThread(t, call, {})
      /\ UNCHANGED <<waiting, word, owes, now>>
  BY DEF HandleSleepCall
<1>2. q \in Queue /\ Lines[q] = ThreadsOf(sleeping) /\ Lines'[q] = ThreadsOf(sleeping')
  BY QueueForms
<1>3. sleeping \in Seq(FutexWaiter) /\ OnceEach(sleeping)
  BY DEF QueueInv, FutexType, FutexOnce
<1>4. t \notin ThreadsOf(sleeping)
  <2>1. ThreadsOf(sleeping) \subseteq blocked BY InLineBlocked DEF QueueInv
  <2> QED BY <1>1, <2>1 DEF Executing
<1>5. wake \in 1 .. Never BY SyscallAssumption DEF Never
<1>6. /\ w \in FutexWaiter /\ w.thread = t /\ w.timeout = wake /\ call \in CallSet
  BY <1>5 DEF Waiter, FutexWaiter, Call, CallSet
<1>7. ASSUME NEW r \in Queue, r # q PROVE Lines'[r] = Lines[r]
  <2>1. waiter' = waiter BY <1>1 DEF StallThread
  <2> QED BY <1>0, <1>1, <1>7, <2>1, QueueKinds, LinesFrame
<1> HIDE DEF q, call, w
<1>8. /\ sleeping' \in Seq(FutexWaiter) /\ OnceEach(sleeping')
      /\ ThreadsOf(sleeping') = ThreadsOf(sleeping) \cup {t}
      /\ ToSet(sleeping') = ToSet(sleeping) \cup {w}
  BY <1>1, <1>3, <1>4, <1>6, AppendWaiters, AppendQueue
<1>9. /\ ThreadType' /\ StatusInv' /\ Placed(Lines, blocked)' /\ PendingStays
      /\ pending'[t] = call /\ waiter' = waiter
  BY <1>1, <1>2, <1>6, <1>7, <1>8, EnterStep
<1>10. FutexType' BY <1>1, <1>8 DEF QueueInv, FutexType
<1>11. FutexOnce' BY <1>1, <1>8 DEF QueueInv, FutexOnce
<1>12. MutexReason' /\ CondReason' /\ BarrierReason' /\ FutexReason' /\ JoinReason'
  BY <1>0, <1>1, <1>9, ReasonsFrame
<1>13. SleepReason'
  <2> SUFFICES ASSUME NEW x \in ToSet(sleeping')
               PROVE  pending'[x.thread] = Call("SLEEP", x.timeout)
    BY DEF SleepReason
  <2>1. CASE x = w BY <1>6, <1>9, <2>1 DEF call
  <2>2. CASE x \in ToSet(sleeping)
    <3>1. x.thread \in blocked
      <4>1. ThreadsOf(sleeping) \subseteq blocked BY InLineBlocked DEF QueueInv
      <4> QED BY <2>2, <4>1, EntryThread
    <3>2. pending[x.thread] = Call("SLEEP", x.timeout) BY <2>2 DEF QueueInv, Reasons, SleepReason
    <3> QED BY <3>1, <3>2, <1>9 DEF PendingStays
  <2> QED BY <1>8, <2>1, <2>2
<1> QED BY <1>0, <1>9, <1>10, <1>11, <1>12, <1>13 DEF QueueInv, Reasons

\* dequeueWaiter: who is woken and who stays at the futex.
LEMMA LeftWaiters ==
    ASSUME QueueInv, NEW f \in Futex, NEW n \in Nat
    PROVE  /\ Left(f, n) \in Seq(FutexWaiter) /\ OnceEach(Left(f, n))
           /\ ThreadsOf(Left(f, n)) = ThreadsOf(waiting[f]) \ Woken(f, n)
           /\ ToSet(Left(f, n)) \subseteq ToSet(waiting[f])
           /\ Woken(f, n) \subseteq ThreadsOf(waiting[f])
<1>1. waiting[f] \in Seq(FutexWaiter) /\ OnceEach(waiting[f])
  BY DEF QueueInv, FutexType, FutexOnce
<1>2. Woken(f, n) = FirstN(waiting[f], n) BY DEF Woken, FirstN
<1>3. Left(f, n) = SubSeq(waiting[f], n + 1, Len(waiting[f])) BY DEF Left
<1>4. /\ SubSeq(waiting[f], n + 1, Len(waiting[f])) \in Seq(FutexWaiter)
      /\ ThreadsOf(SubSeq(waiting[f], n + 1, Len(waiting[f])))
           = ThreadsOf(waiting[f]) \ FirstN(waiting[f], n)
      /\ OnceEach(SubSeq(waiting[f], n + 1, Len(waiting[f])))
      /\ FirstN(waiting[f], n) \subseteq ThreadsOf(waiting[f])
      /\ ToSet(SubSeq(waiting[f], n + 1, Len(waiting[f]))) \subseteq ToSet(waiting[f])
  BY <1>1, DropWaiters
<1> QED BY <1>2, <1>3, <1>4

\* FUTEX_WAKE with INT_MAX empties the queue.
LEMMA AllWaiters ==
    ASSUME QueueInv, NEW f \in Futex
    PROVE  All \in Nat /\ Left(f, All) = <<>> /\ Woken(f, All) = ThreadsOf(waiting[f])
<1>1. waiting[f] \in Seq(FutexWaiter) /\ OnceEach(waiting[f])
  BY DEF QueueInv, FutexType, FutexOnce
<1>2. ThreadsOf(waiting[f]) \subseteq Thread
  BY InLineBlocked DEF QueueInv, ThreadType
<1>3. Woken(f, All) = FirstN(waiting[f], All) BY DEF Woken, FirstN
<1>4. Left(f, All) = SubSeq(waiting[f], All + 1, Len(waiting[f])) BY DEF Left
<1>5. /\ All \in Nat
      /\ SubSeq(waiting[f], All + 1, Len(waiting[f])) = <<>>
      /\ FirstN(waiting[f], All) = ThreadsOf(waiting[f])
  BY <1>1, <1>2, QueueFitsThreads
<1> QED BY <1>3, <1>4, <1>5

\* Nobody is in an empty queue.
LEMMA EmptyWaiters ==
    /\ <<>> \in Seq(FutexWaiter) /\ OnceEach(<<>>) /\ ThreadsOf(<<>>) = {} /\ ToSet(<<>>) = {}
BY DEF OnceEach, ThreadsOf, ToSet

\* Queue s becomes r when the threads of R leave it.
Leaves(s, r, R) ==
    /\ r \in Seq(FutexWaiter) /\ OnceEach(r)
    /\ ThreadsOf(r) = ThreadsOf(s) \ R
    /\ ToSet(r) \subseteq ToSet(s)

\* The threads of R leave the queues of the futexes and the sleepers.
LEMMA FutexLeaves ==
    ASSUME QueueInv, NEW R, ResumeThreads(R), UNCHANGED syncVars,
           \A u \in R : u \in ThreadsOf(sleeping) \/ \E f \in Futex : u \in ThreadsOf(waiting[f]),
           \A f \in Futex : Leaves(waiting[f], waiting'[f], R),
           Leaves(sleeping, sleeping', R),
           FutexType'
    PROVE  QueueInv'
<1>0. SyncType' /\ SyncOnce' /\ UNCHANGED <<mWaiting, cWaiting, bWaiting>>
  BY DEF QueueInv, SyncType, SyncOnce, syncVars
<1> DEFINE s == <<"sleep", NoFutex>>
<1>1. /\ s \in Queue /\ Lines[s] = ThreadsOf(sleeping) /\ Lines'[s] = ThreadsOf(sleeping')
      /\ \A f \in Futex : /\ <<"futex", f>> \in Queue
                          /\ Lines[<<"futex", f>>] = ThreadsOf(waiting[f])
                          /\ Lines'[<<"futex", f>>] = ThreadsOf(waiting'[f])
  BY QueueForms
<1>2. R \subseteq blocked BY InLineBlocked DEF QueueInv
<1>3. /\ ThreadType' /\ StatusInv' /\ blocked' = blocked \ R
      /\ pending' = pending /\ waiter' = waiter
  BY <1>2, ResumeStatus DEF QueueInv
<1>4. PendingStays BY <1>3 DEF PendingStays
<1>5. Moves(Lines, Lines', R, Nowhere)
  <2> SUFFICES ASSUME NEW r \in Queue, NEW u \in Thread
               PROVE  u \in Lines'[r] <=> (u \in Lines[r] /\ u \notin R) \/ u \in Nowhere[r]
    BY DEF Moves
  <2>1. u \notin Nowhere[r] BY DEF Nowhere
  <2>2. CASE r = s BY <1>1, <2>1, <2>2 DEF Leaves
  <2>3. CASE \E f \in Futex : r = <<"futex", f>>
    <3>1. PICK f \in Futex : r = <<"futex", f>> BY <2>3
    <3>2. Lines[r] = ThreadsOf(waiting[f]) /\ Lines'[r] = ThreadsOf(waiting'[f]) BY <1>1, <3>1
    <3>3. ThreadsOf(waiting'[f]) = ThreadsOf(waiting[f]) \ R BY DEF Leaves
    <3> QED BY <2>1, <3>2, <3>3
  <2>4. CASE r # s /\ ~\E f \in Futex : r = <<"futex", f>>
    <3>1. u \in Lines[r] /\ u \in R => FALSE
      <4> SUFFICES ASSUME u \in Lines[r], u \in R PROVE FALSE OBVIOUS
      <4>1. \A q \in Queue : u \in Lines[q] => q = r BY DEF QueueInv, Placed
      <4>2. u \notin ThreadsOf(sleeping) BY <1>1, <2>4, <4>1
      <4>3. \A f \in Futex : u \notin ThreadsOf(waiting[f]) BY <1>1, <2>4, <4>1
      <4> QED BY <4>2, <4>3
    <3>2. Lines'[r] = Lines[r] BY <1>0, <1>3, <2>4, QueueKinds, LinesFrame
    <3> QED BY <2>1, <3>1, <3>2
  <2> QED BY <2>2, <2>3, <2>4
<1>6. Placed(Lines, blocked)'
  <2>1. Placed(Lines, blocked) BY DEF QueueInv
  <2>2. Placed(Lines', (blocked \ R) \cup {}) BY <1>5, <2>1, NowherePlaced, MovesPlaced
  <2>3. blocked' = (blocked \ R) \cup {} BY <1>3
  <2> QED BY <2>2, <2>3
<1>7. FutexOnce' BY DEF FutexOnce, Leaves
<1>8. /\ \A f \in Futex : ToSet(waiting'[f]) \subseteq ToSet(waiting[f])
      /\ ToSet(sleeping') \subseteq ToSet(sleeping)
  BY DEF Leaves
<1>9. Reasons' BY <1>0, <1>3, <1>4, <1>8, ReasonsFrame DEF Reasons
<1> QED BY <1>0, <1>3, <1>6, <1>7, <1>9 DEF QueueInv

\* A queue that none of R stands in stays as it is.
LEMMA LeavesSame ==
    ASSUME NEW s \in Seq(FutexWaiter), OnceEach(s), NEW R, ThreadsOf(s) \cap R = {}
    PROVE  Leaves(s, s, R)
BY DEF Leaves

\* Different futexes, and the sleepers, have different waiters.
LEMMA WaitersApart ==
    ASSUME QueueInv
    PROVE  /\ \A f, g \in Futex : f # g => ThreadsOf(waiting[f]) \cap ThreadsOf(waiting[g]) = {}
           /\ \A f \in Futex : ThreadsOf(waiting[f]) \cap ThreadsOf(sleeping) = {}
<1>1. /\ \A f \in Futex : ThreadsOf(waiting[f]) \subseteq Thread
      /\ ThreadsOf(sleeping) \subseteq Thread
  BY InLineBlocked DEF QueueInv, ThreadType
<1>2. ASSUME NEW q \in Queue, NEW r \in Queue, q # r, NEW u \in Thread PROVE ~(u \in Lines[q] /\ u \in Lines[r])
  BY <1>2 DEF QueueInv, Placed
<1>3. ASSUME NEW f \in Futex, NEW g \in Futex, f # g
      PROVE  ThreadsOf(waiting[f]) \cap ThreadsOf(waiting[g]) = {}
  <2>1. /\ <<"futex", f>> \in Queue /\ Lines[<<"futex", f>>] = ThreadsOf(waiting[f])
        /\ <<"futex", g>> \in Queue /\ Lines[<<"futex", g>>] = ThreadsOf(waiting[g])
    BY QueueForms
  <2>2. <<"futex", f>> # <<"futex", g>> BY <1>3
  <2> QED BY <1>1, <1>2, <2>1, <2>2
<1>4. ASSUME NEW f \in Futex PROVE ThreadsOf(waiting[f]) \cap ThreadsOf(sleeping) = {}
  <2>1. /\ <<"futex", f>> \in Queue /\ Lines[<<"futex", f>>] = ThreadsOf(waiting[f])
        /\ <<"sleep", NoFutex>> \in Queue /\ Lines[<<"sleep", NoFutex>>] = ThreadsOf(sleeping)
    BY QueueForms
  <2>2. <<"futex", f>> # <<"sleep", NoFutex>> OBVIOUS
  <2> QED BY <1>1, <1>2, <2>1, <2>2
<1> QED BY <1>3, <1>4

\* futexWake keeps the queues.
LEMMA FutexWakeQueue ==
    ASSUME QueueInv, NEW t \in Thread, NEW f \in Futex, NEW n \in {1, All},
           FutexWake(t, f, n), UNCHANGED syncVars
    PROVE  QueueInv'
<1> DEFINE R == Woken(f, n)
<1>0. n \in Nat BY AllWaiters
<1>1. /\ waiting' = [waiting EXCEPT ![f] = Left(f, n)]
      /\ owes' = [owes EXCEPT ![t] = NoFutex]
      /\ ResumeThreads(R)
      /\ UNCHANGED <<sleeping, word, now>>
  BY DEF FutexWake
<1>2. /\ Left(f, n) \in Seq(FutexWaiter) /\ OnceEach(Left(f, n))
      /\ ThreadsOf(Left(f, n)) = ThreadsOf(waiting[f]) \ R
      /\ ToSet(Left(f, n)) \subseteq ToSet(waiting[f])
      /\ R \subseteq ThreadsOf(waiting[f])
  BY <1>0, LeftWaiters
<1> HIDE DEF R
<1>3. /\ waiting \in [Futex -> Seq(FutexWaiter)] /\ sleeping \in Seq(FutexWaiter)
      /\ \A g \in Futex : OnceEach(waiting[g])
      /\ OnceEach(sleeping)
  BY DEF QueueInv, FutexType, FutexOnce
<1>4. waiting'[f] = Left(f, n) /\ \A g \in Futex : g # f => waiting'[g] = waiting[g]
  BY <1>1, <1>3
<1>5. ASSUME NEW g \in Futex PROVE Leaves(waiting[g], waiting'[g], R)
  <2>1. CASE g = f BY <1>2, <1>4, <2>1 DEF Leaves
  <2>2. CASE g # f
    <3>1. ThreadsOf(waiting[g]) \cap R = {} BY <1>2, <2>2, WaitersApart
    <3> QED BY <1>3, <1>4, <2>2, <3>1, LeavesSame
  <2> QED BY <2>1, <2>2
<1>6. Leaves(sleeping, sleeping', R)
  <2>1. ThreadsOf(sleeping) \cap R = {} BY <1>2, WaitersApart
  <2> QED BY <1>1, <1>3, <2>1, LeavesSame
<1>7. FutexType'
  <2>1. waiting' \in [Futex -> Seq(FutexWaiter)] BY <1>1, <1>2, <1>3
  <2> QED BY <1>1, <2>1 DEF QueueInv, FutexType
<1> QED BY <1>1, <1>2, <1>5, <1>6, <1>7, FutexLeaves

\* futexWakeOp keeps the queues, whether or not the old value compares as asked.
LEMMA FutexWakeOpQueue ==
    ASSUME QueueInv, NEW t \in Thread, NEW f \in Futex, NEW g \in Futex, NEW b \in BOOLEAN,
           FutexWakeOp(t, f, g, b), UNCHANGED syncVars
    PROVE  QueueInv'
<1> DEFINE R1 == Woken(f, 1)
           R2 == IF b THEN Woken(g, All) ELSE {}
           rest == IF b THEN <<>> ELSE waiting[g]
           R == R1 \cup R2
<1>0. /\ waiting \in [Futex -> Seq(FutexWaiter)] /\ sleeping \in Seq(FutexWaiter)
      /\ \A h \in Futex : OnceEach(waiting[h])
      /\ OnceEach(sleeping)
  BY DEF QueueInv, FutexType, FutexOnce
<1>1. /\ waiting' = [waiting EXCEPT ![f] = Left(f, 1), ![g] = rest]
      /\ owes' = [owes EXCEPT ![t] = IF b THEN NoFutex ELSE g]
      /\ word' = [word EXCEPT ![g] = 1]
      /\ ResumeThreads(R)
      /\ f # g
      /\ UNCHANGED <<sleeping, now>>
  BY <1>0 DEF FutexWakeOp
<1>2. /\ Left(f, 1) \in Seq(FutexWaiter) /\ OnceEach(Left(f, 1))
      /\ ThreadsOf(Left(f, 1)) = ThreadsOf(waiting[f]) \ R1
      /\ ToSet(Left(f, 1)) \subseteq ToSet(waiting[f])
      /\ R1 \subseteq ThreadsOf(waiting[f])
  BY LeftWaiters
<1>3. /\ R2 \subseteq ThreadsOf(waiting[g])
      /\ rest \in Seq(FutexWaiter) /\ OnceEach(rest)
      /\ ThreadsOf(rest) = ThreadsOf(waiting[g]) \ R2
      /\ ToSet(rest) \subseteq ToSet(waiting[g])
  BY <1>0, AllWaiters, EmptyWaiters
<1>4. waiting'[f] = Left(f, 1) /\ waiting'[g] = rest
      /\ \A h \in Futex : h # f /\ h # g => waiting'[h] = waiting[h]
  BY <1>0, <1>1
<1> HIDE DEF R1, R2, rest
<1>5. ASSUME NEW h \in Futex PROVE Leaves(waiting[h], waiting'[h], R)
  <2>1. CASE h = f
    <3>1. ThreadsOf(waiting[f]) \cap R2 = {} BY <1>1, <1>3, WaitersApart
    <3> QED BY <1>2, <1>4, <2>1, <3>1 DEF Leaves
  <2>2. CASE h = g
    <3>1. ThreadsOf(waiting[g]) \cap R1 = {} BY <1>1, <1>2, WaitersApart
    <3> QED BY <1>3, <1>4, <2>2, <3>1 DEF Leaves
  <2>3. CASE h # f /\ h # g
    <3>1. ThreadsOf(waiting[h]) \cap R = {} BY <1>2, <1>3, <2>3, WaitersApart
    <3> QED BY <1>0, <1>4, <2>3, <3>1, LeavesSame
  <2> QED BY <2>1, <2>2, <2>3
<1>6. Leaves(sleeping, sleeping', R)
  <2>1. ThreadsOf(sleeping) \cap R = {} BY <1>2, <1>3, WaitersApart
  <2> QED BY <1>0, <1>1, <2>1, LeavesSame
<1>7. FutexType'
  <2>1. waiting' \in [Futex -> Seq(FutexWaiter)] BY <1>0, <1>1, <1>2, <1>3
  <2>2. word' \in [Futex -> {0, 1}] BY <1>1 DEF QueueInv, FutexType
  <2>3. owes' \in [Thread -> Futex \cup {NoFutex}] BY <1>1 DEF QueueInv, FutexType
  <2> QED BY <1>1, <2>1, <2>2, <2>3 DEF QueueInv, FutexType
<1>8. \A u \in R : \E h \in Futex : u \in ThreadsOf(waiting[h]) BY <1>2, <1>3
<1> HIDE DEF R
<1> QED BY <1>1, <1>5, <1>6, <1>7, <1>8, FutexLeaves

\* Waiters that requeueWaiter moves keep their thread and their timeout.
LEMMA MovedWaiters ==
    ASSUME NEW q \in Seq(FutexWaiter)
    PROVE  /\ Moved(q) \in Seq(FutexWaiter)
           /\ OnceEach(q) => OnceEach(Moved(q))
           /\ ThreadsOf(Moved(q)) = ThreadsOf(q)
           /\ \A x \in ToSet(Moved(q)) :
                x.moved /\ \E w \in ToSet(q) : x.thread = w.thread /\ x.timeout = w.timeout
<1> DEFINE e(i) == [q[i] EXCEPT !.moved = TRUE]
           r == [i \in 1 .. Len(q) |-> e(i)]
<1>1. DOMAIN q = 1 .. Len(q) /\ Len(q) \in Nat /\ \A i \in DOMAIN q : q[i] \in FutexWaiter
  BY LenProperties
<1>2. Moved(q) = r BY <1>1 DEF Moved
<1>3. ASSUME NEW i \in 1 .. Len(q)
      PROVE  /\ e(i) \in FutexWaiter /\ e(i).thread = q[i].thread
             /\ e(i).timeout = q[i].timeout /\ e(i).moved = TRUE
  <2>1. q[i] \in FutexWaiter BY <1>1
  <2> QED BY <2>1 DEF FutexWaiter
<1>4. r \in Seq(FutexWaiter)
  <2>1. \A i \in 1 .. Len(q) : e(i) \in FutexWaiter BY <1>3
  <2> QED BY <1>1, <2>1, IsASeq
<1> HIDE DEF e
<1>5. DOMAIN r = 1 .. Len(q) /\ \A i \in 1 .. Len(q) : r[i] = e(i) OBVIOUS
<1> HIDE DEF r
<1>6. OnceEach(q) => OnceEach(r)
  <2>1. \A i \in 1 .. Len(q) : r[i].thread = q[i].thread BY <1>3, <1>5
  <2> QED BY <1>1, <1>5, <2>1 DEF OnceEach
<1>7. ThreadsOf(r) = ThreadsOf(q)
  <2>1. ASSUME NEW i \in 1 .. Len(q) PROVE r[i].thread = q[i].thread BY <1>3, <1>5
  <2> QED BY <1>1, <1>5, <2>1 DEF ThreadsOf
<1>8. ASSUME NEW x \in ToSet(r)
      PROVE  x.moved /\ \E w \in ToSet(q) : x.thread = w.thread /\ x.timeout = w.timeout
  <2>1. PICK i \in 1 .. Len(q) : x = e(i) BY <1>5 DEF ToSet
  <2>2. q[i] \in ToSet(q) BY <1>1 DEF ToSet
  <2> QED BY <1>3, <2>1, <2>2
<1> QED BY <1>2, <1>4, <1>6, <1>7, <1>8

\* futexCmpRequeue keeps the queues: one waiter is woken, the others change futex.
LEMMA RequeueQueue ==
    ASSUME QueueInv, NEW t \in Thread, NEW f \in Futex, NEW g \in Futex,
           FutexCmpRequeue(t, f, g), UNCHANGED syncVars
    PROVE  QueueInv'
<1>0. SyncType' /\ SyncOnce' /\ UNCHANGED <<mWaiting, cWaiting, bWaiting>>
  BY DEF QueueInv, SyncType, SyncOnce, syncVars
<1> DEFINE p == <<"futex", f>>
           q == <<"futex", g>>
           W == Woken(f, 1)
           R == ThreadsOf(waiting[f])
           M == R \ W
           add == Moved(Left(f, 1))
<1>1. /\ waiting' = [waiting EXCEPT ![f] = <<>>, ![g] = @ \o add]
      /\ owes' = [owes EXCEPT ![t] = NoFutex]
      /\ ResumeThreads(W)
      /\ f # g
      /\ UNCHANGED <<sleeping, word, now>>
  BY DEF FutexCmpRequeue
<1>2. /\ waiting \in [Futex -> Seq(FutexWaiter)]
      /\ \A h \in Futex : waiting[h] \in Seq(FutexWaiter) /\ OnceEach(waiting[h])
  BY DEF QueueInv, FutexType, FutexOnce
<1>3. /\ Left(f, 1) \in Seq(FutexWaiter) /\ OnceEach(Left(f, 1))
      /\ ThreadsOf(Left(f, 1)) = R \ W
      /\ ToSet(Left(f, 1)) \subseteq ToSet(waiting[f])
      /\ W \subseteq R
  BY LeftWaiters
<1>4. /\ add \in Seq(FutexWaiter) /\ OnceEach(add) /\ ThreadsOf(add) = M
      /\ \A x \in ToSet(add) : \E w \in ToSet(Left(f, 1)) : x.thread = w.thread /\ x.timeout = w.timeout
  BY <1>3, MovedWaiters
<1>5. waiting'[f] = <<>> /\ waiting'[g] = waiting[g] \o add
      /\ \A h \in Futex : h # f /\ h # g => waiting'[h] = waiting[h]
  BY <1>1, <1>2
<1>6. /\ p \in Queue /\ Lines[p] = ThreadsOf(waiting[f]) /\ Lines'[p] = ThreadsOf(waiting'[f])
      /\ q \in Queue /\ Lines[q] = ThreadsOf(waiting[g]) /\ Lines'[q] = ThreadsOf(waiting'[g])
      /\ p # q
  BY <1>1, QueueForms
<1>7. R \subseteq blocked /\ R \subseteq Thread BY InLineBlocked DEF QueueInv, ThreadType
<1>8. ThreadsOf(waiting[g]) \cap R = {} BY <1>1, WaitersApart
<1>9. W \subseteq blocked BY <1>3, <1>7
<1>10. ASSUME NEW r \in Queue, r # p, r # q PROVE Lines'[r] = Lines[r]
  <2>1. waiter' = waiter BY <1>1 DEF ResumeThreads
  <2>2. UNCHANGED <<mWaiting, cWaiting, bWaiting, sleeping>> BY <1>0, <1>1
  <2>3. \A h \in Futex : r = <<"futex", h>> => waiting'[h] = waiting[h] BY <1>5, <1>10
  <2> QED BY <2>1, <2>2, <2>3, FutexFrame
<1> HIDE DEF p, q, W, R, add
<1>11. /\ ThreadType' /\ StatusInv' /\ blocked' = blocked \ W
       /\ pending' = pending /\ waiter' = waiter
  BY <1>1, <1>9, ResumeStatus DEF QueueInv
<1>12. PendingStays BY <1>11 DEF PendingStays
<1>13. /\ waiting'[g] \in Seq(FutexWaiter) /\ OnceEach(waiting'[g])
       /\ ThreadsOf(waiting'[g]) = ThreadsOf(waiting[g]) \cup M
       /\ ToSet(waiting'[g]) = ToSet(waiting[g]) \cup ToSet(add)
  <2>1. ThreadsOf(waiting[g]) \cap ThreadsOf(add) = {} BY <1>4, <1>8
  <2>2. waiting[g] \in Seq(FutexWaiter) /\ OnceEach(waiting[g]) BY <1>2
  <2> HIDE DEF M
  <2> QED BY <1>4, <1>5, <2>1, <2>2, ConcatWaiters, ConcatQueue
<1>14. Placed(Lines, blocked)'
  <2> DEFINE D == Only(q, M)
  <2>1. Moves(Lines, Lines', R, D)
    <3> SUFFICES ASSUME NEW r \in Queue, NEW u \in Thread
                 PROVE  u \in Lines'[r] <=> (u \in Lines[r] /\ u \notin R) \/ u \in D[r]
      BY DEF Moves
    <3>1. r # p /\ u \in Lines[r] => u \notin R BY <1>6 DEF R, QueueInv, Placed
    <3>2. CASE r = p BY <3>2, <1>5, <1>6, EmptyWaiters DEF Only, R
    <3>3. CASE r = q BY <3>1, <3>3, <1>6, <1>13 DEF Only
    <3>4. CASE r # p /\ r # q BY <3>1, <3>4, <1>10 DEF Only
    <3> QED BY <3>2, <3>3, <3>4
  <2>2. Placed(D, M) BY <1>6, OnlyPlaced
  <2> HIDE DEF D
  <2>3. M \cap blocked \subseteq R OBVIOUS
  <2>4. blocked' = (blocked \ R) \cup M BY <1>3, <1>7, <1>11
  <2> HIDE DEF M
  <2>5. Placed(Lines, blocked) BY DEF QueueInv
  <2>6. Placed(Lines', (blocked \ R) \cup M) BY <2>1, <2>2, <2>3, <2>5, MovesPlaced
  <2> QED BY <2>4, <2>6
<1>15. FutexType'
  <2>1. waiting' \in [Futex -> Seq(FutexWaiter)] BY <1>1, <1>2, <1>5, <1>13, EmptyWaiters
  <2>2. owes' \in [Thread -> Futex \cup {NoFutex}] BY <1>1 DEF QueueInv, FutexType
  <2> QED BY <1>1, <2>1, <2>2 DEF QueueInv, FutexType
<1>16. FutexOnce' BY <1>1, <1>5, <1>13, EmptyWaiters DEF QueueInv, FutexOnce
<1>17. MutexReason' /\ CondReason' /\ BarrierReason' /\ SleepReason' /\ JoinReason'
  BY <1>0, <1>1, <1>11, <1>12, ReasonsFrame
<1>18. FutexReason'
  <2> SUFFICES ASSUME NEW h \in Futex, NEW x \in ToSet(waiting'[h])
               PROVE  pending'[x.thread] = Call("FUTEX", x.timeout)
    BY DEF FutexReason
  <2>1. CASE x \in ToSet(waiting[h])
    BY <1>11, <2>1 DEF QueueInv, Reasons, FutexReason
  <2>2. CASE x \in ToSet(add)
    <3>1. PICK w \in ToSet(waiting[f]) : x.thread = w.thread /\ x.timeout = w.timeout
      BY <1>3, <1>4, <2>2
    <3>2. pending[w.thread] = Call("FUTEX", w.timeout) BY DEF QueueInv, Reasons, FutexReason
    <3> QED BY <1>11, <3>1, <3>2
  <2> QED BY <1>5, <1>13, <2>1, <2>2, EmptyWaiters
<1> QED BY <1>0, <1>11, <1>14, <1>15, <1>16, <1>17, <1>18 DEF QueueInv, Reasons

\* wakeTimedOut: the thread that is due leaves the queue, nobody else does.
LEMMA DueWaiter ==
    ASSUME NEW q \in Seq(FutexWaiter), OnceEach(q), NEW time
    PROVE  /\ Leaves(q, WithoutDue(q, time), DueThread(q, time))
           /\ DueThread(q, time) \subseteq ThreadsOf(q)
<1> DEFINE n == FirstDue(q, time)
<1>1. n = 0 \/ n \in DOMAIN q BY FirstDueInQueue
<1>2. DueThread(q, time) = IF n = 0 THEN {} ELSE {q[n].thread} BY DEF DueThread
<1>3. WithoutDue(q, time) = IF n = 0 THEN q ELSE RemoveAt(q, n) BY DEF WithoutDue
<1> HIDE DEF n
<1>4. CASE n = 0 BY <1>2, <1>3, <1>4 DEF Leaves
<1>5. CASE n # 0
  <2>1. n \in DOMAIN q BY <1>1, <1>5
  <2>2. q[n].thread \in ThreadsOf(q) BY <2>1 DEF ThreadsOf
  <2> QED BY <1>2, <1>3, <1>5, <2>1, <2>2, RemoveWaiter DEF Leaves
<1> QED BY <1>4, <1>5

\* Threads that were not in a queue may be counted among those who leave it.
LEMMA LeavesMore ==
    ASSUME NEW s, NEW r, NEW A, NEW R, Leaves(s, r, A), ThreadsOf(s) \cap R = A
    PROVE  Leaves(s, r, R)
BY DEF Leaves

\* The threads whose timeout futexPeriodic finds.
DueNow == DueThread(sleeping, now') \cup UNION {DueThread(waiting[f], now') : f \in Futex}

\* futexPeriodic keeps the queues.
LEMMA TickQueue ==
    ASSUME QueueInv, Tick
    PROVE  QueueInv'
<1>0. /\ UNCHANGED syncVars /\ UNCHANGED <<word, owes>>
      /\ now' = IF now < MaxTime THEN now + 1 ELSE now
  BY DEF Tick, FutexPeriodic
<1>1. now' \in 0 .. MaxTime
  BY <1>0, SyscallAssumption DEF QueueInv, FutexType
<1>2. \/ UNCHANGED <<status, waiter, blocked, advancing, profile, pending, waiting, sleeping>>
      \/ /\ ResumeThreads(DueNow)
         /\ sleeping' = WithoutDue(sleeping, now')
         /\ waiting' = [f \in Futex |-> WithoutDue(waiting[f], now')]
  BY DEF Tick, FutexPeriodic, DueNow
<1>3. CASE UNCHANGED <<status, waiter, blocked, advancing, profile, pending, waiting, sleeping>>
  <2>1. FutexType' BY <1>0, <1>1, <1>3 DEF QueueInv, FutexType
  <2>2. SyncType' BY <1>0 DEF QueueInv, SyncType, syncVars
  <2> QED BY <1>0, <1>3, <2>1, <2>2, SameQueues DEF syncVars
<1>4. CASE /\ ResumeThreads(DueNow)
           /\ sleeping' = WithoutDue(sleeping, now')
           /\ waiting' = [f \in Futex |-> WithoutDue(waiting[f], now')]
  <2> DEFINE R == DueNow
             due(f) == DueThread(waiting[f], now')
  <2>1. /\ sleeping \in Seq(FutexWaiter) /\ OnceEach(sleeping)
        /\ \A f \in Futex : waiting[f] \in Seq(FutexWaiter) /\ OnceEach(waiting[f])
    BY DEF QueueInv, FutexType, FutexOnce
  <2>2. /\ Leaves(sleeping, sleeping', DueThread(sleeping, now'))
        /\ DueThread(sleeping, now') \subseteq ThreadsOf(sleeping)
    BY <1>4, <2>1, DueWaiter
  <2>3. ASSUME NEW f \in Futex
        PROVE  Leaves(waiting[f], waiting'[f], due(f)) /\ due(f) \subseteq ThreadsOf(waiting[f])
    <3>1. waiting'[f] = WithoutDue(waiting[f], now') BY <1>4
    <3>2. waiting[f] \in Seq(FutexWaiter) /\ OnceEach(waiting[f]) BY <2>1
    <3> QED BY <3>1, <3>2, DueWaiter
  <2>4. /\ \A u \in R : u \in DueThread(sleeping, now') \/ \E f \in Futex : u \in due(f)
        /\ DueThread(sleeping, now') \subseteq R
        /\ \A f \in Futex : due(f) \subseteq R
    BY DEF DueNow
  <2> HIDE DEF R, due
  <2>5. Leaves(sleeping, sleeping', R)
    <3>1. ThreadsOf(sleeping) \cap R = DueThread(sleeping, now')
      BY <2>2, <2>3, <2>4, WaitersApart
    <3> QED BY <2>2, <3>1, LeavesMore
  <2>6. ASSUME NEW f \in Futex PROVE Leaves(waiting[f], waiting'[f], R)
    <3>1. ThreadsOf(waiting[f]) \cap R = due(f)
      BY <2>2, <2>3, <2>4, WaitersApart
    <3> QED BY <2>3, <3>1, LeavesMore
  <2>7. \A u \in R : u \in ThreadsOf(sleeping) \/ \E f \in Futex : u \in ThreadsOf(waiting[f])
    BY <2>2, <2>3, <2>4
  <2>8. FutexType'
    <3>1. waiting' \in [Futex -> Seq(FutexWaiter)] BY <1>4, <2>6 DEF Leaves
    <3>2. sleeping' \in Seq(FutexWaiter) BY <2>5 DEF Leaves
    <3> QED BY <1>0, <1>1, <3>1, <3>2 DEF QueueInv, FutexType
  <2>9. ResumeThreads(R) BY <1>4 DEF R
  <2> QED BY <1>0, <2>5, <2>6, <2>7, <2>8, <2>9, FutexLeaves
<1> QED BY <1>2, <1>3, <1>4

-----------------------------------------------------------------------------

\* A store to a futex word moves nobody.
LEMMA StoreQueue ==
    ASSUME QueueInv, NEW t \in Thread, NEW f \in Futex, Store(t, f), UNCHANGED syncVars
    PROVE  QueueInv'
<1>1. /\ word' = [word EXCEPT ![f] = 1] /\ owes' = [owes EXCEPT ![t] = f]
      /\ UNCHANGED <<waiting, sleeping, now>>
  BY DEF Store
<1>2. FutexType'
  <2>1. word' \in [Futex -> {0, 1}] BY <1>1 DEF QueueInv, FutexType
  <2>2. owes' \in [Thread -> Futex \cup {NoFutex}] BY <1>1 DEF QueueInv, FutexType
  <2> QED BY <1>1, <2>1, <2>2 DEF QueueInv, FutexType
<1>3. SyncType' BY DEF QueueInv, SyncType, syncVars
<1>4. UNCHANGED <<status, waiter, blocked, advancing, profile, pending>>
  BY DEF Store, NoStall, threadVars
<1> QED BY <1>1, <1>2, <1>3, <1>4, SameQueues DEF syncVars

\* The servers' part of the invariant, when only the thread manager changes.
LEMMA ManagerFrame ==
    ASSUME QueueInv, UNCHANGED <<syncVars, futexVars>>, PendingStays
    PROVE  /\ SyncType' /\ FutexType' /\ SyncOnce' /\ FutexOnce'
           /\ UNCHANGED <<mWaiting, cWaiting, bWaiting, waiting, sleeping>>
           /\ MutexReason' /\ CondReason' /\ BarrierReason' /\ FutexReason' /\ SleepReason'
<1>1. SyncType' /\ FutexType' /\ SyncOnce' /\ FutexOnce'
  BY DEF QueueInv, SyncType, FutexType, SyncOnce, FutexOnce, syncVars, futexVars
<1>2. UNCHANGED <<mWaiting, cWaiting, bWaiting, waiting, sleeping>>
  BY DEF syncVars, futexVars
<1> QED BY <1>1, <1>2, ReasonsFrame

\* spawnThread moves nobody.
LEMMA SpawnQueue ==
    ASSUME QueueInv, NEW t \in Thread, Spawn(t)
    PROVE  QueueInv'
<1>1. PICK u \in Thread : SpawnThread(t, u) BY DEF Spawn
<1>2. /\ status[u] = "UNUSED" /\ status' = [status EXCEPT ![u] = "INITIALIZING"]
      /\ ~advancing
      /\ UNCHANGED <<waiter, blocked, advancing, profile, pending>>
  BY <1>1 DEF SpawnThread, Executing
<1>3. PendingStays BY <1>2 DEF PendingStays
<1>4. UNCHANGED <<syncVars, futexVars>> BY DEF Spawn
<1>5. /\ SyncType' /\ FutexType' /\ SyncOnce' /\ FutexOnce'
      /\ UNCHANGED <<mWaiting, cWaiting, bWaiting, waiting, sleeping>>
      /\ MutexReason' /\ CondReason' /\ BarrierReason' /\ FutexReason' /\ SleepReason'
  BY <1>3, <1>4, ManagerFrame
<1>6. JoinReason' BY <1>2, <1>3, ReasonsFrame
<1>7. ThreadType' BY <1>2 DEF QueueInv, ThreadType
<1>8. StatusInv' BY <1>2 DEF QueueInv, ThreadType, StatusInv
<1>9. Lines' = Lines BY <1>2, <1>5 DEF Lines, Line
<1>10. Placed(Lines, blocked)' BY <1>2, <1>9 DEF QueueInv
<1> QED BY <1>5, <1>6, <1>7, <1>8, <1>10 DEF QueueInv, Reasons

\* onThreadStart resumes nobody when no thread is joined before it has started.
LEMMA StartQueue ==
    ASSUME QueueInv, NEW t \in Thread, Start(t)
    PROVE  QueueInv' /\ UNCHANGED <<blocked, waiter>>
<1>1. /\ status[t] = "INITIALIZING" /\ status' = [status EXCEPT ![t] = "RUNNING"]
      /\ ~advancing
      /\ blocked' = blocked \ {waiter[t]}
      /\ waiter' = [waiter EXCEPT ![t] = NoThread]
      /\ UNCHANGED <<advancing, profile, pending>>
      /\ UNCHANGED <<syncVars, futexVars>>
  BY DEF Start, OnThreadStart
<1>2. waiter[t] = NoThread BY <1>1 DEF QueueInv, StatusInv
<1>3. waiter' = waiter BY <1>1, <1>2 DEF QueueInv, ThreadType
<1>4. blocked' = blocked BY <1>1, <1>2, ThreadAssumption DEF QueueInv, ThreadType
<1>5. PendingStays BY <1>1 DEF PendingStays
<1>6. /\ SyncType' /\ FutexType' /\ SyncOnce' /\ FutexOnce'
      /\ UNCHANGED <<mWaiting, cWaiting, bWaiting, waiting, sleeping>>
      /\ MutexReason' /\ CondReason' /\ BarrierReason' /\ FutexReason' /\ SleepReason'
  BY <1>1, <1>5, ManagerFrame
<1>7. JoinReason' BY <1>3, <1>5, ReasonsFrame
<1>8. ThreadType' BY <1>1, <1>3, <1>4 DEF QueueInv, ThreadType
<1>9. StatusInv' BY <1>1, <1>3, <1>4 DEF QueueInv, ThreadType, StatusInv
<1>10. Lines' = Lines BY <1>3, <1>6 DEF Lines, Line
<1>11. Placed(Lines, blocked)' BY <1>4, <1>10 DEF QueueInv
<1> QED BY <1>3, <1>4, <1>6, <1>7, <1>8, <1>9, <1>11 DEF QueueInv, Reasons

\* joinThread keeps the queues: the caller waits for the thread's end.
LEMMA JoinQueue ==
    ASSUME QueueInv, Orderly, NEW t \in Thread, Join(t)
    PROVE  QueueInv'
<1>1. PICK u \in Thread : JoinThread(t, u) BY DEF Join
<1> DEFINE q == <<"join", u>>
           call == Call("JOIN", u)
<1>2. /\ Executing(t) /\ t # u
      /\ status[u] \notin {"UNUSED", "IDLE"} /\ (status[u] = "INITIALIZING" => Uses("early_join"))
      /\ waiter[u] = NoThread
      /\ waiter' = [waiter EXCEPT ![u] = t]
      /\ status' = [status EXCEPT ![t] = "STALLED"]
      /\ blocked' = blocked \cup {t}
      /\ pending' = [pending EXCEPT ![t] = call]
      /\ advancing' = ~AnyThreadRunning(status')
      /\ UNCHANGED profile
  BY <1>1 DEF JoinThread
<1>3. UNCHANGED <<syncVars, futexVars>> BY DEF Join
<1>4. status[u] \in {"RUNNING", "STALLED"}
  BY <1>2 DEF QueueInv, ThreadType, Orderly, Uses
<1>5. t \notin blocked /\ call \in CallSet BY <1>2 DEF Executing, Call, CallSet
<1>6. ThreadType'
  <2>1. waiter' \in [Thread -> Thread \cup {NoThread}] BY <1>2 DEF QueueInv, ThreadType
  <2>2. pending' \in [Thread -> CallSet] BY <1>2, <1>5 DEF QueueInv, ThreadType
  <2>3. advancing' \in BOOLEAN BY <1>2 DEF AnyThreadRunning
  <2> QED BY <1>2, <2>1, <2>2, <2>3 DEF QueueInv, ThreadType
<1>7. /\ pending'[t] = call /\ \A x \in Thread : x # t => pending'[x] = pending[x]
      /\ waiter'[u] = t /\ \A x \in Thread : x # u => waiter'[x] = waiter[x]
      /\ status'[t] = "STALLED" /\ \A x \in Thread : x # t => status'[x] = status[x]
  BY <1>2 DEF QueueInv, ThreadType
<1>8. StatusInv'
  <2>1. \A x \in Thread : x \in blocked' <=> status'[x] = "STALLED"
    BY <1>2, <1>7 DEF QueueInv, StatusInv
  <2>2. \A x \in Thread : waiter'[x] # NoThread => status'[x] \in {"RUNNING", "STALLED"}
    BY <1>2, <1>4, <1>7 DEF QueueInv, StatusInv
  <2>3. advancing' => \A x \in Thread : status'[x] \notin {"RUNNING", "INITIALIZING"}
    BY <1>2 DEF AnyThreadRunning
  <2>4. \A x \in Thread :
          status'[x] \in {"UNUSED", "INITIALIZING", "IDLE"} => pending'[x] = NoCall
    BY <1>7 DEF QueueInv, StatusInv
  <2> QED BY <2>1, <2>2, <2>3, <2>4 DEF StatusInv
<1>9. PendingStays BY <1>5, <1>7 DEF QueueInv, ThreadType, PendingStays
<1>10. /\ SyncType' /\ FutexType' /\ SyncOnce' /\ FutexOnce'
       /\ UNCHANGED <<mWaiting, cWaiting, bWaiting, waiting, sleeping>>
       /\ MutexReason' /\ CondReason' /\ BarrierReason' /\ FutexReason' /\ SleepReason'
  BY <1>3, <1>9, ManagerFrame
<1>11. JoinReason'
  <2> SUFFICES ASSUME NEW x \in Thread, waiter'[x] # NoThread
               PROVE  pending'[waiter'[x]] = Call("JOIN", x)
    BY DEF JoinReason
  <2>1. CASE x = u BY <1>7, <2>1
  <2>2. CASE x # u
    <3>1. waiter'[x] = waiter[x] BY <1>7, <2>2
    <3>2. waiter[x] \in blocked BY <3>1, InLineBlocked DEF QueueInv
    <3> QED BY <1>9, <3>1, <3>2 DEF PendingStays, QueueInv, Reasons, JoinReason
  <2> QED BY <2>1, <2>2
<1>12. /\ q \in Queue /\ Lines[q] = {waiter[u]} \ {NoThread} /\ Lines'[q] = {waiter'[u]} \ {NoThread}
  BY QueueForms
<1>13. Lines'[q] = Lines[q] \cup {t} BY <1>2, <1>7, <1>12, ThreadAssumption
<1>14. ASSUME NEW r \in Queue, r # q PROVE Lines'[r] = Lines[r]
  BY <1>7, <1>10, <1>14, QueueKinds, LinesFrame
<1> HIDE DEF q
<1>15. Placed(Lines', blocked \cup {t})
  BY <1>5, <1>12, <1>13, <1>14, EnterPlaced DEF QueueInv
<1>16. Placed(Lines, blocked)' BY <1>2, <1>15
<1> QED BY <1>6, <1>8, <1>10, <1>11, <1>16 DEF QueueInv, Reasons

\* A call that comes back leaves the queues alone.
LEMMA ReturnQueue ==
    ASSUME QueueInv, NEW t \in Thread, Return(t)
    PROVE  QueueInv'
<1>1. /\ t \notin blocked /\ ~advancing
      /\ pending' = [pending EXCEPT ![t] = NoCall]
      /\ UNCHANGED <<status, waiter, blocked, advancing, profile>>
      /\ held' = [held EXCEPT ![t] = @ \cup
                    IF pending[t].reason \in {"MUTEX", "COND"} THEN {pending[t].object} ELSE {}]
      /\ UNCHANGED <<owner, mWaiting, cWaiting, bWaiting>>
      /\ UNCHANGED <<waiting, sleeping, word, owes, now>>
  BY DEF Return, ReturnHolding, ReturnFromCall
<1>2. PendingStays BY <1>1 DEF QueueInv, ThreadType, PendingStays
<1>3. ThreadType'
  <2>1. pending' \in [Thread -> CallSet] BY <1>1 DEF QueueInv, ThreadType, CallSet
  <2> QED BY <1>1, <2>1 DEF QueueInv, ThreadType
<1>4. StatusInv' BY <1>1 DEF QueueInv, ThreadType, StatusInv
<1>5. FutexType' /\ SyncOnce' /\ FutexOnce' BY <1>1 DEF QueueInv, FutexType, SyncOnce, FutexOnce
<1>6. Reasons' BY <1>1, <1>2, ReasonsFrame DEF Reasons
<1>7. Lines' = Lines BY <1>1 DEF Lines, Line
<1>8. Placed(Lines, blocked)' BY <1>1, <1>7 DEF QueueInv
<1>9. SyncType'
  <2>1. ASSUME pending[t].reason \in {"MUTEX", "COND"} PROVE pending[t].object \in Mutex
    BY <2>1 DEF QueueInv, ThreadType, CallSet, NoCall
  <2>2. held' \in [Thread -> SUBSET Mutex] BY <1>1, <2>1 DEF QueueInv, SyncType
  <2> QED BY <1>1, <2>2 DEF QueueInv, SyncType
<1> QED BY <1>3, <1>4, <1>5, <1>6, <1>8, <1>9 DEF QueueInv

\* onThreadExit: the joiner and the waiters at the cleared thread id are resumed.
LEMMA ExitQueue ==
    ASSUME QueueInv, NEW t \in Thread, NEW W, OnThreadExit(t, W), UNCHANGED syncVars,
           \A u \in W : \E f \in Futex : u \in ThreadsOf(waiting[f]),
           \A f \in Futex : Leaves(waiting[f], waiting'[f], W),
           UNCHANGED sleeping, FutexType'
    PROVE  QueueInv' /\ blocked' = blocked \ (W \cup ({waiter[t]} \ {NoThread}))
<1>0. SyncType' /\ SyncOnce' /\ UNCHANGED <<mWaiting, cWaiting, bWaiting>>
  BY DEF QueueInv, SyncType, SyncOnce, syncVars
<1> DEFINE R == W \cup ({waiter[t]} \ {NoThread})
           q == <<"join", t>>
<1>1. /\ Executing(t)
      /\ status' = [u \in Thread |-> IF u \in R THEN "RUNNING"
                                     ELSE IF u = t THEN "IDLE" ELSE status[u]]
      /\ blocked' = blocked \ R
      /\ waiter' = [waiter EXCEPT ![t] = NoThread]
      /\ UNCHANGED <<advancing, profile, pending>>
  BY DEF OnThreadExit
<1>2. /\ \A f \in Futex : ThreadsOf(waiting[f]) \subseteq blocked
      /\ \A u \in Thread : waiter[u] # NoThread => waiter[u] \in blocked
      /\ ThreadsOf(sleeping) \subseteq blocked
  BY InLineBlocked DEF QueueInv
<1>3. R \subseteq blocked /\ t \notin blocked /\ blocked \subseteq Thread
  BY <1>1, <1>2 DEF Executing, QueueInv, ThreadType
<1>4. /\ q \in Queue /\ Lines[q] = {waiter[t]} \ {NoThread} /\ Lines'[q] = {waiter'[t]} \ {NoThread}
      /\ \A f \in Futex : /\ <<"futex", f>> \in Queue /\ <<"futex", f>> # q
                          /\ Lines[<<"futex", f>>] = ThreadsOf(waiting[f])
                          /\ Lines'[<<"futex", f>>] = ThreadsOf(waiting'[f])
  BY QueueForms
<1>5. waiter'[t] = NoThread /\ \A u \in Thread : u # t => waiter'[u] = waiter[u]
  BY <1>1 DEF QueueInv, ThreadType
<1> HIDE DEF R, q
<1>6. ThreadType'
  <2>1. waiter' \in [Thread -> Thread \cup {NoThread}] BY <1>1 DEF QueueInv, ThreadType
  <2> QED BY <1>1, <2>1 DEF QueueInv, ThreadType
<1>7. StatusInv'
  <2>1. \A u \in Thread : u \in blocked' <=> status'[u] = "STALLED"
    BY <1>1, <1>3 DEF QueueInv, StatusInv
  <2>2. \A u \in Thread : waiter'[u] # NoThread => status'[u] \in {"RUNNING", "STALLED"}
    BY <1>1, <1>5 DEF QueueInv, StatusInv
  <2>3. advancing' => \A u \in Thread : status'[u] \notin {"RUNNING", "INITIALIZING"}
    BY <1>1 DEF Executing
  <2>4. \A u \in Thread :
          status'[u] \in {"UNUSED", "INITIALIZING", "IDLE"} => pending'[u] = NoCall
    BY <1>1 DEF QueueInv, StatusInv, Executing
  <2> QED BY <2>1, <2>2, <2>3, <2>4 DEF StatusInv
<1>8. PendingStays BY <1>1 DEF PendingStays
<1>9. Moves(Lines, Lines', R, Nowhere)
  <2> SUFFICES ASSUME NEW r \in Queue, NEW u \in Thread
               PROVE  u \in Lines'[r] <=> (u \in Lines[r] /\ u \notin R) \/ u \in Nowhere[r]
    BY DEF Moves
  <2>1. u \notin Nowhere[r] BY DEF Nowhere
  <2>2. CASE r = q BY <1>4, <1>5, <2>1, <2>2 DEF R
  <2>3. CASE \E f \in Futex : r = <<"futex", f>>
    <3>1. PICK f \in Futex : r = <<"futex", f>> BY <2>3
    <3>2. Lines[r] = ThreadsOf(waiting[f]) /\ Lines'[r] = ThreadsOf(waiting'[f]) /\ r # q
      BY <1>4, <3>1
    <3>3. ThreadsOf(waiting'[f]) = ThreadsOf(waiting[f]) \ W BY DEF Leaves
    <3>4. u \in Lines[r] => u \notin Lines[q]
      <4>1. q \in Queue /\ q # r BY <1>4, <3>2
      <4> QED BY <4>1 DEF QueueInv, Placed
    <3> QED BY <1>4, <2>1, <3>2, <3>3, <3>4 DEF R
  <2>4. CASE r # q /\ ~\E f \in Futex : r = <<"futex", f>>
    <3>1. u \in Lines[r] /\ u \in R => FALSE
      <4> SUFFICES ASSUME u \in Lines[r], u \in R PROVE FALSE OBVIOUS
      <4>1. \A p \in Queue : u \in Lines[p] => p = r BY DEF QueueInv, Placed
      <4>2. u \notin Lines[q] BY <1>4, <2>4, <4>1
      <4>3. ASSUME NEW f \in Futex PROVE u \notin ThreadsOf(waiting[f])
        <5>1. <<"futex", f>> \in Queue /\ Lines[<<"futex", f>>] = ThreadsOf(waiting[f]) BY <1>4
        <5>2. <<"futex", f>> # r BY <2>4
        <5> QED BY <4>1, <5>1, <5>2
      <4> QED BY <1>4, <4>2, <4>3 DEF R
    <3>2. Lines'[r] = Lines[r] BY <1>0, <1>5, <2>4, QueueKinds, LinesFrame DEF q
    <3> QED BY <2>1, <3>1, <3>2
  <2> QED BY <2>2, <2>3, <2>4
<1>10. Placed(Lines, blocked)'
  <2>1. Placed(Lines, blocked) BY DEF QueueInv
  <2>2. Placed(Lines', (blocked \ R) \cup {}) BY <1>9, <2>1, NowherePlaced, MovesPlaced
  <2>3. blocked' = (blocked \ R) \cup {} BY <1>1
  <2> QED BY <2>2, <2>3
<1>11. FutexOnce' BY DEF FutexOnce, Leaves, QueueInv
<1>12. \A f \in Futex : ToSet(waiting'[f]) \subseteq ToSet(waiting[f]) BY DEF Leaves
<1>13. \A u \in Thread : waiter'[u] \in {NoThread, waiter[u]} BY <1>5
<1>14. Reasons' BY <1>0, <1>8, <1>12, <1>13, ReasonsFrame DEF Reasons
<1> QED BY <1>0, <1>1, <1>6, <1>7, <1>10, <1>11, <1>14 DEF QueueInv, R

\* Which waiters of a futex the exit of a thread wakes.
LEMMA ExitWakes ==
    ASSUME QueueInv, NEW t \in Thread, Exit(t)
    PROVE  \E W :
             /\ OnThreadExit(t, W)
             /\ \A u \in W : \E f \in Futex : u \in ThreadsOf(waiting[f])
             /\ \A f \in Futex : Leaves(waiting[f], waiting'[f], W)
             /\ UNCHANGED <<sleeping, word, owes, now>>
             /\ FutexType'
<1>0. /\ \A f \in Futex : waiting[f] \in Seq(FutexWaiter) /\ OnceEach(waiting[f])
      /\ waiting \in [Futex -> Seq(FutexWaiter)]
  BY DEF QueueInv, FutexType, FutexOnce
<1>1. CASE OnThreadExit(t, {}) /\ UNCHANGED futexVars
  <2>1. FutexType' BY <1>1 DEF QueueInv, FutexType, futexVars
  <2>2. UNCHANGED <<waiting, sleeping, word, owes, now>> BY <1>1 DEF futexVars
  <2>3. ASSUME NEW f \in Futex PROVE Leaves(waiting[f], waiting'[f], {})
    BY <1>0, <2>2, LeavesSame
  <2> QED BY <1>1, <2>1, <2>2, <2>3
<1>2. ASSUME NEW f \in Futex, OnThreadExit(t, Woken(f, 1)),
             waiting' = [waiting EXCEPT ![f] = Left(f, 1)],
             UNCHANGED <<sleeping, word, owes, now>>
      PROVE  \E W :
               /\ OnThreadExit(t, W)
               /\ \A u \in W : \E g \in Futex : u \in ThreadsOf(waiting[g])
               /\ \A g \in Futex : Leaves(waiting[g], waiting'[g], W)
               /\ UNCHANGED <<sleeping, word, owes, now>>
               /\ FutexType'
  <2> DEFINE W == Woken(f, 1)
  <2>1. /\ Left(f, 1) \in Seq(FutexWaiter) /\ OnceEach(Left(f, 1))
        /\ ThreadsOf(Left(f, 1)) = ThreadsOf(waiting[f]) \ W
        /\ ToSet(Left(f, 1)) \subseteq ToSet(waiting[f])
        /\ W \subseteq ThreadsOf(waiting[f])
    BY LeftWaiters
  <2>2. OnThreadExit(t, W) BY <1>2
  <2> HIDE DEF W
  <2>3. ASSUME NEW g \in Futex PROVE Leaves(waiting[g], waiting'[g], W)
    <3>1. CASE g = f
      <4>1. waiting'[g] = Left(f, 1) BY <1>0, <1>2, <3>1
      <4> QED BY <2>1, <3>1, <4>1 DEF Leaves
    <3>2. CASE g # f
      <4>1. waiting'[g] = waiting[g] BY <1>0, <1>2, <3>2
      <4>2. ThreadsOf(waiting[g]) \cap W = {} BY <2>1, <3>2, WaitersApart
      <4> QED BY <1>0, <4>1, <4>2, LeavesSame
    <3> QED BY <3>1, <3>2
  <2>4. FutexType'
    <3>1. waiting' \in [Futex -> Seq(FutexWaiter)] BY <1>0, <1>2, <2>1
    <3> QED BY <1>2, <3>1 DEF QueueInv, FutexType
  <2>5. \A u \in W : \E g \in Futex : u \in ThreadsOf(waiting[g]) BY <2>1
  <2> QED BY <1>2, <2>2, <2>3, <2>4, <2>5
<1> QED BY <1>1, <1>2 DEF Exit

\* onThreadExit keeps the queues.
LEMMA ExitStep ==
    ASSUME QueueInv, NEW t \in Thread, Exit(t)
    PROVE  QueueInv'
<1>1. UNCHANGED syncVars BY DEF Exit
<1> QED BY <1>1, ExitWakes, ExitQueue

-----------------------------------------------------------------------------

\* At the start nobody waits.
LEMMA InitQueue == Init => QueueInv
<1> SUFFICES ASSUME Init PROVE QueueInv OBVIOUS
<1>1. ThreadType
  BY ThreadAssumption DEF Init, ThreadInit, ThreadType, CallSet
<1>2. SyncType BY DEF Init, SyncInit, SyncType
<1>3. FutexType BY SyscallAssumption DEF Init, SyscallInit, FutexType
<1>4. SyncOnce /\ FutexOnce
  BY DEF Init, SyncInit, SyscallInit, SyncOnce, FutexOnce, OnceEach, IsInjective
<1>5. ToSet(<<>>) = {} /\ ThreadsOf(<<>>) = {} BY DEF ToSet, ThreadsOf
<1>6. /\ \A m \in Mutex : ToSet(mWaiting[m]) = {}
      /\ \A c \in Cond : ToSet(cWaiting[c]) = {} /\ ThreadsOf(cWaiting[c]) = {}
      /\ \A b \in Barrier : ToSet(bWaiting[b]) = {}
      /\ \A f \in Futex : ToSet(waiting[f]) = {} /\ ThreadsOf(waiting[f]) = {}
      /\ ToSet(sleeping) = {} /\ ThreadsOf(sleeping) = {}
      /\ \A u \in Thread : waiter[u] = NoThread
  BY <1>5 DEF Init, ThreadInit, SyncInit, SyscallInit
<1>7. ASSUME NEW q \in Queue PROVE Lines[q] = {}
  <2>1. Lines[q] = Line(q) BY DEF Lines
  <2> QED BY <1>6, <2>1, QueueKinds DEF Line
<1>8. Placed(Lines, blocked) BY <1>7 DEF Init, ThreadInit, Placed
<1>9. StatusInv BY DEF Init, ThreadInit, StatusInv
<1>10. Reasons
  BY <1>6 DEF Reasons, MutexReason, CondReason, BarrierReason, FutexReason, SleepReason, JoinReason
<1> QED BY <1>1, <1>2, <1>3, <1>4, <1>8, <1>9, <1>10 DEF QueueInv

\* Every step keeps the invariant of the queues.
LEMMA NextQueue ==
    ASSUME QueueInv, Orderly, [Next]_vars
    PROVE  QueueInv'
<1>1. CASE UNCHANGED vars
  <2>1. UNCHANGED <<status, waiter, blocked, advancing, profile, pending>> BY <1>1 DEF vars, threadVars
  <2>2. UNCHANGED <<syncVars, futexVars>> BY <1>1 DEF vars
  <2>3. SyncType' /\ FutexType'
    BY <2>2 DEF QueueInv, SyncType, FutexType, syncVars, futexVars
  <2> QED BY <2>1, <2>2, <2>3, SameQueues DEF syncVars, futexVars
<1>2. CASE Tick BY <1>2, TickQueue
<1>3. ASSUME NEW t \in Thread, Synchronize(t) PROVE QueueInv'
  <2>0. UNCHANGED futexVars BY <1>3 DEF Synchronize
  <2>1. ASSUME NEW m \in Mutex, MutexLock(t, m) PROVE QueueInv'
    BY <2>0, <2>1, LockQueue DEF MutexLock
  <2>2. ASSUME NEW m \in Mutex, MutexTrylock(t, m) PROVE QueueInv'
    <3>1. CASE IsLocked(m, t)
      <4>1. NoStall /\ UNCHANGED syncVars BY <2>2, <3>1 DEF MutexTrylock
      <4>2. UNCHANGED <<status, waiter, blocked, advancing, profile, pending>>
        BY <4>1 DEF NoStall, threadVars
      <4>3. SyncType' /\ FutexType'
        BY <2>0, <4>1 DEF QueueInv, SyncType, FutexType, syncVars, futexVars
      <4> QED BY <2>0, <4>1, <4>2, <4>3, SameQueues DEF syncVars, futexVars
    <3>2. CASE ~IsLocked(m, t)
      <4>1. Executing(t) /\ Lock(t, m) BY <2>2, <3>2 DEF MutexTrylock
      <4> QED BY <2>0, <4>1, LockQueue
    <3> QED BY <3>1, <3>2
  <2>3. ASSUME NEW m \in Mutex, MutexUnlock(t, m) PROVE QueueInv' BY <2>0, <2>3, UnlockQueue
  <2>4. ASSUME NEW c \in Cond, NEW m \in Mutex, CondWait(t, c, m) PROVE QueueInv'
    BY <2>0, <2>4, CondWaitQueue
  <2>5. ASSUME NEW c \in Cond, CondSignal(t, c) \/ CondBroadcast(t, c) PROVE QueueInv'
    BY <2>0, <2>5, CondWakesQueue
  <2>6. ASSUME NEW b \in Barrier, BarrierWait(t, b) PROVE QueueInv' BY <2>0, <2>6, BarrierQueue
  <2> QED BY <1>3, <2>1, <2>2, <2>3, <2>4, <2>5, <2>6 DEF Synchronize
<1>4. ASSUME NEW t \in Thread, FutexCall(t) PROVE QueueInv'
  <2>0. UNCHANGED syncVars BY <1>4 DEF FutexCall
  <2>1. PICK f \in Futex \cap profile :
          \/ Store(t, f)
          \/ \E timeout \in Timeouts : FutexWait(t, f, timeout)
          \/ \E n \in {1, All} : FutexWake(t, f, n)
          \/ \E g \in Futex \cap profile : \/ \E b \in BOOLEAN : FutexWakeOp(t, f, g, b)
                                        \/ FutexCmpRequeue(t, f, g)
    BY <1>4 DEF FutexCall
  <2>2. CASE Store(t, f) BY <2>0, <2>2, StoreQueue
  <2>3. ASSUME NEW timeout \in Timeouts, FutexWait(t, f, timeout) PROVE QueueInv'
    <3>1. timeout \in 1 .. Never BY SyscallAssumption DEF Timeouts, Never
    <3> QED BY <2>0, <2>3, <3>1, FutexWaitQueue
  <2>4. ASSUME NEW n \in {1, All}, FutexWake(t, f, n) PROVE QueueInv' BY <2>0, <2>4, FutexWakeQueue
  <2>5. ASSUME NEW g \in Futex \cap profile, NEW b \in BOOLEAN, FutexWakeOp(t, f, g, b)
        PROVE  QueueInv'
    BY <2>0, <2>5, FutexWakeOpQueue
  <2>6. ASSUME NEW g \in Futex \cap profile, FutexCmpRequeue(t, f, g) PROVE QueueInv'
    BY <2>0, <2>6, RequeueQueue
  <2> QED BY <2>1, <2>2, <2>3, <2>4, <2>5, <2>6
<1>5. ASSUME NEW t \in Thread, SleepCall(t) PROVE QueueInv'
  BY <1>5, SleepQueue DEF SleepCall
<1>6. ASSUME NEW t \in Thread, Spawn(t) PROVE QueueInv' BY <1>6, SpawnQueue
<1>7. ASSUME NEW t \in Thread, Start(t) PROVE QueueInv' BY <1>7, StartQueue
<1>8. ASSUME NEW t \in Thread, Join(t) PROVE QueueInv' BY <1>8, JoinQueue
<1>9. ASSUME NEW t \in Thread, Exit(t) PROVE QueueInv' BY <1>9, ExitStep
<1>10. ASSUME NEW t \in Thread, Return(t) PROVE QueueInv' BY <1>10, ReturnQueue
<1> QED BY <1>1, <1>2, <1>3, <1>4, <1>5, <1>6, <1>7, <1>8, <1>9, <1>10 DEF Next

\* The invariant of the queues holds in every run of an orderly program.
LEMMA QueueHolds == Orderly => (Spec => []QueueInv)
<1> SUFFICES ASSUME Orderly PROVE Spec => []QueueInv
  OBVIOUS
<1>1. QueueInv /\ [Next]_vars => QueueInv' BY NextQueue
<1> QED BY <1>1, InitQueue, PTL DEF Spec

\* A thread of an orderly program is blocked (Thread::wait) exactly while it stands in one queue of
\* the servers, once, or joins a live thread; and exactly then is its status STALLED.
THEOREM NobodyForgottenHolds == Orderly => (Spec => []NobodyForgotten)
<1> SUFFICES ASSUME Orderly PROVE Spec => []NobodyForgotten
  OBVIOUS
<1>0. Spec => []QueueInv BY QueueHolds
<1>1. ASSUME QueueInv PROVE NobodyForgotten
  <2>1. ASSUME NEW t \in Thread, t \in blocked
        PROVE  \E q \in Queue : \A r \in Queue : t \in Line(r) <=> r = q
    <3>1. PICK q \in Queue : t \in Lines[q] BY <1>1, <2>1 DEF QueueInv, Placed
    <3>2. \A r \in Queue : t \in Lines[r] <=> r = q BY <1>1, <3>1 DEF QueueInv, Placed
    <3> QED BY <3>2 DEF Lines
  <2>2. ASSUME NEW t \in Thread, t \notin blocked, NEW q \in Queue PROVE t \notin Line(q)
    BY <1>1, <2>2 DEF QueueInv, Placed, Lines
  <2>3. \A t \in Thread : t \in blocked <=> status[t] = "STALLED"
    BY <1>1 DEF QueueInv, StatusInv
  <2>4. SyncOnce /\ FutexOnce BY <1>1 DEF QueueInv
  <2> QED BY <2>1, <2>2, <2>3, <2>4 DEF NobodyForgotten
<1> QED BY <1>0, <1>1, PTL

-----------------------------------------------------------------------------
\* NoMissedWake by the entries of the queues.
WakeOwed ==
    \A f \in Futex : \A w \in ToSet(waiting[f]) :
        ~w.moved /\ word[f] = 1 => \E t \in Thread : owes[t] = f

\* Steps that add no waiter, store to no word and call no FUTEX_WAKE keep WakeOwed.
LEMMA WakeOwedFrame ==
    ASSUME WakeOwed, UNCHANGED <<word, owes>>,
           \A f \in Futex : ToSet(waiting'[f]) \subseteq ToSet(waiting[f])
    PROVE  WakeOwed'
BY DEF WakeOwed

\* futexPeriodic only removes waiters.
LEMMA TickWaiting ==
    ASSUME QueueInv, Tick
    PROVE  /\ UNCHANGED <<word, owes>>
           /\ \A f \in Futex : ToSet(waiting'[f]) \subseteq ToSet(waiting[f])
<1>1. UNCHANGED <<word, owes>> BY DEF Tick, FutexPeriodic
<1>2. waiting' = waiting \/ waiting' = [f \in Futex |-> WithoutDue(waiting[f], now')]
  BY DEF Tick, FutexPeriodic
<1>3. ASSUME NEW f \in Futex PROVE ToSet(WithoutDue(waiting[f], now')) \subseteq ToSet(waiting[f])
  <2>1. waiting[f] \in Seq(FutexWaiter) /\ OnceEach(waiting[f])
    BY DEF QueueInv, FutexType, FutexOnce
  <2> QED BY <2>1, DueWaiter DEF Leaves
<1> QED BY <1>1, <1>2, <1>3

\* Who stores to a futex word owes its waiters a FUTEX_WAKE.
LEMMA StoreOwes ==
    ASSUME QueueInv, WakeOwed, NEW t \in Thread, NEW f \in Futex, Store(t, f)
    PROVE  WakeOwed'
<1>1. /\ owes[t] = NoFutex /\ word' = [word EXCEPT ![f] = 1] /\ owes' = [owes EXCEPT ![t] = f]
      /\ waiting' = waiting
  BY DEF Store
<1>2. /\ owes'[t] = f /\ \A u \in Thread : u # t => owes'[u] = owes[u]
      /\ \A g \in Futex : g # f => word'[g] = word[g]
      /\ \A g \in Futex : g # owes[t]
  BY <1>1, SyscallAssumption DEF QueueInv, FutexType
<1> QED BY <1>1, <1>2 DEF WakeOwed

\* futexWait compares the word under the lock: nobody starts to wait at a word that is set.
LEMMA WaitOwes ==
    ASSUME QueueInv, WakeOwed, NEW t \in Thread, NEW f \in Futex, NEW timeout \in 1 .. Never,
           FutexWait(t, f, timeout)
    PROVE  WakeOwed'
<1> DEFINE w == Waiter(t, timeout)
<1>1. /\ word[f] = 0 /\ waiting' = [waiting EXCEPT ![f] = Append(@, w)]
      /\ UNCHANGED <<word, owes>>
  BY DEF FutexWait
<1>2. waiting \in [Futex -> Seq(FutexWaiter)] BY DEF QueueInv, FutexType
<1>3. waiting'[f] = Append(waiting[f], w) /\ \A g \in Futex : g # f => waiting'[g] = waiting[g]
  BY <1>1, <1>2
<1> QED BY <1>1, <1>3 DEF WakeOwed

\* futexWake: the thread that owed the wake-up has woken everybody.
LEMMA WakeOwes ==
    ASSUME QueueInv, WakeOwed, NEW t \in Thread, NEW f \in Futex, NEW n \in {1, All},
           FutexWake(t, f, n)
    PROVE  WakeOwed'
<1>1. /\ owes[t] # NoFutex => owes[t] = f /\ n = All
      /\ waiting' = [waiting EXCEPT ![f] = Left(f, n)]
      /\ owes' = [owes EXCEPT ![t] = NoFutex] /\ word' = word
  BY DEF FutexWake
<1>2. waiting \in [Futex -> Seq(FutexWaiter)] /\ n \in Nat BY AllWaiters DEF QueueInv, FutexType
<1>3. waiting'[f] = Left(f, n) /\ \A g \in Futex : g # f => waiting'[g] = waiting[g]
  BY <1>1, <1>2
<1>4. /\ \A u \in Thread : u # t => owes'[u] = owes[u]
      /\ \A g \in Futex : g # NoFutex
  BY <1>1, SyscallAssumption DEF QueueInv, FutexType
<1>5. ToSet(Left(f, n)) \subseteq ToSet(waiting[f]) BY <1>2, LeftWaiters
<1>6. n = All => ToSet(Left(f, n)) = {} BY AllWaiters, EmptyWaiters
<1>7. ASSUME NEW g \in Futex, NEW w \in ToSet(waiting'[g]), ~w.moved, word'[g] = 1
      PROVE  \E u \in Thread : owes'[u] = g
  <2>1. w \in ToSet(waiting[g]) BY <1>3, <1>5
  <2>2. PICK u \in Thread : owes[u] = g BY <1>1, <1>7, <2>1 DEF WakeOwed
  <2>3. CASE u # t BY <1>4, <2>2, <2>3
  <2>4. CASE u = t
    <3>1. g = f /\ n = All BY <1>1, <1>4, <2>2, <2>4
    <3> QED BY <1>3, <1>6, <1>7, <3>1
  <2> QED BY <2>3, <2>4
<1> QED BY <1>7 DEF WakeOwed

\* futexWakeOp wakes the waiters of the word it sets, or owes them the wake-up.
LEMMA WakeOpOwes ==
    ASSUME QueueInv, WakeOwed, NEW t \in Thread, NEW f \in Futex, NEW g \in Futex,
           NEW b \in BOOLEAN, FutexWakeOp(t, f, g, b)
    PROVE  WakeOwed'
<1>0. waiting \in [Futex -> Seq(FutexWaiter)] BY DEF QueueInv, FutexType
<1>1. /\ owes[t] = NoFutex /\ f # g
      /\ waiting' = [waiting EXCEPT ![f] = Left(f, 1), ![g] = IF b THEN <<>> ELSE waiting[g]]
      /\ owes' = [owes EXCEPT ![t] = IF b THEN NoFutex ELSE g]
      /\ word' = [word EXCEPT ![g] = 1]
  BY <1>0 DEF FutexWakeOp
<1>2. /\ waiting'[f] = Left(f, 1) /\ waiting'[g] = IF b THEN <<>> ELSE waiting[g]
      /\ \A h \in Futex : h # f /\ h # g => waiting'[h] = waiting[h]
  BY <1>0, <1>1
<1>3. /\ \A u \in Thread : u # t => owes'[u] = owes[u]
      /\ owes'[t] = IF b THEN NoFutex ELSE g
      /\ \A h \in Futex : h # NoFutex /\ (h # g => word'[h] = word[h])
  BY <1>1, SyscallAssumption DEF QueueInv, FutexType
<1>4. ToSet(Left(f, 1)) \subseteq ToSet(waiting[f]) BY LeftWaiters
<1>5. ASSUME NEW h \in Futex, NEW w \in ToSet(waiting'[h]), ~w.moved, word'[h] = 1
      PROVE  \E u \in Thread : owes'[u] = h
  <2>1. CASE h = g
    <3>1. ~b BY <1>2, <1>5, <2>1, EmptyWaiters
    <3> QED BY <1>3, <2>1, <3>1
  <2>2. CASE h # g
    <3>1. w \in ToSet(waiting[h]) /\ word[h] = 1 BY <1>2, <1>3, <1>4, <1>5, <2>2
    <3>2. PICK u \in Thread : owes[u] = h BY <1>5, <3>1 DEF WakeOwed
    <3>3. u # t BY <1>1, <1>3, <3>2
    <3> QED BY <1>3, <3>2, <3>3
  <2> QED BY <2>1, <2>2
<1> QED BY <1>5 DEF WakeOwed

\* futexCmpRequeue leaves nobody behind at the futex, and marks those it moves.
LEMMA RequeueOwes ==
    ASSUME QueueInv, WakeOwed, NEW t \in Thread, NEW f \in Futex, NEW g \in Futex,
           FutexCmpRequeue(t, f, g)
    PROVE  WakeOwed'
<1> DEFINE add == Moved(Left(f, 1))
<1>0. waiting \in [Futex -> Seq(FutexWaiter)] BY DEF QueueInv, FutexType
<1>1. /\ owes[t] \in {NoFutex, f} /\ f # g
      /\ waiting' = [waiting EXCEPT ![f] = <<>>, ![g] = @ \o add]
      /\ owes' = [owes EXCEPT ![t] = NoFutex]
      /\ word' = word
  BY DEF FutexCmpRequeue
<1>2. /\ waiting'[f] = <<>> /\ waiting'[g] = waiting[g] \o add
      /\ \A h \in Futex : h # f /\ h # g => waiting'[h] = waiting[h]
  BY <1>0, <1>1
<1>3. /\ \A u \in Thread : u # t => owes'[u] = owes[u]
      /\ \A h \in Futex : h # NoFutex
  BY <1>1, SyscallAssumption DEF QueueInv, FutexType
<1>4. add \in Seq(FutexWaiter) /\ \A x \in ToSet(add) : x.moved BY LeftWaiters, MovedWaiters
<1> HIDE DEF add
<1>5. ToSet(waiting'[g]) = ToSet(waiting[g]) \cup ToSet(add) BY <1>0, <1>2, <1>4, ConcatQueue
<1>6. ASSUME NEW h \in Futex, NEW w \in ToSet(waiting'[h]), ~w.moved, word'[h] = 1
      PROVE  \E u \in Thread : owes'[u] = h
  <2>1. h # f BY <1>2, <1>6, EmptyWaiters
  <2>2. w \in ToSet(waiting[h]) BY <1>2, <1>4, <1>5, <1>6, <2>1
  <2>3. PICK u \in Thread : owes[u] = h BY <1>1, <1>6, <2>2 DEF WakeOwed
  <2>4. u # t BY <1>1, <1>3, <2>1, <2>3
  <2> QED BY <1>3, <2>3, <2>4
<1> QED BY <1>6 DEF WakeOwed

\* Every step keeps WakeOwed.
LEMMA NextOwes ==
    ASSUME QueueInv, WakeOwed, [Next]_vars
    PROVE  WakeOwed'
<1>0. ASSUME UNCHANGED <<waiting, word, owes>> PROVE WakeOwed'
  BY <1>0, WakeOwedFrame
<1>1. CASE UNCHANGED vars BY <1>0, <1>1 DEF vars, futexVars
<1>2. CASE Tick BY <1>2, TickWaiting, WakeOwedFrame
<1>3. ASSUME NEW t \in Thread, Synchronize(t) PROVE WakeOwed'
  BY <1>0, <1>3 DEF Synchronize, futexVars
<1>4. ASSUME NEW t \in Thread, FutexCall(t) PROVE WakeOwed'
  <2>1. PICK f \in Futex \cap profile :
          \/ Store(t, f)
          \/ \E timeout \in Timeouts : FutexWait(t, f, timeout)
          \/ \E n \in {1, All} : FutexWake(t, f, n)
          \/ \E g \in Futex \cap profile : \/ \E b \in BOOLEAN : FutexWakeOp(t, f, g, b)
                                        \/ FutexCmpRequeue(t, f, g)
    BY <1>4 DEF FutexCall
  <2>2. CASE Store(t, f) BY <2>2, StoreOwes
  <2>3. ASSUME NEW timeout \in Timeouts, FutexWait(t, f, timeout) PROVE WakeOwed'
    <3>1. timeout \in 1 .. Never BY SyscallAssumption DEF Timeouts, Never
    <3> QED BY <2>3, <3>1, WaitOwes
  <2>4. ASSUME NEW n \in {1, All}, FutexWake(t, f, n) PROVE WakeOwed' BY <2>4, WakeOwes
  <2>5. ASSUME NEW g \in Futex \cap profile, NEW b \in BOOLEAN, FutexWakeOp(t, f, g, b)
        PROVE  WakeOwed'
    BY <2>5, WakeOpOwes
  <2>6. ASSUME NEW g \in Futex \cap profile, FutexCmpRequeue(t, f, g) PROVE WakeOwed'
    BY <2>6, RequeueOwes
  <2> QED BY <2>1, <2>2, <2>3, <2>4, <2>5, <2>6
<1>5. ASSUME NEW t \in Thread, SleepCall(t) PROVE WakeOwed'
  BY <1>0, <1>5 DEF SleepCall, HandleSleepCall
<1>6. ASSUME NEW t \in Thread, Spawn(t) \/ Start(t) \/ Join(t) PROVE WakeOwed'
  BY <1>0, <1>6 DEF Spawn, Start, Join, futexVars
<1>7. ASSUME NEW t \in Thread, Exit(t) PROVE WakeOwed'
  <2>1. /\ UNCHANGED <<word, owes>>
        /\ \A f \in Futex : ToSet(waiting'[f]) \subseteq ToSet(waiting[f])
    BY <1>7, ExitWakes DEF Leaves
  <2> QED BY <2>1, WakeOwedFrame
<1>8. ASSUME NEW t \in Thread, Return(t) PROVE WakeOwed'
  BY <1>0, <1>8 DEF Return
<1> QED BY <1>1, <1>2, <1>3, <1>4, <1>5, <1>6, <1>7, <1>8 DEF Next

\* No interleaving of futexWait, stores to the word and wake-ups leaves a thread waiting at a futex
\* that has been set when no FUTEX_WAKE is still to come, unless the thread was requeued there.
THEOREM NoMissedWakeHolds == Orderly => (Spec => []NoMissedWake)
<1> SUFFICES ASSUME Orderly PROVE Spec => []NoMissedWake
  OBVIOUS
<1>1. Spec => []QueueInv BY QueueHolds
<1>2. Init => WakeOwed
  <2>1. ToSet(<<>>) = {} BY DEF ToSet
  <2> QED BY <2>1 DEF Init, SyscallInit, WakeOwed
<1>3. QueueInv /\ WakeOwed /\ [Next]_vars => WakeOwed' BY NextOwes
<1>4. WakeOwed => NoMissedWake
  <2>1. ASSUME NEW f \in Futex, NEW i \in DOMAIN waiting[f] PROVE waiting[f][i] \in ToSet(waiting[f])
    BY DEF ToSet
  <2> QED BY <2>1 DEF WakeOwed, NoMissedWake
<1> QED BY <1>1, <1>2, <1>3, <1>4, PTL DEF Spec

-----------------------------------------------------------------------------
\* If the next timeout is never, nobody who waits has one.
LEMMA NextTimeoutNever ==
    ASSUME QueueInv, NEW time, ~(GetNextTimeout(time) < Never)
    PROVE  /\ \A w \in ToSet(sleeping) : w.timeout = Never
           /\ \A f \in Futex : \A w \in ToSet(waiting[f]) : w.timeout = Never
<1> DEFINE T == {LastFinite(sleeping)} \cup {LastFinite(waiting[f]) : f \in Futex}
<1>0. Never \in Nat BY SyscallAssumption DEF Never
<1>1. ASSUME NEW q \in Seq(FutexWaiter)
      PROVE  /\ LastFinite(q) \in Nat
             /\ LastFinite(q) >= Never => \A w \in ToSet(q) : w.timeout = Never
  <2>1. ASSUME NEW i \in DOMAIN q PROVE q[i].timeout \in 1 .. Never
    <3>1. q[i] \in FutexWaiter BY LenProperties
    <3> QED BY <3>1 DEF FutexWaiter
  <2>2. /\ LastFinite(q) \in Nat
        /\ LastFinite(q) >= Never => \A i \in DOMAIN q : q[i].timeout = Never
    BY <2>1, LastFiniteBounds
  <2> QED BY <2>2 DEF ToSet
<1>2. sleeping \in Seq(FutexWaiter) /\ \A f \in Futex : waiting[f] \in Seq(FutexWaiter)
  BY DEF QueueInv, FutexType
<1>3. T \in SUBSET Nat /\ T # {} BY <1>1, <1>2
<1>4. Min(T) \in T /\ \A y \in T : Min(T) <= y
  <2> HIDE DEF T
  <2> QED BY <1>3, LeastNat
<1>5. ~(Min(T) < Never) BY DEF GetNextTimeout
<1>6. ASSUME NEW y \in T PROVE y >= Never
  <2> HIDE DEF T
  <2>1. Min(T) \in Nat /\ y \in Nat /\ Min(T) <= y BY <1>3, <1>4
  <2> QED BY <1>0, <1>5, <2>1
<1>7. LastFinite(sleeping) >= Never /\ \A f \in Futex : LastFinite(waiting[f]) >= Never
  BY <1>6
<1> QED BY <1>1, <1>2, <1>7

\* What a call waits for.
LEMMA CallFields ==
    ASSUME NEW r, NEW o
    PROVE  Call(r, o).reason = r /\ Call(r, o).object = o
BY DEF Call

\* When stallThread's loop finds no timeout, everybody is blocked or gone and waits without one.
LEMMA NobodyHasTimeout ==
    ASSUME QueueInv, advancing, NEW time, ~(GetNextTimeout(time) < Never), NEW t \in Thread
    PROVE  /\ status[t] \in {"UNUSED", "IDLE", "STALLED"}
           /\ pending[t].reason \in {"FUTEX", "SLEEP"} => pending[t].object = Never
<1>1. status[t] \in {"UNUSED", "IDLE", "STALLED"} BY DEF QueueInv, ThreadType, StatusInv
<1>2. ASSUME pending[t].reason \in {"FUTEX", "SLEEP"} PROVE pending[t].object = Never
  <2>1. t \in blocked
    <3>1. pending[t] # NoCall BY <1>2 DEF NoCall
    <3> QED BY <1>1, <3>1 DEF QueueInv, StatusInv
  <2>2. PICK q \in Queue : t \in Lines[q] BY <2>1 DEF QueueInv, Placed
  <2>3. /\ \A m \in Mutex : t \notin ToSet(mWaiting[m])
        /\ \A b \in Barrier : t \notin ToSet(bWaiting[b])
    BY <1>2 DEF QueueInv, Reasons, MutexReason, BarrierReason
  <2>4. ASSUME NEW c \in Cond PROVE t \notin ThreadsOf(cWaiting[c])
    <3>0. \A w \in ToSet(cWaiting[c]) : pending[w.thread] = Call("COND", w.mutex)
      BY DEF QueueInv, Reasons, CondReason
    <3>1. \A w \in ToSet(cWaiting[c]) : pending[w.thread].reason = "COND"
      BY <3>0, CallFields
    <3> QED BY <1>2, <3>1 DEF ToSet, ThreadsOf
  <2>5. ASSUME NEW u \in Thread, waiter[u] # NoThread PROVE t # waiter[u]
    <3>0. pending[waiter[u]] = Call("JOIN", u) BY <2>5 DEF QueueInv, Reasons, JoinReason
    <3>1. pending[waiter[u]].reason = "JOIN" BY <3>0, CallFields
    <3> QED BY <1>2, <3>1
  <2>6. t \in ThreadsOf(sleeping) \/ \E f \in Futex : t \in ThreadsOf(waiting[f])
    <3>1. Lines[q] = Line(q) BY DEF Lines
    <3> QED BY <2>2, <2>3, <2>4, <2>5, <3>1, QueueKinds DEF Line
  <2>7. \/ \E w \in ToSet(sleeping) : w.thread = t
        \/ \E f \in Futex : \E w \in ToSet(waiting[f]) : w.thread = t
    BY <2>6 DEF ToSet, ThreadsOf
  <2>8. /\ \A w \in ToSet(sleeping) : w.timeout = Never /\ pending[w.thread].object = w.timeout
        /\ \A f \in Futex : \A w \in ToSet(waiting[f]) :
             w.timeout = Never /\ pending[w.thread].object = w.timeout
    <3>1. \A w \in ToSet(sleeping) : pending[w.thread] = Call("SLEEP", w.timeout)
      BY DEF QueueInv, Reasons, SleepReason
    <3>2. \A f \in Futex : \A w \in ToSet(waiting[f]) :
             pending[w.thread] = Call("FUTEX", w.timeout)
      BY DEF QueueInv, Reasons, FutexReason
    <3>3. /\ \A w \in ToSet(sleeping) : pending[w.thread].object = w.timeout
          /\ \A f \in Futex : \A w \in ToSet(waiting[f]) : pending[w.thread].object = w.timeout
      BY <3>1, <3>2, CallFields
    <3> QED BY <3>3, NextTimeoutNever
  <2> QED BY <2>7, <2>8
<1> QED BY <1>1, <1>2

\* The step that reports a deadlock finds a real one.
LEMMA TickReal ==
    ASSUME QueueInv, Tick, failed = {}
    PROVE  DeadlockIsReal' /\ "onThreadExit: RUNNING" \notin failed'
<1>1. \/ failed' = {}
      \/ /\ advancing /\ ~(GetNextTimeout(now') < Never)
         /\ failed' = {"Application has deadlocked"}
         /\ UNCHANGED <<status, pending>>
  BY DEF Tick, FutexPeriodic, Check, ResumeThreads
<1>2. CASE failed' = {} BY <1>2 DEF DeadlockIsReal
<1>3. CASE /\ advancing /\ ~(GetNextTimeout(now') < Never)
           /\ failed' = {"Application has deadlocked"}
           /\ UNCHANGED <<status, pending>>
  BY <1>3, NobodyHasTimeout DEF DeadlockIsReal
<1> QED BY <1>1, <1>2, <1>3

\* No other step reports a deadlock, and onThreadExit's assertion holds.
LEMMA NextReal ==
    ASSUME QueueInv, DeadlockIsReal, "onThreadExit: RUNNING" \notin failed, [Next]_vars
    PROVE  DeadlockIsReal' /\ "onThreadExit: RUNNING" \notin failed'
<1>1. CASE UNCHANGED vars BY <1>1 DEF vars, threadVars, DeadlockIsReal
<1>2. CASE failed = {} /\ Tick BY <1>2, TickReal
<1>3. ASSUME failed' = {} PROVE DeadlockIsReal' /\ "onThreadExit: RUNNING" \notin failed'
  BY <1>3 DEF DeadlockIsReal
<1>4. ASSUME NEW t \in Thread, failed = {}, Synchronize(t) PROVE failed' = {}
  <2>1. CASE \E m \in Mutex : MutexLock(t, m) \/ MutexTrylock(t, m)
    BY <1>4, <2>1 DEF MutexLock, MutexTrylock, Lock, StallThread, NoStall, threadVars
  <2>2. CASE \E m \in Mutex : MutexUnlock(t, m)
    BY <1>4, <2>2 DEF MutexUnlock, ResumeThreads
  <2>3. CASE \E c \in Cond : \E m \in Mutex : CondWait(t, c, m)
    BY <1>4, <2>3 DEF CondWait, StallThread
  <2>4. CASE \E c \in Cond : CondSignal(t, c) \/ CondBroadcast(t, c)
    BY <1>4, <2>4 DEF CondSignal, CondBroadcast, LockAsync, ResumeThreads
  <2>5. CASE \E b \in Barrier : BarrierWait(t, b)
    BY <1>4, <2>5 DEF BarrierWait, StallThread, ResumeThreads
  <2> QED BY <1>4, <2>1, <2>2, <2>3, <2>4, <2>5 DEF Synchronize
<1>5. ASSUME NEW t \in Thread, failed = {}, FutexCall(t) \/ SleepCall(t) PROVE failed' = {}
  <2>1. CASE SleepCall(t) BY <1>5, <2>1 DEF SleepCall, HandleSleepCall, StallThread
  <2>2. CASE FutexCall(t)
    <3>1. ASSUME NEW f, Store(t, f) PROVE failed' = failed
      BY <3>1 DEF Store, NoStall, threadVars
    <3>2. ASSUME NEW f, NEW timeout, FutexWait(t, f, timeout) PROVE failed' = failed
      BY <3>2 DEF FutexWait, StallThread
    <3>3. ASSUME NEW f, NEW n, FutexWake(t, f, n) PROVE failed' = failed
      BY <3>3 DEF FutexWake, ResumeThreads
    <3>4. ASSUME NEW f, NEW g, NEW b, FutexWakeOp(t, f, g, b) PROVE failed' = failed
      BY <3>4 DEF FutexWakeOp, ResumeThreads
    <3>5. ASSUME NEW f, NEW g, FutexCmpRequeue(t, f, g) PROVE failed' = failed
      BY <3>5 DEF FutexCmpRequeue, ResumeThreads
    <3> QED BY <1>5, <2>2, <3>1, <3>2, <3>3, <3>4, <3>5 DEF FutexCall
  <2> QED BY <1>5, <2>1, <2>2
<1>6. ASSUME NEW t \in Thread, failed = {}, Spawn(t) \/ Start(t) \/ Join(t) \/ Return(t)
      PROVE  failed' = {}
  BY <1>6 DEF Spawn, SpawnThread, Start, OnThreadStart, Join, JoinThread, Return,
              ReturnHolding, ReturnFromCall
<1>7. ASSUME NEW t \in Thread, failed = {}, Exit(t) PROVE failed' = {}
  <2>1. PICK W : OnThreadExit(t, W) BY <1>7 DEF Exit
  <2>2. status[t] = "RUNNING" BY <2>1 DEF OnThreadExit, Executing, QueueInv, StatusInv
  <2> QED BY <1>7, <2>1, <2>2 DEF OnThreadExit, Check
<1> QED BY <1>1, <1>2, <1>3, <1>4, <1>5, <1>6, <1>7 DEF Next

\* "Application has deadlocked" is reported only when no thread can ever go on, and the assertion of
\* onThreadExit that the thread is RUNNING never fails.
THEOREM DeadlockIsRealHolds ==
    Orderly => (Spec => [](DeadlockIsReal /\ "onThreadExit: RUNNING" \notin failed))
<1> SUFFICES ASSUME Orderly
             PROVE  Spec => [](DeadlockIsReal /\ "onThreadExit: RUNNING" \notin failed)
  OBVIOUS
<1>1. Spec => []QueueInv BY QueueHolds
<1>2. Init => DeadlockIsReal /\ "onThreadExit: RUNNING" \notin failed
  BY DEF Init, ThreadInit, DeadlockIsReal
<1>3. /\ QueueInv /\ DeadlockIsReal /\ "onThreadExit: RUNNING" \notin failed /\ [Next]_vars
      => DeadlockIsReal' /\ ("onThreadExit: RUNNING" \notin failed)'
  BY NextReal
<1> QED BY <1>1, <1>2, <1>3, PTL DEF Spec

-----------------------------------------------------------------------------

\* A thread that is in no call does not wait for a mutex.
LEMMA NoCallWaits ==
    ASSUME NEW t \in Thread, pending[t] = NoCall
    PROVE  \A m \in Mutex : ~WaitsForMutex(t, m)
BY DEF WaitsForMutex, NoCall

\* Steps that touch no mutex and nobody who waits for one keep the invariant of the mutexes.
LEMMA MutexFrame ==
    ASSUME QueueInv, MutexInv, UNCHANGED <<owner, mWaiting, held>>,
           \A u \in Thread, m \in Mutex :
             /\ WaitsForMutex(u, m)' <=> WaitsForMutex(u, m)
             /\ WaitsForMutex(u, m) => (u \in blocked' <=> u \in blocked)
    PROVE  MutexInv'
<1>1. \A m \in Mutex : owner'[m] = NoThread => mWaiting'[m] = <<>> BY DEF MutexInv
<1>2. \A m \in Mutex, u \in Thread : m \in held'[u] => owner'[m] = u BY DEF MutexInv
<1>3. \A m \in Mutex, u \in Thread : WaitsForMutex(u, m)' => m \notin held'[u] BY DEF MutexInv
<1>4. \A m \in Mutex, u \in Thread :
        owner'[m] = u /\ m \notin held'[u] => u \notin blocked' /\ WaitsForMutex(u, m)'
  BY DEF MutexInv
<1>5. \A m \in Mutex, u \in Thread :
        u \notin blocked' /\ WaitsForMutex(u, m)' => owner'[m] = u
  BY DEF MutexInv
<1> QED BY <1>1, <1>2, <1>3, <1>4, <1>5 DEF MutexInv

\* A call that blocks for something else than a mutex touches no mutex.
LEMMA StallMutex ==
    ASSUME QueueInv, MutexInv, UNCHANGED <<owner, mWaiting, held>>,
           NEW t \in Thread, NEW r \in {"BARRIER", "FUTEX", "SLEEP", "JOIN"}, NEW o,
           pending[t] = NoCall,
           pending' = [pending EXCEPT ![t] = Call(r, o)],
           blocked' = (blocked \ {}) \cup {t}
    PROVE  MutexInv'
<1>1. pending \in [Thread -> CallSet] BY DEF QueueInv, ThreadType
<1>2. pending'[t] = Call(r, o) /\ \A u \in Thread : u # t => pending'[u] = pending[u] BY <1>1
<1>3. pending'[t].reason = r BY <1>2, CallFields
<1>4. \A m \in Mutex : ~WaitsForMutex(t, m) /\ ~WaitsForMutex(t, m)'
  BY <1>3, NoCallWaits DEF WaitsForMutex
<1>5. \A u \in Thread, m \in Mutex : u # t => (WaitsForMutex(u, m)' <=> WaitsForMutex(u, m))
  BY <1>2 DEF WaitsForMutex
<1>6. \A u \in Thread : u # t => (u \in blocked' <=> u \in blocked) OBVIOUS
<1>7. \A u \in Thread, m \in Mutex :
             /\ WaitsForMutex(u, m)' <=> WaitsForMutex(u, m)
             /\ WaitsForMutex(u, m) => (u \in blocked' <=> u \in blocked)
  BY <1>4, <1>5, <1>6
<1> QED BY <1>7, MutexFrame

\* Resuming threads that wait for something else than a mutex touches no mutex.
LEMMA ResumeMutex ==
    ASSUME QueueInv, MutexInv, UNCHANGED <<owner, mWaiting, held, pending>>,
           NEW R, blocked' = blocked \ R,
           \A u \in R : pending[u].reason \notin {"MUTEX", "COND"}
    PROVE  MutexInv'
<1>1. \A u \in Thread, m \in Mutex :
             /\ WaitsForMutex(u, m)' <=> WaitsForMutex(u, m)
             /\ WaitsForMutex(u, m) => (u \in blocked' <=> u \in blocked)
  BY DEF WaitsForMutex
<1> QED BY <1>1, MutexFrame

\* Threads at futexes, barriers, asleep or joining do not wait for a mutex.
LEMMA OtherReasons ==
    ASSUME QueueInv
    PROVE  /\ \A b \in Barrier : \A u \in ToSet(bWaiting[b]) :
                pending[u].reason \notin {"MUTEX", "COND"}
           /\ \A f \in Futex : \A u \in ThreadsOf(waiting[f]) :
                pending[u].reason \notin {"MUTEX", "COND"}
           /\ \A u \in ThreadsOf(sleeping) : pending[u].reason \notin {"MUTEX", "COND"}
           /\ \A u \in Thread : waiter[u] # NoThread =>
                pending[waiter[u]].reason \notin {"MUTEX", "COND"}
<1>1. \A b \in Barrier : \A u \in ToSet(bWaiting[b]) : pending[u].reason = "BARRIER"
  BY DEF QueueInv, Reasons, BarrierReason
<1>2. ASSUME NEW s, NEW r, NEW u \in ThreadsOf(s),
             \A w \in ToSet(s) : pending[w.thread] = Call(r, w.timeout)
      PROVE  pending[u].reason = r
  <2>1. PICK w \in ToSet(s) : w.thread = u BY DEF ThreadsOf, ToSet
  <2>2. pending[u] = Call(r, w.timeout) BY <1>2, <2>1
  <2> QED BY <2>2, CallFields
<1>3. \A f \in Futex : \A w \in ToSet(waiting[f]) : pending[w.thread] = Call("FUTEX", w.timeout)
  BY DEF QueueInv, Reasons, FutexReason
<1>4. \A w \in ToSet(sleeping) : pending[w.thread] = Call("SLEEP", w.timeout)
  BY DEF QueueInv, Reasons, SleepReason
<1>5. \A f \in Futex : \A u \in ThreadsOf(waiting[f]) : pending[u].reason = "FUTEX"
  BY <1>2, <1>3
<1>6. \A u \in ThreadsOf(sleeping) : pending[u].reason = "SLEEP" BY <1>2, <1>4
<1>7. ASSUME NEW u \in Thread, waiter[u] # NoThread PROVE pending[waiter[u]].reason = "JOIN"
  <2>1. pending[waiter[u]] = Call("JOIN", u) BY <1>7 DEF QueueInv, Reasons, JoinReason
  <2> QED BY <2>1, CallFields
<1> QED BY <1>1, <1>5, <1>6, <1>7

-----------------------------------------------------------------------------

\* SimMutex::lock of a free mutex keeps the invariant of the mutexes.
LEMMA TakeMutex ==
    ASSUME QueueInv, MutexInv, NEW t \in Thread, NEW m \in Mutex, Executing(t), Lock(t, m),
           owner[m] = NoThread
    PROVE  MutexInv'
<1>1. /\ owner' = [owner EXCEPT ![m] = t] /\ held' = [held EXCEPT ![t] = @ \cup {m}]
      /\ UNCHANGED <<mWaiting, pending, blocked>>
  BY DEF Lock, NoStall, threadVars
<1>2. owner \in [Mutex -> Thread \cup {NoThread}] /\ held \in [Thread -> SUBSET Mutex]
  BY DEF QueueInv, SyncType
<1>3. /\ owner'[m] = t /\ \A n \in Mutex : n # m => owner'[n] = owner[n]
      /\ held'[t] = held[t] \cup {m} /\ \A u \in Thread : u # t => held'[u] = held[u]
  BY <1>1, <1>2
<1>4. \A n \in Mutex : ~WaitsForMutex(t, n) BY NoCallWaits DEF Executing
<1>5. \A u \in Thread, n \in Mutex : WaitsForMutex(u, n)' <=> WaitsForMutex(u, n)
  BY <1>1 DEF WaitsForMutex
<1>6. t # NoThread BY ThreadAssumption
<1>7. \A n \in Mutex : owner'[n] = NoThread => mWaiting'[n] = <<>>
  BY <1>1, <1>3, <1>6 DEF MutexInv
<1>8. \A n \in Mutex, u \in Thread : n \in held'[u] => owner'[n] = u
  BY <1>3, ThreadAssumption DEF MutexInv
<1>9. \A n \in Mutex, u \in Thread : WaitsForMutex(u, n)' => n \notin held'[u]
  BY <1>3, <1>4, <1>5 DEF MutexInv
<1>10. \A n \in Mutex, u \in Thread :
         owner'[n] = u /\ n \notin held'[u] => u \notin blocked' /\ WaitsForMutex(u, n)'
  BY <1>1, <1>3, <1>5 DEF MutexInv
<1>11. \A n \in Mutex, u \in Thread :
         u \notin blocked' /\ WaitsForMutex(u, n)' => owner'[n] = u
  BY <1>1, <1>3, <1>5, ThreadAssumption DEF MutexInv
<1> QED BY <1>7, <1>8, <1>9, <1>10, <1>11 DEF MutexInv

\* SimMutex::lock of a taken mutex keeps the invariant of the mutexes.
LEMMA AskMutex ==
    ASSUME QueueInv, MutexInv, NEW t \in Thread, NEW m \in Mutex, Executing(t), Lock(t, m),
           owner[m] # NoThread, m \notin held[t]
    PROVE  MutexInv'
<1>1. /\ mWaiting' = [mWaiting EXCEPT ![m] = Append(@, t)]
      /\ pending' = [pending EXCEPT ![t] = Call("MUTEX", m)]
      /\ blocked' = (blocked \ {}) \cup {t}
      /\ UNCHANGED <<owner, held>>
  BY DEF Lock, StallThread
<1>2. /\ mWaiting \in [Mutex -> Seq(Thread)] /\ pending \in [Thread -> CallSet]
  BY DEF QueueInv, SyncType, ThreadType
<1>3. /\ \A n \in Mutex : n # m => mWaiting'[n] = mWaiting[n]
      /\ pending'[t] = Call("MUTEX", m) /\ \A u \in Thread : u # t => pending'[u] = pending[u]
  BY <1>1, <1>2
<1>4. \A n \in Mutex : ~WaitsForMutex(t, n) BY NoCallWaits DEF Executing
<1>5. \A u \in Thread, n \in Mutex : u # t => (WaitsForMutex(u, n)' <=> WaitsForMutex(u, n))
  BY <1>3 DEF WaitsForMutex
<1>6. \A n \in Mutex : WaitsForMutex(t, n)' => n = m
  <2>1. pending'[t].object = m BY <1>3, CallFields
  <2> QED BY <2>1 DEF WaitsForMutex
<1>7. t \in blocked' /\ \A u \in Thread : u # t => (u \in blocked' <=> u \in blocked) BY <1>1
<1>8. \A n \in Mutex : owner'[n] = NoThread => mWaiting'[n] = <<>>
  BY <1>1, <1>3 DEF MutexInv
<1>9. \A n \in Mutex, u \in Thread : n \in held'[u] => owner'[n] = u
  BY <1>1 DEF MutexInv
<1>10. \A n \in Mutex, u \in Thread : WaitsForMutex(u, n)' => n \notin held'[u]
  BY <1>1, <1>5, <1>6 DEF MutexInv
<1>11. \A n \in Mutex, u \in Thread :
         owner'[n] = u /\ n \notin held'[u] => u \notin blocked' /\ WaitsForMutex(u, n)'
  BY <1>1, <1>4, <1>5, <1>7 DEF MutexInv
<1>12. \A n \in Mutex, u \in Thread :
         u \notin blocked' /\ WaitsForMutex(u, n)' => owner'[n] = u
  BY <1>1, <1>5, <1>7 DEF MutexInv
<1> QED BY <1>8, <1>9, <1>10, <1>11, <1>12 DEF MutexInv

\* Whom an unlock lets in.
LEMMA NextOwner ==
    ASSUME QueueInv, NEW m \in Mutex
    PROVE  \/ /\ mWaiting[m] = <<>> /\ UnlockedOwner(m) = NoThread
              /\ UnlockedQueue(m) = <<>> /\ UnlockWakes(m) = {}
           \/ /\ mWaiting[m] # <<>> /\ UnlockedOwner(m) \in Thread \cap blocked
              /\ UnlockedOwner(m) = Head(mWaiting[m]) /\ UnlockedQueue(m) = Tail(mWaiting[m])
              /\ UnlockWakes(m) = {UnlockedOwner(m)}
              /\ \A n \in Mutex : WaitsForMutex(UnlockedOwner(m), n) <=> n = m
<1>1. CASE mWaiting[m] = <<>> BY <1>1 DEF UnlockedOwner, UnlockedQueue, UnlockWakes
<1>2. CASE mWaiting[m] # <<>>
  <2> DEFINE h == UnlockedOwner(m)
  <2>1. h = Head(mWaiting[m]) /\ UnlockedQueue(m) = Tail(mWaiting[m])
    BY <1>2 DEF UnlockedOwner, UnlockedQueue
  <2>2. mWaiting[m] \in Seq(Thread) BY DEF QueueInv, SyncType
  <2>3. h \in Thread BY <1>2, <2>1, <2>2, HeadTailProperties
  <2>4. UnlockWakes(m) = {h} BY <2>3, ThreadAssumption DEF UnlockWakes
  <2> HIDE DEF h
  <2>5. h \in ToSet(mWaiting[m]) BY <2>4, UnlockedPart
  <2>6. h \in blocked BY <2>5, InLineBlocked DEF QueueInv
  <2>7. pending[h].reason \in {"MUTEX", "COND"} /\ pending[h].object = m
    BY <2>5 DEF QueueInv, Reasons, MutexReason
  <2>8. \A n \in Mutex : WaitsForMutex(h, n) <=> n = m BY <2>7 DEF WaitsForMutex
  <2> QED BY <1>2, <2>1, <2>3, <2>4, <2>6, <2>8 DEF h
<1> QED BY <1>1, <1>2

\* The effect of unlocking m on the invariant, when the caller goes on (S empty) or
\* waits for m at a condition (S its singleton).
LEMMA GiveMutex ==
    ASSUME QueueInv, MutexInv, NEW t \in Thread, NEW m \in Mutex, Executing(t), m \in held[t],
           owner' = [owner EXCEPT ![m] = UnlockedOwner(m)],
           mWaiting' = [mWaiting EXCEPT ![m] = UnlockedQueue(m)],
           held' = [held EXCEPT ![t] = @ \ {m}],
           NEW S \in {{}, {t}}, blocked' = (blocked \ UnlockWakes(m)) \cup S,
           \A u \in Thread : u \notin S => pending'[u] = pending[u],
           \A u \in S : pending'[u] = Call("COND", m)
    PROVE  MutexInv'
<1> DEFINE h == UnlockedOwner(m)
<1>1. /\ owner \in [Mutex -> Thread \cup {NoThread}] /\ held \in [Thread -> SUBSET Mutex]
      /\ mWaiting \in [Mutex -> Seq(Thread)]
  BY DEF QueueInv, SyncType
<1>2. /\ owner'[m] = h /\ \A n \in Mutex : n # m => owner'[n] = owner[n]
      /\ held'[t] = held[t] \ {m} /\ \A u \in Thread : u # t => held'[u] = held[u]
      /\ mWaiting'[m] = UnlockedQueue(m) /\ \A n \in Mutex : n # m => mWaiting'[n] = mWaiting[n]
  BY <1>1
<1>3. \A n \in Mutex : ~WaitsForMutex(t, n) BY NoCallWaits DEF Executing
<1>4. \A u \in Thread, n \in Mutex :
        IF u \in S THEN WaitsForMutex(u, n)' => n = m
                   ELSE WaitsForMutex(u, n)' <=> WaitsForMutex(u, n)
  <2>1. \A u \in S : pending'[u].object = m BY CallFields
  <2> QED BY <2>1 DEF WaitsForMutex
<1>5. owner[m] = t /\ t \notin blocked /\ t # NoThread BY ThreadAssumption DEF MutexInv, Executing
<1>6. \A u \in Thread : u # t => (m \notin held[u] /\ m \notin held'[u]) BY <1>2, <1>5 DEF MutexInv
<1>7. /\ UnlockWakes(m) = {h} \ {NoThread}
      /\ h = NoThread => UnlockedQueue(m) = <<>>
      /\ h # NoThread => h \in blocked /\ h \in Thread
      /\ h # NoThread => \A n \in Mutex : WaitsForMutex(h, n) <=> n = m
  BY NextOwner, ThreadAssumption
<1> HIDE DEF h
<1>8. h # t BY <1>5, <1>7
<1>9. h # NoThread => h \notin blocked' /\ h \notin S BY <1>7, <1>8
<1>10. \A n \in Mutex : owner'[n] = NoThread => mWaiting'[n] = <<>>
  BY <1>2, <1>7 DEF MutexInv
<1>11. \A n \in Mutex, u \in Thread : n \in held'[u] => owner'[n] = u
  BY <1>2, <1>6 DEF MutexInv
<1>12. \A n \in Mutex, u \in Thread : WaitsForMutex(u, n)' => n \notin held'[u]
  BY <1>2, <1>4 DEF MutexInv
<1>13. ASSUME NEW n \in Mutex, NEW u \in Thread, owner'[n] = u, n \notin held'[u]
       PROVE  u \notin blocked' /\ WaitsForMutex(u, n)'
  <2>1. CASE n = m
    <3>1. u = h /\ h # NoThread BY <1>2, <1>13, <2>1, ThreadAssumption
    <3> QED BY <1>4, <1>7, <1>9, <2>1, <3>1
  <2>2. CASE n # m
    <3>1. owner[n] = u /\ n \notin held[u] BY <1>2, <1>13, <2>2
    <3>2. u \notin blocked /\ WaitsForMutex(u, n) BY <3>1 DEF MutexInv
    <3>3. u # t BY <1>3, <3>2
    <3> QED BY <1>4, <3>2, <3>3
  <2> QED BY <2>1, <2>2
<1>14. ASSUME NEW n \in Mutex, NEW u \in Thread, u \notin blocked', WaitsForMutex(u, n)'
       PROVE  owner'[n] = u
  <2>1. u \notin S BY <1>14
  <2>2. WaitsForMutex(u, n) BY <1>4, <1>14, <2>1
  <2>3. CASE u \in blocked
    <3>1. u = h /\ h # NoThread BY <1>7, <1>14, <2>3
    <3> QED BY <1>2, <1>7, <2>2, <3>1
  <2>4. CASE u \notin blocked
    <3>1. owner[n] = u BY <2>2, <2>4 DEF MutexInv
    <3>2. n # m BY <1>3, <1>5, <2>2, <3>1
    <3> QED BY <1>2, <3>1, <3>2
  <2> QED BY <2>3, <2>4
<1> QED BY <1>10, <1>11, <1>12, <1>13, <1>14 DEF MutexInv

\* SyncServer::mutexUnlock keeps the invariant of the mutexes.
LEMMA UnlockMutex ==
    ASSUME QueueInv, MutexInv, NEW t \in Thread, NEW m \in Mutex, MutexUnlock(t, m)
    PROVE  MutexInv'
<1>1. /\ Executing(t) /\ m \in held[t]
      /\ owner' = [owner EXCEPT ![m] = UnlockedOwner(m)]
      /\ mWaiting' = [mWaiting EXCEPT ![m] = UnlockedQueue(m)]
      /\ held' = [held EXCEPT ![t] = @ \ {m}]
      /\ blocked' = blocked \ UnlockWakes(m)
      /\ pending' = pending
  BY DEF MutexUnlock, ResumeThreads
<1>2. /\ {} \in {{}, {t}} /\ blocked' = (blocked \ UnlockWakes(m)) \cup {}
      /\ \A u \in Thread : u \notin {} => pending'[u] = pending[u]
      /\ \A u \in {} : pending'[u] = Call("COND", m)
  BY <1>1
<1> QED BY <1>1, <1>2, GiveMutex

\* SimCond::wait keeps the invariant of the mutexes.
LEMMA CondWaitMutex ==
    ASSUME QueueInv, MutexInv, NEW t \in Thread, NEW c \in Cond, NEW m \in Mutex,
           CondWait(t, c, m)
    PROVE  MutexInv'
<1>1. /\ Executing(t) /\ m \in held[t]
      /\ owner' = [owner EXCEPT ![m] = UnlockedOwner(m)]
      /\ mWaiting' = [mWaiting EXCEPT ![m] = UnlockedQueue(m)]
      /\ held' = [held EXCEPT ![t] = @ \ {m}]
      /\ blocked' = (blocked \ UnlockWakes(m)) \cup {t}
      /\ pending' = [pending EXCEPT ![t] = Call("COND", m)]
  BY DEF CondWait, StallThread
<1>2. pending \in [Thread -> CallSet] BY DEF QueueInv, ThreadType
<1>3. /\ {t} \in {{}, {t}}
      /\ \A u \in Thread : u \notin {t} => pending'[u] = pending[u]
      /\ \A u \in {t} : pending'[u] = Call("COND", m)
  BY <1>1, <1>2
<1> QED BY <1>1, <1>3, GiveMutex

\* A condition variable's waiters that wake first are let in, the others join the queues.
LEMMA LockAsyncMutex ==
    ASSUME QueueInv, MutexInv, NEW c \in Cond, NEW ws \in Seq(CondWaiter), OnceEach(ws),
           ToSet(ws) \subseteq ToSet(cWaiting[c]), LockAsync(ws), UNCHANGED held
    PROVE  MutexInv'
<1> DEFINE F == FirstWoken(ws)
           H(m) == Head(WokenThreads(ws, m))
<1>1. /\ owner' = [m \in Mutex |-> IF m \in Freed(ws) THEN H(m) ELSE owner[m]]
      /\ mWaiting' = [m \in Mutex |-> mWaiting[m] \o Queued(ws, m)]
      /\ blocked' = blocked \ F /\ pending' = pending
  BY DEF LockAsync, Queued, ResumeThreads
<1>2. \A m \in Mutex : \A u \in ToSet(WokenThreads(ws, m)) :
        \E w \in ToSet(ws) : w.thread = u /\ w.mutex = m
  BY WokenParts
<1>3. \A m \in Mutex : m \in Freed(ws) => H(m) \in Thread /\ H(m) \in F
                                          /\ H(m) \in ToSet(WokenThreads(ws, m))
  BY AsyncParts
<1>4. ASSUME NEW u \in F PROVE \E m \in Freed(ws) : u = H(m) BY DEF FirstWoken
<1>5. \A m \in Mutex :
        /\ m \in Freed(ws) => owner[m] = NoThread
        /\ owner[m] = NoThread /\ m \notin Freed(ws) => WokenThreads(ws, m) = <<>>
        /\ m \notin Freed(ws) => Queued(ws, m) = WokenThreads(ws, m)
  BY DEF Freed, Queued
<1>6. Freed(ws) \subseteq Mutex BY DEF Freed
<1>7. ASSUME NEW m \in Mutex, m \in Freed(ws), NEW n \in Mutex
      PROVE  WaitsForMutex(H(m), n) <=> n = m
  <2>1. PICK w \in ToSet(ws) : w.thread = H(m) /\ w.mutex = m BY <1>2, <1>3, <1>7
  <2>2. pending[H(m)] = Call("COND", m) BY <2>1 DEF QueueInv, Reasons, CondReason
  <2>3. pending[H(m)].reason = "COND" /\ pending[H(m)].object = m BY <2>2, CallFields
  <2> QED BY <2>3 DEF WaitsForMutex
<1>8. \A u \in Thread, n \in Mutex : WaitsForMutex(u, n)' <=> WaitsForMutex(u, n)
  BY <1>1 DEF WaitsForMutex
<1>9. \A m \in Mutex : owner'[m] = IF m \in Freed(ws) THEN H(m) ELSE owner[m] BY <1>1
<1> HIDE DEF F, H
<1>10. ASSUME NEW m \in Mutex, owner'[m] = NoThread PROVE mWaiting'[m] = <<>>
  <2>1. m \notin Freed(ws) /\ owner[m] = NoThread BY <1>3, <1>9, <1>10, ThreadAssumption
  <2>2. mWaiting[m] = <<>> /\ Queued(ws, m) = <<>> BY <1>5, <2>1 DEF MutexInv
  <2>3. mWaiting'[m] = <<>> \o <<>> BY <1>1, <2>2
  <2> QED BY <2>3
<1>11. \A m \in Mutex, u \in Thread : m \in held'[u] => owner'[m] = u
  BY <1>5, <1>9, ThreadAssumption DEF MutexInv
<1>12. \A m \in Mutex, u \in Thread : WaitsForMutex(u, m)' => m \notin held'[u]
  BY <1>8 DEF MutexInv
<1>13. ASSUME NEW m \in Mutex, NEW u \in Thread, owner'[m] = u, m \notin held'[u]
       PROVE  u \notin blocked' /\ WaitsForMutex(u, m)'
  <2>1. CASE m \in Freed(ws)
    <3>1. u = H(m) BY <1>9, <1>13, <2>1
    <3> QED BY <1>1, <1>3, <1>7, <1>8, <2>1, <3>1
  <2>2. CASE m \notin Freed(ws)
    <3>1. owner[m] = u BY <1>9, <1>13, <2>2
    <3> QED BY <1>1, <1>8, <1>13, <3>1 DEF MutexInv
  <2> QED BY <2>1, <2>2
<1>14. ASSUME NEW m \in Mutex, NEW u \in Thread, u \notin blocked', WaitsForMutex(u, m)'
       PROVE  owner'[m] = u
  <2>0. WaitsForMutex(u, m) BY <1>8, <1>14
  <2>1. CASE u \in F
    <3>1. PICK n \in Freed(ws) : u = H(n) BY <1>4, <2>1
    <3>2. n = m BY <1>6, <1>7, <2>0, <3>1
    <3> QED BY <1>9, <3>1, <3>2
  <2>2. CASE u \notin F
    <3>1. owner[m] = u BY <1>1, <1>14, <2>0, <2>2 DEF MutexInv
    <3> QED BY <1>5, <1>9, <3>1, ThreadAssumption
  <2> QED BY <2>1, <2>2
<1> QED BY <1>10, <1>11, <1>12, <1>13, <1>14 DEF MutexInv

\* A call that comes back with a mutex makes its caller the holder.
LEMMA ReturnMutex ==
    ASSUME QueueInv, MutexInv, NEW t \in Thread, Return(t)
    PROVE  MutexInv'
<1> DEFINE G == IF pending[t].reason \in {"MUTEX", "COND"} THEN {pending[t].object} ELSE {}
<1>1. /\ t \notin blocked /\ pending' = [pending EXCEPT ![t] = NoCall]
      /\ held' = [held EXCEPT ![t] = @ \cup G]
      /\ UNCHANGED <<blocked, owner, mWaiting>>
  BY DEF Return, ReturnHolding, ReturnFromCall
<1>2. pending \in [Thread -> CallSet] /\ held \in [Thread -> SUBSET Mutex]
  BY DEF QueueInv, ThreadType, SyncType
<1>3. /\ pending'[t] = NoCall /\ \A u \in Thread : u # t => pending'[u] = pending[u]
      /\ held'[t] = held[t] \cup G /\ \A u \in Thread : u # t => held'[u] = held[u]
  BY <1>1, <1>2
<1>4. \A n \in Mutex : n \in G <=> WaitsForMutex(t, n) BY DEF WaitsForMutex
<1>5. \A n \in Mutex : ~WaitsForMutex(t, n)' BY <1>3 DEF WaitsForMutex, NoCall
<1>6. \A u \in Thread, n \in Mutex : u # t => (WaitsForMutex(u, n)' <=> WaitsForMutex(u, n))
  BY <1>3 DEF WaitsForMutex
<1> HIDE DEF G
<1>7. \A n \in Mutex : owner'[n] = NoThread => mWaiting'[n] = <<>> BY <1>1 DEF MutexInv
<1>8. \A n \in Mutex, u \in Thread : n \in held'[u] => owner'[n] = u
  BY <1>1, <1>3, <1>4 DEF MutexInv
<1>9. \A n \in Mutex, u \in Thread : WaitsForMutex(u, n)' => n \notin held'[u]
  BY <1>3, <1>5, <1>6 DEF MutexInv
<1>10. \A n \in Mutex, u \in Thread :
         owner'[n] = u /\ n \notin held'[u] => u \notin blocked' /\ WaitsForMutex(u, n)'
  BY <1>1, <1>3, <1>4, <1>6 DEF MutexInv
<1>11. \A n \in Mutex, u \in Thread :
         u \notin blocked' /\ WaitsForMutex(u, n)' => owner'[n] = u
  BY <1>1, <1>5, <1>6 DEF MutexInv
<1> QED BY <1>7, <1>8, <1>9, <1>10, <1>11 DEF MutexInv

-----------------------------------------------------------------------------

\* At the start every mutex is free.
LEMMA InitMutex == Init => MutexInv
<1> SUFFICES ASSUME Init PROVE MutexInv OBVIOUS
<1>1. /\ \A m \in Mutex : owner[m] = NoThread /\ mWaiting[m] = <<>>
      /\ \A t \in Thread : held[t] = {} /\ pending[t] = NoCall
  BY DEF Init, ThreadInit, SyncInit
<1>2. \A t \in Thread, m \in Mutex : ~WaitsForMutex(t, m) BY <1>1, NoCallWaits
<1> QED BY <1>1, <1>2, ThreadAssumption DEF MutexInv

\* The steps that are not about mutexes.
LEMMA OtherMutex ==
    ASSUME QueueInv, MutexInv, Orderly, UNCHANGED syncVars, NEW t \in Thread,
           Tick \/ FutexCall(t) \/ SleepCall(t) \/ Spawn(t) \/ Start(t) \/ Join(t) \/ Exit(t)
    PROVE  MutexInv'
<1>0. UNCHANGED <<owner, mWaiting, held>> BY DEF syncVars
<1>1. ASSUME UNCHANGED <<blocked, pending>> PROVE MutexInv'
  <2>1. \A u \in Thread, m \in Mutex :
          /\ WaitsForMutex(u, m)' <=> WaitsForMutex(u, m)
          /\ WaitsForMutex(u, m) => (u \in blocked' <=> u \in blocked)
    BY <1>1 DEF WaitsForMutex
  <2> QED BY <1>0, <2>1, MutexFrame
<1>2. ASSUME NEW R, ResumeThreads(R), \A u \in R : pending[u].reason \notin {"MUTEX", "COND"}
      PROVE  MutexInv'
  <2>1. blocked' = blocked \ R /\ pending' = pending BY <1>2 DEF ResumeThreads
  <2> QED BY <1>0, <1>2, <2>1, ResumeMutex
<1>3. ASSUME NEW u \in Thread, NEW r \in {"BARRIER", "FUTEX", "SLEEP", "JOIN"}, NEW o, Executing(u),
             StallThread(u, Call(r, o), {})
      PROVE  MutexInv'
  <2>1. /\ pending[u] = NoCall /\ pending' = [pending EXCEPT ![u] = Call(r, o)]
        /\ blocked' = (blocked \ {}) \cup {u}
    BY <1>3 DEF Executing, StallThread
  <2> QED BY <1>0, <2>1, StallMutex
<1>4. \A f \in Futex : \A n \in Nat : Woken(f, n) \subseteq ThreadsOf(waiting[f])
  BY DEF Woken, ThreadsOf
<1>5. ASSUME NEW f \in Futex, NEW n \in Nat, NEW u \in Woken(f, n)
      PROVE  pending[u].reason \notin {"MUTEX", "COND"}
  BY <1>4, OtherReasons
<1>6. CASE Tick
  <2>1. \/ UNCHANGED <<blocked, pending>>
        \/ ResumeThreads(DueThread(sleeping, now') \cup
                         UNION {DueThread(waiting[f], now') : f \in Futex})
    BY <1>6 DEF Tick, FutexPeriodic
  <2>2. ASSUME NEW q \in Seq(FutexWaiter) PROVE DueThread(q, now') \subseteq ThreadsOf(q)
    BY FirstDueInQueue DEF DueThread, ThreadsOf
  <2>3. /\ DueThread(sleeping, now') \subseteq ThreadsOf(sleeping)
        /\ \A f \in Futex : DueThread(waiting[f], now') \subseteq ThreadsOf(waiting[f])
    BY <2>2 DEF QueueInv, FutexType
  <2>4. ASSUME NEW u \in DueThread(sleeping, now') \cup
                         UNION {DueThread(waiting[f], now') : f \in Futex}
        PROVE  pending[u].reason \notin {"MUTEX", "COND"}
    BY <2>3, OtherReasons
  <2> QED BY <1>1, <1>2, <2>1, <2>4
<1>7. CASE FutexCall(t)
  <2>1. PICK f \in Futex \cap profile :
          \/ Store(t, f)
          \/ \E timeout \in Timeouts : FutexWait(t, f, timeout)
          \/ \E n \in {1, All} : FutexWake(t, f, n)
          \/ \E g \in Futex \cap profile : \/ \E b \in BOOLEAN : FutexWakeOp(t, f, g, b)
                                        \/ FutexCmpRequeue(t, f, g)
    BY <1>7 DEF FutexCall
  <2>2. CASE Store(t, f) BY <1>1, <2>2 DEF Store, NoStall, threadVars
  <2>3. ASSUME NEW timeout, FutexWait(t, f, timeout) PROVE MutexInv'
    BY <1>3, <2>3 DEF FutexWait
  <2>4. ASSUME NEW n \in {1, All}, FutexWake(t, f, n) PROVE MutexInv'
    <3>1. n \in Nat BY AllWaiters
    <3>2. ResumeThreads(Woken(f, n)) BY <2>4 DEF FutexWake
    <3> QED BY <1>2, <1>5, <3>1, <3>2
  <2>5. ASSUME NEW g \in Futex, NEW b \in BOOLEAN, FutexWakeOp(t, f, g, b) PROVE MutexInv'
    <3>1. ResumeThreads(Woken(f, 1) \cup IF b THEN Woken(g, All) ELSE {})
      BY <2>5 DEF FutexWakeOp
    <3>2. All \in Nat /\ 1 \in Nat BY AllWaiters
    <3> QED BY <1>2, <1>5, <3>1, <3>2
  <2>6. ASSUME NEW g \in Futex, FutexCmpRequeue(t, f, g) PROVE MutexInv'
    <3>1. ResumeThreads(Woken(f, 1)) BY <2>6 DEF FutexCmpRequeue
    <3> QED BY <1>2, <1>5, <3>1
  <2> QED BY <2>1, <2>2, <2>3, <2>4, <2>5, <2>6
<1>8. CASE SleepCall(t)
  <2>1. PICK wake \in 1 .. MaxTime : HandleSleepCall(t, wake) BY <1>8 DEF SleepCall
  <2> QED BY <1>3, <2>1 DEF HandleSleepCall
<1>9. CASE Spawn(t) BY <1>1, <1>9 DEF Spawn, SpawnThread
<1>10. CASE Start(t)
  <2>1. status[t] = "INITIALIZING" /\ blocked' = blocked \ {waiter[t]} /\ pending' = pending
    BY <1>10 DEF Start, OnThreadStart
  <2>2. waiter[t] = NoThread /\ blocked \subseteq Thread
    BY <2>1 DEF QueueInv, StatusInv, ThreadType
  <2>3. blocked' = blocked BY <2>1, <2>2, ThreadAssumption
  <2> QED BY <1>1, <2>1, <2>3
<1>11. CASE Join(t)
  <2>1. PICK u \in Thread : JoinThread(t, u) BY <1>11 DEF Join
  <2>2. /\ pending[t] = NoCall /\ pending' = [pending EXCEPT ![t] = Call("JOIN", u)]
        /\ blocked' = (blocked \ {}) \cup {t}
    BY <2>1 DEF JoinThread, Executing
  <2> QED BY <1>0, <2>2, StallMutex
<1>12. CASE Exit(t)
  <2>1. PICK W : /\ OnThreadExit(t, W)
                 /\ \A u \in W : \E f \in Futex : u \in ThreadsOf(waiting[f])
    BY <1>12, ExitWakes
  <2>2. blocked' = blocked \ (W \cup ({waiter[t]} \ {NoThread})) /\ pending' = pending
    BY <2>1 DEF OnThreadExit
  <2>3. \A u \in W \cup ({waiter[t]} \ {NoThread}) : pending[u].reason \notin {"MUTEX", "COND"}
    BY <2>1, OtherReasons
  <2> QED BY <1>0, <2>2, <2>3, ResumeMutex
<1> QED BY <1>6, <1>7, <1>8, <1>9, <1>10, <1>11, <1>12

\* SyncServer::mutexTrylock takes a mutex only if it is free, as programs do not try their own.
LEMMA TrylockTakes ==
    ASSUME QueueInv, MutexInv, Orderly, NEW t \in Thread, NEW m \in Mutex, MutexTrylock(t, m),
           ~IsLocked(m, t)
    PROVE  Executing(t) /\ Lock(t, m) /\ owner[m] = NoThread
<1>1. Executing(t) /\ Lock(t, m) /\ owner[m] \in {NoThread, t} /\ (m \in held[t] => Uses("try_owned"))
  BY DEF MutexTrylock, IsLocked
<1>2. m \notin held[t] BY <1>1 DEF Uses, Orderly, QueueInv, ThreadType
<1>3. ~WaitsForMutex(t, m) BY <1>1, NoCallWaits DEF Executing
<1>4. owner[m] # t BY <1>2, <1>3 DEF MutexInv
<1> QED BY <1>1, <1>4

\* Every step keeps the invariant of the mutexes.
LEMMA NextMutex ==
    ASSUME QueueInv, MutexInv, Orderly, [Next]_vars
    PROVE  MutexInv'
<1>1. ASSUME UNCHANGED <<syncVars, threadVars>> PROVE MutexInv'
  <2>1. UNCHANGED <<owner, mWaiting, held, blocked, pending>> BY <1>1 DEF syncVars, threadVars
  <2>2. \A u \in Thread, m \in Mutex :
          /\ WaitsForMutex(u, m)' <=> WaitsForMutex(u, m)
          /\ WaitsForMutex(u, m) => (u \in blocked' <=> u \in blocked)
    BY <2>1 DEF WaitsForMutex
  <2> QED BY <2>1, <2>2, MutexFrame
<1>2. CASE UNCHANGED vars BY <1>1, <1>2 DEF vars
<1>3. ASSUME NEW t \in Thread, NEW m \in Mutex, MutexLock(t, m) PROVE MutexInv'
  <2>1. Executing(t) /\ Lock(t, m) /\ m \notin held[t] BY <1>3 DEF MutexLock
  <2> QED BY <2>1, TakeMutex, AskMutex
<1>4. ASSUME NEW t \in Thread, NEW m \in Mutex, MutexTrylock(t, m) PROVE MutexInv'
  <2>1. CASE IsLocked(m, t) BY <1>1, <1>4, <2>1 DEF MutexTrylock, NoStall
  <2>2. CASE ~IsLocked(m, t) BY <1>4, <2>2, TrylockTakes, TakeMutex
  <2> QED BY <2>1, <2>2
<1>5. ASSUME NEW t \in Thread, NEW m \in Mutex, MutexUnlock(t, m) PROVE MutexInv'
  BY <1>5, UnlockMutex
<1>6. ASSUME NEW t \in Thread, NEW c \in Cond, NEW m \in Mutex, CondWait(t, c, m) PROVE MutexInv'
  BY <1>6, CondWaitMutex
<1>7. ASSUME NEW t \in Thread, NEW c \in Cond, CondSignal(t, c) \/ CondBroadcast(t, c)
      PROVE  MutexInv'
  BY <1>7, CondWakes, LockAsyncMutex
<1>8. ASSUME NEW t \in Thread, NEW b \in Barrier, BarrierWait(t, b) PROVE MutexInv'
  <2>0. Executing(t) /\ UNCHANGED <<owner, mWaiting, held>> BY <1>8 DEF BarrierWait
  <2>1. CASE ResumeThreads(ToSet(bWaiting[b]))
    <3>1. blocked' = blocked \ ToSet(bWaiting[b]) /\ pending' = pending BY <2>1 DEF ResumeThreads
    <3> QED BY <2>0, <3>1, OtherReasons, ResumeMutex
  <2>2. CASE StallThread(t, Call("BARRIER", b), {})
    <3>1. /\ pending[t] = NoCall /\ pending' = [pending EXCEPT ![t] = Call("BARRIER", b)]
          /\ blocked' = (blocked \ {}) \cup {t}
      BY <2>0, <2>2 DEF Executing, StallThread
    <3> QED BY <2>0, <3>1, StallMutex
  <2> QED BY <1>8, <2>1, <2>2 DEF BarrierWait
<1>9. ASSUME NEW t \in Thread, Synchronize(t) PROVE MutexInv'
  BY <1>3, <1>4, <1>5, <1>6, <1>7, <1>8, <1>9 DEF Synchronize
<1>10. ASSUME NEW t \in Thread,
              Tick \/ FutexCall(t) \/ SleepCall(t) \/ Spawn(t) \/ Start(t) \/ Join(t) \/ Exit(t)
       PROVE  MutexInv'
  <2>1. UNCHANGED syncVars
    BY <1>10 DEF Tick, FutexCall, SleepCall, Spawn, Start, Join, Exit
  <2> QED BY <1>10, <2>1, OtherMutex
<1>11. CASE Tick BY <1>10, <1>11, ThreadAssumption
<1>12. ASSUME NEW t \in Thread, Return(t) PROVE MutexInv' BY <1>12, ReturnMutex
<1> QED BY <1>2, <1>9, <1>10, <1>11, <1>12 DEF Next

\* Both invariants hold in every run of an orderly program.
LEMMA MutexHolds == Orderly => (Spec => [](QueueInv /\ MutexInv))
<1> SUFFICES ASSUME Orderly PROVE Spec => [](QueueInv /\ MutexInv)
  OBVIOUS
<1>1. QueueInv /\ MutexInv /\ [Next]_vars => QueueInv' /\ MutexInv' BY NextQueue, NextMutex
<1>2. Init => QueueInv /\ MutexInv BY InitQueue, InitMutex
<1> QED BY <1>1, <1>2, PTL DEF Spec

-----------------------------------------------------------------------------
(* Each mutex is a lock with a line.                                        *)

\* A queue is a prefix of what it becomes when others join at its end.
LEMMA PrefixOfConcat ==
    ASSUME NEW S, NEW s \in Seq(S), NEW r \in Seq(S)
    PROVE  IsPrefix(s, s \o r)
<1> DEFINE a == s \o r
<1>1. /\ a \in Seq(S) /\ Len(a) = Len(s) + Len(r) /\ Len(s) \in Nat /\ Len(r) \in Nat
      /\ \A i \in 1 .. Len(s) : a[i] = s[i]
  BY ConcatProperties, LenProperties
<1> HIDE DEF a
<1>2. \A i \in 1 .. Len(s) : s[i] \in S /\ a[i] \in S BY <1>1, LenProperties
<1>3. /\ SubSeq(s, 1, Len(s)) \in Seq(S) /\ SubSeq(a, 1, Len(s)) \in Seq(S)
      /\ Len(SubSeq(s, 1, Len(s))) = Len(s) /\ Len(SubSeq(a, 1, Len(s))) = Len(s)
      /\ \A i \in 1 .. Len(s) : SubSeq(s, 1, Len(s))[i] = s[i] /\ SubSeq(a, 1, Len(s))[i] = a[i]
  BY <1>1, <1>2, SubSeqProperties
<1>4. SubSeq(s, 1, Len(s)) = SubSeq(a, 1, Len(s)) BY <1>1, <1>3, SeqEqual
<1> QED BY <1>1, <1>4 DEF IsPrefix, a

\* The line of a mutex: the owner first, then the queue.
LEMMA SingleFirst ==
    ASSUME NEW S, NEW e \in S, NEW s \in Seq(S)
    PROVE  /\ <<e>> \in Seq(S) /\ <<e>> \o s \in Seq(S) /\ <<e>> \o s # <<>>
           /\ Head(<<e>> \o s) = e /\ Tail(<<e>> \o s) = s
           /\ <<e>> \o <<>> = <<e>>
           /\ IsInjective(s) /\ e \notin ToSet(s) => IsInjective(<<e>> \o s)
           /\ \A r \in Seq(S) : <<e>> \o (s \o r) = (<<e>> \o s) \o r
<1>1. <<e>> \in Seq(S) /\ Len(<<e>>) = 1 /\ <<e>>[1] = e /\ DOMAIN <<e>> = {1} OBVIOUS
<1>2. <<e>> \o s \in Seq(S) /\ Len(<<e>> \o s) = 1 + Len(s) /\ (<<e>> \o s)[1] = e
      /\ \A i \in 1 .. Len(s) : (<<e>> \o s)[i + 1] = s[i]
  BY <1>1, ConcatProperties, LenProperties
<1>3. <<e>> \o s # <<>> BY <1>2, LenProperties
<1>4. Head(<<e>> \o s) = e /\ Tail(<<e>> \o s) = s
  <2> DEFINE a == <<e>> \o s
  <2>1. a \in Seq(S) /\ a # <<>> /\ Len(a) = 1 + Len(s) /\ a[1] = e BY <1>2, <1>3
  <2>2. \A i \in 1 .. Len(s) : a[i + 1] = s[i] BY <1>2
  <2> HIDE DEF a
  <2>3. Head(a) = a[1] /\ Tail(a) \in Seq(S) /\ Len(Tail(a)) = Len(a) - 1
        /\ \A i \in 1 .. Len(Tail(a)) : Tail(a)[i] = a[i + 1]
    BY <2>1, HeadTailProperties
  <2>4. Len(s) \in Nat BY LenProperties
  <2>5. Tail(a) = s BY <2>1, <2>2, <2>3, <2>4, SeqEqual
  <2> QED BY <2>1, <2>3, <2>5 DEF a
<1>5. <<e>> \o <<>> = <<e>> BY <1>1, ConcatEmptySeq
<1>6. ASSUME IsInjective(s), e \notin ToSet(s) PROVE IsInjective(<<e>> \o s)
  <2>1. IsInjective(<<e>>) /\ ToSet(<<e>>) = {e} BY <1>1 DEF IsInjective, ToSet
  <2> QED BY <1>1, <1>6, <2>1, ConcatQueue
<1>7. \A r \in Seq(S) : <<e>> \o (s \o r) = (<<e>> \o s) \o r BY <1>1, ConcatAssociative
<1> QED BY <1>1, <1>2, <1>3, <1>4, <1>5, <1>6, <1>7

\* The line of a mutex holds every thread at most once.
LineInv ==
    /\ LockLine \in [Mutex -> Seq(Thread)]
    /\ \A m \in Mutex : IsInjective(LockLine[m])

\* The owner of a mutex is not in its queue.
LEMMA LineIsQueue == QueueInv /\ MutexInv => LineInv
<1> SUFFICES ASSUME QueueInv, MutexInv PROVE LineInv OBVIOUS
<1>1. ASSUME NEW m \in Mutex
      PROVE  LockLine[m] \in Seq(Thread) /\ IsInjective(LockLine[m])
  <2>1. mWaiting[m] \in Seq(Thread) /\ IsInjective(mWaiting[m]) /\ owner[m] \in Thread \cup {NoThread}
    BY DEF QueueInv, SyncType, SyncOnce
  <2>2. CASE owner[m] = NoThread
    <3>1. LockLine[m] = <<>> BY <2>2 DEF LockLine
    <3> QED BY <3>1 DEF IsInjective
  <2>3. CASE owner[m] # NoThread
    <3>1. LockLine[m] = <<owner[m]>> \o mWaiting[m] BY <2>3 DEF LockLine
    <3>2. owner[m] \notin ToSet(mWaiting[m])
      <4> SUFFICES ASSUME owner[m] \in ToSet(mWaiting[m]) PROVE FALSE OBVIOUS
      <4>1. owner[m] \in blocked BY InLineBlocked DEF QueueInv
      <4>2. WaitsForMutex(owner[m], m) BY DEF QueueInv, Reasons, MutexReason, WaitsForMutex
      <4> QED BY <2>1, <2>3, <4>1, <4>2 DEF MutexInv
    <3> QED BY <2>1, <2>3, <3>1, <3>2, SingleFirst
  <2> QED BY <2>2, <2>3
<1> QED BY <1>1 DEF LockLine, LineInv

\* Threads that join the ends of lines ask for the lock.
LEMMA FifoAsk ==
    ASSUME QueueInv', MutexInv', Inside' = Inside,
           \A m \in Mutex : \E r \in Seq(Thread) : LockLine'[m] = LockLine[m] \o r,
           LockLine \in [Mutex -> Seq(Thread)]
    PROVE  Fifo!Next
<1>0. LineInv' BY LineIsQueue, PTL
<1>1. /\ LockLine' \in [Mutex -> Seq(Thread)]
      /\ \A m \in Mutex : Fifo!IsInjective(LockLine'[m])
  BY <1>0 DEF LineInv, IsInjective, Fifo!IsInjective
<1>2. \A m \in Mutex : IsPrefix(LockLine[m], LockLine'[m]) BY PrefixOfConcat
<1>3. \A m \in Mutex : Fifo!IsPrefix(LockLine[m], LockLine'[m])
  BY <1>2 DEF IsPrefix, Fifo!IsPrefix
<1> QED BY <1>1, <1>3 DEF Fifo!Next, Fifo!Ask

\* SimMutex::lock of a free mutex takes the lock.
LEMMA FifoTake ==
    ASSUME QueueInv, MutexInv, NEW t \in Thread, NEW m \in Mutex, Executing(t), Lock(t, m),
           owner[m] = NoThread
    PROVE  Fifo!Take(m, t)
<1>1. /\ owner' = [owner EXCEPT ![m] = t] /\ held' = [held EXCEPT ![t] = @ \cup {m}]
      /\ mWaiting' = mWaiting
  BY DEF Lock
<1>2. owner \in [Mutex -> Thread \cup {NoThread}] /\ held \in [Thread -> SUBSET Mutex]
  BY DEF QueueInv, SyncType
<1>3. /\ owner'[m] = t /\ \A n \in Mutex : n # m => owner'[n] = owner[n]
      /\ held'[t] = held[t] \cup {m} /\ \A u \in Thread : u # t => held'[u] = held[u]
  BY <1>1, <1>2
<1>4. t # NoThread /\ mWaiting[m] = <<>> /\ \A u \in Thread : m \notin held[u]
  BY ThreadAssumption DEF MutexInv
<1>5. LockLine[m] = <<>> BY DEF LockLine
<1>6. LockLine' = [LockLine EXCEPT ![m] = <<t>>]
  <2>1. LockLine'[m] = <<t>> \o <<>> BY <1>1, <1>3, <1>4 DEF LockLine
  <2>2. <<t>> \o <<>> = <<t>> BY SingleFirst
  <2>3. \A n \in Mutex : n # m => LockLine'[n] = LockLine[n] BY <1>1, <1>3 DEF LockLine
  <2> QED BY <2>1, <2>2, <2>3 DEF LockLine
<1>7. Inside' = [Inside EXCEPT ![m] = {t}]
  <2>1. {u \in Thread : m \in held'[u]} = {t} BY <1>3, <1>4
  <2>2. \A n \in Mutex : n # m =>
          {u \in Thread : n \in held'[u]} = {u \in Thread : n \in held[u]}
    BY <1>3
  <2> QED BY <2>1, <2>2 DEF Inside
<1> QED BY <1>5, <1>6, <1>7 DEF Fifo!Take

\* SimMutex::lock of a taken mutex asks for the lock.
LEMMA FifoWait ==
    ASSUME QueueInv, MutexInv, QueueInv', MutexInv', NEW t \in Thread, NEW m \in Mutex,
           Lock(t, m), owner[m] # NoThread
    PROVE  Fifo!Next
<1>1. /\ mWaiting' = [mWaiting EXCEPT ![m] = Append(@, t)] /\ UNCHANGED <<owner, held>>
  BY DEF Lock
<1>2. mWaiting \in [Mutex -> Seq(Thread)] /\ owner[m] \in Thread BY DEF QueueInv, SyncType
<1>3. mWaiting'[m] = Append(mWaiting[m], t) /\ \A n \in Mutex : n # m => mWaiting'[n] = mWaiting[n]
  BY <1>1, <1>2
<1>4. Inside' = Inside BY <1>1 DEF Inside
<1>5. LockLine \in [Mutex -> Seq(Thread)] BY LineIsQueue DEF LineInv
<1>6. LockLine'[m] = LockLine[m] \o <<t>>
  <2>1. Append(mWaiting[m], t) = mWaiting[m] \o <<t>> BY <1>2, AppendIsConcat
  <2>2. /\ LockLine[m] = <<owner[m]>> \o mWaiting[m]
        /\ LockLine'[m] = <<owner[m]>> \o (mWaiting[m] \o <<t>>)
    BY <1>1, <1>3, <2>1 DEF LockLine
  <2>3. <<t>> \in Seq(Thread) /\ mWaiting[m] \in Seq(Thread) BY <1>2
  <2>4. ASSUME NEW e \in Thread, NEW s \in Seq(Thread), NEW r \in Seq(Thread)
        PROVE  <<e>> \o (s \o r) = (<<e>> \o s) \o r
    BY SingleFirst
  <2>5. <<owner[m]>> \o (mWaiting[m] \o <<t>>) = (<<owner[m]>> \o mWaiting[m]) \o <<t>>
    BY <1>2, <2>3, <2>4
  <2> QED BY <2>2, <2>5, Zenon
<1>7. ASSUME NEW n \in Mutex PROVE \E r \in Seq(Thread) : LockLine'[n] = LockLine[n] \o r
  <2>1. CASE n = m
    <3>1. <<t>> \in Seq(Thread) OBVIOUS
    <3> QED BY <1>6, <2>1, <3>1
  <2>2. CASE n # m
    <3>1. LockLine'[n] = LockLine[n] BY <1>1, <1>3, <2>2 DEF LockLine
    <3>2. LockLine[n] \o <<>> = LockLine[n] BY <1>5, ConcatEmptySeq
    <3>3. <<>> \in Seq(Thread) OBVIOUS
    <3> QED BY <3>1, <3>2, <3>3
  <2> QED BY <2>1, <2>2
<1> QED BY <1>4, <1>5, <1>7, FifoAsk

\* SimMutex::unlock, from mutexUnlock or SimCond::wait, leaves the lock to the next in line.
LEMMA FifoLeave ==
    ASSUME QueueInv, MutexInv, NEW t \in Thread, NEW m \in Mutex, m \in held[t],
           owner' = [owner EXCEPT ![m] = UnlockedOwner(m)],
           mWaiting' = [mWaiting EXCEPT ![m] = UnlockedQueue(m)],
           held' = [held EXCEPT ![t] = @ \ {m}]
    PROVE  Fifo!Leave(m)
<1>1. /\ owner \in [Mutex -> Thread \cup {NoThread}] /\ held \in [Thread -> SUBSET Mutex]
      /\ mWaiting \in [Mutex -> Seq(Thread)]
  BY DEF QueueInv, SyncType
<1>2. /\ owner'[m] = UnlockedOwner(m) /\ \A n \in Mutex : n # m => owner'[n] = owner[n]
      /\ held'[t] = held[t] \ {m} /\ \A u \in Thread : u # t => held'[u] = held[u]
      /\ mWaiting'[m] = UnlockedQueue(m) /\ \A n \in Mutex : n # m => mWaiting'[n] = mWaiting[n]
  BY <1>1
<1>3. owner[m] = t /\ t # NoThread BY ThreadAssumption DEF MutexInv
<1>4. \A u \in Thread : u # t => m \notin held[u] BY <1>3 DEF MutexInv
<1>5. LockLine'[m] = mWaiting[m]
  <2>1. CASE mWaiting[m] = <<>>
    <3>1. owner'[m] = NoThread BY <1>2, <2>1, NextOwner
    <3> QED BY <2>1, <3>1 DEF LockLine
  <2>2. CASE mWaiting[m] # <<>>
    <3>0. /\ UnlockedOwner(m) = Head(mWaiting[m]) /\ UnlockedQueue(m) = Tail(mWaiting[m])
          /\ UnlockedOwner(m) \in Thread
      BY <2>2, NextOwner
    <3>1. /\ owner'[m] = Head(mWaiting[m]) /\ mWaiting'[m] = Tail(mWaiting[m])
          /\ owner'[m] # NoThread
      BY <1>2, <3>0, ThreadAssumption
    <3>2. LockLine'[m] = <<Head(mWaiting[m])>> \o Tail(mWaiting[m]) BY <3>1 DEF LockLine
    <3>3. mWaiting[m] = <<Head(mWaiting[m])>> \o Tail(mWaiting[m])
      BY <1>1, <2>2, HeadTailProperties
    <3> QED BY <3>2, <3>3
  <2> QED BY <2>1, <2>2
<1>6. Tail(LockLine[m]) = mWaiting[m]
  <2>1. LockLine[m] = <<t>> \o mWaiting[m] BY <1>3 DEF LockLine
  <2>2. mWaiting[m] \in Seq(Thread) BY <1>1
  <2> QED BY <2>1, <2>2, SingleFirst
<1>7. LockLine' = [LockLine EXCEPT ![m] = Tail(@)]
  <2>1. \A n \in Mutex : n # m => LockLine'[n] = LockLine[n] BY <1>2 DEF LockLine
  <2> QED BY <1>5, <1>6, <2>1 DEF LockLine
<1>8. Inside[m] # {} BY DEF Inside
<1>9. Inside' = [Inside EXCEPT ![m] = {}]
  <2>1. {u \in Thread : m \in held'[u]} = {} BY <1>2, <1>4
  <2>2. \A n \in Mutex : n # m =>
          {u \in Thread : n \in held'[u]} = {u \in Thread : n \in held[u]}
    BY <1>2
  <2> QED BY <2>1, <2>2 DEF Inside
<1> QED BY <1>7, <1>8, <1>9 DEF Fifo!Leave

\* SimCond::signal and broadcast make the waiters ask for their locks.
LEMMA FifoWake ==
    ASSUME QueueInv, MutexInv, QueueInv', MutexInv', NEW ws \in Seq(CondWaiter), OnceEach(ws),
           LockAsync(ws), UNCHANGED held
    PROVE  Fifo!Next
<1>1. /\ owner' = [m \in Mutex |-> IF m \in Freed(ws) THEN Head(WokenThreads(ws, m)) ELSE owner[m]]
      /\ mWaiting' = [m \in Mutex |-> mWaiting[m] \o Queued(ws, m)]
  BY DEF LockAsync, Queued
<1>2. Inside' = Inside BY DEF Inside
<1>3. LockLine \in [Mutex -> Seq(Thread)] BY LineIsQueue DEF LineInv
<1>4. ASSUME NEW m \in Mutex PROVE \E r \in Seq(Thread) : LockLine'[m] = LockLine[m] \o r
  <2>1. /\ Queued(ws, m) \in Seq(Thread)
        /\ m \in Freed(ws) => Head(WokenThreads(ws, m)) \in Thread
    BY AsyncParts
  <2>2. mWaiting[m] \in Seq(Thread) /\ owner[m] \in Thread \cup {NoThread} BY DEF QueueInv, SyncType
  <2>3. mWaiting'[m] = mWaiting[m] \o Queued(ws, m) BY <1>1
  <2>4. CASE m \in Freed(ws)
    <3>1. owner[m] = NoThread BY <2>4 DEF Freed
    <3>2. mWaiting[m] = <<>> BY <3>1 DEF MutexInv
    <3>3. mWaiting'[m] = Queued(ws, m) BY <2>1, <2>3, <3>2, ConcatEmptySeq
    <3>4. owner'[m] = Head(WokenThreads(ws, m)) /\ owner'[m] \in Thread BY <1>1, <2>1, <2>4
    <3>5. LockLine[m] = <<>> /\ LockLine'[m] = <<owner'[m]>> \o Queued(ws, m)
      BY <3>1, <3>3, <3>4, ThreadAssumption DEF LockLine
    <3>6. LockLine'[m] \in Seq(Thread) BY <2>1, <3>4, <3>5, SingleFirst
    <3>7. LockLine'[m] = LockLine[m] \o LockLine'[m] BY <3>5, <3>6, ConcatEmptySeq
    <3> QED BY <3>6, <3>7
  <2>5. CASE m \notin Freed(ws) /\ owner[m] # NoThread
    <3>1. owner'[m] = owner[m] BY <1>1, <2>5
    <3>2. /\ LockLine[m] = <<owner[m]>> \o mWaiting[m]
          /\ LockLine'[m] = <<owner[m]>> \o (mWaiting[m] \o Queued(ws, m))
      BY <2>3, <2>5, <3>1 DEF LockLine
    <3>3. owner[m] \in Thread /\ mWaiting[m] \in Seq(Thread) /\ Queued(ws, m) \in Seq(Thread)
      BY <2>1, <2>2, <2>5
    <3>4. <<owner[m]>> \o (mWaiting[m] \o Queued(ws, m))
            = (<<owner[m]>> \o mWaiting[m]) \o Queued(ws, m)
      <4> DEFINE o == <<owner[m]>>
      <4>1. o \in Seq(Thread) BY <3>3
      <4> HIDE DEF o
      <4>0. ASSUME NEW a \in Seq(Thread), NEW b \in Seq(Thread), NEW d \in Seq(Thread)
            PROVE  a \o (b \o d) = (a \o b) \o d
        BY ConcatAssociative
      <4>2. o \o (mWaiting[m] \o Queued(ws, m)) = (o \o mWaiting[m]) \o Queued(ws, m)
        BY <3>3, <4>0, <4>1, Zenon
      <4> QED BY <4>2 DEF o
    <3>5. LockLine'[m] = LockLine[m] \o Queued(ws, m) BY <3>2, <3>3, <3>4
    <3> QED BY <2>1, <3>5
  <2>6. CASE m \notin Freed(ws) /\ owner[m] = NoThread
    <3>1. owner'[m] = NoThread BY <1>1, <2>6
    <3>2. LockLine[m] = <<>> /\ LockLine'[m] = <<>> BY <2>6, <3>1 DEF LockLine
    <3>3. <<>> \o <<>> = <<>> /\ <<>> \in Seq(Thread) BY ConcatEmptySeq
    <3> QED BY <3>2, <3>3
  <2> QED BY <2>4, <2>5, <2>6
<1> QED BY <1>2, <1>3, <1>4, FifoAsk

\* mutexLock or condWait comes back: the head of the line is let in.
LEMMA FifoReturn ==
    ASSUME QueueInv, MutexInv, NEW t \in Thread, Return(t)
    PROVE  Fifo!Next \/ UNCHANGED Fifo!lockVars
<1>1. /\ t \notin blocked /\ UNCHANGED <<owner, mWaiting>>
      /\ held' = [held EXCEPT ![t] = @ \cup
           IF pending[t].reason \in {"MUTEX", "COND"} THEN {pending[t].object} ELSE {}]
  BY DEF Return, ReturnHolding, ReturnFromCall
<1>2. held \in [Thread -> SUBSET Mutex] /\ pending[t] \in CallSet BY DEF QueueInv, SyncType, ThreadType
<1>3. LockLine' = LockLine BY <1>1 DEF LockLine
<1>4. CASE pending[t].reason \in {"MUTEX", "COND"}
  <2>1. PICK m \in Mutex : pending[t].object = m BY <1>2, <1>4 DEF CallSet, NoCall
  <2>2. WaitsForMutex(t, m) BY <1>4, <2>1 DEF WaitsForMutex
  <2>3. owner[m] = t /\ m \notin held[t] BY <1>1, <2>2 DEF MutexInv
  <2>4. \A u \in Thread : m \notin held[u] BY <2>3 DEF MutexInv
  <2>5. held'[t] = held[t] \cup {m} /\ \A u \in Thread : u # t => held'[u] = held[u]
    BY <1>1, <1>2, <1>4, <2>1
  <2>6. LockLine[m] = <<t>> \o mWaiting[m] /\ mWaiting[m] \in Seq(Thread)
    BY <2>3, ThreadAssumption DEF LockLine, QueueInv, SyncType
  <2>7. LockLine[m] # <<>> /\ Head(LockLine[m]) = t BY <2>6, SingleFirst
  <2>8. Inside[m] = {} BY <2>4 DEF Inside
  <2>9. Inside' = [Inside EXCEPT ![m] = {t}]
    <3>1. {u \in Thread : m \in held'[u]} = {t} BY <2>4, <2>5
    <3>2. \A n \in Mutex : n # m =>
            {u \in Thread : n \in held'[u]} = {u \in Thread : n \in held[u]}
      BY <2>5
    <3> QED BY <3>1, <3>2 DEF Inside
  <2>10. Fifo!Admit(m) BY <1>3, <2>7, <2>8, <2>9 DEF Fifo!Admit
  <2> QED BY <2>10 DEF Fifo!Next
<1>5. CASE pending[t].reason \notin {"MUTEX", "COND"}
  <2>1. held' = held BY <1>1, <1>2, <1>5
  <2> QED BY <1>3, <2>1 DEF Inside, Fifo!lockVars
<1> QED BY <1>4, <1>5

\* Every step is a step of the lock with a line, or none.
LEMMA FifoStep ==
    ASSUME QueueInv, MutexInv, QueueInv', MutexInv', Orderly, [Next]_vars
    PROVE  Fifo!Next \/ UNCHANGED Fifo!lockVars
<1>1. ASSUME UNCHANGED <<owner, mWaiting, held>> PROVE UNCHANGED Fifo!lockVars
  BY <1>1 DEF Fifo!lockVars, LockLine, Inside
<1>2. ASSUME UNCHANGED syncVars PROVE UNCHANGED Fifo!lockVars BY <1>1, <1>2 DEF syncVars
<1>3. CASE UNCHANGED vars \/ Tick BY <1>2, <1>3 DEF vars, Tick
<1>4. ASSUME NEW t \in Thread, NEW m \in Mutex, MutexLock(t, m) PROVE Fifo!Next
  <2>1. Executing(t) /\ Lock(t, m) BY <1>4 DEF MutexLock
  <2>2. CASE owner[m] = NoThread BY <2>1, <2>2, FifoTake DEF Fifo!Next
  <2>3. CASE owner[m] # NoThread BY <2>1, <2>3, FifoWait
  <2> QED BY <2>2, <2>3
<1>5. ASSUME NEW t \in Thread, NEW m \in Mutex, MutexTrylock(t, m)
      PROVE  Fifo!Next \/ UNCHANGED Fifo!lockVars
  <2>1. CASE IsLocked(m, t) BY <1>2, <1>5, <2>1 DEF MutexTrylock
  <2>2. CASE ~IsLocked(m, t)
    <3>1. Fifo!Take(m, t) BY <1>5, <2>2, TrylockTakes, FifoTake
    <3> QED BY <3>1 DEF Fifo!Next
  <2> QED BY <2>1, <2>2
<1>6. ASSUME NEW t \in Thread, NEW m \in Mutex, MutexUnlock(t, m) PROVE Fifo!Next
  <2>1. Fifo!Leave(m) BY <1>6, FifoLeave DEF MutexUnlock
  <2> QED BY <2>1 DEF Fifo!Next
<1>7. ASSUME NEW t \in Thread, NEW c \in Cond, NEW m \in Mutex, CondWait(t, c, m) PROVE Fifo!Next
  <2>1. Fifo!Leave(m) BY <1>7, FifoLeave DEF CondWait
  <2> QED BY <2>1 DEF Fifo!Next
<1>8. ASSUME NEW t \in Thread, NEW c \in Cond, CondSignal(t, c) \/ CondBroadcast(t, c)
      PROVE  Fifo!Next
  BY <1>8, CondWakes, FifoWake
<1>9. ASSUME NEW t \in Thread, NEW b \in Barrier, BarrierWait(t, b) PROVE UNCHANGED Fifo!lockVars
  BY <1>1, <1>9 DEF BarrierWait
<1>10. ASSUME NEW t \in Thread, Synchronize(t) PROVE Fifo!Next \/ UNCHANGED Fifo!lockVars
  BY <1>4, <1>5, <1>6, <1>7, <1>8, <1>9, <1>10 DEF Synchronize
<1>11. ASSUME NEW t \in Thread,
              FutexCall(t) \/ SleepCall(t) \/ Spawn(t) \/ Start(t) \/ Join(t) \/ Exit(t)
       PROVE  UNCHANGED Fifo!lockVars
  <2>1. UNCHANGED syncVars BY <1>11 DEF FutexCall, SleepCall, Spawn, Start, Join, Exit
  <2> QED BY <1>2, <2>1
<1>12. ASSUME NEW t \in Thread, Return(t) PROVE Fifo!Next \/ UNCHANGED Fifo!lockVars
  BY <1>12, FifoReturn
<1> QED BY <1>3, <1>10, <1>11, <1>12 DEF Next

\* Whatever else the program does with conditions, barriers, futexes, sleeps and joins, each SimMutex
\* is a lock that admits one thread at a time, in the order in which they asked.
THEOREM MutexIsFifoSafely == Orderly => (Spec => Fifo!Safety)
<1> SUFFICES ASSUME Orderly PROVE Spec => Fifo!Safety
  OBVIOUS
<1>1. Spec => [](QueueInv /\ MutexInv) BY MutexHolds
<1>2. Init => Fifo!Init
  BY DEF Init, SyncInit, Fifo!Init, LockLine, Inside
<1>3. QueueInv /\ MutexInv /\ QueueInv' /\ MutexInv' /\ [Next]_vars => [Fifo!Next]_(Fifo!lockVars)
  BY FifoStep
<1> QED BY <1>1, <1>2, <1>3, PTL DEF Spec, Fifo!Safety
=============================================================================
