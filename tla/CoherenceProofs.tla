--------------------------- MODULE CoherenceProofs --------------------------
EXTENDS CoherenceInvariant, TLAPS, FiniteSetTheorems, WellFoundedInduction
-----------------------------------------------------------------------------
(***************************************************************************)
(* Steps that keep the invariant, for one cache and one line.  Each lemma  *)
(* is one thing that the code does to an entry, a line or a channel; the   *)
(* packets of other lines in the same channels are abstracted by Appended  *)
(* and Removed.                                                            *)
(***************************************************************************)

-----------------------------------------------------------------------------
(* Channels and queues.                                                     *)

\* Channel s1 is s with packets of types T for line a at its end, as far as line a can tell.
Appended(s, s1, a, T) ==
    /\ \A u : Has(s1, a, u) <=> Has(s, a, u) \/ u \in T
    /\ \A u, v : After(s1, a, u, v) <=> After(s, a, u, v) \/ (Has(s, a, u) /\ v \in T)
    /\ \A u, v, w : After3(s1, a, u, v, w)
                      <=> After3(s, a, u, v, w) \/ (After(s, a, u, v) /\ w \in T)

\* Channel s is s1 with packets of types T for line a in front, as far as line a can tell.
Removed(s, s1, a, T) ==
    /\ \A u : Has(s, a, u) <=> Has(s1, a, u) \/ u \in T
    /\ \A u, v : After(s, a, u, v) <=> After(s1, a, u, v) \/ (u \in T /\ Has(s1, a, v))
    /\ \A u, v, w : After3(s, a, u, v, w)
                      <=> After3(s1, a, u, v, w) \/ (u \in T /\ After(s1, a, v, w))

\* The types for line a of packet m.
TypeAt(m, a) == IF m.addr = a THEN {m.type} ELSE {}

\* A channel that does not change has had nothing appended.
LEMMA AppendedSame == ASSUME NEW s, NEW a PROVE Appended(s, s, a, {})
  BY DEF Appended

\* A channel that does not change has had nothing removed.
LEMMA RemovedSame == ASSUME NEW s, NEW a PROVE Removed(s, s, a, {})
  BY DEF Removed

\* sendMsg: the packet joins the end of its channel, and changes it for its own line only.
LEMMA AppendStep ==
    ASSUME NEW S, NEW s \in Seq(S), NEW m \in S, NEW a
    PROVE  Appended(s, Append(s, m), a, TypeAt(m, a))
<1> DEFINE s1 == Append(s, m)
           N == Len(s)
<1>1. /\ N \in Nat /\ Len(s1) = N + 1
      /\ \A i \in 1 .. N : s1[i] = s[i]
      /\ s1[N + 1] = m
  OBVIOUS
<1>2. \A i : i \in 1 .. N + 1 <=> i \in 1 .. N \/ i = N + 1
  BY <1>1
<1>5. \A u : u \in TypeAt(m, a) <=> Is(m, a, u)
  BY DEF TypeAt, Is
<1> HIDE DEF s1, N
<1>3. \A u, i : i \in 1 .. N => (Is(s1[i], a, u) <=> Is(s[i], a, u))
  BY <1>1
<1>4. \A u : Is(s1[N + 1], a, u) <=> u \in TypeAt(m, a)
  BY <1>1, <1>5
<1>6. ASSUME NEW u PROVE Has(s1, a, u) <=> Has(s, a, u) \/ u \in TypeAt(m, a)
  BY <1>1, <1>2, <1>3, <1>4 DEF Has, N
<1>7. ASSUME NEW u, NEW v
      PROVE  After(s1, a, u, v) <=> After(s, a, u, v) \/ (Has(s, a, u) /\ v \in TypeAt(m, a))
  <2>1. ASSUME After(s1, a, u, v) PROVE After(s, a, u, v) \/ (Has(s, a, u) /\ v \in TypeAt(m, a))
    <3>1. PICK i, j \in 1 .. N + 1 : i < j /\ Is(s1[i], a, u) /\ Is(s1[j], a, v)
      BY <2>1, <1>1 DEF After
    <3>2. i \in 1 .. N
      BY <3>1, <1>1
    <3>3. CASE j = N + 1
      BY <3>1, <3>2, <3>3, <1>3, <1>4 DEF Has, N
    <3>4. CASE j \in 1 .. N
      BY <3>1, <3>2, <3>4, <1>3 DEF After, N
    <3> QED BY <3>3, <3>4, <1>2
  <2>2. ASSUME After(s, a, u, v) PROVE After(s1, a, u, v)
    <3>1. PICK i, j \in 1 .. N : i < j /\ Is(s[i], a, u) /\ Is(s[j], a, v)
      BY <2>2 DEF After, N
    <3> QED BY <3>1, <1>1, <1>2, <1>3 DEF After
  <2>3. ASSUME Has(s, a, u), v \in TypeAt(m, a) PROVE After(s1, a, u, v)
    <3>1. PICK i \in 1 .. N : Is(s[i], a, u)
      BY <2>3 DEF Has, N
    <3>2. i < N + 1 /\ i \in 1 .. N + 1 /\ N + 1 \in 1 .. N + 1
      BY <1>1
    <3> QED BY <3>1, <3>2, <2>3, <1>1, <1>3, <1>4 DEF After
  <2> QED BY <2>1, <2>2, <2>3
<1>8. ASSUME NEW u, NEW v, NEW w
      PROVE  After3(s1, a, u, v, w)
               <=> After3(s, a, u, v, w) \/ (After(s, a, u, v) /\ w \in TypeAt(m, a))
  <2>1. ASSUME After3(s1, a, u, v, w)
        PROVE  After3(s, a, u, v, w) \/ (After(s, a, u, v) /\ w \in TypeAt(m, a))
    <3>1. PICK i, j, k \in 1 .. N + 1 :
             i < j /\ j < k /\ Is(s1[i], a, u) /\ Is(s1[j], a, v) /\ Is(s1[k], a, w)
      BY <2>1, <1>1 DEF After3
    <3>2. i \in 1 .. N /\ j \in 1 .. N
      BY <3>1, <1>1
    <3>3. CASE k = N + 1
      BY <3>1, <3>2, <3>3, <1>3, <1>4 DEF After, N
    <3>4. CASE k \in 1 .. N
      BY <3>1, <3>2, <3>4, <1>3 DEF After3, N
    <3> QED BY <3>3, <3>4, <1>2
  <2>2. ASSUME After3(s, a, u, v, w) PROVE After3(s1, a, u, v, w)
    <3>1. PICK i, j, k \in 1 .. N :
             i < j /\ j < k /\ Is(s[i], a, u) /\ Is(s[j], a, v) /\ Is(s[k], a, w)
      BY <2>2 DEF After3, N
    <3> QED BY <3>1, <1>1, <1>2, <1>3 DEF After3
  <2>3. ASSUME After(s, a, u, v), w \in TypeAt(m, a) PROVE After3(s1, a, u, v, w)
    <3>1. PICK i, j \in 1 .. N : i < j /\ Is(s[i], a, u) /\ Is(s[j], a, v)
      BY <2>3 DEF After, N
    <3>2. j < N + 1 /\ i \in 1 .. N + 1 /\ j \in 1 .. N + 1 /\ N + 1 \in 1 .. N + 1
      BY <1>1
    <3> QED BY <3>1, <3>2, <2>3, <1>1, <1>3, <1>4 DEF After3
  <2> QED BY <2>1, <2>2, <2>3
<1> QED BY <1>6, <1>7, <1>8 DEF Appended, s1

\* handleMsgFromNetwork takes the first packet of a channel; nothing of its line was before it.
LEMMA TailStep ==
    ASSUME NEW S, NEW s \in Seq(S), s # <<>>, NEW a
    PROVE  Removed(s, Tail(s), a, TypeAt(Head(s), a))
<1> DEFINE s1 == Tail(s)
           h == Head(s)
           N == Len(s1)
<1>1. /\ N \in Nat /\ Len(s) = N + 1
      /\ \A i \in 1 .. N : s1[i] = s[i + 1]
      /\ s[1] = h
  OBVIOUS
<1>2. /\ 1 \in 1 .. N + 1
      /\ \A i \in 1 .. N : i + 1 \in 1 .. N + 1 /\ 1 < i + 1
      /\ \A i \in 1 .. N + 1 : i = 1 \/ (i - 1 \in 1 .. N /\ (i - 1) + 1 = i)
      /\ \A i, j \in 1 .. N : i < j <=> i + 1 < j + 1
      /\ \A i, j \in 1 .. N + 1 : i < j => j # 1 /\ (i # 1 => i - 1 < j - 1)
  BY <1>1
<1>5. \A u : u \in TypeAt(h, a) <=> Is(h, a, u)
  BY DEF TypeAt, Is
<1> HIDE DEF s1, N, h
<1>3. \A u, i : i \in 1 .. N => (Is(s1[i], a, u) <=> Is(s[i + 1], a, u))
  BY <1>1
<1>4. \A u : Is(s[1], a, u) <=> u \in TypeAt(h, a)
  BY <1>1, <1>5
<1>0. \A u, i : i \in 1 .. N + 1 /\ i # 1 => (Is(s1[i - 1], a, u) <=> Is(s[i], a, u))
  BY <1>2, <1>3
<1>6. ASSUME NEW u PROVE Has(s, a, u) <=> Has(s1, a, u) \/ u \in TypeAt(h, a)
  <2>1. ASSUME Has(s, a, u) PROVE Has(s1, a, u) \/ u \in TypeAt(h, a)
    <3>1. PICK i \in 1 .. N + 1 : Is(s[i], a, u)
      BY <2>1, <1>1 DEF Has
    <3>2. CASE i = 1
      BY <3>1, <3>2, <1>4
    <3>3. CASE i # 1
      BY <3>1, <3>3, <1>0, <1>2 DEF Has, N
    <3> QED BY <3>2, <3>3
  <2>2. ASSUME Has(s1, a, u) PROVE Has(s, a, u)
    BY <2>2, <1>1, <1>2, <1>3 DEF Has, N
  <2>3. ASSUME u \in TypeAt(h, a) PROVE Has(s, a, u)
    BY <2>3, <1>1, <1>2, <1>4 DEF Has
  <2> QED BY <2>1, <2>2, <2>3
<1>7. ASSUME NEW u, NEW v
      PROVE  After(s, a, u, v) <=> After(s1, a, u, v) \/ (u \in TypeAt(h, a) /\ Has(s1, a, v))
  <2>1. ASSUME After(s, a, u, v)
        PROVE  After(s1, a, u, v) \/ (u \in TypeAt(h, a) /\ Has(s1, a, v))
    <3>1. PICK i, j \in 1 .. N + 1 : i < j /\ Is(s[i], a, u) /\ Is(s[j], a, v)
      BY <2>1, <1>1 DEF After
    <3>4. j - 1 \in 1 .. N /\ Is(s1[j - 1], a, v)
      BY <3>1, <1>2, <1>0
    <3>2. CASE i = 1
      BY <3>1, <3>2, <3>4, <1>4 DEF Has, N
    <3>3. CASE i # 1
      <4>1. i - 1 \in 1 .. N /\ i - 1 < j - 1 /\ Is(s1[i - 1], a, u)
        BY <3>1, <3>3, <1>2, <1>0
      <4> QED BY <4>1, <3>4 DEF After, N
    <3> QED BY <3>2, <3>3
  <2>2. ASSUME After(s1, a, u, v) PROVE After(s, a, u, v)
    <3>1. PICK i, j \in 1 .. N : i < j /\ Is(s1[i], a, u) /\ Is(s1[j], a, v)
      BY <2>2 DEF After, N
    <3> QED BY <3>1, <1>1, <1>2, <1>3 DEF After
  <2>3. ASSUME u \in TypeAt(h, a), Has(s1, a, v) PROVE After(s, a, u, v)
    <3>1. PICK j \in 1 .. N : Is(s1[j], a, v)
      BY <2>3 DEF Has, N
    <3> QED BY <3>1, <2>3, <1>1, <1>2, <1>3, <1>4 DEF After
  <2> QED BY <2>1, <2>2, <2>3
<1>8. ASSUME NEW u, NEW v, NEW w
      PROVE  After3(s, a, u, v, w)
               <=> After3(s1, a, u, v, w) \/ (u \in TypeAt(h, a) /\ After(s1, a, v, w))
  <2>1. ASSUME After3(s, a, u, v, w)
        PROVE  After3(s1, a, u, v, w) \/ (u \in TypeAt(h, a) /\ After(s1, a, v, w))
    <3>1. PICK i, j, k \in 1 .. N + 1 :
             i < j /\ j < k /\ Is(s[i], a, u) /\ Is(s[j], a, v) /\ Is(s[k], a, w)
      BY <2>1, <1>1 DEF After3
    <3>4. /\ j - 1 \in 1 .. N /\ Is(s1[j - 1], a, v)
          /\ k - 1 \in 1 .. N /\ Is(s1[k - 1], a, w)
          /\ j - 1 < k - 1
      BY <3>1, <1>2, <1>0
    <3>2. CASE i = 1
      BY <3>1, <3>2, <3>4, <1>4 DEF After, N
    <3>3. CASE i # 1
      <4>1. i - 1 \in 1 .. N /\ i - 1 < j - 1 /\ Is(s1[i - 1], a, u)
        BY <3>1, <3>3, <1>2, <1>0
      <4> QED BY <4>1, <3>4 DEF After3, N
    <3> QED BY <3>2, <3>3
  <2>2. ASSUME After3(s1, a, u, v, w) PROVE After3(s, a, u, v, w)
    <3>1. PICK i, j, k \in 1 .. N :
             i < j /\ j < k /\ Is(s1[i], a, u) /\ Is(s1[j], a, v) /\ Is(s1[k], a, w)
      BY <2>2 DEF After3, N
    <3>2. /\ i + 1 \in 1 .. N + 1 /\ j + 1 \in 1 .. N + 1 /\ k + 1 \in 1 .. N + 1
          /\ i + 1 < j + 1 /\ j + 1 < k + 1
      BY <3>1, <1>2
    <3>3. Is(s[i + 1], a, u) /\ Is(s[j + 1], a, v) /\ Is(s[k + 1], a, w)
      BY <3>1, <1>3
    <3> QED BY <3>2, <3>3, <1>1, <1>2 DEF After3
  <2>3. ASSUME u \in TypeAt(h, a), After(s1, a, v, w) PROVE After3(s, a, u, v, w)
    <3>1. PICK j, k \in 1 .. N : j < k /\ Is(s1[j], a, v) /\ Is(s1[k], a, w)
      BY <2>3 DEF After, N
    <3>2. 1 < j + 1 /\ j + 1 < k + 1 /\ j + 1 \in 1 .. N + 1 /\ k + 1 \in 1 .. N + 1
      BY <3>1, <1>2
    <3>3. Is(s[1], a, u) /\ Is(s[j + 1], a, v) /\ Is(s[k + 1], a, w)
      BY <3>1, <2>3, <1>3, <1>4
    <3> QED BY <3>2, <3>3, <1>1, <1>2 DEF After3
  <2> QED BY <2>1, <2>2, <2>3
<1> QED BY <1>6, <1>7, <1>8 DEF Removed, s1, h
\* r1 is the queue r with the request q at its end.
QAppended(r, r1, n, q) ==
    /\ \A u : QHas(r1, n, u) <=> QHas(r, n, u) \/ (q.requester = n /\ q.type = u)
    /\ QAny(r1, n) <=> QAny(r, n) \/ q.requester = n
    /\ QTwice(r1, n) <=> QTwice(r, n) \/ (q.requester = n /\ QAny(r, n))

\* enqueue puts a request at the end of the queue of its line.
LEMMA QAppendStep ==
    ASSUME NEW S, NEW r \in Seq(S), NEW q \in S, NEW n
    PROVE  QAppended(r, Append(r, q), n, q)
<1> DEFINE r1 == Append(r, q)
           N == Len(r)
<1>1. /\ N \in Nat /\ Len(r1) = N + 1
      /\ \A i \in 1 .. N : r1[i] = r[i]
      /\ r1[N + 1] = q
  OBVIOUS
<1>2. /\ \A i : i \in 1 .. N + 1 <=> i \in 1 .. N \/ i = N + 1
      /\ \A i \in 1 .. N : i < N + 1
      /\ \A i, j \in 1 .. N + 1 : i < j => i \in 1 .. N
  BY <1>1
<1> HIDE DEF r1, N
<1>3. ASSUME NEW u
      PROVE  QHas(r1, n, u) <=> QHas(r, n, u) \/ (q.requester = n /\ q.type = u)
  BY <1>1, <1>2 DEF QHas, N
<1>4. QAny(r1, n) <=> QAny(r, n) \/ q.requester = n
  BY <1>1, <1>2 DEF QAny, N
<1>5. QTwice(r1, n) <=> QTwice(r, n) \/ (q.requester = n /\ QAny(r, n))
  <2>1. ASSUME QTwice(r1, n) PROVE QTwice(r, n) \/ (q.requester = n /\ QAny(r, n))
    <3>1. PICK i, j \in 1 .. N + 1 : i < j /\ r1[i].requester = n /\ r1[j].requester = n
      BY <2>1, <1>1 DEF QTwice
    <3>2. i \in 1 .. N /\ r[i].requester = n
      BY <3>1, <1>1, <1>2
    <3>3. CASE j = N + 1
      BY <3>1, <3>2, <3>3, <1>1 DEF QAny, N
    <3>4. CASE j \in 1 .. N
      BY <3>1, <3>2, <3>4, <1>1 DEF QTwice, N
    <3> QED BY <3>3, <3>4, <1>2
  <2>2. ASSUME QTwice(r, n) PROVE QTwice(r1, n)
    BY <2>2, <1>1, <1>2 DEF QTwice, N
  <2>3. ASSUME q.requester = n, QAny(r, n) PROVE QTwice(r1, n)
    BY <2>3, <1>1, <1>2 DEF QTwice, QAny, N
  <2> QED BY <2>1, <2>2, <2>3
<1> QED BY <1>3, <1>4, <1>5 DEF QAppended, r1

\* r is the queue r1 with the request q in front.
QRemoved(r, r1, n, q) ==
    /\ \A u : QHas(r, n, u) <=> QHas(r1, n, u) \/ (q.requester = n /\ q.type = u)
    /\ QAny(r, n) <=> QAny(r1, n) \/ q.requester = n
    /\ QTwice(r, n) <=> QTwice(r1, n) \/ (q.requester = n /\ QAny(r1, n))

\* dequeue takes the current request from the queue; the rest of the queue stays.
LEMMA QTailStep ==
    ASSUME NEW S, NEW r \in Seq(S), r # <<>>, NEW n
    PROVE  QRemoved(r, Tail(r), n, Head(r))
<1> DEFINE r1 == Tail(r)
           q == Head(r)
           N == Len(r1)
<1>1. /\ N \in Nat /\ Len(r) = N + 1
      /\ \A i \in 1 .. N : r1[i] = r[i + 1]
      /\ r[1] = q
  OBVIOUS
<1>2. /\ 1 \in 1 .. N + 1
      /\ \A i \in 1 .. N : i + 1 \in 1 .. N + 1 /\ 1 < i + 1
      /\ \A i \in 1 .. N + 1 : i = 1 \/ (i - 1 \in 1 .. N /\ (i - 1) + 1 = i)
      /\ \A i, j \in 1 .. N : i < j <=> i + 1 < j + 1
      /\ \A i, j \in 1 .. N + 1 : i < j => j # 1 /\ (i # 1 => i - 1 < j - 1)
  BY <1>1
<1> HIDE DEF r1, N, q
<1>0. \A i \in 1 .. N + 1 : i # 1 => r1[i - 1] = r[i]
  BY <1>1, <1>2
<1>3. ASSUME NEW u
      PROVE  QHas(r, n, u) <=> QHas(r1, n, u) \/ (q.requester = n /\ q.type = u)
  <2>1. ASSUME QHas(r, n, u) PROVE QHas(r1, n, u) \/ (q.requester = n /\ q.type = u)
    BY <2>1, <1>0, <1>1, <1>2 DEF QHas, N
  <2>2. ASSUME QHas(r1, n, u) PROVE QHas(r, n, u)
    BY <2>2, <1>1, <1>2 DEF QHas, N
  <2>3. ASSUME q.requester = n /\ q.type = u PROVE QHas(r, n, u)
    BY <2>3, <1>1, <1>2 DEF QHas, N
  <2> QED BY <2>1, <2>2, <2>3
<1>4. QAny(r, n) <=> QAny(r1, n) \/ q.requester = n
  <2>1. ASSUME QAny(r, n) PROVE QAny(r1, n) \/ q.requester = n
    BY <2>1, <1>0, <1>1, <1>2 DEF QAny, N
  <2>2. ASSUME QAny(r1, n) PROVE QAny(r, n)
    BY <2>2, <1>1, <1>2 DEF QAny, N
  <2>3. ASSUME q.requester = n PROVE QAny(r, n)
    BY <2>3, <1>1, <1>2 DEF QAny, N
  <2> QED BY <2>1, <2>2, <2>3
<1>5. QTwice(r, n) <=> QTwice(r1, n) \/ (q.requester = n /\ QAny(r1, n))
  <2>1. ASSUME QTwice(r, n) PROVE QTwice(r1, n) \/ (q.requester = n /\ QAny(r1, n))
    <3>1. PICK i, j \in 1 .. N + 1 : i < j /\ r[i].requester = n /\ r[j].requester = n
      BY <2>1, <1>1 DEF QTwice
    <3>2. j - 1 \in 1 .. N /\ r1[j - 1].requester = n
      BY <3>1, <1>0, <1>2
    <3>3. CASE i = 1
      BY <3>1, <3>2, <3>3, <1>1 DEF QAny, N
    <3>4. CASE i # 1
      <4>1. i - 1 \in 1 .. N /\ i - 1 < j - 1 /\ r1[i - 1].requester = n
        BY <3>1, <3>4, <1>0, <1>2
      <4> QED BY <4>1, <3>2 DEF QTwice, N
    <3> QED BY <3>3, <3>4
  <2>2. ASSUME QTwice(r1, n) PROVE QTwice(r, n)
    <3>1. PICK i, j \in 1 .. N : i < j /\ r1[i].requester = n /\ r1[j].requester = n
      BY <2>2 DEF QTwice, N
    <3> QED BY <3>1, <1>1, <1>2 DEF QTwice
  <2>3. ASSUME q.requester = n, QAny(r1, n) PROVE QTwice(r, n)
    <3>1. PICK j \in 1 .. N : r1[j].requester = n
      BY <2>3 DEF QAny, N
    <3> QED BY <3>1, <2>3, <1>1, <1>2 DEF QTwice
  <2> QED BY <2>1, <2>2, <2>3
<1> QED BY <1>3, <1>4, <1>5 DEF QRemoved, r1, q
\* A pair is made of its members.
LEMMA ChannelOrder ==
    /\ \A s, a, t, u : After(s, a, t, u) => Has(s, a, t) /\ Has(s, a, u)
    /\ \A s, a, t, u, v : After3(s, a, t, u, v) => After(s, a, t, u) /\ After(s, a, u, v)
<1>1. ASSUME NEW s, NEW a, NEW t, NEW u, After(s, a, t, u)
      PROVE  Has(s, a, t) /\ Has(s, a, u)
  BY <1>1 DEF After, Has
<1>2. ASSUME NEW s, NEW a, NEW t, NEW u, NEW v, After3(s, a, t, u, v)
      PROVE  After(s, a, t, u) /\ After(s, a, u, v)
  BY <1>2 DEF After, After3
<1> QED BY <1>1, <1>2

\* A cache with a request of some type in a queue has a request in it.
LEMMA QueueMember == \A r, n, t : QHas(r, n, t) => QAny(r, n)
BY DEF QHas, QAny

\* There is no packet in an empty channel.
LEMMA EmptyChannel ==
    ASSUME NEW a, NEW t PROVE ~Has(<<>>, a, t)
BY DEF Has

\* There is no request in an empty queue.
LEMMA EmptyQueue ==
    ASSUME NEW n PROVE ~QAny(<<>>, n) /\ ~QTwice(<<>>, n)
BY DEF QAny, QTwice

-----------------------------------------------------------------------------
(* Steps of the cache.                                                      *)

USE DEF NodeInv, CopyKnown, OneCopy, OneAsk, LineOK, ToCacheOK, ToDirOK, QueuedOK,
        Valid, Queued, HasData, HasReply, GaveUp, Asked, Live, LiveTwice, Appended, Removed, Readable

\* A write to a line the cache owns makes it MODIFIED.
LEMMA WriteHitStep ==
    ASSUME NEW n, NEW a, NEW e, NEW mode, NEW q, NEW r, NEW l, NEW w, NEW s, NEW d,
           NEW l1, NEW dr,
           NodeInv(n, a, e, mode, q, r, l, w, dr, s, d),
           l.cstate \in {"EXCLUSIVE", "MODIFIED"},
           l1.cstate = "MODIFIED"
    PROVE  NodeInv(n, a, e, mode, q, r, l1, w, dr, s, d)
BY ChannelOrder, QueueMember

\* A thread that misses on a line with a request under way only joins the waiters.
LEMMA JoinStep ==
    ASSUME NEW n, NEW a, NEW e, NEW mode, NEW q, NEW r, NEW l, NEW w, NEW s, NEW d,
           NEW w1, NEW dr,
           NodeInv(n, a, e, mode, q, r, l, w, dr, s, d),
           w # <<>>,
           w1 # <<>>,
           Head(w1) = Head(w)
    PROVE  NodeInv(n, a, e, mode, q, r, l, w1, dr, s, d)
BY ChannelOrder, QueueMember

\* A write miss on a SHARED line makes it SHARED_UPGRADING and sends UPGRADE_REQ.
LEMMA UpgradeMissStep ==
    ASSUME NEW n, NEW a, NEW e, NEW mode, NEW q, NEW r, NEW l, NEW w, NEW s, NEW d,
           NEW l1, NEW w1, NEW d1, NEW dr,
           NodeInv(n, a, e, mode, q, r, l, w, dr, s, d),
           w = <<>>,
           w1 # <<>>,
           Head(w1).exclusive,
           l.cstate = "SHARED",
           l1.cstate = "SHARED_UPGRADING",
           Appended(d, d1, a, {"UPGRADE_REQ"})
    PROVE  NodeInv(n, a, e, mode, q, r, l1, w1, dr, s, d1)
BY ChannelOrder, QueueMember

\* A write miss on an INVALID line sends EX_REQ.
LEMMA ExMissStep ==
    ASSUME NEW n, NEW a, NEW e, NEW mode, NEW q, NEW r, NEW l, NEW w, NEW s, NEW d,
           NEW w1, NEW d1, NEW dr,
           NodeInv(n, a, e, mode, q, r, l, w, dr, s, d),
           w = <<>>,
           w1 # <<>>,
           Head(w1).exclusive,
           l.cstate = "INVALID",
           Appended(d, d1, a, {"EX_REQ"})
    PROVE  NodeInv(n, a, e, mode, q, r, l, w1, dr, s, d1)
BY ChannelOrder, QueueMember

\* A read miss sends SH_REQ.
LEMMA ShMissStep ==
    ASSUME NEW n, NEW a, NEW e, NEW mode, NEW q, NEW r, NEW l, NEW w, NEW s, NEW d,
           NEW w1, NEW d1, NEW dr,
           NodeInv(n, a, e, mode, q, r, l, w, dr, s, d),
           w = <<>>,
           w1 # <<>>,
           l.cstate = "INVALID",
           Appended(d, d1, a, {"SH_REQ"})
    PROVE  NodeInv(n, a, e, mode, q, r, l, w1, dr, s, d1)
BY ChannelOrder, QueueMember

\* The eviction of a clean line sends INV_REP, unasked.
LEMMA EvictCleanStep ==
    ASSUME NEW n, NEW a, NEW e, NEW mode, NEW q, NEW r, NEW l, NEW w, NEW s, NEW d,
           NEW l1, NEW d1,
           NodeInv(n, a, e, mode, q, r, l, w, FALSE, s, d),
           l.cstate \in {"SHARED", "EXCLUSIVE"},
           l1.cstate = "INVALID",
           Appended(d, d1, a, {"INV_REP"})
    PROVE  NodeInv(n, a, e, mode, q, r, l1, w, FALSE, s, d1)
BY ChannelOrder, QueueMember

\* The eviction of a MODIFIED line sends FLUSH_REP, unasked.
LEMMA EvictDirtyStep ==
    ASSUME NEW n, NEW a, NEW e, NEW mode, NEW q, NEW r, NEW l, NEW w, NEW s, NEW d,
           NEW l1, NEW d1,
           NodeInv(n, a, e, mode, q, r, l, w, FALSE, s, d),
           l.cstate = "MODIFIED",
           l1.cstate = "INVALID",
           Appended(d, d1, a, {"FLUSH_REP"})
    PROVE  NodeInv(n, a, e, mode, q, r, l1, w, FALSE, s, d1)
BY ChannelOrder, QueueMember

\* The last waiter is woken and the network thread is done with the line.
LEMMA WakeLastStep ==
    ASSUME NEW n, NEW a, NEW e, NEW mode, NEW q, NEW r, NEW l, NEW w, NEW s, NEW d,
           NEW l1, NEW w1,
           NodeInv(n, a, e, mode, q, r, l, w, TRUE, s, d),
           l1.cstate = l.cstate,
           w1 = <<>>
    PROVE  NodeInv(n, a, e, mode, q, r, l1, w1, FALSE, s, d)
BY ChannelOrder, QueueMember

\* The next waiter wants to write a SHARED line: UPGRADE_REQ, and the loop ends.
LEMMA WakeUpgradeStep ==
    ASSUME NEW n, NEW a, NEW e, NEW mode, NEW q, NEW r, NEW l, NEW w, NEW s, NEW d,
           NEW l1, NEW w1, NEW d1,
           NodeInv(n, a, e, mode, q, r, l, w, TRUE, s, d),
           w1 # <<>>,
           Head(w1).exclusive,
           l.cstate = "SHARED",
           l1.cstate = "SHARED_UPGRADING",
           Appended(d, d1, a, {"UPGRADE_REQ"})
    PROVE  NodeInv(n, a, e, mode, q, r, l1, w1, FALSE, s, d1)
BY ChannelOrder, QueueMember

\* The next waiter writes a line the cache owns, and the loop goes on.
LEMMA WakeWriterStep ==
    ASSUME NEW n, NEW a, NEW e, NEW mode, NEW q, NEW r, NEW l, NEW w, NEW s, NEW d,
           NEW l1, NEW w1,
           NodeInv(n, a, e, mode, q, r, l, w, TRUE, s, d),
           w1 # <<>>,
           l.cstate \in {"EXCLUSIVE", "MODIFIED"},
           l1.cstate = "MODIFIED"
    PROVE  NodeInv(n, a, e, mode, q, r, l1, w1, TRUE, s, d)
BY ChannelOrder, QueueMember

\* EX_REP for a writer: the line arrives and is MODIFIED at once.
LEMMA ExRepWriterStep ==
    ASSUME NEW n, NEW a, NEW e, NEW mode, NEW q, NEW r, NEW l, NEW w, NEW s, NEW d,
           NEW l1, NEW s1,
           NodeInv(n, a, e, mode, q, r, l, w, FALSE, s, d),
           Removed(s, s1, a, {"EX_REP"}),
           l1.cstate = "MODIFIED"
    PROVE  NodeInv(n, a, e, mode, q, r, l1, w, TRUE, s1, d)
BY ChannelOrder, QueueMember

\* EX_REP for a reader (MESI): the line arrives EXCLUSIVE.
LEMMA ExRepReaderStep ==
    ASSUME NEW n, NEW a, NEW e, NEW mode, NEW q, NEW r, NEW l, NEW w, NEW s, NEW d,
           NEW l1, NEW s1,
           NodeInv(n, a, e, mode, q, r, l, w, FALSE, s, d),
           Removed(s, s1, a, {"EX_REP"}),
           ~Head(w).exclusive,
           e.dstate = "MODIFIED" \/ e.dstate = "EXCLUSIVE",
           l1.cstate = "EXCLUSIVE"
    PROVE  NodeInv(n, a, e, mode, q, r, l1, w, TRUE, s1, d)
BY ChannelOrder, QueueMember

\* SH_REP for a reader: the line arrives SHARED.
LEMMA ShRepReaderStep ==
    ASSUME NEW n, NEW a, NEW e, NEW mode, NEW q, NEW r, NEW l, NEW w, NEW s, NEW d,
           NEW l1, NEW s1,
           NodeInv(n, a, e, mode, q, r, l, w, FALSE, s, d),
           Removed(s, s1, a, {"SH_REP"}),
           l1.cstate = "SHARED"
    PROVE  NodeInv(n, a, e, mode, q, r, l1, w, TRUE, s1, d)
BY ChannelOrder, QueueMember

\* SH_REP for a writer that came behind a reader: the line is upgraded at once.
LEMMA ShRepWriterStep ==
    ASSUME NEW n, NEW a, NEW e, NEW mode, NEW q, NEW r, NEW l, NEW w, NEW s, NEW d,
           NEW l1, NEW s1, NEW d1,
           NodeInv(n, a, e, mode, q, r, l, w, FALSE, s, d),
           Removed(s, s1, a, {"SH_REP"}),
           Head(w).exclusive,
           l1.cstate = "SHARED_UPGRADING",
           Appended(d, d1, a, {"UPGRADE_REQ"})
    PROVE  NodeInv(n, a, e, mode, q, r, l1, w, FALSE, s1, d1)
BY ChannelOrder, QueueMember

\* UPGRADE_REP: the upgrading line becomes MODIFIED.
LEMMA UpgradeRepStep ==
    ASSUME NEW n, NEW a, NEW e, NEW mode, NEW q, NEW r, NEW l, NEW w, NEW s, NEW d,
           NEW l1, NEW s1,
           NodeInv(n, a, e, mode, q, r, l, w, FALSE, s, d),
           Removed(s, s1, a, {"UPGRADE_REP"}),
           l1.cstate = "MODIFIED"
    PROVE  NodeInv(n, a, e, mode, q, r, l1, w, TRUE, s1, d)
BY ChannelOrder, QueueMember DEF Owned

\* An INV_REQ, FLUSH_REQ or WB_REQ that finds the line evicted is dropped.
LEMMA StaleDemandStep ==
    ASSUME NEW n, NEW a, NEW e, NEW mode, NEW q, NEW r, NEW l, NEW w, NEW s, NEW d,
           NEW s1, NEW t,
           NodeInv(n, a, e, mode, q, r, l, w, FALSE, s, d),
           Removed(s, s1, a, {t}),
           t \in {"INV_REQ", "FLUSH_REQ", "WB_REQ"},
           l.cstate = "INVALID"
    PROVE  NodeInv(n, a, e, mode, q, r, l, w, FALSE, s1, d)
BY ChannelOrder, QueueMember

\* INV_REQ invalidates the copy and is answered by INV_REP.
LEMMA InvReqStep ==
    ASSUME NEW n, NEW a, NEW e, NEW mode, NEW q, NEW r, NEW l, NEW w, NEW s, NEW d,
           NEW l1, NEW s1, NEW d1,
           NodeInv(n, a, e, mode, q, r, l, w, FALSE, s, d),
           Removed(s, s1, a, {"INV_REQ"}),
           l.cstate # "INVALID",
           l1.cstate = "INVALID",
           Appended(d, d1, a, {"INV_REP"})
    PROVE  NodeInv(n, a, e, mode, q, r, l1, w, FALSE, s1, d1)
BY ChannelOrder, QueueMember

\* FLUSH_REQ invalidates the copy and is answered by FLUSH_REP with its data.
LEMMA FlushReqStep ==
    ASSUME NEW n, NEW a, NEW e, NEW mode, NEW q, NEW r, NEW l, NEW w, NEW s, NEW d,
           NEW l1, NEW s1, NEW d1,
           NodeInv(n, a, e, mode, q, r, l, w, FALSE, s, d),
           Removed(s, s1, a, {"FLUSH_REQ"}),
           l.cstate # "INVALID",
           l1.cstate = "INVALID",
           Appended(d, d1, a, {"FLUSH_REP"})
    PROVE  NodeInv(n, a, e, mode, q, r, l1, w, FALSE, s1, d1)
BY ChannelOrder, QueueMember DEF Demands, AwaitsWb

\* WB_REQ at a forwarder that is upgrading: WB_REP, and the line stays SHARED_UPGRADING.
LEMMA WbReqUpgradingStep ==
    ASSUME NEW n, NEW a, NEW e, NEW mode, NEW q, NEW r, NEW l, NEW w, NEW s, NEW d,
           NEW s1, NEW d1,
           NodeInv(n, a, e, mode, q, r, l, w, FALSE, s, d),
           Removed(s, s1, a, {"WB_REQ"}),
           l.cstate = "SHARED_UPGRADING",
           Appended(d, d1, a, {"WB_REP"})
    PROVE  NodeInv(n, a, e, mode, q, r, l, w, FALSE, s1, d1)
BY ChannelOrder, QueueMember

\* WB_REQ makes the copy SHARED and is answered by WB_REP with its data.
LEMMA WbReqStep ==
    ASSUME NEW n, NEW a, NEW e, NEW mode, NEW q, NEW r, NEW l, NEW w, NEW s, NEW d,
           NEW l1, NEW s1, NEW d1,
           NodeInv(n, a, e, mode, q, r, l, w, FALSE, s, d),
           Removed(s, s1, a, {"WB_REQ"}),
           l.cstate \in {"SHARED", "EXCLUSIVE", "MODIFIED"},
           l1.cstate = "SHARED",
           Appended(d, d1, a, {"WB_REP"})
    PROVE  NodeInv(n, a, e, mode, q, r, l1, w, FALSE, s1, d1)
BY ChannelOrder, QueueMember

\* Packets of other lines that come and go do not matter to this one.
LEMMA OtherLineStep ==
    ASSUME NEW n, NEW a, NEW e, NEW mode, NEW q, NEW r, NEW l, NEW w, NEW s, NEW d,
           NEW dr, NEW s1, NEW d1, NEW d2,
           NodeInv(n, a, e, mode, q, r, l, w, dr, s, d),
           Removed(s, s1, a, {}),
           Removed(d, d1, a, {}),
           Appended(d1, d2, a, {})
    PROVE  NodeInv(n, a, e, mode, q, r, l, w, dr, s1, d2)
BY ChannelOrder, QueueMember

-----------------------------------------------------------------------------
(* Steps of the home.                                                       *)

HIDE DEF Readable
USE DEF Owned, Granted, Grantee, Demands, AwaitsWb, FlushedForUpgrade, CurAsks, QAppended,
        QRemoved, HomeInv, EntryOK, ActiveOK

\* A request of z that finds a current request joins the queue.
LEMMA EnqueueStep ==
    ASSUME NEW n, NEW a, NEW e, NEW q, NEW r, NEW l, NEW w, NEW dr, NEW s, NEW d, NEW p,
           NEW z, NEW t, NEW q0, NEW r1, NEW d1,
           NodeInv(n, a, e, "active", q, r, l, w, dr, s, d),
           HomeInv(e, "active", q, p),
           t \in {"SH_REQ", "EX_REQ", "UPGRADE_REQ"},
           q0.type = t,
           q0.requester = z,
           n = z => Has(d, a, t),
           Removed(d, d1, a, IF n = z THEN {t} ELSE {}),
           QAppended(r, r1, n, q0)
    PROVE  NodeInv(n, a, e, "active", q, r1, l, w, dr, s, d1)
BY ChannelOrder, QueueMember

\* A request of z that finds the queue empty becomes the current one.
LEMMA StartStep ==
    ASSUME NEW n, NEW a, NEW e, NEW q, NEW r, NEW l, NEW w, NEW dr, NEW s, NEW d, NEW p,
           NEW z, NEW t, NEW q1, NEW d1,
           NodeInv(n, a, e, "idle", q, r, l, w, dr, s, d),
           HomeInv(e, "idle", q, p),
           t \in {"SH_REQ", "EX_REQ", "UPGRADE_REQ"},
           q1.type = t,
           q1.requester = z,
           ~q1.wait,
           q1.from = INVALID_CORE_ID,
           ~QAny(r, n),
           Removed(d, d1, a, IF n = z THEN {t} ELSE {})
    PROVE  NodeInv(n, a, e, "ready", q1, r, l, w, dr, s, d1)
BY ChannelOrder, QueueMember

\* The next request of the queue becomes the current one when a request is done.
LEMMA NextStep ==
    ASSUME NEW n, NEW a, NEW e, NEW q, NEW r, NEW l, NEW w, NEW dr, NEW s, NEW d, NEW p,
           NEW q1, NEW r1,
           NodeInv(n, a, e, "done", q, r, l, w, dr, s, d),
           HomeInv(e, "done", q, p),
           q1.type \in {"SH_REQ", "EX_REQ", "UPGRADE_REQ"},
           ~q1.wait,
           q1.from = INVALID_CORE_ID,
           QRemoved(r, r1, n, q1)
    PROVE  NodeInv(n, a, e, "ready", q1, r1, l, w, dr, s, d)
BY ChannelOrder, QueueMember

\* A request is done and the queue is empty.
LEMMA RestStep ==
    ASSUME NEW n, NEW a, NEW e, NEW q, NEW r, NEW l, NEW w, NEW dr, NEW s, NEW d, NEW p,
           NEW q1,
           NodeInv(n, a, e, "done", q, r, l, w, dr, s, d),
           HomeInv(e, "done", q, p),
           ~QAny(r, n)
    PROVE  NodeInv(n, a, e, "idle", q1, r, l, w, dr, s, d)
BY ChannelOrder, QueueMember

\* A write request for an owned line: FLUSH_REQ to the owner.
LEMMA FlushOwnerStep ==
    ASSUME NEW n, NEW a, NEW e, NEW q, NEW r, NEW l, NEW w, NEW dr, NEW s, NEW d, NEW p,
           NEW s1,
           NodeInv(n, a, e, "ready", q, r, l, w, dr, s, d),
           HomeInv(e, "ready", q, p),
           Owned(e),
           q.type \in {"EX_REQ", "UPGRADE_REQ"},
           q.requester \notin e.sharers,
           Appended(s, s1, a, IF n = e.owner THEN {"FLUSH_REQ"} ELSE {})
    PROVE  NodeInv(n, a, e, "active", q, r, l, w, dr, s1, d)
BY ChannelOrder, QueueMember

\* A read request for an owned line: WB_REQ to the owner.
LEMMA WbOwnerStep ==
    ASSUME NEW n, NEW a, NEW e, NEW q, NEW r, NEW l, NEW w, NEW dr, NEW s, NEW d, NEW p,
           NEW s1,
           NodeInv(n, a, e, "ready", q, r, l, w, dr, s, d),
           HomeInv(e, "ready", q, p),
           Owned(e),
           q.type = "SH_REQ",
           q.requester \notin e.sharers,
           Appended(s, s1, a, IF n = e.owner THEN {"WB_REQ"} ELSE {})
    PROVE  NodeInv(n, a, e, "active", q, r, l, w, dr, s1, d)
BY ChannelOrder, QueueMember

\* EX_REQ for a SHARED line: INV_REQ to every sharer.
LEMMA InvSharersStep ==
    ASSUME NEW n, NEW a, NEW e, NEW q, NEW r, NEW l, NEW w, NEW dr, NEW s, NEW d, NEW p,
           NEW s1,
           NodeInv(n, a, e, "ready", q, r, l, w, dr, s, d),
           HomeInv(e, "ready", q, p),
           e.dstate = "SHARED",
           q.type = "EX_REQ",
           q.requester \notin e.sharers,
           Appended(s, s1, a, IF n \in e.sharers THEN {"INV_REQ"} ELSE {})
    PROVE  NodeInv(n, a, e, "active", q, r, l, w, dr, s1, d)
BY ChannelOrder, QueueMember

\* UPGRADE_REQ with other sharers: INV_REQ to them, or FLUSH_REQ to the one in F, when the
\* requester itself has lost its copy.
LEMMA InvForUpgradeStep ==
    ASSUME NEW n, NEW a, NEW e, NEW q, NEW r, NEW l, NEW w, NEW dr, NEW s, NEW d, NEW p,
           NEW s1, NEW F,
           NodeInv(n, a, e, "ready", q, r, l, w, dr, s, d),
           HomeInv(e, "ready", q, p),
           e.dstate = "SHARED",
           q.type = "UPGRADE_REQ",
           e.sharers # {q.requester},
           F \subseteq e.sharers,
           q.requester \in e.sharers => F = {},
           Appended(s, s1, a, IF n \in F THEN {"FLUSH_REQ"}
                               ELSE IF n \in e.sharers \ {q.requester} THEN {"INV_REQ"} ELSE {})
    PROVE  NodeInv(n, a, e, "active", q, r, l, w, dr, s1, d)
BY ChannelOrder, QueueMember

\* A request for an UNCACHED line makes its requester the owner and waits for DRAM.
LEMMA GrantWaitStep ==
    ASSUME NEW n, NEW a, NEW e, NEW q, NEW r, NEW l, NEW w, NEW dr, NEW s, NEW d, NEW p,
           NEW e1, NEW q1,
           NodeInv(n, a, e, "ready", q, r, l, w, dr, s, d),
           HomeInv(e, "ready", q, p),
           e.dstate = "UNCACHED",
           e1.sharers = {q.requester},
           q.type \in {"SH_REQ", "EX_REQ", "UPGRADE_REQ"},
           q.type = "SH_REQ" => e1.dstate \in {"SHARED", "EXCLUSIVE"},
           q.type # "SH_REQ" => e1.dstate = "MODIFIED",
           q1.type = q.type,
           q1.requester = q.requester,
           q1.wait,
           q1.from = q.from
    PROVE  NodeInv(n, a, e1, "active", q1, r, l, w, dr, s, d)
BY ChannelOrder, QueueMember

\* SH_REQ for a SHARED line adds the requester to the sharers and waits for DRAM.
LEMMA ShareWaitStep ==
    ASSUME NEW n, NEW a, NEW e, NEW q, NEW r, NEW l, NEW w, NEW dr, NEW s, NEW d, NEW p,
           NEW e1, NEW q1,
           NodeInv(n, a, e, "ready", q, r, l, w, dr, s, d),
           HomeInv(e, "ready", q, p),
           e.dstate = "SHARED",
           q.type = "SH_REQ",
           q.requester \notin e.sharers,
           e1.sharers = e.sharers \cup {q.requester},
           e1.dstate = e.dstate,
           q1.type = q.type,
           q1.requester = q.requester,
           q1.wait,
           q1.from = q.from
    PROVE  NodeInv(n, a, e1, "active", q1, r, l, w, dr, s, d)
BY ChannelOrder, QueueMember

\* SH_REQ for a SHARED line in MESIF: the requester is added and the forwarder is asked for
\* the data by a WB_REQ.
LEMMA ForwardStep ==
    ASSUME NEW n, NEW a, NEW e, NEW q, NEW r, NEW l, NEW w, NEW dr, NEW s, NEW d, NEW p,
           NEW e1, NEW q1, NEW s1,
           NodeInv(n, a, e, "ready", q, r, l, w, dr, s, d),
           HomeInv(e, "ready", q, p),
           e.dstate = "SHARED",
           q.type = "SH_REQ",
           q.requester \notin e.sharers,
           e1.sharers = e.sharers \cup {q.requester},
           e1.dstate = e.dstate,
           q1.type = q.type,
           q1.requester = q.requester,
           ~q1.wait,
           q1.from \in e.sharers,
           q1.from # INVALID_CORE_ID,
           Appended(s, s1, a, IF n = q1.from THEN {"WB_REQ"} ELSE {})
    PROVE  NodeInv(n, a, e1, "active", q1, r, l, w, dr, s1, d)
BY ChannelOrder, QueueMember

\* UPGRADE_REQ of the only sharer is answered by UPGRADE_REP.
LEMMA UpgradeStep ==
    ASSUME NEW n, NEW a, NEW e, NEW q, NEW r, NEW l, NEW w, NEW dr, NEW s, NEW d, NEW p,
           NEW e1, NEW q1, NEW s1,
           NodeInv(n, a, e, "ready", q, r, l, w, dr, s, d),
           HomeInv(e, "ready", q, p),
           e.dstate = "SHARED",
           q.type = "UPGRADE_REQ",
           e.sharers = {q.requester},
           e1.sharers = e.sharers,
           e1.dstate = "MODIFIED",
           Appended(s, s1, a, IF n = q.requester THEN {"UPGRADE_REP"} ELSE {})
    PROVE  NodeInv(n, a, e1, "done", q1, r, l, w, dr, s1, d)
BY ChannelOrder, QueueMember

\* A request for an UNCACHED line whose data is at hand is answered at once.
LEMMA GrantDataStep ==
    ASSUME NEW n, NEW a, NEW e, NEW q, NEW r, NEW l, NEW w, NEW dr, NEW s, NEW d, NEW p,
           NEW e1, NEW q1, NEW s1, NEW t,
           NodeInv(n, a, e, "ready", q, r, l, w, dr, s, d),
           HomeInv(e, "ready", q, p),
           e.dstate = "UNCACHED",
           e1.sharers = {q.requester},
           q.type \in {"SH_REQ", "EX_REQ", "UPGRADE_REQ"},
           q.type = "SH_REQ" => \/ e1.dstate = "SHARED" /\ t = "SH_REP"
                                \/ e1.dstate = "EXCLUSIVE" /\ t = "EX_REP",
           q.type # "SH_REQ" => e1.dstate = "MODIFIED" /\ t = "EX_REP",
           Appended(s, s1, a, IF n = q.requester THEN {t} ELSE {})
    PROVE  NodeInv(n, a, e1, "done", q1, r, l, w, dr, s1, d)
BY ChannelOrder, QueueMember

\* SH_REQ for a SHARED line whose data is at hand is answered at once.
LEMMA ShareDataStep ==
    ASSUME NEW n, NEW a, NEW e, NEW q, NEW r, NEW l, NEW w, NEW dr, NEW s, NEW d, NEW p,
           NEW e1, NEW q1, NEW s1,
           NodeInv(n, a, e, "ready", q, r, l, w, dr, s, d),
           HomeInv(e, "ready", q, p),
           e.dstate = "SHARED",
           q.type = "SH_REQ",
           q.requester \notin e.sharers,
           e1.sharers = e.sharers \cup {q.requester},
           e1.dstate = e.dstate,
           Appended(s, s1, a, IF n = q.requester THEN {"SH_REP"} ELSE {})
    PROVE  NodeInv(n, a, e1, "done", q1, r, l, w, dr, s1, d)
BY ChannelOrder, QueueMember

\* An eviction of z while the line has no current request: z is no sharer any more.
LEMMA DropIdleStep ==
    ASSUME NEW n, NEW a, NEW e, NEW q, NEW r, NEW l, NEW w, NEW dr, NEW s, NEW d, NEW p,
           NEW z, NEW t, NEW e1, NEW d1,
           NodeInv(n, a, e, "idle", q, r, l, w, dr, s, d),
           HomeInv(e, "idle", q, p),
           t \in {"INV_REP", "FLUSH_REP"},
           e1.sharers = e.sharers \ {z},
           e.sharers \subseteq {z} => e1.dstate = "UNCACHED",
           e.sharers \subseteq {z} \/ e1.dstate = e.dstate,
           Removed(d, d1, a, IF n = z THEN {t} ELSE {})
    PROVE  NodeInv(n, a, e1, "idle", q, r, l, w, dr, s, d1)
BY ChannelOrder, QueueMember

\* z's copy is gone, others are left, and the current request goes on waiting.
LEMMA DropActiveStep ==
    ASSUME NEW n, NEW a, NEW e, NEW q, NEW r, NEW l, NEW w, NEW dr, NEW s, NEW d, NEW p,
           NEW z, NEW t, NEW e1, NEW q1, NEW d1,
           NodeInv(n, a, e, "active", q, r, l, w, dr, s, d),
           HomeInv(e, "active", q, p),
           t \in {"INV_REP", "FLUSH_REP"},
           ~(e.sharers \subseteq {z}),
           q1.type = q.type,
           q1.requester = q.requester,
           q1.wait <=> q.wait,
           q1.from = q.from,
           q.type = "NULLIFY_REQ" \/ z # q.requester,
           q.type = "SH_REQ" => (Granted("active", q) /\ q.from # z) \/ q.wait,
           e1.sharers = e.sharers \ {z},
           e.sharers \subseteq {z} => e1.dstate = "UNCACHED",
           e.sharers \subseteq {z} \/ e1.dstate = e.dstate,
           Removed(d, d1, a, IF n = z THEN {t} ELSE {})
    PROVE  NodeInv(n, a, e1, "active", q1, r, l, w, dr, s, d1)
BY ChannelOrder, QueueMember

\* z's copy is gone, and with it the last one that the current request waited for.
LEMMA DropReadyStep ==
    ASSUME NEW n, NEW a, NEW e, NEW q, NEW r, NEW l, NEW w, NEW dr, NEW s, NEW d, NEW p,
           NEW z, NEW t, NEW e1, NEW d1,
           NodeInv(n, a, e, "active", q, r, l, w, dr, s, d),
           HomeInv(e, "active", q, p),
           t \in {"INV_REP", "FLUSH_REP"},
           ~Granted("active", q),
           q.type \in {"SH_REQ", "EX_REQ", "UPGRADE_REQ"},
           e.sharers \subseteq {z} \/ (q.type = "UPGRADE_REQ" /\ e.sharers \subseteq {z, q.requester}),
           e1.sharers = e.sharers \ {z},
           e.sharers \subseteq {z} => e1.dstate = "UNCACHED",
           e.sharers \subseteq {z} \/ e1.dstate = e.dstate,
           Removed(d, d1, a, IF n = z THEN {t} ELSE {})
    PROVE  NodeInv(n, a, e1, "ready", q, r, l, w, dr, s, d1)
BY ChannelOrder, QueueMember

\* z's copy, the last one of a replaced entry, is gone.
LEMMA DropDoneStep ==
    ASSUME NEW n, NEW a, NEW e, NEW q, NEW r, NEW l, NEW w, NEW dr, NEW s, NEW d, NEW p,
           NEW z, NEW t, NEW e1, NEW q1, NEW d1,
           NodeInv(n, a, e, "active", q, r, l, w, dr, s, d),
           HomeInv(e, "active", q, p),
           t \in {"INV_REP", "FLUSH_REP"},
           q.type = "NULLIFY_REQ",
           e.sharers \subseteq {z},
           e1.sharers = {},
           e1.dstate = "UNCACHED",
           Removed(d, d1, a, IF n = z THEN {t} ELSE {})
    PROVE  NodeInv(n, a, e1, "done", q1, r, l, w, dr, s, d1)
BY ChannelOrder, QueueMember

\* The forwarder evicts its copy before the WB_REQ reaches it: the request goes to DRAM.
LEMMA DropForwarderStep ==
    ASSUME NEW n, NEW a, NEW e, NEW q, NEW r, NEW l, NEW w, NEW dr, NEW s, NEW d, NEW p,
           NEW z, NEW t, NEW e1, NEW q1, NEW d1,
           NodeInv(n, a, e, "active", q, r, l, w, dr, s, d),
           HomeInv(e, "active", q, p),
           t = "INV_REP",
           q.type = "SH_REQ",
           ~q.wait,
           q.from = z,
           z # INVALID_CORE_ID,
           q1.type = q.type,
           q1.requester = q.requester,
           q1.wait,
           q1.from = q.from,
           e1.sharers = e.sharers \ {z},
           e1.dstate = e.dstate,
           Removed(d, d1, a, IF n = z THEN {t} ELSE {})
    PROVE  NodeInv(n, a, e1, "active", q1, r, l, w, dr, s, d1)
BY ChannelOrder, QueueMember

\* WB_REP of the owner: the line is SHARED and the read request goes on.
LEMMA WbOwnerRepStep ==
    ASSUME NEW n, NEW a, NEW e, NEW q, NEW r, NEW l, NEW w, NEW dr, NEW s, NEW d, NEW p,
           NEW z, NEW e1, NEW d1,
           NodeInv(n, a, e, "active", q, r, l, w, dr, s, d),
           HomeInv(e, "active", q, p),
           q.type = "SH_REQ",
           ~q.wait,
           q.from = INVALID_CORE_ID,
           e.sharers = {z},
           e1.sharers = e.sharers,
           e1.dstate = "SHARED",
           Removed(d, d1, a, IF n = z THEN {"WB_REP"} ELSE {})
    PROVE  NodeInv(n, a, e1, "ready", q, r, l, w, dr, s, d1)
BY ChannelOrder, QueueMember

\* WB_REP of the forwarder: its data answers the read request.
LEMMA WbForwarderRepStep ==
    ASSUME NEW n, NEW a, NEW e, NEW q, NEW r, NEW l, NEW w, NEW dr, NEW s, NEW d, NEW p,
           NEW z, NEW e1, NEW q1, NEW s1, NEW d1,
           NodeInv(n, a, e, "active", q, r, l, w, dr, s, d),
           HomeInv(e, "active", q, p),
           q.type = "SH_REQ",
           ~q.wait,
           q.from = z,
           z # INVALID_CORE_ID,
           e1.sharers = e.sharers,
           e1.dstate = "SHARED",
           Removed(d, d1, a, IF n = z THEN {"WB_REP"} ELSE {}),
           Appended(s, s1, a, IF n = q.requester THEN {"SH_REP"} ELSE {})
    PROVE  NodeInv(n, a, e1, "done", q1, r, l, w, dr, s1, d1)
BY ChannelOrder, QueueMember

\* The data of DRAM answers the request that waits for it.
LEMMA DramReplyStep ==
    ASSUME NEW n, NEW a, NEW e, NEW q, NEW r, NEW l, NEW w, NEW dr, NEW s, NEW d, NEW p,
           NEW e1, NEW q1, NEW s1,
           NodeInv(n, a, e, "active", q, r, l, w, dr, s, d),
           HomeInv(e, "active", q, p),
           q.wait,
           q.type \in {"SH_REQ", "EX_REQ", "UPGRADE_REQ"},
           e1.sharers = e.sharers,
           e1.dstate = e.dstate,
           Appended(s, s1, a, IF n # q.requester THEN {}
                              ELSE IF q.type = "SH_REQ" /\ e.dstate # "EXCLUSIVE" THEN {"SH_REP"}
                              ELSE {"EX_REP"})
    PROVE  NodeInv(n, a, e1, "done", q1, r, l, w, dr, s1, d)
BY ChannelOrder, QueueMember

\* The replacement of an entry demands its copies back: FLUSH_REQ to the owner, or INV_REQ to
\* the sharers.
LEMMA NullifyStep ==
    ASSUME NEW n, NEW a, NEW e, NEW q, NEW r, NEW l, NEW w, NEW dr, NEW s, NEW d, NEW p,
           NEW q1, NEW s1,
           NodeInv(n, a, e, "idle", q, r, l, w, dr, s, d),
           HomeInv(e, "idle", q, p),
           e.dstate # "UNCACHED",
           q1.type = "NULLIFY_REQ",
           ~q1.wait,
           q1.from = INVALID_CORE_ID,
           Appended(s, s1, a, IF n \notin e.sharers THEN {}
                              ELSE IF Owned(e) THEN {"FLUSH_REQ"} ELSE {"INV_REQ"}),
           e.dstate \in {"SHARED", "EXCLUSIVE", "MODIFIED"}
    PROVE  NodeInv(n, a, e, "active", q1, r, l, w, dr, s1, d)
BY ChannelOrder, QueueMember

\* Packets of other lines that come and go do not matter to this entry.
LEMMA OtherEntryStep ==
    ASSUME NEW n, NEW a, NEW e, NEW q, NEW r, NEW l, NEW w, NEW dr, NEW s, NEW d, NEW p,
           NEW mode, NEW s1, NEW d1,
           NodeInv(n, a, e, mode, q, r, l, w, dr, s, d),
           Removed(d, d1, a, {}),
           Appended(s, s1, a, {})
    PROVE  NodeInv(n, a, e, mode, q, r, l, w, dr, s1, d1)
BY ChannelOrder, QueueMember

HIDE DEF NodeInv, CopyKnown, OneCopy, OneAsk, LineOK, ToCacheOK, ToDirOK, QueuedOK,
         Valid, Queued, HasData, HasReply, GaveUp, Asked, Live, LiveTwice, Appended, Removed,
         Owned, Granted, Grantee, Demands, AwaitsWb, FlushedForUpgrade, CurAsks, QAppended,
         QRemoved, HomeInv, EntryOK, ActiveOK

-----------------------------------------------------------------------------
(***************************************************************************)
(* The handlers of the directory controller: what each of them makes of    *)
(* an entry and a queue that satisfy the invariant satisfies it again,     *)
(* whatever the caches hold and whatever is on its way.                    *)
(***************************************************************************)

\* The messages of a handler, and the contexts handlers compute with.
MsgType == CacheMsgType \cup {"DRAM_READ_REQ", "DRAM_WRITE_REQ"}
Msg == [type : MsgType, buf : Bufs]
Contexts == [entry : Entry, queue : Seq(Reqs), out : [Node -> Seq(Msg)], dram : Seq(Msg),
             done : BOOLEAN, gone : BOOLEAN, failed : SUBSET Tolerated]

\* An entry and a message, by their fields.
EntryWith(ds, sh, ow, fw) == [dstate |-> ds, sharers |-> sh, owner |-> ow, forwarder |-> fw]
Message(t, b) == [type |-> t, buf |-> b]

\* The messages of a context: t with buffer b to every cache of R.
OutTo(c, R, t, b) ==
    \A n \in Node : c.out[n] = IF n \in R THEN <<Message(t, b)>> ELSE <<>>

\* Context c holds entry e, queue qs, messages d to DRAM and message t to the caches of R.
Res(c, e, qs, d, R, t, b) ==
    /\ c \in Contexts
    /\ c.entry = e /\ c.queue = qs /\ c.dram = d
    /\ c.gone = FALSE /\ c.failed = {}
    /\ OutTo(c, R, t, b)

\* The same before anything is sent to a cache and before the request is done.
Fresh(c, e, qs, d) == Res(c, e, qs, d, {}, "", NULL) /\ c.done = FALSE

\* The queue qs with a new wait flag, forwarder or buffer of its current request.
Waits1(qs) == [qs EXCEPT ![1].wait = TRUE]
From1(qs, f) == [qs EXCEPT ![1].from = f]
Buf1(qs, b) == [qs EXCEPT ![1].buf = b]

\* An entry is made of its four fields.
LEMMA EntryFields ==
    ASSUME NEW e \in Entry, NEW ds, NEW sh, NEW ow, NEW fw,
           e.dstate = ds, e.sharers = sh, e.owner = ow, e.forwarder = fw
    PROVE  e = EntryWith(ds, sh, ow, fw)
BY DEF Entry, EntryWith

\* The current request is the first of a queue that is not empty.
LEMMA QueueHead ==
    ASSUME NEW qs \in Seq(Reqs), qs # <<>>
    PROVE  /\ qs[1] = Head(qs) /\ Head(qs) \in Reqs /\ 1 \in DOMAIN qs
           /\ Len(qs) \in Nat /\ Len(qs) > 0 /\ DOMAIN qs = 1 .. Len(qs)
OBVIOUS

\* Replacing the current request.
LEMMA QueueUpdate ==
    ASSUME NEW qs \in Seq(Reqs), qs # <<>>, NEW q \in Reqs
    PROVE  LET qs1 == [qs EXCEPT ![1] = q]
           IN  qs1 \in Seq(Reqs) /\ qs1 # <<>> /\ Head(qs1) = q /\ Tail(qs1) = Tail(qs)
<1> DEFINE qs1 == [qs EXCEPT ![1] = q]
<1>1. /\ Len(qs) \in Nat /\ Len(qs) > 0 /\ DOMAIN qs = 1 .. Len(qs)
      /\ \A i \in 1 .. Len(qs) : qs[i] \in Reqs
  OBVIOUS
<1>2. qs1 \in [1 .. Len(qs) -> Reqs]
  BY <1>1
<1>3. qs1 \in Seq(Reqs) /\ Len(qs1) = Len(qs)
  BY <1>1, <1>2
<1>4. Head(qs1) = q /\ qs1 # <<>>
  BY <1>1, <1>3
<1>5. Tail(qs1) = Tail(qs)
  <2>1. Tail(qs1) \in Seq(Reqs) /\ Tail(qs) \in Seq(Reqs)
        /\ Len(Tail(qs1)) = Len(qs) - 1 /\ Len(Tail(qs)) = Len(qs) - 1
    BY <1>1, <1>3, <1>4
  <2>2. ASSUME NEW i \in 1 .. Len(qs) - 1 PROVE Tail(qs1)[i] = Tail(qs)[i]
    <3>1. Tail(qs1)[i] = qs1[i + 1] /\ Tail(qs)[i] = qs[i + 1]
      BY <1>1, <1>3, <1>4
    <3>2. i + 1 \in DOMAIN qs /\ i + 1 # 1
      BY <1>1
    <3> QED BY <3>1, <3>2
  <2> QED BY <2>1, <2>2, <1>1
<1> QED BY <1>3, <1>4, <1>5

\* The queue whose current request waits for DRAM.
LEMMA Waits1Queue ==
    ASSUME NEW qs \in Seq(Reqs), qs # <<>>
    PROVE  /\ Waits1(qs) \in Seq(Reqs) /\ Waits1(qs) # <<>>
           /\ Tail(Waits1(qs)) = Tail(qs)
           /\ Head(Waits1(qs)) = [Head(qs) EXCEPT !.wait = TRUE]
<1> DEFINE q1 == [Head(qs) EXCEPT !.wait = TRUE]
<1>1. Head(qs) \in Reqs /\ qs[1] = Head(qs)
  BY QueueHead
<1>2. q1 \in Reqs
  BY <1>1 DEF Reqs
<1>3. Waits1(qs) = [qs EXCEPT ![1] = q1]
  BY <1>1 DEF Waits1
<1> HIDE DEF q1
<1>4. /\ Waits1(qs) \in Seq(Reqs) /\ Waits1(qs) # <<>>
      /\ Tail(Waits1(qs)) = Tail(qs) /\ Head(Waits1(qs)) = q1
  BY <1>2, <1>3, QueueUpdate
<1> QED BY <1>4 DEF q1

\* The queue whose current request waits for the data of the forwarder f.
LEMMA From1Queue ==
    ASSUME NEW qs \in Seq(Reqs), qs # <<>>, NEW f \in Node
    PROVE  /\ From1(qs, f) \in Seq(Reqs) /\ From1(qs, f) # <<>>
           /\ Tail(From1(qs, f)) = Tail(qs)
           /\ Head(From1(qs, f)) = [Head(qs) EXCEPT !.from = f]
<1> DEFINE q1 == [Head(qs) EXCEPT !.from = f]
<1>1. Head(qs) \in Reqs /\ qs[1] = Head(qs)
  BY QueueHead
<1>2. q1 \in Reqs
  BY <1>1 DEF Reqs
<1>3. From1(qs, f) = [qs EXCEPT ![1] = q1]
  BY <1>1 DEF From1
<1> HIDE DEF q1
<1>4. /\ From1(qs, f) \in Seq(Reqs) /\ From1(qs, f) # <<>>
      /\ Tail(From1(qs, f)) = Tail(qs) /\ Head(From1(qs, f)) = q1
  BY <1>2, <1>3, QueueUpdate
<1> QED BY <1>4 DEF q1

\* The queue whose current request keeps the data b.
LEMMA Buf1Queue ==
    ASSUME NEW qs \in Seq(Reqs), qs # <<>>, NEW b \in Bufs
    PROVE  /\ Buf1(qs, b) \in Seq(Reqs) /\ Buf1(qs, b) # <<>>
           /\ Tail(Buf1(qs, b)) = Tail(qs)
           /\ Head(Buf1(qs, b)) = [Head(qs) EXCEPT !.buf = b]
<1> DEFINE q1 == [Head(qs) EXCEPT !.buf = b]
<1>1. Head(qs) \in Reqs /\ qs[1] = Head(qs)
  BY QueueHead
<1>2. q1 \in Reqs
  BY <1>1 DEF Reqs
<1>3. Buf1(qs, b) = [qs EXCEPT ![1] = q1]
  BY <1>1 DEF Buf1
<1> HIDE DEF q1
<1>4. /\ Buf1(qs, b) \in Seq(Reqs) /\ Buf1(qs, b) # <<>>
      /\ Tail(Buf1(qs, b)) = Tail(qs) /\ Head(Buf1(qs, b)) = q1
  BY <1>2, <1>3, QueueUpdate
<1> QED BY <1>4 DEF q1

-----------------------------------------------------------------------------

\* Sequences of length one and zero.
LEMMA Singleton == ASSUME NEW S, NEW x \in S PROVE <<x>> \in Seq(S) /\ <<>> \in Seq(S)
<1>1. <<x>> = Append(<<>>, x)
  OBVIOUS
<1>2. <<>> \in Seq(S)
  OBVIOUS
<1> QED BY <1>1, <1>2

\* sendMsg to the caches of R, the first messages of a handler.
LEMMA SendRes ==
    ASSUME NEW c, NEW e, NEW qs, NEW d, Fresh(c, e, qs, d),
           NEW R \in SUBSET Node, NEW t \in MsgType, NEW b \in Bufs
    PROVE  Res(Send(c, R, t, b), e, qs, d, R, t, b) /\ Send(c, R, t, b).done = FALSE
<1> DEFINE f == [n \in Node |-> IF n \in R THEN Append(c.out[n], [type |-> t, buf |-> b])
                                            ELSE c.out[n]]
           c1 == Send(c, R, t, b)
<1>1. c \in Contexts /\ \A n \in Node : c.out[n] = <<>>
  BY DEF Fresh, Res, OutTo
<1>2. c1 = [c EXCEPT !.out = f]
  BY DEF Send, Check
<1>3. Message(t, b) \in Msg /\ Append(<<>>, Message(t, b)) = <<Message(t, b)>>
  BY DEF Msg, Message
<1>4. \A n \in Node : f[n] = IF n \in R THEN <<Message(t, b)>> ELSE <<>>
  BY <1>1, <1>3 DEF Message
<1>7. <<Message(t, b)>> \in Seq(Msg) /\ <<>> \in Seq(Msg)
  BY <1>3, Singleton
<1>8. f = [n \in Node |-> f[n]]
  OBVIOUS
<1> HIDE DEF f, c1
<1>5. f \in [Node -> Seq(Msg)]
  BY <1>4, <1>7, <1>8
<1>6. /\ c1 \in Contexts
      /\ c1.entry = c.entry /\ c1.queue = c.queue /\ c1.dram = c.dram /\ c1.done = c.done
      /\ c1.gone = c.gone /\ c1.failed = c.failed /\ c1.out = f
  BY <1>1, <1>2, <1>5 DEF Contexts
<1> QED BY <1>4, <1>6 DEF Fresh, Res, OutTo, c1

\* processNextReqFromL2Cache marks the current request as done.
LEMMA NextRes ==
    ASSUME NEW c, NEW e, NEW qs, NEW d, NEW R, NEW t, NEW b, Res(c, e, qs, d, R, t, b), qs # <<>>
    PROVE  Res(ProcessNext(c), e, qs, d, R, t, b) /\ ProcessNext(c).done = TRUE
BY DEF Res, ProcessNext, Check, Contexts, OutTo

\* An entry without sharers gets its new owner.
LEMMA TakeOverRes ==
    ASSUME NEW c, NEW e, NEW qs, NEW d, Fresh(c, e, qs, d), config \in Config,
           e.sharers = {}, NEW z \in Node, NEW ds \in DState
    PROVE  Fresh(TakeOver(c, z, ds), EntryWith(ds, {z}, z, e.forwarder), qs, d)
<1> DEFINE c1 == [c EXCEPT !.entry.sharers = @ \cup {z}, !.entry.owner = z, !.entry.dstate = ds]
<1>0. c \in Contexts /\ c.entry = e /\ e \in Entry
  BY DEF Fresh, Res, Contexts
<1>1. Cardinality({}) = 0 /\ MaxHwSharers > 0
  BY ConstantsAssumption, FS_EmptySet DEF MaxHwSharers
<1>2. NumSharers(c) < MaxHwSharers /\ z \notin c.entry.sharers
  BY <1>0, <1>1 DEF NumSharers
<1>3. TakeOver(c, z, ds) = c1
  BY <1>2 DEF TakeOver, Check
<1>4. c1 \in Contexts
  <2>1. c \in Contexts
    BY <1>0
  <2> QED BY <2>1 DEF Contexts, Entry
<1>5. /\ c1.entry.dstate = ds /\ c1.entry.sharers = {z} /\ c1.entry.owner = z
      /\ c1.entry.forwarder = e.forwarder
      /\ c1.queue = c.queue /\ c1.dram = c.dram /\ c1.done = c.done
      /\ c1.gone = c.gone /\ c1.failed = c.failed /\ c1.out = c.out
  BY <1>0 DEF Contexts, Entry
<1> HIDE DEF c1
<1>6. c1.entry = EntryWith(ds, {z}, z, e.forwarder)
  BY <1>4, <1>5 DEF Contexts, Entry, EntryWith
<1>7. Fresh(c1, EntryWith(ds, {z}, z, e.forwarder), qs, d)
  BY <1>4, <1>5, <1>6 DEF Fresh, Res, OutTo
<1> QED BY <1>3, <1>7

\* retrieveDataAndSendToL2Cache with the data at hand answers the requester.
LEMMA RetrieveData ==
    ASSUME NEW c, NEW e, NEW qs, NEW d, Fresh(c, e, qs, d), qs # <<>>,
           NEW t \in MsgType, NEW z \in Node, NEW b \in Bufs, b # NULL
    PROVE  LET c1 == RetrieveDataAndSendToL2Cache(c, t, z, b)
           IN  /\ Res(c1, EntryWith(e.dstate, e.sharers, e.owner, z), qs, d, {z}, t, b)
               /\ c1.done = TRUE
<1> DEFINE c2 == [c EXCEPT !.entry.forwarder = z]
           c3 == Send(c2, {z}, t, b)
<1>0. c \in Contexts /\ c.entry = e /\ e \in Entry
  BY DEF Fresh, Res, Contexts
<1>1. /\ c2 \in Contexts
      /\ c2.entry.dstate = e.dstate /\ c2.entry.sharers = e.sharers /\ c2.entry.owner = e.owner
      /\ c2.entry.forwarder = z
      /\ c2.queue = c.queue /\ c2.dram = c.dram /\ c2.done = c.done
      /\ c2.gone = c.gone /\ c2.failed = c.failed /\ c2.out = c.out
  BY <1>0 DEF Contexts, Entry
<1>2. RetrieveDataAndSendToL2Cache(c, t, z, b) = ProcessNext(c3)
  BY DEF RetrieveDataAndSendToL2Cache
<1> HIDE DEF c2
<1>3. Fresh(c2, EntryWith(e.dstate, e.sharers, e.owner, z), qs, d)
  BY <1>1, EntryFields DEF Fresh, Res, OutTo, Contexts
<1>4. Res(c3, EntryWith(e.dstate, e.sharers, e.owner, z), qs, d, {z}, t, b)
  BY <1>3, SendRes
<1> HIDE DEF c3
<1> QED BY <1>2, <1>4, NextRes

\* retrieveDataAndSendToL2Cache without data and forwarder reads DRAM.
LEMMA RetrieveFromDram ==
    ASSUME NEW c, NEW e, NEW qs, NEW d, Fresh(c, e, qs, d), qs # <<>>, NEW t, NEW z,
           \/ Head(qs).from # INVALID_CORE_ID
           \/ Protocol # "MESIF" \/ e.dstate # "SHARED" \/ e.forwarder = INVALID_CORE_ID
    PROVE  Fresh(RetrieveDataAndSendToL2Cache(c, t, z, NULL), e, Waits1(qs),
                 Append(d, Message("DRAM_READ_REQ", NULL)))
<1> DEFINE c1 == [c EXCEPT !.queue[1].wait = TRUE]
           c2 == SendDram(c1, "DRAM_READ_REQ", NULL)
<1>0. c \in Contexts /\ c.entry = e /\ c.queue = qs /\ c.dram = d
  BY DEF Fresh, Res
<1>1. RetrieveDataAndSendToL2Cache(c, t, z, NULL) = c2
  BY <1>0 DEF RetrieveDataAndSendToL2Cache
<1>2. Waits1(qs) \in Seq(Reqs)
  BY <1>0, Waits1Queue DEF Contexts
<1>3. /\ c1.entry = c.entry /\ c1.queue = Waits1(qs) /\ c1.dram = c.dram /\ c1.done = c.done
      /\ c1.gone = c.gone /\ c1.failed = c.failed /\ c1.out = c.out
  <2>1. c \in Contexts
    BY <1>0
  <2>2. /\ c1.entry = c.entry /\ c1.dram = c.dram /\ c1.done = c.done
        /\ c1.gone = c.gone /\ c1.failed = c.failed /\ c1.out = c.out
        /\ c1.queue = [c.queue EXCEPT ![1].wait = TRUE]
    BY <2>1 DEF Contexts
  <2> QED BY <2>2, <1>0 DEF Waits1
<1>4. c1 \in Contexts
  <2> DEFINE x == c1.queue
  <2>1. c1 = [c EXCEPT !.queue = x]
    BY <1>0 DEF Contexts
  <2> HIDE DEF c1
  <2>2. x \in Seq(Reqs)
    BY <1>2, <1>3
  <2> HIDE DEF x
  <2> QED BY <1>0, <2>1, <2>2 DEF Contexts
<1> HIDE DEF c1
<1>5. Message("DRAM_READ_REQ", NULL) \in Msg
  BY DEF Msg, Message, Bufs, MsgType
<1>6. Append(d, Message("DRAM_READ_REQ", NULL)) \in Seq(Msg)
  BY <1>0, <1>5 DEF Contexts
<1>7. /\ c2.entry = c.entry /\ c2.queue = Waits1(qs) /\ c2.done = c.done
      /\ c2.gone = c.gone /\ c2.failed = c.failed /\ c2.out = c.out
      /\ c2.dram = Append(d, Message("DRAM_READ_REQ", NULL))
      /\ c2 \in Contexts
  BY <1>0, <1>3, <1>4, <1>6 DEF Contexts, SendDram, Message
<1> HIDE DEF c2
<1> QED BY <1>0, <1>1, <1>7 DEF Fresh, Res, OutTo

\* retrieveDataAndSendToL2Cache without data asks the forwarder (MESIF).
LEMMA RetrieveFromForwarder ==
    ASSUME NEW c, NEW e, NEW qs, NEW d, Fresh(c, e, qs, d), qs # <<>>, NEW t, NEW z,
           Head(qs).from = INVALID_CORE_ID,
           Protocol = "MESIF", e.dstate = "SHARED", e.forwarder \in Node
    PROVE  LET c1 == RetrieveDataAndSendToL2Cache(c, t, z, NULL)
           IN  /\ Res(c1, e, From1(qs, e.forwarder), d, {e.forwarder}, "WB_REQ", NULL)
               /\ c1.done = FALSE
<1> DEFINE c1 == [c EXCEPT !.queue[1].from = e.forwarder]
<1>0. c \in Contexts /\ c.entry = e /\ c.queue = qs
  BY DEF Fresh, Res
<1>1. e.forwarder # INVALID_CORE_ID
  BY DEF Node, INVALID_CORE_ID
<1>2. RetrieveDataAndSendToL2Cache(c, t, z, NULL) = Send(c1, {e.forwarder}, "WB_REQ", NULL)
  BY <1>0, <1>1 DEF RetrieveDataAndSendToL2Cache
<1>3. From1(qs, e.forwarder) \in Seq(Reqs)
  BY <1>0, From1Queue DEF Contexts
<1>4. /\ c1.entry = c.entry /\ c1.queue = From1(qs, e.forwarder) /\ c1.dram = c.dram
      /\ c1.done = c.done /\ c1.gone = c.gone /\ c1.failed = c.failed /\ c1.out = c.out
  <2>1. c \in Contexts
    BY <1>0
  <2>2. /\ c1.entry = c.entry /\ c1.dram = c.dram /\ c1.done = c.done
        /\ c1.gone = c.gone /\ c1.failed = c.failed /\ c1.out = c.out
        /\ c1.queue = [c.queue EXCEPT ![1].from = e.forwarder]
    BY <2>1 DEF Contexts
  <2> QED BY <2>2, <1>0 DEF From1
<1>5. c1 \in Contexts
  <2> DEFINE x == c1.queue
  <2>1. c1 = [c EXCEPT !.queue = x]
    BY <1>0 DEF Contexts
  <2> HIDE DEF c1
  <2>2. x \in Seq(Reqs)
    BY <1>3, <1>4
  <2> HIDE DEF x
  <2> QED BY <1>0, <2>1, <2>2 DEF Contexts
<1> HIDE DEF c1
<1>6. Fresh(c1, e, From1(qs, e.forwarder), d)
  BY <1>0, <1>4, <1>5 DEF Fresh, Res, OutTo
<1>7. NULL \in Bufs /\ "WB_REQ" \in MsgType /\ {e.forwarder} \in SUBSET Node
  BY DEF Bufs, MsgType, CacheMsgType
<1> DEFINE c2 == Send(c1, {e.forwarder}, "WB_REQ", NULL)
<1>8. Res(c2, e, From1(qs, e.forwarder), d, {e.forwarder}, "WB_REQ", NULL) /\ c2.done = FALSE
  BY <1>6, <1>7, SendRes
<1> HIDE DEF c2
<1> QED BY <1>2, <1>8 DEF c2

-----------------------------------------------------------------------------
(* Requests.                                                                *)

\* The types of the messages for cache n in a context.
Sent(c, n) == {c.out[n][i].type : i \in DOMAIN c.out[n]}
\* The mode of the line after a handler that leaves its request in the queue.
ModeAfter(c) == IF c.done THEN "done" ELSE "active"

\* Whatever the cache n holds and whatever is on its way: when the home turns entry e, mode
\* and current request q into e1, mode1 and q1 and sends n messages of types T, the
\* invariant of n is kept.
Sends(n, e, mode, q, r, e1, mode1, q1, T) ==
    \A a, l, w, dr, s, s1, d :
        /\ NodeInv(n, a, e, mode, q, r, l, w, dr, s, d)
        /\ Appended(s, s1, a, T)
        => NodeInv(n, a, e1, mode1, q1, r, l, w, dr, s1, d)

\* The messages of a context are of the protocol: one for a cache, with data if it needs it.
OutOK(c) ==
    \A n \in Node :
        \/ c.out[n] = <<>>
        \/ \E t \in CacheMsgType, b \in Bufs :
              /\ c.out[n] = <<Message(t, b)>>
              /\ t \in {"EX_REP", "SH_REP"} => b # NULL

\* The handler of the current request of queue qs and entry e, with messages d to DRAM before it,
\* leaves what the invariant wants in context c, whatever the caches hold.
Handled(c, e, qs, d) ==
    /\ c \in Contexts /\ c.gone = FALSE /\ c.failed = {}
    /\ c.queue # <<>> /\ Tail(c.queue) = Tail(qs)
    /\ HomeInv(c.entry, ModeAfter(c), Head(c.queue), Protocol)
    /\ \/ c.dram = d
       \/ /\ c.dram = Append(d, Message("DRAM_READ_REQ", NULL))
          /\ c.done = FALSE /\ Head(c.queue).wait = TRUE
    /\ OutOK(c)
    /\ \A n \in Node : Sends(n, e, "ready", Head(qs), Tail(qs),
                             c.entry, ModeAfter(c), Head(c.queue), Sent(c, n))

\* What a request about to be processed says of its requester.
ReqOK(e, q) ==
    /\ q.type \in {"SH_REQ", "EX_REQ"} => q.requester \notin e.sharers
    /\ q.type = "UPGRADE_REQ" /\ q.requester \in e.sharers => e.dstate = "SHARED"

\* The types of the messages in a context that holds one.
LEMMA SentOne ==
    ASSUME NEW c, NEW n, NEW t, NEW b, c.out[n] = <<Message(t, b)>>
    PROVE  Sent(c, n) = {t}
<1> DEFINE o == <<Message(t, b)>>
<1>1. c.out[n] = o
  OBVIOUS
<1>2. DOMAIN o = {1} /\ o[1].type = t
  BY DEF Message
<1> HIDE DEF o
<1>3. Sent(c, n) = {o[i].type : i \in {1}}
  BY <1>1, <1>2 DEF Sent
<1> QED BY <1>2, <1>3

\* The types of the messages in a context that holds the same message for the caches of R.
LEMMA SentTo ==
    ASSUME NEW c, NEW R, NEW t, NEW b, OutTo(c, R, t, b)
    PROVE  \A n \in Node : Sent(c, n) = IF n \in R THEN {t} ELSE {}
<1> SUFFICES ASSUME NEW n \in Node PROVE Sent(c, n) = IF n \in R THEN {t} ELSE {}
  OBVIOUS
<1>1. CASE n \in R
  <2> DEFINE o == <<Message(t, b)>>
  <2>1. c.out[n] = o
    BY <1>1 DEF OutTo
  <2>2. DOMAIN o = {1} /\ o[1].type = t
    BY DEF Message
  <2> HIDE DEF o
  <2>3. Sent(c, n) = {o[i].type : i \in {1}}
    BY <2>1, <2>2 DEF Sent
  <2> QED BY <2>2, <2>3, <1>1
<1>2. CASE n \notin R
  <2>1. c.out[n] = <<>>
    BY <1>2 DEF OutTo
  <2>2. DOMAIN << >> = {}
    OBVIOUS
  <2> QED BY <2>1, <2>2, <1>2 DEF Sent
<1> QED BY <1>1, <1>2

\* A context with the same message for the caches of R holds messages of the protocol.
LEMMA OutToOK ==
    ASSUME NEW c, NEW R, NEW t \in CacheMsgType, NEW b \in Bufs, OutTo(c, R, t, b),
           t \in {"EX_REP", "SH_REP"} => b # NULL
    PROVE  OutOK(c)
BY DEF OutOK, OutTo

\* A handler that leaves entry e1 and queue qs1 and sends t to R has handled the request if
\* the home's and each cache's part of the invariant hold of what it leaves.
LEMMA HandledRes ==
    ASSUME NEW c, NEW e, NEW qs, NEW d, NEW e1, NEW qs1, NEW d1,
           NEW R, NEW t \in CacheMsgType, NEW b \in Bufs,
           Res(c, e1, qs1, d1, R, t, b),
           t \in {"EX_REP", "SH_REP"} => b # NULL,
           qs1 # <<>>, Tail(qs1) = Tail(qs),
           HomeInv(e1, ModeAfter(c), Head(qs1), Protocol),
           \/ d1 = d
           \/ /\ d1 = Append(d, Message("DRAM_READ_REQ", NULL))
              /\ c.done = FALSE /\ Head(qs1).wait = TRUE,
           \A n \in Node : Sends(n, e, "ready", Head(qs), Tail(qs), e1, ModeAfter(c), Head(qs1),
                                 IF n \in R THEN {t} ELSE {})
    PROVE  Handled(c, e, qs, d)
<1>1. /\ c \in Contexts /\ c.gone = FALSE /\ c.failed = {} /\ c.entry = e1 /\ c.queue = qs1
      /\ c.dram = d1 /\ OutTo(c, R, t, b)
  BY DEF Res
<1>2. OutOK(c)
  BY <1>1, OutToOK
<1>3. \A n \in Node : Sent(c, n) = IF n \in R THEN {t} ELSE {}
  BY <1>1, SentTo
<1> QED BY <1>1, <1>2, <1>3 DEF Handled

\* The same for a request that waits for DRAM.
LEMMA HandledWait ==
    ASSUME NEW c, NEW e, NEW qs, NEW d, NEW e1, NEW qs1,
           Fresh(c, e1, qs1, Append(d, Message("DRAM_READ_REQ", NULL))),
           qs1 # <<>>, Tail(qs1) = Tail(qs), Head(qs1).wait = TRUE,
           HomeInv(e1, ModeAfter(c), Head(qs1), Protocol),
           \A n \in Node : Sends(n, e, "ready", Head(qs), Tail(qs), e1, ModeAfter(c), Head(qs1), {})
    PROVE  Handled(c, e, qs, d)
<1>1. /\ c \in Contexts /\ c.gone = FALSE /\ c.failed = {} /\ c.entry = e1 /\ c.queue = qs1
      /\ c.dram = Append(d, Message("DRAM_READ_REQ", NULL)) /\ c.done = FALSE
      /\ \A n \in Node : c.out[n] = <<>>
  BY DEF Res, Fresh, OutTo
<1>2. OutOK(c)
  BY <1>1 DEF OutOK
<1>3. \A n \in Node : Sent(c, n) = {}
  BY <1>1 DEF Sent
<1> QED BY <1>1, <1>2, <1>3 DEF Handled

\* What is known at the start of a handler.
LEMMA FreshFacts ==
    ASSUME NEW c, NEW e, NEW qs, NEW d, Fresh(c, e, qs, d), qs # <<>>
    PROVE  /\ c \in Contexts /\ c.entry = e /\ c.queue = qs /\ e \in Entry
           /\ qs \in Seq(Reqs) /\ Head(qs) \in Reqs /\ Head(qs).requester \in Node
           /\ Res(c, e, qs, d, {}, "INV_REQ", NULL) /\ c.done = FALSE
           /\ "INV_REQ" \in CacheMsgType /\ NULL \in Bufs
           /\ CacheMsgType \subseteq MsgType
<1>1. c \in Contexts /\ c.entry = e /\ c.queue = qs /\ e \in Entry /\ qs \in Seq(Reqs)
  BY DEF Fresh, Res, Contexts
<1>2. Head(qs) \in Reqs
  BY <1>1, QueueHead
<1>3. Head(qs).requester \in Node
  BY <1>2 DEF Reqs
<1> QED BY <1>1, <1>2, <1>3 DEF Fresh, Res, OutTo, CacheMsgType, Bufs, MsgType

\* processExReqFromL2Cache, the line is owned by another cache.
LEMMA ExReqOwned ==
    ASSUME NEW c, NEW e, NEW qs, NEW d, Fresh(c, e, qs, d), qs # <<>>, config \in Config,
           HomeInv(e, "ready", Head(qs), Protocol), ReqOK(e, Head(qs)),
           Head(qs).type = "EX_REQ", Owned(e)
    PROVE  Handled(ProcessExReq(c, NULL), e, qs, d)
<1> DEFINE q == Head(qs)
           c1 == Send(c, {e.owner}, "FLUSH_REQ", NULL)
<1>0. c.entry = e /\ c.queue = qs /\ e \in Entry /\ NULL \in Bufs /\ "FLUSH_REQ" \in CacheMsgType
      /\ "FLUSH_REQ" \in MsgType
  BY FreshFacts DEF CacheMsgType
<1>1. ProcessExReq(c, NULL) = c1
  BY <1>0 DEF ProcessExReq, Check, Owned
<1>2. {e.owner} \in SUBSET Node
  BY <1>0 DEF HomeInv, EntryOK, Owned, Entry
<1>3. Res(c1, e, qs, d, {e.owner}, "FLUSH_REQ", NULL) /\ c1.done = FALSE
  BY <1>0, <1>2, SendRes
<1> HIDE DEF c1
<1>6. ModeAfter(c1) = "active"
  BY <1>3 DEF ModeAfter
<1>4. HomeInv(e, ModeAfter(c1), q, Protocol)
  BY <1>6 DEF HomeInv, ActiveOK, EntryOK, Owned, ReqOK
<1>5. ASSUME NEW n \in Node
      PROVE  Sends(n, e, "ready", q, Tail(qs), e, ModeAfter(c1), q, IF n \in {e.owner} THEN {"FLUSH_REQ"} ELSE {})
  BY <1>6, FlushOwnerStep DEF ReqOK, Sends
<1>7. Handled(c1, e, qs, d)
  BY <1>0, <1>3, <1>4, <1>5, HandledRes
<1> QED BY <1>1, <1>7

\* processExReqFromL2Cache, the line is SHARED.
LEMMA ExReqShared ==
    ASSUME NEW c, NEW e, NEW qs, NEW d, Fresh(c, e, qs, d), qs # <<>>, config \in Config,
           HomeInv(e, "ready", Head(qs), Protocol), ReqOK(e, Head(qs)),
           Head(qs).type = "EX_REQ", e.dstate = "SHARED"
    PROVE  Handled(ProcessExReq(c, NULL), e, qs, d)
<1> DEFINE q == Head(qs)
           c1 == Send(c, e.sharers, "INV_REQ", NULL)
<1>0. c.entry = e /\ c.queue = qs /\ e \in Entry /\ NULL \in Bufs /\ "INV_REQ" \in CacheMsgType
      /\ "INV_REQ" \in MsgType
  BY FreshFacts DEF CacheMsgType
<1>1. ProcessExReq(c, NULL) = c1
  BY <1>0 DEF ProcessExReq, Check
<1>2. e.sharers \in SUBSET Node
  BY <1>0 DEF HomeInv, EntryOK, Owned, Entry
<1>3. Res(c1, e, qs, d, e.sharers, "INV_REQ", NULL) /\ c1.done = FALSE
  BY <1>0, <1>2, SendRes
<1> HIDE DEF c1
<1>6. ModeAfter(c1) = "active"
  BY <1>3 DEF ModeAfter
<1>4. HomeInv(e, ModeAfter(c1), q, Protocol)
  BY <1>6 DEF HomeInv, ActiveOK, EntryOK, Owned, ReqOK
<1>5. ASSUME NEW n \in Node
      PROVE  Sends(n, e, "ready", q, Tail(qs), e, ModeAfter(c1), q, IF n \in e.sharers THEN {"INV_REQ"} ELSE {})
  BY <1>6, InvSharersStep DEF ReqOK, Sends
<1>7. Handled(c1, e, qs, d)
  BY <1>0, <1>3, <1>4, <1>5, HandledRes
<1> QED BY <1>1, <1>7

\* processShReqFromL2Cache, the line is owned by another cache.
LEMMA ShReqOwned ==
    ASSUME NEW c, NEW e, NEW qs, NEW d, Fresh(c, e, qs, d), qs # <<>>, NEW victim, config \in Config,
           HomeInv(e, "ready", Head(qs), Protocol), ReqOK(e, Head(qs)),
           Head(qs).type = "SH_REQ", Owned(e)
    PROVE  Handled(ProcessShReq(c, NULL, victim), e, qs, d)
<1> DEFINE q == Head(qs)
           c1 == Send(c, {e.owner}, "WB_REQ", NULL)
<1>0. c.entry = e /\ c.queue = qs /\ e \in Entry /\ NULL \in Bufs /\ "WB_REQ" \in CacheMsgType
      /\ "WB_REQ" \in MsgType
  BY FreshFacts DEF CacheMsgType
<1>1. ProcessShReq(c, NULL, victim) = c1
  <2>1. q.requester # e.owner
    BY DEF ReqOK, HomeInv, EntryOK
  <2>2. CASE e.dstate = "EXCLUSIVE"
    BY <1>0, <2>1, <2>2 DEF ProcessShReq, Check
  <2>3. CASE e.dstate = "MODIFIED"
    BY <1>0, <2>3 DEF ProcessShReq, Check
  <2> QED BY <2>2, <2>3 DEF Owned
<1>2. {e.owner} \in SUBSET Node
  BY <1>0 DEF HomeInv, EntryOK, Owned, Entry
<1>3. Res(c1, e, qs, d, {e.owner}, "WB_REQ", NULL) /\ c1.done = FALSE
  BY <1>0, <1>2, SendRes
<1> HIDE DEF c1
<1>6. ModeAfter(c1) = "active"
  BY <1>3 DEF ModeAfter
<1>4. HomeInv(e, ModeAfter(c1), q, Protocol)
  BY <1>6 DEF HomeInv, ActiveOK, EntryOK, Owned, ReqOK
<1>5. ASSUME NEW n \in Node
      PROVE  Sends(n, e, "ready", q, Tail(qs), e, ModeAfter(c1), q, IF n \in {e.owner} THEN {"WB_REQ"} ELSE {})
  BY <1>6, WbOwnerStep DEF ReqOK, Sends
<1>7. Handled(c1, e, qs, d)
  BY <1>0, <1>3, <1>4, <1>5, HandledRes
<1> QED BY <1>1, <1>7

\* processExReqFromL2Cache, the line is UNCACHED and its data in DRAM.
LEMMA ExReqFromDram ==
    ASSUME NEW c, NEW e, NEW qs, NEW d, Fresh(c, e, qs, d), qs # <<>>, config \in Config,
           HomeInv(e, "ready", Head(qs), Protocol), ReqOK(e, Head(qs)),
           Head(qs).type = "EX_REQ", e.dstate = "UNCACHED"
    PROVE  Handled(ProcessExReq(c, NULL), e, qs, d)
<1> DEFINE q == Head(qs)
           z == q.requester
           c0 == TakeOver(c, z, "MODIFIED")
           e1 == EntryWith("MODIFIED", {z}, z, e.forwarder)
           qs1 == Waits1(qs)
           d1 == Append(d, Message("DRAM_READ_REQ", NULL))
           c1 == RetrieveDataAndSendToL2Cache(c0, "EX_REP", z, NULL)
<1>0. /\ c.entry = e /\ c.queue = qs /\ e \in Entry /\ qs \in Seq(Reqs) /\ q \in Reqs
      /\ z \in Node /\ e.sharers = {} /\ "INV_REQ" \in CacheMsgType /\ NULL \in Bufs
      /\ "MODIFIED" \in DState
  BY FreshFacts DEF HomeInv, EntryOK, DState
<1>1. ProcessExReq(c, NULL) = c1
  BY <1>0 DEF ProcessExReq
<1>2. Fresh(c0, e1, qs, d)
  BY <1>0, TakeOverRes
<1>3. e1.dstate = "MODIFIED" /\ e1.sharers = {z} /\ e1.owner = z /\ e1.forwarder = e.forwarder
  BY DEF EntryWith
<1> HIDE DEF c0, e1
<1>4. Fresh(c1, e1, qs1, d1)
  BY <1>2, <1>3, RetrieveFromDram
<1> HIDE DEF c1
<1>5. /\ qs1 # <<>> /\ Tail(qs1) = Tail(qs) /\ Head(qs1) = [q EXCEPT !.wait = TRUE]
  BY <1>0, Waits1Queue
<1>6. /\ Head(qs1).type = q.type /\ Head(qs1).requester = z /\ Head(qs1).wait = TRUE
      /\ Head(qs1).from = q.from /\ q.from = INVALID_CORE_ID
  BY <1>0, <1>5 DEF Reqs, HomeInv
<1> HIDE DEF qs1, d1
<1>8. ModeAfter(c1) = "active"
  BY <1>4 DEF ModeAfter, Fresh
<1>9. HomeInv(e1, ModeAfter(c1), Head(qs1), Protocol)
  BY <1>0, <1>3, <1>6, <1>8 DEF HomeInv, ActiveOK, EntryOK, Owned
<1>10. ASSUME NEW n \in Node
       PROVE  Sends(n, e, "ready", q, Tail(qs), e1, ModeAfter(c1), Head(qs1), {})
  <2> SUFFICES ASSUME NEW a, NEW l, NEW w, NEW dr, NEW s, NEW s1, NEW dd,
                      NodeInv(n, a, e, "ready", q, Tail(qs), l, w, dr, s, dd),
                      Appended(s, s1, a, {})
               PROVE  NodeInv(n, a, e1, "active", Head(qs1), Tail(qs), l, w, dr, s1, dd)
    BY <1>8 DEF Sends
  <2>1. NodeInv(n, a, e1, "active", Head(qs1), Tail(qs), l, w, dr, s, dd)
    BY <1>3, <1>6, GrantWaitStep
  <2> QED BY <2>1, RemovedSame, OtherEntryStep
<1>11. Handled(c1, e, qs, d)
  BY <1>4, <1>5, <1>6, <1>9, <1>10, HandledWait DEF d1
<1> QED BY <1>1, <1>11

\* processExReqFromL2Cache, the line is UNCACHED and its data was flushed.
LEMMA ExReqWithData ==
    ASSUME NEW c, NEW e, NEW qs, NEW d, Fresh(c, e, qs, d), qs # <<>>, config \in Config,
           HomeInv(e, "ready", Head(qs), Protocol), ReqOK(e, Head(qs)),
           Head(qs).type = "EX_REQ", e.dstate = "UNCACHED",
           NEW b \in Bufs, b # NULL
    PROVE  Handled(ProcessExReq(c, b), e, qs, d)
<1> DEFINE q == Head(qs)
           z == q.requester
           c0 == TakeOver(c, z, "MODIFIED")
           e0 == EntryWith("MODIFIED", {z}, z, e.forwarder)
           e1 == EntryWith("MODIFIED", {z}, z, z)
           c1 == RetrieveDataAndSendToL2Cache(c0, "EX_REP", z, b)
<1>0. /\ c.entry = e /\ c.queue = qs /\ e \in Entry /\ qs \in Seq(Reqs) /\ q \in Reqs
      /\ z \in Node /\ e.sharers = {} /\ "EX_REP" \in CacheMsgType /\ NULL \in Bufs
      /\ "MODIFIED" \in DState /\ "EX_REP" \in MsgType
  BY FreshFacts DEF HomeInv, EntryOK, DState, CacheMsgType
<1>1. ProcessExReq(c, b) = c1
  BY <1>0 DEF ProcessExReq
<1>2. Fresh(c0, e0, qs, d)
  BY <1>0, TakeOverRes
<1>3. /\ e1.dstate = "MODIFIED" /\ e1.sharers = {z} /\ e1.owner = z /\ e1.forwarder = z
      /\ e1 = EntryWith(e0.dstate, e0.sharers, e0.owner, z)
  BY DEF EntryWith
<1> HIDE DEF c0, e0, e1
<1>4. Res(c1, e1, qs, d, {z}, "EX_REP", b) /\ c1.done = TRUE
  BY <1>0, <1>2, <1>3, RetrieveData
<1> HIDE DEF c1
<1>5. ModeAfter(c1) = "done"
  BY <1>4 DEF ModeAfter
<1>6. HomeInv(e1, ModeAfter(c1), q, Protocol)
  BY <1>0, <1>3, <1>5 DEF HomeInv, ActiveOK, EntryOK, Owned, Node, UNINITIALISED
<1>7. ASSUME NEW n \in Node
      PROVE  Sends(n, e, "ready", q, Tail(qs), e1, ModeAfter(c1), q, IF n \in {z} THEN {"EX_REP"} ELSE {})
  <2> SUFFICES ASSUME NEW a, NEW l, NEW w, NEW dr, NEW s, NEW s1, NEW dd,
                      NodeInv(n, a, e, "ready", q, Tail(qs), l, w, dr, s, dd),
                      Appended(s, s1, a, IF n = q.requester THEN {"EX_REP"} ELSE {})
               PROVE  NodeInv(n, a, e1, "done", q, Tail(qs), l, w, dr, s1, dd)
    BY <1>5 DEF Sends
  <2> QED BY <1>3, GrantDataStep
<1>8. Handled(c1, e, qs, d)
  BY <1>0, <1>4, <1>6, <1>7, HandledRes
<1> QED BY <1>1, <1>8

\* processShReqFromL2Cache (MSI), the line is UNCACHED and its data in DRAM.
LEMMA ShReqMsiFromDram ==
    ASSUME NEW c, NEW e, NEW qs, NEW d, Fresh(c, e, qs, d), qs # <<>>, NEW victim, config \in Config,
           HomeInv(e, "ready", Head(qs), Protocol), ReqOK(e, Head(qs)),
           Head(qs).type = "SH_REQ", e.dstate = "UNCACHED", Protocol = "MSI"
    PROVE  Handled(ProcessShReq(c, NULL, victim), e, qs, d)
<1> DEFINE q == Head(qs)
           z == q.requester
           c0 == TakeOver(c, z, "SHARED")
           e1 == EntryWith("SHARED", {z}, z, e.forwarder)
           qs1 == Waits1(qs)
           d1 == Append(d, Message("DRAM_READ_REQ", NULL))
           c1 == RetrieveDataAndSendToL2Cache(c0, "SH_REP", z, NULL)
<1>0. /\ c.entry = e /\ c.queue = qs /\ e \in Entry /\ qs \in Seq(Reqs) /\ q \in Reqs
      /\ z \in Node /\ e.sharers = {} /\ "INV_REQ" \in CacheMsgType /\ NULL \in Bufs
      /\ "SHARED" \in DState
  <2>1. /\ c.entry = e /\ c.queue = qs /\ e \in Entry /\ qs \in Seq(Reqs) /\ q \in Reqs
        /\ z \in Node /\ "INV_REQ" \in CacheMsgType /\ NULL \in Bufs
    BY FreshFacts
  <2>2. e.sharers = {} /\ "SHARED" \in DState
    BY DEF HomeInv, EntryOK, DState
  <2> QED BY <2>1, <2>2
<1>1. ProcessShReq(c, NULL, victim) = c1
  BY <1>0 DEF ProcessShReq
<1>2. Fresh(c0, e1, qs, d)
  BY <1>0, TakeOverRes
<1>3. e1.dstate = "SHARED" /\ e1.sharers = {z} /\ e1.owner = z /\ e1.forwarder = e.forwarder
  BY DEF EntryWith
<1> HIDE DEF c0, e1
<1>4. Fresh(c1, e1, qs1, d1)
  BY <1>2, <1>3, RetrieveFromDram
<1> HIDE DEF c1
<1>5. /\ qs1 # <<>> /\ Tail(qs1) = Tail(qs) /\ Head(qs1) = [q EXCEPT !.wait = TRUE]
  BY <1>0, Waits1Queue
<1>6. /\ Head(qs1).type = q.type /\ Head(qs1).requester = z /\ Head(qs1).wait = TRUE
      /\ Head(qs1).from = q.from /\ q.from = INVALID_CORE_ID
  BY <1>0, <1>5 DEF Reqs, HomeInv
<1> HIDE DEF qs1, d1
<1>8. ModeAfter(c1) = "active"
  BY <1>4 DEF ModeAfter, Fresh
<1>9. HomeInv(e1, ModeAfter(c1), Head(qs1), Protocol)
  BY <1>0, <1>3, <1>6, <1>8 DEF HomeInv, ActiveOK, EntryOK, Owned
<1>10. ASSUME NEW n \in Node
       PROVE  Sends(n, e, "ready", q, Tail(qs), e1, ModeAfter(c1), Head(qs1), {})
  <2> SUFFICES ASSUME NEW a, NEW l, NEW w, NEW dr, NEW s, NEW s1, NEW dd,
                      NodeInv(n, a, e, "ready", q, Tail(qs), l, w, dr, s, dd),
                      Appended(s, s1, a, {})
               PROVE  NodeInv(n, a, e1, "active", Head(qs1), Tail(qs), l, w, dr, s1, dd)
    BY <1>8 DEF Sends
  <2>1. NodeInv(n, a, e1, "active", Head(qs1), Tail(qs), l, w, dr, s, dd)
    BY <1>3, <1>6, GrantWaitStep
  <2> QED BY <2>1, RemovedSame, OtherEntryStep
<1>11. Handled(c1, e, qs, d)
  BY <1>4, <1>5, <1>6, <1>9, <1>10, HandledWait DEF d1
<1> QED BY <1>1, <1>11

\* processShReqFromL2Cache (MSI), the line is UNCACHED and its data was flushed.
LEMMA ShReqMsiWithData ==
    ASSUME NEW c, NEW e, NEW qs, NEW d, Fresh(c, e, qs, d), qs # <<>>, NEW victim, config \in Config,
           HomeInv(e, "ready", Head(qs), Protocol), ReqOK(e, Head(qs)),
           Head(qs).type = "SH_REQ", e.dstate = "UNCACHED", Protocol = "MSI",
           NEW b \in Bufs, b # NULL
    PROVE  Handled(ProcessShReq(c, b, victim), e, qs, d)
<1> DEFINE q == Head(qs)
           z == q.requester
           c0 == TakeOver(c, z, "SHARED")
           e0 == EntryWith("SHARED", {z}, z, e.forwarder)
           e1 == EntryWith("SHARED", {z}, z, z)
           c1 == RetrieveDataAndSendToL2Cache(c0, "SH_REP", z, b)
<1>0. /\ c.entry = e /\ c.queue = qs /\ e \in Entry /\ qs \in Seq(Reqs) /\ q \in Reqs
      /\ z \in Node /\ e.sharers = {} /\ "SH_REP" \in CacheMsgType /\ NULL \in Bufs
      /\ "SHARED" \in DState /\ "SH_REP" \in MsgType
  BY FreshFacts DEF HomeInv, EntryOK, DState, CacheMsgType
<1>1. ProcessShReq(c, b, victim) = c1
  BY <1>0 DEF ProcessShReq
<1>2. Fresh(c0, e0, qs, d)
  BY <1>0, TakeOverRes
<1>3. /\ e1.dstate = "SHARED" /\ e1.sharers = {z} /\ e1.owner = z /\ e1.forwarder = z
      /\ e1 = EntryWith(e0.dstate, e0.sharers, e0.owner, z)
  BY DEF EntryWith
<1> HIDE DEF c0, e0, e1
<1>4. Res(c1, e1, qs, d, {z}, "SH_REP", b) /\ c1.done = TRUE
  BY <1>0, <1>2, <1>3, RetrieveData
<1> HIDE DEF c1
<1>5. ModeAfter(c1) = "done"
  BY <1>4 DEF ModeAfter
<1>6. HomeInv(e1, ModeAfter(c1), q, Protocol)
  BY <1>0, <1>3, <1>5 DEF HomeInv, ActiveOK, EntryOK, Owned, Node, UNINITIALISED
<1>7. ASSUME NEW n \in Node
      PROVE  Sends(n, e, "ready", q, Tail(qs), e1, ModeAfter(c1), q, IF n \in {z} THEN {"SH_REP"} ELSE {})
  <2> SUFFICES ASSUME NEW a, NEW l, NEW w, NEW dr, NEW s, NEW s1, NEW dd,
                      NodeInv(n, a, e, "ready", q, Tail(qs), l, w, dr, s, dd),
                      Appended(s, s1, a, IF n = q.requester THEN {"SH_REP"} ELSE {})
               PROVE  NodeInv(n, a, e1, "done", q, Tail(qs), l, w, dr, s1, dd)
    BY <1>5 DEF Sends
  <2> QED BY <1>3, GrantDataStep
<1>8. Handled(c1, e, qs, d)
  BY <1>0, <1>4, <1>6, <1>7, HandledRes
<1> QED BY <1>1, <1>8

\* processShReqFromL2Cache (MESI, MESIF), the line is UNCACHED and its data in DRAM.
LEMMA ShReqMesiFromDram ==
    ASSUME NEW c, NEW e, NEW qs, NEW d, Fresh(c, e, qs, d), qs # <<>>, NEW victim, config \in Config,
           HomeInv(e, "ready", Head(qs), Protocol), ReqOK(e, Head(qs)),
           Head(qs).type = "SH_REQ", e.dstate = "UNCACHED", Protocol # "MSI"
    PROVE  Handled(ProcessShReq(c, NULL, victim), e, qs, d)
<1> DEFINE q == Head(qs)
           z == q.requester
           c0 == TakeOver(c, z, "EXCLUSIVE")
           e1 == EntryWith("EXCLUSIVE", {z}, z, e.forwarder)
           qs1 == Waits1(qs)
           d1 == Append(d, Message("DRAM_READ_REQ", NULL))
           c1 == RetrieveDataAndSendToL2Cache(c0, "EX_REP", z, NULL)
<1>0. /\ c.entry = e /\ c.queue = qs /\ e \in Entry /\ qs \in Seq(Reqs) /\ q \in Reqs
      /\ z \in Node /\ e.sharers = {} /\ "INV_REQ" \in CacheMsgType /\ NULL \in Bufs
      /\ "EXCLUSIVE" \in DState
  BY FreshFacts DEF HomeInv, EntryOK, DState
<1>1. ProcessShReq(c, NULL, victim) = c1
  BY <1>0 DEF ProcessShReq
<1>2. Fresh(c0, e1, qs, d)
  BY <1>0, TakeOverRes
<1>3. e1.dstate = "EXCLUSIVE" /\ e1.sharers = {z} /\ e1.owner = z /\ e1.forwarder = e.forwarder
  BY DEF EntryWith
<1> HIDE DEF c0, e1
<1>4. Fresh(c1, e1, qs1, d1)
  BY <1>2, <1>3, RetrieveFromDram
<1> HIDE DEF c1
<1>5. /\ qs1 # <<>> /\ Tail(qs1) = Tail(qs) /\ Head(qs1) = [q EXCEPT !.wait = TRUE]
  BY <1>0, Waits1Queue
<1>6. /\ Head(qs1).type = q.type /\ Head(qs1).requester = z /\ Head(qs1).wait = TRUE
      /\ Head(qs1).from = q.from /\ q.from = INVALID_CORE_ID
  BY <1>0, <1>5 DEF Reqs, HomeInv
<1> HIDE DEF qs1, d1
<1>8. ModeAfter(c1) = "active"
  BY <1>4 DEF ModeAfter, Fresh
<1>9. HomeInv(e1, ModeAfter(c1), Head(qs1), Protocol)
  BY <1>0, <1>3, <1>6, <1>8 DEF HomeInv, ActiveOK, EntryOK, Owned
<1>10. ASSUME NEW n \in Node
       PROVE  Sends(n, e, "ready", q, Tail(qs), e1, ModeAfter(c1), Head(qs1), {})
  <2> SUFFICES ASSUME NEW a, NEW l, NEW w, NEW dr, NEW s, NEW s1, NEW dd,
                      NodeInv(n, a, e, "ready", q, Tail(qs), l, w, dr, s, dd),
                      Appended(s, s1, a, {})
               PROVE  NodeInv(n, a, e1, "active", Head(qs1), Tail(qs), l, w, dr, s1, dd)
    BY <1>8 DEF Sends
  <2>1. NodeInv(n, a, e1, "active", Head(qs1), Tail(qs), l, w, dr, s, dd)
    BY <1>3, <1>6, GrantWaitStep
  <2> QED BY <2>1, RemovedSame, OtherEntryStep
<1>11. Handled(c1, e, qs, d)
  BY <1>4, <1>5, <1>6, <1>9, <1>10, HandledWait DEF d1
<1> QED BY <1>1, <1>11

\* processShReqFromL2Cache (MESI, MESIF), the line is UNCACHED and its data was flushed.
LEMMA ShReqMesiWithData ==
    ASSUME NEW c, NEW e, NEW qs, NEW d, Fresh(c, e, qs, d), qs # <<>>, NEW victim, config \in Config,
           HomeInv(e, "ready", Head(qs), Protocol), ReqOK(e, Head(qs)),
           Head(qs).type = "SH_REQ", e.dstate = "UNCACHED", Protocol # "MSI",
           NEW b \in Bufs, b # NULL
    PROVE  Handled(ProcessShReq(c, b, victim), e, qs, d)
<1> DEFINE q == Head(qs)
           z == q.requester
           c0 == TakeOver(c, z, "EXCLUSIVE")
           e0 == EntryWith("EXCLUSIVE", {z}, z, e.forwarder)
           e1 == EntryWith("EXCLUSIVE", {z}, z, z)
           c1 == RetrieveDataAndSendToL2Cache(c0, "EX_REP", z, b)
<1>0. /\ c.entry = e /\ c.queue = qs /\ e \in Entry /\ qs \in Seq(Reqs) /\ q \in Reqs
      /\ z \in Node /\ e.sharers = {} /\ "EX_REP" \in CacheMsgType /\ NULL \in Bufs
      /\ "EXCLUSIVE" \in DState /\ "EX_REP" \in MsgType
  BY FreshFacts DEF HomeInv, EntryOK, DState, CacheMsgType
<1>1. ProcessShReq(c, b, victim) = c1
  BY <1>0 DEF ProcessShReq
<1>2. Fresh(c0, e0, qs, d)
  BY <1>0, TakeOverRes
<1>3. /\ e1.dstate = "EXCLUSIVE" /\ e1.sharers = {z} /\ e1.owner = z /\ e1.forwarder = z
      /\ e1 = EntryWith(e0.dstate, e0.sharers, e0.owner, z)
  BY DEF EntryWith
<1> HIDE DEF c0, e0, e1
<1>4. Res(c1, e1, qs, d, {z}, "EX_REP", b) /\ c1.done = TRUE
  BY <1>0, <1>2, <1>3, RetrieveData
<1> HIDE DEF c1
<1>5. ModeAfter(c1) = "done"
  BY <1>4 DEF ModeAfter
<1>6. HomeInv(e1, ModeAfter(c1), q, Protocol)
  BY <1>0, <1>3, <1>5 DEF HomeInv, ActiveOK, EntryOK, Owned, Node, UNINITIALISED
<1>7. ASSUME NEW n \in Node
      PROVE  Sends(n, e, "ready", q, Tail(qs), e1, ModeAfter(c1), q, IF n \in {z} THEN {"EX_REP"} ELSE {})
  <2> SUFFICES ASSUME NEW a, NEW l, NEW w, NEW dr, NEW s, NEW s1, NEW dd,
                      NodeInv(n, a, e, "ready", q, Tail(qs), l, w, dr, s, dd),
                      Appended(s, s1, a, IF n = q.requester THEN {"EX_REP"} ELSE {})
               PROVE  NodeInv(n, a, e1, "done", q, Tail(qs), l, w, dr, s1, dd)
    BY <1>5 DEF Sends
  <2> QED BY <1>3, GrantDataStep
<1>8. Handled(c1, e, qs, d)
  BY <1>0, <1>4, <1>6, <1>7, HandledRes
<1> QED BY <1>1, <1>8

\* In a full-map directory there is room for every cache.
LEMMA RoomForSharer ==
    ASSUME config \in Config, MaxHwSharers >= NumNodes, NEW S \in SUBSET Node, NEW z \in Node,
           z \notin S
    PROVE  Cardinality(S) < MaxHwSharers /\ ~(Cardinality(S) >= MaxHwSharers)
<1>1. NumNodes \in Nat /\ NumNodes > 0 /\ MaxHwSharers \in Nat
  BY ConstantsAssumption DEF NumNodes, MaxHwSharers
<1>2. IsFiniteSet(Node) /\ Cardinality(Node) = NumNodes
  BY <1>1, FS_Interval DEF Node
<1>3. IsFiniteSet(Node \ {z}) /\ Cardinality(Node \ {z}) = NumNodes - 1
  BY <1>2, FS_RemoveElement
<1>4. S \subseteq Node \ {z}
  OBVIOUS
<1>5. Cardinality(S) <= NumNodes - 1 /\ Cardinality(S) \in Nat
  BY <1>3, <1>4, FS_Subset, FS_CardinalityType
<1> QED BY <1>1, <1>5

\* The entry with one more sharer.
LEMMA AddSharerRes ==
    ASSUME NEW c, NEW e, NEW qs, NEW d, Fresh(c, e, qs, d), NEW z \in Node
    PROVE  Fresh([c EXCEPT !.entry.sharers = @ \cup {z}],
                 EntryWith(e.dstate, e.sharers \cup {z}, e.owner, e.forwarder), qs, d)
<1> DEFINE c1 == [c EXCEPT !.entry.sharers = @ \cup {z}]
<1>0. c \in Contexts /\ c.entry = e /\ e \in Entry
  BY DEF Fresh, Res, Contexts
<1>1. /\ c1 \in Contexts
      /\ c1.entry.dstate = e.dstate /\ c1.entry.sharers = e.sharers \cup {z}
      /\ c1.entry.owner = e.owner /\ c1.entry.forwarder = e.forwarder
      /\ c1.queue = c.queue /\ c1.dram = c.dram /\ c1.done = c.done
      /\ c1.gone = c.gone /\ c1.failed = c.failed /\ c1.out = c.out
  BY <1>0 DEF Contexts, Entry
<1> HIDE DEF c1
<1>2. c1.entry = EntryWith(e.dstate, e.sharers \cup {z}, e.owner, e.forwarder)
  BY <1>1 DEF Contexts, Entry, EntryWith
<1>3. Fresh(c1, EntryWith(e.dstate, e.sharers \cup {z}, e.owner, e.forwarder), qs, d)
  BY <1>1, <1>2 DEF Fresh, Res, OutTo
<1> QED BY <1>3 DEF c1

\* processShReqFromL2Cache, the line is SHARED, no forwarder to ask.
LEMMA ShReqFromDram ==
    ASSUME NEW c, NEW e, NEW qs, NEW d, Fresh(c, e, qs, d), qs # <<>>, NEW victim, config \in Config, MaxHwSharers >= NumNodes,
           HomeInv(e, "ready", Head(qs), Protocol), ReqOK(e, Head(qs)),
           Head(qs).type = "SH_REQ", e.dstate = "SHARED",
           Protocol # "MESIF" \/ e.forwarder = INVALID_CORE_ID
    PROVE  Handled(ProcessShReq(c, NULL, victim), e, qs, d)
<1> DEFINE q == Head(qs)
           z == q.requester
           c0 == [c EXCEPT !.entry.sharers = @ \cup {z}]
           e0 == EntryWith(e.dstate, e.sharers \cup {z}, e.owner, e.forwarder)
           c1 == RetrieveDataAndSendToL2Cache(c0, "SH_REP", z, NULL)
<1>0. /\ c.entry = e /\ c.queue = qs /\ e \in Entry /\ qs \in Seq(Reqs) /\ q \in Reqs
      /\ z \in Node /\ NULL \in Bufs /\ "WB_REQ" \in CacheMsgType /\ "SH_REP" \in CacheMsgType
      /\ "SH_REP" \in MsgType /\ e.sharers \subseteq Node
  BY FreshFacts DEF CacheMsgType, Entry
<1>1. ProcessShReq(c, NULL, victim) = c1
  <2>1. z \notin e.sharers
    BY DEF ReqOK
  <2>2. NumSharers(c) < MaxHwSharers /\ ~(NumSharers(c) >= MaxHwSharers)
    BY <1>0, <2>1, RoomForSharer DEF NumSharers
  <2> QED BY <1>0, <2>1, <2>2 DEF ProcessShReq
<1>2. Fresh(c0, e0, qs, d)
  BY <1>0, AddSharerRes
<1>3. /\ e0.dstate = "SHARED" /\ e0.sharers = e.sharers \cup {z} /\ e0.owner = e.owner
      /\ e0.forwarder = e.forwarder
  BY DEF EntryWith
<1> DEFINE qs1 == Waits1(qs)
           d1 == Append(d, Message("DRAM_READ_REQ", NULL))
<1> HIDE DEF c0, e0
<1>4. Fresh(c1, e0, qs1, d1)
  BY <1>2, <1>3, RetrieveFromDram
<1> HIDE DEF c1
<1>5. /\ qs1 # <<>> /\ Tail(qs1) = Tail(qs) /\ Head(qs1) = [q EXCEPT !.wait = TRUE]
  BY <1>0, Waits1Queue
<1>6. /\ Head(qs1).type = q.type /\ Head(qs1).requester = z /\ Head(qs1).wait = TRUE
      /\ Head(qs1).from = q.from /\ q.from = INVALID_CORE_ID
  BY <1>0, <1>5 DEF Reqs, HomeInv
<1> HIDE DEF qs1
<1>8. ModeAfter(c1) = "active"
  BY <1>4 DEF ModeAfter, Fresh
<1>9. HomeInv(e0, ModeAfter(c1), Head(qs1), Protocol)
  BY <1>0, <1>3, <1>6, <1>8 DEF HomeInv, ActiveOK, EntryOK, Owned
<1>10. ASSUME NEW n \in Node
       PROVE  Sends(n, e, "ready", q, Tail(qs), e0, ModeAfter(c1), Head(qs1), {})
  <2> SUFFICES ASSUME NEW a, NEW l, NEW w, NEW dr, NEW s, NEW s1, NEW dd,
                      NodeInv(n, a, e, "ready", q, Tail(qs), l, w, dr, s, dd),
                      Appended(s, s1, a, {})
               PROVE  NodeInv(n, a, e0, "active", Head(qs1), Tail(qs), l, w, dr, s1, dd)
    BY <1>8 DEF Sends
  <2>1. NodeInv(n, a, e0, "active", Head(qs1), Tail(qs), l, w, dr, s, dd)
    BY <1>3, <1>6, ShareWaitStep DEF ReqOK
  <2> QED BY <2>1, RemovedSame, OtherEntryStep
<1>20. Handled(c1, e, qs, d)
  BY <1>4, <1>5, <1>6, <1>9, <1>10, HandledWait DEF d1
<1> QED BY <1>1, <1>20

\* processShReqFromL2Cache (MESIF), the line is SHARED and has a forwarder.
LEMMA ShReqForwarded ==
    ASSUME NEW c, NEW e, NEW qs, NEW d, Fresh(c, e, qs, d), qs # <<>>, NEW victim, config \in Config, MaxHwSharers >= NumNodes,
           HomeInv(e, "ready", Head(qs), Protocol), ReqOK(e, Head(qs)),
           Head(qs).type = "SH_REQ", e.dstate = "SHARED",
           Protocol = "MESIF", e.forwarder # INVALID_CORE_ID
    PROVE  Handled(ProcessShReq(c, NULL, victim), e, qs, d)
<1> DEFINE q == Head(qs)
           z == q.requester
           c0 == [c EXCEPT !.entry.sharers = @ \cup {z}]
           e0 == EntryWith(e.dstate, e.sharers \cup {z}, e.owner, e.forwarder)
           c1 == RetrieveDataAndSendToL2Cache(c0, "SH_REP", z, NULL)
<1>0. /\ c.entry = e /\ c.queue = qs /\ e \in Entry /\ qs \in Seq(Reqs) /\ q \in Reqs
      /\ z \in Node /\ NULL \in Bufs /\ "WB_REQ" \in CacheMsgType /\ "SH_REP" \in CacheMsgType
      /\ "SH_REP" \in MsgType /\ e.sharers \subseteq Node
  BY FreshFacts DEF CacheMsgType, Entry
<1>1. ProcessShReq(c, NULL, victim) = c1
  <2>1. z \notin e.sharers
    BY DEF ReqOK
  <2>2. NumSharers(c) < MaxHwSharers /\ ~(NumSharers(c) >= MaxHwSharers)
    BY <1>0, <2>1, RoomForSharer DEF NumSharers
  <2> QED BY <1>0, <2>1, <2>2 DEF ProcessShReq
<1>2. Fresh(c0, e0, qs, d)
  BY <1>0, AddSharerRes
<1>3. /\ e0.dstate = "SHARED" /\ e0.sharers = e.sharers \cup {z} /\ e0.owner = e.owner
      /\ e0.forwarder = e.forwarder
  BY DEF EntryWith
<1> DEFINE f == e.forwarder
           qs1 == From1(qs, f)
<1> HIDE DEF c0, e0
<1>4. f \in e.sharers /\ f \in Node /\ f # INVALID_CORE_ID
  BY <1>0 DEF HomeInv, EntryOK
<1>5. Res(c1, e0, qs1, d, {f}, "WB_REQ", NULL) /\ c1.done = FALSE
  <2>1. q.from = INVALID_CORE_ID /\ e0.forwarder \in Node /\ e0.forwarder = f
    BY <1>3, <1>4 DEF HomeInv
  <2>2. Res(c1, e0, From1(qs, e0.forwarder), d, {e0.forwarder}, "WB_REQ", NULL) /\ c1.done = FALSE
    <3> HIDE DEF z, q
    <3> QED BY <1>2, <1>3, <2>1, RetrieveFromForwarder DEF q
  <2> QED BY <2>1, <2>2
<1> HIDE DEF c1
<1>6. /\ qs1 # <<>> /\ Tail(qs1) = Tail(qs) /\ Head(qs1) = [q EXCEPT !.from = f]
  BY <1>0, <1>4, From1Queue
<1>7. /\ Head(qs1).type = q.type /\ Head(qs1).requester = z /\ ~Head(qs1).wait
      /\ Head(qs1).from = f
  BY <1>0, <1>6 DEF Reqs, HomeInv
<1> HIDE DEF qs1, f
<1>8. ModeAfter(c1) = "active"
  BY <1>5 DEF ModeAfter
<1>9. HomeInv(e0, ModeAfter(c1), Head(qs1), Protocol)
  BY <1>0, <1>3, <1>4, <1>7, <1>8 DEF HomeInv, ActiveOK, EntryOK, Owned, ReqOK
<1>10. ASSUME NEW n \in Node
       PROVE  Sends(n, e, "ready", q, Tail(qs), e0, ModeAfter(c1), Head(qs1), IF n \in {f} THEN {"WB_REQ"} ELSE {})
  <2> SUFFICES ASSUME NEW a, NEW l, NEW w, NEW dr, NEW s, NEW s1, NEW dd,
                      NodeInv(n, a, e, "ready", q, Tail(qs), l, w, dr, s, dd),
                      Appended(s, s1, a, IF n = Head(qs1).from THEN {"WB_REQ"} ELSE {})
               PROVE  NodeInv(n, a, e0, "active", Head(qs1), Tail(qs), l, w, dr, s1, dd)
    BY <1>7, <1>8 DEF Sends
  <2> QED BY <1>3, <1>4, <1>7, ForwardStep DEF ReqOK
<1>20. Handled(c1, e, qs, d)
  BY <1>0, <1>5, <1>6, <1>9, <1>10, HandledRes
<1> QED BY <1>1, <1>20

\* processShReqFromL2Cache, the line is SHARED and its data was written back.
LEMMA ShReqWithData ==
    ASSUME NEW c, NEW e, NEW qs, NEW d, Fresh(c, e, qs, d), qs # <<>>, NEW victim, config \in Config, MaxHwSharers >= NumNodes,
           HomeInv(e, "ready", Head(qs), "any"), ReqOK(e, Head(qs)),
           Head(qs).type = "SH_REQ", e.dstate = "SHARED",
           NEW b \in Bufs, b # NULL
    PROVE  Handled(ProcessShReq(c, b, victim), e, qs, d)
<1> DEFINE q == Head(qs)
           z == q.requester
           c0 == [c EXCEPT !.entry.sharers = @ \cup {z}]
           e0 == EntryWith(e.dstate, e.sharers \cup {z}, e.owner, e.forwarder)
           c1 == RetrieveDataAndSendToL2Cache(c0, "SH_REP", z, b)
<1>0. /\ c.entry = e /\ c.queue = qs /\ e \in Entry /\ qs \in Seq(Reqs) /\ q \in Reqs
      /\ z \in Node /\ NULL \in Bufs /\ "WB_REQ" \in CacheMsgType /\ "SH_REP" \in CacheMsgType
      /\ "SH_REP" \in MsgType /\ e.sharers \subseteq Node
  BY FreshFacts DEF CacheMsgType, Entry
<1>1. ProcessShReq(c, b, victim) = c1
  <2>1. z \notin e.sharers
    BY DEF ReqOK
  <2>2. NumSharers(c) < MaxHwSharers /\ ~(NumSharers(c) >= MaxHwSharers)
    BY <1>0, <2>1, RoomForSharer DEF NumSharers
  <2> QED BY <1>0, <2>1, <2>2 DEF ProcessShReq
<1>2. Fresh(c0, e0, qs, d)
  BY <1>0, AddSharerRes
<1>3. /\ e0.dstate = "SHARED" /\ e0.sharers = e.sharers \cup {z} /\ e0.owner = e.owner
      /\ e0.forwarder = e.forwarder
  BY DEF EntryWith
<1> DEFINE e1 == EntryWith(e.dstate, e.sharers \cup {z}, e.owner, z)
<1>4. /\ e1.dstate = "SHARED" /\ e1.sharers = e.sharers \cup {z} /\ e1.forwarder = z
      /\ e1 = EntryWith(e0.dstate, e0.sharers, e0.owner, z)
  BY DEF EntryWith
<1> HIDE DEF c0, e0, e1
<1>5. Res(c1, e1, qs, d, {z}, "SH_REP", b) /\ c1.done = TRUE
  BY <1>0, <1>2, <1>4, RetrieveData
<1> HIDE DEF c1
<1>6. ModeAfter(c1) = "done"
  BY <1>5 DEF ModeAfter
<1>7. HomeInv(e1, ModeAfter(c1), q, Protocol)
  BY <1>0, <1>4, <1>6 DEF HomeInv, ActiveOK, EntryOK, Owned, Node, UNINITIALISED
<1>8. ASSUME NEW n \in Node
      PROVE  Sends(n, e, "ready", q, Tail(qs), e1, ModeAfter(c1), q, IF n \in {z} THEN {"SH_REP"} ELSE {})
  <2> SUFFICES ASSUME NEW a, NEW l, NEW w, NEW dr, NEW s, NEW s1, NEW dd,
                      NodeInv(n, a, e, "ready", q, Tail(qs), l, w, dr, s, dd),
                      Appended(s, s1, a, IF n = q.requester THEN {"SH_REP"} ELSE {})
               PROVE  NodeInv(n, a, e1, "done", q, Tail(qs), l, w, dr, s1, dd)
    BY <1>6 DEF Sends
  <2> QED BY <1>4, ShareDataStep DEF ReqOK
<1>20. Handled(c1, e, qs, d)
  BY <1>0, <1>5, <1>7, <1>8, HandledRes
<1> QED BY <1>1, <1>20

\* A set of natural numbers has a least one.
LEMMA NatMin ==
    ASSUME NEW T \in SUBSET Nat, T # {}
    PROVE  \E x \in T : \A y \in T : x <= y
<1> DEFINE P == {ss \in Nat \X Nat : ss[1] < ss[2]}
<1>1. IsWellFoundedOn(P, Nat)
  BY NatLessThanWellFounded DEF OpToRel
<1> HIDE DEF P
<1>2. PICK x \in T : \A y \in T : ~(<<y, x>> \in P)
  BY <1>1, WFMin
<1>3. \A y \in T : x <= y
  <2> SUFFICES ASSUME NEW y \in T PROVE x <= y
    OBVIOUS
  <2>1. ~(<<y, x>> \in P) /\ x \in Nat /\ y \in Nat
    BY <1>2
  <2>2. y < x => <<y, x>> \in P
    BY <2>1 DEF P
  <2> QED BY <2>1, <2>2
<1> QED BY <1>3

\* The first sharer of an entry is one of its sharers.
LEMMA FirstSharerIn ==
    ASSUME config \in Config, NEW c, c.entry.sharers \in SUBSET Node, c.entry.sharers # {}
    PROVE  FirstSharer(c) \in c.entry.sharers
<1>1. Node \subseteq Nat
  BY ConstantsAssumption DEF Node, NumNodes
<1>2. \E n \in c.entry.sharers : \A m \in c.entry.sharers : n <= m
  BY <1>1, NatMin
<1> QED BY <1>2 DEF FirstSharer

\* processUpgradeReqFromL2Cache, the line has come to be owned by another cache.
LEMMA UpgradeReqOwned ==
    ASSUME NEW c, NEW e, NEW qs, NEW d, Fresh(c, e, qs, d), qs # <<>>, config \in Config,
           HomeInv(e, "ready", Head(qs), Protocol), ReqOK(e, Head(qs)),
           Head(qs).type = "UPGRADE_REQ", NEW buf \in Bufs,
           Owned(e)
    PROVE  Handled(ProcessUpgradeReq(c, buf), e, qs, d)
<1> DEFINE q == Head(qs)
           c1 == Send(c, {e.owner}, "FLUSH_REQ", NULL)
<1>0. c.entry = e /\ c.queue = qs /\ e \in Entry /\ NULL \in Bufs /\ "FLUSH_REQ" \in CacheMsgType
      /\ "FLUSH_REQ" \in MsgType
  BY FreshFacts DEF CacheMsgType
<1>9. q.requester \notin e.sharers
  BY DEF ReqOK, Owned
<1>1. ProcessUpgradeReq(c, buf) = c1
  <2>1. e.sharers = {e.owner} /\ e.sharers \in SUBSET Node
    BY <1>0 DEF HomeInv, EntryOK, Entry
  <2>2. FirstSharer(c) # q.requester
    BY <1>0, <1>9, <2>1, FirstSharerIn
  <2> QED BY <1>0, <2>2 DEF ProcessUpgradeReq, Owned
<1>2. {e.owner} \in SUBSET Node
  BY <1>0 DEF HomeInv, EntryOK, Owned, Entry
<1>3. Res(c1, e, qs, d, {e.owner}, "FLUSH_REQ", NULL) /\ c1.done = FALSE
  BY <1>0, <1>2, SendRes
<1> HIDE DEF c1
<1>6. ModeAfter(c1) = "active"
  BY <1>3 DEF ModeAfter
<1>4. HomeInv(e, ModeAfter(c1), q, Protocol)
  BY <1>6, <1>9 DEF HomeInv, ActiveOK, EntryOK, Owned
<1>5. ASSUME NEW n \in Node
      PROVE  Sends(n, e, "ready", q, Tail(qs), e, ModeAfter(c1), q, IF n \in {e.owner} THEN {"FLUSH_REQ"} ELSE {})
  BY <1>6, <1>9, FlushOwnerStep DEF Sends
<1>7. Handled(c1, e, qs, d)
  BY <1>0, <1>3, <1>4, <1>5, HandledRes
<1> QED BY <1>1, <1>7

\* processUpgradeReqFromL2Cache, the requester is the only sharer.
LEMMA UpgradeReqGranted ==
    ASSUME NEW c, NEW e, NEW qs, NEW d, Fresh(c, e, qs, d), qs # <<>>, config \in Config,
           HomeInv(e, "ready", Head(qs), Protocol), ReqOK(e, Head(qs)),
           Head(qs).type = "UPGRADE_REQ", NEW buf \in Bufs,
           e.dstate = "SHARED", e.sharers = {Head(qs).requester}
    PROVE  Handled(ProcessUpgradeReq(c, buf), e, qs, d)
<1> DEFINE q == Head(qs)
           z == q.requester
           c0 == [c EXCEPT !.entry.owner = z, !.entry.dstate = "MODIFIED"]
           e1 == EntryWith("MODIFIED", {z}, z, e.forwarder)
           c2 == Send(c0, {z}, "UPGRADE_REP", NULL)
           c1 == ProcessNext(c2)
<1>0. c \in Contexts /\ c.entry = e /\ c.queue = qs /\ e \in Entry /\ NULL \in Bufs
      /\ "UPGRADE_REP" \in CacheMsgType /\ "UPGRADE_REP" \in MsgType /\ z \in Node
  BY FreshFacts DEF CacheMsgType
<1>1. ProcessUpgradeReq(c, buf) = c1
  BY <1>0 DEF ProcessUpgradeReq
<1>2. /\ c0 \in Contexts
      /\ c0.entry.dstate = "MODIFIED" /\ c0.entry.sharers = {z} /\ c0.entry.owner = z
      /\ c0.entry.forwarder = e.forwarder
      /\ c0.queue = c.queue /\ c0.dram = c.dram /\ c0.done = c.done
      /\ c0.gone = c.gone /\ c0.failed = c.failed /\ c0.out = c.out
  BY <1>0 DEF Contexts, Entry, DState
<1> HIDE DEF c0
<1>3. c0.entry = e1
  BY <1>2 DEF Contexts, Entry, EntryWith
<1>4. e1.dstate = "MODIFIED" /\ e1.sharers = {z} /\ e1.owner = z /\ e1.forwarder = e.forwarder
  BY DEF EntryWith
<1> HIDE DEF e1
<1>5. Fresh(c0, e1, qs, d)
  BY <1>2, <1>3 DEF Fresh, Res, OutTo
<1>6. Res(c2, e1, qs, d, {z}, "UPGRADE_REP", NULL)
  BY <1>0, <1>5, SendRes
<1> HIDE DEF c2
<1>7. Res(c1, e1, qs, d, {z}, "UPGRADE_REP", NULL) /\ c1.done = TRUE
  BY <1>6, NextRes
<1> HIDE DEF c1
<1>8. ModeAfter(c1) = "done"
  BY <1>7 DEF ModeAfter
<1>9. HomeInv(e1, ModeAfter(c1), q, Protocol)
  BY <1>0, <1>4, <1>8 DEF HomeInv, ActiveOK, EntryOK, Owned
<1>10. ASSUME NEW n \in Node
       PROVE  Sends(n, e, "ready", q, Tail(qs), e1, ModeAfter(c1), q, IF n \in {z} THEN {"UPGRADE_REP"} ELSE {})
  <2> SUFFICES ASSUME NEW a, NEW l, NEW w, NEW dr, NEW s, NEW s1, NEW dd,
                      NodeInv(n, a, e, "ready", q, Tail(qs), l, w, dr, s, dd),
                      Appended(s, s1, a, IF n = q.requester THEN {"UPGRADE_REP"} ELSE {})
               PROVE  NodeInv(n, a, e1, "done", q, Tail(qs), l, w, dr, s1, dd)
    BY <1>8 DEF Sends
  <2> QED BY <1>4, UpgradeStep
<1>11. Handled(c1, e, qs, d)
  BY <1>0, <1>7, <1>9, <1>10, HandledRes
<1> QED BY <1>1, <1>11

\* What a context holds after a second message, to other caches.
Res2(c, e, qs, d, F, t, b, G, u, b1) ==
    /\ c \in Contexts
    /\ c.entry = e /\ c.queue = qs /\ c.dram = d
    /\ c.gone = FALSE /\ c.failed = {}
    /\ \A n \in Node : c.out[n] = IF n \in F THEN <<Message(t, b)>>
                                  ELSE IF n \in G THEN <<Message(u, b1)>> ELSE <<>>

\* sendMsg of a second type, to other caches.
LEMMA SendMore ==
    ASSUME NEW c, NEW e, NEW qs, NEW d, NEW F \in SUBSET Node, NEW t, NEW b,
           Res(c, e, qs, d, F, t, b),
           NEW G \in SUBSET Node, F \cap G = {}, NEW u \in MsgType, NEW b1 \in Bufs
    PROVE  Res2(Send(c, G, u, b1), e, qs, d, F, t, b, G, u, b1) /\ Send(c, G, u, b1).done = c.done
<1> DEFINE f == [n \in Node |-> IF n \in G THEN Append(c.out[n], [type |-> u, buf |-> b1])
                                            ELSE c.out[n]]
           c1 == Send(c, G, u, b1)
<1>1. /\ c \in Contexts /\ c.out \in [Node -> Seq(Msg)]
      /\ \A n \in Node : c.out[n] = IF n \in F THEN <<Message(t, b)>> ELSE <<>>
  BY DEF Res, OutTo, Contexts
<1>2. c1 = [c EXCEPT !.out = f]
  BY DEF Send, Check
<1>3. Message(u, b1) \in Msg /\ Append(<<>>, Message(u, b1)) = <<Message(u, b1)>>
  BY DEF Msg, Message
<1>4. \A n \in Node : f[n] = IF n \in F THEN <<Message(t, b)>>
                             ELSE IF n \in G THEN <<Message(u, b1)>> ELSE <<>>
  <2> TAKE n \in Node
  <2>1. CASE n \in F
    BY <1>1, <2>1
  <2>2. CASE n \in G
    <3>1. c.out[n] = <<>> /\ n \notin F
      BY <1>1, <2>2
    <3> QED BY <1>3, <2>2, <3>1 DEF Message
  <2>3. CASE n \notin F \cup G
    BY <1>1, <2>3
  <2> QED BY <2>1, <2>2, <2>3
<1>7. <<Message(u, b1)>> \in Seq(Msg) /\ <<>> \in Seq(Msg)
  BY <1>3, Singleton
<1>9. \A n \in F : <<Message(t, b)>> \in Seq(Msg)
  BY <1>1
<1>8. f = [n \in Node |-> f[n]]
  OBVIOUS
<1> HIDE DEF f, c1
<1>5. f \in [Node -> Seq(Msg)]
  BY <1>4, <1>7, <1>8, <1>9
<1>6. /\ c1 \in Contexts
      /\ c1.entry = c.entry /\ c1.queue = c.queue /\ c1.dram = c.dram /\ c1.done = c.done
      /\ c1.gone = c.gone /\ c1.failed = c.failed /\ c1.out = f
  BY <1>1, <1>2, <1>5 DEF Contexts
<1> QED BY <1>4, <1>6 DEF Res, Res2, c1

\* processUpgradeReqFromL2Cache once the caches F to flush and G to invalidate are known.
LEMMA UpgradeReqDemands ==
    ASSUME NEW c, NEW e, NEW qs, NEW d, Fresh(c, e, qs, d), qs # <<>>, config \in Config,
           HomeInv(e, "ready", Head(qs), Protocol), ReqOK(e, Head(qs)),
           Head(qs).type = "UPGRADE_REQ", NEW buf \in Bufs,
           e.dstate = "SHARED", e.sharers # {Head(qs).requester},
           NEW F \in SUBSET Node, NEW G \in SUBSET Node, F \subseteq e.sharers,
           Head(qs).requester \in e.sharers => F = {}, F \cap G = {},
           \A n : n \in G <=> n \in e.sharers \ {Head(qs).requester} /\ n \notin F
    PROVE  Handled(Send(Send(c, F, "FLUSH_REQ", NULL), G, "INV_REQ", NULL), e, qs, d)
<1> DEFINE q == Head(qs)
           c0 == Send(c, F, "FLUSH_REQ", NULL)
           c1 == Send(c0, G, "INV_REQ", NULL)
<1>0. /\ NULL \in Bufs /\ "INV_REQ" \in CacheMsgType /\ "INV_REQ" \in MsgType
      /\ "FLUSH_REQ" \in CacheMsgType /\ "FLUSH_REQ" \in MsgType
  BY FreshFacts DEF CacheMsgType
<1>3. Res(c0, e, qs, d, F, "FLUSH_REQ", NULL) /\ c0.done = FALSE
  BY <1>0, SendRes
<1> HIDE DEF c0
<1>4. /\ c1 \in Contexts /\ c1.entry = e /\ c1.queue = qs /\ c1.dram = d /\ c1.done = FALSE
      /\ c1.gone = FALSE /\ c1.failed = {}
      /\ \A n \in Node : c1.out[n] = IF n \in F THEN <<Message("FLUSH_REQ", NULL)>>
                                     ELSE IF n \in G THEN <<Message("INV_REQ", NULL)>> ELSE <<>>
  <2>1. Res2(c1, e, qs, d, F, "FLUSH_REQ", NULL, G, "INV_REQ", NULL) /\ c1.done = c0.done
    BY <1>0, <1>3, SendMore
  <2> QED BY <2>1, <1>3 DEF Res2
<1> HIDE DEF c1
<1>5. OutOK(c1)
  BY <1>0, <1>4 DEF OutOK
<1>6. \A n \in Node : Sent(c1, n) = IF n \in F THEN {"FLUSH_REQ"}
                                    ELSE IF n \in e.sharers \ {q.requester} THEN {"INV_REQ"} ELSE {}
  <2> TAKE n \in Node
  <2>1. CASE n \in F
    BY <1>4, <2>1, SentOne
  <2>2. CASE n \in G /\ n \notin F
    <3>1. Sent(c1, n) = {"INV_REQ"}
      BY <1>4, <2>2, SentOne
    <3> QED BY <2>2, <3>1
  <2>3. CASE n \notin G /\ n \notin F
    BY <1>4, <2>3 DEF Sent
  <2> QED BY <2>1, <2>2, <2>3
<1>8. ModeAfter(c1) = "active"
  BY <1>4 DEF ModeAfter
<1>9. HomeInv(e, ModeAfter(c1), q, Protocol)
  BY <1>8 DEF HomeInv, ActiveOK, EntryOK, Owned
<1>10. ASSUME NEW n \in Node
       PROVE  Sends(n, e, "ready", q, Tail(qs), e, ModeAfter(c1), q, Sent(c1, n))
  <2> SUFFICES ASSUME NEW a, NEW l, NEW w, NEW dr, NEW s, NEW s1, NEW dd,
                      NodeInv(n, a, e, "ready", q, Tail(qs), l, w, dr, s, dd),
                      Appended(s, s1, a, Sent(c1, n))
               PROVE  NodeInv(n, a, e, "active", q, Tail(qs), l, w, dr, s1, dd)
    BY <1>8 DEF Sends
  <2>1. Appended(s, s1, a, IF n \in F THEN {"FLUSH_REQ"}
                           ELSE IF n \in e.sharers \ {q.requester} THEN {"INV_REQ"} ELSE {})
    BY <1>6
  <2> QED BY <2>1, InvForUpgradeStep
<1>11. Handled(c1, e, qs, d)
  BY <1>4, <1>5, <1>9, <1>10 DEF Handled
<1> QED BY <1>11 DEF c1, c0

\* processUpgradeReqFromL2Cache, there are other sharers.
LEMMA UpgradeReqShared ==
    ASSUME NEW c, NEW e, NEW qs, NEW d, Fresh(c, e, qs, d), qs # <<>>, config \in Config,
           HomeInv(e, "ready", Head(qs), Protocol), ReqOK(e, Head(qs)),
           Head(qs).type = "UPGRADE_REQ", NEW buf \in Bufs,
           e.dstate = "SHARED", e.sharers # {Head(qs).requester}
    PROVE  Handled(ProcessUpgradeReq(c, buf), e, qs, d)
<1> DEFINE z == Head(qs).requester
           F == IF z \in e.sharers THEN {} ELSE {FirstSharer(c)}
           G == (e.sharers \ {z}) \ F
<1>0. c \in Contexts /\ c.entry = e /\ c.queue = qs /\ e \in Entry
  BY FreshFacts
<1>1. ProcessUpgradeReq(c, buf) = Send(Send(c, F, "FLUSH_REQ", NULL), G, "INV_REQ", NULL)
  BY <1>0 DEF ProcessUpgradeReq
<1>2. /\ F \subseteq e.sharers /\ (z \in e.sharers => F = {}) /\ F \in SUBSET Node
      /\ G \in SUBSET Node /\ F \cap G = {}
  <2>1. e.sharers \in SUBSET Node /\ e.sharers # {}
    BY <1>0 DEF Entry, HomeInv, EntryOK
  <2>2. FirstSharer(c) \in e.sharers
    BY <1>0, <2>1, FirstSharerIn
  <2> QED BY <2>1, <2>2
<1>3. \A n : n \in G <=> n \in e.sharers \ {z} /\ n \notin F
  OBVIOUS
<1> HIDE DEF F, G
<1>4. Handled(Send(Send(c, F, "FLUSH_REQ", NULL), G, "INV_REQ", NULL), e, qs, d)
  BY <1>2, <1>3, UpgradeReqDemands
<1> QED BY <1>1, <1>4

\* processUpgradeReqFromL2Cache, no copy is left and the data is in DRAM.
LEMMA UpgradeReqFromDram ==
    ASSUME NEW c, NEW e, NEW qs, NEW d, Fresh(c, e, qs, d), qs # <<>>, config \in Config,
           HomeInv(e, "ready", Head(qs), Protocol), ReqOK(e, Head(qs)),
           Head(qs).type = "UPGRADE_REQ", NEW buf \in Bufs, e.dstate = "UNCACHED",
           buf = NULL, Head(qs).buf = NULL
    PROVE  Handled(ProcessUpgradeReq(c, buf), e, qs, d)
<1> DEFINE q == Head(qs)
           z == q.requester
           c0 == TakeOver(c, z, "MODIFIED")
           e1 == EntryWith("MODIFIED", {z}, z, e.forwarder)
           qs1 == Waits1(qs)
           d1 == Append(d, Message("DRAM_READ_REQ", NULL))
           c1 == RetrieveDataAndSendToL2Cache(c0, "EX_REP", z, NULL)
<1>0. /\ c.entry = e /\ c.queue = qs /\ e \in Entry /\ qs \in Seq(Reqs) /\ q \in Reqs
      /\ z \in Node /\ e.sharers = {} /\ "INV_REQ" \in CacheMsgType /\ NULL \in Bufs
      /\ "MODIFIED" \in DState
  BY FreshFacts DEF HomeInv, EntryOK, DState
<1>1. ProcessUpgradeReq(c, buf) = c1
  BY <1>0 DEF ProcessUpgradeReq, Check
<1>2. Fresh(c0, e1, qs, d)
  BY <1>0, TakeOverRes
<1>3. e1.dstate = "MODIFIED" /\ e1.sharers = {z} /\ e1.owner = z /\ e1.forwarder = e.forwarder
  BY DEF EntryWith
<1> HIDE DEF c0, e1
<1>4. Fresh(c1, e1, qs1, d1)
  BY <1>2, <1>3, RetrieveFromDram
<1> HIDE DEF c1
<1>5. /\ qs1 # <<>> /\ Tail(qs1) = Tail(qs) /\ Head(qs1) = [q EXCEPT !.wait = TRUE]
  BY <1>0, Waits1Queue
<1>6. /\ Head(qs1).type = q.type /\ Head(qs1).requester = z /\ Head(qs1).wait = TRUE
      /\ Head(qs1).from = q.from /\ q.from = INVALID_CORE_ID
  BY <1>0, <1>5 DEF Reqs, HomeInv
<1> HIDE DEF qs1, d1
<1>8. ModeAfter(c1) = "active"
  BY <1>4 DEF ModeAfter, Fresh
<1>9. HomeInv(e1, ModeAfter(c1), Head(qs1), Protocol)
  BY <1>0, <1>3, <1>6, <1>8 DEF HomeInv, ActiveOK, EntryOK, Owned
<1>10. ASSUME NEW n \in Node
       PROVE  Sends(n, e, "ready", q, Tail(qs), e1, ModeAfter(c1), Head(qs1), {})
  <2> SUFFICES ASSUME NEW a, NEW l, NEW w, NEW dr, NEW s, NEW s1, NEW dd,
                      NodeInv(n, a, e, "ready", q, Tail(qs), l, w, dr, s, dd),
                      Appended(s, s1, a, {})
               PROVE  NodeInv(n, a, e1, "active", Head(qs1), Tail(qs), l, w, dr, s1, dd)
    BY <1>8 DEF Sends
  <2>1. NodeInv(n, a, e1, "active", Head(qs1), Tail(qs), l, w, dr, s, dd)
    BY <1>3, <1>6, GrantWaitStep
  <2> QED BY <2>1, RemovedSame, OtherEntryStep
<1>11. Handled(c1, e, qs, d)
  BY <1>4, <1>5, <1>6, <1>9, <1>10, HandledWait DEF d1
<1> QED BY <1>1, <1>11

\* processUpgradeReqFromL2Cache, no copy is left and the data was flushed.
LEMMA UpgradeReqWithData ==
    ASSUME NEW c, NEW e, NEW qs, NEW d, Fresh(c, e, qs, d), qs # <<>>, config \in Config,
           HomeInv(e, "ready", Head(qs), Protocol), ReqOK(e, Head(qs)),
           Head(qs).type = "UPGRADE_REQ", NEW buf \in Bufs, e.dstate = "UNCACHED",
           NEW b \in Bufs, b # NULL,
           b = IF buf = NULL THEN Head(qs).buf ELSE buf
    PROVE  Handled(ProcessUpgradeReq(c, buf), e, qs, d)
<1> DEFINE q == Head(qs)
           z == q.requester
           c0 == TakeOver(c, z, "MODIFIED")
           e0 == EntryWith("MODIFIED", {z}, z, e.forwarder)
           e1 == EntryWith("MODIFIED", {z}, z, z)
           c1 == RetrieveDataAndSendToL2Cache(c0, "EX_REP", z, b)
<1>0. /\ c.entry = e /\ c.queue = qs /\ e \in Entry /\ qs \in Seq(Reqs) /\ q \in Reqs
      /\ z \in Node /\ e.sharers = {} /\ "EX_REP" \in CacheMsgType /\ NULL \in Bufs
      /\ "MODIFIED" \in DState /\ "EX_REP" \in MsgType
  BY FreshFacts DEF HomeInv, EntryOK, DState, CacheMsgType
<1>1. ProcessUpgradeReq(c, buf) = c1
  BY <1>0 DEF ProcessUpgradeReq, Check
<1>2. Fresh(c0, e0, qs, d)
  BY <1>0, TakeOverRes
<1>3. /\ e1.dstate = "MODIFIED" /\ e1.sharers = {z} /\ e1.owner = z /\ e1.forwarder = z
      /\ e1 = EntryWith(e0.dstate, e0.sharers, e0.owner, z)
  BY DEF EntryWith
<1> HIDE DEF c0, e0, e1
<1>4. Res(c1, e1, qs, d, {z}, "EX_REP", b) /\ c1.done = TRUE
  BY <1>0, <1>2, <1>3, RetrieveData
<1> HIDE DEF c1
<1>5. ModeAfter(c1) = "done"
  BY <1>4 DEF ModeAfter
<1>6. HomeInv(e1, ModeAfter(c1), q, Protocol)
  BY <1>0, <1>3, <1>5 DEF HomeInv, ActiveOK, EntryOK, Owned, Node, UNINITIALISED
<1>7. ASSUME NEW n \in Node
      PROVE  Sends(n, e, "ready", q, Tail(qs), e1, ModeAfter(c1), q, IF n \in {z} THEN {"EX_REP"} ELSE {})
  <2> SUFFICES ASSUME NEW a, NEW l, NEW w, NEW dr, NEW s, NEW s1, NEW dd,
                      NodeInv(n, a, e, "ready", q, Tail(qs), l, w, dr, s, dd),
                      Appended(s, s1, a, IF n = q.requester THEN {"EX_REP"} ELSE {})
               PROVE  NodeInv(n, a, e1, "done", q, Tail(qs), l, w, dr, s1, dd)
    BY <1>5 DEF Sends
  <2> QED BY <1>3, GrantDataStep
<1>8. Handled(c1, e, qs, d)
  BY <1>0, <1>4, <1>6, <1>7, HandledRes
<1> QED BY <1>1, <1>8

\* processExReqFromL2Cache, all cases.
LEMMA ExReqHandled ==
    ASSUME NEW c, NEW e, NEW qs, NEW d, Fresh(c, e, qs, d), qs # <<>>, config \in Config,
           HomeInv(e, "ready", Head(qs), Protocol), ReqOK(e, Head(qs)),
           Head(qs).type = "EX_REQ", NEW b \in Bufs, b # NULL => e.dstate = "UNCACHED"
    PROVE  Handled(ProcessExReq(c, b), e, qs, d)
<1>1. e.dstate \in {"UNCACHED", "SHARED", "EXCLUSIVE", "MODIFIED"}
  BY FreshFacts DEF Entry, DState
<1>2. CASE b = NULL
  BY <1>1, <1>2, ExReqOwned, ExReqShared, ExReqFromDram DEF Owned
<1>3. CASE b # NULL
  BY <1>3, ExReqWithData
<1> QED BY <1>2, <1>3

\* processShReqFromL2Cache, all cases.
LEMMA ShReqHandled ==
    ASSUME NEW c, NEW e, NEW qs, NEW d, Fresh(c, e, qs, d), qs # <<>>, NEW victim, config \in Config,
           MaxHwSharers >= NumNodes,
           HomeInv(e, "ready", Head(qs), Protocol), ReqOK(e, Head(qs)),
           Head(qs).type = "SH_REQ", NEW b \in Bufs, b # NULL => ~Owned(e)
    PROVE  Handled(ProcessShReq(c, b, victim), e, qs, d)
<1>1. e.dstate \in {"UNCACHED", "SHARED", "EXCLUSIVE", "MODIFIED"}
  BY FreshFacts DEF Entry, DState
<1>2. CASE b = NULL
  <2>1. CASE Owned(e)
    BY <1>2, <2>1, ShReqOwned
  <2>2. CASE e.dstate = "SHARED"
    BY <1>2, <2>2, ShReqFromDram, ShReqForwarded
  <2>3. CASE e.dstate = "UNCACHED"
    BY <1>2, <2>3, ShReqMsiFromDram, ShReqMesiFromDram
  <2> QED BY <1>1, <2>1, <2>2, <2>3 DEF Owned
<1>3. CASE b # NULL
  <2>1. CASE e.dstate = "SHARED"
    <3>1. HomeInv(e, "ready", Head(qs), "any")
      BY DEF HomeInv, EntryOK
    <3> QED BY <1>3, <2>1, <3>1, ShReqWithData
  <2>2. CASE e.dstate = "UNCACHED"
    BY <1>3, <2>2, ShReqMsiWithData, ShReqMesiWithData
  <2> QED BY <1>1, <1>3, <2>1, <2>2 DEF Owned
<1> QED BY <1>2, <1>3

\* processUpgradeReqFromL2Cache, all cases.
LEMMA UpgradeReqHandled ==
    ASSUME NEW c, NEW e, NEW qs, NEW d, Fresh(c, e, qs, d), qs # <<>>, config \in Config,
           HomeInv(e, "ready", Head(qs), Protocol), ReqOK(e, Head(qs)),
           Head(qs).type = "UPGRADE_REQ", NEW b \in Bufs
    PROVE  Handled(ProcessUpgradeReq(c, b), e, qs, d)
<1>1. e.dstate \in {"UNCACHED", "SHARED", "EXCLUSIVE", "MODIFIED"}
  BY FreshFacts DEF Entry, DState
<1>2. CASE Owned(e)
  BY <1>2, UpgradeReqOwned
<1>3. CASE e.dstate = "SHARED"
  BY <1>3, UpgradeReqGranted, UpgradeReqShared
<1>4. CASE e.dstate = "UNCACHED"
  <2> DEFINE bb == IF b = NULL THEN Head(qs).buf ELSE b
  <2>1. Head(qs) \in Reqs
    BY FreshFacts
  <2>2. bb \in Bufs
    BY <2>1 DEF Reqs
  <2>3. CASE bb = NULL
    <3>1. b = NULL /\ Head(qs).buf = NULL
      BY <2>3
    <3> QED BY <1>4, <3>1, UpgradeReqFromDram
  <2>4. CASE bb # NULL
    <3>1. bb = IF b = NULL THEN Head(qs).buf ELSE b
      OBVIOUS
    <3> HIDE DEF bb
    <3> QED BY <1>4, <2>2, <2>4, <3>1, UpgradeReqWithData
  <2> QED BY <2>3, <2>4
<1> QED BY <1>1, <1>2, <1>3, <1>4 DEF Owned

\* The dispatch on the type of the current request.
LEMMA ReqHandled ==
    ASSUME NEW c, NEW e, NEW qs, NEW d, Fresh(c, e, qs, d), qs # <<>>, NEW victim, config \in Config,
           MaxHwSharers >= NumNodes,
           HomeInv(e, "ready", Head(qs), Protocol), ReqOK(e, Head(qs)),
           Head(qs).type \in ReqType
    PROVE  Handled(ProcessReq(c, victim), e, qs, d)
<1>1. c.queue = qs /\ NULL \in Bufs
  BY FreshFacts
<1>2. CASE Head(qs).type = "EX_REQ"
  <2>1. ProcessReq(c, victim) = ProcessExReq(c, NULL)
    BY <1>1, <1>2 DEF ProcessReq
  <2> QED BY <1>1, <1>2, <2>1, ExReqHandled
<1>3. CASE Head(qs).type = "SH_REQ"
  <2>1. ProcessReq(c, victim) = ProcessShReq(c, NULL, victim)
    BY <1>1, <1>3 DEF ProcessReq
  <2> QED BY <1>1, <1>3, <2>1, ShReqHandled
<1>4. CASE Head(qs).type = "UPGRADE_REQ"
  <2>1. ProcessReq(c, victim) = ProcessUpgradeReq(c, NULL)
    BY <1>1, <1>4 DEF ProcessReq
  <2> QED BY <1>1, <1>4, <2>1, UpgradeReqHandled
<1> QED BY <1>2, <1>3, <1>4 DEF ReqType

\* The entry that a context leaves: invalidateDirectoryEntry makes it a new one.
EntryAfter(c) == IF c.gone THEN NewEntry ELSE c.entry

\* Whatever the cache n holds: when the home takes messages of types T from it and turns e, mode, q
\* and the rest r of the queue into e1, mode1, q1 and r1, the invariant of n is kept.
Takes(n, e, mode, q, r, e1, mode1, q1, r1, T) ==
    \A a, l, w, dr, s, d, d1 :
        /\ NodeInv(n, a, e, mode, q, r, l, w, dr, s, d)
        /\ Removed(d, d1, a, T)
        => NodeInv(n, a, e1, mode1, q1, r1, l, w, dr, s, d1)

\* The same for a step that takes messages of types T and sends messages of types S.
Step(n, e, mode, q, r, e1, mode1, q1, r1, S, T) ==
    \A a, l, w, dr, s, s1, d, d1 :
        /\ NodeInv(n, a, e, mode, q, r, l, w, dr, s, d)
        /\ Appended(s, s1, a, S)
        /\ Removed(d, d1, a, T)
        => NodeInv(n, a, e1, mode1, q1, r1, l, w, dr, s1, d1)

\* The messages to DRAM before the current request goes on: the data of a flush, or nothing.
Writes == {<<>>} \cup {<<Message("DRAM_WRITE_REQ", b)>> : b \in Carried}

\* The messages of a context to DRAM: a write or none, and one read if the request waits from now on.
DramOK(c, mode, q) ==
    \E w \in Writes :
       \/ /\ c.dram = w
          /\ mode = "active" /\ q.wait =>
                ModeOf(c.queue, c.done) = "active" /\ Head(c.queue).wait = TRUE
       \/ /\ c.dram = Append(w, Message("DRAM_READ_REQ", NULL))
          /\ ~(mode = "active" /\ q.wait)
          /\ ModeOf(c.queue, c.done) = "active" /\ Head(c.queue).wait = TRUE

\* What a handler that takes a message of types T from cache z may do to entry e and queue qs.
Settled(c, e, qs, done, z, T) ==
    /\ c \in Contexts /\ c.failed \subseteq Tolerated /\ OutOK(c)
    /\ RestOf(c.queue) \in Seq(FreshReq)
    /\ c.done => c.queue # <<>>
    /\ c.gone => EntryAfter(c).sharers = {}
    /\ HomeInv(EntryAfter(c), ModeOf(c.queue, c.done), Head(c.queue), Protocol)
    /\ \A n \in Node : Step(n, e, ModeOf(qs, done), Head(qs), RestOf(qs),
                            EntryAfter(c), ModeOf(c.queue, c.done), Head(c.queue), RestOf(c.queue),
                            Sent(c, n), IF n = z THEN T ELSE {})

\* The same, with the messages to DRAM.
Outcome(c, e, qs, done, z, T) ==
    Settled(c, e, qs, done, z, T) /\ DramOK(c, ModeOf(qs, done), Head(qs))

\* A handler starts with no messages to send.
LEMMA ContextFresh ==
    ASSUME NEW e \in Entry, NEW qs \in Seq(Reqs)
    PROVE  Fresh(Context(e, qs), e, qs, <<>>)
<1> DEFINE c == Context(e, qs)
<1>1. /\ c.entry = e /\ c.queue = qs /\ c.dram = <<>> /\ c.done = FALSE /\ c.gone = FALSE
      /\ c.failed = {} /\ c.out = [n \in Node |-> <<>>]
      /\ c = [entry |-> e, queue |-> qs, out |-> c.out, dram |-> <<>>, done |-> FALSE,
              gone |-> FALSE, failed |-> {}]
  BY DEF Context
<1>2. \A n \in Node : c.out[n] = <<>>
  BY <1>1
<1>3. <<>> \in Seq(Msg) /\ c.out \in [Node -> Seq(Msg)]
  BY <1>1
<1> HIDE DEF c
<1>4. c \in Contexts
  BY <1>1, <1>3 DEF Contexts
<1>5. Fresh(c, e, qs, <<>>)
  BY <1>1, <1>2, <1>4 DEF Fresh, Res, OutTo
<1> QED BY <1>5 DEF c

\* A message is taken, after which the current request is handled.
LEMMA HandledOutcome ==
    ASSUME NEW c, NEW e, NEW qs, NEW done, NEW z, NEW T, NEW e0, NEW qs0, NEW d \in Writes,
           qs0 # <<>>, RestOf(qs0) \in Seq(FreshReq),
           ~(ModeOf(qs, done) = "active" /\ Head(qs).wait),
           Handled(c, e0, qs0, d),
           \A n \in Node : Takes(n, e, ModeOf(qs, done), Head(qs), RestOf(qs),
                                 e0, "ready", Head(qs0), RestOf(qs0), IF n = z THEN T ELSE {})
    PROVE  Outcome(c, e, qs, done, z, T)
<1> DEFINE m == ModeOf(qs, done)
           q == Head(qs)
           r == RestOf(qs)
<1>1. /\ c \in Contexts /\ c.failed = {} /\ OutOK(c) /\ c.queue # <<>> /\ Tail(c.queue) = Tail(qs0)
      /\ EntryAfter(c) = c.entry /\ c.gone = FALSE /\ c.done \in BOOLEAN
  BY DEF Handled, EntryAfter, Contexts
<1>2. RestOf(c.queue) = Tail(qs0) /\ RestOf(qs0) = Tail(qs0)
  BY <1>1 DEF RestOf
<1>3. ModeOf(c.queue, c.done) = ModeAfter(c)
  BY <1>1 DEF ModeOf, ModeAfter
<1>4. DramOK(c, m, q)
  <2>1. \/ c.dram = d
        \/ /\ c.dram = Append(d, Message("DRAM_READ_REQ", NULL))
           /\ c.done = FALSE /\ Head(c.queue).wait = TRUE
    BY DEF Handled
  <2> HIDE DEF m, q
  <2>2. ~(m = "active" /\ q.wait)
    BY DEF m, q
  <2>3. c.done = FALSE => ModeOf(c.queue, c.done) = "active"
    BY <1>1 DEF ModeOf
  <2> QED BY <2>1, <2>2, <2>3 DEF DramOK
<1>5. ASSUME NEW n \in Node
      PROVE  Step(n, e, m, q, r, c.entry, ModeAfter(c), Head(c.queue), Tail(qs0), Sent(c, n),
                  IF n = z THEN T ELSE {})
  <2>1. Sends(n, e0, "ready", Head(qs0), Tail(qs0), c.entry, ModeAfter(c), Head(c.queue), Sent(c, n))
    BY DEF Handled
  <2>2. Takes(n, e, m, q, r, e0, "ready", Head(qs0), Tail(qs0), IF n = z THEN T ELSE {})
    BY <1>2
  <2> DEFINE D == IF n = z THEN T ELSE {}
             S == Sent(c, n)
             m1 == ModeAfter(c)
             q1 == Head(c.queue)
             e1 == c.entry
             q0 == Head(qs0)
             r0 == Tail(qs0)
  <2> HIDE DEF D, S, m, q, r, m1, q1, e1, q0, r0
  <2>3. Step(n, e, m, q, r, e1, m1, q1, r0, S, D)
    <3> SUFFICES ASSUME NEW a, NEW l, NEW w, NEW dr, NEW s, NEW s1, NEW dd, NEW dd1,
                        NodeInv(n, a, e, m, q, r, l, w, dr, s, dd),
                        Appended(s, s1, a, S), Removed(dd, dd1, a, D)
                 PROVE  NodeInv(n, a, e1, m1, q1, r0, l, w, dr, s1, dd1)
      BY DEF Step
    <3>1. NodeInv(n, a, e0, "ready", q0, r0, l, w, dr, s, dd1)
      BY <2>2 DEF Takes, D, q0, r0
    <3> QED BY <3>1, <2>1 DEF Sends, S, m1, q1, e1, q0, r0
  <2> QED BY <2>3 DEF D, S, m1, q1, e1, r0
<1>6. HomeInv(c.entry, ModeAfter(c), Head(c.queue), Protocol)
  BY DEF Handled
<1> QED BY <1>1, <1>2, <1>3, <1>4, <1>5, <1>6 DEF Outcome, Settled

\* A message is taken, nothing is sent to a cache and the queue stays, but for the fields of
\* the current request.
LEMMA QuietOutcome ==
    ASSUME NEW c, NEW e, NEW qs, NEW done, NEW z, NEW T, NEW e1, NEW qs1, NEW d,
           Fresh(c, e1, qs1, d), DramOK(c, ModeOf(qs, done), Head(qs)),
           RestOf(qs1) \in Seq(FreshReq),
           HomeInv(e1, ModeOf(qs1, FALSE), Head(qs1), Protocol),
           \A n \in Node : Takes(n, e, ModeOf(qs, done), Head(qs), RestOf(qs),
                                 e1, ModeOf(qs1, FALSE), Head(qs1), RestOf(qs1),
                                 IF n = z THEN T ELSE {})
    PROVE  Outcome(c, e, qs, done, z, T)
<1>1. /\ c \in Contexts /\ c.gone = FALSE /\ c.failed = {} /\ c.entry = e1 /\ c.queue = qs1
      /\ c.dram = d /\ c.done = FALSE
      /\ \A n \in Node : c.out[n] = <<>>
  BY DEF Res, Fresh, OutTo
<1>2. OutOK(c)
  BY <1>1 DEF OutOK
<1>3. \A n \in Node : Sent(c, n) = {}
  BY <1>1 DEF Sent
<1>4. EntryAfter(c) = e1
  BY <1>1 DEF EntryAfter
<1>5. ASSUME NEW n \in Node
      PROVE  Step(n, e, ModeOf(qs, done), Head(qs), RestOf(qs),
                  e1, ModeOf(qs1, FALSE), Head(qs1), RestOf(qs1), {}, IF n = z THEN T ELSE {})
  <2> DEFINE D == IF n = z THEN T ELSE {}
             m == ModeOf(qs, done)
             q == Head(qs)
             r == RestOf(qs)
             m1 == ModeOf(qs1, FALSE)
             q1 == Head(qs1)
             r1 == RestOf(qs1)
  <2>2. Takes(n, e, m, q, r, e1, m1, q1, r1, D)
    OBVIOUS
  <2> HIDE DEF D, m, q, r, m1, q1, r1
  <2>3. Step(n, e, m, q, r, e1, m1, q1, r1, {}, D)
    <3> SUFFICES ASSUME NEW a, NEW l, NEW w, NEW dr, NEW s, NEW s1, NEW dd, NEW dd1,
                        NodeInv(n, a, e, m, q, r, l, w, dr, s, dd),
                        Appended(s, s1, a, {}), Removed(dd, dd1, a, D)
                 PROVE  NodeInv(n, a, e1, m1, q1, r1, l, w, dr, s1, dd1)
      BY DEF Step
    <3>1. NodeInv(n, a, e1, m1, q1, r1, l, w, dr, s, dd1)
      BY <2>2 DEF Takes
    <3> QED BY <3>1, RemovedSame, OtherEntryStep
  <2> QED BY <2>3 DEF D, m, q, r, m1, q1, r1
<1> QED BY <1>1, <1>2, <1>3, <1>4, <1>5 DEF Outcome, Settled

-----------------------------------------------------------------------------
(* INV_REP.                                                                 *)

\* What the directory knows of the sender of an INV_REP.
GaveUpOK(z, e, mode, q) ==
    /\ z \in e.sharers
    /\ ~Grantee(z, mode, q)
    /\ mode = "active" /\ q.type = "UPGRADE_REQ" => q.requester # z

\* The sender of the INV_REP first in its channel is a sharer without a copy, and the line is
\* not MODIFIED.
LEMMA InvRepSender ==
    ASSUME NEW z, NEW a, NEW e, NEW mode, NEW q, NEW r, NEW l, NEW w, NEW dr, NEW s, NEW d, NEW d1,
           NodeInv(z, a, e, mode, q, r, l, w, dr, s, d),
           Removed(d, d1, a, {"INV_REP"})
    PROVE  GaveUpOK(z, e, mode, q) /\ e.dstate \in {"SHARED", "EXCLUSIVE"}
BY ChannelOrder DEF GaveUpOK, NodeInv, CopyKnown, OneCopy, ToDirOK, QueuedOK, GaveUp, Removed,
                    Demands, CurAsks

\* The sender of the FLUSH_REP first in its channel is the owner, or the sharer that was
\* flushed for an upgrade.
LEMMA FlushRepSender ==
    ASSUME NEW z, NEW a, NEW e, NEW mode, NEW q, NEW r, NEW l, NEW w, NEW dr, NEW s, NEW d, NEW d1,
           NodeInv(z, a, e, mode, q, r, l, w, dr, s, d),
           Removed(d, d1, a, {"FLUSH_REP"})
    PROVE  /\ GaveUpOK(z, e, mode, q)
           /\ Owned(e) \/ (Demands(z, mode, q) /\ FlushedForUpgrade(e, q))
BY ChannelOrder DEF GaveUpOK, NodeInv, CopyKnown, OneCopy, ToDirOK, QueuedOK, GaveUp, Removed,
                    Demands, CurAsks

\* The sender of the WB_REP first in its channel is the cache the read request waits for.
LEMMA WbRepSender ==
    ASSUME NEW z, NEW a, NEW e, NEW mode, NEW q, NEW r, NEW l, NEW w, NEW dr, NEW s, NEW d, NEW d1,
           NodeInv(z, a, e, mode, q, r, l, w, dr, s, d),
           Removed(d, d1, a, {"WB_REP"})
    PROVE  AwaitsWb(z, e, mode, q)
BY DEF NodeInv, ToDirOK, Removed

\* The entry after the sender of an INV_REP has been removed.
InvEntry(e, z) ==
    EntryWith(IF e.sharers \subseteq {z} THEN "UNCACHED" ELSE e.dstate, e.sharers \ {z}, e.owner,
              IF e.forwarder = z THEN INVALID_CORE_ID ELSE e.forwarder)

\* The entry without the sender of an INV_REP is consistent.
LEMMA InvEntryOK ==
    ASSUME NEW e, NEW z, NEW p, EntryOK(e, p), z \in e.sharers
    PROVE  /\ EntryOK(InvEntry(e, z), p)
           /\ InvEntry(e, z).sharers = e.sharers \ {z}
           /\ InvEntry(e, z).dstate = IF e.sharers \subseteq {z} THEN "UNCACHED" ELSE e.dstate
<1> DEFINE e1 == InvEntry(e, z)
<1>1. /\ e1.sharers = e.sharers \ {z} /\ e1.owner = e.owner
      /\ e1.dstate = IF e.sharers \subseteq {z} THEN "UNCACHED" ELSE e.dstate
      /\ e1.forwarder = IF e.forwarder = z THEN INVALID_CORE_ID ELSE e.forwarder
  BY DEF InvEntry, EntryWith
<1> HIDE DEF e1
<1>2. EntryOK(e1, p)
  <2>1. CASE e.sharers \subseteq {z}
    BY <1>1, <2>1 DEF EntryOK, Owned, INVALID_CORE_ID, UNINITIALISED
  <2>2. CASE ~(e.sharers \subseteq {z})
    BY <1>1, <2>2 DEF EntryOK, Owned, INVALID_CORE_ID, UNINITIALISED
  <2> QED BY <2>1, <2>2
<1> QED BY <1>1, <1>2 DEF e1

\* The context of the handler once the sender of an INV_REP is removed.
LEMMA InvDrop ==
    ASSUME NEW c, NEW e, NEW qs, NEW d, Fresh(c, e, qs, d), NEW z,
           NEW left, left = c.entry.sharers \ {z}
    PROVE  Fresh([c EXCEPT !.entry.sharers = left,
                           !.entry.forwarder = IF @ = z THEN INVALID_CORE_ID ELSE @,
                           !.entry.dstate = IF left = {} THEN "UNCACHED" ELSE @],
                 InvEntry(e, z), qs, d)
<1> DEFINE c1 == [c EXCEPT !.entry.sharers = left,
                           !.entry.forwarder = IF @ = z THEN INVALID_CORE_ID ELSE @,
                           !.entry.dstate = IF left = {} THEN "UNCACHED" ELSE @]
<1>0. c \in Contexts /\ c.entry = e /\ e \in Entry /\ left = e.sharers \ {z} /\ left \subseteq Node
  BY DEF Fresh, Res, Contexts, Entry
<1>1. /\ c1 \in Contexts
      /\ c1.entry.dstate = (IF left = {} THEN "UNCACHED" ELSE c.entry.dstate)
      /\ c1.entry.sharers = left /\ c1.entry.owner = c.entry.owner
      /\ c1.entry.forwarder = (IF c.entry.forwarder = z THEN INVALID_CORE_ID ELSE c.entry.forwarder)
      /\ c1.queue = c.queue /\ c1.dram = c.dram /\ c1.done = c.done
      /\ c1.gone = c.gone /\ c1.failed = c.failed /\ c1.out = c.out
  BY <1>0 DEF Contexts, Entry, DState
<1> HIDE DEF c1
<1>2. c1.entry = EntryWith(IF left = {} THEN "UNCACHED" ELSE e.dstate, left, e.owner,
                           IF e.forwarder = z THEN INVALID_CORE_ID ELSE e.forwarder)
  BY <1>0, <1>1 DEF Contexts, Entry, EntryWith
<1>3. left = {} <=> e.sharers \subseteq {z}
  BY <1>0
<1>4. c1.entry = InvEntry(e, z)
  BY <1>0, <1>2, <1>3 DEF InvEntry
<1>5. Fresh(c1, InvEntry(e, z), qs, d)
  BY <1>1, <1>4 DEF Fresh, Res, OutTo
<1> QED BY <1>5 DEF c1

\* The request goes on after z's copy is gone.
LEMMA DropReadyTakes ==
    ASSUME NEW n, NEW e, NEW q, NEW r, NEW z, NEW t \in {"INV_REP", "FLUSH_REP"}, NEW e0,
           HomeInv(e, "active", q, "any"), ~Granted("active", q), q.type \in ReqType,
           e.sharers \subseteq {z} \/ (q.type = "UPGRADE_REQ" /\ e.sharers \subseteq {z, q.requester}),
           e0.sharers = e.sharers \ {z},
           e0.dstate = IF e.sharers \subseteq {z} THEN "UNCACHED" ELSE e.dstate
    PROVE  Takes(n, e, "active", q, r, e0, "ready", q, r, IF n = z THEN {t} ELSE {})
<1> SUFFICES ASSUME NEW a, NEW l, NEW w, NEW dr, NEW s, NEW d, NEW d1,
                    NodeInv(n, a, e, "active", q, r, l, w, dr, s, d),
                    Removed(d, d1, a, IF n = z THEN {t} ELSE {})
             PROVE  NodeInv(n, a, e0, "ready", q, r, l, w, dr, s, d1)
  BY DEF Takes
<1> QED BY DropReadyStep DEF ReqType

\* The request waits for more copies to go, or does not wait for z's.
LEMMA DropActiveTakes ==
    ASSUME NEW n, NEW e, NEW q, NEW q1, NEW r, NEW z, NEW t \in {"INV_REP", "FLUSH_REP"}, NEW e0,
           HomeInv(e, "active", q, "any"), ~(e.sharers \subseteq {z}),
           q1.type = q.type, q1.requester = q.requester, q1.wait <=> q.wait, q1.from = q.from,
           q.type = "NULLIFY_REQ" \/ z # q.requester,
           q.type = "SH_REQ" => (Granted("active", q) /\ q.from # z) \/ q.wait,
           e0.sharers = e.sharers \ {z},
           e0.dstate = IF e.sharers \subseteq {z} THEN "UNCACHED" ELSE e.dstate
    PROVE  Takes(n, e, "active", q, r, e0, "active", q1, r, IF n = z THEN {t} ELSE {})
<1> SUFFICES ASSUME NEW a, NEW l, NEW w, NEW dr, NEW s, NEW d, NEW d1,
                    NodeInv(n, a, e, "active", q, r, l, w, dr, s, d),
                    Removed(d, d1, a, IF n = z THEN {t} ELSE {})
             PROVE  NodeInv(n, a, e0, "active", q1, r, l, w, dr, s, d1)
  BY DEF Takes
<1> QED BY DropActiveStep

\* An eviction of z while the line has no current request.
LEMMA DropIdleTakes ==
    ASSUME NEW n, NEW e, NEW q, NEW r, NEW z, NEW t \in {"INV_REP", "FLUSH_REP"}, NEW e0,
           HomeInv(e, "idle", q, "any"),
           e0.sharers = e.sharers \ {z},
           e0.dstate = IF e.sharers \subseteq {z} THEN "UNCACHED" ELSE e.dstate
    PROVE  Takes(n, e, "idle", q, r, e0, "idle", q, r, IF n = z THEN {t} ELSE {})
<1> SUFFICES ASSUME NEW a, NEW l, NEW w, NEW dr, NEW s, NEW d, NEW d1,
                    NodeInv(n, a, e, "idle", q, r, l, w, dr, s, d),
                    Removed(d, d1, a, IF n = z THEN {t} ELSE {})
             PROVE  NodeInv(n, a, e0, "idle", q, r, l, w, dr, s, d1)
  BY DEF Takes
<1>1. CASE e.sharers \subseteq {z}
  BY <1>1, DropIdleStep
<1>2. CASE ~(e.sharers \subseteq {z})
  <2>1. e0.dstate = e.dstate
    BY <1>2
  <2>2. e.sharers \subseteq {z} => e0.dstate = "UNCACHED"
    BY <1>2
  <2>3. e.sharers \subseteq {z} \/ e0.dstate = e.dstate
    BY <2>1
  <2> QED BY ONLY DropIdleStep, <2>2, <2>3, NodeInv(n, a, e, "idle", q, r, l, w, dr, s, d), HomeInv(e, "idle", q, "any"),
      t \in {"INV_REP", "FLUSH_REP"}, e0.sharers = e.sharers \ {z}, Removed(d, d1, a, IF n = z THEN {t} ELSE {})
<1> QED BY <1>1, <1>2

\* The same, as outcomes of handlers.
LEMMA KeptOutcome ==
    ASSUME config \in Config, MaxHwSharers >= NumNodes, NEW e \in Entry, NEW qs \in Seq(Reqs),
           RestOf(qs) \in Seq(FreshReq), NEW z \in Node, NEW victim,
           HomeInv(e, ModeOf(qs, FALSE), Head(qs), Protocol),
           GaveUpOK(z, e, ModeOf(qs, FALSE), Head(qs)),
           NEW c, NEW e0, NEW qs1, NEW d \in Writes, NEW t \in {"INV_REP", "FLUSH_REP"},
           Fresh(c, e0, qs1, d), qs # <<>>, qs1 # <<>>, Tail(qs1) = Tail(qs),
           ~(e.sharers \subseteq {z}),
           Head(qs1).type = Head(qs).type, Head(qs1).requester = Head(qs).requester,
           Head(qs1).wait = Head(qs).wait, Head(qs1).from = Head(qs).from,
           Head(qs).type = "NULLIFY_REQ" \/ z # Head(qs).requester,
           Head(qs).type = "SH_REQ" => (Granted("active", Head(qs)) /\ Head(qs).from # z)
                                        \/ Head(qs).wait,
           Head(qs).type = "UPGRADE_REQ" => e0.sharers # {Head(qs).requester},
           e0.sharers = e.sharers \ {z}, EntryOK(e0, Protocol),
           e0.dstate = IF e.sharers \subseteq {z} THEN "UNCACHED" ELSE e.dstate
    PROVE  Outcome(c, e, qs, FALSE, z, {t})
<1> DEFINE q == Head(qs)
           q1 == Head(qs1)
           r == Tail(qs)
<1>1. /\ ModeOf(qs, FALSE) = "active" /\ ModeOf(qs1, FALSE) = "active"
      /\ RestOf(qs) = r /\ RestOf(qs1) = r
  BY DEF ModeOf, RestOf
<1>2. HomeInv(e, "active", q, Protocol) /\ HomeInv(e, "active", q, "any")
  BY <1>1 DEF HomeInv, EntryOK
<1>3. \A n \in Node : Takes(n, e, "active", q, r, e0, "active", q1, r, IF n = z THEN {t} ELSE {})
  BY <1>2, DropActiveTakes
<1>4. HomeInv(e0, "active", q1, Protocol)
  <2>1. ActiveOK(e0, q1)
    <3>1. e0.dstate = e.dstate
      OBVIOUS
    <3>2. z \in e.sharers /\ (q.wait \/ q.from # INVALID_CORE_ID => q.requester # z)
      BY <1>1 DEF GaveUpOK, Grantee, Granted
    <3>3. Owned(e) => e.sharers = {z}
      BY <3>2, <1>2 DEF HomeInv, EntryOK
    <3>4. ActiveOK(e, q)
      BY <1>2 DEF HomeInv
    <3> QED BY <3>1, <3>2, <3>3, <3>4 DEF ActiveOK, Owned, Granted
  <2> QED BY <1>2, <2>1 DEF HomeInv
<1>5. DramOK(c, "active", q)
  <2>1. c.dram = d /\ c.queue = qs1 /\ c.done = FALSE /\ q \in Reqs
    BY QueueHead DEF Fresh, Res
  <2>2. q.wait \in BOOLEAN
    BY <2>1 DEF Reqs
  <2> QED BY <1>1, <2>1, <2>2 DEF DramOK
<1> DEFINE T == {t}
<1>6. \A n \in Node : Takes(n, e, ModeOf(qs, FALSE), Head(qs), RestOf(qs),
                           e0, ModeOf(qs1, FALSE), Head(qs1), RestOf(qs1), IF n = z THEN T ELSE {})
  BY <1>1, <1>3
<1>7. /\ HomeInv(e0, ModeOf(qs1, FALSE), Head(qs1), Protocol) /\ RestOf(qs1) \in Seq(FreshReq)
      /\ DramOK(c, ModeOf(qs, FALSE), Head(qs))
  BY <1>1, <1>4, <1>5
<1> HIDE DEF T
<1>8. Outcome(c, e, qs, FALSE, z, T)
  BY <1>6, <1>7, QuietOutcome
<1> QED BY <1>8 DEF T

\* The request goes on after z's copy is gone, as the outcome of a handler.
LEMMA GoesOnOutcome ==
    ASSUME config \in Config, MaxHwSharers >= NumNodes, NEW e \in Entry, NEW qs \in Seq(Reqs),
           RestOf(qs) \in Seq(FreshReq), NEW z \in Node, NEW victim,
           HomeInv(e, ModeOf(qs, FALSE), Head(qs), Protocol),
           GaveUpOK(z, e, ModeOf(qs, FALSE), Head(qs)),
           NEW c, NEW e0, NEW d \in Writes, NEW t \in {"INV_REP", "FLUSH_REP"},
           Handled(c, e0, qs, d), qs # <<>>,
           ~Granted("active", Head(qs)), Head(qs).type \in ReqType,
           \/ e.sharers \subseteq {z}
           \/ Head(qs).type = "UPGRADE_REQ" /\ e.sharers \subseteq {z, Head(qs).requester},
           e0.sharers = e.sharers \ {z},
           e0.dstate = IF e.sharers \subseteq {z} THEN "UNCACHED" ELSE e.dstate
    PROVE  Outcome(c, e, qs, FALSE, z, {t})
<1> DEFINE q == Head(qs)
           r == Tail(qs)
<1>1. ModeOf(qs, FALSE) = "active" /\ RestOf(qs) = r
  BY DEF ModeOf, RestOf
<1>2. HomeInv(e, "active", q, Protocol) /\ HomeInv(e, "active", q, "any")
  BY <1>1 DEF HomeInv, EntryOK
<1>3. \A n \in Node : Takes(n, e, "active", q, r, e0, "ready", q, r, IF n = z THEN {t} ELSE {})
  BY <1>2, DropReadyTakes
<1>4. ~q.wait
  BY DEF Granted
<1> DEFINE T == {t}
<1>6. \A n \in Node : Takes(n, e, ModeOf(qs, FALSE), Head(qs), RestOf(qs),
                           e0, "ready", Head(qs), RestOf(qs), IF n = z THEN T ELSE {})
  BY <1>1, <1>3
<1> HIDE DEF T
<1>8. Outcome(c, e, qs, FALSE, z, T)
  BY <1>4, <1>6, HandledOutcome
<1> QED BY <1>8 DEF T

\* Facts about the entry that the sender has left.
LEMMA InvLeft ==
    ASSUME NEW e \in Entry, NEW qs, NEW z, HomeInv(e, ModeOf(qs, FALSE), Head(qs), Protocol),
           GaveUpOK(z, e, ModeOf(qs, FALSE), Head(qs)), e.dstate \in {"SHARED", "EXCLUSIVE"}
    PROVE  /\ EntryOK(InvEntry(e, z), Protocol)
           /\ InvEntry(e, z).sharers = e.sharers \ {z}
           /\ InvEntry(e, z).dstate = IF e.sharers \subseteq {z} THEN "UNCACHED" ELSE e.dstate
           /\ InvEntry(e, z).dstate = "UNCACHED" <=> e.sharers \subseteq {z}
           /\ ~(e.sharers \subseteq {z}) => InvEntry(e, z).dstate = "SHARED" /\ e.dstate = "SHARED"
           /\ qs # <<>> => ModeOf(qs, FALSE) = "active" /\ HomeInv(e, "active", Head(qs), Protocol)
           /\ qs # <<>> => GaveUpOK(z, e, "active", Head(qs))
<1>1. EntryOK(e, Protocol) /\ z \in e.sharers
  BY DEF HomeInv, GaveUpOK
<1>2. /\ EntryOK(InvEntry(e, z), Protocol)
      /\ InvEntry(e, z).sharers = e.sharers \ {z}
      /\ InvEntry(e, z).dstate = IF e.sharers \subseteq {z} THEN "UNCACHED" ELSE e.dstate
  BY <1>1, InvEntryOK
<1>3. e.dstate = "EXCLUSIVE" => e.sharers \subseteq {z}
  BY <1>1 DEF EntryOK, Owned
<1>4. qs # <<>> => ModeOf(qs, FALSE) = "active"
  BY DEF ModeOf
<1>5. ASSUME ~(e.sharers \subseteq {z})
      PROVE  InvEntry(e, z).dstate = "SHARED" /\ e.dstate = "SHARED"
  BY <1>2, <1>3, <1>5
<1>6. InvEntry(e, z).dstate = "UNCACHED" <=> e.sharers \subseteq {z}
  BY <1>2
<1> QED BY <1>2, <1>4, <1>5, <1>6

\* processInvRepFromL2Cache: an eviction while no request is being processed.
LEMMA InvRepIdle ==
    ASSUME config \in Config, MaxHwSharers >= NumNodes, NEW e \in Entry, NEW qs \in Seq(Reqs),
           RestOf(qs) \in Seq(FreshReq), NEW z \in Node, NEW victim,
           HomeInv(e, ModeOf(qs, FALSE), Head(qs), Protocol),
           GaveUpOK(z, e, ModeOf(qs, FALSE), Head(qs)),
           e.dstate \in {"SHARED", "EXCLUSIVE"}, NEW c3, Fresh(c3, InvEntry(e, z), qs, <<>>), qs = <<>>
    PROVE  Outcome(c3, e, qs, FALSE, z, {"INV_REP"})
<1> DEFINE e0 == InvEntry(e, z)
           q == Head(qs)
           T == {"INV_REP"}
           r == RestOf(qs)
           m == ModeOf(qs, FALSE)
<1>1. m = "idle"
  BY DEF ModeOf
<1>2. /\ EntryOK(e0, Protocol) /\ e0.sharers = e.sharers \ {z}
      /\ e0.dstate = IF e.sharers \subseteq {z} THEN "UNCACHED" ELSE e.dstate
  BY InvLeft
<1> HIDE DEF e0, q, m
<1>3. HomeInv(e, "idle", q, "any")
  BY <1>1 DEF HomeInv, EntryOK, m, q
<1>4. \A n \in Node : Takes(n, e, "idle", q, r, e0, "idle", q, r, IF n = z THEN T ELSE {})
  BY <1>2, <1>3, DropIdleTakes
<1>5. HomeInv(e0, "idle", q, Protocol)
  BY <1>2 DEF HomeInv
<1>6. DramOK(c3, m, q)
  BY <1>1 DEF DramOK, Fresh, Res, Writes
<1> HIDE DEF T
<1>7. Outcome(c3, e, qs, FALSE, z, T)
  BY <1>1, <1>4, <1>5, <1>6, QuietOutcome DEF m, q, e0
<1> QED BY <1>7 DEF T

\* The requests that wait for all copies, or all other copies, to go.
LEMMA InvRepEx ==
    ASSUME config \in Config, MaxHwSharers >= NumNodes, NEW e \in Entry, NEW qs \in Seq(Reqs),
           RestOf(qs) \in Seq(FreshReq), NEW z \in Node, NEW victim,
           HomeInv(e, ModeOf(qs, FALSE), Head(qs), Protocol),
           GaveUpOK(z, e, ModeOf(qs, FALSE), Head(qs)),
           e.dstate \in {"SHARED", "EXCLUSIVE"}, NEW c3, Fresh(c3, InvEntry(e, z), qs, <<>>), qs # <<>>, Head(qs).type = "EX_REQ"
    PROVE  Outcome(IF c3.entry.dstate = "UNCACHED" THEN ProcessExReq(c3, NULL) ELSE c3,
                   e, qs, FALSE, z, {"INV_REP"})
<1> DEFINE e0 == InvEntry(e, z)
           q == Head(qs)
<1>1. /\ EntryOK(e0, Protocol) /\ e0.sharers = e.sharers \ {z}
      /\ e0.dstate = IF e.sharers \subseteq {z} THEN "UNCACHED" ELSE e.dstate
      /\ e0.dstate = "UNCACHED" <=> e.sharers \subseteq {z}
      /\ ModeOf(qs, FALSE) = "active" /\ HomeInv(e, "active", q, Protocol)
  BY InvLeft
<1>2. c3.entry = e0
  BY FreshFacts
<1> HIDE DEF e0
<1>3. ~Granted("active", q) /\ q.requester \notin e.sharers /\ z # q.requester
  BY <1>1 DEF HomeInv, ActiveOK, Granted, GaveUpOK
<1>4. <<>> \in Writes /\ NULL \in Bufs
  BY DEF Writes, Bufs
<1>5. CASE e.sharers \subseteq {z}
  <2>1. HomeInv(e0, "ready", q, Protocol) /\ ReqOK(e0, q)
    BY <1>1, <1>3 DEF HomeInv, ReqOK, Granted
  <2>2. Handled(ProcessExReq(c3, NULL), e0, qs, <<>>)
    BY <1>4, <2>1, ExReqHandled DEF e0
  <2>3. Outcome(ProcessExReq(c3, NULL), e, qs, FALSE, z, {"INV_REP"})
    BY <1>1, <1>3, <1>4, <1>5, <2>2, GoesOnOutcome DEF ReqType
  <2> QED BY <1>1, <1>2, <1>5, <2>3
<1>6. CASE ~(e.sharers \subseteq {z})
  <2>1. Outcome(c3, e, qs, FALSE, z, {"INV_REP"})
    BY <1>1, <1>3, <1>4, <1>6, KeptOutcome DEF e0
  <2> QED BY <1>1, <1>2, <1>6, <2>1
<1> QED BY <1>5, <1>6

\* processInvRepFromL2Cache while an upgrade waits for all other copies to go.
LEMMA InvRepUpgrade ==
    ASSUME config \in Config, MaxHwSharers >= NumNodes, NEW e \in Entry, NEW qs \in Seq(Reqs),
           RestOf(qs) \in Seq(FreshReq), NEW z \in Node, NEW victim,
           HomeInv(e, ModeOf(qs, FALSE), Head(qs), Protocol),
           GaveUpOK(z, e, ModeOf(qs, FALSE), Head(qs)),
           e.dstate \in {"SHARED", "EXCLUSIVE"}, NEW c3, Fresh(c3, InvEntry(e, z), qs, <<>>), qs # <<>>, Head(qs).type = "UPGRADE_REQ"
    PROVE  Outcome(IF c3.entry.sharers \in {{}, {Head(qs).requester}}
                   THEN ProcessUpgradeReq(c3, NULL) ELSE c3, e, qs, FALSE, z, {"INV_REP"})
<1> DEFINE e0 == InvEntry(e, z)
           q == Head(qs)
<1>1. /\ EntryOK(e0, Protocol) /\ e0.sharers = e.sharers \ {z}
      /\ e0.dstate = IF e.sharers \subseteq {z} THEN "UNCACHED" ELSE e.dstate
      /\ e0.dstate = "UNCACHED" <=> e.sharers \subseteq {z}
      /\ ~(e.sharers \subseteq {z}) => e0.dstate = "SHARED"
      /\ ModeOf(qs, FALSE) = "active" /\ HomeInv(e, "active", q, Protocol)
      /\ GaveUpOK(z, e, "active", q)
  BY InvLeft
<1>2. c3.entry = e0 /\ c3.queue = qs
  BY FreshFacts
<1>4. <<>> \in Writes /\ NULL \in Bufs
  BY DEF Writes, Bufs
<1> HIDE DEF e0
<1>3. ~Granted("active", q) /\ z # q.requester
  BY <1>1 DEF HomeInv, ActiveOK, Granted, GaveUpOK
<1>7. z \in e.sharers
  BY DEF GaveUpOK
<1>5. CASE e0.sharers \in {{}, {q.requester}}
  <2>1. e.sharers \subseteq {z} \/ e.sharers \subseteq {z, q.requester}
    BY <1>1, <1>5
  <2>2. q.requester \in e0.sharers => e0.dstate = "SHARED"
    BY <1>1, <1>3
  <2>3. HomeInv(e0, "ready", q, Protocol) /\ ReqOK(e0, q)
    BY <1>1, <1>3, <2>2 DEF HomeInv, ReqOK, Granted
  <2>4. Handled(ProcessUpgradeReq(c3, NULL), e0, qs, <<>>)
    BY <1>4, <2>3, UpgradeReqHandled DEF e0
  <2>5. Outcome(ProcessUpgradeReq(c3, NULL), e, qs, FALSE, z, {"INV_REP"})
    BY <1>1, <1>3, <1>4, <2>1, <2>4, GoesOnOutcome DEF ReqType
  <2> QED BY <1>2, <1>5, <2>5
<1>6. CASE ~(e0.sharers \in {{}, {q.requester}})
  <2>1. ~(e.sharers \subseteq {z}) /\ e0.sharers # {q.requester}
    BY <1>1, <1>6
  <2>2. Outcome(c3, e, qs, FALSE, z, {"INV_REP"})
    BY <1>1, <1>3, <1>4, <2>1, KeptOutcome DEF e0
  <2> QED BY <1>2, <1>6, <2>2
<1> QED BY <1>5, <1>6

\* processInvRepFromL2Cache during a read request: only the forwarder's eviction matters to it.
LEMMA InvRepSh ==
    ASSUME config \in Config, MaxHwSharers >= NumNodes, NEW e \in Entry, NEW qs \in Seq(Reqs),
           RestOf(qs) \in Seq(FreshReq), NEW z \in Node, NEW victim,
           HomeInv(e, ModeOf(qs, FALSE), Head(qs), Protocol),
           GaveUpOK(z, e, ModeOf(qs, FALSE), Head(qs)),
           e.dstate \in {"SHARED", "EXCLUSIVE"}, NEW c3, Fresh(c3, InvEntry(e, z), qs, <<>>), qs # <<>>, Head(qs).type = "SH_REQ"
    PROVE  Outcome(IF \/ Head(qs).wait
                      \/ Head(qs).from # INVALID_CORE_ID /\ z # Head(qs).from
                   THEN c3 ELSE ProcessShReq(c3, NULL, victim), e, qs, FALSE, z, {"INV_REP"})
<1> DEFINE e0 == InvEntry(e, z)
           q == Head(qs)
<1>1. /\ EntryOK(e0, Protocol) /\ e0.sharers = e.sharers \ {z}
      /\ e0.dstate = IF e.sharers \subseteq {z} THEN "UNCACHED" ELSE e.dstate
      /\ e0.dstate = "UNCACHED" <=> e.sharers \subseteq {z}
      /\ ~(e.sharers \subseteq {z}) => e0.dstate = "SHARED"
      /\ ModeOf(qs, FALSE) = "active" /\ HomeInv(e, "active", q, Protocol)
      /\ GaveUpOK(z, e, "active", q)
  BY InvLeft
<1>2. c3.entry = e0 /\ c3.queue = qs
  BY FreshFacts
<1>4. <<>> \in Writes /\ NULL \in Bufs
  BY DEF Writes, Bufs
<1> HIDE DEF e0
<1>7. z \in e.sharers /\ ActiveOK(e, q) /\ (Granted("active", q) => z # q.requester)
      /\ q.requester \in Node /\ z # INVALID_CORE_ID
  <2>1. z \in e.sharers /\ ActiveOK(e, q) /\ (Granted("active", q) => z # q.requester)
    BY <1>1 DEF GaveUpOK, HomeInv, Grantee
  <2>2. q.requester \in Node
    BY FreshFacts
  <2>3. z # INVALID_CORE_ID
    BY DEF Node, INVALID_CORE_ID
  <2> QED BY <2>1, <2>2, <2>3
<1>5. CASE q.wait \/ (q.from # INVALID_CORE_ID /\ z # q.from)
  <2>1. /\ ~(e.sharers \subseteq {z}) /\ z # q.requester
        /\ (Granted("active", q) /\ q.from # z) \/ q.wait
    BY <1>5, <1>7 DEF ActiveOK, Granted
  <2>2. Outcome(c3, e, qs, FALSE, z, {"INV_REP"})
    BY <1>1, <1>4, <2>1, KeptOutcome DEF e0
  <2> QED BY <1>5, <2>2
<1>6. CASE ~q.wait /\ q.from = INVALID_CORE_ID
  <2>1. e.sharers \subseteq {z} /\ ~Granted("active", q) /\ q.requester \notin e0.sharers
    BY <1>1, <1>6, <1>7 DEF ActiveOK, Granted, HomeInv, EntryOK
  <2>3. HomeInv(e0, "ready", q, Protocol) /\ ReqOK(e0, q)
    BY <1>1, <1>6, <2>1 DEF HomeInv, ReqOK
  <2>4. Handled(ProcessShReq(c3, NULL, victim), e0, qs, <<>>)
    BY <1>4, <2>3, ShReqHandled DEF e0
  <2>5. Outcome(ProcessShReq(c3, NULL, victim), e, qs, FALSE, z, {"INV_REP"})
    BY <1>1, <1>4, <2>1, <2>4, GoesOnOutcome DEF ReqType
  <2> QED BY <1>6, <2>5
<1>8. CASE ~q.wait /\ q.from = z
  <2> DEFINE c1 == RetrieveDataAndSendToL2Cache(c3, "SH_REP", q.requester, NULL)
             qs1 == Waits1(qs)
             q1 == Head(qs1)
             T == {"INV_REP"}
             r == Tail(qs)
  <2>1. /\ e.dstate = "SHARED" /\ q.requester \in e0.sharers /\ ~(e.sharers \subseteq {z})
        /\ e0.dstate = "SHARED" /\ q.from # INVALID_CORE_ID /\ z # q.requester
    BY <1>1, <1>7, <1>8 DEF ActiveOK, Granted
  <2>2. ProcessShReq(c3, NULL, victim) = c1
    BY <1>2, <2>1 DEF ProcessShReq
  <2>3. Fresh(c1, e0, qs1, Append(<<>>, Message("DRAM_READ_REQ", NULL)))
    BY <2>1, RetrieveFromDram DEF e0
  <2>4. /\ qs1 # <<>> /\ Tail(qs1) = Tail(qs) /\ Head(qs1) = [q EXCEPT !.wait = TRUE] /\ q \in Reqs
    BY Waits1Queue, QueueHead
  <2>5. q1.type = q.type /\ q1.requester = q.requester /\ q1.wait = TRUE /\ q1.from = q.from
    BY <2>4 DEF Reqs
  <2> HIDE DEF c1, qs1, q1, r
  <2>6. /\ ModeOf(qs1, FALSE) = "active" /\ RestOf(qs) = r /\ RestOf(qs1) = r
    BY <2>4 DEF ModeOf, RestOf, r
  <2>7. HomeInv(e0, "active", q1, Protocol)
    BY <1>1, <1>7, <1>8, <2>1, <2>5 DEF HomeInv, ActiveOK
  <2>8. ASSUME NEW n \in Node
        PROVE  Takes(n, e, "active", q, r, e0, "active", q1, r, IF n = z THEN T ELSE {})
    <3> SUFFICES ASSUME NEW a, NEW l, NEW w, NEW dr, NEW s, NEW d, NEW d1,
                        NodeInv(n, a, e, "active", q, r, l, w, dr, s, d),
                        Removed(d, d1, a, IF n = z THEN {"INV_REP"} ELSE {})
                 PROVE  NodeInv(n, a, e0, "active", q1, r, l, w, dr, s, d1)
      BY DEF Takes
    <3> QED BY <1>1, <1>7, <1>8, <2>1, <2>5, DropForwarderStep
  <2>9. DramOK(c1, "active", q)
    <3>1. /\ c1.dram = Append(<<>>, Message("DRAM_READ_REQ", NULL)) /\ c1.queue = qs1
          /\ c1.done = FALSE
      BY <2>3 DEF Fresh, Res
    <3> QED BY <1>4, <1>8, <2>5, <2>6, <3>1 DEF DramOK, q1
  <2> HIDE DEF T
  <2>10. Outcome(c1, e, qs, FALSE, z, T)
    <3>1. \A n \in Node : Takes(n, e, ModeOf(qs, FALSE), Head(qs), RestOf(qs),
                              e0, ModeOf(qs1, FALSE), Head(qs1), RestOf(qs1), IF n = z THEN T ELSE {})
      BY <1>1, <2>6, <2>8 DEF q1
    <3>2. /\ HomeInv(e0, ModeOf(qs1, FALSE), Head(qs1), Protocol) /\ RestOf(qs1) \in Seq(FreshReq)
          /\ DramOK(c1, ModeOf(qs, FALSE), Head(qs))
      BY <1>1, <2>6, <2>7, <2>9 DEF q1
    <3> QED BY <2>3, <3>1, <3>2, QuietOutcome
  <2>11. ~(q.wait \/ (q.from # INVALID_CORE_ID /\ z # q.from))
    BY <1>8
  <2> QED BY <2>2, <2>10, <2>11 DEF T
<1> QED BY <1>5, <1>6, <1>8

\* The last copy of a replaced entry is gone: invalidateDirectoryEntry.
LEMMA NullifyDone ==
    ASSUME config \in Config, MaxHwSharers >= NumNodes, NEW e \in Entry, NEW qs \in Seq(Reqs),
           RestOf(qs) \in Seq(FreshReq), NEW z \in Node, NEW victim,
           HomeInv(e, ModeOf(qs, FALSE), Head(qs), Protocol),
           GaveUpOK(z, e, ModeOf(qs, FALSE), Head(qs)),
           NEW c3, NEW e0, NEW d \in Writes, Fresh(c3, e0, qs, d),
           e0.dstate = "UNCACHED", qs # <<>>, Head(qs).type = "NULLIFY_REQ",
           e.sharers \subseteq {z}, NEW t \in {"INV_REP", "FLUSH_REP"}
    PROVE  Outcome(ProcessNullifyReq(c3), e, qs, FALSE, z, {t})
<1> DEFINE q == Head(qs)
           r == Tail(qs)
           c2 == [c3 EXCEPT !.gone = TRUE]
           c1 == ProcessNext(c2)
           T == {t}
<1>1. /\ ModeOf(qs, FALSE) = "active" /\ ModeOf(qs, TRUE) = "done" /\ RestOf(qs) = r
      /\ HomeInv(e, "active", q, Protocol)
  BY DEF ModeOf, RestOf
<1>2. /\ c3 \in Contexts /\ c3.entry = e0 /\ c3.queue = qs /\ c3.dram = d /\ c3.failed = {}
      /\ \A n \in Node : c3.out[n] = <<>>
  BY DEF Fresh, Res, OutTo
<1>3. ProcessNullifyReq(c3) = c1
  BY <1>2 DEF ProcessNullifyReq
<1>4. /\ c1 \in Contexts /\ c1.entry = e0 /\ c1.queue = qs /\ c1.dram = d /\ c1.failed = {}
      /\ c1.out = c3.out /\ c1.done = TRUE /\ c1.gone = TRUE
  BY <1>2 DEF ProcessNext, Check, Contexts
<1> HIDE DEF c1
<1>5. EntryAfter(c1) = NewEntry /\ NewEntry.sharers = {} /\ NewEntry.dstate = "UNCACHED"
      /\ NewEntry.forwarder = UNINITIALISED
  BY <1>4 DEF EntryAfter, NewEntry
<1>6. OutOK(c1) /\ \A n \in Node : Sent(c1, n) = {}
  BY <1>2, <1>4 DEF OutOK, Sent
<1>7. HomeInv(NewEntry, "done", q, Protocol)
  BY <1>5 DEF HomeInv, EntryOK, Owned
<1>8. ~q.wait
  BY <1>1 DEF HomeInv, ActiveOK
<1>9. DramOK(c1, "active", q)
  BY <1>4, <1>8 DEF DramOK
<1>10. ASSUME NEW n \in Node
       PROVE  Step(n, e, "active", q, r, NewEntry, "done", q, r, {}, IF n = z THEN T ELSE {})
  <2> SUFFICES ASSUME NEW a, NEW l, NEW w, NEW dr, NEW s, NEW s1, NEW dd, NEW dd1,
                      NodeInv(n, a, e, "active", q, r, l, w, dr, s, dd),
                      Appended(s, s1, a, {}), Removed(dd, dd1, a, IF n = z THEN {t} ELSE {})
               PROVE  NodeInv(n, a, NewEntry, "done", q, r, l, w, dr, s1, dd1)
    BY DEF Step
  <2>1. NodeInv(n, a, NewEntry, "done", q, r, l, w, dr, s, dd1)
    BY <1>1, <1>5, DropDoneStep
  <2> QED BY <2>1, RemovedSame, OtherEntryStep
<1> HIDE DEF T, q, r
<1>11. Outcome(c1, e, qs, FALSE, z, T)
  BY <1>1, <1>4, <1>5, <1>6, <1>7, <1>9, <1>10 DEF Outcome, Settled, q, r
<1> QED BY <1>3, <1>11 DEF T

\* processInvRepFromL2Cache while the entry is being replaced.
LEMMA InvRepNullify ==
    ASSUME config \in Config, MaxHwSharers >= NumNodes, NEW e \in Entry, NEW qs \in Seq(Reqs),
           RestOf(qs) \in Seq(FreshReq), NEW z \in Node, NEW victim,
           HomeInv(e, ModeOf(qs, FALSE), Head(qs), Protocol),
           GaveUpOK(z, e, ModeOf(qs, FALSE), Head(qs)),
           e.dstate \in {"SHARED", "EXCLUSIVE"}, NEW c3, Fresh(c3, InvEntry(e, z), qs, <<>>), qs # <<>>, Head(qs).type = "NULLIFY_REQ"
    PROVE  Outcome(IF c3.entry.dstate = "UNCACHED" THEN ProcessNullifyReq(c3) ELSE c3,
                   e, qs, FALSE, z, {"INV_REP"})
<1> DEFINE e0 == InvEntry(e, z)
           q == Head(qs)
<1>1. /\ EntryOK(e0, Protocol) /\ e0.sharers = e.sharers \ {z}
      /\ e0.dstate = IF e.sharers \subseteq {z} THEN "UNCACHED" ELSE e.dstate
      /\ e0.dstate = "UNCACHED" <=> e.sharers \subseteq {z}
      /\ ~(e.sharers \subseteq {z}) => e0.dstate = "SHARED"
      /\ ModeOf(qs, FALSE) = "active" /\ HomeInv(e, "active", q, Protocol)
      /\ GaveUpOK(z, e, "active", q)
  BY InvLeft
<1>2. c3.entry = e0 /\ c3.queue = qs
  BY FreshFacts
<1>4. <<>> \in Writes /\ NULL \in Bufs
  BY DEF Writes, Bufs
<1> HIDE DEF e0
<1>5. CASE e.sharers \subseteq {z}
  <2>1. Outcome(ProcessNullifyReq(c3), e, qs, FALSE, z, {"INV_REP"})
    BY <1>1, <1>4, <1>5, NullifyDone DEF e0
  <2> QED BY <1>1, <1>2, <1>5, <2>1
<1>6. CASE ~(e.sharers \subseteq {z})
  <2>1. Outcome(c3, e, qs, FALSE, z, {"INV_REP"})
    BY <1>1, <1>4, <1>6, KeptOutcome DEF e0
  <2> QED BY <1>1, <1>2, <1>6, <2>1
<1> QED BY <1>5, <1>6

\* removeSharer, without a failed assertion.
LEMMA RemoveSharerRes ==
    ASSUME NEW c, NEW e, NEW qs, NEW d, Fresh(c, e, qs, d), NEW z, z \in e.sharers,
           e.dstate \in {"SHARED", "EXCLUSIVE"}
    PROVE  Fresh(RemoveSharer(c, z), InvEntry(e, z), qs, d)
<1> DEFINE c1 == Check(c, c.entry.dstate \in {"SHARED", "EXCLUSIVE"}, "processInvRep: dstate")
           c2 == Check(c1, z \in c.entry.sharers, "removeSharer")
           left == c.entry.sharers \ {z}
<1>1. c.entry = e
  BY DEF Fresh, Res
<1>2. c1 = c
  BY <1>1 DEF Check
<1> HIDE DEF c1
<1>3. c2 = c
  BY <1>1, <1>2 DEF Check
<1> HIDE DEF c2, left
<1>4. left = c2.entry.sharers \ {z} /\ Fresh(c2, e, qs, d)
  BY <1>3 DEF left
<1>5. Fresh([c2 EXCEPT !.entry.sharers = left,
                       !.entry.forwarder = IF @ = z THEN INVALID_CORE_ID ELSE @,
                       !.entry.dstate = IF left = {} THEN "UNCACHED" ELSE @],
            InvEntry(e, z), qs, d)
  BY <1>4, InvDrop
<1> QED BY <1>5 DEF RemoveSharer, c2, c1, left

\* processInvRepFromL2Cache.
LEMMA InvRepOutcome ==
    ASSUME config \in Config, MaxHwSharers >= NumNodes, NEW e \in Entry, NEW qs \in Seq(Reqs),
           RestOf(qs) \in Seq(FreshReq), NEW z \in Node, NEW victim,
           HomeInv(e, ModeOf(qs, FALSE), Head(qs), Protocol),
           GaveUpOK(z, e, ModeOf(qs, FALSE), Head(qs)),
           e.dstate \in {"SHARED", "EXCLUSIVE"}, NEW c, Fresh(c, e, qs, <<>>)
    PROVE  Outcome(ProcessInvRep(c, z, victim), e, qs, FALSE, z, {"INV_REP"})
<1> DEFINE c3 == RemoveSharer(c, z)
           q == Head(qs)
           p == GoOnAfterInvRep(c3, z, victim)
<1>1. c.queue = qs
  BY DEF Fresh, Res
<1>2. z \in e.sharers
  BY DEF GaveUpOK
<1>3. Fresh(c3, InvEntry(e, z), qs, <<>>)
  BY <1>2, RemoveSharerRes
<1>4. ProcessInvRep(c, z, victim) = IF qs = <<>> THEN c3 ELSE p
  BY <1>1 DEF ProcessInvRep
<1> HIDE DEF c3
<1>10. c3.queue = qs
  BY <1>3 DEF Fresh, Res
<1>5. CASE qs = <<>>
  BY <1>3, <1>4, <1>5, InvRepIdle
<1>6. CASE qs # <<>> /\ q.type = "EX_REQ"
  <2>1. p = IF c3.entry.dstate = "UNCACHED" THEN ProcessExReq(c3, NULL) ELSE c3
    BY <1>6, <1>10 DEF GoOnAfterInvRep
  <2> HIDE DEF p
  <2>2. Outcome(p, e, qs, FALSE, z, {"INV_REP"})
    BY <1>3, <1>6, <2>1, InvRepEx
  <2> QED BY <1>4, <1>6, <2>2
<1>7. CASE qs # <<>> /\ q.type = "UPGRADE_REQ"
  <2>1. p = IF c3.entry.sharers \in {{}, {q.requester}} THEN ProcessUpgradeReq(c3, NULL) ELSE c3
    BY <1>7, <1>10 DEF GoOnAfterInvRep
  <2> HIDE DEF p
  <2>2. Outcome(p, e, qs, FALSE, z, {"INV_REP"})
    BY <1>3, <1>7, <2>1, InvRepUpgrade
  <2> QED BY <1>4, <1>7, <2>2
<1>8. CASE qs # <<>> /\ q.type = "SH_REQ"
  <2>1. p = IF \/ q.wait
               \/ q.from # INVALID_CORE_ID /\ z # q.from
            THEN c3 ELSE ProcessShReq(c3, NULL, victim)
    BY <1>8, <1>10 DEF GoOnAfterInvRep
  <2> HIDE DEF p
  <2>2. Outcome(p, e, qs, FALSE, z, {"INV_REP"})
    BY <1>3, <1>8, <2>1, InvRepSh
  <2> QED BY <1>4, <1>8, <2>2
<1>9. CASE qs # <<>> /\ q.type = "NULLIFY_REQ"
  <2>1. p = IF c3.entry.dstate = "UNCACHED" THEN ProcessNullifyReq(c3) ELSE c3
    BY <1>9, <1>10 DEF GoOnAfterInvRep
  <2> HIDE DEF p
  <2>2. Outcome(p, e, qs, FALSE, z, {"INV_REP"})
    BY <1>3, <1>9, <2>1, InvRepNullify
  <2> QED BY <1>4, <1>9, <2>2
<1>11. qs # <<>> => q.type \in {"EX_REQ", "UPGRADE_REQ", "SH_REQ", "NULLIFY_REQ"}
  BY QueueHead DEF Reqs, ReqType
<1> QED BY <1>5, <1>6, <1>7, <1>8, <1>9, <1>11

-----------------------------------------------------------------------------
(* FLUSH_REP.                                                               *)

\* The entry after the sender of a FLUSH_REP has been removed.
FlushEntry(e, z) ==
    EntryWith(IF e.sharers \subseteq {z} THEN "UNCACHED" ELSE e.dstate, e.sharers \ {z},
              INVALID_CORE_ID, INVALID_CORE_ID)

\* The context of the handler once the sender of a FLUSH_REP is removed.
LEMMA FlushDrop ==
    ASSUME NEW c, NEW e, NEW qs, NEW d, Fresh(c, e, qs, d), NEW z,
           NEW left, left = c.entry.sharers \ {z}
    PROVE  Fresh([c EXCEPT !.entry.sharers = left,
                           !.entry.forwarder = INVALID_CORE_ID,
                           !.entry.owner = INVALID_CORE_ID,
                           !.entry.dstate = IF left = {} THEN "UNCACHED" ELSE @],
                 FlushEntry(e, z), qs, d)
<1> DEFINE c1 == [c EXCEPT !.entry.sharers = left,
                           !.entry.forwarder = INVALID_CORE_ID,
                           !.entry.owner = INVALID_CORE_ID,
                           !.entry.dstate = IF left = {} THEN "UNCACHED" ELSE @]
<1>0. c \in Contexts /\ c.entry = e /\ e \in Entry /\ left = e.sharers \ {z} /\ left \subseteq Node
  BY DEF Fresh, Res, Contexts, Entry
<1>1. /\ c1 \in Contexts
      /\ c1.entry.dstate = (IF left = {} THEN "UNCACHED" ELSE c.entry.dstate)
      /\ c1.entry.sharers = left /\ c1.entry.owner = INVALID_CORE_ID
      /\ c1.entry.forwarder = INVALID_CORE_ID
      /\ c1.queue = c.queue /\ c1.dram = c.dram /\ c1.done = c.done
      /\ c1.gone = c.gone /\ c1.failed = c.failed /\ c1.out = c.out
  BY <1>0 DEF Contexts, Entry, DState
<1> HIDE DEF c1
<1>2. c1.entry = EntryWith(IF left = {} THEN "UNCACHED" ELSE e.dstate, left, INVALID_CORE_ID,
                           INVALID_CORE_ID)
  BY <1>0, <1>1 DEF Contexts, Entry, EntryWith
<1>3. left = {} <=> e.sharers \subseteq {z}
  BY <1>0
<1>4. c1.entry = FlushEntry(e, z)
  BY <1>0, <1>2, <1>3 DEF FlushEntry
<1>5. Fresh(c1, FlushEntry(e, z), qs, d)
  BY <1>1, <1>4 DEF Fresh, Res, OutTo
<1> QED BY <1>5 DEF c1

\* sendDataToDram.
LEMMA WriteRes ==
    ASSUME NEW c, NEW e, NEW qs, Fresh(c, e, qs, <<>>), NEW b \in Carried
    PROVE  /\ Fresh(SendDram(c, "DRAM_WRITE_REQ", b), e, qs, <<Message("DRAM_WRITE_REQ", b)>>)
           /\ <<Message("DRAM_WRITE_REQ", b)>> \in Writes
<1> DEFINE w == <<Message("DRAM_WRITE_REQ", b)>>
           c1 == SendDram(c, "DRAM_WRITE_REQ", b)
<1>0. c \in Contexts /\ c.dram = <<>>
  BY DEF Fresh, Res
<1>1. Message("DRAM_WRITE_REQ", b) \in Msg
  BY DEF Msg, Message, MsgType, Carried
<1>2. w \in Seq(Msg)
  BY <1>1, Singleton
<1>3. Append(<<>>, Message("DRAM_WRITE_REQ", b)) = w
  OBVIOUS
<1>4. c1 = [c EXCEPT !.dram = w]
  BY <1>0, <1>3 DEF SendDram, Message
<1> HIDE DEF c1, w
<1>5. /\ c1 \in Contexts /\ c1.entry = c.entry /\ c1.queue = c.queue /\ c1.done = c.done
      /\ c1.gone = c.gone /\ c1.failed = c.failed /\ c1.out = c.out /\ c1.dram = w
  BY <1>0, <1>2, <1>4 DEF Contexts
<1>6. Fresh(c1, e, qs, w)
  BY <1>5 DEF Fresh, Res, OutTo
<1>7. w \in Writes
  BY DEF Writes, w
<1> QED BY <1>6, <1>7 DEF c1, w

\* Facts about the entry that a flushed copy has left.
FlushOK(z, e, mode, q) ==
    GaveUpOK(z, e, mode, q) /\ (Owned(e) \/ (Demands(z, mode, q) /\ FlushedForUpgrade(e, q)))

\* The entry without the sender of a FLUSH_REP is consistent.
LEMMA FlushLeft ==
    ASSUME NEW e \in Entry, NEW qs, NEW z, HomeInv(e, ModeOf(qs, FALSE), Head(qs), Protocol),
           FlushOK(z, e, ModeOf(qs, FALSE), Head(qs))
    PROVE  /\ EntryOK(FlushEntry(e, z), Protocol)
           /\ FlushEntry(e, z).sharers = e.sharers \ {z}
           /\ FlushEntry(e, z).dstate = IF e.sharers \subseteq {z} THEN "UNCACHED" ELSE e.dstate
           /\ FlushEntry(e, z).dstate = "UNCACHED" <=> e.sharers \subseteq {z}
           /\ ~(e.sharers \subseteq {z}) =>
                 e.dstate = "SHARED" /\ qs # <<>> /\ FlushedForUpgrade(e, Head(qs))
           /\ qs # <<>> => /\ ModeOf(qs, FALSE) = "active"
                           /\ HomeInv(e, "active", Head(qs), Protocol)
                           /\ GaveUpOK(z, e, "active", Head(qs))
                           /\ ~Granted("active", Head(qs))
<1> DEFINE e1 == FlushEntry(e, z)
           q == Head(qs)
<1>1. EntryOK(e, Protocol) /\ z \in e.sharers
  BY DEF HomeInv, GaveUpOK, FlushOK
<1>2. qs # <<>> <=> ModeOf(qs, FALSE) = "active"
  BY DEF ModeOf
<1>3. Owned(e) => e.sharers = {z}
  BY <1>1 DEF EntryOK
<1>4. ModeOf(qs, FALSE) = "active" => ~Granted("active", q)
  <2> SUFFICES ASSUME ModeOf(qs, FALSE) = "active" PROVE ~Granted("active", q)
    OBVIOUS
  <2>1. ActiveOK(e, q) /\ ~Grantee(z, "active", q)
        /\ (Owned(e) \/ (Demands(z, "active", q) /\ FlushedForUpgrade(e, q)))
    BY DEF HomeInv, FlushOK, GaveUpOK
  <2>2. CASE Owned(e)
    BY <1>3, <2>1, <2>2 DEF ActiveOK, Grantee, Granted, Owned
  <2>3. CASE ~Owned(e)
    BY <2>1, <2>3 DEF Demands
  <2> QED BY <2>2, <2>3
<1>5. ASSUME ~(e.sharers \subseteq {z})
      PROVE  e.dstate = "SHARED" /\ qs # <<>> /\ FlushedForUpgrade(e, q)
  <2>1. ~Owned(e)
    BY <1>3, <1>5
  <2>2. Demands(z, ModeOf(qs, FALSE), q) /\ FlushedForUpgrade(e, q)
    BY <2>1 DEF FlushOK
  <2>3. ModeOf(qs, FALSE) = "active"
    BY <2>2 DEF Demands
  <2>4. ActiveOK(e, q) /\ ~Granted("active", q)
    BY <1>4, <2>3 DEF HomeInv
  <2> QED BY <1>2, <2>1, <2>2, <2>3, <2>4 DEF ActiveOK, Granted, FlushedForUpgrade
<1>6. /\ e1.sharers = e.sharers \ {z} /\ e1.forwarder = INVALID_CORE_ID
      /\ e1.dstate = IF e.sharers \subseteq {z} THEN "UNCACHED" ELSE e.dstate
  BY DEF FlushEntry, EntryWith
<1> HIDE DEF e1, q
<1>7. EntryOK(e1, Protocol) /\ (e1.dstate = "UNCACHED" <=> e.sharers \subseteq {z})
  <2>1. CASE e.sharers \subseteq {z}
    BY <1>6, <2>1 DEF EntryOK, Owned
  <2>2. CASE ~(e.sharers \subseteq {z})
    BY <1>5, <1>6, <2>2 DEF EntryOK, Owned, INVALID_CORE_ID, UNINITIALISED
  <2> QED BY <2>1, <2>2
<1>8. qs # <<>> => HomeInv(e, "active", q, Protocol) /\ GaveUpOK(z, e, "active", q)
  BY <1>2 DEF FlushOK, q
<1> QED BY <1>2, <1>4, <1>5, <1>6, <1>7, <1>8 DEF e1, q

\* The first part of processFlushRepFromL2Cache, without a failed assertion.
LEMMA RemoveFlushedRes ==
    ASSUME NEW c, NEW e, NEW qs, NEW d, Fresh(c, e, qs, d), NEW z, z \in e.sharers,
           e.sharers \ {z} = {} \/ e.dstate = "SHARED"
    PROVE  Fresh(RemoveFlushed(c, z), FlushEntry(e, z), qs, d)
<1> DEFINE left == c.entry.sharers \ {z}
           c1 == Check(c, z \in c.entry.sharers, "processFlushRep: hasSharer")
           c2 == Check(c1, left = {} \/ c.entry.dstate = "SHARED", "processFlushRep: dstate")
<1>1. c.entry = e
  BY DEF Fresh, Res
<1>2. c1 = c
  BY <1>1 DEF Check
<1> HIDE DEF c1
<1>3. c2 = c
  BY <1>1, <1>2 DEF Check
<1> HIDE DEF c2, left
<1>4. left = c2.entry.sharers \ {z} /\ Fresh(c2, e, qs, d)
  BY <1>3 DEF left
<1>5. Fresh([c2 EXCEPT !.entry.sharers = left,
                       !.entry.forwarder = INVALID_CORE_ID,
                       !.entry.owner = INVALID_CORE_ID,
                       !.entry.dstate = IF left = {} THEN "UNCACHED" ELSE @],
            FlushEntry(e, z), qs, d)
  BY <1>4, FlushDrop
<1> QED BY <1>5 DEF RemoveFlushed, c2, c1, left

\* processFlushRepFromL2Cache: an eviction while no request is being processed.
LEMMA FlushRepIdle ==
    ASSUME config \in Config, MaxHwSharers >= NumNodes, NEW e \in Entry, NEW qs \in Seq(Reqs),
           RestOf(qs) \in Seq(FreshReq), NEW z \in Node, NEW victim,
           HomeInv(e, ModeOf(qs, FALSE), Head(qs), Protocol),
           GaveUpOK(z, e, ModeOf(qs, FALSE), Head(qs)), FlushOK(z, e, ModeOf(qs, FALSE), Head(qs)),
           NEW buf \in Carried,
           NEW c3, Fresh(c3, FlushEntry(e, z), qs, <<>>), qs = <<>>
    PROVE  Outcome(SendDram(c3, "DRAM_WRITE_REQ", buf), e, qs, FALSE, z, {"FLUSH_REP"})
<1> DEFINE e0 == FlushEntry(e, z)
           q == Head(qs)
           T == {"FLUSH_REP"}
           r == RestOf(qs)
           m == ModeOf(qs, FALSE)
           c4 == SendDram(c3, "DRAM_WRITE_REQ", buf)
           w == <<Message("DRAM_WRITE_REQ", buf)>>
<1>1. m = "idle"
  BY DEF ModeOf
<1>2. /\ EntryOK(e0, Protocol) /\ e0.sharers = e.sharers \ {z}
      /\ e0.dstate = IF e.sharers \subseteq {z} THEN "UNCACHED" ELSE e.dstate
  BY FlushLeft
<1>8. Fresh(c4, e0, qs, w) /\ w \in Writes
  BY WriteRes
<1> HIDE DEF e0, q, m, c4, w
<1>3. HomeInv(e, "idle", q, "any")
  BY <1>1 DEF HomeInv, EntryOK, m, q
<1>4. \A n \in Node : Takes(n, e, "idle", q, r, e0, "idle", q, r, IF n = z THEN T ELSE {})
  BY <1>2, <1>3, DropIdleTakes
<1>5. HomeInv(e0, "idle", q, Protocol)
  BY <1>2 DEF HomeInv
<1>6. DramOK(c4, m, q)
  BY <1>1, <1>8 DEF DramOK, Fresh, Res
<1> HIDE DEF T
<1>7. Outcome(c4, e, qs, FALSE, z, T)
  BY <1>1, <1>4, <1>5, <1>6, <1>8, QuietOutcome DEF m, q
<1> QED BY <1>7 DEF T, c4

\* processFlushRepFromL2Cache: the data answers the EX_REQ.
LEMMA FlushRepEx ==
    ASSUME config \in Config, MaxHwSharers >= NumNodes, NEW e \in Entry, NEW qs \in Seq(Reqs),
           RestOf(qs) \in Seq(FreshReq), NEW z \in Node, NEW victim,
           HomeInv(e, ModeOf(qs, FALSE), Head(qs), Protocol),
           GaveUpOK(z, e, ModeOf(qs, FALSE), Head(qs)), FlushOK(z, e, ModeOf(qs, FALSE), Head(qs)),
           NEW buf \in Carried,
           NEW c3, Fresh(c3, FlushEntry(e, z), qs, <<>>), qs # <<>>, Head(qs).type = "EX_REQ"
    PROVE  Outcome(ProcessExReq(c3, buf), e, qs, FALSE, z, {"FLUSH_REP"})
<1> DEFINE e0 == FlushEntry(e, z)
           q == Head(qs)
<1>1. /\ EntryOK(e0, Protocol) /\ e0.sharers = e.sharers \ {z}
      /\ e0.dstate = IF e.sharers \subseteq {z} THEN "UNCACHED" ELSE e.dstate
      /\ e0.dstate = "UNCACHED" <=> e.sharers \subseteq {z}
      /\ ~(e.sharers \subseteq {z}) => e.dstate = "SHARED" /\ FlushedForUpgrade(e, q)
      /\ ModeOf(qs, FALSE) = "active" /\ HomeInv(e, "active", q, Protocol)
      /\ GaveUpOK(z, e, "active", q) /\ ~Granted("active", q)
  BY FlushLeft
<1>2. c3.entry = e0 /\ c3.queue = qs
  BY FreshFacts
<1>4. <<>> \in Writes /\ buf \in Bufs /\ buf # NULL
  BY DEF Writes, Bufs, Carried
<1> HIDE DEF e0
<1>3. z \in e.sharers /\ ActiveOK(e, q)
  BY <1>1 DEF HomeInv, GaveUpOK
<1>5. e.sharers \subseteq {z}
  BY <1>1 DEF FlushedForUpgrade
<1>6. HomeInv(e0, "ready", q, Protocol) /\ ReqOK(e0, q)
  BY <1>1, <1>3 DEF HomeInv, ReqOK, Granted, ActiveOK
<1>7. Handled(ProcessExReq(c3, buf), e0, qs, <<>>)
  BY <1>1, <1>4, <1>5, <1>6, ExReqHandled DEF e0
<1> QED BY <1>1, <1>4, <1>5, <1>7, GoesOnOutcome DEF ReqType

\* processFlushRepFromL2Cache: the data answers the SH_REQ and is written to DRAM.
LEMMA FlushRepSh ==
    ASSUME config \in Config, MaxHwSharers >= NumNodes, NEW e \in Entry, NEW qs \in Seq(Reqs),
           RestOf(qs) \in Seq(FreshReq), NEW z \in Node, NEW victim,
           HomeInv(e, ModeOf(qs, FALSE), Head(qs), Protocol),
           GaveUpOK(z, e, ModeOf(qs, FALSE), Head(qs)), FlushOK(z, e, ModeOf(qs, FALSE), Head(qs)),
           NEW buf \in Carried,
           NEW c3, Fresh(c3, FlushEntry(e, z), qs, <<>>), qs # <<>>, Head(qs).type = "SH_REQ"
    PROVE  Outcome(ProcessShReq(SendDram(c3, "DRAM_WRITE_REQ", buf), buf, victim), e, qs, FALSE, z,
                   {"FLUSH_REP"})
<1> DEFINE e0 == FlushEntry(e, z)
           q == Head(qs)
<1>1. /\ EntryOK(e0, Protocol) /\ e0.sharers = e.sharers \ {z}
      /\ e0.dstate = IF e.sharers \subseteq {z} THEN "UNCACHED" ELSE e.dstate
      /\ e0.dstate = "UNCACHED" <=> e.sharers \subseteq {z}
      /\ ~(e.sharers \subseteq {z}) => e.dstate = "SHARED" /\ FlushedForUpgrade(e, q)
      /\ ModeOf(qs, FALSE) = "active" /\ HomeInv(e, "active", q, Protocol)
      /\ GaveUpOK(z, e, "active", q) /\ ~Granted("active", q)
  BY FlushLeft
<1>2. c3.entry = e0 /\ c3.queue = qs
  BY FreshFacts
<1>4. <<>> \in Writes /\ buf \in Bufs /\ buf # NULL
  BY DEF Writes, Bufs, Carried
<1> HIDE DEF e0
<1>3. z \in e.sharers /\ ActiveOK(e, q)
  BY <1>1 DEF HomeInv, GaveUpOK
<1>5. e.sharers \subseteq {z}
  BY <1>1 DEF FlushedForUpgrade
<1>6. HomeInv(e0, "ready", q, Protocol) /\ ReqOK(e0, q) /\ ~Owned(e0)
  BY <1>1, <1>3, <1>5 DEF HomeInv, ReqOK, Granted, ActiveOK, Owned
<1> DEFINE c4 == SendDram(c3, "DRAM_WRITE_REQ", buf)
           w == <<Message("DRAM_WRITE_REQ", buf)>>
<1>8. Fresh(c4, e0, qs, w) /\ w \in Writes
  BY WriteRes DEF e0
<1> HIDE DEF c4, w
<1>7. Handled(ProcessShReq(c4, buf, victim), e0, qs, w)
  BY <1>1, <1>4, <1>5, <1>6, <1>8, ShReqHandled
<1>9. Outcome(ProcessShReq(c4, buf, victim), e, qs, FALSE, z, {"FLUSH_REP"})
  BY <1>1, <1>5, <1>7, <1>8, GoesOnOutcome DEF ReqType
<1> QED BY <1>9 DEF c4

\* processFlushRepFromL2Cache: the data answers the UPGRADE_REQ, or is kept until the other
\* copies are gone.
LEMMA FlushRepUpgrade ==
    ASSUME config \in Config, MaxHwSharers >= NumNodes, NEW e \in Entry, NEW qs \in Seq(Reqs),
           RestOf(qs) \in Seq(FreshReq), NEW z \in Node, NEW victim,
           HomeInv(e, ModeOf(qs, FALSE), Head(qs), Protocol),
           GaveUpOK(z, e, ModeOf(qs, FALSE), Head(qs)), FlushOK(z, e, ModeOf(qs, FALSE), Head(qs)),
           NEW buf \in Carried,
           NEW c3, Fresh(c3, FlushEntry(e, z), qs, <<>>), qs # <<>>, Head(qs).type = "UPGRADE_REQ"
    PROVE  Outcome(IF c3.entry.sharers = {} THEN ProcessUpgradeReq(c3, buf)
                   ELSE [c3 EXCEPT !.queue[1].buf = UNDEF], e, qs, FALSE, z, {"FLUSH_REP"})
<1> DEFINE e0 == FlushEntry(e, z)
           q == Head(qs)
<1>1. /\ EntryOK(e0, Protocol) /\ e0.sharers = e.sharers \ {z}
      /\ e0.dstate = IF e.sharers \subseteq {z} THEN "UNCACHED" ELSE e.dstate
      /\ e0.dstate = "UNCACHED" <=> e.sharers \subseteq {z}
      /\ ~(e.sharers \subseteq {z}) => e.dstate = "SHARED" /\ FlushedForUpgrade(e, q)
      /\ ModeOf(qs, FALSE) = "active" /\ HomeInv(e, "active", q, Protocol)
      /\ GaveUpOK(z, e, "active", q) /\ ~Granted("active", q)
  BY FlushLeft
<1>2. c3.entry = e0 /\ c3.queue = qs
  BY FreshFacts
<1>4. <<>> \in Writes /\ buf \in Bufs /\ buf # NULL
  BY DEF Writes, Bufs, Carried
<1> HIDE DEF e0
<1>3. z \in e.sharers /\ ActiveOK(e, q)
  BY <1>1 DEF HomeInv, GaveUpOK
<1>5. CASE e.sharers \subseteq {z}
  <2>1. e0.sharers = {}
    BY <1>1, <1>5
  <2>2. HomeInv(e0, "ready", q, Protocol) /\ ReqOK(e0, q)
    BY <1>1, <1>3, <2>1 DEF HomeInv, ReqOK, Granted
  <2>3. Handled(ProcessUpgradeReq(c3, buf), e0, qs, <<>>)
    BY <1>4, <2>2, UpgradeReqHandled DEF e0
  <2>4. Outcome(ProcessUpgradeReq(c3, buf), e, qs, FALSE, z, {"FLUSH_REP"})
    BY <1>1, <1>4, <1>5, <2>3, GoesOnOutcome DEF ReqType
  <2> QED BY <1>2, <2>1, <2>4
<1>6. CASE ~(e.sharers \subseteq {z})
  <2> DEFINE c4 == [c3 EXCEPT !.queue[1].buf = UNDEF]
             qs1 == Buf1(qs, UNDEF)
             q1 == Head(qs1)
  <2>1. UNDEF \in Bufs
    <3>1. PICK y \in e.sharers : y # z
      BY <1>6
    <3>2. /\ y \in Node /\ z \in Node /\ q.requester \in Node
          /\ y # z /\ y # q.requester /\ z # q.requester
      BY <1>1, <1>3, <1>6, <3>1, QueueHead DEF Entry, Reqs, FlushedForUpgrade
    <3>3. NumNodes \in Nat
      BY ConstantsAssumption DEF NumNodes
    <3> HIDE DEF q
    <3>4. ~(NumNodes < 3)
      BY <3>2, <3>3 DEF Node
    <3> QED BY <3>4 DEF Bufs, Clean
  <2>2. /\ qs1 \in Seq(Reqs) /\ qs1 # <<>> /\ Tail(qs1) = Tail(qs)
        /\ q1 = [q EXCEPT !.buf = UNDEF] /\ q \in Reqs
    BY <2>1, Buf1Queue, QueueHead
  <2>3. q1.type = q.type /\ q1.requester = q.requester /\ q1.wait = q.wait /\ q1.from = q.from
    BY <2>2 DEF Reqs
  <2>4. Fresh(c4, e0, qs1, <<>>)
    <3>1. c3 \in Contexts
      BY DEF Fresh, Res
    <3>2. c4 = [c3 EXCEPT !.queue = qs1]
      BY <1>2, <3>1 DEF Buf1
    <3> HIDE DEF c4, qs1
    <3>3. /\ c4 \in Contexts /\ c4.entry = c3.entry /\ c4.queue = qs1 /\ c4.dram = c3.dram
          /\ c4.done = c3.done /\ c4.gone = c3.gone /\ c4.failed = c3.failed /\ c4.out = c3.out
      BY <2>2, <3>1, <3>2 DEF Contexts
    <3> QED BY <1>2, <3>3 DEF Fresh, Res, OutTo
  <2>5. z # q.requester /\ e0.sharers # {q.requester} /\ e0.sharers # {}
    BY <1>1, <1>3, <1>6 DEF FlushedForUpgrade, GaveUpOK
  <2> HIDE DEF c4, qs1, q1
  <2>6. Outcome(c4, e, qs, FALSE, z, {"FLUSH_REP"})
    BY <1>1, <1>4, <1>6, <2>2, <2>3, <2>4, <2>5, KeptOutcome DEF q1
  <2> QED BY <1>2, <2>5, <2>6 DEF c4
<1> QED BY <1>5, <1>6

\* processFlushRepFromL2Cache while the entry is being replaced: the data goes to DRAM.
LEMMA FlushRepNullify ==
    ASSUME config \in Config, MaxHwSharers >= NumNodes, NEW e \in Entry, NEW qs \in Seq(Reqs),
           RestOf(qs) \in Seq(FreshReq), NEW z \in Node, NEW victim,
           HomeInv(e, ModeOf(qs, FALSE), Head(qs), Protocol),
           GaveUpOK(z, e, ModeOf(qs, FALSE), Head(qs)), FlushOK(z, e, ModeOf(qs, FALSE), Head(qs)),
           NEW buf \in Carried,
           NEW c3, Fresh(c3, FlushEntry(e, z), qs, <<>>), qs # <<>>, Head(qs).type = "NULLIFY_REQ"
    PROVE  Outcome(ProcessNullifyReq(SendDram(c3, "DRAM_WRITE_REQ", buf)), e, qs, FALSE, z,
                   {"FLUSH_REP"})
<1> DEFINE e0 == FlushEntry(e, z)
           q == Head(qs)
<1>1. /\ EntryOK(e0, Protocol) /\ e0.sharers = e.sharers \ {z}
      /\ e0.dstate = IF e.sharers \subseteq {z} THEN "UNCACHED" ELSE e.dstate
      /\ e0.dstate = "UNCACHED" <=> e.sharers \subseteq {z}
      /\ ~(e.sharers \subseteq {z}) => e.dstate = "SHARED" /\ FlushedForUpgrade(e, q)
      /\ ModeOf(qs, FALSE) = "active" /\ HomeInv(e, "active", q, Protocol)
      /\ GaveUpOK(z, e, "active", q) /\ ~Granted("active", q)
  BY FlushLeft
<1>2. c3.entry = e0 /\ c3.queue = qs
  BY FreshFacts
<1>4. <<>> \in Writes /\ buf \in Bufs /\ buf # NULL
  BY DEF Writes, Bufs, Carried
<1> HIDE DEF e0
<1>3. z \in e.sharers /\ ActiveOK(e, q)
  BY <1>1 DEF HomeInv, GaveUpOK
<1>5. e.sharers \subseteq {z}
  BY <1>1 DEF FlushedForUpgrade
<1> DEFINE c4 == SendDram(c3, "DRAM_WRITE_REQ", buf)
           w == <<Message("DRAM_WRITE_REQ", buf)>>
<1>8. Fresh(c4, e0, qs, w) /\ w \in Writes
  BY WriteRes DEF e0
<1> HIDE DEF c4, w
<1>9. Outcome(ProcessNullifyReq(c4), e, qs, FALSE, z, {"FLUSH_REP"})
  BY <1>1, <1>5, <1>8, NullifyDone
<1> QED BY <1>9 DEF c4

\* processFlushRepFromL2Cache.
LEMMA FlushRepOutcome ==
    ASSUME config \in Config, MaxHwSharers >= NumNodes, NEW e \in Entry, NEW qs \in Seq(Reqs),
           RestOf(qs) \in Seq(FreshReq), NEW z \in Node, NEW victim,
           HomeInv(e, ModeOf(qs, FALSE), Head(qs), Protocol),
           GaveUpOK(z, e, ModeOf(qs, FALSE), Head(qs)), FlushOK(z, e, ModeOf(qs, FALSE), Head(qs)),
           NEW buf \in Carried,
           NEW c, Fresh(c, e, qs, <<>>)
    PROVE  Outcome(ProcessFlushRep(c, z, buf, victim), e, qs, FALSE, z, {"FLUSH_REP"})
<1> DEFINE c3 == RemoveFlushed(c, z)
           q == Head(qs)
           p == GoOnAfterFlushRep(c3, buf, victim)
           w == SendDram(c3, "DRAM_WRITE_REQ", buf)
<1>1. c.queue = qs
  BY DEF Fresh, Res
<1>2. z \in e.sharers /\ (e.sharers \ {z} = {} \/ e.dstate = "SHARED")
  BY FlushLeft DEF GaveUpOK
<1>3. Fresh(c3, FlushEntry(e, z), qs, <<>>)
  BY <1>2, RemoveFlushedRes
<1>4. ProcessFlushRep(c, z, buf, victim) = IF qs = <<>> THEN w ELSE p
  BY <1>1 DEF ProcessFlushRep
<1> HIDE DEF c3
<1>10. c3.queue = qs
  BY <1>3 DEF Fresh, Res
<1>5. CASE qs = <<>>
  BY <1>3, <1>4, <1>5, FlushRepIdle
<1>6. CASE qs # <<>> /\ q.type = "EX_REQ"
  <2>1. p = ProcessExReq(c3, buf)
    BY <1>6, <1>10 DEF GoOnAfterFlushRep
  <2> HIDE DEF p
  <2>2. Outcome(p, e, qs, FALSE, z, {"FLUSH_REP"})
    BY <1>3, <1>6, <2>1, FlushRepEx
  <2> QED BY <1>4, <1>6, <2>2
<1>7. CASE qs # <<>> /\ q.type = "UPGRADE_REQ"
  <2>1. p = IF c3.entry.sharers = {} THEN ProcessUpgradeReq(c3, buf)
            ELSE [c3 EXCEPT !.queue[1].buf = UNDEF]
    BY <1>7, <1>10 DEF GoOnAfterFlushRep
  <2> HIDE DEF p
  <2>2. Outcome(p, e, qs, FALSE, z, {"FLUSH_REP"})
    BY <1>3, <1>7, <2>1, FlushRepUpgrade
  <2> QED BY <1>4, <1>7, <2>2
<1>8. CASE qs # <<>> /\ q.type = "SH_REQ"
  <2>1. p = ProcessShReq(SendDram(c3, "DRAM_WRITE_REQ", buf), buf, victim)
    BY <1>8, <1>10 DEF GoOnAfterFlushRep
  <2> HIDE DEF p
  <2>2. Outcome(p, e, qs, FALSE, z, {"FLUSH_REP"})
    BY <1>3, <1>8, <2>1, FlushRepSh
  <2> QED BY <1>4, <1>8, <2>2
<1>9. CASE qs # <<>> /\ q.type = "NULLIFY_REQ"
  <2>1. p = ProcessNullifyReq(SendDram(c3, "DRAM_WRITE_REQ", buf))
    BY <1>9, <1>10 DEF GoOnAfterFlushRep
  <2> HIDE DEF p
  <2>2. Outcome(p, e, qs, FALSE, z, {"FLUSH_REP"})
    BY <1>3, <1>9, <2>1, FlushRepNullify
  <2> QED BY <1>4, <1>9, <2>2
<1>11. qs # <<>> => q.type \in {"EX_REQ", "UPGRADE_REQ", "SH_REQ", "NULLIFY_REQ"}
  BY QueueHead DEF Reqs, ReqType
<1> QED BY <1>5, <1>6, <1>7, <1>8, <1>9, <1>11

-----------------------------------------------------------------------------
(* WB_REP, and the reply of the DRAM.                                       *)

\* The current request is completed by a message of type t with data b to its requester.
Answers(e, qs, e1, x, t, z, T) ==
    \A n \in Node : Step(n, e, "active", Head(qs), RestOf(qs), e1, "done", Head(qs), RestOf(qs),
                         IF n = x THEN {t} ELSE {}, IF n = z THEN T ELSE {})

\* A reply with data completes the current request.
LEMMA AnsweredSettled ==
    ASSUME NEW c, NEW e, NEW qs, NEW z, NEW T, NEW e1, NEW d, NEW t \in {"SH_REP", "EX_REP"},
           NEW b \in Carried, NEW x,
           Res(c, e1, qs, d, {x}, t, b), c.done = TRUE, qs # <<>>, RestOf(qs) \in Seq(FreshReq),
           HomeInv(e1, "done", Head(qs), Protocol),
           Answers(e, qs, e1, x, t, z, T)
    PROVE  Settled(c, e, qs, FALSE, z, T)
<1>1. /\ c \in Contexts /\ c.gone = FALSE /\ c.failed = {} /\ c.entry = e1 /\ c.queue = qs
      /\ c.dram = d /\ OutTo(c, {x}, t, b)
  BY DEF Res
<1>2. OutOK(c)
  <2>1. t \in CacheMsgType /\ b \in Bufs /\ b # NULL
    BY DEF CacheMsgType, Carried
  <2> QED BY <1>1, <2>1, OutToOK
<1>3. \A n \in Node : Sent(c, n) = IF n \in {x} THEN {t} ELSE {}
  BY <1>1, SentTo
<1>4. \A n \in Node : Sent(c, n) = IF n = x THEN {t} ELSE {}
  BY <1>3
<1>5. EntryAfter(c) = e1 /\ ModeOf(qs, FALSE) = "active" /\ ModeOf(c.queue, c.done) = "done"
  BY <1>1 DEF EntryAfter, ModeOf
<1> QED BY <1>1, <1>2, <1>4, <1>5 DEF Settled, Answers

\* The entry when its owner has written the line back.
LEMMA DowngradeRes ==
    ASSUME NEW c, NEW e, NEW qs, NEW d, Fresh(c, e, qs, d)
    PROVE  Fresh([c EXCEPT !.entry.owner = INVALID_CORE_ID, !.entry.dstate = "SHARED"],
                 EntryWith("SHARED", e.sharers, INVALID_CORE_ID, e.forwarder), qs, d)
<1> DEFINE c1 == [c EXCEPT !.entry.owner = INVALID_CORE_ID, !.entry.dstate = "SHARED"]
<1>0. c \in Contexts /\ c.entry = e /\ e \in Entry
  BY DEF Fresh, Res, Contexts
<1>1. /\ c1 \in Contexts
      /\ c1.entry.dstate = "SHARED"
      /\ c1.entry.sharers = c.entry.sharers /\ c1.entry.owner = INVALID_CORE_ID
      /\ c1.entry.forwarder = c.entry.forwarder
      /\ c1.queue = c.queue /\ c1.dram = c.dram /\ c1.done = c.done
      /\ c1.gone = c.gone /\ c1.failed = c.failed /\ c1.out = c.out
  BY <1>0 DEF Contexts, Entry, DState
<1> HIDE DEF c1
<1>2. c1.entry = EntryWith("SHARED", e.sharers, INVALID_CORE_ID, e.forwarder)
  BY <1>0, <1>1 DEF Contexts, Entry, EntryWith
<1>5. Fresh(c1, EntryWith("SHARED", e.sharers, INVALID_CORE_ID, e.forwarder), qs, d)
  BY <1>1, <1>2 DEF Fresh, Res, OutTo
<1> QED BY <1>5 DEF c1

\* processWbRepFromL2Cache: the owner's data answers the read request.
LEMMA WbRepOwner ==
    ASSUME config \in Config, MaxHwSharers >= NumNodes, NEW e \in Entry, NEW qs \in Seq(Reqs),
           RestOf(qs) \in Seq(FreshReq), NEW z \in Node, NEW victim,
           HomeInv(e, "active", Head(qs), Protocol), qs # <<>>,
           AwaitsWb(z, e, "active", Head(qs)), Head(qs).from = INVALID_CORE_ID, Owned(e),
           NEW buf \in Carried, NEW c2,
           Fresh(c2, EntryWith("SHARED", e.sharers, INVALID_CORE_ID, e.forwarder), qs, <<>>)
    PROVE  Outcome(ProcessShReq(c2, buf, victim), e, qs, FALSE, z, {"WB_REP"})
<1> DEFINE e0 == EntryWith("SHARED", e.sharers, INVALID_CORE_ID, e.forwarder)
           q == Head(qs)
           r == RestOf(qs)
           T == {"WB_REP"}
           c1 == ProcessShReq(c2, buf, victim)
<1>1. e0.dstate = "SHARED" /\ e0.sharers = e.sharers /\ e0.forwarder = e.forwarder
  BY DEF EntryWith
<1>2. /\ q.type = "SH_REQ" /\ ~q.wait /\ e.sharers = {z} /\ q.requester \notin e.sharers
      /\ EntryOK(e, Protocol)
  BY DEF AwaitsWb, HomeInv, ActiveOK, EntryOK
<1>3. <<>> \in Writes /\ buf \in Bufs /\ buf # NULL
  BY DEF Writes, Carried
<1>9. Fresh(c2, e0, qs, <<>>)
  OBVIOUS
<1> HIDE DEF e0
<1>4. HomeInv(e0, "ready", q, "any") /\ ReqOK(e0, q)
  BY <1>1, <1>2 DEF HomeInv, EntryOK, ReqOK, Owned
<1>5. Handled(c1, e0, qs, <<>>)
  BY <1>1, <1>2, <1>3, <1>4, <1>9, ShReqWithData
<1>6. ModeOf(qs, FALSE) = "active"
  BY DEF ModeOf
<1>7. ASSUME NEW n \in Node
      PROVE  Takes(n, e, "active", q, r, e0, "ready", q, r, IF n = z THEN T ELSE {})
  <2> SUFFICES ASSUME NEW a, NEW l, NEW w, NEW dr, NEW s, NEW d, NEW d1,
                      NodeInv(n, a, e, "active", q, r, l, w, dr, s, d),
                      Removed(d, d1, a, IF n = z THEN {"WB_REP"} ELSE {})
               PROVE  NodeInv(n, a, e0, "ready", q, r, l, w, dr, s, d1)
    BY DEF Takes
  <2> QED BY <1>1, <1>2, WbOwnerRepStep
<1> HIDE DEF T, c1
<1>8. Outcome(c1, e, qs, FALSE, z, T)
  <2>1. \A n \in Node : Takes(n, e, ModeOf(qs, FALSE), Head(qs), RestOf(qs),
                             e0, "ready", Head(qs), RestOf(qs), IF n = z THEN T ELSE {})
    BY <1>6, <1>7
  <2>2. ~(ModeOf(qs, FALSE) = "active" /\ Head(qs).wait)
    BY <1>2
  <2> QED BY <1>3, <1>5, <2>1, <2>2, HandledOutcome
<1> QED BY <1>8 DEF T, c1

\* processWbRepFromL2Cache: the forwarder's data answers the read request.
LEMMA WbRepForwarder ==
    ASSUME config \in Config, NEW e \in Entry, NEW qs \in Seq(Reqs),
           RestOf(qs) \in Seq(FreshReq), NEW z \in Node, NEW victim,
           HomeInv(e, "active", Head(qs), Protocol), qs # <<>>,
           AwaitsWb(z, e, "active", Head(qs)), Head(qs).from = z,
           NEW buf \in Carried, NEW c2,
           Fresh(c2, EntryWith("SHARED", e.sharers, INVALID_CORE_ID, e.forwarder), qs, <<>>)
    PROVE  Outcome(ProcessShReq(c2, buf, victim), e, qs, FALSE, z, {"WB_REP"})
<1> DEFINE e0 == EntryWith("SHARED", e.sharers, INVALID_CORE_ID, e.forwarder)
           q == Head(qs)
           r == RestOf(qs)
           x == q.requester
           e1 == EntryWith("SHARED", e.sharers, INVALID_CORE_ID, x)
           T == {"WB_REP"}
           c1 == RetrieveDataAndSendToL2Cache(c2, "SH_REP", x, buf)
<1>1. /\ e0.dstate = "SHARED" /\ e0.sharers = e.sharers /\ e0.owner = INVALID_CORE_ID
      /\ e1.dstate = "SHARED" /\ e1.sharers = e.sharers /\ e1.forwarder = x
      /\ e1 = EntryWith(e0.dstate, e0.sharers, e0.owner, x)
  BY DEF EntryWith
<1>10. z # INVALID_CORE_ID
  BY DEF Node, INVALID_CORE_ID
<1>2. /\ q.type = "SH_REQ" /\ ~q.wait /\ x \in e.sharers /\ z \in e.sharers
      /\ EntryOK(e, Protocol)
  BY <1>10 DEF AwaitsWb, HomeInv, ActiveOK
<1>3. /\ <<>> \in Writes /\ buf \in Bufs /\ buf # NULL /\ "SH_REP" \in MsgType /\ x \in Node
      /\ x # UNINITIALISED
  <2>1. x \in Node
    BY FreshFacts
  <2>2. x # UNINITIALISED
    BY <2>1 DEF Node, UNINITIALISED
  <2> QED BY <2>1, <2>2 DEF Writes, Carried, MsgType, CacheMsgType
<1>4. c2.entry = e0 /\ c2.queue = qs /\ Fresh(c2, e0, qs, <<>>)
  BY FreshFacts
<1> HIDE DEF e0, e1
<1>5. ProcessShReq(c2, buf, victim) = c1
  BY <1>1, <1>2, <1>4 DEF ProcessShReq
<1>6. Res(c1, e1, qs, <<>>, {x}, "SH_REP", buf) /\ c1.done = TRUE
  BY <1>1, <1>3, <1>4, RetrieveData
<1> HIDE DEF c1, x
<1>7. HomeInv(e1, "done", q, Protocol)
  BY <1>1, <1>2, <1>3 DEF HomeInv, EntryOK, Owned
<1>8. ASSUME NEW n \in Node
      PROVE  Step(n, e, "active", q, r, e1, "done", q, r, IF n = x THEN {"SH_REP"} ELSE {},
                  IF n = z THEN T ELSE {})
  <2> SUFFICES ASSUME NEW a, NEW l, NEW w, NEW dr, NEW s, NEW s1, NEW d, NEW d1,
                      NodeInv(n, a, e, "active", q, r, l, w, dr, s, d),
                      Appended(s, s1, a, IF n = q.requester THEN {"SH_REP"} ELSE {}),
                      Removed(d, d1, a, IF n = z THEN {"WB_REP"} ELSE {})
               PROVE  NodeInv(n, a, e1, "done", q, r, l, w, dr, s1, d1)
    BY DEF Step, x
  <2> QED BY <1>1, <1>2, <1>10, WbForwarderRepStep
<1> HIDE DEF T
<1>9. Settled(c1, e, qs, FALSE, z, T)
  <2> DEFINE t == "SH_REP"
  <2>1. t \in {"SH_REP", "EX_REP"} /\ Res(c1, e1, qs, <<>>, {x}, t, buf)
    BY <1>6
  <2>2. Answers(e, qs, e1, x, t, z, T)
    BY <1>8 DEF Answers
  <2> HIDE DEF t
  <2> QED BY <1>6, <1>7, <2>1, <2>2, AnsweredSettled
<1>11. DramOK(c1, ModeOf(qs, FALSE), q)
  BY <1>2, <1>3, <1>6 DEF DramOK, Res
<1> QED BY <1>5, <1>9, <1>11 DEF Outcome, T

\* processWbRepFromL2Cache.
LEMMA WbRepOutcome ==
    ASSUME config \in Config, MaxHwSharers >= NumNodes, NEW e \in Entry, NEW qs \in Seq(Reqs),
           RestOf(qs) \in Seq(FreshReq), NEW z \in Node, NEW victim,
           HomeInv(e, ModeOf(qs, FALSE), Head(qs), Protocol),
           AwaitsWb(z, e, ModeOf(qs, FALSE), Head(qs)),
           NEW buf \in Carried, NEW c, Fresh(c, e, qs, <<>>)
    PROVE  Outcome(ProcessWbRep(c, z, buf, victim), e, qs, FALSE, z, {"WB_REP"})
<1> DEFINE q == Head(qs)
           c1 == Check(c, z \in c.entry.sharers, "processWbRep: hasSharer")
           c2 == [c1 EXCEPT !.entry.owner = INVALID_CORE_ID, !.entry.dstate = "SHARED"]
           c3 == Check(c2, Head(c.queue).type = "SH_REQ", "processWbRep: type")
<1>1. /\ ModeOf(qs, FALSE) = "active" /\ qs # <<>> /\ q.type = "SH_REQ" /\ z \in e.sharers
      /\ q.from = z \/ (q.from = INVALID_CORE_ID /\ Owned(e))
  BY DEF AwaitsWb, ModeOf
<1>2. c.queue = qs /\ c.entry = e
  BY DEF Fresh, Res
<1>3. c1 = c
  BY <1>1, <1>2 DEF Check
<1> HIDE DEF c1
<1>4. Fresh(c2, EntryWith("SHARED", e.sharers, INVALID_CORE_ID, e.forwarder), qs, <<>>)
  BY <1>3, DowngradeRes
<1> HIDE DEF c2
<1>5. c3 = c2
  BY <1>1, <1>2 DEF Check
<1>6. ProcessWbRep(c, z, buf, victim) = ProcessShReq(c3, buf, victim)
  BY <1>1, <1>2 DEF ProcessWbRep, c2, c1
<1> HIDE DEF c3
<1>7. Outcome(ProcessShReq(c2, buf, victim), e, qs, FALSE, z, {"WB_REP"})
  <2>1. HomeInv(e, "active", Head(qs), Protocol) /\ AwaitsWb(z, e, "active", Head(qs))
    BY <1>1
  <2>2. CASE q.from = z
    BY <1>1, <1>4, <2>1, <2>2, WbRepForwarder
  <2>3. CASE q.from = INVALID_CORE_ID /\ Owned(e)
    BY <1>1, <1>4, <2>1, <2>3, WbRepOwner
  <2> QED BY <1>1, <2>2, <2>3
<1> QED BY <1>5, <1>6, <1>7

\* processDRAMReply.
LEMMA DramReplySettled ==
    ASSUME config \in Config, NEW e \in Entry, NEW qs \in Seq(Reqs),
           RestOf(qs) \in Seq(FreshReq), NEW z,
           HomeInv(e, ModeOf(qs, FALSE), Head(qs), Protocol),
           ModeOf(qs, FALSE) = "active", Head(qs).wait,
           NEW buf \in Carried, NEW c, Fresh(c, e, qs, <<>>)
    PROVE  /\ Settled(ProcessDRAMReply(c, buf), e, qs, FALSE, z, {})
           /\ ProcessDRAMReply(c, buf).dram = <<>>
           /\ ModeOf(ProcessDRAMReply(c, buf).queue, ProcessDRAMReply(c, buf).done) = "done"
<1> DEFINE q == Head(qs)
           r == RestOf(qs)
           x == q.requester
           t == IF q.type = "SH_REQ" /\ e.dstate # "EXCLUSIVE" THEN "SH_REP" ELSE "EX_REP"
           c1 == Send(c, {x}, t, buf)
           c2 == ProcessNext(c1)
<1>1. qs # <<>> /\ HomeInv(e, "active", q, Protocol) /\ ActiveOK(e, q) /\ EntryOK(e, Protocol)
  BY DEF ModeOf, HomeInv
<1>2. /\ q.type = "SH_REQ" => e.dstate \in {"SHARED", "EXCLUSIVE"}
      /\ q.type = "EX_REQ" => e.dstate = "MODIFIED"
      /\ q.type \in {"SH_REQ", "EX_REQ", "UPGRADE_REQ"}
  BY <1>1 DEF ActiveOK
<1>3. c.queue = qs /\ c.entry = e /\ x \in Node /\ buf \in Bufs /\ buf # NULL /\ {x} \in SUBSET Node
  <2>1. c.queue = qs /\ c.entry = e /\ x \in Node
    BY <1>1, FreshFacts
  <2> QED BY <2>1 DEF Carried
<1>4. ProcessDRAMReply(c, buf) = c2
  <2>1. e.dstate \in DState
    BY DEF Entry
  <2>2. CASE q.type = "SH_REQ"
    BY <1>1, <1>2, <1>3, <2>2 DEF ProcessDRAMReply, Check
  <2>3. CASE q.type = "EX_REQ"
    BY <1>1, <1>2, <1>3, <2>3 DEF ProcessDRAMReply, Check
  <2>4. CASE q.type = "UPGRADE_REQ"
    BY <1>1, <1>2, <1>3, <2>1, <2>4 DEF ProcessDRAMReply, Check
  <2> QED BY <1>2, <2>2, <2>3, <2>4
<1>5. t \in {"SH_REP", "EX_REP"} /\ t \in MsgType
  BY DEF MsgType, CacheMsgType
<1>6. ASSUME NEW n \in Node, NEW T, T = {}
      PROVE  Step(n, e, "active", q, r, e, "done", q, r, IF n = x THEN {t} ELSE {},
                  IF n = z THEN T ELSE {})
  <2> SUFFICES ASSUME NEW a, NEW l, NEW w, NEW dr, NEW s, NEW s1, NEW d, NEW d1,
                      NodeInv(n, a, e, "active", q, r, l, w, dr, s, d),
                      Appended(s, s1, a, IF n = x THEN {t} ELSE {}),
                      Removed(d, d1, a, IF n = z THEN T ELSE {})
               PROVE  NodeInv(n, a, e, "done", q, r, l, w, dr, s1, d1)
    BY DEF Step
  <2>1. Removed(d, d1, a, {})
    BY <1>6
  <2>2. Appended(s, s1, a, IF n # q.requester THEN {}
                           ELSE IF q.type = "SH_REQ" /\ e.dstate # "EXCLUSIVE" THEN {"SH_REP"}
                           ELSE {"EX_REP"})
    OBVIOUS
  <2>3. NodeInv(n, a, e, "done", q, r, l, w, dr, s1, d)
    BY <1>1, <1>2, <2>2, DramReplyStep
  <2> QED BY <2>1, <2>3, AppendedSame, OtherEntryStep
<1> HIDE DEF t, x
<1>7. Res(c1, e, qs, <<>>, {x}, t, buf)
  BY <1>3, <1>5, SendRes
<1> HIDE DEF c1
<1>8. Res(c2, e, qs, <<>>, {x}, t, buf) /\ c2.done = TRUE
  BY <1>1, <1>7, NextRes
<1> HIDE DEF c2
<1>9. HomeInv(e, "done", q, Protocol)
  BY <1>1 DEF HomeInv
<1>10. \A T : T = {} => Settled(c2, e, qs, FALSE, z, T)
  <2> SUFFICES ASSUME NEW T, T = {} PROVE Settled(c2, e, qs, FALSE, z, T)
    OBVIOUS
  <2>1. Answers(e, qs, e, x, t, z, T)
    BY <1>6 DEF Answers
  <2> QED BY <1>1, <1>5, <1>8, <1>9, <2>1, AnsweredSettled
<1>11. c2.dram = <<>> /\ c2.queue = qs
  BY <1>8 DEF Res
<1> QED BY <1>1, <1>4, <1>8, <1>10, <1>11 DEF ModeOf

-----------------------------------------------------------------------------
(* The replacement of an entry.                                             *)

\* The queue of a replaced entry when its nullify request has been processed.
QueueAfter(c) == IF c.gone THEN <<>> ELSE c.queue

\* What the nullify request of entry e, whose queue qs was empty, leaves.
Nullified(c, e, qs) ==
    /\ c \in Contexts /\ c.failed = {} /\ OutOK(c)
    /\ QueueAfter(c) \in Seq(Reqs) /\ RestOf(QueueAfter(c)) = <<>>
    /\ c.gone => EntryAfter(c).sharers = {}
    /\ HomeInv(EntryAfter(c), ModeOf(QueueAfter(c), FALSE), Head(QueueAfter(c)), Protocol)
    /\ \A n \in Node : Sends(n, e, "idle", Head(qs), <<>>, EntryAfter(c),
                             ModeOf(QueueAfter(c), FALSE), Head(QueueAfter(c)), Sent(c, n))

\* processNullifyReq of an entry with sharers demands their copies.
LEMMA NullifyDemands ==
    ASSUME NEW e \in Entry, NEW qs, HomeInv(e, "idle", Head(qs), Protocol), NEW q1 \in Reqs,
           q1.type = "NULLIFY_REQ", ~q1.wait, q1.from = INVALID_CORE_ID,
           NEW c, NEW qs1, Head(qs1) = q1, Tail(qs1) = <<>>, qs1 # <<>>, qs1 \in Seq(Reqs),
           NEW R, NEW t, \/ Owned(e) /\ R = {e.owner} /\ t = "FLUSH_REQ"
                         \/ e.dstate = "SHARED" /\ R = e.sharers /\ t = "INV_REQ",
           Res(c, e, qs1, <<>>, R, t, NULL), c.done = FALSE
    PROVE  Nullified(c, e, qs)
<1>1. /\ c \in Contexts /\ c.failed = {} /\ c.gone = FALSE /\ c.entry = e /\ c.queue = qs1
      /\ OutTo(c, R, t, NULL)
  BY DEF Res
<1>2. /\ QueueAfter(c) = qs1 /\ RestOf(qs1) = <<>> /\ EntryAfter(c) = e
      /\ ModeOf(qs1, FALSE) = "active"
  BY <1>1 DEF QueueAfter, RestOf, EntryAfter, ModeOf
<1>3. OutOK(c)
  <2>1. t \in CacheMsgType /\ t \notin {"EX_REP", "SH_REP"} /\ NULL \in Bufs
    BY DEF CacheMsgType, Bufs
  <2> QED BY <1>1, <2>1, OutToOK
<1>4. \A n \in Node : Sent(c, n) = IF n \in R THEN {t} ELSE {}
  BY <1>1, SentTo
<1>5. EntryOK(e, Protocol) /\ e.dstate # "UNCACHED"
  BY DEF HomeInv, Owned
<1>6. R = e.sharers /\ (Owned(e) => t = "FLUSH_REQ") /\ (~Owned(e) => t = "INV_REQ")
  BY <1>5 DEF EntryOK, Owned
<1>7. HomeInv(e, "active", q1, Protocol)
  BY <1>5 DEF HomeInv, ActiveOK
<1>8. ASSUME NEW n \in Node
      PROVE  Sends(n, e, "idle", Head(qs), <<>>, e, "active", q1, IF n \in R THEN {t} ELSE {})
  <2> SUFFICES ASSUME NEW a, NEW l, NEW w, NEW dr, NEW s, NEW s1, NEW d,
                      NodeInv(n, a, e, "idle", Head(qs), <<>>, l, w, dr, s, d),
                      Appended(s, s1, a, IF n \in R THEN {t} ELSE {})
               PROVE  NodeInv(n, a, e, "active", q1, <<>>, l, w, dr, s1, d)
    BY DEF Sends
  <2>1. Appended(s, s1, a, IF n \notin e.sharers THEN {}
                           ELSE IF Owned(e) THEN {"FLUSH_REQ"} ELSE {"INV_REQ"})
    BY <1>6
  <2>2. e.dstate \in {"SHARED", "EXCLUSIVE", "MODIFIED"}
    BY DEF Owned
  <2> QED BY <1>5, <2>1, <2>2, NullifyStep
<1> QED BY <1>1, <1>2, <1>3, <1>4, <1>7, <1>8 DEF Nullified

\* An entry without sharers.
LEMMA UncachedSame ==
    ASSUME NEW n, NEW e, NEW q, NEW e1, EntryOK(e, "any"), e.dstate = "UNCACHED",
           e1.dstate = "UNCACHED", e1.sharers = {}
    PROVE  Sends(n, e, "idle", q, <<>>, e1, "idle", q, {})
<1> SUFFICES ASSUME NEW a, NEW l, NEW w, NEW dr, NEW s, NEW s1, NEW d,
                    NodeInv(n, a, e, "idle", q, <<>>, l, w, dr, s, d),
                    Appended(s, s1, a, {})
             PROVE  NodeInv(n, a, e1, "idle", q, <<>>, l, w, dr, s1, d)
  BY DEF Sends
<1>1. NodeInv(n, a, e, "idle", q, <<>>, l, w, dr, s1, d)
  BY RemovedSame, OtherEntryStep
<1>2. e.sharers = {}
  BY DEF EntryOK
<1> QED BY <1>1, <1>2 DEF NodeInv, CopyKnown, LineOK, ToCacheOK, ToDirOK, QueuedOK, Owned,
           AwaitsWb, FlushedForUpgrade

\* processNullifyReq, all cases.
LEMMA NullifyOutcome ==
    ASSUME config \in Config, NEW e \in Entry, NEW qs, qs = <<>>, HomeInv(e, "idle", Head(qs), Protocol),
           NEW z \in Node
    PROVE  Nullified(ProcessNullifyReq(Context(e, <<NewReq("NULLIFY_REQ", z)>>)), e, qs)
<1> DEFINE q1 == NewReq("NULLIFY_REQ", z)
           qs1 == <<q1>>
           c == Context(e, qs1)
           p == ProcessNullifyReq(c)
<1>1. /\ q1 \in Reqs /\ q1.type = "NULLIFY_REQ" /\ q1.wait = FALSE
      /\ q1.from = INVALID_CORE_ID
  BY DEF NewReq, Reqs, Bufs
<1> HIDE DEF q1
<1>2. qs1 \in Seq(Reqs) /\ qs1 # <<>> /\ Head(qs1) = q1 /\ Tail(qs1) = <<>>
  BY <1>1, Singleton
<1> HIDE DEF qs1
<1>3. Fresh(c, e, qs1, <<>>)
  BY <1>2, ContextFresh
<1> HIDE DEF c
<1>4. c.entry = e /\ c \in Contexts /\ c.queue = qs1
  BY <1>3 DEF Fresh, Res
<1>5. EntryOK(e, Protocol) /\ EntryOK(e, "any") /\ e.sharers \in SUBSET Node
  BY DEF HomeInv, EntryOK, Entry
<1>6. NULL \in Bufs /\ "FLUSH_REQ" \in MsgType /\ "INV_REQ" \in MsgType
  BY DEF Bufs, MsgType, CacheMsgType
<1>7. CASE Owned(e)
  <2>1. p = Send(c, {e.owner}, "FLUSH_REQ", NULL)
    BY <1>4, <1>7 DEF ProcessNullifyReq, Owned
  <2>2. {e.owner} \in SUBSET Node
    BY <1>5, <1>7 DEF EntryOK
  <2> DEFINE s == Send(c, {e.owner}, "FLUSH_REQ", NULL)
  <2>5. Res(s, e, qs1, <<>>, {e.owner}, "FLUSH_REQ", NULL) /\ s.done = FALSE
    BY <1>3, <1>6, <2>2, SendRes
  <2> HIDE DEF s
  <2>3. Res(p, e, qs1, <<>>, {e.owner}, "FLUSH_REQ", NULL) /\ p.done = FALSE
    BY <2>1, <2>5 DEF s
  <2> HIDE DEF p
  <2>4. Nullified(p, e, qs)
    BY <1>1, <1>2, <1>7, <2>3, NullifyDemands
  <2> QED BY <2>4 DEF p, c, qs1, q1
<1>8. CASE e.dstate = "SHARED"
  <2>1. p = Send(c, e.sharers, "INV_REQ", NULL)
    BY <1>4, <1>8 DEF ProcessNullifyReq
  <2> DEFINE s == Send(c, e.sharers, "INV_REQ", NULL)
  <2>5. Res(s, e, qs1, <<>>, e.sharers, "INV_REQ", NULL) /\ s.done = FALSE
    BY <1>3, <1>5, <1>6, SendRes
  <2> HIDE DEF s
  <2>3. Res(p, e, qs1, <<>>, e.sharers, "INV_REQ", NULL) /\ p.done = FALSE
    BY <2>1, <2>5 DEF s
  <2> HIDE DEF p
  <2>4. Nullified(p, e, qs)
    BY <1>1, <1>2, <1>8, <2>3, NullifyDemands
  <2> QED BY <2>4 DEF p, c, qs1, q1
<1>9. CASE e.dstate = "UNCACHED"
  <2> DEFINE c2 == [c EXCEPT !.gone = TRUE]
  <2>1. p = ProcessNext(c2)
    BY <1>4, <1>9 DEF ProcessNullifyReq
  <2>2. c.failed = {} /\ \A n \in Node : c.out[n] = <<>>
    BY <1>3 DEF Fresh, Res, OutTo
  <2>3. p \in Contexts /\ p.failed = {} /\ p.gone = TRUE /\ p.out = c.out
    BY <1>2, <1>4, <2>1, <2>2 DEF ProcessNext, Check, Contexts
  <2> HIDE DEF p
  <2>4. OutOK(p) /\ \A n \in Node : Sent(p, n) = {}
    BY <2>2, <2>3 DEF OutOK, Sent
  <2>5. /\ QueueAfter(p) = qs /\ EntryAfter(p) = NewEntry /\ RestOf(qs) = <<>>
        /\ ModeOf(qs, FALSE) = "idle" /\ qs \in Seq(Reqs)
    BY <2>3 DEF QueueAfter, EntryAfter, RestOf, ModeOf
  <2>6. /\ NewEntry.sharers = {} /\ NewEntry.dstate = "UNCACHED"
        /\ NewEntry.forwarder = UNINITIALISED
    BY DEF NewEntry
  <2>7. HomeInv(NewEntry, "idle", Head(qs), Protocol)
    BY <2>6 DEF HomeInv, EntryOK, Owned
  <2>8. \A n \in Node : Sends(n, e, "idle", Head(qs), <<>>, NewEntry, "idle", Head(qs), {})
    BY <1>5, <1>9, <2>6, UncachedSame
  <2>9. Nullified(p, e, qs)
    BY <2>3, <2>4, <2>5, <2>6, <2>7, <2>8 DEF Nullified
  <2> QED BY <2>9 DEF p, c, qs1, q1
<1>10. e.dstate \in {"UNCACHED", "SHARED", "EXCLUSIVE", "MODIFIED"}
  BY DEF Entry, DState
<1> QED BY <1>7, <1>8, <1>9, <1>10 DEF Owned

-----------------------------------------------------------------------------
(* The start of a request.                                                  *)

\* A request that finds no other one.
LEMMA StartTakes ==
    ASSUME NEW n, NEW e, NEW q, NEW q1, NEW z, NEW t \in ReqType, HomeInv(e, "idle", q, "any"),
           q1.type = t, q1.requester = z, ~q1.wait, q1.from = INVALID_CORE_ID
    PROVE  Takes(n, e, "idle", q, <<>>, e, "ready", q1, <<>>, IF n = z THEN {t} ELSE {})
<1> SUFFICES ASSUME NEW a, NEW l, NEW w, NEW dr, NEW s, NEW d, NEW d1,
                    NodeInv(n, a, e, "idle", q, <<>>, l, w, dr, s, d),
                    Removed(d, d1, a, IF n = z THEN {t} ELSE {})
             PROVE  NodeInv(n, a, e, "ready", q1, <<>>, l, w, dr, s, d1)
  BY DEF Takes
<1> QED BY EmptyQueue, StartStep DEF ReqType

\* The request that follows a completed one.
LEMMA NextTakes ==
    ASSUME NEW n, NEW e, NEW q, NEW r \in Seq(FreshReq), r # <<>>, HomeInv(e, "done", q, "any"), NEW T,
           T = {}
    PROVE  Takes(n, e, "done", q, r, e, "ready", Head(r), Tail(r), T)
<1> SUFFICES ASSUME NEW a, NEW l, NEW w, NEW dr, NEW s, NEW d, NEW d1,
                    NodeInv(n, a, e, "done", q, r, l, w, dr, s, d),
                    Removed(d, d1, a, {})
             PROVE  NodeInv(n, a, e, "ready", Head(r), Tail(r), l, w, dr, s, d1)
  BY DEF Takes
<1> DEFINE q1 == Head(r)
           r1 == Tail(r)
<1>1. NodeInv(n, a, e, "done", q, r, l, w, dr, s, d1)
  BY AppendedSame, OtherEntryStep
<1>2. q1 \in FreshReq
  OBVIOUS
<1>3. q1.type \in {"SH_REQ", "EX_REQ", "UPGRADE_REQ"} /\ ~q1.wait /\ q1.from = INVALID_CORE_ID
  BY <1>2 DEF FreshReq, Reqs, ReqType
<1>4. QRemoved(r, r1, n, q1)
  BY QTailStep
<1> HIDE DEF q1, r1
<1>5. NodeInv(n, a, e, "ready", q1, r1, l, w, dr, s, d1)
  BY <1>1, <1>3, <1>4, NextStep
<1> QED BY <1>5 DEF q1, r1

\* What the request about to be processed says of its requester.
LEMMA ReadyReqOK ==
    ASSUME NEW e, NEW q, q.type \in ReqType, ~q.wait, q.from = INVALID_CORE_ID,
           NEW a, NEW r, NEW l, NEW w, NEW dr, NEW s, NEW d,
           NodeInv(q.requester, a, e, "ready", q, r, l, w, dr, s, d)
    PROVE  ReqOK(e, q)
BY DEF ReqOK, NodeInv, QueuedOK, CurAsks, Granted, Grantee, ReqType

\* A check that may fail changes nothing else.
LEMMA CheckOutcome ==
    ASSUME NEW c, NEW e, NEW qs, NEW done, NEW z, NEW T, Outcome(c, e, qs, done, z, T), NEW holds,
           holds \/ "no directory entry to replace" \in Tolerated
    PROVE  Outcome(Check(c, holds, "no directory entry to replace"), e, qs, done, z, T)
<1> SUFFICES ASSUME ~holds
             PROVE  Outcome(Check(c, holds, "no directory entry to replace"), e, qs, done, z, T)
  BY DEF Check
<1> DEFINE name == "no directory entry to replace"
           c1 == [c EXCEPT !.failed = @ \cup {name}]
<1>1. c \in Contexts /\ c.failed \subseteq Tolerated
  BY DEF Outcome, Settled
<1>2. /\ c1.entry = c.entry /\ c1.queue = c.queue /\ c1.dram = c.dram /\ c1.done = c.done
      /\ c1.gone = c.gone /\ c1.failed = c.failed \cup {name} /\ c1.out = c.out
  BY <1>1 DEF Contexts
<1>3. c1.failed \subseteq Tolerated
  BY <1>1, <1>2
<1>4. c1.failed \in SUBSET Tolerated
  BY <1>3
<1>5. c1 \in Contexts
  <2> DEFINE f == c.failed \cup {name}
  <2>1. f \in SUBSET Tolerated /\ c1 = [c EXCEPT !.failed = f]
    BY <1>2, <1>4
  <2> HIDE DEF f, c1
  <2> QED BY <1>1, <2>1 DEF Contexts
<1> HIDE DEF c1
<1>6. EntryAfter(c1) = EntryAfter(c) /\ \A n \in Node : Sent(c1, n) = Sent(c, n)
  BY <1>2 DEF EntryAfter, Sent
<1>7. OutOK(c1)
  BY <1>2 DEF OutOK, Outcome, Settled
<1>8. Settled(c1, e, qs, done, z, T)
  BY <1>2, <1>3, <1>5, <1>6, <1>7 DEF Outcome, Settled
<1>9. DramOK(c1, ModeOf(qs, done), Head(qs))
  BY <1>2 DEF Outcome, DramOK
<1>10. Outcome(c1, e, qs, done, z, T)
  BY <1>8, <1>9 DEF Outcome
<1> QED BY <1>10 DEF Check, c1

-----------------------------------------------------------------------------
(***************************************************************************)
(* The proof that CoherenceInv is an invariant of MemorySystem, one lemma  *)
(* per action, and what follows: single writer, a directory that knows all *)
(* copies, one request per line, and no failed assertion.                  *)
(***************************************************************************)

-----------------------------------------------------------------------------
(* Packets.                                                                 *)

\* A handler without messages leaves a channel as it is.
LEMMA NoPackets ==
    ASSUME NEW S, NEW s \in Seq(S), NEW y
    PROVE  s \o PacketsOf(y, <<>>) = s
<1>1. PacketsOf(y, <<>>) = <<>>
  BY DEF PacketsOf
<1> QED BY <1>1

\* The elements of a sequence with one more at its end.
LEMMA AppendFacts ==
    ASSUME NEW S, NEW s \in Seq(S), NEW y \in S
    PROVE  /\ Append(s, y) \in Seq(S)
           /\ Len(Append(s, y)) = Len(s) + 1
           /\ \A i \in 1 .. Len(s) : Append(s, y)[i] = s[i]
           /\ Append(s, y)[Len(s) + 1] = y
OBVIOUS

\* A sequence of length one with one more at its end.
LEMMA AppendPair ==
    ASSUME NEW S, NEW x \in S, NEW y \in S
    PROVE  Append(<<x>>, y) = <<x, y>>
<1> DEFINE s == <<x>>
<1>0. s \in Seq(S)
  OBVIOUS
<1>1. Len(s) = 1 /\ s[1] = x
  OBVIOUS
<1> HIDE DEF s
<1> DEFINE u == Append(s, y)
<1>2. u \in Seq(S) /\ Len(u) = Len(s) + 1 /\ (\A i \in 1 .. Len(s) : u[i] = s[i]) /\ u[Len(s) + 1] = y
  BY <1>0, AppendFacts
<1> HIDE DEF u
<1>3. u \in Seq(S) /\ Len(u) = 2 /\ u[1] = x /\ u[2] = y
  BY <1>1, <1>2
<1>4. u = <<x, y>>
  BY <1>3
<1> QED BY <1>4 DEF u, s

\* A handler's only message to a cache is the last packet of the channel.
LEMMA OnePacket ==
    ASSUME NEW S, NEW s \in Seq(S), NEW y, NEW t, NEW b, Packet(t, y, b) \in S
    PROVE  s \o PacketsOf(y, <<Message(t, b)>>) = Append(s, Packet(t, y, b))
<1> DEFINE m == Message(t, b)
           p == Packet(t, y, b)
<1>1. m.type = t /\ m.buf = b
  BY DEF Message
<1> HIDE DEF m
<1>2. PacketsOf(y, <<m>>) = [i \in {1} |-> Packet(<<m>>[i].type, y, <<m>>[i].buf)]
  BY DEF PacketsOf
<1>3. PacketsOf(y, <<m>>) = [i \in {1} |-> p]
  BY <1>1, <1>2
<1> HIDE DEF p
<1>4. [i \in {1} |-> p] = <<p>>
  OBVIOUS
<1>5. p \in S
  BY DEF p
<1>6. s \o <<p>> = Append(s, p)
  BY <1>5
<1> QED BY <1>3, <1>4, <1>6 DEF m, p

\* The packets of a context for line y, as line x sees them.
LEMMA OutAppended ==
    ASSUME NEW n \in Node, NEW s \in Seq(CachePackets), NEW y, NEW c, OutOK(c), y \in Addr \/ c.out[n] = <<>>
    PROVE  /\ s \o PacketsOf(y, c.out[n]) \in Seq(CachePackets)
           /\ Appended(s, s \o PacketsOf(y, c.out[n]), y, Sent(c, n))
           /\ \A x : x # y => Appended(s, s \o PacketsOf(y, c.out[n]), x, {})
<1>1. CASE c.out[n] = <<>>
  <2>1. s \o PacketsOf(y, c.out[n]) = s
    BY <1>1, NoPackets
  <2>2. Sent(c, n) = {}
    BY <1>1 DEF Sent
  <2> QED BY <2>1, <2>2, AppendedSame
<1>2. CASE c.out[n] # <<>>
  <2>1. PICK t \in CacheMsgType, b \in Bufs :
           c.out[n] = <<Message(t, b)>> /\ (t \in {"EX_REP", "SH_REP"} => b # NULL)
    BY <1>2 DEF OutOK
  <2> DEFINE p == Packet(t, y, b)
  <2>2. p \in CachePackets /\ p.addr = y /\ p.type = t
    BY <1>2, <2>1 DEF CachePackets, Pkts, Packet
  <2>3. s \o PacketsOf(y, c.out[n]) = Append(s, p)
    BY <2>1, <2>2, OnePacket
  <2>4. Sent(c, n) = {t}
    BY <2>1, SentOne
  <2> HIDE DEF p
  <2>5. TypeAt(p, y) = {t} /\ \A x : x # y => TypeAt(p, x) = {}
    BY <2>2 DEF TypeAt
  <2>6. Append(s, p) \in Seq(CachePackets)
    BY <2>2
  <2>7. \A x : Appended(s, Append(s, p), x, TypeAt(p, x))
    BY <2>2, AppendStep
  <2> QED BY <2>3, <2>4, <2>5, <2>6, <2>7
<1> QED BY <1>1, <1>2

-----------------------------------------------------------------------------
(* DRAM.                                                                    *)

\* A write on its way to DRAM does not matter to the request that waits for a read.
LEMMA DramKept ==
    ASSUME NEW x, NEW m, NEW q, NEW m1, NEW q1, NEW td, NEW td1, NEW fd, DramInv(x, m, q, td, fd),
           Appended(td, td1, x, {}) \/ Appended(td, td1, x, {"DRAM_WRITE_REQ"}),
           m = "active" /\ q.wait => m1 = "active" /\ q1.wait
    PROVE  DramInv(x, m1, q1, td1, fd)
BY DEF DramInv, Appended

\* A read is sent to DRAM for a request that now waits, and that did not before.
LEMMA DramRead ==
    ASSUME NEW x, NEW m, NEW q, NEW m1, NEW q1, NEW td, NEW td1, NEW fd, DramInv(x, m, q, td, fd),
           Appended(td, td1, x, {"DRAM_READ_REQ"}),
           ~(m = "active" /\ q.wait), m1 = "active", q1.wait
    PROVE  DramInv(x, m1, q1, td1, fd)
BY DEF DramInv, Appended

\* The packets of a handler's outcome to the DRAM controller.
LEMMA DramCommit ==
    ASSUME NEW a \in Addr, NEW c, NEW m, NEW q, DramOK(c, m, q), NEW td \in Seq(DramPackets), NEW fd,
           DramInv(a, m, q, td, fd)
    PROVE  /\ td \o PacketsOf(a, c.dram) \in Seq(DramPackets)
           /\ DramInv(a, ModeOf(c.queue, c.done), Head(c.queue), td \o PacketsOf(a, c.dram), fd)
           /\ \A x, m0, q0 : x # a /\ DramInv(x, m0, q0, td, fd)
                                => DramInv(x, m0, q0, td \o PacketsOf(a, c.dram), fd)
<1> DEFINE rp == Packet("DRAM_READ_REQ", a, NULL)
           rm == Message("DRAM_READ_REQ", NULL)
           m1 == ModeOf(c.queue, c.done)
           q1 == Head(c.queue)
<1>1. rp \in DramPackets /\ rp.addr = a /\ rp.type = "DRAM_READ_REQ"
  BY DEF DramPackets, Pkts, Packet, Bufs
<1>2. ASSUME NEW b \in Carried
      PROVE  LET p == Packet("DRAM_WRITE_REQ", a, b)
             IN  p \in DramPackets /\ p.addr = a /\ p.type = "DRAM_WRITE_REQ"
  BY DEF DramPackets, Pkts, Packet, Bufs, Carried
<1> HIDE DEF rp, rm, m1, q1
<1>3. \A x : TypeAt(rp, x) = IF x = a THEN {"DRAM_READ_REQ"} ELSE {}
  BY <1>1 DEF TypeAt
<1>4. PICK w \in Writes :
         \/ /\ c.dram = w
            /\ m = "active" /\ q.wait => m1 = "active" /\ q1.wait = TRUE
         \/ /\ c.dram = Append(w, rm)
            /\ ~(m = "active" /\ q.wait)
            /\ m1 = "active" /\ q1.wait = TRUE
  BY DEF DramOK, rm, m1, q1
<1> DEFINE td1 == td \o PacketsOf(a, w)
<1>5. /\ td1 \in Seq(DramPackets)
      /\ \A x : x # a => Appended(td, td1, x, {})
      /\ Appended(td, td1, a, {}) \/ Appended(td, td1, a, {"DRAM_WRITE_REQ"})
      /\ td \o PacketsOf(a, Append(w, rm)) = Append(td1, rp)
  <2>1. CASE w = <<>>
    <3>1. td1 = td
      BY <2>1, NoPackets
    <3>2. Append(w, rm) = <<rm>>
      BY <2>1
    <3>3. td \o PacketsOf(a, <<rm>>) = Append(td, rp)
      <4>1. Packet("DRAM_READ_REQ", a, NULL) \in DramPackets
        BY <1>1 DEF rp
      <4>2. td \o PacketsOf(a, <<Message("DRAM_READ_REQ", NULL)>>)
              = Append(td, Packet("DRAM_READ_REQ", a, NULL))
        BY <4>1, OnePacket
      <4> QED BY <4>2 DEF rm, rp
    <3> HIDE DEF td1
    <3> QED BY <3>1, <3>2, <3>3, AppendedSame
  <2>2. CASE w # <<>>
    <3>1. PICK b \in Carried : w = <<Message("DRAM_WRITE_REQ", b)>>
      BY <2>2 DEF Writes
    <3> DEFINE p == Packet("DRAM_WRITE_REQ", a, b)
               wm == Message("DRAM_WRITE_REQ", b)
    <3>2. p \in DramPackets /\ p.addr = a /\ p.type = "DRAM_WRITE_REQ"
      BY <1>2
    <3>3. td1 = Append(td, p)
      BY <3>1, <3>2, OnePacket
    <3>8. PacketsOf(a, <<wm, rm>>) = <<p, rp>>
      <4>1. rm = [type |-> "DRAM_READ_REQ", buf |-> NULL] /\ wm = [type |-> "DRAM_WRITE_REQ", buf |-> b]
        BY DEF rm, Message
      <4>2. p = Packet(wm.type, a, wm.buf) /\ rp = Packet(rm.type, a, rm.buf)
        BY <4>1 DEF rp
      <4> HIDE DEF wm
      <4>3. PacketsOf(a, <<wm, rm>>) = [i \in 1 .. 2 |-> Packet(<<wm, rm>>[i].type, a, <<wm, rm>>[i].buf)]
        BY DEF PacketsOf
      <4>4. <<wm, rm>>[1] = wm /\ <<wm, rm>>[2] = rm /\ \A i \in 1 .. 2 : i = 1 \/ i = 2
        OBVIOUS
      <4>5. PacketsOf(a, <<wm, rm>>) = [i \in 1 .. 2 |-> IF i = 1 THEN p ELSE rp]
        BY <4>2, <4>3, <4>4
      <4> HIDE DEF p
      <4>6. [i \in 1 .. 2 |-> IF i = 1 THEN p ELSE rp] = <<p, rp>>
        OBVIOUS
      <4> QED BY <4>5, <4>6 DEF p
    <3>9. Append(w, rm) = <<wm, rm>>
      <4>1. w = <<wm>>
        BY <3>1
      <4> HIDE DEF wm
      <4>2. Append(<<wm>>, rm) = <<wm, rm>>
        <5>1. wm \in {wm, rm} /\ rm \in {wm, rm}
          OBVIOUS
        <5> QED BY <5>1, AppendPair
      <4> QED BY <4>1, <4>2
    <3> HIDE DEF p, td1, wm
    <3>4. TypeAt(p, a) = {"DRAM_WRITE_REQ"} /\ \A x : x # a => TypeAt(p, x) = {}
      BY <3>2 DEF TypeAt
    <3>5. \A x : Appended(td, Append(td, p), x, TypeAt(p, x))
      BY <3>2, AppendStep
    <3>6. Append(td, p) \in Seq(DramPackets)
      BY <3>2
    <3>7. td \o <<p, rp>> = Append(Append(td, p), rp)
      BY <1>1, <3>2
    <3> QED BY <3>3, <3>4, <3>5, <3>6, <3>7, <3>8, <3>9
  <2> QED BY <2>1, <2>2
<1>6. td \o PacketsOf(a, Append(w, rm)) = Append(td1, rp)
  BY <1>5
<1> HIDE DEF td1
<1>7. CASE c.dram = w /\ (m = "active" /\ q.wait => m1 = "active" /\ q1.wait = TRUE)
  <2>1. DramInv(a, m1, q1, td1, fd)
    BY <1>5, <1>7, DramKept
  <2>2. \A x, m0, q0 : x # a /\ DramInv(x, m0, q0, td, fd) => DramInv(x, m0, q0, td1, fd)
    BY <1>5, DramKept
  <2> QED BY <1>5, <1>7, <2>1, <2>2 DEF td1, m1, q1
<1>8. CASE /\ c.dram = Append(w, rm)
           /\ ~(m = "active" /\ q.wait)
           /\ m1 = "active" /\ q1.wait = TRUE
  <2> DEFINE td2 == Append(td1, rp)
  <2>1. /\ td2 \in Seq(DramPackets)
        /\ \A x : x # a => Appended(td1, td2, x, {})
        /\ Appended(td1, td2, a, {"DRAM_READ_REQ"})
    <3>1. \A x : Appended(td1, td2, x, TypeAt(rp, x))
      BY <1>1, <1>5, AppendStep
    <3>2. td2 \in Seq(DramPackets)
      BY <1>1, <1>5
    <3>3. TypeAt(rp, a) = {"DRAM_READ_REQ"} /\ \A x : x # a => TypeAt(rp, x) = {}
      BY <1>3
    <3> HIDE DEF td2
    <3> QED BY <3>1, <3>2, <3>3
  <2> HIDE DEF td2
  <2>2. DramInv(a, m, q, td1, fd)
    BY <1>5, DramKept
  <2>3. DramInv(a, m1, q1, td2, fd)
    BY <1>8, <2>1, <2>2, DramRead
  <2>4. \A x, m0, q0 : x # a /\ DramInv(x, m0, q0, td, fd) => DramInv(x, m0, q0, td2, fd)
    <3> SUFFICES ASSUME NEW x, NEW m0, NEW q0, x # a, DramInv(x, m0, q0, td, fd)
                 PROVE  DramInv(x, m0, q0, td2, fd)
      OBVIOUS
    <3>1. DramInv(x, m0, q0, td1, fd)
      BY <1>5, DramKept
    <3> QED BY <2>1, <3>1, DramKept
  <2>5. td \o PacketsOf(a, c.dram) = td2
    <3>1. PacketsOf(a, c.dram) = PacketsOf(a, Append(w, rm))
      BY <1>8
    <3> QED BY <1>6, <3>1 DEF td2
  <2> QED BY <2>1, <2>3, <2>4, <2>5 DEF m1, q1
<1> QED BY <1>4, <1>7, <1>8

-----------------------------------------------------------------------------
(* Commit.                                                                  *)

\* What depends on the configuration alone stays.
LEMMA ConfigKept ==
    ASSUME config' = config
    PROVE  /\ Node' = Node /\ Addr' = Addr /\ Protocol' = Protocol /\ User' = User /\ NumNodes' = NumNodes
           /\ Entry' = Entry /\ Reqs' = Reqs /\ FreshReq' = FreshReq /\ Waiter' = Waiter
           /\ CachePackets' = CachePackets /\ DirPackets' = DirPackets
           /\ DramPackets' = DramPackets /\ ReplyPackets' = ReplyPackets /\ MaxHwSharers' = MaxHwSharers
           /\ Tolerated' = Tolerated /\ Lines' = Lines /\ Carried' = Carried
<1>1. Node' = Node /\ Addr' = Addr /\ Protocol' = Protocol /\ User' = User /\ NumNodes' = NumNodes /\ MaxHwSharers' = MaxHwSharers
  BY DEF Node, NumNodes, Addr, Protocol, User, MaxHwSharers
<1>7. Bufs' = Bufs
  BY <1>1 DEF Bufs, Clean
<1>8. Lines' = Lines /\ Carried' = Carried
  BY <1>7 DEF Lines, Carried, Valid
<1>2. Entry' = Entry /\ Reqs' = Reqs /\ Waiter' = Waiter
  BY <1>1, <1>7 DEF Entry, Reqs, Waiter
<1>3. FreshReq' = FreshReq
  BY <1>2 DEF FreshReq
<1>4. \A S : Pkts(S)' = Pkts(S)
  BY <1>1, <1>7 DEF Pkts
<1>5. /\ CachePackets' = CachePackets /\ DirPackets' = DirPackets
      /\ DramPackets' = DramPackets /\ ReplyPackets' = ReplyPackets
  BY <1>1, <1>7 DEF CachePackets, DirPackets, DramPackets, ReplyPackets, Pkts
<1>6. Tolerated' = Tolerated
  BY <1>1 DEF Tolerated, Fits, DirEntries
<1> QED BY <1>1, <1>2, <1>3, <1>5, <1>6, <1>8

\* The invariant of cache n and line a, by the queue and whether its current request is done.
NodeAt(n, a, e, qs, done, l, w, dr, s, d) ==
    NodeInv(n, a, e, ModeOf(qs, done), Head(qs), RestOf(qs), l, w, dr, s, d)

\* NodesOK of the next state, line by line and cache by cache.
LEMMA NodesPrimed ==
    ASSUME config' = config,
           \A a \in Addr, n \in Node :
               NodeAt(n, a, directory'[a], queue'[a], completing' = a, line'[n][a], waiters'[n][a],
                      draining'[n] = a, toCache'[n], toDir'[n])
    PROVE  NodesOK'
BY ConfigKept DEF NodesOK, NodeAt

\* What a handler leaves satisfies the invariant of every cache for the line it is about.
LEMMA NodeSettled ==
    ASSUME NEW c, NEW e, NEW qs, NEW done, NEW z, NEW T, Settled(c, e, qs, done, z, T), NEW n \in Node,
           NEW a, NEW l, NEW w, NEW dr, NEW s, NEW s1, NEW d, NEW d1,
           NodeAt(n, a, e, qs, done, l, w, dr, s, d),
           Appended(s, s1, a, Sent(c, n)), Removed(d, d1, a, IF n = z THEN T ELSE {})
    PROVE  NodeAt(n, a, EntryAfter(c), c.queue, c.done, l, w, dr, s1, d1)
<1>1. Step(n, e, ModeOf(qs, done), Head(qs), RestOf(qs),
           EntryAfter(c), ModeOf(c.queue, c.done), Head(c.queue), RestOf(c.queue),
           Sent(c, n), IF n = z THEN T ELSE {})
  BY DEF Settled
<1> QED BY <1>1 DEF Step, NodeAt

\* What the replacement of an entry leaves satisfies the invariant of every cache for its line.
LEMMA NodeNullified ==
    ASSUME NEW c, NEW e, NEW qs, qs = <<>>, Nullified(c, e, qs), NEW n \in Node,
           NEW a, NEW l, NEW w, NEW dr, NEW s, NEW s1, NEW d,
           NodeAt(n, a, e, qs, FALSE, l, w, dr, s, d),
           Appended(s, s1, a, Sent(c, n))
    PROVE  NodeAt(n, a, EntryAfter(c), QueueAfter(c), FALSE, l, w, dr, s1, d)
<1>1. Sends(n, e, "idle", Head(qs), <<>>, EntryAfter(c),
            ModeOf(QueueAfter(c), FALSE), Head(QueueAfter(c)), Sent(c, n))
  BY DEF Nullified
<1>2. ModeOf(qs, FALSE) = "idle" /\ RestOf(qs) = <<>> /\ RestOf(QueueAfter(c)) = <<>>
  BY DEF ModeOf, RestOf, Nullified
<1> QED BY <1>1, <1>2 DEF Sends, NodeAt

\* A step about one line keeps the invariant of every cache for the others.
LEMMA NodeOther ==
    ASSUME NEW n, NEW a, NEW e, NEW qs, NEW done, NEW l, NEW w, NEW dr, NEW s, NEW s1, NEW d, NEW d1,
           NodeAt(n, a, e, qs, done, l, w, dr, s, d),
           Appended(s, s1, a, {}), Removed(d, d1, a, {})
    PROVE  NodeAt(n, a, e, qs, done, l, w, dr, s1, d1)
BY OtherEntryStep DEF NodeAt

\* A line without a current request has no read on its way.
LEMMA DramIdle ==
    ASSUME NEW a, NEW m, NEW q, NEW m1, NEW q1, NEW td, NEW fd, DramInv(a, m, q, td, fd), m # "active"
    PROVE  DramInv(a, m1, q1, td, fd)
BY DEF DramInv

-----------------------------------------------------------------------------
(* The home takes a step.                                                   *)

\* The replacement that a step makes: none, or that of an idle entry b.
Replaces(b, cb) ==
    \/ b = NoAddr /\ cb = Context(NewEntry, <<>>)
    \/ b \in Idle /\ b \in Addr /\ Nullified(cb, directory[b], queue[b])

\* The packet of types T is taken from cache z for line a.
TakenFrom(a, z, T) ==
    /\ toDir' \in [Node -> Seq(DirPackets)]
    /\ \A n \in Node : /\ Removed(toDir[n], toDir'[n], a, IF n = z THEN T ELSE {})
                       /\ \A x : x # a => Removed(toDir[n], toDir'[n], x, {})

\* What Commit makes of the lines.
Committed(a, c, b, cb) ==
    /\ directory'[a] = EntryAfter(c) /\ queue'[a] = c.queue /\ (completing' = a <=> c.done)
    /\ b \in Addr => /\ directory'[b] = EntryAfter(cb) /\ queue'[b] = QueueAfter(cb)
                     /\ completing # b /\ completing' # b
    /\ \A x \in Addr : x # a /\ x # b => /\ directory'[x] = directory[x] /\ queue'[x] = queue[x]
                                         /\ completing # x /\ completing' # x
    /\ completing' \in {NoAddr, a}

\* What Commit does to the directory, the queues and completing.
LEMMA CommitAt ==
    ASSUME CoherenceInv, NEW a \in Addr, NEW c, NEW b, NEW cb, b # a, Replaces(b, cb),
           completing \in {NoAddr, a}, NEW z, NEW T,
           Settled(c, directory[a], queue[a], completing = a, z, T), Commit(a, c, b, cb)
    PROVE  Committed(a, c, b, cb)
<1>1. NoAddr \notin Addr
  BY MemoryAssumption DEF CoherenceInv, Types, Addr
<1>2. c.done \in BOOLEAN
  BY DEF Settled, Contexts
<1> QED BY <1>1, <1>2 DEF Committed, Commit, EntryAfter, QueueAfter

\* What Commit does to the channel to cache n: the packets of the replaced line, then those
\* of the line itself.
LEMMA CommitChannels ==
    ASSUME CoherenceInv, NEW a \in Addr, NEW c, NEW b, NEW cb, b # a, Replaces(b, cb),
           NEW z, NEW T, NEW done,
           Settled(c, directory[a], queue[a], done, z, T), Commit(a, c, b, cb), NEW n \in Node
    PROVE  /\ toCache'[n] \in Seq(CachePackets)
           /\ \E s1 : /\ Appended(toCache[n], s1, b, Sent(cb, n))
                      /\ \A x : x # b => Appended(toCache[n], s1, x, {})
                      /\ Appended(s1, toCache'[n], a, Sent(c, n))
                      /\ \A x : x # a => Appended(s1, toCache'[n], x, {})
<1> DEFINE s1 == toCache[n] \o PacketsOf(b, cb.out[n])
<1>1. toCache[n] \in Seq(CachePackets)
  BY DEF CoherenceInv, Types
<1>2. OutOK(cb) /\ (b \in Addr \/ cb.out[n] = <<>>)
  <2>1. CASE b = NoAddr /\ cb = Context(NewEntry, <<>>)
    <3>1. \A k \in Node : cb.out[k] = <<>>
      BY <2>1 DEF Context
    <3> QED BY <3>1 DEF OutOK
  <2>2. CASE b \in Addr /\ Nullified(cb, directory[b], queue[b])
    BY <2>2 DEF Nullified
  <2> QED BY <2>1, <2>2 DEF Replaces
<1>3. /\ s1 \in Seq(CachePackets)
      /\ Appended(toCache[n], s1, b, Sent(cb, n))
      /\ \A x : x # b => Appended(toCache[n], s1, x, {})
  BY <1>1, <1>2, OutAppended
<1>4. toCache'[n] = s1 \o PacketsOf(a, c.out[n])
  BY DEF Commit
<1> HIDE DEF s1
<1>5. OutOK(c)
  BY DEF Settled
<1>6. /\ toCache'[n] \in Seq(CachePackets)
      /\ Appended(s1, toCache'[n], a, Sent(c, n))
      /\ \A x : x # a => Appended(s1, toCache'[n], x, {})
  BY <1>3, <1>4, <1>5, OutAppended
<1> QED BY <1>3, <1>6

\* A handler's step keeps the invariant of every cache and line.
LEMMA CommitNodes ==
    ASSUME CoherenceInv, config' = config, UNCHANGED cacheVars,
           NEW a \in Addr, NEW c, NEW b, NEW cb, b # a, Replaces(b, cb),
           completing \in {NoAddr, a}, NEW z, NEW T,
           Settled(c, directory[a], queue[a], completing = a, z, T), Commit(a, c, b, cb),
           TakenFrom(a, z, T)
    PROVE  NodesOK'
<1>0. Committed(a, c, b, cb)
  BY CommitAt
<1> DEFINE A(x, n, s, d) == NodeAt(n, x, directory[x], queue[x], completing = x,
                                   line[n][x], waiters[n][x], draining[n] = x, s, d)
           B(x, n) == NodeAt(n, x, directory'[x], queue'[x], completing' = x,
                             line'[n][x], waiters'[n][x], draining'[n] = x, toCache'[n], toDir'[n])
<1>1. line' = line /\ waiters' = waiters /\ draining' = draining
  BY DEF cacheVars
<1>2. SUFFICES ASSUME NEW x \in Addr, NEW n \in Node PROVE B(x, n)
  BY <1>2, NodesPrimed
<1>3. A(x, n, toCache[n], toDir[n])
  BY DEF CoherenceInv, NodesOK, NodeAt
<1>4. PICK s1 : /\ Appended(toCache[n], s1, b, Sent(cb, n))
                /\ \A y : y # b => Appended(toCache[n], s1, y, {})
                /\ Appended(s1, toCache'[n], a, Sent(c, n))
                /\ \A y : y # a => Appended(s1, toCache'[n], y, {})
  BY CommitChannels
<1>5. /\ Removed(toDir[n], toDir'[n], a, IF n = z THEN T ELSE {})
      /\ \A y : y # a => Removed(toDir[n], toDir'[n], y, {})
  BY DEF TakenFrom
<1>6. CASE x = a
  <2>1. A(x, n, s1, toDir[n])
    BY <1>3, <1>4, <1>6, RemovedSame, NodeOther
  <2>2. NodeAt(n, a, directory[a], queue[a], completing = a,
               line[n][a], waiters[n][a], draining[n] = a, s1, toDir[n])
    BY <1>6, <2>1
  <2>3. NodeAt(n, a, EntryAfter(c), c.queue, c.done, line[n][a], waiters[n][a], draining[n] = a,
               toCache'[n], toDir'[n])
    BY <2>2, <1>4, <1>5, NodeSettled
  <2>4. directory'[a] = EntryAfter(c) /\ queue'[a] = c.queue /\ (completing' = a <=> c.done)
    BY <1>0 DEF Committed
  <2>5. c.done \in BOOLEAN
    BY DEF Settled, Contexts
  <2>6. (completing' = a) = c.done
    BY <2>4, <2>5
  <2> QED BY <1>1, <1>6, <2>3, <2>4, <2>6
<1>7. CASE x = b /\ x # a
  <2>1. b \in Addr /\ queue[b] = <<>> /\ Nullified(cb, directory[b], queue[b])
    BY <1>7, MemoryAssumption DEF Replaces, Idle, CoherenceInv, Types, Addr
  <2>2. directory'[b] = EntryAfter(cb) /\ queue'[b] = QueueAfter(cb) /\ completing # b /\ completing' # b
    BY <2>1, <1>0 DEF Committed
  <2>3. (completing = b) = FALSE /\ (completing' = b) = FALSE
    BY <2>2
  <2>4. NodeAt(n, b, directory[b], queue[b], FALSE, line[n][b], waiters[n][b], draining[n] = b,
               toCache[n], toDir[n])
    BY <1>3, <1>7, <2>3
  <2>5. NodeAt(n, b, EntryAfter(cb), QueueAfter(cb), FALSE, line[n][b], waiters[n][b], draining[n] = b,
               s1, toDir[n])
    BY <1>4, <2>1, <2>4, NodeNullified
  <2>6. NodeAt(n, b, EntryAfter(cb), QueueAfter(cb), FALSE, line[n][b], waiters[n][b], draining[n] = b,
               toCache'[n], toDir'[n])
    BY <1>4, <1>5, <2>5, NodeOther
  <2> QED BY <1>1, <1>7, <2>2, <2>3, <2>6
<1>8. CASE x # b /\ x # a
  <2>1. A(x, n, s1, toDir[n])
    BY <1>3, <1>4, <1>8, RemovedSame, NodeOther
  <2>2. A(x, n, toCache'[n], toDir'[n])
    BY <2>1, <1>4, <1>5, <1>8, NodeOther
  <2>3. directory'[x] = directory[x] /\ queue'[x] = queue[x] /\ completing # x /\ completing' # x
    BY <1>8, <1>0 DEF Committed
  <2>4. (completing = x) = (completing' = x)
    BY <2>3
  <2> QED BY <1>1, <2>2, <2>3, <2>4
<1> QED BY <1>6, <1>7, <1>8

\* A handler's step keeps the invariant of every entry.
LEMMA CommitHome ==
    ASSUME CoherenceInv, config' = config,
           NEW a \in Addr, NEW c, NEW b, NEW cb, b # a, Replaces(b, cb),
           completing \in {NoAddr, a}, NEW z, NEW T,
           Settled(c, directory[a], queue[a], completing = a, z, T), Commit(a, c, b, cb),
           DramInv(a, ModeOf(c.queue, c.done), Head(c.queue), toDram', fromDram'),
           \A x, m, q : x # a /\ DramInv(x, m, q, toDram, fromDram)
                          => DramInv(x, m, q, toDram', fromDram')
    PROVE  HomeOK'
<1>0. Committed(a, c, b, cb)
  BY CommitAt
<1> DEFINE B(x) ==
      /\ HomeInv(directory'[x], ModeOf(queue'[x], completing' = x), Head(queue'[x]), Protocol)
      /\ DramInv(x, ModeOf(queue'[x], completing' = x), Head(queue'[x]), toDram', fromDram')
      /\ x \notin resident' \cup replaced' => directory'[x].sharers = {}
<1>1. SUFFICES ASSUME NEW x \in Addr PROVE B(x)
  BY <1>1, ConfigKept DEF HomeOK, Absent
<1>2. /\ HomeInv(directory[x], ModeOf(queue[x], completing = x), Head(queue[x]), Protocol)
      /\ x \notin resident \cup replaced => directory[x].sharers = {}
      /\ DramInv(x, ModeOf(queue[x], completing = x), Head(queue[x]), toDram, fromDram)
  BY DEF CoherenceInv, HomeOK, Absent
<1>3. CASE x = a
  <2>1. directory'[a] = EntryAfter(c) /\ queue'[a] = c.queue /\ (completing' = a <=> c.done)
    BY <1>0 DEF Committed
  <2>2. c.done \in BOOLEAN /\ (c.gone => EntryAfter(c).sharers = {})
    BY DEF Settled, Contexts
  <2>3. (completing' = a) = c.done
    BY <2>1, <2>2
  <2>4. HomeInv(EntryAfter(c), ModeOf(c.queue, c.done), Head(c.queue), Protocol)
    BY DEF Settled
  <2>5. a \notin resident' \cup replaced' => c.gone
    BY DEF Commit, Absent
  <2> QED BY <1>3, <2>1, <2>2, <2>3, <2>4, <2>5
<1>4. CASE x = b /\ x # a
  <2>1. b \in Addr /\ b # NoAddr /\ b \in resident /\ queue[b] = <<>> /\ Nullified(cb, directory[b], queue[b])
    BY <1>4, MemoryAssumption DEF Replaces, Idle, CoherenceInv, Types, Addr
  <2>2. directory'[b] = EntryAfter(cb) /\ queue'[b] = QueueAfter(cb) /\ completing # b /\ completing' # b
    BY <2>1, <1>0 DEF Committed
  <2>3. (completing = b) = FALSE /\ (completing' = b) = FALSE
    BY <2>2
  <2>4. /\ HomeInv(EntryAfter(cb), ModeOf(QueueAfter(cb), FALSE), Head(QueueAfter(cb)), Protocol)
        /\ cb.gone => EntryAfter(cb).sharers = {}
    BY <2>1 DEF Nullified
  <2>5. b \notin resident' \cup replaced' => cb.gone
    BY <2>1, <1>4 DEF Commit
  <2>6. DramInv(b, ModeOf(QueueAfter(cb), FALSE), Head(QueueAfter(cb)), toDram', fromDram')
    <3>1. ModeOf(queue[b], completing = b) # "active"
      BY <2>1 DEF ModeOf
    <3>2. DramInv(b, ModeOf(queue[b], completing = b), Head(queue[b]), toDram', fromDram')
      BY <1>2, <1>4
    <3> QED BY <3>1, <3>2, DramIdle
  <2> QED BY <1>4, <2>2, <2>3, <2>4, <2>5, <2>6
<1>5. CASE x # b /\ x # a
  <2>1. directory'[x] = directory[x] /\ queue'[x] = queue[x] /\ completing # x /\ completing' # x
    BY <1>5, <1>0 DEF Committed
  <2>2. (completing = x) = (completing' = x)
    BY <2>1
  <2>3. x \notin resident' \cup replaced' => x \notin resident \cup replaced
    BY <1>5 DEF Commit
  <2> QED BY <1>2, <1>5, <2>1, <2>2, <2>3
<1> QED BY <1>3, <1>4, <1>5

\* A handler's step keeps the types.
LEMMA CommitTypes ==
    ASSUME CoherenceInv, config' = config, UNCHANGED cacheVars, memory' = memory,
           NEW a \in Addr, NEW c, NEW b, NEW cb, b # a, Replaces(b, cb),
           completing \in {NoAddr, a}, NEW z, NEW T,
           Settled(c, directory[a], queue[a], completing = a, z, T), Commit(a, c, b, cb),
           toDir' \in [Node -> Seq(DirPackets)], toDram' \in Seq(DramPackets),
           fromDram' \in Seq(ReplyPackets)
    PROVE  Types'
<1>0. Committed(a, c, b, cb)
  BY CommitAt
<1>1. /\ c.entry \in Entry /\ c.queue \in Seq(Reqs) /\ c.failed \subseteq Tolerated
      /\ RestOf(c.queue) \in Seq(FreshReq) /\ (c.done => c.queue # <<>>)
  BY DEF Settled, Contexts
<1>2. NewEntry \in Entry
  BY DEF NewEntry, Entry, DState
<1>3. /\ cb.failed \subseteq Tolerated
      /\ b \in Addr => /\ cb.entry \in Entry /\ QueueAfter(cb) \in Seq(Reqs)
                       /\ RestOf(QueueAfter(cb)) = <<>> /\ b \in resident /\ queue[b] = <<>>
      /\ b \in Addr \/ b = NoAddr
  <2>1. CASE b = NoAddr /\ cb = Context(NewEntry, <<>>)
    <3>1. b \notin Addr
      BY <2>1, MemoryAssumption DEF CoherenceInv, Types, Addr
    <3>2. cb.failed = {}
      BY <2>1 DEF Context
    <3> QED BY <2>1, <3>1, <3>2
  <2>2. CASE b \in Idle /\ b \in Addr /\ Nullified(cb, directory[b], queue[b])
    BY <2>2 DEF Nullified, Contexts, Idle
  <2> QED BY <2>1, <2>2 DEF Replaces
<1>4. Types
  BY DEF CoherenceInv
<1>5. directory' \in [Addr -> Entry]
  BY <1>1, <1>2, <1>3, <1>4 DEF Commit, Types
<1>6. queue' \in [Addr -> Seq(Reqs)]
  BY <1>1, <1>3, <1>4 DEF Commit, Types, QueueAfter
<1>7. \A x \in Addr : queue'[x] # <<>> => Tail(queue'[x]) \in Seq(FreshReq)
  <2> SUFFICES ASSUME NEW x \in Addr, queue'[x] # <<>> PROVE Tail(queue'[x]) \in Seq(FreshReq)
    OBVIOUS
  <2>1. CASE x = a
    BY <1>1, <2>1, <1>0 DEF Committed, RestOf
  <2>2. CASE x = b /\ x # a
    <3>1. queue'[x] = QueueAfter(cb)
      BY <2>2, <1>0 DEF Committed
    <3>2. <<>> \in Seq(FreshReq)
      OBVIOUS
    <3> QED BY <1>3, <2>2, <3>1, <3>2 DEF RestOf
  <2>3. CASE x # a /\ x # b
    BY <1>4, <2>3, <1>0 DEF Committed, Types
  <2> QED BY <2>1, <2>2, <2>3
<1>8. completing' \in Addr \cup {NoAddr} /\ (completing' # NoAddr => queue'[completing'] # <<>>)
  <2>1. completing' \in {NoAddr, a} /\ queue'[a] = c.queue /\ (completing' = a <=> c.done)
    BY <1>0 DEF Committed
  <2> QED BY <1>1, <2>1
<1>9. resident' \subseteq Addr /\ replaced' \subseteq Addr
  BY <1>3, <1>4 DEF Commit, Types
<1>10. toCache' \in [Node -> Seq(CachePackets)]
  <2>1. \A n \in Node : toCache'[n] \in Seq(CachePackets)
    BY CommitChannels
  <2>2. toCache' = [n \in Node |-> toCache'[n]]
    BY DEF Commit
  <2> HIDE DEF Commit
  <2> QED BY <2>1, <2>2
<1>11. failed' \subseteq Tolerated
  BY <1>1, <1>3, <1>4 DEF Commit, Types
<1>12. /\ line' \in [Node -> [Addr -> Lines]]
       /\ waiters' \in [Node -> [Addr -> Seq(Waiter)]]
       /\ draining' \in [Node -> Addr \cup {NoAddr}]
       /\ memory' \in [Addr -> Carried]
       /\ config' \in Config
  BY <1>4 DEF Types, cacheVars
<1> QED BY <1>5, <1>6, <1>7, <1>8, <1>9, <1>10, <1>11, <1>12, ConfigKept DEF Types

\* A handler's step keeps the invariant.
LEMMA CommitKeeps ==
    ASSUME CoherenceInv, config' = config, UNCHANGED cacheVars, memory' = memory,
           NEW a \in Addr, NEW c, NEW b, NEW cb, b # a, Replaces(b, cb),
           completing \in {NoAddr, a}, NEW z, NEW T,
           Settled(c, directory[a], queue[a], completing = a, z, T), Commit(a, c, b, cb),
           TakenFrom(a, z, T), toDram' \in Seq(DramPackets), fromDram' \in Seq(ReplyPackets),
           DramInv(a, ModeOf(c.queue, c.done), Head(c.queue), toDram', fromDram'),
           \A x, m, q : x # a /\ DramInv(x, m, q, toDram, fromDram)
                          => DramInv(x, m, q, toDram', fromDram')
    PROVE  CoherenceInv'
<1>1. NodesOK'
  BY CommitNodes
<1>2. HomeOK'
  BY CommitHome
<1>3. toDir' \in [Node -> Seq(DirPackets)]
  BY DEF TakenFrom
<1>4. Types'
  BY <1>3, CommitTypes
<1> QED BY <1>1, <1>2, <1>4 DEF CoherenceInv

-----------------------------------------------------------------------------
(* The actions of the home node.                                            *)

\* The home's part of the invariant for one line.
LEMMA HomeFacts ==
    ASSUME CoherenceInv, NEW a \in Addr
    PROVE  /\ config \in Config /\ directory[a] \in Entry /\ queue[a] \in Seq(Reqs)
           /\ RestOf(queue[a]) \in Seq(FreshReq) /\ NoAddr \notin Addr
           /\ HomeInv(directory[a], ModeOf(queue[a], completing = a), Head(queue[a]), Protocol)
           /\ a \notin resident \cup replaced => directory[a].sharers = {}
           /\ DramInv(a, ModeOf(queue[a], completing = a), Head(queue[a]), toDram, fromDram)
           /\ toDram \in Seq(DramPackets) /\ fromDram \in Seq(ReplyPackets)
           /\ \A n \in Node :
                 NodeInv(n, a, directory[a], ModeOf(queue[a], completing = a), Head(queue[a]),
                         RestOf(queue[a]), line[n][a], waiters[n][a], draining[n] = a,
                         toCache[n], toDir[n])
<1>1. Types
  BY DEF CoherenceInv
<1>2. NoAddr \notin Addr
  BY <1>1, MemoryAssumption DEF Types, Addr
<1>3. <<>> \in Seq(FreshReq)
  OBVIOUS
<1>4. RestOf(queue[a]) \in Seq(FreshReq)
  BY <1>1, <1>3 DEF RestOf, Types
<1>5. /\ config \in Config /\ directory[a] \in Entry /\ queue[a] \in Seq(Reqs)
      /\ toDram \in Seq(DramPackets) /\ fromDram \in Seq(ReplyPackets)
  BY <1>1 DEF Types
<1> QED BY <1>2, <1>4, <1>5 DEF CoherenceInv, HomeOK, NodesOK, Absent

\* handleMsgFromNetwork takes the packet at the head of a channel to the directory.
LEMMA Taken ==
    ASSUME CoherenceInv, NEW z \in Node, toDir[z] # <<>>, toDir' = [toDir EXCEPT ![z] = Tail(@)]
    PROVE  /\ Head(toDir[z]) \in DirPackets
           /\ TakenFrom(Head(toDir[z]).addr, z, {Head(toDir[z]).type})
<1> DEFINE m == Head(toDir[z])
           a == m.addr
<1>1. toDir \in [Node -> Seq(DirPackets)] /\ toDir[z] \in Seq(DirPackets)
  BY DEF CoherenceInv, Types
<1>2. m \in DirPackets /\ Tail(toDir[z]) \in Seq(DirPackets)
  BY <1>1
<1>3. toDir' \in [Node -> Seq(DirPackets)] /\ \A n \in Node : toDir'[n] = IF n = z THEN Tail(toDir[z]) ELSE toDir[n]
  BY <1>1, <1>2
<1>4. \A x : Removed(toDir[z], Tail(toDir[z]), x, TypeAt(m, x))
  BY <1>1, TailStep
<1> HIDE DEF m
<1>5. TypeAt(m, a) = {m.type} /\ \A x : x # a => TypeAt(m, x) = {}
  BY DEF TypeAt
<1> DEFINE t == m.type
<1> HIDE DEF a, t
<1>6. ASSUME NEW n \in Node
      PROVE  /\ Removed(toDir[n], toDir'[n], a, IF n = z THEN {t} ELSE {})
             /\ \A x : x # a => Removed(toDir[n], toDir'[n], x, {})
  <2>1. CASE n = z
    BY <1>3, <1>4, <1>5, <2>1 DEF t
  <2>2. CASE n # z
    BY <1>3, <2>2, RemovedSame
  <2> QED BY <2>1, <2>2
<1>7. TakenFrom(a, z, {t})
  BY <1>3, <1>6 DEF TakenFrom
<1> QED BY <1>2, <1>7 DEF m, a, t

\* A step that takes no packet from the caches.
LEMMA NoneTaken ==
    ASSUME CoherenceInv, config' = config, toDir' = toDir, NEW a, NEW z, NEW T, T = {}
    PROVE  TakenFrom(a, z, T)
<1>1. toDir \in [Node -> Seq(DirPackets)]
  BY DEF CoherenceInv, Types
<1>2. \A n, x : Removed(toDir[n], toDir[n], x, {})
  BY RemovedSame
<1>3. \A n : (IF n = z THEN T ELSE {}) = {}
  OBVIOUS
<1> QED BY <1>1, <1>2, <1>3 DEF TakenFrom

\* A step that commits the outcome of a handler keeps the invariant.
LEMMA OutcomeKeeps ==
    ASSUME CoherenceInv, config' = config, UNCHANGED cacheVars, memory' = memory, fromDram' = fromDram,
           NEW a \in Addr, NEW c, NEW b, NEW cb, b # a, Replaces(b, cb),
           completing \in {NoAddr, a}, NEW z, NEW T,
           Outcome(c, directory[a], queue[a], completing = a, z, T), Commit(a, c, b, cb),
           TakenFrom(a, z, T)
    PROVE  CoherenceInv'
<1>1. Settled(c, directory[a], queue[a], completing = a, z, T)
  BY DEF Outcome
<1>2. DramOK(c, ModeOf(queue[a], completing = a), Head(queue[a]))
  BY DEF Outcome
<1>3. /\ DramInv(a, ModeOf(queue[a], completing = a), Head(queue[a]), toDram, fromDram)
      /\ toDram \in Seq(DramPackets) /\ fromDram \in Seq(ReplyPackets)
  BY HomeFacts
<1>4. toDram' = toDram \o PacketsOf(a, c.dram)
  BY DEF Commit
<1>5. /\ toDram' \in Seq(DramPackets)
      /\ DramInv(a, ModeOf(c.queue, c.done), Head(c.queue), toDram', fromDram')
      /\ \A x, m, q : x # a /\ DramInv(x, m, q, toDram, fromDram)
                        => DramInv(x, m, q, toDram', fromDram')
  BY <1>2, <1>3, <1>4, DramCommit
<1> QED BY <1>1, <1>3, <1>5, CommitKeeps

\* Most steps replace no entry.
LEMMA NoReplacement ==
    ASSUME CoherenceInv, NEW a \in Addr
    PROVE  Replaces(NoAddr, Context(NewEntry, <<>>)) /\ NoAddr # a
BY HomeFacts DEF Replaces

\* A reply or an eviction.
LEMMA DirReceiveRepKeeps ==
    ASSUME CoherenceInv, config' = config, MaxHwSharers >= NumNodes, NEW z \in Node, DirReceiveRep(z)
    PROVE  CoherenceInv'
<1> DEFINE m == Head(toDir[z])
           a == m.addr
           e == directory[a]
           qs == queue[a]
           c0 == Context(e, qs)
           c == Check(c0, ~Absent(a), "directory_entry")
<1>1. /\ completing = NoAddr /\ toDir[z] # <<>> /\ m.type \in {"INV_REP", "FLUSH_REP", "WB_REP"}
      /\ toDir' = [toDir EXCEPT ![z] = Tail(@)]
      /\ UNCHANGED cacheVars /\ fromDram' = fromDram /\ memory' = memory
  BY DEF DirReceiveRep, DirReceive, HomeReady
<1>2. m \in DirPackets /\ TakenFrom(a, z, {m.type})
  BY <1>1, Taken
<1>3. a \in Addr /\ m.type \in DirMsgType /\ (m.type \in {"FLUSH_REP", "WB_REP"} => m.buf \in Carried)
  BY <1>2 DEF DirPackets, Pkts, Carried
<1>4. PICK v : Commit(a, CASE m.type = "INV_REP" -> ProcessInvRep(c, z, v)
                           [] m.type = "FLUSH_REP" -> ProcessFlushRep(c, z, m.buf, v)
                           [] m.type = "WB_REP" -> ProcessWbRep(c, z, m.buf, v),
                      NoAddr, Context(NewEntry, <<>>))
  BY DEF DirReceiveRep
<1> HIDE DEF m
<1> HIDE DEF a
<1>5. /\ config \in Config /\ e \in Entry /\ qs \in Seq(Reqs) /\ RestOf(qs) \in Seq(FreshReq)
      /\ a \notin resident \cup replaced => e.sharers = {}
  BY <1>3, HomeFacts
<1>6. completing \in {NoAddr, a} /\ (completing = a) = FALSE
  BY <1>1, <1>3, HomeFacts
<1>7. /\ HomeInv(e, ModeOf(qs, FALSE), Head(qs), Protocol)
      /\ NodeInv(z, a, e, ModeOf(qs, FALSE), Head(qs), RestOf(qs), line[z][a], waiters[z][a],
                 draining[z] = a, toCache[z], toDir[z])
  BY <1>3, <1>6, HomeFacts
<1>8. Removed(toDir[z], toDir'[z], a, {m.type})
  BY <1>2 DEF TakenFrom
<1>9. Fresh(c0, e, qs, <<>>)
  BY <1>5, ContextFresh
<1>10. Replaces(NoAddr, Context(NewEntry, <<>>)) /\ NoAddr # a
  BY <1>3, NoReplacement
<1> HIDE DEF c0, e, qs
<1>11. z \in e.sharers => c = c0
  BY <1>5 DEF Check, Absent
<1>12. ASSUME NEW k, NEW T, Outcome(k, e, qs, FALSE, z, T), T = {m.type},
              Commit(a, k, NoAddr, Context(NewEntry, <<>>))
       PROVE  CoherenceInv'
  <2>1. Outcome(k, directory[a], queue[a], completing = a, z, T)
    BY <1>6, <1>12 DEF e, qs
  <2>2. TakenFrom(a, z, T)
    BY <1>2, <1>12
  <2> QED BY <1>1, <1>3, <1>6, <1>10, <1>12, <2>1, <2>2, OutcomeKeeps
<1>13. CASE m.type = "INV_REP"
  <2>1. GaveUpOK(z, e, ModeOf(qs, FALSE), Head(qs)) /\ e.dstate \in {"SHARED", "EXCLUSIVE"}
    BY <1>7, <1>8, <1>13, InvRepSender
  <2>2. c = c0
    BY <1>11, <2>1 DEF GaveUpOK
  <2>3. Outcome(ProcessInvRep(c, z, v), e, qs, FALSE, z, {"INV_REP"})
    BY <1>5, <1>7, <1>9, <2>1, <2>2, InvRepOutcome
  <2>4. Commit(a, ProcessInvRep(c, z, v), NoAddr, Context(NewEntry, <<>>))
    BY <1>4, <1>13
  <2> QED BY <1>12, <1>13, <2>3, <2>4
<1>14. CASE m.type = "FLUSH_REP"
  <2>1. FlushOK(z, e, ModeOf(qs, FALSE), Head(qs)) /\ GaveUpOK(z, e, ModeOf(qs, FALSE), Head(qs))
    BY <1>7, <1>8, <1>14, FlushRepSender DEF FlushOK
  <2>2. c = c0
    BY <1>11, <2>1 DEF GaveUpOK
  <2>3. Outcome(ProcessFlushRep(c, z, m.buf, v), e, qs, FALSE, z, {"FLUSH_REP"})
    BY <1>3, <1>5, <1>7, <1>9, <1>14, <2>1, <2>2, FlushRepOutcome
  <2>4. Commit(a, ProcessFlushRep(c, z, m.buf, v), NoAddr, Context(NewEntry, <<>>))
    BY <1>4, <1>14
  <2> QED BY <1>12, <1>14, <2>3, <2>4
<1>15. CASE m.type = "WB_REP"
  <2>1. AwaitsWb(z, e, ModeOf(qs, FALSE), Head(qs))
    BY <1>7, <1>8, <1>15, WbRepSender
  <2>2. c = c0
    BY <1>11, <2>1 DEF AwaitsWb
  <2>3. Outcome(ProcessWbRep(c, z, m.buf, v), e, qs, FALSE, z, {"WB_REP"})
    BY <1>3, <1>5, <1>7, <1>9, <1>15, <2>1, <2>2, WbRepOutcome
  <2>4. Commit(a, ProcessWbRep(c, z, m.buf, v), NoAddr, Context(NewEntry, <<>>))
    BY <1>4, <1>15
  <2> QED BY <1>12, <1>15, <2>3, <2>4
<1> QED BY <1>1, <1>13, <1>14, <1>15

\* The answer of the DRAM controller.
LEMMA ReplyTaken ==
    ASSUME NEW a, NEW m, NEW q, NEW td, NEW fd \in Seq(ReplyPackets), fd # <<>>, Head(fd).addr = a,
           DramInv(a, m, q, td, fd)
    PROVE  /\ m = "active" /\ q.wait
           /\ \A m1, q1 : DramInv(a, m1, q1, td, Tail(fd))
<1>1. Removed(fd, Tail(fd), a, TypeAt(Head(fd), a))
  BY TailStep
<1>2. Head(fd).type = "DRAM_READ_REP"
  BY DEF ReplyPackets, Pkts
<1>3. TypeAt(Head(fd), a) = {"DRAM_READ_REP"}
  BY <1>2 DEF TypeAt
<1>4. Removed(fd, Tail(fd), a, {"DRAM_READ_REP"})
  BY <1>1, <1>3
<1> DEFINE f == Tail(fd)
<1> HIDE DEF f
<1>5. Removed(fd, f, a, {"DRAM_READ_REP"})
  BY <1>4 DEF f
<1>6. Has(fd, a, "DRAM_READ_REP")
  BY <1>5 DEF Removed
<1>7. ~Has(td, a, "DRAM_READ_REQ") /\ ~After(td, a, "DRAM_READ_REQ", "DRAM_READ_REQ")
  BY <1>6 DEF DramInv
<1>8. ~After(fd, a, "DRAM_READ_REP", "DRAM_READ_REP")
  BY DEF DramInv
<1>9. ~Has(f, a, "DRAM_READ_REP")
  BY <1>5, <1>8 DEF Removed
<1>10. ~After(f, a, "DRAM_READ_REP", "DRAM_READ_REP")
  BY <1>9, ChannelOrder
<1> QED BY <1>6, <1>7, <1>9, <1>10 DEF DramInv, f

\* The reply of DRAM for one line does not matter to the others.
LEMMA OtherReplyTaken ==
    ASSUME NEW x, NEW m, NEW q, NEW td, NEW fd \in Seq(ReplyPackets), fd # <<>>,
           Head(fd).addr # x, DramInv(x, m, q, td, fd)
    PROVE  DramInv(x, m, q, td, Tail(fd))
<1> DEFINE f == Tail(fd)
<1>1. Removed(fd, f, x, TypeAt(Head(fd), x))
  BY TailStep
<1>2. TypeAt(Head(fd), x) = {}
  BY DEF TypeAt
<1> HIDE DEF f
<1>3. Removed(fd, f, x, {})
  BY <1>1, <1>2
<1>4. DramInv(x, m, q, td, f)
  BY <1>3 DEF DramInv, Removed
<1> QED BY <1>4 DEF f

\* processDRAMReply keeps the invariant.
LEMMA DirReceiveDramKeeps ==
    ASSUME CoherenceInv, config' = config, DirReceiveDram
    PROVE  CoherenceInv'
<1> DEFINE m == Head(fromDram)
           a == m.addr
           e == directory[a]
           qs == queue[a]
           c0 == Context(e, qs)
           c == ProcessDRAMReply(c0, m.buf)
<1>1. /\ completing = NoAddr /\ fromDram # <<>> /\ fromDram' = Tail(fromDram) /\ toDir' = toDir
      /\ UNCHANGED cacheVars /\ memory' = memory
      /\ Commit(a, c, NoAddr, Context(NewEntry, <<>>))
  BY DEF DirReceiveDram, HomeReady
<1>2. fromDram \in Seq(ReplyPackets) /\ toDram \in Seq(DramPackets)
  BY DEF CoherenceInv, Types
<1>3. m \in ReplyPackets /\ Tail(fromDram) \in Seq(ReplyPackets)
  BY <1>1, <1>2
<1>4. a \in Addr /\ m.buf \in Carried
  BY <1>3 DEF ReplyPackets, Pkts, Carried
<1>5. /\ config \in Config /\ e \in Entry /\ qs \in Seq(Reqs) /\ RestOf(qs) \in Seq(FreshReq)
  BY <1>4, HomeFacts
<1>6. completing \in {NoAddr, a} /\ (completing = a) = FALSE
  BY <1>1, <1>4, HomeFacts
<1>7. /\ HomeInv(e, ModeOf(qs, FALSE), Head(qs), Protocol)
      /\ DramInv(a, ModeOf(qs, FALSE), Head(qs), toDram, fromDram)
  BY <1>4, <1>6, HomeFacts
<1>8. /\ ModeOf(qs, FALSE) = "active" /\ Head(qs).wait
      /\ \A m1, q1 : DramInv(a, m1, q1, toDram, Tail(fromDram))
  BY <1>1, <1>2, <1>7, ReplyTaken
<1>9. Fresh(c0, e, qs, <<>>)
  BY <1>5, ContextFresh
<1>10. Replaces(NoAddr, Context(NewEntry, <<>>)) /\ NoAddr # a
  BY <1>4, NoReplacement
<1>11. \A x, m0, q0 : x # a /\ DramInv(x, m0, q0, toDram, fromDram)
                        => DramInv(x, m0, q0, toDram, Tail(fromDram))
  BY <1>1, <1>2, OtherReplyTaken
<1> HIDE DEF c0, m
<1>12. \A z : Settled(c, e, qs, FALSE, z, {}) /\ c.dram = <<>>
  BY <1>4, <1>5, <1>7, <1>8, <1>9, DramReplySettled
<1> HIDE DEF c, a
<1>13. toDram' = toDram
  <2>1. toDram' = toDram \o PacketsOf(a, c.dram)
    BY <1>1 DEF Commit
  <2> QED BY <1>2, <1>12, <2>1, NoPackets
<1>14. Settled(c, directory[a], queue[a], completing = a, a, {})
  BY <1>6, <1>12
<1>15. TakenFrom(a, a, {})
  BY <1>1, NoneTaken
<1>16. /\ toDram' \in Seq(DramPackets) /\ fromDram' \in Seq(ReplyPackets)
       /\ DramInv(a, ModeOf(c.queue, c.done), Head(c.queue), toDram', fromDram')
       /\ \A x, m0, q0 : x # a /\ DramInv(x, m0, q0, toDram, fromDram)
                           => DramInv(x, m0, q0, toDram', fromDram')
  BY <1>1, <1>2, <1>3, <1>8, <1>11, <1>13
<1> HIDE DEF e, qs
<1> QED BY <1>1, <1>4, <1>6, <1>10, <1>14, <1>15, <1>16, CommitKeeps

\* A set with an entry for every line has one left for a line that has none.
LEMMA EntryLeft ==
    ASSUME CoherenceInv, Fits, NEW a \in Addr, Absent(a)
    PROVE  ~(Cardinality(resident) >= DirEntries)
<1>1. resident \subseteq Addr /\ a \notin resident /\ config \in Config
  BY DEF CoherenceInv, Types, Absent
<1>2. IsFiniteSet(Addr) /\ Cardinality(Addr) \in Nat
  BY FS_CardinalityType DEF Fits
<1>3. IsFiniteSet(resident) /\ Cardinality(resident) \in Nat /\ Cardinality(resident) <= Cardinality(Addr)
  BY <1>1, <1>2, FS_Subset, FS_CardinalityType
<1>4. Cardinality(resident) # Cardinality(Addr)
  BY <1>1, <1>2, FS_Subset
<1>5. DirEntries \in Nat /\ Cardinality(Addr) <= DirEntries
  BY <1>1, ConstantsAssumption DEF Fits, DirEntries
<1> QED BY <1>2, <1>3, <1>4, <1>5

\* The request at the head of q is processed.
LEMMA StartKeeps ==
    ASSUME CoherenceInv, config' = config, MaxHwSharers >= NumNodes,
           UNCHANGED cacheVars, memory' = memory, fromDram' = fromDram,
           NEW a \in Addr, NEW q \in Seq(Reqs), q # <<>>, Head(q) \in FreshReq,
           RestOf(q) \in Seq(FreshReq), completing \in {NoAddr, a},
           ModeOf(queue[a], completing = a) # "active", NEW z, NEW T,
           \A n \in Node : Takes(n, directory[a], ModeOf(queue[a], completing = a), Head(queue[a]),
                                 RestOf(queue[a]), directory[a], "ready", Head(q), RestOf(q),
                                 IF n = z THEN T ELSE {}),
           TakenFrom(a, z, T), StartReq(a, q)
    PROVE  CoherenceInv'
<1> DEFINE e == directory[a]
           qs == queue[a]
           done == completing = a
           x == Head(q).requester
<1>1. /\ config \in Config /\ e \in Entry /\ qs \in Seq(Reqs) /\ NoAddr # a
      /\ HomeInv(e, ModeOf(qs, done), Head(qs), Protocol)
  BY HomeFacts
<1>2. /\ x \in Node /\ Head(q).type \in ReqType /\ ~Head(q).wait /\ Head(q).from = INVALID_CORE_ID
      /\ Head(q).type # "NULLIFY_REQ"
  BY DEF FreshReq, Reqs
<1>3. HomeInv(e, "ready", Head(q), Protocol)
  BY <1>1, <1>2 DEF HomeInv
<1>4. ReqOK(e, Head(q))
  <2>1. NodeInv(x, a, e, ModeOf(qs, done), Head(qs), RestOf(qs), line[x][a], waiters[x][a],
                draining[x] = a, toCache[x], toDir[x])
    BY <1>2, HomeFacts
  <2>2. Removed(toDir[x], toDir'[x], a, IF x = z THEN T ELSE {})
    BY <1>2 DEF TakenFrom
  <2>3. Takes(x, e, ModeOf(qs, done), Head(qs), RestOf(qs), e, "ready", Head(q), RestOf(q),
              IF x = z THEN T ELSE {})
    BY <1>2
  <2>4. NodeInv(x, a, e, "ready", Head(q), RestOf(q), line[x][a], waiters[x][a],
                draining[x] = a, toCache[x], toDir'[x])
    BY <2>1, <2>2, <2>3 DEF Takes
  <2> QED BY <1>2, <2>4, ReadyReqOK
<1>5. PICK v, b : /\ b \in Replacements(a)
                  /\ LET cb == NullifyContext(b, x)
                         c == ProcessReq(Context(e, q), v)
                         none == /\ Absent(a)
                                 /\ Cardinality(resident) >= DirEntries
                                 /\ b = NoAddr
                     IN  Commit(a, Check(c, ~none, "no directory entry to replace"), b, cb)
  BY DEF StartReq
<1> DEFINE cb == NullifyContext(b, x)
           c == ProcessReq(Context(e, q), v)
           holds == ~(/\ Absent(a)
                      /\ Cardinality(resident) >= DirEntries
                      /\ b = NoAddr)
           c1 == Check(c, holds, "no directory entry to replace")
<1>6. Commit(a, c1, b, cb)
  BY <1>5
<1>7. b # a /\ Replaces(b, cb)
  <2>1. CASE b = NoAddr
    BY <1>1, <2>1 DEF Replaces, NullifyContext
  <2>2. CASE b # NoAddr
    <3>1. b \in Idle /\ Absent(a)
      BY <1>5, <2>2 DEF Replacements, Candidates
    <3>2. b \in resident /\ queue[b] = <<>> /\ b # a
      BY <3>1 DEF Idle, Absent
    <3>3. b \in Addr
      BY <3>2 DEF CoherenceInv, Types
    <3>4. /\ directory[b] \in Entry
          /\ HomeInv(directory[b], ModeOf(queue[b], completing = b), Head(queue[b]), Protocol)
      BY <3>3, HomeFacts
    <3>5. HomeInv(directory[b], "idle", Head(queue[b]), Protocol)
      BY <3>2, <3>4 DEF ModeOf
    <3>6. Nullified(ProcessNullifyReq(Context(directory[b], <<NewReq("NULLIFY_REQ", x)>>)),
                    directory[b], queue[b])
      BY <1>1, <1>2, <3>2, <3>4, <3>5, NullifyOutcome
    <3>7. cb = ProcessNullifyReq(Context(directory[b], <<NewReq("NULLIFY_REQ", x)>>))
      BY <2>2 DEF NullifyContext
    <3> QED BY <3>1, <3>2, <3>3, <3>6, <3>7 DEF Replaces
  <2> QED BY <2>1, <2>2
<1>8. Fresh(Context(e, q), e, q, <<>>)
  BY <1>1, ContextFresh
<1> DEFINE c0 == Context(e, q)
<1> HIDE DEF c0
<1>9. Handled(c, e, q, <<>>)
  <2>1. Fresh(c0, e, q, <<>>)
    BY <1>8 DEF c0
  <2>2. Handled(ProcessReq(c0, v), e, q, <<>>)
    BY <1>1, <1>2, <1>3, <1>4, <2>1, ReqHandled
  <2> QED BY <2>2 DEF c0
<1> HIDE DEF c, holds, cb, e, qs, done
<1>10. Outcome(c, e, qs, done, z, T)
  <2>1. <<>> \in Writes
    BY DEF Writes
  <2>2. ~(ModeOf(qs, done) = "active" /\ Head(qs).wait)
    BY DEF qs, done
  <2>3. \A n \in Node : Takes(n, e, ModeOf(qs, done), Head(qs), RestOf(qs),
                              e, "ready", Head(q), RestOf(q), IF n = z THEN T ELSE {})
    BY DEF e, qs, done
  <2> QED BY <1>9, <2>1, <2>2, <2>3, HandledOutcome
<1>11. Outcome(c1, e, qs, done, z, T)
  <2>1. holds \/ "no directory entry to replace" \in Tolerated
    <3>1. CASE Fits
      BY <3>1, EntryLeft DEF holds
    <3>2. CASE ~Fits
      BY <3>2 DEF Tolerated
    <3> QED BY <3>1, <3>2
  <2> QED BY <1>10, <2>1, CheckOutcome
<1> HIDE DEF c1
<1>12. Outcome(c1, directory[a], queue[a], completing = a, z, T)
  BY <1>11 DEF e, qs, done
<1> QED BY <1>6, <1>7, <1>12, OutcomeKeeps

\* The queue of a line changes, and nothing else at the home.
LEMMA QueueKeeps ==
    ASSUME CoherenceInv, config' = config, UNCHANGED cacheVars,
           UNCHANGED <<directory, resident, replaced, toCache, toDram, fromDram, memory, failed>>,
           NEW a \in Addr, completing \in {NoAddr, a}, completing' = NoAddr,
           NEW qs \in Seq(Reqs), RestOf(qs) \in Seq(FreshReq),
           queue' = [queue EXCEPT ![a] = qs], NEW z, NEW T, TakenFrom(a, z, T),
           HomeInv(directory[a], ModeOf(qs, FALSE), Head(qs), Protocol),
           DramInv(a, ModeOf(qs, FALSE), Head(qs), toDram, fromDram),
           \A n \in Node : NodeAt(n, a, directory[a], qs, FALSE, line[n][a], waiters[n][a],
                                  draining[n] = a, toCache[n], toDir'[n])
    PROVE  CoherenceInv'
<1>1. Types /\ NoAddr \notin Addr
  BY HomeFacts DEF CoherenceInv
<1>2. queue'[a] = qs /\ (\A x \in Addr : x # a => queue'[x] = queue[x])
  BY <1>1 DEF Types
<1>3. /\ (completing' = a) = FALSE
      /\ \A x \in Addr : x # a => (completing' = x) = FALSE /\ (completing = x) = FALSE
  BY <1>1
<1>4. Types'
  <2>1. queue' \in [Addr -> Seq(Reqs)]
    BY <1>1 DEF Types
  <2>2. \A x \in Addr : queue'[x] # <<>> => Tail(queue'[x]) \in Seq(FreshReq)
    BY <1>1, <1>2 DEF Types, RestOf
  <2>3. toDir' \in [Node -> Seq(DirPackets)]
    BY DEF TakenFrom
  <2> QED BY <1>1, <2>1, <2>2, <2>3, ConfigKept DEF Types, cacheVars
<1>5. HomeOK'
  <2>1. SUFFICES ASSUME NEW x \in Addr
                 PROVE  /\ HomeInv(directory[x], ModeOf(queue'[x], completing' = x), Head(queue'[x]), Protocol)
                        /\ x \notin resident \cup replaced => directory[x].sharers = {}
                        /\ DramInv(x, ModeOf(queue'[x], completing' = x), Head(queue'[x]), toDram, fromDram)
    BY <2>1, ConfigKept DEF HomeOK, Absent
  <2>2. CASE x = a
    BY <1>2, <1>3, <2>2, HomeFacts
  <2>3. CASE x # a
    BY <1>2, <1>3, <2>3, HomeFacts
  <2> QED BY <2>2, <2>3
<1>6. NodesOK'
  <2>1. SUFFICES ASSUME NEW x \in Addr, NEW n \in Node
                 PROVE  NodeAt(n, x, directory[x], queue'[x], completing' = x, line[n][x],
                               waiters[n][x], draining[n] = x, toCache[n], toDir'[n])
    BY <2>1, NodesPrimed DEF cacheVars
  <2>2. CASE x = a
    <3>1. NodeAt(n, a, directory[a], qs, FALSE, line[n][a], waiters[n][a],
                 draining[n] = a, toCache[n], toDir'[n])
      OBVIOUS
    <3> QED BY <3>1, <1>2, <1>3, <2>2
  <2>3. CASE x # a
    <3>1. NodeAt(n, x, directory[x], queue[x], completing = x, line[n][x],
                 waiters[n][x], draining[n] = x, toCache[n], toDir[n])
      BY DEF CoherenceInv, NodesOK, NodeAt
    <3>2. Removed(toDir[n], toDir'[n], x, {})
      BY <2>3 DEF TakenFrom
    <3>3. NodeAt(n, x, directory[x], queue[x], completing = x, line[n][x],
                 waiters[n][x], draining[n] = x, toCache[n], toDir'[n])
      BY <3>1, <3>2, AppendedSame, NodeOther
    <3>4. queue'[x] = queue[x] /\ (completing' = x) = (completing = x)
      BY <1>2, <1>3, <2>3
    <3> QED BY <3>3, <3>4
  <2> QED BY <2>2, <2>3
<1> QED BY <1>4, <1>5, <1>6 DEF CoherenceInv

\* The queue with one more request at its end has the same current request.
LEMMA QueueAppend ==
    ASSUME NEW S, NEW qs \in Seq(S), NEW x \in S, qs # <<>>
    PROVE  /\ Append(qs, x) \in Seq(S) /\ Append(qs, x) # <<>>
           /\ Head(Append(qs, x)) = Head(qs) /\ Tail(Append(qs, x)) = Append(Tail(qs), x)
OBVIOUS

\* The home's part of the invariant without what depends on the protocol.
LEMMA AnyProtocol ==
    ASSUME NEW e, NEW m, NEW q, NEW p, HomeInv(e, m, q, p)
    PROVE  HomeInv(e, m, q, "any")
BY DEF HomeInv, EntryOK

\* A request that arrives at the directory, to be queued or processed at once, keeps the
\* invariant.
LEMMA DirReceiveReqKeeps ==
    ASSUME CoherenceInv, config' = config, MaxHwSharers >= NumNodes, NEW z \in Node, DirReceiveReq(z)
    PROVE  CoherenceInv'
<1> DEFINE m == Head(toDir[z])
           a == m.addr
           t == m.type
           e == directory[a]
           qs == queue[a]
           nr == NewReq(t, z)
           q == Append(qs, nr)
<1>1. /\ completing = NoAddr /\ toDir[z] # <<>> /\ t \in ReqType
      /\ toDir' = [toDir EXCEPT ![z] = Tail(@)]
      /\ UNCHANGED cacheVars /\ fromDram' = fromDram /\ memory' = memory
      /\ IF Len(q) = 1
         THEN StartReq(a, q)
         ELSE /\ queue' = [queue EXCEPT ![a] = q]
              /\ UNCHANGED <<directory, resident, replaced, completing, toCache, toDram, failed>>
  BY DEF DirReceiveReq, DirReceive, HomeReady
<1>2. m \in DirPackets /\ TakenFrom(a, z, {t})
  BY <1>1, Taken
<1>3. a \in Addr
  BY <1>2 DEF DirPackets, Pkts
<1> HIDE DEF m, a, t
<1>4. nr \in FreshReq /\ nr.type = t /\ nr.requester = z /\ ~nr.wait /\ nr.from = INVALID_CORE_ID
  BY <1>1 DEF NewReq, FreshReq, Reqs, ReqType, Bufs
<1>5. nr \in Reqs
  BY <1>4 DEF FreshReq
<1>6. /\ config \in Config /\ e \in Entry /\ qs \in Seq(Reqs) /\ RestOf(qs) \in Seq(FreshReq)
      /\ NoAddr \notin Addr
  BY <1>3, HomeFacts
<1>7. completing \in {NoAddr, a} /\ (completing = a) = FALSE
  BY <1>1, <1>3, <1>6
<1>8. /\ HomeInv(e, ModeOf(qs, FALSE), Head(qs), Protocol)
      /\ DramInv(a, ModeOf(qs, FALSE), Head(qs), toDram, fromDram)
      /\ \A n \in Node : NodeInv(n, a, e, ModeOf(qs, FALSE), Head(qs), RestOf(qs), line[n][a],
                                 waiters[n][a], draining[n] = a, toCache[n], toDir[n])
  BY <1>3, <1>7, HomeFacts
<1>9. HomeInv(e, ModeOf(qs, FALSE), Head(qs), "any")
  BY <1>8, AnyProtocol
<1> HIDE DEF nr
<1>10. CASE qs = <<>>
  <2>1. q = <<nr>>
    BY <1>10
  <2>2. q \in Seq(Reqs) /\ q # <<>> /\ Len(q) = 1 /\ Head(q) = nr /\ Tail(q) = <<>>
    BY <1>5, <2>1
  <2>3. StartReq(a, q)
    BY <1>1, <2>2
  <2>4. RestOf(q) = <<>> /\ ModeOf(qs, FALSE) = "idle" /\ RestOf(qs) = <<>>
    BY <1>10, <2>2 DEF RestOf, ModeOf
  <2>5. RestOf(q) \in Seq(FreshReq)
    BY <1>6, <2>4
  <2> HIDE DEF q, e, qs
  <2>6. \A n \in Node : Takes(n, e, ModeOf(qs, FALSE), Head(qs), RestOf(qs), e, "ready", Head(q),
                              RestOf(q), IF n = z THEN {t} ELSE {})
    <3>1. HomeInv(e, "idle", Head(qs), "any")
      BY <1>9, <2>4
    <3>2. \A n \in Node : Takes(n, e, "idle", Head(qs), <<>>, e, "ready", nr, <<>>,
                                IF n = z THEN {t} ELSE {})
      BY <1>1, <1>4, <3>1, StartTakes
    <3> QED BY <2>2, <2>4, <3>2
  <2>7. \A n \in Node : Takes(n, directory[a], ModeOf(queue[a], completing = a), Head(queue[a]),
                              RestOf(queue[a]), directory[a], "ready", Head(q), RestOf(q),
                              IF n = z THEN {t} ELSE {})
    BY <1>7, <2>6 DEF e, qs
  <2>8. ModeOf(queue[a], completing = a) # "active"
    BY <1>7, <2>4 DEF qs
  <2>9. Head(q) \in FreshReq
    BY <1>4, <2>2
  <2> DEFINE T == {t}
  <2> HIDE DEF T
  <2>10. /\ TakenFrom(a, z, T)
         /\ \A n \in Node : Takes(n, directory[a], ModeOf(queue[a], completing = a), Head(queue[a]),
                              RestOf(queue[a]), directory[a], "ready", Head(q), RestOf(q),
                              IF n = z THEN T ELSE {})
    BY <1>2, <2>7 DEF T
  <2> QED BY <1>1, <1>3, <1>7, <2>2, <2>3, <2>5, <2>8, <2>9, <2>10, StartKeeps
<1>11. CASE qs # <<>>
  <2>1. /\ q \in Seq(Reqs) /\ q # <<>> /\ Head(q) = Head(qs) /\ Tail(q) = Append(Tail(qs), nr)
    BY <1>5, <1>6, <1>11, QueueAppend
  <2>2. Len(q) # 1
    BY <1>5, <1>6, <1>11
  <2>3. /\ queue' = [queue EXCEPT ![a] = q]
        /\ UNCHANGED <<directory, resident, replaced, completing, toCache, toDram, failed>>
    BY <1>1, <2>2
  <2>4. RestOf(q) = Append(RestOf(qs), nr) /\ ModeOf(q, FALSE) = "active" /\ ModeOf(qs, FALSE) = "active"
    BY <1>11, <2>1 DEF RestOf, ModeOf
  <2>5. RestOf(q) \in Seq(FreshReq)
    BY <1>4, <1>6, <2>4
  <2> HIDE DEF q, e, qs
  <2>6. \A n : QAppended(RestOf(qs), RestOf(q), n, nr)
    BY <1>4, <1>6, <2>4, QAppendStep
  <2>7. ASSUME NEW n \in Node
        PROVE  NodeInv(n, a, e, "active", Head(qs), RestOf(q), line[n][a], waiters[n][a],
                       draining[n] = a, toCache[n], toDir'[n])
    <3>1. NodeInv(n, a, e, "active", Head(qs), RestOf(qs), line[n][a],
                  waiters[n][a], draining[n] = a, toCache[n], toDir[n])
      BY <1>8, <2>4
    <3>2. HomeInv(e, "active", Head(qs), "any")
      BY <1>9, <2>4
    <3>3. Removed(toDir[n], toDir'[n], a, IF n = z THEN {t} ELSE {})
      BY <1>2 DEF TakenFrom
    <3>4. n = z => Has(toDir[n], a, t)
      BY <3>3 DEF Removed
    <3>5. t \in {"SH_REQ", "EX_REQ", "UPGRADE_REQ"}
      BY <1>1 DEF ReqType
    <3> QED BY <1>4, <2>6, <3>1, <3>2, <3>3, <3>4, <3>5, EnqueueStep
  <2>8. \A n \in Node : NodeAt(n, a, directory[a], q, FALSE, line[n][a], waiters[n][a],
                               draining[n] = a, toCache[n], toDir'[n])
    BY <2>1, <2>4, <2>7 DEF NodeAt, e
  <2>9. /\ HomeInv(directory[a], ModeOf(q, FALSE), Head(q), Protocol)
        /\ DramInv(a, ModeOf(q, FALSE), Head(q), toDram, fromDram)
    BY <1>8, <2>1, <2>4 DEF e
  <2>10. completing' = NoAddr
    BY <1>1, <2>3
  <2> DEFINE T == {t}
  <2> HIDE DEF T
  <2>11. TakenFrom(a, z, T)
    BY <1>2 DEF T
  <2> QED BY <1>1, <1>3, <1>7, <2>1, <2>3, <2>5, <2>8, <2>9, <2>10, <2>11, QueueKeeps
<1> QED BY <1>10, <1>11

\* processNextReqFromL2Cache keeps the invariant.
LEMMA DirProcessNextKeeps ==
    ASSUME CoherenceInv, config' = config, MaxHwSharers >= NumNodes, DirProcessNext
    PROVE  CoherenceInv'
<1> DEFINE a == completing
           e == directory[a]
           qs == queue[a]
           q == Tail(qs)
<1>1. /\ a # NoAddr /\ UNCHANGED cacheVars /\ toDir' = toDir /\ fromDram' = fromDram /\ memory' = memory
      /\ IF q = <<>>
         THEN /\ queue' = [queue EXCEPT ![a] = <<>>]
              /\ completing' = NoAddr
              /\ UNCHANGED <<directory, resident, replaced, toCache, toDram, failed>>
         ELSE StartReq(a, q)
  BY DEF DirProcessNext
<1>2. a \in Addr /\ qs # <<>>
  BY <1>1 DEF CoherenceInv, Types
<1>3. /\ config \in Config /\ e \in Entry /\ qs \in Seq(Reqs) /\ RestOf(qs) \in Seq(FreshReq)
  BY <1>2, HomeFacts
<1>4. ModeOf(qs, TRUE) = "done" /\ RestOf(qs) = q /\ (completing = a) = TRUE
  BY <1>2 DEF ModeOf, RestOf
<1>5. /\ HomeInv(e, "done", Head(qs), Protocol)
      /\ DramInv(a, "done", Head(qs), toDram, fromDram)
      /\ \A n \in Node : NodeInv(n, a, e, "done", Head(qs), q, line[n][a],
                                 waiters[n][a], draining[n] = a, toCache[n], toDir[n])
  <2> DEFINE done == completing = a
  <2>1. done = TRUE
    OBVIOUS
  <2> HIDE DEF done, q
  <2>2. /\ HomeInv(e, ModeOf(qs, done), Head(qs), Protocol)
        /\ DramInv(a, ModeOf(qs, done), Head(qs), toDram, fromDram)
        /\ \A n \in Node : NodeInv(n, a, e, ModeOf(qs, done), Head(qs), RestOf(qs), line[n][a],
                                   waiters[n][a], draining[n] = a, toCache[n], toDir[n])
    BY <1>2, HomeFacts DEF done
  <2> QED BY <1>4, <2>1, <2>2
<1>6. HomeInv(e, "done", Head(qs), "any")
  BY <1>5, AnyProtocol
<1>7. q \in Seq(FreshReq)
  BY <1>3, <1>4
<1> DEFINE T == {}
<1>8. TakenFrom(a, a, T)
  BY <1>1, NoneTaken
<1>9. CASE q = <<>>
  <2> DEFINE q0 == <<>>
  <2>1. /\ q0 \in Seq(Reqs) /\ RestOf(q0) \in Seq(FreshReq)
    BY DEF RestOf
  <2>2. ModeOf(q0, FALSE) = "idle" /\ RestOf(q0) = q
    BY <1>9 DEF ModeOf, RestOf
  <2>3. HomeInv(e, "idle", Head(q0), Protocol)
    BY <1>5 DEF HomeInv
  <2>4. DramInv(a, "idle", Head(q0), toDram, fromDram)
    BY <1>5, DramIdle
  <2>5. ASSUME NEW n \in Node
        PROVE  NodeInv(n, a, e, "idle", Head(q0), q, line[n][a], waiters[n][a], draining[n] = a,
                       toCache[n], toDir'[n])
    <3>1. ~QAny(q, n)
      BY <1>9, EmptyQueue
    <3> HIDE DEF q0, q, e, qs
    <3> QED BY <1>1, <1>5, <1>6, <3>1, RestStep
  <2>6. queue' = [queue EXCEPT ![a] = q0] /\ completing' = NoAddr
        /\ UNCHANGED <<directory, resident, replaced, toCache, toDram, failed>>
    BY <1>1, <1>9
  <2> HIDE DEF q0
  <2>7. \A n \in Node : NodeAt(n, a, directory[a], q0, FALSE, line[n][a], waiters[n][a],
                               draining[n] = a, toCache[n], toDir'[n])
    BY <2>2, <2>5 DEF NodeAt
  <2>8. /\ HomeInv(directory[a], ModeOf(q0, FALSE), Head(q0), Protocol)
        /\ DramInv(a, ModeOf(q0, FALSE), Head(q0), toDram, fromDram)
    BY <2>2, <2>3, <2>4
  <2>9. completing \in {NoAddr, a}
    OBVIOUS
  <2>10. UNCHANGED <<directory, resident, replaced, toCache, toDram, fromDram, memory, failed>>
    BY <1>1, <2>6
  <2> HIDE DEF a, T
  <2> QED BY <1>1, <1>2, <1>8, <2>1, <2>6, <2>7, <2>8, <2>9, <2>10, QueueKeeps
<1>10. CASE q # <<>>
  <2>1. Head(q) \in FreshReq /\ Tail(q) \in Seq(FreshReq)
    BY <1>7, <1>10
  <2>2. RestOf(q) = Tail(q)
    BY <1>10 DEF RestOf
  <2>3. q \in Seq(Reqs)
    BY <1>2, <1>3
  <2>4. StartReq(a, q)
    BY <1>1, <1>10
  <2>5. \A n \in Node : Takes(n, e, "done", Head(qs), q, e, "ready", Head(q), Tail(q),
                              IF n = a THEN T ELSE {})
    <3>1. \A n : (IF n = a THEN T ELSE {}) = {}
      OBVIOUS
    <3> HIDE DEF T, q, e, qs
    <3> QED BY <1>6, <1>7, <1>10, <3>1, NextTakes
  <2>6. ModeOf(queue[a], completing = a) = "done" /\ RestOf(queue[a]) = q
    BY <1>4
  <2> HIDE DEF T, q
  <2>7. \A n \in Node : Takes(n, directory[a], ModeOf(queue[a], completing = a), Head(queue[a]),
                              RestOf(queue[a]), directory[a], "ready", Head(q), RestOf(q),
                              IF n = a THEN T ELSE {})
    BY <2>2, <2>5, <2>6
  <2>8. completing \in {NoAddr, a} /\ ModeOf(queue[a], completing = a) # "active"
        /\ RestOf(q) \in Seq(FreshReq)
    BY <2>1, <2>2, <2>6
  <2> HIDE DEF a
  <2> QED BY <1>1, <1>2, <1>8, <1>10, <2>1, <2>3, <2>4, <2>7, <2>8, StartKeeps
<1> QED BY <1>9, <1>10

\* The DRAM controller.
LEMMA ReadTaken ==
    ASSUME NEW x, NEW m, NEW q, NEW td, NEW td1, NEW fd, NEW fd1, DramInv(x, m, q, td, fd),
           Removed(td, td1, x, {"DRAM_READ_REQ"}), Appended(fd, fd1, x, {"DRAM_READ_REP"})
    PROVE  DramInv(x, m, q, td1, fd1)
BY ChannelOrder DEF DramInv, Removed, Appended

\* A read of one line does not matter to the others.
LEMMA OtherReadTaken ==
    ASSUME NEW x, NEW m, NEW q, NEW td, NEW td1, NEW fd, NEW fd1, DramInv(x, m, q, td, fd),
           Removed(td, td1, x, {}), Appended(fd, fd1, x, {})
    PROVE  DramInv(x, m, q, td1, fd1)
BY DEF DramInv, Removed, Appended

\* A write that reaches DRAM does not matter to the requests.
LEMMA WriteTaken ==
    ASSUME NEW x, NEW m, NEW q, NEW td, NEW td1, NEW fd, DramInv(x, m, q, td, fd), NEW T,
           Removed(td, td1, x, T), "DRAM_READ_REQ" \notin T
    PROVE  DramInv(x, m, q, td1, fd)
BY DEF DramInv, Removed

\* The DRAM controller keeps the invariant.
LEMMA DramAccessKeeps ==
    ASSUME CoherenceInv, config' = config, DramAccess
    PROVE  CoherenceInv'
<1> DEFINE m == Head(toDram)
           a == m.addr
           p == Packet("DRAM_READ_REP", a, memory[a])
<1>1. /\ toDram # <<>> /\ toDram' = Tail(toDram)
      /\ UNCHANGED <<directory, resident, replaced, queue, completing, line, waiters, draining, toDir,
                     toCache, failed>>
      /\ IF m.type = "DRAM_READ_REQ"
         THEN fromDram' = Append(fromDram, p) /\ memory' = memory
         ELSE memory' = [memory EXCEPT ![a] = m.buf] /\ fromDram' = fromDram
  BY DEF DramAccess, homeVars, cacheVars
<1>2. Types
  BY DEF CoherenceInv
<1>3. toDram \in Seq(DramPackets) /\ fromDram \in Seq(ReplyPackets)
  BY <1>2 DEF Types
<1>4. m \in DramPackets /\ toDram' \in Seq(DramPackets)
  BY <1>1, <1>3
<1>5. /\ a \in Addr /\ m.type \in {"DRAM_READ_REQ", "DRAM_WRITE_REQ"}
      /\ m.type = "DRAM_WRITE_REQ" => m.buf \in Carried
  BY <1>4 DEF DramPackets, Pkts, Carried
<1>6. memory[a] \in Carried
  BY <1>2, <1>5 DEF Types
<1>7. p \in ReplyPackets /\ p.addr = a /\ p.type = "DRAM_READ_REP"
  BY <1>5, <1>6 DEF ReplyPackets, Pkts, Packet, Carried
<1>8. \A x : Removed(toDram, toDram', x, TypeAt(m, x))
  BY <1>1, <1>3, TailStep
<1> HIDE DEF p, m
<1>9. \A x : TypeAt(m, x) = IF x = a THEN {m.type} ELSE {}
  BY DEF TypeAt
<1>10. \A x : TypeAt(p, x) = IF x = a THEN {"DRAM_READ_REP"} ELSE {}
  BY <1>7 DEF TypeAt
<1> HIDE DEF a
<1>11. fromDram' \in Seq(ReplyPackets) /\ memory' \in [Addr -> Carried]
  <2>1. CASE m.type = "DRAM_READ_REQ"
    <3>1. fromDram' = Append(fromDram, p) /\ memory' = memory
      BY <1>1, <2>1
    <3>2. Append(fromDram, p) \in Seq(ReplyPackets)
      BY <1>3, <1>7
    <3>3. memory \in [Addr -> Carried]
      BY <1>2 DEF Types
    <3> QED BY <3>1, <3>2, <3>3
  <2>2. CASE m.type # "DRAM_READ_REQ"
    <3>1. m.buf \in Carried /\ memory' = [memory EXCEPT ![a] = m.buf] /\ fromDram' = fromDram
      BY <1>1, <1>5, <2>2
    <3>2. memory \in [Addr -> Carried]
      BY <1>2 DEF Types
    <3> QED BY <1>3, <3>1, <3>2
  <2> QED BY <2>1, <2>2
<1>12. Types'
  BY <1>1, <1>2, <1>4, <1>11, ConfigKept DEF Types
<1>13. ASSUME NEW x, NEW m0, NEW q0, DramInv(x, m0, q0, toDram, fromDram)
       PROVE  DramInv(x, m0, q0, toDram', fromDram')
  <2>1. CASE m.type = "DRAM_READ_REQ"
    <3>1. Appended(fromDram, fromDram', x, TypeAt(p, x))
      <4>1. Appended(fromDram, Append(fromDram, p), x, TypeAt(p, x))
        BY <1>3, <1>7, AppendStep
      <4> QED BY <1>1, <2>1, <4>1
    <3>2. CASE x = a
      <4>1. /\ Removed(toDram, toDram', x, {"DRAM_READ_REQ"})
            /\ Appended(fromDram, fromDram', x, {"DRAM_READ_REP"})
        <5>1. TypeAt(m, x) = {"DRAM_READ_REQ"} /\ TypeAt(p, x) = {"DRAM_READ_REP"}
          BY <1>9, <1>10, <2>1, <3>2
        <5> QED BY <1>8, <3>1, <5>1
      <4> QED BY <1>13, <4>1, ReadTaken
    <3>3. CASE x # a
      <4>1. Removed(toDram, toDram', x, {}) /\ Appended(fromDram, fromDram', x, {})
        <5>1. TypeAt(m, x) = {} /\ TypeAt(p, x) = {}
          BY <1>9, <1>10, <3>3
        <5> QED BY <1>8, <3>1, <5>1
      <4> QED BY <1>13, <4>1, OtherReadTaken
    <3> QED BY <3>2, <3>3
  <2>2. CASE m.type = "DRAM_WRITE_REQ"
    <3>1. "DRAM_READ_REQ" \notin TypeAt(m, x)
      BY <1>9, <2>2
    <3>2. Removed(toDram, toDram', x, TypeAt(m, x)) /\ fromDram' = fromDram
      BY <1>1, <1>8, <2>2
    <3> DEFINE T == TypeAt(m, x)
    <3> HIDE DEF T
    <3>3. "DRAM_READ_REQ" \notin T /\ Removed(toDram, toDram', x, T)
      BY <3>1, <3>2 DEF T
    <3>4. DramInv(x, m0, q0, toDram', fromDram)
      BY <1>13, <3>3, WriteTaken
    <3> QED BY <3>2, <3>4
  <2> QED BY <1>5, <2>1, <2>2
<1>14. HomeOK'
  <2>1. SUFFICES ASSUME NEW x \in Addr
                 PROVE  /\ HomeInv(directory[x], ModeOf(queue[x], completing = x), Head(queue[x]), Protocol)
                        /\ x \notin resident \cup replaced => directory[x].sharers = {}
                        /\ DramInv(x, ModeOf(queue[x], completing = x), Head(queue[x]), toDram', fromDram')
    BY <1>1, <2>1, ConfigKept DEF HomeOK, Absent
  <2> QED BY <1>13, HomeFacts
<1>15. NodesOK'
  <2>1. NodesOK
    BY DEF CoherenceInv
  <2> QED BY <1>1, <2>1, ConfigKept DEF NodesOK
<1> QED BY <1>12, <1>14, <1>15 DEF CoherenceInv

-----------------------------------------------------------------------------
(* The actions of a cache.                                                  *)

\* The step changes the line, the waiters, the loop over the waiters and the channels of cache z
\* for line a only.
LineAt(z, a) ==
    /\ line' \in [Node -> [Addr -> Lines]]
    /\ \A n \in Node, x \in Addr : n # z \/ x # a => line'[n][x] = line[n][x]

WaitersAt(z, a) ==
    /\ waiters' \in [Node -> [Addr -> Seq(Waiter)]]
    /\ \A n \in Node, x \in Addr : n # z \/ x # a => waiters'[n][x] = waiters[n][x]

DrainAt(z, a) ==
    /\ draining' \in [Node -> Addr \cup {NoAddr}]
    /\ \A n \in Node, x \in Addr : n # z \/ x # a => (draining'[n] = x <=> draining[n] = x)

ToCacheAt(z, a) ==
    /\ toCache' \in [Node -> Seq(CachePackets)]
    /\ \A n \in Node : n # z => toCache'[n] = toCache[n]
    /\ \A x : x # a => Removed(toCache[z], toCache'[z], x, {})

ToDirAt(z, a) ==
    /\ toDir' \in [Node -> Seq(DirPackets)]
    /\ \A n \in Node : n # z => toDir'[n] = toDir[n]
    /\ \A x : x # a => Appended(toDir[z], toDir'[z], x, {})

CacheKeepsAt(z, a) ==
    LineAt(z, a) /\ WaitersAt(z, a) /\ DrainAt(z, a) /\ ToCacheAt(z, a) /\ ToDirAt(z, a)

\* A step of cache z about line a that keeps its part of the invariant keeps all of it.
LEMMA CacheKeeps ==
    ASSUME CoherenceInv, config' = config, UNCHANGED <<homeVars, toDram, fromDram, memory>>,
           failed' = failed, NEW z \in Node, NEW a \in Addr, CacheKeepsAt(z, a),
           NodeInv(z, a, directory[a], ModeOf(queue[a], completing = a), Head(queue[a]), RestOf(queue[a]),
                   line'[z][a], waiters'[z][a], draining'[z] = a, toCache'[z], toDir'[z])
    PROVE  CoherenceInv'
<1>1. /\ directory' = directory /\ resident' = resident /\ replaced' = replaced /\ queue' = queue
      /\ completing' = completing
  BY DEF homeVars
<1>2. Types
  BY DEF CoherenceInv
<1>3. Types'
  BY <1>1, <1>2, ConfigKept DEF Types, CacheKeepsAt, LineAt, WaitersAt, DrainAt, ToCacheAt, ToDirAt
<1>4. HomeOK'
  <2>1. HomeOK
    BY DEF CoherenceInv
  <2> QED BY <1>1, <2>1, ConfigKept DEF HomeOK, Absent
<1>5. NodesOK'
  <2>1. SUFFICES ASSUME NEW x \in Addr, NEW n \in Node
                 PROVE  NodeInv(n, x, directory[x], ModeOf(queue[x], completing = x), Head(queue[x]),
                                RestOf(queue[x]), line'[n][x], waiters'[n][x], draining'[n] = x,
                                toCache'[n], toDir'[n])
    BY <1>1, <2>1, NodesPrimed DEF NodeAt
  <2>2. CASE n = z /\ x = a
    BY <2>2
  <2>3. CASE n # z \/ x # a
    <3>1. NodeInv(n, x, directory[x], ModeOf(queue[x], completing = x), Head(queue[x]),
                  RestOf(queue[x]), line[n][x], waiters[n][x], draining[n] = x, toCache[n], toDir[n])
      BY HomeFacts
    <3>2. /\ line'[n][x] = line[n][x] /\ waiters'[n][x] = waiters[n][x]
          /\ (draining'[n] = x) = (draining[n] = x)
      BY <2>3 DEF CacheKeepsAt, LineAt, WaitersAt, DrainAt
    <3>3. Removed(toCache[n], toCache'[n], x, {}) /\ Appended(toDir[n], toDir'[n], x, {})
      <4>1. CASE n # z
        <5>1. toCache'[n] = toCache[n] /\ toDir'[n] = toDir[n]
          BY <4>1 DEF CacheKeepsAt, ToCacheAt, ToDirAt
        <5> QED BY <5>1, RemovedSame, AppendedSame
      <4>2. CASE n = z
        BY <2>3, <4>2 DEF CacheKeepsAt, ToCacheAt, ToDirAt
      <4> QED BY <4>1, <4>2
    <3>4. NodeInv(n, x, directory[x], ModeOf(queue[x], completing = x), Head(queue[x]),
                  RestOf(queue[x]), line[n][x], waiters[n][x], draining[n] = x, toCache'[n], toDir'[n])
      BY <3>1, <3>3, RemovedSame, OtherLineStep
    <3> QED BY <3>2, <3>4
  <2> QED BY <2>2, <2>3
<1> QED BY <1>3, <1>4, <1>5 DEF CoherenceInv

\* What does not change is changed nowhere.
LEMMA Same ==
    ASSUME CoherenceInv, NEW z \in Node, NEW a \in Addr
    PROVE  /\ line' = line => LineAt(z, a)
           /\ waiters' = waiters => WaitersAt(z, a)
           /\ draining' = draining => DrainAt(z, a)
           /\ toCache' = toCache => ToCacheAt(z, a)
           /\ toDir' = toDir => ToDirAt(z, a)
<1>1. /\ line \in [Node -> [Addr -> Lines]] /\ waiters \in [Node -> [Addr -> Seq(Waiter)]]
      /\ draining \in [Node -> Addr \cup {NoAddr}]
      /\ toCache \in [Node -> Seq(CachePackets)] /\ toDir \in [Node -> Seq(DirPackets)]
  BY DEF CoherenceInv, Types
<1> QED BY <1>1, RemovedSame, AppendedSame DEF LineAt, WaitersAt, DrainAt, ToCacheAt, ToDirAt

\* A step that changes one line of one cache.
LEMMA LineSet ==
    ASSUME CoherenceInv, NEW z \in Node, NEW a \in Addr, NEW l \in Lines,
           line' = [line EXCEPT ![z][a] = l]
    PROVE  LineAt(z, a) /\ line'[z][a] = l
<1>1. line \in [Node -> [Addr -> Lines]]
  BY DEF CoherenceInv, Types
<1> QED BY <1>1 DEF LineAt

\* A step that changes the waiters of one line of one cache.
LEMMA WaitersSet ==
    ASSUME CoherenceInv, NEW z \in Node, NEW a \in Addr, NEW w \in Seq(Waiter),
           waiters' = [waiters EXCEPT ![z][a] = w]
    PROVE  WaitersAt(z, a) /\ waiters'[z][a] = w
<1>1. waiters \in [Node -> [Addr -> Seq(Waiter)]]
  BY DEF CoherenceInv, Types
<1> QED BY <1>1 DEF WaitersAt

\* A step that starts or ends the loop over the waiters of one line.
LEMMA DrainSet ==
    ASSUME CoherenceInv, NEW z \in Node, NEW a \in Addr, draining[z] \in {NoAddr, a},
           NEW g \in {NoAddr, a}, draining' = [draining EXCEPT ![z] = g]
    PROVE  DrainAt(z, a) /\ draining'[z] = g
<1>1. draining \in [Node -> Addr \cup {NoAddr}] /\ NoAddr \notin Addr
  BY HomeFacts DEF CoherenceInv, Types
<1> QED BY <1>1 DEF DrainAt

\* A step that takes the packet at the head of a channel to a cache.
LEMMA Received ==
    ASSUME CoherenceInv, NEW z \in Node, toCache[z] # <<>>, toCache' = [toCache EXCEPT ![z] = Tail(@)]
    PROVE  LET m == Head(toCache[z])
           IN  /\ m \in CachePackets /\ m.addr \in Addr /\ m.type \in CacheMsgType
               /\ m.buf \in Bufs /\ (m.type \in {"EX_REP", "SH_REP"} => m.buf # NULL)
               /\ ToCacheAt(z, m.addr)
               /\ Removed(toCache[z], toCache'[z], m.addr, {m.type})
<1> DEFINE m == Head(toCache[z])
           a == m.addr
           t == m.type
           s == toCache[z]
<1>1. toCache \in [Node -> Seq(CachePackets)] /\ s \in Seq(CachePackets)
  BY DEF CoherenceInv, Types
<1>2. m \in CachePackets /\ Tail(s) \in Seq(CachePackets)
  BY <1>1
<1>3. /\ a \in Addr /\ t \in CacheMsgType /\ m.buf \in Bufs
      /\ (t \in {"EX_REP", "SH_REP"} => m.buf # NULL)
  BY <1>2 DEF CachePackets, Pkts
<1>4. \A x : Removed(s, Tail(s), x, TypeAt(m, x))
  BY <1>1, TailStep
<1>5. /\ toCache' \in [Node -> Seq(CachePackets)] /\ toCache'[z] = Tail(s)
      /\ \A n \in Node : n # z => toCache'[n] = toCache[n]
  BY <1>1, <1>2
<1> HIDE DEF m, s
<1>6. TypeAt(m, a) = {t} /\ \A x : x # a => TypeAt(m, x) = {}
  BY DEF TypeAt
<1>7. \A x : x # a => Removed(s, Tail(s), x, {})
  BY <1>4, <1>6
<1>8. Removed(s, Tail(s), a, {t})
  <2> HIDE DEF a, t
  <2> QED BY <1>4, <1>6
<1> HIDE DEF a, t
<1>9. ToCacheAt(z, a)
  BY <1>5, <1>7 DEF ToCacheAt, s
<1>10. Removed(toCache[z], toCache'[z], a, {t})
  BY <1>5, <1>8 DEF s
<1> QED BY <1>2, <1>3, <1>9, <1>10 DEF m, a, t

\* A step that sends a packet to the directory.
LEMMA SentToDir ==
    ASSUME CoherenceInv, NEW z \in Node, NEW a \in Addr, NEW t \in DirMsgType, NEW b \in Bufs,
           t \in {"FLUSH_REP", "WB_REP"} => b # NULL, SendToDir(z, a, t, b)
    PROVE  ToDirAt(z, a) /\ Appended(toDir[z], toDir'[z], a, {t})
<1> DEFINE p == Packet(t, a, b)
           d == toDir[z]
<1>1. toDir \in [Node -> Seq(DirPackets)] /\ d \in Seq(DirPackets)
  BY DEF CoherenceInv, Types
<1>2. p \in DirPackets /\ p.addr = a /\ p.type = t
  BY DEF Packet, DirPackets, Pkts
<1>3. toDir' = [toDir EXCEPT ![z] = Append(@, p)]
  BY DEF SendToDir
<1> HIDE DEF p
<1>4. Append(d, p) \in Seq(DirPackets)
  BY <1>1, <1>2
<1>5. /\ toDir' \in [Node -> Seq(DirPackets)] /\ toDir'[z] = Append(d, p)
      /\ \A n \in Node : n # z => toDir'[n] = toDir[n]
  BY <1>1, <1>3, <1>4
<1>6. \A x : Appended(d, Append(d, p), x, TypeAt(p, x))
  BY <1>1, <1>2, AppendStep
<1>7. TypeAt(p, a) = {t} /\ \A x : x # a => TypeAt(p, x) = {}
  BY <1>2 DEF TypeAt
<1> HIDE DEF d
<1>8. Appended(d, toDir'[z], a, {t}) /\ \A x : x # a => Appended(d, toDir'[z], x, {})
  BY <1>5, <1>6, <1>7
<1> QED BY <1>5, <1>8 DEF ToDirAt, d

\* One cache's part of the invariant for one line.
LEMMA CacheFacts ==
    ASSUME CoherenceInv, NEW z \in Node, NEW a \in Addr
    PROVE  /\ line[z][a] \in Lines /\ waiters[z][a] \in Seq(Waiter)
           /\ line[z][a].cstate \in CState /\ line[z][a].buf \in Bufs
           /\ (line[z][a].cstate # "INVALID" => line[z][a].buf # NULL)
           /\ InvalidLine \in Lines /\ InvalidLine.cstate = "INVALID"
           /\ \A d \in Data : [cstate |-> "MODIFIED", buf |-> d] \in Lines
           /\ NoAddr # a
           /\ NodeInv(z, a, directory[a], ModeOf(queue[a], completing = a), Head(queue[a]),
                      RestOf(queue[a]), line[z][a], waiters[z][a], draining[z] = a,
                      toCache[z], toDir[z])
<1>1. line[z][a] \in Lines /\ waiters[z][a] \in Seq(Waiter)
  BY DEF CoherenceInv, Types
<1>2. /\ line[z][a].cstate \in CState /\ line[z][a].buf \in Bufs
      /\ (line[z][a].cstate # "INVALID" => line[z][a].buf # NULL)
  BY <1>1 DEF Lines, Valid
<1>3. InvalidLine \in Lines /\ InvalidLine.cstate = "INVALID"
  BY DEF InvalidLine, Lines, Valid, CState, Bufs
<1>4. ASSUME NEW d \in Data PROVE [cstate |-> "MODIFIED", buf |-> d] \in Lines
  BY ConstantsAssumption DEF Lines, CState, Bufs, NULL
<1> QED BY <1>1, <1>2, <1>3, <1>4, HomeFacts

-----------------------------------------------------------------------------

\* A write hit keeps the invariant.
LEMMA WriteHitKeeps ==
    ASSUME CoherenceInv, config' = config, NEW z \in Node, NEW a \in Addr, WriteHit(z, a)
    PROVE  CoherenceInv'
<1>1. PICK d \in Data : line' = [line EXCEPT ![z][a] = [cstate |-> "MODIFIED", buf |-> d]]
  BY DEF WriteHit
<1>2. /\ line[z][a].cstate \in {"EXCLUSIVE", "MODIFIED"}
      /\ UNCHANGED <<homeVars, toDram, fromDram, memory>> /\ failed' = failed
      /\ waiters' = waiters /\ draining' = draining /\ toCache' = toCache /\ toDir' = toDir
  BY DEF WriteHit
<1>3. LineAt(z, a) /\ line'[z][a] = [cstate |-> "MODIFIED", buf |-> d]
  BY <1>1, CacheFacts, LineSet
<1>4. line'[z][a].cstate = "MODIFIED"
  BY <1>3
<1>5. NodeInv(z, a, directory[a], ModeOf(queue[a], completing = a), Head(queue[a]), RestOf(queue[a]),
              line'[z][a], waiters[z][a], draining[z] = a, toCache[z], toDir[z])
  BY <1>2, <1>4, CacheFacts, WriteHitStep
<1>6. CacheKeepsAt(z, a)
  BY <1>2, <1>3, Same DEF CacheKeepsAt
<1> QED BY <1>2, <1>5, <1>6, CacheKeeps

\* An eviction keeps the invariant.
LEMMA EvictKeeps ==
    ASSUME CoherenceInv, config' = config, NEW z \in Node, NEW a \in Addr, Evict(z, a)
    PROVE  CoherenceInv'
<1> DEFINE l == line[z][a]
<1>1. /\ draining[z] = NoAddr /\ l.cstate \in Readable
      /\ line' = [line EXCEPT ![z][a] = InvalidLine]
      /\ UNCHANGED <<homeVars, toDram, fromDram, memory>> /\ failed' = failed
      /\ waiters' = waiters /\ draining' = draining /\ toCache' = toCache
  BY DEF Evict
<1>2. LineAt(z, a) /\ line'[z][a] = InvalidLine /\ line'[z][a].cstate = "INVALID"
  BY <1>1, CacheFacts, LineSet
<1>3. NodeInv(z, a, directory[a], ModeOf(queue[a], completing = a), Head(queue[a]), RestOf(queue[a]),
              l, waiters[z][a], FALSE, toCache[z], toDir[z]) /\ (draining[z] = a) = FALSE
  <2>1. (draining[z] = a) = FALSE
    BY <1>1, CacheFacts
  <2> QED BY <2>1, CacheFacts
<1>4. CASE l.cstate = "MODIFIED"
  <2>1. SendToDir(z, a, "FLUSH_REP", l.buf)
    BY <1>4 DEF Evict
  <2>2. "FLUSH_REP" \in DirMsgType /\ l.buf \in Bufs /\ l.buf # NULL
    BY <1>4, CacheFacts DEF DirMsgType
  <2>3. ToDirAt(z, a) /\ Appended(toDir[z], toDir'[z], a, {"FLUSH_REP"})
    BY <2>1, <2>2, SentToDir
  <2>4. NodeInv(z, a, directory[a], ModeOf(queue[a], completing = a), Head(queue[a]), RestOf(queue[a]),
                line'[z][a], waiters[z][a], FALSE, toCache[z], toDir'[z])
    BY <1>2, <1>3, <1>4, <2>3, EvictDirtyStep
  <2>5. CacheKeepsAt(z, a)
    BY <1>1, <1>2, <2>3, Same DEF CacheKeepsAt
  <2>6. NodeInv(z, a, directory[a], ModeOf(queue[a], completing = a), Head(queue[a]), RestOf(queue[a]),
                line'[z][a], waiters'[z][a], draining'[z] = a, toCache'[z], toDir'[z])
    BY <1>1, <1>3, <2>4
  <2> QED BY <1>1, <2>5, <2>6, CacheKeeps
<1>5. CASE l.cstate # "MODIFIED"
  <2>1. SendToDir(z, a, "INV_REP", NULL)
    BY <1>5 DEF Evict
  <2>2. "INV_REP" \in DirMsgType /\ NULL \in Bufs /\ "INV_REP" \notin {"FLUSH_REP", "WB_REP"}
    BY DEF DirMsgType, Bufs
  <2>3. ToDirAt(z, a) /\ Appended(toDir[z], toDir'[z], a, {"INV_REP"})
    BY <2>1, <2>2, SentToDir
  <2>4. NodeInv(z, a, directory[a], ModeOf(queue[a], completing = a), Head(queue[a]), RestOf(queue[a]),
                line'[z][a], waiters[z][a], FALSE, toCache[z], toDir'[z])
    <3>1. l.cstate \in {"SHARED", "EXCLUSIVE"}
      BY <1>1, <1>5 DEF Readable
    <3> QED BY <1>2, <1>3, <2>3, <3>1, EvictCleanStep
  <2>5. CacheKeepsAt(z, a)
    BY <1>1, <1>2, <2>3, Same DEF CacheKeepsAt
  <2>6. NodeInv(z, a, directory[a], ModeOf(queue[a], completing = a), Head(queue[a]), RestOf(queue[a]),
                line'[z][a], waiters'[z][a], draining'[z] = a, toCache'[z], toDir'[z])
    BY <1>1, <1>3, <2>4
  <2> QED BY <1>1, <2>5, <2>6, CacheKeeps
<1> QED BY <1>4, <1>5

\* The invariant of cache z and line a in the current state of the home.
CacheAt(z, a, l, w, dr, s, d) ==
    NodeInv(z, a, directory[a], ModeOf(queue[a], completing = a), Head(queue[a]), RestOf(queue[a]),
            l, w, dr, s, d)

\* A step of cache z about line a keeps the invariant if it keeps CacheAt(z, a).
LEMMA CacheAtKeeps ==
    ASSUME CoherenceInv, config' = config, UNCHANGED <<homeVars, toDram, fromDram, memory>>,
           failed' = failed, NEW z \in Node, NEW a \in Addr, CacheKeepsAt(z, a),
           NEW dr \in BOOLEAN, draining'[z] = a <=> dr,
           CacheAt(z, a, line'[z][a], waiters'[z][a], dr, toCache'[z], toDir'[z])
    PROVE  CoherenceInv'
<1>1. (draining'[z] = a) = dr
  OBVIOUS
<1> QED BY <1>1, CacheKeeps DEF CacheAt

\* A miss keeps the invariant.
LEMMA MissKeeps ==
    ASSUME CoherenceInv, config' = config, failed = {}, NEW z \in Node, NEW a \in Addr, NEW u \in User,
           NEW exclusive \in BOOLEAN, Miss(z, a, u, exclusive)
    PROVE  CoherenceInv'
<1> DEFINE l == line[z][a]
           w == waiters[z][a]
           x == [user |-> u, exclusive |-> exclusive]
           first == w = <<>>
           upgrade == exclusive /\ l.cstate = "SHARED"
           type == IF upgrade THEN "UPGRADE_REQ" ELSE IF exclusive THEN "EX_REQ" ELSE "SH_REQ"
           dr == draining[z] = a
<1>1. /\ IF exclusive THEN l.cstate \notin {"EXCLUSIVE", "MODIFIED"} ELSE l.cstate \notin Readable
      /\ waiters' = [waiters EXCEPT ![z][a] = Append(@, x)]
      /\ line' = IF first /\ upgrade
                 THEN [line EXCEPT ![z][a].cstate = "SHARED_UPGRADING"]
                 ELSE line
      /\ IF first THEN SendToDir(z, a, type, NULL) ELSE UNCHANGED toDir
      /\ failed' = IF first /\ exclusive /\ ~upgrade /\ l.cstate # "INVALID"
                   THEN failed \cup {"processExReqToDirectory: cstate"}
                   ELSE failed
      /\ UNCHANGED <<homeVars, toDram, fromDram, memory>> /\ draining' = draining /\ toCache' = toCache
  BY DEF Miss
<1>2. /\ l \in Lines /\ w \in Seq(Waiter) /\ l.cstate \in CState /\ l.buf \in Bufs
      /\ (l.cstate # "INVALID" => l.buf # NULL)
      /\ CacheAt(z, a, l, w, dr, toCache[z], toDir[z])
  BY CacheFacts DEF CacheAt
<1>3. x \in Waiter /\ x.exclusive = exclusive
  BY DEF Waiter
<1> HIDE DEF x
<1>4. Append(w, x) \in Seq(Waiter) /\ Append(w, x) # <<>>
      /\ (first => Head(Append(w, x)) = x) /\ (~first => Head(Append(w, x)) = Head(w))
  BY <1>2, <1>3
<1>5. WaitersAt(z, a) /\ waiters'[z][a] = Append(w, x)
  <2>1. waiters' = [waiters EXCEPT ![z][a] = Append(w, x)]
    BY <1>1
  <2> HIDE DEF w
  <2> QED BY <1>4, <2>1, WaitersSet
<1> DEFINE w1 == Append(w, x)
<1> HIDE DEF w1
<1>6. w1 # <<>> /\ waiters'[z][a] = w1 /\ (first => Head(w1).exclusive = exclusive)
      /\ (~first => Head(w1) = Head(w))
  BY <1>3, <1>4, <1>5 DEF w1
<1>7. /\ DrainAt(z, a) /\ ToCacheAt(z, a)
      /\ draining'[z] = a <=> dr
      /\ dr \in BOOLEAN
  BY <1>1, Same
<1>8. first => l.cstate # "SHARED_UPGRADING" /\ ~dr
  \* a line that is SHARED_UPGRADING has a request, and so waiters
  BY <1>2 DEF CacheAt, NodeInv, OneAsk, LineOK
<1> HIDE DEF dr
<1>9. CASE ~first
  <2>1. line' = line /\ toDir' = toDir /\ failed' = failed
    BY <1>1, <1>9
  <2>2. CacheAt(z, a, l, w1, dr, toCache[z], toDir[z])
    BY <1>2, <1>6, <1>9, JoinStep DEF CacheAt
  <2>3. CacheKeepsAt(z, a)
    BY <1>5, <1>7, <2>1, Same DEF CacheKeepsAt
  <2>4. CacheAt(z, a, line'[z][a], waiters'[z][a], dr, toCache'[z], toDir'[z])
    BY <1>1, <1>6, <2>1, <2>2
  <2> QED BY <1>1, <1>7, <2>1, <2>3, <2>4, CacheAtKeeps
<1>10. CASE first
  <2>1. SendToDir(z, a, type, NULL)
    BY <1>1, <1>10
  <2>2. type \in DirMsgType /\ type \notin {"FLUSH_REP", "WB_REP"} /\ NULL \in Bufs
    BY DEF DirMsgType, ReqType, Bufs
  <2> HIDE DEF type
  <2>3. ToDirAt(z, a) /\ Appended(toDir[z], toDir'[z], a, {type})
    BY <2>1, <2>2, SentToDir
  <2>4. CASE upgrade
    <3> DEFINE l1 == [l EXCEPT !.cstate = "SHARED_UPGRADING"]
    <3>1. l1 \in Lines /\ l1.cstate = "SHARED_UPGRADING"
      BY <1>2, <2>4 DEF Lines, CState, Valid
    <3>2. line' = [line EXCEPT ![z][a] = l1] /\ failed' = failed
      BY <1>1, <1>10, <2>4
    <3> HIDE DEF l1
    <3>3. LineAt(z, a) /\ line'[z][a] = l1
      BY <3>1, <3>2, LineSet
    <3>4. Appended(toDir[z], toDir'[z], a, {"UPGRADE_REQ"})
      BY <2>3, <2>4 DEF type
    <3>8. l.cstate = "SHARED" /\ w = <<>> /\ w1 # <<>> /\ Head(w1).exclusive
      BY <1>6, <1>10, <2>4
    <3>9. failed' = failed
      BY <3>2
    <3> HIDE DEF l, w
    <3>5. CacheAt(z, a, l1, w1, dr, toCache[z], toDir'[z])
      BY <1>2, <3>1, <3>4, <3>8, UpgradeMissStep DEF CacheAt
    <3>6. CacheKeepsAt(z, a)
      BY <1>5, <1>7, <2>3, <3>3 DEF CacheKeepsAt
    <3>7. CacheAt(z, a, line'[z][a], waiters'[z][a], dr, toCache'[z], toDir'[z])
      BY <1>1, <1>6, <3>3, <3>5
    <3> QED BY <1>1, <1>7, <3>9, <3>6, <3>7, CacheAtKeeps
  <2>5. CASE ~upgrade
    <3>1. line' = line
      BY <1>1, <2>5
    <3>2. l.cstate = "INVALID"
      BY <1>1, <1>2, <1>8, <1>10, <2>5 DEF CState, Readable
    <3>3. failed' = failed
      BY <1>1, <3>2
    <3>4. CacheAt(z, a, l, w1, dr, toCache[z], toDir'[z])
      <4>1. CASE exclusive
        <5>1. Appended(toDir[z], toDir'[z], a, {"EX_REQ"})
          BY <2>3, <2>5, <4>1 DEF type
        <5> QED BY <1>2, <1>6, <1>10, <3>2, <4>1, <5>1, ExMissStep DEF CacheAt
      <4>2. CASE ~exclusive
        <5>1. Appended(toDir[z], toDir'[z], a, {"SH_REQ"})
          BY <2>3, <2>5, <4>2 DEF type
        <5> QED BY <1>2, <1>6, <1>10, <3>2, <5>1, ShMissStep DEF CacheAt
      <4> QED BY <4>1, <4>2
    <3>5. CacheKeepsAt(z, a)
      BY <1>5, <1>7, <2>3, <3>1, Same DEF CacheKeepsAt
    <3>6. CacheAt(z, a, line'[z][a], waiters'[z][a], dr, toCache'[z], toDir'[z])
      BY <1>1, <1>6, <3>1, <3>4
    <3> QED BY <1>1, <1>7, <3>3, <3>5, <3>6, CacheAtKeeps
  <2> QED BY <2>4, <2>5
<1> QED BY <1>9, <1>10

-----------------------------------------------------------------------------
(* The network thread.                                                      *)

\* The four turns of the loop over the waiters.
WokeLast(z, a, l, ws) ==
    /\ ws = <<>>
    /\ draining'[z] # a /\ toDir'[z] = toDir[z] /\ line'[z][a].cstate = l.cstate
    /\ failed' = failed
WokeUpgrade(z, a, l, ws) ==
    /\ ws # <<>> /\ Head(ws).exclusive /\ l.cstate = "SHARED"
    /\ draining'[z] # a /\ Appended(toDir[z], toDir'[z], a, {"UPGRADE_REQ"})
    /\ line'[z][a].cstate = "SHARED_UPGRADING"
    /\ failed' = failed
WokeWriter(z, a, l, ws) ==
    /\ ws # <<>> /\ Head(ws).exclusive /\ l.cstate # "SHARED"
    /\ draining'[z] = a /\ toDir'[z] = toDir[z] /\ line'[z][a].cstate = "MODIFIED"
    /\ l.cstate \in {"EXCLUSIVE", "MODIFIED"} => failed' = failed
WokeReader(z, a, l, ws) ==
    /\ ws # <<>> /\ ~Head(ws).exclusive
    /\ draining'[z] = a /\ toDir'[z] = toDir[z] /\ line'[z][a].cstate = l.cstate
    /\ l.cstate \in Readable => failed' = failed

\* A turn of the loop over the waiters is one of the four.
LEMMA WakeWaiterDoes ==
    ASSUME CoherenceInv, NEW z \in Node, NEW a \in Addr, NEW l \in Lines, NEW ws \in Seq(Waiter),
           draining[z] \in {NoAddr, a}, NEW errors, errors = {}, WakeWaiter(z, a, l, ws, errors)
    PROVE  /\ LineAt(z, a) /\ WaitersAt(z, a) /\ DrainAt(z, a) /\ ToDirAt(z, a)
           /\ waiters'[z][a] = ws
           /\ \/ WokeLast(z, a, l, ws) \/ WokeUpgrade(z, a, l, ws)
              \/ WokeWriter(z, a, l, ws) \/ WokeReader(z, a, l, ws)
<1>1. WaitersAt(z, a) /\ waiters'[z][a] = ws
  <2>1. waiters' = [waiters EXCEPT ![z][a] = ws]
    BY DEF WakeWaiter
  <2> QED BY <2>1, WaitersSet
<1>2. NoAddr # a
  BY CacheFacts
<1>3. CASE /\ ws = <<>>
           /\ draining' = [draining EXCEPT ![z] = NoAddr]
           /\ line' = [line EXCEPT ![z][a] = l]
           /\ failed' = failed \cup errors
           /\ toDir' = toDir
  <2>1. DrainAt(z, a) /\ draining'[z] = NoAddr
    BY <1>3, DrainSet
  <2>2. LineAt(z, a) /\ line'[z][a] = l
    BY <1>3, LineSet
  <2>3. failed' = failed /\ ToDirAt(z, a)
    BY <1>3, Same
  <2> QED BY <1>1, <1>2, <1>3, <2>1, <2>2, <2>3 DEF WokeLast
<1>4. CASE /\ ws # <<>> /\ Head(ws).exclusive /\ l.cstate = "SHARED"
           /\ draining' = [draining EXCEPT ![z] = NoAddr]
           /\ line' = [line EXCEPT ![z][a] = [l EXCEPT !.cstate = "SHARED_UPGRADING"]]
           /\ SendToDir(z, a, "UPGRADE_REQ", NULL)
           /\ failed' = failed \cup errors
  <2>1. DrainAt(z, a) /\ draining'[z] = NoAddr
    BY <1>4, DrainSet
  <2> DEFINE l1 == [l EXCEPT !.cstate = "SHARED_UPGRADING"]
  <2>2. l1 \in Lines /\ l1.cstate = "SHARED_UPGRADING"
    BY <1>4 DEF Lines, CState, Valid
  <2>3. line' = [line EXCEPT ![z][a] = l1]
    BY <1>4
  <2> HIDE DEF l1
  <2>4. LineAt(z, a) /\ line'[z][a] = l1
    <3>1. \A x \in Lines : line' = [line EXCEPT ![z][a] = x] => LineAt(z, a) /\ line'[z][a] = x
      BY LineSet
    <3> QED BY <2>2, <2>3, <3>1, Zenon
  <2>5. failed' = failed
    BY <1>4
  <2>6. "UPGRADE_REQ" \in DirMsgType /\ "UPGRADE_REQ" \notin {"FLUSH_REP", "WB_REP"} /\ NULL \in Bufs
    BY DEF DirMsgType, ReqType, Bufs
  <2>7. ToDirAt(z, a) /\ Appended(toDir[z], toDir'[z], a, {"UPGRADE_REQ"})
    BY <1>4, <2>6, SentToDir
  <2> QED BY <1>1, <1>2, <1>4, <2>1, <2>2, <2>4, <2>5, <2>7 DEF WokeUpgrade
<1>5. CASE /\ ws # <<>> /\ Head(ws).exclusive /\ l.cstate # "SHARED"
           /\ draining' = [draining EXCEPT ![z] = a]
           /\ \E d \in Data : line' = [line EXCEPT ![z][a] = [cstate |-> "MODIFIED", buf |-> d]]
           /\ failed' = failed \cup errors \cup
                          IF l.cstate \in {"EXCLUSIVE", "MODIFIED"} THEN {}
                          ELSE {"processMemOpFromCore: data is already gone"}
           /\ toDir' = toDir
  <2>1. DrainAt(z, a) /\ draining'[z] = a
    BY <1>5, DrainSet
  <2>2. PICK d \in Data : line' = [line EXCEPT ![z][a] = [cstate |-> "MODIFIED", buf |-> d]]
    BY <1>5
  <2> DEFINE l1 == [cstate |-> "MODIFIED", buf |-> d]
  <2>3. l1 \in Lines /\ l1.cstate = "MODIFIED"
    BY CacheFacts
  <2> HIDE DEF l1
  <2>4. LineAt(z, a) /\ line'[z][a] = l1
    <3>1. line' = [line EXCEPT ![z][a] = l1]
      BY <2>2 DEF l1
    <3>2. \A x \in Lines : line' = [line EXCEPT ![z][a] = x] => LineAt(z, a) /\ line'[z][a] = x
      BY LineSet
    <3> QED BY <2>3, <3>1, <3>2, Zenon
  <2>5. (l.cstate \in {"EXCLUSIVE", "MODIFIED"} => failed' = failed) /\ ToDirAt(z, a)
    BY <1>5, Same
  <2> QED BY <1>1, <1>5, <2>1, <2>3, <2>4, <2>5 DEF WokeWriter
<1>6. CASE /\ ws # <<>> /\ ~Head(ws).exclusive
           /\ draining' = [draining EXCEPT ![z] = a]
           /\ line' = [line EXCEPT ![z][a] = l]
           /\ failed' = failed \cup errors \cup
                          IF l.cstate \in Readable THEN {}
                          ELSE {"processMemOpFromCore: data is already gone"}
           /\ toDir' = toDir
  <2>1. DrainAt(z, a) /\ draining'[z] = a
    BY <1>6, DrainSet
  <2>2. LineAt(z, a) /\ line'[z][a] = l
    BY <1>6, LineSet
  <2>3. (l.cstate \in Readable => failed' = failed) /\ ToDirAt(z, a)
    BY <1>6, Same
  <2> QED BY <1>1, <1>6, <2>1, <2>2, <2>3 DEF WokeReader
<1> QED BY <1>3, <1>4, <1>5, <1>6 DEF WakeWaiter

\* A turn of the loop over the waiters keeps the invariant.
LEMMA NextWaiterKeeps ==
    ASSUME CoherenceInv, config' = config, NEW z \in Node, NextWaiter(z)
    PROVE  CoherenceInv'
<1> DEFINE a == draining[z]
           l == line[z][a]
           w == waiters[z][a]
           ws == Tail(w)
<1>1. /\ a # NoAddr /\ WakeWaiter(z, a, l, ws, {})
      /\ UNCHANGED <<homeVars, toDram, fromDram, memory>> /\ toCache' = toCache
  BY DEF NextWaiter
<1>2. a \in Addr
  BY <1>1 DEF CoherenceInv, Types
<1>3. l \in Lines /\ w \in Seq(Waiter)
  BY <1>2, CacheFacts
<1> DEFINE g == draining[z]
<1>4. CacheAt(z, a, l, w, TRUE, toCache[z], toDir[z])
  <2> DEFINE dr == draining[z] = a
  <2>1. dr = TRUE
    OBVIOUS
  <2>2. CacheAt(z, a, l, w, dr, toCache[z], toDir[z])
    BY <1>2, CacheFacts DEF CacheAt
  <2> HIDE DEF dr
  <2> QED BY <2>1, <2>2
<1>5. l.cstate \in Readable /\ w # <<>>
  BY <1>4 DEF CacheAt, NodeInv, LineOK
<1>6. ws \in Seq(Waiter)
  BY <1>3, <1>5
<1>7. draining[z] \in {NoAddr, a}
  OBVIOUS
<1> HIDE DEF a, l, ws
<1>8. /\ LineAt(z, a) /\ WaitersAt(z, a) /\ DrainAt(z, a) /\ ToDirAt(z, a)
      /\ waiters'[z][a] = ws
      /\ \/ WokeLast(z, a, l, ws) \/ WokeUpgrade(z, a, l, ws)
         \/ WokeWriter(z, a, l, ws) \/ WokeReader(z, a, l, ws)
  BY <1>1, <1>2, <1>3, <1>6, <1>7, WakeWaiterDoes
<1>9. CacheKeepsAt(z, a)
  BY <1>1, <1>2, <1>8, Same DEF CacheKeepsAt
<1> HIDE DEF w
<1>10. CASE WokeLast(z, a, l, ws)
  <2>1. CacheAt(z, a, line'[z][a], ws, FALSE, toCache[z], toDir[z])
    BY <1>4, <1>10, WakeLastStep DEF CacheAt, WokeLast
  <2>2. CacheAt(z, a, line'[z][a], waiters'[z][a], FALSE, toCache'[z], toDir'[z])
    BY <1>1, <1>8, <1>10, <2>1 DEF WokeLast
  <2>3. failed' = failed /\ (draining'[z] = a <=> FALSE)
    BY <1>10 DEF WokeLast
  <2> QED BY <1>1, <1>2, <1>9, <2>2, <2>3, CacheAtKeeps
<1>11. CASE WokeUpgrade(z, a, l, ws)
  <2>1. CacheAt(z, a, line'[z][a], ws, FALSE, toCache[z], toDir'[z])
    BY <1>4, <1>11, WakeUpgradeStep DEF CacheAt, WokeUpgrade
  <2>2. CacheAt(z, a, line'[z][a], waiters'[z][a], FALSE, toCache'[z], toDir'[z])
    BY <1>1, <1>8, <2>1
  <2>3. failed' = failed /\ (draining'[z] = a <=> FALSE)
    BY <1>11 DEF WokeUpgrade
  <2> QED BY <1>1, <1>2, <1>9, <2>2, <2>3, CacheAtKeeps
<1>12. CASE WokeWriter(z, a, l, ws)
  <2>0. l.cstate \in {"EXCLUSIVE", "MODIFIED"}
    BY <1>5, <1>12 DEF WokeWriter, Readable
  <2>1. CacheAt(z, a, line'[z][a], ws, TRUE, toCache[z], toDir[z])
    BY <1>4, <1>12, <2>0, WakeWriterStep DEF CacheAt, WokeWriter
  <2>2. CacheAt(z, a, line'[z][a], waiters'[z][a], TRUE, toCache'[z], toDir'[z])
    BY <1>1, <1>8, <1>12, <2>1 DEF WokeWriter
  <2>3. failed' = failed /\ (draining'[z] = a <=> TRUE)
    BY <1>12, <2>0 DEF WokeWriter
  <2> QED BY <1>1, <1>2, <1>9, <2>2, <2>3, CacheAtKeeps
<1>13. CASE WokeReader(z, a, l, ws)
  <2>0. ws # <<>> /\ line'[z][a].cstate = l.cstate
    BY <1>13 DEF WokeReader
  <2>1. CacheAt(z, a, line'[z][a], ws, TRUE, toCache[z], toDir[z])
    <3> DEFINE l1 == line'[z][a]
    <3>1. l1.cstate = l.cstate
      BY <2>0
    <3> HIDE DEF l1
    <3>2. CacheAt(z, a, l1, ws, TRUE, toCache[z], toDir[z])
      BY <1>4, <2>0, <3>1, ChannelOrder, QueueMember
         DEF CacheAt, NodeInv, CopyKnown, OneCopy, OneAsk, LineOK, ToCacheOK, ToDirOK, QueuedOK,
             Valid, Queued, HasData, HasReply, GaveUp, Asked, Live, LiveTwice, Readable
    <3> QED BY <3>2 DEF l1
  <2>2. CacheAt(z, a, line'[z][a], waiters'[z][a], TRUE, toCache'[z], toDir'[z])
    BY <1>1, <1>8, <1>13, <2>1 DEF WokeReader
  <2>3. failed' = failed /\ (draining'[z] = a <=> TRUE)
    BY <1>5, <1>13 DEF WokeReader
  <2> QED BY <1>1, <1>2, <1>9, <2>2, <2>3, CacheAtKeeps
<1> QED BY <1>8, <1>10, <1>11, <1>12, <1>13

\* What every packet finds.
LEMMA Arrives ==
    ASSUME CoherenceInv, NEW z \in Node, Receive(z)
    PROVE  LET m == Head(toCache[z])
               a == m.addr
           IN  /\ a \in Addr /\ m.type \in CacheMsgType /\ m.buf \in Bufs
               /\ m.type \in {"EX_REP", "SH_REP"} => m.buf # NULL
               /\ draining[z] = NoAddr /\ NoAddr # a
               /\ ToCacheAt(z, a) /\ Removed(toCache[z], toCache'[z], a, {m.type})
               /\ UNCHANGED <<homeVars, toDram, fromDram, memory>>
               /\ line[z][a] \in Lines /\ waiters[z][a] \in Seq(Waiter)
               /\ CacheAt(z, a, line[z][a], waiters[z][a], FALSE, toCache[z], toDir[z])
<1> DEFINE m == Head(toCache[z])
           a == m.addr
<1>1. /\ draining[z] = NoAddr /\ toCache[z] # <<>> /\ toCache' = [toCache EXCEPT ![z] = Tail(@)]
      /\ UNCHANGED <<homeVars, toDram, fromDram, memory>>
  BY DEF Receive
<1>2. /\ a \in Addr /\ m.type \in CacheMsgType /\ m.buf \in Bufs
      /\ m.type \in {"EX_REP", "SH_REP"} => m.buf # NULL
      /\ ToCacheAt(z, a) /\ Removed(toCache[z], toCache'[z], a, {m.type})
  BY <1>1, Received
<1> HIDE DEF m, a
<1>3. NoAddr # a /\ line[z][a] \in Lines /\ waiters[z][a] \in Seq(Waiter)
  BY <1>2, CacheFacts
<1>4. CacheAt(z, a, line[z][a], waiters[z][a], FALSE, toCache[z], toDir[z])
  <2>1. (draining[z] = a) = FALSE
    BY <1>1, <1>3
  <2>2. CacheAt(z, a, line[z][a], waiters[z][a], draining[z] = a, toCache[z], toDir[z])
    BY <1>2, CacheFacts DEF CacheAt
  <2> QED BY <2>1, <2>2
<1> QED BY <1>1, <1>2, <1>3, <1>4 DEF m, a

\* A data reply finds no copy and a thread that waits; an upgrade reply finds the copy.
LEMMA DataFinds ==
    ASSUME NEW z, NEW a, NEW l, NEW w, NEW s, NEW s1, NEW d, NEW t \in {"EX_REP", "SH_REP"},
           CacheAt(z, a, l, w, FALSE, s, d), Removed(s, s1, a, {t})
    PROVE  l.cstate = "INVALID" /\ w # <<>>
BY DEF CacheAt, NodeInv, OneCopy, OneAsk, Removed, HasData, HasReply, Valid

\* An upgrade reply finds an upgrading line and a writer that waits.
LEMMA UpgradeFinds ==
    ASSUME NEW z, NEW a, NEW l, NEW w, NEW s, NEW s1, NEW d,
           CacheAt(z, a, l, w, FALSE, s, d), Removed(s, s1, a, {"UPGRADE_REP"})
    PROVE  l.cstate = "SHARED_UPGRADING" /\ w # <<>> /\ Head(w).exclusive
BY DEF CacheAt, NodeInv, OneAsk, ToCacheOK, Removed, HasReply

\* An exclusive reply finds an entry that is owned.
LEMMA ExFinds ==
    ASSUME NEW z, NEW a, NEW l, NEW w, NEW s, NEW s1, NEW d,
           CacheAt(z, a, l, w, FALSE, s, d), Removed(s, s1, a, {"EX_REP"})
    PROVE  directory[a].dstate = "MODIFIED" \/ directory[a].dstate = "EXCLUSIVE"
BY DEF CacheAt, NodeInv, ToCacheOK, Removed, Owned

\* processExRepFromDramDirectory and processShRepFromDramDirectory keep the invariant.
LEMMA ReceiveDataKeeps ==
    ASSUME CoherenceInv, config' = config, NEW z \in Node, ReceiveData(z)
    PROVE  CoherenceInv'
<1> DEFINE m == Head(toCache[z])
           a == m.addr
           l0 == line[z][a]
           w == waiters[z][a]
           cs == IF m.type = "EX_REP" THEN "EXCLUSIVE" ELSE "SHARED"
           l == [cstate |-> cs, buf |-> m.buf]
           errors == IF line[z][a].cstate = "INVALID" THEN {} ELSE {"insertCacheBlock: resident"}
<1>1. /\ Receive(z) /\ m.type \in {"EX_REP", "SH_REP"}
      /\ WakeWaiter(z, a, l, w, errors)
  BY DEF ReceiveData
<1>2. /\ a \in Addr /\ m.type \in CacheMsgType /\ m.buf \in Bufs
      /\ m.type \in {"EX_REP", "SH_REP"} => m.buf # NULL
      /\ draining[z] = NoAddr /\ NoAddr # a
      /\ ToCacheAt(z, a) /\ Removed(toCache[z], toCache'[z], a, {m.type})
      /\ UNCHANGED <<homeVars, toDram, fromDram, memory>>
      /\ l0 \in Lines /\ w \in Seq(Waiter)
      /\ CacheAt(z, a, l0, w, FALSE, toCache[z], toDir[z])
  BY <1>1, Arrives
<1> HIDE DEF m, a
<1>3. l0.cstate = "INVALID" /\ w # <<>>
  BY <1>1, <1>2, DataFinds
<1>4. errors = {} /\ l \in Lines /\ l.cstate = cs /\ draining[z] \in {NoAddr, a}
  BY <1>1, <1>2, <1>3 DEF Lines, CState, Valid
<1> HIDE DEF errors, l, l0, w
<1>5. /\ LineAt(z, a) /\ WaitersAt(z, a) /\ DrainAt(z, a) /\ ToDirAt(z, a)
      /\ waiters'[z][a] = w
      /\ \/ WokeLast(z, a, l, w) \/ WokeUpgrade(z, a, l, w)
         \/ WokeWriter(z, a, l, w) \/ WokeReader(z, a, l, w)
  BY <1>1, <1>2, <1>4, WakeWaiterDoes
<1>6. CacheKeepsAt(z, a)
  BY <1>2, <1>5 DEF CacheKeepsAt
<1>7. SUFFICES ASSUME NEW dr \in BOOLEAN, draining'[z] = a <=> dr, failed' = failed,
                      CacheAt(z, a, line'[z][a], w, dr, toCache'[z], toDir'[z])
               PROVE  CoherenceInv'
  <2>1. \E dr \in BOOLEAN : /\ draining'[z] = a <=> dr
                            /\ failed' = failed
                            /\ CacheAt(z, a, line'[z][a], w, dr, toCache'[z], toDir'[z])
    <3>1. CASE WokeLast(z, a, l, w)
      BY <1>3, <3>1 DEF WokeLast
    <3>2. CASE WokeUpgrade(z, a, l, w)
      <4>1. m.type = "SH_REP"
        BY <1>1, <1>4, <3>2 DEF WokeUpgrade
      <4>2. Removed(toCache[z], toCache'[z], a, {"SH_REP"})
        BY <1>2, <4>1
      <4>3. CacheAt(z, a, line'[z][a], w, FALSE, toCache'[z], toDir'[z])
        BY <1>2, <3>2, <4>2, ShRepWriterStep DEF CacheAt, WokeUpgrade
      <4> QED BY <3>2, <4>3 DEF WokeUpgrade
    <3>3. CASE WokeWriter(z, a, l, w)
      <4>1. m.type = "EX_REP" /\ l.cstate = "EXCLUSIVE"
        BY <1>1, <1>4, <3>3 DEF WokeWriter
      <4>2. Removed(toCache[z], toCache'[z], a, {"EX_REP"})
        BY <1>2, <4>1
      <4>3. CacheAt(z, a, line'[z][a], w, TRUE, toCache'[z], toDir[z])
        BY <1>2, <3>3, <4>2, ExRepWriterStep DEF CacheAt, WokeWriter
      <4> QED BY <3>3, <4>1, <4>3 DEF WokeWriter
    <3>4. CASE WokeReader(z, a, l, w)
      <4>1. l.cstate \in Readable /\ failed' = failed
        BY <1>4, <3>4 DEF WokeReader, Readable
      <4>2. CASE m.type = "EX_REP"
        <5>1. Removed(toCache[z], toCache'[z], a, {"EX_REP"})
          BY <1>2, <4>2
        <5>2. line'[z][a].cstate = "EXCLUSIVE" /\ ~Head(w).exclusive
          BY <1>4, <3>4, <4>2 DEF WokeReader
        <5>3. directory[a].dstate = "MODIFIED" \/ directory[a].dstate = "EXCLUSIVE"
          BY <1>2, <5>1, ExFinds
        <5>4. CacheAt(z, a, line'[z][a], w, TRUE, toCache'[z], toDir[z])
          BY <1>2, <5>1, <5>2, <5>3, ExRepReaderStep DEF CacheAt
        <5> QED BY <3>4, <4>1, <5>4 DEF WokeReader
      <4>3. CASE m.type = "SH_REP"
        <5>1. Removed(toCache[z], toCache'[z], a, {"SH_REP"})
          BY <1>2, <4>3
        <5>2. line'[z][a].cstate = "SHARED"
          BY <1>4, <3>4, <4>3 DEF WokeReader
        <5>3. CacheAt(z, a, line'[z][a], w, TRUE, toCache'[z], toDir[z])
          BY <1>2, <5>1, <5>2, ShRepReaderStep DEF CacheAt
        <5> QED BY <3>4, <4>1, <5>3 DEF WokeReader
      <4> QED BY <1>1, <4>2, <4>3
    <3> QED BY <1>5, <3>1, <3>2, <3>3, <3>4
  <2> QED BY <1>7, <2>1
<1> QED BY <1>2, <1>5, <1>6, <1>7, CacheAtKeeps

\* processUpgradeRepFromDramDirectory keeps the invariant.
LEMMA ReceiveUpgradeRepKeeps ==
    ASSUME CoherenceInv, config' = config, NEW z \in Node, ReceiveUpgradeRep(z)
    PROVE  CoherenceInv'
<1> DEFINE m == Head(toCache[z])
           a == m.addr
           l0 == line[z][a]
           w == waiters[z][a]
           l == [l0 EXCEPT !.cstate = "MODIFIED"]
           errors == IF l0.cstate = "SHARED_UPGRADING" THEN {} ELSE {"processUpgradeRep: cstate"}
<1>1. /\ Receive(z) /\ m.type = "UPGRADE_REP"
      /\ WakeWaiter(z, a, l, w, errors)
  BY DEF ReceiveUpgradeRep
<1>2. /\ a \in Addr
      /\ draining[z] = NoAddr /\ NoAddr # a
      /\ ToCacheAt(z, a) /\ Removed(toCache[z], toCache'[z], a, {m.type})
      /\ UNCHANGED <<homeVars, toDram, fromDram, memory>>
      /\ l0 \in Lines /\ w \in Seq(Waiter)
      /\ CacheAt(z, a, l0, w, FALSE, toCache[z], toDir[z])
  BY <1>1, Arrives
<1> HIDE DEF m, a
<1>8. Removed(toCache[z], toCache'[z], a, {"UPGRADE_REP"})
  BY <1>1, <1>2
<1>3. l0.cstate = "SHARED_UPGRADING" /\ w # <<>> /\ Head(w).exclusive
  BY <1>2, <1>8, UpgradeFinds
<1>4. errors = {} /\ l \in Lines /\ l.cstate = "MODIFIED" /\ draining[z] \in {NoAddr, a}
  BY <1>2, <1>3 DEF Lines, CState, Valid
<1> HIDE DEF errors, l, l0, w
<1>5. /\ LineAt(z, a) /\ WaitersAt(z, a) /\ DrainAt(z, a) /\ ToDirAt(z, a)
      /\ waiters'[z][a] = w
      /\ \/ WokeLast(z, a, l, w) \/ WokeUpgrade(z, a, l, w)
         \/ WokeWriter(z, a, l, w) \/ WokeReader(z, a, l, w)
  BY <1>1, <1>2, <1>4, WakeWaiterDoes
<1>6. CacheKeepsAt(z, a)
  BY <1>2, <1>5 DEF CacheKeepsAt
<1>7. WokeWriter(z, a, l, w)
  BY <1>3, <1>4, <1>5 DEF WokeLast, WokeUpgrade, WokeReader
<1>9. /\ draining'[z] = a /\ toDir'[z] = toDir[z] /\ line'[z][a].cstate = "MODIFIED"
      /\ failed' = failed
  BY <1>4, <1>7 DEF WokeWriter
<1>10. CacheAt(z, a, line'[z][a], w, TRUE, toCache'[z], toDir[z])
  BY <1>2, <1>8, <1>9, UpgradeRepStep DEF CacheAt
<1>11. CacheAt(z, a, line'[z][a], waiters'[z][a], TRUE, toCache'[z], toDir'[z])
       /\ (draining'[z] = a <=> TRUE)
  BY <1>5, <1>9, <1>10
<1> QED BY <1>2, <1>6, <1>9, <1>11, CacheAtKeeps

\* An INV_REQ finds no line that is MODIFIED.
LEMMA InvFinds ==
    ASSUME NEW z, NEW a, NEW l, NEW w, NEW s, NEW s1, NEW d,
           CacheAt(z, a, l, w, FALSE, s, d), Removed(s, s1, a, {"INV_REQ"})
    PROVE  l.cstate # "MODIFIED"
BY DEF CacheAt, NodeInv, ToCacheOK, LineOK, Live, Valid, Removed, Owned

\* A WB_REQ finds an upgrading line only at a forwarder.
LEMMA WbFinds ==
    ASSUME NEW z, NEW a, NEW l, NEW w, NEW s, NEW s1, NEW d,
           CacheAt(z, a, l, w, FALSE, s, d), Removed(s, s1, a, {"WB_REQ"}),
           l.cstate = "SHARED_UPGRADING", z \in Node,
           HomeInv(directory[a], ModeOf(queue[a], completing = a), Head(queue[a]), Protocol)
    PROVE  Protocol \notin {"MSI", "MESI"}
<1> DEFINE e == directory[a]
           mode == ModeOf(queue[a], completing = a)
           q == Head(queue[a])
<1>1. NodeInv(z, a, e, mode, q, RestOf(queue[a]), l, w, FALSE, s, d)
  BY DEF CacheAt
<1>2. HomeInv(e, mode, q, Protocol) /\ z # INVALID_CORE_ID
  BY DEF Node, INVALID_CORE_ID
<1> HIDE DEF e, mode, q
<1>3. Has(s, a, "WB_REQ") /\ Valid(l)
  BY DEF Removed, Valid
<1>4. AwaitsWb(z, e, mode, q) /\ ~Has(d, a, "WB_REP")
  BY <1>1, <1>3 DEF NodeInv, ToCacheOK, Live
<1>5. ~HasReply(s, a)
  <2>1. ~HasData(s, a)
    BY <1>1, <1>3 DEF NodeInv, OneCopy
  <2>2. ~Has(s, a, "UPGRADE_REP")
    BY <1>1 DEF NodeInv, ToCacheOK, Removed
  <2> QED BY <2>1, <2>2 DEF HasReply
<1>6. e.dstate = "SHARED"
  BY <1>1, <1>4, <1>5 DEF NodeInv, LineOK
<1> QED BY <1>2, <1>4, <1>6 DEF AwaitsWb, Owned, HomeInv

\* processInvReqFromDramDirectory keeps the invariant.
LEMMA ReceiveInvReqKeeps ==
    ASSUME CoherenceInv, config' = config, NEW z \in Node, ReceiveInvReq(z)
    PROVE  CoherenceInv'
<1> DEFINE m == Head(toCache[z])
           a == m.addr
           l == line[z][a]
           w == waiters[z][a]
<1>1. /\ Receive(z) /\ m.type = "INV_REQ"
      /\ l.cstate = "INVALID" => line' = line /\ toDir' = toDir
      /\ l.cstate # "INVALID" => /\ line' = [line EXCEPT ![z][a] = InvalidLine]
                                 /\ SendToDir(z, a, "INV_REP", NULL)
      /\ l.cstate # "MODIFIED" => failed' = failed
      /\ waiters' = waiters /\ draining' = draining
  BY DEF ReceiveInvReq
<1>2. /\ a \in Addr
      /\ draining[z] = NoAddr /\ NoAddr # a
      /\ ToCacheAt(z, a) /\ Removed(toCache[z], toCache'[z], a, {m.type})
      /\ UNCHANGED <<homeVars, toDram, fromDram, memory>>
      /\ CacheAt(z, a, l, w, FALSE, toCache[z], toDir[z])
  BY <1>1, Arrives
<1> HIDE DEF m, a
<1>3. Removed(toCache[z], toCache'[z], a, {"INV_REQ"})
  BY <1>1, <1>2
<1>4. failed' = failed
  BY <1>1, <1>2, <1>3, InvFinds
<1>5. WaitersAt(z, a) /\ DrainAt(z, a) /\ waiters'[z][a] = w /\ (draining'[z] = a <=> FALSE)
  BY <1>1, <1>2, Same
<1>6. CASE l.cstate = "INVALID"
  <2>1. LineAt(z, a) /\ ToDirAt(z, a) /\ line'[z][a] = l /\ toDir'[z] = toDir[z]
    BY <1>1, <1>2, <1>6, Same
  <2>2. "INV_REQ" \in {"INV_REQ", "FLUSH_REQ", "WB_REQ"}
    OBVIOUS
  <2> HIDE DEF l, w
  <2>3. CacheAt(z, a, l, w, FALSE, toCache'[z], toDir[z])
    BY <1>2, <1>3, <1>6, <2>2, StaleDemandStep DEF CacheAt
  <2>4. CacheAt(z, a, line'[z][a], waiters'[z][a], FALSE, toCache'[z], toDir'[z])
    BY <1>5, <2>1, <2>3
  <2>5. CacheKeepsAt(z, a)
    BY <1>2, <1>5, <2>1 DEF CacheKeepsAt
  <2> QED BY <1>2, <1>4, <1>5, <2>4, <2>5, CacheAtKeeps
<1>7. CASE l.cstate # "INVALID"
  <2>1. LineAt(z, a) /\ line'[z][a] = InvalidLine /\ InvalidLine.cstate = "INVALID"
    BY <1>1, <1>2, <1>7, CacheFacts, LineSet
  <2>2. "INV_REP" \in DirMsgType /\ "INV_REP" \notin {"FLUSH_REP", "WB_REP"} /\ NULL \in Bufs
    BY DEF DirMsgType, Bufs
  <2>3. ToDirAt(z, a) /\ Appended(toDir[z], toDir'[z], a, {"INV_REP"})
    BY <1>1, <1>2, <1>7, <2>2, SentToDir
  <2> HIDE DEF l, w
  <2>4. CacheAt(z, a, InvalidLine, w, FALSE, toCache'[z], toDir'[z])
    BY <1>2, <1>3, <1>7, <2>1, <2>3, InvReqStep DEF CacheAt
  <2>5. CacheAt(z, a, line'[z][a], waiters'[z][a], FALSE, toCache'[z], toDir'[z])
    BY <1>5, <2>1, <2>4
  <2>6. CacheKeepsAt(z, a)
    BY <1>2, <1>5, <2>1, <2>3 DEF CacheKeepsAt
  <2> QED BY <1>2, <1>4, <1>5, <2>5, <2>6, CacheAtKeeps
<1> QED BY <1>6, <1>7

\* processFlushReqFromDramDirectory keeps the invariant.
LEMMA ReceiveFlushReqKeeps ==
    ASSUME CoherenceInv, config' = config, NEW z \in Node, ReceiveFlushReq(z)
    PROVE  CoherenceInv'
<1> DEFINE m == Head(toCache[z])
           a == m.addr
           l == line[z][a]
           w == waiters[z][a]
<1>1. /\ Receive(z) /\ m.type = "FLUSH_REQ"
      /\ l.cstate = "INVALID" => line' = line /\ toDir' = toDir
      /\ l.cstate # "INVALID" => /\ line' = [line EXCEPT ![z][a] = InvalidLine]
                                 /\ SendToDir(z, a, "FLUSH_REP", l.buf)
      /\ failed' = failed /\ waiters' = waiters /\ draining' = draining
  BY DEF ReceiveFlushReq
<1>2. /\ a \in Addr
      /\ draining[z] = NoAddr /\ NoAddr # a
      /\ ToCacheAt(z, a) /\ Removed(toCache[z], toCache'[z], a, {m.type})
      /\ UNCHANGED <<homeVars, toDram, fromDram, memory>>
      /\ CacheAt(z, a, l, w, FALSE, toCache[z], toDir[z])
  BY <1>1, Arrives
<1> HIDE DEF m, a
<1>3. Removed(toCache[z], toCache'[z], a, {"FLUSH_REQ"})
  BY <1>1, <1>2
<1>5. WaitersAt(z, a) /\ DrainAt(z, a) /\ waiters'[z][a] = w /\ (draining'[z] = a <=> FALSE)
  BY <1>1, <1>2, Same
<1>6. CASE l.cstate = "INVALID"
  <2>1. LineAt(z, a) /\ ToDirAt(z, a) /\ line'[z][a] = l /\ toDir'[z] = toDir[z]
    BY <1>1, <1>2, <1>6, Same
  <2>2. "FLUSH_REQ" \in {"INV_REQ", "FLUSH_REQ", "WB_REQ"}
    OBVIOUS
  <2> HIDE DEF l, w
  <2>3. CacheAt(z, a, l, w, FALSE, toCache'[z], toDir[z])
    BY <1>2, <1>3, <1>6, <2>2, StaleDemandStep DEF CacheAt
  <2>4. CacheAt(z, a, line'[z][a], waiters'[z][a], FALSE, toCache'[z], toDir'[z])
    BY <1>5, <2>1, <2>3
  <2>5. CacheKeepsAt(z, a)
    BY <1>2, <1>5, <2>1 DEF CacheKeepsAt
  <2> QED BY <1>1, <1>2, <1>5, <2>4, <2>5, CacheAtKeeps
<1>7. CASE l.cstate # "INVALID"
  <2>1. LineAt(z, a) /\ line'[z][a] = InvalidLine /\ InvalidLine.cstate = "INVALID"
    BY <1>1, <1>2, <1>7, CacheFacts, LineSet
  <2>2. "FLUSH_REP" \in DirMsgType /\ l.buf \in Bufs /\ l.buf # NULL
    BY <1>2, <1>7, CacheFacts DEF DirMsgType
  <2>3. ToDirAt(z, a) /\ Appended(toDir[z], toDir'[z], a, {"FLUSH_REP"})
    <3>1. SendToDir(z, a, "FLUSH_REP", l.buf)
      BY <1>1, <1>7
    <3> HIDE DEF l
    <3> QED BY <1>2, <3>1, <2>2, SentToDir
  <2> HIDE DEF l, w
  <2>4. CacheAt(z, a, InvalidLine, w, FALSE, toCache'[z], toDir'[z])
    BY <1>2, <1>3, <1>7, <2>1, <2>3, FlushReqStep DEF CacheAt
  <2>5. CacheAt(z, a, line'[z][a], waiters'[z][a], FALSE, toCache'[z], toDir'[z])
    BY <1>5, <2>1, <2>4
  <2>6. CacheKeepsAt(z, a)
    BY <1>2, <1>5, <2>1, <2>3 DEF CacheKeepsAt
  <2> QED BY <1>1, <1>2, <1>5, <2>5, <2>6, CacheAtKeeps
<1> QED BY <1>6, <1>7

\* processWbReqFromDramDirectory keeps the invariant.
LEMMA ReceiveWbReqKeeps ==
    ASSUME CoherenceInv, config' = config, NEW z \in Node, ReceiveWbReq(z)
    PROVE  CoherenceInv'
<1> DEFINE m == Head(toCache[z])
           a == m.addr
           l == line[z][a]
           w == waiters[z][a]
<1>1. /\ Receive(z) /\ m.type = "WB_REQ"
      /\ l.cstate = "INVALID" => line' = line /\ toDir' = toDir
      /\ l.cstate = "SHARED_UPGRADING" => SendToDir(z, a, "WB_REP", UNDEF) /\ line' = line
      /\ l.cstate \notin {"INVALID", "SHARED_UPGRADING"} =>
            /\ line' = [line EXCEPT ![z][a].cstate = "SHARED"]
            /\ SendToDir(z, a, "WB_REP", l.buf)
      /\ failed' = failed /\ waiters' = waiters /\ draining' = draining
  BY DEF ReceiveWbReq
<1>2. /\ a \in Addr
      /\ draining[z] = NoAddr /\ NoAddr # a
      /\ ToCacheAt(z, a) /\ Removed(toCache[z], toCache'[z], a, {m.type})
      /\ UNCHANGED <<homeVars, toDram, fromDram, memory>>
      /\ l \in Lines
      /\ CacheAt(z, a, l, w, FALSE, toCache[z], toDir[z])
  BY <1>1, Arrives
<1> HIDE DEF m, a
<1>3. Removed(toCache[z], toCache'[z], a, {"WB_REQ"})
  BY <1>1, <1>2
<1>4. "WB_REP" \in DirMsgType /\ UNDEF # NULL
  BY DEF DirMsgType, UNDEF, NULL
<1>5. WaitersAt(z, a) /\ DrainAt(z, a) /\ waiters'[z][a] = w /\ (draining'[z] = a <=> FALSE)
  BY <1>1, <1>2, Same
<1>6. CASE l.cstate = "INVALID"
  <2>1. LineAt(z, a) /\ ToDirAt(z, a) /\ line'[z][a] = l /\ toDir'[z] = toDir[z]
    BY <1>1, <1>2, <1>6, Same
  <2>2. "WB_REQ" \in {"INV_REQ", "FLUSH_REQ", "WB_REQ"}
    OBVIOUS
  <2> HIDE DEF l, w
  <2>3. CacheAt(z, a, l, w, FALSE, toCache'[z], toDir[z])
    BY <1>2, <1>3, <1>6, <2>2, StaleDemandStep DEF CacheAt
  <2>4. CacheAt(z, a, line'[z][a], waiters'[z][a], FALSE, toCache'[z], toDir'[z])
    BY <1>5, <2>1, <2>3
  <2>5. CacheKeepsAt(z, a)
    BY <1>2, <1>5, <2>1 DEF CacheKeepsAt
  <2> QED BY <1>1, <1>2, <1>5, <2>4, <2>5, CacheAtKeeps
<1>7. CASE l.cstate = "SHARED_UPGRADING"
  <2>0. UNDEF \in Bufs
    <3>1. HomeInv(directory[a], ModeOf(queue[a], completing = a), Head(queue[a]), Protocol)
      BY <1>2, HomeFacts
    <3> HIDE DEF l, w
    <3>2. Protocol \notin {"MSI", "MESI"}
      BY <1>2, <1>3, <1>7, <3>1, WbFinds
    <3>3. Protocol \in {"MSI", "MESI", "MESIF"}
      BY <1>2, HomeFacts, ConstantsAssumption DEF Protocol
    <3> QED BY <3>2, <3>3 DEF Bufs, Clean
  <2>1. LineAt(z, a) /\ line'[z][a] = l
    BY <1>1, <1>2, <1>7, Same
  <2>2. ToDirAt(z, a) /\ Appended(toDir[z], toDir'[z], a, {"WB_REP"})
    BY <1>1, <1>2, <1>4, <1>7, <2>0, SentToDir
  <2> HIDE DEF l, w
  <2>3. CacheAt(z, a, l, w, FALSE, toCache'[z], toDir'[z])
    BY <1>2, <1>3, <1>7, <2>2, WbReqUpgradingStep DEF CacheAt
  <2>4. CacheAt(z, a, line'[z][a], waiters'[z][a], FALSE, toCache'[z], toDir'[z])
    BY <1>5, <2>1, <2>3
  <2>5. CacheKeepsAt(z, a)
    BY <1>2, <1>5, <2>1, <2>2 DEF CacheKeepsAt
  <2> QED BY <1>1, <1>2, <1>5, <2>4, <2>5, CacheAtKeeps
<1>8. CASE l.cstate \notin {"INVALID", "SHARED_UPGRADING"}
  <2> DEFINE l1 == [l EXCEPT !.cstate = "SHARED"]
  <2>1. /\ l1 \in Lines /\ l1.cstate = "SHARED" /\ l.buf \in Bufs /\ l.buf # NULL
        /\ l.cstate \in {"SHARED", "EXCLUSIVE", "MODIFIED"}
    BY <1>2, <1>8 DEF Lines, CState, Valid
  <2>2. line' = [line EXCEPT ![z][a] = l1]
    BY <1>1, <1>8
  <2> HIDE DEF l1
  <2>3. LineAt(z, a) /\ line'[z][a] = l1
    BY <1>2, <2>1, <2>2, LineSet
  <2>4. ToDirAt(z, a) /\ Appended(toDir[z], toDir'[z], a, {"WB_REP"})
    <3>1. SendToDir(z, a, "WB_REP", l.buf)
      BY <1>1, <1>8
    <3> HIDE DEF l
    <3> QED BY <1>2, <1>4, <2>1, <3>1, SentToDir
  <2> HIDE DEF l, w
  <2>5. CacheAt(z, a, l1, w, FALSE, toCache'[z], toDir'[z])
    BY <1>2, <1>3, <2>1, <2>4, WbReqStep DEF CacheAt
  <2>6. CacheAt(z, a, line'[z][a], waiters'[z][a], FALSE, toCache'[z], toDir'[z])
    BY <1>5, <2>3, <2>5
  <2>7. CacheKeepsAt(z, a)
    BY <1>2, <1>5, <2>3, <2>4 DEF CacheKeepsAt
  <2> QED BY <1>1, <1>2, <1>5, <2>6, <2>7, CacheAtKeeps
<1> QED BY <1>6, <1>7, <1>8

-----------------------------------------------------------------------------
(* The invariant and what it implies.                                       *)

\* Every directory entry of every configuration has room for all the caches (full_map).
FullMap == \A c \in Config : c.hwSharers >= c.nodes

\* The invariant holds of the empty caches and directory.
LEMMA InitHolds == Init => CoherenceInv
<1> SUFFICES ASSUME Init PROVE CoherenceInv
  OBVIOUS
<1>1. /\ config \in Config
      /\ directory = [a \in Addr |-> NewEntry] /\ resident = {} /\ replaced = {}
      /\ queue = [a \in Addr |-> <<>>] /\ completing = NoAddr
      /\ line = [n \in Node |-> [a \in Addr |-> InvalidLine]]
      /\ waiters = [n \in Node |-> [a \in Addr |-> <<>>]]
      /\ draining = [n \in Node |-> NoAddr]
      /\ toDir = [n \in Node |-> <<>>] /\ toCache = [n \in Node |-> <<>>]
      /\ toDram = <<>> /\ fromDram = <<>> /\ failed = {}
  BY DEF Init
<1>2. NewEntry \in Entry /\ InvalidLine \in Lines /\ <<>> \in Seq(Waiter) /\ NoAddr \notin Addr
  BY <1>1, MemoryAssumption DEF NewEntry, Entry, DState, InvalidLine, Lines, Valid, CState, Bufs, Addr
<1>3. memory \in [Addr -> Carried]
  <2>1. PICK d \in Data : memory = [a \in Addr |-> d]
    BY DEF Init
  <2>2. d \in Carried
    BY ConstantsAssumption DEF Carried, Bufs, NULL
  <2> QED BY <2>1, <2>2
<1>4. Types
  <2>1. line \in [Node -> [Addr -> Lines]] /\ waiters \in [Node -> [Addr -> Seq(Waiter)]]
    BY <1>1, <1>2
  <2> QED BY <1>1, <1>2, <1>3, <2>1 DEF Types
<1>5. HomeOK
  <2> SUFFICES ASSUME NEW a \in Addr
               PROVE  /\ HomeInv(directory[a], ModeOf(queue[a], completing = a), Head(queue[a]), Protocol)
                      /\ Absent(a) => directory[a].sharers = {}
                      /\ DramInv(a, ModeOf(queue[a], completing = a), Head(queue[a]), toDram, fromDram)
    BY DEF HomeOK
  <2>1. directory[a] = NewEntry /\ ModeOf(queue[a], completing = a) = "idle"
    BY <1>1 DEF ModeOf
  <2>2. HomeInv(directory[a], ModeOf(queue[a], completing = a), Head(queue[a]), Protocol)
    BY <2>1 DEF HomeInv, EntryOK, NewEntry, Owned
  <2>3. DramInv(a, ModeOf(queue[a], completing = a), Head(queue[a]), toDram, fromDram)
    BY <1>1, EmptyChannel, ChannelOrder DEF DramInv
  <2> QED BY <2>1, <2>2, <2>3 DEF NewEntry
<1>6. NodesOK
  <2> SUFFICES ASSUME NEW a \in Addr, NEW n \in Node
               PROVE  NodeInv(n, a, directory[a], ModeOf(queue[a], completing = a), Head(queue[a]),
                              RestOf(queue[a]), line[n][a], waiters[n][a], draining[n] = a,
                              toCache[n], toDir[n])
    BY DEF NodesOK
  <2>1. /\ directory[a].dstate = "UNCACHED" /\ directory[a].sharers = {}
        /\ ModeOf(queue[a], completing = a) = "idle" /\ RestOf(queue[a]) = <<>>
    BY <1>1 DEF ModeOf, RestOf, NewEntry
  <2>2. /\ line[n][a].cstate = "INVALID" /\ waiters[n][a] = <<>> /\ draining[n] # a
        /\ toCache[n] = <<>> /\ toDir[n] = <<>>
    BY <1>1, <1>2 DEF InvalidLine
  <2> DEFINE dr == draining[n] = a
             q == Head(queue[a])
  <2>3. dr = FALSE
    BY <2>2
  <2> HIDE DEF dr, q
  <2>4. NodeInv(n, a, directory[a], ModeOf(queue[a], completing = a), q,
                RestOf(queue[a]), line[n][a], waiters[n][a], dr, toCache[n], toDir[n])
    BY <2>1, <2>2, <2>3, EmptyChannel, EmptyQueue, ChannelOrder, QueueMember
       DEF NodeInv, CopyKnown, OneCopy, OneAsk, LineOK, ToCacheOK, ToDirOK, QueuedOK, Valid, Queued,
           CurAsks, HasData, HasReply, GaveUp, Asked, Live, LiveTwice, Grantee, Granted
  <2> QED BY <2>4 DEF dr, q
<1> QED BY <1>4, <1>5, <1>6 DEF CoherenceInv

\* A step that changes nothing keeps the invariant.
LEMMA StutterKeeps ==
    ASSUME CoherenceInv, UNCHANGED vars
    PROVE  CoherenceInv'
<1>1. /\ config' = config /\ directory' = directory /\ resident' = resident /\ replaced' = replaced
      /\ queue' = queue /\ completing' = completing /\ line' = line /\ waiters' = waiters
      /\ draining' = draining /\ toDir' = toDir /\ toCache' = toCache /\ toDram' = toDram
      /\ fromDram' = fromDram /\ memory' = memory /\ failed' = failed
  BY DEF vars, homeVars, cacheVars
<1>2. Types'
  BY <1>1, ConfigKept DEF CoherenceInv, Types
<1>3. HomeOK'
  BY <1>1, ConfigKept DEF CoherenceInv, HomeOK, Absent
<1>4. NodesOK'
  BY <1>1, ConfigKept DEF CoherenceInv, NodesOK
<1> QED BY <1>2, <1>3, <1>4 DEF CoherenceInv

\* Every step keeps the invariant.
LEMMA NextKeeps ==
    ASSUME FullMap, CoherenceInv, [Next]_vars
    PROVE  CoherenceInv'
<1>1. CASE UNCHANGED vars
  BY <1>1, StutterKeeps
<1>2. CASE Next
  <2>1. failed = {} /\ config' = config
    BY <1>2 DEF Next
  <2>2. MaxHwSharers >= NumNodes
    BY DEF FullMap, CoherenceInv, Types, MaxHwSharers, NumNodes
  <2>3. ASSUME NEW n \in Node, NEW a \in Addr, WriteHit(n, a) PROVE CoherenceInv'
    BY <2>1, <2>3, WriteHitKeeps
  <2>4. ASSUME NEW n \in Node, NEW a \in Addr, Evict(n, a) PROVE CoherenceInv'
    BY <2>1, <2>4, EvictKeeps
  <2>5. ASSUME NEW n \in Node, NEW a \in Addr, NEW u \in User, NEW exclusive \in BOOLEAN,
               Miss(n, a, u, exclusive)
        PROVE  CoherenceInv'
    BY <2>1, <2>5, MissKeeps
  <2>6. ASSUME NEW n \in Node, NetworkThread(n) PROVE CoherenceInv'
    BY <2>1, <2>6, NextWaiterKeeps, ReceiveDataKeeps, ReceiveUpgradeRepKeeps, ReceiveInvReqKeeps,
       ReceiveFlushReqKeeps, ReceiveWbReqKeeps DEF NetworkThread
  <2>7. CASE HomeThread
    BY <2>1, <2>2, <2>7, DirReceiveReqKeeps, DirReceiveRepKeeps, DirReceiveDramKeeps,
       DirProcessNextKeeps DEF HomeThread
  <2>8. CASE DramAccess
    BY <2>1, <2>8, DramAccessKeeps
  <2> QED BY <1>2, <2>3, <2>4, <2>5, <2>6, <2>7, <2>8 DEF Next
<1> QED BY <1>1, <1>2

\* The invariant implies single writer, a directory that knows all copies, and that no
\* assertion fails but the tolerated one.
LEMMA CoherenceFollows ==
    ASSUME CoherenceInv
    PROVE  /\ SingleWriter /\ DirectoryCoversCopies
           /\ failed \subseteq Tolerated
<1>1. ASSUME NEW a \in Addr, NEW n \in Node
      PROVE  /\ line[n][a].cstate # "INVALID" => n \in directory[a].sharers
             /\ line[n][a].cstate \in {"EXCLUSIVE", "MODIFIED"} => Owned(directory[a])
             /\ Owned(directory[a]) => directory[a].sharers = {directory[a].owner}
  <2>1. NodeInv(n, a, directory[a], ModeOf(queue[a], completing = a), Head(queue[a]),
                RestOf(queue[a]), line[n][a], waiters[n][a], draining[n] = a,
                toCache[n], toDir[n])
    BY DEF CoherenceInv, NodesOK
  <2>2. HomeInv(directory[a], ModeOf(queue[a], completing = a), Head(queue[a]), Protocol)
    BY DEF CoherenceInv, HomeOK
  <2>3. Owned(directory[a]) => directory[a].sharers = {directory[a].owner}
    BY <2>2 DEF HomeInv, EntryOK
  <2>4. line[n][a].cstate # "INVALID" => n \in directory[a].sharers
    BY <2>1 DEF NodeInv, CopyKnown, Valid
  <2>5. line[n][a].cstate \in {"EXCLUSIVE", "MODIFIED"} => Owned(directory[a])
    BY <2>1 DEF NodeInv, LineOK
  <2> QED BY <2>3, <2>4, <2>5
<1>2. SingleWriter
  BY <1>1 DEF SingleWriter
<1>3. DirectoryCoversCopies
  BY <1>1 DEF DirectoryCoversCopies, Owned
<1> QED BY <1>2, <1>3 DEF CoherenceInv, Types

\* A set with at most one element.
LEMMA CountOne ==
    ASSUME NEW S, \A i, j \in S : i = j
    PROVE  Cardinality(S) = IF S = {} THEN 0 ELSE 1
<1>1. CASE S = {}
  BY <1>1, FS_EmptySet
<1>2. CASE S # {}
  <2>1. PICK x : x \in S
    BY <1>2
  <2>2. S = {x}
    BY <2>1
  <2> QED BY <1>2, <2>2, FS_Singleton
<1> QED BY <1>1, <1>2

\* The packets of types T for line a, and their number when no two are under way.
Of(s, a, T) == {i \in DOMAIN s : s[i].addr = a /\ s[i].type \in T}

\* There is one packet of the types T for line a, or none.
LEMMA PacketCount ==
    ASSUME NEW M, NEW s \in Seq(M), NEW a, NEW T, \A t, u \in T : ~After(s, a, t, u)
    PROVE  Cardinality(Of(s, a, T)) = IF \E t \in T : Has(s, a, t) THEN 1 ELSE 0
<1> DEFINE S == {i \in DOMAIN s : s[i].addr = a /\ s[i].type \in T}
<1>1. DOMAIN s = 1 .. Len(s) /\ Len(s) \in Nat
  OBVIOUS
<1>2. ASSUME NEW i \in S, NEW j \in S PROVE ~(i < j)
  <2>1. i \in 1 .. Len(s) /\ j \in 1 .. Len(s) /\ Is(s[i], a, s[i].type) /\ Is(s[j], a, s[j].type)
    BY <1>1 DEF Is
  <2>2. ~After(s, a, s[i].type, s[j].type)
    OBVIOUS
  <2> QED BY <2>1, <2>2 DEF After
<1>3. \A i, j \in S : i = j
  <2> SUFFICES ASSUME NEW i \in S, NEW j \in S PROVE i = j
    OBVIOUS
  <2>1. i \in Int /\ j \in Int
    BY <1>1
  <2> HIDE DEF S
  <2> QED BY <1>2, <2>1
<1>4. S # {} <=> \E t \in T : Has(s, a, t)
  BY <1>1 DEF Has, Is
<1> HIDE DEF S
<1>5. Cardinality(S) = IF S = {} THEN 0 ELSE 1
  BY <1>3, CountOne
<1>6. Cardinality(S) = IF \E t \in T : Has(s, a, t) THEN 1 ELSE 0
  BY <1>4, <1>5
<1> QED BY <1>6 DEF S, Of

\* The requests of one cache in the queue of a line.
LEMMA QueueCount ==
    ASSUME NEW qs \in Seq(Reqs), RestOf(qs) \in Seq(FreshReq), NEW n, NEW done \in BOOLEAN,
           ~(CurAsks(n, ModeOf(qs, done), Head(qs)) /\ QAny(RestOf(qs), n)),
           ~QTwice(RestOf(qs), n)
    PROVE  LET S == {i \in DOMAIN qs : /\ qs[i].requester = n
                                       /\ qs[i].type \in ReqType
                                       /\ ~(i = 1 /\ done)}
           IN  Cardinality(S) = IF Queued(n, ModeOf(qs, done), Head(qs), RestOf(qs)) THEN 1 ELSE 0
<1> DEFINE S == {i \in DOMAIN qs : /\ qs[i].requester = n
                                   /\ qs[i].type \in ReqType
                                   /\ ~(i = 1 /\ done)}
           r == RestOf(qs)
           L == Len(qs)
<1>1. DOMAIN qs = 1 .. L /\ L \in Nat /\ \A i \in 1 .. L : qs[i] \in Reqs
  OBVIOUS
<1>2. CASE qs = <<>>
  <2>1. S = {}
    BY <1>2
  <2>2. ~Queued(n, ModeOf(qs, done), Head(qs), r)
    BY <1>2, EmptyQueue DEF Queued, CurAsks, ModeOf, RestOf
  <2> QED BY <2>1, <2>2, FS_EmptySet
<1>3. CASE qs # <<>>
  <2>1. r = Tail(qs) /\ L >= 1 /\ Head(qs) = qs[1] /\ Len(r) = L - 1
    BY <1>3 DEF RestOf
  <2>2. \A i \in 1 .. L - 1 : r[i] = qs[i + 1]
    BY <2>1
  <2>3. \A i \in 1 .. L - 1 : r[i].type \in ReqType
    <3>1. r \in Seq(FreshReq)
      OBVIOUS
    <3>2. \A i \in 1 .. Len(r) : r[i] \in FreshReq
      BY <3>1
    <3> QED BY <2>1, <3>2 DEF FreshReq, Reqs
  <2> HIDE DEF r
  <2>4. 1 \in S <=> CurAsks(n, ModeOf(qs, done), Head(qs))
    <3>1. qs[1].type \in ReqType <=> qs[1].type # "NULLIFY_REQ"
      BY <1>1, <2>1 DEF Reqs, ReqType
    <3> QED BY <1>1, <1>3, <2>1, <3>1 DEF CurAsks, ModeOf
  <2>5. \A i \in 1 .. L - 1 : i + 1 \in S <=> r[i].requester = n
    BY <1>1, <2>1, <2>2, <2>3
  <2>6. \A i \in S : i = 1 \/ (i - 1 \in 1 .. L - 1 /\ r[i - 1].requester = n)
    <3> SUFFICES ASSUME NEW i \in S, i # 1 PROVE i - 1 \in 1 .. L - 1 /\ r[i - 1].requester = n
      OBVIOUS
    <3>1. i \in 2 .. L
      BY <1>1
    <3>2. i - 1 \in 1 .. L - 1 /\ (i - 1) + 1 = i
      BY <1>1, <3>1
    <3> QED BY <2>5, <3>2
  <2>7. S # {} <=> Queued(n, ModeOf(qs, done), Head(qs), r)
    <3>1. ASSUME Queued(n, ModeOf(qs, done), Head(qs), r) PROVE S # {}
      <4>1. CASE CurAsks(n, ModeOf(qs, done), Head(qs))
        BY <2>4, <4>1
      <4>2. CASE QAny(r, n)
        <5>1. PICK i \in 1 .. L - 1 : r[i].requester = n
          BY <2>1, <4>2 DEF QAny
        <5> QED BY <2>5, <5>1
      <4> QED BY <3>1, <4>1, <4>2 DEF Queued
    <3>2. ASSUME NEW i \in S PROVE Queued(n, ModeOf(qs, done), Head(qs), r)
      <4>1. CASE i = 1
        BY <2>4, <3>2, <4>1 DEF Queued
      <4>2. CASE i # 1
        BY <2>1, <2>6, <3>2, <4>2 DEF Queued, QAny
      <4> QED BY <4>1, <4>2
    <3> QED BY <3>1, <3>2
  <2>8. ASSUME NEW i \in S, NEW j \in S PROVE ~(i < j)
    <3> SUFFICES ASSUME i < j PROVE FALSE
      OBVIOUS
    <3>1. i \in 1 .. L /\ j \in 1 .. L
      BY <1>1
    <3> HIDE DEF S
    <3>2. j # 1 /\ j - 1 \in 1 .. L - 1 /\ r[j - 1].requester = n
      BY <2>6, <3>1
    <3>3. QAny(r, n)
      BY <2>1, <3>2 DEF QAny
    <3>4. i # 1
      BY <2>4, <3>3 DEF r
    <3>5. i - 1 \in 1 .. L - 1 /\ r[i - 1].requester = n
      BY <2>6, <3>4
    <3>6. i - 1 < j - 1
      BY <3>1
    <3>7. QTwice(r, n)
      BY <2>1, <3>2, <3>5, <3>6 DEF QTwice
    <3> QED BY <3>7 DEF r
  <2>9. \A i, j \in S : i = j
    <3> SUFFICES ASSUME NEW i \in S, NEW j \in S PROVE i = j
      OBVIOUS
    <3>1. i \in Int /\ j \in Int
      BY <1>1
    <3> HIDE DEF S
    <3> QED BY <2>8, <3>1
  <2> HIDE DEF S
  <2>10. Cardinality(S) = IF S = {} THEN 0 ELSE 1
    BY <2>9, CountOne
  <2>11. Cardinality(S) = IF Queued(n, ModeOf(qs, done), Head(qs), r) THEN 1 ELSE 0
    BY <2>7, <2>10
  <2> QED BY <2>11 DEF S, r
<1> QED BY <1>2, <1>3

\* The invariant implies that a cache has one request under way for a line on which its threads
\* wait, and none for the others.
LEMMA OneRequestFollows ==
    ASSUME CoherenceInv
    PROVE  OneRequestPerLine
<1> SUFFICES ASSUME NEW n \in Node, NEW a \in Addr
             PROVE  Requests(n, a) = IF waiters[n][a] # <<>> /\ draining[n] # a THEN 1 ELSE 0
  BY DEF OneRequestPerLine
<1> DEFINE done == completing = a
           d == toDir[n]
           s == toCache[n]
           qs == queue[a]
           mode == ModeOf(qs, done)
           A == {i \in DOMAIN d : d[i].addr = a /\ d[i].type \in ReqType}
           Q == {i \in DOMAIN qs : /\ qs[i].requester = n
                                   /\ qs[i].type \in ReqType
                                   /\ ~(i = 1 /\ done)}
           R == {i \in DOMAIN s : s[i].addr = a /\ s[i].type \in {"EX_REP", "SH_REP", "UPGRADE_REP"}}
<1>1. Requests(n, a) = Cardinality(A) + Cardinality(Q) + Cardinality(R)
  <2>1. R = {i \in DOMAIN s : /\ s[i].addr = a
                              /\ s[i].type \in {"EX_REP", "SH_REP", "UPGRADE_REP"}}
    OBVIOUS
  <2> QED BY <2>1 DEF Requests
<1>2. OneAsk(n, a, mode, Head(qs), RestOf(qs), waiters[n][a], draining[n] = a, s, d)
  BY DEF CoherenceInv, NodesOK, NodeInv
<1>3. /\ d \in Seq(DirPackets) /\ s \in Seq(CachePackets)
      /\ qs \in Seq(Reqs) /\ RestOf(qs) \in Seq(FreshReq)
  BY HomeFacts DEF CoherenceInv, Types
<1> HIDE DEF d, s, qs, done
<1>4. Cardinality(A) = IF Asked(d, a) THEN 1 ELSE 0
  <2>1. \A t, u \in ReqType : ~After(d, a, t, u)
    BY <1>2 DEF OneAsk, ReqType
  <2>2. Cardinality(Of(d, a, ReqType)) = IF \E t \in ReqType : Has(d, a, t) THEN 1 ELSE 0
    BY <1>3, <2>1, PacketCount
  <2>4. A = Of(d, a, ReqType)
    BY DEF Of
  <2>3. (\E t \in ReqType : Has(d, a, t)) <=> Asked(d, a)
    BY DEF ReqType, Asked
  <2> HIDE DEF A
  <2> QED BY <2>2, <2>3, <2>4
<1>5. Cardinality(Q) = IF Queued(n, mode, Head(qs), RestOf(qs)) THEN 1 ELSE 0
  <2>1. /\ ~(CurAsks(n, ModeOf(qs, done), Head(qs)) /\ QAny(RestOf(qs), n))
        /\ ~QTwice(RestOf(qs), n)
    BY <1>2 DEF OneAsk
  <2>2. done \in BOOLEAN
    BY DEF done
  <2> QED BY <1>3, <2>1, <2>2, QueueCount
<1>6. Cardinality(R) = IF HasReply(s, a) THEN 1 ELSE 0
  <2> DEFINE T == {"EX_REP", "SH_REP", "UPGRADE_REP"}
  <2>1. \A t, u \in T : ~After(s, a, t, u)
    BY <1>2 DEF OneAsk
  <2>2. (\E t \in T : Has(s, a, t)) <=> HasReply(s, a)
    BY DEF HasReply, HasData
  <2> HIDE DEF T
  <2>3. Cardinality(Of(s, a, T)) = IF \E t \in T : Has(s, a, t) THEN 1 ELSE 0
    BY <1>3, <2>1, PacketCount
  <2>4. R = Of(s, a, T)
    BY DEF Of, T
  <2> HIDE DEF R
  <2> QED BY <2>2, <2>3, <2>4
<1>7. /\ Asked(d, a) \/ Queued(n, mode, Head(qs), RestOf(qs)) \/ HasReply(s, a)
           <=> waiters[n][a] # <<>> /\ draining[n] # a
      /\ ~(Asked(d, a) /\ Queued(n, mode, Head(qs), RestOf(qs)))
      /\ ~(Asked(d, a) /\ HasReply(s, a))
      /\ ~(Queued(n, mode, Head(qs), RestOf(qs)) /\ HasReply(s, a))
  BY <1>2 DEF OneAsk
<1> HIDE DEF A, Q, R, mode
<1> QED BY <1>1, <1>4, <1>5, <1>6, <1>7

-----------------------------------------------------------------------------
(* The theorems.                                                            *)

\* Every directory set of every configuration has an entry for every line.
EntryPerLine == \A c \in Config : IsFiniteSet(c.addr) /\ Cardinality(c.addr) <= c.entries

\* The invariant implies the types.
LEMMA TypesHold ==
    ASSUME CoherenceInv
    PROVE  TypeOK
<1> DEFINE L == [cstate : CState, buf : Buffer]
           PC == Packets(CacheMsgType)
           PD == Packets(DirMsgType)
           PM == Packets({"DRAM_READ_REQ", "DRAM_WRITE_REQ"})
           PR == Packets({"DRAM_READ_REP"})
<1>1. Types
  BY DEF CoherenceInv
<1>2. Bufs \subseteq Buffer
  BY DEF Bufs, Buffer
<1>3. /\ CachePackets \subseteq PC /\ DirPackets \subseteq PD /\ DramPackets \subseteq PM
      /\ ReplyPackets \subseteq PR /\ Lines \subseteq L /\ Carried \subseteq Buffer
      /\ Reqs \subseteq ShmemReq
  BY <1>2 DEF CachePackets, DirPackets, DramPackets, ReplyPackets, Lines, Carried, Pkts, Packets,
              Reqs, ShmemReq
<1> HIDE DEF L, PC, PD, PM, PR
<1>4. line \in [Node -> [Addr -> L]] /\ memory \in [Addr -> Buffer]
  BY <1>1, <1>3 DEF Types
<1>5. /\ Seq(CachePackets) \subseteq Seq(PC) /\ Seq(DirPackets) \subseteq Seq(PD)
      /\ Seq(DramPackets) \subseteq Seq(PM) /\ Seq(ReplyPackets) \subseteq Seq(PR)
      /\ Seq(Reqs) \subseteq Seq(ShmemReq)
  BY <1>3
<1>6. /\ toCache \in [Node -> Seq(PC)] /\ toDir \in [Node -> Seq(PD)]
      /\ toDram \in Seq(PM) /\ fromDram \in Seq(PR) /\ queue \in [Addr -> Seq(ShmemReq)]
  BY <1>1, <1>5 DEF Types
<1> QED BY <1>1, <1>4, <1>6 DEF Types, TypeOK, L, PC, PD, PM, PR

\* The invariant implies that no buffer holds undefined data.
LEMMA DataIsDefined ==
    ASSUME CoherenceInv
    PROVE  NoUndefinedData
<1> SUFFICES ASSUME Clean, NEW n \in Node
             PROVE  /\ \A i \in DOMAIN toCache[n] : toCache[n][i].buf # UNDEF
                    /\ \A i \in DOMAIN toDir[n] : toDir[n][i].buf # UNDEF
  BY DEF NoUndefinedData, Clean
<1>1. UNDEF \notin Bufs
  BY ConstantsAssumption DEF Bufs, UNDEF, NULL
<1>2. toCache[n] \in Seq(CachePackets) /\ toDir[n] \in Seq(DirPackets)
  BY DEF CoherenceInv, Types
<1>3. (\A m \in CachePackets : m.buf # UNDEF) /\ (\A m \in DirPackets : m.buf # UNDEF)
  BY <1>1 DEF CachePackets, DirPackets, Pkts
<1> QED BY <1>2, <1>3

\* The invariant implies that no assertion fails if every line has an entry.
LEMMA AssertionsFollow ==
    ASSUME EntryPerLine, CoherenceInv
    PROVE  AssertionsHold
<1>1. Fits
  BY DEF EntryPerLine, CoherenceInv, Types, Fits, Addr, DirEntries
<1> QED BY <1>1 DEF CoherenceInv, Types, Tolerated, AssertionsHold

\* CoherenceInv is an invariant of the protocol of directory, caches and DRAM, for every number of
\* caches and lines, every protocol and every size of the directory, if its entries are full maps.
THEOREM Coherence == FullMap => (Spec => []CoherenceInv)
<1> SUFFICES ASSUME FullMap PROVE Spec => []CoherenceInv
  OBVIOUS
<1>1. Init => CoherenceInv
  BY InitHolds
<1>2. CoherenceInv /\ [Next]_vars => CoherenceInv'
  BY NextKeeps
<1> QED BY <1>1, <1>2, PTL DEF Spec

\* No two caches have a line if one of them may write it (getCacheBlockInfo state EXCLUSIVE or
\* MODIFIED), whatever requests, evictions and replacements are under way.
THEOREM SingleWriterHolds == FullMap => (Spec => []SingleWriter)
<1> SUFFICES ASSUME FullMap PROVE Spec => []SingleWriter
  OBVIOUS
<1>1. Spec => []CoherenceInv
  BY Coherence
<1>2. CoherenceInv => SingleWriter
  BY CoherenceFollows
<1> QED BY <1>1, <1>2, PTL

\* The sharers of a directory entry include every cache with a copy of the line.
THEOREM DirectoryHolds == FullMap => (Spec => []DirectoryCoversCopies)
<1> SUFFICES ASSUME FullMap PROVE Spec => []DirectoryCoversCopies
  OBVIOUS
<1>1. Spec => []CoherenceInv
  BY Coherence
<1>2. CoherenceInv => DirectoryCoversCopies
  BY CoherenceFollows
<1> QED BY <1>1, <1>2, PTL

\* The first waiter of a line has the one request under way; the others join it (the assertions on
\* waiters in cache_cntlr.cc).
THEOREM OneRequestPerLineHolds == FullMap => (Spec => []OneRequestPerLine)
<1> SUFFICES ASSUME FullMap PROVE Spec => []OneRequestPerLine
  OBVIOUS
<1>1. Spec => []CoherenceInv
  BY Coherence
<1>2. CoherenceInv => OneRequestPerLine
  BY OneRequestFollows
<1> QED BY <1>1, <1>2, PTL

\* Whatever the sizes of the directory, one assertion may fail only: all the entries of a set are busy
\* when getDirectoryEntry must replace one.
THEOREM OnlyReplacementFails ==
    FullMap => (Spec => [](failed \subseteq {"no directory entry to replace"}))
<1> SUFFICES ASSUME FullMap
             PROVE  Spec => [](failed \subseteq {"no directory entry to replace"})
  OBVIOUS
<1>1. Spec => []CoherenceInv
  BY Coherence
<1>2. CoherenceInv => failed \subseteq {"no directory entry to replace"}
  BY CoherenceFollows DEF Tolerated
<1> QED BY <1>1, <1>2, PTL

\* No assertion of the protocol fails (wrong states, missing sharers, missing waiters, no entry to
\* replace), if directory sets have an entry for every line.
THEOREM NoFaultHolds == FullMap /\ EntryPerLine => (Spec => []NoFault)
<1> SUFFICES ASSUME FullMap, EntryPerLine PROVE Spec => []NoFault
  OBVIOUS
<1>1. Spec => []CoherenceInv
  BY Coherence
<1>2. CoherenceInv => NoFault
  BY TypesHold, AssertionsFollow, DataIsDefined DEF NoFault
<1> QED BY <1>1, <1>2, PTL
=============================================================================
