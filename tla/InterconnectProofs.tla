------------------------- MODULE InterconnectProofs -------------------------
(***************************************************************************)
(* Proofs about the interconnect, the host objects and the SMT barrier.    *)
(***************************************************************************)
EXTENDS Interconnect, FiniteSetTheorems, TLAPS

-----------------------------------------------------------------------------
(* The network.  What matters of a packet is the host thread that sent it,  *)
(* its number among the packets of that thread and its receiver; the times  *)
(* it is given do not.                                                      *)

IsSeq(q) == q \in Seq({q[i] : i \in DOMAIN q})
IsPacket(p) ==
    /\ "by" \in DOMAIN p /\ "seq" \in DOMAIN p /\ "dest" \in DOMAIN p
    /\ p.by \in Caller /\ p.dest \in Core
    /\ p.seq \in 1 .. Len(sent[p.by])
    /\ sent[p.by][p.seq] \in {p.dest, Broadcast}
ArePackets(q) == IsSeq(q) /\ \A i \in DOMAIN q : IsPacket(q[i])

\* The configuration is one of those assumed, and the queues hold packets that were sent.
Typed ==
    /\ config \in Config
    /\ sent \in [Caller -> Seq(Core \cup {Broadcast})]
    /\ DOMAIN sending = Caller /\ DOMAIN transport = Core /\ DOMAIN received = Core
    /\ \A k \in Caller : ArePackets(sending[k])
    /\ \A c \in Core : ArePackets(transport[c]) /\ ArePackets(received[c])

\* A thread's netSend holds hops of its last packet, to different receivers.
Hopping(p, c, n) ==
    /\ \A i \in DOMAIN p : p[i].by = c /\ p[i].seq = n
    /\ \A i, j \in DOMAIN p : i # j => p[i].dest # p[j].dest
OwnPacket(c) == Hopping(sending[c], c, Len(sent[c]))

\* What is on its way to a receiver, or was given to it, is for it and in the order sent.
Ordered(q, r) ==
    /\ \A i \in DOMAIN q : q[i].dest = r
    /\ \A i, j \in DOMAIN q : i < j /\ q[i].by = q[j].by => q[i].seq < q[j].seq
Before(p, q) == \A i \in DOMAIN p, j \in DOMAIN q : p[i].by = q[j].by => p[i].seq < q[j].seq
\* Nothing in q, of receiver r, is of a packet that c has still to deliver there.
Later(p, c, q, r) ==
    \A i \in DOMAIN p, j \in DOMAIN q : p[i].dest = r /\ q[j].by = c => q[j].seq < p[i].seq
NotYet(c, q, r) == Later(sending[c], c, q, r)
InOrder ==
    \A r \in Core :
        /\ Ordered(transport[r], r) /\ Ordered(received[r], r) /\ Before(received[r], transport[r])
        /\ \A c \in Caller : NotYet(c, transport[r], r) /\ NotYet(c, received[r], r)

\* A packet is somewhere, for each of its receivers.
Has(q, s, n, r) == \E i \in DOMAIN q : q[i].by = s /\ q[i].seq = n /\ q[i].dest = r
Somewhere ==
    \A s \in Caller, r \in Core : \A n \in DOMAIN sent[s] :
        sent[s][n] \in {r, Broadcast} =>
            Has(sending[s], s, n, r) \/ Has(transport[r], s, n, r) \/ Has(received[r], s, n, r)

NetInv == Typed /\ (\A c \in Caller : OwnPacket(c)) /\ InOrder /\ Somewhere

LEMMA AppendSeq ==
    ASSUME NEW q, IsSeq(q), NEW x
    PROVE  /\ IsSeq(Append(q, x)) /\ Len(q) \in Nat /\ DOMAIN q = 1 .. Len(q)
           /\ DOMAIN Append(q, x) = 1 .. Len(q) + 1 /\ Append(q, x)[Len(q) + 1] = x
           /\ \A i \in DOMAIN q : i # Len(q) + 1 /\ Append(q, x)[i] = q[i]
<1> DEFINE S == {q[i] : i \in DOMAIN q} \cup {x}
           a == Append(q, x)
<1>1. q \in Seq({q[i] : i \in DOMAIN q})
  BY DEF IsSeq
<1>2. \A T : q \in Seq(T) => q \in Seq(T \cup {x})
  OBVIOUS
<1>3. q \in Seq(S) /\ x \in S
  BY <1>1, <1>2
<1> HIDE DEF S
<1>4. /\ a \in Seq(S) /\ Len(q) \in Nat /\ DOMAIN q = 1 .. Len(q)
      /\ DOMAIN a = 1 .. Len(q) + 1 /\ a[Len(q) + 1] = x /\ Len(a) = Len(q) + 1
      /\ \A i \in DOMAIN q : a[i] = q[i]
  BY <1>3
<1>5. \A i \in DOMAIN q : i # Len(q) + 1
  BY <1>4
<1>6. IsSeq(a)
  <2> HIDE DEF a
  <2>1. a \in [1 .. Len(a) -> {a[i] : i \in DOMAIN a}] /\ Len(a) \in Nat
    BY <1>4
  <2> QED
    BY <2>1 DEF IsSeq
<1> QED
  BY <1>4, <1>5, <1>6

LEMMA TailSeq ==
    ASSUME NEW q, IsSeq(q), q # <<>>
    PROVE  /\ IsSeq(Tail(q)) /\ Len(q) \in Nat /\ Len(q) > 0 /\ DOMAIN q = 1 .. Len(q)
           /\ DOMAIN Tail(q) = 1 .. Len(q) - 1 /\ Head(q) = q[1] /\ 1 \in DOMAIN q
           /\ Len(Tail(q)) = Len(q) - 1
           /\ \A i \in DOMAIN Tail(q) : i + 1 \in DOMAIN q /\ 1 < i + 1 /\ Tail(q)[i] = q[i + 1]
           /\ \A i \in DOMAIN q : i # 1 => i - 1 \in DOMAIN Tail(q) /\ Tail(q)[i - 1] = q[i]
<1> DEFINE t == Tail(q)
<1>1. PICK S : q \in Seq(S)
  BY DEF IsSeq
<1>2. /\ t \in Seq(S) /\ Len(q) \in Nat /\ Len(q) > 0 /\ DOMAIN q = 1 .. Len(q)
      /\ DOMAIN t = 1 .. Len(q) - 1 /\ Len(t) = Len(q) - 1 /\ Head(q) = q[1]
      /\ \A i \in 1 .. Len(q) - 1 : t[i] = q[i + 1]
  BY <1>1
<1>3. \A i \in 1 .. Len(q) - 1 : i + 1 \in 1 .. Len(q) /\ 1 < i + 1
  BY <1>2
<1>4. \A i \in 1 .. Len(q) : i # 1 => i - 1 \in 1 .. Len(q) - 1 /\ (i - 1) + 1 = i
  BY <1>2
<1>5. \A i \in 1 .. Len(q) : i # 1 => i - 1 \in DOMAIN t /\ t[i - 1] = q[i]
  <2> SUFFICES ASSUME NEW i \in 1 .. Len(q), i # 1
               PROVE  i - 1 \in DOMAIN t /\ t[i - 1] = q[i]
    OBVIOUS
  <2>1. PICK k \in 1 .. Len(q) - 1 : k = i - 1 /\ k + 1 = i
    BY <1>4
  <2> QED
    BY <1>2, <2>1
<1>6. IsSeq(t)
  <2> HIDE DEF t
  <2>1. t \in [1 .. Len(t) -> {t[i] : i \in DOMAIN t}] /\ Len(t) \in Nat
    BY <1>2
  <2> QED
    BY <2>1 DEF IsSeq
<1>7. 1 \in DOMAIN q
  BY <1>2
<1> QED
  BY <1>2, <1>3, <1>5, <1>6, <1>7

LEMMA FunctionSeq ==
    ASSUME NEW n \in Nat, NEW f, f = [i \in 1 .. n |-> f[i]]
    PROVE  IsSeq(f)
<1>1. f \in [1 .. n -> {f[i] : i \in DOMAIN f}]
  OBVIOUS
<1> QED
  BY <1>1 DEF IsSeq

\* Every model routes a packet to each of its receivers, in the order of their numbers.
LEMMA RouteHops ==
    ASSUME config \in Config, NEW c, NEW pkt, NEW r, r = RoutePacket(c, pkt)
    PROVE  /\ DOMAIN r.hops = DOMAIN Receivers(pkt.dest)
           /\ \A i \in DOMAIN r.hops : r.hops[i].dest = Receivers(pkt.dest)[i]
<1>1. config.model \in Model
  BY NetworkAssumption
<1>2. CASE config.model = "magic"
  BY <1>2 DEF RoutePacket, RouteMagic, ToAll, Hops
<1>3. CASE config.model = "bus"
  BY <1>3 DEF RoutePacket, RouteBus, ToAll, Hops
<1>4. CASE config.model = "emesh_hop_counter"
  BY <1>4 DEF RoutePacket, RouteHopCounter, ToAll, Hops
<1>5. CASE config.model = "emesh_hop_by_hop"
  BY <1>5 DEF RoutePacket, RouteMesh, ToAll, Hops
<1> QED
  BY <1>1, <1>2, <1>3, <1>4, <1>5 DEF Model

LEMMA ReceiversOf ==
    ASSUME config \in Config, NEW dest \in Core \cup {Broadcast}
    PROVE  /\ \E n \in Nat : DOMAIN Receivers(dest) = 1 .. n
           /\ \A i \in DOMAIN Receivers(dest) :
                 Receivers(dest)[i] \in Core /\ dest \in {Receivers(dest)[i], Broadcast}
           /\ \A i, j \in DOMAIN Receivers(dest) : i # j => Receivers(dest)[i] # Receivers(dest)[j]
           /\ \A r \in Core : dest \in {r, Broadcast} =>
                 \E i \in DOMAIN Receivers(dest) : Receivers(dest)[i] = r
           /\ dest # Broadcast => DOMAIN Receivers(dest) = {1} /\ Receivers(dest)[1] = dest
<1>1. config.cores \in Nat /\ Broadcast \notin Core
  BY NetworkAssumption DEF Core
<1>2. CASE dest = Broadcast
  <2>1. /\ DOMAIN Receivers(dest) = 1 .. config.cores
        /\ \A i \in 1 .. config.cores : Receivers(dest)[i] = i - 1
    BY <1>2 DEF Receivers, AllCores
  <2>2. \A r \in Core : r + 1 \in 1 .. config.cores /\ (r + 1) - 1 = r
    BY <1>1 DEF Core
  <2>3. \A i \in 1 .. config.cores : i - 1 \in Core
    BY <1>1 DEF Core
  <2>4. \A i, j \in 1 .. config.cores : i # j => i - 1 # j - 1
    OBVIOUS
  <2>5. \A r \in Core : \E i \in DOMAIN Receivers(dest) : Receivers(dest)[i] = r
    <3> TAKE r \in Core
    <3>1. PICK i \in 1 .. config.cores : i - 1 = r
      BY <2>2
    <3> QED
      BY <2>1, <3>1
  <2> QED
    BY <1>1, <1>2, <2>1, <2>3, <2>4, <2>5
<1>3. CASE dest # Broadcast
  <2>1. Receivers(dest) = <<dest>> /\ dest \in Core
    BY <1>3 DEF Receivers
  <2>2. DOMAIN <<dest>> = 1 .. 1 /\ <<dest>>[1] = dest /\ 1 .. 1 = {1}
    OBVIOUS
  <2> QED
    BY <1>1, <1>3, <2>1, <2>2
<1> QED
  BY <1>2, <1>3

-----------------------------------------------------------------------------
(* Steps that change only the times and the next hops of packets.           *)

SameKeys(p, q) ==
    /\ DOMAIN q = DOMAIN p
    /\ \A i \in DOMAIN p : q[i].by = p[i].by /\ q[i].seq = p[i].seq /\ q[i].dest = p[i].dest

LEMMA OrderedKept ==
    ASSUME NEW p, NEW q, SameKeys(p, q), NEW r, Ordered(p, r)
    PROVE  Ordered(q, r)
  BY DEF Ordered, SameKeys

LEMMA BeforeKept ==
    ASSUME NEW p1, NEW q1, SameKeys(p1, q1), NEW p2, NEW q2, SameKeys(p2, q2), Before(p1, p2)
    PROVE  Before(q1, q2)
  BY DEF Before, SameKeys

LEMMA HasKept ==
    ASSUME NEW p, NEW q, SameKeys(p, q), NEW s, NEW n, NEW r, Has(p, s, n, r)
    PROVE  Has(q, s, n, r)
  BY DEF Has, SameKeys

LEMMA SameIsSame == \A p : SameKeys(p, p)
  BY DEF SameKeys

LEMMA NotYetKept ==
    ASSUME NEW c, NEW p, NEW q, SameKeys(p, q), NEW r, NotYet(c, p, r),
           SameKeys(sending[c], sending'[c])
    PROVE  Later(sending'[c], c, q, r)
  BY DEF NotYet, Later, SameKeys

LEMMA KeysKept ==
    ASSUME NetInv, config' = config, sent' = sent,
           \A c \in Caller : SameKeys(sending[c], sending'[c]),
           \A c \in Core : /\ SameKeys(transport[c], transport'[c])
                           /\ SameKeys(received[c], received'[c])
    PROVE  (\A c \in Caller : OwnPacket(c))' /\ InOrder' /\ Somewhere'
<1>1. Core' = Core /\ Caller' = Caller
  BY DEF Core, Caller
<1>2. \A c \in Caller : OwnPacket(c)'
  <2> TAKE c \in Caller
  <2>1. OwnPacket(c) /\ SameKeys(sending[c], sending'[c])
    BY DEF NetInv
  <2> QED
    BY <2>1 DEF OwnPacket, Hopping, SameKeys
<1>3. InOrder'
  <2>1. \A r \in Core :
          /\ Ordered(transport'[r], r) /\ Ordered(received'[r], r)
          /\ Before(received'[r], transport'[r])
    BY OrderedKept, BeforeKept DEF NetInv, InOrder
  <2>2. ASSUME NEW r \in Core, NEW c \in Caller
        PROVE  NotYet(c, transport[r], r)' /\ NotYet(c, received[r], r)'
    <3>1. /\ NotYet(c, transport[r], r) /\ NotYet(c, received[r], r)
          /\ SameKeys(sending[c], sending'[c]) /\ SameKeys(transport[r], transport'[r])
          /\ SameKeys(received[r], received'[r])
      BY DEF NetInv, InOrder
    <3>2. NotYet(c, transport[r], r)'
      BY <3>1, NotYetKept DEF NotYet, Later
    <3>3. NotYet(c, received[r], r)'
      BY <3>1, NotYetKept DEF NotYet, Later
    <3> QED
      BY <3>2, <3>3
  <2> QED
    BY <1>1, <2>1, <2>2 DEF InOrder, Ordered, Before
<1>4. Somewhere'
  <2>1. \A s \in Caller, r \in Core : \A n \in DOMAIN sent[s] :
          sent[s][n] \in {r, Broadcast} =>
            Has(sending[s], s, n, r) \/ Has(transport[r], s, n, r) \/ Has(received[r], s, n, r)
    BY DEF NetInv, Somewhere
  <2>2. \A s \in Caller, r \in Core : \A n :
          /\ Has(sending[s], s, n, r) => Has(sending'[s], s, n, r)
          /\ Has(transport[r], s, n, r) => Has(transport'[r], s, n, r)
          /\ Has(received[r], s, n, r) => Has(received'[r], s, n, r)
    BY HasKept
  <2>3. \A s \in Caller, r \in Core : \A n \in DOMAIN sent[s] :
          sent[s][n] \in {r, Broadcast} =>
            Has(sending'[s], s, n, r) \/ Has(transport'[r], s, n, r) \/ Has(received'[r], s, n, r)
    BY <2>1, <2>2
  <2> QED
    BY <1>1, <2>3 DEF Somewhere, Has
<1> QED
  BY <1>1, <1>2, <1>3, <1>4

\* Typed for the queues after a step, when nothing is sent.
LEMMA TypedKept ==
    ASSUME Typed, config' = config, sent' = sent,
           DOMAIN sending' = Caller, DOMAIN transport' = Core, DOMAIN received' = Core,
           \A c \in Caller : ArePackets(sending'[c]),
           \A c \in Core : ArePackets(transport'[c]) /\ ArePackets(received'[c])
    PROVE  Typed'
<1>1. Core' = Core /\ Caller' = Caller
  BY DEF Core, Caller
<1>2. \A p : IsPacket(p) => IsPacket(p)'
  BY <1>1 DEF IsPacket
<1>3. /\ \A c \in Caller : ArePackets(sending[c])'
      /\ \A c \in Core : ArePackets(transport[c])' /\ ArePackets(received[c])'
  BY <1>1, <1>2 DEF ArePackets, IsPacket, IsSeq
<1> QED
  BY <1>1, <1>3 DEF Typed

LEMMA ConsSeq ==
    ASSUME NEW q, IsSeq(q), q # <<>>, NEW x
    PROVE  /\ IsSeq(<<x>> \o Tail(q)) /\ DOMAIN (<<x>> \o Tail(q)) = DOMAIN q /\ 1 \in DOMAIN q
           /\ (<<x>> \o Tail(q))[1] = x
           /\ \A i \in DOMAIN q : i # 1 => (<<x>> \o Tail(q))[i] = q[i]
<1> DEFINE t == Tail(q)
           u == <<x>> \o t
           S == {t[i] : i \in DOMAIN t} \cup {x}
<1>1. /\ IsSeq(t) /\ Len(q) \in Nat /\ Len(q) > 0 /\ DOMAIN q = 1 .. Len(q)
      /\ DOMAIN t = 1 .. Len(q) - 1 /\ 1 \in DOMAIN q /\ Len(t) = Len(q) - 1
      /\ \A i \in DOMAIN q : i # 1 => i - 1 \in DOMAIN t /\ t[i - 1] = q[i]
  BY TailSeq
<1> HIDE DEF t
<1>2. t \in Seq({t[i] : i \in DOMAIN t})
  BY <1>1 DEF IsSeq
<1>3. t \in Seq(S) /\ x \in S
  BY <1>2
<1> HIDE DEF S
<1>4. Len(t) = Len(q) - 1
  BY <1>1
<1>5. <<x>> \in Seq(S) /\ Len(<<x>>) = 1 /\ <<x>>[1] = x
  BY <1>3
<1>6. /\ u \in Seq(S) /\ Len(u) = 1 + Len(t) /\ u[1] = x
      /\ \A i \in 2 .. 1 + Len(t) : u[i] = t[i - 1]
  BY <1>3, <1>5
<1> HIDE DEF u
<1>7. Len(u) = Len(q) /\ DOMAIN u = DOMAIN q
  BY <1>1, <1>4, <1>6
<1>8. \A i \in DOMAIN q : i # 1 => u[i] = q[i]
  BY <1>1, <1>4, <1>6
<1>9. IsSeq(u)
  <2>1. u \in [1 .. Len(u) -> {u[i] : i \in DOMAIN u}] /\ Len(u) \in Nat
    BY <1>6
  <2> QED
    BY <2>1 DEF IsSeq
<1> QED
  BY <1>1, <1>6, <1>7, <1>8, <1>9 DEF u, t

\* A packet given another time, next hop or mark is the same packet.
SameAs(o, p) == IsPacket(o) /\ o.by = p.by /\ o.seq = p.seq /\ o.dest = p.dest
LEMMA SamePacket ==
    ASSUME NEW p, IsPacket(p)
    PROVE  /\ \A n, t : SameAs([p EXCEPT !.next = n, !.time = t], p)
           /\ \A t : SameAs([p EXCEPT !.time = t], p)
           /\ SameAs([p EXCEPT !.timed = FALSE], p)
<1>1. \A n, t : SameAs([p EXCEPT !.next = n, !.time = t], p)
  BY DEF IsPacket, SameAs
<1>2. \A t : SameAs([p EXCEPT !.time = t], p)
  BY DEF IsPacket, SameAs
<1>3. SameAs([p EXCEPT !.timed = FALSE], p)
  BY DEF IsPacket, SameAs
<1> QED
  BY <1>1, <1>2, <1>3

LEMMA NextHopKeeps ==
    ASSUME NetInv, NEW c \in Caller, NextHop(c)
    PROVE  NetInv'
<1> DEFINE q == sending[c]
<1>1. PICK n, t : sending' = [sending EXCEPT ![c] = <<[Head(q) EXCEPT !.next = n, !.time = t]>> \o Tail(q)]
  BY DEF NextHop
<1>2. /\ q # <<>> /\ config' = config /\ sent' = sent /\ transport' = transport /\ received' = received
  BY DEF NextHop
<1>3. /\ Typed /\ ArePackets(q) /\ DOMAIN sending = Caller
  BY DEF NetInv, Typed
<1> DEFINE new == [Head(q) EXCEPT !.next = n, !.time = t]
           u == <<new>> \o Tail(q)
<1>4. /\ IsSeq(u) /\ DOMAIN u = DOMAIN q /\ 1 \in DOMAIN q /\ u[1] = new
      /\ \A i \in DOMAIN q : i # 1 => u[i] = q[i]
  BY <1>2, <1>3, ConsSeq DEF ArePackets
<1>5. Head(q) = q[1]
  BY <1>2, <1>3, TailSeq DEF ArePackets
<1>6. SameAs(new, q[1])
  BY <1>3, <1>4, <1>5, SamePacket DEF ArePackets
<1>7. sending' = [sending EXCEPT ![c] = u]
  BY <1>1
<1> HIDE DEF new, u, q
<1>8. ArePackets(u) /\ SameKeys(q, u)
  BY <1>3, <1>4, <1>6 DEF ArePackets, SameKeys, SameAs
<1>9. \A d \in Caller : sending'[d] = IF d = c THEN u ELSE sending[d]
  BY <1>3, <1>7
<1>10. \A d \in Caller : ArePackets(sending'[d]) /\ SameKeys(sending[d], sending'[d])
  BY <1>3, <1>8, <1>9, SameIsSame DEF Typed, q
<1>11. DOMAIN sending' = Caller
  BY <1>3, <1>7
<1>12. Typed'
  BY <1>2, <1>3, <1>10, <1>11, TypedKept DEF Typed
<1>13. (\A d \in Caller : OwnPacket(d))' /\ InOrder' /\ Somewhere'
  BY <1>2, <1>10, KeysKept, SameIsSame
<1> QED
  BY <1>12, <1>13 DEF NetInv

LEMMA UntimedKeys ==
    ASSUME NEW s, \A c \in DOMAIN s : ArePackets(s[c])
    PROVE  /\ DOMAIN Untimed(s) = DOMAIN s
           /\ \A c \in DOMAIN s : ArePackets(Untimed(s)[c]) /\ SameKeys(s[c], Untimed(s)[c])
<1> SUFFICES ASSUME NEW c \in DOMAIN s
             PROVE  ArePackets(Untimed(s)[c]) /\ SameKeys(s[c], Untimed(s)[c])
  BY DEF Untimed
<1> DEFINE q == s[c]
           u == [i \in DOMAIN q |-> [q[i] EXCEPT !.timed = FALSE]]
<1>1. Untimed(s)[c] = u
  BY DEF Untimed
<1>2. \A i \in DOMAIN q : IsPacket(q[i])
  BY DEF ArePackets
<1>3. \A i \in DOMAIN q : SameAs(u[i], q[i])
  BY <1>2, SamePacket
<1>4. PICK n \in Nat : DOMAIN q = 1 .. n
  <2>1. q \in Seq({q[i] : i \in DOMAIN q})
    BY DEF ArePackets, IsSeq
  <2> QED
    BY <2>1
<1>5. DOMAIN u = DOMAIN q /\ u = [i \in 1 .. n |-> u[i]]
  BY <1>4
<1> HIDE DEF u, q
<1>6. IsSeq(u)
  BY <1>5, FunctionSeq
<1> QED
  BY <1>1, <1>3, <1>5, <1>6 DEF ArePackets, SameKeys, SameAs, q

LEMMA SetEnabledKeeps ==
    ASSUME NetInv, SetEnabled
    PROVE  NetInv'
<1>1. /\ sending' = Untimed(sending) /\ transport' = Untimed(transport)
      /\ received' = received /\ config' = config /\ sent' = sent
  BY DEF SetEnabled
<1>2. Typed
  BY DEF NetInv
<1>3. /\ DOMAIN sending' = Caller /\ DOMAIN transport' = Core
      /\ \A c \in Caller : ArePackets(sending'[c]) /\ SameKeys(sending[c], sending'[c])
      /\ \A c \in Core : /\ ArePackets(transport'[c]) /\ SameKeys(transport[c], transport'[c])
  BY <1>1, <1>2, UntimedKeys DEF Typed
<1>4. Typed'
  BY <1>1, <1>2, <1>3, TypedKept DEF Typed
<1>5. (\A d \in Caller : OwnPacket(d))' /\ InOrder' /\ Somewhere'
  BY <1>1, <1>3, KeysKept, SameIsSame
<1> QED
  BY <1>4, <1>5 DEF NetInv

-----------------------------------------------------------------------------
(* Steps that move a packet from one queue to the next.                     *)

LEMMA OrderedAppend ==
    ASSUME NEW q, IsSeq(q), NEW r, Ordered(q, r), NEW x, x.dest = r,
           \A j \in DOMAIN q : q[j].by = x.by => q[j].seq < x.seq
    PROVE  Ordered(Append(q, x), r)
<1> DEFINE a == Append(q, x)
           n == Len(q)
<1>1. /\ n \in Nat /\ DOMAIN q = 1 .. n /\ DOMAIN a = 1 .. n + 1 /\ a[n + 1] = x
      /\ \A i \in DOMAIN q : a[i] = q[i]
  BY AppendSeq
<1> HIDE DEF a, n
<1>2. \A i \in 1 .. n + 1 : i = n + 1 \/ i \in 1 .. n
  BY <1>1
<1>3. \A i \in DOMAIN a : a[i].dest = r
  BY <1>1, <1>2 DEF Ordered
<1>4. ASSUME NEW i \in DOMAIN a, NEW j \in DOMAIN a, i < j, a[i].by = a[j].by
      PROVE  a[i].seq < a[j].seq
  <2>1. i \in 1 .. n
    BY <1>1, <1>4
  <2>2. CASE j = n + 1
    BY <1>1, <1>4, <2>1, <2>2
  <2>3. CASE j \in 1 .. n
    BY <1>1, <1>4, <2>1, <2>3 DEF Ordered
  <2> QED
    BY <1>1, <1>2, <2>2, <2>3
<1> QED
  BY <1>3, <1>4 DEF Ordered, a

LEMMA OrderedTail ==
    ASSUME NEW q, IsSeq(q), q # <<>>, NEW r, Ordered(q, r)
    PROVE  /\ Ordered(Tail(q), r) /\ q[1].dest = r
           /\ \A i \in DOMAIN Tail(q) : Tail(q)[i].by = q[1].by => q[1].seq < Tail(q)[i].seq
<1> DEFINE t == Tail(q)
<1>1. /\ 1 \in DOMAIN q /\ Len(q) \in Nat /\ DOMAIN q = 1 .. Len(q) /\ DOMAIN t = 1 .. Len(q) - 1
      /\ \A i \in DOMAIN t : i + 1 \in DOMAIN q /\ 1 < i + 1 /\ t[i] = q[i + 1]
  BY TailSeq
<1> HIDE DEF t
<1>2. \A i, j \in DOMAIN t : i < j => i + 1 < j + 1
  BY <1>1
<1>3. Ordered(t, r)
  BY <1>1, <1>2 DEF Ordered
<1>4. q[1].dest = r
  BY <1>1 DEF Ordered
<1>5. \A i \in DOMAIN t : t[i].by = q[1].by => q[1].seq < t[i].seq
  BY <1>1 DEF Ordered
<1> QED
  BY <1>3, <1>4, <1>5 DEF t

LEMMA BeforeAppend ==
    ASSUME NEW p, NEW q, IsSeq(q), Before(p, q), NEW x,
           \A j \in DOMAIN p : p[j].by = x.by => p[j].seq < x.seq
    PROVE  Before(p, Append(q, x))
<1> DEFINE a == Append(q, x)
           n == Len(q)
<1>1. /\ n \in Nat /\ DOMAIN q = 1 .. n /\ DOMAIN a = 1 .. n + 1 /\ a[n + 1] = x
      /\ \A i \in DOMAIN q : a[i] = q[i]
  BY AppendSeq
<1> HIDE DEF a, n
<1>2. \A i \in 1 .. n + 1 : i = n + 1 \/ i \in 1 .. n
  BY <1>1
<1> QED
  BY <1>1, <1>2 DEF Before, a

\* The head of q moves to the end of p.
LEMMA BeforeMove ==
    ASSUME NEW p, IsSeq(p), NEW q, IsSeq(q), q # <<>>, Before(p, q), NEW r, Ordered(q, r),
           NEW x, x.by = q[1].by, x.seq = q[1].seq
    PROVE  /\ Before(Append(p, x), Tail(q))
           /\ \A j \in DOMAIN p : p[j].by = x.by => p[j].seq < x.seq
<1> DEFINE a == Append(p, x)
           n == Len(p)
           t == Tail(q)
<1>1. /\ n \in Nat /\ DOMAIN p = 1 .. n /\ DOMAIN a = 1 .. n + 1 /\ a[n + 1] = x
      /\ \A i \in DOMAIN p : a[i] = p[i]
  BY AppendSeq
<1>2. 1 \in DOMAIN q /\ \A i \in DOMAIN t : i + 1 \in DOMAIN q /\ t[i] = q[i + 1]
  BY TailSeq
<1>3. \A i \in DOMAIN t : t[i].by = q[1].by => q[1].seq < t[i].seq
  BY OrderedTail
<1> HIDE DEF a, n, t
<1>4. \A i \in 1 .. n + 1 : i = n + 1 \/ i \in 1 .. n
  BY <1>1
<1>5. Before(a, t)
  BY <1>1, <1>2, <1>3, <1>4 DEF Before
<1>6. \A j \in DOMAIN p : p[j].by = x.by => p[j].seq < x.seq
  BY <1>2 DEF Before
<1> QED
  BY <1>5, <1>6 DEF a, t

LEMMA BeforeTail ==
    ASSUME NEW p, NEW q, IsSeq(q), q # <<>>, Before(p, q)
    PROVE  Before(p, Tail(q))
  BY TailSeq DEF Before

LEMMA LaterSent ==
    ASSUME NEW p, IsSeq(p), p # <<>>, NEW c, NEW q, NEW r, Later(p, c, q, r)
    PROVE  /\ Later(Tail(p), c, q, r)
           /\ p[1].dest = r => \A j \in DOMAIN q : q[j].by = c => q[j].seq < p[1].seq
  BY TailSeq DEF Later

LEMMA LaterAppend ==
    ASSUME NEW p, NEW c, NEW q, IsSeq(q), NEW r, Later(p, c, q, r), NEW x,
           x.by = c => \A i \in DOMAIN p : p[i].dest = r => x.seq < p[i].seq
    PROVE  Later(p, c, Append(q, x), r)
<1> DEFINE a == Append(q, x)
           n == Len(q)
<1>1. /\ n \in Nat /\ DOMAIN q = 1 .. n /\ DOMAIN a = 1 .. n + 1 /\ a[n + 1] = x
      /\ \A i \in DOMAIN q : a[i] = q[i]
  BY AppendSeq
<1> HIDE DEF a, n
<1>2. \A i \in 1 .. n + 1 : i = n + 1 \/ i \in 1 .. n
  BY <1>1
<1> QED
  BY <1>1, <1>2 DEF Later, a

LEMMA LaterTail ==
    ASSUME NEW p, NEW c, NEW q, IsSeq(q), q # <<>>, NEW r, Later(p, c, q, r)
    PROVE  /\ Later(p, c, Tail(q), r)
           /\ q[1].by = c => \A i \in DOMAIN p : p[i].dest = r => q[1].seq < p[i].seq
  BY TailSeq DEF Later

LEMMA HasAppend ==
    ASSUME NEW q, IsSeq(q), NEW x, NEW s, NEW n, NEW r
    PROVE  /\ Has(q, s, n, r) => Has(Append(q, x), s, n, r)
           /\ x.by = s /\ x.seq = n /\ x.dest = r => Has(Append(q, x), s, n, r)
<1> DEFINE a == Append(q, x)
           m == Len(q)
<1>1. /\ m \in Nat /\ DOMAIN q = 1 .. m /\ DOMAIN a = 1 .. m + 1 /\ a[m + 1] = x
      /\ \A i \in DOMAIN q : a[i] = q[i]
  BY AppendSeq
<1> HIDE DEF a, m
<1>2. m + 1 \in DOMAIN a /\ \A i \in DOMAIN q : i \in DOMAIN a
  BY <1>1
<1> QED
  BY <1>1, <1>2 DEF Has, a

LEMMA HasTail ==
    ASSUME NEW q, IsSeq(q), q # <<>>, NEW s, NEW n, NEW r, Has(q, s, n, r)
    PROVE  Has(Tail(q), s, n, r) \/ (q[1].by = s /\ q[1].seq = n /\ q[1].dest = r)
<1> DEFINE t == Tail(q)
<1>1. \A i \in DOMAIN q : i # 1 => i - 1 \in DOMAIN t /\ t[i - 1] = q[i]
  BY TailSeq
<1> HIDE DEF t
<1>2. PICK i \in DOMAIN q : q[i].by = s /\ q[i].seq = n /\ q[i].dest = r
  BY DEF Has
<1>3. CASE i = 1
  BY <1>2, <1>3
<1>4. CASE i # 1
  <2>1. PICK k \in DOMAIN t : t[k] = q[i]
    BY <1>1, <1>4
  <2> QED
    BY <1>2, <2>1 DEF Has, t
<1> QED
  BY <1>3, <1>4

LEMMA HoppingTail ==
    ASSUME NEW p, IsSeq(p), p # <<>>, NEW c, NEW n, Hopping(p, c, n)
    PROVE  /\ Hopping(Tail(p), c, n) /\ p[1].by = c /\ p[1].seq = n
           /\ \A i \in DOMAIN Tail(p) : Tail(p)[i].dest # p[1].dest
<1> DEFINE t == Tail(p)
<1>1. /\ 1 \in DOMAIN p /\ Len(p) \in Nat /\ DOMAIN t = 1 .. Len(p) - 1
      /\ \A i \in DOMAIN t : i + 1 \in DOMAIN p /\ 1 < i + 1 /\ t[i] = p[i + 1]
  BY TailSeq
<1> HIDE DEF t
<1>2. \A i, j \in DOMAIN t : i # j => i + 1 # j + 1
  BY <1>1
<1>3. \A i \in DOMAIN t : i + 1 # 1
  BY <1>1
<1> QED
  BY <1>1, <1>2, <1>3 DEF Hopping, t

LEMMA PacketsMove ==
    ASSUME NEW q, ArePackets(q)
    PROVE  /\ \A x : IsPacket(x) => ArePackets(Append(q, x))
           /\ q # <<>> => ArePackets(Tail(q)) /\ IsPacket(q[1]) /\ Head(q) = q[1]
<1>1. ASSUME NEW x, IsPacket(x)
      PROVE  ArePackets(Append(q, x))
  <2> DEFINE a == Append(q, x)
             n == Len(q)
  <2>1. /\ n \in Nat /\ DOMAIN q = 1 .. n /\ DOMAIN a = 1 .. n + 1 /\ a[n + 1] = x /\ IsSeq(a)
        /\ \A i \in DOMAIN q : a[i] = q[i]
    BY AppendSeq DEF ArePackets
  <2> HIDE DEF a, n
  <2>2. \A i \in 1 .. n + 1 : i = n + 1 \/ i \in 1 .. n
    BY <2>1
  <2> QED
    BY <1>1, <2>1, <2>2 DEF ArePackets, a
<1>2. q # <<>> => ArePackets(Tail(q)) /\ IsPacket(q[1]) /\ Head(q) = q[1]
  BY TailSeq DEF ArePackets
<1> QED
  BY <1>1, <1>2

LEMMA TransportSendKeeps ==
    ASSUME NetInv, NEW c \in Caller, TransportSend(c)
    PROVE  NetInv'
<1> DEFINE p == sending[c]
           x == p[1]
           d == x.dest
           q == transport[d]
<1>1. /\ p # <<>> /\ config' = config /\ sent' = sent /\ received' = received
      /\ sending' = [sending EXCEPT ![c] = Tail(p)]
      /\ transport' = [transport EXCEPT ![Head(p).dest] = Append(@, Head(p))]
  BY DEF TransportSend
<1>2. Typed /\ InOrder /\ Somewhere /\ ArePackets(p) /\ Hopping(p, c, Len(sent[c])) /\ IsSeq(p)
  BY DEF NetInv, Typed, OwnPacket, ArePackets
<1>3. ArePackets(Tail(p)) /\ IsPacket(x) /\ Head(p) = x
  BY <1>1, <1>2, PacketsMove
<1>4. d \in Core
  BY <1>3 DEF IsPacket
<1>5. ArePackets(q) /\ IsSeq(q)
  BY <1>2, <1>4 DEF Typed, ArePackets
<1>6. transport' = [transport EXCEPT ![d] = Append(q, x)]
  BY <1>1, <1>3
<1>7. /\ Hopping(Tail(p), c, Len(sent[c])) /\ x.by = c
      /\ \A i \in DOMAIN Tail(p) : Tail(p)[i].dest # d
  BY <1>1, <1>2, HoppingTail
<1> HIDE DEF p, q, x, d
<1>8. /\ DOMAIN sending' = Caller /\ DOMAIN transport' = Core /\ DOMAIN received' = Core
      /\ sending'[c] = Tail(p) /\ transport'[d] = Append(q, x)
      /\ \A e \in Caller : e # c => sending'[e] = sending[e]
      /\ \A e \in Core : e # d => transport'[e] = transport[e]
  BY <1>1, <1>2, <1>4, <1>6 DEF Typed
<1>9. Core' = Core /\ Caller' = Caller
  BY <1>1 DEF Core, Caller
<1>10. Typed'
  <2>1. ArePackets(Append(q, x))
    BY <1>3, <1>5, PacketsMove
  <2>2. /\ \A e \in Caller : ArePackets(sending'[e])
        /\ \A e \in Core : ArePackets(transport'[e]) /\ ArePackets(received'[e])
    BY <1>1, <1>2, <1>3, <1>8, <2>1 DEF Typed
  <2> QED
    BY <1>1, <1>2, <1>8, <2>2, TypedKept
<1>11. (\A e \in Caller : OwnPacket(e))'
  <2>1. \A e \in Caller : Hopping(sending'[e], e, Len(sent[e]))
    BY <1>7, <1>8 DEF NetInv, OwnPacket
  <2> QED
    BY <1>1, <1>9, <2>1 DEF OwnPacket, Hopping
<1>12. InOrder'
  <2>1. /\ Ordered(q, d) /\ Before(received[d], q) /\ Later(p, c, q, d) /\ Later(p, c, received[d], d)
    BY <1>2, <1>4 DEF InOrder, NotYet, q, p
  <2>2. /\ \A j \in DOMAIN q : q[j].by = x.by => q[j].seq < x.seq
        /\ \A j \in DOMAIN received[d] : received[d][j].by = x.by => received[d][j].seq < x.seq
    BY <1>1, <1>2, <1>7, <2>1, LaterSent DEF x, d
  <2>3. Ordered(Append(q, x), d) /\ Before(received[d], Append(q, x))
    BY <1>5, <2>1, <2>2, OrderedAppend, BeforeAppend DEF d
  <2>4. \A r \in Core : /\ Ordered(transport'[r], r) /\ Ordered(received'[r], r)
                        /\ Before(received'[r], transport'[r])
    BY <1>1, <1>2, <1>8, <2>3 DEF InOrder
  <2>5. ASSUME NEW r \in Core, NEW e \in Caller
        PROVE  Later(sending'[e], e, transport[r], r) /\ Later(sending'[e], e, received[r], r)
    <3>1. Later(sending[e], e, transport[r], r) /\ Later(sending[e], e, received[r], r)
      BY <1>2 DEF InOrder, NotYet
    <3>2. CASE e = c
      BY <1>1, <1>2, <1>8, <3>1, <3>2, LaterSent DEF p
    <3> QED
      BY <1>8, <3>1, <3>2
  <2>6. ASSUME NEW e \in Caller
        PROVE  Later(sending'[e], e, Append(q, x), d)
    <3>1. Later(sending'[e], e, q, d)
      BY <1>4, <2>5 DEF q
    <3>2. x.by = e => \A i \in DOMAIN sending'[e] : sending'[e][i].dest = d => x.seq < sending'[e][i].seq
      BY <1>7, <1>8
    <3> QED
      BY <1>5, <3>1, <3>2, LaterAppend
  <2>7. ASSUME NEW r \in Core, NEW e \in Caller
        PROVE  Later(sending'[e], e, transport'[r], r) /\ Later(sending'[e], e, received'[r], r)
    <3>1. Later(sending'[e], e, received'[r], r)
      BY <1>1, <2>5
    <3>2. CASE r = d
      BY <1>8, <2>6, <3>1, <3>2
    <3>3. CASE r # d
      BY <1>8, <2>5, <3>1, <3>3
    <3> QED
      BY <3>2, <3>3
  <2> QED
    BY <1>9, <2>4, <2>7 DEF InOrder, NotYet, Ordered, Before, Later
<1>13. Somewhere'
  <2>1. ASSUME NEW s \in Caller, NEW r \in Core, NEW n \in DOMAIN sent[s], sent[s][n] \in {r, Broadcast}
        PROVE  Has(sending'[s], s, n, r) \/ Has(transport'[r], s, n, r) \/ Has(received'[r], s, n, r)
    <3>1. Has(sending[s], s, n, r) \/ Has(transport[r], s, n, r) \/ Has(received[r], s, n, r)
      BY <1>2, <2>1 DEF Somewhere
    <3>2. ASSUME Has(sending[s], s, n, r)
          PROVE  Has(sending'[s], s, n, r) \/ Has(transport'[r], s, n, r)
      <4>1. CASE s # c
        BY <1>8, <3>2, <4>1
      <4>2. CASE s = c
        <5>1. Has(Tail(p), s, n, r) \/ (x.by = s /\ x.seq = n /\ x.dest = r)
          BY <1>1, <1>2, <3>2, <4>2, HasTail DEF p, x
        <5>2. CASE x.by = s /\ x.seq = n /\ x.dest = r
          <6>1. Has(Append(q, x), s, n, r)
            BY <1>5, <5>2, HasAppend
          <6> QED
            BY <1>8, <5>2, <6>1 DEF d
        <5> QED
          BY <1>8, <4>2, <5>1, <5>2
      <4> QED
        BY <4>1, <4>2
    <3>3. ASSUME Has(transport[r], s, n, r)
          PROVE  Has(transport'[r], s, n, r)
      <4>1. CASE r = d
        <5>1. Has(q, s, n, r)
          BY <3>3, <4>1 DEF q
        <5>2. Has(Append(q, x), s, n, r)
          BY <1>5, <5>1, HasAppend
        <5> QED
          BY <1>8, <4>1, <5>2
      <4> QED
        BY <1>8, <3>3, <4>1
    <3> QED
      BY <1>1, <3>1, <3>2, <3>3
  <2> QED
    BY <1>1, <1>9, <2>1 DEF Somewhere, Has
<1> QED
  BY <1>10, <1>11, <1>12, <1>13 DEF NetInv

LEMMA NetPullKeeps ==
    ASSUME NetInv, NEW c \in Core, NetPull(c)
    PROVE  NetInv'
<1> DEFINE q == transport[c]
           g == received[c]
<1>1. /\ q # <<>> /\ config' = config /\ sent' = sent /\ sending' = sending
      /\ transport' = [transport EXCEPT ![c] = Tail(q)]
  BY DEF NetPull
<1>2. PICK t : received' = [received EXCEPT ![c] = Append(g, [Head(q) EXCEPT !.time = t])]
  BY DEF NetPull
<1> DEFINE x == [Head(q) EXCEPT !.time = t]
<1>3. Typed /\ InOrder /\ Somewhere /\ ArePackets(q) /\ ArePackets(g) /\ IsSeq(q) /\ IsSeq(g)
  BY DEF NetInv, Typed, ArePackets
<1>4. ArePackets(Tail(q)) /\ IsPacket(q[1]) /\ Head(q) = q[1]
  BY <1>1, <1>3, PacketsMove
<1>5. SameAs(x, q[1])
  BY <1>4, SamePacket
<1>6. received' = [received EXCEPT ![c] = Append(g, x)]
  BY <1>2
<1> HIDE DEF q, g, x
<1>7. /\ DOMAIN sending' = Caller /\ DOMAIN transport' = Core /\ DOMAIN received' = Core
      /\ transport'[c] = Tail(q) /\ received'[c] = Append(g, x)
      /\ \A e \in Core : e # c => transport'[e] = transport[e] /\ received'[e] = received[e]
  BY <1>1, <1>3, <1>6 DEF Typed
<1>8. Core' = Core /\ Caller' = Caller
  BY <1>1 DEF Core, Caller
<1>9. Typed'
  <2>1. ArePackets(Append(g, x))
    BY <1>3, <1>5, PacketsMove DEF SameAs
  <2>2. /\ \A e \in Caller : ArePackets(sending'[e])
        /\ \A e \in Core : ArePackets(transport'[e]) /\ ArePackets(received'[e])
    BY <1>1, <1>3, <1>4, <1>7, <2>1 DEF Typed
  <2> QED
    BY <1>1, <1>3, <1>7, <2>2, TypedKept
<1>10. (\A e \in Caller : OwnPacket(e))'
  BY <1>1, <1>8 DEF NetInv, OwnPacket, Hopping
<1>11. InOrder'
  <2>1. Ordered(q, c) /\ Ordered(g, c) /\ Before(g, q)
    BY <1>3 DEF InOrder, q, g
  <2>2. /\ Before(Append(g, x), Tail(q))
        /\ \A j \in DOMAIN g : g[j].by = x.by => g[j].seq < x.seq
    BY <1>1, <1>3, <1>5, <2>1, BeforeMove DEF SameAs
  <2>3. Ordered(Tail(q), c) /\ q[1].dest = c
    BY <1>1, <1>3, <2>1, OrderedTail
  <2>4. Ordered(Append(g, x), c)
    BY <1>3, <1>5, <2>1, <2>2, <2>3, OrderedAppend DEF SameAs
  <2>5. \A r \in Core : /\ Ordered(transport'[r], r) /\ Ordered(received'[r], r)
                        /\ Before(received'[r], transport'[r])
    BY <1>3, <1>7, <2>2, <2>3, <2>4 DEF InOrder
  <2>6. ASSUME NEW e \in Caller
        PROVE  Later(sending[e], e, Tail(q), c) /\ Later(sending[e], e, Append(g, x), c)
    <3>1. Later(sending[e], e, q, c) /\ Later(sending[e], e, g, c)
      BY <1>3 DEF InOrder, NotYet, q, g
    <3>2. /\ Later(sending[e], e, Tail(q), c)
          /\ x.by = e => \A i \in DOMAIN sending[e] : sending[e][i].dest = c => x.seq < sending[e][i].seq
      BY <1>1, <1>3, <1>5, <3>1, LaterTail DEF SameAs
    <3> QED
      BY <1>3, <3>1, <3>2, LaterAppend
  <2>7. ASSUME NEW r \in Core, NEW e \in Caller
        PROVE  Later(sending'[e], e, transport'[r], r) /\ Later(sending'[e], e, received'[r], r)
    <3>1. CASE r = c
      BY <1>1, <1>7, <2>6, <3>1
    <3>2. CASE r # c
      BY <1>1, <1>3, <1>7, <3>2 DEF InOrder, NotYet
    <3> QED
      BY <3>1, <3>2
  <2> QED
    BY <1>8, <2>5, <2>7 DEF InOrder, NotYet, Ordered, Before, Later
<1>12. Somewhere'
  <2>1. ASSUME NEW s \in Caller, NEW r \in Core, NEW n \in DOMAIN sent[s], sent[s][n] \in {r, Broadcast}
        PROVE  Has(sending'[s], s, n, r) \/ Has(transport'[r], s, n, r) \/ Has(received'[r], s, n, r)
    <3>1. Has(sending[s], s, n, r) \/ Has(transport[r], s, n, r) \/ Has(received[r], s, n, r)
      BY <1>3, <2>1 DEF Somewhere
    <3>2. CASE r # c
      BY <1>1, <1>7, <3>1, <3>2
    <3>3. CASE r = c
      <4>1. Has(q, s, n, r) => Has(Tail(q), s, n, r) \/ (x.by = s /\ x.seq = n /\ x.dest = r)
        BY <1>1, <1>3, <1>5, HasTail DEF SameAs
      <4>2. /\ Has(g, s, n, r) => Has(Append(g, x), s, n, r)
            /\ x.by = s /\ x.seq = n /\ x.dest = r => Has(Append(g, x), s, n, r)
        BY <1>3, HasAppend
      <4>3. Has(sending[s], s, n, r) \/ Has(q, s, n, r) \/ Has(g, s, n, r)
        BY <3>1, <3>3 DEF q, g
      <4> QED
        BY <1>1, <1>7, <3>3, <4>1, <4>2, <4>3
    <3> QED
      BY <3>2, <3>3
  <2> QED
    BY <1>1, <1>8, <2>1 DEF Somewhere, Has
<1> QED
  BY <1>9, <1>10, <1>11, <1>12 DEF NetInv

-----------------------------------------------------------------------------
(* netSend: the packet gets the next number and a hop for every receiver.   *)

HopsFor(u, c, dest) ==
    /\ sending' = [sending EXCEPT ![c] = u]
    /\ IsSeq(u) /\ DOMAIN u = DOMAIN Receivers(dest)
    /\ \A i \in DOMAIN u : /\ "by" \in DOMAIN u[i] /\ "seq" \in DOMAIN u[i] /\ "dest" \in DOMAIN u[i]
                           /\ u[i].by = c /\ u[i].seq = Len(sent[c]) + 1
                           /\ u[i].dest = Receivers(dest)[i]

LEMMA NetSendHops ==
    ASSUME config \in Config, NEW c, NEW dest \in Core \cup {Broadcast}, NEW requester, NEW time, NEW size,
           NetSend(c, dest, requester, time, size)
    PROVE  \E u : HopsFor(u, c, dest)
<1> DEFINE pkt == [by |-> c, seq |-> Len(sent[c]) + 1, sender |-> c[1], dest |-> dest,
                   requester |-> requester, time |-> time, start |-> time, size |-> size,
                   timed |-> enabled, next |-> c[1]]
           r == RoutePacket(c[1], pkt)
           u == [i \in DOMAIN r.hops |-> [pkt EXCEPT !.dest = r.hops[i].dest, !.next = r.hops[i].next,
                                                     !.time = r.hops[i].time]]
<1>1. sending' = [sending EXCEPT ![c] = u]
  BY DEF NetSend
<1>2. /\ DOMAIN r.hops = DOMAIN Receivers(pkt.dest)
      /\ \A i \in DOMAIN r.hops : r.hops[i].dest = Receivers(pkt.dest)[i]
  BY RouteHops
<1>3. /\ pkt.dest = dest /\ pkt.by = c /\ pkt.seq = Len(sent[c]) + 1
      /\ "by" \in DOMAIN pkt /\ "seq" \in DOMAIN pkt /\ "dest" \in DOMAIN pkt
  OBVIOUS
<1> HIDE DEF r, pkt
<1>4. \A d, n, t : LET o == [pkt EXCEPT !.dest = d, !.next = n, !.time = t]
                   IN  /\ "by" \in DOMAIN o /\ "seq" \in DOMAIN o /\ "dest" \in DOMAIN o
                       /\ o.by = c /\ o.seq = Len(sent[c]) + 1 /\ o.dest = d
  BY <1>3
<1>5. PICK n \in Nat : DOMAIN Receivers(dest) = 1 .. n
  BY ReceiversOf
<1>6. DOMAIN u = DOMAIN Receivers(dest) /\ u = [i \in 1 .. n |-> u[i]]
  BY <1>2, <1>3, <1>5
<1>7. \A i \in DOMAIN u : u[i] = [pkt EXCEPT !.dest = r.hops[i].dest, !.next = r.hops[i].next,
                                             !.time = r.hops[i].time]
  OBVIOUS
<1>8. \A i \in DOMAIN u : /\ "by" \in DOMAIN u[i] /\ "seq" \in DOMAIN u[i] /\ "dest" \in DOMAIN u[i]
                          /\ u[i].by = c /\ u[i].seq = Len(sent[c]) + 1 /\ u[i].dest = r.hops[i].dest
  BY <1>4, <1>7
<1> HIDE DEF u
<1>9. IsSeq(u)
  BY <1>6, FunctionSeq
<1>10. \A i \in DOMAIN u : u[i].dest = Receivers(dest)[i]
  BY <1>2, <1>3, <1>6, <1>8
<1>11. HopsFor(u, c, dest)
  BY <1>1, <1>6, <1>8, <1>9, <1>10 DEF HopsFor
<1> QED
  BY <1>11

LEMMA NetSendKeeps ==
    ASSUME NetInv, NEW c \in Caller, NEW dest \in Core \cup {Broadcast}, NEW requester, NEW time, NEW size,
           NetSend(c, dest, requester, time, size)
    PROVE  NetInv'
<1> DEFINE m == Len(sent[c])
<1>1. /\ sending[c] = <<>> /\ config' = config /\ transport' = transport /\ received' = received
      /\ sent' = [sent EXCEPT ![c] = Append(sent[c], dest)]
  BY DEF NetSend
<1>2. Typed /\ InOrder /\ Somewhere /\ config \in Config
  BY DEF NetInv, Typed
<1>0. PICK u : HopsFor(u, c, dest)
  BY <1>2, NetSendHops
<1>3. /\ sending' = [sending EXCEPT ![c] = u]
      /\ IsSeq(u) /\ DOMAIN u = DOMAIN Receivers(dest)
      /\ \A i \in DOMAIN u : /\ "by" \in DOMAIN u[i] /\ "seq" \in DOMAIN u[i] /\ "dest" \in DOMAIN u[i]
                             /\ u[i].by = c /\ u[i].seq = m + 1
                             /\ u[i].dest = Receivers(dest)[i]
  BY <1>0 DEF HopsFor
<1>4. /\ \A i \in DOMAIN u : u[i].dest \in Core /\ dest \in {u[i].dest, Broadcast}
      /\ \A i, j \in DOMAIN u : i # j => u[i].dest # u[j].dest
      /\ \A r \in Core : dest \in {r, Broadcast} => \E i \in DOMAIN u : u[i].dest = r
  BY <1>2, <1>3, ReceiversOf
<1>5. Core' = Core /\ Caller' = Caller
  BY <1>1 DEF Core, Caller
<1>6. /\ sent \in [Caller -> Seq(Core \cup {Broadcast})] /\ sent[c] \in Seq(Core \cup {Broadcast})
      /\ m \in Nat /\ DOMAIN sent[c] = 1 .. m
  BY <1>2 DEF Typed
<1>7. /\ Append(sent[c], dest) \in Seq(Core \cup {Broadcast})
      /\ Len(Append(sent[c], dest)) = m + 1 /\ Append(sent[c], dest)[m + 1] = dest
      /\ \A n \in 1 .. m : Append(sent[c], dest)[n] = sent[c][n]
      /\ DOMAIN Append(sent[c], dest) = 1 .. m + 1
  BY <1>6
<1>8. /\ sent' \in [Caller -> Seq(Core \cup {Broadcast})]
      /\ DOMAIN sending' = Caller /\ sending'[c] = u
      /\ sent'[c] = Append(sent[c], dest)
      /\ \A e \in Caller : e # c => sending'[e] = sending[e] /\ sent'[e] = sent[e]
  BY <1>1, <1>2, <1>3, <1>6, <1>7 DEF Typed
<1> HIDE DEF m
<1>9. \A n \in 1 .. m : n \in 1 .. m + 1 /\ n < m + 1
  BY <1>6
<1>10. m + 1 \in 1 .. m + 1
  BY <1>6
<1> DEFINE After(p) == /\ "by" \in DOMAIN p /\ "seq" \in DOMAIN p /\ "dest" \in DOMAIN p
                       /\ p.by \in Caller /\ p.dest \in Core
                       /\ p.seq \in 1 .. Len(sent'[p.by])
                       /\ sent'[p.by][p.seq] \in {p.dest, Broadcast}
<1>11. ASSUME NEW p, IsPacket(p)
       PROVE  After(p)
  <2>1. /\ "by" \in DOMAIN p /\ "seq" \in DOMAIN p /\ "dest" \in DOMAIN p
        /\ p.by \in Caller /\ p.dest \in Core
        /\ p.seq \in 1 .. Len(sent[p.by]) /\ sent[p.by][p.seq] \in {p.dest, Broadcast}
    BY <1>11 DEF IsPacket
  <2>2. CASE p.by = c
    <3>1. p.seq \in 1 .. m
      BY <2>1, <2>2 DEF m
    <3>2. p.seq \in 1 .. m + 1
      BY <1>9, <3>1
    <3> QED
      BY <1>7, <1>8, <2>1, <2>2, <3>1, <3>2
  <2> QED
    BY <1>8, <2>1, <2>2
<1>12. \A i \in DOMAIN u : After(u[i])
  BY <1>3, <1>4, <1>7, <1>8, <1>10
<1>13. Typed'
  <2> HIDE DEF After
  <2> DEFINE Good(q) == IsSeq(q) /\ \A i \in DOMAIN q : After(q[i])
  <2>1. \A q : ArePackets(q) => Good(q)
    BY <1>11 DEF ArePackets
  <2>2. Good(u)
    BY <1>3, <1>12
  <2> HIDE DEF Good
  <2>3. /\ \A e \in Core : Good(transport'[e]) /\ Good(received'[e])
        /\ \A e \in Caller : Good(sending'[e])
    BY <1>1, <1>2, <1>8, <2>1, <2>2 DEF Typed
  <2>4. /\ \A e \in Core : ArePackets(transport[e])' /\ ArePackets(received[e])'
        /\ \A e \in Caller : ArePackets(sending[e])'
    BY <1>5, <2>3 DEF Good, After, ArePackets, IsSeq, IsPacket
  <2> QED
    BY <1>1, <1>2, <1>5, <1>8, <2>4 DEF Typed
<1>14. (\A e \in Caller : OwnPacket(e))'
  <2>1. Hopping(u, c, m + 1)
    BY <1>3, <1>4 DEF Hopping
  <2>2. \A e \in Caller : Hopping(sending'[e], e, Len(sent'[e]))
    BY <1>7, <1>8, <2>1 DEF NetInv, OwnPacket
  <2> QED
    BY <1>5, <2>2 DEF OwnPacket, Hopping
<1>15. InOrder'
  <2>1. ASSUME NEW q, ArePackets(q), NEW r
        PROVE  Later(u, c, q, r)
    <3>1. \A j \in DOMAIN q : q[j].by = c => q[j].seq \in 1 .. m
      BY <2>1 DEF ArePackets, IsPacket, m
    <3> QED
      BY <1>3, <1>9, <3>1 DEF Later
  <2>2. \A r \in Core, e \in Caller : Later(sending'[e], e, transport'[r], r) /\ Later(sending'[e], e, received'[r], r)
    BY <1>1, <1>2, <1>8, <2>1 DEF Typed, InOrder, NotYet
  <2>3. \A r \in Core : /\ Ordered(transport'[r], r) /\ Ordered(received'[r], r)
                        /\ Before(received'[r], transport'[r])
    BY <1>1, <1>2 DEF InOrder
  <2> QED
    BY <1>5, <2>2, <2>3 DEF InOrder, NotYet, Ordered, Before, Later
<1>16. Somewhere'
  <2>1. ASSUME NEW s \in Caller, NEW r \in Core, NEW n \in DOMAIN sent'[s], sent'[s][n] \in {r, Broadcast}
        PROVE  Has(sending'[s], s, n, r) \/ Has(transport[r], s, n, r) \/ Has(received[r], s, n, r)
    <3>1. CASE s # c
      BY <1>2, <1>8, <2>1, <3>1 DEF Somewhere
    <3>2. CASE s = c /\ n = m + 1
      <4>1. PICK i \in DOMAIN u : u[i].dest = r
        BY <1>4, <1>7, <1>8, <2>1, <3>2
      <4>2. Has(u, s, n, r)
        BY <1>3, <3>2, <4>1 DEF Has
      <4> QED
        BY <1>8, <3>2, <4>2
    <3>3. CASE s = c /\ n # m + 1
      <4>1. n \in 1 .. m
        BY <1>6, <1>7, <1>8, <2>1, <3>3
      <4>2. ~Has(sending[c], s, n, r)
        BY <1>1 DEF Has
      <4>3. sent[c][n] \in {r, Broadcast} /\ n \in DOMAIN sent[c]
        BY <1>6, <1>7, <1>8, <2>1, <3>3, <4>1
      <4> QED
        BY <1>2, <3>3, <4>2, <4>3 DEF Somewhere
    <3> QED
      BY <3>1, <3>2, <3>3
  <2> QED
    BY <1>1, <1>5, <2>1 DEF Somewhere, Has
<1> QED
  BY <1>13, <1>14, <1>15, <1>16 DEF NetInv

-----------------------------------------------------------------------------
(* What the invariant says of every packet.                                 *)

LEMMA NetInvStarts == Init => NetInv
<1> SUFFICES ASSUME Init PROVE NetInv
  OBVIOUS
<1>1. /\ config \in Config /\ \A c \in Caller : sending[c] = <<>> /\ sent[c] = <<>>
      /\ \A c \in Core : transport[c] = <<>> /\ received[c] = <<>>
  BY DEF Init
<1>2. IsSeq(<<>>) /\ DOMAIN <<>> = {}
  BY DEF IsSeq
<1>3. sent \in [Caller -> Seq(Core \cup {Broadcast})] /\ DOMAIN sending = Caller /\ DOMAIN transport = Core /\ DOMAIN received = Core
  BY DEF Init
<1>4. Typed
  BY <1>1, <1>2, <1>3 DEF Typed, ArePackets
<1>5. \A c \in Caller : OwnPacket(c)
  BY <1>1, <1>2 DEF OwnPacket, Hopping
<1>6. InOrder
  BY <1>1, <1>2 DEF InOrder, Ordered, Before, NotYet, Later
<1>7. Somewhere
  BY <1>1, <1>2 DEF Somewhere
<1> QED
  BY <1>4, <1>5, <1>6, <1>7 DEF NetInv

LEMMA NetInvSteps == NetInv /\ [Next]_vars => NetInv'
<1> SUFFICES ASSUME NetInv, [Next]_vars PROVE NetInv'
  OBVIOUS
<1>1. CASE UNCHANGED vars
  <2>1. /\ config' = config /\ sent' = sent /\ sending' = sending
        /\ transport' = transport /\ received' = received
    BY <1>1 DEF vars
  <2>2. Typed
    BY DEF NetInv
  <2>3. Typed'
    BY <2>1, <2>2, TypedKept DEF Typed
  <2>4. (\A d \in Caller : OwnPacket(d))' /\ InOrder' /\ Somewhere'
    BY <2>1, KeysKept, SameIsSame
  <2> QED
    BY <2>3, <2>4 DEF NetInv
<1>2. ASSUME NEW c \in Caller, NextHop(c)
      PROVE  NetInv'
  BY <1>2, NextHopKeeps
<1>3. ASSUME NEW c \in Caller, TransportSend(c)
      PROVE  NetInv'
  BY <1>3, TransportSendKeeps
<1>4. ASSUME NEW c \in Core, NetPull(c)
      PROVE  NetInv'
  BY <1>4, NetPullKeeps
<1>5. ASSUME NEW x \in config.traffic, NEW h \in config.threads, NEW t \in config.times,
             NEW s \in config.sizes, NetSend(<<x[1], h>>, x[2], x[3], t, s)
      PROVE  NetInv'
  <2>1. <<x[1], h>> \in Caller /\ x[2] \in Core \cup {Broadcast}
    BY NetworkAssumption DEF NetInv, Typed, Core, Caller
  <2> QED
    BY <1>5, <2>1, NetSendKeeps
<1>6. CASE SetEnabled
  BY <1>6, SetEnabledKeeps
<1> QED
  BY <1>1, <1>2, <1>3, <1>4, <1>5, <1>6 DEF Next

LEMMA OneCopy ==
    ASSUME NetInv, NEW s \in Caller, NEW n \in DOMAIN sent[s], NEW r \in Core
    PROVE  Copies(s, n, r) = IF sent[s][n] \in {r, Broadcast} THEN 1 ELSE 0
<1> DEFINE K(q) == {i \in DOMAIN q : q[i].by = s /\ q[i].seq = n /\ q[i].dest = r}
           u == sending[s]
           t == transport[r]
           g == received[r]
<1>1. /\ Typed /\ ArePackets(u) /\ ArePackets(t) /\ ArePackets(g) /\ Hopping(u, s, Len(sent[s]))
      /\ Ordered(t, r) /\ Ordered(g, r) /\ Before(g, t) /\ Later(u, s, t, r) /\ Later(u, s, g, r)
  BY DEF NetInv, Typed, OwnPacket, InOrder, NotYet
<1>2. n \in Nat /\ ~(n < n)
  <2>1. sent[s] \in Seq(Core \cup {Broadcast})
    BY <1>1 DEF Typed
  <2> QED
    BY <2>1
<1>3. Copies(s, n, r) = Cardinality(K(u)) + Cardinality(K(t)) + Cardinality(K(g))
  BY DEF Copies
<1>4. ASSUME NEW q, ArePackets(q), sent[s][n] \notin {r, Broadcast}
      PROVE  K(q) = {}
  BY <1>4 DEF ArePackets, IsPacket
<1> HIDE DEF u, t, g
<1>5. /\ \A i, j \in K(u) : i = j
      /\ K(u) = {} \/ (K(t) = {} /\ K(g) = {})
      /\ K(t) = {} \/ K(g) = {}
  <2>1. \A i, j \in K(u) : i = j
    BY <1>1 DEF Hopping
  <2>2. K(u) = {} \/ K(t) = {}
    BY <1>1, <1>2 DEF Later
  <2>3. K(u) = {} \/ K(g) = {}
    BY <1>1, <1>2 DEF Later
  <2>4. K(t) = {} \/ K(g) = {}
    BY <1>1, <1>2 DEF Before
  <2> QED
    BY <2>1, <2>2, <2>3, <2>4
<1>6. ASSUME NEW q, ArePackets(q), Ordered(q, r)
      PROVE  \A i, j \in K(q) : i = j
  <2> SUFFICES ASSUME NEW i \in K(q), NEW j \in K(q)
               PROVE  i = j
    OBVIOUS
  <2>1. i \in Nat /\ j \in Nat
    <3>1. q \in Seq({q[k] : k \in DOMAIN q})
      BY <1>6 DEF ArePackets, IsSeq
    <3> QED
      BY <3>1
  <2>2. ~(i < j) /\ ~(j < i)
    BY <1>2, <1>6 DEF Ordered
  <2> QED
    BY <2>1, <2>2
<1>7. \A S : (\A i, j \in S : i = j) => Cardinality(S) = IF S = {} THEN 0 ELSE 1
  <2> TAKE S
  <2> HAVE \A i, j \in S : i = j
  <2>1. CASE S = {}
    BY <2>1, FS_EmptySet
  <2>2. CASE S # {}
    <3>1. PICK x : S = {x}
      BY <2>2
    <3> QED
      BY <3>1, FS_Singleton
  <2> QED
    BY <2>1, <2>2
<1>8. /\ Cardinality(K(u)) = IF K(u) = {} THEN 0 ELSE 1
      /\ Cardinality(K(t)) = IF K(t) = {} THEN 0 ELSE 1
      /\ Cardinality(K(g)) = IF K(g) = {} THEN 0 ELSE 1
  <2>1. (\A i, j \in K(u) : i = j) /\ (\A i, j \in K(t) : i = j) /\ (\A i, j \in K(g) : i = j)
    BY <1>1, <1>5, <1>6
  <2> HIDE DEF K
  <2> QED
    BY <1>7, <2>1
<1>9. CASE sent[s][n] \in {r, Broadcast}
  <2>1. Has(u, s, n, r) \/ Has(t, s, n, r) \/ Has(g, s, n, r)
    BY <1>9 DEF NetInv, Somewhere, u, t, g
  <2>2. K(u) # {} \/ K(t) # {} \/ K(g) # {}
    BY <2>1 DEF Has
  <2> HIDE DEF K
  <2> QED
    BY <1>3, <1>5, <1>8, <1>9, <2>2
<1>10. CASE sent[s][n] \notin {r, Broadcast}
  <2>1. K(u) = {} /\ K(t) = {} /\ K(g) = {}
    BY <1>1, <1>4, <1>10
  <2> HIDE DEF K
  <2> QED
    BY <1>3, <1>8, <1>10, <2>1
<1> QED
  BY <1>9, <1>10

LEMMA NetInvDelivers == NetInv => DeliveredOnceInOrder
<1> SUFFICES ASSUME NetInv PROVE DeliveredOnceInOrder
  OBVIOUS
<1>1. DeliveredOnce
  BY OneCopy DEF DeliveredOnce
<1>2. DeliveredInOrder
  BY DEF NetInv, InOrder, Ordered, DeliveredInOrder
<1> QED
  BY <1>1, <1>2 DEF DeliveredOnceInOrder

\* Network::netSend, SmTransport and the callback lose, repeat and reorder nothing, for every
\* number of cores, every topology of the four models, any queue models on the links and any
\* traffic, whenever the models are enabled and disabled: each packet is, for each of its
\* receivers, in exactly one place, nobody else gets it, and a receiver is called back with
\* the packets of one host thread in the order they were sent, while the application's thread
\* and the simulation thread of a core are in netSend at once.
THEOREM NetworkDelivers == PartsSpec => []DeliveredOnceInOrder
<1>1. PartsInit => NetInv
  BY NetInvStarts DEF PartsInit
<1>2. NetInv /\ [PartsNext]_partsVars => NetInv'
  <2> SUFFICES ASSUME NetInv, [PartsNext]_partsVars
               PROVE  NetInv'
    OBVIOUS
  <2>1. [Next]_vars
    BY DEF PartsNext, partsVars, NetworkStep, ObjectStep, GroupStep
  <2> QED
    BY <2>1, NetInvSteps
<1> QED
  BY <1>1, <1>2, NetInvDelivers, PTL DEF PartsSpec

-----------------------------------------------------------------------------
(* The host objects: HostSyncProofs, about the instance Host.               *)

HP == INSTANCE HostSyncProofs WITH config <- workload

LEMMA SameHelpers ==
    /\ Host!Cardinality(Thread) = HP!Cardinality(Thread)
    /\ Host!IsFiniteSet(Thread) <=> HP!IsFiniteSet(Thread)
    /\ Host!Sharers = HP!Sharers /\ Host!Futex = HP!Futex /\ Host!Kind = HP!Kind
    /\ Host!CallsOf = HP!CallsOf
    /\ Host!Full = HP!Full /\ Host!Empty = HP!Empty /\ Host!QSize = HP!QSize
    /\ \A t, op : Host!Calls(t, op) <=> HP!Calls(t, op)
    /\ \A th, t, pc : Host!Goto(th, t, pc) = HP!Goto(th, t, pc)
    /\ \A th, t : Host!Returned(th, t) = HP!Returned(th, t)
    /\ \A th, t, f : Host!ToSleep(th, t, f) = HP!ToSleep(th, t, f)
    /\ \A th, W : Host!WakeUp(th, W) = HP!WakeUp(th, W)
    /\ \A f : /\ Host!Sleepers(f) = HP!Sleepers(f)
              /\ Host!WakeOne(f) = HP!WakeOne(f) /\ Host!WakeAll(f) = HP!WakeAll(f)
    /\ \A t : Host!Mine(t) = HP!Mine(t)
    /\ \A t, c : Host!Take(t, c) <=> HP!Take(t, c)
    /\ \A C : Host!Give(C) <=> HP!Give(C)
<1>0. /\ Host!Cardinality(Thread) = HP!Cardinality(Thread)
      /\ Host!IsFiniteSet(Thread) <=> HP!IsFiniteSet(Thread)
  BY DEF Host!Cardinality, HP!Cardinality, Host!IsFiniteSet, HP!IsFiniteSet
<1>1. Host!Sharers = HP!Sharers
  BY <1>0 DEF Host!Sharers, HP!Sharers
<1>2. Host!Futex = HP!Futex /\ Host!Kind = HP!Kind /\ Host!CallsOf = HP!CallsOf
  BY DEF Host!Futex, HP!Futex, Host!Kind, HP!Kind, Host!CallsOf, HP!CallsOf
<1>3. Host!QSize = HP!QSize
  BY DEF Host!QSize, HP!QSize
<1>4. Host!Full = HP!Full /\ Host!Empty = HP!Empty
  BY <1>3 DEF Host!Full, HP!Full, Host!Empty, HP!Empty
<1>5. \A t, op : Host!Calls(t, op) <=> HP!Calls(t, op)
  BY DEF Host!Calls, HP!Calls, Host!Idle, HP!Idle
<1>6. \A th, t, pc : Host!Goto(th, t, pc) = HP!Goto(th, t, pc)
  BY DEF Host!Goto, HP!Goto
<1>7. \A th, t : Host!Returned(th, t) = HP!Returned(th, t)
  BY DEF Host!Returned, HP!Returned
<1>8. \A th, t, f : Host!ToSleep(th, t, f) = HP!ToSleep(th, t, f)
  BY DEF Host!ToSleep, HP!ToSleep
<1>9. \A th, W : Host!WakeUp(th, W) = HP!WakeUp(th, W)
  BY DEF Host!WakeUp, HP!WakeUp
<1>10. \A f : Host!Sleepers(f) = HP!Sleepers(f)
  BY DEF Host!Sleepers, HP!Sleepers
<1>11. \A f : Host!WakeOne(f) = HP!WakeOne(f) /\ Host!WakeAll(f) = HP!WakeAll(f)
  BY <1>10 DEF Host!WakeOne, HP!WakeOne, Host!WakeAll, HP!WakeAll
<1>12. \A t : Host!Mine(t) = HP!Mine(t)
  BY <1>1 DEF Host!Mine, HP!Mine
<1>13. \A t, c : Host!Take(t, c) <=> HP!Take(t, c)
  BY DEF Host!Take, HP!Take
<1>14. \A C : Host!Give(C) <=> HP!Give(C)
  BY <1>1 DEF Host!Give, HP!Give
<1> QED
  BY <1>0, <1>1, <1>2, <1>3, <1>4, <1>5, <1>6, <1>7, <1>8, <1>9, <1>10, <1>11, <1>12, <1>13, <1>14

LEMMA SameInit == Host!Init => HP!Init
  BY SameHelpers DEF Host!Init, HP!Init

LEMMA SameConstants == Host!HostConstants => HP!HostConstants
<1>1. \A w : Host!IsWorkload(w) => HP!IsWorkload(w)
  BY SameHelpers DEF Host!IsWorkload, HP!IsWorkload
<1> QED
  BY <1>1, SameHelpers DEF Host!HostConstants, HP!HostConstants

LEMMA SameNext ==
    [Host!Next]_hostVars => [HP!Next]_HP!vars
<1>1. UNCHANGED hostVars => UNCHANGED HP!vars
  BY DEF hostVars, HP!vars
<1>2. ASSUME NEW t \in Thread, Host!FutexWait(t)
      PROVE  HP!FutexWait(t)
  BY <1>2, SameHelpers DEF Host!FutexWait, HP!FutexWait
<1>3. ASSUME NEW t \in Thread, Host!SemaphoreWait(t)
      PROVE  HP!SemaphoreWait(t)
  BY <1>3, SameHelpers DEF Host!SemaphoreWait, HP!SemaphoreWait, Host!SemaphoreTry, HP!SemaphoreTry
<1>4. ASSUME NEW t \in Thread, Host!SemaphoreSignal(t)
      PROVE  HP!SemaphoreSignal(t)
  BY <1>4, SameHelpers DEF Host!SemaphoreSignal, HP!SemaphoreSignal, Host!SemaphorePost, HP!SemaphorePost
<1>5. ASSUME NEW t \in Thread, Host!PushWait(t)
      PROVE  HP!PushWait(t)
  BY <1>5, SameHelpers DEF Host!PushWait, HP!PushWait
<1>6. ASSUME NEW t \in Thread, Host!PopWait(t)
      PROVE  HP!PopWait(t)
  BY <1>6, SameHelpers DEF Host!PopWait, HP!PopWait
<1>7. ASSUME NEW t \in Thread, Host!BarrierArrive(t)
      PROVE  HP!BarrierArrive(t)
  BY <1>7, SameHelpers DEF Host!BarrierArrive, HP!BarrierArrive, Host!BarrierCount, HP!BarrierCount
<1>8. ASSUME NEW t \in Thread, Host!BarrierBroadcast(t)
      PROVE  HP!BarrierBroadcast(t)
  BY <1>8, SameHelpers DEF Host!BarrierBroadcast, HP!BarrierBroadcast
<1>9. ASSUME NEW t \in Thread, Host!BarrierLeave(t)
      PROVE  HP!BarrierLeave(t)
  BY <1>9, SameHelpers DEF Host!BarrierLeave, HP!BarrierLeave
<1>10. ASSUME NEW t \in Thread, Host!AcquireShared(t)
      PROVE  HP!AcquireShared(t)
  BY <1>10, SameHelpers DEF Host!AcquireShared, HP!AcquireShared
<1>11. ASSUME NEW t \in Thread, Host!Upgrade(t)
      PROVE  HP!Upgrade(t)
  BY <1>11, SameHelpers DEF Host!Upgrade, HP!Upgrade
<1>12. ASSUME NEW t \in Thread, Host!AcquireExclusive(t)
      PROVE  HP!AcquireExclusive(t)
  BY <1>12, SameHelpers DEF Host!AcquireExclusive, HP!AcquireExclusive, Host!LockNext, HP!LockNext
<1>13. ASSUME NEW t \in Thread, Host!Downgrade(t)
      PROVE  HP!Downgrade(t)
  BY <1>13, SameHelpers DEF Host!Downgrade, HP!Downgrade
<1>14. ASSUME NEW t \in Thread, Host!ReleaseShared(t)
      PROVE  HP!ReleaseShared(t)
  BY <1>14, SameHelpers DEF Host!ReleaseShared, HP!ReleaseShared
<1>15. ASSUME NEW t \in Thread, Host!ReleaseExclusive(t)
      PROVE  HP!ReleaseExclusive(t)
  BY <1>15, SameHelpers DEF Host!ReleaseExclusive, HP!ReleaseExclusive
<1>16. ASSUME NEW t \in Thread, Host!Interrupt(t)
      PROVE  HP!Interrupt(t)
  BY <1>16, SameHelpers DEF Host!Interrupt, HP!Interrupt
<1>17. ASSUME NEW t \in Thread, Host!Step(t)
      PROVE  HP!Step(t)
  BY <1>17, <1>2, <1>3, <1>4, <1>5, <1>6, <1>7, <1>8, <1>9, <1>10, <1>11, <1>12, <1>13, <1>14, <1>15 DEF Host!Step, HP!Step
<1> QED
  BY <1>1, <1>16, <1>17 DEF Host!Next, HP!Next

LEMMA SameProperties ==
    HP!ExclusiveIsAlone /\ HP!QueueIsFifo /\ HP!BarrierLeavesTogether => HostObjectsAreSafe
<1>1. HP!ExclusiveIsAlone => Host!ExclusiveIsAlone
  BY DEF HP!ExclusiveIsAlone, Host!ExclusiveIsAlone
<1>2. HP!QueueIsFifo => Host!QueueIsFifo
  BY DEF HP!QueueIsFifo, Host!QueueIsFifo
<1>3. HP!BarrierLeavesTogether => Host!BarrierLeavesTogether
  <2>1. \A t : Host!Left(t) = HP!Left(t)
    BY DEF Host!Left, HP!Left
  <2>2. \A t : Host!Arrived(t) = HP!Arrived(t)
    BY <2>1 DEF Host!Arrived, HP!Arrived
  <2> QED
    BY <2>1, <2>2 DEF HP!BarrierLeavesTogether, Host!BarrierLeavesTogether
<1> QED
  BY <1>1, <1>2, <1>3 DEF HostObjectsAreSafe

\* The host's synchronisation objects (common/misc) keep their promises for every number of
\* threads, size of the queue and program of calls: a set lock held exclusively is held by
\* nobody else, a ring gives back what was put in, in order, and nobody leaves Barrier::wait
\* before all have come to it as often.
THEOREM ObjectsAreSafe == PartsSpec => []HostObjectsAreSafe
<1>1. HP!HostConstants
  BY HostAssumption, SameConstants
<1>2. PartsInit => HP!Inv
  BY <1>1, SameInit, HP!InvStarts DEF PartsInit
<1>3. HP!Inv /\ [PartsNext]_partsVars => HP!Inv'
  <2> SUFFICES ASSUME HP!Inv, [PartsNext]_partsVars
               PROVE  HP!Inv'
    OBVIOUS
  <2>1. [Host!Next]_hostVars
    BY DEF PartsNext, partsVars, NetworkStep, ObjectStep, GroupStep
  <2> QED
    BY <1>1, <2>1, SameNext, HP!InvSteps
<1>4. HP!Inv => HostObjectsAreSafe
  BY <1>1, HP!InvIsSafe, SameProperties
<1> QED
  BY <1>2, <1>3, <1>4, PTL DEF PartsSpec

-----------------------------------------------------------------------------
(* The barrier of an SMT core: SmtTimerProofs, about the instance Group.    *)

SP == INSTANCE SmtTimerProofs WITH Thread <- SmtThread

LEMMA SameGroupHelpers ==
    /\ Group!Context = SP!Context /\ Group!IdleContext = SP!IdleContext
    /\ Group!Goes <=> SP!Goes
    /\ \A S : Group!Min(S) = SP!Min(S)
    /\ \A c, t : Group!ContextOf(c, t) = SP!ContextOf(c, t)
    /\ \A c, S : Group!Signal(c, S) = SP!Signal(c, S)
    /\ \A hs, S : Group!Woken(hs, S) = SP!Woken(hs, S)
    /\ \A h : Group!Free(h) <=> SP!Free(h)
    /\ \A h, u : Group!Replaced(h, u) = SP!Replaced(h, u)
    /\ \A h : Group!Emptied(h) = SP!Emptied(h)
    /\ \A hs, u : Group!Given(hs, u) = SP!Given(hs, u)
    /\ \A pc : Group!OffCore(pc) = SP!OffCore(pc)
    /\ \A hs, t : Group!Checks(hs, t) = SP!Checks(hs, t)
    /\ \A c : Group!IsBarrierReached(c) <=> SP!IsBarrierReached(c)
<1>1. Group!Context = SP!Context /\ Group!IdleContext = SP!IdleContext /\ (Group!Goes <=> SP!Goes)
  BY DEF Group!Context, SP!Context, Group!IdleContext, SP!IdleContext, Group!Goes, SP!Goes
<1>2. \A S : Group!Min(S) = SP!Min(S)
  BY DEF Group!Min, SP!Min
<1>3. \A c, t : Group!ContextOf(c, t) = SP!ContextOf(c, t)
  BY <1>1 DEF Group!ContextOf, SP!ContextOf
<1>4. \A c, S : Group!Signal(c, S) = SP!Signal(c, S)
  BY <1>1 DEF Group!Signal, SP!Signal
<1>5. \A hs, S : Group!Woken(hs, S) = SP!Woken(hs, S)
  BY DEF Group!Woken, SP!Woken
<1>6. /\ \A h : Group!Free(h) <=> SP!Free(h)
      /\ \A h, u : Group!Replaced(h, u) = SP!Replaced(h, u)
      /\ \A h : Group!Emptied(h) = SP!Emptied(h)
  BY <1>1 DEF Group!Free, SP!Free, Group!Replaced, SP!Replaced, Group!Emptied, SP!Emptied
<1>7. /\ \A hs, u : Group!Given(hs, u) = SP!Given(hs, u)
      /\ \A pc : Group!OffCore(pc) = SP!OffCore(pc)
      /\ \A hs, t : Group!Checks(hs, t) = SP!Checks(hs, t)
  BY DEF Group!Given, SP!Given, Group!OffCore, SP!OffCore, Group!Checks, SP!Checks
<1>8. \A c : Group!IsBarrierReached(c) <=> SP!IsBarrierReached(c)
  BY <1>1 DEF Group!IsBarrierReached, SP!IsBarrierReached, Group!AllInBarrier, SP!AllInBarrier
<1> QED
  BY <1>1, <1>2, <1>3, <1>4, <1>5, <1>6, <1>7, <1>8

LEMMA SameRelease ==
    \A c, all, me : Group!BarrierRelease(c, all, me) = SP!BarrierRelease(c, all, me)
<1>1. \A h : Group!HasEnough(h) <=> SP!HasEnough(h)
  BY DEF Group!HasEnough, SP!HasEnough
<1>2. \A C : Group!Lowest(C) = SP!Lowest(C)
  BY DEF Group!Lowest, SP!Lowest
<1> TAKE c, all, me
<1> DEFINE wantedG == {h \in Group!Context : c[h].inBarrier /\ ~Group!HasEnough(h)}
           wantedS == {h \in SP!Context : c[h].inBarrier /\ ~SP!HasEnough(h)}
           firstG == IF all \/ wantedG = {} THEN wantedG ELSE {Group!Min(wantedG)}
           firstS == IF all \/ wantedS = {} THEN wantedS ELSE {SP!Min(wantedS)}
           countedG == {h \in Group!Context : /\ c[h].running
                                              /\ ~c[h].inBarrier \/ h \in firstG
                                              /\ all \/ firstG = {} \/ h <= Group!Min(firstG)}
           countedS == {h \in SP!Context : /\ c[h].running
                                           /\ ~c[h].inBarrier \/ h \in firstS
                                           /\ all \/ firstS = {} \/ h <= SP!Min(firstS)}
           waitingG == {h \in Group!Context : c[h].inBarrier /\ c[h].running} \ (firstG \ {me})
           waitingS == {h \in SP!Context : c[h].inBarrier /\ c[h].running} \ (firstS \ {me})
           lowestG == IF countedG # {} \/ waitingG = {} THEN {} ELSE Group!Lowest(waitingG)
           lowestS == IF countedS # {} \/ waitingS = {} THEN {} ELSE SP!Lowest(waitingS)
           secondG == IF all \/ lowestG = {} THEN lowestG ELSE {Group!Min(lowestG)}
           secondS == IF all \/ lowestS = {} THEN lowestS ELSE {SP!Min(lowestS)}
<1>3. wantedG = wantedS
  BY <1>1, SameGroupHelpers
<1>4. firstG = firstS
  BY <1>3, SameGroupHelpers
<1>5. countedG = countedS
  BY <1>4, SameGroupHelpers
<1>6. waitingG = waitingS
  BY <1>4, SameGroupHelpers
<1>7. lowestG = lowestS
  BY <1>2, <1>5, <1>6, SameGroupHelpers
<1>8. secondG = secondS
  BY <1>7, SameGroupHelpers
<1> HIDE DEF wantedG, wantedS, firstG, firstS, countedG, countedS, waitingG, waitingS, lowestG, lowestS,
             secondG, secondS
<1>9. SP!BarrierRelease(c, all, me) =
        [signalled |-> (firstS \cup secondS) \ {me}, releaseMe |-> me \in firstS \cup secondS,
         execute |-> IF all \/ firstS \cup secondS = {} THEN me
                     ELSE IF secondS # {} THEN SP!Min(secondS) ELSE SP!Min(firstS),
         hung |-> countedS = {} /\ waitingS = {}]
  BY DEF SP!BarrierRelease, wantedS, firstS, countedS, waitingS, lowestS, secondS
<1>10. Group!BarrierRelease(c, all, me) =
        [signalled |-> (firstG \cup secondG) \ {me}, releaseMe |-> me \in firstG \cup secondG,
         execute |-> IF all \/ firstG \cup secondG = {} THEN me
                     ELSE IF secondG # {} THEN Group!Min(secondG) ELSE Group!Min(firstG),
         hung |-> countedG = {} /\ waitingG = {}]
  BY DEF Group!BarrierRelease, wantedG, firstG, countedG, waitingG, lowestG, secondG
<1> QED
  BY <1>4, <1>5, <1>6, <1>8, <1>9, <1>10, SameGroupHelpers

LEMMA SameScheduling ==
    /\ \A t : Group!Runnable(t) <=> SP!Runnable(t)
    /\ \A hs, h : Group!Left(hs, h) = SP!Left(hs, h)
    /\ \A c, hs : Group!SignalBarrier(c, hs) <=> SP!SignalBarrier(c, hs)
<1>1. \A t : Group!Runnable(t) <=> SP!Runnable(t)
  BY SameGroupHelpers DEF Group!Runnable, SP!Runnable
<1>2. \A hs, h : Group!Left(hs, h) = SP!Left(hs, h)
  BY SameGroupHelpers DEF Group!Left, SP!Left
<1>3. \A c, hs : Group!SignalBarrier(c, hs) <=> SP!SignalBarrier(c, hs)
  BY SameGroupHelpers, SameRelease DEF Group!SignalBarrier, SP!SignalBarrier
<1> QED
  BY <1>1, <1>2, <1>3

LEMMA SameHostStep ==
    ASSUME NEW t \in SmtThread, Group!HostStep(t)
    PROVE  SP!HostStep(t)
<1>1. Group!PushInstructions(t) => SP!PushInstructions(t)
  BY DEF Group!PushInstructions, SP!PushInstructions
<1>2. \A c, hs : Group!Execute(t, c, hs) => SP!Execute(t, c, hs)
  BY SameGroupHelpers DEF Group!Execute, SP!Execute
<1>3. \A h : Group!Barrier(t, h) => SP!Barrier(t, h)
  BY <1>2, SameGroupHelpers, SameRelease DEF Group!Barrier, SP!Barrier
<1>4. Group!Simulate(t) => SP!Simulate(t)
  BY <1>3, SameGroupHelpers DEF Group!Simulate, SP!Simulate
<1>5. Group!BarrierExit(t) => SP!BarrierExit(t)
  BY <1>2, SameGroupHelpers DEF Group!BarrierExit, SP!BarrierExit
<1>6. Group!SyncDone(t) => SP!SyncDone(t)
  BY SameGroupHelpers, SameRelease DEF Group!SyncDone, SP!SyncDone
<1>7. Group!Reschedule(t) => SP!Reschedule(t)
  BY SameGroupHelpers, SameScheduling DEF Group!Reschedule, SP!Reschedule
<1> QED
  BY <1>1, <1>4, <1>5, <1>6, <1>7, SameGroupHelpers DEF Group!HostStep, SP!HostStep

LEMMA SameSchedulerStep ==
    ASSUME NEW t \in SmtThread, Group!SchedulerStep(t)
    PROVE  SP!SchedulerStep(t)
<1>1. \A pc : Group!LeavesCore(t, pc) => SP!LeavesCore(t, pc)
  BY SameGroupHelpers, SameScheduling DEF Group!LeavesCore, SP!LeavesCore
<1>2. Group!ThreadStall(t) \/ Group!ThreadExit(t) => SP!ThreadStall(t) \/ SP!ThreadExit(t)
  BY <1>1 DEF Group!ThreadStall, SP!ThreadStall, Group!ThreadExit, SP!ThreadExit
<1>3. Group!ThreadStallInPlace(t) => SP!ThreadStallInPlace(t)
  BY SameGroupHelpers, SameScheduling DEF Group!ThreadStallInPlace, SP!ThreadStallInPlace
<1>4. Group!ThreadResume(t) => SP!ThreadResume(t)
  BY SameGroupHelpers DEF Group!ThreadResume, SP!ThreadResume
<1>5. Group!Schedule(t) => SP!Schedule(t)
  BY SameGroupHelpers, SameScheduling DEF Group!Schedule, SP!Schedule
<1>6. Group!ComesBack(t) => SP!ComesBack(t)
  BY SameGroupHelpers, SameScheduling DEF Group!ComesBack, SP!ComesBack
<1>7. \A h \in Group!Context : Group!ThreadStart(t, h) => SP!ThreadStart(t, h)
  BY SameGroupHelpers DEF Group!ThreadStart, SP!ThreadStart
<1> QED
  BY <1>2, <1>3, <1>4, <1>5, <1>6, <1>7, SameGroupHelpers DEF Group!SchedulerStep, SP!SchedulerStep

LEMMA SameGroupNext ==
    [Group!Next]_groupVars => [SP!Next]_SP!vars
<1>1. UNCHANGED groupVars => UNCHANGED SP!vars
  BY DEF groupVars, SP!vars
<1>2. Group!Enable \/ Group!Disable => SP!Enable \/ SP!Disable
  BY SameGroupHelpers DEF Group!Enable, SP!Enable, Group!Disable, SP!Disable
<1>3. \A h : Group!Preempt(h) => SP!Preempt(h)
  BY SameGroupHelpers, SameScheduling DEF Group!Preempt, SP!Preempt
<1> QED
  BY <1>1, <1>2, <1>3, SameHostStep, SameSchedulerStep, SameGroupHelpers DEF Group!Next, SP!Next

\* In the group of hardware contexts of an SMT core, for any number of contexts and threads,
\* whatever the scheduler preempts and whoever stalls, a context that the barrier releases has
\* a thread that waits on it, and at most one thread executes for the group.
THEOREM GroupIsSound == PartsSpec => []GroupBarrierIsSound
<1>1. SP!SmtConstants
  BY GroupAssumption DEF Group!SmtConstants, SP!SmtConstants
<1>2. PartsInit => SP!SmtInv
  <2>1. Group!Init => SP!Init
    BY SameGroupHelpers DEF Group!Init, SP!Init
  <2> QED
    BY <2>1, SP!InitInv DEF PartsInit
<1>3. SP!SmtInv /\ [PartsNext]_partsVars => SP!SmtInv'
  <2> SUFFICES ASSUME SP!SmtInv, [PartsNext]_partsVars
               PROVE  SP!SmtInv'
    OBVIOUS
  <2>1. [Group!Next]_groupVars
    BY DEF PartsNext, partsVars, NetworkStep, ObjectStep, GroupStep
  <2> QED
    BY <1>1, <2>1, SameGroupNext, SP!NextInv
<1>4. SP!GroupBarrierIsSound => GroupBarrierIsSound
  BY SameGroupHelpers DEF SP!GroupBarrierIsSound, Group!GroupBarrierIsSound, GroupBarrierIsSound,
     SP!MarkedAreWaiting, Group!MarkedAreWaiting, SP!OneExecutor, Group!OneExecutor,
     SP!Cardinality, Group!Cardinality
<1> QED
  BY <1>2, <1>3, <1>4, SP!InvIsSound, PTL DEF PartsSpec
=============================================================================
