------------------------------ MODULE Network ------------------------------
(***************************************************************************)
(* The simulated interconnect (common/network, common/transport): a core's *)
(* netSend asks the network model of every node on the way for the next    *)
(* hop and its time, then puts the packet into the receiver's transport    *)
(* queue; the receiver's simulation thread pulls it, lets its own model    *)
(* add the time of the ejection port, and calls back.  A node's model is   *)
(* locked for one routePacket or processReceivedPacket: those are the      *)
(* steps, and packets of other senders pass between two hops.  netSend     *)
(* itself takes no lock: the application's thread on a core and the core's *)
(* simulation thread may both be in it.                                    *)
(***************************************************************************)
EXTENDS QueueModel, FiniteSets

CONSTANTS Config,      \* network configurations to consider (see MCNetwork)
          Broadcast,   \* NetPacket::BROADCAST
          MaxPackets   \* bound on the packets sent

VARIABLES config,     \* the configuration, fixed
          enabled,    \* m_enabled of the models
          queues,     \* the queue model of every link
          sending,    \* per host thread: the hops its netSend has still to deliver
          transport,  \* per core: SmNode::m_queue
          received,   \* per core: packets given to the callback
          sent,       \* history: what each host thread has sent, in order
          served      \* history: link, start and end of every service, and whether
                      \* the request was put into a gap too short for it
vars == <<config, enabled, queues, sending, transport, received, sent, served>>

Core == 0 .. config.cores - 1
HostThread == {"user", "sim"}      \* of a core, as in ShmemPerfModel::Thread_t
Caller == Core \X HostThread       \* those that call netSend, each for its core
Model == {"magic", "bus", "emesh_hop_counter", "emesh_hop_by_hop"}
\* Senders and receivers are cores, and no core has the number of a broadcast.
ASSUME NetworkAssumption ==
    \A f \in Config :
        /\ f.model \in Model /\ f.cores \in Nat /\ Broadcast \notin 0 .. f.cores - 1
        /\ \A x \in f.traffic : /\ x[1] \in 0 .. f.cores - 1
                                /\ x[2] \in 0 .. f.cores - 1 \cup {Broadcast}
        /\ f.threads \subseteq HostThread
App(c) == c < config.apps          \* the other cores (MCP) carry no modelled traffic
Abs(n) == IF n < 0 THEN -n ELSE n
Lesser(a, b) == IF a < b THEN a ELSE b

-----------------------------------------------------------------------------
\* network_model_emesh_hop_by_hop.cc
Width == config.width
Height == config.apps \div (config.concentration * config.width)
FakeNode(c) == c % config.concentration # 0 \/ c >= config.concentration * Width * Height
Position(c) == [x |-> (c \div config.concentration) % Width,
                y |-> (c \div config.concentration) \div Width]
CoreId(x, y) ==
    (((y + Height) % Height) * Width + ((x + Width) % Width)) * config.concentration

Distance(a, b) ==
    LET dx == Abs(Position(a).x - Position(b).x)
        dy == Abs(Position(a).y - Position(b).y)
    IN  IF config.wrap THEN Lesser(dx, Width - dx) + Lesser(dy, Height - dy) ELSE dx + dy

\* getNextDest: dimension-order routing, x first.
GoesBack(a, b, size) == (a > b) # (config.wrap /\ Abs(a - b) > (size + 1) \div 2)
NextDest(c, dest) ==
    LET s == Position(c)
        d == Position(dest)
    IN  IF ~App(dest) \/ c \div config.concentration = dest \div config.concentration
        THEN [dir |-> "destination", next |-> dest]
        ELSE IF s.x # d.x
        THEN IF GoesBack(s.x, d.x, Width) THEN [dir |-> "left", next |-> CoreId(s.x - 1, s.y)]
             ELSE [dir |-> "right", next |-> CoreId(s.x + 1, s.y)]
        ELSE IF GoesBack(s.y, d.y, Height) THEN [dir |-> "down", next |-> CoreId(s.x, s.y - 1)]
             ELSE [dir |-> "up", next |-> CoreId(s.x, s.y + 1)]

\* A request at one link: r is [time, queues, served] so far.  Requests that a
\* model does not let occupy the link (old or out-of-order ones) are not recorded.
Holds(q, t, p) ==
    /\ config.queue.kind # "windowed_mg1"
    /\ config.queue.kind = "history_list" => ~IsOld(config.queue, q, t, p)
    /\ config.queue.kind = "contention" => Occupies(q.contention, t)
    /\ config.queue.kind = "basic" => config.queue.window = 0

\* The request waits for the delay d that the queue model answers.
Delayed(r, link, p, d) ==
    [time |-> r.time + d.delay,
     queues |-> [r.queues EXCEPT ![link] = d.queue],
     served |-> IF Holds(r.queues[link], r.time, p)
                THEN Append(r.served, [link |-> link, start |-> r.time + d.delay, size |-> p,
                                       squeezed |-> Squeezed(config.queue, r.queues[link], r.time, p)])
                ELSE r.served]
UseLink(r, link, p) ==
    Delayed(r, link, p, ComputeQueueDelay(config.queue, r.queues[link], r.time, p))

\* computeInjectionPortQueueDelay, computeEjectionPortQueueDelay, computeLatency
InjectionPort(r, c, dest, p) ==
    IF ~config.queueing \/ dest = c THEN r ELSE UseLink(r, <<c, "in">>, p)
EjectionPort(r, c, p) == IF ~config.queueing THEN r ELSE UseLink(r, <<c, "out">>, p)
Latency(r, c, dir, p, requester) ==
    IF ~enabled \/ ~App(requester) THEN r
    ELSE [(IF config.queueing THEN UseLink(r, <<c, dir>>, p) ELSE r) EXCEPT !.time = @ + config.hop]

\* One unicast through node c: injection port if it starts here, then addHop.
AddHop(times, out) == [times |-> Append(times, out.time), state |-> out]
Leave(r, c, pkt, hop) ==
    IF hop.dir = "destination" THEN r ELSE Latency(r, c, hop.dir, pkt.size, pkt.requester)
MeshHop(times, r, c, pkt, dest) ==
    AddHop(times, Leave(IF pkt.sender = c THEN InjectionPort(r, c, dest, pkt.size) ELSE r,
                        c, pkt, NextDest(c, dest)))

-----------------------------------------------------------------------------
\* routePacket of the four models, at node c: the hops and the queues after it.
AllCores == [i \in 1 .. config.cores |-> i - 1]

Receivers(dest) == IF dest = Broadcast THEN AllCores ELSE <<dest>>

Now(pkt) == [time |-> pkt.time, queues |-> queues, served |-> served]
Hops(dest, next(_), time(_)) ==
    [i \in DOMAIN Receivers(dest) |->
        [dest |-> Receivers(dest)[i], next |-> next(Receivers(dest)[i]), time |-> time(i)]]
ToAll(dest, time(_)) == Hops(dest, LAMBDA d : d, time)

RouteMagic(pkt) == [hops |-> ToAll(pkt.dest, LAMBDA i : pkt.time + 1), state |-> Now(pkt)]

\* NetworkModelEMeshHopCounter: a square mesh over all cores, no contention.  A
\* broadcast leaves one packet after the other.
CounterWidth == CHOOSE w \in 1 .. config.cores : w * w <= config.cores /\ config.cores < (w + 1) * (w + 1)
CounterDistance(s, d) ==
    Abs((s % CounterWidth) - (d % CounterWidth)) + Abs((s \div CounterWidth) - (d \div CounterWidth))
CounterLatency(distance, s, d, size) == distance * config.hop + (IF s = d THEN 0 ELSE size)
RouteHopCounter(pkt) ==
    [hops |-> ToAll(pkt.dest, LAMBDA i :
                 pkt.time + (i - 1) * pkt.size
                          + LET d == Receivers(pkt.dest)[i]
                            IN CounterLatency(CounterDistance(pkt.sender, d), pkt.sender, d, pkt.size)),
     state |-> Now(pkt)]

\* accountPacket, useBus
AccountPacket(pkt) ==
    /\ enabled
    /\ ~(config.ignoreLocal /\ pkt.sender = pkt.dest)
    /\ App(pkt.requester) /\ App(pkt.sender) /\ (pkt.dest = Broadcast \/ App(pkt.dest))
RouteBus(pkt) ==
    LET Bus(r) == [hops |-> ToAll(pkt.dest, LAMBDA i : r.time), state |-> r]
    IN  Bus(IF ~AccountPacket(pkt) THEN Now(pkt)
            ELSE [UseLink(Now(pkt), <<0, "bus">>, pkt.size) EXCEPT !.time = @ + pkt.size])

\* A node that is not the master of its concentrated node sends for free; a
\* broadcast is one unicast per core (network/emesh_hop_by_hop/broadcast_tree off).
RouteMesh(c, pkt) ==
    LET Mesh(m) == [hops |-> Hops(pkt.dest, LAMBDA d : NextDest(c, d).next, LAMBDA i : m.times[i]),
                    state |-> m.state]
    IN  IF FakeNode(c)
        THEN [hops |-> ToAll(pkt.dest, LAMBDA i : pkt.time), state |-> Now(pkt)]
        ELSE Mesh(FoldLeft(LAMBDA a, d : MeshHop(a.times, [a.state EXCEPT !.time = pkt.time], c, pkt, d),
                           [times |-> <<>>, state |-> Now(pkt)], Receivers(pkt.dest)))

RoutePacket(c, pkt) ==
    CASE config.model = "magic" -> RouteMagic(pkt)
      [] config.model = "bus" -> RouteBus(pkt)
      [] config.model = "emesh_hop_counter" -> RouteHopCounter(pkt)
      [] config.model = "emesh_hop_by_hop" -> RouteMesh(c, pkt)

\* processReceivedPacket: only the mesh changes the packet's time.
ProcessReceivedPacket(c, pkt) ==
    IF /\ config.model = "emesh_hop_by_hop" /\ enabled
       /\ App(pkt.requester) /\ App(c) /\ pkt.sender # c /\ ~FakeNode(c)
    THEN [EjectionPort(Now(pkt), c, pkt.size) EXCEPT !.time = @ + pkt.size]
    ELSE Now(pkt)

-----------------------------------------------------------------------------
Link == {<<c, d>> : c \in Core, d \in {"in", "out", "up", "down", "left", "right", "bus"}}
Init ==
    /\ config \in Config
    /\ enabled = config.roi
    /\ queues = [l \in Link |-> NewQueue]
    /\ sending = [k \in Caller |-> <<>>]
    /\ transport = [c \in Core |-> <<>>]
    /\ received = [c \in Core |-> <<>>]
    /\ sent = [k \in Caller |-> <<>>]
    /\ served = <<>>

NumSent == MapThenSumSet(LAMBDA k : Len(sent[k]), Caller)

\* Network::netSend, called by host thread k: the first node is its own core.  (by and
\* seq, which the code does not have, name the packet in the properties.)
NetSend(k, dest, requester, time, size) ==
    LET pkt == [by |-> k, seq |-> Len(sent[k]) + 1, sender |-> k[1], dest |-> dest,
                requester |-> requester, time |-> time, start |-> time, size |-> size,
                timed |-> enabled, next |-> k[1]]
    IN  /\ sending[k] = <<>> /\ NumSent < MaxPackets
        /\ \E r \in {RoutePacket(k[1], pkt)} :
              /\ sending' = [sending EXCEPT ![k] =
                    [i \in DOMAIN r.hops |->
                        [pkt EXCEPT !.dest = r.hops[i].dest, !.next = r.hops[i].next,
                                    !.time = r.hops[i].time]]]
              /\ queues' = r.state.queues /\ served' = r.state.served
        /\ sent' = [sent EXCEPT ![k] = Append(@, dest)]
        /\ UNCHANGED <<config, enabled, transport, received>>

\* netSend's loop while next_dest != final_dest: ask the model of the next node.
NextHop(k) ==
    /\ sending[k] # <<>>
    /\ LET pkt == Head(sending[k])
       IN  /\ pkt.next # pkt.dest
           /\ \E r \in {RoutePacket(pkt.next, pkt)} :
              /\ sending' = [sending EXCEPT ![k] =
                    <<[pkt EXCEPT !.next = r.hops[1].next, !.time = r.hops[1].time]>> \o Tail(@)]
              /\ queues' = r.state.queues /\ served' = r.state.served
    /\ UNCHANGED <<config, enabled, transport, received, sent>>

TransportSendFirst(k) ==
    /\ sending[k] # <<>>
    /\ LET pkt == Head(sending[k])
       IN  /\ pkt.next = pkt.dest
           /\ transport' = [transport EXCEPT ![pkt.dest] = <<pkt>> \o @]
    /\ sending' = [sending EXCEPT ![k] = Tail(@)]
    /\ UNCHANGED <<config, enabled, queues, received, sent, served>>

\* SmNode::send into the queue of the final destination.
TransportSend(k) ==
    /\ sending[k] # <<>>
    /\ LET pkt == Head(sending[k])
       IN  /\ pkt.next = pkt.dest
           /\ transport' = [transport EXCEPT ![pkt.dest] = Append(@, pkt)]
    /\ sending' = [sending EXCEPT ![k] = Tail(@)]
    /\ UNCHANGED <<config, enabled, queues, received, sent, served>>

\* netPullFromTransport, one packet: SmNode::recv, the model, the callback.
NetPull(c) ==
    /\ transport[c] # <<>>
    /\ LET pkt == Head(transport[c])
       IN \E r \in {ProcessReceivedPacket(c, pkt)} :
           /\ received' = [received EXCEPT ![c] = Append(@, [pkt EXCEPT !.time = r.time])]
           /\ queues' = r.queues /\ served' = r.served
    /\ transport' = [transport EXCEPT ![c] = Tail(@)]
    /\ UNCHANGED <<config, enabled, sending, sent>>

\* enableModels, disableModels: what is under way is timed in part only.
Untimed(s) == [c \in DOMAIN s |-> [i \in DOMAIN s[c] |-> [s[c][i] EXCEPT !.timed = FALSE]]]
SetEnabled ==
    /\ config.toggles
    /\ enabled' = ~enabled
    /\ sending' = Untimed(sending)
    /\ transport' = Untimed(transport)
    /\ UNCHANGED <<config, queues, received, sent, served>>

Next ==
    \/ \E k \in Caller : NextHop(k) \/ TransportSend(k)
    \/ \E c \in Core : NetPull(c)
    \/ \E x \in config.traffic, h \in config.threads, t \in config.times, s \in config.sizes :
          NetSend(<<x[1], h>>, x[2], x[3], t, s)
    \/ SetEnabled
Spec == Init /\ [][Next]_vars

-----------------------------------------------------------------------------
\* Every packet sent is, for each of its receivers, in exactly one place on the
\* way to it or delivered, and nobody else gets it.
Copies(k, n, r) ==
    LET of(q) == {i \in DOMAIN q : q[i].by = k /\ q[i].seq = n /\ q[i].dest = r}
    IN  Cardinality(of(sending[k])) + Cardinality(of(transport[r])) + Cardinality(of(received[r]))
DeliveredOnce ==
    \A k \in Caller : \A n \in DOMAIN sent[k] : \A r \in Core :
        Copies(k, n, r) = IF sent[k][n] \in {r, Broadcast} THEN 1 ELSE 0

\* Two packets from one host thread to a core are called back in the order sent,
\* whatever times the models gave them.  (Those of the two threads of a core have no
\* order: the coherence protocol, which needs one per line, gets it from the set locks
\* of the caches, held while it sends.)
DeliveredInOrder ==
    \A r \in Core : \A i, j \in DOMAIN received[r] :
        i < j /\ received[r][i].by = received[r][j].by
            => received[r][i].seq < received[r][j].seq

\* The interconnect loses, repeats and reorders nothing, whichever nodes, models and
\* broadcasts a packet passes on its way, and whatever both threads of a core send.
DeliveredOnceInOrder == DeliveredOnce /\ DeliveredInOrder

\* A packet between two mesh nodes takes a hop latency per unit of distance and
\* the time to transmit it, more only for queueing: without queue models the
\* hop-by-hop mesh is the hop-counter model ("this degrades into a hop counter
\* model").  Packets of masters of concentrated nodes, sent while timed.
NeverEarly ==
    config.model = "emesh_hop_by_hop" =>
        \A r \in Core : \A i \in DOMAIN received[r] :
            LET p == received[r][i]
                least == p.start + CounterLatency(Distance(p.sender, r), p.sender, r, p.size)
            IN  p.timed /\ App(p.requester) /\ App(r) /\ ~FakeNode(p.sender) /\ ~FakeNode(r)
                => p.time >= least /\ (~config.queueing => p.time = least)

\* A link serves one packet at a time, in simulated time, even though requests
\* reach it out of order.  Only the history list lets two services overlap: it puts a
\* request that comes before a free interval at its start, "fit or not", which happens
\* only to one longer than the shortest interval it keeps.
Apart(a, b) == a.start + a.size <= b.start \/ b.start + b.size <= a.start
LinksServeOne ==
    /\ \A i, j \in DOMAIN served :
          i # j /\ served[i].link = served[j].link /\ ~served[i].squeezed /\ ~served[j].squeezed
              => Apart(served[i], served[j])
    /\ \A i \in DOMAIN served : served[i].squeezed => served[i].size > config.queue.min

=============================================================================
