------------------------- MODULE CoherenceInvariant -------------------------
EXTENDS MemorySystem
-----------------------------------------------------------------------------
(***************************************************************************)
(* The inductive invariant of the coherence protocol of MemorySystem:      *)
(* what the directory entry and the current request of a line say of the   *)
(* copy, the waiting threads and the packets of every cache.               *)
(*                                                                         *)
(* A line is seen from its home node as an entry e, a mode, the current    *)
(* request q and the rest r of the queue.  The mode is "idle" (no current  *)
(* request), "active" (a request waits for caches or DRAM), "done" (the    *)
(* request is completed and processNextReqFromL2Cache is due) and, inside  *)
(* a handler only, "ready" (a request is about to be processed).  A cache  *)
(* n has the line l, the waiters w of the line, whether its network thread *)
(* is waking them (dr), and the channels s from and d to the home.         *)
(***************************************************************************)

-----------------------------------------------------------------------------
(* Packets and requests under way.                                          *)

\* A packet of type t for line a.
Is(m, a, t) == m.addr = a /\ m.type = t
\* Channel s holds a packet of type t for line a.
Has(s, a, t) == \E i \in 1 .. Len(s) : Is(s[i], a, t)
\* Channel s holds a packet of type t for line a and, behind it, one of type u.
After(s, a, t, u) ==
    \E i, j \in 1 .. Len(s) : i < j /\ Is(s[i], a, t) /\ Is(s[j], a, u)

\* The same for three packets.
After3(s, a, t, u, v) ==
    \E i, j, k \in 1 .. Len(s) :
        i < j /\ j < k /\ Is(s[i], a, t) /\ Is(s[j], a, u) /\ Is(s[k], a, v)

\* The queue r of a line holds a request of cache n of type t, of any type, two requests.
QHas(r, n, t) == \E i \in 1 .. Len(r) : r[i].requester = n /\ r[i].type = t
QAny(r, n) == \E i \in 1 .. Len(r) : r[i].requester = n
QTwice(r, n) == \E i, j \in 1 .. Len(r) : i < j /\ r[i].requester = n /\ r[j].requester = n

-----------------------------------------------------------------------------
(* One cache n and one line a.                                              *)

\* The cache has a copy; the directory believes that one cache owns the line.
Valid(l) == l.cstate # "INVALID"
Owned(e) == e.dstate \in {"EXCLUSIVE", "MODIFIED"}

\* Data, any answer to a request, a copy given up, a request: on their way.
HasData(s, a) == Has(s, a, "EX_REP") \/ Has(s, a, "SH_REP")
HasReply(s, a) == HasData(s, a) \/ Has(s, a, "UPGRADE_REP")
GaveUp(d, a) == Has(d, a, "INV_REP") \/ Has(d, a, "FLUSH_REP")
Asked(d, a) == Has(d, a, "SH_REQ") \/ Has(d, a, "EX_REQ") \/ Has(d, a, "UPGRADE_REQ")

\* A packet of type t on its way to a cache that will have a copy when it arrives.
Live(l, s, a, t) ==
    \/ Valid(l) /\ Has(s, a, t)
    \/ After(s, a, "EX_REP", t)
    \/ After(s, a, "SH_REP", t)

\* Two such packets.
LiveTwice(l, s, a, t) ==
    \/ Valid(l) /\ After(s, a, t, t)
    \/ After3(s, a, "EX_REP", t, t)
    \/ After3(s, a, "SH_REP", t, t)

\* The current request is granted and waits for its data only.
Granted(mode, q) == mode = "active" /\ (q.wait \/ q.from # INVALID_CORE_ID)
\* The current request of n is granted.
Grantee(n, mode, q) == Granted(mode, q) /\ q.requester = n
\* The current request waits for n's copy to go.
Demands(n, mode, q) ==
    /\ mode = "active" /\ ~Granted(mode, q)
    /\ q.type # "SH_REQ"
    /\ ~(q.type = "UPGRADE_REQ" /\ q.requester = n)

\* The current request waits for n's data.
AwaitsWb(n, e, mode, q) ==
    /\ mode = "active" /\ q.type = "SH_REQ" /\ ~q.wait
    /\ n \in e.sharers
    /\ q.from = n \/ (q.from = INVALID_CORE_ID /\ Owned(e))
\* The flush of one sharer for an upgrade whose requester has lost its copy.
FlushedForUpgrade(e, q) == q.type = "UPGRADE_REQ" /\ q.requester \notin e.sharers

\* The current request is n's.
CurAsks(n, mode, q) ==
    mode \in {"ready", "active"} /\ q.type # "NULLIFY_REQ" /\ q.requester = n

\* n has a request at the home.
Queued(n, mode, q, r) == CurAsks(n, mode, q) \/ QAny(r, n)

\* n is a sharer iff it was granted the line, data or a copy is on its way to or from it, or it has
\* a copy.
CopyKnown(n, a, e, mode, q, l, s, d) ==
    n \in e.sharers <=> \/ Grantee(n, mode, q)
                        \/ HasData(s, a)
                        \/ Valid(l)
                        \/ GaveUp(d, a)

\* These exclude each other, so that a sharer has exactly one of them, and gives its copy up once.
OneCopy(n, a, mode, q, l, s, d) ==
    /\ ~(HasData(s, a) /\ (Valid(l) \/ GaveUp(d, a) \/ Grantee(n, mode, q)))
    /\ ~(Valid(l) /\ (GaveUp(d, a) \/ Grantee(n, mode, q)))
    /\ ~(GaveUp(d, a) /\ Grantee(n, mode, q))
    /\ \A t, u \in {"INV_REP", "FLUSH_REP"} : ~After(d, a, t, u)

\* There is one request, queued request or reply while threads of n wait and its network thread
\* is not waking them, and none otherwise.
OneAsk(n, a, mode, q, r, w, dr, s, d) ==
    /\ Asked(d, a) \/ Queued(n, mode, q, r) \/ HasReply(s, a) <=> w # <<>> /\ ~dr
    /\ ~(Asked(d, a) /\ Queued(n, mode, q, r))
    /\ ~(Asked(d, a) /\ HasReply(s, a))
    /\ ~(Queued(n, mode, q, r) /\ HasReply(s, a))
    /\ ~(CurAsks(n, mode, q) /\ QAny(r, n))
    /\ ~QTwice(r, n)
    /\ \A t, u \in {"SH_REQ", "EX_REQ", "UPGRADE_REQ"} : ~After(d, a, t, u)
    /\ \A t, u \in {"SH_REP", "EX_REP", "UPGRADE_REP"} : ~After(s, a, t, u)

\* What a copy in each state says of the entry.
LineOK(n, a, e, mode, q, r, l, w, dr, s, d) ==
    /\ l.cstate \in {"EXCLUSIVE", "MODIFIED"} => Owned(e) /\ ~Has(d, a, "WB_REP")
    /\ l.cstate = "EXCLUSIVE" => e.dstate = "EXCLUSIVE"
    /\ l.cstate = "SHARED" => e.dstate = "SHARED" \/ Has(d, a, "WB_REP")
    /\ l.cstate = "SHARED_UPGRADING" =>
          /\ e.dstate = "SHARED" \/ Has(d, a, "WB_REP") \/ HasReply(s, a)
          /\ Asked(d, a) \/ Queued(n, mode, q, r) \/ HasReply(s, a)
    /\ dr => l.cstate \in Readable /\ w # <<>>

\* What a packet to n says: the entry grants what it brings, and a demand that will find a copy is
\* one of the current request.
ToCacheOK(n, a, e, mode, q, l, w, s, d) ==
    /\ Has(s, a, "EX_REP") => /\ Owned(e)
                              /\ e.dstate = "MODIFIED" => Head(w).exclusive
    /\ Has(s, a, "SH_REP") => e.dstate = "SHARED"
    /\ Has(s, a, "UPGRADE_REP") =>
          /\ l.cstate = "SHARED_UPGRADING" /\ e.dstate = "MODIFIED"
          /\ Head(w).exclusive
          /\ ~Has(d, a, "WB_REP")
          /\ \A t \in {"INV_REQ", "FLUSH_REQ", "WB_REQ"} : ~After(s, a, t, "UPGRADE_REP")
    /\ Live(l, s, a, "INV_REQ") => Demands(n, mode, q) /\ e.dstate = "SHARED"
    /\ Live(l, s, a, "FLUSH_REQ") => /\ Demands(n, mode, q)
                                     /\ Owned(e) \/ FlushedForUpgrade(e, q)
    /\ Live(l, s, a, "WB_REQ") => /\ AwaitsWb(n, e, mode, q)
                                  /\ ~Has(d, a, "WB_REP")
                                  /\ ~LiveTwice(l, s, a, "WB_REQ")

\* What a packet from n says: the entry still counts the copy that it gives up, and a write-back is
\* awaited.
ToDirOK(n, a, e, mode, q, l, w, d) ==
    /\ Has(d, a, "INV_REP") => \/ e.dstate \in {"SHARED", "EXCLUSIVE"}
                               \/ After(d, a, "WB_REP", "INV_REP")
    /\ Has(d, a, "FLUSH_REP") => /\ Owned(e) \/ (Demands(n, mode, q) /\ FlushedForUpgrade(e, q))
                                 /\ ~Has(d, a, "WB_REP")
    /\ Has(d, a, "WB_REP") =>
          /\ AwaitsWb(n, e, mode, q)
          /\ l.cstate \in {"SHARED", "SHARED_UPGRADING"} \/ GaveUp(d, a)
          /\ \A t \in {"WB_REP", "INV_REP", "FLUSH_REP"} : ~After(d, a, t, "WB_REP")
    /\ Has(d, a, "SH_REQ") \/ Has(d, a, "EX_REQ") =>
          /\ ~Valid(l)
          /\ \A t \in {"SH_REQ", "EX_REQ"}, u \in {"INV_REP", "FLUSH_REP"} : ~After(d, a, t, u)
    /\ Has(d, a, "UPGRADE_REQ") =>
          /\ l.cstate \in {"SHARED_UPGRADING", "INVALID"}
          /\ \A u \in {"INV_REP", "FLUSH_REP"} :
                After(d, a, "UPGRADE_REQ", u) => Demands(n, mode, q)
          /\ n \in e.sharers => \/ e.dstate = "SHARED"
                                \/ After(d, a, "WB_REP", "UPGRADE_REQ")
    /\ Has(d, a, "EX_REQ") \/ Has(d, a, "UPGRADE_REQ") => Head(w).exclusive

\* What n's requests at the home say of its copy.
QueuedOK(n, a, e, mode, q, r, l, w, d) ==
    /\ CurAsks(n, mode, q) /\ q.type \in {"SH_REQ", "EX_REQ"} =>
          ~Valid(l) /\ (n \in e.sharers => Granted(mode, q))
    /\ QHas(r, n, "SH_REQ") \/ QHas(r, n, "EX_REQ") => ~Valid(l) /\ n \notin e.sharers
    /\ (CurAsks(n, mode, q) /\ q.type = "UPGRADE_REQ") \/ QHas(r, n, "UPGRADE_REQ") =>
          /\ l.cstate \in {"SHARED_UPGRADING", "INVALID"}
          /\ n \in e.sharers /\ ~Grantee(n, mode, q) => e.dstate = "SHARED"
          /\ GaveUp(d, a) => Demands(n, mode, q)
    /\ \/ CurAsks(n, mode, q) /\ q.type \in {"EX_REQ", "UPGRADE_REQ"}
       \/ QHas(r, n, "EX_REQ") \/ QHas(r, n, "UPGRADE_REQ")
       => Head(w).exclusive

\* Everything the invariant says of cache n and line a.
NodeInv(n, a, e, mode, q, r, l, w, dr, s, d) ==
    /\ CopyKnown(n, a, e, mode, q, l, s, d)
    /\ OneCopy(n, a, mode, q, l, s, d)
    /\ OneAsk(n, a, mode, q, r, w, dr, s, d)
    /\ LineOK(n, a, e, mode, q, r, l, w, dr, s, d)
    /\ ToCacheOK(n, a, e, mode, q, l, w, s, d)
    /\ ToDirOK(n, a, e, mode, q, l, w, d)
    /\ QueuedOK(n, a, e, mode, q, r, l, w, d)

-----------------------------------------------------------------------------
(* The directory entry and the current request.                             *)

\* An entry is consistent: sharers, owner and forwarder agree with its state.
EntryOK(e, p) ==
    /\ e.dstate = "UNCACHED" <=> e.sharers = {}
    /\ Owned(e) => e.sharers = {e.owner}
    /\ e.forwarder \in e.sharers \cup {INVALID_CORE_ID, UNINITIALISED}
    /\ p = "MESIF" /\ e.dstate = "SHARED" => e.forwarder # UNINITIALISED

\* What a request in progress says of the entry.
ActiveOK(e, q) ==
    /\ q.wait =>
          /\ q.requester \in e.sharers
          /\ \/ q.type = "SH_REQ" /\ e.dstate \in {"SHARED", "EXCLUSIVE"}
             \/ q.type \in {"EX_REQ", "UPGRADE_REQ"} /\ e.dstate = "MODIFIED"
    /\ q.from # INVALID_CORE_ID =>
          /\ q.type = "SH_REQ" /\ e.dstate = "SHARED"
          /\ q.requester \in e.sharers /\ q.from # q.requester
          /\ ~q.wait => q.from \in e.sharers
    /\ ~q.wait /\ q.from = INVALID_CORE_ID =>
          /\ q.type = "SH_REQ" => Owned(e) /\ q.requester \notin e.sharers
          /\ q.type = "EX_REQ" => e.dstate # "UNCACHED" /\ q.requester \notin e.sharers
          /\ q.type = "UPGRADE_REQ" =>
                \/ e.dstate = "SHARED" /\ e.sharers # {q.requester}
                \/ Owned(e) /\ q.requester \notin e.sharers
          /\ q.type = "NULLIFY_REQ" => e.dstate # "UNCACHED"

\* Everything the invariant says of an entry and its current request, under protocol p.
HomeInv(e, mode, q, p) ==
    /\ EntryOK(e, p)
    /\ mode = "active" => ActiveOK(e, q) /\ (q.from # INVALID_CORE_ID => p \notin {"MSI", "MESI"})
    /\ mode = "ready" => q.type # "NULLIFY_REQ" /\ ~q.wait /\ q.from = INVALID_CORE_ID

\* A read of DRAM is under way only for a request that waits for it, and only one.
DramInv(a, mode, q, td, fd) ==
    /\ Has(td, a, "DRAM_READ_REQ") \/ Has(fd, a, "DRAM_READ_REP") => mode = "active" /\ q.wait
    /\ ~(Has(td, a, "DRAM_READ_REQ") /\ Has(fd, a, "DRAM_READ_REP"))
    /\ ~After(td, a, "DRAM_READ_REQ", "DRAM_READ_REQ")
    /\ ~After(fd, a, "DRAM_READ_REP", "DRAM_READ_REP")

-----------------------------------------------------------------------------
(* The invariant.                                                           *)

\* Data that is defined, for one or two caches without a forwarder.
Clean == NumNodes < 3 /\ Protocol # "MESIF"
\* The contents of buffers, the queued requests and the packets, with these buffers.
Bufs == Data \cup {NULL} \cup IF Clean THEN {} ELSE {UNDEF}
Reqs == [type : ReqType \cup {"NULLIFY_REQ"}, requester : Node, wait : BOOLEAN,
         from : Node \cup {INVALID_CORE_ID}, buf : Bufs]
Pkts(types) == [type : types, addr : Addr, buf : Bufs]

\* A request that was not processed yet; buffers with data; packets that carry data where their
\* type says so; lines whose copies have data.
FreshReq == {q \in Reqs : /\ q.type # "NULLIFY_REQ" /\ ~q.wait
                              /\ q.from = INVALID_CORE_ID /\ q.buf = NULL}
Carried == Bufs \ {NULL}
CachePackets == {m \in Pkts(CacheMsgType) : m.type \in {"EX_REP", "SH_REP"} => m.buf # NULL}
DirPackets == {m \in Pkts(DirMsgType) : m.type \in {"FLUSH_REP", "WB_REP"} => m.buf # NULL}
DramPackets == {m \in Pkts({"DRAM_READ_REQ", "DRAM_WRITE_REQ"}) :
                  m.type = "DRAM_WRITE_REQ" => m.buf # NULL}
ReplyPackets == {m \in Pkts({"DRAM_READ_REP"}) : m.buf # NULL}
Lines == {l \in [cstate : CState, buf : Bufs] : Valid(l) => l.buf # NULL}

\* The one assertion that may fail, and only if the lines outnumber the entries of a
\* directory set: all the entries are busy when one must be replaced.
Fits == IsFiniteSet(Addr) /\ Cardinality(Addr) <= DirEntries
Tolerated == IF Fits THEN {} ELSE {"no directory entry to replace"}

\* The types of the state.
Types ==
    /\ config \in Config
    /\ directory \in [Addr -> Entry]
    /\ resident \subseteq Addr
    /\ replaced \subseteq Addr
    /\ queue \in [Addr -> Seq(Reqs)]
    /\ \A a \in Addr : queue[a] # <<>> => Tail(queue[a]) \in Seq(FreshReq)
    /\ completing \in Addr \cup {NoAddr}
    /\ completing # NoAddr => queue[completing] # <<>>
    /\ line \in [Node -> [Addr -> Lines]]
    /\ waiters \in [Node -> [Addr -> Seq(Waiter)]]
    /\ draining \in [Node -> Addr \cup {NoAddr}]
    /\ toDir \in [Node -> Seq(DirPackets)]
    /\ toCache \in [Node -> Seq(CachePackets)]
    /\ toDram \in Seq(DramPackets)
    /\ fromDram \in Seq(ReplyPackets)
    /\ memory \in [Addr -> Carried]
    /\ failed \subseteq Tolerated

\* The mode and the rest of a queue.
ModeOf(qs, done) == IF qs = <<>> THEN "idle" ELSE IF done THEN "done" ELSE "active"
RestOf(qs) == IF qs = <<>> THEN <<>> ELSE Tail(qs)

\* The invariant of every entry.
HomeOK == \A a \in Addr :
    /\ HomeInv(directory[a], ModeOf(queue[a], completing = a), Head(queue[a]), Protocol)
    /\ Absent(a) => directory[a].sharers = {}
    /\ DramInv(a, ModeOf(queue[a], completing = a), Head(queue[a]), toDram, fromDram)

\* The invariant of every cache and line.
NodesOK == \A a \in Addr, n \in Node :
    NodeInv(n, a, directory[a], ModeOf(queue[a], completing = a), Head(queue[a]),
            RestOf(queue[a]), line[n][a], waiters[n][a], draining[n] = a,
            toCache[n], toDir[n])

\* The inductive invariant.
CoherenceInv == Types /\ HomeOK /\ NodesOK
=============================================================================
