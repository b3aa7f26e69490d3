---------------------------- MODULE MemorySystem ----------------------------
(***************************************************************************)
(* The coherent memory system: NumNodes last-level caches                  *)
(* (parametric_dram_directory_msi/cache_cntlr.cc), each shared by the user *)
(* threads of its cores and served by one network (sim) thread, the home   *)
(* node's directory controller (DramDirectoryCntlr) and the DRAM           *)
(* controller behind it.                                                   *)
(*                                                                         *)
(* The levels above a last-level cache are folded into it: they are        *)
(* inclusive, and every request that reaches another component leaves      *)
(* from, or arrives at, the last level with the set's stack lock held.     *)
(* Every message is a FIFO packet (smtransport.cc).                        *)
(***************************************************************************)
EXTENDS DramDirectoryCntlr

CONSTANTS DramBacklog,\* bound on the packets waiting at the DRAM controller
          NoAddr      \* "no line": not an address

ASSUME MemoryAssumption == /\ DramBacklog \in Nat \ {0}
                           /\ \A c \in Config : NoAddr \notin c.addr

User == config.users          \* user threads of one last-level cache
DirEntries == config.entries  \* m_associativity of the directory cache
\* The nodes and users of all configurations.
AnyNode == UNION {0 .. c.nodes - 1 : c \in Config}
AnyUser == UNION {c.users : c \in Config}

VARIABLES
    \* The home node
    directory,  \* directory[a]: the DirectoryEntry of a
    resident,   \* addresses of the entries in the directory cache
    replaced,   \* addresses in m_replaced_directory_entry_list
    queue,      \* m_dram_directory_req_queue_list
    completing, \* address whose current request the handler has completed
    \* The caches
    line,       \* line[n][a]: state and contents of a in cache n
    waiters,    \* waiters[n][a]: m_directory_waiters
    draining,   \* address whose waiters the network thread of n is waking
    \* Packets in flight and DRAM
    toDir, toCache, toDram, fromDram, memory,
    failed      \* observer: the assertions that failed

homeVars == <<directory, resident, replaced, queue, completing>>
cacheVars == <<line, waiters, draining>>
vars == <<config, homeVars, cacheVars, toDir, toCache, toDram, fromDram, memory, failed>>

CState == {"INVALID", "SHARED", "SHARED_UPGRADING", "EXCLUSIVE", "MODIFIED"}
Readable == {"SHARED", "EXCLUSIVE", "MODIFIED"}

CacheMsgType == {"EX_REP", "SH_REP", "UPGRADE_REP",
                 "INV_REQ", "FLUSH_REQ", "WB_REQ"}
DirMsgType == ReqType \cup {"INV_REP", "FLUSH_REP", "WB_REP"}

Packet(type, a, buf) == [type |-> type, addr |-> a, buf |-> buf]
Packets(types) == [type : types, addr : Addr, buf : Buffer]

Waiter == [user : User, exclusive : BOOLEAN]
InvalidLine == [cstate |-> "INVALID", buf |-> NULL]

TypeOK ==
    /\ directory \in [Addr -> Entry]
    /\ resident \subseteq Addr
    /\ replaced \subseteq Addr
    /\ queue \in [Addr -> Seq(ShmemReq)]
    /\ completing \in Addr \cup {NoAddr}
    /\ line \in [Node -> [Addr -> [cstate : CState, buf : Buffer]]]
    /\ waiters \in [Node -> [Addr -> Seq(Waiter)]]
    /\ draining \in [Node -> Addr \cup {NoAddr}]
    /\ toDir \in [Node -> Seq(Packets(DirMsgType))]
    /\ toCache \in [Node -> Seq(Packets(CacheMsgType))]
    /\ toDram \in Seq(Packets({"DRAM_READ_REQ", "DRAM_WRITE_REQ"}))
    /\ fromDram \in Seq(Packets({"DRAM_READ_REP"}))
    /\ memory \in [Addr -> Buffer]

Init ==
    /\ config \in Config
    /\ directory = [a \in Addr |-> NewEntry]
    /\ resident = {}
    /\ replaced = {}
    /\ queue = [a \in Addr |-> <<>>]
    /\ completing = NoAddr
    /\ line = [n \in Node |-> [a \in Addr |-> InvalidLine]]
    /\ waiters = [n \in Node |-> [a \in Addr |-> <<>>]]
    /\ draining = [n \in Node |-> NoAddr]
    /\ toDir = [n \in Node |-> <<>>]
    /\ toCache = [n \in Node |-> <<>>]
    /\ toDram = <<>>
    /\ fromDram = <<>>
    /\ \E d \in Data : memory = [a \in Addr |-> d]
    /\ failed = {}

-----------------------------------------------------------------------------
(* User threads.                                                            *)

Waiting(n, u) == \E a \in Addr : \E i \in DOMAIN waiters[n][a] :
                     waiters[n][a][i].user = u

SendToDir(n, a, type, buf) ==
    toDir' = [toDir EXCEPT ![n] = Append(@, Packet(type, a, buf))]

\* A write that is permitted here: the line is MODIFIED, or EXCLUSIVE and
\* upgraded silently.  (Reads that hit change nothing.)
WriteHit(n, a) ==
    /\ line[n][a].cstate \in {"EXCLUSIVE", "MODIFIED"}
    /\ \E u \in User : ~Waiting(n, u)
    /\ \E d \in Data : line' = [line EXCEPT ![n][a] = [cstate |-> "MODIFIED", buf |-> d]]
    /\ UNCHANGED <<homeVars, waiters, draining, toDir, toCache, toDram,
                   fromDram, memory, failed>>

\* initiateDirectoryAccess: join the waiters of the line; the first one sends.
Miss(n, a, u, exclusive) ==
    LET cstate == line[n][a].cstate
        first == waiters[n][a] = <<>>
        upgrade == exclusive /\ cstate = "SHARED"
    IN  /\ ~Waiting(n, u)
        /\ IF exclusive THEN cstate \notin {"EXCLUSIVE", "MODIFIED"}
                        ELSE cstate \notin Readable
        /\ waiters' = [waiters EXCEPT ![n][a] =
                         Append(@, [user |-> u, exclusive |-> exclusive])]
        /\ line' = IF first /\ upgrade
                   THEN [line EXCEPT ![n][a].cstate = "SHARED_UPGRADING"]
                   ELSE line
        /\ IF first
           THEN SendToDir(n, a, IF upgrade THEN "UPGRADE_REQ"
                                ELSE IF exclusive THEN "EX_REQ" ELSE "SH_REQ",
                          NULL)
           ELSE UNCHANGED toDir
        \* processExReqToDirectory
        /\ failed' = IF first /\ exclusive /\ ~upgrade /\ cstate # "INVALID"
                     THEN failed \cup {"processExReqToDirectory: cstate"}
                     ELSE failed
        /\ UNCHANGED <<homeVars, draining, toCache, toDram, fromDram, memory>>

\* handleWritebacks at the last level: a line outside Addr is inserted in the
\* set of a and replaces a.  A line that is SHARED_UPGRADING is no victim, and
\* the inserting network thread is not in the middle of another reply.
Evict(n, a) ==
    /\ draining[n] = NoAddr
    /\ line[n][a].cstate \in Readable
    /\ IF line[n][a].cstate = "MODIFIED"
       THEN SendToDir(n, a, "FLUSH_REP", line[n][a].buf)
       ELSE SendToDir(n, a, "INV_REP", NULL)
    /\ line' = [line EXCEPT ![n][a] = InvalidLine]
    /\ UNCHANGED <<homeVars, waiters, draining, toCache, toDram, fromDram,
                   memory, failed>>

-----------------------------------------------------------------------------
(* The network thread of a cache: handleMsgFromDramDirectory.               *)

\* One turn of the loop over the waiters of a, on line l with waiters ws left:
\* upgrade for a writer that only got a SHARED line, or pass the stack lock to
\* the user thread, which completes its access before the loop goes on.
WakeWaiter(n, a, l, ws, errors) ==
    /\ waiters' = [waiters EXCEPT ![n][a] = ws]
    /\ \/ /\ ws = <<>>
          /\ draining' = [draining EXCEPT ![n] = NoAddr]
          /\ line' = [line EXCEPT ![n][a] = l]
          /\ failed' = failed \cup errors
          /\ UNCHANGED toDir
       \/ /\ ws # <<>> /\ Head(ws).exclusive /\ l.cstate = "SHARED"
          /\ draining' = [draining EXCEPT ![n] = NoAddr]
          /\ line' = [line EXCEPT ![n][a] =
                        [l EXCEPT !.cstate = "SHARED_UPGRADING"]]
          /\ SendToDir(n, a, "UPGRADE_REQ", NULL)
          /\ failed' = failed \cup errors
       \/ /\ ws # <<>> /\ Head(ws).exclusive /\ l.cstate # "SHARED"
          /\ draining' = [draining EXCEPT ![n] = a]
          /\ \E d \in Data :
                line' = [line EXCEPT ![n][a] = [cstate |-> "MODIFIED", buf |-> d]]
          /\ failed' = failed \cup errors \cup
                         IF l.cstate \in {"EXCLUSIVE", "MODIFIED"} THEN {}
                         ELSE {"processMemOpFromCore: data is already gone"}
          /\ UNCHANGED toDir
       \/ /\ ws # <<>> /\ ~Head(ws).exclusive
          /\ draining' = [draining EXCEPT ![n] = a]
          /\ line' = [line EXCEPT ![n][a] = l]
          /\ failed' = failed \cup errors \cup
                         IF l.cstate \in Readable THEN {}
                         ELSE {"processMemOpFromCore: data is already gone"}
          /\ UNCHANGED toDir

\* The next turn: the user thread has released the stack lock.
NextWaiter(n) ==
    /\ draining[n] # NoAddr
    /\ LET a == draining[n]
       IN  WakeWaiter(n, a, line[n][a], Tail(waiters[n][a]), {})
    /\ UNCHANGED <<homeVars, toCache, toDram, fromDram, memory>>

Receive(n) ==
    /\ draining[n] = NoAddr
    /\ toCache[n] # <<>>
    /\ toCache' = [toCache EXCEPT ![n] = Tail(@)]
    /\ UNCHANGED <<homeVars, toDram, fromDram, memory>>

\* Mutant: a line is EXCLUSIVE whatever the reply.
ReceiveDataExclusive(n) ==
    LET m == Head(toCache[n])
    IN  /\ Receive(n)
        /\ m.type \in {"EX_REP", "SH_REP"}
        /\ WakeWaiter(n, m.addr, [cstate |-> "EXCLUSIVE", buf |-> m.buf],
                      waiters[n][m.addr], {})

\* processExRepFromDramDirectory, processShRepFromDramDirectory: insert.
ReceiveData(n) ==
    LET m == Head(toCache[n])
        cstate == IF m.type = "EX_REP" THEN "EXCLUSIVE" ELSE "SHARED"
    IN  /\ Receive(n)
        /\ m.type \in {"EX_REP", "SH_REP"}
        /\ WakeWaiter(n, m.addr, [cstate |-> cstate, buf |-> m.buf],
                      waiters[n][m.addr],
                      IF line[n][m.addr].cstate = "INVALID" THEN {}
                      ELSE {"insertCacheBlock: resident"})

\* processUpgradeRepFromDramDirectory: UPGRADE_REP never carries data.
ReceiveUpgradeRep(n) ==
    LET m == Head(toCache[n])
        l == line[n][m.addr]
    IN  /\ Receive(n)
        /\ m.type = "UPGRADE_REP"
        /\ WakeWaiter(n, m.addr, [l EXCEPT !.cstate = "MODIFIED"],
                      waiters[n][m.addr],
                      IF l.cstate = "SHARED_UPGRADING" THEN {}
                      ELSE {"processUpgradeRep: cstate"})

\* Mutant: a cache that has no copy any more answers too.
ReceiveInvReqAlwaysAnswered(n) ==
    LET m == Head(toCache[n])
    IN  /\ Receive(n)
        /\ m.type = "INV_REQ"
        /\ line' = [line EXCEPT ![n][m.addr] = InvalidLine]
        /\ SendToDir(n, m.addr, "INV_REP", NULL)
        /\ UNCHANGED <<waiters, draining, failed>>

\* processInvReqFromDramDirectory.
ReceiveInvReq(n) ==
    LET m == Head(toCache[n])
        l == line[n][m.addr]
    IN  /\ Receive(n)
        /\ m.type = "INV_REQ"
        /\ IF l.cstate = "INVALID" THEN UNCHANGED <<line, toDir>>
           ELSE /\ line' = [line EXCEPT ![n][m.addr] = InvalidLine]
                /\ SendToDir(n, m.addr, "INV_REP", NULL)
        \* updateCacheBlock without a buffer to write to
        /\ failed' = IF l.cstate # "MODIFIED" THEN failed
                     ELSE failed \cup {"MODIFIED data is about to get lost!"}
        /\ UNCHANGED <<waiters, draining>>

\* processFlushReqFromDramDirectory.
ReceiveFlushReq(n) ==
    LET m == Head(toCache[n])
        l == line[n][m.addr]
    IN  /\ Receive(n)
        /\ m.type = "FLUSH_REQ"
        /\ IF l.cstate = "INVALID" THEN UNCHANGED <<line, toDir>>
           ELSE /\ line' = [line EXCEPT ![n][m.addr] = InvalidLine]
                /\ SendToDir(n, m.addr, "FLUSH_REP", l.buf)
        /\ UNCHANGED <<waiters, draining, failed>>

\* processWbReqFromDramDirectory: a line that is SHARED_UPGRADING is neither
\* downgraded nor read, so the reply carries the buffer as it was allocated.
ReceiveWbReq(n) ==
    LET m == Head(toCache[n])
        l == line[n][m.addr]
    IN  /\ Receive(n)
        /\ m.type = "WB_REQ"
        /\ CASE l.cstate = "INVALID" -> UNCHANGED <<line, toDir>>
             [] l.cstate = "SHARED_UPGRADING" ->
                  SendToDir(n, m.addr, "WB_REP", UNDEF) /\ UNCHANGED line
             [] OTHER ->
                  /\ line' = [line EXCEPT ![n][m.addr].cstate = "SHARED"]
                  /\ SendToDir(n, m.addr, "WB_REP", l.buf)
        /\ UNCHANGED <<waiters, draining, failed>>

-----------------------------------------------------------------------------
(* The home node.                                                           *)

Absent(a) == a \notin resident \cup replaced

\* The candidates of processDirectoryEntryAllocationReq: entries without
\* requests that have the fewest sharers (ties go by m_replacement_ptrs, which
\* starts uninitialised).
Idle == {b \in resident : queue[b] = <<>>}
Candidates == {b \in Idle : \A b2 \in Idle :
                 Cardinality(directory[b].sharers)
                   <= Cardinality(directory[b2].sharers)}

\* What a needs before its request is processed: nothing (NoAddr), or the
\* replacement of a candidate's entry.
Replacements(a) ==
    IF Absent(a) /\ Cardinality(resident) >= DirEntries /\ Candidates # {}
    THEN Candidates ELSE {NoAddr}

\* The NULLIFY_REQ of a replaced entry b, alone on b's queue; nothing without one.
NullifyContext(b, requester) ==
    IF b = NoAddr THEN Context(NewEntry, <<>>)
    ELSE ProcessNullifyReq(Context(directory[b],
                                   <<NewReq("NULLIFY_REQ", requester)>>))

PacketsOf(a, msgs) ==
    [i \in DOMAIN msgs |-> Packet(msgs[i].type, a, msgs[i].buf)]

\* The effect of a handler with context c for address a that replaced the entry
\* of b (NoAddr: none).  The nullify of an uncached entry completes at once, any
\* other one stays on b's queue; an entry that is gone leaves the replaced list.
Commit(a, c, b, cb) ==
    /\ directory' = [x \in Addr |->
                       CASE x = a -> IF c.gone THEN NewEntry ELSE c.entry
                         [] x = b -> IF cb.gone THEN NewEntry ELSE cb.entry
                         [] OTHER -> directory[x]]
    /\ queue' = [x \in Addr |->
                   CASE x = a -> c.queue
                     [] x = b -> IF cb.gone THEN <<>> ELSE cb.queue
                     [] OTHER -> queue[x]]
    /\ resident' = (resident \ {b}) \cup (IF Absent(a) THEN {a} ELSE {})
    /\ replaced' = {x \in replaced \cup ({b} \ {NoAddr}) :
                      ~(x = a /\ c.gone) /\ ~(x = b /\ cb.gone)}
    /\ completing' = IF c.done THEN a ELSE NoAddr
    /\ toCache' = [n \in Node |-> toCache[n] \o PacketsOf(b, cb.out[n])
                                             \o PacketsOf(a, c.out[n])]
    /\ toDram' = toDram \o PacketsOf(a, c.dram)
    /\ failed' = failed \cup c.failed \cup cb.failed

\* Sharers that getOneSharer may pick for the request or reply being handled.
OneSharer(a) == IF directory[a].sharers = {} THEN {INVALID_CORE_ID}
                                             ELSE directory[a].sharers

\* getDirectoryEntry, processDirectoryEntryAllocationReq when there is none, and
\* the handler of the request at the head of the queue q of a.
StartReq(a, q) ==
    \E v \in OneSharer(a), b \in Replacements(a) :
       LET cb == NullifyContext(b, Head(q).requester)
           c == ProcessReq(Context(directory[a], q), v)
           none == /\ Absent(a)
                   /\ Cardinality(resident) >= DirEntries
                   /\ b = NoAddr
       IN  Commit(a, Check(c, ~none, "no directory entry to replace"), b, cb)

\* The home thread takes a message; DramBacklog bounds the model only.
HomeReady == completing = NoAddr /\ Len(toDram) < DramBacklog

DirReceive(n, types) ==
    /\ HomeReady
    /\ toDir[n] # <<>>
    /\ Head(toDir[n]).type \in types
    /\ toDir' = [toDir EXCEPT ![n] = Tail(@)]
    /\ UNCHANGED <<cacheVars, fromDram, memory>>

\* handleMsgFromL2Cache of a request: queued, and processed if it is alone.
DirReceiveReq(n) ==
    LET m == Head(toDir[n])
        q == Append(queue[m.addr], NewReq(m.type, n))
    IN  /\ DirReceive(n, ReqType)
        /\ IF Len(q) = 1
           THEN StartReq(m.addr, q)
           ELSE /\ queue' = [queue EXCEPT ![m.addr] = q]
                /\ UNCHANGED <<directory, resident, replaced, completing,
                               toCache, toDram, failed>>

\* handleMsgFromL2Cache of a reply or an eviction.
DirReceiveRep(n) ==
    LET m == Head(toDir[n])
        c == Check(Context(directory[m.addr], queue[m.addr]),
                    ~Absent(m.addr), "directory_entry")
    IN  /\ DirReceive(n, {"INV_REP", "FLUSH_REP", "WB_REP"})
        \* getOneSharer is called after the sender has been removed
        /\ \E v \in IF directory[m.addr].sharers \subseteq {n}
                    THEN {INVALID_CORE_ID}
                    ELSE directory[m.addr].sharers \ {n} :
             Commit(m.addr,
                    CASE m.type = "INV_REP" -> ProcessInvRep(c, n, v)
                      [] m.type = "FLUSH_REP" -> ProcessFlushRep(c, n, m.buf, v)
                      [] m.type = "WB_REP" -> ProcessWbRep(c, n, m.buf, v),
                    NoAddr, Context(NewEntry, <<>>))

\* handleMsgFromDRAM.
DirReceiveDram ==
    /\ HomeReady
    /\ fromDram # <<>>
    /\ fromDram' = Tail(fromDram)
    /\ LET m == Head(fromDram)
       IN  Commit(m.addr,
                  ProcessDRAMReply(Context(directory[m.addr], queue[m.addr]),
                                   m.buf),
                  NoAddr, Context(NewEntry, <<>>))
    /\ UNCHANGED <<cacheVars, toDir, memory>>

\* processNextReqFromL2Cache, which every handler calls last, if at all: the
\* same thread goes on with the next request before it takes another message.
DirProcessNext ==
    LET a == completing
        q == Tail(queue[a])
    IN  /\ completing # NoAddr
        /\ IF q = <<>>
           THEN /\ queue' = [queue EXCEPT ![a] = <<>>]
                /\ completing' = NoAddr
                /\ UNCHANGED <<directory, resident, replaced, toCache, toDram,
                               failed>>
           ELSE StartReq(a, q)
        /\ UNCHANGED <<cacheVars, toDir, fromDram, memory>>

-----------------------------------------------------------------------------
(* The DRAM controller: handleMsgFromTagDirectory, with m_data_map.         *)

DramAccess ==
    LET m == Head(toDram)
    IN  /\ toDram # <<>>
        /\ toDram' = Tail(toDram)
        /\ IF m.type = "DRAM_READ_REQ"
           THEN /\ fromDram' = Append(fromDram, Packet("DRAM_READ_REP", m.addr,
                                                       memory[m.addr]))
                /\ UNCHANGED memory
           ELSE /\ memory' = [memory EXCEPT ![m.addr] = m.buf]
                /\ UNCHANGED fromDram
        /\ UNCHANGED <<homeVars, cacheVars, toDir, toCache, failed>>

-----------------------------------------------------------------------------
NetworkThread(n) ==
    \/ NextWaiter(n)
    \/ ReceiveData(n)
    \/ ReceiveUpgradeRep(n)
    \/ ReceiveInvReq(n)
    \/ ReceiveFlushReq(n)
    \/ ReceiveWbReq(n)

HomeThread ==
    \/ \E n \in Node : DirReceiveReq(n) \/ DirReceiveRep(n)
    \/ DirReceiveDram
    \/ DirProcessNext

\* A failed assertion ends the simulation.
Next ==
    /\ failed = {} /\ UNCHANGED config
    /\ \/ \E n \in Node, a \in Addr :
            \/ WriteHit(n, a)
            \/ Evict(n, a)
            \/ \E u \in User, exclusive \in BOOLEAN : Miss(n, a, u, exclusive)
       \/ \E n \in Node : NetworkThread(n)
       \/ HomeThread
       \/ DramAccess

Spec == Init /\ [][Next]_vars

\* Every sim thread takes the packets of its queue in order, so none is passed
\* over for ever, and finishes what a packet makes it do.
Fairness ==
    /\ \A n \in AnyNode :
         /\ WF_vars(UNCHANGED config /\ n \in Node /\ NetworkThread(n))
         /\ SF_vars(UNCHANGED config /\ n \in Node /\ (DirReceiveReq(n) \/ DirReceiveRep(n)))
    /\ SF_vars(UNCHANGED config /\ DirReceiveDram)
    /\ WF_vars(UNCHANGED config /\ DirProcessNext)
    /\ WF_vars(UNCHANGED config /\ DramAccess)

FairSpec == Spec /\ Fairness

-----------------------------------------------------------------------------
(* Properties.                                                              *)

\* None of the assert, LOG_ASSERT_ERROR and LOG_PRINT_ERROR conditions of the
\* directory and cache controllers is met, whatever the order in which requests,
\* evictions and replies of different caches reach the directory.
AssertionsHold == failed = {}

\* Coherence: a cache that may write a line is the only one that may read it.
SingleWriter ==
    \A a \in Addr, n \in Node, m \in Node :
        /\ line[n][a].cstate \in {"EXCLUSIVE", "MODIFIED"}
        /\ n # m
        => line[m][a].cstate = "INVALID"

\* Every copy is known at the directory, which believes at most what is true: a
\* writable copy has its cache as owner of an EXCLUSIVE or MODIFIED entry.
DirectoryCoversCopies ==
    \A a \in Addr, n \in Node :
        /\ line[n][a].cstate # "INVALID" => n \in directory[a].sharers
        /\ line[n][a].cstate = "MODIFIED" =>
              /\ directory[a].owner = n
              /\ directory[a].dstate \in {"EXCLUSIVE", "MODIFIED"}

\* No packet carries the contents of a buffer that was freed or never written.  (The
\* property does not hold when three caches or more compete for an upgrade, which may be
\* answered by an EX_REP from the freed data of a FLUSH_REP, nor in MESIF, where the
\* forwarder may be upgrading when it is asked for its data: README.)
NoUndefinedData ==
    NumNodes < 3 /\ Protocol # "MESIF" =>
        \A n \in Node : /\ \A i \in DOMAIN toCache[n] : toCache[n][i].buf # UNDEF
                        /\ \A i \in DOMAIN toDir[n] : toDir[n][i].buf # UNDEF

\* The controllers do nothing that is not meant to happen: messages and entries are of
\* their types, no assertion fails, and no undefined data is sent.
NoFault == TypeOK /\ AssertionsHold /\ NoUndefinedData

\* The requests of cache n for line a that are under way: on their way to the
\* directory, queued there, or answered by a reply on its way back.
Requests(n, a) ==
    Cardinality({i \in DOMAIN toDir[n] :
                   toDir[n][i].addr = a /\ toDir[n][i].type \in ReqType})
  + Cardinality({i \in DOMAIN queue[a] :
                   /\ queue[a][i].requester = n
                   /\ queue[a][i].type \in ReqType
                   /\ ~(i = 1 /\ completing = a)})
  + Cardinality({i \in DOMAIN toCache[n] :
                   /\ toCache[n][i].addr = a
                   /\ toCache[n][i].type \in {"EX_REP", "SH_REP", "UPGRADE_REP"}})

\* Threads that wait for a line share one request: there is exactly one under way
\* while threads wait, and none otherwise, so no request or reply is lost or
\* duplicated when misses, evictions and invalidations cross.
OneRequestPerLine ==
    \A n \in Node, a \in Addr :
        Requests(n, a) = IF waiters[n][a] # <<>> /\ draining[n] # a THEN 1 ELSE 0

Waits(n, u) == n \in Node /\ Waiting(n, u)

\* Every thread that misses gets its line in the end, however often others
\* request, invalidate or evict it.
MissesComplete ==
    \A n \in AnyNode, u \in AnyUser :
        Waits(n, u) ~> ~Waits(n, u)
=============================================================================
