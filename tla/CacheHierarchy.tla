--------------------------- MODULE CacheHierarchy ---------------------------
(***************************************************************************)
(* The cache levels behind the cores that share a last-level cache         *)
(* (cache_cntlr.cc).  MemorySystem looks at the last level from outside;   *)
(* here are the recursion between the levels, evictions with their back-   *)
(* invalidations, prefetches, and the second half of a miss after the      *)
(* directory has answered.  The last level asks a directory or reads DRAM. *)
(*                                                                         *)
(* All lines are of one set and under one set lock, whose holder runs      *)
(* alone: a request up to its end or to the message that it sends, and an  *)
(* answer with one of the threads that wait for it.  Between a locked read *)
(* and the write that unlocks, a core keeps its part of the lock.  Ways    *)
(* hold one line each; compression is in CompressedCache.                  *)
(*                                                                         *)
(* The last level fills a line from the memory of the application, not     *)
(* with what DRAM or the directory has answered (insertSingleLine), and a  *)
(* core's store copies from there too: both find any Datum.                *)
(***************************************************************************)
EXTENDS Integers, Sequences, FiniteSets, SequencesExt

CONSTANTS Cache,      \* the caches of the tile; a core is known by its first-level cache
          Line, Datum,
          Topology    \* records [next, ways, home, lines, host, stored]: the next level or "none" and the
                      \* size of each cache of the tile, "dram" or "directory", and the
                      \* lines that are used, with what fills and stores may put there

VARIABLES tile,    \* the state of all levels, see InitialTile
          waiters, \* m_directory_waiters: [core, cache, requester, op, data] per line
          asked,   \* the message under way to the directory, per line; "SERVED" when the
                   \* network thread waits for the first waiter to release the lock
          locked,  \* {<<core, line>>} between a locked read and its write
          mem,     \* what was last written to DRAM or sent to the directory
          written, \* {<<line, data>>} that a core has just stored
          topology

vars == <<tile, waiters, asked, locked, mem, written, topology>>

Caches == DOMAIN topology.next
Next_(c) == topology.next[c]   \* m_next_cache_cntlr
Prev(c) == {p \in Caches : Next_(p) = c}
Cores == {c \in Caches : Prev(c) = {}}
LLC == CHOOSE c \in Caches : Next_(c) = "none"
Readable == {"S", "E", "M"}

InitialTile == [st |-> [c \in Caches |-> [l \in Line |-> "I"]],
                data |-> [c \in Caches |-> [l \in Line |-> 0]],
                lru |-> [c \in Caches |-> <<>>],
                mem |-> [l \in Line |-> 0], host |-> 0, out |-> {}, asserts |-> TRUE,
                buf |-> [c \in Caches |-> {}]]

Init == /\ topology \in Topology
        /\ mem = [l \in Line |-> 0]
        /\ tile = InitialTile
        /\ waiters = [l \in Line |-> <<>>] /\ asked = [l \in Line |-> "none"]
        /\ locked = {} /\ written = {}

-----------------------------------------------------------------------------
(* Operations of a cache on itself: t is the tile before, the result after. *)

Asserted(t, condition) == IF condition THEN t ELSE [t EXCEPT !.asserts = FALSE]

\* operationPermissibleinCache.
Permissible(t, c, op, l) == IF op = "READ" THEN t.st[c][l] \in Readable ELSE t.st[c][l] = "M"

Touch(t, c, l) == [t EXCEPT !.lru[c] = Append(SelectSeq(@, LAMBDA k : k # l), l)]

\* invalidateCacheBlock.
Invalidate(t, c, l) ==
    [Asserted(t, t.st[c][l] # "M") EXCEPT !.st[c][l] = "I", !.data[c][l] = 0,
                                        !.lru[c] = SelectSeq(@, LAMBDA k : k # l)]

\* writeCacheBlock: a victim of the previous level, or its data for a line that
\* is just being evicted here.
WriteCacheBlock(t, c, l, d) ==
    IF \E b \in t.buf[c] : b.line = l THEN [t EXCEPT !.buf[c] = {[line |-> l, data |-> d]}]
    ELSE Touch([Asserted(t, t.st[c][l] = "M") EXCEPT !.data[c][l] = d], c, l)

\* updateCacheBlock in cache c itself.  want: the caller has a buffer for the data.
UpdateOwnBlock(t, c, l, new, want) ==
    LET old == t.st[c][l]
        Out(u) == IF want THEN [u EXCEPT !.out = {u.data[c][l]}] ELSE u
        clean == IF old # "M" THEN t
                 ELSE [(IF Next_(c) # "none" THEN WriteCacheBlock(t, Next_(c), l, t.data[c][l])
                        ELSE Asserted(Out(t), want)) EXCEPT !.st[c][l] = "S"]
    IN  CASE old = "I" -> Asserted(t, ~want)
          [] old # "I" /\ old = new /\ want -> Out(t)
          [] old # "I" /\ ~(old = new /\ want) /\ new = "I" -> Invalidate(Out(clean), c, l)
          [] OTHER -> [IF new = "S" THEN Out(clean) ELSE clean EXCEPT !.st[c][l] = new]

\* updateCacheBlock: first the previous levels, then this one.
RECURSIVE UpdateCacheBlock(_, _, _, _, _)
UpdateCacheBlock(t0, c, l, new, want) ==
    UpdateOwnBlock(FoldLeft(LAMBDA t, p : UpdateCacheBlock(t, p, l, new, FALSE), t0, SetToSeq(Prev(c))),
                   c, l, new, want)

\* The loops of processShmemReqFromPrevCache and handleWritebacks over the previous
\* levels other than the requester.
UpdatePrevious(t0, c, requester, l, new) ==
    FoldLeft(LAMBDA t, p : UpdateCacheBlock(t, p, l, new, FALSE), t0,
             SetToSeq(Prev(c) \ {requester}))

\* Mutant: the levels below keep a line that is evicted.
EvictQuietly(t0, c, l, state, d) ==
    IF state # "M" THEN t0
    ELSE IF Next_(c) # "none" THEN WriteCacheBlock(t0, Next_(c), l, d)
    ELSE [t0 EXCEPT !.mem[l] = d]

\* handleWritebacks for one line, which has left cache c in this state.
Evict(t0, c, l, state, d) ==
    LET Leave(t, last) ==
            CASE state = "M" /\ Next_(c) # "none" -> WriteCacheBlock(t, Next_(c), l, last)
              [] state = "M" /\ Next_(c) = "none" -> [t EXCEPT !.mem[l] = last]
              [] OTHER -> Asserted(t, state \in {"S", "E"})
        Flushed(t) == Leave([t EXCEPT !.buf[c] = {}], (CHOOSE b \in t.buf[c] : TRUE).data)
    IN  Flushed(UpdatePrevious([t0 EXCEPT !.buf[c] = {[line |-> l, data |-> d]}], c, "none", l, "I"))

\* insertCacheBlock.  The least recently used line without an upgrade goes.
InsertCacheBlock(t0, c, l, state, d) ==
    LET t1 == Asserted(t0, t0.st[c][l] = "I")
        full == Len(t1.lru[c]) = topology.ways[c]
        candidates == SelectSeq(t1.lru[c], LAMBDA k : t1.st[c][k] # "U")
        victim == Head(candidates)
        Put(t) == [t EXCEPT !.st[c][l] = state, !.data[c][l] = d, !.lru[c] = Append(@, l)]
        without == [t1 EXCEPT !.st[c][victim] = "I", !.data[c][victim] = 0,
                              !.lru[c] = SelectSeq(@, LAMBDA k : k # victim)]
    IN  IF ~full THEN Put(t1)
        ELSE IF candidates = <<>> THEN Asserted(t1, FALSE)
        ELSE Evict(Put(without), c, victim, t1.st[c][victim], t1.data[c][victim])

\* copyDataFromNextLevel.
CopyDataFromNextLevel(t0, c, op, l) ==
    LET n == Next_(c)
        t1 == Asserted(t0, Permissible(t0, n, op, l))
    IN  IF t1.st[c][l] # "I" THEN UpdateCacheBlock(t1, c, l, t1.st[n][l], FALSE)
        ELSE InsertCacheBlock(t1, c, l, t1.st[n][l], t1.data[n][l])

\* processShmemReqFromPrevCache, a hit: the other previous levels give up what
\* does not agree with the operation.
ServeHit(t, c, requester, op, l) ==
    Touch(CASE op # "READ" -> UpdatePrevious(t, c, requester, l, "I")
            [] op = "READ" /\ t.st[c][l] = "S" -> t
            [] OTHER -> UpdatePrevious(t, c, requester, l, "S"), c, l)

\* A miss in the last level: an exclusive line becomes modified, DRAM is read,
\* or a message to the directory is needed (hit is FALSE).
LastLevelMiss(t, c, requester, op, l) ==
    LET Modified(u) == [u EXCEPT !.st[c][l] = "M"]
    IN  CASE t.st[c][l] = "E" ->
               [t |-> Modified(UpdatePrevious(t, c, requester, l, "I")), hit |-> TRUE]
          [] t.st[c][l] # "E" /\ topology.home = "dram" ->
               [t |-> IF t.st[c][l] # "I" THEN Modified(t)
                      ELSE InsertCacheBlock(t, c, l, IF op = "READ" THEN "S" ELSE "M", t.host),
                hit |-> TRUE]
          [] OTHER -> [t |-> t, hit |-> FALSE]

\* processShmemReqFromPrevCache of cache c for the previous level (or for itself,
\* when it prefetches).  Returns the tile and whether the data is there now; if
\* not, a message must be sent.
RECURSIVE ProcessShmemReq(_, _, _, _, _)
ProcessShmemReq(t0, c, requester, op, l) ==
    LET shared == IF t0.st[c][l] = "S" THEN UpdatePrevious(t0, c, requester, l, "I") ELSE t0
        Gone(t) == IF t0.st[c][l] # "I" THEN Invalidate(t, c, l) ELSE t
        Copied(next) == IF next.hit THEN [next EXCEPT !.t = CopyDataFromNextLevel(@, c, op, l)] ELSE next
    IN  CASE Permissible(t0, c, op, l) -> [t |-> ServeHit(t0, c, requester, op, l), hit |-> TRUE]
          [] ~Permissible(t0, c, op, l) /\ Next_(c) = "none" -> LastLevelMiss(shared, c, requester, op, l)
          [] OTHER -> Copied(ProcessShmemReq(Gone(shared), Next_(c), c, op, l))

\* accessCache in the first level.
AccessCache(t, c, op, l, d) ==
    LET touched == Touch(Asserted(t, Permissible(t, c, op, l)), c, l)
    IN  IF op = "WRITE" THEN [touched EXCEPT !.data[c][l] = d] ELSE touched

-----------------------------------------------------------------------------
(* Steps.                                                                    *)

\* The core's thread waits for a line, itself or in a prefetch.
Busy(c) == \E l \in Line : \E i \in DOMAIN waiters[l] :
               waiters[l][i].core = c /\ ~(i = 1 /\ asked[l] = "SERVED")
NetworkIdle == \A l \in Line : asked[l] # "SERVED"
LockedBy(c) == {k[2] : k \in {q \in locked : q[1] = c}}
\* The set lock can be taken as a whole by c: no core keeps a part of it.
CanLock(c) == \A k \in locked : k[1] = c

\* A step works on the tile with a copy of mem and what the application's memory has for
\* its line; in the end that copy is taken into mem.
Commit(t) == /\ tile' = [t EXCEPT !.out = {}, !.mem = [l \in Line |-> 0], !.host = 0]
             /\ mem' = t.mem
Begin(host) == [tile EXCEPT !.mem = mem, !.host = host]

\* initiateDirectoryAccess: only the first who waits for a line sends a message.
InitiateDirectoryAccess(t, l, w) ==
    /\ waiters' = [waiters EXCEPT ![l] = Append(@, w)]
    /\ IF waiters[l] # <<>> THEN UNCHANGED asked /\ Commit(t)
       ELSE LET upgrade == w.op # "READ" /\ t.st[LLC][l] = "S"
            IN  /\ asked' = [asked EXCEPT ![l] = IF w.op = "READ" THEN "SH_REQ"
                                                 ELSE IF upgrade THEN "UPGRADE_REQ" ELSE "EX_REQ"]
                /\ Commit(IF upgrade THEN [t EXCEPT !.st[LLC][l] = "U"]
                          ELSE Asserted(t, w.op = "READ" \/ t.st[LLC][l] = "I"))

\* processMemOpFromCore's end: the access in the first level.
AccessFirstLevel(t, c, op, l, d) ==
    /\ Commit(AccessCache(t, c, op, l, d))
    /\ locked' = CASE op = "READ_EX" -> locked \cup {<<c, l>>}
                   [] LockedBy(c) # {} -> {}
                   [] OTHER -> locked
    /\ written' = IF op = "WRITE" THEN {<<l, d>>} ELSE {}
    /\ UNCHANGED <<waiters, asked, topology>>

\* processMemOpFromCore.  A locked read is a READ_EX that keeps the lock; the WRITE
\* that unlocks must find the line.
ProcessMemOpFromCore(c, op, l, d, host) ==
    LET unlock == LockedBy(c) # {}
        t1 == IF tile.st[c][l] # "I" THEN Invalidate(Begin(host), c, l) ELSE Begin(host)
    IN  /\ ~Busy(c)
        /\ unlock => op = "WRITE" /\ l \in LockedBy(c)
        /\ \/ Permissible(tile, c, op, l) /\ AccessFirstLevel(Begin(host), c, op, l, d)
           \/ /\ ~Permissible(tile, c, op, l) /\ CanLock(c)
              /\ \E next \in {ProcessShmemReq(Asserted(t1, ~unlock), Next_(c), c, op, l)} :
                    IF next.hit
                    THEN AccessFirstLevel(CopyDataFromNextLevel(next.t, c, op, l), c, op, l, d)
                    ELSE /\ InitiateDirectoryAccess(next.t, l,
                              [core |-> c, cache |-> Next_(c), requester |-> c, op |-> op, data |-> d])
                         /\ written' = {} /\ UNCHANGED <<locked, topology>>

\* A prefetcher may be at every level behind a core.
PrefetchingCaches(c) == {c, Next_(c)} \cup {LLC}

\* Prefetch, doPrefetch: in a core's thread, cache c of the core asks for a line.
DoPrefetch(core, c, l, host) ==
    LET w == [core |-> core, cache |-> c, requester |-> c, op |-> "READ", data |-> 0]
    IN  /\ ~Busy(core) /\ CanLock("none") /\ ~Permissible(tile, c, "READ", l)
        /\ \E res \in {ProcessShmemReq(Begin(host), c, c, "READ", l)} :
              IF res.hit THEN Commit(res.t) /\ UNCHANGED <<waiters, asked>>
              ELSE InitiateDirectoryAccess(res.t, l, w)
        /\ written' = {} /\ UNCHANGED <<locked, topology>>

\* Mutant: whoever waits is woken up.
NeedsUpgradeNever(t, l, w) == FALSE

\* The next who waits wants to write, but the line is shared.
NeedsUpgrade(t, l, w) == w.op # "READ" /\ t.st[LLC][l] = "S"

\* The second half of a miss or a prefetch, in the thread that waited.
Fill(t, l, w) ==
    LET There(fill) == Asserted(fill.t, fill.hit)
        Copy(there) == IF w.cache = w.requester THEN there
                       ELSE CopyDataFromNextLevel(there, w.requester, w.op, l)
    IN  Copy(There(ProcessShmemReq(t, w.cache, w.requester, w.op, l)))

\* handleMsgFromDramDirectory, the loop: the first of ws is woken up and runs to its
\* end, but if it needs an upgrade that is asked for instead.
WakeFirst(t, l, ws) ==
    LET w == Head(ws)
        own == w.cache = w.requester
    IN  /\ waiters' = [waiters EXCEPT ![l] = ws]
        /\ UNCHANGED topology
        /\ \/ /\ ws = <<>>
              /\ Commit(t) /\ asked' = [asked EXCEPT ![l] = "none"]
              /\ written' = {} /\ UNCHANGED locked
           \/ /\ ws # <<>> /\ NeedsUpgrade(t, l, w)
              /\ Commit([t EXCEPT !.st[LLC][l] = "U"])
              /\ asked' = [asked EXCEPT ![l] = "UPGRADE_REQ"]
              /\ written' = {} /\ UNCHANGED locked
           \/ /\ ws # <<>> /\ ~NeedsUpgrade(t, l, w)
              /\ \E filled \in {Fill(t, l, w)} :
                    /\ Commit(IF own THEN filled ELSE AccessCache(filled, w.requester, w.op, l, w.data))
                    /\ written' = IF ~own /\ w.op = "WRITE" THEN {<<l, w.data>>} ELSE {}
              /\ asked' = [asked EXCEPT ![l] = "SERVED"]
              /\ locked' = IF w.op = "READ_EX" THEN locked \cup {<<w.core, l>>} ELSE locked

\* handleMsgFromDramDirectory with an answer.  A read is answered by SH_REP, or
\* under MESI by EX_REP.  Its data is not used.
HandleRepFromDramDirectory(l, rep, host) ==
    LET t == CASE rep = "SH_REP" -> InsertCacheBlock(Begin(host), LLC, l, "S", host)
               [] rep = "EX_REP" -> InsertCacheBlock(Begin(host), LLC, l, "E", host)
               [] OTHER -> UpdateCacheBlock(Begin(host), LLC, l, "M", FALSE)
    IN  /\ NetworkIdle /\ CanLock("none")
        /\ \/ asked[l] = "SH_REQ" /\ rep \in {"SH_REP", "EX_REP"}
           \/ asked[l] = "EX_REQ" /\ rep = "EX_REP"
           \/ asked[l] = "UPGRADE_REQ" /\ rep = "UPGRADE_REP"
        /\ WakeFirst(t, l, waiters[l])

\* The loop goes on when the thread that was woken has released the lock.
WakeNext(l) ==
    /\ asked[l] = "SERVED" /\ CanLock("none")
    /\ WakeFirst(Begin(0), l, Tail(waiters[l]))

\* handleMsgFromDramDirectory with INV_REQ, FLUSH_REQ or WB_REQ.  The data goes to
\* the directory.  A line whose upgrade is under way is not taken away here: the
\* directory's race is in MemorySystem.
HandleReqFromDramDirectory(l, req) ==
    LET state == tile.st[LLC][l]
        t == UpdateCacheBlock(Begin(0), LLC, l, IF req = "WB_REQ" THEN "S" ELSE "I", req # "INV_REQ")
    IN  /\ topology.home = "directory" /\ NetworkIdle /\ CanLock("none")
        /\ \/ req = "INV_REQ" /\ state = "S"
           \/ req \in {"FLUSH_REQ", "WB_REQ"} /\ state \in {"E", "M"}
        /\ Commit(IF t.out = {} THEN t ELSE [t EXCEPT !.mem[l] = CHOOSE d \in t.out : TRUE])
        /\ written' = {} /\ UNCHANGED <<waiters, asked, locked, topology>>

Next ==
    \E l \in topology.lines :
        \/ \E host \in topology.host :
              \/ \E c \in Cores :
                    \/ \E op \in {"READ", "READ_EX"} : ProcessMemOpFromCore(c, op, l, 0, host)
                    \/ \E d \in topology.stored : ProcessMemOpFromCore(c, "WRITE", l, d, host)
                    \/ \E b \in PrefetchingCaches(c) : DoPrefetch(c, b, l, host)
              \/ \E rep \in {"SH_REP", "EX_REP", "UPGRADE_REP"} : HandleRepFromDramDirectory(l, rep, host)
        \/ WakeNext(l)
        \/ \E req \in {"INV_REQ", "FLUSH_REQ", "WB_REQ"} : HandleReqFromDramDirectory(l, req)

Spec == Init /\ [][Next]_vars

-----------------------------------------------------------------------------
\* No assertion of the controllers fails: a woken thread finds its line in the next
\* level, modified data is never invalidated or lost, a line is inserted once, and
\* the write that ends an atomic operation finds the line in the first level.
AssertionsHold == tile.asserts

\* All caches are inclusive (isInLowerLevelCache relies on it): a level has all lines
\* of the levels below, and is modified if one of them is, whatever was evicted,
\* prefetched, upgraded or taken by the directory in between.
Inclusive ==
    \A c \in Caches, l \in Line : Next_(c) # "none" /\ tile.st[c][l] # "I" =>
        /\ tile.st[Next_(c)][l] # "I"
        /\ tile.st[c][l] = "M" => tile.st[Next_(c)][l] = "M"

\* Of the first-level caches at most one may write a line without asking, and it is the
\* only one that has it if it got the line to write.  (If it got it to read, others may
\* keep SHARED copies: a reader takes over the state MODIFIED of the last level.)
OneWriter ==
    \A c, d \in Cores, l \in Line :
        c # d /\ tile.st[c][l] = "M" => tile.st[d][l] \in {"I", "S"}

\* Modified data are not lost: the newest copy of a line that is MODIFIED somewhere changes
\* only by a core's store, which is then the newest copy, whatever is evicted from the
\* levels, merged with the data of the levels below or downgraded; and the line is no
\* longer MODIFIED only once DRAM or the directory has that copy.
Dirty(l) == {c \in Caches : tile.st[c][l] = "M"}
Newest(l) == IF Dirty(l) # {} THEN tile.data[CHOOSE c \in Dirty(l) : Prev(c) \cap Dirty(l) = {}][l]
             ELSE IF tile.st[LLC][l] # "I" THEN tile.data[LLC][l] ELSE mem[l]
TileHandsOn ==
    [][\A l \in Line :
         /\ Dirty(l) # {} => Newest(l)' = Newest(l) \/ <<l, Newest(l)'>> \in written'
         /\ Dirty(l) # {} /\ Dirty(l)' = {} => mem'[l] = Newest(l)
         /\ \A d \in Datum : <<l, d>> \in written' => Newest(l)' = d]_vars
=============================================================================
