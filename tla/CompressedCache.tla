-------------------------- MODULE CompressedCache --------------------------
(***************************************************************************)
(* One set of a cache level (cache.cc) as its controller uses it.  The     *)
(* coherence state is left to MemorySystem and CacheHierarchy; here a line *)
(* may be SHARED_UPGRADING.                                                *)
(*                                                                         *)
(* The data of a line come from the next level, for the last level from    *)
(* the memory of the application, whatever the directory or DRAM has sent  *)
(* (insertSingleLine), and so do the bytes of a core's store.  That memory *)
(* is not part of the simulated system: a line is filled with any of its   *)
(* Datum, and a store finds any Word.                                      *)
(***************************************************************************)
EXTENDS CacheSet

CONSTANTS Line,        \* lines that map to the set
          Datum,       \* contents of each line
          Word,        \* what a core may store in a chunk of each line
          Kind         \* configurations: [cntlr, policy, tlb, offsets]; offsets: stores
                       \* may begin inside of a line

VARIABLES set,         \* m_sets[set_index]
          out,         \* WritebackLines of the last operation, for handleWritebacks
          kind

vars == <<set, out, kind>>

Resident(l) == Find(set, l) # {}
WayOf(l) == CHOOSE w \in Way : w \in Find(set, l)
DataOf(l) == set.ways[WayOf(l)].data[l.block]

Init == /\ kind \in Kind
        /\ set = EmptySet(kind.cntlr, kind.policy)
        /\ out = {}

\* insertSingleLine after a miss, and setCacheState, which needs the line to be there.
\* inLower: the lines that lower levels hold.
InsertSingleLine(l, inLower) ==
    /\ ~Resident(l)
    /\ \E data \in IF kind.tlb THEN {<<>>} ELSE Datum[l] :
          \E done \in {InsertLine(set, l, data, TRUE, inLower)} :
             /\ set' = IF Find(done.set, l) # {} THEN done.set ELSE Failed(done.set, "no way")
             /\ out' = IF kind.tlb THEN {} ELSE done.out
    /\ UNCHANGED kind

\* accessSingleLine, LOAD of a line that is there.
Load(l) ==
    /\ Resident(l)
    /\ set' = MoveToMRU(set, WayOf(l))
    /\ out' = {} /\ UNCHANGED kind

\* CacheSet::writeLine: in place if the way can hold the new data, else the line
\* is taken out and inserted again.
CanWrite(l, write) == GetSchemeForWrite(set.cntlr, set.ways[WayOf(l)], l.block, write) # "INVALID"
WriteLine(l, write, isWriteback, inLower) ==
    IF CanWrite(l, write) THEN [set |-> WriteBlockData(set, WayOf(l), l.block, write), out |-> {}]
    ELSE InsertLine(RemoveLine(set, WayOf(l), l.block, TRUE), l, write.moved, ~isWriteback, inLower)

\* Only a line in a writable state is stored to, not one that is upgrading.
Writable(l) ==
    Resident(l) /\ ~kind.tlb /\ l.block \notin set.ways[WayOf(l)].upgrading

\* accessSingleLine, STORE of a line that is there: a core's write of a chunk.  The line
\* must be found again; its way becomes the most recently used.
Store(l, i, inLower) ==
    /\ Writable(l) /\ (kind.offsets \/ i = 1)
    /\ \E near \in Word[l] : \E far \in IF i = 1 THEN {near} ELSE Word[l] :
          \E done \in {WriteLine(l, Part(DataOf(l), i, near, far), FALSE, inLower)} :
             /\ set' = IF Find(done.set, l) = {} THEN Failed(done.set, "no way")
                       ELSE MoveToMRU(done.set, Min(Find(done.set, l)))
             /\ out' = done.out
    /\ UNCHANGED kind

\* accessSingleLine, STORE of a victim of the level below, a whole line.  The way is not
\* set if the line was inserted again: any way may become the most recently used.
StoreVictim(l, d, inLower) ==
    /\ Writable(l)
    /\ \E done \in {WriteLine(l, Whole(d), TRUE, inLower)} :
          /\ \E w \in IF CanWrite(l, Whole(d)) THEN {WayOf(l)} ELSE Way : set' = MoveToMRU(done.set, w)
          /\ out' = done.out
    /\ UNCHANGED kind

\* invalidateSingleLine.
InvalidateSingleLine(l) ==
    /\ Resident(l) /\ ~kind.tlb
    /\ set' = RemoveLine(set, WayOf(l), l.block, FALSE)
    /\ out' = {} /\ UNCHANGED kind

\* setCacheState(SHARED_UPGRADING), and back when the answer has come.
Upgrade(l) ==
    /\ Resident(l) /\ ~kind.tlb
    /\ set' = [set EXCEPT !.ways[WayOf(l)].upgrading = @ \cup {l.block}]
    /\ out' = {} /\ UNCHANGED kind
Upgraded(l) ==
    /\ Resident(l) /\ l.block \in set.ways[WayOf(l)].upgrading
    /\ set' = [set EXCEPT !.ways[WayOf(l)].upgrading = @ \ {l.block}]
    /\ out' = {} /\ UNCHANGED kind

\* The lines that query-based selection may be told are in a lower level.
InLower == IF kind.policy.name = "lru" THEN {{}}
           ELSE {{}} \cup {{l} : l \in {m \in Line : Resident(m)}}

\* An error has ended the simulator.
Aborted == set.failed # {} /\ UNCHANGED vars

Next ==
    \/ Aborted
    \/ /\ set.failed = {}
       /\ \E l \in Line :
             \/ Load(l)
             \/ InvalidateSingleLine(l)
             \/ Upgrade(l)
             \/ Upgraded(l)
             \/ \E inLower \in InLower :
                   \/ InsertSingleLine(l, inLower)
                   \/ \E i \in 1 .. Chunks : Store(l, i, inLower)
                   \/ \E d \in Datum[l] : StoreVictim(l, d, inLower)

Spec == Init /\ [][Next]_vars

-----------------------------------------------------------------------------

\* The tags and the data agree on what is where: SuperblockInfo says a block is
\* there exactly when BlockData does, all its tags are the superblock's, a line is
\* in one way only, and only a compressed way of a data cache holds several.
\* Write errors here and a line is found that has no data, or the data of another.
TagsMatchData ==
    /\ \A w \in Way : LET sb == set.ways[w] IN
         /\ Blocks(sb) = sb.valid
         /\ \A b \in sb.valid : sb.tags[b] = sb.supertag
         /\ sb.upgrading \subseteq sb.valid
         /\ Cardinality(sb.valid) > 1 => sb.scheme \in Compressed \/ kind.tlb
         /\ sb.scheme \in Compressed => sb.valid # {} /\ kind.cntlr.compress
    /\ \A l \in Line : Cardinality(Find(set, l)) <= 1

\* What a compressed way stores (dictionary, pointers, lower bits) is enough to get
\* every valid line back, also after stores have left entries behind that no line
\* uses: the superblock really fits in the space that the simulated cache has.
Decodable ==
    \A w \in Way : LET sb == set.ways[w] IN
        sb.scheme \in Compressed => \A b \in sb.valid : \A i \in 1 .. Chunks :
            /\ sb.ptrs[b][i] \in DOMAIN sb.dict
            /\ sb.data[b][i] = IF sb.scheme = "SCHEME1" THEN sb.dict[sb.ptrs[b][i]]
                               ELSE sb.dict[sb.ptrs[b][i]] * Lower + sb.lower[b][i]

\* The compression controller's counts, from which the default scheme of all sets
\* follows, are the numbers of ways in each scheme, through every eviction,
\* invalidation and change of scheme.
CountsMatch ==
    LET In(scheme) == Cardinality({w \in Way : set.ways[w].scheme = scheme})
    IN  set.cntlr.n1 = In("SCHEME1") /\ set.cntlr.n2 = In("SCHEME2")

\* A set stays consistent in all three respects, through every insertion, eviction,
\* invalidation and store that moves a superblock to another scheme or way.
SetIsConsistent == TagsMatchData /\ Decodable /\ CountsMatch

\* insertDictEntry: "Attempted to insert %u into full dictionary" was not reached:
\* isScheme1Compressible and isScheme2Compressible have counted the entries.
DictionaryHasRoom == "full dictionary" \notin set.failed

\* writeLine: "Could not find the line just re-placed" was not reached, and neither was the
\* same in setCacheState after an insertion: a way was found for every line of a core.
LineIsPlaced == "no way" \notin set.failed

\* The two errors have one cause each: a store that begins inside of a line, and a line
\* whose upgrade is under way in every way.
ErrorsHaveTheirCauses ==
    /\ DictionaryHasRoom \/ kind.offsets
    /\ LineIsPlaced \/ \A w \in Way : set.ways[w].upgrading # {}

\* A line that waits for an upgrade leaves the set only if it is invalidated, never
\* as a victim of another line's insertion or store: the answer finds it there.
UpgradingStays ==
    [][\A l \in Line :
         Resident(l) /\ l.block \in set.ways[WayOf(l)].upgrading
            => Find(set', l) # {} \/ InvalidateSingleLine(l)]_vars

\* A line keeps its data in the set, or leaves with them as a writeback, unless it is
\* itself stored to or invalidated; and the line of a victim that is stored has the
\* victim's data, here or on its way to the next level.  Recompression, other lines'
\* stores and evictions of whole superblocks lose and change nothing.
Keeps(l, d) ==
    \/ Find(set', l) # {} /\ (DataOf(l))' = d
    \/ [line |-> l, data |-> d] \in out'
SetHandsOn ==
    [][\A l \in Line : Resident(l) /\ ~kind.tlb =>
         \/ Keeps(l, DataOf(l))
         \/ InvalidateSingleLine(l)
         \/ \E inLower \in InLower :
               \/ \E i \in 1 .. Chunks : Store(l, i, inLower)
               \/ \E d \in Datum[l] : Keeps(l, d) /\ StoreVictim(l, d, inLower)]_vars
=============================================================================
