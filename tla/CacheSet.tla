------------------------------ MODULE CacheSet ------------------------------
(***************************************************************************)
(* One set of a cache whose ways hold superblocks (cache_set.cc), as       *)
(* operators on the state of the set.  A way has the tags of up to         *)
(* SuperblockSize neighbouring lines (superblock_info.cc) and their data   *)
(* (block_data.cc): one line as it is, or several that share a dictionary  *)
(* (DISH).  SCHEME1 keeps whole chunks in the dictionary; SCHEME2 keeps    *)
(* the upper bits and the lower ones beside each pointer.                  *)
(*                                                                         *)
(* A line is inserted as a whole; a store writes a whole line, or some     *)
(* chunks of it at an offset.  The victim is the least recently used way,  *)
(* or the one that query-based selection finds (cache_set_lru.cc,          *)
(* cache_set_lruqbs.cc).                                                   *)
(***************************************************************************)
EXTENDS Integers, Sequences, FiniteSets, FiniteSetsExt, Functions, SequencesExt

CONSTANTS Ways,            \* m_associativity
          SuperblockSize,  \* SUPERBLOCK_SIZE
          Chunks,          \* m_chunks_per_block
          Dict1, Dict2,    \* SCHEME1_DICT_SIZE, SCHEME2_DICT_SIZE
          Lower            \* values of the lower bits: 2 ^ SCHEME2_OFFSET_BITS

ASSUME CacheSetAssumption ==
    /\ {Ways, SuperblockSize, Chunks, Dict1, Dict2, Lower} \subseteq Nat \ {0}
    /\ Dict2 <= Dict1

Way == 0 .. Ways - 1
Block == 0 .. SuperblockSize - 1
Zero == [i \in 1 .. Chunks |-> 0]
NoTag == -1   \* TAG_UNUSED

Compressed == {"SCHEME1", "SCHEME2"}
DictSize(scheme) == CASE scheme = "SCHEME1" -> Dict1
                      [] scheme = "SCHEME2" -> Dict2
                      [] OTHER -> 0
Pointers(scheme) == 0 .. DictSize(scheme) - 1

\* A line is [tag, block]: the supertag and the place in the superblock.
\* cntlr is the CacheCompressionCntlr of the cache, policy what finds a victim.
EmptyWay ==
    [supertag |-> NoTag,
     tags |-> [b \in Block |-> NoTag],        \* CacheBlockInfo::m_tag
     upgrading |-> {},                        \* blocks in SHARED_UPGRADING
     scheme |-> "UNCOMPRESSED",
     valid |-> {},                            \* m_valid
     data |-> [b \in Block |-> Zero],
     dict |-> <<>>, free |-> {},              \* m_dict, m_free_ptrs
     ptrs |-> [b \in Block |-> Zero], lower |-> [b \in Block |-> Zero]]

EmptySet(cntlr, policy) ==
    [ways |-> [w \in Way |-> EmptyWay],
     lru |-> [i \in 1 .. Ways |-> i - 1],     \* m_lru_priorities
     cntlr |-> cntlr, policy |-> policy, failed |-> {}]

\* An error that ends the simulator.
Failed(st, error) == [st EXCEPT !.failed = @ \cup {error}]

-----------------------------------------------------------------------------
(* BlockData.                                                               *)

Key(scheme, v) == IF scheme = "SCHEME2" THEN v \div Lower ELSE v
Keys(scheme, line) == {Key(scheme, line[i]) : i \in DOMAIN line}

\* changeScheme: another scheme starts with an empty dictionary.
ChangeScheme(sb, scheme) ==
    IF sb.scheme = scheme THEN sb
    ELSE [sb EXCEPT !.scheme = scheme, !.dict = <<>>, !.free = Pointers(scheme)]

\* insertDictEntry; the dictionary must not be full.
InsertDictEntry(sb, value) ==
    IF value \in Range(sb.dict) THEN sb
    ELSE LET p == Min(sb.free)
             extended == [q \in DOMAIN sb.dict \cup {p} |->
                             IF q = p THEN value ELSE sb.dict[q]]
         IN  [sb EXCEPT !.dict = extended, !.free = @ \ {p}]

\* The entries that are missing fit into the dictionary.
Fits(sb, line) ==
    Cardinality(Keys(sb.scheme, line) \ Range(sb.dict)) <= Cardinality(sb.free)

\* A line is translated into pointers, and in SCHEME2 the lower bits.
Encode(sb, b) ==
    LET line == sb.data[b]
        full == FoldLeft(LAMBDA acc, v : InsertDictEntry(acc, Key(sb.scheme, v)), sb, line)
    IN  [full EXCEPT
           !.ptrs[b] = [i \in 1 .. Chunks |->
                           CHOOSE p \in DOMAIN full.dict : full.dict[p] = Key(sb.scheme, line[i])],
           !.lower[b] = [i \in 1 .. Chunks |-> IF sb.scheme = "SCHEME2" THEN line[i] % Lower
                                                                        ELSE 0]]

\* compactScheme1: entries that no valid line uses are freed.  compactScheme2
\* compares the upper bits in the dictionary with whole chunks.
Compact(cntlr, sb) ==
    LET used == UNION {Range(sb.data[b]) : b \in sb.valid}
        kept == {p \in DOMAIN sb.dict : sb.dict[p] \in used}
    IN  IF ~cntlr.prune \/ sb.valid = {} \/ sb.scheme \notin Compressed THEN sb
        ELSE [sb EXCEPT !.dict = Restrict(sb.dict, kept),
                        !.free = @ \cup (DOMAIN sb.dict \ kept)]

\* isScheme1Compressible, isScheme2Compressible.  In the same scheme each chunk
\* without an entry needs a vacancy of its own.  From SCHEME2 to SCHEME1 only one
\* chunk of each other line is counted, the one with the number of the line.
IsSchemeCompressible(cntlr, sb, b, line, scheme) ==
    LET missing == {i \in 1 .. Chunks : Key(scheme, line[i]) \notin Range(sb.dict)}
        first == Min(sb.valid)
        single == {sb.data[c][(c % Chunks) + 1] : c \in sb.valid \ {b}}
        others == CASE sb.scheme = "UNCOMPRESSED" ->
                         IF first = b THEN {} ELSE Keys(scheme, sb.data[first])
                    [] scheme = "SCHEME1" -> single
                    [] OTHER -> UNION {Keys(scheme, sb.data[c]) : c \in sb.valid \ {b}}
    IN  /\ sb.valid # {}
        /\ cntlr.compress
        /\ IF sb.scheme = scheme THEN Cardinality(missing) <= Cardinality(sb.free)
           ELSE /\ sb.scheme = "UNCOMPRESSED" \/ cntlr.otf
                /\ Cardinality(others \cup Keys(scheme, line)) <= DictSize(scheme)

\* Mutant: the line that is there already is not translated.
CompressNewOnly(sb, b, line, scheme) ==
    Encode([ChangeScheme(sb, scheme) EXCEPT !.data[b] = line], b)

\* compressScheme1, compressScheme2: an uncompressed way translates its line and
\* the new one, a change on the fly all valid lines (a line that is being inserted
\* is not valid yet), a way that keeps its scheme the new line.
Compress(sb, b, line, scheme) ==
    LET there == [ChangeScheme(sb, scheme) EXCEPT !.data[b] = line]
        again == CASE sb.scheme = scheme -> {b}
                   [] sb.scheme = "UNCOMPRESSED" -> sb.valid \cup {b}
                   [] OTHER -> sb.valid
    IN  FoldLeft(LAMBDA acc, c : Encode(acc, c), there, SetToSortSeq(again, <))

\* The first of two schemes that works, "INVALID" if none does.
FirstScheme(one, works1, two, works2) ==
    IF works1 THEN one ELSE IF works2 THEN two ELSE "INVALID"

Other(scheme) == IF scheme = "SCHEME1" THEN "SCHEME2" ELSE "SCHEME1"
DefaultScheme(cntlr) == IF cntlr.n1 >= cntlr.n2 THEN "SCHEME1" ELSE "SCHEME2"

\* A write is what the line would be if the bytes were taken from the start of the
\* buffer (near) or at the offset in it (far), and if those went to the start of the
\* line (moved): the functions disagree on which is meant.  At offset 0 all are the same.
Whole(line) == [near |-> line, far |-> line, moved |-> line]
Part(line, i, near, far) == [near |-> [line EXCEPT ![i] = near], far |-> [line EXCEPT ![i] = far],
                             moved |-> [line EXCEPT ![1] = far]]

\* getSchemeForWrite, for a line that is there.  Only SCHEME2 that stays SCHEME2 is tested
\* with the data that compressScheme1 and compressScheme2 are going to write.
GetSchemeForWrite(cntlr, sb, b, write) ==
    LET other == Other(sb.scheme)
        tested == IF sb.scheme = "SCHEME2" THEN write.near ELSE write.far
    IN  IF sb.scheme = "UNCOMPRESSED" THEN sb.scheme
        ELSE FirstScheme(sb.scheme, IsSchemeCompressible(cntlr, sb, b, tested, sb.scheme),
                         other, /\ cntlr.otf
                                /\ IsSchemeCompressible(cntlr, sb, b, write.far, other))

\* getSchemeForInsertion.  When SCHEME2 is the default, SCHEME2 is tried twice.
GetSchemeForInsertion(cntlr, sb, b, line) ==
    LET default == DefaultScheme(cntlr)
        other == Other(sb.scheme)
        Works(scheme) == IsSchemeCompressible(cntlr, sb, b, line, scheme)
    IN  CASE sb.valid = {} -> "UNCOMPRESSED"
          [] sb.valid # {} /\ (~cntlr.compress \/ b \in sb.valid) -> "INVALID"
          [] OTHER ->
               IF sb.scheme = "UNCOMPRESSED"
               THEN FirstScheme(default, Works(default), Other(default), Works("SCHEME2"))
               ELSE FirstScheme(sb.scheme, Works(sb.scheme), other, cntlr.otf /\ Works(other))

\* CacheCompressionCntlr::insert and evict, called when a way changes its scheme.
Count(cntlr, from, to) ==
    LET In(scheme, x) == IF x = scheme /\ from # to THEN 1 ELSE 0
    IN  [cntlr EXCEPT !.n1 = @ + In("SCHEME1", to) - In("SCHEME1", from),
                      !.n2 = @ + In("SCHEME2", to) - In("SCHEME2", from)]

\* The line is stored in way w under the scheme; an entry inserted into a full
\* dictionary is an error.
StoreLine(st, w, b, line, scheme) ==
    LET sb == st.ways[w]
        plain == [sb EXCEPT !.data[b] = line]
        keys == UNION {Keys(scheme, IF c = b THEN line ELSE sb.data[c]) : c \in sb.valid \cup {b}}
        room == IF sb.scheme = scheme THEN Fits(sb, line)
                                      ELSE Cardinality(keys) <= DictSize(scheme)
    IN  IF scheme = "UNCOMPRESSED" THEN [st EXCEPT !.ways[w] = plain]
        ELSE IF ~room THEN Failed(st, "full dictionary")
        ELSE [st EXCEPT !.ways[w] = Compress(sb, b, line, scheme),
                        !.cntlr = Count(st.cntlr, sb.scheme, scheme)]

Pruned(st, w) == [st EXCEPT !.ways[w] = Compact(st.cntlr, @)]

\* writeBlockData, insertBlockData.
WriteBlockData(st, w, b, write) ==
    LET scheme == GetSchemeForWrite(st.cntlr, st.ways[w], b, write)
    IN  Pruned(StoreLine(st, w, b, IF scheme = "UNCOMPRESSED" THEN write.far ELSE write.near, scheme), w)

InsertBlockData(st, w, b, line) ==
    Pruned([(IF line = <<>> THEN st
             ELSE StoreLine(st, w, b, line, GetSchemeForInsertion(st.cntlr, st.ways[w], b, line)))
            EXCEPT !.ways[w].valid = @ \cup {b}], w)

\* evictBlockData, invalidateBlockData (which does not prune).  The pointers of
\* a line that is not valid are never used: they are reset here.
RemoveBlockData(st, w, b, prune) ==
    LET gone == [st.ways[w] EXCEPT !.valid = @ \ {b}, !.data[b] = Zero, !.ptrs[b] = Zero,
                                   !.lower[b] = Zero]
    IN  IF gone.valid = {}
        THEN [st EXCEPT !.ways[w] = ChangeScheme(gone, "UNCOMPRESSED"),
                        !.cntlr = Count(st.cntlr, gone.scheme, "UNCOMPRESSED")]
        ELSE IF prune THEN Pruned([st EXCEPT !.ways[w] = gone], w)
        ELSE [st EXCEPT !.ways[w] = gone]

-----------------------------------------------------------------------------
(* SuperblockInfo.                                                          *)

Blocks(sb) == {b \in Block : sb.tags[b] # NoTag}

CanInsertBlockInfo(sb, l) ==
    Blocks(sb) = {} \/ (sb.tags[l.block] = NoTag /\ sb.supertag = l.tag)

InsertBlockInfo(sb, l) ==
    [sb EXCEPT !.supertag = IF Blocks(sb) = {} THEN l.tag ELSE @, !.tags[l.block] = l.tag]

\* evictBlockInfo, invalidateBlockInfo.
RemoveBlockInfo(sb, b) ==
    [sb EXCEPT !.tags[b] = NoTag, !.upgrading = @ \ {b},
               !.supertag = IF Blocks(sb) = {b} THEN NoTag ELSE @]

-----------------------------------------------------------------------------
(* Replacement.                                                             *)

MoveToMRU(st, w) == [st EXCEPT !.lru = Append(SelectSeq(@, LAMBDA v : v # w), w)]

\* The ways that may go, least recently used first; none with an upgrade under way.
Candidates(st) == SelectSeq(st.lru, LAMBDA w : st.ways[w].upgrading = {})

\* Mutant: upgrades are not looked at.
VictimAny(st) == Head(st.lru)
Victim(st) == IF Candidates(st) = <<>> THEN Ways ELSE Head(Candidates(st))

\* getReplacementWay.  Query-based selection passes over a way with a line that a
\* lower-level cache holds, except in the last attempt if it may be invalidated
\* there.  Returns the set afterwards and the way, or Ways.
RECURSIVE QueryBased(_, _, _, _)
QueryBased(st, attempt, allowFwdInv, inLower) ==
    LET w == Victim(st)
        reject == w # Ways /\ \E b \in Blocks(st.ways[w]) :
                                 [tag |-> st.ways[w].tags[b], block |-> b] \in inLower
    IN  IF w = Ways THEN <<st, Ways>>
        ELSE IF ~reject \/ (attempt = st.policy.attempts /\ allowFwdInv) THEN <<MoveToMRU(st, w), w>>
        ELSE IF attempt = st.policy.attempts THEN <<st, Ways>>
        ELSE QueryBased(MoveToMRU(st, w), attempt + 1, allowFwdInv, inLower)

GetReplacementWay(st, allowFwdInv, inLower) ==
    LET empty == {w \in Way : Blocks(st.ways[w]) = {}}
        w == Victim(st)
    IN  CASE empty # {} -> <<MoveToMRU(st, Min(empty)), Min(empty)>>
          [] empty = {} /\ st.policy.name = "lru" ->
               <<IF w = Ways THEN st ELSE MoveToMRU(st, w), w>>
          [] OTHER -> QueryBased(st, 1, allowFwdInv, inLower)

-----------------------------------------------------------------------------
(* CacheSet.                                                                *)

Find(st, l) == {w \in Way : st.ways[w].tags[l.block] = l.tag}

\* invalidate, and half of an eviction.
RemoveLine(st, w, b, prune) ==
    LET less == [st EXCEPT !.ways[w] = RemoveBlockInfo(@, b)]
    IN  RemoveBlockData(less, w, b, prune)

\* Mutant: one line per way, as in a cache without superblocks.
LinesOfOne(st, w) ==
    {[line |-> [tag |-> st.ways[w].tags[b], block |-> b], data |-> st.ways[w].data[b]] :
       b \in {Min(Blocks(st.ways[w]))}}

\* The lines of way w with their data, as WritebackLines.
LinesOf(st, w) ==
    {[line |-> [tag |-> st.ways[w].tags[b], block |-> b], data |-> st.ways[w].data[b]] :
       b \in Blocks(st.ways[w])}

\* insertLine: into the first way that takes the line, else into a victim that is
\* emptied.  Returns the set and the lines that must be written back; the line
\* itself is one if no victim was found.  A TLB has no data: data = <<>>.
InsertLine(st, l, data, allowFwdInv, inLower) ==
    LET CanInsertBlockData(sb) ==
            /\ l.block \notin sb.valid
            /\ data = <<>> \/ GetSchemeForInsertion(st.cntlr, sb, l.block, data) # "INVALID"
        Put(s, w) == [InsertBlockData(s, w, l.block, data) EXCEPT !.ways[w] = InsertBlockInfo(@, l)]
        takers == {w \in Way : CanInsertBlockInfo(st.ways[w], l) /\ CanInsertBlockData(st.ways[w])}
        Replace(s, w) ==
            IF w = Ways THEN [set |-> s, out |-> {[line |-> l, data |-> data]}]
            ELSE [set |-> Put(FoldLeft(LAMBDA acc, b : RemoveLine(acc, w, b, TRUE), s,
                                       SetToSortSeq(Blocks(st.ways[w]), <)), w),
                  out |-> LinesOf(st, w)]
        found == GetReplacementWay(st, allowFwdInv, inLower)
    IN  IF takers # {} THEN [set |-> Put(st, Min(takers)), out |-> {}]
        ELSE Replace(found[1], found[2])
=============================================================================
