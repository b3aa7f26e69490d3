--------------------------- MODULE BranchPredictor ---------------------------
(***************************************************************************)
(* The branch predictors of performance_model/branch_predictors, driven by  *)
(* Core::accessBranchPredictor: predict, then update with the outcome.  The *)
(* timing models take its answer as the mispredict field of a branch.       *)
(*                                                                          *)
(* Tables hold the sets that were touched.  Direction counters of one bit   *)
(* are BOOLEAN.  Left out: the indirect target buffer, which nothing calls. *)
(***************************************************************************)
EXTENDS Integers, Sequences, SequencesExt, FiniteSetsExt, Bitwise

CONSTANT BranchConfig   \* predictor type, addresses of the branches, bound on their executions

VARIABLES bp        \* the predictor: configuration and tables
VARIABLE outcomes   \* history: <<address, taken>> of the branches executed

bpVars == <<bp, outcomes>>

-----------------------------------------------------------------------------
\* SaturatingPredictor<2>, and tables of it.

Favouring(taken) == IF taken THEN 1 ELSE -2
Towards(counter, taken) == IF taken THEN Min({counter + 1, 1}) ELSE Max({counter - 1, -2})
Taken(counter) == counter >= 0

At(table, index, default) == IF index \in DOMAIN table THEN table[index] ELSE default
Put(table, index, v) == [i \in DOMAIN table \cup {index} |-> IF i = index THEN v ELSE table[i]]

SimpleBimodalPredict(b, ip) == Taken(At(b.bimodal, ip % 4096, Favouring(FALSE)))
SimpleBimodalUpdate(b, ip, actual) ==
    Put(b.bimodal, ip % 4096, Towards(At(b.bimodal, ip % 4096, Favouring(FALSE)), actual))

-----------------------------------------------------------------------------
\* Associative tables: the first way that matches, else the first least recently used one.

Ways(n, way) == [k \in 1..n |-> way]
Matching(ways, tag) == {k \in DOMAIN ways : ways[k].valid /\ ways[k].tag = tag}
Hit(ways, tag) == Matching(ways, tag) # {}
LeastRecent(ways) == Min({k \in DOMAIN ways : \A o \in DOMAIN ways : ways[k].lru <= ways[o].lru})
UpdatedWay(ways, tag) == IF Hit(ways, tag) THEN Min(Matching(ways, tag)) ELSE LeastRecent(ways)

\* The branch target buffer, of which only the hit is used.
BtbTag(ip) == <<(ip \div 8192) % 512, ip % 16>>
BtbIndex(ip) == (ip \div 16) % 512
BtbSet(b, ip) == At(b.btb, BtbIndex(ip), Ways(4, [valid |-> TRUE, tag |-> <<0, 0>>, lru |-> 0]))
BtbUpdate(b, ip) ==
    LET ways == BtbSet(b, ip)
        k == UpdatedWay(ways, BtbTag(ip))
    IN  Put(b.btb, BtbIndex(ip), [ways EXCEPT ![k].tag = BtbTag(ip), ![k].lru = b.uses])

-----------------------------------------------------------------------------
\* GlobalPredictor, indexed by the address and the path.

GlobalIndex(ip, pir) == ((ip \div 16) ^^ (pir \div 64)) % 512
GlobalTag(ip, pir) == ((ip \div 8192) ^^ pir) % 64
GlobalSet(b, ip) ==
    At(b.global, GlobalIndex(ip, b.pir), Ways(4, [valid |-> FALSE, tag |-> 0, counter |-> 0, lru |-> 0]))
GlobalWay(b, ip) == UpdatedWay(GlobalSet(b, ip), GlobalTag(ip, b.pir))
GlobalHit(b, ip) == Hit(GlobalSet(b, ip), GlobalTag(ip, b.pir))
GlobalLookup(b, ip) ==
    [hit |-> GlobalHit(b, ip), prediction |-> Taken(GlobalSet(b, ip)[GlobalWay(b, ip)].counter)]
GlobalUpdate(b, ip, actual) ==
    LET ways == GlobalSet(b, ip)
        k == GlobalWay(b, ip)
        counter == IF GlobalHit(b, ip) THEN Towards(ways[k].counter, actual) ELSE Favouring(actual)
    IN  Put(b.global, GlobalIndex(ip, b.pir),
            [ways EXCEPT ![k] = [valid |-> TRUE, tag |-> GlobalTag(ip, b.pir), counter |-> counter, lru |-> b.uses]])
GlobalEvict(b, ip) ==
    Put(b.global, GlobalIndex(ip, b.pir), [GlobalSet(b, ip) EXCEPT ![GlobalWay(b, ip)].valid = FALSE])

-----------------------------------------------------------------------------
\* LoopBranchPredictor: a run of `limit' outcomes in direction `dir', then one
\* in the other.  There is no valid bit: tag 0 matches a way never used, and a
\* replaced way keeps `enabled'.

LoopTag(ip) == (ip \div 1024) % 64
LoopIndex(ip) == (ip \div 16) % 64
LoopSet(b, ip) ==
    At(b.loop, LoopIndex(ip),
       Ways(2, [valid |-> TRUE, tag |-> 0, lru |-> 0, prev |-> FALSE, enabled |-> FALSE, dir |-> TRUE, count |-> 0, limit |-> 0]))

LoopPrediction(e) == IF e.count = e.limit THEN ~e.dir ELSE e.dir
LoopHits(b, ip) == {k \in Matching(LoopSet(b, ip), LoopTag(ip)) : LoopSet(b, ip)[k].enabled}
LoopLookup(b, ip) ==
    IF LoopHits(b, ip) = {} THEN [hit |-> FALSE, prediction |-> FALSE]
    ELSE [hit |-> TRUE, prediction |-> LoopPrediction(LoopSet(b, ip)[Min(LoopHits(b, ip))])]
\* lookup makes the way it hits the most recent one.
LoopLookedUp(b, ip) ==
    IF LoopHits(b, ip) = {} THEN b.loop
    ELSE Put(b.loop, LoopIndex(ip), [LoopSet(b, ip) EXCEPT ![Min(LoopHits(b, ip))].lru = b.uses])

\* A bug: a loop that ends early keeps the length it had.
SameDirectionKeepsLimit(e, actual) ==
    IF LoopPrediction(e) = actual THEN [e EXCEPT !.count = IF e.count = e.limit THEN 0 ELSE e.count + 1]
    ELSE IF e.count < e.limit THEN [e EXCEPT !.count = 0]
    ELSE [e EXCEPT !.count = e.count + 1, !.limit = e.count + 1, !.enabled = FALSE]
\* The outcome continues the run, ends it early, or makes it longer.
SameDirection(e, actual) ==
    IF LoopPrediction(e) = actual THEN [e EXCEPT !.count = IF e.count = e.limit THEN 0 ELSE e.count + 1]
    ELSE IF e.count < e.limit THEN [e EXCEPT !.count = 0, !.limit = e.count]
    ELSE [e EXCEPT !.count = e.count + 1, !.limit = e.count + 1, !.enabled = FALSE]
\* Two outcomes against the run turn it round; one after a run enables the entry.
LoopAdvance(e, actual) ==
    IF e.prev = actual /\ actual # e.dir
    THEN [e EXCEPT !.count = 1, !.limit = 1, !.dir = actual, !.enabled = FALSE]
    ELSE IF e.prev # actual /\ actual # e.dir /\ ~e.enabled
    THEN [e EXCEPT !.enabled = TRUE, !.count = 0]
    ELSE SameDirection(e, actual)
LoopUpdate(b, ip, actual) ==
    LET ways == LoopSet(b, ip)
        k == UpdatedWay(ways, LoopTag(ip))
        e == IF Hit(ways, LoopTag(ip)) THEN LoopAdvance(ways[k], actual)
             ELSE [ways[k] EXCEPT !.tag = LoopTag(ip), !.dir = actual, !.count = 1, !.limit = 1]
    IN  Put(b.loop, LoopIndex(ip), [ways EXCEPT ![k] = [e EXCEPT !.prev = actual, !.lru = b.uses]])

-----------------------------------------------------------------------------
\* PentiumMBranchPredictor: global before loop before bimodal.

LoopIsUsed(b, ip) == LoopLookup(b, ip).hit /\ Hit(BtbSet(b, ip), BtbTag(ip))
PentiumMPredict(b, ip) ==
    IF GlobalHit(b, ip) THEN GlobalLookup(b, ip).prediction
    ELSE IF LoopIsUsed(b, ip) THEN LoopLookup(b, ip).prediction
    ELSE SimpleBimodalPredict(b, ip)

UpdatePir(pir, ip, actual) == IF actual THEN ((pir * 4) ^^ (ip \div 16)) % 32768 ELSE pir

\* `b' as the lookups found it: the hits and the bimodal answer that predict saved.
PentiumMUpdate(b, predicted, actual, ip) ==
    LET lookedUp == [b EXCEPT !.loop = LoopLookedUp(b, ip), !.uses = @ + 1]
        backup == LoopIsUsed(b, ip) \/ SimpleBimodalPredict(b, ip) = actual
    IN  [b EXCEPT
            !.uses = @ + 2,
            !.btb = BtbUpdate(b, ip),
            !.loop = LoopUpdate(lookedUp, ip, actual),
            !.bimodal = IF GlobalHit(b, ip) \/ LoopIsUsed(b, ip) THEN @ ELSE SimpleBimodalUpdate(b, ip, actual),
            !.global = IF GlobalHit(b, ip) /\ predicted # actual /\ backup THEN GlobalEvict(b, ip)
                       ELSE IF GlobalHit(b, ip) \/ (predicted # actual /\ ~backup) THEN GlobalUpdate(b, ip, actual)
                       ELSE @,
            !.pir = UpdatePir(@, ip, actual)]

-----------------------------------------------------------------------------
\* BranchPredictor::create and Core::accessBranchPredictor.

Predict(b, ip) ==
    CASE b.config.type = "pentium_m" -> PentiumMPredict(b, ip)
      [] b.config.type = "one_bit"   -> At(b.bits, ip % b.config.size, FALSE)
UpdateCounters(b, predicted, actual) ==
    IF predicted = actual THEN [b EXCEPT !.correct = @ + 1] ELSE [b EXCEPT !.incorrect = @ + 1]
Update(b, predicted, actual, ip) ==
    CASE b.config.type = "pentium_m" -> PentiumMUpdate(b, predicted, actual, ip)
      [] b.config.type = "one_bit"   -> [b EXCEPT !.bits = Put(@, ip % b.config.size, actual)]

NewPredictor(c) ==
    [config |-> c, bits |-> <<>>, bimodal |-> <<>>, btb |-> <<>>, global |-> <<>>, loop |-> <<>>,
     pir |-> 0, uses |-> 0, correct |-> 0, incorrect |-> 0]

BranchInit == bp \in {NewPredictor(c) : c \in BranchConfig} /\ outcomes = <<>>

AccessBranchPredictor ==
    \E ip \in bp.config.branches, actual \in BOOLEAN :
        /\ Len(outcomes) < bp.config.executions
        /\ outcomes' = Append(outcomes, <<ip, actual>>)
        /\ \E p \in {Predict(bp, ip)} : bp' = UpdateCounters(Update(bp, p, actual, ip), p, actual)

-----------------------------------------------------------------------------

\* The outcomes in ip's loop set end with two full turns of a loop of ip, of n
\* branches in direction d and one in the other, and j branches of a third turn.
SetOutcomes(ip) == SelectSeq(outcomes, LAMBDA o : LoopIndex(o[1]) = LoopIndex(ip))
InLoop(ip, n, d, j) ==
    LET own == SetOutcomes(ip)
        length == 2 * n + 2 + j
    IN  /\ Len(own) >= length
        /\ \A i \in 1..length :
                own[Len(own) - length + i] = <<ip, IF i % (n + 1) = 0 THEN ~d ELSE d>>

\* Once a branch has run twice through a loop, the loop predictor, where it
\* answers, is right at every branch of the third turn, the one that leaves
\* included, whatever the branch did before and whichever branch had its entry
\* (the comment in lpb.h: it follows 000001 and 111110).
LoopIsLearnt ==
    bp.config.type = "pentium_m" =>
        \A ip \in bp.config.branches, n \in 1..4, d \in BOOLEAN :
            \A j \in 0..n :
                InLoop(ip, n, d, j) /\ LoopLookup(bp, ip).hit
                    => LoopLookup(bp, ip).prediction = (IF j = n THEN ~d ELSE d)
=============================================================================
