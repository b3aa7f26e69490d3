------------------------------ MODULE MCCaches ------------------------------
(* A set: two ways, four lines of three superblocks.  A tile: two cores on a  *)
(* shared last level, or one core with three levels; more lines than each of  *)
(* the caches holds, but for the largest of the instances.                    *)
EXTENDS Caches

A0 == [tag |-> 0, block |-> 0]
A1 == [tag |-> 0, block |-> 1]
B0 == [tag |-> 1, block |-> 0]
C1 == [tag |-> 2, block |-> 1]
MCLine == {A0, A1, B0, C1}

\* With a line of zeros, <<2, 3>> fits both schemes; <<0, 1>> and <<2, 3>> need four chunks
\* but two upper parts; <<4, 6>> fits no scheme with <<0, 1>>.  Stores of 3 fill the
\* dictionary of SCHEME1, and of 6 are one entry too many.
MCDatum == (A0 :> {Zero, <<0, 1>>}) @@ (A1 :> {<<2, 3>>, <<4, 6>>}) @@ (B0 :> {Zero}) @@ (C1 :> {Zero})
MCWord == (A0 :> {}) @@ (A1 :> {3, 6}) @@ (B0 :> {}) @@ (C1 :> {})

Cntlr(compress) == [compress |-> compress, otf |-> FALSE, prune |-> FALSE, n1 |-> 0, n2 |-> 0]
Lru == [name |-> "lru", attempts |-> 1]
Qbs == [name |-> "lru_qbs", attempts |-> 2]
MCKind == {[cntlr |-> Cntlr(TRUE), policy |-> p, tlb |-> FALSE, offsets |-> p = Lru] : p \in {Lru, Qbs}}
          \cup {[cntlr |-> Cntlr(FALSE), policy |-> Lru, tlb |-> t, offsets |-> TRUE] : t \in BOOLEAN}

CONSTANTS l1, l2, l3

Shared == ("a" :> "llc") @@ ("b" :> "llc") @@ ("llc" :> "none")
Private == ("a" :> "l2") @@ ("l2" :> "llc") @@ ("llc" :> "none")
SharedWays == ("a" :> 1) @@ ("b" :> 1) @@ ("llc" :> 2)
PrivateWays == ("a" :> 1) @@ ("l2" :> 1) @@ ("llc" :> 2)
MCTopology ==
    {[next |-> Shared, ways |-> SharedWays, home |-> "dram", lines |-> {l1, l2, l3}, host |-> {0}, stored |-> {1}],
     [next |-> Shared, ways |-> SharedWays, home |-> "directory", lines |-> {l1, l2}, host |-> {0}, stored |-> {1}],
     [next |-> Private, ways |-> PrivateWays, home |-> "directory", lines |-> {l1, l2, l3}, host |-> {1}, stored |-> {0}]}
Symmetry == Permutations({l1, l2})
=============================================================================
