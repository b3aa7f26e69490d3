------------------------------- MODULE Caches -------------------------------
(***************************************************************************)
(* The two views of the caches: one set, with what CompressedCache says of *)
(* tags, data and dictionaries, and one tile, with what CacheHierarchy     *)
(* says of its levels.  In the code a level of a tile is made of such sets. *)
(* A behaviour is one of a set or one of a tile; the other view stays as it *)
(* was initialised.                                                        *)
(***************************************************************************)
EXTENDS CompressedCache

CONSTANTS TileCache, TileLine, TileDatum, Topology

VARIABLES view, tile, waiters, asked, locked, mem, written, topology

Tile == INSTANCE CacheHierarchy WITH Cache <- TileCache, Line <- TileLine, Datum <- TileDatum
tileVars == <<tile, waiters, asked, locked, mem, written, topology>>

CachesInit ==
    /\ Init /\ Tile!Init /\ view \in {"set", "tile"}
    /\ view = "tile" => kind = CHOOSE k \in Kind : TRUE
    /\ view = "set" => topology = CHOOSE t \in Topology : TRUE
CachesNext ==
    \/ view = "set" /\ Next /\ UNCHANGED <<view, tileVars>>
    \/ view = "tile" /\ Tile!Next /\ UNCHANGED <<view, vars>>
CachesSpec == CachesInit /\ [][CachesNext]_<<view, vars, tileVars>>

-----------------------------------------------------------------------------
\* The assertions of the code.  In a set only the two errors are possible that have a
\* cause: no entry is inserted into a full dictionary, unless a store begins inside of a
\* line, and a line that is inserted or moved is found again, unless every way waits for
\* an upgrade.  In a tile a woken thread finds its line in the next level, modified data is
\* never invalidated, a line is inserted once, and the write that ends an atomic operation
\* finds the line in the first level.
NoOtherAssertionFails == ErrorsHaveTheirCauses /\ Tile!AssertionsHold

\* A tile is coherent inside.  Its caches are inclusive (isInLowerLevelCache relies on
\* it): a level has all lines of the levels below, and is modified if one of them is,
\* whatever was evicted, prefetched, upgraded or taken by the directory in between.  And
\* at most one first-level cache may write a line without asking.
TileIsCoherent == Tile!Inclusive /\ Tile!OneWriter

\* No level loses data: a set hands on the lines that leave it, and a tile the lines that
\* are modified in it.
DataAreHandedOn == SetHandsOn /\ Tile!TileHandsOn
=============================================================================
