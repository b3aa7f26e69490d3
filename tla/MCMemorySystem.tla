--------------------------- MODULE MCMemorySystem ---------------------------
(* MemorySystem for TLC.  Addresses and user threads are interchangeable: a  *)
(* permutation maps reachable states of a configuration to such states only  *)
(* when it maps the configuration to itself.                                 *)
EXTENDS MemorySystem, TLC

CONSTANTS a1, a2, a3, u1, u2

\* Two MESI caches, each shared by two threads; three MESIF caches, where upgrades
\* cross and forwarders evict; three lines and a directory set with two entries.
Mesi == [nodes |-> 2, addr |-> {a1}, protocol |-> "MESI", hwSharers |-> 2, entries |-> 1,
         users |-> {u1, u2}]
Mesif == [nodes |-> 3, addr |-> {a1}, protocol |-> "MESIF", hwSharers |-> 3, entries |-> 1,
          users |-> {u1}]
Replacement == [nodes |-> 1, addr |-> {a1, a2, a3}, protocol |-> "MSI", hwSharers |-> 1,
                entries |-> 2, users |-> {u1, u2}]
AllConfigs == {Mesi, Mesif, Replacement}
SmallConfigs == {[Mesi EXCEPT !.users = {u1}]}

Symmetry == Permutations({a1, a2, a3}) \cup Permutations({u1, u2})
=============================================================================
