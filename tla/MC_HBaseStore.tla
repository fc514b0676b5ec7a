---------------------------- MODULE MC_HBaseStore ----------------------------
(* Small instances of HBaseStore for TLC. *)
EXTENDS HBaseStore, TLC

CONSTANTS k1, k2, v1, v2, c1, c2

MCKeys    == {k1, k2}
MCVals    == {v1, v2}
MCClients == {c1, c2}
MCOneClient == {c1}
\* Cells left by earlier writers and damaged rows: what the decoders handle.
MCPriorDamaged == {Absent, Corrupt, Garbled}
MCPriorEmpty   == {Absent}

Symm == Permutations(MCKeys) \cup Permutations(MCVals) \cup Permutations(MCClients)
=============================================================================
