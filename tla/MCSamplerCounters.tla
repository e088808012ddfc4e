------------------------- MODULE MCSamplerCounters -------------------------
(* An instance of SamplerCounters for TLC: PIDs are interchangeable. *)
EXTENDS SamplerCounters, TLC

Interchangeable == Permutations(Pids)
=============================================================================
