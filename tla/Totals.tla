------------------------------- MODULE Totals -------------------------------
(***************************************************************************)
(* The loops of internal/profiler, internal/analyzer and internal/reporter *)
(* that add up numbers: sum over the domain of a function.                 *)
(***************************************************************************)
EXTENDS Integers, FiniteSets, Functions

Total(f) == FoldFunction(+, 0, f)
=============================================================================
