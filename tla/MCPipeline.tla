------------------------------ MODULE MCPipeline ------------------------------
(* Two compiler processes on one work directory.                           *)
EXTENDS Pipeline, TLC

CONSTANTS a, b

NormalizeGateOrAll == {Normalize, Gate, Package}
OnlyCards == {Cards}
Interchangeable == Permutations(Procs)
=============================================================================
