------------------------------ MODULE MCPQueue ------------------------------
(* PQueue with a few interchangeable lines, for TLC.                       *)
EXTENDS PQueue, TLC

Symmetry == Permutations(Items)
=============================================================================
