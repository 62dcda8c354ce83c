--------------------------- MODULE MCToolEffects ---------------------------
(***************************************************************************)
(* Small instances of ToolEffects for TLC.                                 *)
(***************************************************************************)
EXTENDS ToolEffects, TLC

CONSTANTS w1, w2, w3

ThreeWorkers == {w1, w2, w3}
\* One delivery thread per process.
OneEach == [d \in Deliverers |-> d]
\* Two threads in the process of w1, one in that of w3.
Paired == [d \in Deliverers |-> IF d = w2 THEN w1 ELSE d]
Symmetry == Permutations(ThreeWorkers)
=============================================================================
