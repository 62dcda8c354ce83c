---------------------------- MODULE MCProjectClaims ----------------------------
(***************************************************************************)
(* A small instance of ProjectClaims for TLC: the decomposer plans one     *)
(* task, and a message adds one that depends on it.                        *)
(***************************************************************************)
EXTENDS ProjectClaims, TLC

CONSTANTS w1, w2, o1, o2, t1, t2

TwoWorkers   == {w1, w2}
TwoOperators == {o1, o2}
TwoTasks     == {t1, t2}
OneTask      == {t1}
Chain        == [t \in TwoTasks |-> IF t = t2 THEN {t1} ELSE {}]
Symmetry     == Permutations(TwoWorkers) \union Permutations(TwoOperators)
=============================================================================
