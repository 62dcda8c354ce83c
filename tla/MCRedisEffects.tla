--------------------------- MODULE MCRedisEffects ---------------------------
(***************************************************************************)
(* A small instance of RedisEffects for TLC.                               *)
(***************************************************************************)
EXTENDS RedisEffects, TLC

CONSTANTS h1, h2, h3

ThreeHosts == {h1, h2, h3}
Symmetry == Permutations(ThreeHosts)
=============================================================================
