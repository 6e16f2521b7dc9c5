--------------------------- MODULE MCRedisSessions ---------------------------
(***************************************************************************)
(* RedisSessions for TLC: a few threads and the scheduler.                 *)
(***************************************************************************)
EXTENDS RedisSessions, TLC

CONSTANTS q1, q2, q3

ThreeThreads == {q1, q2, q3}
Symmetry == Permutations(ThreeThreads)
=============================================================================
