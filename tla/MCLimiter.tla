------------------------------ MODULE MCLimiter ------------------------------
(* Limiter on small sets, for TLC. *)
EXTENDS Limiter, TLC

CONSTANTS x, y, r1, r2

MCSymmetry == Permutations({x, y}) \union Permutations({r1, r2})
=============================================================================
