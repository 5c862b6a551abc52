----------------------------- MODULE MCMigrations -----------------------------
(* Migrations on small sets, for TLC. *)
EXTENDS Migrations

CONSTANTS a, b, old, branch

\* Two processes of the current binary, one that lacks the newest migration,
\* and one of a branch that the oldest migration has not been merged into.
MCKnown ==
  [p \in Procs |-> IF p = old THEN {1, 2} ELSE IF p = branch THEN {2, 3} ELSE {1, 2, 3}]
===============================================================================
