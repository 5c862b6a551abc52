--------------------------- MODULE MCPublicationDate ---------------------------
(* PublicationDate on small sets, for TLC. *)
EXTENDS PublicationDate, TLC

CONSTANTS a, b

\* East and west of UTC, where the clock goes forward and back.
Zone(before, after) == [before |-> before, after |-> after, at |-> 2]
MCZones == {Zone(1, 3), Zone(3, 1), Zone(-1, -3), Zone(-3, -1)}
AllTabs == Permutations(Tabs)
================================================================================
