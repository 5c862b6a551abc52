-------------------------------- MODULE Schema --------------------------------
(***************************************************************************)
(* What migrate.go promises of the database: it has a height, the number   *)
(* of migrations applied; one migrator at a time has the turn; it climbs   *)
(* or goes down, one migration after another, and never turns round.       *)
(***************************************************************************)
EXTENDS Naturals

CONSTANT Top  \* how many migrations there are

VARIABLES
  height,
  way       \* what the one who has the turn does, or "none"

svars == <<height, way>>

SInit == height = 0 /\ way = "none"

TakeTurn(cmd) == way = "none" /\ way' = cmd /\ UNCHANGED height
LeaveTurn     == way # "none" /\ way' = "none" /\ UNCHANGED height

Climb == way = "up"   /\ height < Top /\ height' = height + 1 /\ UNCHANGED way
Fall  == way = "down" /\ height > 0   /\ height' = height - 1 /\ UNCHANGED way

SNext == TakeTurn("up") \/ TakeTurn("down") \/ LeaveTurn \/ Climb \/ Fall
===============================================================================
