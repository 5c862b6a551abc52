------------------------------- MODULE MCServer -------------------------------
(* Server on small sets, for TLC. *)
EXTENDS Server, TLC

CONSTANTS old, new, key1, key2

\* The new binary has one migration more.
MCNeeds == (old :> 1) @@ (new :> 2)

\* A secret is set, kept and rotated.
MCSecretsOf == (old :> {NoSecret, key1}) @@ (new :> {key1, key2})
===============================================================================
