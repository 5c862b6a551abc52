------------------------------- MODULE MCListing -------------------------------
(* Listing on small sets, for TLC. *)
EXTENDS Listing

\* Everything is found by the empty query, all but one row by the other.
MCMatches == [query \in Queries |->
                IF query = "" THEN Writings ELSE Writings \ {3}]
================================================================================
