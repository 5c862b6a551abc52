------------------------------- MODULE MCEditor -------------------------------
(* Editor on small sets, for TLC. *)
EXTENDS Editor, TLC

CONSTANTS p1, p2, t1, t2, r1, r2

\* Two texts that may be stored under different slugs, one the schema refuses.
Plain   == [slug |-> "a", title |-> "A", body |-> "text"]
Renamed == [slug |-> "b", title |-> "A", body |-> "text"]
BadSlug == [slug |-> "A b", title |-> "A", body |-> "text"]

MCSlugs  == {"a", "b", "A b"}
MCWellFormed == {"a", "b"}
MCTitles == {"A", " "}
MCBlankTitles == {" "}
MCBodies == {"text"}

MCTyped  == {Plain, BadSlug}
MCTypedPlain == {Plain, Renamed}

\* Nothing, a date that is to come and then arrives, and a value that does not
\* parse.  Publish now adds the dates of the clock.
MCTypedDates == {NoDate, 1, Malformed}
MCSubmittedDates == {NoDate, 1}
MCSchedule == {1}

MCSymmetry == Permutations({r1, r2}) \union Permutations({t1, t2})
                \union Permutations({p1, p2})
=============================================================================
