------------------------------- MODULE Content -------------------------------
(***************************************************************************)
(* The rows of one table of writing (posts or pages: the two tables have   *)
(* the same columns and constraints) and the rules the schema and package  *)
(* internal/content apply to them.  Pure operators, no state: Writing and  *)
(* Editor both build on them.                                              *)
(***************************************************************************)
EXTENDS Naturals

CONSTANTS
  Ids,          \* the UUIDs BeforeCreate may assign
  Slugs,        \* what may be typed into the slug field
  WellFormed,   \* the slugs the slug_format constraint accepts
  Titles,       \* what may be typed into the title field
  BlankTitles,  \* the titles that are nothing but spaces
  Bodies,       \* Markdown, stored as typed
  NoDate,       \* the SQL null of published_at
  NoRow,        \* no row has this ID
  NoId          \* writing that has no row yet

ASSUME ContentAssumption ==
  /\ WellFormed \subseteq Slugs
  /\ BlankTitles \subseteq Titles
  /\ NoDate \notin Nat
  /\ NoId \notin Ids

Text == [slug : Slugs, title : Titles, body : Bodies]
Date == Nat \union {NoDate}
Row  == [text : Text, date : Date]

ASSUME NoRowAssumption == NoRow \notin Row

Existing(rows) == {id \in Ids : rows[id] # NoRow}

\* Public from its Publication Date on; no date is a Draft, a later one is
\* scheduled.
IsPublished(date, t) == date # NoDate /\ date <= t

SlugFormat(text)   == text.slug \in WellFormed
TitlePresent(text) == text.title \notin BlankTitles
SlugKey(rows, id, text) ==
  \A other \in Existing(rows) \ {id} : rows[other].text.slug # text.slug

\* Slip: the unique index is missing from the table.
RefusedByChecks(rows, id, text) ==
  ~ (SlugFormat(text) /\ TitlePresent(text))

\* The constraint violations that become ErrSlugInvalid, ErrTitleRequired and
\* ErrSlugTaken: the write of text to row id has no effect.
Refused(rows, id, text) ==
  ~ (SlugFormat(text) /\ TitlePresent(text) /\ SlugKey(rows, id, text))

\* resource.update: every column of the row is written, the date it had when
\* it was read unless the caller asked for the one submitted.
Updated(read, text, date, withDate) ==
  [text |-> text, date |-> IF withDate THEN date ELSE read]

\* What the schema promises of the table.
RowsSound(rows) ==
  /\ \A id \in Existing(rows) :
       SlugFormat(rows[id].text) /\ TitlePresent(rows[id].text)
  /\ \A id, other \in Existing(rows) :
       rows[id].text.slug = rows[other].text.slug => id = other
=============================================================================
