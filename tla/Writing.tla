------------------------------- MODULE Writing -------------------------------
(***************************************************************************)
(* What the Admin editor promises the Author.  A save stores exactly what  *)
(* the Author sent, once, or nothing; a Draft is revised as it is written  *)
(* and its date left alone; what is public changes only by a save.  Editor *)
(* is shown to implement it.                                               *)
(***************************************************************************)
EXTENDS Content

CONSTANTS
  Reqs,    \* the requests the Author may have in flight
  Typed,   \* the texts the Author types
  Dates    \* the Publication Dates the Author chooses

VARIABLES
  rows,    \* the table, by ID
  now,     \* the clock
  asked    \* the saves the Author has sent, until they are decided

wvars == <<rows, now, asked>>

WInit ==
  /\ rows = [id \in Ids |-> NoRow]
  /\ now = 0
  /\ asked = {}

\* The Author saves writing: some row's, or new.
Ask(save) ==
  /\ \A other \in asked : other.by # save.by
  /\ asked' = asked \union {save}
  /\ UNCHANGED <<rows, now>>

Decide(save, id) ==
  /\ save \in asked
  /\ ~ Refused(rows, id, save.text)
  /\ rows' = [rows EXCEPT ![id] = [text |-> save.text, date |-> save.date]]
  /\ asked' = asked \ {save}
  /\ UNCHANGED now

Create(save, id) ==
  /\ save.id = NoId
  /\ rows[id] = NoRow
  /\ Decide(save, id)

Save(save, id) ==
  /\ save.id = id
  /\ id \in Existing(rows)
  /\ Decide(save, id)

\* Refused, or lost on the way.
Drop(save) ==
  /\ save \in asked
  /\ asked' = asked \ {save}
  /\ UNCHANGED <<rows, now>>

\* Nobody is reading a Draft: only its text follows the Author.
Revise(id, text) ==
  /\ id \in Existing(rows)
  /\ ~ IsPublished(rows[id].date, now)
  /\ ~ Refused(rows, id, text)
  /\ rows' = [rows EXCEPT ![id].text = text]
  /\ UNCHANGED <<now, asked>>

Elapse ==
  /\ now' = now + 1
  /\ UNCHANGED <<rows, asked>>

Saves == [by : Reqs, id : Ids \union {NoId}, text : Typed, date : Dates]

\* All that is done other than by itself.
Explicit ==
  \/ \E save \in Saves : Ask(save)
  \/ \E save \in asked : Drop(save) \/ \E id \in Ids : Create(save, id) \/ Save(save, id)
  \/ Elapse

WNext == Explicit \/ \E id \in Ids, text \in Typed : Revise(id, text)

WSpec == WInit /\ [][WNext]_wvars
==============================================================================
