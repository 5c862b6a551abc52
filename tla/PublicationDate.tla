---------------------------- MODULE PublicationDate ----------------------------
(***************************************************************************)
(* The Publication Date of one row as the Author sees and sets it: a field *)
(* of whole minutes of wall clock, in the time zone of the configuration,  *)
(* for an instant that is stored.  Editor takes the field for the date     *)
(* itself; here is what becomes of it on its way to the form and back,     *)
(* over clock changes, several forms and deployments with another zone.    *)
(* A request is one step: its statements are those of Editor.              *)
(*                                                                         *)
(* An instant counts half minutes, which is enough to tell an instant from *)
(* the minute the field shows it as.  Everything on a wall clock counts    *)
(* minutes.                                                                *)
(***************************************************************************)
EXTENDS Integers

CONSTANTS
  Tabs,       \* the forms that may be open together
  Zones,      \* the time zones a deployment may name
  TypedDates, \* the minutes that the Author types
  Empty,      \* the empty field
  Malformed,  \* a value that is not a date
  NoDate,     \* null: a Draft
  MaxNow,     \* where the clock of the model stops
  MaxMoves    \* bound: how often the zone of the deployment is changed

ASSUME DateAssumption ==
  /\ \A z \in Zones : /\ z.before \in Int /\ z.after \in Int /\ z.at \in Int
                      /\ z = [before |-> z.before, after |-> z.after, at |-> z.at]
  /\ TypedDates \subseteq Int
  /\ Empty \notin Int /\ Malformed \notin Int \union {Empty}
  /\ NoDate \notin Int
  /\ MaxNow \in Nat /\ MaxMoves \in Nat

VARIABLES
  now,     \* the clock
  zone,    \* admin.timezone of the running process
  stored,  \* published_at
  form,    \* what the field of each tab holds, and how it came to
  moves    \* how often the zone was changed

vars == <<now, zone, stored, form, moves>>

-------------------------------------------------------------------------------
\* Package time.  A zone goes from one offset to another in one minute, `at';
\* a field is near one change of the clock at most.

OffsetAt(z, minute) == IF minute < z.at THEN z.before ELSE z.after

\* Slip: the date is read as UTC.
ReadAsUTC(z, wall) == 2 * wall

\* time.Date: the offset is looked up as if the wall clock were UTC, and once
\* more for the instant that gives.
Read(z, wall) == 2 * (wall - OffsetAt(z, wall - OffsetAt(z, wall)))

\* Format(editorTimeFormat) of an instant: the seconds are dropped.
Shown(z, instant) == instant \div 2 + OffsetAt(z, instant \div 2)

\* Whether a wall clock shows a minute before the change, and after it.
ShownBefore(z, wall) == wall - z.before < z.at
ShownAfter(z, wall)  == wall - z.after >= z.at
Skipped(z, wall)  == ~ ShownBefore(z, wall) /\ ~ ShownAfter(z, wall)
Repeated(z, wall) == ShownBefore(z, wall) /\ ShownAfter(z, wall)
Change(z) == z.after - z.before

-------------------------------------------------------------------------------
Field == Int \union {Empty, Malformed}
Form ==
  [open  : BOOLEAN,
   value : Field,
   by    : {"shown", "typed", "now"},  \* who filled the field
   from  : Int \union {NoDate},        \* of which date, unless typed
   in    : Zones]                      \* and in which zone

TypeOK ==
  /\ now \in 0..MaxNow
  /\ zone \in Zones
  /\ stored \in Int \union {NoDate}
  /\ form \in [Tabs -> Form]
  /\ moves \in 0..MaxMoves

Init ==
  /\ now = 0
  /\ zone \in Zones
  /\ stored = NoDate /\ moves = 0
  /\ form = [t \in Tabs |->
       [open |-> FALSE, value |-> Empty, by |-> "shown", from |-> NoDate, in |-> zone]]

IsPublished(date) == date # NoDate /\ date <= now

\* Slip: to the nearest minute.
FormOfRounded(date) ==
  [open |-> TRUE, by |-> "shown", from |-> date, in |-> zone,
   value |-> IF date = NoDate THEN Empty ELSE Shown(zone, date + 1)]

\* formOf.
FormOf(date) ==
  [open |-> TRUE, by |-> "shown", from |-> date, in |-> zone,
   value |-> IF date = NoDate THEN Empty ELSE Shown(zone, date)]

\* Slip: an empty field is a date.
ParsedEmpty(value) == IF value = Empty THEN value ELSE Read(zone, value)

\* parsePublishedAt, of what parses.
Parsed(value) == IF value = Empty THEN NoDate ELSE Read(zone, value)

Parses(t) == form[t].open /\ form[t].value # Malformed

-------------------------------------------------------------------------------
\* GET: the editor, or what a save redirects to.
Edit(t) ==
  /\ form' = [form EXCEPT ![t] = FormOf(stored)]
  /\ UNCHANGED <<now, zone, stored, moves>>

Type(t, value) ==
  /\ form[t].open
  /\ form' = [form EXCEPT ![t] =
       [open |-> TRUE, value |-> value, by |-> "typed", from |-> NoDate, in |-> zone]]
  /\ UNCHANGED <<now, zone, stored, moves>>

\* POST: the date of the form is stored with the rest of it.  The form stays
\* until it is redirected, or for good when the answer is lost.
Save(t) ==
  /\ Parses(t)
  /\ stored' = Parsed(form[t].value)
  /\ UNCHANGED <<now, zone, form, moves>>

PublishNow(t) ==
  /\ Parses(t)
  /\ stored' = now
  /\ UNCHANGED <<now, zone, form, moves>>

\* Slip: the field keeps what was sent.
RefusedUnfilled(t) ==
  /\ Parses(t)
  /\ form' = [form EXCEPT ![t] = [@ EXCEPT !.by = "now", !.from = now, !.in = zone]]
  /\ UNCHANGED <<now, zone, stored, moves>>

\* Publish now, refused for another field: the field comes back with the present
\* date.  Any other save that is refused comes back with what was sent.
RefusePublishNow(t) ==
  /\ Parses(t)
  /\ form' = [form EXCEPT ![t] =
       [open |-> TRUE, value |-> Shown(zone, now), by |-> "now", from |-> now, in |-> zone]]
  /\ UNCHANGED <<now, zone, stored, moves>>

\* Another process, with another admin.timezone.
Redeploy(z) ==
  /\ z # zone /\ zone' = z
  /\ moves < MaxMoves /\ moves' = moves + 1
  /\ UNCHANGED <<now, stored, form>>

Tick ==
  /\ now < MaxNow /\ now' = now + 1
  /\ UNCHANGED <<zone, stored, form, moves>>

Next ==
  \/ \E t \in Tabs :
       \/ Edit(t) \/ Save(t) \/ PublishNow(t) \/ RefusePublishNow(t)
       \/ \E value \in TypedDates \union {Empty, Malformed} : Type(t, value)
  \/ \E z \in Zones : Redeploy(z)
  \/ Tick

Spec == Init /\ [][Next]_vars

-------------------------------------------------------------------------------
(***************************************************************************)
(* Properties.                                                             *)
(***************************************************************************)

\* A form that holds what `stored' is now shown as: drawn of it, in the zone of
\* the running process, and not typed over.
Untouched(t) ==
  /\ Parses(t) /\ form[t].by = "shown"
  /\ form[t].from = stored /\ form[t].in = zone

\* "Times are read and shown in admin.timezone" (README.md): whatever the form
\* went through, the editor that is opened after a save shows what that form
\* held.  Only a minute that the clock skips is shown as another, as far off as
\* the clock was changed.
ShownAsSaved ==
  [][\A t \in Tabs : Save(t) =>
       LET saved == form[t].value
           shown == FormOf(stored)'.value
       IN  \/ shown = saved
           \/ /\ saved # Empty /\ Skipped(zone, saved)
              /\ shown \in {saved - Change(zone), saved + Change(zone)}]_vars

\* Saving a form for its text leaves the Publication Date alone, and neither
\* publishes nor takes back: Publish now's seconds are dropped, and in an hour
\* that comes twice the date may go to the other one.  So it is a form that was
\* overtaken, or was drawn in another zone, that moves the date.
ResaveKeepsDate ==
  [][\A t \in Tabs : Save(t) /\ Untouched(t) =>
       \/ stored = NoDate /\ stored' = NoDate
       \/ /\ stored # NoDate /\ stored' \in (stored - 1)..stored
          /\ IsPublished(stored') <=> IsPublished(stored)
       \/ /\ stored # NoDate /\ Repeated(zone, form[t].value)
          /\ \E d \in {Change(zone), - Change(zone)} :
               stored' \in (stored - 1 + 2 * d)..(stored + 2 * d)]_vars

\* A Publish now that was refused, for the slug say, and is then saved as it came
\* back, whenever that is, still publishes at once.
RefusedStillPublishes ==
  [][\A t \in Tabs :
       Save(t) /\ form[t].by = "now" /\ form[t].in = zone =>
         \/ IsPublished(stored')
         \/ form[t].value # Empty /\ Repeated(zone, form[t].value)]_vars
===============================================================================
