-------------------------------- MODULE Editor --------------------------------
(***************************************************************************)
(* internal/admin/writing.go for one kind of writing, with the browser     *)
(* tabs that drive it and the table it writes.  Every request runs in a    *)
(* goroutine of its own and touches the database in separate autocommit    *)
(* statements, so each statement is an action here: between an autosave's  *)
(* reads and its UPDATE anything else may commit.                          *)
(*                                                                         *)
(* `form' and `req' are the program's: what a tab shows and what a         *)
(* goroutine holds.  `saved', `overtaken' and `checkedAt' only record      *)
(* history, for the properties; no action reads them.                      *)
(*                                                                         *)
(* A definition introduced as a slip is not part of the model: it is a     *)
(* mistake the definition after it could have had, and a property must     *)
(* tell the two apart.                                                     *)
(***************************************************************************)
EXTENDS Content

CONSTANTS
  Tabs,        \* the Author's browser tabs
  NoTab,       \* the element that waited for this reply is gone
  Reqs,        \* goroutines: how many requests may be in flight together
  Typed,       \* the texts the Author types
  NoText,      \* a request that carries no text
  TypedDates,  \* what the Author leaves in the Publication Date field
  Malformed,   \* a value of that field which does not parse
  MaxNow       \* where the clock of the model stops

ASSUME EditorAssumption ==
  /\ Typed \subseteq Text
  /\ NoTab \notin Tabs
  /\ TypedDates \subseteq Date \union {Malformed}
  /\ Malformed \notin Date
  /\ MaxNow \in Nat

VARIABLES
  rows,       \* the table, by ID
  now,        \* the clock the server and the database share
  form,       \* what each tab shows
  req,        \* the requests in flight
  saved,      \* by ID, every date an explicit save has stored
  overtaken,  \* how far an autosave was when its row was last written over
  checkedAt   \* when an autosave found its row to be unpublished

vars == <<rows, now, form, req, saved, overtaken, checkedAt>>

SavePcs  == {"saving", "redirected", "rejected"}
RunPcs   == {"loading", "checking", "rereading", "storing"}
AutoPcs  == RunPcs \union {"marked"}

Form == [open : BOOLEAN, id : Ids \union {NoId}, asks : BOOLEAN]
NoForm == [open |-> FALSE, id |-> NoId, asks |-> FALSE]

Request ==
  [pc   : SavePcs \union AutoPcs \union {"idle"},
   tab  : Tabs \union {NoTab},
   id   : Ids \union {NoId},
   text : Text \union {NoText},
   date : Date \union {Malformed},  \* as submitted
   seen : Date,                     \* as last read from the row
   asks : BOOLEAN]                  \* view.Form.Autosave of the answer
Idle ==
  [pc |-> "idle", tab |-> NoTab, id |-> NoId, text |-> NoText,
   date |-> NoDate, seen |-> NoDate, asks |-> FALSE]

TypeOK ==
  /\ rows \in [Ids -> Row \union {NoRow}]
  /\ now \in 0..MaxNow
  /\ form \in [Tabs -> Form]
  /\ req \in [Reqs -> Request]
  /\ saved \in [Ids -> SUBSET Date]
  /\ overtaken \in [Reqs -> RunPcs \union {"no"}]
  /\ checkedAt \in [Reqs -> 0..MaxNow]

Init ==
  /\ rows = [id \in Ids |-> NoRow]
  /\ now = 0
  /\ form = [t \in Tabs |-> NoForm]
  /\ req = [r \in Reqs |-> Idle]
  /\ saved = [id \in Ids |-> {}]
  /\ overtaken = [r \in Reqs |-> "no"]
  /\ checkedAt = [r \in Reqs |-> 0]

-------------------------------------------------------------------------------
\* Helpers.

\* Autosave is on for what is not public yet.
Asks(date) == ~ IsPublished(date, now)

\* htmx drops the answer to a request whose element has left the page.
Detached(pcs, t) ==
  [q \in Reqs |-> IF req[q].tab = t /\ req[q].pc \in pcs
                    THEN [req[q] EXCEPT !.tab = NoTab] ELSE req[q]]

\* One element has one request in flight.
Waiting(t, pcs) == \E q \in Reqs : req[q].tab = t /\ req[q].pc \in pcs

\* Request r has written row id: note it against every autosave of that row.
\* What was noted against r itself is of no more use.
Overtake(r, id) ==
  [q \in Reqs |-> IF q = r THEN "no"
                  ELSE IF req[q].pc \in RunPcs /\ req[q].id = id
                    THEN req[q].pc ELSE overtaken[q]]
Forget(r) ==
  /\ overtaken' = [overtaken EXCEPT ![r] = "no"]
  /\ checkedAt' = [checkedAt EXCEPT ![r] = 0]

\* Request r goes on as `next'.
Goes(r, next) == req' = [req EXCEPT ![r] = next]

\* The answer to request r: what its tab is to make of it.
Answer(r, pc, id, asks) ==
  [Idle EXCEPT !.pc = pc, !.tab = req[r].tab, !.id = id, !.asks = asks]

history == <<saved, overtaken, checkedAt>>
-------------------------------------------------------------------------------
\* Screens.

\* GET /new: a form for writing that has no row.
Blank(t) ==
  /\ form' = [form EXCEPT ![t] = [open |-> TRUE, id |-> NoId, asks |-> FALSE]]
  /\ req' = Detached(SavePcs \union AutoPcs, t)
  /\ UNCHANGED <<rows, now, history>>

\* GET /{id}/edit: the stored row, as the form that edits it.
EditForm(id) == [open |-> TRUE, id |-> id, asks |-> Asks(rows[id].date)]

Edit(t, id) ==
  /\ id \in Existing(rows)
  /\ form' = [form EXCEPT ![t] = EditForm(id)]
  /\ req' = Detached(SavePcs \union AutoPcs, t)
  /\ UNCHANGED <<rows, now, history>>

\* The Author closes the tab or goes elsewhere; so does a tab whose session
\* has lapsed, which the 401 and its HX-Redirect send to the login screen.
Leave(t) ==
  /\ form[t].open
  /\ form' = [form EXCEPT ![t] = NoForm]
  /\ req' = Detached(SavePcs \union AutoPcs, t)
  /\ UNCHANGED <<rows, now, history>>

-------------------------------------------------------------------------------
\* save: the explicit one, for a new row and for an existing one.

CanSubmit(r, t) ==
  /\ req[r] = Idle
  /\ form[t].open
  /\ ~ Waiting(t, SavePcs)

\* Slip: the error of submitted is dropped and the save goes on.
SubmitUnparsed(r, t) ==
  /\ CanSubmit(r, t)
  /\ \E text \in Typed :
       Goes(r, [Idle EXCEPT !.pc = "saving", !.tab = t, !.id = form[t].id,
                            !.text = text, !.date = Malformed])
  /\ UNCHANGED <<rows, now, form, history>>

\* A date that does not parse is answered 422 before anything is read or
\* written.  submitted returns before it has decided about autosave.
SubmitMalformed(r, t) ==
  /\ CanSubmit(r, t)
  /\ Malformed \in TypedDates
  /\ Goes(r, [Idle EXCEPT !.pc = "rejected", !.tab = t, !.id = form[t].id])
  /\ UNCHANGED <<rows, now, form, history>>

\* The Save and Publish now buttons.  The answer's autosave flag follows the
\* date that was typed; Publish now replaces that date only in the record.
Submitted(t, text, typed, button) ==
  [Idle EXCEPT !.pc = "saving", !.tab = t, !.id = form[t].id, !.text = text,
               !.date = IF button = "publish_now" THEN now ELSE typed,
               !.asks = Asks(typed)]

Submit(r, t, text, typed, button) ==
  /\ CanSubmit(r, t)
  /\ Goes(r, Submitted(t, text, typed, button))
  /\ UNCHANGED <<rows, now, form, history>>

\* The write was refused by a constraint: 422, the form as it was typed.
SaveRejected(r) ==
  /\ req[r].pc = "saving"
  /\ Refused(rows, req[r].id, req[r].text)
  /\ Goes(r, Answer(r, "rejected", req[r].id, req[r].asks))
  /\ UNCHANGED <<rows, now, form, history>>

SaveStores(r, id) ==
  /\ req[r].pc = "saving"
  /\ ~ Refused(rows, req[r].id, req[r].text)
  /\ rows' = [rows EXCEPT
                ![id] = Updated(NoDate, req[r].text, req[r].date, TRUE)]
  /\ saved' = [saved EXCEPT ![id] = @ \union {req[r].date}]
  /\ overtaken' = Overtake(r, id)
  /\ Goes(r, Answer(r, "redirected", id, FALSE))
  /\ UNCHANGED <<now, form, checkedAt>>

\* INSERT with a fresh UUID.
SaveCreates(r, id) ==
  /\ req[r].id = NoId
  /\ id \notin Existing(rows)
  /\ SaveStores(r, id)

\* Slip: an update is of a fresh record, and the date is left out of it.
SaveUpdatesDateless(r, id) ==
  /\ req[r].pc = "saving" /\ req[r].id = id
  /\ ~ Refused(rows, id, req[r].text)
  /\ rows' = [rows EXCEPT
                ![id] = Updated(NoDate, req[r].text, req[r].date, FALSE)]
  /\ overtaken' = Overtake(r, id)
  /\ Goes(r, Answer(r, "redirected", id, FALSE))
  /\ UNCHANGED <<now, form, saved, checkedAt>>

\* SELECT, then UPDATE of every column.  Nothing the SELECT returns is kept,
\* and no row is ever deleted, so that it finds one is all it contributes.
SaveUpdates(r, id) ==
  /\ req[r].id = id
  /\ SaveStores(r, id)

\* 204 with HX-Redirect, or 303: the tab goes to the editor of the row.
DeliverRedirect(r) ==
  /\ req[r].pc = "redirected"
  /\ req[r].tab # NoTab
  /\ form' = [form EXCEPT ![req[r].tab] = EditForm(req[r].id)]
  /\ req' = [Detached(AutoPcs, req[r].tab) EXCEPT ![r] = Idle]
  /\ UNCHANGED <<rows, now, history>>

\* Slip: the template shows the autosave element to writing with no row.
DeliverRejectionToNew(r) ==
  /\ req[r].pc = "rejected"
  /\ req[r].tab # NoTab
  /\ form' = [form EXCEPT ![req[r].tab] =
                [open |-> TRUE, id |-> req[r].id, asks |-> req[r].asks]]
  /\ req' = [Detached(AutoPcs, req[r].tab) EXCEPT ![r] = Idle]
  /\ UNCHANGED <<rows, now, history>>

\* 422 is swapped in, and the autosave element with it.  Writing with no row
\* never asks, whatever the flag says.
DeliverRejection(r) ==
  /\ req[r].pc = "rejected"
  /\ req[r].tab # NoTab
  /\ form' = [form EXCEPT ![req[r].tab] =
                [open |-> TRUE, id |-> req[r].id,
                 asks |-> req[r].asks /\ req[r].id # NoId]]
  /\ req' = [Detached(AutoPcs, req[r].tab) EXCEPT ![r] = Idle]
  /\ UNCHANGED <<rows, now, history>>

-------------------------------------------------------------------------------
\* autosave: every fifteen seconds from a form that asks.  The whole form is
\* sent (hx-include), the typed date too.

AutoFire(r, t, text, typed) ==
  /\ req[r] = Idle
  /\ form[t].open /\ form[t].asks
  /\ ~ Waiting(t, AutoPcs)
  /\ Goes(r, [Idle EXCEPT !.pc = "loading", !.tab = t, !.id = form[t].id,
                          !.text = text, !.date = typed])
  /\ UNCHANGED <<rows, now, form, history>>

AutoLoad(r) ==
  /\ req[r].pc = "loading"
  /\ Goes(r, [req[r] EXCEPT !.pc = "checking", !.seen = rows[req[r].id].date])
  /\ UNCHANGED <<rows, now, form, history>>

\* Slip: the refusal carries the trigger of the other markers.
AutoRefusedAskingOn(r) ==
  /\ req[r].pc = "checking"
  /\ IsPublished(req[r].seen, now)
  /\ Goes(r, Answer(r, "marked", req[r].id, TRUE))
  /\ Forget(r)
  /\ UNCHANGED <<rows, now, form, saved>>

\* Published: refused with a marker that does not ask again.
AutoRefused(r) ==
  /\ req[r].pc = "checking"
  /\ IsPublished(req[r].seen, now)
  /\ Goes(r, Answer(r, "marked", req[r].id, FALSE))
  /\ Forget(r)
  /\ UNCHANGED <<rows, now, form, saved>>

\* Slip: any writing is autosaved.
AutoAllowedAnyway(r) ==
  /\ req[r].pc = "checking"
  /\ Goes(r, [req[r] EXCEPT !.pc = "rereading"])
  /\ checkedAt' = [checkedAt EXCEPT ![r] = now]
  /\ UNCHANGED <<rows, now, form, saved, overtaken>>

AutoAllowed(r) ==
  /\ req[r].pc = "checking"
  /\ ~ IsPublished(req[r].seen, now)
  /\ Goes(r, [req[r] EXCEPT !.pc = "rereading"])
  /\ checkedAt' = [checkedAt EXCEPT ![r] = now]
  /\ UNCHANGED <<rows, now, form, saved, overtaken>>

\* Slip: update writes back the record autosave has already loaded.
AutoKeepsRead(r) ==
  /\ req[r].pc = "rereading"
  /\ Goes(r, [req[r] EXCEPT !.pc = "storing"])
  /\ UNCHANGED <<rows, now, form, history>>

\* resource.update reads the row again ...
AutoReread(r) ==
  /\ req[r].pc = "rereading"
  /\ Goes(r, [req[r] EXCEPT !.pc = "storing", !.seen = rows[req[r].id].date])
  /\ UNCHANGED <<rows, now, form, history>>

\* Slip: update is called with withDate.
AutoStoresTyped(r) ==
  /\ req[r].pc = "storing"
  /\ ~ Refused(rows, req[r].id, req[r].text)
  /\ rows' = [rows EXCEPT ![req[r].id] =
                Updated(req[r].seen, req[r].text, req[r].date, TRUE)]
  /\ overtaken' = Overtake(r, req[r].id)
  /\ checkedAt' = [checkedAt EXCEPT ![r] = 0]
  /\ Goes(r, Answer(r, "marked", req[r].id, TRUE))
  /\ UNCHANGED <<now, form, saved>>

\* ... and writes every column back, the date it has just read among them.
AutoStores(r) ==
  /\ req[r].pc = "storing"
  /\ ~ Refused(rows, req[r].id, req[r].text)
  /\ rows' = [rows EXCEPT ![req[r].id] =
                Updated(req[r].seen, req[r].text, req[r].date, FALSE)]
  /\ overtaken' = Overtake(r, req[r].id)
  /\ checkedAt' = [checkedAt EXCEPT ![r] = 0]
  /\ Goes(r, Answer(r, "marked", req[r].id, TRUE))
  /\ UNCHANGED <<now, form, saved>>

\* Slip: a refused autosave is answered 500, which htmx does not swap.
AutoNotSavedSilently(r) ==
  /\ req[r].pc = "storing"
  /\ Refused(rows, req[r].id, req[r].text)
  /\ Goes(r, Idle)
  /\ Forget(r)
  /\ UNCHANGED <<rows, now, form, saved>>

\* Slip: its marker, like that of a refusal, carries no trigger.
AutoNotSavedForGood(r) ==
  /\ req[r].pc = "storing"
  /\ Refused(rows, req[r].id, req[r].text)
  /\ Goes(r, Answer(r, "marked", req[r].id, FALSE))
  /\ Forget(r)
  /\ UNCHANGED <<rows, now, form, saved>>

\* NotSavedMarker: nothing is written, and the form keeps asking.
AutoNotSaved(r) ==
  /\ req[r].pc = "storing"
  /\ Refused(rows, req[r].id, req[r].text)
  /\ Goes(r, Answer(r, "marked", req[r].id, TRUE))
  /\ Forget(r)
  /\ UNCHANGED <<rows, now, form, saved>>

\* The marker replaces the one that asked.
DeliverMarker(r) ==
  /\ req[r].pc = "marked"
  /\ req[r].tab # NoTab
  /\ form' = [form EXCEPT ![req[r].tab].asks = req[r].asks]
  /\ Goes(r, Idle)
  /\ UNCHANGED <<rows, now, history>>

-------------------------------------------------------------------------------
\* 500, a connection cut before or after the write, an answer nobody waits
\* for: the request ends, and the page is as it was (htmx does not swap it).
Fail(r) ==
  /\ req[r].pc # "idle"
  /\ Goes(r, Idle)
  /\ Forget(r)
  /\ UNCHANGED <<rows, now, form, saved>>

Tick ==
  /\ now < MaxNow
  /\ now' = now + 1
  /\ UNCHANGED <<rows, form, req, history>>

Screen(t) == Blank(t) \/ Leave(t) \/ \E id \in Ids : Edit(t, id)

Press(r, t) ==
  \/ SubmitMalformed(r, t)
  \/ \E text \in Typed, typed \in TypedDates \ {Malformed},
        button \in {"save", "publish_now"} : Submit(r, t, text, typed, button)

Timer(r, t) ==
  \E text \in Typed, typed \in TypedDates : AutoFire(r, t, text, typed)

Serve(r) ==
  \/ SaveRejected(r)
  \/ \E id \in Ids : SaveCreates(r, id) \/ SaveUpdates(r, id)
  \/ AutoLoad(r) \/ AutoRefused(r) \/ AutoAllowed(r) \/ AutoReread(r)
  \/ AutoStores(r) \/ AutoNotSaved(r)

Deliver(r) == DeliverRedirect(r) \/ DeliverRejection(r) \/ DeliverMarker(r)

Next ==
  \/ \E t \in Tabs : Screen(t)
  \/ \E r \in Reqs, t \in Tabs : Press(r, t) \/ Timer(r, t)
  \/ \E r \in Reqs : Serve(r) \/ Deliver(r) \/ Fail(r)
  \/ Tick

Spec == Init /\ [][Next]_vars

-------------------------------------------------------------------------------
(***************************************************************************)
(* Properties.                                                             *)
(***************************************************************************)

\* However the creates, saves and autosaves of several tabs interleave, and
\* whichever of them is repeated because its answer was lost, no slug is ever
\* answered by two rows and no row breaks the schema.
SchemaHolds == RowsSound(rows)

\* A form asks to be autosaved, and a request writes, only against a row that
\* exists: a rejected or repeated first save gives its form no ID to ask with.
AutosaveHasARow ==
  /\ \A t \in Tabs : form[t].asks => form[t].id \in Existing(rows)
  /\ \A r \in Reqs : req[r].pc \in RunPcs => req[r].id \in Existing(rows)

\* The Publication Date of every row is one an explicit save stored there: no
\* typed date becomes live because fifteen seconds passed.
OnlySavedDates == \A id \in Existing(rows) : rows[id].date \in saved[id]

\* Autosave r has just written its row.
Stored(r) == /\ req[r].pc = "storing" /\ ~ Refused(rows, req[r].id, req[r].text)
             /\ req'[r].pc = "marked"

\* An autosave moves the Publication Date only when another request wrote the
\* row between its second read and its UPDATE.
AutosaveMovesDateOnlyIfOvertaken ==
  [][\A r \in Reqs : Stored(r) /\ overtaken[r] # "storing"
       => rows'[req[r].id].date = rows[req[r].id].date]_vars

\* An autosave that nobody overtook after its first read writes only to
\* writing that was not public when it was checked.
AutosaveSparesPublishedUnlessOvertaken ==
  [][\A r \in Reqs : Stored(r) /\ overtaken[r] \in {"no", "loading"}
       => ~ IsPublished(rows[req[r].id].date, checkedAt[r])]_vars

\* Some explicit save gave the row a date that has arrived.
WasPublished(id) == \E date \in saved[id] : IsPublished(date, now)

\* A refused save comes back to tab t.
ComesBack(t) ==
  \E r \in Reqs : req[r].pc = "rejected" /\ req[r].tab = t /\ req'[r].pc = "idle"

\* A form that autosaves stops for writing that an explicit save has published,
\* or when a refused save replaces it, and for nothing else: not for what could
\* not be stored, nor for a date typed, sent and lost, nor for another row.
OnlyPublishingStopsAutosave ==
  [][\A t \in Tabs :
       /\ form[t].asks /\ form'[t].open /\ form'[t].id = form[t].id
       /\ ~ form'[t].asks /\ ~ ComesBack(t)
       => WasPublished(form[t].id)]_vars

-------------------------------------------------------------------------------
(***************************************************************************)
(* What the abstract specifications say: Writing, which is kept as far as  *)
(* autosaves are left alone, and Drafting, which is kept throughout.       *)
(***************************************************************************)

ChosenDates == (TypedDates \ {Malformed}) \union (0..MaxNow)

\* The explicit saves that were sent and have not been decided.
Sent(r)  == [by |-> r, id |-> req[r].id, text |-> req[r].text, date |-> req[r].date]
AllSent  == {Sent(r) : r \in {q \in Reqs : req[q].pc = "saving"}}

W == INSTANCE Writing WITH Dates <- ChosenDates, asked <- AllSent

\* An autosave that writes: no other writer came between its second read and
\* its UPDATE, and the row is unpublished still.  The code does nothing to
\* bring this about.
Isolated ==
  \A r \in Reqs : Stored(r) =>
    /\ overtaken[r] # "storing"
    /\ ~ IsPublished(rows[req[r].id].date, now)

\* Whatever has happened before, a step in which no autosave is disturbed is
\* one that Writing allows: all interleavings of saves, failures, lost answers
\* and reads are, and every autosave that is isolated.
ImplementsWriting ==
  W!WInit /\ [][Isolated => [W!WNext]_(W!wvars)]_vars

\* So with autosaves isolated the editor is the one that Writing describes.
IsolatedSpec == Init /\ [][Next /\ Isolated]_vars
WritingSpec  == W!WSpec

\* The autosaves that have looked at their row.  The first of the two looks
\* decides whether they may write, the second which date they put back.
Looked(r) ==
  [by |-> r, id |-> req[r].id, text |-> req[r].text, date |-> req[r].seen,
   stage |-> IF req[r].pc = "checking" THEN "seen" ELSE "admitted"]
LatePcs   == {"checking", "rereading", "storing"}
AllLooked == {Looked(r) : r \in {q \in Reqs : req[q].pc \in LatePcs}}

D == INSTANCE Drafting WITH Dates <- ChosenDates, asked <- AllSent,
                            drafts <- AllLooked

\* Every step, with no autosave left out, is one that Drafting allows.  So this
\* is the most that races, lost answers, detached forms and other tabs do: an
\* autosave that was let through on the date it saw may write over what has
\* become public meanwhile, and put back the date of its second look, but no
\* other date, to no other row, with no text it was not sent.
ImplementsDrafting == D!DSpec

-------------------------------------------------------------------------------
(***************************************************************************)
(* Liveness.  The timer of a form that asks fires again and again, and the *)
(* store and the network do not fail every autosave: each step that keeps  *)
(* becoming possible is taken in the end.  A request never hangs: it is    *)
(* served on or fails.  Nothing makes the Author act.                      *)
(***************************************************************************)
OwnAuto(t, Step(_)) == \E r \in Reqs : req[r].tab = t /\ Step(r)
AutoChecks(r)   == AutoRefused(r) \/ AutoAllowed(r)
AutoWrites(r)   == AutoStores(r) \/ AutoNotSaved(r)

FairSpec ==
  /\ Spec
  /\ \A r \in Reqs : WF_vars(Serve(r) \/ Deliver(r) \/ Fail(r))
  /\ \A t \in Tabs :
       /\ SF_vars(\E r \in Reqs : Timer(r, t))
       /\ SF_vars(OwnAuto(t, AutoLoad))   /\ SF_vars(OwnAuto(t, AutoChecks))
       /\ SF_vars(OwnAuto(t, AutoReread)) /\ SF_vars(OwnAuto(t, AutoWrites))
       /\ SF_vars(OwnAuto(t, DeliverMarker))

AskingAboutPublished(t) ==
  form[t].asks /\ IsPublished(rows[form[t].id].date, now)

\* A form the Author leaves alone does not go on asking to autosave published
\* writing: the refusal takes the trigger away, also when the writing was
\* published from another tab or by the arrival of its date.
StopsAsking ==
  \A t \in Tabs :
    []<> (~ AskingAboutPublished(t) \/ Waiting(t, SavePcs))

\* A form that goes on asking goes on hearing back, also when what was typed
\* cannot be stored.
AskingHearsBack ==
  \A t \in Tabs :
    []<> (~ form[t].asks \/ Waiting(t, SavePcs) \/ Waiting(t, {"marked"}))

-------------------------------------------------------------------------------
(***************************************************************************)
(* What the documentation says and the code does not keep.                 *)
(***************************************************************************)

\* writing.go: autosave "never writes the Publication Date, even for a Draft".
\* Between its second read and its UPDATE an explicit save may change the
\* date, which the UPDATE then puts back.
AutosaveNeverWritesTheDate ==
  [][\A r \in Reqs : Stored(r)
       => rows'[req[r].id].date = rows[req[r].id].date]_vars

\* CONTEXT.md: "A Draft is saved continuously as it is written".  The form a
\* refused save comes back as takes its word for what is a Draft from the
\* date that was typed, not from the row, so it can stop asking for a Draft.
RejectedDraftStillSavesItself ==
  [][\A r \in Reqs, t \in Tabs :
       /\ req[r].pc = "rejected" /\ req[r].tab = t /\ req[r].id # NoId
       /\ rows[req[r].id].date = NoDate
       /\ form[t].asks /\ req'[r].pc = "idle" /\ form'[t].open
       => form'[t].asks]_vars
=============================================================================
