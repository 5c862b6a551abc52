----------------------------- MODULE EditorProofs -----------------------------
(***************************************************************************)
(* Theorems about Editor, for every set of tabs, requests, texts and dates *)
(* and every bound of the clock.                                           *)
(***************************************************************************)
EXTENDS Editor, TLAPS

(***************************************************************************)
(* Type correctness.  Every value a request carries comes from the         *)
(* constants or from a row, and a row is only read by a request that names *)
(* one that exists, so the type invariant needs what follows beside it.    *)
(***************************************************************************)

\* A form names an existing row or none, and asks only for one.
FormOK(f, table) ==
  /\ f \in Form
  /\ f.id \in Existing(table) \union {NoId}
  /\ f.asks => f.id # NoId

\* So does a request; past parsing it holds a typed text, and a save a date
\* the Author chose.
ReqOK(q, table) ==
  /\ q \in Request
  /\ q.id \in Existing(table) \union {NoId}
  /\ q.pc \in AutoPcs \union {"redirected"} => q.id # NoId
  /\ q.pc \in RunPcs \union {"saving"} => q.text \in Typed
  /\ q.pc = "saving" => q.date \in ChosenDates

\* While an element waits for an autosave, its form is the one that sent it.
AttachedOK(q, forms) ==
  q.pc \in AutoPcs /\ q.tab \in Tabs => forms[q.tab].id = q.id

HistoryOK ==
  /\ saved \in [Ids -> SUBSET Date]
  /\ overtaken \in [Reqs -> RunPcs \union {"no"}]
  /\ checkedAt \in [Reqs -> 0..MaxNow]

Core ==
  /\ rows \in [Ids -> Row \union {NoRow}]
  /\ now \in 0..MaxNow
  /\ form \in [Tabs -> Form]
  /\ \A t \in Tabs : FormOK(form[t], rows)
  /\ req \in [Reqs -> Request]
  /\ \A r \in Reqs : ReqOK(req[r], rows) /\ AttachedOK(req[r], form)
  /\ HistoryOK

-------------------------------------------------------------------------------
(***************************************************************************)
(* Lemmas about the helpers.                                               *)
(***************************************************************************)

\* Detaching changes which element waits for a request and nothing else.
LEMMA DetachedFields ==
  ASSUME req \in [Reqs -> Request], NEW pcs, NEW t, NEW q \in Reqs
  PROVE  /\ Detached(pcs, t) \in [Reqs -> Request]
         /\ Detached(pcs, t)[q].pc = req[q].pc
         /\ Detached(pcs, t)[q].id = req[q].id
         /\ Detached(pcs, t)[q].text = req[q].text
         /\ Detached(pcs, t)[q].date = req[q].date
         /\ Detached(pcs, t)[q].seen = req[q].seen
         /\ Detached(pcs, t)[q].asks = req[q].asks
  BY DEF Detached, Request

LEMMA DetachedOK ==
  ASSUME req \in [Reqs -> Request], \A r \in Reqs : ReqOK(req[r], rows),
         NEW pcs, NEW t
  PROVE  /\ Detached(pcs, t) \in [Reqs -> Request]
         /\ \A r \in Reqs : ReqOK(Detached(pcs, t)[r], rows)
  <1>1. Detached(pcs, t) \in [Reqs -> Request]
    BY DEF Detached, Request
  <1>2. ASSUME NEW r \in Reqs
        PROVE  ReqOK(Detached(pcs, t)[r], rows)
    <2>1. ReqOK(req[r], rows)
      OBVIOUS
    <2>2. Detached(pcs, t)[r] \in Request
      BY <1>1
    <2>3. QED
      BY <2>1, <2>2, DetachedFields DEF ReqOK
  <1>3. QED
    BY <1>1, <1>2

\* A form is replaced only together with the requests that wait in it.
LEMMA DetachedAttached ==
  ASSUME req \in [Reqs -> Request], form \in [Tabs -> Form],
         \A r \in Reqs : AttachedOK(req[r], form),
         NEW pcs, AutoPcs \subseteq pcs, NEW t \in Tabs, NEW f,
         NEW r \in Reqs
  PROVE  AttachedOK(Detached(pcs, t)[r], [form EXCEPT ![t] = f])
  <1> DEFINE d == Detached(pcs, t)[r]
  <1>1. d.pc = req[r].pc /\ d.id = req[r].id
    BY DetachedFields
  <1>2. CASE req[r].tab = t /\ req[r].pc \in pcs
    <2>1. d.tab = NoTab
      BY <1>2 DEF Detached, Request
    <2>2. QED
      BY <2>1, EditorAssumption DEF AttachedOK
  <1>3. CASE ~ (req[r].tab = t /\ req[r].pc \in pcs)
    <2>1. d = req[r]
      BY <1>3 DEF Detached
    <2>2. QED
      BY <1>3, <2>1 DEF AttachedOK
  <1>4. QED
    BY <1>2, <1>3

LEMMA ChosenDatesAreDates == ChosenDates \subseteq Date /\ Typed \subseteq Text
  <1>1. TypedDates \ {Malformed} \subseteq Date
    BY EditorAssumption
  <1>2. 0..MaxNow \subseteq Date
    BY EditorAssumption DEF Date
  <1>3. QED
    BY <1>1, <1>2, EditorAssumption DEF ChosenDates

LEMMA IdleOK == Idle \in Request /\ ReqOK(Idle, rows)
  BY ContentAssumption DEF Idle, Request, Date, ReqOK, AutoPcs, RunPcs

LEMMA NoFormOK == NoForm \in Form /\ FormOK(NoForm, rows)
  BY ContentAssumption DEF NoForm, Form, FormOK

LEMMA IdleLate == Idle.pc = "idle"
  BY DEF Idle

\* The editor's form of a row.
LEMMA EditFormOK ==
  ASSUME NEW id \in Existing(rows)
  PROVE  EditForm(id) \in Form /\ FormOK(EditForm(id), rows)
  BY ContentAssumption DEF EditForm, Form, FormOK, Asks, IsPublished, Existing

LEMMA AnswerOK ==
  ASSUME req \in [Reqs -> Request], NEW r \in Reqs,
         NEW pc \in {"redirected", "rejected", "marked"},
         NEW id \in Existing(rows) \union {NoId},
         pc # "rejected" => id # NoId,
         NEW asks \in BOOLEAN
  PROVE  Answer(r, pc, id, asks) \in Request /\ ReqOK(Answer(r, pc, id, asks), rows)
  BY ContentAssumption
     DEF Answer, Idle, Request, ReqOK, SavePcs, AutoPcs, RunPcs, Date, Existing

LEMMA OvertakeType ==
  ASSUME overtaken \in [Reqs -> RunPcs \union {"no"}], NEW r \in Reqs, NEW id
  PROVE  Overtake(r, id) \in [Reqs -> RunPcs \union {"no"}]
  BY DEF Overtake

LEMMA GoesOK ==
  ASSUME req \in [Reqs -> Request], \A q \in Reqs : ReqOK(req[q], rows),
         NEW r \in Reqs, NEW next, next \in Request, ReqOK(next, rows),
         Goes(r, next)
  PROVE  /\ req' \in [Reqs -> Request]
         /\ \A q \in Reqs : ReqOK(req'[q], rows)
  BY DEF Goes

\* Rows are only ever added.
LEMMA GrownOK ==
  ASSUME NEW table, Existing(rows) \subseteq Existing(table)
  PROVE  /\ \A f : FormOK(f, rows) => FormOK(f, table)
         /\ \A q : ReqOK(q, rows) => ReqOK(q, table)
  BY DEF FormOK, ReqOK

-------------------------------------------------------------------------------
(***************************************************************************)
(* Each action keeps Core.                                                 *)
(***************************************************************************)

LEMMA ScreenCore ==
  ASSUME Core, NEW t \in Tabs, Screen(t)
  PROVE  Core'
  <1>1. PICK f \in Form :
          /\ FormOK(f, rows)
          /\ form' = [form EXCEPT ![t] = f]
          /\ req' = Detached(SavePcs \union AutoPcs, t)
          /\ UNCHANGED <<rows, now, history>>
    <2>1. CASE Blank(t)
      <3> DEFINE f == [open |-> TRUE, id |-> NoId, asks |-> FALSE]
      <3>1. f \in Form /\ FormOK(f, rows)
        BY ContentAssumption DEF Form, FormOK
      <3>2. QED
        BY <2>1, <3>1 DEF Blank
    <2>2. CASE Leave(t)
      BY <2>2, NoFormOK DEF Leave
    <2>3. ASSUME NEW id \in Ids, Edit(t, id)
          PROVE  EditForm(id) \in Form /\ FormOK(EditForm(id), rows)
      BY <2>3, EditFormOK DEF Edit
    <2>4. QED
      BY <2>1, <2>2, <2>3 DEF Screen, Edit
  <1>2. req' \in [Reqs -> Request] /\ \A r \in Reqs : ReqOK(req'[r], rows)
    BY <1>1, DetachedOK DEF Core
  <1>3. form' \in [Tabs -> Form] /\ \A s \in Tabs : FormOK(form'[s], rows)
    BY <1>1 DEF Core
  <1>4. \A r \in Reqs : AttachedOK(req'[r], form')
    BY <1>1, DetachedAttached DEF Core
  <1>5. HistoryOK'
    BY <1>1 DEF Core, HistoryOK, history
  <1>6. QED
    BY <1>1, <1>2, <1>3, <1>4, <1>5 DEF Core

\* Leaving everything but one request alone.
LEMMA OneRequestCore ==
  ASSUME Core, NEW r \in Reqs, NEW next, next \in Request, ReqOK(next, rows),
         AttachedOK(next, form),
         Goes(r, next), UNCHANGED <<rows, now, form>>, HistoryOK'
  PROVE  Core'
  <1>1. \A q \in Reqs : AttachedOK(req'[q], form')
    BY DEF Core, Goes
  <1>2. QED
    BY <1>1, GoesOK DEF Core

LEMMA PressCore ==
  ASSUME Core, NEW r \in Reqs, NEW t \in Tabs, Press(r, t)
  PROVE  Core'
  <1>0. FormOK(form[t], rows) /\ now \in 0..MaxNow
    BY DEF Core
  <1>1. CASE SubmitMalformed(r, t)
    <2> DEFINE next == [Idle EXCEPT !.pc = "rejected", !.tab = t,
                                    !.id = form[t].id]
    <2>1. next \in Request /\ ReqOK(next, rows) /\ AttachedOK(next, form)
      BY <1>0, ContentAssumption
         DEF Idle, Request, Date, ReqOK, AttachedOK, AutoPcs, RunPcs, SavePcs,
             FormOK, Form
    <2>2. QED
      BY <1>1, <2>1, OneRequestCore DEF SubmitMalformed, Core, HistoryOK, history
  <1>2. ASSUME NEW text \in Typed, NEW typed \in TypedDates \ {Malformed},
               NEW button \in {"save", "publish_now"},
               Submit(r, t, text, typed, button)
        PROVE  Core'
    <2> DEFINE next == Submitted(t, text, typed, button)
    <2> DEFINE date == IF button = "publish_now" THEN now ELSE typed
    <2>1. /\ next.pc = "saving" /\ next.id = form[t].id
          /\ next.text = text /\ next.date = date
      BY DEF Submitted, Idle
    <2>2. date \in ChosenDates /\ date \in Date /\ text \in Text
      BY <1>0, ChosenDatesAreDates DEF ChosenDates
    <2>3. Asks(typed) \in BOOLEAN
      BY DEF Asks, IsPublished
    <2>4. next \in Request
      <3>1. form[t].id \in Ids \union {NoId}
        BY <1>0 DEF FormOK, Form
      <3> HIDE DEF date
      <3>2. next = [Idle EXCEPT !.pc = "saving", !.tab = t, !.id = form[t].id,
                      !.text = text, !.date = date, !.asks = Asks(typed)]
        BY DEF Submitted, date
      <3>3. QED
        BY <2>2, <2>3, <3>1, <3>2, IdleOK DEF Request, SavePcs
    <2>5. ReqOK(next, rows) /\ AttachedOK(next, form)
      BY <1>0, <2>1, <2>2, <2>4
         DEF ReqOK, AttachedOK, AutoPcs, RunPcs, FormOK
    <2>6. QED
      BY <1>2, <2>4, <2>5, OneRequestCore DEF Submit, Core, HistoryOK, history
  <1>3. QED
    BY <1>1, <1>2 DEF Press

LEMMA TimerCore ==
  ASSUME Core, NEW r \in Reqs, NEW t \in Tabs, Timer(r, t)
  PROVE  Core'
  <1>1. PICK text \in Typed, typed \in TypedDates : AutoFire(r, t, text, typed)
    BY DEF Timer
  <1> DEFINE next == [Idle EXCEPT !.pc = "loading", !.tab = t,
                        !.id = form[t].id, !.text = text, !.date = typed]
  <1>2. FormOK(form[t], rows) /\ form[t].asks
    BY <1>1 DEF Core, AutoFire
  <1>3. next \in Request /\ ReqOK(next, rows) /\ AttachedOK(next, form)
    BY <1>2, ContentAssumption, EditorAssumption
       DEF Idle, Request, Date, ReqOK, AttachedOK, RunPcs, AutoPcs, FormOK, Form
  <1>4. QED
    BY <1>1, <1>3, OneRequestCore DEF AutoFire, Core, HistoryOK, history

\* The two actions that write a row.
LEMMA SaveStoresCore ==
  ASSUME Core, NEW r \in Reqs, NEW id \in Ids, SaveStores(r, id)
  PROVE  /\ Core'
         /\ rows' = [rows EXCEPT
                       ![id] = [text |-> req[r].text, date |-> req[r].date]]
         /\ rows'[id] \in Row
  <1> DEFINE row == [text |-> req[r].text, date |-> req[r].date]
  <1>1. ReqOK(req[r], rows) /\ req[r].pc = "saving"
    BY DEF Core, SaveStores
  <1>2. row \in Row /\ req[r].date \in Date
    BY <1>1, ChosenDatesAreDates DEF ReqOK, Row
  <1>3. rows' = [rows EXCEPT ![id] = row]
    BY DEF SaveStores, Updated
  <1>4. rows' \in [Ids -> Row \union {NoRow}] /\ rows'[id] = row
    BY <1>2, <1>3 DEF Core
  <1>5. Existing(rows) \subseteq Existing(rows') /\ id \in Existing(rows')
    BY <1>2, <1>3, <1>4, NoRowAssumption DEF Core, Existing
  <1>6. \A q \in Reqs : ReqOK(req[q], rows')
    BY <1>5, GrownOK DEF Core
  <1>7. \A t \in Tabs : FormOK(form[t], rows')
    BY <1>5, GrownOK DEF Core
  <1> DEFINE next == Answer(r, "redirected", id, FALSE)
  <1>8. next \in Request /\ ReqOK(next, rows')
    BY <1>5, ContentAssumption
       DEF Core, Answer, Idle, Request, ReqOK, SavePcs, AutoPcs, RunPcs, Date,
           Existing
  <1>9. /\ req' \in [Reqs -> Request]
        /\ \A q \in Reqs : ReqOK(req'[q], rows') /\ AttachedOK(req'[q], form')
    <2>1. AttachedOK(next, form)
      BY DEF Answer, Idle, AttachedOK, AutoPcs, RunPcs
    <2>2. QED
      BY <1>6, <1>8, <2>1 DEF Core, SaveStores, Goes
  <1>10. HistoryOK'
    <2>1. saved' \in [Ids -> SUBSET Date]
      BY <1>2 DEF Core, HistoryOK, SaveStores
    <2>2. QED
      BY <2>1, OvertakeType DEF Core, HistoryOK, SaveStores
  <1>11. QED
    BY <1>2, <1>3, <1>4, <1>7, <1>9, <1>10 DEF Core, SaveStores

LEMMA AutoStoresCore ==
  ASSUME Core, NEW r \in Reqs, AutoStores(r)
  PROVE  /\ Core'
         /\ req[r].id \in Existing(rows)
         /\ rows' = [rows EXCEPT ![req[r].id] =
                       [text |-> req[r].text, date |-> req[r].seen]]
         /\ rows'[req[r].id] \in Row
  <1> DEFINE id == req[r].id
             row == [text |-> req[r].text, date |-> req[r].seen]
  <1>1. ReqOK(req[r], rows) /\ req[r].pc = "storing"
    BY DEF Core, AutoStores
  <1>2. row \in Row /\ id \in Existing(rows)
    BY <1>1, ChosenDatesAreDates DEF ReqOK, Row, Request, AutoPcs, RunPcs
  <1>3. rows' = [rows EXCEPT ![id] = row]
    BY DEF AutoStores, Updated
  <1>4. rows' \in [Ids -> Row \union {NoRow}] /\ rows'[id] = row
    BY <1>2, <1>3 DEF Core, Existing
  <1>5. Existing(rows) \subseteq Existing(rows') /\ id \in Existing(rows')
    BY <1>2, <1>3, <1>4, NoRowAssumption DEF Core, Existing
  <1>6. \A q \in Reqs : ReqOK(req[q], rows')
    BY <1>5, GrownOK DEF Core
  <1>7. \A t \in Tabs : FormOK(form[t], rows')
    BY <1>5, GrownOK DEF Core
  <1> DEFINE next == Answer(r, "marked", id, TRUE)
  <1>8. next \in Request /\ ReqOK(next, rows')
    BY <1>5, ContentAssumption
       DEF Core, Answer, Idle, Request, ReqOK, AutoPcs, RunPcs, Date, Existing
  <1>9. /\ req' \in [Reqs -> Request]
        /\ \A q \in Reqs : ReqOK(req'[q], rows') /\ AttachedOK(req'[q], form')
    <2>1. AttachedOK(req[r], form)
      BY DEF Core
    <2>2. AttachedOK(next, form)
      BY <1>1, <2>1 DEF Answer, Idle, AttachedOK, AutoPcs, RunPcs
    <2>3. QED
      BY <1>6, <1>8, <2>2 DEF Core, AutoStores, Goes
  <1>10. HistoryOK'
    BY OvertakeType, EditorAssumption DEF Core, HistoryOK, AutoStores
  <1>11. QED
    BY <1>2, <1>3, <1>4, <1>7, <1>9, <1>10 DEF Core, AutoStores

\* An autosave between its reads stays the request it is.
LEMMA ReadOK ==
  ASSUME Core, NEW r \in Reqs, req[r].pc \in RunPcs, NEW pc \in RunPcs,
         NEW seen \in Date, NEW next,
         next = [req[r] EXCEPT !.pc = pc, !.seen = seen]
  PROVE  next \in Request /\ ReqOK(next, rows) /\ AttachedOK(next, form)
  <1>1. ReqOK(req[r], rows) /\ AttachedOK(req[r], form)
    BY DEF Core
  <1>2. next \in Request
    BY <1>1 DEF ReqOK, Request, AutoPcs
  <1>3. QED
    BY <1>1, <1>2 DEF ReqOK, AttachedOK, Request, AutoPcs, RunPcs

LEMMA ServeCore ==
  ASSUME Core, NEW r \in Reqs, Serve(r)
  PROVE  Core'
  <1>0. ReqOK(req[r], rows) /\ req[r] \in Request
    BY DEF Core
  <1>1. CASE SaveRejected(r)
    <2> DEFINE next == Answer(r, "rejected", req[r].id, req[r].asks)
    <2>1. req[r].id \in Existing(rows) \union {NoId} /\ req[r].asks \in BOOLEAN
      BY <1>0 DEF ReqOK, Request
    <2>2. next \in Request /\ ReqOK(next, rows)
      BY <2>1, AnswerOK DEF Core
    <2>3. AttachedOK(next, form)
      BY <1>1 DEF SaveRejected, Core, Answer, Idle, AttachedOK, AutoPcs, RunPcs
    <2>4. HistoryOK'
      BY <1>1 DEF SaveRejected, Core, HistoryOK, history
    <2>5. QED
      BY <1>1, <2>2, <2>3, <2>4, OneRequestCore DEF SaveRejected
  <1>2. ASSUME NEW id \in Ids, SaveCreates(r, id) \/ SaveUpdates(r, id)
        PROVE  Core'
    BY <1>2, SaveStoresCore DEF SaveCreates, SaveUpdates
  <1>3. CASE AutoLoad(r)
    <2>1. rows[req[r].id].date \in Date
      BY <1>0, <1>3 DEF AutoLoad, ReqOK, AutoPcs, RunPcs, Existing, Core, Row
    <2> DEFINE next == [req[r] EXCEPT !.pc = "checking",
                                      !.seen = rows[req[r].id].date]
    <2>2. next \in Request /\ ReqOK(next, rows) /\ AttachedOK(next, form)
      BY <2>1, <1>3, ReadOK DEF AutoLoad, RunPcs
    <2>3. QED
      BY <1>3, <2>2, OneRequestCore DEF AutoLoad, Core, HistoryOK, history
  <1>4. CASE AutoRefused(r)
    <2> DEFINE next == Answer(r, "marked", req[r].id, FALSE)
    <2>1. req[r].id \in Existing(rows) \union {NoId} /\ req[r].id # NoId
      BY <1>0, <1>4 DEF AutoRefused, ReqOK, AutoPcs, RunPcs
    <2>2. next \in Request /\ ReqOK(next, rows)
      BY <2>1, AnswerOK DEF Core
    <2>3. AttachedOK(next, form)
      BY <1>4 DEF AutoRefused, Core, Answer, Idle, AttachedOK, AutoPcs, RunPcs
    <2>4. HistoryOK'
      BY <1>4, EditorAssumption DEF AutoRefused, Forget, Core, HistoryOK
    <2>5. QED
      BY <1>4, <2>2, <2>3, <2>4, OneRequestCore DEF AutoRefused
  <1>5. CASE AutoAllowed(r)
    <2> DEFINE next == [req[r] EXCEPT !.pc = "rereading"]
    <2>1. next = [req[r] EXCEPT !.pc = "rereading", !.seen = req[r].seen]
      BY <1>0 DEF Request
    <2>2. next \in Request /\ ReqOK(next, rows) /\ AttachedOK(next, form)
      BY <1>0, <1>5, <2>1, ReadOK DEF AutoAllowed, RunPcs, Request
    <2>3. HistoryOK'
      BY <1>5 DEF AutoAllowed, Core, HistoryOK
    <2>4. QED
      BY <1>5, <2>2, <2>3, OneRequestCore DEF AutoAllowed
  <1>6. CASE AutoReread(r)
    <2>1. rows[req[r].id].date \in Date
      BY <1>0, <1>6 DEF AutoReread, ReqOK, AutoPcs, RunPcs, Existing, Core, Row
    <2> DEFINE next == [req[r] EXCEPT !.pc = "storing",
                                      !.seen = rows[req[r].id].date]
    <2>2. next \in Request /\ ReqOK(next, rows) /\ AttachedOK(next, form)
      BY <2>1, <1>6, ReadOK DEF AutoReread, RunPcs
    <2>3. QED
      BY <1>6, <2>2, OneRequestCore DEF AutoReread, Core, HistoryOK, history
  <1>7. CASE AutoStores(r)
    BY <1>7, AutoStoresCore
  <1>8. CASE AutoNotSaved(r)
    <2> DEFINE next == Answer(r, "marked", req[r].id, TRUE)
    <2>1. req[r].id \in Existing(rows) \union {NoId} /\ req[r].id # NoId
      BY <1>0, <1>8 DEF AutoNotSaved, ReqOK, AutoPcs, RunPcs
    <2>2. next \in Request /\ ReqOK(next, rows)
      BY <2>1, AnswerOK DEF Core
    <2>3. AttachedOK(next, form)
      BY <1>8 DEF AutoNotSaved, Core, Answer, Idle, AttachedOK, AutoPcs, RunPcs
    <2>4. HistoryOK'
      BY <1>8, EditorAssumption DEF AutoNotSaved, Forget, Core, HistoryOK
    <2>5. QED
      BY <1>8, <2>2, <2>3, <2>4, OneRequestCore DEF AutoNotSaved
  <1>9. QED
    BY <1>1, <1>2, <1>3, <1>4, <1>5, <1>6, <1>7, <1>8 DEF Serve

LEMMA DeliverCore ==
  ASSUME Core, NEW r \in Reqs, Deliver(r)
  PROVE  Core'
  <1>1. ReqOK(req[r], rows) /\ req[r] \in Request /\ AttachedOK(req[r], form)
    BY DEF Core
  <1>2. PICK t \in Tabs, f \in Form :
          /\ FormOK(f, rows)
          /\ form' = [form EXCEPT ![t] = f]
          /\ \/ req' = [Detached(AutoPcs, t) EXCEPT ![r] = Idle]
             \/ Goes(r, Idle) /\ f.id = form[t].id
          /\ UNCHANGED <<rows, now, history>>
    <2>1. CASE DeliverRedirect(r)
      <3>1. req[r].tab \in Tabs /\ req[r].id \in Existing(rows)
        BY <1>1, <2>1 DEF DeliverRedirect, ReqOK, Request
      <3>2. EditForm(req[r].id) \in Form /\ FormOK(EditForm(req[r].id), rows)
        BY <3>1, EditFormOK
      <3>3. QED
        BY <2>1, <3>1, <3>2 DEF DeliverRedirect
    <2>2. CASE DeliverRejection(r)
      <3> DEFINE f == [open |-> TRUE, id |-> req[r].id,
                       asks |-> req[r].asks /\ req[r].id # NoId]
      <3>1. req[r].tab \in Tabs /\ req[r].id \in Existing(rows) \union {NoId}
        BY <1>1, <2>2 DEF DeliverRejection, ReqOK, Request
      <3>2. f \in Form /\ FormOK(f, rows)
        BY <1>1, <3>1 DEF Form, FormOK, Existing
      <3>3. QED
        BY <2>2, <3>1, <3>2 DEF DeliverRejection
    <2>3. CASE DeliverMarker(r)
      <3> DEFINE t == req[r].tab
                 f == [form[t] EXCEPT !.asks = req[r].asks]
      <3>1. t \in Tabs /\ req[r].asks \in BOOLEAN
        BY <1>1, <2>3 DEF DeliverMarker, Request
      <3>5. req[r].id = form[t].id /\ req[r].id # NoId
        BY <1>1, <2>3, <3>1 DEF DeliverMarker, ReqOK, AttachedOK, AutoPcs
      <3>2. FormOK(form[t], rows) /\ form[t] \in Form
        BY <3>1 DEF Core
      <3>3. f \in Form /\ FormOK(f, rows)
        BY <3>1, <3>2, <3>5 DEF Form, FormOK, Existing
      <3>4. f.id = form[t].id
        BY <3>2 DEF Form
      <3>6. QED
        BY <2>3, <3>1, <3>3, <3>4 DEF DeliverMarker
    <2>4. QED
      BY <2>1, <2>2, <2>3 DEF Deliver
  <1>3. req' \in [Reqs -> Request] /\ \A q \in Reqs : ReqOK(req'[q], rows)
    BY <1>2, IdleOK, DetachedOK, GoesOK DEF Core
  <1>4. form' \in [Tabs -> Form] /\ \A s \in Tabs : FormOK(form'[s], rows)
    BY <1>2 DEF Core
  <1>5. ASSUME NEW q \in Reqs
        PROVE  AttachedOK(req'[q], form')
    <2>1. AttachedOK(Idle, form')
      BY DEF AttachedOK, Idle, AutoPcs, RunPcs
    <2>2. CASE req' = [Detached(AutoPcs, t) EXCEPT ![r] = Idle]
      <3>1. AttachedOK(Detached(AutoPcs, t)[q], form')
        BY <1>2, DetachedAttached DEF Core
      <3>2. req'[q] = Idle \/ req'[q] = Detached(AutoPcs, t)[q]
        BY <2>2, DetachedOK DEF Core
      <3>3. QED
        BY <2>1, <3>1, <3>2
    <2>3. CASE Goes(r, Idle) /\ f.id = form[t].id
      <3>1. AttachedOK(req[q], form) /\ (req'[q] = Idle \/ req'[q] = req[q])
        BY <2>3 DEF Core, Goes
      <3>2. \A s \in Tabs : form'[s].id = form[s].id
        BY <1>2, <2>3 DEF Core
      <3>3. QED
        BY <2>1, <3>1, <3>2 DEF AttachedOK
    <2>4. QED
      BY <1>2, <2>2, <2>3
  <1>6. HistoryOK'
    BY <1>2 DEF Core, HistoryOK, history
  <1>7. QED
    BY <1>2, <1>3, <1>4, <1>5, <1>6 DEF Core

LEMMA FailCore ==
  ASSUME Core, NEW r \in Reqs, Fail(r)
  PROVE  Core'
  <1>1. HistoryOK'
    BY EditorAssumption DEF Fail, Forget, Core, HistoryOK
  <1>2. AttachedOK(Idle, form)
    BY DEF AttachedOK, Idle, AutoPcs, RunPcs
  <1>3. QED
    BY <1>1, <1>2, IdleOK, OneRequestCore DEF Fail

LEMMA CoreStep == Core /\ [Next]_vars => Core'
  <1> SUFFICES ASSUME Core, [Next]_vars
               PROVE  Core'
    OBVIOUS
  <1>1. ASSUME NEW t \in Tabs, Screen(t)
        PROVE  Core'
    BY <1>1, ScreenCore
  <1>2. ASSUME NEW r \in Reqs, NEW t \in Tabs, Press(r, t) \/ Timer(r, t)
        PROVE  Core'
    BY <1>2, PressCore, TimerCore
  <1>3. ASSUME NEW r \in Reqs, Serve(r) \/ Deliver(r) \/ Fail(r)
        PROVE  Core'
    BY <1>3, ServeCore, DeliverCore, FailCore
  <1>4. CASE Tick
    BY <1>4, EditorAssumption DEF Tick, Core, HistoryOK, history
  <1>5. CASE UNCHANGED vars
    BY <1>5 DEF vars, Core, HistoryOK
  <1>6. QED
    BY <1>1, <1>2, <1>3, <1>4, <1>5 DEF Next

LEMMA CoreInit == Init => Core
  <1> SUFFICES ASSUME Init
               PROVE  Core
    OBVIOUS
  <1>1. HistoryOK
    BY EditorAssumption DEF Init, HistoryOK
  <1>2. AttachedOK(Idle, form)
    BY DEF AttachedOK, Idle, AutoPcs, RunPcs
  <1>3. QED
    BY <1>1, <1>2, IdleOK, NoFormOK, EditorAssumption DEF Init, Core

LEMMA CoreHolds == Spec => []Core
  BY CoreInit, CoreStep, PTL DEF Spec

\* Whatever requests interleave, fail or are answered late, every variable
\* keeps its type.
THEOREM TypeCorrect == Spec => []TypeOK
  <1>1. Core => TypeOK
    BY DEF Core, HistoryOK, TypeOK
  <1>2. QED
    BY <1>1, CoreHolds, PTL

\* No form and no autosave ever asks about writing that has no row.
THEOREM AutosavesNameRows == Spec => []AutosaveHasARow
  <1>1. Core => AutosaveHasARow
    BY ContentAssumption DEF Core, AutosaveHasARow, FormOK, ReqOK, AutoPcs
  <1>2. QED
    BY <1>1, CoreHolds, PTL

-------------------------------------------------------------------------------
(***************************************************************************)
(* The schema.  A write is refused unless its text fits beside the other   *)
(* rows at the moment of the write, whatever was read before.              *)
(***************************************************************************)

\* A save writes the row it was sent for, or a row of its own.
LEMMA WriterFits ==
  ASSUME Core, NEW r \in Reqs, NEW id \in Ids,
         SaveCreates(r, id) \/ SaveUpdates(r, id)
  PROVE  /\ SaveStores(r, id)
         /\ req[r].pc = "saving"
         /\ ~ Refused(rows, req[r].id, req[r].text)
         /\ req[r].id = id \/ (req[r].id = NoId /\ id \notin Existing(rows))
  BY DEF SaveCreates, SaveUpdates, SaveStores

LEMMA SoundAfterWrite ==
  ASSUME NEW table \in [Ids -> Row \union {NoRow}], RowsSound(table),
         NEW id \in Ids, NEW row \in Row, NEW key,
         key = id \/ (key = NoId /\ id \notin Existing(table)),
         ~ Refused(table, key, row.text)
  PROVE  RowsSound([table EXCEPT ![id] = row])
  <1> DEFINE after == [table EXCEPT ![id] = row]
  <1>1. Existing(after) = Existing(table) \union {id} /\ after[id] = row
    BY NoRowAssumption DEF Existing
  <1>2. \A other \in Existing(table) \ {id} :
          /\ after[other] = table[other]
          /\ table[other].text.slug # row.text.slug
    BY ContentAssumption DEF Refused, SlugKey, Existing
  <1>3. SlugFormat(row.text) /\ TitlePresent(row.text)
    BY DEF Refused
  <1>4. QED
    BY <1>1, <1>2, <1>3 DEF RowsSound

\* Only two actions write rows.
LEMMA RowsStep ==
  ASSUME Core, [Next]_vars
  PROVE  \/ UNCHANGED <<rows, saved>>
         \/ \E r \in Reqs, id \in Ids : SaveCreates(r, id) \/ SaveUpdates(r, id)
         \/ \E r \in Reqs : AutoStores(r)
  <1>1. ASSUME NEW t \in Tabs, Screen(t)
        PROVE  UNCHANGED <<rows, saved>>
    BY <1>1 DEF Screen, Blank, Leave, Edit, history
  <1>2. ASSUME NEW r \in Reqs, NEW t \in Tabs, Press(r, t) \/ Timer(r, t)
        PROVE  UNCHANGED <<rows, saved>>
    BY <1>2 DEF Press, Timer, SubmitMalformed, Submit, AutoFire, history
  <1>3. ASSUME NEW r \in Reqs, Deliver(r) \/ Fail(r)
        PROVE  UNCHANGED <<rows, saved>>
    BY <1>3 DEF Deliver, DeliverRedirect, DeliverRejection, DeliverMarker, Fail,
                history
  <1>4. ASSUME NEW r \in Reqs, Serve(r), ~ AutoStores(r),
               ~ \E id \in Ids : SaveCreates(r, id) \/ SaveUpdates(r, id)
        PROVE  UNCHANGED <<rows, saved>>
    BY <1>4 DEF Serve, SaveRejected, AutoLoad, AutoRefused, AutoAllowed,
                AutoReread, AutoNotSaved, history
  <1>5. CASE Tick \/ UNCHANGED vars
    BY <1>5 DEF Tick, vars, history
  <1>6. QED
    BY <1>1, <1>2, <1>3, <1>4, <1>5 DEF Next

LEMMA SchemaStep == Core /\ SchemaHolds /\ [Next]_vars => SchemaHolds'
  <1> SUFFICES ASSUME Core, SchemaHolds, [Next]_vars
               PROVE  SchemaHolds'
    OBVIOUS
  <1> USE DEF SchemaHolds
  <1>1. CASE rows' = rows
    BY <1>1 DEF RowsSound, Existing
  <1>2. ASSUME NEW r \in Reqs, NEW id \in Ids,
               SaveCreates(r, id) \/ SaveUpdates(r, id)
        PROVE  RowsSound(rows')
    <2> DEFINE row == [text |-> req[r].text, date |-> req[r].date]
    <2>1. rows' = [rows EXCEPT ![id] = row] /\ row \in Row
      BY <1>2, WriterFits, SaveStoresCore DEF Core
    <2>2. ~ Refused(rows, req[r].id, row.text)
      BY <1>2, WriterFits
    <2>3. QED
      BY <1>2, <2>1, <2>2, WriterFits, SoundAfterWrite DEF Core
  <1>3. ASSUME NEW r \in Reqs, AutoStores(r)
        PROVE  RowsSound(rows')
    <2> DEFINE row == [text |-> req[r].text, date |-> req[r].seen]
    <2>1. /\ rows' = [rows EXCEPT ![req[r].id] = row] /\ row \in Row
          /\ req[r].id \in Ids
      BY <1>3, AutoStoresCore DEF Core, Existing
    <2>2. ~ Refused(rows, req[r].id, row.text)
      BY <1>3 DEF AutoStores
    <2>3. QED
      BY <2>1, <2>2, SoundAfterWrite DEF Core
  <1>4. RowsSound(rows)'
    BY <1>1, <1>2, <1>3, RowsStep
  <1>5. QED
    BY <1>4

\* No interleaving of creates, saves and autosaves leaves two rows under one
\* slug, or a row with a slug or a title the schema does not allow.
THEOREM SchemaAlwaysHolds == Spec => []SchemaHolds
  <1>1. Init => SchemaHolds
    BY DEF Init, SchemaHolds, RowsSound, Existing
  <1>2. QED
    BY <1>1, SchemaStep, CoreHolds, PTL DEF Spec

-------------------------------------------------------------------------------
(***************************************************************************)
(* The Publication Date and autosave.  What an autosave has read is either *)
(* what the row still holds or the ghost variable says who came between.   *)
(***************************************************************************)
\* For autosave r: what its last read is worth.
ReadHolds(r) ==
  /\ req[r].pc = "storing" /\ overtaken[r] # "storing"
       => req[r].seen = rows[req[r].id].date
  /\ req[r].pc = "checking" /\ overtaken[r] \in {"no", "loading"}
       => req[r].seen = rows[req[r].id].date
  /\ req[r].pc \in {"rereading", "storing"} /\ overtaken[r] \in {"no", "loading"}
       => ~ IsPublished(rows[req[r].id].date, checkedAt[r])

\* Every date in the table, or about to be written to it by an autosave, was
\* stored by an explicit save.
DatesSaved ==
  /\ OnlySavedDates
  /\ \A r \in Reqs : req[r].pc = "storing" => req[r].seen \in saved[req[r].id]

DateInv == DatesSaved /\ \A r \in Reqs : ReadHolds(r)

\* As far as what it has read goes, autosave r is where it was.
Undisturbed(r) ==
  /\ req'[r].pc = req[r].pc /\ req'[r].id = req[r].id /\ req'[r].seen = req[r].seen
  /\ checkedAt'[r] = checkedAt[r] /\ overtaken'[r] = overtaken[r]

\* A step that writes nothing and advances no autosave past a read.
Idles ==
  /\ UNCHANGED <<rows, saved>>
  /\ \A r \in Reqs : req'[r].pc \in LatePcs => Undisturbed(r)

LEMMA IdlesKeeps ==
  ASSUME DateInv, Idles
  PROVE  DateInv'
  <1>1. DatesSaved'
    BY DEF DateInv, DatesSaved, OnlySavedDates, Existing, Idles, LatePcs, Undisturbed
  <1>2. ASSUME NEW r \in Reqs
        PROVE  ReadHolds(r)'
    <2>1. CASE req'[r].pc \in LatePcs
      <3>1. Undisturbed(r) /\ rows' = rows /\ ReadHolds(r)
        BY <2>1 DEF Idles, DateInv
      <3>2. QED
        BY <3>1 DEF ReadHolds, Undisturbed, IsPublished
    <2>2. CASE req'[r].pc \notin LatePcs
      BY <2>2 DEF ReadHolds, LatePcs
    <2>3. QED
      BY <2>1, <2>2
  <1>3. QED
    BY <1>1, <1>2 DEF DateInv

\* One request goes on to something that is no autosave past its first read.
LEMMA OneRequestIdles ==
  ASSUME Core, NEW r \in Reqs, NEW next, next.pc \notin LatePcs, Goes(r, next),
         UNCHANGED <<rows, saved>>,
         UNCHANGED <<overtaken, checkedAt>> \/ Forget(r)
  PROVE  Idles
  <1>1. ASSUME NEW q \in Reqs, q # r
        PROVE  Undisturbed(q)
    <2>1. req'[q] = req[q]
      BY <1>1 DEF Core, Goes
    <2>2. checkedAt'[q] = checkedAt[q] /\ overtaken'[q] = overtaken[q]
      BY <1>1 DEF Core, HistoryOK, Forget
    <2>3. QED
      BY <2>1, <2>2 DEF Undisturbed
  <1>2. req'[r] = next
    BY DEF Core, Goes
  <1>3. QED
    BY <1>1, <1>2 DEF Idles

LEMMA ScreenIdles ==
  ASSUME Core, NEW t \in Tabs, Screen(t)
  PROVE  Idles
  <1>1. /\ req' = Detached(SavePcs \union AutoPcs, t)
        /\ UNCHANGED <<rows, history>>
    BY DEF Screen, Blank, Leave, Edit
  <1>2. QED
    BY <1>1, DetachedFields DEF Core, Idles, Undisturbed, history

LEMMA PressIdles ==
  ASSUME Core, NEW r \in Reqs, NEW t \in Tabs, Press(r, t) \/ Timer(r, t)
  PROVE  Idles
  <1>1. CASE SubmitMalformed(r, t)
    <2> DEFINE next == [Idle EXCEPT !.pc = "rejected", !.tab = t,
                                    !.id = form[t].id]
    <2>1. next.pc \notin LatePcs
      BY DEF Idle, LatePcs
    <2>2. QED
      BY <1>1, <2>1, OneRequestIdles DEF SubmitMalformed, history
  <1>2. ASSUME NEW text, NEW typed, NEW button, Submit(r, t, text, typed, button)
        PROVE  Idles
    <2>1. Submitted(t, text, typed, button).pc \notin LatePcs
      BY DEF Submitted, Idle, LatePcs
    <2>2. QED
      BY <1>2, <2>1, OneRequestIdles DEF Submit, history
  <1>3. ASSUME NEW text, NEW typed, AutoFire(r, t, text, typed)
        PROVE  Idles
    <2> DEFINE next == [Idle EXCEPT !.pc = "loading", !.tab = t,
                          !.id = form[t].id, !.text = text, !.date = typed]
    <2>1. next.pc \notin LatePcs
      BY DEF Idle, LatePcs
    <2>2. QED
      BY <1>3, <2>1, OneRequestIdles DEF AutoFire, history
  <1>4. QED
    BY <1>1, <1>2, <1>3 DEF Press, Timer

LEMMA DeliverIdles ==
  ASSUME Core, NEW r \in Reqs, Deliver(r) \/ Fail(r)
  PROVE  Idles
  <1>1. Idle.pc \notin LatePcs
    BY DEF Idle, LatePcs
  <1>2. CASE DeliverMarker(r) \/ Fail(r)
    BY <1>1, <1>2, OneRequestIdles DEF DeliverMarker, Fail, history
  <1>3. CASE DeliverRedirect(r) \/ DeliverRejection(r)
    <2>1. /\ req' = [Detached(AutoPcs, req[r].tab) EXCEPT ![r] = Idle]
          /\ UNCHANGED <<rows, history>>
      BY <1>3 DEF DeliverRedirect, DeliverRejection
    <2>2. ASSUME NEW q \in Reqs, req'[q].pc \in LatePcs
          PROVE  Undisturbed(q)
      <3>1. q # r
        BY <1>1, <2>1, <2>2, DetachedOK DEF Core
      <3>2. req'[q] = Detached(AutoPcs, req[r].tab)[q]
        BY <2>1, <3>1, DetachedOK DEF Core
      <3>3. QED
        BY <2>1, <3>2, DetachedFields DEF Core, Undisturbed, history
    <2>3. QED
      BY <2>1, <2>2 DEF Idles, history
  <1>4. QED
    BY <1>2, <1>3 DEF Deliver

LEMMA AnswerIdles ==
  ASSUME Core, NEW r \in Reqs,
         SaveRejected(r) \/ AutoRefused(r) \/ AutoNotSaved(r)
  PROVE  Idles
  <1>1. \A pc \in {"rejected", "marked"} : \A id, asks :
          Answer(r, pc, id, asks).pc \notin LatePcs
    BY DEF Answer, Idle, LatePcs
  <1>2. CASE SaveRejected(r)
    BY <1>1, <1>2, OneRequestIdles DEF SaveRejected, history
  <1>3. CASE AutoRefused(r)
    BY <1>1, <1>3, OneRequestIdles DEF AutoRefused
  <1>4. CASE AutoNotSaved(r)
    BY <1>1, <1>4, OneRequestIdles DEF AutoNotSaved
  <1>5. QED
    BY <1>2, <1>3, <1>4

\* The three steps of an autosave that read the row or the clock.
LEMMA ReadKeeps ==
  ASSUME Core, DateInv, NEW r \in Reqs,
         AutoLoad(r) \/ AutoAllowed(r) \/ AutoReread(r)
  PROVE  DateInv'
  <1>1. /\ UNCHANGED <<rows, saved, overtaken>>
        /\ \A q \in Reqs \ {r} : req'[q] = req[q] /\ checkedAt'[q] = checkedAt[q]
        /\ req'[r].id = req[r].id
        /\ ReqOK(req[r], rows) /\ req[r] \in Request
    <2>1. ReqOK(req[r], rows) /\ req[r] \in Request
      BY DEF Core
    <2>2. UNCHANGED <<rows, saved, overtaken>>
      BY DEF AutoLoad, AutoAllowed, AutoReread, history
    <2>3. \A q \in Reqs \ {r} : checkedAt'[q] = checkedAt[q]
      BY DEF Core, HistoryOK, AutoLoad, AutoAllowed, AutoReread, history
    <2>4. \E next : /\ req' = [req EXCEPT ![r] = next]
                    /\ next.id = req[r].id
      BY <2>1 DEF AutoLoad, AutoAllowed, AutoReread, Goes, Request
    <2>5. QED
      BY <2>1, <2>2, <2>3, <2>4 DEF Core
  <1>2. \A q \in Reqs \ {r} : ReadHolds(q)'
    BY <1>1 DEF DateInv, ReadHolds, IsPublished
  <1>3. ReadHolds(r)'
    <2>1. CASE AutoLoad(r)
      <3>1. req'[r].pc = "checking" /\ req'[r].seen = rows[req[r].id].date
        BY <1>1, <2>1 DEF AutoLoad, Goes, Core, Request
      <3>2. QED
        BY <1>1, <3>1 DEF ReadHolds
    <2>2. CASE AutoAllowed(r)
      <3>1. /\ req'[r].pc = "rereading" /\ checkedAt'[r] = now
            /\ ~ IsPublished(req[r].seen, now) /\ req[r].pc = "checking"
        BY <1>1, <2>2 DEF AutoAllowed, Goes, Core, HistoryOK, Request
      <3>2. ReadHolds(r)
        BY DEF DateInv
      <3>3. QED
        BY <1>1, <3>1, <3>2 DEF ReadHolds, IsPublished
    <2>3. CASE AutoReread(r)
      <3>1. /\ req'[r].pc = "storing" /\ req'[r].seen = rows[req[r].id].date
            /\ checkedAt'[r] = checkedAt[r] /\ req[r].pc = "rereading"
        BY <1>1, <2>3 DEF AutoReread, Goes, Core, HistoryOK, history, Request
      <3>2. ReadHolds(r)
        BY DEF DateInv
      <3>3. QED
        BY <1>1, <3>1, <3>2 DEF ReadHolds, IsPublished
    <2>4. QED
      BY <2>1, <2>2, <2>3
  <1>4. DatesSaved'
    <2>1. OnlySavedDates'
      BY <1>1 DEF DateInv, DatesSaved, OnlySavedDates, Existing
    <2>2. ASSUME NEW q \in Reqs, req'[q].pc = "storing"
          PROVE  req'[q].seen \in saved'[req'[q].id]
      <3>1. CASE q # r
        BY <1>1, <2>2, <3>1 DEF DateInv, DatesSaved
      <3>2. CASE q = r
        <4>1. AutoReread(r)
          BY <1>1, <2>2, <3>2
             DEF AutoLoad, AutoAllowed, AutoReread, Goes, Core, Request
        <4>2. req'[r].seen = rows[req[r].id].date /\ req[r].id \in Existing(rows)
          BY <1>1, <4>1
             DEF AutoReread, Goes, Core, Request, ReqOK, AutoPcs, RunPcs
        <4>3. QED
          BY <1>1, <3>2, <4>2 DEF DateInv, DatesSaved, OnlySavedDates
      <3>3. QED
        BY <3>1, <3>2
    <2>3. QED
      BY <2>1, <2>2 DEF DatesSaved
  <1>5. QED
    BY <1>2, <1>3, <1>4 DEF DateInv

\* A write to a row is noted against every autosave of that row.
LEMMA WriteOvertakes ==
  ASSUME Core, DateInv, NEW r \in Reqs, NEW id \in Ids, NEW row \in Row,
         rows' = [rows EXCEPT ![id] = row],
         overtaken' = Overtake(r, id),
         \A q \in Reqs \ {r} : req'[q] = req[q] /\ checkedAt'[q] = checkedAt[q],
         req'[r].pc \notin LatePcs
  PROVE  \A q \in Reqs : ReadHolds(q)'
  <1>1. ASSUME NEW q \in Reqs \ {r}
        PROVE  ReadHolds(q)'
    <2>1. ReadHolds(q) /\ req'[q] = req[q] /\ checkedAt'[q] = checkedAt[q]
      BY DEF DateInv
    <2>2. CASE req[q].pc \in RunPcs /\ req[q].id = id
      <3>1. overtaken'[q] = req[q].pc
        BY <2>2 DEF Overtake
      <3>2. QED
        BY <2>1, <3>1 DEF ReadHolds
    <2>3. CASE req[q].pc \in RunPcs /\ req[q].id # id
      <3>1. overtaken'[q] = overtaken[q] /\ rows'[req[q].id] = rows[req[q].id]
        BY <2>3 DEF Overtake, Core
      <3>2. QED
        BY <2>1, <3>1 DEF ReadHolds, IsPublished
    <2>4. CASE req[q].pc \notin RunPcs
      BY <2>1, <2>4 DEF ReadHolds, RunPcs
    <2>5. QED
      BY <2>2, <2>3, <2>4
  <1>2. ReadHolds(r)'
    BY DEF ReadHolds, LatePcs
  <1>3. QED
    BY <1>1, <1>2

LEMMA SaveKeeps ==
  ASSUME Core, DateInv, NEW r \in Reqs, NEW id \in Ids, SaveStores(r, id)
  PROVE  DateInv'
  <1>1. /\ rows' = [rows EXCEPT ![id] = [text |-> req[r].text, date |-> req[r].date]]
        /\ rows'[id] \in Row
    BY SaveStoresCore
  <1>2. req'[r].pc = "redirected" /\ \A q \in Reqs \ {r} : req'[q] = req[q]
    BY DEF SaveStores, Goes, Core, Answer, Idle
  <1>3. \A q \in Reqs : ReadHolds(q)'
    <2>1. [text |-> req[r].text, date |-> req[r].date] \in Row
      BY <1>1 DEF Core
    <2>2. QED
      BY <1>1, <1>2, <2>1, WriteOvertakes DEF SaveStores, LatePcs
  <1>4. /\ req[r].date \in saved'[id]
        /\ \A other \in Ids : saved[other] \subseteq saved'[other]
    BY DEF SaveStores, Core, HistoryOK
  <1>5. OnlySavedDates'
    BY <1>1, <1>4 DEF DateInv, DatesSaved, OnlySavedDates, Existing, Core
  <1>6. \A q \in Reqs : req'[q].pc = "storing" => req'[q].seen \in saved'[req'[q].id]
    <2>1. \A q \in Reqs : req[q].pc = "storing" => req[q].id \in Ids
      BY DEF Core, ReqOK, AutoPcs, RunPcs, Existing
    <2>2. QED
      BY <1>2, <1>4, <2>1 DEF DateInv, DatesSaved
  <1>7. QED
    BY <1>3, <1>5, <1>6 DEF DateInv, DatesSaved

LEMMA AutoStoresKeeps ==
  ASSUME Core, DateInv, NEW r \in Reqs, AutoStores(r)
  PROVE  DateInv'
  <1> DEFINE id == req[r].id
  <1>1. /\ rows' = [rows EXCEPT ![id] = [text |-> req[r].text, date |-> req[r].seen]]
        /\ rows'[id] \in Row /\ id \in Existing(rows) /\ id \in Ids
    BY AutoStoresCore DEF Existing
  <1>2. /\ req'[r].pc = "marked"
        /\ \A q \in Reqs \ {r} : req'[q] = req[q] /\ checkedAt'[q] = checkedAt[q]
    BY DEF AutoStores, Goes, Core, HistoryOK, Answer, Idle
  <1>3. \A q \in Reqs : ReadHolds(q)'
    <2>1. [text |-> req[r].text, date |-> req[r].seen] \in Row
      BY <1>1 DEF Core
    <2>2. QED
      BY <1>1, <1>2, <2>1, WriteOvertakes DEF AutoStores, LatePcs
  <1>4. saved' = saved /\ req[r].pc = "storing"
    BY DEF AutoStores
  <1>5. OnlySavedDates'
    BY <1>1, <1>4 DEF DateInv, DatesSaved, OnlySavedDates, Existing, Core
  <1>6. \A q \in Reqs : req'[q].pc = "storing" => req'[q].seen \in saved'[req'[q].id]
    BY <1>2, <1>4 DEF DateInv, DatesSaved
  <1>7. QED
    BY <1>3, <1>5, <1>6 DEF DateInv, DatesSaved

LEMMA DateStep == Core /\ DateInv /\ [Next]_vars => DateInv'
  <1> SUFFICES ASSUME Core, DateInv, [Next]_vars
               PROVE  DateInv'
    OBVIOUS
  <1>1. ASSUME NEW t \in Tabs, Screen(t)
        PROVE  DateInv'
    BY <1>1, ScreenIdles, IdlesKeeps
  <1>2. ASSUME NEW r \in Reqs, NEW t \in Tabs, Press(r, t) \/ Timer(r, t)
        PROVE  DateInv'
    BY <1>2, PressIdles, IdlesKeeps
  <1>3. ASSUME NEW r \in Reqs, Serve(r)
        PROVE  DateInv'
    <2>1. ASSUME SaveRejected(r) \/ AutoRefused(r) \/ AutoNotSaved(r)
          PROVE  DateInv'
      BY <2>1, AnswerIdles, IdlesKeeps
    <2>2. ASSUME NEW id \in Ids, SaveCreates(r, id) \/ SaveUpdates(r, id)
          PROVE  DateInv'
      BY <2>2, SaveKeeps DEF SaveCreates, SaveUpdates
    <2>3. ASSUME AutoLoad(r) \/ AutoAllowed(r) \/ AutoReread(r)
          PROVE  DateInv'
      BY <2>3, ReadKeeps
    <2>4. ASSUME AutoStores(r)
          PROVE  DateInv'
      BY <2>4, AutoStoresKeeps
    <2>5. QED
      BY <1>3, <2>1, <2>2, <2>3, <2>4 DEF Serve
  <1>4. ASSUME NEW r \in Reqs, Deliver(r) \/ Fail(r)
        PROVE  DateInv'
    BY <1>4, DeliverIdles, IdlesKeeps
  <1>5. CASE Tick \/ UNCHANGED vars
    <2>1. Idles
      BY <1>5 DEF Tick, vars, history, Idles, Undisturbed
    <2>2. QED
      BY <2>1, IdlesKeeps
  <1>6. QED
    BY <1>1, <1>2, <1>3, <1>4, <1>5 DEF Next

LEMMA DateHolds == Spec => []DateInv
  <1>1. Init => DateInv
    BY DEF Init, DateInv, DatesSaved, OnlySavedDates, ReadHolds, Existing, Idle
  <1>2. QED
    BY <1>1, DateStep, CoreHolds, PTL DEF Spec

\* No autosave, however it races the saves and other autosaves of its row,
\* gives a row a Publication Date that no explicit save stored there.
THEOREM DatesComeFromSaves == Spec => []OnlySavedDates
  <1>1. DateInv => OnlySavedDates
    BY DEF DateInv, DatesSaved
  <1>2. QED
    BY <1>1, DateHolds, PTL

\* The step that stores an autosave leaves rows as they are or writes this one.
LEMMA StoredWrites ==
  ASSUME Core, [Next]_vars, NEW r \in Reqs, Stored(r)
  PROVE  rows' = rows \/ AutoStores(r)
  <1>1. req[r].pc = "storing" /\ req'[r].pc = "marked"
    BY DEF Stored
  <1>2. ASSUME NEW q \in Reqs, NEW id \in Ids,
               SaveCreates(q, id) \/ SaveUpdates(q, id)
        PROVE  FALSE
    <2>1. q # r
      BY <1>1, <1>2, WriterFits
    <2>2. req'[r] = req[r]
      BY <1>2, <2>1 DEF SaveCreates, SaveUpdates, SaveStores, Goes, Core
    <2>3. QED
      BY <1>1, <2>2
  <1>3. ASSUME NEW q \in Reqs, AutoStores(q), q # r
        PROVE  FALSE
    <2>1. req'[r] = req[r]
      BY <1>3 DEF AutoStores, Goes, Core
    <2>2. QED
      BY <1>1, <2>1
  <1>4. QED
    BY <1>2, <1>3, RowsStep

\* Only a save that falls between an autosave's second read and its UPDATE can
\* make the autosave change a Publication Date.
THEOREM AutosaveKeepsDates == Spec => AutosaveMovesDateOnlyIfOvertaken
  <1>1. ASSUME Core, DateInv, [Next]_vars, NEW r \in Reqs,
               Stored(r), overtaken[r] # "storing"
        PROVE  rows'[req[r].id].date = rows[req[r].id].date
    <2>1. ReadHolds(r)
      BY <1>1 DEF DateInv
    <2>2. req[r].seen = rows[req[r].id].date
      BY <1>1, <2>1 DEF ReadHolds, Stored
    <2>3. CASE rows' = rows
      BY <2>3
    <2>4. CASE AutoStores(r)
      <3>1. /\ req[r].id \in Ids
            /\ rows' = [rows EXCEPT ![req[r].id] =
                          [text |-> req[r].text, date |-> req[r].seen]]
        BY <1>1, <2>4, AutoStoresCore DEF Existing
      <3>2. rows'[req[r].id] = [text |-> req[r].text, date |-> req[r].seen]
        BY <1>1, <3>1 DEF Core
      <3>3. QED
        BY <2>2, <3>2
    <2>5. QED
      BY <1>1, <2>3, <2>4, StoredWrites
  <1>2. Core /\ DateInv /\ [Next]_vars =>
          [\A r \in Reqs : Stored(r) /\ overtaken[r] # "storing"
             => rows'[req[r].id].date = rows[req[r].id].date]_vars
    BY <1>1
  <1>3. QED
    BY <1>2, CoreHolds, DateHolds, PTL DEF Spec, AutosaveMovesDateOnlyIfOvertaken

\* An autosave reaches writing that was public when it was checked only if
\* another request wrote the row after its first read.
THEOREM AutosaveSparesPublished == Spec => AutosaveSparesPublishedUnlessOvertaken
  <1>1. DateInv /\ [Next]_vars =>
          [\A r \in Reqs : Stored(r) /\ overtaken[r] \in {"no", "loading"}
             => ~ IsPublished(rows[req[r].id].date, checkedAt[r])]_vars
    BY DEF DateInv, ReadHolds, Stored
  <1>2. QED
    BY <1>1, DateHolds, PTL DEF Spec, AutosaveSparesPublishedUnlessOvertaken

-------------------------------------------------------------------------------
(***************************************************************************)
(* When a form stops asking.  What an autosave has read was saved, so an   *)
(* autosave that is refused has found writing that a save has published.   *)
(***************************************************************************)
RefusalOK(r) ==
  /\ req[r].pc = "checking" => req[r].seen \in saved[req[r].id]
  /\ req[r].pc = "marked" /\ ~ req[r].asks => WasPublished(req[r].id)

RefusalInv == \A r \in Reqs : RefusalOK(r)

\* Request r is no further with its check, or with the answer of it.
Stays(r) ==
  /\ req'[r].pc = req[r].pc /\ req'[r].id = req[r].id
  /\ req'[r].seen = req[r].seen /\ req'[r].asks = req[r].asks

\* Dates are saved and arrive, and neither is undone.
LEMMA HistoryGrows ==
  ASSUME Core, [Next]_vars
  PROVE  /\ \A id \in Ids : saved[id] \subseteq saved'[id]
         /\ now <= now' /\ now \in Nat /\ now' \in Nat
  <1>1. now \in Nat /\ (now' = now \/ now' = now + 1)
    <2>1. now \in Nat
      BY EditorAssumption DEF Core
    <2>2. now' = now \/ now' = now + 1
      BY DEF Next, Screen, Blank, Leave, Edit, Press, SubmitMalformed, Submit,
             Timer, AutoFire, Serve, SaveRejected, SaveCreates, SaveUpdates,
             SaveStores, AutoLoad, AutoRefused, AutoAllowed, AutoReread,
             AutoStores, AutoNotSaved, Deliver, DeliverRedirect,
             DeliverRejection, DeliverMarker, Fail, Tick, vars
    <2>3. QED
      BY <2>1, <2>2
  <1>2. \A id \in Ids : saved[id] \subseteq saved'[id]
    <2>1. ASSUME NEW r \in Reqs, NEW id \in Ids, SaveStores(r, id)
          PROVE  \A other \in Ids : saved[other] \subseteq saved'[other]
      BY <2>1 DEF SaveStores, Core, HistoryOK
    <2>2. \/ saved' = saved
          \/ \E r \in Reqs, id \in Ids : SaveStores(r, id)
      BY DEF Next, Screen, Blank, Leave, Edit, Press, SubmitMalformed, Submit,
             Timer, AutoFire, Serve, SaveRejected, SaveCreates, SaveUpdates,
             AutoLoad, AutoRefused, AutoAllowed, AutoReread,
             AutoStores, AutoNotSaved, Deliver, DeliverRedirect,
             DeliverRejection, DeliverMarker, Fail, Tick, vars, history
    <2>3. QED
      BY <2>1, <2>2
  <1>3. QED
    BY <1>1, <1>2

LEMMA StaysOK ==
  ASSUME Core, RefusalInv, [Next]_vars, NEW r \in Reqs, Stays(r)
  PROVE  RefusalOK(r)'
  <1>1. req[r].pc \in AutoPcs => req[r].id \in Ids
    BY DEF Core, ReqOK, Existing
  <1>2. ASSUME req[r].pc = "marked", ~ req[r].asks
        PROVE  WasPublished(req[r].id)'
    <2>1. PICK date \in saved[req[r].id] : IsPublished(date, now)
      BY <1>2 DEF RefusalInv, RefusalOK, WasPublished
    <2>2. req[r].id \in Ids
      BY <1>1, <1>2 DEF AutoPcs
    <2>3. date \in Date
      BY <2>1, <2>2 DEF Core, HistoryOK
    <2>4. date \in saved'[req[r].id] /\ IsPublished(date, now')
      BY <2>1, <2>2, <2>3, HistoryGrows DEF IsPublished, Date
    <2>5. req'[r].id = req[r].id
      BY DEF Stays
    <2>6. QED
      BY <2>4, <2>5 DEF WasPublished
  <1>3. req[r].pc = "checking" => req[r].seen \in saved'[req[r].id]
    BY <1>1, HistoryGrows DEF RefusalInv, RefusalOK, AutoPcs, RunPcs
  <1>4. QED
    BY <1>2, <1>3 DEF RefusalOK, Stays, WasPublished

\* One request goes on, and none of the others does.
LEMMA OthersStay ==
  ASSUME Core, NEW r \in Reqs, NEW next, Goes(r, next)
  PROVE  req'[r] = next /\ \A q \in Reqs \ {r} : Stays(q)
  BY DEF Core, Goes, Stays

LEMMA RefusalStep == Core /\ DateInv /\ RefusalInv /\ [Next]_vars => RefusalInv'
  <1> SUFFICES ASSUME Core, DateInv, RefusalInv, [Next]_vars
               PROVE  RefusalInv'
    OBVIOUS
  <1> DEFINE Ends(r) == req'[r].pc \notin {"checking", "marked"}
  <1>1. ASSUME \A r \in Reqs : Stays(r) \/ Ends(r) \/ RefusalOK(r)'
        PROVE  RefusalInv'
    <2>1. \A r \in Reqs : Ends(r) => RefusalOK(r)'
      BY DEF RefusalOK
    <2>2. QED
      BY <1>1, <2>1, StaysOK DEF RefusalInv
  <1>2. ASSUME NEW r \in Reqs, NEW next, Goes(r, next),
               next.pc \notin {"checking", "marked"} \/ RefusalOK(r)'
        PROVE  RefusalInv'
    BY <1>1, <1>2, OthersStay
  <1>3. ASSUME NEW t \in Tabs, Screen(t)
        PROVE  RefusalInv'
    <2>1. req' = Detached(SavePcs \union AutoPcs, t)
      BY <1>3 DEF Screen, Blank, Leave, Edit
    <2>2. QED
      BY <1>1, <2>1, DetachedFields DEF Core, Stays
  <1>4. ASSUME NEW r \in Reqs, NEW t \in Tabs, Press(r, t)
        PROVE  RefusalInv'
    <2>1. PICK next : Goes(r, next)
      BY <1>4 DEF Press, SubmitMalformed, Submit
    <2>2. req'[r].pc \in {"rejected", "saving"}
      BY <1>4 DEF Press, SubmitMalformed, Submit, Submitted, Goes, Core, Idle
    <2>3. QED
      BY <1>2, <2>1, <2>2, OthersStay
  <1>5. ASSUME NEW r \in Reqs, NEW t \in Tabs, Timer(r, t)
        PROVE  RefusalInv'
    <2>1. PICK text \in Typed, typed \in TypedDates : AutoFire(r, t, text, typed)
      BY <1>5 DEF Timer
    <2>2. PICK next : Goes(r, next)
      BY <2>1 DEF AutoFire
    <2>3. req'[r].pc = "loading"
      BY <2>1 DEF AutoFire, Goes, Core, Idle
    <2>4. QED
      BY <1>2, <2>2, <2>3, OthersStay
  <1>6. ASSUME NEW r \in Reqs,
               \/ SaveRejected(r) \/ Fail(r) \/ DeliverMarker(r)
               \/ \E id \in Ids : SaveStores(r, id)
        PROVE  RefusalInv'
    <2>1. PICK next : /\ Goes(r, next)
                      /\ \/ next = Idle
                         \/ \E id : next = Answer(r, "redirected", id, FALSE)
                         \/ next = Answer(r, "rejected", req[r].id, req[r].asks)
      BY <1>6 DEF SaveRejected, Fail, DeliverMarker, SaveStores
    <2>2. \A id, asks : /\ Answer(r, "redirected", id, asks).pc = "redirected"
                        /\ Answer(r, "rejected", id, asks).pc = "rejected"
      BY DEF Answer, Idle
    <2>3. next.pc \notin {"checking", "marked"}
      BY <2>1, <2>2, IdleLate
    <2>4. QED
      BY <1>2, <2>1, <2>3
  <1>7. ASSUME NEW r \in Reqs, DeliverRedirect(r) \/ DeliverRejection(r)
        PROVE  RefusalInv'
    <2>1. req' = [Detached(AutoPcs, req[r].tab) EXCEPT ![r] = Idle]
      BY <1>7 DEF DeliverRedirect, DeliverRejection
    <2>2. Detached(AutoPcs, req[r].tab) \in [Reqs -> Request]
      BY DetachedFields DEF Core
    <2>3. req'[r] = Idle
      BY <2>1, <2>2
    <2>4. \A q \in Reqs \ {r} : Stays(q)
      <3>1. \A q \in Reqs \ {r} : req'[q] = Detached(AutoPcs, req[r].tab)[q]
        BY <2>1, <2>2
      <3>2. QED
        BY <3>1, DetachedFields DEF Core, Stays
    <2>5. QED
      BY <1>1, <2>3, <2>4, IdleLate
  <1>8. ASSUME NEW r \in Reqs, AutoLoad(r)
        PROVE  RefusalInv'
    <2>1. /\ req'[r].pc = "checking" /\ req'[r].seen = rows[req[r].id].date
          /\ req'[r].id = req[r].id
      BY <1>8 DEF AutoLoad, Goes, Core, Request
    <2>2. req[r].id \in Existing(rows) /\ saved' = saved
      BY <1>8 DEF AutoLoad, Core, ReqOK, AutoPcs, RunPcs, history
    <2>3. RefusalOK(r)'
      BY <2>1, <2>2 DEF RefusalOK, DateInv, DatesSaved, OnlySavedDates
    <2>4. QED
      BY <1>2, <1>8, <2>3 DEF AutoLoad
  <1>9. ASSUME NEW r \in Reqs, AutoAllowed(r) \/ AutoReread(r)
        PROVE  RefusalInv'
    <2>1. PICK next : Goes(r, next)
      BY <1>9 DEF AutoAllowed, AutoReread
    <2>2. req'[r].pc \in {"rereading", "storing"}
      BY <1>9 DEF AutoAllowed, AutoReread, Goes, Core, Request
    <2>3. QED
      BY <1>2, <2>1, <2>2, OthersStay
  <1>10. ASSUME NEW r \in Reqs, AutoRefused(r)
         PROVE  RefusalInv'
    <2>1. /\ IsPublished(req[r].seen, now) /\ req[r].seen \in saved[req[r].id]
          /\ UNCHANGED <<saved, now>>
      BY <1>10 DEF AutoRefused, RefusalInv, RefusalOK
    <2>2. req'[r].pc = "marked" /\ req'[r].id = req[r].id
      BY <1>10 DEF AutoRefused, Goes, Core, Answer, Idle
    <2>3. WasPublished(req[r].id)'
      BY <2>1, <2>2 DEF WasPublished
    <2>4. RefusalOK(r)'
      BY <2>2, <2>3 DEF RefusalOK
    <2>5. QED
      BY <1>2, <1>10, <2>4 DEF AutoRefused
  <1>11. ASSUME NEW r \in Reqs, AutoStores(r) \/ AutoNotSaved(r)
         PROVE  RefusalInv'
    <2>1. req'[r].pc = "marked" /\ req'[r].asks
      BY <1>11 DEF AutoStores, AutoNotSaved, Goes, Core, Answer, Idle
    <2>2. RefusalOK(r)'
      BY <2>1 DEF RefusalOK
    <2>3. QED
      BY <1>2, <1>11, <2>2 DEF AutoStores, AutoNotSaved
  <1>12. CASE Tick \/ UNCHANGED vars
    BY <1>1, <1>12 DEF Tick, vars, Stays
  <1>13. ASSUME NEW r \in Reqs, Serve(r) \/ Deliver(r) \/ Fail(r)
         PROVE  RefusalInv'
    BY <1>6, <1>7, <1>8, <1>9, <1>10, <1>11, <1>13
       DEF Serve, Deliver, SaveCreates, SaveUpdates
  <1>14. QED
    BY <1>3, <1>4, <1>5, <1>12, <1>13 DEF Next

\* A screen that is drawn from the row asks if the row is not public.
LEMMA EditFormAsks ==
  ASSUME DateInv, NEW id \in Existing(rows), ~ EditForm(id).asks
  PROVE  WasPublished(id)
  BY DEF EditForm, Asks, DateInv, DatesSaved, OnlySavedDates, WasPublished

\* Autosave of a form ends for writing that was published by a save, or with
\* the form: no failure, refused text, lost answer or other tab silences it.
THEOREM AutosaveStopsForPublishing == Spec => OnlyPublishingStopsAutosave
  <1>1. ASSUME Core, DateInv, RefusalInv, [Next]_vars, NEW t \in Tabs,
               form[t].asks, form'[t].open, form'[t].id = form[t].id,
               ~ form'[t].asks, ~ ComesBack(t)
        PROVE  WasPublished(form[t].id)
    <2>1. /\ form[t].id \in Existing(rows) /\ form[t].id # NoId
          /\ form[t].id \in Ids
      BY <1>1, ContentAssumption DEF Core, FormOK, Existing
    <2>2. ASSUME NEW u \in Tabs, Screen(u)
          PROVE  WasPublished(form[t].id)
      <3>1. u = t /\ \E id \in Existing(rows) : form'[t] = EditForm(id)
        BY <1>1, <2>1, <2>2 DEF Screen, Blank, Leave, Edit, NoForm, Core
      <3>2. PICK id \in Existing(rows) : form'[t] = EditForm(id)
        BY <3>1
      <3>3. id = form[t].id /\ ~ EditForm(id).asks
        BY <1>1, <3>2 DEF EditForm
      <3>4. QED
        BY <1>1, <3>3, <2>1, EditFormAsks
    <2>3. ASSUME NEW r \in Reqs, DeliverRedirect(r)
          PROVE  WasPublished(form[t].id)
      <3>1. form'[t] = EditForm(req[r].id)
        BY <1>1, <2>3 DEF DeliverRedirect, Core
      <3>2. req[r].id = form[t].id /\ ~ EditForm(req[r].id).asks
        BY <1>1, <3>1 DEF EditForm
      <3>3. QED
        BY <1>1, <3>2, <2>1, EditFormAsks
    <2>4. ASSUME NEW r \in Reqs, DeliverRejection(r)
          PROVE  FALSE
      <3>1. req[r].tab = t
        BY <1>1, <2>4 DEF DeliverRejection, Core
      <3>2. req'[r].pc = "idle"
        <4>1. Detached(AutoPcs, req[r].tab) \in [Reqs -> Request]
          BY <1>1, DetachedFields DEF Core
        <4>2. QED
          BY <2>4, <4>1, IdleLate DEF DeliverRejection
      <3>3. QED
        BY <1>1, <2>4, <3>1, <3>2 DEF ComesBack, DeliverRejection
    <2>5. ASSUME NEW r \in Reqs, DeliverMarker(r)
          PROVE  WasPublished(form[t].id)
      <3>1. req[r].tab = t /\ req[r].pc = "marked" /\ ~ req[r].asks
        BY <1>1, <2>5 DEF DeliverMarker, Core, Form
      <3>2. form[t].id = req[r].id
        BY <1>1, <3>1 DEF Core, AttachedOK, AutoPcs
      <3>3. QED
        BY <1>1, <3>1, <3>2 DEF RefusalInv, RefusalOK
    <2>6. \/ form' = form
          \/ \E u \in Tabs : Screen(u)
          \/ \E r \in Reqs : DeliverRedirect(r) \/ DeliverRejection(r) \/ DeliverMarker(r)
      BY <1>1 DEF Next, Press, SubmitMalformed, Submit, Timer, AutoFire, Serve,
         SaveRejected, SaveCreates, SaveUpdates, SaveStores, AutoLoad,
         AutoRefused, AutoAllowed, AutoReread, AutoStores, AutoNotSaved,
         Deliver, Fail, Tick, vars
    <2>7. QED
      BY <1>1, <2>2, <2>3, <2>4, <2>5, <2>6
  <1>2. Core /\ DateInv /\ RefusalInv /\ [Next]_vars =>
          [\A t \in Tabs :
             /\ form[t].asks /\ form'[t].open /\ form'[t].id = form[t].id
             /\ ~ form'[t].asks /\ ~ ComesBack(t)
             => WasPublished(form[t].id)]_vars
    BY <1>1
  <1>3. Init => RefusalInv
    BY DEF Init, RefusalInv, RefusalOK, Idle
  <1>4. QED
    BY <1>2, <1>3, RefusalStep, CoreHolds, DateHolds, PTL
       DEF Spec, OnlyPublishingStopsAutosave

-------------------------------------------------------------------------------
(***************************************************************************)
(* Refinement.  With autosaves isolated, a press is Ask, a save is Create  *)
(* or Save, a refusal or a failure of one is Drop, a stored autosave is    *)
(* Revise, and nothing else touches rows, the saves in flight or the clock. *)
(***************************************************************************)
LEMMA SameOperators ==
  /\ \A id, text : W!Refused(rows, id, text) <=> Refused(rows, id, text)
  /\ W!Existing(rows) = Existing(rows)
  /\ \A date, t : W!IsPublished(date, t) <=> IsPublished(date, t)
  BY DEF W!Refused, W!SlugFormat, W!TitlePresent, W!SlugKey, W!Existing,
         W!IsPublished, Refused, SlugFormat, TitlePresent, SlugKey, Existing,
         IsPublished

\* Request r is to Writing what it was.
Kept(r) ==
  /\ req'[r].pc = "saving" <=> req[r].pc = "saving"
  /\ req[r].pc = "saving" =>
       /\ req'[r].id = req[r].id
       /\ req'[r].text = req[r].text
       /\ req'[r].date = req[r].date

LEMMA SentStays ==
  ASSUME \A q \in Reqs : Kept(q)
  PROVE  AllSent' = AllSent
  BY DEF AllSent, Sent, Kept

LEMMA SentGoes ==
  ASSUME NEW r \in Reqs, req[r].pc = "saving", req'[r].pc # "saving",
         \A q \in Reqs \ {r} : Kept(q)
  PROVE  Sent(r) \in AllSent /\ AllSent' = AllSent \ {Sent(r)}
  <1>1. \A q \in Reqs \ {r} : Sent(q) # Sent(r) /\ Sent(q).by = q
    BY DEF Sent
  <1>2. QED
    BY <1>1 DEF AllSent, Sent, Kept

LEMMA SentComes ==
  ASSUME NEW r \in Reqs, req[r].pc # "saving", req'[r].pc = "saving",
         \A q \in Reqs \ {r} : Kept(q)
  PROVE  /\ AllSent' = AllSent \union {Sent(r)'}
         /\ \A other \in AllSent : other.by # r
  BY DEF AllSent, Sent, Kept

\* One request that was not being saved goes on to something that is not.
LEMMA OneRequestKept ==
  ASSUME Core, NEW r \in Reqs, NEW next, Goes(r, next),
         req[r].pc # "saving", next.pc # "saving"
  PROVE  \A q \in Reqs : Kept(q)
  BY DEF Core, Goes, Kept

LEMMA AnswerLate ==
  ASSUME NEW r, NEW pc \in {"redirected", "rejected", "marked"}, NEW id, NEW asks
  PROVE  Answer(r, pc, id, asks).pc # "saving"
  BY DEF Answer, Idle

LEMMA SaveImplements ==
  ASSUME Core, NEW r \in Reqs, NEW id \in Ids,
         SaveCreates(r, id) \/ SaveUpdates(r, id)
  PROVE  W!Explicit
  <1> DEFINE save == Sent(r)
  <1>1. /\ rows' = [rows EXCEPT ![id] = [text |-> req[r].text, date |-> req[r].date]]
        /\ now' = now
    BY WriterFits, SaveStoresCore DEF SaveStores
  <1>2. save \in AllSent /\ AllSent' = AllSent \ {save}
    <2>1. Goes(r, Answer(r, "redirected", id, FALSE)) /\ req[r].pc = "saving"
      BY WriterFits DEF SaveStores
    <2>2. req'[r].pc # "saving" /\ \A q \in Reqs \ {r} : Kept(q)
      BY <2>1, AnswerLate DEF Core, Goes, Kept
    <2>3. QED
      BY <2>1, <2>2, SentGoes
  <1>3. ~ Refused(rows, id, req[r].text)
    BY WriterFits, ContentAssumption DEF Refused, SlugKey, Existing
  <1>4. W!Decide(save, id)
    BY <1>1, <1>2, <1>3, SameOperators DEF W!Decide, Sent
  <1>5. W!Create(save, id) \/ W!Save(save, id)
    <2>1. CASE SaveCreates(r, id)
      BY <1>4, <2>1 DEF W!Create, SaveCreates, Sent, Existing
    <2>2. CASE SaveUpdates(r, id)
      <3>1. req[r].id = id /\ ReqOK(req[r], rows)
        BY <2>2 DEF SaveUpdates, Core
      <3>2. id \in Existing(rows)
        BY <3>1, ContentAssumption DEF ReqOK
      <3>3. QED
        BY <1>4, <3>1, <3>2, SameOperators DEF W!Save, Sent
    <2>3. QED
      BY <2>1, <2>2
  <1>6. QED
    BY <1>2, <1>5 DEF W!Explicit

LEMMA AutosaveImplements ==
  ASSUME Core, DateInv, Isolated, NEW r \in Reqs, AutoStores(r)
  PROVE  W!WNext
  <1> DEFINE id == req[r].id
             text == req[r].text
  <1>1. req[r].pc = "storing" /\ ~ Refused(rows, id, text) /\ now' = now
    BY DEF AutoStores
  <1>2. Stored(r)
    BY <1>1 DEF Stored, AutoStores, Goes, Core, Answer, Idle
  <1>3. overtaken[r] # "storing" /\ ~ IsPublished(rows[id].date, now)
    BY <1>2 DEF Isolated
  <1>4. req[r].seen = rows[id].date
    BY <1>1, <1>3 DEF DateInv, ReadHolds
  <1>5. /\ id \in Existing(rows) /\ id \in Ids /\ rows[id] \in Row
        /\ rows' = [rows EXCEPT ![id] = [text |-> text, date |-> rows[id].date]]
    BY <1>4, AutoStoresCore DEF Existing, Core
  <1>6. [rows[id] EXCEPT !.text = text] = [text |-> text, date |-> rows[id].date]
    BY <1>5 DEF Row
  <1>7. rows' = [rows EXCEPT ![id].text = text]
    BY <1>5, <1>6
  <1>8. text \in Typed
    BY <1>1 DEF Core, ReqOK, RunPcs
  <1>9. W!Revise(id, text)
    <2>1. AllSent' = AllSent
      <3>1. \A q \in Reqs : Kept(q)
        BY <1>1, AnswerLate, OneRequestKept DEF AutoStores
      <3>2. QED
        BY <3>1, SentStays
    <2>2. QED
      BY <1>1, <1>3, <1>5, <1>7, <2>1, SameOperators DEF W!Revise
  <1>10. QED
    BY <1>5, <1>8, <1>9 DEF W!WNext

\* The Author's explicit saves are sent one by one.
LEMMA PressImplements ==
  ASSUME Core, Core', NEW r \in Reqs, NEW t \in Tabs, Press(r, t)
  PROVE  W!Explicit \/ UNCHANGED W!wvars
  <1>1. CASE SubmitMalformed(r, t)
    <2>1. \A q \in Reqs : Kept(q)
      <3> DEFINE next == [Idle EXCEPT !.pc = "rejected", !.tab = t,
                                      !.id = form[t].id]
      <3>1. Goes(r, next) /\ next.pc = "rejected"
        BY <1>1 DEF SubmitMalformed, Idle
      <3> HIDE DEF next
      <3>2. req[r].pc # "saving"
        BY <1>1, IdleLate DEF SubmitMalformed, CanSubmit
      <3>3. QED
        BY <3>1, <3>2, OneRequestKept
    <2>2. QED
      BY <1>1, <2>1, SentStays DEF SubmitMalformed, W!wvars
  <1>2. ASSUME NEW text, NEW typed, NEW button, Submit(r, t, text, typed, button)
        PROVE  W!Explicit
    <2>1. /\ req[r] = Idle /\ UNCHANGED <<rows, now>>
          /\ Goes(r, Submitted(t, text, typed, button))
      BY <1>2 DEF Submit, CanSubmit
    <2>2. req'[r].pc = "saving" /\ \A q \in Reqs \ {r} : Kept(q)
      BY <2>1 DEF Core, Goes, Kept, Submitted, Idle
    <2>3. /\ AllSent' = AllSent \union {Sent(r)'}
          /\ \A other \in AllSent : other.by # r
      BY <2>1, <2>2, IdleLate, SentComes
    <2>4. Sent(r)' \in W!Saves
      <3>1. ReqOK(req[r], rows)' /\ req'[r] \in Request
        BY DEF Core
      <3>2. /\ req'[r].text \in Typed /\ req'[r].date \in ChosenDates
            /\ req'[r].id \in Ids \union {NoId}
        BY <2>2, <3>1 DEF ReqOK, Request
      <3>3. QED
        BY <3>2 DEF W!Saves, Sent
    <2>5. W!Ask(Sent(r)')
      BY <2>1, <2>3 DEF W!Ask, Sent
    <2>6. QED
      BY <2>4, <2>5 DEF W!Explicit
  <1>3. QED
    BY <1>1, <1>2 DEF Press

\* A save that a constraint refuses, or that is lost, is dropped.
LEMMA LossImplements ==
  ASSUME Core, NEW r \in Reqs, SaveRejected(r) \/ Fail(r)
  PROVE  W!Explicit \/ UNCHANGED W!wvars
  <1>1. PICK next : Goes(r, next) /\ next.pc # "saving"
    BY AnswerLate, IdleLate DEF SaveRejected, Fail
  <1>2. UNCHANGED <<rows, now>>
    BY DEF SaveRejected, Fail
  <1>3. CASE req[r].pc = "saving"
    <2>1. req'[r].pc # "saving" /\ \A q \in Reqs \ {r} : Kept(q)
      BY <1>1 DEF Core, Goes, Kept
    <2>2. W!Drop(Sent(r)) /\ Sent(r) \in AllSent
      BY <1>2, <1>3, <2>1, SentGoes DEF W!Drop
    <2>3. QED
      BY <2>2 DEF W!Explicit
  <1>4. CASE req[r].pc # "saving"
    BY <1>1, <1>2, <1>4, OneRequestKept, SentStays DEF W!wvars
  <1>5. QED
    BY <1>3, <1>4

\* What is left moves no row and no save: what the Author opens ...
LEMMA ScreenKeeps ==
  ASSUME Core, NEW t \in Tabs, Screen(t)
  PROVE  UNCHANGED W!wvars
  <1>1. UNCHANGED <<rows, now>> /\ req' = Detached(SavePcs \union AutoPcs, t)
    BY DEF Screen, Blank, Leave, Edit
  <1>2. \A q \in Reqs : Kept(q)
    BY <1>1, DetachedFields DEF Core, Kept
  <1>3. QED
    BY <1>1, <1>2, SentStays DEF W!wvars

\* ... and all that comes of autosaves short of their write.
LEMMA OthersKeep ==
  ASSUME Core, NEW r \in Reqs,
         \/ \E t \in Tabs : Timer(r, t)
         \/ Deliver(r)
         \/ AutoLoad(r) \/ AutoRefused(r) \/ AutoAllowed(r) \/ AutoReread(r)
         \/ AutoNotSaved(r)
  PROVE  UNCHANGED W!wvars
  <1>1. UNCHANGED <<rows, now>>
    BY DEF Timer, AutoFire, Deliver, DeliverRedirect, DeliverRejection,
           DeliverMarker, AutoLoad, AutoRefused, AutoAllowed,
           AutoReread, AutoNotSaved
  <1>2. \A q \in Reqs : Kept(q)
    <2>1. CASE \E t \in Tabs : Timer(r, t)
      BY <2>1, IdleLate DEF Timer, AutoFire, Goes, Core, Kept, Idle
    <2>3. CASE DeliverRedirect(r) \/ DeliverRejection(r)
      <3>1. /\ req' = [Detached(AutoPcs, req[r].tab) EXCEPT ![r] = Idle]
            /\ req[r].pc # "saving"
        BY <2>3 DEF DeliverRedirect, DeliverRejection
      <3>2. Detached(AutoPcs, req[r].tab) \in [Reqs -> Request]
        BY DetachedFields DEF Core
      <3>3. QED
        BY <3>1, <3>2, IdleLate, DetachedFields DEF Core, Kept
    <2>4. CASE DeliverMarker(r)
      BY <2>4, IdleLate, OneRequestKept DEF DeliverMarker
    <2>5. CASE AutoRefused(r) \/ AutoNotSaved(r)
      BY <2>5, AnswerLate, OneRequestKept DEF AutoRefused, AutoNotSaved
    <2>6. CASE AutoLoad(r) \/ AutoAllowed(r) \/ AutoReread(r)
      <3>1. req[r].pc \in RunPcs
        BY <2>6 DEF AutoLoad, AutoAllowed, AutoReread, RunPcs
      <3>2. req'[r].pc \in RunPcs /\ \A q \in Reqs \ {r} : req'[q] = req[q]
        BY <2>6 DEF AutoLoad, AutoAllowed, AutoReread, Goes, Core, Request, RunPcs
      <3>3. QED
        BY <3>1, <3>2 DEF Kept, RunPcs
    <2>7. QED
      BY <2>1, <2>3, <2>4, <2>5, <2>6 DEF Deliver
  <1>3. QED
    BY <1>1, <1>2, SentStays DEF W!wvars

\* The editor implements what it promises the Author in every step in which no
\* save falls between an autosave's read and its write.
THEOREM EditorImplementsWriting == Spec => ImplementsWriting
  <1>1. Init => W!WInit
    BY DEF Init, W!WInit, AllSent, Idle
  <1>2. ASSUME Core, DateInv, [Next]_vars, Isolated
        PROVE  [W!WNext]_(W!wvars)
    <2>1. [Next]_vars /\ Core'
      BY <1>2, CoreStep
    <2>2. CASE UNCHANGED vars
      BY <2>2 DEF vars, W!wvars, AllSent, Sent
    <2>3. ASSUME NEW r \in Reqs, NEW t \in Tabs, Press(r, t)
          PROVE  W!WNext \/ UNCHANGED W!wvars
      BY <1>2, <2>1, <2>3, PressImplements DEF W!WNext
    <2>4. ASSUME NEW r \in Reqs, NEW id \in Ids,
                 SaveCreates(r, id) \/ SaveUpdates(r, id)
          PROVE  W!WNext
      BY <1>2, <2>4, SaveImplements DEF W!WNext
    <2>5. ASSUME NEW r \in Reqs, SaveRejected(r) \/ Fail(r)
          PROVE  W!WNext \/ UNCHANGED W!wvars
      BY <1>2, <2>5, LossImplements DEF W!WNext
    <2>6. ASSUME NEW r \in Reqs, AutoStores(r)
          PROVE  W!WNext
      BY <1>2, <2>6, AutosaveImplements
    <2>7. CASE Tick
      BY <2>7 DEF Tick, W!WNext, W!Explicit, W!Elapse, AllSent, Sent
    <2>8. ASSUME NEW r \in Reqs,
                 \/ \E t \in Tabs : Timer(r, t)
                 \/ Deliver(r)
                 \/ AutoLoad(r) \/ AutoRefused(r) \/ AutoAllowed(r)
                 \/ AutoReread(r) \/ AutoNotSaved(r)
          PROVE  UNCHANGED W!wvars
      BY <1>2, <2>8, OthersKeep
    <2>9. QED
      BY <1>2, <2>1, <2>2, <2>3, <2>4, <2>5, <2>6, <2>7, <2>8, ScreenKeeps
         DEF Next, Serve
  <1>3. ASSUME Core, DateInv, [Next]_vars
        PROVE  [Isolated => [W!WNext]_(W!wvars)]_vars
    BY <1>2, <1>3
  <1>4. QED
    BY <1>1, <1>3, CoreHolds, DateHolds, PTL DEF Spec, ImplementsWriting

\* With all its autosaves isolated, it is the editor that Writing specifies.
THEOREM IsolatedEditorIsWriting == IsolatedSpec => WritingSpec
  <1>1. ASSUME [Next /\ Isolated]_vars, [Isolated => [W!WNext]_(W!wvars)]_vars
        PROVE  [W!WNext]_(W!wvars)
    BY <1>1 DEF vars, W!wvars, AllSent, Sent
  <1>2. [Next /\ Isolated]_vars => [Next]_vars
    OBVIOUS
  <1>3. QED
    BY <1>1, <1>2, EditorImplementsWriting, PTL
       DEF IsolatedSpec, Spec, ImplementsWriting, WritingSpec, W!WSpec

-------------------------------------------------------------------------------
(***************************************************************************)
(* Refinement of Drafting, in every step.  An autosave's first read is     *)
(* Begin, its check Admit, its second read LookAgain and its UPDATE        *)
(* PutBack; wherever it ends short of that is Abandon.                     *)
(***************************************************************************)
LEMMA SameInDrafting ==
  /\ \A id, text : D!Refused(rows, id, text) <=> Refused(rows, id, text)
  /\ D!Existing(rows) = Existing(rows)
  /\ \A date, t : D!IsPublished(date, t) <=> IsPublished(date, t)
  BY DEF D!Refused, D!SlugFormat, D!TitlePresent, D!SlugKey, D!Existing,
         D!IsPublished, Refused, SlugFormat, TitlePresent, SlugKey, Existing,
         IsPublished

\* What Drafting takes over from Writing is the same.
LEMMA SameExplicit == W!Explicit => D!Explicit
  <1>1. \A save : W!Ask(save) => D!Ask(save)
    BY DEF W!Ask, D!Ask
  <1>2. \A save : W!Drop(save) => D!Drop(save)
    BY DEF W!Drop, D!Drop
  <1>3. \A save, id : W!Decide(save, id) => D!Decide(save, id)
    BY SameOperators, SameInDrafting DEF W!Decide, D!Decide
  <1>4. \A save, id : W!Create(save, id) => D!Create(save, id)
    BY <1>3 DEF W!Create, D!Create
  <1>5. \A save, id : W!Save(save, id) => D!Save(save, id)
    BY <1>3, SameOperators, SameInDrafting DEF W!Save, D!Save
  <1>6. W!Elapse => D!Elapse /\ W!Saves = D!Saves
    BY DEF W!Elapse, D!Elapse, W!Saves, D!Saves
  <1>7. W!Saves = D!Saves
    BY DEF W!Saves, D!Saves
  <1>8. QED
    BY <1>1, <1>2, <1>4, <1>5, <1>6, <1>7 DEF W!Explicit, D!Explicit

\* Request r is to Drafting the autosave it was, or none as it was.
Held(r) ==
  /\ req'[r].pc \in LatePcs <=> req[r].pc \in LatePcs
  /\ req[r].pc \in LatePcs => Looked(r)' = Looked(r)

LEMMA LookedStays ==
  ASSUME \A q \in Reqs : Held(q)
  PROVE  AllLooked' = AllLooked
  BY DEF AllLooked, Held

LEMMA LookedComes ==
  ASSUME NEW r \in Reqs, req[r].pc \notin LatePcs, req'[r].pc \in LatePcs,
         \A q \in Reqs \ {r} : Held(q)
  PROVE  /\ AllLooked' = AllLooked \union {Looked(r)'}
         /\ \A d \in AllLooked : d.by # r
  <1>1. \A q \in Reqs : Looked(q).by = q
    BY DEF Looked
  <1>2. QED
    BY <1>1 DEF AllLooked, Held

LEMMA LookedGoes ==
  ASSUME NEW r \in Reqs, req[r].pc \in LatePcs, req'[r].pc \notin LatePcs,
         \A q \in Reqs \ {r} : Held(q)
  PROVE  Looked(r) \in AllLooked /\ AllLooked' = AllLooked \ {Looked(r)}
  <1>1. \A q \in Reqs : Looked(q).by = q
    BY DEF Looked
  <1>2. QED
    BY <1>1 DEF AllLooked, Held

LEMMA LookedBecomes ==
  ASSUME NEW r \in Reqs, req[r].pc \in LatePcs, req'[r].pc \in LatePcs,
         \A q \in Reqs \ {r} : Held(q)
  PROVE  /\ Looked(r) \in AllLooked
         /\ AllLooked' = (AllLooked \ {Looked(r)}) \union {Looked(r)'}
  <1>1. \A q \in Reqs : Looked(q).by = q
    BY DEF Looked
  <1>2. QED
    BY <1>1 DEF AllLooked, Held

\* A step of one request leaves the autosaves of the others as they are.
LEMMA OthersHeld ==
  ASSUME Core, NEW r \in Reqs, NEW next, Goes(r, next)
  PROVE  req'[r] = next /\ \A q \in Reqs \ {r} : Held(q)
  <1>1. req'[r] = next /\ \A q \in Reqs \ {r} : req'[q] = req[q]
    BY DEF Core, Goes
  <1>2. QED
    BY <1>1 DEF Held, Looked

LEMMA OneRequestHeld ==
  ASSUME Core, NEW r \in Reqs, NEW next, Goes(r, next),
         req[r].pc \notin LatePcs, next.pc \notin LatePcs
  PROVE  AllLooked' = AllLooked
  BY OthersHeld, LookedStays DEF Held

LEMMA AnswerEnds ==
  ASSUME NEW r, NEW pc \in {"redirected", "rejected", "marked"}, NEW id, NEW asks
  PROVE  Answer(r, pc, id, asks).pc \notin LatePcs
  BY DEF Answer, Idle, LatePcs

LEMMA IdleEnds == Idle.pc \notin LatePcs
  BY DEF Idle, LatePcs

\* The Author, and an explicit save until it is decided, change no autosave.
LEMMA SavesHold ==
  ASSUME Core, NEW r \in Reqs,
         \/ \E t \in Tabs : Press(r, t)
         \/ \E id \in Ids : SaveCreates(r, id) \/ SaveUpdates(r, id)
         \/ SaveRejected(r)
         \/ Fail(r) /\ req[r].pc \notin LatePcs
  PROVE  AllLooked' = AllLooked
  <1>1. ASSUME NEW t \in Tabs, Press(r, t)
        PROVE  AllLooked' = AllLooked
    <2>1. req[r] = Idle
      BY <1>1 DEF Press, SubmitMalformed, Submit, CanSubmit
    <2>2. PICK next : Goes(r, next)
      BY <1>1 DEF Press, SubmitMalformed, Submit
    <2>3. req'[r].pc \in {"rejected", "saving"}
      BY <1>1 DEF Press, SubmitMalformed, Submit, Submitted, Goes, Core, Idle
    <2>4. QED
      BY <2>1, <2>2, <2>3, IdleEnds, OthersHeld, OneRequestHeld DEF LatePcs
  <1>2. ASSUME NEW id \in Ids, SaveCreates(r, id) \/ SaveUpdates(r, id)
        PROVE  AllLooked' = AllLooked
    <2>1. Goes(r, Answer(r, "redirected", id, FALSE)) /\ req[r].pc = "saving"
      BY <1>2 DEF SaveCreates, SaveUpdates, SaveStores
    <2>2. QED
      BY <2>1, AnswerEnds, OneRequestHeld DEF LatePcs
  <1>3. CASE SaveRejected(r)
    BY <1>3, AnswerEnds, OneRequestHeld DEF SaveRejected, LatePcs
  <1>4. CASE Fail(r) /\ req[r].pc \notin LatePcs
    BY <1>4, IdleEnds, OneRequestHeld DEF Fail
  <1>5. QED
    BY <1>1, <1>2, <1>3, <1>4

\* Nor does what the browser shows, or an autosave on its way to the store.
LEMMA BrowserHolds ==
  ASSUME Core,
         \/ \E t \in Tabs : Screen(t)
         \/ \E r \in Reqs : Deliver(r) \/ \E t \in Tabs : Timer(r, t)
  PROVE  AllLooked' = AllLooked
  <1>1. ASSUME NEW t \in Tabs, Screen(t)
        PROVE  AllLooked' = AllLooked
    <2>1. req' = Detached(SavePcs \union AutoPcs, t)
      BY <1>1 DEF Screen, Blank, Leave, Edit
    <2>2. \A q \in Reqs : Held(q)
      BY <2>1, DetachedFields DEF Core, Held, Looked
    <2>3. QED
      BY <2>2, LookedStays
  <1>2. ASSUME NEW r \in Reqs, NEW t \in Tabs, Timer(r, t)
        PROVE  AllLooked' = AllLooked
    <2>1. req[r] = Idle
      BY <1>2 DEF Timer, AutoFire
    <2>2. PICK text \in Typed, typed \in TypedDates : AutoFire(r, t, text, typed)
      BY <1>2 DEF Timer
    <2>3. PICK next : Goes(r, next)
      BY <2>2 DEF AutoFire
    <2>4. req'[r].pc = "loading"
      BY <2>2 DEF AutoFire, Goes, Core, Idle
    <2>5. QED
      BY <2>1, <2>3, <2>4, IdleEnds, OthersHeld, OneRequestHeld DEF LatePcs
  <1>3. ASSUME NEW r \in Reqs, DeliverRedirect(r) \/ DeliverRejection(r)
        PROVE  AllLooked' = AllLooked
    <2>1. /\ req' = [Detached(AutoPcs, req[r].tab) EXCEPT ![r] = Idle]
          /\ req[r].pc \notin LatePcs
      BY <1>3 DEF DeliverRedirect, DeliverRejection, LatePcs
    <2>2. Detached(AutoPcs, req[r].tab) \in [Reqs -> Request]
      BY DetachedFields DEF Core
    <2>3. /\ req'[r] = Idle
          /\ \A q \in Reqs \ {r} : req'[q] = Detached(AutoPcs, req[r].tab)[q]
      BY <2>1, <2>2
    <2>4. Held(r)
      BY <2>1, <2>3, IdleEnds DEF Held
    <2>5. \A q \in Reqs \ {r} : Held(q)
      BY <2>3, DetachedFields DEF Core, Held, Looked
    <2>6. QED
      BY <2>4, <2>5, LookedStays
  <1>4. ASSUME NEW r \in Reqs, DeliverMarker(r)
        PROVE  AllLooked' = AllLooked
    BY <1>4, IdleEnds, OneRequestHeld DEF DeliverMarker, LatePcs
  <1>5. QED
    BY <1>1, <1>2, <1>3, <1>4 DEF Deliver

\* The row of an autosave that runs.
LEMMA RunsOnRow ==
  ASSUME Core, NEW r \in Reqs, req[r].pc \in RunPcs
  PROVE  req[r].id \in Existing(rows) /\ req[r].id \in Ids /\ req[r].text \in Typed
  <1>1. ReqOK(req[r], rows)
    BY DEF Core
  <1>2. QED
    BY <1>1 DEF ReqOK, AutoPcs, Existing

\* The first read.
LEMMA LoadBegins ==
  ASSUME Core, NEW r \in Reqs, AutoLoad(r)
  PROVE  D!DNext
  <1> DEFINE next == [req[r] EXCEPT !.pc = "checking", !.seen = rows[req[r].id].date]
  <1>1. UNCHANGED <<rows, now, AllSent>>
    BY OthersKeep DEF W!wvars
  <1>2. req[r].pc = "loading" /\ Goes(r, next) /\ req[r] \in Request
    BY DEF AutoLoad, Core
  <1>3. /\ next.pc = "checking" /\ next.id = req[r].id /\ next.text = req[r].text
        /\ next.seen = rows[req[r].id].date
    BY <1>2 DEF Request
  <1> HIDE DEF next
  <1>4. req'[r] = next /\ \A q \in Reqs \ {r} : Held(q)
    BY <1>2, OthersHeld
  <1>5. /\ AllLooked' = AllLooked \union {Looked(r)'}
        /\ \A d \in AllLooked : d.by # r
    BY <1>2, <1>3, <1>4, LookedComes DEF LatePcs
  <1>6. Looked(r)' = [by |-> r, id |-> req[r].id, text |-> req[r].text,
                      date |-> rows[req[r].id].date, stage |-> "seen"]
    BY <1>3, <1>4 DEF Looked
  <1>7. D!Begin(r, req[r].id, req[r].text)
    BY <1>1, <1>2, <1>5, <1>6, RunsOnRow, SameInDrafting DEF D!Begin, RunPcs
  <1>8. QED
    BY <1>2, <1>7, RunsOnRow DEF D!DNext, RunPcs

\* The check and the second read.
LEMMA CheckAdmits ==
  ASSUME Core, NEW r \in Reqs, AutoAllowed(r)
  PROVE  D!DNext
  <1> DEFINE next == [req[r] EXCEPT !.pc = "rereading"]
  <1>1. UNCHANGED <<rows, now, AllSent>>
    BY OthersKeep DEF W!wvars
  <1>2. /\ req[r].pc = "checking" /\ ~ IsPublished(req[r].seen, now)
        /\ Goes(r, next) /\ req[r] \in Request
    BY DEF AutoAllowed, Core
  <1>3. /\ next.pc = "rereading" /\ next.id = req[r].id /\ next.text = req[r].text
        /\ next.seen = req[r].seen
    BY <1>2 DEF Request
  <1> HIDE DEF next
  <1>4. req'[r] = next /\ \A q \in Reqs \ {r} : Held(q)
    BY <1>2, OthersHeld
  <1>5. /\ Looked(r) \in AllLooked
        /\ AllLooked' = (AllLooked \ {Looked(r)}) \union {Looked(r)'}
    BY <1>2, <1>3, <1>4, LookedBecomes DEF LatePcs
  <1>6. Looked(r)' = [Looked(r) EXCEPT !.stage = "admitted"]
    BY <1>2, <1>3, <1>4 DEF Looked
  <1>7. Looked(r).date = req[r].seen
    BY DEF Looked
  <1>8. D!Admit(Looked(r))
    BY <1>1, <1>2, <1>5, <1>6, <1>7, SameInDrafting DEF D!Admit, D!Becomes
  <1>9. QED
    BY <1>5, <1>8 DEF D!DNext

LEMMA RereadLooksAgain ==
  ASSUME Core, NEW r \in Reqs, AutoReread(r)
  PROVE  D!DNext
  <1> DEFINE next == [req[r] EXCEPT !.pc = "storing", !.seen = rows[req[r].id].date]
  <1>1. UNCHANGED <<rows, now, AllSent>>
    BY OthersKeep DEF W!wvars
  <1>2. req[r].pc = "rereading" /\ Goes(r, next) /\ req[r] \in Request
    BY DEF AutoReread, Core
  <1>3. /\ next.pc = "storing" /\ next.id = req[r].id /\ next.text = req[r].text
        /\ next.seen = rows[req[r].id].date
    BY <1>2 DEF Request
  <1> HIDE DEF next
  <1>4. req'[r] = next /\ \A q \in Reqs \ {r} : Held(q)
    BY <1>2, OthersHeld
  <1>5. /\ Looked(r) \in AllLooked
        /\ AllLooked' = (AllLooked \ {Looked(r)}) \union {Looked(r)'}
    BY <1>2, <1>3, <1>4, LookedBecomes DEF LatePcs
  <1>6. Looked(r)' = [Looked(r) EXCEPT !.date = rows[Looked(r).id].date]
    BY <1>2, <1>3, <1>4 DEF Looked
  <1>7. D!LookAgain(Looked(r))
    BY <1>1, <1>5, <1>6 DEF D!LookAgain, D!Becomes
  <1>8. QED
    BY <1>5, <1>7 DEF D!DNext

\* The UPDATE.
LEMMA StorePutsBack ==
  ASSUME Core, NEW r \in Reqs, AutoStores(r)
  PROVE  D!DNext
  <1> DEFINE next == Answer(r, "marked", req[r].id, TRUE)
  <1>1. /\ req[r].pc = "storing" /\ now' = now /\ Goes(r, next)
        /\ ~ Refused(rows, req[r].id, req[r].text)
    BY DEF AutoStores
  <1>2. rows' = [rows EXCEPT ![req[r].id] =
                   [text |-> req[r].text, date |-> req[r].seen]]
    BY AutoStoresCore
  <1>3. AllSent' = AllSent
    BY <1>1, AnswerLate, OneRequestKept, SentStays
  <1>4. Looked(r) \in AllLooked /\ AllLooked' = AllLooked \ {Looked(r)}
    <2>1. next.pc \notin LatePcs
      BY AnswerEnds
    <2>2. req'[r] = next /\ \A q \in Reqs \ {r} : Held(q)
      BY <1>1, OthersHeld
    <2>3. QED
      BY <1>1, <2>1, <2>2, LookedGoes DEF LatePcs
  <1>5. /\ Looked(r).id = req[r].id /\ Looked(r).text = req[r].text
        /\ Looked(r).date = req[r].seen /\ Looked(r).stage = "admitted"
    BY <1>1 DEF Looked
  <1>6. D!PutBack(Looked(r))
    BY <1>1, <1>2, <1>3, <1>4, <1>5, SameInDrafting DEF D!PutBack
  <1>7. QED
    BY <1>4, <1>6 DEF D!DNext

\* Refused, not saved or lost.
LEMMA EndAbandons ==
  ASSUME Core, NEW r \in Reqs, req[r].pc \in LatePcs,
         AutoRefused(r) \/ AutoNotSaved(r) \/ Fail(r)
  PROVE  D!DNext
  <1>1. PICK next : Goes(r, next) /\ next.pc \notin LatePcs /\ next.pc # "saving"
    BY AnswerEnds, IdleEnds, AnswerLate, IdleLate
       DEF AutoRefused, AutoNotSaved, Fail
  <1>2. UNCHANGED <<rows, now>>
    BY DEF AutoRefused, AutoNotSaved, Fail
  <1>3. AllSent' = AllSent
    BY <1>1, OneRequestKept, SentStays DEF LatePcs
  <1>4. Looked(r) \in AllLooked /\ AllLooked' = AllLooked \ {Looked(r)}
    BY <1>1, OthersHeld, LookedGoes
  <1>5. D!Abandon(Looked(r))
    BY <1>2, <1>3, <1>4 DEF D!Abandon
  <1>6. QED
    BY <1>4, <1>5 DEF D!DNext

\* The editor implements Drafting in every step, whatever is in flight and
\* whatever is lost.
THEOREM EditorImplementsDrafting == Spec => ImplementsDrafting
  <1>1. Init => D!DInit
    BY DEF Init, D!DInit, D!WInit, AllSent, AllLooked, LatePcs, Idle
  <1>2. ASSUME Core, [Next]_vars
        PROVE  [D!DNext]_(D!dvars)
    <2>1. Core'
      BY <1>2, CoreStep
    <2>2. CASE UNCHANGED vars
      BY <2>2 DEF vars, D!dvars, AllSent, Sent, AllLooked, Looked
    <2>3. ASSUME W!Explicit \/ UNCHANGED W!wvars, AllLooked' = AllLooked
          PROVE  [D!DNext]_(D!dvars)
      BY <2>3, SameExplicit DEF D!DNext, D!dvars, W!wvars
    <2>4. ASSUME NEW r \in Reqs, NEW t \in Tabs, Press(r, t)
          PROVE  [D!DNext]_(D!dvars)
      BY <1>2, <2>1, <2>3, <2>4, PressImplements, SavesHold
    <2>5. ASSUME NEW r \in Reqs, NEW id \in Ids,
                 SaveCreates(r, id) \/ SaveUpdates(r, id)
          PROVE  [D!DNext]_(D!dvars)
      BY <1>2, <2>3, <2>5, SaveImplements, SavesHold
    <2>6. ASSUME NEW r \in Reqs,
                 SaveRejected(r) \/ (Fail(r) /\ req[r].pc \notin LatePcs)
          PROVE  [D!DNext]_(D!dvars)
      BY <1>2, <2>3, <2>6, LossImplements, SavesHold
    <2>7. ASSUME NEW r \in Reqs,
                 \/ AutoRefused(r) \/ AutoNotSaved(r)
                 \/ Fail(r) /\ req[r].pc \in LatePcs
          PROVE  D!DNext
      BY <1>2, <2>7, EndAbandons DEF AutoRefused, AutoNotSaved, LatePcs
    <2>8. ASSUME NEW r \in Reqs,
                 AutoLoad(r) \/ AutoAllowed(r) \/ AutoReread(r) \/ AutoStores(r)
          PROVE  D!DNext
      BY <1>2, <2>8, LoadBegins, CheckAdmits, RereadLooksAgain, StorePutsBack
    <2>9. CASE Tick
      <3>1. W!Explicit
        BY <2>9 DEF Tick, W!Explicit, W!Elapse, AllSent, Sent
      <3>2. AllLooked' = AllLooked
        BY <2>9 DEF Tick, AllLooked, Looked
      <3>3. QED
        BY <2>3, <3>1, <3>2
    <2>10. ASSUME \/ \E t \in Tabs : Screen(t)
                  \/ \E r \in Reqs : Deliver(r) \/ \E t \in Tabs : Timer(r, t)
           PROVE  [D!DNext]_(D!dvars)
      BY <1>2, <2>3, <2>10, BrowserHolds, ScreenKeeps, OthersKeep
    <2>11. ASSUME NEW r \in Reqs, Serve(r) \/ Fail(r)
           PROVE  [D!DNext]_(D!dvars)
      BY <2>5, <2>6, <2>7, <2>8, <2>11 DEF Serve
    <2>12. CASE Next
      <3>1. CASE \E t \in Tabs : Screen(t)
        BY <2>10, <3>1
      <3>2. CASE \E r \in Reqs, t \in Tabs : Press(r, t) \/ Timer(r, t)
        BY <2>4, <2>10, <3>2
      <3>3. CASE \E r \in Reqs : Serve(r) \/ Deliver(r) \/ Fail(r)
        BY <2>10, <2>11, <3>3
      <3>4. QED
        BY <2>9, <2>12, <3>1, <3>2, <3>3 DEF Next
    <2>13. QED
      BY <1>2, <2>2, <2>12
  <1>3. QED
    BY <1>1, <1>2, CoreHolds, PTL DEF Spec, ImplementsDrafting, D!DSpec
=============================================================================
