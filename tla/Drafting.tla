------------------------------- MODULE Drafting -------------------------------
(***************************************************************************)
(* Writing, with what becomes of its Revise when nothing keeps the others  *)
(* away from a row between a look at it and the write.  An autosave has    *)
(* looked at the row, goes on if the date it saw has not arrived, may look *)
(* again, and puts its text there with the date it saw last.  Whatever the *)
(* browser and the requests do, Editor is shown to implement this.         *)
(***************************************************************************)
EXTENDS Writing

VARIABLE drafts  \* the autosaves that have looked at their row

dvars == <<rows, now, asked, drafts>>

DInit == WInit /\ drafts = {}

Becomes(d, next) ==
  /\ drafts' = (drafts \ {d}) \union {next}
  /\ UNCHANGED <<rows, now, asked>>

Begin(r, id, text) ==
  /\ id \in Existing(rows)
  /\ \A d \in drafts : d.by # r
  /\ drafts' = drafts \union
       {[by |-> r, id |-> id, text |-> text, date |-> rows[id].date,
         stage |-> "seen"]}
  /\ UNCHANGED <<rows, now, asked>>

\* What it saw nobody is reading: it may be written over.
Admit(d) ==
  /\ ~ IsPublished(d.date, now)
  /\ Becomes(d, [d EXCEPT !.stage = "admitted"])

LookAgain(d) == Becomes(d, [d EXCEPT !.date = rows[d.id].date])

PutBack(d) ==
  /\ d.stage = "admitted"
  /\ ~ Refused(rows, d.id, d.text)
  /\ rows' = [rows EXCEPT ![d.id] = [text |-> d.text, date |-> d.date]]
  /\ drafts' = drafts \ {d}
  /\ UNCHANGED <<now, asked>>

Abandon(d) ==
  /\ drafts' = drafts \ {d}
  /\ UNCHANGED <<rows, now, asked>>

DNext ==
  \/ Explicit /\ UNCHANGED drafts
  \/ \E r \in Reqs, id \in Ids, text \in Typed : Begin(r, id, text)
  \/ \E d \in drafts : Admit(d) \/ LookAgain(d) \/ PutBack(d) \/ Abandon(d)

DSpec == DInit /\ [][DNext]_dvars

-------------------------------------------------------------------------------
\* A write that nobody came before: the row is as it was seen, and still not
\* public.  With that, Drafting is Writing again.
Undisturbed ==
  \A d \in drafts : PutBack(d) =>
    /\ d.date = rows[d.id].date
    /\ ~ IsPublished(d.date, now)
UndisturbedSpec == DInit /\ [][DNext /\ Undisturbed]_dvars
==============================================================================
