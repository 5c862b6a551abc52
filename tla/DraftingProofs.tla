---------------------------- MODULE DraftingProofs ----------------------------
(***************************************************************************)
(* Drafting and Writing differ in the writes that somebody came before,    *)
(* and in nothing else.                                                    *)
(***************************************************************************)
EXTENDS Drafting, TLAPS

\* What the Author types and chooses is what the table holds.
Typable == Typed \subseteq Text /\ Dates \subseteq Date

Written == [text : Typed, date : Dates]
Draft   == [by : Reqs, id : Ids, text : Typed, date : Dates,
            stage : {"seen", "admitted"}]

\* An autosave that has looked at a row names one that exists.
DraftOK(d, table) == d \in Draft /\ d.id \in Existing(table)

DraftInv ==
  /\ rows \in [Ids -> Written \union {NoRow}]
  /\ asked \subseteq Saves
  /\ \A d \in drafts : DraftOK(d, rows)

LEMMA WrittenIsARow == Typable => NoRow \notin Written
  BY NoRowAssumption DEF Typable, Written, Row

\* A row that is written over goes on existing, and so do the others.
LEMMA WriteKeeps ==
  ASSUME Typable, DraftInv, NEW id \in Ids, NEW row \in Written,
         rows' = [rows EXCEPT ![id] = row]
  PROVE  /\ rows' \in [Ids -> Written \union {NoRow}]
         /\ \A d \in drafts : DraftOK(d, rows')
  <1>1. rows' \in [Ids -> Written \union {NoRow}]
    BY DEF DraftInv
  <1>2. Existing(rows) \subseteq Existing(rows')
    BY WrittenIsARow DEF DraftInv, Existing
  <1>3. QED
    BY <1>1, <1>2 DEF DraftInv, DraftOK

LEMMA DraftStep == Typable /\ DraftInv /\ [DNext]_dvars => DraftInv'
  <1> SUFFICES ASSUME Typable, DraftInv, [DNext]_dvars
               PROVE  DraftInv'
    OBVIOUS
  <1>1. CASE UNCHANGED dvars
    BY <1>1 DEF dvars, DraftInv
  <1>2. ASSUME NEW save \in Saves, Ask(save), UNCHANGED drafts
        PROVE  DraftInv'
    BY <1>2 DEF Ask, DraftInv
  <1>3. ASSUME NEW save \in asked, Drop(save), UNCHANGED drafts
        PROVE  DraftInv'
    BY <1>3 DEF Drop, DraftInv
  <1>4. ASSUME NEW save \in asked, NEW id \in Ids, Decide(save, id),
               UNCHANGED drafts
        PROVE  DraftInv'
    <2>1. save \in Saves
      BY DEF DraftInv
    <2>2. [text |-> save.text, date |-> save.date] \in Written
      BY <2>1 DEF Saves, Written
    <2>3. /\ rows' \in [Ids -> Written \union {NoRow}]
          /\ \A d \in drafts : DraftOK(d, rows')
      BY <1>4, <2>2, WriteKeeps DEF Decide
    <2>4. QED
      BY <1>4, <2>3 DEF Decide, DraftInv
  <1>5. CASE Elapse /\ UNCHANGED drafts
    BY <1>5 DEF Elapse, DraftInv
  <1>6. ASSUME NEW r \in Reqs, NEW id \in Ids, NEW text \in Typed, Begin(r, id, text)
        PROVE  DraftInv'
    <2> DEFINE d == [by |-> r, id |-> id, text |-> text, date |-> rows[id].date,
                     stage |-> "seen"]
    <2>1. id \in Existing(rows) /\ drafts' = drafts \union {d}
          /\ UNCHANGED <<rows, asked>>
      BY <1>6 DEF Begin
    <2>2. rows[id] \in Written
      BY <2>1 DEF DraftInv, Existing
    <2>3. DraftOK(d, rows)
      BY <2>1, <2>2 DEF DraftOK, Draft, Written
    <2> HIDE DEF d
    <2>4. QED
      BY <2>1, <2>3 DEF DraftInv
  <1>7. ASSUME NEW d \in drafts, Admit(d)
        PROVE  DraftInv'
    BY <1>7 DEF Admit, Becomes, DraftInv, DraftOK, Draft
  <1>8. ASSUME NEW d \in drafts, LookAgain(d)
        PROVE  DraftInv'
    BY <1>8 DEF LookAgain, Becomes, DraftInv, DraftOK, Draft, Existing, Written
  <1>9. ASSUME NEW d \in drafts, PutBack(d)
        PROVE  DraftInv'
    <2>1. d.id \in Ids /\ [text |-> d.text, date |-> d.date] \in Written
      BY DEF DraftInv, DraftOK, Draft, Written
    <2>2. /\ rows' \in [Ids -> Written \union {NoRow}]
          /\ \A e \in drafts : DraftOK(e, rows')
      BY <1>9, <2>1, WriteKeeps DEF PutBack
    <2>3. QED
      BY <1>9, <2>2 DEF PutBack, DraftInv
  <1>10. ASSUME NEW d \in drafts, Abandon(d)
         PROVE  DraftInv'
    BY <1>10 DEF Abandon, DraftInv
  <1>11. CASE Explicit /\ UNCHANGED drafts
    BY <1>2, <1>3, <1>4, <1>5, <1>11 DEF Explicit, Create, Save
  <1>12. QED
    BY <1>1, <1>6, <1>7, <1>8, <1>9, <1>10, <1>11 DEF DNext

\* A write that nobody came before is the Revise of Writing.
LEMMA PutBackRevises ==
  ASSUME Typable, DraftInv, Undisturbed, NEW d \in drafts, PutBack(d)
  PROVE  WNext
  <1>1. d.id \in Existing(rows) /\ d.id \in Ids /\ d.text \in Typed
    BY DEF DraftInv, DraftOK, Draft, Existing
  <1>2. d.date = rows[d.id].date /\ ~ IsPublished(d.date, now)
    BY DEF Undisturbed
  <1>3. rows[d.id] \in Written
    BY <1>1 DEF DraftInv, Existing
  <1>4. [rows[d.id] EXCEPT !.text = d.text] = [text |-> d.text, date |-> d.date]
    BY <1>2, <1>3 DEF Written
  <1>5. rows' = [rows EXCEPT ![d.id].text = d.text]
    BY <1>4 DEF PutBack
  <1>6. Revise(d.id, d.text)
    BY <1>1, <1>2, <1>5 DEF Revise, PutBack
  <1>7. QED
    BY <1>1, <1>6 DEF WNext

\* Of all the steps of Drafting, Writing lacks the disturbed writes only: with
\* them left out, nothing that the code's missing transaction makes of an
\* autosave remains.
THEOREM UndisturbedIsWriting ==
  ASSUME Typable
  PROVE  UndisturbedSpec => WSpec
  <1>1. DInit => DraftInv /\ WInit
    BY DEF DInit, WInit, DraftInv
  <1>2. ASSUME DraftInv, [DNext /\ Undisturbed]_dvars
        PROVE  [WNext]_wvars
    <2>1. CASE UNCHANGED dvars
      BY <2>1 DEF dvars, wvars
    <2>2. CASE Explicit
      BY <2>2 DEF WNext
    <2>3. ASSUME NEW r \in Reqs, NEW id \in Ids, NEW text \in Typed,
                 Begin(r, id, text)
          PROVE  UNCHANGED wvars
      BY <2>3 DEF Begin, wvars
    <2>4. ASSUME NEW d \in drafts, Admit(d) \/ LookAgain(d) \/ Abandon(d)
          PROVE  UNCHANGED wvars
      BY <2>4 DEF Admit, LookAgain, Becomes, Abandon, wvars
    <2>5. ASSUME NEW d \in drafts, PutBack(d), Undisturbed
          PROVE  WNext
      BY <1>2, <2>5, PutBackRevises
    <2>6. QED
      BY <1>2, <2>1, <2>2, <2>3, <2>4, <2>5 DEF DNext
  <1>3. [DNext /\ Undisturbed]_dvars => [DNext]_dvars
    OBVIOUS
  <1>4. DraftInv /\ [DNext]_dvars => DraftInv'
    BY DraftStep
  <1>5. QED
    BY <1>1, <1>2, <1>3, <1>4, PTL DEF UndisturbedSpec, WSpec
=============================================================================
