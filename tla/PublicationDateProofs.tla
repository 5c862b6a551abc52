------------------------- MODULE PublicationDateProofs -------------------------
(***************************************************************************)
(* Theorems about PublicationDate, for any zones with one clock change,    *)
(* however large, in either direction and wherever it falls, any forms,    *)
(* typed dates and number of deployments.                                  *)
(***************************************************************************)
EXTENDS PublicationDate, TLAPS

\* What a field holds, unless typed, is what its date was shown as.
FieldsOK ==
  \A t \in Tabs :
    /\ form[t].by = "shown" =>
         form[t].value =
           IF form[t].from = NoDate THEN Empty ELSE Shown(form[t].in, form[t].from)
    /\ form[t].by = "now" =>
         /\ form[t].from \in Int /\ form[t].from <= now
         /\ form[t].value = Shown(form[t].in, form[t].from)

\* Only a date of the past has seconds: a Publish now stored it.
WholeMinutes == stored # NoDate => stored <= now \/ stored = 2 * (stored \div 2)

Inv == TypeOK /\ FieldsOK /\ WholeMinutes

-------------------------------------------------------------------------------
\* Lemmas about clocks.

LEMMA ZoneType ==
  ASSUME NEW z \in Zones
  PROVE  /\ z.before \in Int /\ z.after \in Int /\ z.at \in Int
         /\ Change(z) = z.after - z.before
  BY DateAssumption DEF Change

LEMMA Half ==
  ASSUME NEW i \in Int
  PROVE  i \div 2 \in Int /\ (i = 2 * (i \div 2) \/ i = 2 * (i \div 2) + 1)
  BY SMT

LEMMA Doubled == ASSUME NEW m \in Int PROVE (2 * m) \div 2 = m
  BY SMT

\* Read takes the offset before the change, or the one after it: where the wall
\* clock is shown by one of them only, by that one.
LEMMA ReadIs ==
  ASSUME NEW z \in Zones, NEW wall \in Int
  PROVE  \E m \in Int :
           /\ Read(z, wall) = 2 * m
           /\ m \in {wall - z.before, wall - z.after}
           /\ ShownBefore(z, wall) /\ ~ ShownAfter(z, wall) => m = wall - z.before
           /\ ShownAfter(z, wall) /\ ~ ShownBefore(z, wall) => m = wall - z.after
<1> DEFINE m == wall - OffsetAt(z, wall - OffsetAt(z, wall))
<1>1. m \in Int /\ m \in {wall - z.before, wall - z.after}
  BY ZoneType DEF OffsetAt
<1>2. ShownBefore(z, wall) /\ ~ ShownAfter(z, wall) => m = wall - z.before
  BY ZoneType DEF OffsetAt, ShownBefore, ShownAfter
<1>3. ShownAfter(z, wall) /\ ~ ShownBefore(z, wall) => m = wall - z.after
  BY ZoneType DEF OffsetAt, ShownBefore, ShownAfter
<1>4. Read(z, wall) = 2 * m BY DEF Read
<1> HIDE DEF m
<1> QED BY <1>1, <1>2, <1>3, <1>4

LEMMA ReadType == ASSUME NEW z \in Zones, NEW wall \in Int PROVE Read(z, wall) \in Int
  BY ReadIs

LEMMA ShownType == ASSUME NEW z \in Zones, NEW i \in Int PROVE Shown(z, i) \in Int
  BY ZoneType, Half DEF Shown, OffsetAt

\* What is read is shown as the same minute, unless there is no such minute.
LEMMA ReadIsShown ==
  ASSUME NEW z \in Zones, NEW wall \in Int
  PROVE  IF Skipped(z, wall)
           THEN Shown(z, Read(z, wall)) \in {wall - Change(z), wall + Change(z)}
           ELSE Shown(z, Read(z, wall)) = wall
<1>1. PICK m \in Int :
        /\ Read(z, wall) = 2 * m
        /\ m \in {wall - z.before, wall - z.after}
        /\ ShownBefore(z, wall) /\ ~ ShownAfter(z, wall) => m = wall - z.before
        /\ ShownAfter(z, wall) /\ ~ ShownBefore(z, wall) => m = wall - z.after
  BY ReadIs
<1>2. Shown(z, Read(z, wall)) = m + OffsetAt(z, m)
  BY <1>1, Doubled DEF Shown
<1> QED BY <1>1, <1>2, ZoneType DEF OffsetAt, Skipped, ShownBefore, ShownAfter

\* What is shown is read as its minute, or as the same minute of the other hour.
LEMMA ShownIsRead ==
  ASSUME NEW z \in Zones, NEW i \in Int
  PROVE  \/ Read(z, Shown(z, i)) = 2 * (i \div 2)
         \/ /\ Repeated(z, Shown(z, i))
            /\ \E d \in {Change(z), - Change(z)} :
                 Read(z, Shown(z, i)) = 2 * (i \div 2) + 2 * d
<1> DEFINE half == i \div 2
           wall == half + OffsetAt(z, half)
<1>1. half \in Int BY Half
<1>2. Shown(z, i) = wall BY DEF Shown
<1> HIDE DEF half
<1>3. wall \in Int BY <1>1, ZoneType DEF OffsetAt
<1>4. PICK m \in Int :
        /\ Read(z, wall) = 2 * m
        /\ m \in {wall - z.before, wall - z.after}
        /\ ShownBefore(z, wall) /\ ~ ShownAfter(z, wall) => m = wall - z.before
        /\ ShownAfter(z, wall) /\ ~ ShownBefore(z, wall) => m = wall - z.after
  BY <1>3, ReadIs
<1>5. ShownBefore(z, wall) \/ ShownAfter(z, wall)
  BY <1>1, ZoneType DEF OffsetAt, ShownBefore, ShownAfter
<1>6. m = half \/ (Repeated(z, wall) /\ m \in {half + Change(z), half - Change(z)})
  BY <1>1, <1>4, <1>5, ZoneType DEF OffsetAt, Repeated, ShownBefore, ShownAfter
<1>7. Read(z, wall) = 2 * half
        \/ (Repeated(z, wall) /\ \E d \in {Change(z), - Change(z)} :
              Read(z, wall) = 2 * half + 2 * d)
  BY <1>1, <1>4, <1>6, ZoneType
<1> QED BY <1>2, <1>7 DEF half

-------------------------------------------------------------------------------
\* What every step preserves.

LEMMA ParsedType ==
  ASSUME TypeOK, NEW t \in Tabs, Parses(t)
  PROVE  \/ form[t].value = Empty /\ Parsed(form[t].value) = NoDate
         \/ /\ form[t].value \in Int
            /\ Parsed(form[t].value) = Read(zone, form[t].value)
            /\ Parsed(form[t].value) \in Int
<1>1. form[t].value \in Int \union {Empty} /\ zone \in Zones
  BY DEF TypeOK, Form, Field, Parses
<1> QED BY <1>1, ReadType, DateAssumption DEF Parsed

LEMMA InitInv == Init => Inv
  BY DateAssumption DEF Init, Inv, TypeOK, Form, Field, FieldsOK, WholeMinutes

LEMMA StepEdit == ASSUME Inv, NEW t \in Tabs, Edit(t) PROVE Inv'
<1> DEFINE new == FormOf(stored)
<1>1. new \in Form
  BY ShownType DEF Inv, TypeOK, FormOf, Form, Field
<1>2. /\ new.by = "shown" /\ new.from = stored /\ new.in = zone
      /\ new.value = IF stored = NoDate THEN Empty ELSE Shown(zone, stored)
  BY DEF FormOf
<1>3. form' = [form EXCEPT ![t] = new] BY DEF Edit
<1> HIDE DEF new
<1>4. TypeOK' BY <1>1, <1>3 DEF Inv, TypeOK, Edit
<1>5. FieldsOK'
  BY <1>2, <1>3 DEF Inv, TypeOK, FieldsOK, Edit
<1> QED BY <1>4, <1>5 DEF Inv, WholeMinutes, Edit

LEMMA StepType ==
  ASSUME Inv, NEW t \in Tabs, NEW value \in TypedDates \union {Empty, Malformed},
         Type(t, value)
  PROVE  Inv'
<1> DEFINE new == [open |-> TRUE, value |-> value, by |-> "typed", from |-> NoDate,
                   in |-> zone]
<1>1. new \in Form
  BY DateAssumption DEF Inv, TypeOK, Form, Field
<1>2. new.by = "typed" OBVIOUS
<1>3. form' = [form EXCEPT ![t] = new] BY DEF Type
<1> HIDE DEF new
<1>4. TypeOK' BY <1>1, <1>3 DEF Inv, TypeOK, Type
<1>5. FieldsOK'
  BY <1>2, <1>3 DEF Inv, TypeOK, FieldsOK, Type
<1> QED BY <1>4, <1>5 DEF Inv, WholeMinutes, Type

LEMMA StepSave == ASSUME Inv, NEW t \in Tabs, Save(t) PROVE Inv'
<1>1. TypeOK' BY ParsedType DEF Inv, TypeOK, Save
<1>2. ASSUME stored' # NoDate PROVE stored' = 2 * (stored' \div 2)
  <2>1. form[t].value \in Int /\ stored' = Read(zone, form[t].value)
    BY <1>2, ParsedType DEF Inv, Save
  <2>2. PICK m \in Int : stored' = 2 * m
    BY <2>1, ReadIs DEF Inv, TypeOK
  <2> QED BY <2>2, Doubled
<1> QED BY <1>1, <1>2 DEF Inv, FieldsOK, WholeMinutes, Save

LEMMA StepPublishNow == ASSUME Inv, NEW t \in Tabs, PublishNow(t) PROVE Inv'
  BY DEF Inv, TypeOK, FieldsOK, WholeMinutes, PublishNow

LEMMA StepRefuse == ASSUME Inv, NEW t \in Tabs, RefusePublishNow(t) PROVE Inv'
<1> DEFINE new == [open |-> TRUE, value |-> Shown(zone, now), by |-> "now",
                   from |-> now, in |-> zone]
<1>1. now \in Int BY DEF Inv, TypeOK
<1>2. new \in Form
  BY <1>1, ShownType DEF Inv, TypeOK, Form, Field
<1>3. /\ new.by = "now" /\ new.from = now /\ new.value = Shown(new.in, new.from)
  OBVIOUS
<1>4. form' = [form EXCEPT ![t] = new] BY DEF RefusePublishNow
<1> HIDE DEF new
<1>5. TypeOK' BY <1>2, <1>4 DEF Inv, TypeOK, RefusePublishNow
<1>6. FieldsOK'
  BY <1>1, <1>3, <1>4 DEF Inv, TypeOK, FieldsOK, RefusePublishNow
<1> QED BY <1>5, <1>6 DEF Inv, WholeMinutes, RefusePublishNow

LEMMA StepInv == Inv /\ [Next]_vars => Inv'
<1> SUFFICES ASSUME Inv, [Next]_vars PROVE Inv' OBVIOUS
<1>1. ASSUME NEW t \in Tabs,
             Edit(t) \/ Save(t) \/ PublishNow(t) \/ RefusePublishNow(t)
      PROVE  Inv'
  BY <1>1, StepEdit, StepSave, StepPublishNow, StepRefuse
<1>2. ASSUME NEW t \in Tabs, NEW value \in TypedDates \union {Empty, Malformed},
             Type(t, value)
      PROVE  Inv'
  BY <1>2, StepType
<1>3. ASSUME NEW z \in Zones, Redeploy(z) PROVE Inv'
  BY <1>3, DateAssumption DEF Redeploy, Inv, TypeOK, FieldsOK, WholeMinutes
<1>4. ASSUME Tick PROVE Inv'
  BY <1>4, DateAssumption DEF Tick, Inv, TypeOK, FieldsOK, WholeMinutes
<1>5. ASSUME UNCHANGED vars PROVE Inv'
  BY <1>5 DEF vars, Inv, TypeOK, FieldsOK, WholeMinutes
<1> QED BY <1>1, <1>2, <1>3, <1>4, <1>5 DEF Next

LEMMA Invariance == Spec => []Inv
  BY InitInv, StepInv, PTL DEF Spec

-------------------------------------------------------------------------------
(***************************************************************************)
(* Theorems.                                                               *)
(***************************************************************************)

\* The field and the date keep their types: what does not parse is not stored.
THEOREM TypeCorrect == Spec => []TypeOK
  BY Invariance, PTL DEF Inv

\* parsePublishedAt and formOf use one zone and undo one another, whatever clock
\* change is near: the editor shows what was saved, but for a skipped minute.
THEOREM EditorShowsWhatWasSaved == Spec => ShownAsSaved
<1>1. ASSUME Inv, NEW t \in Tabs, Save(t)
      PROVE  LET saved == form[t].value
                 shown == FormOf(stored)'.value
             IN  \/ shown = saved
                 \/ /\ saved # Empty /\ Skipped(zone, saved)
                    /\ shown \in {saved - Change(zone), saved + Change(zone)}
  <2> DEFINE saved == form[t].value
             shown == FormOf(stored)'.value
  <2>1. shown = IF stored' = NoDate THEN Empty ELSE Shown(zone, stored')
    BY <1>1 DEF FormOf, Save
  <2>2. zone \in Zones BY <1>1 DEF Inv, TypeOK
  <2>3. \/ saved = Empty /\ stored' = NoDate
        \/ saved \in Int /\ stored' = Read(zone, saved) /\ stored' \in Int
    BY <1>1, ParsedType DEF Inv, Save
  <2> HIDE DEF saved, shown
  <2>4. CASE saved \in Int
    <3>1. shown = Shown(zone, Read(zone, saved))
      BY <2>1, <2>3, <2>4, DateAssumption
    <3>2. saved # Empty BY <2>4, DateAssumption
    <3> QED BY <2>2, <2>4, <3>1, <3>2, ReadIsShown DEF saved, shown
  <2>5. CASE saved = Empty
    BY <2>1, <2>3, <2>5, DateAssumption DEF saved, shown
  <2> QED BY <2>3, <2>4, <2>5
<1>2. Inv /\ [Next]_vars =>
        [\A t \in Tabs : Save(t) =>
           LET saved == form[t].value
               shown == FormOf(stored)'.value
           IN  \/ shown = saved
               \/ /\ saved # Empty /\ Skipped(zone, saved)
                  /\ shown \in {saved - Change(zone), saved + Change(zone)}]_vars
  BY <1>1
<1> QED BY <1>2, Invariance, PTL DEF Spec, ShownAsSaved

\* Any number of saves of a form that is up to date leave the date within its
\* minute, and on its side of the present, but for an hour that comes twice.
THEOREM ResavingKeepsTheDate == Spec => ResaveKeepsDate
<1>1. ASSUME Inv, NEW t \in Tabs, Save(t), Untouched(t)
      PROVE  \/ stored = NoDate /\ stored' = NoDate
             \/ /\ stored # NoDate /\ stored' \in (stored - 1)..stored
                /\ IsPublished(stored') <=> IsPublished(stored)
             \/ /\ stored # NoDate /\ Repeated(zone, form[t].value)
                /\ \E d \in {Change(zone), - Change(zone)} :
                     stored' \in (stored - 1 + 2 * d)..(stored + 2 * d)
  <2>1. form[t].value = IF stored = NoDate THEN Empty ELSE Shown(zone, stored)
    BY <1>1 DEF Inv, FieldsOK, Untouched
  <2>2. CASE stored = NoDate
    BY <1>1, <2>1, <2>2 DEF Save, Parsed
  <2>3. CASE stored # NoDate
    <3>1. stored \in Int /\ zone \in Zones /\ now \in Int
      BY <1>1, <2>3 DEF Inv, TypeOK
    <3>2. form[t].value = Shown(zone, stored) /\ Shown(zone, stored) \in Int
      BY <2>1, <2>3, <3>1, ShownType
    <3>3. stored' = Read(zone, Shown(zone, stored))
      BY <1>1, <3>2, DateAssumption DEF Save, Parsed
    <3>4. CASE stored' = 2 * (stored \div 2)
      <4>1. stored' \in (stored - 1)..stored /\ stored' \in Int
        BY <3>1, <3>4, Half
      <4>2. stored > now => stored' = stored
        BY <1>1, <2>3, <3>1, <3>4 DEF Inv, WholeMinutes
      <4>3. IsPublished(stored') <=> IsPublished(stored)
        BY <2>3, <3>1, <4>1, <4>2, DateAssumption DEF IsPublished
      <4> QED BY <2>3, <4>1, <4>3
    <3>5. CASE /\ Repeated(zone, Shown(zone, stored))
               /\ \E d \in {Change(zone), - Change(zone)} :
                    stored' = 2 * (stored \div 2) + 2 * d
      <4>1. PICK d \in {Change(zone), - Change(zone)} :
              stored' = 2 * (stored \div 2) + 2 * d
        BY <3>5
      <4>2. d \in Int BY <3>1, ZoneType
      <4>3. stored' \in (stored - 1 + 2 * d)..(stored + 2 * d)
        BY <3>1, <4>1, <4>2, Half
      <4> QED BY <2>3, <3>2, <3>5, <4>3
    <3> QED BY <3>1, <3>3, <3>4, <3>5, ShownIsRead
  <2> QED BY <2>2, <2>3
<1>2. Inv /\ [Next]_vars =>
        [\A t \in Tabs : Save(t) /\ Untouched(t) =>
           \/ stored = NoDate /\ stored' = NoDate
           \/ /\ stored # NoDate /\ stored' \in (stored - 1)..stored
              /\ IsPublished(stored') <=> IsPublished(stored)
           \/ /\ stored # NoDate /\ Repeated(zone, form[t].value)
              /\ \E d \in {Change(zone), - Change(zone)} :
                   stored' \in (stored - 1 + 2 * d)..(stored + 2 * d)]_vars
  BY <1>1
<1> QED BY <1>2, Invariance, PTL DEF Spec, ResaveKeepsDate

\* The date that invalid fills in is never later than the clock, and is read as
\* no later: the refused Publish now still publishes when it is saved.
THEOREM RefusedPublishStillPublishes == Spec => RefusedStillPublishes
<1>1. ASSUME Inv, NEW t \in Tabs, Save(t), form[t].by = "now", form[t].in = zone
      PROVE  \/ IsPublished(stored')
             \/ form[t].value # Empty /\ Repeated(zone, form[t].value)
  <2> DEFINE from == form[t].from
  <2>1. /\ from \in Int /\ from <= now /\ form[t].value = Shown(zone, from)
        /\ zone \in Zones /\ now \in Int
    BY <1>1 DEF Inv, TypeOK, FieldsOK
  <2> HIDE DEF from
  <2>2. Shown(zone, from) \in Int BY <2>1, ShownType
  <2>3. stored' = Read(zone, Shown(zone, from)) /\ form[t].value # Empty
    BY <1>1, <2>1, <2>2, DateAssumption DEF Save, Parsed
  <2>4. CASE stored' = 2 * (from \div 2)
    <3>1. stored' \in Int /\ stored' <= now BY <2>1, <2>4, Half
    <3> QED BY <3>1, DateAssumption DEF IsPublished
  <2>5. CASE Repeated(zone, Shown(zone, from)) BY <2>1, <2>3, <2>5
  <2> QED BY <2>1, <2>3, <2>4, <2>5, ShownIsRead
<1>2. Inv /\ [Next]_vars =>
        [\A t \in Tabs : Save(t) /\ form[t].by = "now" /\ form[t].in = zone =>
           \/ IsPublished(stored')
           \/ form[t].value # Empty /\ Repeated(zone, form[t].value)]_vars
  BY <1>1
<1> QED BY <1>2, Invariance, PTL DEF Spec, RefusedStillPublishes
===============================================================================
