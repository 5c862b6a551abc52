\* An explicit save overtakes an autosave.
SPECIFICATION FairSpec
CONSTANTS
  p1 = p1
  p2 = p2
  t1 = t1
  t2 = t2
  r1 = r1
  r2 = r2
  Ids = {p1}
  Tabs = {t1}
  Reqs = {r1, r2}
  Slugs <- MCSlugs
  WellFormed <- MCWellFormed
  Titles <- MCTitles
  BlankTitles <- MCBlankTitles
  Bodies <- MCBodies
  Typed <- MCTypedPlain
  TypedDates <- MCSubmittedDates
  NoDate = NoDate
  NoRow = NoRow
  NoId = NoId
  NoTab = NoTab
  NoText = NoText
  Malformed = Malformed
  MaxNow = 1
PROPERTY AutosaveNeverWritesTheDate
