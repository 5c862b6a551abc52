\* Two forms, four zones whose clock changes by two minutes.
SPECIFICATION Spec
CONSTANTS
  a = a
  b = b
  Tabs = {a, b}
  Zones <- MCZones
  TypedDates = {3, 4}
  Empty = Empty
  Malformed = Malformed
  NoDate = NoDate
  MaxNow = 8
  MaxMoves = 1
SYMMETRY AllTabs
INVARIANTS TypeOK
PROPERTIES ShownAsSaved ResaveKeepsDate RefusedStillPublishes
