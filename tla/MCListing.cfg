\* Up to seven rows, pages of two, searches and two saves in between.
SPECIFICATION Spec
CONSTANTS
  Writings = {1, 2, 3, 4, 5, 6, 7}
  Queries = {"", "a"}
  Matches <- MCMatches
  perPage = 2
  FirstSizes = {0, 2, 3, 4, 6, 7}
  MaxChanges = 2
INVARIANTS TypeOK OneQueryOnScreen ListedInOrder LacksOnlyExtraRows SavesCostARowEach
