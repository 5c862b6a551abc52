\* A list longer than one page.
SPECIFICATION Spec
CONSTANTS
  Writings = {1, 2, 3, 4, 5, 6, 7}
  Queries = {"", "a"}
  Matches <- MCMatches
  perPage = 2
  FirstSizes = {0, 2, 3, 4, 6, 7}
  MaxChanges = 1
INVARIANT CompleteWhenNoButton
