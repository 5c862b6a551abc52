\* Two current binaries that roll back, and one of a branch that migrates up.
SPECIFICATION FairSpec
CONSTANTS
  a = a
  b = b
  old = old
  branch = branch
  Versions = {1, 2, 3}
  Procs = {a, b, branch}
  NoProc = NoProc
  Known <- MCKnown
  Rollers = {a, b}
  Steps = {1, 2}
PROPERTY DownRunsOnlyWhenNothingIsPending
