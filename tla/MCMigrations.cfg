\* A current binary and an older one that migrate up and down, and one of a
\* branch that migrates up.
SPECIFICATION FairSpec
CONSTANTS
  a = a
  b = b
  old = old
  branch = branch
  Versions = {1, 2, 3}
  Procs = {a, old, branch}
  NoProc = NoProc
  Known <- MCKnown
  Rollers = {a, old}
  Steps = {1, 2}
INVARIANT TypeOK
PROPERTIES
  AppliesInOrder RollsBackNewest UpLeavesNothingPending
  RunsWithPendingOnlyBehindADown ImplementsSchema LockWaitEnds
