\* A binary and its successor, two secrets or none, a request in flight.
SPECIFICATION FairSpec
CONSTANTS
  old = old
  new = new
  key1 = key1
  key2 = key2
  Procs = {old, new}
  Reqs = {r1}
  NoProc = NoProc
  Secrets = {key1, key2}
  NoSecret = NoSecret
  SecretsOf <- MCSecretsOf
  NoCookie = NoCookie
  Needs <- MCNeeds
  MaxVersion = 2
  Second = 2
  Ttl = 3
  ShutdownTimeout = 1
INVARIANTS TypeOK RotationRevokes
PROPERTIES SessionLivesItsTime CutOnlyAfterTimeout MissingOnlyAfterRollback SignalEndsProcess
