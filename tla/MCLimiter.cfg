\* Two addresses, two attempts in flight, three windows one after the other.
SPECIFICATION Spec
CONSTANTS
  x = x
  y = y
  r1 = r1
  r2 = r2
  Addrs = {x, y}
  Attempts = {r1, r2}
  Limit = 2
  Window = 3
  MaxDelay = 1
  NoEntry = NoEntry
  NoAttempt = NoAttempt
  MaxNow = 5
SYMMETRY MCSymmetry
INVARIANTS TypeOK HashesBounded
PROPERTY RefusedOnlyAtLimit
