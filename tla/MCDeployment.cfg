\* A deployment whose sources are edited up to three times.
SPECIFICATION Spec
CONSTANTS
  Malformed = Malformed
  Typo = Typo
  NoSecret = NoSecret
  Redacted = Redacted
  Zones = {"UTC", "Asia/Jakarta"}
  Down = Down
  old = old
  new = new
  signing = signing
  Flags <- MCFlags
  Writable <- MCWritable
  Passwords = {"right", "wrong"}
  Nobody = Nobody
  Params <- MCParams
  Garbage = Garbage
  Secrets = {signing}
  Accounts = {"postgres", "hunter2"}
  MaxEdits = 3
INVARIANTS TypeOK OnlyItsPasswordOpens
PROPERTIES HighestSourceWins PasteKeepsSettings
