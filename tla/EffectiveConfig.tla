---------------------------- MODULE EffectiveConfig ----------------------------
(***************************************************************************)
(* Package config: how flags, the environment, a Config File and the       *)
(* defaults become the Effective Config, what it accepts, and what `config *)
(* show' prints of it.  A source is a function from the keys it sets to    *)
(* their values.  An environment variable that is set to the empty string  *)
(* counts as not set, and a null in a file likewise.  Durations are in     *)
(* seconds; how numbers and durations are written is left out, but for     *)
(* Malformed.                                                              *)
(***************************************************************************)
EXTENDS Integers

CONSTANTS
  Malformed,  \* a value that does not parse as the type of its key
  Typo,       \* a key of a Config File that the program does not have
  NoSecret,   \* the empty secret
  Redacted,   \* "xxxxx"
  Zones       \* the time zones that time.LoadLocation knows

\* What is told apart of a database URL: whether it parses, has a postgres
\* scheme and names a host, and the password in it.
DevDatabaseURL == [usable |-> TRUE, password |-> "postgres"]

\* The keys, without the names of their sections, and their defaults.
Default ==
  [port              |-> 8080,
   read_timeout      |-> 5,
   write_timeout     |-> 10,
   shutdown_timeout  |-> 10,
   url               |-> DevDatabaseURL,
   pool              |-> 5,
   idle_pool         |-> 2,
   conn_max_lifetime |-> 1800,
   password_hash     |-> NoSecret,
   session_secret    |-> NoSecret,
   session_ttl       |-> 604800,
   insecure_cookie   |-> FALSE,
   timezone          |-> "UTC",
   login_attempts    |-> 10,
   login_window      |-> 900,
   log_level         |-> "info"]
Keys == DOMAIN Default

DurationKeys ==
  {"read_timeout", "write_timeout", "shutdown_timeout", "conn_max_lifetime",
   "session_ttl", "login_window"}
SecretKeys == {"password_hash", "session_secret"}

\* flagBindings: the keys that a flag may override.
FlagKeys == {"log_level", "port", "read_timeout"}

MaxPort   == 65535
LogLevels == {"debug", "info", "warn", "error"}

ASSUME ConfigAssumption ==
  /\ Typo \notin Keys
  /\ NoSecret # Redacted
  /\ "UTC" \in Zones

-------------------------------------------------------------------------------
\* Load.

Nothing == [k \in {} |-> Malformed]

\* A Config File: there or not, readable YAML or not, and what it says.
Absent     == [is |-> "absent", says |-> Nothing]
Broken     == [is |-> "broken", says |-> Nothing]
Says(what) == [is |-> "there", says |-> what]

Over(f, g) ==
  [k \in DOMAIN f \union DOMAIN g |-> IF k \in DOMAIN f THEN f[k] ELSE g[k]]

\* Slip: the defaults of the two secrets, which say nothing, are left out.
KnownUnlessEmpty(flags, file) ==
  DOMAIN flags \union DOMAIN file \union (Keys \ SecretKeys)

\* Viper looks in the environment for the keys it knows from elsewhere.
KnownKeys(flags, file) == DOMAIN flags \union DOMAIN file \union Keys

Merged(flags, env, file) ==
  LET seen == [k \in DOMAIN env \intersect KnownKeys(flags, file) |-> env[k]]
  IN  Over(flags, Over(seen, Over(file, Default)))

\* Slip: the errors of single values are not looked at.
DecodesKeys(merged) == DOMAIN merged \subseteq Keys

\* Unmarshal, with ErrorUnused: only the value that is used has to parse, but
\* every key has to be one there is.
Decodes(merged) ==
  /\ DOMAIN merged \subseteq Keys
  /\ \A k \in DOMAIN merged : merged[k] # Malformed

IsSet(secret) == secret # NoSecret

Validate(c) ==
  /\ c.port \in 1..MaxPort
  /\ \A k \in DurationKeys : c[k] > 0
  /\ c.url.usable
  /\ c.pool >= 1
  /\ c.idle_pool \in 0..c.pool
  /\ c.timezone \in Zones
  /\ c.login_attempts >= 1
  /\ IsSet(c.password_hash) <=> IsSet(c.session_secret)
  /\ c.log_level \in LogLevels

\* --config names a file that must be there.  Without it one file is read, if
\* there is any: ./config.yaml hides the one in the home directory.
FileUsed(named, files) ==
  IF named THEN "named"
  ELSE IF files["cwd"].is # "absent" THEN "cwd" ELSE "home"

Readable(named, file) ==
  file.is = "there" \/ (file.is = "absent" /\ ~ named)

Effective(flags, env, named, files) ==
  Merged(flags, env, files[FileUsed(named, files)].says)

Loads(flags, env, named, files) ==
  /\ Readable(named, files[FileUsed(named, files)])
  /\ Decodes(Effective(flags, env, named, files))
  /\ Validate(Effective(flags, env, named, files))

-------------------------------------------------------------------------------
\* What is made of an Effective Config.

\* Admin is mounted when both secrets are given.
Enabled(c) == IsSet(c.password_hash) /\ IsSet(c.session_secret)

RedactSecret(s) == IF IsSet(s) THEN Redacted ELSE s
RedactURL(u)    == [u EXCEPT !.password = RedactSecret(@)]

\* Slip: a key that came later was not added to the output.
ShownWithoutZone(c) ==
  [k \in Keys \ {"timezone"} |->
     IF k = "url" THEN RedactURL(c[k])
     ELSE IF k \in SecretKeys THEN RedactSecret(c[k]) ELSE c[k]]

\* `config show': every key, as a Config File would have it.
Shown(c) ==
  [k \in Keys |->
     IF k = "url" THEN RedactURL(c[k])
     ELSE IF k \in SecretKeys THEN RedactSecret(c[k]) ELSE c[k]]
===============================================================================
