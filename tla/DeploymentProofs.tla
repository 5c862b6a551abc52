--------------------------- MODULE DeploymentProofs ----------------------------
(***************************************************************************)
(* Theorems about Deployment, for any flags, values, passwords and         *)
(* releases, and any number of edits.                                      *)
(***************************************************************************)
EXTENDS Deployment, TLAPS

\* What a process runs with was valid, whatever has been edited since.
RunsValid == process # Down => Validate(process)

Inv == TypeOK /\ RunsValid

\* The hash is one that the password was given for, or Nobody has given one.
HashOf(hash, password) ==
  \/ password = Nobody /\ hash \notin Encodings
  \/ /\ password \in Passwords
     /\ \E params \in Params : hash = HashPassword(password, params)

\* What a source holds as a hash is of the password it was given for.
SourceHash(source, whose) ==
  /\ "password_hash" \in DOMAIN source => HashOf(source["password_hash"], whose)
  /\ "password_hash" \notin DOMAIN source => whose = Nobody

EnvironmentHash == SourceHash(env, given["environment"])
FilesHash       == \A f \in FileNames : SourceHash(files[f].says, given[f])
ProcessHash     == process # Down => HashOf(process.password_hash, opens)
Hashes          == EnvironmentHash /\ FilesHash /\ ProcessHash

-------------------------------------------------------------------------------
\* Lemmas about sources.

LEMMA KeysAre ==
  Keys = DurationKeys \union SecretKeys \union
           {"port", "url", "pool", "idle_pool", "insecure_cookie", "timezone",
            "login_attempts", "log_level"}
  BY SMT DEF Keys, Default, DurationKeys, SecretKeys

LEMMA DefaultTyped == \A k \in Keys : Typed(k, Default[k])
<1>1. DevDatabaseURL \in URLs
  BY DeploymentAssumption DEF DevDatabaseURL, URLs
<1>2. \A k \in DurationKeys : Default[k] \in Int
  BY SMT DEF DurationKeys, Default
<1>3. \A k \in {"port", "pool", "idle_pool", "login_attempts"} : Default[k] \in Int
  BY SMT DEF Default
<1>4. /\ Default["url"] = DevDatabaseURL /\ Default["insecure_cookie"] = FALSE
      /\ Default["timezone"] = "UTC" /\ Default["log_level"] = "info"
      /\ Default["password_hash"] = NoSecret /\ Default["session_secret"] = NoSecret
  BY SMT DEF Default
<1> SUFFICES ASSUME NEW k \in Keys PROVE Typed(k, Default[k]) OBVIOUS
<1> HIDE DEF Default
<1>5. k \in {"port", "pool", "idle_pool", "login_attempts"} \union DurationKeys
        => Default[k] \in Int
  BY <1>2, <1>3
<1>6. /\ k = "password_hash" => Default[k] \in Encodings \union {Garbage, NoSecret, Redacted}
      /\ k = "session_secret" => Default[k] \in Secrets \union {NoSecret, Redacted}
  BY <1>4
<1> QED BY <1>1, <1>4, <1>5, <1>6 DEF Typed

LEMMA NothingOK == ASSUME NEW keys PROVE SourceOK(Nothing, keys)
  BY DEF SourceOK, Nothing

LEMMA OverValue ==
  ASSUME NEW f, NEW g
  PROVE  /\ DOMAIN Over(f, g) = DOMAIN f \union DOMAIN g
         /\ \A k \in DOMAIN f : Over(f, g)[k] = f[k]
         /\ \A k \in DOMAIN g \ DOMAIN f : Over(f, g)[k] = g[k]
  BY DEF Over

LEMMA PutOK ==
  ASSUME NEW source, NEW keys, SourceOK(source, keys), NEW k \in keys, NEW v,
         k # Typo => v = Malformed \/ Typed(k, v)
  PROVE  SourceOK(Put(source, k, v), keys)
  BY DEF SourceOK, Put

\* The flag, or else the variable, or else what the file says, or the default.
IsMerged(m, flags, vars_, file) ==
  /\ DOMAIN m = Keys \union DOMAIN file
  /\ \A k \in DOMAIN flags : m[k] = flags[k]
  /\ \A k \in DOMAIN vars_ \ DOMAIN flags : m[k] = vars_[k]
  /\ \A k \in DOMAIN file \ (DOMAIN flags \union DOMAIN vars_) : m[k] = file[k]
  /\ \A k \in Keys \ (DOMAIN flags \union DOMAIN vars_ \union DOMAIN file) :
       m[k] = Default[k]

LEMMA MergedValue ==
  ASSUME NEW flags, NEW vars_, NEW file,
         DOMAIN flags \subseteq Keys, DOMAIN vars_ \subseteq Keys
  PROVE  IsMerged(Merged(flags, vars_, file), flags, vars_, file)
<1> DEFINE seen == [k \in DOMAIN vars_ \intersect KnownKeys(flags, file) |-> vars_[k]]
           low  == Over(file, Default)
           mid  == Over(seen, low)
<1>1. DOMAIN Default = Keys BY DEF Keys
<1>2. DOMAIN seen = DOMAIN vars_ /\ \A k \in DOMAIN vars_ : seen[k] = vars_[k]
  BY <1>1 DEF KnownKeys
<1> HIDE DEF seen
<1>3. /\ DOMAIN low = DOMAIN file \union Keys
      /\ \A k \in DOMAIN file : low[k] = file[k]
      /\ \A k \in Keys \ DOMAIN file : low[k] = Default[k]
  BY <1>1, OverValue DEF low
<1> HIDE DEF low
<1>4. /\ DOMAIN mid = DOMAIN vars_ \union DOMAIN low
      /\ \A k \in DOMAIN vars_ : mid[k] = vars_[k]
      /\ \A k \in DOMAIN low \ DOMAIN vars_ : mid[k] = low[k]
  <2>1. /\ DOMAIN Over(seen, low) = DOMAIN seen \union DOMAIN low
        /\ \A k \in DOMAIN seen : Over(seen, low)[k] = seen[k]
        /\ \A k \in DOMAIN low \ DOMAIN seen : Over(seen, low)[k] = low[k]
    BY OverValue
  <2> QED BY <1>2, <2>1 DEF mid
<1> HIDE DEF mid
<1>5. Merged(flags, vars_, file) = Over(flags, mid)
  BY DEF Merged, mid, low, seen
<1>6. /\ DOMAIN Over(flags, mid) = DOMAIN flags \union DOMAIN mid
      /\ \A k \in DOMAIN flags : Over(flags, mid)[k] = flags[k]
      /\ \A k \in DOMAIN mid \ DOMAIN flags : Over(flags, mid)[k] = mid[k]
  BY OverValue
<1> QED BY <1>3, <1>4, <1>5, <1>6 DEF IsMerged

\* An Effective Config is merged from its four sources.
LEMMA ConfigMerged ==
  ASSUME TypeOK, NEW flags \in Flags, NEW named \in BOOLEAN
  PROVE  /\ DOMAIN flags \subseteq Keys /\ DOMAIN env \subseteq Keys
         /\ IsMerged(Config(flags, named), flags, env, FileSays(named))
<1>1. FlagKeys \subseteq Keys
  BY KeysAre DEF FlagKeys, DurationKeys
<1>2. DOMAIN flags \subseteq Keys /\ DOMAIN env \subseteq Keys
  BY <1>1, DeploymentAssumption DEF TypeOK, SourceOK
<1>3. IsMerged(Merged(flags, env, FileSays(named)), flags, env, FileSays(named))
  BY <1>2, MergedValue
<1> QED BY <1>2, <1>3 DEF Config, Effective, FileSays

\* What loads has a value of its type for every key.
LEMMA ConfigTyped ==
  ASSUME TypeOK, NEW flags \in Flags, NEW named \in BOOLEAN, CanLoad(flags, named)
  PROVE  /\ DOMAIN Config(flags, named) = Keys
         /\ \A k \in Keys : Typed(k, Config(flags, named)[k])
         /\ Validate(Config(flags, named))
<1> DEFINE file == FileSays(named)
           c    == Config(flags, named)
<1>1. /\ c = Merged(flags, env, file) /\ Decodes(c) /\ Validate(c)
  BY DEF CanLoad, Config, Loads, Effective, FileSays
<1>2. SourceOK(flags, FlagKeys) /\ SourceOK(env, Keys)
      /\ SourceOK(file, Keys \union {Typo})
  <2>1. FileUsed(named, files) \in FileNames BY DEF FileUsed, FileNames
  <2> QED BY <2>1, DeploymentAssumption DEF TypeOK, FileSays
<1>3. FlagKeys \subseteq Keys
  BY KeysAre DEF FlagKeys, DurationKeys
<1> HIDE DEF file, c
<1>4. /\ DOMAIN flags \subseteq Keys /\ DOMAIN env \subseteq Keys
      /\ \A k \in Keys \intersect DOMAIN flags : flags[k] = Malformed \/ Typed(k, flags[k])
      /\ \A k \in Keys \intersect DOMAIN env : env[k] = Malformed \/ Typed(k, env[k])
      /\ \A k \in Keys \intersect DOMAIN file : file[k] = Malformed \/ Typed(k, file[k])
  BY <1>2, <1>3, ConfigAssumption DEF SourceOK
<1>5. /\ DOMAIN c = Keys \union DOMAIN file
      /\ \A k \in DOMAIN flags : c[k] = flags[k]
      /\ \A k \in DOMAIN env \ DOMAIN flags : c[k] = env[k]
      /\ \A k \in DOMAIN file \ (DOMAIN flags \union DOMAIN env) : c[k] = file[k]
      /\ \A k \in Keys \ (DOMAIN flags \union DOMAIN env \union DOMAIN file) :
           c[k] = Default[k]
  <2>1. IsMerged(c, flags, env, file)
    BY ConfigMerged DEF c, file
  <2> QED BY <2>1 DEF IsMerged
<1>6. DOMAIN c = Keys /\ \A k \in Keys : c[k] # Malformed
  BY <1>1, <1>5 DEF Decodes
<1>7. ASSUME NEW k \in Keys PROVE Typed(k, c[k])
  BY <1>4, <1>5, <1>6, DefaultTyped
<1> QED BY <1>1, <1>6, <1>7 DEF c

\* What is printed is typed, and valid if what it is printed of is.
LEMMA ShownTyped ==
  ASSUME NEW c, \A k \in Keys : Typed(k, c[k])
  PROVE  /\ DOMAIN Shown(c) = Keys
         /\ \A k \in Keys : Typed(k, Shown(c)[k])
         /\ \A k \in Keys \ (SecretKeys \union {"url"}) : Shown(c)[k] = c[k]
         /\ Shown(c)["url"].usable = c.url.usable
         /\ \A k \in SecretKeys : IsSet(Shown(c)[k]) <=> IsSet(c[k])
<1>1. "url" \in Keys /\ SecretKeys \subseteq Keys /\ "url" \notin SecretKeys
  BY KeysAre DEF SecretKeys
<1>2. /\ DOMAIN Shown(c) = Keys
      /\ Shown(c)["url"] = RedactURL(c.url)
      /\ \A k \in SecretKeys : Shown(c)[k] = RedactSecret(c[k])
      /\ \A k \in Keys \ (SecretKeys \union {"url"}) : Shown(c)[k] = c[k]
  BY <1>1 DEF Shown
<1>3. c.url \in URLs
  BY <1>1 DEF Typed
<1>4. /\ RedactURL(c.url) \in URLs
      /\ RedactURL(c.url).usable = c.url.usable
  BY <1>3 DEF RedactURL, RedactSecret, URLs
<1>5. ASSUME NEW k \in SecretKeys
      PROVE  /\ Typed(k, RedactSecret(c[k]))
             /\ IsSet(RedactSecret(c[k])) <=> IsSet(c[k])
  <2>1. Typed(k, c[k]) BY <1>1
  <2>2. Typed(k, Redacted)
    BY DEF Typed, SecretKeys, DurationKeys
  <2> QED BY <2>1, <2>2, ConfigAssumption DEF RedactSecret, IsSet
<1>6. Typed("url", RedactURL(c.url))
  BY <1>4 DEF Typed, DurationKeys
<1> QED BY <1>2, <1>4, <1>5, <1>6

\* Validate does not tell apart configs that differ in what is redacted only.
LEMMA ValidAlike ==
  ASSUME NEW c, NEW d, Validate(c),
         \A k \in Keys \ (SecretKeys \union {"url"}) : d[k] = c[k],
         d.url.usable = c.url.usable,
         \A k \in SecretKeys : IsSet(d[k]) <=> IsSet(c[k])
  PROVE  Validate(d)
<1>1. /\ d.port = c.port /\ d.pool = c.pool /\ d.idle_pool = c.idle_pool
      /\ d.timezone = c.timezone /\ d.login_attempts = c.login_attempts
      /\ d.log_level = c.log_level
      /\ \A k \in DurationKeys : d[k] = c[k]
  BY KeysAre DEF SecretKeys, DurationKeys
<1>2. IsSet(d.password_hash) <=> IsSet(d.session_secret)
  BY DEF Validate, SecretKeys
<1> QED BY <1>1, <1>2 DEF Validate

\* What is printed parses again.
LEMMA ShownParses ==
  ASSUME NEW c, \A k \in Keys : Typed(k, c[k]) /\ c[k] # Malformed,
         NEW k \in Keys
  PROVE  Shown(c)[k] # Malformed
<1>1. CASE k = "url"
  <2>1. Typed("url", Shown(c)["url"]) BY <1>1, ShownTyped
  <2>2. Shown(c)["url"] \in URLs BY <2>1 DEF Typed, DurationKeys
  <2> QED BY <1>1, <2>2, DeploymentAssumption
<1>2. CASE k \in SecretKeys /\ k # "url"
  <2>1. Shown(c)[k] = RedactSecret(c[k]) BY <1>2 DEF Shown
  <2> QED BY <2>1, DeploymentAssumption DEF RedactSecret
<1>3. CASE k \notin SecretKeys /\ k # "url"
  BY <1>3 DEF Shown
<1> QED BY <1>1, <1>2, <1>3

-------------------------------------------------------------------------------
\* What every step preserves.

LEMMA InitInv == Init => Inv
<1> SUFFICES ASSUME Init PROVE Inv OBVIOUS
<1>1. SourceOK(env, Keys) /\ SourceOK(Nothing, Keys \union {Typo})
  BY NothingOK DEF Init
<1> QED BY <1>1 DEF Init, Inv, TypeOK, RunsValid, Absent

GivenOK == given \in [Places -> Passwords \union {Nobody}]

\* Forgetting a hash, and noting whose another is.
LEMMA GivenStays ==
  ASSUME Inv, NEW p \in Places,
         \/ \E k : Forgets(p, k)
         \/ \E password \in Passwords : given' = [given EXCEPT ![p] = password]
  PROVE  GivenOK'
  BY DEF GivenOK, Forgets, Inv, TypeOK

\* A step that only edits the environment.
LEMMA EnvironmentEdited ==
  ASSUME Inv, SourceOK(env', Keys), GivenOK',
         UNCHANGED <<files, release, process, opens>>
  PROVE  Inv'
  BY DEF Inv, TypeOK, RunsValid, GivenOK

\* A step that only edits a Config File.
LEMMA FileEdited ==
  ASSUME Inv, NEW f \in FileNames, NEW is \in {"absent", "broken", "there"}, NEW says,
         SourceOK(says, Keys \union {Typo}),
         files' = [files EXCEPT ![f] = [is |-> is, says |-> says]],
         GivenOK', UNCHANGED <<env, release, process, opens>>
  PROVE  Inv'
<1>1. RunsValid' BY DEF Inv, RunsValid
<1>2. files' = [g \in FileNames |-> [is |-> files'[g].is, says |-> files'[g].says]]
  BY DEF Inv, TypeOK
<1>3. ASSUME NEW g \in FileNames
      PROVE  /\ files'[g].is \in {"absent", "broken", "there"}
             /\ SourceOK(files'[g].says, Keys \union {Typo})
  BY DEF Inv, TypeOK
<1> QED BY <1>1, <1>2, <1>3 DEF Inv, TypeOK, GivenOK

LEMMA StepSetVariable ==
  ASSUME Inv, NEW w \in Writable, SetVariable(w[1], w[2]) PROVE Inv'
<1>1. w[1] \in Keys /\ SourceOK(env, Keys) /\ (w[2] = Malformed \/ Typed(w[1], w[2]))
  BY DeploymentAssumption DEF SetVariable, Inv, TypeOK
<1>2. SourceOK(env', Keys)
  BY <1>1, PutOK DEF SetVariable
<1>3. GivenOK'
  BY GivenStays DEF SetVariable, Places
<1> QED BY <1>2, <1>3, EnvironmentEdited DEF SetVariable

LEMMA StepUnsetVariable ==
  ASSUME Inv, NEW k \in Keys, UnsetVariable(k) PROVE Inv'
<1>1. SourceOK(env', Keys)
  BY DEF UnsetVariable, Inv, TypeOK, SourceOK
<1>2. GivenOK'
  BY GivenStays DEF UnsetVariable, Places
<1> QED BY <1>1, <1>2, EnvironmentEdited DEF UnsetVariable

\* The hash of a password is a value of its key.
LEMMA HashTyped ==
  ASSUME Inv, NEW password \in Passwords
  PROVE  /\ "password_hash" \in Keys
         /\ Typed("password_hash", HashPassword(password, release))
<1>1. "password_hash" \in Keys
  BY KeysAre DEF SecretKeys
<1>2. HashPassword(password, release) \in Encodings
  BY DEF HashPassword, IDKey, Encodings, Inv, TypeOK
<1> QED BY <1>1, <1>2 DEF Typed, DurationKeys

LEMMA StepSetPassword ==
  ASSUME Inv, NEW password \in Passwords, SetPassword(password) PROVE Inv'
<1>1. SourceOK(env', Keys)
  BY HashTyped, PutOK DEF SetPassword, Inv, TypeOK
<1>2. GivenOK'
  BY GivenStays DEF SetPassword, Places
<1> QED BY <1>1, <1>2, EnvironmentEdited DEF SetPassword

LEMMA StepWritePassword ==
  ASSUME Inv, NEW f \in FileNames, NEW password \in Passwords,
         WritePassword(f, password)
  PROVE  Inv'
<1> DEFINE says == Put(files[f].says, "password_hash", HashPassword(password, release))
<1>1. SourceOK(files[f].says, Keys \union {Typo})
  BY DEF Inv, TypeOK
<1>2. SourceOK(says, Keys \union {Typo})
  BY <1>1, HashTyped, PutOK
<1>3. files' = [files EXCEPT ![f] = [is |-> "there", says |-> says]]
  BY DEF WritePassword, Says
<1> HIDE DEF says
<1>4. GivenOK'
  BY GivenStays DEF WritePassword, Places
<1> QED BY <1>2, <1>3, <1>4, FileEdited DEF WritePassword

LEMMA StepWriteKey ==
  ASSUME Inv, NEW f \in FileNames, NEW w \in Writable, WriteKey(f, w[1], w[2])
  PROVE  Inv'
<1> DEFINE says == Put(files[f].says, w[1], w[2])
<1>1. /\ w[1] \in Keys \union {Typo}
      /\ w[1] # Typo => w[2] = Malformed \/ Typed(w[1], w[2])
      /\ SourceOK(files[f].says, Keys \union {Typo})
  BY DeploymentAssumption DEF Inv, TypeOK
<1>2. SourceOK(says, Keys \union {Typo})
  BY <1>1, PutOK
<1>3. files' = [files EXCEPT ![f] = [is |-> "there", says |-> says]]
  BY DEF WriteKey, Says
<1> HIDE DEF says
<1>4. GivenOK'
  BY GivenStays DEF WriteKey, Places
<1> QED BY <1>2, <1>3, <1>4, FileEdited DEF WriteKey

LEMMA StepSpoilFile ==
  ASSUME Inv, NEW f \in FileNames, NEW as \in {Absent, Broken}, SpoilFile(f, as)
  PROVE  Inv'
<1>1. SourceOK(Nothing, Keys \union {Typo}) BY NothingOK
<1>2. \/ files' = [files EXCEPT ![f] = [is |-> "absent", says |-> Nothing]]
      \/ files' = [files EXCEPT ![f] = [is |-> "broken", says |-> Nothing]]
  BY DEF SpoilFile, Absent, Broken
<1>3. GivenOK'
  BY GivenStays DEF SpoilFile, Places
<1> QED BY <1>1, <1>2, <1>3, FileEdited DEF SpoilFile

LEMMA StepPasteShown ==
  ASSUME Inv, NEW flags \in Flags, NEW named \in BOOLEAN, PasteShown(flags, named)
  PROVE  Inv'
<1> DEFINE says == Shown(Config(flags, named))
           f    == PasteTarget(named)
<1>1. DOMAIN says = Keys /\ \A k \in Keys : Typed(k, says[k])
  BY ConfigTyped, ShownTyped DEF PasteShown, Inv
<1>2. f \in FileNames
  BY DEF PasteTarget, FileUsed, FileNames
<1>3. files' = [files EXCEPT ![f] = [is |-> "there", says |-> says]]
  BY DEF PasteShown, Says
<1>4. GivenOK'
  BY <1>2, GivenStays DEF PasteShown, Places
<1> HIDE DEF says, f
<1>5. SourceOK(says, Keys \union {Typo})
  BY <1>1, ConfigAssumption DEF SourceOK
<1> QED BY <1>2, <1>3, <1>4, <1>5, FileEdited DEF PasteShown

LEMMA StepServe ==
  ASSUME Inv, NEW flags \in Flags, NEW named \in BOOLEAN, Serve(flags, named)
  PROVE  Inv'
<1>1. /\ DOMAIN process' = Keys
      /\ \A k \in Keys : Typed(k, process'[k])
      /\ Validate(process')
  BY ConfigTyped DEF Serve, Inv
<1>2. HashFrom(named) \in Places
  BY DEF HashFrom, Places, FileUsed, FileNames
<1>3. UNCHANGED <<env, files, release, given>> /\ opens' \in Passwords \union {Nobody}
  BY <1>2 DEF Serve, Inv, TypeOK
<1>4. TypeOK' BY <1>1, <1>3 DEF Inv, TypeOK
<1> QED BY <1>1, <1>4 DEF Inv, RunsValid

LEMMA StepInv == Inv /\ [Next]_vars => Inv'
<1> SUFFICES ASSUME Inv, [Next]_vars PROVE Inv' OBVIOUS
<1>1. ASSUME NEW w \in Writable,
             SetVariable(w[1], w[2]) \/ \E f \in FileNames : WriteKey(f, w[1], w[2])
      PROVE  Inv'
  BY <1>1, StepSetVariable, StepWriteKey
<1>2. ASSUME NEW k \in Keys, UnsetVariable(k) PROVE Inv'
  BY <1>2, StepUnsetVariable
<1>3. ASSUME NEW password \in Passwords,
             SetPassword(password) \/ \E f \in FileNames : WritePassword(f, password)
      PROVE  Inv'
  BY <1>3, StepSetPassword, StepWritePassword
<1>4. ASSUME NEW f \in FileNames, NEW as \in {Absent, Broken}, SpoilFile(f, as)
      PROVE  Inv'
  BY <1>4, StepSpoilFile
<1>5. ASSUME NEW flags \in Flags, NEW named \in BOOLEAN,
             Serve(flags, named) \/ PasteShown(flags, named)
      PROVE  Inv'
  BY <1>5, StepPasteShown, StepServe
<1>6. ASSUME NEW params \in Params, Install(params) PROVE Inv'
  BY <1>6 DEF Install, Inv, TypeOK, RunsValid
<1>7. ASSUME Stop PROVE Inv'
  BY <1>7 DEF Stop, Inv, TypeOK, RunsValid
<1>8. ASSUME UNCHANGED vars PROVE Inv'
  BY <1>8 DEF vars, Inv, TypeOK, RunsValid
<1> QED BY <1>1, <1>2, <1>3, <1>4, <1>5, <1>6, <1>7, <1>8 DEF Next

LEMMA Invariance == Spec => []Inv
  BY InitInv, StepInv, PTL DEF Spec

\* What was pasted is what the next Config with the same flags is merged from,
\* and differs from what was printed of only where secrets are hidden.
LEMMA PastedConfig ==
  ASSUME Inv, NEW flags \in Flags, NEW named \in BOOLEAN, PasteShown(flags, named)
  PROVE  /\ files'[FileUsed(named, files')] = Says(Shown(Config(flags, named)))
         /\ IsMerged(Config(flags, named)', flags, env, Shown(Config(flags, named)))
<1> DEFINE shown == Shown(Config(flags, named))
           f     == PasteTarget(named)
<1>1. f \in FileNames /\ files' = [files EXCEPT ![f] = Says(shown)]
  BY DEF PasteTarget, FileUsed, FileNames, PasteShown
<1>2. FileUsed(named, files') = f
  BY <1>1 DEF FileUsed, PasteTarget, FileNames, Says, Inv, TypeOK
<1>3. files'[FileUsed(named, files')] = Says(shown)
  BY <1>1, <1>2 DEF Inv, TypeOK
<1> HIDE DEF f, shown
<1>4. Config(flags, named)' = Merged(flags, env, shown)
  BY <1>3 DEF Config, Effective, Says, PasteShown
<1>5. IsMerged(Merged(flags, env, shown), flags, env, shown)
  BY ConfigMerged, MergedValue DEF Inv
<1> QED BY <1>3, <1>4, <1>5 DEF shown

-------------------------------------------------------------------------------
\* What every step preserves of Hashes.

LEMMA InitHashes == Init => Hashes
  BY DEF Init, Hashes, EnvironmentHash, FilesHash, ProcessHash, SourceHash,
         Absent, Nothing, Places

\* Writing over a key of a source: nobody's is what is no encoding.
LEMMA PutHash ==
  ASSUME NEW source, NEW whose, SourceHash(source, whose), NEW k, NEW v,
         k = "password_hash" => v \notin Encodings
  PROVE  /\ k = "password_hash" => SourceHash(Put(source, k, v), Nobody)
         /\ k # "password_hash" => SourceHash(Put(source, k, v), whose)
  BY DEF SourceHash, Put, HashOf

LEMMA PutPassword ==
  ASSUME Inv, NEW source, NEW password \in Passwords
  PROVE  SourceHash(Put(source, "password_hash", HashPassword(password, release)),
                    password)
<1>1. HashOf(HashPassword(password, release), password)
  BY DEF HashOf, Inv, TypeOK
<1> DEFINE hash == HashPassword(password, release)
<1> HIDE DEF hash
<1>2. SourceHash(Put(source, "password_hash", hash), password)
  BY <1>1 DEF SourceHash, Put, hash
<1> QED BY <1>2 DEF hash

\* A step that edits one source leaves the hashes of the others where they are.
LEMMA EnvironmentHashes ==
  ASSUME Inv, Hashes, NEW whose, SourceHash(env', whose),
         given' = [given EXCEPT !["environment"] = whose],
         UNCHANGED <<files, process, opens>>
  PROVE  Hashes'
<1>1. given'["environment"] = whose /\ \A f \in FileNames : given'[f] = given[f]
  BY DEF Inv, TypeOK, Places, FileNames
<1> QED BY <1>1 DEF Hashes, EnvironmentHash, FilesHash, ProcessHash

LEMMA FileHashes ==
  ASSUME Inv, Hashes, NEW f \in FileNames, NEW is, NEW says, NEW whose,
         SourceHash(says, whose), given' = [given EXCEPT ![f] = whose],
         files' = [files EXCEPT ![f] = [is |-> is, says |-> says]],
         UNCHANGED <<env, process, opens>>
  PROVE  Hashes'
<1>1. /\ given'[f] = whose /\ given'["environment"] = given["environment"]
      /\ \A g \in FileNames \ {f} : given'[g] = given[g]
  BY DEF Inv, TypeOK, Places, FileNames
<1>2. /\ files'[f].says = says
      /\ \A g \in FileNames \ {f} : files'[g] = files[g]
  BY DEF Inv, TypeOK
<1>3. ASSUME NEW g \in FileNames PROVE SourceHash(files'[g].says, given'[g])
  <2>1. CASE g = f BY <1>1, <1>2, <2>1
  <2>2. CASE g # f BY <1>1, <1>2, <2>2 DEF Hashes, FilesHash
  <2> QED BY <2>1, <2>2
<1> QED BY <1>1, <1>3 DEF Hashes, EnvironmentHash, FilesHash, ProcessHash

LEMMA HashesSetVariable ==
  ASSUME Inv, Hashes, NEW w \in Writable, SetVariable(w[1], w[2])
  PROVE  Hashes'
<1> DEFINE whose == IF w[1] = "password_hash" THEN Nobody ELSE given["environment"]
<1>1. w[1] = "password_hash" => w[2] \notin Encodings
  BY DeploymentAssumption
<1>2. SourceHash(env', whose)
  BY <1>1, PutHash DEF SetVariable, Hashes, EnvironmentHash
<1>3. given' = [given EXCEPT !["environment"] = whose]
  BY DEF SetVariable, Forgets
<1> HIDE DEF whose
<1> QED BY <1>2, <1>3, EnvironmentHashes DEF SetVariable

LEMMA HashesUnsetVariable ==
  ASSUME Inv, Hashes, NEW k \in Keys, UnsetVariable(k)
  PROVE  Hashes'
<1> DEFINE whose == IF k = "password_hash" THEN Nobody ELSE given["environment"]
<1>1. SourceHash(env', whose)
  BY DEF UnsetVariable, Hashes, EnvironmentHash, SourceHash
<1>2. given' = [given EXCEPT !["environment"] = whose]
  BY DEF UnsetVariable, Forgets
<1> HIDE DEF whose
<1> QED BY <1>1, <1>2, EnvironmentHashes DEF UnsetVariable

LEMMA HashesSetPassword ==
  ASSUME Inv, Hashes, NEW password \in Passwords, SetPassword(password)
  PROVE  Hashes'
<1>1. SourceHash(env', password)
  BY PutPassword DEF SetPassword
<1> QED BY <1>1, EnvironmentHashes DEF SetPassword

LEMMA HashesWritePassword ==
  ASSUME Inv, Hashes, NEW f \in FileNames, NEW password \in Passwords,
         WritePassword(f, password)
  PROVE  Hashes'
<1> DEFINE says == Put(files[f].says, "password_hash", HashPassword(password, release))
<1>1. SourceHash(says, password)
  BY PutPassword
<1>2. files' = [files EXCEPT ![f] = [is |-> "there", says |-> says]]
  BY DEF WritePassword, Says
<1> HIDE DEF says
<1> QED BY <1>1, <1>2, FileHashes DEF WritePassword

LEMMA HashesWriteKey ==
  ASSUME Inv, Hashes, NEW f \in FileNames, NEW w \in Writable,
         WriteKey(f, w[1], w[2])
  PROVE  Hashes'
<1> DEFINE says  == Put(files[f].says, w[1], w[2])
           whose == IF w[1] = "password_hash" THEN Nobody ELSE given[f]
<1>1. w[1] = "password_hash" => w[2] \notin Encodings
  BY DeploymentAssumption
<1>2. SourceHash(says, whose)
  BY <1>1, PutHash DEF Hashes, FilesHash
<1>3. files' = [files EXCEPT ![f] = [is |-> "there", says |-> says]]
  BY DEF WriteKey, Says
<1>4. given' = [given EXCEPT ![f] = whose]
  BY DEF WriteKey, Forgets
<1> HIDE DEF says, whose
<1> QED BY <1>2, <1>3, <1>4, FileHashes DEF WriteKey

LEMMA HashesSpoilFile ==
  ASSUME Inv, Hashes, NEW f \in FileNames, NEW as \in {Absent, Broken},
         SpoilFile(f, as)
  PROVE  Hashes'
<1>1. SourceHash(Nothing, Nobody) BY DEF SourceHash, Nothing
<1>2. \/ files' = [files EXCEPT ![f] = [is |-> "absent", says |-> Nothing]]
      \/ files' = [files EXCEPT ![f] = [is |-> "broken", says |-> Nothing]]
  BY DEF SpoilFile, Absent, Broken
<1>3. given' = [given EXCEPT ![f] = Nobody]
  BY DEF SpoilFile, Forgets
<1> QED BY <1>1, <1>2, <1>3, FileHashes DEF SpoilFile

\* RedactSecret leaves nothing of a hash.
LEMMA HashesPasteShown ==
  ASSUME Inv, Hashes, NEW flags \in Flags, NEW named \in BOOLEAN,
         PasteShown(flags, named)
  PROVE  Hashes'
<1> DEFINE says == Shown(Config(flags, named))
           f    == PasteTarget(named)
<1>1. /\ "password_hash" \in DOMAIN says
      /\ says["password_hash"] \in {Redacted, NoSecret}
  BY KeysAre DEF Shown, SecretKeys, RedactSecret, IsSet
<1>2. f \in FileNames
  BY DEF PasteTarget, FileUsed, FileNames
<1>3. files' = [files EXCEPT ![f] = [is |-> "there", says |-> says]]
  BY DEF PasteShown, Says
<1>4. given' = [given EXCEPT ![f] = Nobody]
  BY DEF PasteShown, Forgets
<1> HIDE DEF says, f
<1>5. SourceHash(says, Nobody)
  BY <1>1, DeploymentAssumption DEF SourceHash, HashOf
<1> QED BY <1>2, <1>3, <1>4, <1>5, FileHashes DEF PasteShown

\* No flag gives a hash: it is the variable's, or else a file's or the default.
LEMMA HashesServe ==
  ASSUME Inv, Hashes, NEW flags \in Flags, NEW named \in BOOLEAN,
         Serve(flags, named)
  PROVE  Hashes'
<1> DEFINE file == FileSays(named)
           hash == process'["password_hash"]
           name == FileUsed(named, files)
<1>1. EnvironmentHash' /\ FilesHash'
  BY DEF Serve, Hashes, EnvironmentHash, FilesHash
<1>2. IsMerged(process', flags, env, file)
  BY ConfigMerged DEF Serve, Inv
<1>3. "password_hash" \in Keys /\ "password_hash" \notin DOMAIN flags
  BY KeysAre, DeploymentAssumption DEF SecretKeys, SourceOK, FlagKeys
<1>4. SourceHash(file, given[name])
  BY DEF Hashes, FilesHash, FileSays, FileUsed, FileNames
<1>5. Default["password_hash"] = NoSecret
  BY SMT DEF Default
<1> HIDE DEF file
<1>6. ASSUME "password_hash" \in DOMAIN env PROVE HashOf(hash, opens')
  <2>1. hash = env["password_hash"] BY <1>2, <1>3, <1>6 DEF IsMerged
  <2>2. HashOf(env["password_hash"], given["environment"])
    BY <1>6 DEF Hashes, EnvironmentHash, SourceHash
  <2>3. opens' = given["environment"]
    BY <1>6 DEF Serve, HashFrom
  <2> QED BY <2>1, <2>2, <2>3
<1>7. ASSUME "password_hash" \notin DOMAIN env PROVE HashOf(hash, opens')
  <2>1. opens' = given[name]
    BY <1>7 DEF Serve, HashFrom
  <2> HIDE DEF name
  <2>2. CASE "password_hash" \in DOMAIN file
    BY <1>2, <1>3, <1>4, <1>7, <2>1, <2>2 DEF IsMerged, SourceHash
  <2>3. CASE "password_hash" \notin DOMAIN file
    <3>1. hash = NoSecret
      BY <1>2, <1>3, <1>5, <1>7, <2>3 DEF IsMerged
    <3>2. given[name] = Nobody
      BY <1>4, <2>3 DEF SourceHash
    <3> QED BY <2>1, <3>1, <3>2, DeploymentAssumption DEF HashOf
  <2> QED BY <2>2, <2>3
<1>8. ProcessHash'
  BY <1>6, <1>7 DEF ProcessHash
<1> QED BY <1>1, <1>8 DEF Hashes

LEMMA StepHashes == Inv /\ Hashes /\ [Next]_vars => Hashes'
<1> SUFFICES ASSUME Inv, Hashes, [Next]_vars PROVE Hashes' OBVIOUS
<1>1. ASSUME NEW w \in Writable,
             SetVariable(w[1], w[2]) \/ \E f \in FileNames : WriteKey(f, w[1], w[2])
      PROVE  Hashes'
  BY <1>1, HashesSetVariable, HashesWriteKey
<1>2. ASSUME NEW k \in Keys, UnsetVariable(k) PROVE Hashes'
  BY <1>2, HashesUnsetVariable
<1>3. ASSUME NEW password \in Passwords,
             SetPassword(password) \/ \E f \in FileNames : WritePassword(f, password)
      PROVE  Hashes'
  BY <1>3, HashesSetPassword, HashesWritePassword
<1>4. ASSUME NEW f \in FileNames, NEW as \in {Absent, Broken}, SpoilFile(f, as)
      PROVE  Hashes'
  BY <1>4, HashesSpoilFile
<1>5. ASSUME NEW flags \in Flags, NEW named \in BOOLEAN,
             Serve(flags, named) \/ PasteShown(flags, named)
      PROVE  Hashes'
  BY <1>5, HashesPasteShown, HashesServe
<1>6. ASSUME NEW params \in Params, Install(params) PROVE Hashes'
  BY <1>6 DEF Install, Hashes, EnvironmentHash, FilesHash, ProcessHash
<1>7. ASSUME Stop PROVE Hashes'
  BY <1>7 DEF Stop, Hashes, EnvironmentHash, FilesHash, ProcessHash
<1>8. ASSUME UNCHANGED vars PROVE Hashes'
  BY <1>8 DEF vars, Hashes, EnvironmentHash, FilesHash, ProcessHash
<1> QED BY <1>1, <1>2, <1>3, <1>4, <1>5, <1>6, <1>7, <1>8 DEF Next

\* A hash is opened by the password it is of, and what is no encoding by none.
LEMMA OpensIs ==
  ASSUME NEW hash, NEW whose, HashOf(hash, whose), NEW password \in Passwords
  PROVE  VerifyPassword(hash, password) <=> password = whose
<1>1. CASE whose = Nobody /\ hash \notin Encodings
  BY <1>1, DeploymentAssumption DEF VerifyPassword
<1>2. ASSUME NEW params \in Params, whose \in Passwords,
             hash = HashPassword(whose, params)
      PROVE  VerifyPassword(hash, password) <=> password = whose
  <2>1. hash \in Encodings BY <1>2 DEF HashPassword, IDKey, Encodings
  <2>2. hash.params = params /\ hash.key = <<whose, params>>
    BY <1>2 DEF HashPassword, IDKey
  <2> QED BY <2>1, <2>2 DEF VerifyPassword, IDKey
<1> QED BY <1>1, <1>2 DEF HashOf

-------------------------------------------------------------------------------
(***************************************************************************)
(* Theorems.                                                               *)
(***************************************************************************)

\* Every source holds keys of the program, but for a Typo in a file, and a
\* process has a value of its type for every key.
THEOREM TypeCorrect == Spec => []TypeOK
  BY Invariance, PTL DEF Inv

\* viper's order, and the keys it looks up in the environment at all: those of
\* the defaults, which is why a default is set for every key.
THEOREM Precedence == Spec => HighestSourceWins
<1>1. ASSUME Inv, NEW flags \in Flags, NEW named \in BOOLEAN, Serve(flags, named),
             NEW k \in Keys
      PROVE  process'[k] = FirstToSay(<<flags, env, FileSays(named), Default>>, k)
  <2> DEFINE file    == FileSays(named)
             sources == <<flags, env, file, Default>>
             First(i) == /\ k \in DOMAIN sources[i]
                         /\ \A j \in 1..(i - 1) : k \notin DOMAIN sources[j]
  <2>1. k \in DOMAIN Default BY DEF Keys
  <2>2. IsMerged(process', flags, env, file)
    BY <1>1, ConfigMerged DEF Serve, Inv
  <2>3. CASE k \in DOMAIN flags
    <3>1. (CHOOSE i \in DOMAIN sources : First(i)) = 1 BY <2>3
    <3> QED BY <2>2, <2>3, <3>1 DEF IsMerged, FirstToSay
  <2>4. CASE k \in DOMAIN env \ DOMAIN flags
    <3>1. (CHOOSE i \in DOMAIN sources : First(i)) = 2 BY <2>4
    <3> QED BY <2>2, <2>4, <3>1 DEF IsMerged, FirstToSay
  <2>5. CASE k \in DOMAIN file \ (DOMAIN flags \union DOMAIN env)
    <3>1. (CHOOSE i \in DOMAIN sources : First(i)) = 3 BY <2>5
    <3> QED BY <2>2, <2>5, <3>1 DEF IsMerged, FirstToSay
  <2>6. CASE k \notin DOMAIN flags \union DOMAIN env \union DOMAIN file
    <3>1. (CHOOSE i \in DOMAIN sources : First(i)) = 4 BY <2>1, <2>6
    <3>2. process'[k] = Default[k] BY <1>1, <2>2, <2>6 DEF IsMerged
    <3>3. sources[4] = Default OBVIOUS
    <3> QED BY <3>1, <3>2, <3>3, Zenon DEF FirstToSay
  <2> QED BY <2>3, <2>4, <2>5, <2>6
<1>2. Inv /\ [Next]_vars =>
        [\A flags \in Flags, named \in BOOLEAN : Serve(flags, named) =>
           \A k \in Keys :
             process'[k] =
               FirstToSay(<<flags, env, FileSays(named), Default>>, k)]_vars
  BY <1>1
<1> QED BY <1>2, Invariance, PTL DEF Spec, HighestSourceWins

\* RedactSecret and RedactURL write something that still counts as given, and
\* Settings lists every key: what `config show' prints loads again, and
\* changes no setting but a secret that only the file gave.
THEOREM ShownCanBePasted == Spec => PasteKeepsSettings
<1>1. ASSUME Inv, NEW flags \in Flags, NEW named \in BOOLEAN, PasteShown(flags, named)
      PROVE  /\ CanLoad(flags, named)'
             /\ \A k \in Keys :
                  Config(flags, named)'[k] =
                    IF Unprinted(k, flags) THEN Shown(Config(flags, named))[k]
                                           ELSE Config(flags, named)[k]
  <2> DEFINE c     == Config(flags, named)
             shown == Shown(c)
             next  == Config(flags, named)'
             told  == DOMAIN flags \union DOMAIN env
  <2>1. /\ CanLoad(flags, named) /\ TypeOK
        /\ DOMAIN flags \subseteq Keys /\ DOMAIN env \subseteq Keys
    BY <1>1, ConfigMerged DEF PasteShown, Inv
  <2>2. /\ DOMAIN c = Keys /\ \A k \in Keys : Typed(k, c[k])
        /\ Decodes(c) /\ Validate(c)
    BY <2>1, ConfigTyped DEF CanLoad, Loads, Config
  <2>3. \A k \in told : c[k] = IF k \in DOMAIN flags THEN flags[k] ELSE env[k]
    <3>1. IsMerged(c, flags, env, FileSays(named)) BY <2>1, ConfigMerged
    <3> QED BY <3>1 DEF IsMerged
  <2>4. /\ DOMAIN shown = Keys
        /\ \A k \in Keys : Typed(k, shown[k])
        /\ \A k \in Keys \ (SecretKeys \union {"url"}) : shown[k] = c[k]
        /\ shown["url"].usable = c.url.usable
        /\ \A k \in SecretKeys : IsSet(shown[k]) <=> IsSet(c[k])
    BY <2>2, ShownTyped
  <2>5. /\ files'[FileUsed(named, files')] = Says(shown)
        /\ IsMerged(next, flags, env, shown)
    BY <1>1, PastedConfig
  <2> HIDE DEF c, shown, next
  <2>6. DOMAIN next = Keys
    BY <2>4, <2>5 DEF IsMerged
  <2>7. \A k \in Keys : next[k] = IF k \in told THEN c[k] ELSE shown[k]
    BY <2>3, <2>4, <2>5 DEF IsMerged
  <2>8. \A k \in Keys : next[k] = IF Unprinted(k, flags) THEN shown[k] ELSE c[k]
    BY <2>4, <2>7 DEF Unprinted
  <2>9. Decodes(next)
    <3>1. \A k \in Keys : Typed(k, c[k]) /\ c[k] # Malformed
      BY <2>2 DEF Decodes
    <3>2. \A k \in Keys : shown[k] # Malformed
      BY <3>1, ShownParses DEF shown
    <3> QED BY <2>6, <2>7, <3>1, <3>2 DEF Decodes
  <2>10. Validate(next)
    <3>1. \A k \in Keys \ (SecretKeys \union {"url"}) : next[k] = c[k]
      BY <2>4, <2>7
    <3>2. /\ next.url.usable = c.url.usable
          /\ \A k \in SecretKeys : IsSet(next[k]) <=> IsSet(c[k])
      BY <2>4, <2>7, KeysAre
    <3> QED BY <2>2, <3>1, <3>2, ValidAlike
  <2>11. CanLoad(flags, named)'
    BY <2>5, <2>9, <2>10 DEF next, CanLoad, Loads, Config, Readable, Says
  <2> QED BY <2>8, <2>11 DEF next, shown, c
<1>2. Inv /\ [Next]_vars =>
        [\A flags \in Flags, named \in BOOLEAN : PasteShown(flags, named) =>
           /\ CanLoad(flags, named)'
           /\ \A k \in Keys :
                Config(flags, named)'[k] =
                  IF Unprinted(k, flags) THEN Shown(Config(flags, named))[k]
                                         ELSE Config(flags, named)[k]]_vars
  BY <1>1
<1> QED BY <1>2, Invariance, PTL DEF Spec, PasteKeepsSettings

\* The variable wins over the file that is read, parseHash takes the parameters
\* out of the hash, RedactSecret leaves nothing of one: the password the hash
\* in force was made of logs in, and no other.
THEOREM OnePassword == Spec => []OnlyItsPasswordOpens
<1>1. Inv /\ Hashes => OnlyItsPasswordOpens
  BY OpensIs DEF Hashes, ProcessHash, OnlyItsPasswordOpens
<1> QED BY <1>1, Invariance, InitHashes, StepHashes, PTL DEF Spec
===============================================================================
