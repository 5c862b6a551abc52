------------------------------ MODULE Deployment -------------------------------
(***************************************************************************)
(* The operator configures, starts and stops a deployment: edits variables *)
(* and Config Files, pastes what `config show' prints back into one, makes *)
(* a password hash, installs another release.  A process keeps the         *)
(* Effective Config it was started with.                                   *)
(***************************************************************************)
EXTENDS EffectiveConfig

CONSTANTS
  Down,       \* no process runs
  Flags,      \* the flags that `serve' and `config show' may be given
  Writable,   \* what may be written into a source: pairs of a key and a value
  Passwords,
  Nobody,     \* no password
  Params,     \* the argon2Params of the releases
  Garbage,    \* a password hash that is not an argon2id encoding
  Secrets,    \* session secrets
  Accounts,   \* passwords of database users
  MaxEdits    \* bound: how often sources are edited

VARIABLES
  env,      \* the PW_ variables
  files,    \* the Config Files: of --config, of the working and the home directory
  release,  \* argon2Params of the installed binary
  process,  \* the Effective Config of the running process
  edits,
  given,    \* history: by source, the password its password_hash was made of
  opens     \* history: that of the hash which the process was started with

vars == <<env, files, release, process, edits, given, opens>>

FileNames == {"named", "cwd", "home"}
Places    == FileNames \union {"environment"}

\* argon2.IDKey: the password and the parameters determine the key, and no two
\* of them give the same.  The salt is left out.
IDKey(password, params) == <<password, params>>

HashPassword(password, params) ==
  [params |-> params, key |-> IDKey(password, params)]
Encodings == [params : Params, key : Passwords \X Params]

\* Slip: the key is derived with the parameters of this binary.
VerifyWithOwn(encoded, password) ==
  encoded \in Encodings /\ IDKey(password, release) = encoded.key

\* parseHash, then the comparison: the parameters are those of the hash.
VerifyPassword(encoded, password) ==
  encoded \in Encodings /\ IDKey(password, encoded.params) = encoded.key

URLs == [usable : BOOLEAN, password : Accounts \union {NoSecret, Redacted}]

\* The values that parse as the type of their key; every name is a string.
Typed(k, v) ==
  /\ k \in {"port", "pool", "idle_pool", "login_attempts"} \union DurationKeys => v \in Int
  /\ k = "url" => v \in URLs
  /\ k = "insecure_cookie" => v \in BOOLEAN
  /\ k = "password_hash" => v \in Encodings \union {Garbage, NoSecret, Redacted}
  /\ k = "session_secret" => v \in Secrets \union {NoSecret, Redacted}

SourceOK(source, keys) ==
  /\ DOMAIN source \subseteq keys
  /\ \A k \in DOMAIN source \ {Typo} : source[k] = Malformed \/ Typed(k, source[k])

ASSUME DeploymentAssumption ==
  /\ DevDatabaseURL.password \in Accounts
  /\ Malformed # Redacted /\ Malformed \notin URLs
  /\ Nobody \notin Passwords
  /\ NoSecret \notin Encodings /\ Redacted \notin Encodings
  /\ \A w \in Writable : w[1] = "password_hash" => w[2] \notin Encodings
  /\ \A w \in Writable : w[1] \in Keys => w[2] = Malformed \/ Typed(w[1], w[2])
  /\ \A w \in Writable : w[1] \in Keys \union {Typo} /\ w[2] \notin {NoSecret}
  /\ \A flags \in Flags : SourceOK(flags, FlagKeys)

TypeOK ==
  /\ SourceOK(env, Keys)
  /\ files = [f \in FileNames |-> [is |-> files[f].is, says |-> files[f].says]]
  /\ \A f \in FileNames : /\ files[f].is \in {"absent", "broken", "there"}
                          /\ SourceOK(files[f].says, Keys \union {Typo})
  /\ release \in Params
  /\ process = Down \/ (DOMAIN process = Keys /\ \A k \in Keys : Typed(k, process[k]))
  /\ given \in [Places -> Passwords \union {Nobody}]
  /\ opens \in Passwords \union {Nobody}

Init ==
  /\ env = Nothing
  /\ files = [f \in FileNames |-> Absent]
  /\ release \in Params
  /\ process = Down
  /\ edits = 0
  /\ given = [p \in Places |-> Nobody]
  /\ opens = Nobody

-------------------------------------------------------------------------------
\* The operator edits the sources; a running process does not notice.

Edits == edits < MaxEdits /\ edits' = edits + 1
Put(source, k, v) ==
  [x \in DOMAIN source \union {k} |-> IF x = k THEN v ELSE source[x]]

\* The hash that a place held is gone when its key is written over or removed.
Forgets(p, k) ==
  given' = [given EXCEPT ![p] = IF k = "password_hash" THEN Nobody ELSE @]

SetVariable(k, v) ==
  /\ Edits /\ k \in Keys
  /\ env' = Put(env, k, v)
  /\ Forgets("environment", k)
  /\ UNCHANGED <<files, release, process, opens>>

UnsetVariable(k) ==
  /\ Edits /\ k \in DOMAIN env
  /\ env' = [x \in DOMAIN env \ {k} |-> env[x]]
  /\ Forgets("environment", k)
  /\ UNCHANGED <<files, release, process, opens>>

\* PW_ADMIN_PASSWORD_HASH=$(personal-web admin hash-password), of the binary
\* that is installed.
SetPassword(password) ==
  /\ Edits
  /\ env' = Put(env, "password_hash", HashPassword(password, release))
  /\ given' = [given EXCEPT !["environment"] = password]
  /\ UNCHANGED <<files, release, process, opens>>

\* The same hash as admin.password_hash of a Config File.
WritePassword(f, password) ==
  /\ Edits /\ files[f].is # "broken"
  /\ files' = [files EXCEPT ![f] =
       Says(Put(@.says, "password_hash", HashPassword(password, release)))]
  /\ given' = [given EXCEPT ![f] = password]
  /\ UNCHANGED <<env, release, process, opens>>

WriteKey(f, k, v) ==
  /\ Edits /\ files[f].is # "broken"
  /\ files' = [files EXCEPT ![f] = Says(Put(@.says, k, v))]
  /\ Forgets(f, k)
  /\ UNCHANGED <<env, release, process, opens>>

SpoilFile(f, as) ==
  /\ Edits /\ as \in {Absent, Broken} \ {files[f]}
  /\ files' = [files EXCEPT ![f] = as]
  /\ Forgets(f, "password_hash")
  /\ UNCHANGED <<env, release, process, opens>>

Config(flags, named)  == Effective(flags, env, named, files)
CanLoad(flags, named) == Loads(flags, env, named, files)

\* The file whose settings the output shows, or the one that is made of it.
PasteTarget(named) ==
  IF FileUsed(named, files) = "home" /\ files["home"].is = "absent"
    THEN "cwd" ELSE FileUsed(named, files)

\* What `config show' prints, for the flags it is given, becomes the file.
PasteShown(flags, named) ==
  /\ Edits /\ CanLoad(flags, named)
  /\ files' = [files EXCEPT ![PasteTarget(named)] =
                 Says(Shown(Config(flags, named)))]
  /\ Forgets(PasteTarget(named), "password_hash")
  /\ UNCHANGED <<env, release, process, opens>>

\* Another release, with other argon2Params: the process is restarted for it.
Install(params) ==
  /\ process = Down /\ params # release
  /\ release' = params
  /\ UNCHANGED <<env, files, process, edits, given, opens>>

-------------------------------------------------------------------------------
\* Where the password hash is looked up: no flag gives it.
HashFrom(named) ==
  IF "password_hash" \in DOMAIN env THEN "environment" ELSE FileUsed(named, files)

\* serve, until it is stopped: an Effective Config that does not load ends it.
Serve(flags, named) ==
  /\ process = Down
  /\ CanLoad(flags, named)
  /\ process' = Config(flags, named)
  /\ opens' = given[HashFrom(named)]
  /\ UNCHANGED <<env, files, release, edits, given>>

Stop ==
  /\ process # Down
  /\ process' = Down /\ opens' = Nobody
  /\ UNCHANGED <<env, files, release, edits, given>>

Next ==
  \/ \E w \in Writable :
       \/ SetVariable(w[1], w[2])
       \/ \E f \in FileNames : WriteKey(f, w[1], w[2])
  \/ \E k \in Keys : UnsetVariable(k)
  \/ \E password \in Passwords :
       SetPassword(password) \/ \E f \in FileNames : WritePassword(f, password)
  \/ \E f \in FileNames, as \in {Absent, Broken} : SpoilFile(f, as)
  \/ \E flags \in Flags, named \in BOOLEAN :
       Serve(flags, named) \/ PasteShown(flags, named)
  \/ \E params \in Params : Install(params)
  \/ Stop

Spec == Init /\ [][Next]_vars

-------------------------------------------------------------------------------
(***************************************************************************)
(* Properties.                                                             *)
(***************************************************************************)

\* ADR-0003: flag over environment over Config File over default.  Also for a
\* key that only the environment sets, and whatever lower sources hold there.
FirstToSay(sources, k) ==
  sources[CHOOSE i \in DOMAIN sources :
            /\ k \in DOMAIN sources[i]
            /\ \A j \in 1..(i - 1) : k \notin DOMAIN sources[j]][k]
FileSays(named) == files[FileUsed(named, files)].says
HighestSourceWins ==
  [][\A flags \in Flags, named \in BOOLEAN : Serve(flags, named) =>
       \A k \in Keys :
         process'[k] = FirstToSay(<<flags, env, FileSays(named), Default>>, k)]_vars

\* config.go: the output of `config show' "can be pasted straight back into a
\* Config File".  It loads, and nothing is changed by it but what is never
\* printed: a secret that the file alone gives.
Unprinted(k, flags) ==
  k \in SecretKeys \union {"url"} /\ k \notin DOMAIN flags \union DOMAIN env
PasteKeepsSettings ==
  [][\A flags \in Flags, named \in BOOLEAN : PasteShown(flags, named) =>
       /\ CanLoad(flags, named)'
       /\ \A k \in Keys :
            Config(flags, named)'[k] =
              IF Unprinted(k, flags) THEN Shown(Config(flags, named))[k]
                                     ELSE Config(flags, named)[k]]_vars

\* The password that `hash-password' was given for the highest source that has
\* a hash logs in, and no other: not that of a lower source, and not only while
\* the release that made the hash is installed.  Where `config show' has been
\* pasted over a hash, or something else been written there, none does.
OnlyItsPasswordOpens ==
  process # Down /\ Enabled(process) =>
    \A password \in Passwords :
      VerifyPassword(process.password_hash, password) <=> password = opens
===============================================================================
