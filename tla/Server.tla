-------------------------------- MODULE Server --------------------------------
(***************************************************************************)
(* `serve' (internal/cli/serve.go, internal/server/server.go) and the      *)
(* sessions of Admin (session.go, and the guard, login and logout of       *)
(* auth.go in internal/admin).  Processes of several deployments start on  *)
(* one database and one port, serve, are told to stop, drain and exit,     *)
(* while one browser with one cookie jar sends its requests to whoever     *)
(* listens.  Whether a password is right, and how often it may be tried,   *)
(* is Limiter's.                                                           *)
(*                                                                         *)
(* `rolledBack' and the age of a cookie only record history.  A slip is a  *)
(* mistake the definition after it could have had.                         *)
(***************************************************************************)
EXTENDS Naturals

CONSTANTS
  Procs,            \* processes of one binary each, one after the other
  Reqs,             \* requests in flight
  NoProc,
  Secrets,          \* what admin.session_secret may be, or
  NoSecret,         \*   unset, and then no Admin
  SecretsOf,        \* which of them a process may be started with
  NoCookie,
  Needs,            \* how many migrations the binary of a process knows
  MaxVersion,       \* how many migrations there are
  Second,           \* ticks in a second
  Ttl,              \* admin.session_ttl, in ticks
  ShutdownTimeout   \* server.shutdown_timeout, in ticks

ASSUME ServerAssumption ==
  /\ NoProc \notin Procs
  /\ MaxVersion \in Nat
  /\ Needs \in [Procs -> 0..MaxVersion]
  /\ NoSecret \notin Secrets
  /\ SecretsOf \in [Procs -> SUBSET (Secrets \union {NoSecret})]
  /\ Second \in Nat \ {0}
  /\ Ttl \in Nat \ {0}
  /\ ShutdownTimeout \in Nat \ {0}

VARIABLES
  schema,      \* how many migrations are applied
  phase,       \* ticks since the last whole second
  proc,        \* the processes
  jar,         \* the browser's cookie
  req          \* the requests

vars == <<schema, phase, proc, jar, req>>

\* A session, in ticks from now: what is left until it expires, and how long
\* ago it was issued.
Cookie == [secret : Secrets, left : 0..Ttl, age : 0..Ttl]

ASSUME NoCookieAssumption == NoCookie \notin Cookie

Starting == {"opening", "checking", "binding"}
Closing  == {"closing", "failing"}   \* after Shutdown; after an error of Serve
Running  == {"serving", "draining"} \union Closing

Process ==
  [pc : {"off"} \union Starting \union Running,
   secret : Secrets \union {NoSecret},
   signalled : BOOLEAN,
   waited : 0..ShutdownTimeout,   \* by Shutdown
   rolledBack : BOOLEAN]          \* a `migrate down' since the schema check
Fresh(pc, secret) ==
  [pc |-> pc, secret |-> secret, signalled |-> FALSE, waited |-> 0,
   rolledBack |-> FALSE]
Off == Fresh("off", NoSecret)

\* missing: answered 500 for want of a table; cut: not left to finish.
InFlight == {"accepted", "working"}
Request ==
  [pc : InFlight \union {"idle", "refused", "done", "missing", "cut"},
   login : BOOLEAN,               \* POST login, or something guarded
   proc : Procs \union {NoProc},
   cookie : Cookie \union {NoCookie}]
Ended(pc) ==
  [pc |-> pc, login |-> FALSE, proc |-> NoProc, cookie |-> NoCookie]

TypeOK ==
  /\ schema \in 0..MaxVersion
  /\ phase \in 0..(Second - 1)
  /\ proc \in [Procs -> Process]
  /\ jar \in Cookie \union {NoCookie}
  /\ req \in [Reqs -> Request]

Init ==
  /\ schema \in 0..MaxVersion
  /\ phase = 0
  /\ proc = [p \in Procs |-> Off]
  /\ jar = NoCookie
  /\ req = [r \in Reqs |-> Ended("idle")]

-------------------------------------------------------------------------------
\* Helpers.

Goes(p, pc) == proc' = [proc EXCEPT ![p].pc = pc]

\* The requests a process has accepted and not answered.
Serving(p) == {r \in Reqs : req[r].pc \in InFlight /\ req[r].proc = p}

\* Slip: the time of issue is cut to whole seconds before the TTL is added,
\* and both again.
IssuedFromWholeSecond(secret) ==
  LET lost == phase + (Ttl % Second)
  IN  [secret |-> secret, age |-> 0,
       left |-> IF Ttl < lost THEN 0 ELSE Ttl - lost]

\* issue: the expiry is signed in whole seconds, and loses the fraction.  With
\* a TTL below a second nothing may be left.
Issued(secret) ==
  LET lost == (phase + Ttl) % Second
  IN  [secret |-> secret, age |-> 0,
       left |-> IF Ttl < lost THEN 0 ELSE Ttl - lost]

\* Slip: the signature is not compared.
VerifiedUnsigned(cookie, p) == cookie # NoCookie /\ cookie.left > 0

\* verify: a cookie, signed with the secret of this process, before its expiry.
Verified(cookie, p) ==
  /\ cookie # NoCookie
  /\ cookie.secret = proc[p].secret
  /\ cookie.left > 0

Older(cookie) ==
  IF cookie = NoCookie THEN NoCookie
  ELSE [cookie EXCEPT !.left = IF @ = 0 THEN 0 ELSE @ - 1,
                      !.age  = IF @ = Ttl THEN Ttl ELSE @ + 1]

-------------------------------------------------------------------------------
\* A process.

\* The configuration is read, and a secret may have been set or changed.
Start(p, secret) ==
  /\ proc[p] = Off
  /\ secret \in SecretsOf[p]
  /\ proc' = [proc EXCEPT ![p] = Fresh("opening", secret)]
  /\ UNCHANGED <<schema, phase, jar, req>>

\* The database answers the ping.  Here, and in the check of the schema, a
\* signal has cancelled the context the query runs under.
Open(p) ==
  /\ proc[p].pc = "opening"
  /\ ~ proc[p].signalled
  /\ Goes(p, "checking")
  /\ UNCHANGED <<schema, phase, jar, req>>

\* Slip: the schema is not looked at.
CheckNothing(p) ==
  /\ proc[p].pc = "checking"
  /\ ~ proc[p].signalled
  /\ Goes(p, "binding")
  /\ UNCHANGED <<schema, phase, jar, req>>

\* requireCurrentSchema: nothing the binary knows is pending.
CheckSchema(p) ==
  /\ proc[p].pc = "checking"
  /\ ~ proc[p].signalled
  /\ schema >= Needs[p]
  /\ Goes(p, "binding")
  /\ UNCHANGED <<schema, phase, jar, req>>

\* The port is free.  Nothing looks at the context before the select.
Listen(p) ==
  /\ proc[p].pc = "binding"
  /\ \A q \in Procs : proc[q].pc # "serving"
  /\ Goes(p, "serving")
  /\ UNCHANGED <<schema, phase, jar, req>>

\* Slip: a process that cannot start is left behind.
QuitHalfway(p) ==
  /\ proc[p].pc \in Starting
  /\ Goes(p, "refused")
  /\ UNCHANGED <<schema, phase, jar, req>>

\* The database is out of reach or behind, the port taken, the context
\* cancelled: serve returns the error.
Quit(p) ==
  /\ proc[p].pc \in Starting
  /\ proc' = [proc EXCEPT ![p] = Off]
  /\ UNCHANGED <<schema, phase, jar, req>>

\* SIGINT or SIGTERM.  It is caught until serve returns, so a second one, or
\* one that comes after Run has given up, changes nothing.
Signal(p) ==
  /\ proc[p].pc \in Starting \union {"serving"}
  /\ ~ proc[p].signalled
  /\ proc' = [proc EXCEPT ![p].signalled = TRUE]
  /\ UNCHANGED <<schema, phase, jar, req>>

\* Slip: Close instead of Shutdown.
ShutdownAtOnce(p) ==
  /\ proc[p].pc = "serving"
  /\ proc[p].signalled
  /\ Goes(p, "closing")
  /\ UNCHANGED <<schema, phase, jar, req>>

\* The listener is closed, and what is in flight is waited for.
Shutdown(p) ==
  /\ proc[p].pc = "serving"
  /\ proc[p].signalled
  /\ Goes(p, "draining")
  /\ UNCHANGED <<schema, phase, jar, req>>

Drained(p) ==
  /\ proc[p].pc = "draining"
  /\ Serving(p) = {}
  /\ Goes(p, "closing")
  /\ UNCHANGED <<schema, phase, jar, req>>

\* Slip: Shutdown is given a context without a deadline.
TimedOutNever(p) == proc[p].pc = "draining" /\ FALSE /\ UNCHANGED vars

\* Shutdown returns the error of its context, and Run with it.
TimedOut(p) ==
  /\ proc[p].pc = "draining"
  /\ proc[p].waited = ShutdownTimeout
  /\ Goes(p, "closing")
  /\ UNCHANGED <<schema, phase, jar, req>>

\* Serve returns an error that is not ErrServerClosed, and Run with it.
ServeFails(p) ==
  /\ proc[p].pc = "serving"
  /\ Goes(p, "failing")
  /\ UNCHANGED <<schema, phase, jar, req>>

\* The process ends, and every handler that still runs with it.
Exit(p) ==
  /\ proc[p].pc \in Closing
  /\ proc' = [proc EXCEPT ![p] = Off]
  /\ req' = [r \in Reqs |-> IF r \in Serving(p) THEN Ended("cut") ELSE req[r]]
  /\ UNCHANGED <<schema, phase, jar>>

Crash(p) ==
  /\ proc[p].pc # "off"
  /\ proc' = [proc EXCEPT ![p] = Off]
  /\ req' = [r \in Reqs |-> IF r \in Serving(p) THEN Ended("idle") ELSE req[r]]
  /\ UNCHANGED <<schema, phase, jar>>

-------------------------------------------------------------------------------
\* Requests of the browser.

Finish(r, pc) == req' = [req EXCEPT ![r] = Ended(pc)]

\* The browser reaches whoever listens.  Only a guarded path reads the cookie.
Send(r, p, login) ==
  /\ req[r].pc \notin InFlight
  /\ proc[p].pc = "serving"
  /\ req' = [req EXCEPT ![r] =
               [pc |-> "accepted", login |-> login, proc |-> p,
                cookie |-> IF login THEN NoCookie ELSE jar]]
  /\ UNCHANGED <<schema, phase, proc, jar>>

\* Admin is not mounted without its secrets: 404.
NotMounted(r) ==
  /\ req[r].pc = "accepted"
  /\ proc[req[r].proc].secret = NoSecret
  /\ Finish(r, "done")
  /\ UNCHANGED <<schema, phase, proc, jar>>

\* requireSession, or no guard for the login.
Admit(r) ==
  /\ req[r].pc = "accepted"
  /\ proc[req[r].proc].secret # NoSecret
  /\ req[r].login \/ Verified(req[r].cookie, req[r].proc)
  /\ req' = [req EXCEPT ![r].pc = "working"]
  /\ UNCHANGED <<schema, phase, proc, jar>>

\* rejectUnauthenticated.
Reject(r) ==
  /\ req[r].pc = "accepted"
  /\ proc[req[r].proc].secret # NoSecret
  /\ ~ req[r].login
  /\ ~ Verified(req[r].cookie, req[r].proc)
  /\ Finish(r, "refused")
  /\ UNCHANGED <<schema, phase, proc, jar>>

\* Every answer may be lost, and the cookie it sets with it.
Login(r) ==
  /\ req[r].pc = "working"
  /\ req[r].login
  /\ jar' \in {jar, Issued(proc[req[r].proc].secret)}
  /\ Finish(r, "done")
  /\ UNCHANGED <<schema, phase, proc>>

Logout(r) ==
  /\ req[r].pc = "working"
  /\ ~ req[r].login
  /\ jar' \in {jar, NoCookie}
  /\ Finish(r, "done")
  /\ UNCHANGED <<schema, phase, proc>>

\* A screen is answered, whether or not it needs a table, ...
Answer(r) ==
  /\ req[r].pc = "working"
  /\ ~ req[r].login
  /\ Finish(r, "done")
  /\ UNCHANGED <<schema, phase, proc, jar>>

\* ... or the table it needs is not there, ...
AnswerMissing(r) ==
  /\ req[r].pc = "working"
  /\ ~ req[r].login
  /\ proc[req[r].proc].pc \notin Closing
  /\ schema < Needs[req[r].proc]
  /\ Finish(r, "missing")
  /\ UNCHANGED <<schema, phase, proc, jar>>

\* ... or the connection to the database has been closed under it.
AnswerClosed(r) ==
  /\ req[r].pc = "working"
  /\ ~ req[r].login
  /\ proc[req[r].proc].pc \in Closing
  /\ Finish(r, "cut")
  /\ UNCHANGED <<schema, phase, proc, jar>>

-------------------------------------------------------------------------------
\* What is around them.

\* The browser drops the cookie: its Max-Age, or its owner.
Forget ==
  /\ jar # NoCookie
  /\ jar' = NoCookie
  /\ UNCHANGED <<schema, phase, proc, req>>

MigrateUp ==
  /\ schema < MaxVersion
  /\ schema' = schema + 1
  /\ UNCHANGED <<phase, proc, jar, req>>

MigrateDown ==
  /\ schema > 0
  /\ schema' = schema - 1
  /\ proc' = [p \in Procs |->
                IF proc[p].pc \in {"binding"} \union Running
                  THEN [proc[p] EXCEPT !.rolledBack = TRUE] ELSE proc[p]]
  /\ UNCHANGED <<phase, jar, req>>

Tick ==
  /\ phase' = (phase + 1) % Second
  /\ jar' = Older(jar)
  /\ req' = [r \in Reqs |-> [req[r] EXCEPT !.cookie = Older(@)]]
  /\ proc' = [p \in Procs |->
                IF proc[p].pc = "draining" /\ proc[p].waited < ShutdownTimeout
                  THEN [proc[p] EXCEPT !.waited = @ + 1] ELSE proc[p]]
  /\ UNCHANGED schema

-------------------------------------------------------------------------------
\* What a process does by itself.
Step(p) ==
  \/ Open(p) \/ CheckSchema(p) \/ Listen(p) \/ Quit(p)
  \/ Shutdown(p) \/ Drained(p) \/ TimedOut(p) \/ Exit(p)

Serve(r) ==
  \/ NotMounted(r) \/ Admit(r) \/ Reject(r) \/ Login(r) \/ Logout(r)
  \/ Answer(r) \/ AnswerMissing(r) \/ AnswerClosed(r)

Next ==
  \/ \E p \in Procs, secret \in Secrets \union {NoSecret} : Start(p, secret)
  \/ \E p \in Procs : Step(p) \/ Signal(p) \/ ServeFails(p) \/ Crash(p)
  \/ \E r \in Reqs, p \in Procs, login \in BOOLEAN : Send(r, p, login)
  \/ \E r \in Reqs : Serve(r)
  \/ Forget \/ MigrateUp \/ MigrateDown \/ Tick

Spec == Init /\ [][Next]_vars

\* Time passes, and a process whose next step is open to it takes it.  Nothing
\* is asked of handlers: one may hang for ever.
FairSpec == Spec /\ WF_vars(Tick) /\ \A p \in Procs : WF_vars(Step(p))

-------------------------------------------------------------------------------
(***************************************************************************)
(* Properties.                                                             *)
(***************************************************************************)

\* A session is honoured for its TTL and never longer, but for the second the
\* signed expiry is rounded by (session.sign, session.open): who is let in is
\* younger than the TTL, and who is turned away has no cookie, one of another
\* secret, or one within a second of its end.  That holds across restarts and
\* deployments, since no server keeps a session.
SessionLivesItsTime ==
  [][\A r \in Reqs :
       req[r].pc = "accepted" /\ ~ req[r].login =>
         /\ req'[r].pc = "working" =>
              req[r].cookie # NoCookie /\ req[r].cookie.age < Ttl
         /\ req'[r].pc = "refused" =>
              \/ req[r].cookie = NoCookie
              \/ req[r].cookie.secret # proc[req[r].proc].secret
              \/ req[r].cookie.age + Second > Ttl]_vars

\* Rotating the secret is the immediate revocation (session.clear): once a
\* process with another secret listens, a session of the old one is of use
\* only to requests the old process had accepted before it began to stop.
RotationRevokes ==
  \A r \in Reqs, p \in Procs :
    /\ req[r].pc = "working" /\ ~ req[r].login
    /\ proc[p].pc = "serving"
    /\ proc[p].secret # req[r].cookie.secret
    => proc[req[r].proc].pc \in {"draining"} \union Closing

\* Run drains what is in flight: a handler is cut off, by the end of its
\* process or by the database closed under it, only after the shutdown timeout
\* has run or after Serve has failed.
CutOnlyAfterTimeout ==
  [][\A r \in Reqs :
       req[r].pc \in InFlight /\ req'[r].pc = "cut" =>
         \/ proc[req[r].proc].pc = "failing"
         \/ proc[req[r].proc].waited = ShutdownTimeout]_vars

\* serve refuses a database older than the binary (requireCurrentSchema), and
\* looks only once: a handler misses a table only where a `migrate down' has
\* run after its process looked.
MissingOnlyAfterRollback ==
  [][\A r \in Reqs :
       req[r].pc \in InFlight /\ req'[r].pc = "missing"
         => proc[req[r].proc].rolledBack]_vars

\* A process that is told to stop ends, wherever the signal finds it and
\* whatever its handlers do (serve's context, Run's shutdown timeout).
SignalEndsProcess ==
  \A p \in Procs : proc[p].signalled ~> proc[p].pc = "off"
===============================================================================
