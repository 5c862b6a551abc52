----------------------------- MODULE ServerProofs -----------------------------
(***************************************************************************)
(* Theorems about Server, for any processes, requests, secrets, migrations *)
(* and times.                                                              *)
(***************************************************************************)
EXTENDS Server, TLAPS

\* A live cookie ends within its TTL; a cookie has lost less than a second.
CookieOK(cookie) ==
  cookie # NoCookie =>
    /\ cookie.left > 0 => cookie.left + cookie.age <= Ttl
    /\ cookie.left + cookie.age + Second > Ttl

\* Whatever is in flight is at a process that runs; whoever works, at one with
\* a secret; and whoever works behind the guard has shown a cookie of it.
ReqOK(request, procs) ==
  /\ CookieOK(request.cookie)
  /\ request.pc \in InFlight =>
       /\ request.proc \in Procs
       /\ procs[request.proc].pc \in Running
  /\ request.pc = "working" => procs[request.proc].secret # NoSecret
  /\ request.pc = "working" /\ ~ request.login =>
       /\ request.cookie # NoCookie
       /\ request.cookie.secret = procs[request.proc].secret

\* Who has checked the schema has it, or it has been taken away.
SchemaOK(p) ==
  proc[p].pc \in {"binding"} \union Running
    => schema >= Needs[p] \/ proc[p].rolledBack

OneListener ==
  \A p, q \in Procs : proc[p].pc = "serving" /\ proc[q].pc = "serving" => p = q

\* Who closes has waited as long as it may, or has nothing in flight.
ClosingOK ==
  \A r \in Reqs :
    req[r].pc \in InFlight /\ proc[req[r].proc].pc = "closing"
      => proc[req[r].proc].waited = ShutdownTimeout

Inv ==
  /\ TypeOK
  /\ CookieOK(jar)
  /\ \A r \in Reqs : ReqOK(req[r], proc)
  /\ \A p \in Procs : SchemaOK(p)
  /\ OneListener
  /\ ClosingOK

-------------------------------------------------------------------------------
(***************************************************************************)
(* Cookies.                                                                *)
(***************************************************************************)
LEMMA CookieFields ==
  ASSUME NEW cookie \in Cookie
  PROVE  /\ cookie # NoCookie
         /\ cookie.left \in 0..Ttl /\ cookie.age \in 0..Ttl
         /\ cookie.secret \in Secrets
  BY NoCookieAssumption DEF Cookie

LEMMA Fraction ==
  ASSUME NEW n \in Nat
  PROVE  n % Second \in 0..(Second - 1)
  BY ServerAssumption

\* The jar after a login holds a cookie that ends in time.
LEMMA IssuedIsOK ==
  ASSUME NEW secret \in Secrets, phase \in 0..(Second - 1)
  PROVE  Issued(secret) \in Cookie /\ CookieOK(Issued(secret))
  <1> DEFINE lost == (phase + Ttl) % Second
             left == IF Ttl < lost THEN 0 ELSE Ttl - lost
  <1>1. phase + Ttl \in Nat /\ Ttl \in Nat /\ Second \in Nat
    BY ServerAssumption
  <1>2. lost \in Nat /\ lost < Second
    BY <1>1, Fraction, ServerAssumption
  <1> HIDE DEF lost
  <1>3. left \in 0..Ttl /\ left + Second > Ttl
    BY <1>1, <1>2
  <1> HIDE DEF left
  <1>4. Issued(secret) = [secret |-> secret, age |-> 0, left |-> left]
    BY DEF Issued, lost, left
  <1>5. QED
    BY <1>1, <1>3, <1>4 DEF Cookie, CookieOK

\* A tick keeps that so.
LEMMA OlderIsOK ==
  ASSUME NEW cookie \in Cookie \union {NoCookie}, CookieOK(cookie)
  PROVE  /\ Older(cookie) \in Cookie \union {NoCookie}
         /\ CookieOK(Older(cookie))
         /\ cookie # NoCookie => /\ Older(cookie) # NoCookie
                                 /\ Older(cookie).secret = cookie.secret
  <1>1. CASE cookie = NoCookie
    BY <1>1 DEF Older
  <1>2. CASE cookie \in Cookie
    <2> DEFINE left == IF cookie.left = 0 THEN 0 ELSE cookie.left - 1
               age == IF cookie.age = Ttl THEN Ttl ELSE cookie.age + 1
    <2>1. /\ cookie # NoCookie /\ cookie.left \in 0..Ttl
          /\ cookie.age \in 0..Ttl /\ cookie.secret \in Secrets
      BY <1>2, CookieFields
    <2>2. /\ cookie.left > 0 => cookie.left + cookie.age <= Ttl
          /\ cookie.left + cookie.age + Second > Ttl
      BY <2>1 DEF CookieOK
    <2>3. /\ left \in 0..Ttl /\ age \in 0..Ttl
          /\ left > 0 => left + age <= Ttl
          /\ left + age + Second > Ttl
      BY <2>1, <2>2, ServerAssumption
    <2> HIDE DEF left, age
    <2>4. Older(cookie) = [secret |-> cookie.secret, left |-> left, age |-> age]
      BY <1>2, <2>1 DEF Older, Cookie, left, age
    <2>5. Older(cookie) \in Cookie
      BY <2>1, <2>3, <2>4 DEF Cookie
    <2>6. QED
      BY <2>1, <2>3, <2>4, <2>5, CookieFields DEF CookieOK
  <1>3. QED
    BY <1>1, <1>2

-------------------------------------------------------------------------------
(***************************************************************************)
(* The invariant is inductive.                                             *)
(***************************************************************************)
LEMMA InitInv == Init => Inv
  <1> SUFFICES ASSUME Init PROVE Inv
    OBVIOUS
  <1>1. Off \in Process
    BY ServerAssumption DEF Off, Fresh, Process
  <1>2. Ended("idle") \in Request
    BY DEF Ended, Request
  <1>3. TypeOK
    BY <1>1, <1>2, ServerAssumption DEF Init, TypeOK
  <1>4. \A r \in Reqs : ReqOK(req[r], proc)
    BY DEF Init, Ended, ReqOK, CookieOK, InFlight
  <1>5. CookieOK(jar)
    BY DEF Init, CookieOK
  <1>6. \A p \in Procs : SchemaOK(p)
    BY DEF Init, Off, Fresh, SchemaOK, Running, Closing
  <1>7. OneListener /\ ClosingOK
    BY DEF Init, Off, Fresh, OneListener, ClosingOK, Ended, InFlight
  <1>8. QED
    BY <1>3, <1>4, <1>5, <1>6, <1>7 DEF Inv

\* What a process step has to show when no request changes: the process goes
\* from pc to pc', and what it runs for stays as it was.
LEMMA ProcessMoves ==
  ASSUME Inv, NEW p \in Procs, NEW next \in Process,
         proc' = [proc EXCEPT ![p] = next],
         UNCHANGED <<schema, phase, jar, req>>,
         Serving(p) # {} =>
           next.pc \in Running /\ next.secret = proc[p].secret,
         next.pc \in {"binding"} \union Running
           => schema >= Needs[p] \/ next.rolledBack,
         next.pc = "serving" /\ proc[p].pc # "serving"
           => \A q \in Procs : proc[q].pc # "serving",
         next.pc = "closing" /\ Serving(p) # {}
           => next.waited = ShutdownTimeout
  PROVE  Inv'
  <1>1. proc \in [Procs -> Process] /\ req \in [Reqs -> Request]
    BY DEF Inv, TypeOK
  <1>2. proc' \in [Procs -> Process]
    BY <1>1
  <1>3. TypeOK'
    BY <1>2 DEF Inv, TypeOK
  <1>4. proc'[p] = next /\ \A q \in Procs : q # p => proc'[q] = proc[q]
    BY <1>1
  <1>5. ASSUME NEW r \in Reqs
        PROVE  ReqOK(req'[r], proc')
    <2>1. ReqOK(req[r], proc)
      BY DEF Inv
    <2>2. CASE req[r].pc \in InFlight /\ req[r].proc = p
      BY <1>4, <2>1, <2>2 DEF Serving, ReqOK
    <2>3. CASE req[r].pc \in InFlight /\ req[r].proc # p
      BY <1>4, <2>1, <2>3 DEF ReqOK
    <2>4. CASE req[r].pc \notin InFlight
      BY <2>1, <2>4 DEF ReqOK, InFlight
    <2>5. QED
      BY <2>2, <2>3, <2>4
  <1>6. ASSUME NEW q \in Procs
        PROVE  SchemaOK(q)'
    <2>1. SchemaOK(q)
      BY DEF Inv
    <2>2. CASE q = p
      BY <1>4, <2>2 DEF SchemaOK
    <2>3. CASE q # p
      BY <1>4, <2>1, <2>3 DEF SchemaOK
    <2>4. QED
      BY <2>2, <2>3
  <1>7. OneListener'
    BY <1>4 DEF Inv, OneListener
  <1>8. ClosingOK'
    <2> SUFFICES ASSUME NEW r \in Reqs, req[r].pc \in InFlight,
                        proc'[req[r].proc].pc = "closing"
                 PROVE  proc'[req[r].proc].waited = ShutdownTimeout
      BY DEF ClosingOK
    <2>1. req[r].proc \in Procs
      BY DEF Inv, ReqOK
    <2>2. CASE req[r].proc = p
      BY <1>4, <2>2 DEF Serving
    <2>3. CASE req[r].proc # p
      BY <1>4, <2>1, <2>3 DEF Inv, ClosingOK
    <2>4. QED
      BY <2>2, <2>3
  <1>9. QED
    BY <1>3, <1>5, <1>6, <1>7, <1>8 DEF Inv

\* A step of one request: what it becomes has to be sound by itself.
LEMMA RequestMoves ==
  ASSUME Inv, NEW r \in Reqs, NEW next \in Request,
         req' = [req EXCEPT ![r] = next],
         UNCHANGED <<schema, phase, proc>>,
         jar' \in Cookie \union {NoCookie}, CookieOK(jar'),
         ReqOK(next, proc),
         next.pc \in InFlight /\ proc[next.proc].pc = "closing"
           => req[r].pc \in InFlight /\ next.proc = req[r].proc
  PROVE  Inv'
  <1>1. req \in [Reqs -> Request]
    BY DEF Inv, TypeOK
  <1>2. req'[r] = next /\ \A q \in Reqs : q # r => req'[q] = req[q]
    BY <1>1
  <1>3. TypeOK'
    BY <1>1 DEF Inv, TypeOK
  <1>4. \A q \in Reqs : ReqOK(req'[q], proc')
    BY <1>2 DEF Inv
  <1>5. (\A p \in Procs : SchemaOK(p))' /\ OneListener'
    BY DEF Inv, SchemaOK, OneListener
  <1>6. ClosingOK'
    BY <1>2 DEF Inv, ClosingOK
  <1>7. QED
    BY <1>3, <1>4, <1>5, <1>6 DEF Inv

\* A process ends, and so do its requests.
LEMMA ProcessEnds ==
  ASSUME Inv, NEW p \in Procs, NEW pc \in {"cut", "idle"},
         proc' = [proc EXCEPT ![p] = Off],
         req' = [r \in Reqs |-> IF r \in Serving(p) THEN Ended(pc) ELSE req[r]],
         UNCHANGED <<schema, phase, jar>>
  PROVE  Inv'
  <1>1. proc \in [Procs -> Process] /\ req \in [Reqs -> Request]
    BY DEF Inv, TypeOK
  <1>2. Off \in Process /\ Ended(pc) \in Request
    BY ServerAssumption DEF Off, Fresh, Process, Ended, Request
  <1>3. TypeOK'
    BY <1>1, <1>2 DEF Inv, TypeOK
  <1>4. proc'[p] = Off /\ \A q \in Procs : q # p => proc'[q] = proc[q]
    BY <1>1
  <1>5. ASSUME NEW r \in Reqs
        PROVE  \/ req'[r] = Ended(pc)
               \/ /\ req'[r] = req[r]
                  /\ req[r].pc \in InFlight => req[r].proc # p
    BY DEF Serving
  <1>6. ReqOK(Ended(pc), proc') /\ Ended(pc).pc \notin InFlight
    BY DEF Ended, ReqOK, CookieOK, InFlight
  <1>7. ASSUME NEW r \in Reqs
        PROVE  ReqOK(req'[r], proc')
    <2>1. ReqOK(req[r], proc)
      BY DEF Inv
    <2>2. CASE req[r].pc \in InFlight /\ req[r].proc # p /\ req'[r] = req[r]
      BY <1>4, <2>1, <2>2 DEF ReqOK
    <2>3. CASE req[r].pc \notin InFlight /\ req'[r] = req[r]
      BY <2>1, <2>3 DEF ReqOK, InFlight
    <2>4. QED
      BY <1>5, <1>6, <2>2, <2>3
  <1>8. (\A q \in Procs : SchemaOK(q))'
    BY <1>4 DEF Inv, SchemaOK, Off, Fresh, Running, Closing
  <1>9. OneListener'
    BY <1>4 DEF Inv, OneListener, Off, Fresh
  <1>10. ClosingOK'
    <2> SUFFICES ASSUME NEW r \in Reqs, req'[r].pc \in InFlight,
                        proc'[req'[r].proc].pc = "closing"
                 PROVE  proc'[req'[r].proc].waited = ShutdownTimeout
      BY DEF ClosingOK
    <2>1. req'[r] = req[r] /\ req[r].proc # p
      BY <1>5, <1>6
    <2>2. req[r].proc \in Procs
      BY <2>1 DEF Inv, ReqOK
    <2>3. QED
      BY <1>4, <2>1, <2>2 DEF Inv, ClosingOK
  <1>11. QED
    BY <1>3, <1>7, <1>8, <1>9, <1>10 DEF Inv

\* A process step that changes pc only.
LEMMA PcMoves ==
  ASSUME Inv, NEW p \in Procs, NEW pc \in {"off"} \union Starting \union Running,
         Goes(p, pc),
         UNCHANGED <<schema, phase, jar, req>>,
         Serving(p) # {} => pc \in Running,
         pc \in {"binding"} \union Running
           => schema >= Needs[p] \/ proc[p].rolledBack,
         pc = "serving" => \A q \in Procs : proc[q].pc # "serving",
         pc = "closing" /\ Serving(p) # {}
           => proc[p].waited = ShutdownTimeout
  PROVE  Inv'
  <1> DEFINE next == [proc[p] EXCEPT !.pc = pc]
  <1>1. proc[p] \in Process /\ proc \in [Procs -> Process]
    BY DEF Inv, TypeOK
  <1>2. next \in Process
    BY <1>1 DEF Process
  <1>3. /\ next.pc = pc /\ next.secret = proc[p].secret
        /\ next.waited = proc[p].waited
        /\ next.rolledBack = proc[p].rolledBack
    BY <1>1 DEF Process
  <1>4. proc' = [proc EXCEPT ![p] = next]
    BY DEF Goes
  <1> HIDE DEF next
  <1>5. QED
    BY <1>2, <1>3, <1>4, ProcessMoves

\* Nothing is in flight at a process that does not run.
LEMMA Unserved ==
  ASSUME Inv, NEW p \in Procs, proc[p].pc \notin Running
  PROVE  Serving(p) = {}
  BY DEF Inv, ReqOK, Serving

LEMMA StepInv == ASSUME Inv, [Next]_vars PROVE Inv'
  <1>a. /\ proc \in [Procs -> Process] /\ req \in [Reqs -> Request]
        /\ \A p \in Procs : proc[p] \in Process
        /\ \A r \in Reqs : req[r] \in Request /\ ReqOK(req[r], proc)
    BY DEF Inv, TypeOK
  <1>1. ASSUME NEW p \in Procs, NEW secret \in Secrets \union {NoSecret},
               Start(p, secret)
        PROVE  Inv'
    <2> DEFINE next == Fresh("opening", secret)
    <2>1. proc[p] = Off
      BY <1>1 DEF Start
    <2>2. next \in Process /\ next.pc = "opening"
      BY ServerAssumption DEF Process, Starting, Fresh
    <2>3. proc' = [proc EXCEPT ![p] = next]
      BY <1>1 DEF Start
    <2>4. Serving(p) = {}
      BY <2>1, Unserved DEF Off, Fresh, Running, Closing
    <2> HIDE DEF next
    <2>5. QED
      BY <1>1, <2>2, <2>3, <2>4, ProcessMoves DEF Start, Running, Closing
  <1>2. ASSUME NEW p \in Procs, Open(p)
        PROVE  Inv'
    <2>1. Serving(p) = {}
      BY <1>2, Unserved DEF Open, Running, Closing
    <2>2. QED
      BY <1>2, <2>1, PcMoves DEF Open, Starting, Running, Closing
  <1>3. ASSUME NEW p \in Procs, CheckSchema(p)
        PROVE  Inv'
    <2>1. Serving(p) = {}
      BY <1>3, Unserved DEF CheckSchema, Running, Closing
    <2>2. QED
      BY <1>3, <2>1, PcMoves DEF CheckSchema, Starting, Running, Closing
  <1>4. ASSUME NEW p \in Procs, Listen(p)
        PROVE  Inv'
    <2>1. schema >= Needs[p] \/ proc[p].rolledBack
      BY <1>4 DEF Listen, Inv, SchemaOK
    <2>2. QED
      BY <1>4, <2>1, PcMoves DEF Listen, Running
  <1>5. ASSUME NEW p \in Procs, Quit(p)
        PROVE  Inv'
    <2>1. Serving(p) = {}
      BY <1>5, Unserved DEF Quit, Starting, Running, Closing
    <2>2. Off \in Process
      BY ServerAssumption DEF Off, Fresh, Process
    <2>3. QED
      BY <1>5, <2>1, <2>2, ProcessMoves DEF Quit, Off, Fresh, Running, Closing
  <1>6. ASSUME NEW p \in Procs, Signal(p)
        PROVE  Inv'
    <2> DEFINE next == [proc[p] EXCEPT !.signalled = TRUE]
    <2>1. next \in Process
      BY <1>a DEF Process
    <2>2. /\ next.pc = proc[p].pc /\ next.secret = proc[p].secret
          /\ next.rolledBack = proc[p].rolledBack
      BY <1>a DEF Process
    <2>3. proc' = [proc EXCEPT ![p] = next]
      BY <1>6 DEF Signal
    <2>4. Serving(p) # {} => proc[p].pc \in Running
      BY Unserved
    <2>5. proc[p].pc # "closing"
      BY <1>6 DEF Signal, Starting
    <2>6. SchemaOK(p)
      BY DEF Inv
    <2> HIDE DEF next
    <2>7. QED
      BY <1>6, <2>1, <2>2, <2>3, <2>4, <2>5, <2>6, ProcessMoves
      DEF Signal, SchemaOK
  <1>7. ASSUME NEW p \in Procs,
               Shutdown(p) \/ Drained(p) \/ TimedOut(p) \/ ServeFails(p)
        PROVE  Inv'
    <2>1. proc[p].pc \in Running
      BY <1>7 DEF Shutdown, Drained, TimedOut, ServeFails, Running
    <2>2. schema >= Needs[p] \/ proc[p].rolledBack
      BY <2>1 DEF Inv, SchemaOK
    <2>3. CASE Shutdown(p)
      BY <2>2, <2>3, PcMoves DEF Shutdown, Running
    <2>4. CASE Drained(p)
      BY <2>2, <2>4, PcMoves DEF Drained, Running, Closing
    <2>5. CASE TimedOut(p)
      BY <2>2, <2>5, PcMoves DEF TimedOut, Running, Closing
    <2>6. CASE ServeFails(p)
      BY <2>2, <2>6, PcMoves DEF ServeFails, Running, Closing
    <2>7. QED
      BY <1>7, <2>3, <2>4, <2>5, <2>6
  <1>8. ASSUME NEW p \in Procs, Exit(p) \/ Crash(p)
        PROVE  Inv'
    BY <1>8, ProcessEnds DEF Exit, Crash
  <1>9. ASSUME NEW r \in Reqs, NEW p \in Procs, NEW login \in BOOLEAN,
               Send(r, p, login)
        PROVE  Inv'
    <2> DEFINE next == [pc |-> "accepted", login |-> login, proc |-> p,
                        cookie |-> IF login THEN NoCookie ELSE jar]
    <2>1. next \in Request
      BY DEF Inv, TypeOK, Request, InFlight
    <2>2. CookieOK(next.cookie)
      BY DEF Inv, CookieOK
    <2>3. ReqOK(next, proc)
      BY <1>9, <2>2 DEF Send, ReqOK, Running
    <2>4. QED
      BY <1>9, <2>1, <2>3, RequestMoves DEF Send, Inv, TypeOK
  <1>10. ASSUME NEW r \in Reqs, Admit(r)
         PROVE  Inv'
    <2> DEFINE next == [req[r] EXCEPT !.pc = "working"]
    <2>1. next \in Request
      BY <1>a DEF Request, InFlight
    <2>2. /\ next.pc = "working" /\ next.login = req[r].login
          /\ next.proc = req[r].proc /\ next.cookie = req[r].cookie
      BY <1>a DEF Request
    <2>3. req[r].pc \in InFlight
      BY <1>10 DEF Admit, InFlight
    <2>4. ReqOK(next, proc)
      BY <1>10, <1>a, <2>2, <2>3 DEF Admit, Verified, ReqOK
    <2>5. req' = [req EXCEPT ![r] = next]
      BY <1>10 DEF Admit
    <2> HIDE DEF next
    <2>6. QED
      BY <1>10, <2>1, <2>2, <2>3, <2>4, <2>5, RequestMoves
      DEF Admit, Inv, TypeOK
  <1>11. ASSUME NEW r \in Reqs, NEW pc \in {"refused", "done", "missing", "cut"},
                Finish(r, pc), UNCHANGED <<schema, phase, proc>>,
                jar' \in Cookie \union {NoCookie}, CookieOK(jar')
         PROVE  Inv'
    <2>1. Ended(pc) \in Request
      BY DEF Ended, Request
    <2>2. ReqOK(Ended(pc), proc) /\ Ended(pc).pc \notin InFlight
      BY DEF Ended, ReqOK, CookieOK, InFlight
    <2>3. QED
      BY <1>11, <2>1, <2>2, RequestMoves DEF Finish
  <1>12. ASSUME NEW r \in Reqs,
                \/ NotMounted(r) \/ Reject(r) \/ Logout(r) \/ Answer(r)
                \/ AnswerMissing(r) \/ AnswerClosed(r)
         PROVE  Inv'
    <2>1. CookieOK(jar) /\ jar \in Cookie \union {NoCookie}
      BY DEF Inv, TypeOK
    <2>2. CookieOK(NoCookie)
      BY DEF CookieOK
    <2>3. /\ jar' \in {jar, NoCookie}
          /\ UNCHANGED <<schema, phase, proc>>
          /\ \E pc \in {"refused", "done", "missing", "cut"} : Finish(r, pc)
      BY <1>12 DEF NotMounted, Reject, Logout, Answer, AnswerMissing, AnswerClosed
    <2>4. QED
      BY <1>11, <2>1, <2>2, <2>3
  <1>13. ASSUME NEW r \in Reqs, Login(r)
         PROVE  Inv'
    <2> DEFINE secret == proc[req[r].proc].secret
    <2>1. CookieOK(jar) /\ jar \in Cookie \union {NoCookie}
      BY DEF Inv, TypeOK
    <2>2. secret \in Secrets
      <3>1. req[r].pc \in InFlight /\ req[r].pc = "working" /\ ReqOK(req[r], proc)
        BY <1>13, <1>a DEF Login, InFlight
      <3>2. req[r].proc \in Procs /\ secret # NoSecret
        BY <3>1 DEF ReqOK
      <3>3. QED
        BY <1>a, <3>2 DEF Process
    <2>3. QED
      BY <1>11, <1>13, <2>1, <2>2, IssuedIsOK DEF Login, Inv, TypeOK
  <1>14. ASSUME Forget PROVE Inv'
    BY <1>14 DEF Forget, Inv, TypeOK, CookieOK, SchemaOK, OneListener, ClosingOK
  <1>15. ASSUME MigrateUp PROVE Inv'
    <2>1. schema' \in 0..MaxVersion /\ schema' >= schema
      BY <1>15, ServerAssumption DEF MigrateUp, Inv, TypeOK
    <2>2. TypeOK'
      BY <1>15, <2>1 DEF MigrateUp, Inv, TypeOK
    <2>3. \A p \in Procs : SchemaOK(p)'
      BY <1>15, <2>1, ServerAssumption DEF MigrateUp, Inv, TypeOK, SchemaOK
    <2>4. QED
      BY <1>15, <2>2, <2>3
      DEF MigrateUp, Inv, CookieOK, OneListener, ClosingOK
  <1>16. ASSUME MigrateDown PROVE Inv'
    <2> DEFINE Seen(p) ==
          IF proc[p].pc \in {"binding"} \union Running
            THEN [proc[p] EXCEPT !.rolledBack = TRUE] ELSE proc[p]
    <2>1. ASSUME NEW p \in Procs
          PROVE  /\ proc'[p] = Seen(p) /\ Seen(p) \in Process
                 /\ proc'[p].pc = proc[p].pc
                 /\ proc'[p].secret = proc[p].secret
                 /\ proc'[p].waited = proc[p].waited
                 /\ proc[p].pc \in {"binding"} \union Running
                      => proc'[p].rolledBack
      BY <1>16, <1>a DEF MigrateDown, Process
    <2>2. proc' \in [Procs -> Process]
      BY <1>16, <2>1 DEF MigrateDown
    <2>3. schema' \in 0..MaxVersion
      BY <1>16, ServerAssumption DEF MigrateDown, Inv, TypeOK
    <2>4. TypeOK'
      BY <1>16, <2>2, <2>3 DEF MigrateDown, Inv, TypeOK
    <2>5. \A r \in Reqs : ReqOK(req'[r], proc')
      BY <1>16, <1>a, <2>1 DEF MigrateDown, ReqOK, InFlight
    <2>6. \A p \in Procs : SchemaOK(p)'
      BY <2>1 DEF SchemaOK
    <2>7. OneListener' /\ CookieOK(jar')
      BY <1>16, <2>1 DEF MigrateDown, Inv, OneListener
    <2>8. ClosingOK'
      BY <1>16, <1>a, <2>1 DEF MigrateDown, Inv, ClosingOK, ReqOK
    <2>9. QED
      BY <2>4, <2>5, <2>6, <2>7, <2>8 DEF Inv
  <1>17. ASSUME Tick PROVE Inv'
    <2> DEFINE Waits(p) == proc[p].pc = "draining" /\ proc[p].waited < ShutdownTimeout
               After(p) == IF Waits(p) THEN [proc[p] EXCEPT !.waited = @ + 1]
                           ELSE proc[p]
               Later(r) == [req[r] EXCEPT !.cookie = Older(@)]
    <2>1. ASSUME NEW p \in Procs
          PROVE  /\ proc'[p] = After(p) /\ After(p) \in Process
                 /\ proc'[p].pc = proc[p].pc
                 /\ proc'[p].secret = proc[p].secret
                 /\ proc'[p].rolledBack = proc[p].rolledBack
                 /\ proc[p].pc # "draining" => proc'[p] = proc[p]
      <3>1. proc'[p] = After(p)
        BY <1>17 DEF Tick
      <3>2. CASE Waits(p)
        <4>1. proc[p].waited + 1 \in 0..ShutdownTimeout
          BY <3>2, <1>a, ServerAssumption DEF Process
        <4>2. QED
          BY <1>a, <3>1, <3>2, <4>1 DEF Process
      <3>3. CASE ~ Waits(p)
        BY <1>a, <3>1, <3>3
      <3>4. QED
        BY <3>2, <3>3
    <2>2. proc' \in [Procs -> Process]
      BY <1>17, <2>1 DEF Tick
    <2>3. ASSUME NEW r \in Reqs
          PROVE  /\ req'[r] = Later(r) /\ Later(r) \in Request
                 /\ req'[r].pc = req[r].pc /\ req'[r].login = req[r].login
                 /\ req'[r].proc = req[r].proc
                 /\ CookieOK(req'[r].cookie)
                 /\ req[r].cookie # NoCookie =>
                      /\ req'[r].cookie # NoCookie
                      /\ req'[r].cookie.secret = req[r].cookie.secret
      <3>1. req'[r] = Later(r)
        BY <1>17 DEF Tick
      <3>2. req[r].cookie \in Cookie \union {NoCookie} /\ CookieOK(req[r].cookie)
        BY <1>a DEF Request, ReqOK
      <3>3. /\ Older(req[r].cookie) \in Cookie \union {NoCookie}
            /\ CookieOK(Older(req[r].cookie))
            /\ req[r].cookie # NoCookie =>
                 /\ Older(req[r].cookie) # NoCookie
                 /\ Older(req[r].cookie).secret = req[r].cookie.secret
        BY <3>2, OlderIsOK
      <3>4. /\ Later(r) \in Request
            /\ Later(r).cookie = Older(req[r].cookie)
            /\ Later(r).pc = req[r].pc /\ Later(r).login = req[r].login
            /\ Later(r).proc = req[r].proc
        BY <1>a, <3>3 DEF Request
      <3>5. QED
        BY <3>1, <3>3, <3>4
    <2>4. req' \in [Reqs -> Request]
      BY <1>17, <2>3 DEF Tick
    <2>5. jar' \in Cookie \union {NoCookie} /\ CookieOK(jar')
      BY <1>17, OlderIsOK DEF Tick, Inv, TypeOK
    <2>6. phase' \in 0..(Second - 1)
      <3>1. phase + 1 \in Nat
        BY ServerAssumption DEF Inv, TypeOK
      <3>2. QED
        BY <1>17, <3>1, Fraction DEF Tick
    <2>7. TypeOK'
      BY <1>17, <2>2, <2>4, <2>5, <2>6 DEF Tick, Inv, TypeOK
    <2> HIDE DEF Waits, After, Later
    <2>8. ASSUME NEW r \in Reqs
          PROVE  ReqOK(req'[r], proc')
      <3>1. ReqOK(req[r], proc)
        BY <1>a
      <3>2. CASE req[r].pc \in InFlight
        <4>1. /\ req[r].proc \in Procs
              /\ proc'[req[r].proc].pc = proc[req[r].proc].pc
              /\ proc'[req[r].proc].secret = proc[req[r].proc].secret
          BY <2>1, <3>1, <3>2 DEF ReqOK
        <4>2. QED
          BY <2>3, <3>1, <3>2, <4>1 DEF ReqOK
      <3>3. CASE req[r].pc \notin InFlight
        BY <2>3, <3>3 DEF ReqOK, InFlight
      <3>4. QED
        BY <3>2, <3>3
    <2>9. \A p \in Procs : SchemaOK(p)'
      BY <1>17, <2>1 DEF Tick, Inv, SchemaOK
    <2>10. OneListener'
      BY <2>1 DEF Inv, OneListener
    <2>11. ClosingOK'
      <3> SUFFICES ASSUME NEW r \in Reqs, req[r].pc \in InFlight,
                          proc'[req[r].proc].pc = "closing"
                   PROVE  proc'[req[r].proc].waited = ShutdownTimeout
        BY <2>3 DEF ClosingOK
      <3>1. req[r].proc \in Procs
        BY <1>a DEF ReqOK
      <3>2. proc'[req[r].proc] = proc[req[r].proc]
        BY <2>1, <3>1
      <3>3. QED
        BY <3>2 DEF Inv, ClosingOK
    <2>12. QED
      BY <2>5, <2>7, <2>8, <2>9, <2>10, <2>11 DEF Inv
  <1>18. ASSUME UNCHANGED vars PROVE Inv'
    BY <1>18
    DEF vars, Inv, TypeOK, CookieOK, ReqOK, SchemaOK, OneListener, ClosingOK
  <1>19. QED
    BY <1>1, <1>2, <1>3, <1>4, <1>5, <1>6, <1>7, <1>8, <1>9, <1>10, <1>12,
       <1>13, <1>14, <1>15, <1>16, <1>17, <1>18
    DEF Next, Step, Serve

LEMMA InvHolds == Spec => []Inv
  <1>1. Init => Inv
    BY InitInv
  <1>2. Inv /\ [Next]_vars => Inv'
    BY StepInv
  <1>3. QED
    BY <1>1, <1>2, PTL DEF Spec

-------------------------------------------------------------------------------
(***************************************************************************)
(* Theorems.                                                               *)
(***************************************************************************)

\* Processes, requests and cookies keep their types: nothing is in flight at a
\* process that is not there, and a cookie's times stay in range.
THEOREM TypeCorrect == Spec => []TypeOK
  <1>1. Inv => TypeOK
    BY DEF Inv
  <1>2. QED
    BY <1>1, InvHolds, PTL

\* A rotated secret revokes: one process listens, and whoever is let in has
\* shown a cookie of the secret of the process that serves it.
THEOREM Revoked == Spec => []RotationRevokes
  <1>1. ASSUME Inv PROVE RotationRevokes
    <2> SUFFICES ASSUME NEW r \in Reqs, NEW p \in Procs,
                        req[r].pc = "working", ~ req[r].login,
                        proc[p].pc = "serving",
                        proc[p].secret # req[r].cookie.secret
                 PROVE  proc[req[r].proc].pc \in {"draining"} \union Closing
      BY DEF RotationRevokes
    <2>1. /\ req[r].proc \in Procs /\ proc[req[r].proc].pc \in Running
          /\ req[r].cookie.secret = proc[req[r].proc].secret
      BY <1>1 DEF Inv, ReqOK, InFlight
    <2>2. proc[req[r].proc].pc # "serving"
      BY <1>1, <2>1 DEF Inv, OneListener
    <2>3. QED
      BY <2>1, <2>2 DEF Running
  <1>2. QED
    BY <1>1, InvHolds, PTL

\* Which actions decide a request that waits for the guard.
LEMMA Guarded ==
  ASSUME Inv, [Next]_vars, NEW r \in Reqs,
         req[r].pc = "accepted", ~ req[r].login
  PROVE  /\ req'[r].pc = "working" => Verified(req[r].cookie, req[r].proc)
         /\ req'[r].pc = "refused" => ~ Verified(req[r].cookie, req[r].proc)
  <1>a. req \in [Reqs -> Request]
    BY DEF Inv, TypeOK
  <1>1. ASSUME NEW q \in Reqs, Serve(q)
        PROVE  /\ req'[r].pc = "working" => Verified(req[r].cookie, req[r].proc)
               /\ req'[r].pc = "refused" => ~ Verified(req[r].cookie, req[r].proc)
    <2>1. CASE q # r
      <3>1. req'[r] = req[r]
        BY <1>1, <1>a, <2>1
        DEF Serve, NotMounted, Admit, Reject, Login, Logout, Answer,
            AnswerMissing, AnswerClosed, Finish
      <3>2. QED
        BY <3>1
    <2>2. CASE q = r
      <3>1. NotMounted(r) \/ Admit(r) \/ Reject(r)
        BY <1>1, <2>2
        DEF Serve, Login, Logout, Answer, AnswerMissing, AnswerClosed
      <3>2. CASE NotMounted(r)
        BY <1>a, <3>2 DEF NotMounted, Finish, Ended
      <3>3. CASE Reject(r)
        BY <1>a, <3>3 DEF Reject, Finish, Ended
      <3>4. CASE Admit(r)
        <4>1. req'[r] = [req[r] EXCEPT !.pc = "working"] /\ req[r] \in Request
          BY <1>a, <3>4 DEF Admit
        <4>2. req'[r].pc = "working"
          BY <4>1 DEF Request
        <4>3. QED
          BY <3>4, <4>2 DEF Admit
      <3>5. QED
        BY <3>1, <3>2, <3>3, <3>4
    <2>3. QED
      BY <2>1, <2>2
  <1>2. ASSUME NEW q \in Reqs, NEW p \in Procs, NEW login \in BOOLEAN,
               Send(q, p, login)
        PROVE  req'[r].pc = "accepted"
    BY <1>2, <1>a DEF Send, InFlight
  <1>3. ASSUME NEW p \in Procs, Exit(p) \/ Crash(p)
        PROVE  req'[r].pc \in {"accepted", "cut", "idle"}
    BY <1>3, <1>a DEF Exit, Crash, Ended
  <1>4. ASSUME Tick PROVE req'[r].pc = "accepted"
    BY <1>4, <1>a DEF Tick, Request
  <1>5. ASSUME UNCHANGED req PROVE req'[r].pc = "accepted"
    BY <1>5
  <1>6. QED
    BY <1>1, <1>2, <1>3, <1>4, <1>5
    DEF Next, Step, Start, Open, CheckSchema, Listen, Quit, Signal, Shutdown,
        Drained, TimedOut, ServeFails, Forget, MigrateUp, MigrateDown, vars

\* A session lives its TTL to within a second, whoever issued it and whoever
\* is asked.
THEOREM SessionsLive == Spec => SessionLivesItsTime
  <1>1. ASSUME Inv, [Next]_vars
        PROVE  [\A r \in Reqs :
                  req[r].pc = "accepted" /\ ~ req[r].login =>
                    /\ req'[r].pc = "working" =>
                         req[r].cookie # NoCookie /\ req[r].cookie.age < Ttl
                    /\ req'[r].pc = "refused" =>
                         \/ req[r].cookie = NoCookie
                         \/ req[r].cookie.secret # proc[req[r].proc].secret
                         \/ req[r].cookie.age + Second > Ttl]_vars
    <2> SUFFICES ASSUME NEW r \in Reqs,
                        req[r].pc = "accepted", ~ req[r].login
                 PROVE  /\ req'[r].pc = "working" =>
                             req[r].cookie # NoCookie /\ req[r].cookie.age < Ttl
                        /\ req'[r].pc = "refused" =>
                             \/ req[r].cookie = NoCookie
                             \/ req[r].cookie.secret # proc[req[r].proc].secret
                             \/ req[r].cookie.age + Second > Ttl
      OBVIOUS
    <2>1. /\ req'[r].pc = "working" => Verified(req[r].cookie, req[r].proc)
          /\ req'[r].pc = "refused" => ~ Verified(req[r].cookie, req[r].proc)
      BY <1>1, Guarded
    <2>2. CookieOK(req[r].cookie) /\ req[r].cookie \in Cookie \union {NoCookie}
      BY <1>1 DEF Inv, TypeOK, Request, ReqOK
    <2>3. CASE req[r].cookie = NoCookie
      BY <2>1, <2>3 DEF Verified
    <2>4. CASE req[r].cookie \in Cookie
      <3>1. /\ req[r].cookie # NoCookie
            /\ req[r].cookie.left \in 0..Ttl /\ req[r].cookie.age \in 0..Ttl
        BY <2>4, CookieFields
      <3>2. /\ req[r].cookie.left > 0 => req[r].cookie.age < Ttl
            /\ ~ (req[r].cookie.left > 0) => req[r].cookie.age + Second > Ttl
        BY <2>2, <3>1, ServerAssumption DEF CookieOK
      <3>3. QED
        BY <2>1, <3>1, <3>2 DEF Verified
    <2>5. QED
      BY <2>2, <2>3, <2>4
  <1>2. QED
    BY <1>1, InvHolds, PTL DEF Spec, SessionLivesItsTime

\* Which actions end a request that is in flight, and at what.
LEMMA Ending ==
  ASSUME Inv, [Next]_vars, NEW r \in Reqs, req[r].pc \in InFlight
  PROVE  /\ req'[r].pc = "cut" => \/ AnswerClosed(r)
                                  \/ proc[req[r].proc].pc \in Closing
         /\ req'[r].pc = "missing" => AnswerMissing(r)
  <1> DEFINE Goal ==
        /\ req'[r].pc = "cut" => \/ AnswerClosed(r)
                                 \/ proc[req[r].proc].pc \in Closing
        /\ req'[r].pc = "missing" => AnswerMissing(r)
  <1>a. req \in [Reqs -> Request]
    BY DEF Inv, TypeOK
  <1>b. req[r].pc # "cut" /\ req[r].pc # "missing"
    BY DEF InFlight
  <1>1. ASSUME NEW q \in Reqs, Serve(q)
        PROVE  Goal
    <2>1. CASE q # r
      <3>1. req'[r] = req[r]
        BY <1>1, <1>a, <2>1
        DEF Serve, NotMounted, Admit, Reject, Login, Logout, Answer,
            AnswerMissing, AnswerClosed, Finish
      <3>2. QED
        BY <1>b, <3>1
    <2>2. CASE q = r
      <3>1. CASE AnswerClosed(r)
        BY <1>a, <3>1 DEF AnswerClosed, Finish, Ended
      <3>2. CASE AnswerMissing(r)
        BY <1>a, <3>2 DEF AnswerMissing, Finish, Ended
      <3>3. CASE Admit(r)
        <4>1. req'[r] = [req[r] EXCEPT !.pc = "working"] /\ req[r] \in Request
          BY <1>a, <3>3 DEF Admit
        <4>2. req'[r].pc = "working"
          BY <4>1 DEF Request
        <4>3. QED
          BY <4>2
      <3>4. CASE NotMounted(r) \/ Reject(r) \/ Login(r) \/ Logout(r) \/ Answer(r)
        <4>1. req'[r].pc \in {"done", "refused"}
          BY <1>a, <3>4
          DEF NotMounted, Reject, Login, Logout, Answer, Finish, Ended
        <4>2. QED
          BY <4>1
      <3>5. QED
        BY <1>1, <2>2, <3>1, <3>2, <3>3, <3>4 DEF Serve
    <2>3. QED
      BY <2>1, <2>2
  <1>2. ASSUME NEW q \in Reqs, NEW p \in Procs, NEW login \in BOOLEAN,
               Send(q, p, login)
        PROVE  req'[r] = req[r]
    BY <1>2, <1>a DEF Send
  <1>3. ASSUME NEW p \in Procs, Exit(p)
        PROVE  Goal
    BY <1>3, <1>a, <1>b DEF Exit, Ended, Serving
  <1>4. ASSUME NEW p \in Procs, Crash(p)
        PROVE  req'[r].pc \in {"idle", req[r].pc}
    BY <1>4, <1>a DEF Crash, Ended
  <1>5. ASSUME Tick PROVE req'[r].pc = req[r].pc
    BY <1>5, <1>a DEF Tick, Request
  <1>6. ASSUME UNCHANGED req PROVE req'[r] = req[r]
    BY <1>6
  <1> HIDE DEF Goal
  <1>7. (req'[r].pc \in {"idle", req[r].pc}) => Goal
    BY <1>b DEF Goal
  <1>8. Goal
    BY <1>1, <1>2, <1>3, <1>4, <1>5, <1>6, <1>7
    DEF Next, Step, Start, Open, CheckSchema, Listen, Quit, Signal, Shutdown,
        Drained, TimedOut, ServeFails, Forget, MigrateUp, MigrateDown, vars
  <1>9. QED
    BY <1>8 DEF Goal

\* Whatever is in flight when a process is told to stop is left to finish for
\* the whole shutdown timeout.
THEOREM CutAfterTimeout == Spec => CutOnlyAfterTimeout
  <1>1. ASSUME Inv, [Next]_vars
        PROVE  [\A r \in Reqs :
                  req[r].pc \in InFlight /\ req'[r].pc = "cut" =>
                    \/ proc[req[r].proc].pc = "failing"
                    \/ proc[req[r].proc].waited = ShutdownTimeout]_vars
    <2> SUFFICES ASSUME NEW r \in Reqs, req[r].pc \in InFlight,
                        req'[r].pc = "cut"
                 PROVE  \/ proc[req[r].proc].pc = "failing"
                        \/ proc[req[r].proc].waited = ShutdownTimeout
      OBVIOUS
    <2>1. proc[req[r].proc].pc \in Closing
      BY <1>1, Ending DEF AnswerClosed
    <2>2. QED
      BY <1>1, <2>1 DEF Closing, Inv, ClosingOK
  <1>2. QED
    BY <1>1, InvHolds, PTL DEF Spec, CutOnlyAfterTimeout

\* No handler misses a table its process has found there, unless a migration
\* has been rolled back since.
THEOREM MissingAfterRollback == Spec => MissingOnlyAfterRollback
  <1>1. ASSUME Inv, [Next]_vars
        PROVE  [\A r \in Reqs :
                  req[r].pc \in InFlight /\ req'[r].pc = "missing"
                    => proc[req[r].proc].rolledBack]_vars
    <2> SUFFICES ASSUME NEW r \in Reqs, req[r].pc \in InFlight,
                        req'[r].pc = "missing"
                 PROVE  proc[req[r].proc].rolledBack
      OBVIOUS
    <2>1. AnswerMissing(r)
      BY <1>1, Ending
    <2>2. /\ req[r].proc \in Procs /\ proc[req[r].proc].pc \in Running
          /\ SchemaOK(req[r].proc)
      BY <1>1 DEF Inv, ReqOK
    <2>3. schema \in Nat /\ Needs[req[r].proc] \in Nat
          /\ schema < Needs[req[r].proc]
      BY <1>1, <2>1, <2>2, ServerAssumption DEF AnswerMissing, Inv, TypeOK
    <2>4. QED
      BY <2>2, <2>3 DEF SchemaOK
  <1>2. QED
    BY <1>1, InvHolds, PTL DEF Spec, MissingOnlyAfterRollback
===============================================================================
