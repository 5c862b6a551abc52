------------------------------ MODULE Migrations ------------------------------
(***************************************************************************)
(* `migrate up' and `migrate down' (internal/database/migrate.go and       *)
(* internal/cli/migrate.go) run by several processes against one database, *)
(* not all built from the same commit.  Each statement and each            *)
(* transaction is an action.  Pop's migrator, which Up and Down call, is   *)
(* modelled from what migrate.go says of it.                               *)
(*                                                                         *)
(* `lost' and `outdated' only record history: no action reads them.  A     *)
(* slip is a mistake the definition after it could have had.               *)
(***************************************************************************)
EXTENDS Naturals, FiniteSets

CONSTANTS
  Versions,  \* the migrations there are, numbered by time stamp
  Procs,     \* invocations of the binary
  NoProc,    \* nobody holds the lock
  Known,     \* the migrations embedded in each binary
  Rollers,   \* the invocations that may be a `migrate down'
  Steps      \* what --step may be

ASSUME MigrationsAssumption ==
  /\ Versions \subseteq Nat
  /\ IsFiniteSet(Versions)
  /\ NoProc \notin Procs
  /\ Known \in [Procs -> SUBSET Versions]
  /\ Rollers \subseteq Procs
  /\ Steps \subseteq Nat \ {0}

VARIABLES
  applied,  \* the versions recorded in schema_migration
  holder,   \* who holds the advisory lock
  proc,     \* the invocations
  lost,     \* the session of a lock has been cut while its holder ran on
  outdated  \* the invocations since whose start another one, a down, has
            \* taken a migration away

vars == <<applied, holder, proc, lost, outdated>>

Process ==
  [pc   : {"idle", "locking", "counting", "looking", "migrating"},
   cmd  : {"up", "down"},
   step : Steps \union {0},
   plan : SUBSET Versions]   \* what is still to be gone through
Idle == [pc |-> "idle", cmd |-> "up", step |-> 0, plan |-> {}]

TypeOK ==
  /\ applied \subseteq Versions
  /\ holder \in Procs \union {NoProc}
  /\ proc \in [Procs -> Process]
  /\ lost \in BOOLEAN
  /\ outdated \subseteq Procs

Init ==
  /\ applied = {}
  /\ holder = NoProc
  /\ proc = [p \in Procs |-> Idle]
  /\ lost = FALSE
  /\ outdated = {}

-------------------------------------------------------------------------------
\* Helpers.

Pending(p) == Known[p] \ applied

Oldest(S, n) == {v \in S : Cardinality({u \in S : u < v}) < n}
Newest(S, n) == {v \in S : Cardinality({u \in S : u > v}) < n}

\* Pop takes as many of the migrations it knows as there are rows to be the
\* ones that were applied, oldest first, and reverses the newest `step' of them.
Victims(known, count, step) == Newest(Oldest(known, count), step)

\* The migration whose turn it is: up goes through them oldest first, down
\* newest first.
IsNext(p, v) ==
  /\ v \in proc[p].plan
  /\ \A u \in proc[p].plan \ {v} :
       IF proc[p].cmd = "up" THEN v < u ELSE u < v

Goes(p, pc, plan) ==
  proc' = [proc EXCEPT ![p].pc = pc, ![p].plan = plan]

-------------------------------------------------------------------------------
StartUp(p) ==
  /\ proc[p] = Idle
  /\ proc' = [proc EXCEPT ![p] =
                [pc |-> "locking", cmd |-> "up", step |-> 0, plan |-> Known[p]]]
  /\ UNCHANGED <<applied, holder, lost, outdated>>

\* Slip: a refused down is left in a state of its own.
StartDownOrStay(p, step) ==
  /\ proc[p] = Idle
  /\ p \in Rollers
  /\ proc' = [proc EXCEPT ![p] =
                [pc |-> IF Pending(p) = {} THEN "locking" ELSE "refused",
                 cmd |-> "down", step |-> step, plan |-> {}]]
  /\ UNCHANGED <<applied, holder, lost, outdated>>

\* Slip: down looks at what it is to reverse, and not at what is pending.
StartDownAnyway(p, step) ==
  /\ proc[p] = Idle
  /\ p \in Rollers
  /\ applied \cap Known[p] # {}
  /\ proc' = [proc EXCEPT ![p] =
                [pc |-> "locking", cmd |-> "down", step |-> step, plan |-> {}]]
  /\ UNCHANGED <<applied, holder, lost, outdated>>

\* Down reads what is pending, and refuses if anything is, before it has the
\* lock.
StartDown(p, step) ==
  /\ proc[p] = Idle
  /\ p \in Rollers
  /\ Pending(p) = {}
  /\ proc' = [proc EXCEPT ![p] =
                [pc |-> "locking", cmd |-> "down", step |-> step, plan |-> {}]]
  /\ UNCHANGED <<applied, holder, lost, outdated>>

HasLock(p) ==
  Goes(p, IF proc[p].cmd = "up" THEN "looking" ELSE "counting", proc[p].plan)

\* Slip: the lock is pg_try_advisory_lock, whose answer is not looked at.
AcquireOrNot(p) ==
  /\ proc[p].pc = "locking"
  /\ holder' = IF holder = NoProc THEN p ELSE holder
  /\ HasLock(p)
  /\ UNCHANGED <<applied, lost, outdated>>

\* pg_advisory_lock waits for whoever holds it.
Acquire(p) ==
  /\ proc[p].pc = "locking"
  /\ holder = NoProc
  /\ holder' = p
  /\ HasLock(p)
  /\ UNCHANGED <<applied, lost, outdated>>

Count(p) ==
  /\ proc[p].pc = "counting"
  /\ Goes(p, "looking",
          Victims(Known[p], Cardinality(applied), proc[p].step))
  /\ UNCHANGED <<applied, holder, lost, outdated>>

\* A migration that is there already ends the run: the rest must be there too.
UpStopsAt(p, v) ==
  /\ proc[p].pc = "looking" /\ proc[p].cmd = "up"
  /\ IsNext(p, v)
  /\ v \in applied
  /\ Goes(p, "looking", {})
  /\ UNCHANGED <<applied, holder, lost, outdated>>

\* Up goes past what has been applied.
UpSkips(p, v) ==
  /\ proc[p].pc = "looking" /\ proc[p].cmd = "up"
  /\ IsNext(p, v)
  /\ v \in applied
  /\ Goes(p, "looking", proc[p].plan \ {v})
  /\ UNCHANGED <<applied, holder, lost, outdated>>

\* Otherwise the next migration begins its transaction; down gives up when its
\* next one is not recorded (Stop).
Begin(p, v) ==
  /\ proc[p].pc = "looking"
  /\ IsNext(p, v)
  /\ (v \in applied) <=> (proc[p].cmd = "down")
  /\ Goes(p, "migrating", proc[p].plan)
  /\ UNCHANGED <<applied, holder, lost, outdated>>

\* A down of p takes a migration away: note it against whoever else runs.
Overtaken(p) == outdated \union {q \in Procs \ {p} : proc[q] # Idle}

\* The transaction that runs the SQL of one migration and records it.  That a
\* second one of the same version cannot commit is the tables' and the version
\* index's doing.
Commit(p, v) ==
  /\ proc[p].pc = "migrating"
  /\ IsNext(p, v)
  /\ (v \in applied) <=> (proc[p].cmd = "down")
  /\ applied' = IF proc[p].cmd = "up" THEN applied \union {v}
                                      ELSE applied \ {v}
  /\ outdated' = IF proc[p].cmd = "up" THEN outdated ELSE Overtaken(p)
  /\ Goes(p, "looking", proc[p].plan \ {v})
  /\ UNCHANGED <<holder, lost>>

Released(p) == IF holder = p THEN NoProc ELSE holder

Finish(p) ==
  /\ proc[p].pc = "looking"
  /\ proc[p].plan = {}
  /\ proc' = [proc EXCEPT ![p] = Idle]
  /\ holder' = Released(p)
  /\ outdated' = outdated \ {p}
  /\ UNCHANGED <<applied, lost>>

\* Slip: the lock is released on success only, by a process that lives on.
StopHolding(p) ==
  /\ proc[p] # Idle
  /\ proc' = [proc EXCEPT ![p] = Idle]
  /\ outdated' = outdated \ {p}
  /\ UNCHANGED <<applied, holder, lost>>

\* An error, which the deferred unlock follows, or the death of the process,
\* whose sessions end with it: a transaction it had open is rolled back.
Stop(p) ==
  /\ proc[p] # Idle
  /\ proc' = [proc EXCEPT ![p] = Idle]
  /\ holder' = Released(p)
  /\ outdated' = outdated \ {p}
  /\ UNCHANGED <<applied, lost>>

\* The lock is held on a connection of its own, which nothing watches: cut, it
\* lets go of the lock while the migrations run on over another.
LoseLock ==
  /\ holder # NoProc
  /\ holder' = NoProc
  /\ lost' = TRUE
  /\ UNCHANGED <<applied, proc, outdated>>

Works(p) ==
  \/ Count(p)
  \/ \E v \in Versions : UpSkips(p, v) \/ Begin(p, v) \/ Commit(p, v)
  \/ Finish(p) \/ Stop(p)

Next ==
  \/ \E p \in Procs :
       \/ StartUp(p) \/ Acquire(p) \/ Works(p)
       \/ \E step \in Steps : StartDown(p, step)
  \/ LoseLock

Spec == Init /\ [][Next]_vars

\* A statement is answered or fails, and the queue for the lock is served in
\* order, so that nobody is passed over for ever.
FairSpec ==
  /\ Spec
  /\ \A p \in Procs : WF_vars(Works(p) /\ proc[p].pc # "locking")
  /\ \A p \in Procs : SF_vars(Acquire(p))

-------------------------------------------------------------------------------
(***************************************************************************)
(* Properties.  They are about any set of binaries: one may lack the       *)
(* newest migrations, or one that was merged behind newer ones.            *)
(***************************************************************************)

\* Each migration was written against the schema that the older ones leave: an
\* up applies one only when all the older ones it knows are there, whoever
\* migrated or died before.  A lost lock alone does no harm to this: it takes a
\* down beside the up as well.
Unguarded(p) == lost /\ p \in outdated
AppliesInOrder ==
  [][\A p \in Procs, v \in Versions : Commit(p, v) /\ proc[p].cmd = "up" =>
       Unguarded(p) \/ \A u \in Known[p] : u < v => u \in applied]_vars

\* When `migrate up' reports success, a `serve' of the same binary starts:
\* nothing it knows of is pending, whoever else was migrating meanwhile.
UpLeavesNothingPending ==
  [][\A p \in Procs : Finish(p) /\ proc[p].cmd = "up"
       => Unguarded(p) \/ Pending(p) = {}]_vars

\* migrate.go: down rolls back "newest first", and pop's arithmetic on the
\* number of rows is not to be had where "a pending migration whose version
\* sorts before an applied one shifts that slice".  Of the applied migrations
\* that its binary knows, a down takes the newest, also when others have rolled
\* back while it waited, unless such a one is pending as it commits; and then, if
\* it knows all that is applied, what it takes is never the newest.
Mine(p) == applied \cap Known[p]
InOrder(p) == \A v \in Mine(p), u \in Known[p] : u < v => u \in applied
IsNewestOf(v, S) == \A u \in S : u <= v
RollsBackNewest ==
  [][\A p \in Procs, v \in Versions : Commit(p, v) /\ proc[p].cmd = "down" =>
       \/ lost
       \/ InOrder(p) /\ IsNewestOf(v, Mine(p))
       \/ ~ InOrder(p) /\ (applied \subseteq Known[p] => ~ IsNewestOf(v, Mine(p)))]_vars

\* Whoever waits for the lock gets it or gives up, however the one before it
\* ended.
LockWaitEnds ==
  \A p \in Procs : proc[p].pc = "locking" ~> proc[p].pc # "locking"

\* README.md: "`migrate down` refuses to run while anything is pending".  It
\* looks before it waits for the lock and not again.
DownRunsOnlyWhenNothingIsPending ==
  [][\A p \in Procs : Count(p) => Pending(p) = {}]_vars

\* So it runs with something pending; but only if another down took that away
\* in between, never because an up was not finished or had died, and never when
\* it rolls back alone.
RunsWithPendingOnlyBehindADown ==
  [][\A p \in Procs : Count(p) => Pending(p) = {} \/ p \in outdated]_vars

\* The promise of the advisory lock, for as long as nobody has lost it: what
\* the migrators do to the database together, one of them could do after
\* another, each of them going one way.
Abstract == INSTANCE Schema WITH
              Top    <- Cardinality(Versions),
              height <- Cardinality(applied),
              way    <- IF holder = NoProc THEN "none" ELSE proc[holder].cmd

ImplementsSchema ==
  Abstract!SInit /\ [][lost' \/ [Abstract!SNext]_(Abstract!svars)]_vars
===============================================================================
