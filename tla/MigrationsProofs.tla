--------------------------- MODULE MigrationsProofs ---------------------------
(***************************************************************************)
(* Theorems about Migrations, for any migrations, processes and binaries.  *)
(*                                                                         *)
(* What makes the inductive invariant: while the lock is kept, who works   *)
(* holds it; what an up has gone past is applied, until a down comes beside *)
(* it; what a down has yet to reverse is the top of what its binary knows  *)
(* of the applied, or all below one that is out of order.                  *)
(***************************************************************************)
EXTENDS Migrations, FiniteSetTheorems, TLAPS

Working(p) == proc[p].pc \in {"counting", "looking", "migrating"}

\* The process p has the turn in the argument: its command and what it plans.
Ups(p)   == Working(p) /\ proc[p].cmd = "up"
Downs(p) == proc[p].pc \in {"looking", "migrating"} /\ proc[p].cmd = "down"

PlanOK ==
  \A p \in Procs :
    /\ proc[p].plan \subseteq Known[p]
    /\ proc[p].cmd = "down" => p \in Rollers /\ proc[p].step \in Steps
    /\ proc[p].pc = "counting" => proc[p].cmd = "down"
    /\ proc[p].pc = "locking" /\ proc[p].cmd = "up" => proc[p].plan = Known[p]
LockOK == lost \/ \A p \in Procs : Working(p) => holder = p
UpOK ==
  \A p \in Procs :
    Ups(p) => Unguarded(p) \/ Known[p] \ proc[p].plan \subseteq applied

Inv == TypeOK /\ PlanOK /\ LockOK /\ UpOK

\* Of the applied set S, a binary that knows K plans to reverse `plan': the top
\* of what it knows of S, or migrations below one that is out of order.
Ordered(S, K) == \A v \in S \cap K, u \in K : u < v => u \in S
IsTop(plan, S, K) ==
  /\ \A v \in plan, u \in S \cap K : v < u => u \in plan
  /\ S \subseteq K => Ordered(S, K)
IsBelowGap(plan, S, K) ==
  \E u \in S \cap K : /\ \E w \in K \ S : w < u
                     /\ \A v \in plan : v < u
Sliced(plan, S, K) == IsTop(plan, S, K) \/ IsBelowGap(plan, S, K)

DownOK ==
  lost \/ \A p \in Procs : Downs(p) => Sliced(proc[p].plan, applied, Known[p])

SliceInv == Inv /\ DownOK

-------------------------------------------------------------------------------
\* What Known holds are migrations.
LEMMA KnownType == \A p \in Procs : Known[p] \subseteq Versions
  BY MigrationsAssumption

\* Oldest(K, n) is an initial part of K with no more than n members, and a
\* member of K with fewer than n below it is one of them.
LEMMA OldestPart ==
  ASSUME NEW K \in SUBSET Versions, NEW n \in Nat
  PROVE  /\ Oldest(K, n) \subseteq K
         /\ \A v \in Oldest(K, n), u \in K : u < v => u \in Oldest(K, n)
         /\ IsFiniteSet(Oldest(K, n)) /\ Cardinality(Oldest(K, n)) <= n
<1> DEFINE Below(v) == {u \in K : u < v}
           rank == [v \in Oldest(K, n) |-> Cardinality(Below(v)) + 1]
<1>1. /\ IsFiniteSet(K) /\ K \subseteq Nat /\ Oldest(K, n) \subseteq K
      /\ \A v \in Oldest(K, n) : Cardinality(Below(v)) < n
  BY FS_Subset, MigrationsAssumption DEF Oldest
<1>2. \A v : IsFiniteSet(Below(v)) /\ Cardinality(Below(v)) \in Nat
  BY <1>1, FS_Subset, FS_CardinalityType
<1>3. ASSUME NEW u \in K, NEW v \in K, u < v
      PROVE  Cardinality(Below(u)) < Cardinality(Below(v))
  <2>1. Below(u) \subseteq Below(v) /\ u \in Below(v) /\ u \notin Below(u)
    <3>1. u \in Nat /\ v \in Nat /\ \A w \in K : w \in Nat BY <1>1
    <3>2. ASSUME NEW w \in K, w < u PROVE w < v BY <1>3, <3>1, <3>2
    <3>3. ~ (u < u) BY <3>1
    <3> QED BY <1>3, <3>2, <3>3
  <2>2. Below(u) # Below(v) BY <2>1
  <2> HIDE DEF Below
  <2>3. /\ IsFiniteSet(Below(v))
        /\ Cardinality(Below(u)) \in Nat /\ Cardinality(Below(v)) \in Nat
    BY <1>2
  <2>4. /\ Cardinality(Below(u)) <= Cardinality(Below(v))
        /\ Cardinality(Below(u)) # Cardinality(Below(v))
    BY <2>1, <2>2, <2>3, FS_Subset
  <2> QED BY <2>3, <2>4
<1>4. ASSUME NEW v \in Oldest(K, n), NEW u \in K, u < v PROVE u \in Oldest(K, n)
  <2>1. Cardinality(Below(u)) < Cardinality(Below(v)) BY <1>1, <1>3, <1>4
  <2>2. Cardinality(Below(v)) < n BY <1>1
  <2>3. Cardinality(Below(u)) < n
    <3> HIDE DEF Below
    <3> QED BY <1>2, <2>1, <2>2
  <2> QED BY <2>3 DEF Oldest
<1>5. rank \in Injection(Oldest(K, n), 1..n)
  <2>1. \A v \in Oldest(K, n) : Cardinality(Below(v)) + 1 \in 1..n
    <3> HIDE DEF Below
    <3> QED BY <1>1, <1>2
  <2>2. ASSUME NEW u \in Oldest(K, n), NEW v \in Oldest(K, n), rank[u] = rank[v]
        PROVE  u = v
    <3>1. Cardinality(Below(u)) = Cardinality(Below(v))
      <4>1. Cardinality(Below(u)) + 1 = Cardinality(Below(v)) + 1 BY <2>2
      <4> HIDE DEF Below
      <4> QED BY <1>2, <4>1
    <3>2. u \in K /\ v \in K /\ u \in Nat /\ v \in Nat BY <1>1
    <3>3. ~ (u < v) /\ ~ (v < u)
      <4>1. ~ (Cardinality(Below(u)) < Cardinality(Below(v)))
        <5> HIDE DEF Below
        <5> QED BY <1>2, <3>1
      <4>2. ~ (Cardinality(Below(v)) < Cardinality(Below(u)))
        <5> HIDE DEF Below
        <5> QED BY <1>2, <3>1
      <4> QED BY <1>3, <3>2, <4>1, <4>2
    <3> QED BY <3>2, <3>3
  <2>3. rank \in [Oldest(K, n) -> 1..n] BY <2>1
  <2> HIDE DEF rank
  <2> QED BY <2>2, <2>3 DEF Injection, IsInjective
<1>6. IsFiniteSet(1..n) /\ Cardinality(1..n) = n BY FS_Interval
<1>7. Cardinality(Oldest(K, n)) <= n BY <1>5, <1>6, FS_Injection
<1>8. IsFiniteSet(Oldest(K, n)) BY <1>1, FS_Subset
<1> QED BY <1>1, <1>4, <1>7, <1>8

\* Newest(T, n) is a top part of T.
LEMMA NewestPart ==
  ASSUME NEW T \in SUBSET Versions, NEW n \in Nat
  PROVE  /\ Newest(T, n) \subseteq T
         /\ \A v \in Newest(T, n), u \in T : v < u => u \in Newest(T, n)
<1> DEFINE Above(v) == {u \in T : u > v}
<1>1. IsFiniteSet(T) BY FS_Subset, MigrationsAssumption
<1>2. \A v : IsFiniteSet(Above(v)) /\ Cardinality(Above(v)) \in Nat
  BY <1>1, FS_Subset, FS_CardinalityType
<1>3. ASSUME NEW v \in Newest(T, n), NEW u \in T, v < u PROVE u \in Newest(T, n)
  <2>1. v \in T /\ Cardinality(Above(v)) < n BY DEF Newest
  <2>2. Above(u) \subseteq Above(v)
    <3> SUFFICES ASSUME NEW w \in T, w > u PROVE w > v BY DEF Above
    <3>1. w \in Nat /\ u \in Nat /\ v \in Nat BY <2>1, MigrationsAssumption
    <3> QED BY <1>3, <3>1
  <2>3. Cardinality(Above(u)) <= Cardinality(Above(v)) BY <1>2, <2>2, FS_Subset
  <2>4. Cardinality(Above(u)) < n
    <3> HIDE DEF Above
    <3> QED BY <1>2, <2>1, <2>3
  <2> QED BY <2>4 DEF Newest
<1> QED BY <1>3 DEF Newest

\* Pop's arithmetic, for any migrations known and applied.  Either it reaches
\* all that is known of the applied, and then nothing out of order is pending
\* unless what is not known makes up for it in the count; or it stops short of
\* one that has a pending one below it.
LEMMA VictimsSliced ==
  ASSUME NEW K \in SUBSET Versions, NEW S \in SUBSET Versions, NEW n \in Nat
  PROVE  Sliced(Victims(K, Cardinality(S), n), S, K)
<1> DEFINE c == Cardinality(S)
           T == Oldest(K, c)
           V == Newest(T, n)
<1>1. IsFiniteSet(S) /\ c \in Nat /\ S \subseteq Nat /\ K \subseteq Nat
  BY FS_Subset, FS_CardinalityType, MigrationsAssumption
<1>2. /\ T \subseteq K /\ \A v \in T, u \in K : u < v => u \in T
      /\ IsFiniteSet(T) /\ Cardinality(T) <= c
  BY <1>1, OldestPart
<1>3. V \subseteq T /\ \A v \in V, u \in T : v < u => u \in V
  <2>1. T \in SUBSET Versions BY <1>2
  <2> HIDE DEF T
  <2> QED BY <2>1, NewestPart
<1>4. Victims(K, c, n) = V BY DEF Victims
<1>5. ASSUME S \cap K \subseteq T PROVE IsTop(V, S, K)
  <2>1. \A v \in V, u \in S \cap K : v < u => u \in V BY <1>3, <1>5
  <2>2. ASSUME S \subseteq K, NEW v \in S, NEW u \in K, u < v, u \notin S
        PROVE  FALSE
    <3>1. S \union {u} \subseteq T
      <4> HIDE DEF T
      <4> QED BY <1>2, <1>5, <2>2
    <3>2. Cardinality(S \union {u}) = c + 1 BY <1>1, <2>2, FS_AddElement
    <3>3. Cardinality(S \union {u}) <= Cardinality(T) BY <1>2, <3>1, FS_Subset
    <3>4. Cardinality(T) \in Nat BY <1>2, FS_CardinalityType
    <3> HIDE DEF T, c
    <3> QED BY <1>1, <1>2, <3>2, <3>3, <3>4
  <2>3. S \subseteq K => Ordered(S, K) BY <2>2 DEF Ordered
  <2> QED BY <2>1, <2>3 DEF IsTop
<1>6. ASSUME NEW u \in S \cap K, u \notin T PROVE IsBelowGap(V, S, K)
  <2> DEFINE B == {w \in K : w < u}
  <2>1. PICK w \in K \ S : w < u
    <3> SUFFICES ASSUME B \subseteq S PROVE FALSE OBVIOUS
    <3>1. u \notin B BY <1>1
    <3>2. B # S BY <3>1
    <3>3. Cardinality(B) < c
      <4> HIDE DEF B
      <4>1. IsFiniteSet(B) /\ Cardinality(B) <= c /\ Cardinality(B) # c
        BY <1>1, <3>2, FS_Subset
      <4>2. Cardinality(B) \in Nat BY <4>1, FS_CardinalityType
      <4> HIDE DEF c
      <4> QED BY <1>1, <4>1, <4>2
    <3>4. u \in T BY <3>3 DEF Oldest
    <3> QED BY <1>6, <3>4
  <2>2. \A v \in V : v < u
    <3> SUFFICES ASSUME NEW v \in T PROVE v < u BY <1>3
    <3>1. ~ (u < v) /\ u # v
      <4> HIDE DEF T
      <4> QED BY <1>2, <1>6
    <3>2. u \in Nat /\ v \in Nat BY <1>1, <1>2
    <3> QED BY <3>1, <3>2
  <2> QED BY <2>1, <2>2 DEF IsBelowGap
<1> HIDE DEF T, V
<1> QED BY <1>4, <1>5, <1>6 DEF Sliced

\* Reversing the newest of a slice leaves a slice; and says which it was.
LEMMA SliceStep ==
  ASSUME NEW K \in SUBSET Versions, NEW S \in SUBSET Versions,
         NEW plan \in SUBSET K, Sliced(plan, S, K),
         NEW v \in plan, v \in S, \A u \in plan \ {v} : u < v
  PROVE  /\ Sliced(plan \ {v}, S \ {v}, K)
         /\ Ordered(S, K) => IsNewestOf(v, S \cap K)
         /\ ~ Ordered(S, K) /\ S \subseteq K => ~ IsNewestOf(v, S \cap K)
<1>1. \A u \in S \union K : u \in Nat BY MigrationsAssumption
<1>2. ASSUME IsTop(plan, S, K)
      PROVE  /\ IsNewestOf(v, S \cap K)
             /\ IsTop(plan \ {v}, S \ {v}, K)
             /\ ~ Ordered(S, K) => ~ (S \subseteq K)
  <2>1. ASSUME NEW u \in S \cap K PROVE u <= v
    <3>1. CASE v < u
      <4>1. u \in plan BY <1>2, <3>1 DEF IsTop
      <4>2. u # v /\ ~ (u < v) BY <1>1, <3>1
      <4> QED BY <4>1, <4>2
    <3>2. CASE ~ (v < u) BY <1>1, <3>2
    <3> QED BY <3>1, <3>2
  <2>2. \A x \in plan \ {v}, u \in (S \ {v}) \cap K : x < u => u \in plan \ {v}
    BY <1>2 DEF IsTop
  <2>3. ASSUME S \ {v} \subseteq K PROVE Ordered(S \ {v}, K)
    <3>1. Ordered(S, K) BY <1>2, <2>3 DEF IsTop
    <3> SUFFICES ASSUME NEW x \in (S \ {v}) \cap K, NEW u \in K, u < x
                 PROVE  u \in S \ {v}
      BY DEF Ordered
    <3>2. u \in S BY <3>1 DEF Ordered
    <3>3. x <= v /\ x \in Nat /\ u \in Nat /\ v \in Nat BY <1>1, <2>1
    <3>4. u # v BY <3>3
    <3> QED BY <3>2, <3>4
  <2>4. IsTop(plan \ {v}, S \ {v}, K) BY <2>2, <2>3 DEF IsTop
  <2>5. IsNewestOf(v, S \cap K) BY <2>1 DEF IsNewestOf
  <2> QED BY <1>2, <2>4, <2>5 DEF IsTop
<1>3. ASSUME IsBelowGap(plan, S, K)
      PROVE  /\ ~ IsNewestOf(v, S \cap K) /\ ~ Ordered(S, K)
             /\ IsBelowGap(plan \ {v}, S \ {v}, K)
  <2>1. PICK u \in S \cap K : /\ \E w \in K \ S : w < u
                             /\ \A x \in plan : x < u
    BY <1>3 DEF IsBelowGap
  <2>2. PICK w \in K \ S : w < u BY <2>1
  <2>3. v < u /\ u # v /\ ~ (u <= v) BY <1>1, <2>1
  <2>4. ~ Ordered(S, K) BY <2>2 DEF Ordered
  <2>5. ~ IsNewestOf(v, S \cap K) BY <2>3 DEF IsNewestOf
  <2>6. IsBelowGap(plan \ {v}, S \ {v}, K)
    <3>1. u \in (S \ {v}) \cap K /\ w \in K \ (S \ {v}) BY <2>3
    <3> QED BY <2>1, <2>2, <3>1 DEF IsBelowGap
  <2> QED BY <2>4, <2>5, <2>6
<1> QED BY <1>2, <1>3 DEF Sliced

-------------------------------------------------------------------------------
LEMMA InitInv == Init => Inv
<1> SUFFICES ASSUME Init PROVE Inv OBVIOUS
<1>1. \A p \in Procs :
        /\ proc[p].pc = "idle" /\ proc[p].cmd = "up" /\ proc[p].plan = {}
        /\ proc[p] \in Process
  <2>1. Idle \in Process /\ Idle.pc = "idle" /\ Idle.cmd = "up" /\ Idle.plan = {}
    BY DEF Idle, Process
  <2> QED BY <2>1 DEF Init
<1>2. TypeOK
  <2>1. proc \in [Procs -> Process] BY <1>1 DEF Init
  <2> QED BY <2>1 DEF Init, TypeOK
<1>3. PlanOK BY <1>1 DEF PlanOK
<1>4. LockOK /\ UpOK BY <1>1 DEF LockOK, UpOK, Ups, Working
<1> QED BY <1>2, <1>3, <1>4 DEF Inv

\* Goes moves one process and leaves the others where they are.
LEMMA GoesMoves ==
  ASSUME proc \in [Procs -> Process], NEW p \in Procs,
         NEW pc \in {"locking", "counting", "looking", "migrating"},
         NEW plan \in SUBSET Versions, Goes(p, pc, plan)
  PROVE  /\ proc' \in [Procs -> Process]
         /\ proc'[p].pc = pc /\ proc'[p].plan = plan
         /\ proc'[p].cmd = proc[p].cmd /\ proc'[p].step = proc[p].step
         /\ \A q \in Procs \ {p} : proc'[q] = proc[q]
<1> DEFINE P == [proc[p] EXCEPT !.pc = pc, !.plan = plan]
<1>1. proc' = [proc EXCEPT ![p] = P] BY DEF Goes
<1>2. proc[p] \in Process OBVIOUS
<1>3. /\ P \in Process /\ P.pc = pc /\ P.plan = plan
      /\ P.cmd = proc[p].cmd /\ P.step = proc[p].step
  BY <1>2 DEF Process
<1> HIDE DEF P
<1> QED BY <1>1, <1>3

LEMMA StepInv == ASSUME Inv, [Next]_vars PROVE Inv'
<1> USE DEF Inv, TypeOK, Process, Unguarded
<1> USE KnownType, MigrationsAssumption
<1>1. ASSUME NEW p \in Procs, StartUp(p) PROVE Inv'
  <2> DEFINE I == [pc |-> "locking", cmd |-> "up", step |-> 0, plan |-> Known[p]]
  <2>1. proc' = [proc EXCEPT ![p] = I] /\ UNCHANGED <<applied, holder, lost, outdated>>
    BY <1>1 DEF StartUp
  <2>2. /\ I \in Process /\ I.pc = "locking" /\ I.cmd = "up"
        /\ I.plan = Known[p]
    OBVIOUS
  <2> HIDE DEF Process, I
  <2>3. TypeOK' BY <2>1, <2>2
  <2>4. \A q \in Procs : proc'[q] = IF q = p THEN I ELSE proc[q] BY <2>1
  <2>5. PlanOK' BY <2>2, <2>4 DEF PlanOK
  <2>6. LockOK' BY <2>1, <2>2, <2>4 DEF LockOK, Working
  <2>7. UpOK' BY <2>1, <2>2, <2>4 DEF UpOK, Ups, Working
  <2> QED BY <2>3, <2>5, <2>6, <2>7
<1>2. ASSUME NEW p \in Procs, NEW step \in Steps, StartDown(p, step) PROVE Inv'
  BY <1>2 DEF StartDown, PlanOK, LockOK, UpOK, Ups, Working
<1>3. ASSUME NEW p \in Procs, Acquire(p) PROVE Inv'
  <2> DEFINE pc2 == IF proc[p].cmd = "up" THEN "looking" ELSE "counting"
  <2>1. /\ proc[p].pc = "locking" /\ holder = NoProc /\ holder' = p
        /\ UNCHANGED <<applied, lost, outdated>> /\ Goes(p, pc2, proc[p].plan)
    BY <1>3 DEF Acquire, HasLock
  <2>2. /\ proc'[p].pc = pc2 /\ proc'[p].cmd = proc[p].cmd
        /\ proc'[p].plan = proc[p].plan /\ proc'[p].step = proc[p].step
        /\ \A q \in Procs \ {p} : proc'[q] = proc[q]
        /\ proc' \in [Procs -> Process]
    BY <2>1, GoesMoves
  <2> HIDE DEF Process, pc2
  <2>3. TypeOK'
    <3>1. applied' \subseteq Versions /\ lost' \in BOOLEAN /\ outdated' \subseteq Procs
      BY <2>1
    <3>2. holder' \in Procs \union {NoProc} BY <2>1
    <3> QED BY <2>2, <3>1, <3>2
  <2> USE DEF pc2
  <2>4. PlanOK'
    <3>1. proc[p].cmd \in {"up", "down"} BY DEF Process
    <3> QED BY <2>2, <3>1 DEF PlanOK
  <2>5. LockOK' BY <2>1, <2>2 DEF LockOK, Working
  <2>6. UpOK' BY <2>1, <2>2 DEF UpOK, PlanOK, Ups, Working
  <2> QED BY <2>3, <2>4, <2>5, <2>6
<1>4. ASSUME NEW p \in Procs, Count(p) PROVE Inv'
  <2> DEFINE V == Victims(Known[p], Cardinality(applied), proc[p].step)
  <2>1. V \subseteq Known[p] BY DEF Victims, Newest, Oldest
  <2> HIDE DEF V
  <2>2. Goes(p, "looking", V) /\ UNCHANGED <<applied, holder, lost, outdated>>
        /\ proc[p].pc = "counting"
    BY <1>4 DEF Count, V
  <2>3. /\ proc'[p].pc = "looking" /\ proc'[p].cmd = proc[p].cmd
        /\ proc'[p].plan = V /\ proc'[p].step = proc[p].step
        /\ \A q \in Procs \ {p} : proc'[q] = proc[q]
        /\ proc' \in [Procs -> Process]
    BY <2>1, <2>2, GoesMoves
  <2> HIDE DEF Process
  <2>4. TypeOK' BY <2>2, <2>3
  <2>5. PlanOK' BY <2>1, <2>2, <2>3 DEF PlanOK
  <2>6. LockOK' BY <2>2, <2>3 DEF LockOK, Working
  <2>7. UpOK' BY <2>2, <2>3 DEF UpOK, PlanOK, Ups, Working
  <2> QED BY <2>4, <2>5, <2>6, <2>7
<1>5. ASSUME NEW p \in Procs, NEW v \in Versions, UpSkips(p, v) PROVE Inv'
  <2>1. /\ Goes(p, "looking", proc[p].plan \ {v})
        /\ UNCHANGED <<applied, holder, lost, outdated>>
        /\ proc[p].pc = "looking" /\ v \in applied
    BY <1>5 DEF UpSkips
  <2>2. /\ proc'[p].pc = "looking" /\ proc'[p].cmd = proc[p].cmd
        /\ proc'[p].plan = proc[p].plan \ {v} /\ proc'[p].step = proc[p].step
        /\ \A q \in Procs \ {p} : proc'[q] = proc[q]
        /\ proc' \in [Procs -> Process]
    BY <2>1, GoesMoves
  <2> HIDE DEF Process
  <2>3. TypeOK' BY <2>1, <2>2
  <2>4. PlanOK' BY <2>1, <2>2 DEF PlanOK
  <2>5. LockOK' BY <2>1, <2>2 DEF LockOK, Working
  <2>6. UpOK' BY <2>1, <2>2 DEF UpOK, Ups, Working
  <2> QED BY <2>3, <2>4, <2>5, <2>6
<1>6. ASSUME NEW p \in Procs, NEW v \in Versions, Begin(p, v) PROVE Inv'
  <2>1. /\ Goes(p, "migrating", proc[p].plan)
        /\ UNCHANGED <<applied, holder, lost, outdated>>
        /\ proc[p].pc = "looking"
    BY <1>6 DEF Begin
  <2>2. /\ proc'[p].pc = "migrating" /\ proc'[p].cmd = proc[p].cmd
        /\ proc'[p].plan = proc[p].plan /\ proc'[p].step = proc[p].step
        /\ \A q \in Procs \ {p} : proc'[q] = proc[q]
        /\ proc' \in [Procs -> Process]
    BY <2>1, GoesMoves
  <2> HIDE DEF Process
  <2>3. TypeOK' BY <2>1, <2>2
  <2>4. PlanOK' BY <2>1, <2>2 DEF PlanOK
  <2>5. LockOK' BY <2>1, <2>2 DEF LockOK, Working
  <2>6. UpOK' BY <2>1, <2>2 DEF UpOK, Ups, Working
  <2> QED BY <2>3, <2>4, <2>5, <2>6
<1>7. ASSUME NEW p \in Procs, NEW v \in Versions, Commit(p, v) PROVE Inv'
  <2>1. /\ Goes(p, "looking", proc[p].plan \ {v})
        /\ UNCHANGED <<holder, lost>>
        /\ outdated' = IF proc[p].cmd = "up" THEN outdated ELSE Overtaken(p)
        /\ proc[p].pc = "migrating"
        /\ applied' = IF proc[p].cmd = "up" THEN applied \union {v}
                                            ELSE applied \ {v}
    BY <1>7 DEF Commit
  <2>2. /\ proc'[p].pc = "looking" /\ proc'[p].cmd = proc[p].cmd
        /\ proc'[p].plan = proc[p].plan \ {v} /\ proc'[p].step = proc[p].step
        /\ \A q \in Procs \ {p} : proc'[q] = proc[q]
        /\ proc' \in [Procs -> Process]
    BY <2>1, GoesMoves
  <2> HIDE DEF Process
  <2>3. TypeOK' BY <2>1, <2>2 DEF Overtaken
  <2>4. PlanOK' BY <2>1, <2>2 DEF PlanOK
  <2>5. LockOK' BY <2>1, <2>2 DEF LockOK, Working
  <2>6. UpOK'
    <3> SUFFICES ASSUME NEW q \in Procs, Ups(q)', ~ Unguarded(q)'
                 PROVE  Known[q] \ proc'[q].plan \subseteq applied'
      BY DEF UpOK
    <3>1. outdated \subseteq outdated' /\ ~ Unguarded(q)
      BY <2>1 DEF Overtaken
    <3>2. CASE q = p BY <2>1, <2>2, <3>1, <3>2 DEF UpOK, Ups, Working
    <3>3. CASE q # p
      <4>1. Ups(q) /\ Working(q) /\ Working(p) /\ proc'[q] = proc[q]
        BY <2>1, <2>2, <3>3 DEF Ups, Working
      <4>2. lost BY <3>3, <4>1 DEF LockOK
      <4>3. q \notin outdated' BY <2>1, <4>2
      <4>4. proc[q] # Idle BY <4>1 DEF Working, Idle
      <4>5. proc[p].cmd = "up" BY <2>1, <3>3, <4>3, <4>4 DEF Overtaken
      <4> QED BY <2>1, <3>1, <4>1, <4>5 DEF UpOK
    <3> QED BY <3>2, <3>3
  <2> QED BY <2>3, <2>4, <2>5, <2>6
<1>8. ASSUME NEW p \in Procs, Finish(p) \/ Stop(p) PROVE Inv'
  <2>1. /\ proc' = [proc EXCEPT ![p] = Idle] /\ holder' = Released(p)
        /\ UNCHANGED <<applied, lost>> /\ outdated' = outdated \ {p}
    BY <1>8 DEF Finish, Stop
  <2>2. Idle \in Process /\ Idle.pc = "idle" /\ Idle.cmd = "up" /\ Idle.plan = {}
    BY DEF Idle
  <2> HIDE DEF Process
  <2>3. TypeOK' BY <2>1, <2>2 DEF Released
  <2>4. \A q \in Procs : proc'[q] = IF q = p THEN Idle ELSE proc[q]
    BY <2>1
  <2>5. PlanOK' BY <2>2, <2>4 DEF PlanOK
  <2>6. LockOK'
    <3> SUFFICES ASSUME ~ lost, NEW q \in Procs, Working(q)' PROVE holder' = q
      BY <2>1 DEF LockOK
    <3>1. q # p /\ Working(q) BY <2>2, <2>4 DEF Working
    <3>2. holder = q BY <3>1 DEF LockOK
    <3> QED BY <2>1, <3>1, <3>2 DEF Released
  <2>7. UpOK' BY <2>1, <2>2, <2>4 DEF UpOK, Ups, Working
  <2> QED BY <2>3, <2>5, <2>6, <2>7
<1>9. ASSUME LoseLock PROVE Inv'
  <2>1. lost' /\ holder' = NoProc /\ UNCHANGED <<applied, proc, outdated>>
    BY <1>9 DEF LoseLock
  <2> HIDE DEF Process
  <2>2. TypeOK' BY <2>1, <1>9 DEF LoseLock
  <2>3. PlanOK' BY <2>1 DEF PlanOK
  <2>4. LockOK' BY <2>1 DEF LockOK
  <2>5. UpOK' BY <2>1 DEF UpOK, Ups, Working
  <2> QED BY <2>2, <2>3, <2>4, <2>5
<1>10. ASSUME UNCHANGED vars PROVE Inv'
  BY <1>10 DEF vars, PlanOK, LockOK, UpOK, Ups, Working
<1> QED
  BY <1>1, <1>2, <1>3, <1>4, <1>5, <1>6, <1>7, <1>8, <1>9, <1>10
  DEF Next, Works

LEMMA InvHolds == Spec => []Inv
  BY InitInv, StepInv, PTL DEF Spec

\* The state of the migrators is always of the declared types.
THEOREM TypeCorrect == Spec => []TypeOK
<1>1. Inv => TypeOK BY DEF Inv
<1> QED BY <1>1, InvHolds, PTL

\* A successful up leaves nothing that its binary knows of pending, whatever
\* binaries migrate at the same time; a lost lock is not enough to change that.
THEOREM UpIsComplete == Spec => UpLeavesNothingPending
<1>1. ASSUME Inv
      PROVE  \A p \in Procs : Finish(p) /\ proc[p].cmd = "up"
               => Unguarded(p) \/ Pending(p) = {}
  BY <1>1 DEF Inv, UpOK, Ups, Working, Finish, Pending
<1> QED BY <1>1, InvHolds, PTL DEF UpLeavesNothingPending

\* What an up applies stands on every older migration that its binary knows.
THEOREM AppliedInOrder == Spec => AppliesInOrder
<1>1. ASSUME Inv, NEW p \in Procs, NEW v \in Versions, Commit(p, v),
             proc[p].cmd = "up", ~ Unguarded(p), NEW u \in Known[p], u < v
      PROVE  u \in applied
  <2>1. Known[p] \ proc[p].plan \subseteq applied
    BY <1>1 DEF Inv, UpOK, Ups, Working, Commit
  <2>2. u \in Nat /\ v \in Nat BY <1>1, KnownType, MigrationsAssumption
  <2>3. u # v /\ ~ (v < u) BY <1>1, <2>2
  <2>4. u \notin proc[p].plan BY <1>1, <2>3 DEF Commit, IsNext
  <2> QED BY <2>1, <2>4
<1>2. Inv => \A p \in Procs, v \in Versions : Commit(p, v) /\ proc[p].cmd = "up" =>
               Unguarded(p) \/ \A u \in Known[p] : u < v => u \in applied
  BY <1>1
<1> QED BY <1>2, InvHolds, PTL DEF AppliesInOrder

\* What a down found when it looked holds until another down commits.
LookOK ==
  \A p \in Procs :
    proc[p].cmd = "down" /\ proc[p].pc \in {"locking", "counting"}
      => Pending(p) = {} \/ p \in outdated

LEMMA StepLook == ASSUME Inv, LookOK, [Next]_vars PROVE LookOK'
<1> USE DEF LookOK, Pending
<1>0. proc \in [Procs -> Process] BY DEF Inv, TypeOK
<1>1. ASSUME NEW p \in Procs, StartUp(p) \/ Finish(p) \/ Stop(p) PROVE LookOK'
  <2>1. \A q \in Procs : proc'[q].cmd = "down" => q # p /\ proc'[q] = proc[q]
    BY <1>0, <1>1 DEF StartUp, Finish, Stop, Idle
  <2>2. UNCHANGED applied /\ outdated' \in {outdated, outdated \ {p}}
    BY <1>1 DEF StartUp, Finish, Stop
  <2> QED BY <2>1, <2>2
<1>2. ASSUME NEW p \in Procs, NEW step \in Steps, StartDown(p, step)
      PROVE  LookOK'
  <2>1. \A q \in Procs \ {p} : proc'[q] = proc[q] BY <1>0, <1>2 DEF StartDown
  <2>2. /\ Known[p] \ applied = {} /\ applied' = applied
        /\ outdated' = outdated
    BY <1>2 DEF StartDown
  <2> QED BY <2>1, <2>2
<1>3. ASSUME NEW p \in Procs, Acquire(p) PROVE LookOK'
  <2>1. /\ \A q \in Procs \ {p} : proc'[q] = proc[q]
        /\ proc'[p].cmd = proc[p].cmd /\ proc[p].pc = "locking"
    BY <1>0, <1>3 DEF Acquire, HasLock, Goes, Process
  <2>2. UNCHANGED <<applied, outdated>> BY <1>3 DEF Acquire
  <2> QED BY <2>1, <2>2
<1>4. ASSUME NEW p \in Procs, NEW v \in Versions,
             UpSkips(p, v) \/ Begin(p, v)
      PROVE  LookOK'
  <2>1. /\ \A q \in Procs \ {p} : proc'[q] = proc[q]
        /\ proc'[p].pc \in {"looking", "migrating"}
    BY <1>0, <1>4 DEF UpSkips, Begin, Goes, Process
  <2>2. UNCHANGED <<applied, outdated>> BY <1>4 DEF UpSkips, Begin
  <2> QED BY <2>1, <2>2
<1>5. ASSUME NEW p \in Procs, NEW v \in Versions, Commit(p, v) PROVE LookOK'
  <2>1. /\ \A q \in Procs \ {p} : proc'[q] = proc[q]
        /\ proc'[p].pc = "looking"
    BY <1>0, <1>5 DEF Commit, Goes, Process
  <2>2. \/ applied' = applied \union {v} /\ outdated' = outdated
        \/ outdated' = Overtaken(p)
    BY <1>5 DEF Commit
  <2>3. \A q \in Procs : proc[q].cmd = "down" => proc[q] # Idle BY DEF Idle
  <2> QED BY <2>1, <2>2, <2>3 DEF Overtaken
<1>6. ASSUME NEW p \in Procs, Count(p) PROVE LookOK'
  <2>1. /\ \A q \in Procs \ {p} : proc'[q] = proc[q]
        /\ proc'[p].pc = "looking"
    BY <1>0, <1>6 DEF Count, Goes, Process
  <2> QED BY <1>6, <2>1 DEF Count
<1>7. ASSUME LoseLock \/ UNCHANGED vars PROVE LookOK'
  BY <1>7 DEF LoseLock, vars
<1> QED
  BY <1>1, <1>2, <1>3, <1>4, <1>5, <1>6, <1>7 DEF Next, Works

\* A down that runs with something pending was overtaken by another down: no
\* half-finished up is ever rolled back over.
THEOREM DownSeesPending == Spec => RunsWithPendingOnlyBehindADown
<1>1. Init => LookOK BY DEF Init, LookOK, Idle
<1>2. ASSUME Inv, LookOK
      PROVE  \A p \in Procs : Count(p) => Pending(p) = {} \/ p \in outdated
  BY <1>2 DEF LookOK, Inv, PlanOK, Count
<1> QED
  BY <1>1, <1>2, StepLook, InvHolds, PTL
  DEF Spec, RunsWithPendingOnlyBehindADown

-------------------------------------------------------------------------------
\* What a down plans stays a slice of what is applied.
LEMMA InitSlice == Init => SliceInv
<1> SUFFICES ASSUME Init PROVE SliceInv OBVIOUS
<1>1. Inv BY InitInv
<1>2. \A p \in Procs : proc[p].pc = "idle" BY DEF Init, Idle
<1>3. DownOK BY <1>2 DEF DownOK, Downs
<1> QED BY <1>1, <1>3 DEF SliceInv

\* While the lock is kept, a process that works is alone in it.
LEMMA Alone ==
  ASSUME Inv, ~ lost, NEW p \in Procs, NEW q \in Procs, Working(p), Working(q)
  PROVE  p = q
  BY DEF Inv, LockOK

\* A step that leaves what is applied alone, and brings no down nearer to a
\* migration, keeps the slices.
LEMMA SliceFrame ==
  ASSUME DownOK, UNCHANGED <<applied, lost>>,
         \A q \in Procs : Downs(q)' => Downs(q) /\ proc'[q].plan = proc[q].plan
  PROVE  DownOK'
  BY DEF DownOK

\* The transaction of a down takes the newest of its slice.
LEMMA DownCommit ==
  ASSUME SliceInv, ~ lost,
         NEW p \in Procs, NEW v \in Versions, Commit(p, v), proc[p].cmd = "down"
  PROVE  /\ Sliced(proc[p].plan \ {v}, applied \ {v}, Known[p])
         /\ InOrder(p) => IsNewestOf(v, Mine(p))
         /\ ~ InOrder(p) /\ applied \subseteq Known[p] => ~ IsNewestOf(v, Mine(p))
<1>1. /\ applied \in SUBSET Versions /\ Known[p] \in SUBSET Versions
      /\ proc[p].plan \in SUBSET Known[p]
  BY KnownType DEF SliceInv, Inv, TypeOK, PlanOK
<1>2. /\ v \in proc[p].plan /\ v \in applied
      /\ \A u \in proc[p].plan \ {v} : u < v
  BY DEF Commit, IsNext
<1>3. Sliced(proc[p].plan, applied, Known[p])
  BY DEF SliceInv, DownOK, Downs, Commit
<1>4. InOrder(p) <=> Ordered(applied, Known[p]) BY DEF InOrder, Mine, Ordered
<1> QED BY <1>1, <1>2, <1>3, <1>4, SliceStep DEF Mine

LEMMA StepSlice == ASSUME SliceInv, [Next]_vars PROVE SliceInv'
<1>0. Inv /\ Inv' /\ DownOK BY StepInv DEF SliceInv
<1> SUFFICES DownOK' BY <1>0 DEF SliceInv
<1>a. proc \in [Procs -> Process] BY <1>0 DEF Inv, TypeOK
<1>1. ASSUME NEW p \in Procs, StartUp(p) PROVE DownOK'
  <2>1. \A q \in Procs : Downs(q)' => q # p /\ proc'[q] = proc[q]
    BY <1>1, <1>a DEF StartUp, Downs
  <2>2. UNCHANGED <<applied, lost>> BY <1>1 DEF StartUp
  <2> QED BY <1>0, <2>1, <2>2, SliceFrame DEF Downs
<1>2. ASSUME NEW p \in Procs, NEW step \in Steps, StartDown(p, step)
      PROVE  DownOK'
  <2>1. \A q \in Procs : Downs(q)' => q # p /\ proc'[q] = proc[q]
    BY <1>2, <1>a DEF StartDown, Downs
  <2>2. UNCHANGED <<applied, lost>> BY <1>2 DEF StartDown
  <2> QED BY <1>0, <2>1, <2>2, SliceFrame DEF Downs
<1>3. ASSUME NEW p \in Procs, Acquire(p) PROVE DownOK'
  <2>1. \A q \in Procs : Downs(q)' => q # p /\ proc'[q] = proc[q]
    BY <1>3, <1>a DEF Acquire, HasLock, Goes, Downs
  <2>2. UNCHANGED <<applied, lost>> BY <1>3 DEF Acquire
  <2> QED BY <1>0, <2>1, <2>2, SliceFrame DEF Downs
<1>4. ASSUME NEW p \in Procs, Count(p) PROVE DownOK'
  <2> DEFINE V == Victims(Known[p], Cardinality(applied), proc[p].step)
  <2>1. /\ UNCHANGED <<applied, lost>> /\ proc[p].pc = "counting"
        /\ Goes(p, "looking", V)
    BY <1>4 DEF Count
  <2>2. V \in SUBSET Versions BY KnownType DEF Victims, Newest, Oldest
  <2>3. Sliced(V, applied, Known[p])
    <3>1. applied \in SUBSET Versions /\ Known[p] \in SUBSET Versions
      BY <1>0, KnownType DEF Inv, TypeOK
    <3>2. proc[p].step \in Nat
      BY <1>0, <2>1, MigrationsAssumption DEF Inv, PlanOK
    <3> QED BY <3>1, <3>2, VictimsSliced
  <2> HIDE DEF V
  <2>4. /\ proc'[p].plan = V
        /\ \A q \in Procs \ {p} : proc'[q] = proc[q]
    BY <2>1, <2>2, <1>a, GoesMoves
  <2> SUFFICES ASSUME ~ lost, NEW q \in Procs, Downs(q)'
               PROVE  Sliced(proc'[q].plan, applied', Known[q])
    BY <2>1 DEF DownOK
  <2>5. CASE q = p BY <2>1, <2>3, <2>4, <2>5
  <2>6. CASE q # p
    <3>1. proc'[q] = proc[q] /\ Downs(q) BY <2>4, <2>6 DEF Downs
    <3> QED BY <1>0, <2>1, <3>1 DEF DownOK
  <2> QED BY <2>5, <2>6
<1>5. ASSUME NEW p \in Procs, NEW v \in Versions, UpSkips(p, v) PROVE DownOK'
  <2>1. \A q \in Procs : Downs(q)' => q # p /\ proc'[q] = proc[q]
    BY <1>5, <1>a DEF UpSkips, Goes, Downs, Process
  <2>2. UNCHANGED <<applied, lost>> BY <1>5 DEF UpSkips
  <2> QED BY <1>0, <2>1, <2>2, SliceFrame DEF Downs
<1>6. ASSUME NEW p \in Procs, NEW v \in Versions, Begin(p, v) PROVE DownOK'
  <2>1. /\ UNCHANGED <<applied, lost>> /\ proc[p].pc = "looking"
        /\ Goes(p, "migrating", proc[p].plan)
    BY <1>6 DEF Begin
  <2>2. /\ proc'[p].plan = proc[p].plan /\ proc'[p].cmd = proc[p].cmd
        /\ \A q \in Procs \ {p} : proc'[q] = proc[q]
    <3>1. proc[p].plan \in SUBSET Versions BY <1>a DEF Process
    <3> QED BY <1>a, <2>1, <3>1, GoesMoves
  <2> QED BY <1>0, <2>1, <2>2, SliceFrame DEF Downs
<1>7. ASSUME NEW p \in Procs, NEW v \in Versions, Commit(p, v) PROVE DownOK'
  <2>1. /\ UNCHANGED lost /\ Working(p)
        /\ Goes(p, "looking", proc[p].plan \ {v})
        /\ proc[p].cmd = "down" => applied' = applied \ {v}
    BY <1>7 DEF Commit, Working
  <2>2. /\ proc'[p].plan = proc[p].plan \ {v} /\ proc'[p].cmd = proc[p].cmd
        /\ \A q \in Procs \ {p} : proc'[q] = proc[q]
    <3>1. proc[p].plan \ {v} \in SUBSET Versions BY <1>a DEF Process
    <3> QED BY <1>a, <2>1, <3>1, GoesMoves
  <2> SUFFICES ASSUME ~ lost, NEW q \in Procs, Downs(q)'
               PROVE  Sliced(proc'[q].plan, applied', Known[q])
    BY <2>1 DEF DownOK
  <2>3. CASE q = p
    <3>1. proc[p].cmd = "down" BY <2>2, <2>3 DEF Downs
    <3> QED BY <1>7, <2>1, <2>2, <2>3, <3>1, DownCommit
  <2>4. CASE q # p
    <3>1. Working(q) BY <2>2, <2>4 DEF Downs, Working
    <3> QED BY <1>0, <2>1, <2>4, <3>1, Alone
  <2> QED BY <2>3, <2>4
<1>8. ASSUME NEW p \in Procs, Finish(p) \/ Stop(p) PROVE DownOK'
  <2>1. \A q \in Procs : Downs(q)' => q # p /\ proc'[q] = proc[q]
    BY <1>8, <1>a DEF Finish, Stop, Idle, Downs
  <2>2. UNCHANGED <<applied, lost>> BY <1>8 DEF Finish, Stop
  <2> QED BY <1>0, <2>1, <2>2, SliceFrame DEF Downs
<1>9. ASSUME LoseLock PROVE DownOK' BY <1>9 DEF LoseLock, DownOK
<1>10. ASSUME UNCHANGED vars PROVE DownOK'
  BY <1>0, <1>10, SliceFrame DEF vars, Downs
<1> QED
  BY <1>1, <1>2, <1>3, <1>4, <1>5, <1>6, <1>7, <1>8, <1>9, <1>10
  DEF Next, Works

\* Of the applied migrations its binary knows, a down takes the newest away,
\* also when it waited while others migrated, unless one behind them is pending;
\* and if it knows all that is applied, then never the newest: for any binaries,
\* merged in any order.
THEOREM NewestRolledBack == Spec => RollsBackNewest
<1> DEFINE Right(p, v) ==
      \/ lost
      \/ InOrder(p) /\ IsNewestOf(v, Mine(p))
      \/ ~ InOrder(p) /\ (applied \subseteq Known[p] => ~ IsNewestOf(v, Mine(p)))
<1>1. ASSUME SliceInv, NEW p \in Procs, NEW v \in Versions, Commit(p, v),
             proc[p].cmd = "down"
      PROVE  Right(p, v)
  BY <1>1, DownCommit
<1>2. SliceInv => \A p \in Procs, v \in Versions :
                    Commit(p, v) /\ proc[p].cmd = "down" => Right(p, v)
  <2> HIDE DEF Right
  <2> QED BY <1>1
<1> QED BY <1>2, InitSlice, StepSlice, PTL DEF Spec, RollsBackNewest

-------------------------------------------------------------------------------
\* Migrations implements Schema.

\* Who holds the lock works.
HolderWorks == holder # NoProc => Working(holder)

LEMMA HolderStep == ASSUME Inv, HolderWorks, [Next]_vars PROVE HolderWorks'
<1> USE DEF Inv, TypeOK, HolderWorks, Working
<1>1. ASSUME NEW p \in Procs, StartUp(p) PROVE HolderWorks'
  BY <1>1 DEF StartUp, Idle
<1>2. ASSUME NEW p \in Procs, NEW step \in Steps, StartDown(p, step) PROVE HolderWorks'
  BY <1>2 DEF StartDown, Idle
<1>3. ASSUME NEW p \in Procs, Acquire(p) PROVE HolderWorks'
  BY <1>3, MigrationsAssumption DEF Acquire, HasLock, Goes, Process
<1>4. ASSUME NEW p \in Procs, Count(p) PROVE HolderWorks'
  BY <1>4 DEF Count, Goes, Process
<1>5. ASSUME NEW p \in Procs, NEW v \in Versions,
             UpSkips(p, v) \/ Begin(p, v) \/ Commit(p, v)
      PROVE  HolderWorks'
  BY <1>5 DEF UpSkips, Begin, Commit, Goes, Process
<1>6. ASSUME NEW p \in Procs, Finish(p) \/ Stop(p) PROVE HolderWorks'
  BY <1>6 DEF Finish, Stop, Released
<1>7. ASSUME LoseLock PROVE HolderWorks' BY <1>7 DEF LoseLock
<1>8. ASSUME UNCHANGED vars PROVE HolderWorks' BY <1>8 DEF vars
<1> QED BY <1>1, <1>2, <1>3, <1>4, <1>5, <1>6, <1>7, <1>8 DEF Next, Works

\* The way of the one who has the turn, as Schema sees it.
Way == IF holder = NoProc THEN "none" ELSE proc[holder].cmd

\* One migration is one step of height.
LEMMA OneStep ==
  ASSUME TypeOK, NEW v \in Versions
  PROVE  /\ v \notin applied =>
              /\ Cardinality(applied \union {v}) = Cardinality(applied) + 1
              /\ Cardinality(applied) < Cardinality(Versions)
         /\ v \in applied =>
              /\ Cardinality(applied \ {v}) = Cardinality(applied) - 1
              /\ Cardinality(applied) > 0
<1>1. /\ IsFiniteSet(Versions) /\ IsFiniteSet(applied) /\ applied \subseteq Versions
      /\ Cardinality(applied) \in Nat /\ Cardinality(Versions) \in Nat
  BY MigrationsAssumption, FS_Subset, FS_CardinalityType DEF TypeOK
<1>2. ASSUME v \notin applied
      PROVE  /\ Cardinality(applied \union {v}) = Cardinality(applied) + 1
             /\ Cardinality(applied) < Cardinality(Versions)
  <2>1. Cardinality(applied \union {v}) = Cardinality(applied) + 1
    BY <1>1, <1>2, FS_AddElement
  <2>2. applied # Versions BY <1>2
  <2> QED BY <1>1, <2>1, <2>2, FS_Subset
<1>3. ASSUME v \in applied
      PROVE  /\ Cardinality(applied \ {v}) = Cardinality(applied) - 1
             /\ Cardinality(applied) > 0
  <2>1. Cardinality(applied \ {v}) = Cardinality(applied) - 1
    BY <1>1, <1>3, FS_RemoveElement
  <2>2. Cardinality(applied \ {v}) \in Nat
    BY <1>1, FS_Subset, FS_CardinalityType
  <2> QED BY <1>1, <2>1, <2>2
<1> QED BY <1>2, <1>3

LEMMA StepImplements ==
  ASSUME Inv, HolderWorks, [Next]_vars, ~ lost'
  PROVE  [Abstract!SNext]_(Abstract!svars)
<1> DEFINE same == UNCHANGED <<Cardinality(applied), Way>>
<1> USE DEF Inv, TypeOK
<1>1. ASSUME same PROVE Abstract!SNext \/ UNCHANGED Abstract!svars
  BY <1>1 DEF Abstract!svars, Way
<1>2. ASSUME NEW p \in Procs, NEW step \in Steps, StartDown(p, step) PROVE same
  <2>1. holder # p BY <1>2, MigrationsAssumption DEF HolderWorks, Working, StartDown, Idle
  <2>2. applied' = applied /\ holder' = holder BY <1>2 DEF StartDown
  <2>3. \A q \in Procs \ {p} : proc'[q] = proc[q] BY <1>2 DEF StartDown
  <2> QED BY <2>1, <2>2, <2>3 DEF Way
<1>3. ASSUME NEW p \in Procs, StartUp(p) PROVE same
  <2>1. holder # p BY <1>3, MigrationsAssumption DEF HolderWorks, Working, StartUp, Idle
  <2>2. applied' = applied /\ holder' = holder BY <1>3 DEF StartUp
  <2>3. \A q \in Procs \ {p} : proc'[q] = proc[q] BY <1>3 DEF StartUp
  <2> QED BY <2>1, <2>2, <2>3 DEF Way
<1>4. ASSUME NEW p \in Procs, Acquire(p) PROVE Abstract!SNext
  <2>1. Way = "none" /\ Way' = proc[p].cmd /\ applied' = applied
    BY <1>4, MigrationsAssumption DEF Way, Acquire, HasLock, Goes, Process
  <2>2. proc[p].cmd \in {"up", "down"} BY DEF Process
  <2> QED BY <2>1, <2>2 DEF Way, Abstract!SNext, Abstract!TakeTurn
<1>5. ASSUME NEW p \in Procs, NEW v \in Versions, UpSkips(p, v) \/ Begin(p, v)
      PROVE  same
  <2>1. applied' = applied /\ holder' = holder
    BY <1>5 DEF UpSkips, Begin
  <2>2. \A q \in Procs : proc'[q].cmd = proc[q].cmd
    BY <1>5 DEF UpSkips, Begin, Goes, Process
  <2> QED BY <2>1, <2>2 DEF Way
<1>6. ASSUME NEW p \in Procs, Count(p) PROVE same
  <2>1. applied' = applied /\ holder' = holder BY <1>6 DEF Count
  <2>2. \A q \in Procs : proc'[q].cmd = proc[q].cmd
    BY <1>6 DEF Count, Goes, Process
  <2> QED BY <2>1, <2>2 DEF Way
<1>7. ASSUME NEW p \in Procs, NEW v \in Versions, Commit(p, v) PROVE Abstract!SNext
  <2>1. holder = p /\ holder' = holder
    BY <1>7 DEF Commit, LockOK, Working
  <2>2. proc'[p].cmd = proc[p].cmd /\ proc[p].cmd \in {"up", "down"}
    BY <1>7 DEF Commit, Goes, Process
  <2>3. Way = proc[p].cmd /\ Way' = Way
    BY <2>1, <2>2, MigrationsAssumption DEF Way
  <2>4. CASE proc[p].cmd = "up"
    <3>1. v \notin applied /\ applied' = applied \union {v} BY <1>7, <2>4 DEF Commit
    <3>2. Abstract!Climb BY <2>3, <2>4, <3>1, OneStep DEF Abstract!Climb, Way
    <3> QED BY <3>2 DEF Abstract!SNext
  <2>5. CASE proc[p].cmd = "down"
    <3>1. v \in applied /\ applied' = applied \ {v} BY <1>7, <2>5 DEF Commit
    <3>2. Abstract!Fall BY <2>3, <2>5, <3>1, OneStep DEF Abstract!Fall, Way
    <3> QED BY <3>2 DEF Abstract!SNext
  <2> QED BY <2>2, <2>4, <2>5
<1>8. ASSUME NEW p \in Procs, Finish(p) \/ Stop(p) PROVE Abstract!SNext \/ same
  <2>1. applied' = applied /\ holder' = Released(p) BY <1>8 DEF Finish, Stop
  <2>2. CASE holder = p
    <3>1. proc[p].cmd # "none" BY DEF Process
    <3>2. Abstract!LeaveTurn BY <2>1, <2>2, <3>1, MigrationsAssumption DEF Abstract!LeaveTurn, Released
    <3> QED BY <3>2 DEF Abstract!SNext
  <2>3. CASE holder # p
    <3>1. \A q \in Procs \ {p} : proc'[q] = proc[q] BY <1>8 DEF Finish, Stop
    <3> QED BY <2>1, <2>3, <3>1 DEF Way, Released
  <2> QED BY <2>2, <2>3
<1>9. ASSUME LoseLock PROVE FALSE BY <1>9 DEF LoseLock
<1>10. ASSUME UNCHANGED vars PROVE same BY <1>10 DEF vars, Way
<1> HIDE DEF same
<1> QED BY <1>1, <1>2, <1>3, <1>4, <1>5, <1>6, <1>7, <1>8, <1>9, <1>10 DEF Next, Works

\* The advisory lock makes the migrators take turns, however they start, fail
\* and die: Up and Down, of any binaries, implement Schema until a lock is lost.
THEOREM MigrationsImplementSchema == Spec => ImplementsSchema
<1>1. Init => Abstract!SInit /\ HolderWorks
  BY FS_EmptySet DEF Init, Abstract!SInit, HolderWorks
<1>2. Inv /\ HolderWorks /\ [Next]_vars => HolderWorks'
  BY HolderStep
<1>3. Inv /\ HolderWorks /\ [Next]_vars => (lost' \/ [Abstract!SNext]_(Abstract!svars))
  BY StepImplements
<1> QED BY <1>1, <1>2, <1>3, InvHolds, PTL DEF Spec, ImplementsSchema
===============================================================================
