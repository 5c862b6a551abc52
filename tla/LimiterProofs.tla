---------------------------- MODULE LimiterProofs ----------------------------
(***************************************************************************)
(* Theorems about Limiter, for every limit, window and delay, and any      *)
(* addresses and attempts.                                                 *)
(***************************************************************************)
EXTENDS Limiter, TLAPS

\* How many of the last grants of its address an entry has let through.
Through(entry) ==
  IF entry = NoEntry THEN 0
  ELSE IF entry.count > Limit THEN Limit ELSE entry.count

\* The times of an address's grants up to the time t, in order.
TimesOK(times, t) ==
  /\ times \in Seq(0..MaxNow)
  /\ \A i \in DOMAIN times : times[i] <= t
  /\ \A i, j \in DOMAIN times : i <= j => times[i] <= times[j]

\* The entry let its last grants through, the first of them when it started or
\* as much later as that attempt had waited.
EntryOK(entry, times, t) ==
  entry # NoEntry =>
    /\ entry \in Entry
    /\ entry.started <= t
    /\ Through(entry) <= Len(times)
    /\ times[Len(times) - Through(entry) + 1] >= entry.started
    /\ times[Len(times) - Through(entry) + 1] <= entry.started + MaxDelay

\* Before the entry there was another one, of a limit's grants at most.  What
\* is older than all but the first of those is a window ago, but for the delay.
FarApart(entry, times, t) ==
  \A i \in DOMAIN times :
    i + Through(entry) + Limit <= Len(times) + 1
      => times[i] + Window <= t + MaxDelay

AddrOK(entry, times, t) ==
  /\ TimesOK(times, t)
  /\ EntryOK(entry, times, t)
  /\ FarApart(entry, times, t)

\* The clock was read at most MaxDelay ago by whoever waits for the mutex.
AttemptOK(att, t) ==
  att # NoAttempt =>
    /\ att \in Attempt
    /\ att.at <= t
    /\ att.pc = "counting" => t <= att.at + MaxDelay

Inv ==
  /\ now \in 0..MaxNow
  /\ windows \in [Addrs -> Entry \union {NoEntry}]
  /\ attempt \in [Attempts -> Attempt \union {NoAttempt}]
  /\ granted \in [Addrs -> Seq(0..MaxNow)]
  /\ \A a \in Addrs : AddrOK(windows[a], granted[a], now)
  /\ \A r \in Attempts : AttemptOK(attempt[r], now)
  /\ HashesBounded

-------------------------------------------------------------------------------
(***************************************************************************)
(* What time, a purge and a count do to one address.                       *)
(***************************************************************************)
LEMMA EntryFields ==
  ASSUME NEW entry \in Entry
  PROVE  /\ entry # NoEntry
         /\ entry.count \in Nat /\ entry.count >= 1 /\ entry.count <= Limit + 1
         /\ entry.started \in 0..MaxNow
         /\ Through(entry) \in 1..Limit
  BY LimiterAssumption, NothingAssumption DEF Entry, Through

LEMMA ThroughBounds ==
  ASSUME NEW entry \in Entry \union {NoEntry}
  PROVE  Through(entry) \in 0..Limit
  BY EntryFields, LimiterAssumption DEF Through

\* Nothing is lost as time passes.
LEMMA TimePasses ==
  ASSUME NEW entry \in Entry \union {NoEntry}, NEW times \in Seq(0..MaxNow),
         NEW t \in 0..MaxNow, NEW u \in 0..MaxNow, t <= u,
         AddrOK(entry, times, t)
  PROVE  AddrOK(entry, times, u)
  <1>1. \A i \in DOMAIN times : times[i] \in Nat
    BY LimiterAssumption
  <1>2. TimesOK(times, u)
    BY <1>1, LimiterAssumption DEF AddrOK, TimesOK
  <1>3. EntryOK(entry, times, u)
    BY EntryFields, LimiterAssumption DEF AddrOK, EntryOK
  <1>4. FarApart(entry, times, u)
    BY <1>1, LimiterAssumption DEF AddrOK, FarApart
  <1>5. QED
    BY <1>2, <1>3, <1>4 DEF AddrOK

\* An entry is purged when a window has passed since it started, and by then
\* all but the last of its grants are a window ago.
LEMMA PurgeKeeps ==
  ASSUME NEW entry \in Entry \union {NoEntry}, NEW times \in Seq(0..MaxNow),
         NEW t \in 0..MaxNow, NEW at \in 0..MaxNow, at <= t,
         AddrOK(entry, times, t)
  PROVE  AddrOK(IF Over(entry, at) THEN NoEntry ELSE entry, times, t)
  <1>1. CASE ~ Over(entry, at)
    BY <1>1
  <1>2. CASE Over(entry, at)
    <2>1. entry \in Entry /\ entry.started \in Nat /\ Through(entry) \in 1..Limit
      BY <1>2, EntryFields DEF Over
    <2>2. entry.started + Window <= t
      BY <1>2, <2>1, LimiterAssumption DEF Over
    <2> DEFINE first == Len(times) - Through(entry) + 1
    <2>3. /\ first \in DOMAIN times
          /\ times[first] <= entry.started + MaxDelay
      BY <2>1, EntryFields, LimiterAssumption DEF AddrOK, EntryOK
    <2>4. FarApart(NoEntry, times, t)
      <3> SUFFICES ASSUME NEW i \in DOMAIN times, i + Limit <= Len(times) + 1
                   PROVE  times[i] + Window <= t + MaxDelay
        BY LimiterAssumption DEF FarApart, Through
      <3>1. i <= first
        BY <2>1, LimiterAssumption
      <3>2. times[i] <= times[first]
        BY <2>3, <3>1 DEF AddrOK, TimesOK
      <3>3. times[i] \in Nat /\ times[first] \in Nat
        BY <2>3, LimiterAssumption
      <3> DEFINE u == times[i]
                 v == times[first]
                 s == entry.started
      <3>4. /\ u \in Nat /\ v \in Nat /\ s \in Nat /\ t \in Nat
            /\ Window \in Nat /\ MaxDelay \in Nat
            /\ u <= v /\ v <= s + MaxDelay /\ s + Window <= t
        <4>1. u \in Nat /\ v \in Nat /\ u <= v
          BY <3>2, <3>3
        <4>2. s \in Nat /\ s + Window <= t
          BY <2>1, <2>2
        <4>3. v <= s + MaxDelay
          BY <2>3
        <4> HIDE DEF first, u, v, s
        <4>4. QED
          BY <4>1, <4>2, <4>3, LimiterAssumption
      <3> HIDE DEF first, u, v, s
      <3>5. u + Window <= t + MaxDelay
        BY <3>4
      <3>6. QED
        BY <3>5 DEF u
    <2>5. QED
      BY <1>2, <2>4 DEF AddrOK, EntryOK
  <1>3. QED
    BY <1>1, <1>2

\* Counted, of the entry a purge leaves.
Recount(entry, at) ==
  IF entry = NoEntry THEN [count |-> 1, started |-> at]
  ELSE [entry EXCEPT !.count = OneMore(@)]

LEMMA CountedIsEntry ==
  ASSUME NEW entry \in Entry \union {NoEntry}, NEW at \in 0..MaxNow
  PROVE  Recount(entry, at) \in Entry
  BY EntryFields, LimiterAssumption DEF Recount, OneMore, Entry

Apart(times) ==
  \A i, j \in DOMAIN times :
    j = i + 2 * Limit => times[j] + MaxDelay >= times[i] + Window

\* One more grant, by an attempt that read the clock at `at'.
LEMMA GrantKeeps ==
  ASSUME NEW entry \in Entry \union {NoEntry}, NEW times \in Seq(0..MaxNow),
         NEW t \in 0..MaxNow, NEW at \in 0..MaxNow, at <= t, t <= at + MaxDelay,
         AddrOK(entry, times, t), Apart(times),
         Recount(entry, at).count <= Limit
  PROVE  /\ AddrOK(Recount(entry, at), Append(times, t), t)
         /\ Apart(Append(times, t))
  <1> DEFINE new == Recount(entry, at)
             more == Append(times, t)
             n == Len(times)
  <1>1. /\ n \in Nat /\ Len(more) = n + 1 /\ more[n + 1] = t
        /\ more \in Seq(0..MaxNow)
        /\ \A i \in 1..n : more[i] = times[i] /\ times[i] \in 0..MaxNow
        /\ DOMAIN more = 1..(n + 1) /\ DOMAIN times = 1..n
    <2>1. n \in Nat /\ DOMAIN times = 1..n /\ Len(more) = n + 1
      OBVIOUS
    <2>2. ASSUME NEW i \in 1..n
          PROVE  times[i] \in 0..MaxNow /\ more[i] = times[i]
      <3>1. times[i] \in 0..MaxNow
        BY <2>1, LimiterAssumption
      <3>2. more[i] = times[i]
        BY <2>1
      <3>3. QED
        BY <3>1, <3>2
    <2>3. more \in Seq(0..MaxNow) /\ more[n + 1] = t
      OBVIOUS
    <2>4. DOMAIN more = 1..(n + 1)
      BY <2>1, <2>3
    <2>5. QED
      BY <2>1, <2>2, <2>3, <2>4
  <1>2. new \in Entry
    BY CountedIsEntry
  <1>3. TimesOK(more, t)
    <2>1. \A i \in 1..n : times[i] <= t
      BY <1>1 DEF AddrOK, TimesOK
    <2>2. \A i, j \in 1..n : i <= j => times[i] <= times[j]
      BY <1>1 DEF AddrOK, TimesOK
    <2> HIDE DEF more, n
    <2>3. QED
      BY <1>1, <2>1, <2>2, LimiterAssumption DEF TimesOK
  <1>4. /\ Through(new) = Through(entry) + 1
        /\ Through(entry) \in Nat /\ Through(entry) < Limit
        /\ new.started \in Nat
        /\ entry = NoEntry => new.started = at /\ Through(entry) = 0
        /\ entry # NoEntry => /\ new.started = entry.started
                              /\ entry \in Entry
    <2>1. CASE entry = NoEntry
      <3>1. new = [count |-> 1, started |-> at]
        BY <2>1 DEF Recount
      <3>2. new # NoEntry
        BY <1>2, EntryFields
      <3> HIDE DEF new
      <3>3. QED
        BY <2>1, <3>1, <3>2, LimiterAssumption DEF Through
    <2>2. CASE entry # NoEntry
      <3>1. /\ entry \in Entry /\ entry.count \in Nat /\ entry.count >= 1
            /\ entry.started \in Nat
        BY <2>2, EntryFields, LimiterAssumption
      <3>2. new = [entry EXCEPT !.count = OneMore(@)]
        BY <2>2 DEF Recount
      <3>3. new.count = OneMore(entry.count) /\ new.started = entry.started
        BY <3>1, <3>2 DEF Entry
      <3>4. new # NoEntry
        BY <1>2, EntryFields
      <3>5. new.count <= Limit
        OBVIOUS
      <3> HIDE DEF new
      <3>6. QED
        BY <2>2, <3>1, <3>3, <3>4, <3>5, LimiterAssumption DEF Through, OneMore
    <2>3. QED
      BY <2>1, <2>2
  <1>5. EntryOK(new, more, t)
    <2> DEFINE p == Len(more) - Through(new) + 1
    <2> HIDE DEF new, more, n, p
    <2>1. CASE entry = NoEntry
      <3>1. p = n + 1 /\ Through(new) <= Len(more)
        BY <1>1, <1>4, <2>1 DEF p
      <3>2. more[p] = t /\ new.started = at
        BY <1>1, <1>4, <2>1, <3>1
      <3>3. more[p] >= new.started /\ more[p] <= new.started + MaxDelay
        BY <3>2
      <3>4. QED
        BY <1>2, <3>1, <3>2, <3>3 DEF EntryOK, p
    <2>2. CASE entry # NoEntry
      <3>1. Through(entry) >= 1 /\ entry \in Entry
        BY <1>4, <2>2, EntryFields
      <3>2. /\ entry.started <= t
            /\ Through(entry) <= n
            /\ times[n - Through(entry) + 1] >= entry.started
            /\ times[n - Through(entry) + 1] <= entry.started + MaxDelay
        BY <2>2 DEF AddrOK, EntryOK, n
      <3>3. p = n - Through(entry) + 1 /\ p \in 1..n /\ Through(new) <= Len(more)
        BY <1>1, <1>4, <3>1, <3>2 DEF p
      <3>4. more[p] = times[n - Through(entry) + 1] /\ new.started = entry.started
        BY <1>1, <1>4, <2>2, <3>3
      <3>5. more[p] >= new.started /\ more[p] <= new.started + MaxDelay
        BY <3>2, <3>4
      <3>6. QED
        BY <1>2, <3>2, <3>3, <3>4, <3>5 DEF EntryOK, p
    <2>3. QED
      BY <2>1, <2>2
  <1>6. \A i \in 1..n : i + Through(entry) + Limit <= n + 1
                          => times[i] + Window <= t + MaxDelay
    BY <1>1 DEF AddrOK, FarApart
  <1> HIDE DEF new, more, n
  <1>a. \A i \in 1..n : more[i] = times[i]
    BY <1>1
  <1>b. \A i \in 1..n : times[i] \in Nat
    BY <1>1, LimiterAssumption
  <1>c. more[n + 1] = t
    BY <1>1
  <1>d. /\ Through(new) = Through(entry) + 1 /\ Len(more) = n + 1 /\ n \in Nat
        /\ Through(entry) \in Nat /\ Through(entry) < Limit
    BY <1>1, <1>4
  <1>7. FarApart(new, more, t)
    <2> SUFFICES ASSUME NEW i \in 1..(n + 1),
                        i + Through(new) + Limit <= Len(more) + 1
                 PROVE  more[i] + Window <= t + MaxDelay
      BY <1>1 DEF FarApart
    <2>1. i \in 1..n /\ i + Through(entry) + Limit <= n + 1
      BY <1>d, LimiterAssumption
    <2>2. times[i] + Window <= t + MaxDelay
      BY <1>6, <2>1
    <2>3. more[i] = times[i]
      BY <1>a, <2>1
    <2>4. QED
      BY <2>2, <2>3
  <1>8. Apart(more)
    <2> SUFFICES ASSUME NEW i \in 1..(n + 1), NEW j \in 1..(n + 1),
                        j = i + 2 * Limit
                 PROVE  more[j] + MaxDelay >= more[i] + Window
      BY <1>1 DEF Apart
    <2>1. i \in 1..n
      BY <1>1, LimiterAssumption
    <2>2. CASE j \in 1..n
      BY <1>1, <2>1, <2>2 DEF Apart
    <2>3. CASE j = n + 1
      <3>1. i + Through(entry) + Limit <= n + 1
        BY <1>d, <2>3, LimiterAssumption
      <3>2. times[i] + Window <= t + MaxDelay
        BY <1>6, <2>1, <3>1
      <3>3. more[i] = times[i] /\ more[j] = t /\ times[i] \in Nat
        BY <1>a, <1>b, <1>c, <2>1, <2>3
      <3>4. QED
        BY <3>2, <3>3, LimiterAssumption
    <2>4. QED
      BY <1>1, <2>2, <2>3
  <1>9. QED
    BY <1>3, <1>5, <1>7, <1>8 DEF AddrOK, new, more

\* A refusal: the entry has let through all it may, and within its window.
LEMMA RefusalKeeps ==
  ASSUME NEW entry \in Entry \union {NoEntry}, NEW times \in Seq(0..MaxNow),
         NEW t \in 0..MaxNow, NEW at \in 0..MaxNow,
         AddrOK(entry, times, t),
         Recount(entry, at).count > Limit
  PROVE  /\ entry \in Entry
         /\ Through(entry) = Limit
         /\ AddrOK(Recount(entry, at), times, t)
  <1>1. entry # NoEntry
    BY LimiterAssumption DEF Recount
  <1>2. entry \in Entry /\ entry.count >= Limit
    BY <1>1, EntryFields, LimiterAssumption DEF Recount, OneMore, Entry
  <1>3. /\ Recount(entry, at) \in Entry
        /\ Recount(entry, at).started = entry.started
        /\ Through(Recount(entry, at)) = Limit
        /\ Through(entry) = Limit
    BY <1>1, <1>2, CountedIsEntry, EntryFields, LimiterAssumption
       DEF Recount, OneMore, Through, Entry
  <1>4. QED
    BY <1>1, <1>2, <1>3 DEF AddrOK, EntryOK, FarApart

-------------------------------------------------------------------------------
(***************************************************************************)
(* The steps.                                                              *)
(***************************************************************************)
LEMMA BoundedIsApart ==
  HashesBounded <=> \A a \in Addrs : Apart(granted[a])
  BY DEF HashesBounded, Apart

\* What an attempt that holds the mutex finds and leaves, for every address.
LEMMA Counting ==
  ASSUME Inv, NEW r \in Attempts, At(r, "counting")
  PROVE  LET at == attempt[r].at
             a  == attempt[r].addr
         IN  /\ a \in Addrs /\ at \in 0..MaxNow
             /\ at <= now /\ now <= at + MaxDelay
             /\ Purged(at) \in [Addrs -> Entry \union {NoEntry}]
             /\ \A b \in Addrs : AddrOK(Purged(at)[b], granted[b], now)
             /\ CountedFor(r) = Recount(Purged(at)[a], at)
  <1> DEFINE at == attempt[r].at
             a  == attempt[r].addr
  <1>1. attempt[r] \in Attempt /\ AttemptOK(attempt[r], now)
    BY DEF Inv, At
  <1>2. a \in Addrs /\ at \in 0..MaxNow /\ at <= now /\ now <= at + MaxDelay
    BY <1>1 DEF AttemptOK, At, Attempt
  <1>3. Purged(at) \in [Addrs -> Entry \union {NoEntry}]
    BY DEF Inv, Purged
  <1>4. ASSUME NEW b \in Addrs
        PROVE  AddrOK(Purged(at)[b], granted[b], now)
    <2>1. /\ windows[b] \in Entry \union {NoEntry}
          /\ granted[b] \in Seq(0..MaxNow)
          /\ AddrOK(windows[b], granted[b], now)
          /\ now \in 0..MaxNow
      BY DEF Inv
    <2>2. Purged(at)[b] = IF Over(windows[b], at) THEN NoEntry ELSE windows[b]
      BY DEF Purged
    <2> HIDE DEF at
    <2>3. QED
      BY <1>2, <2>1, <2>2, PurgeKeeps
  <1>5. CountedFor(r) = Recount(Purged(at)[a], at)
    BY DEF CountedFor, Counted, Recount
  <1>6. QED
    BY <1>2, <1>3, <1>4, <1>5

\* A step that ends an attempt or moves it on past the mutex, at the same time.
LEMMA AttemptsKeep ==
  ASSUME Inv, NEW r \in Attempts, NEW next \in Attempt \union {NoAttempt},
         next # NoAttempt => next.at = attempt[r].at /\ next.pc # "counting"
                             /\ attempt[r] # NoAttempt,
         attempt' = [attempt EXCEPT ![r] = next]
  PROVE  /\ attempt' \in [Attempts -> Attempt \union {NoAttempt}]
         /\ \A q \in Attempts : AttemptOK(attempt'[q], now)
  BY DEF Inv, AttemptOK

LEMMA AllowKeeps ==
  ASSUME Inv, NEW r \in Attempts, Allow(r)
  PROVE  Inv'
  <1> DEFINE at == attempt[r].at
             a  == attempt[r].addr
             entry == Purged(at)[a]
             new == Recount(entry, at)
             more == Append(granted[a], now)
  <1>1. /\ a \in Addrs /\ at \in 0..MaxNow
        /\ at <= now /\ now <= at + MaxDelay
        /\ Purged(at) \in [Addrs -> Entry \union {NoEntry}]
        /\ \A b \in Addrs : AddrOK(Purged(at)[b], granted[b], now)
        /\ CountedFor(r) = new
    BY Counting DEF Allow
  <1>2. /\ windows' = [Purged(at) EXCEPT ![a] = new]
        /\ granted' = [granted EXCEPT ![a] = more]
        /\ attempt' = [attempt EXCEPT ![r].pc = "hashing"]
        /\ now' = now
        /\ new.count <= Limit
    BY <1>1 DEF Allow, Count, Goes
  <1>3. /\ now \in 0..MaxNow
        /\ granted \in [Addrs -> Seq(0..MaxNow)]
        /\ \A b \in Addrs : Apart(granted[b])
    BY BoundedIsApart DEF Inv
  <1>4. entry \in Entry \union {NoEntry} /\ granted[a] \in Seq(0..MaxNow)
    BY <1>1, <1>3
  <1>5. AddrOK(entry, granted[a], now)
    BY <1>1
  <1>6. new \in Entry
    BY <1>1, <1>4, CountedIsEntry
  <1>7. more \in Seq(0..MaxNow)
    BY <1>3, <1>4
  <1>8. AddrOK(new, more, now) /\ Apart(more)
    <2> HIDE DEF entry, at, a
    <2>1. QED
      BY <1>1, <1>2, <1>3, <1>4, <1>5, GrantKeeps
  <1>9. attempt[r] \in Attempt /\ AttemptOK(attempt[r], now)
    BY DEF Inv, Allow, At
  <1>10. /\ attempt' \in [Attempts -> Attempt \union {NoAttempt}]
         /\ \A q \in Attempts : AttemptOK(attempt'[q], now)
    <2> DEFINE next == [attempt[r] EXCEPT !.pc = "hashing"]
    <2>1. next \in Attempt /\ next.at = attempt[r].at /\ next.pc = "hashing"
      BY <1>9 DEF Attempt
    <2>2. attempt[r] # NoAttempt
      BY <1>9, NothingAssumption
    <2>3. attempt' = [attempt EXCEPT ![r] = next]
      BY <1>2
    <2> HIDE DEF next
    <2>4. QED
      BY <2>1, <2>2, <2>3, AttemptsKeep
  <1> HIDE DEF new, more, entry, at, a
  <1>11. \A b \in Addrs :
           /\ windows'[b] = IF b = a THEN new ELSE Purged(at)[b]
           /\ granted'[b] = IF b = a THEN more ELSE granted[b]
    BY <1>1, <1>2, <1>3
  <1>12. /\ windows' \in [Addrs -> Entry \union {NoEntry}]
         /\ granted' \in [Addrs -> Seq(0..MaxNow)]
    BY <1>1, <1>2, <1>3, <1>6, <1>7
  <1>13. \A b \in Addrs : AddrOK(windows'[b], granted'[b], now)
    BY <1>1, <1>8, <1>11
  <1>14. \A b \in Addrs : Apart(granted'[b])
    BY <1>3, <1>8, <1>11
  <1>15. HashesBounded'
    BY <1>14 DEF HashesBounded, Apart
  <1>16. QED
    BY <1>2, <1>3, <1>10, <1>12, <1>13, <1>15 DEF Inv

LEMMA RefuseKeeps ==
  ASSUME Inv, NEW r \in Attempts, Refuse(r)
  PROVE  Inv'
  <1> DEFINE at == attempt[r].at
             a  == attempt[r].addr
             entry == Purged(at)[a]
             new == Recount(entry, at)
  <1>1. /\ a \in Addrs /\ at \in 0..MaxNow
        /\ Purged(at) \in [Addrs -> Entry \union {NoEntry}]
        /\ \A b \in Addrs : AddrOK(Purged(at)[b], granted[b], now)
        /\ CountedFor(r) = new
    BY Counting DEF Refuse
  <1>2. /\ windows' = [Purged(at) EXCEPT ![a] = new]
        /\ attempt' = [attempt EXCEPT ![r] = NoAttempt]
        /\ now' = now /\ granted' = granted
        /\ new.count > Limit
    BY <1>1 DEF Refuse, Count, Ends
  <1>3. now \in 0..MaxNow /\ granted \in [Addrs -> Seq(0..MaxNow)]
    BY DEF Inv
  <1>4. entry \in Entry \union {NoEntry} /\ granted[a] \in Seq(0..MaxNow)
        /\ AddrOK(entry, granted[a], now)
    BY <1>1, <1>3
  <1>5. new \in Entry /\ AddrOK(new, granted[a], now)
    <2> HIDE DEF entry, at, a
    <2>1. QED
      BY <1>1, <1>2, <1>3, <1>4, RefusalKeeps, CountedIsEntry
  <1>6. /\ attempt' \in [Attempts -> Attempt \union {NoAttempt}]
        /\ \A q \in Attempts : AttemptOK(attempt'[q], now)
    BY <1>2, AttemptsKeep
  <1> HIDE DEF new, entry, at, a
  <1>7. \A b \in Addrs : windows'[b] = IF b = a THEN new ELSE Purged(at)[b]
    BY <1>1, <1>2
  <1>8. windows' \in [Addrs -> Entry \union {NoEntry}]
    BY <1>1, <1>2, <1>5
  <1>9. \A b \in Addrs : AddrOK(windows'[b], granted[b], now)
    BY <1>1, <1>5, <1>7
  <1>10. HashesBounded'
    BY <1>2 DEF Inv, HashesBounded
  <1>11. QED
    BY <1>2, <1>3, <1>6, <1>8, <1>9, <1>10 DEF Inv

\* Forgetting an address leaves nothing to be bounded.
LEMMA NothingGranted ==
  ASSUME NEW t \in 0..MaxNow
  PROVE  AddrOK(NoEntry, <<>>, t) /\ Apart(<<>>)
  BY DEF AddrOK, TimesOK, EntryOK, FarApart, Apart

LEMMA ResetKeeps ==
  ASSUME Inv, NEW r \in Attempts, Reset(r)
  PROVE  Inv'
  <1> DEFINE a == attempt[r].addr
  <1>1. a \in Addrs
    BY DEF Inv, Reset, At, Attempt
  <1>2. /\ windows' = [windows EXCEPT ![a] = NoEntry]
        /\ granted' = [granted EXCEPT ![a] = <<>>]
        /\ attempt' = [attempt EXCEPT ![r] = NoAttempt]
        /\ now' = now
    BY DEF Reset, Ends
  <1>3. /\ now \in 0..MaxNow
        /\ windows \in [Addrs -> Entry \union {NoEntry}]
        /\ granted \in [Addrs -> Seq(0..MaxNow)]
        /\ \A b \in Addrs : AddrOK(windows[b], granted[b], now)
        /\ \A b \in Addrs : Apart(granted[b])
    BY BoundedIsApart DEF Inv
  <1> HIDE DEF a
  <1>4. \A b \in Addrs : /\ windows'[b] = IF b = a THEN NoEntry ELSE windows[b]
                         /\ granted'[b] = IF b = a THEN <<>> ELSE granted[b]
    BY <1>1, <1>2, <1>3
  <1>5. \A b \in Addrs : AddrOK(windows'[b], granted'[b], now) /\ Apart(granted'[b])
    BY <1>3, <1>4, NothingGranted
  <1>6. HashesBounded'
    BY <1>5 DEF HashesBounded, Apart
  <1>7. /\ attempt' \in [Attempts -> Attempt \union {NoAttempt}]
        /\ \A q \in Attempts : AttemptOK(attempt'[q], now)
    BY <1>2, AttemptsKeep
  <1>8. /\ windows' \in [Addrs -> Entry \union {NoEntry}]
        /\ granted' \in [Addrs -> Seq(0..MaxNow)]
    BY <1>1, <1>2, <1>3
  <1>9. QED
    BY <1>2, <1>3, <1>5, <1>6, <1>7, <1>8 DEF Inv

\* Steps that touch neither the entries nor the clock.
LEMMA AttemptsOnly ==
  ASSUME Inv, UNCHANGED <<now, windows, granted>>,
         attempt' \in [Attempts -> Attempt \union {NoAttempt}],
         \A q \in Attempts : AttemptOK(attempt'[q], now)
  PROVE  Inv'
  BY DEF Inv, HashesBounded

LEMMA TickKeeps ==
  ASSUME Inv, Tick
  PROVE  Inv'
  <1>1. /\ now' = now + 1 /\ now' \in 0..MaxNow /\ now \in 0..MaxNow
        /\ UNCHANGED <<windows, attempt, granted>>
        /\ \A r \in Attempts : At(r, "counting") => now < attempt[r].at + MaxDelay
    BY LimiterAssumption DEF Tick, Inv
  <1>2. \A a \in Addrs : AddrOK(windows[a], granted[a], now')
    <2> TAKE a \in Addrs
    <2>1. /\ windows[a] \in Entry \union {NoEntry}
          /\ granted[a] \in Seq(0..MaxNow)
          /\ AddrOK(windows[a], granted[a], now)
      BY DEF Inv
    <2>2. now <= now'
      BY <1>1, LimiterAssumption
    <2>3. QED
      BY <1>1, <2>1, <2>2, TimePasses
  <1>3. \A r \in Attempts : AttemptOK(attempt[r], now')
    <2> TAKE r \in Attempts
    <2>1. AttemptOK(attempt[r], now)
      BY DEF Inv
    <2>2. QED
      BY <1>1, <2>1, LimiterAssumption DEF AttemptOK, At, Attempt
  <1>4. HashesBounded'
    BY <1>1 DEF Inv, HashesBounded
  <1>5. QED
    BY <1>1, <1>2, <1>3, <1>4 DEF Inv

LEMMA InitHolds == Init => Inv
  <1> SUFFICES ASSUME Init PROVE Inv
    OBVIOUS
  <1>1. now \in 0..MaxNow
    BY LimiterAssumption DEF Init
  <1>2. \A a \in Addrs : AddrOK(windows[a], granted[a], now) /\ Apart(granted[a])
    BY <1>1, NothingGranted DEF Init
  <1>3. \A r \in Attempts : AttemptOK(attempt[r], now)
    BY DEF Init, AttemptOK
  <1>4. QED
    BY <1>1, <1>2, <1>3, BoundedIsApart DEF Init, Inv

LEMMA NextKeeps == Inv /\ [Next]_vars => Inv'
  <1> SUFFICES ASSUME Inv, [Next]_vars PROVE Inv'
    OBVIOUS
  <1>1. ASSUME NEW r \in Attempts, NEW a \in Addrs, Post(r, a)
        PROVE  Inv'
    <2> DEFINE new == [pc |-> "counting", addr |-> a, at |-> now]
    <2>1. now \in 0..MaxNow /\ attempt \in [Attempts -> Attempt \union {NoAttempt}]
      BY DEF Inv
    <2>2. new \in Attempt /\ AttemptOK(new, now)
      BY <2>1, LimiterAssumption DEF Attempt, AttemptOK
    <2>3. attempt' = [attempt EXCEPT ![r] = new] /\ UNCHANGED <<now, windows, granted>>
      BY <1>1 DEF Post
    <2> HIDE DEF new
    <2>4. \A q \in Attempts : attempt'[q] = IF q = r THEN new ELSE attempt[q]
      BY <2>1, <2>3
    <2>5. \A q \in Attempts : AttemptOK(attempt'[q], now)
      BY <2>2, <2>4 DEF Inv
    <2>6. QED
      BY <2>1, <2>2, <2>3, <2>5, AttemptsOnly
  <1>2. ASSUME NEW r \in Attempts, HashFails(r)
        PROVE  Inv'
    BY <1>2, AttemptsKeep, AttemptsOnly DEF HashFails, Ends
  <1>3. ASSUME NEW r \in Attempts, HashMatches(r)
        PROVE  Inv'
    <2> DEFINE next == [attempt[r] EXCEPT !.pc = "resetting"]
    <2>1. attempt[r] \in Attempt /\ attempt[r] # NoAttempt
      BY <1>3 DEF HashMatches, At, Inv
    <2>2. next \in Attempt /\ next.at = attempt[r].at /\ next.pc = "resetting"
      BY <2>1 DEF Attempt
    <2>3. attempt' = [attempt EXCEPT ![r] = next] /\ UNCHANGED <<now, windows, granted>>
      BY <1>3 DEF HashMatches, Goes
    <2> HIDE DEF next
    <2>4. QED
      BY <2>1, <2>2, <2>3, AttemptsKeep, AttemptsOnly
  <1>4. ASSUME Restart
        PROVE  Inv'
    <2>1. now' = now /\ now \in 0..MaxNow
      BY <1>4 DEF Restart, Inv
    <2>2. \A a \in Addrs : AddrOK(windows'[a], granted'[a], now) /\ Apart(granted'[a])
      BY <1>4, <2>1, NothingGranted DEF Restart
    <2>3. HashesBounded'
      BY <2>2 DEF HashesBounded, Apart
    <2>4. \A r \in Attempts : AttemptOK(attempt'[r], now)
      BY <1>4 DEF Restart, AttemptOK
    <2>5. QED
      BY <1>4, <2>1, <2>2, <2>3, <2>4 DEF Restart, Inv
  <1>5. CASE UNCHANGED vars
    BY <1>5 DEF vars, Inv, HashesBounded
  <1>6. QED
    BY <1>1, <1>2, <1>3, <1>4, <1>5, AllowKeeps, RefuseKeeps, ResetKeeps, TickKeeps
       DEF Next

LEMMA InvHolds == Spec => []Inv
  BY InitHolds, NextKeeps, PTL DEF Spec

\* Every value the limiter and the login hold is of its type.
THEOREM TypeCorrect == Spec => []TypeOK
  <1>1. Inv => TypeOK
    BY DEF Inv, TypeOK
  <1>2. QED
    BY <1>1, InvHolds, PTL

\* However many attempts of however many addresses run at once, and whatever
\* each read from the clock, an address without a success reaches the hash no
\* more than twice the limit in a window less the delay.
THEOREM HashesAreBounded == Spec => []HashesBounded
  <1>1. Inv => HashesBounded
    BY DEF Inv
  <1>2. QED
    BY <1>1, InvHolds, PTL

\* An attempt is refused only when its address has reached the hash as often
\* as the limit says, since its last success and within a window.
THEOREM RefusedAtLimit == Spec => RefusedOnlyAtLimit
  <1>1. ASSUME Inv, NEW r \in Attempts, Refuse(r)
        PROVE  LET times == granted[attempt[r].addr]
               IN  /\ Len(times) >= Limit
                   /\ times[Len(times) - Limit + 1] + Window > attempt[r].at
    <2> DEFINE at == attempt[r].at
               a  == attempt[r].addr
               entry == Purged(at)[a]
               times == granted[a]
    <2>1. /\ a \in Addrs /\ at \in 0..MaxNow
          /\ entry \in Entry \union {NoEntry}
          /\ AddrOK(entry, times, now)
          /\ Recount(entry, at).count > Limit
      BY <1>1, Counting DEF Refuse
    <2>2. now \in 0..MaxNow /\ times \in Seq(0..MaxNow)
      BY <1>1, <2>1 DEF Inv
    <2>3. entry \in Entry /\ Through(entry) = Limit
      <3> HIDE DEF entry, at, times
      <3>1. QED
        BY <2>1, <2>2, RefusalKeeps
    <2>4. at < entry.started + Window
      <3>1. entry # NoEntry /\ entry.started \in Nat
        BY <2>3, EntryFields
      <3>2. entry = windows[a] /\ ~ Over(windows[a], at)
        BY <2>1, <3>1 DEF Purged
      <3>3. QED
        BY <2>1, <3>1, <3>2, LimiterAssumption DEF Over
    <2> HIDE DEF entry, times, at, a
    <2>5. /\ Len(times) >= Limit
          /\ times[Len(times) - Limit + 1] >= entry.started
      BY <2>1, <2>3, EntryFields, LimiterAssumption DEF AddrOK, EntryOK
    <2>6. times[Len(times) - Limit + 1] \in Nat /\ entry.started \in Nat
      <3>1. Len(times) - Limit + 1 \in DOMAIN times
        BY <2>2, <2>5, LimiterAssumption
      <3>2. QED
        BY <2>2, <2>3, <3>1, EntryFields, LimiterAssumption
    <2>7. times[Len(times) - Limit + 1] + Window > at
      BY <2>1, <2>4, <2>5, <2>6, LimiterAssumption
    <2>8. QED
      BY <2>5, <2>7 DEF times, at, a
  <1>2. Inv /\ [Next]_vars => [\A r \in Attempts : Refuse(r) =>
            LET times == granted[attempt[r].addr]
            IN  /\ Len(times) >= Limit
                /\ times[Len(times) - Limit + 1] + Window > attempt[r].at]_vars
    BY <1>1
  <1>3. QED
    BY <1>2, InvHolds, PTL DEF Spec, RefusedOnlyAtLimit
=============================================================================
