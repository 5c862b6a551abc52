------------------------------- MODULE Limiter -------------------------------
(***************************************************************************)
(* POST /admin/login of internal/admin/auth.go, and the limiter of         *)
(* ratelimit.go that stands in front of the password hash.  Every attempt  *)
(* is a goroutine of its own.  The limiter's mutex makes `allow' and       *)
(* `reset' one action each, but the clock `allow' goes by is read before   *)
(* the mutex is taken, and between the two lies the hash.                  *)
(*                                                                         *)
(* `granted' only records history, for the properties.  A slip is a        *)
(* mistake the definition after it could have had.                         *)
(***************************************************************************)
EXTENDS Naturals, Sequences

CONSTANTS
  Addrs,      \* clientIP: what attempts are counted under
  Attempts,   \* goroutines: how many attempts may be in flight together
  Limit,      \* admin.login_attempts
  Window,     \* admin.login_window, in ticks
  MaxDelay,   \* how long an attempt may wait for the mutex
  NoEntry,    \* the limiter has no entry for this address
  NoAttempt,  \* no request is served here
  MaxNow      \* where the clock of the model stops

ASSUME LimiterAssumption ==
  /\ Limit \in Nat \ {0}
  /\ Window \in Nat \ {0}
  /\ MaxDelay \in Nat
  /\ MaxNow \in Nat

VARIABLES
  now,      \* the clock
  windows,  \* limiter.windows
  attempt,  \* the logins in flight
  granted   \* when each address was let through to the hash, since its reset

vars == <<now, windows, attempt, granted>>

\* A count past the limit is as good as any other.
Entry   == [count : 1..(Limit + 1), started : 0..MaxNow]
Attempt ==
  [pc   : {"counting", "hashing", "resetting"},
   addr : Addrs,
   at   : 0..MaxNow]  \* the clock when allow read it

ASSUME NothingAssumption == NoEntry \notin Entry /\ NoAttempt \notin Attempt

TypeOK ==
  /\ now \in 0..MaxNow
  /\ windows \in [Addrs -> Entry \union {NoEntry}]
  /\ attempt \in [Attempts -> Attempt \union {NoAttempt}]
  /\ granted \in [Addrs -> Seq(0..MaxNow)]

Init ==
  /\ now = 0
  /\ windows = [a \in Addrs |-> NoEntry]
  /\ attempt = [r \in Attempts |-> NoAttempt]
  /\ granted = [a \in Addrs |-> <<>>]

-------------------------------------------------------------------------------
\* Helpers.

At(r, pc) == attempt[r] # NoAttempt /\ attempt[r].pc = pc
Goes(r, pc) == attempt' = [attempt EXCEPT ![r].pc = pc]
Ends(r) == attempt' = [attempt EXCEPT ![r] = NoAttempt]

\* Slip: a window ends a tick early.
OverTooSoon(entry, at) == entry # NoEntry /\ at + 1 >= entry.started + Window

\* An attempt that read the clock at `at' drops every entry whose window is
\* over by then.  An entry that started later is running.
Over(entry, at) == entry # NoEntry /\ at >= entry.started + Window
Purged(at) ==
  [a \in Addrs |-> IF Over(windows[a], at) THEN NoEntry ELSE windows[a]]

OneMore(count) == IF count > Limit THEN count ELSE count + 1

\* Slips: the first attempt of a window is not counted; each one, the refused
\* too, starts the window again.
CountedFromZero(a, at) ==
  IF Purged(at)[a] = NoEntry THEN [count |-> 0, started |-> at]
  ELSE [Purged(at)[a] EXCEPT !.count = OneMore(@)]
CountedSliding(a, at) ==
  IF Purged(at)[a] = NoEntry THEN [count |-> 1, started |-> at]
  ELSE [Purged(at)[a] EXCEPT !.count = OneMore(@), !.started = at]

\* The entry of address a once an attempt has been counted.
Counted(a, at) ==
  IF Purged(at)[a] = NoEntry THEN [count |-> 1, started |-> at]
  ELSE [Purged(at)[a] EXCEPT !.count = OneMore(@)]

CountedFor(r) == Counted(attempt[r].addr, attempt[r].at)

-------------------------------------------------------------------------------
\* The clock is read here, the mutex taken in Allow or Refuse.
Post(r, a) ==
  /\ attempt[r] = NoAttempt
  /\ attempt' = [attempt EXCEPT ![r] =
                   [pc |-> "counting", addr |-> a, at |-> now]]
  /\ UNCHANGED <<now, windows, granted>>

Count(r) ==
  windows' = [Purged(attempt[r].at) EXCEPT ![attempt[r].addr] = CountedFor(r)]

Allow(r) ==
  /\ At(r, "counting")
  /\ CountedFor(r).count <= Limit
  /\ Count(r)
  /\ Goes(r, "hashing")
  /\ granted' = [granted EXCEPT ![attempt[r].addr] = Append(@, now)]
  /\ UNCHANGED now

\* 429, with the password unread.
Refuse(r) ==
  /\ At(r, "counting")
  /\ CountedFor(r).count > Limit
  /\ Count(r)
  /\ Ends(r)
  /\ UNCHANGED <<now, granted>>

\* 401: the password is wrong, or the configured hash unusable.
HashFails(r) ==
  /\ At(r, "hashing")
  /\ Ends(r)
  /\ UNCHANGED <<now, windows, granted>>

HashMatches(r) ==
  /\ At(r, "hashing")
  /\ Goes(r, "resetting")
  /\ UNCHANGED <<now, windows, granted>>

\* The address is forgotten, with the attempts of it that are still hashed.
Reset(r) ==
  /\ At(r, "resetting")
  /\ windows' = [windows EXCEPT ![attempt[r].addr] = NoEntry]
  /\ granted' = [granted EXCEPT ![attempt[r].addr] = <<>>]
  /\ Ends(r)
  /\ UNCHANGED now

\* A new process starts with no counters.
Restart ==
  /\ windows' = [a \in Addrs |-> NoEntry]
  /\ attempt' = [r \in Attempts |-> NoAttempt]
  /\ granted' = [a \in Addrs |-> <<>>]
  /\ UNCHANGED now

\* Nobody waits for the mutex for more than MaxDelay.
Tick ==
  /\ now < MaxNow
  /\ \A r \in Attempts : At(r, "counting") => now < attempt[r].at + MaxDelay
  /\ now' = now + 1
  /\ UNCHANGED <<windows, attempt, granted>>

Next ==
  \/ \E r \in Attempts, a \in Addrs : Post(r, a)
  \/ \E r \in Attempts :
       \/ Allow(r) \/ Refuse(r) \/ HashFails(r) \/ HashMatches(r) \/ Reset(r)
  \/ Restart
  \/ Tick

Spec == Init /\ [][Next]_vars

-------------------------------------------------------------------------------
(***************************************************************************)
(* Properties.                                                             *)
(***************************************************************************)

\* What the limiter is for (ADR 0015): a hash is expensive.  Until one of its
\* attempts succeeds, an address is let through to no more than two windows'
\* worth of them in a period as long as a window, less what the readings of
\* the clock are late by.
HashesBounded ==
  \A a \in Addrs : \A i, j \in DOMAIN granted[a] :
    j = i + 2 * Limit => granted[a][j] + MaxDelay >= granted[a][i] + Window

\* And no attempt is refused on account of another address, of attempts from
\* before a success, of attempts that were refused, or of a window ago.
RefusedOnlyAtLimit ==
  [][\A r \in Attempts : Refuse(r) =>
       LET times == granted[attempt[r].addr]
       IN  /\ Len(times) >= Limit
           /\ times[Len(times) - Limit + 1] + Window > attempt[r].at]_vars
=============================================================================
