----------------------------- MODULE RateLimit -----------------------------
(***************************************************************************)
(* The limits on authentication attempts (internal/features/auth/ratelimit *)
(* and allowAuthAttempt of its transport).  An attempt is counted for its  *)
(* address and then for its account, in a table of the process or in       *)
(* Redis; a counter lives for one window from its first attempt.           *)
(***************************************************************************)
EXTENDS Integers, FiniteSets

CONSTANTS Addresses, Accounts,
          Requests,      \* attempts in progress at a time
          AddressLimit, AccountLimit,
          Window,        \* Rule.Window, in ticks
          MaxKeys,       \* MemoryMaxKeys
          MaxTime        \* bound: the clock

Keys == Addresses \cup Accounts

RateLimitAssumption ==
  /\ IsFiniteSet(Keys) /\ Addresses \cap Accounts = {}
  /\ {AddressLimit, AccountLimit, Window, MaxKeys} \subseteq Nat \ {0}
  /\ MaxTime \in Nat

VARIABLES store,         \* which store the process is configured with
          now,
          entries,       \* count and expiry of each key; a key with count 0 is not stored
          request,       \* each attempt in progress: its address was allowed
          watched,       \* any key: the one whose history is kept
          allowed        \* history variable: how often it was allowed so many ticks ago

vars == <<store, now, entries, request, watched, allowed>>

----------------------------------------------------------------------------
(* State *)

Ages == 0 .. Window - 1
Absent == [count |-> 0, expiresAt |-> 0]
Limit(k) == IF k \in Accounts THEN AccountLimit ELSE AddressLimit

Init ==
  /\ store \in {"memory", "redis"}
  /\ now = 0
  /\ entries = [k \in Keys |-> Absent]
  /\ request = [q \in Requests |-> "idle"]
  /\ watched \in Keys
  /\ allowed = [t \in Ages |-> 0]

----------------------------------------------------------------------------
(* Counting *)

Stored == {k \in Keys : entries[k].count > 0}
Live(k) == entries[k].count > 0 /\ now < entries[k].expiresAt

\* The table is full, and k is not in it.
AtCapacity(k) == store = "memory" /\ k \notin Stored /\ Cardinality(Stored) >= MaxKeys

\* A plausible bug, never used here: a full table is emptied.
KeptNone(k) == IF AtCapacity(k) THEN {} ELSE Stored

\* The keys whose entries survive the search for room.  Redis drops what has expired by itself.
Kept(k) == IF AtCapacity(k) \/ store = "redis" THEN {j \in Stored : Live(j)} ELSE Stored

\* Whether memoryStore.Increment returns errMemoryCapacity.
NoRoom(k) == AtCapacity(k) /\ Cardinality(Kept(k)) >= MaxKeys

\* The entry after one more attempt: INCR, and PEXPIRE when the counter is new.  Counts over the
\* limit are all one.
Incremented(k) ==
  IF Live(k) THEN [entries[k] EXCEPT !.count = IF @ > Limit(k) THEN @ ELSE @ + 1]
             ELSE [count |-> 1, expiresAt |-> now + Window]

Increment(k) ==
  entries' = [j \in Keys |-> IF j = k THEN Incremented(k)
                             ELSE IF j \in Kept(k) THEN entries[j] ELSE Absent]

\* Limiter.Allow, for a request that goes on to next if allowed; the history follows the watched
\* key.
Allow(q, k, next) ==
  LET isAllowed == entries'[k].count <= Limit(k)
  IN /\ Increment(k)
     /\ request' = [request EXCEPT ![q] = IF isAllowed THEN next ELSE "idle"]
     /\ allowed' = IF isAllowed /\ k = watched THEN [allowed EXCEPT ![0] = @ + 1] ELSE allowed

\* 503: no room for a new key; the table has been purged.
Full(q, k) ==
  /\ NoRoom(k)
  /\ request' = [request EXCEPT ![q] = "idle"]
  /\ UNCHANGED <<entries, allowed>>

\* 503: the script may have run or not.
RedisFails(q, k) ==
  /\ store = "redis"
  /\ Increment(k) \/ UNCHANGED entries
  /\ request' = [request EXCEPT ![q] = "idle"]
  /\ UNCHANGED allowed

Count(q, k, next) ==
  /\ \/ ~ NoRoom(k) /\ Allow(q, k, next)
     \/ Full(q, k)
     \/ RedisFails(q, k)
  /\ UNCHANGED <<store, now, watched>>

----------------------------------------------------------------------------
(* allowAuthAttempt *)

\* The address first.  Some operations have no limit for the account.
CountAddress(q) ==
  /\ request[q] = "idle"
  /\ \E k \in Addresses, next \in {"idle", "account"} : Count(q, k, next)

CountAccount(q) ==
  /\ request[q] = "account"
  /\ \E k \in Accounts : Count(q, k, "idle")

Tick ==
  /\ now < MaxTime
  /\ now' = now + 1
  /\ allowed' = [t \in Ages |-> IF t = 0 THEN 0 ELSE allowed[t - 1]]
  /\ UNCHANGED <<store, entries, request, watched>>

Next == Tick \/ \E q \in Requests : CountAddress(q) \/ CountAccount(q)

Spec == Init /\ [][Next]_vars

----------------------------------------------------------------------------
(* Properties *)

\* How often the watched key was allowed in the last n ticks.
AllowedWithin[n \in 0 .. Window] == IF n = 0 THEN 0 ELSE AllowedWithin[n - 1] + allowed[n - 1]

\* However attempts from several addresses interleave, and whatever the table forgets when it is
\* full, no stretch of time as long as a window sees twice the limit: the attempt that opens a
\* window and the window that follows never lie in the same stretch.
BurstBelowTwice == AllowedWithin[Window] <= 2 * Limit(watched) - 1
=============================================================================
