------------------------------ MODULE Limiters ------------------------------
(***************************************************************************)
(* The three rate limiters: loginLimiter (a sliding window per address and *)
(* name), rateLimiter (a token bucket per user of the gateway) and         *)
(* configTake (a fixed window per user of a plugin's configuration).  Each *)
(* is one critical section over a table of its own; `limiter` says which   *)
(* of them a behaviour is about.                                           *)
(*                                                                         *)
(* Time is counted in ticks.  The bucket reads the clock before it takes   *)
(* its lock, so calls come to it with readings that are out of order;      *)
(* tokens are counted in parts of 1/Minute, of which a tick adds Rate.     *)
(* What a limiter lets through is kept in `log`, from which an evicted key *)
(* is removed: eviction is meant to give the budget of the oldest key away *)
(* (C-2), and in the login limiter only its: the log remembers a victim    *)
(* whose calls do not begin before everybody else's.  The calls are        *)
(* numbered, and the slice of times that the login limiter keeps for a key *)
(* is the set of these calls.                                              *)
(***************************************************************************)
EXTENDS Integers, FiniteSets

CONSTANTS Key, Caller, NoKey,
          MaxEntries,    \* maxEntries and max: the rows of a table
          MaxAttempts, Window, Sweep,    \* the login limiter
          Rate, Minute, Hour,            \* the bucket
          Delay,         \* how long a caller waits for the bucket's lock
          Limit, Span,   \* configRateLimit and rateWindow
          MaxTime, MaxCalls

ASSUME LimitersAssumption ==
  /\ {MaxEntries, MaxAttempts, Rate, Minute, Limit} \subseteq Nat \ {0}
  /\ {Window, Sweep, Hour, Delay, Span, MaxTime, MaxCalls} \subseteq Nat
  /\ Hour + 1 >= Minute + 2 * Delay
  /\ NoKey \notin Key

VARIABLES limiter, now,
          table,      \* function on the keys that have an entry
          lastSweep,
          reading,    \* what each caller of the bucket read before its lock
          log,        \* history: [key, at, no] of the calls let through
          calls,      \* history: how many there were
          refused     \* history: the key of the call that was just refused
limiterVars == <<limiter, now, table, lastSweep, reading, log, calls, refused>>

NoReading == [key |-> NoKey, at |-> 0]
LimitersInit ==
  /\ limiter \in {"login", "bucket", "config"}
  /\ now = 0 /\ table = <<>> /\ log = {} /\ calls = 0 /\ refused = NoKey
  /\ lastSweep = -Sweep    \* the zero time: the first call sweeps
  /\ reading = [c \in Caller |-> NoReading]

Least(a, b) == IF a < b THEN a ELSE b
Full(t) == Cardinality(DOMAIN t) >= MaxEntries
Without(t, S) == [k \in DOMAIN t \ S |-> t[k]]
Put(t, k, e) == [x \in DOMAIN t \cup {k} |-> IF x = k THEN e ELSE t[x]]

\* Plausible bug, the twin of the next definition: the newest entry goes.
Newest(since) == {k \in DOMAIN since : \A x \in DOMAIN since : since[x] <= since[k]}

\* Which entry goes when the table is full: one that is oldest, in any order
\* of the map's iteration.
Oldest(since) == {k \in DOMAIN since : \A x \in DOMAIN since : since[k] <= since[x]}

\* The call that is let through at `at`.  Those of a key that loses its entry
\* are forgotten.
Call(k, at) == [key |-> k, at |-> at, no |-> calls + 1]
PassedEvicting(k, at, victim) ==
  /\ calls < MaxCalls /\ calls' = calls + 1
  /\ log' = {e \in log : e.key # victim} \cup {Call(k, at)}
  /\ refused' = NoKey
Passed(k, at) == PassedEvicting(k, at, NoKey)
Refused(k) == UNCHANGED <<log, calls>> /\ refused' = k

\* The calls of k let through at a clock reading in from..to.
Within(k, from, to) == {e \in log : e.key = k /\ e.at \in from..to}
CallsOf(k, from, to) == Cardinality(Within(k, from, to))

\* "evict the key with the oldest window start": of everybody else's calls in
\* the window, none is older than the first of k's.
OldestInLog(k) ==
  \A x \in Key \ {k} : \A e \in Within(x, now - Window + 1, now) :
    \E f \in log : f.key = k /\ f.at <= e.at
Forgotten(v) == IF OldestInLog(v) THEN v ELSE NoKey

-----------------------------------------------------------------------------
(* Plausible bugs, each the twin of a definition below; see UploadQueue.   *)

\* An attempt counts a tick longer than the window.
KeptTooLong(ts) == {e \in ts : e.at >= now - Window}

-----------------------------------------------------------------------------
\* loginLimiter.allow.
Kept(ts) == {e \in ts : e.at > now - Window}
Swept(t) == IF now - lastSweep < Sweep THEN t
            ELSE [k \in {x \in DOMAIN t : Kept(t[x]) # {}} |-> Kept(t[k])]
Recent(t, k) == IF k \in DOMAIN t THEN Kept(t[k]) ELSE {}

\* ts[0]: calls are appended in the order of time.
Earliest(ts) == CHOOSE t \in 0..now : /\ \E e \in ts : e.at = t
                                      /\ \A e \in ts : t <= e.at

LoginAllow(k) ==
  /\ limiter = "login"
  /\ lastSweep' = IF now - lastSweep < Sweep THEN lastSweep ELSE now
  /\ LET t == Swept(table)
         kept == Recent(t, k)
         used == Cardinality(kept)
     IN \/ /\ used >= MaxAttempts
           /\ table' = Put(t, k, kept)
           /\ Refused(k)
        \/ /\ used < MaxAttempts
           /\ k \in DOMAIN t \/ ~Full(t)
           /\ table' = Put(t, k, kept \cup {Call(k, now)})
           /\ Passed(k, now)
        \/ /\ used < MaxAttempts /\ k \notin DOMAIN t /\ Full(t)
           /\ \E v \in Oldest([x \in DOMAIN t |-> Earliest(t[x])]) :
                /\ table' = Put(Without(t, {v}), k, kept \cup {Call(k, now)})
                /\ PassedEvicting(k, now, Forgotten(v))
  /\ UNCHANGED <<limiter, now, reading>>

-----------------------------------------------------------------------------
\* rateLimiter.allow: time.Now(), then the lock.
ReadClock(c, k) ==
  /\ limiter = "bucket" /\ reading[c] = NoReading
  /\ reading' = [reading EXCEPT ![c] = [key |-> k, at |-> now]]
  /\ UNCHANGED <<limiter, now, table, lastSweep, log, calls, refused>>

\* A full table first loses the buckets that were idle for an hour.
Pruned(at) == IF ~Full(table) THEN table
              ELSE Without(table,
                           {x \in DOMAIN table : at - table[x].last > Hour})

NewBucket(at) == [tokens |-> Rate * Minute, last |-> at]
Refill(b, at) ==
  [tokens |-> Least(Rate * Minute, b.tokens + (at - b.last) * Rate),
   last |-> at]
Spend(b) == [b EXCEPT !.tokens = @ - Minute]

BucketAllow(c) ==
  /\ reading[c] # NoReading
  /\ LET k == reading[c].key
         at == reading[c].at
         t == Pruned(at)
         b == Refill(IF k \in DOMAIN t THEN t[k] ELSE NewBucket(at), at)
     IN \/ /\ b.tokens < Minute
           /\ table' = Put(t, k, b)
           /\ Refused(k)
        \/ /\ b.tokens >= Minute
           /\ k \in DOMAIN t \/ ~Full(t)
           /\ table' = Put(t, k, Spend(b))
           /\ Passed(k, at)
        \/ /\ b.tokens >= Minute /\ k \notin DOMAIN t /\ Full(t)
           /\ \E v \in Oldest([x \in DOMAIN t |-> t[x].last]) :
                /\ table' = Put(Without(t, {v}), k, Spend(b))
                /\ PassedEvicting(k, at, v)
  /\ reading' = [reading EXCEPT ![c] = NoReading]
  /\ UNCHANGED <<limiter, now, lastSweep>>

-----------------------------------------------------------------------------
\* configTake: entries of windows long over are removed on every call.
Current(t, k) == k \in DOMAIN t /\ now - t[k].start <= Span

ConfigTake(k) ==
  /\ limiter = "config"
  /\ LET t == Without(table,
                      {x \in DOMAIN table : now - table[x].start > 2 * Span})
     IN \/ /\ Current(t, k) /\ t[k].count >= Limit
           /\ table' = t
           /\ Refused(k)
        \/ /\ Current(t, k) /\ t[k].count < Limit
           /\ table' = [t EXCEPT ![k].count = @ + 1]
           /\ Passed(k, now)
        \/ /\ ~Current(t, k)
           /\ table' = Put(t, k, [start |-> now, count |-> 1])
           /\ Passed(k, now)
  /\ UNCHANGED <<limiter, now, lastSweep, reading>>

\* Time passes; nobody waits for the lock longer than Delay.
Tick ==
  /\ now < MaxTime
  /\ now' = now + 1
  /\ \A c \in Caller : reading[c] = NoReading \/ now' - reading[c].at <= Delay
  /\ refused' = NoKey
  /\ UNCHANGED <<limiter, table, lastSweep, reading, log, calls>>

LimitersNext == \/ \E k \in Key : LoginAllow(k) \/ ConfigTake(k)
                \/ \E c \in Caller : \/ BucketAllow(c)
                                     \/ \E k \in Key : ReadClock(c, k)
                \/ Tick

LimitersSpec == LimitersInit /\ [][LimitersNext]_limiterVars

-----------------------------------------------------------------------------
(* "maxAttempts per window" (loginLimiter), over sweeps, refusals and      *)
(* evictions: no window of that length holds more, unless the key was the  *)
(* oldest when the table was full.                                         *)
LoginBudget ==
  limiter = "login" => \A k \in Key, t \in 0..now :
    CallsOf(k, t - Window + 1, t) <= MaxAttempts

(* "rate is tokens per minute" (rateLimiter.allow): whatever the order in  *)
(* which concurrent calls get the lock, and although buckets are thrown    *)
(* away when the table is full, the calls with a clock reading in any      *)
(* interval are no more than a full bucket and what drips in meanwhile.    *)
BucketBudget ==
  limiter = "bucket" =>
    \A k \in Key : \A from \in 0..now : \A to \in from..now :
      CallsOf(k, from, to) * Minute <= Rate * Minute + (to - from) * Rate

(* configTake: at most twice the limit in any window, the end of a window  *)
(* and the beginning of the next.                                          *)
ConfigBudget ==
  limiter = "config" => \A k \in Key, t \in 0..now :
    CallsOf(k, t - Span, t) <= 2 * Limit

(* C-2, L19: a full table refuses nobody; only who has used his budget is  *)
(* refused.                                                                *)
RefusalsAreEarned ==
  refused # NoKey =>
    \/ /\ limiter = "login"
       /\ CallsOf(refused, now - Window + 1, now) >= MaxAttempts
    \/ limiter = "bucket" /\ CallsOf(refused, 0, now) > 0
    \/ limiter = "config" /\ CallsOf(refused, now - Span, now) >= Limit

TablesAreBounded ==
  limiter # "config" => Cardinality(DOMAIN table) <= MaxEntries

LimitersHold == LoginBudget /\ BucketBudget /\ ConfigBudget /\ TablesAreBounded

(* What the proofs show to hold always, one limiter at a time.  Login: what*)
(* the entry of a key keeps are its calls in the window, and some older.   *)
LimitersTypeOK ==
  /\ limiter \in {"login", "bucket", "config"}
  /\ now \in Nat /\ calls \in Nat /\ lastSweep \in Int
  /\ IsFiniteSet(log) /\ log \subseteq [key : Key, at : 0..now, no : 1..calls]
  /\ refused \in Key \cup {NoKey}
  /\ DOMAIN table \subseteq Key /\ IsFiniteSet(DOMAIN table)
  /\ reading \in [Caller -> [key : Key \cup {NoKey}, at : 0..now]]
  /\ \A c \in Caller : reading[c] # NoReading =>
       limiter = "bucket" /\ reading[c].key \in Key /\ now - reading[c].at <= Delay
EntriesAreCalls(t) ==
  \A k \in DOMAIN t :
    t[k] # {} /\ \A e \in t[k] : e \in log /\ e.key = k /\ e.at \in 0..now
AttemptsAreKept ==
  limiter = "login" =>
    /\ EntriesAreCalls(table)
    /\ \A k \in Key : Recent(table, k) = Within(k, now - Window + 1, now)

(* Bucket: what drips in over a stretch of time that saw n calls is what   *)
(* they took and what is left, at most; no call is much later than the last*)
(* one that had the lock, so that a bucket is full again when it is thrown *)
(* away, even for who has read the clock before.                           *)
Dripped(k, from) == (Minute + table[k].last - from) * Rate
BucketsArePaid ==
  limiter = "bucket" =>
    /\ table \in [DOMAIN table -> [tokens : Int, last : 0..now]]
    /\ \A k \in DOMAIN table : \A from \in 0..now : \A to \in from..now :
         CallsOf(k, from, to) > 0 =>
           CallsOf(k, from, to) * Minute + table[k].tokens <= Dripped(k, from)
    /\ \A k \in DOMAIN table : Within(k, 0, now) # {}
    /\ \A e \in log : IF e.key \in DOMAIN table
                        THEN e.at <= table[e.key].last + Delay
                        ELSE e.at + Minute <= now - Delay

(* Config: an entry counts the calls of its window, the window before it   *)
(* held no more than the limit, and nobody was let through in between.     *)
WindowsAreCounted ==
  limiter = "config" =>
    /\ table \in [DOMAIN table -> [start : 0..now, count : 1..Limit]]
    /\ \A k \in DOMAIN table : LET start == table[k].start IN
         /\ CallsOf(k, start, now) = table[k].count
         /\ CallsOf(k, start - Span, start - 1) <= Limit
    /\ \A e \in log : IF e.key \in DOMAIN table
                        THEN e.at <= table[e.key].start + Span
                        ELSE e.at < now - Span

LimitersInv == /\ LimitersTypeOK
               /\ AttemptsAreKept /\ BucketsArePaid /\ WindowsAreCounted
               /\ LimitersHold /\ RefusalsAreEarned
=============================================================================
