---------------------------- MODULE RateLimiter ----------------------------
(***************************************************************************)
(* The token buckets that limit how often the pages of a host are asked    *)
(* for: the Lua script of the Redis limiter, and the limiter a worker keeps *)
(* in its own memory.  Time is counted in ticks (milliseconds in the code); *)
(* a bucket holds its age, the ticks since it was written, and not the time *)
(* of the write.  Tokens are counted in units, Unit of them to a request,   *)
(* so that a rate that is no whole number of requests stays exact.          *)
(***************************************************************************)
EXTENDS Integers

CONSTANTS
  Keys,            \* buckets: a job's configuration, a host and, in memory, a process
  InMemory,        \* those that a worker keeps in its own memory
  Unit,            \* units of one request
  Rate,            \* units that each bucket gains in a tick; 0: no rps is configured
  TicksPerSecond,
  TTL              \* ticks after which an unused bucket is forgotten

ASSUME LimiterAssumption ==
  /\ InMemory \subseteq Keys
  /\ Unit \in Nat \ {0}
  /\ Rate \in [Keys -> Nat]
  /\ TicksPerSecond \in Nat \ {0}
  /\ TTL \in Nat

VARIABLES
  bucket,   \* tokens and age of each bucket
  debt      \* history: the largest excess of admitted units over the rate, over all
            \* stretches of time that end now

limiterVars == <<bucket, debt>>

CeilDiv(a, b) == (a + b - 1) \div b

AtLeast(a, b) == IF a >= b THEN a ELSE b

AtMost(a, b) == IF a <= b THEN a ELSE b

\* math.max(1, math.ceil(refill_per_sec)) requests.
Capacity(k) == Unit * AtLeast(1, CeilDiv(Rate[k] * TicksPerSecond, Unit))

\* PEXPIRE has removed the hash; cleanupExpiredLocked removes a bucket later.
Forgotten(k) == IF k \in InMemory THEN bucket[k].age > TTL ELSE bucket[k].age >= TTL

\* A plausible bug: the tokens that a bucket gains are not limited.
RefilledWithoutLimit(k) ==
  IF Forgotten(k) THEN Capacity(k) ELSE bucket[k].tokens + bucket[k].age * Rate[k]

\* The tokens a call finds: a missing bucket is full, another is refilled.
Refilled(k) ==
  IF Forgotten(k) THEN Capacity(k)
  ELSE AtMost(Capacity(k), bucket[k].tokens + bucket[k].age * Rate[k])

\* A plausible bug: the wait is rounded down.
RetryAfterRoundedDown(k) == (Unit - Refilled(k)) \div Rate[k]

\* math.ceil((tokens_needed / refill_per_sec) * 1000) milliseconds.
RetryAfter(k) == CeilDiv(Unit - Refilled(k), Rate[k])

\* Both limiters write the bucket at every call, also when they say no.
Write(k, tokens) == bucket' = [bucket EXCEPT ![k] = [tokens |-> tokens, age |-> 0]]

Owe(k) == debt' = [debt EXCEPT ![k] = @ + Unit]

\* Allow says yes.  Redis runs the script as one step, the limiter in memory
\* holds its mutex.
Admit(k) ==
  \/ Rate[k] = 0 /\ UNCHANGED limiterVars
  \/ /\ Rate[k] > 0
     /\ Refilled(k) >= Unit
     /\ Write(k, Refilled(k) - Unit)
     /\ Owe(k)

\* Allow says no.
Refuse(k) ==
  /\ Rate[k] > 0
  /\ Refilled(k) < Unit
  /\ Write(k, Refilled(k))
  /\ UNCHANGED debt

\* A tick of the clock.  The age of a forgotten bucket no longer matters.
TickBuckets ==
  /\ bucket' = [k \in Keys |-> [bucket[k] EXCEPT !.age = AtMost(TTL + 1, @ + 1)]]
  /\ debt' = [k \in Keys |-> AtLeast(0, debt[k] - Rate[k])]

LimiterInit ==
  /\ bucket = [k \in Keys |-> [tokens |-> 0, age |-> TTL + 1]]
  /\ debt = [k \in Keys |-> 0]

LimiterNext == TickBuckets \/ \E k \in Keys : Admit(k) \/ Refuse(k)

LimiterSpec == LimiterInit /\ [][LimiterNext]_limiterVars

-----------------------------------------------------------------------------
LimiterTypeOK ==
  /\ bucket \in [Keys -> [tokens : Nat, age : 0 .. TTL + 1]]
  /\ debt \in [Keys -> Nat]

\* A bucket is refilled before it is forgotten.  With the five minutes of the
\* code this means one request in five minutes or more.
Steady(k) == TTL * Rate[k] >= Capacity(k)

\* In no stretch of time are more requests admitted than the rate allows for it
\* and the capacity on top, whoever asks and however often buckets are forgotten:
\* forgetting and refilling never give a token twice.
RateBound == \A k \in Keys : Rate[k] > 0 /\ Steady(k) => debt[k] <= Capacity(k)

\* What a step keeps: what has been admitted in excess and what may still be
\* admitted at once are together no more than a full bucket.
LimiterInvariant ==
  /\ LimiterTypeOK
  /\ \A k \in Keys : Rate[k] > 0 /\ Steady(k) => debt[k] + Refilled(k) <= Capacity(k)
=============================================================================
