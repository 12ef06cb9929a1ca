---------------------------- MODULE FetchProofs ----------------------------
(***************************************************************************)
(* The token buckets keep the rate, for all rates, keys and lifetimes; and *)
(* the fetch workers lose no message, wait long enough, obey robots.txt    *)
(* and end cleanly, for any number of processes, messages and versions of  *)
(* robots.txt.                                                             *)
(***************************************************************************)
EXTENDS FetchProcess, FiniteSetTheorems, TLAPS

-----------------------------------------------------------------------------
(* The token buckets.                                                       *)

\* The capacity of a bucket is at least one request.
LEMMA CapacityAtLeastUnit ==
  ASSUME NEW k \in Keys
  PROVE  Capacity(k) \in Nat /\ Capacity(k) >= Unit
<1>1. Rate[k] * TicksPerSecond \in Nat
  BY LimiterAssumption
<1>2. CeilDiv(Rate[k] * TicksPerSecond, Unit) \in Int
  BY <1>1, LimiterAssumption DEF CeilDiv
<1>3. AtLeast(1, CeilDiv(Rate[k] * TicksPerSecond, Unit)) \in Nat \ {0}
  BY <1>2 DEF AtLeast
<1>4. \A n \in Nat \ {0} : Unit * n \in Nat /\ Unit * n >= Unit
  BY LimiterAssumption
<1> QED BY <1>3, <1>4 DEF Capacity

\* What a call finds in a bucket lies between nothing and the capacity.
LEMMA RefilledBounds ==
  ASSUME LimiterTypeOK, NEW k \in Keys
  PROVE  Refilled(k) \in Nat /\ Refilled(k) <= Capacity(k)
<1>1. bucket[k].tokens \in Nat /\ bucket[k].age \in Nat /\ Rate[k] \in Nat
  BY LimiterAssumption DEF LimiterTypeOK
<1>2. bucket[k].tokens + bucket[k].age * Rate[k] \in Nat
  BY <1>1
<1> QED BY <1>2, CapacityAtLeastUnit DEF Refilled, AtMost

\* A bucket that was just written holds what was written.
LEMMA RefilledAfterWrite ==
  ASSUME LimiterTypeOK, NEW k \in Keys, NEW t \in Nat, t <= Capacity(k),
         Write(k, t), TTL > 0 \/ t = Capacity(k)
  PROVE  Refilled(k)' = t
<1>1. bucket'[k].tokens = t /\ bucket'[k].age = 0
  BY DEF Write, LimiterTypeOK
<1>2. Rate[k] \in Nat /\ Capacity(k) \in Nat /\ TTL \in Nat
  BY LimiterAssumption, CapacityAtLeastUnit
<1>3. bucket'[k].tokens + bucket'[k].age * Rate[k] = t
  BY <1>1, <1>2
<1>4. Forgotten(k)' => TTL = 0
  BY <1>1, <1>2 DEF Forgotten
<1> QED BY <1>2, <1>3, <1>4 DEF Refilled, AtMost, Capacity

\* A tick gives a bucket what the rate says, or leaves it full.
LEMMA RefilledAfterTick ==
  ASSUME LimiterTypeOK, TickBuckets, NEW k \in Keys, Steady(k)
  PROVE  \/ Refilled(k)' = Capacity(k) /\ Refilled(k) + Rate[k] >= Capacity(k)
         \/ Refilled(k)' <= Refilled(k) + Rate[k]
<1> DEFINE tokens == bucket[k].tokens
           age == bucket[k].age
<1>1. tokens \in Nat /\ age \in 0 .. TTL + 1 /\ Rate[k] \in Nat /\ Capacity(k) \in Nat /\ TTL \in Nat
  BY LimiterAssumption, CapacityAtLeastUnit DEF LimiterTypeOK
<1>2. bucket'[k].tokens = tokens /\ bucket'[k].age = AtMost(TTL + 1, age + 1)
  BY DEF TickBuckets, LimiterTypeOK
<1>3. CASE Forgotten(k)
  <2>1. Refilled(k) = Capacity(k)
    BY <1>3 DEF Refilled
  <2>2. Refilled(k)' <= Capacity(k)
    BY <1>1, <1>2 DEF Refilled, AtMost, Capacity
  <2>3. Refilled(k)' \in Nat \/ Refilled(k)' = Capacity(k)
    BY <1>1, <1>2 DEF Refilled, AtMost, Capacity
  <2> QED BY <2>1, <2>2, <2>3, <1>1
<1>4. CASE ~Forgotten(k)
  <2>1. age <= TTL /\ bucket'[k].age = age + 1
    BY <1>1, <1>2, <1>4 DEF Forgotten, AtMost
  <2>2. (age + 1) * Rate[k] = age * Rate[k] + Rate[k] /\ age * Rate[k] \in Nat
    BY <1>1
  <2>3. Refilled(k) = AtMost(Capacity(k), tokens + age * Rate[k])
    BY <1>4 DEF Refilled
  <2>4. CASE ~Forgotten(k)'
    <3>1. Refilled(k)' = AtMost(Capacity(k), tokens + (age + 1) * Rate[k])
      BY <1>2, <2>1, <2>4 DEF Refilled, Capacity
    <3> QED BY <3>1, <2>2, <2>3, <1>1 DEF AtMost
  <2>5. CASE Forgotten(k)'
    <3>1. age + 1 >= TTL
      BY <1>1, <2>1, <2>5 DEF Forgotten
    <3>2. (age + 1) * Rate[k] >= TTL * Rate[k]
      BY <3>1, <1>1
    <3>3. age * Rate[k] + Rate[k] >= Capacity(k)
      BY <3>2, <2>2, <1>1 DEF Steady
    <3>4. Refilled(k)' = Capacity(k)
      BY <2>5 DEF Refilled, Capacity
    <3> QED BY <3>3, <3>4, <2>3, <2>2, <1>1 DEF AtMost
  <2> QED BY <2>4, <2>5
<1> QED BY <1>3, <1>4

\* The limiter starts with full buckets and nothing admitted.
LEMMA LimiterInitHolds == LimiterInit => LimiterInvariant
<1> SUFFICES ASSUME LimiterInit PROVE LimiterInvariant
  OBVIOUS
<1>1. LimiterTypeOK
  BY LimiterAssumption DEF LimiterInit, LimiterTypeOK
<1>2. ASSUME NEW k \in Keys PROVE debt[k] + Refilled(k) <= Capacity(k)
  BY <1>1, RefilledBounds, CapacityAtLeastUnit DEF LimiterInit
<1> QED BY <1>1, <1>2 DEF LimiterInvariant

\* Every step of the limiter keeps the types.
LEMMA LimiterTypeStep ==
  ASSUME LimiterTypeOK, LimiterNext
  PROVE  LimiterTypeOK'
<1>1. CASE TickBuckets
  <2>1. \A k \in Keys : AtMost(TTL + 1, bucket[k].age + 1) \in 0 .. TTL + 1
    BY LimiterAssumption DEF LimiterTypeOK, AtMost
  <2>2. \A k \in Keys : AtLeast(0, debt[k] - Rate[k]) \in Nat
    BY LimiterAssumption DEF LimiterTypeOK, AtLeast
  <2>3. bucket' \in [Keys -> [tokens : Nat, age : 0 .. TTL + 1]]
    BY <1>1, <2>1 DEF LimiterTypeOK, TickBuckets
  <2> QED BY <1>1, <2>2, <2>3 DEF LimiterTypeOK, TickBuckets
<1>2. ASSUME NEW k \in Keys, Admit(k) PROVE LimiterTypeOK'
  <2>1. CASE Rate[k] = 0 /\ UNCHANGED limiterVars
    BY <2>1 DEF LimiterTypeOK, limiterVars
  <2>2. CASE Refilled(k) >= Unit /\ Write(k, Refilled(k) - Unit) /\ Owe(k)
    <3>1. Refilled(k) - Unit \in Nat
      BY <2>2, RefilledBounds, LimiterAssumption
    <3>2. 0 \in 0 .. TTL + 1
      BY LimiterAssumption
    <3>3. bucket' \in [Keys -> [tokens : Nat, age : 0 .. TTL + 1]]
      BY <2>2, <3>1, <3>2 DEF Write, LimiterTypeOK
    <3>4. debt[k] + Unit \in Nat
      BY LimiterAssumption DEF LimiterTypeOK
    <3>5. debt' \in [Keys -> Nat]
      BY <2>2, <3>4 DEF Owe, LimiterTypeOK
    <3> QED BY <3>3, <3>5 DEF LimiterTypeOK
  <2> QED BY <1>2, <2>1, <2>2 DEF Admit
<1>3. ASSUME NEW k \in Keys, Refuse(k) PROVE LimiterTypeOK'
  <2>1. Refilled(k) \in Nat /\ 0 \in 0 .. TTL + 1
    BY RefilledBounds, LimiterAssumption
  <2> QED BY <1>3, <2>1 DEF Refuse, Write, LimiterTypeOK
<1> QED BY <1>1, <1>2, <1>3 DEF LimiterNext

\* A call leaves the other buckets alone.
LEMMA OtherBuckets ==
  ASSUME LimiterTypeOK, NEW k \in Keys, NEW t, Write(k, t), NEW j \in Keys, j # k
  PROVE  Refilled(j)' = Refilled(j)
BY DEF Write, LimiterTypeOK, Refilled, Forgotten, Capacity

\* Every step of the limiter keeps the invariant.
LEMMA LimiterStep ==
  ASSUME LimiterInvariant, LimiterNext
  PROVE  LimiterInvariant'
<1> USE DEF LimiterInvariant
<1>t. LimiterTypeOK'
  BY LimiterTypeStep
<1> SUFFICES ASSUME NEW j \in Keys, Rate[j] > 0, Steady(j)
             PROVE  debt'[j] + Refilled(j)' <= Capacity(j)
  BY <1>t DEF Steady, Capacity
<1>0. /\ debt[j] \in Nat /\ Refilled(j) \in Nat /\ Rate[j] \in Nat /\ Capacity(j) \in Nat
      /\ Unit \in Nat \ {0} /\ TTL \in Nat
      /\ debt[j] + Refilled(j) <= Capacity(j)
  BY RefilledBounds, CapacityAtLeastUnit, LimiterAssumption DEF LimiterTypeOK
<1>ttl. TTL > 0
  BY <1>0, CapacityAtLeastUnit DEF Steady
<1>1. CASE TickBuckets
  <2>1. debt'[j] = AtLeast(0, debt[j] - Rate[j])
    BY <1>1 DEF TickBuckets
  <2>2. Refilled(j)' \in Nat /\ Refilled(j)' <= Capacity(j)
    <3>1. bucket'[j].tokens \in Nat /\ bucket'[j].age \in Nat
      BY <1>t, LimiterAssumption DEF LimiterTypeOK
    <3>2. bucket'[j].tokens + bucket'[j].age * Rate[j] \in Nat
      BY <3>1, <1>0
    <3>3. Refilled(j)' = IF Forgotten(j)' THEN Capacity(j)
                         ELSE AtMost(Capacity(j), bucket'[j].tokens + bucket'[j].age * Rate[j])
      BY DEF Refilled, Capacity
    <3> QED BY <3>2, <3>3, <1>0 DEF AtMost
  <2>3. \/ Refilled(j)' = Capacity(j) /\ Refilled(j) + Rate[j] >= Capacity(j)
        \/ Refilled(j)' <= Refilled(j) + Rate[j]
    BY <1>1, RefilledAfterTick
  <2> QED BY <1>0, <2>1, <2>2, <2>3 DEF AtLeast
<1>2. ASSUME NEW k \in Keys, Admit(k) PROVE debt'[j] + Refilled(j)' <= Capacity(j)
  <2>1. CASE Rate[k] = 0 /\ UNCHANGED limiterVars
    BY <2>1, <1>0 DEF limiterVars, Refilled, Forgotten, Capacity
  <2>2. CASE Refilled(k) >= Unit /\ Write(k, Refilled(k) - Unit) /\ Owe(k) /\ k = j
    <3>1. debt'[j] = debt[j] + Unit
      BY <2>2 DEF Owe, LimiterTypeOK
    <3>2. Refilled(j) - Unit \in Nat /\ Refilled(j) - Unit <= Capacity(j)
      BY <2>2, <1>0
    <3>3. Refilled(j)' = Refilled(j) - Unit
      BY <2>2, <3>2, <1>ttl, RefilledAfterWrite
    <3> QED BY <3>1, <3>3, <1>0
  <2>3. CASE Write(k, Refilled(k) - Unit) /\ Owe(k) /\ k # j
    BY <2>3, <1>0, OtherBuckets DEF Owe, LimiterTypeOK
  <2> QED BY <1>2, <2>1, <2>2, <2>3 DEF Admit
<1>3. ASSUME NEW k \in Keys, Refuse(k) PROVE debt'[j] + Refilled(j)' <= Capacity(j)
  <2>1. CASE k = j
    <3>1. Refilled(j)' = Refilled(j)
      BY <1>3, <2>1, <1>0, <1>ttl, RefilledAfterWrite DEF Refuse
    <3> QED BY <3>1, <1>3, <1>0 DEF Refuse
  <2>2. CASE k # j
    BY <1>3, <2>2, <1>0, OtherBuckets DEF Refuse
  <2> QED BY <2>1, <2>2
<1> QED BY <1>1, <1>2, <1>3 DEF LimiterNext

\* The invariant bounds the debt.
LEMMA InvariantBounds == LimiterInvariant => RateBound
<1> SUFFICES ASSUME LimiterInvariant, NEW k \in Keys, Rate[k] > 0, Steady(k)
             PROVE  debt[k] <= Capacity(k)
  BY DEF RateBound
<1>1. debt[k] \in Nat /\ Refilled(k) \in Nat /\ Capacity(k) \in Nat
      /\ debt[k] + Refilled(k) <= Capacity(k)
  BY RefilledBounds, CapacityAtLeastUnit DEF LimiterInvariant, LimiterTypeOK
<1> QED BY <1>1

\* Allow, whichever limiter is used and however it is called, never admits more
\* in any stretch of time than the rate and one full bucket.
THEOREM LimiterKeepsRate == LimiterSpec => []RateBound
<1>1. LimiterInvariant /\ UNCHANGED limiterVars => LimiterInvariant'
  BY DEF LimiterInvariant, LimiterTypeOK, limiterVars, Refilled, Forgotten, Capacity, Steady
<1>2. LimiterInvariant /\ [LimiterNext]_limiterVars => LimiterInvariant'
  BY <1>1, LimiterStep
<1> QED BY LimiterInitHolds, <1>2, InvariantBounds, PTL DEF LimiterSpec

-----------------------------------------------------------------------------
(* The fetch workers: the invariant.                                        *)

Pcs == {"idle", "taken", "returned"} \cup Stages \cup Ends

\* A consumer has a message exactly while it is not waiting for one.
HandsOK == \A c \in Consumers : cons[c].m = NoMsg <=> cons[c].pc \in {"idle", "returned"}

\* The broker waits for the answer of c to m.
Holds(c, m) == c \in open /\ cons[c].m = m

\* A message is in the queue, acknowledged, or in the hands of one consumer.
OnePlace(m) ==
  /\ m \in queue => m \notin settled
  /\ \A c \in Consumers : Holds(c, m) => m \notin queue /\ m \notin settled
  /\ \A c, d \in Consumers : Holds(c, m) /\ Holds(d, m) => c = d
  /\ m \in queue \/ m \in settled \/ \E c \in Consumers : Holds(c, m)

\* No channel is left of a consumer that has returned.
OpenOK == open \subseteq {c \in Consumers : cons[c].pc # "returned"}

\* What a copy of robots.txt may be: a version of the current epoch, and never
\* that the site did not answer.
Remembered(v) == v \in epoch .. site /\ Served[v] # "down"

CopiesOK ==
  /\ cache # 0 => Remembered(cache)
  /\ \A c \in Consumers : cons[c].pc = "store" => Remembered(cons[c].copy)

\* Who waits for a bucket and has lost its place to nobody finds a token there
\* when the wait is over.
WaitOK ==
  \A c \in Consumers :
    cons[c].pc = "wait" /\ ~cons[c].lost
      => Refilled(Bucket(c)) + cons[c].wait * Rate[Bucket(c)] >= Unit

ProcInv ==
  /\ FetchTypeOK
  /\ HandsOK
  /\ \A m \in Msgs : OnePlace(m)
  /\ CopiesOK

FetchInv ==
  /\ LimiterInvariant
  /\ ProcInv
  /\ WaitOK
  /\ WaitIsEnough

-----------------------------------------------------------------------------
(* Facts about the operators.                                               *)

\* A process has one or two consumers, and every consumer a process.
LEMMA ConsumersOfProcess ==
  /\ \A c \in Consumers : OwnerOf(c) \in Procs
  /\ \A p \in Procs : IsFiniteSet(Of(p))
<1>1. ASSUME NEW c \in Consumers PROVE OwnerOf(c) \in Procs
  <2>1. PICK p \in Procs : \E q \in CrawlQueues(p) : c = <<p, q>>
    BY DEF Consumers
  <2>2. QED
    BY <2>1 DEF OwnerOf
<1>2. ASSUME NEW p \in Procs PROVE IsFiniteSet(Of(p))
  <2> DEFINE S == ({} \cup {<<p, "crawl">>}) \cup {<<p, Region[p]>>}
  <2>1. IsFiniteSet(S)
    BY FS_EmptySet, FS_AddElement
  <2>2. Of(p) \subseteq S
    <3> SUFFICES ASSUME NEW c \in Of(p) PROVE c \in S
      OBVIOUS
    <3>1. PICK r \in Procs : \E q \in CrawlQueues(r) : c = <<r, q>>
      BY DEF Of, Consumers
    <3>2. r = p
      BY <3>1 DEF Of, OwnerOf
    <3>3. QED
      BY <3>1, <3>2 DEF CrawlQueues
  <2>3. QED
    BY <2>1, <2>2, FS_Subset
<1>3. QED
  BY <1>1, <1>2

\* The fields of the states that handlers go through.
LEMMA StateWithPc ==
  ASSUME NEW x \in ConsumerState, NEW p \in Pcs
  PROVE  /\ [x EXCEPT !.pc = p] \in ConsumerState
         /\ [x EXCEPT !.pc = p].pc = p
         /\ [x EXCEPT !.pc = p].m = x.m
         /\ [x EXCEPT !.pc = p].wait = x.wait
         /\ [x EXCEPT !.pc = p].copy = x.copy
         /\ [x EXCEPT !.pc = p].lost = x.lost
  BY DEF ConsumerState, Pcs

\* The state of a consumer that waits for a message.
LEMMA IdleState ==
  /\ IdleConsumer \in ConsumerState
  /\ IdleConsumer.pc = "idle" /\ IdleConsumer.m = NoMsg
<1>1. Attempts \in Nat /\ Unit \in Nat /\ Len(Served) \in Nat
  BY ProcessAssumption, LimiterAssumption DEF Attempts, AttemptsOf
<1>2. QED
  BY <1>1 DEF IdleConsumer, ConsumerState, MaxWait

\* The state of a consumer whose handler has returned.
EndState(x, p) == [IdleConsumer EXCEPT !.pc = p, !.m = x.m, !.lost = x.lost]

LEMMA StateAtEnd ==
  ASSUME NEW x \in ConsumerState, NEW p \in Pcs
  PROVE  /\ EndState(x, p) \in ConsumerState
         /\ EndState(x, p).pc = p
         /\ EndState(x, p).m = x.m
         /\ EndState(x, p).lost = x.lost
<1>1. x.m \in Msgs \cup {NoMsg} /\ x.lost \in BOOLEAN
  BY DEF ConsumerState
<1>2. QED
  BY <1>1, IdleState DEF EndState, ConsumerState, Pcs

\* The state of a consumer that has been told to wait.
LEMMA StateToWait ==
  ASSUME NEW x \in ConsumerState, NEW w \in 0 .. MaxWait
  PROVE  /\ [x EXCEPT !.pc = "wait", !.wait = w, !.lost = FALSE] \in ConsumerState
         /\ [x EXCEPT !.pc = "wait", !.wait = w, !.lost = FALSE].pc = "wait"
         /\ [x EXCEPT !.pc = "wait", !.wait = w, !.lost = FALSE].m = x.m
         /\ [x EXCEPT !.pc = "wait", !.wait = w, !.lost = FALSE].wait = w
         /\ [x EXCEPT !.pc = "wait", !.wait = w, !.lost = FALSE].lost = FALSE
<1>1. PICK l \in BOOLEAN : l = FALSE
  OBVIOUS
<1>2. /\ [x EXCEPT !.pc = "wait", !.wait = w, !.lost = l] \in ConsumerState
      /\ [x EXCEPT !.pc = "wait", !.wait = w, !.lost = l].pc = "wait"
      /\ [x EXCEPT !.pc = "wait", !.wait = w, !.lost = l].m = x.m
      /\ [x EXCEPT !.pc = "wait", !.wait = w, !.lost = l].wait = w
      /\ [x EXCEPT !.pc = "wait", !.wait = w, !.lost = l].lost = l
  BY DEF ConsumerState, Stages
<1>3. QED
  BY <1>1, <1>2

\* A message's bucket is one of the buckets.
LEMMA BucketType ==
  ASSUME NEW c \in Consumers, cons[c].m \in Msgs
  PROVE  Bucket(c) \in Keys
  BY ConsumersOfProcess, ProcessAssumption DEF Bucket

\* A quotient that is rounded up is enough, and no larger than what is divided.
LEMMA CeilDivBounds ==
  ASSUME NEW a \in Nat \ {0}, NEW b \in Nat \ {0}
  PROVE  CeilDiv(a, b) \in 0 .. a /\ CeilDiv(a, b) * b >= a
<1> DEFINE q == CeilDiv(a, b)
<1>1. q \in Int /\ b * q <= a + b - 1 /\ a + b - 1 < b * (q + 1)
  BY DEF CeilDiv
<1> HIDE DEF q
<1>2. b * (q + 1) = b * q + b /\ b * q = q * b /\ b * q \in Int
  BY <1>1
<1>3. q * b >= a
  BY <1>1, <1>2
<1>4. q >= 0
  <2> SUFFICES ASSUME q <= -1 PROVE FALSE
    BY <1>1
  <2>1. b * q <= 0
    BY <1>1
  <2>2. QED
    BY <1>2, <1>3, <2>1
<1>5. q <= a
  <2> SUFFICES ASSUME q >= a + 1 PROVE FALSE
    BY <1>1
  <2>1. b * q >= b * (a + 1)
    BY <1>1
  <2>2. b * (a + 1) = b * a + b /\ b * a >= a
    OBVIOUS
  <2>3. QED
    BY <1>1, <1>2, <2>1, <2>2
<1>6. QED
  BY <1>1, <1>3, <1>4, <1>5 DEF q

\* What a call that says no tells to wait.
LEMMA RetryAfterIsEnough ==
  ASSUME LimiterTypeOK, NEW k \in Keys, Rate[k] > 0, Refilled(k) < Unit
  PROVE  /\ RetryAfter(k) \in 0 .. MaxWait
         /\ Refilled(k) + RetryAfter(k) * Rate[k] >= Unit
<1>1. Refilled(k) \in Nat /\ Unit \in Nat /\ Rate[k] \in Nat \ {0}
  BY RefilledBounds, LimiterAssumption
<1>2. Unit - Refilled(k) \in Nat \ {0} /\ Unit - Refilled(k) <= Unit
  BY <1>1
<1>3. /\ RetryAfter(k) \in 0 .. (Unit - Refilled(k))
      /\ RetryAfter(k) * Rate[k] >= Unit - Refilled(k)
  BY <1>1, <1>2, CeilDivBounds DEF RetryAfter
<1>4. QED
  BY <1>1, <1>2, <1>3 DEF MaxWait

-----------------------------------------------------------------------------
(* Steps of the processes.                                                  *)

ProcStates == {"active", "draining", "stopped", "closed", "dead"}

RobotsTypes == site \in Versions /\ cache \in 0 .. site /\ epoch \in 1 .. site

\* The count of a process whose handlers go on is right.
LEMMA CountStays ==
  ASSUME FetchTypeOK, NEW p \in Procs, active'[p] = active[p],
         \A c \in Of(p) : cons'[c].pc \in Stages <=> cons[c].pc \in Stages
  PROVE  active'[p] = Cardinality(Working(p)')
<1>1. Working(p)' = Working(p)
  BY DEF Working, Of
<1>2. QED
  BY <1>1 DEF FetchTypeOK

\* The running handlers of a process are finitely many.
LEMMA WorkingFinite ==
  ASSUME NEW p \in Procs
  PROVE  IsFiniteSet(Working(p))
<1>1. Working(p) \subseteq Of(p)
  BY DEF Working, Of
<1>2. QED
  BY <1>1, ConsumersOfProcess, FS_Subset

\* Nothing happens to the messages: no consumer takes or gives one, or loses the
\* channel it has one from.
LEMMA PlacesStay ==
  ASSUME ProcInv, queue' = queue, settled' = settled,
         \A c \in Consumers : /\ cons'[c].m = cons[c].m
                              /\ cons[c].m # NoMsg => (c \in open' <=> c \in open)
  PROVE  \A m \in Msgs : OnePlace(m)'
<1> SUFFICES ASSUME NEW m \in Msgs PROVE OnePlace(m)'
  OBVIOUS
<1>1. OnePlace(m) /\ m # NoMsg
  BY ProcessAssumption DEF ProcInv, NoMsg
<1>2. \A c \in Consumers : Holds(c, m)' <=> Holds(c, m)
  BY <1>1 DEF Holds
<1>3. QED
  BY <1>1, <1>2 DEF OnePlace

\* A step that leaves the channels alone, and in which no consumer returns.
LEMMA OpenStays ==
  ASSUME ProcInv, open' = open,
         \A c \in Consumers : cons'[c].pc = "returned" => cons[c].pc = "returned"
  PROVE  OpenOK'
  BY DEF ProcInv, FetchTypeOK, OpenOK

\* A step that moves consumers within their handlers or outside of them.
LEMMA QuietStep ==
  ASSUME ProcInv, proc' \in [Procs -> ProcStates], cons' \in [Consumers -> ConsumerState],
         UNCHANGED <<active, queue, settled>>, OpenOK', RobotsTypes', CopiesOK',
         \A c \in Consumers :
           /\ cons'[c].m = cons[c].m
           /\ cons[c].m # NoMsg => (c \in open' <=> c \in open)
           /\ cons'[c].pc \in Stages <=> cons[c].pc \in Stages
           /\ cons'[c].pc \in {"idle", "returned"} <=> cons[c].pc \in {"idle", "returned"}
  PROVE  ProcInv'
<1>1. FetchTypeOK /\ HandsOK
  BY DEF ProcInv
<1>2. \A p \in Procs : active'[p] = Cardinality(Working(p)')
  BY <1>1, CountStays DEF Of
<1>3. FetchTypeOK'
  BY <1>1, <1>2 DEF FetchTypeOK, OpenOK, RobotsTypes, ProcStates
<1>4. HandsOK'
  BY <1>1 DEF HandsOK
<1>5. \A m \in Msgs : OnePlace(m)'
  BY PlacesStay
<1>6. QED
  BY <1>3, <1>4, <1>5 DEF ProcInv

\* The copies of robots.txt that were there are still good ones.
LEMMA CopiesStay ==
  ASSUME ProcInv, UNCHANGED robotsVars,
         \A c \in Consumers : cons'[c].pc = "store" => cons[c].pc = "store" /\ cons'[c].copy = cons[c].copy
  PROVE  RobotsTypes' /\ CopiesOK'
<1>1. RobotsTypes /\ CopiesOK
  BY DEF ProcInv, FetchTypeOK, RobotsTypes
<1>2. QED
  BY <1>1 DEF RobotsTypes, CopiesOK, Remembered, robotsVars

\* A consumer goes on within its handler.
LEMMA HandlerGoesOn ==
  ASSUME ProcInv, NEW c \in Consumers, NEW new \in ConsumerState,
         cons' = [cons EXCEPT ![c] = new], new.m = cons[c].m,
         cons[c].pc \in Stages, new.pc \in Stages,
         UNCHANGED <<proc, active, queue, settled, open>>, RobotsTypes', CopiesOK'
  PROVE  ProcInv'
<1>1. cons \in [Consumers -> ConsumerState] /\ proc \in [Procs -> ProcStates]
  BY DEF ProcInv, FetchTypeOK, ProcStates
<1>2. cons' \in [Consumers -> ConsumerState] /\ cons'[c] = new
      /\ \A d \in Consumers : d # c => cons'[d] = cons[d]
  BY <1>1
<1>3. cons[c].pc \notin {"idle", "returned"} /\ new.pc \notin {"idle", "returned"}
  BY DEF Stages
<1>4. \A d \in Consumers :
        /\ cons'[d].m = cons[d].m
        /\ cons'[d].pc \in Stages <=> cons[d].pc \in Stages
        /\ cons'[d].pc \in {"idle", "returned"} <=> cons[d].pc \in {"idle", "returned"}
  BY <1>2, <1>3
<1>5. OpenOK'
  BY <1>2, <1>3, OpenStays
<1>6. QED
  BY <1>1, <1>2, <1>4, <1>5, QuietStep

\* A handler begins.
LEMMA HandlerBegins ==
  ASSUME ProcInv, NEW c \in Consumers, HandlerStarts(c)
  PROVE  ProcInv'
<1> DEFINE new == [cons[c] EXCEPT !.pc = "lookup"]
           p == OwnerOf(c)
<1>1. /\ FetchTypeOK /\ HandsOK
      /\ cons \in [Consumers -> ConsumerState] /\ cons[c] \in ConsumerState
      /\ active \in [Procs -> Nat]
  BY DEF ProcInv, FetchTypeOK
<1>2. /\ new \in ConsumerState /\ new.pc = "lookup" /\ new.m = cons[c].m
  BY <1>1, StateWithPc DEF Pcs, Stages
<1>3. /\ cons' = [cons EXCEPT ![c] = new] /\ cons[c].pc = "taken"
      /\ active' = [active EXCEPT ![p] = @ + 1]
      /\ UNCHANGED <<proc, queue, settled, open, robotsVars>>
  BY DEF HandlerStarts, Goes
<1> HIDE DEF new
<1>4. /\ cons' \in [Consumers -> ConsumerState] /\ cons'[c] = new
      /\ \A d \in Consumers : d # c => cons'[d] = cons[d]
  BY <1>1, <1>2, <1>3
<1>5. RobotsTypes' /\ CopiesOK'
  BY <1>2, <1>3, <1>4, CopiesStay DEF robotsVars
<1>6. p \in Procs
  BY ConsumersOfProcess
<1>7. active' \in [Procs -> Nat] /\ active'[p] = active[p] + 1
  BY <1>1, <1>3, <1>6
<1>8. \A q \in Procs : active'[q] = Cardinality(Working(q)')
  <2> SUFFICES ASSUME NEW q \in Procs PROVE active'[q] = Cardinality(Working(q)')
    OBVIOUS
  <2>1. CASE q # p
    <3>1. active'[q] = active[q]
      BY <1>1, <1>3, <2>1
    <3>2. \A d \in Of(q) : cons'[d].pc \in Stages <=> cons[d].pc \in Stages
      BY <1>4, <2>1 DEF Of
    <3>3. QED
      BY <1>1, <3>1, <3>2, CountStays
  <2>2. CASE q = p
    <3>1. c \notin Working(p)
      BY <1>3 DEF Working, Stages
    <3>2. Working(p)' = Working(p) \cup {c}
      BY <1>2, <1>4 DEF Working, Stages
    <3>3. Cardinality(Working(p)') = Cardinality(Working(p)) + 1
      BY <1>6, <3>1, <3>2, WorkingFinite, FS_AddElement
    <3>4. QED
      BY <1>1, <1>6, <1>7, <2>2, <3>3 DEF FetchTypeOK
  <2>3. QED
    BY <2>1, <2>2
<1>o. OpenOK'
  BY <1>2, <1>3, <1>4, OpenStays
<1>9. FetchTypeOK'
  BY <1>1, <1>3, <1>4, <1>5, <1>7, <1>8, <1>o DEF FetchTypeOK, RobotsTypes, OpenOK
<1>10. HandsOK'
  BY <1>1, <1>2, <1>3, <1>4 DEF HandsOK
<1>11. \A m \in Msgs : OnePlace(m)'
  BY <1>2, <1>3, <1>4, PlacesStay
<1>12. QED
  BY <1>5, <1>9, <1>10, <1>11 DEF ProcInv

\* A handler returns.
LEMMA HandlerReturns ==
  ASSUME ProcInv, NEW c \in Consumers, NEW e \in Ends, cons[c].pc \in Stages,
         HandlerEnds(c, e), RobotsTypes',
         cache' # 0 => Remembered(cache'), site' = site, epoch' = epoch
  PROVE  ProcInv'
<1> DEFINE new == EndState(cons[c], e)
           p == OwnerOf(c)
<1>1. /\ FetchTypeOK /\ HandsOK /\ CopiesOK
      /\ cons \in [Consumers -> ConsumerState] /\ cons[c] \in ConsumerState
      /\ active \in [Procs -> Nat]
  BY DEF ProcInv, FetchTypeOK
<1>2. /\ new \in ConsumerState /\ new.pc = e /\ new.m = cons[c].m
  BY <1>1, StateAtEnd DEF Pcs
<1>3. /\ cons' = [cons EXCEPT ![c] = new]
      /\ active' = [active EXCEPT ![p] = @ - 1]
      /\ UNCHANGED <<proc, queue, settled, open>>
  BY DEF HandlerEnds, EndState
<1> HIDE DEF new
<1>4. /\ cons' \in [Consumers -> ConsumerState] /\ cons'[c] = new
      /\ \A d \in Consumers : d # c => cons'[d] = cons[d]
  BY <1>1, <1>2, <1>3
<1>5. CopiesOK'
  BY <1>1, <1>2, <1>4 DEF CopiesOK, Remembered, Ends
<1>6. p \in Procs
  BY ConsumersOfProcess
<1>7. /\ c \in Working(p) /\ Working(p)' = Working(p) \ {c}
  BY <1>2, <1>4 DEF Working, Stages, Ends
<1>8. /\ Cardinality(Working(p)') = Cardinality(Working(p)) - 1
      /\ Cardinality(Working(p)') \in Nat
  <2>1. IsFiniteSet(Working(p)) /\ IsFiniteSet(Working(p) \ {c})
    BY <1>6, WorkingFinite, FS_RemoveElement
  <2>2. QED
    BY <1>7, <2>1, FS_RemoveElement, FS_CardinalityType
<1>9. active' \in [Procs -> Nat] /\ active'[p] = Cardinality(Working(p)')
  BY <1>1, <1>3, <1>6, <1>8 DEF FetchTypeOK
<1>10. \A q \in Procs : active'[q] = Cardinality(Working(q)')
  <2> SUFFICES ASSUME NEW q \in Procs, q # p PROVE active'[q] = Cardinality(Working(q)')
    BY <1>9
  <2>1. active'[q] = active[q]
    BY <1>1, <1>3
  <2>2. \A d \in Of(q) : cons'[d].pc \in Stages <=> cons[d].pc \in Stages
    BY <1>4 DEF Of
  <2>3. QED
    BY <1>1, <2>1, <2>2, CountStays
<1>o. OpenOK'
  BY <1>2, <1>3, <1>4, OpenStays DEF Ends
<1>11. FetchTypeOK'
  BY <1>1, <1>3, <1>4, <1>9, <1>10, <1>o DEF FetchTypeOK, RobotsTypes, OpenOK
<1>12. HandsOK'
  BY <1>1, <1>2, <1>4 DEF HandsOK, Stages, Ends
<1>13. \A m \in Msgs : OnePlace(m)'
  BY <1>2, <1>3, <1>4, PlacesStay
<1>14. QED
  BY <1>5, <1>11, <1>12, <1>13 DEF ProcInv

\* A consumer outside of its handler takes or gives a message.
LEMMA ConsumerOutside ==
  ASSUME ProcInv, NEW c \in Consumers, NEW new \in ConsumerState,
         cons' = [cons EXCEPT ![c] = new],
         cons[c].pc \notin Stages, new.pc \notin Stages \cup {"returned"},
         new.m = NoMsg <=> new.pc = "idle",
         UNCHANGED <<proc, active, open, robotsVars>>,
         queue' \subseteq Msgs, settled' \subseteq Msgs,
         \A m \in Msgs : OnePlace(m)'
  PROVE  ProcInv'
<1>1. /\ FetchTypeOK /\ HandsOK
      /\ cons \in [Consumers -> ConsumerState]
  BY DEF ProcInv, FetchTypeOK
<1>2. /\ cons' \in [Consumers -> ConsumerState] /\ cons'[c] = new
      /\ \A d \in Consumers : d # c => cons'[d] = cons[d]
  BY <1>1
<1>3. RobotsTypes' /\ CopiesOK'
  <2>1. new.pc # "store"
    BY DEF Stages
  <2>2. QED
    BY <1>2, <2>1, CopiesStay DEF robotsVars
<1>4. \A p \in Procs : active'[p] = Cardinality(Working(p)')
  BY <1>1, <1>2, CountStays DEF Of
<1>o. OpenOK'
  BY <1>2, OpenStays
<1>5. FetchTypeOK'
  BY <1>1, <1>2, <1>3, <1>4, <1>o DEF FetchTypeOK, RobotsTypes, OpenOK
<1>6. HandsOK'
  BY <1>1, <1>2 DEF HandsOK
<1>7. QED
  BY <1>3, <1>5, <1>6 DEF ProcInv

\* A message is delivered.
LEMMA DeliverStep ==
  ASSUME ProcInv, NEW c \in Consumers, Deliver(c)
  PROVE  ProcInv'
<1>1. PICK m \in queue : /\ cons' = [cons EXCEPT ![c] = [IdleConsumer EXCEPT !.pc = "taken", !.m = m]]
                         /\ queue' = queue \ {m}
  BY DEF Deliver
<1> DEFINE new == [IdleConsumer EXCEPT !.pc = "taken", !.m = m]
<1>2. /\ queue \subseteq Msgs /\ settled \subseteq Msgs /\ m \in Msgs /\ m # NoMsg
      /\ cons \in [Consumers -> ConsumerState] /\ HandsOK
  BY ProcessAssumption DEF ProcInv, FetchTypeOK, NoMsg
<1>3. new \in ConsumerState /\ new.pc = "taken" /\ new.m = m
  BY <1>2, IdleState DEF ConsumerState, Pcs
<1> HIDE DEF new
<1>4. /\ cons'[c] = new /\ \A d \in Consumers : d # c => cons'[d] = cons[d]
      /\ cons[c].m = NoMsg /\ cons[c].pc = "idle"
  BY <1>1, <1>2 DEF Deliver, HandsOK, new
<1>5. settled' = settled /\ c \in open /\ UNCHANGED <<proc, active, open, robotsVars>>
  BY DEF Deliver
<1>6. ASSUME NEW n \in Msgs PROVE OnePlace(n)'
  <2>1. OnePlace(n) /\ n # NoMsg
    BY ProcessAssumption DEF ProcInv, NoMsg
  <2>2. CASE n = m
    <3>1. \A d \in Consumers : Holds(d, n)' <=> d = c
      BY <1>3, <1>4, <1>5, <2>1, <2>2 DEF OnePlace, Holds
    <3>2. n \notin queue' /\ n \notin settled'
      BY <1>1, <1>5, <2>1, <2>2 DEF OnePlace
    <3>3. QED
      BY <3>1, <3>2 DEF OnePlace
  <2>3. CASE n # m
    <3>1. \A d \in Consumers : Holds(d, n)' <=> Holds(d, n)
      BY <1>3, <1>4, <1>5, <2>1, <2>3 DEF Holds
    <3>2. (n \in queue' <=> n \in queue) /\ settled' = settled
      BY <1>1, <1>5, <2>3
    <3>3. QED
      BY <2>1, <3>1, <3>2 DEF OnePlace
  <2>4. QED
    BY <2>2, <2>3
<1>7. /\ cons[c].pc \notin Stages /\ new.pc \notin Stages \cup {"returned"}
      /\ new.m = NoMsg <=> new.pc = "idle"
      /\ queue' \subseteq Msgs /\ settled' \subseteq Msgs
  BY <1>1, <1>2, <1>3, <1>4, <1>5 DEF Stages
<1>8. QED
  BY <1>1, <1>3, <1>5, <1>6, <1>7, ConsumerOutside DEF new

\* A message is answered: acknowledged, or put back, or neither if the channel is
\* gone.
LEMMA AnswerStep ==
  ASSUME ProcInv, NEW c \in Consumers, Ack(c) \/ Nack(c)
  PROVE  ProcInv'
<1>1. /\ queue \subseteq Msgs /\ settled \subseteq Msgs
      /\ cons \in [Consumers -> ConsumerState] /\ HandsOK
  BY DEF ProcInv, FetchTypeOK
<1>2. PICK m \in Msgs : m = cons[c].m
  BY <1>1 DEF Ack, Nack, HandsOK, ConsumerState
<1>3. /\ cons' = [cons EXCEPT ![c] = IdleConsumer] /\ UNCHANGED <<proc, active, open, robotsVars>>
      /\ \/ queue' = queue /\ settled' = settled \cup Answered(c)
         \/ queue' = queue \cup Answered(c) /\ settled' = settled
  BY DEF Ack, Nack
<1>4. /\ cons'[c] = IdleConsumer /\ \A d \in Consumers : d # c => cons'[d] = cons[d]
  BY <1>1, <1>3
<1>5. IdleConsumer \in ConsumerState /\ IdleConsumer.m = NoMsg /\ IdleConsumer.pc = "idle"
  BY IdleState
<1>6. ASSUME NEW n \in Msgs PROVE OnePlace(n)'
  <2>1. OnePlace(n) /\ n # NoMsg /\ OnePlace(m)
    BY ProcessAssumption DEF ProcInv, NoMsg
  <2>2. CASE n = m /\ c \in open
    <3>1. \A d \in Consumers : ~Holds(d, n)'
      BY <1>2, <1>3, <1>4, <1>5, <2>1, <2>2 DEF OnePlace, Holds
    <3>2. (n \in queue' \/ n \in settled') /\ ~(n \in queue' /\ n \in settled')
      BY <1>2, <1>3, <2>1, <2>2 DEF OnePlace, Holds, Answered
    <3>3. QED
      BY <3>1, <3>2 DEF OnePlace
  <2>3. CASE n # m \/ c \notin open
    <3>1. \A d \in Consumers : Holds(d, n)' <=> Holds(d, n)
      BY <1>2, <1>3, <1>4, <1>5, <2>1, <2>3 DEF Holds
    <3>2. (n \in queue' <=> n \in queue) /\ (n \in settled' <=> n \in settled)
      BY <1>2, <1>3, <2>3 DEF Answered
    <3>3. QED
      BY <2>1, <3>1, <3>2 DEF OnePlace
  <2>4. QED
    BY <2>2, <2>3
<1>7. /\ cons[c].pc \notin Stages /\ IdleConsumer.pc \notin Stages \cup {"returned"}
      /\ IdleConsumer.m = NoMsg <=> IdleConsumer.pc = "idle"
      /\ queue' \subseteq Msgs /\ settled' \subseteq Msgs
  BY <1>1, <1>2, <1>3, <1>5 DEF Ack, Nack, Stages, Answered
<1>8. QED
  BY <1>3, <1>5, <1>6, <1>7, ConsumerOutside

\* A channel breaks: its message is in the queue again.
LEMMA LoseStep ==
  ASSUME ProcInv, NEW c \in Consumers, LoseChannel(c)
  PROVE  ProcInv'
<1>1. /\ FetchTypeOK /\ HandsOK /\ cons[c] \in ConsumerState /\ OpenOK
  BY DEF ProcInv, FetchTypeOK, OpenOK
<1>2. /\ c \in open /\ open' = open \ {c} /\ queue' = queue \cup ({cons[c].m} \ {NoMsg})
      /\ UNCHANGED <<proc, cons, active, settled, robotsVars>>
  BY DEF LoseChannel
<1>3. RobotsTypes' /\ CopiesOK'
  BY <1>2, CopiesStay
<1>4. \A p \in Procs : active'[p] = Cardinality(Working(p)')
  BY <1>1, <1>2, CountStays
<1>5. queue' \subseteq Msgs
  BY <1>1, <1>2 DEF FetchTypeOK, ConsumerState
<1>6. OpenOK'
  BY <1>1, <1>2 DEF OpenOK
<1>7. FetchTypeOK'
  BY <1>1, <1>2, <1>3, <1>4, <1>5, <1>6 DEF FetchTypeOK, OpenOK, RobotsTypes
<1>8. ASSUME NEW m \in Msgs PROVE OnePlace(m)'
  <2>1. OnePlace(m) /\ m # NoMsg
    BY ProcessAssumption DEF ProcInv, NoMsg
  <2>2. \A d \in Consumers : Holds(d, m)' <=> d # c /\ Holds(d, m)
    BY <1>2 DEF Holds
  <2>3. m \in queue' <=> m \in queue \/ Holds(c, m)
    BY <1>2, <2>1 DEF Holds
  <2>4. QED
    BY <1>2, <2>1, <2>2, <2>3 DEF OnePlace
<1>9. HandsOK'
  BY <1>1, <1>2 DEF HandsOK
<1>10. QED
  BY <1>3, <1>7, <1>8, <1>9 DEF ProcInv

\* A process ends: what its consumers have in hand is taken back.
LEMMA GoneStep ==
  ASSUME ProcInv, NEW p \in Procs, NEW how \in ProcStates, Gone(p, how)
  PROVE  ProcInv'
<1> DEFINE gone == [IdleConsumer EXCEPT !.pc = "returned"]
<1>1. /\ FetchTypeOK /\ HandsOK
      /\ cons \in [Consumers -> ConsumerState] /\ active \in [Procs -> Nat]
      /\ proc \in [Procs -> ProcStates]
  BY DEF ProcInv, FetchTypeOK, ProcStates
<1>2. gone \in ConsumerState /\ gone.pc = "returned" /\ gone.m = NoMsg
  BY IdleState DEF ConsumerState
<1>3. cons' = [c \in Consumers |-> IF OwnerOf(c) = p THEN gone ELSE cons[c]]
  BY DEF Gone
<1> HIDE DEF gone
<1>4. /\ cons' \in [Consumers -> ConsumerState]
      /\ \A c \in Consumers : cons'[c] = IF OwnerOf(c) = p THEN gone ELSE cons[c]
  BY <1>1, <1>2, <1>3
<1>5. /\ proc' \in [Procs -> ProcStates] /\ active' = [active EXCEPT ![p] = 0]
      /\ settled' = settled /\ UNCHANGED robotsVars
      /\ queue' = queue \cup ({cons[c].m : c \in Of(p) \cap open} \ {NoMsg})
      /\ open' = open \ Of(p)
  BY <1>1 DEF Gone
<1>6. RobotsTypes' /\ CopiesOK'
  BY <1>2, <1>4, <1>5, CopiesStay
<1>7. active' \in [Procs -> Nat] /\ \A q \in Procs : active'[q] = Cardinality(Working(q)')
  <2>1. Working(p)' = {}
    BY <1>2, <1>4 DEF Working, Stages
  <2>2. active'[p] = Cardinality(Working(p)')
    BY <1>1, <1>5, <2>1, FS_EmptySet
  <2>3. ASSUME NEW q \in Procs, q # p PROVE active'[q] = Cardinality(Working(q)')
    <3>1. \A c \in Of(q) : cons'[c].pc \in Stages <=> cons[c].pc \in Stages
      BY <1>4, <2>3 DEF Of
    <3>2. active'[q] = active[q]
      BY <1>1, <1>5, <2>3
    <3>3. QED
      BY <1>1, <3>1, <3>2, CountStays
  <2>4. QED
    BY <1>1, <1>5, <2>2, <2>3
<1>8. queue' \subseteq Msgs
  BY <1>1, <1>5 DEF FetchTypeOK, ConsumerState, Of
<1>o. OpenOK'
  BY <1>1, <1>4, <1>5 DEF FetchTypeOK, OpenOK, Of
<1>9. FetchTypeOK'
  BY <1>1, <1>4, <1>5, <1>6, <1>7, <1>8, <1>o DEF FetchTypeOK, OpenOK, RobotsTypes, ProcStates
<1>10. HandsOK'
  BY <1>1, <1>2, <1>4 DEF HandsOK
<1>11. ASSUME NEW m \in Msgs PROVE OnePlace(m)'
  <2>1. OnePlace(m) /\ m # NoMsg
    BY ProcessAssumption DEF ProcInv, NoMsg
  <2>2. \A c \in Consumers : Holds(c, m)' <=> OwnerOf(c) # p /\ Holds(c, m)
    BY <1>2, <1>4, <1>5, <2>1 DEF Holds, Of
  <2>3. m \in queue' <=> m \in queue \/ \E c \in Consumers : OwnerOf(c) = p /\ Holds(c, m)
    BY <1>5, <2>1 DEF Of, Holds
  <2>4. QED
    BY <1>5, <2>1, <2>2, <2>3 DEF OnePlace
<1>12. QED
  BY <1>6, <1>9, <1>10, <1>11 DEF ProcInv

\* Goes within the handler.
LEMMA GoesStep ==
  ASSUME ProcInv, NEW c \in Consumers, NEW p \in Stages \ {"store"}, cons[c].pc \in Stages, Goes(c, p),
         UNCHANGED <<proc, active, queue, settled, open, robotsVars>>
  PROVE  ProcInv'
<1> DEFINE new == [cons[c] EXCEPT !.pc = p]
<1>1. cons \in [Consumers -> ConsumerState] /\ cons[c] \in ConsumerState
  BY DEF ProcInv, FetchTypeOK
<1>2. new \in ConsumerState /\ new.pc = p /\ new.m = cons[c].m
  BY <1>1, StateWithPc DEF Pcs
<1>3. cons' = [cons EXCEPT ![c] = new]
  BY DEF Goes
<1> HIDE DEF new
<1>4. RobotsTypes' /\ CopiesOK'
  BY <1>1, <1>2, <1>3, CopiesStay
<1>5. QED
  BY <1>2, <1>3, <1>4, HandlerGoesOn

\* A handler returns and leaves the copies of robots.txt alone.
LEMMA ReturnsStep ==
  ASSUME ProcInv, NEW c \in Consumers, NEW e \in Ends, cons[c].pc \in Stages,
         HandlerEnds(c, e), UNCHANGED robotsVars
  PROVE  ProcInv'
<1>1. RobotsTypes'
  BY DEF ProcInv, FetchTypeOK, RobotsTypes, robotsVars
<1>2. cache' # 0 => Remembered(cache')
  BY DEF ProcInv, CopiesOK, Remembered, robotsVars
<1>3. QED
  BY <1>1, <1>2, HandlerReturns DEF robotsVars

\* The robots.txt check.
LEMMA RobotsStep ==
  ASSUME ProcInv, NEW c \in Consumers, RobotsLookup(c) \/ RobotsReply(c) \/ RobotsStore(c)
  PROVE  ProcInv'
<1>1. /\ cons \in [Consumers -> ConsumerState] /\ cons[c] \in ConsumerState
      /\ RobotsTypes /\ CopiesOK
  BY DEF ProcInv, FetchTypeOK, RobotsTypes
<1>2. {"robots", "download", "store", "limit"} \subseteq Stages /\ {"ack", "nack"} \subseteq Ends
  BY DEF Stages, Ends
<1>3. CASE RobotsLookup(c)
  BY <1>2, <1>3, GoesStep, ReturnsStep DEF RobotsLookup, Verdict, HandlerEndsWithWrite
<1>4. CASE RobotsReply(c)
  <2>1. CASE Served[site] = "down"
    BY <1>2, <1>4, <2>1, GoesStep DEF RobotsReply
  <2>2. CASE Served[site] # "down"
    <3> DEFINE new == [cons[c] EXCEPT !.pc = "store", !.copy = site]
    <3>1. /\ cons' = [cons EXCEPT ![c] = new] /\ cons[c].pc = "download"
          /\ UNCHANGED <<proc, active, queue, settled, open, robotsVars>>
      BY <1>4, <2>2 DEF RobotsReply
    <3>2. site \in 0 .. Len(Served) /\ site \in epoch .. site
      BY <1>1, ProcessAssumption DEF RobotsTypes, Versions
    <3>3. new \in ConsumerState /\ new.pc = "store" /\ new.m = cons[c].m /\ new.copy = site
      BY <1>1, <3>2 DEF ConsumerState, Stages
    <3> HIDE DEF new
    <3>4. /\ cons'[c] = new /\ \A d \in Consumers : d # c => cons'[d] = cons[d]
      BY <1>1, <3>1
    <3>5. RobotsTypes' /\ CopiesOK'
      <4>1. RobotsTypes'
        BY <1>1, <3>1 DEF RobotsTypes, robotsVars
      <4>2. cache' # 0 => Remembered(cache)'
        BY <1>1, <3>1 DEF CopiesOK, Remembered, robotsVars
      <4>3. ASSUME NEW d \in Consumers, cons'[d].pc = "store" PROVE Remembered(cons[d].copy)'
        BY <1>1, <2>2, <3>1, <3>2, <3>3, <3>4, <4>3 DEF CopiesOK, Remembered, robotsVars
      <4>4. QED
        BY <4>1, <4>2, <4>3 DEF CopiesOK
    <3>6. QED
      BY <1>2, <3>1, <3>3, <3>5, HandlerGoesOn
  <2>3. QED
    BY <2>1, <2>2
<1>5. CASE RobotsStore(c)
  <2>1. /\ cons[c].pc = "store" /\ cache' \in {cache, cons[c].copy}
        /\ site' = site /\ epoch' = epoch
    BY <1>5 DEF RobotsStore
  <2>2. Remembered(cons[c].copy) /\ cons[c].copy \in 0 .. site
    BY <1>1, <2>1 DEF CopiesOK, Remembered, RobotsTypes, Versions
  <2>3. RobotsTypes' /\ (cache' # 0 => Remembered(cache'))
    BY <1>1, <2>1, <2>2 DEF RobotsTypes, CopiesOK
  <2>4. CASE HandlerEnds(c, "ack") \/ HandlerEnds(c, "nack")
    BY <1>2, <2>1, <2>3, <2>4, HandlerReturns
  <2>5. CASE Goes(c, "limit") /\ UNCHANGED <<proc, active, queue, settled, open>>
    <3> DEFINE new == [cons[c] EXCEPT !.pc = "limit"]
    <3>1. new \in ConsumerState /\ new.pc = "limit" /\ new.m = cons[c].m
      BY <1>1, <1>2, StateWithPc DEF Pcs
    <3>2. cons' = [cons EXCEPT ![c] = new]
      BY <2>5 DEF Goes
    <3> HIDE DEF new
    <3>3. /\ cons'[c] = new /\ \A d \in Consumers : d # c => cons'[d] = cons[d]
      BY <1>1, <3>2
    <3>4. CopiesOK'
      BY <1>1, <2>1, <2>3, <3>1, <3>3 DEF CopiesOK, Remembered
    <3>5. QED
      BY <1>2, <2>1, <2>3, <2>5, <3>1, <3>2, <3>4, HandlerGoesOn
  <2>6. QED
    BY <1>5, <2>4, <2>5 DEF RobotsStore, Verdict, HandlerEndsWithWrite
<1>6. QED
  BY <1>3, <1>4, <1>5

\* The cached copy expires, or the site changes its robots.txt: only when nobody
\* has a copy does a new epoch begin.
LEMMA SiteStep ==
  ASSUME ProcInv, CacheExpires \/ SiteChanges
  PROVE  ProcInv'
<1>1. /\ cons \in [Consumers -> ConsumerState] /\ proc \in [Procs -> ProcStates]
      /\ RobotsTypes /\ CopiesOK
  BY DEF ProcInv, FetchTypeOK, RobotsTypes, ProcStates
<1>2. UNCHANGED procVars
  BY DEF CacheExpires, SiteChanges
<1>3. RobotsTypes'
  BY <1>1, ProcessAssumption DEF CacheExpires, SiteChanges, RobotsTypes, Versions
<1>4. CopiesOK'
  <2>1. CASE CacheExpires
    BY <1>1, <1>2, <2>1 DEF CacheExpires, CopiesOK, Remembered, NoCopies, procVars
  <2>2. CASE SiteChanges
    <3>1. site \in Nat /\ epoch \in Nat /\ cache \in Nat
      BY <1>1 DEF RobotsTypes, Versions
    <3>2. CASE NoCopies /\ cache = 0
      BY <1>2, <2>2, <3>2 DEF SiteChanges, CopiesOK, NoCopies, procVars
    <3>3. CASE ~(NoCopies /\ cache = 0)
      <4>1. site' = site + 1 /\ epoch' = epoch /\ cache' = cache /\ cons' = cons
        BY <1>2, <2>2, <3>3 DEF SiteChanges, procVars
      <4>2. \A v : Remembered(v) => v \in epoch' .. site' /\ Served[v] # "down"
        BY <3>1, <4>1 DEF Remembered
      <4>3. QED
        BY <1>1, <4>1, <4>2 DEF CopiesOK, Remembered
    <3>4. QED
      BY <3>2, <3>3
  <2>3. QED
    BY <2>1, <2>2
<1>5. OpenOK'
  BY <1>2, OpenStays DEF procVars
<1>6. QED
  BY <1>1, <1>2, <1>3, <1>4, <1>5, QuietStep DEF procVars

\* Who has the state "limit" or "wait" has a message, and a bucket for it.
LEMMA BucketOfWaiting ==
  ASSUME ProcInv, NEW c \in Consumers, cons[c].pc \in Stages
  PROVE  cons[c].m \in Msgs /\ Bucket(c) \in Keys
<1>1. cons[c].m \in Msgs
  BY DEF ProcInv, FetchTypeOK, HandsOK, ConsumerState, Stages
<1>2. QED
  BY <1>1, BucketType

\* The states of the consumers after one of them was admitted.
LEMMA AdmittedStates ==
  ASSUME ProcInv, NEW c \in Consumers, cons[c].pc \in Stages, Admitted(c)
  PROVE  /\ cons' \in [Consumers -> ConsumerState]
         /\ cons'[c].pc = "fetch" /\ cons'[c].m = cons[c].m
         /\ \A d \in Consumers \ {c} :
              /\ cons'[d].pc = cons[d].pc /\ cons'[d].m = cons[d].m
              /\ cons'[d].wait = cons[d].wait /\ cons'[d].copy = cons[d].copy
              /\ cons'[d].lost = cons[d].lost \/ cons'[d].lost
              /\ cons[d].pc = "wait" /\ Bucket(d) = Bucket(c) => cons'[d].lost
<1>1. cons \in [Consumers -> ConsumerState] /\ Attempts \in Nat
  BY ProcessAssumption DEF ProcInv, FetchTypeOK, Attempts, AttemptsOf
<1> DEFINE mine == [cons[c] EXCEPT !.pc = "fetch", !.tries = 0]
<1> DEFINE others(d) == [cons[d] EXCEPT !.lost = TRUE]
<1>2. mine \in ConsumerState /\ mine.pc = "fetch" /\ mine.m = cons[c].m
  <2>1. cons[c] \in ConsumerState /\ 0 \in 0 .. Attempts
    BY <1>1
  <2>2. QED
    BY <2>1 DEF ConsumerState, Stages
<1>3. ASSUME NEW d \in Consumers
      PROVE  /\ others(d) \in ConsumerState
             /\ others(d).pc = cons[d].pc /\ others(d).m = cons[d].m
             /\ others(d).wait = cons[d].wait /\ others(d).copy = cons[d].copy
             /\ others(d).lost
  <2>1. cons[d] \in ConsumerState
    BY <1>1
  <2>2. others(d) \in ConsumerState /\ others(d).lost = TRUE
    BY <2>1 DEF ConsumerState
  <2>3. QED
    BY <2>1, <2>2 DEF ConsumerState
<1>4. cons' = [d \in Consumers |->
                 IF d = c THEN mine
                 ELSE IF cons[d].pc = "wait" /\ Bucket(d) = Bucket(c) THEN others(d)
                 ELSE cons[d]]
  BY DEF Admitted
<1> HIDE DEF mine, others
<1>5. cons' \in [Consumers -> ConsumerState]
  BY <1>1, <1>2, <1>3, <1>4
<1>6. cons'[c] = mine
  BY <1>4
<1>7. ASSUME NEW d \in Consumers \ {c}
      PROVE  /\ cons'[d].pc = cons[d].pc /\ cons'[d].m = cons[d].m
             /\ cons'[d].wait = cons[d].wait /\ cons'[d].copy = cons[d].copy
             /\ cons'[d].lost = cons[d].lost \/ cons'[d].lost
             /\ cons[d].pc = "wait" /\ Bucket(d) = Bucket(c) => cons'[d].lost
  <2>1. CASE cons[d].pc = "wait" /\ Bucket(d) = Bucket(c)
    <3>1. cons'[d] = others(d)
      BY <1>4, <2>1
    <3>2. QED
      BY <1>3, <3>1
  <2>2. CASE ~(cons[d].pc = "wait" /\ Bucket(d) = Bucket(c))
    <3>1. cons'[d] = cons[d]
      BY <1>4, <2>2
    <3>2. QED
      BY <2>2, <3>1
  <2>3. QED
    BY <2>1, <2>2
<1>8. QED
  BY <1>2, <1>5, <1>6, <1>7

\* A consumer is admitted.
LEMMA AdmittedStep ==
  ASSUME ProcInv, NEW c \in Consumers, cons[c].pc \in Stages, Admitted(c), UNCHANGED robotsVars
  PROVE  ProcInv'
<1>1. proc \in [Procs -> ProcStates]
  BY DEF ProcInv, FetchTypeOK, ProcStates
<1>2. \A d \in Consumers :
        /\ cons'[d].m = cons[d].m
        /\ cons'[d].pc \in Stages <=> cons[d].pc \in Stages
        /\ cons'[d].pc \in {"idle", "returned"} <=> cons[d].pc \in {"idle", "returned"}
        /\ cons'[d].pc = "store" => cons[d].pc = "store" /\ cons'[d].copy = cons[d].copy
        /\ cons'[d].pc = "returned" => cons[d].pc = "returned"
  <2>1. \A d \in Consumers \ {c} :
          cons'[d].pc = cons[d].pc /\ cons'[d].m = cons[d].m /\ cons'[d].copy = cons[d].copy
    BY AdmittedStates
  <2>2. cons'[c].pc = "fetch" /\ cons'[c].m = cons[c].m
    BY AdmittedStates
  <2>3. QED
    BY <2>1, <2>2 DEF Stages
<1>3. RobotsTypes' /\ CopiesOK'
  BY <1>2, CopiesStay
<1>4. cons' \in [Consumers -> ConsumerState] /\ UNCHANGED <<proc, active, queue, settled, open>>
  BY AdmittedStates DEF Admitted
<1>5. OpenOK'
  BY <1>2, <1>4, OpenStays
<1>6. QED
  BY <1>1, <1>2, <1>3, <1>4, <1>5, QuietStep

\* The states of the consumers after a tick.
LEMMA TickStates ==
  ASSUME ProcInv, Tick
  PROVE  /\ cons' \in [Consumers -> ConsumerState]
         /\ \A c \in Consumers :
              /\ cons'[c].pc = cons[c].pc /\ cons'[c].m = cons[c].m
              /\ cons'[c].copy = cons[c].copy /\ cons'[c].lost = cons[c].lost
              /\ cons'[c].wait = AtLeast(0, cons[c].wait - 1)
<1>1. cons \in [Consumers -> ConsumerState] /\ Unit \in Nat
  BY LimiterAssumption DEF ProcInv, FetchTypeOK
<1>2. ASSUME NEW c \in Consumers
      PROVE  /\ cons'[c] \in ConsumerState
             /\ cons'[c].pc = cons[c].pc /\ cons'[c].m = cons[c].m
             /\ cons'[c].copy = cons[c].copy /\ cons'[c].lost = cons[c].lost
             /\ cons'[c].wait = AtLeast(0, cons[c].wait - 1)
  <2>1. PICK w : w = AtLeast(0, cons[c].wait - 1)
    OBVIOUS
  <2>2. cons[c] \in ConsumerState /\ w \in 0 .. MaxWait
    BY <1>1, <2>1 DEF ConsumerState, AtLeast, MaxWait
  <2>3. cons'[c] = [cons[c] EXCEPT !.wait = w]
    BY <2>1 DEF Tick
  <2>4. /\ [cons[c] EXCEPT !.wait = w] \in ConsumerState
        /\ [cons[c] EXCEPT !.wait = w].pc = cons[c].pc /\ [cons[c] EXCEPT !.wait = w].m = cons[c].m
        /\ [cons[c] EXCEPT !.wait = w].copy = cons[c].copy
        /\ [cons[c] EXCEPT !.wait = w].lost = cons[c].lost
        /\ [cons[c] EXCEPT !.wait = w].wait = w
    BY <2>2 DEF ConsumerState
  <2>5. QED
    BY <2>1, <2>3, <2>4
<1>3. cons' = [c \in Consumers |-> cons'[c]]
  BY DEF Tick
<1>4. QED
  BY <1>2, <1>3

\* The rate limit.
LEMMA LimitStep ==
  ASSUME ProcInv, LimiterTypeOK, NEW c \in Consumers, LimitCheck(c) \/ LimitCheckAgain(c)
  PROVE  ProcInv'
<1>1. /\ cons \in [Consumers -> ConsumerState] /\ cons[c] \in ConsumerState
      /\ cons[c].pc \in Stages /\ cons[c].pc # "store" /\ UNCHANGED robotsVars
  BY DEF ProcInv, FetchTypeOK, LimitCheck, LimitCheckAgain, Stages
<1>2. CASE Admitted(c)
  BY <1>1, <1>2, AdmittedStep
<1>3. CASE HandlerEnds(c, "nack") \/ HandlerEnds(c, "limited")
  BY <1>1, <1>3, ReturnsStep DEF Ends
<1>4. CASE /\ Refuse(Bucket(c))
           /\ cons' = [cons EXCEPT ![c] = [@ EXCEPT !.pc = "wait", !.wait = RetryAfter(Bucket(c)), !.lost = FALSE]]
           /\ UNCHANGED <<proc, active, queue, settled, open>>
  <2>1. PICK w \in 0 .. MaxWait : w = RetryAfter(Bucket(c))
    BY <1>1, <1>4, BucketOfWaiting, RetryAfterIsEnough DEF Refuse
  <2> DEFINE new == [cons[c] EXCEPT !.pc = "wait", !.wait = w, !.lost = FALSE]
  <2>2. new \in ConsumerState /\ new.pc = "wait" /\ new.m = cons[c].m
    BY <1>1, StateToWait
  <2>3. cons' = [cons EXCEPT ![c] = new]
    BY <1>4, <2>1
  <2> HIDE DEF new
  <2>4. RobotsTypes' /\ CopiesOK'
    BY <1>1, <2>2, <2>3, CopiesStay
  <2>5. new.pc \in Stages
    BY <2>2 DEF Stages
  <2>6. QED
    BY <1>1, <1>4, <2>2, <2>3, <2>4, <2>5, HandlerGoesOn
<1>5. QED
  BY <1>2, <1>3, <1>4 DEF LimitCheck, LimitCheckAgain

\* An attempt of the fetcher.
LEMMA FetchStep ==
  ASSUME ProcInv, NEW c \in Consumers, FetchAttempt(c)
  PROVE  ProcInv'
<1>1. /\ cons \in [Consumers -> ConsumerState] /\ cons[c] \in ConsumerState
      /\ cons[c].pc = "fetch" /\ cons[c].pc \in Stages /\ UNCHANGED robotsVars
  BY DEF ProcInv, FetchTypeOK, FetchAttempt, Stages
<1>2. CASE HandlerEnds(c, "nack") \/ HandlerEnds(c, "ack")
  BY <1>1, <1>2, ReturnsStep DEF Ends
<1>3. CASE TryAgain(c, cons[c].tries + 1)
  <2> DEFINE new == [cons[c] EXCEPT !.tries = cons[c].tries + 1]
  <2>1. cons[c].tries + 1 \in 0 .. Attempts
    BY <1>1, <1>3, ProcessAssumption DEF ConsumerState, TryAgain, Attempts, AttemptsOf
  <2>2. new \in ConsumerState /\ new.pc = cons[c].pc /\ new.m = cons[c].m
    BY <1>1, <2>1 DEF ConsumerState
  <2>3. cons' = [cons EXCEPT ![c] = new]
    BY <1>3 DEF TryAgain
  <2> HIDE DEF new
  <2>4. RobotsTypes' /\ CopiesOK'
    BY <1>1, <2>2, <2>3, CopiesStay
  <2>5. QED
    BY <1>1, <1>3, <2>2, <2>3, <2>4, HandlerGoesOn DEF TryAgain
<1>4. QED
  BY <1>2, <1>3 DEF FetchAttempt, RetriesExhausted, HandlerEndsWithWrite

\* Every step keeps the messages, the counts and the copies in order.
LEMMA ProcInvStep ==
  ASSUME ProcInv, LimiterTypeOK, [FetchNext]_fetchVars
  PROVE  ProcInv'
<1>1. /\ FetchTypeOK /\ cons \in [Consumers -> ConsumerState] /\ proc \in [Procs -> ProcStates]
      /\ \A c \in Consumers : cons[c] \in ConsumerState
  BY DEF ProcInv, FetchTypeOK, ProcStates
<1>2. ASSUME NEW c \in Consumers, Return(c) PROVE ProcInv'
  <2> DEFINE new == [cons[c] EXCEPT !.pc = "returned"]
  <2>1. new \in ConsumerState /\ new.pc = "returned" /\ new.m = cons[c].m
    BY <1>1, StateWithPc DEF Pcs
  <2>2. /\ cons' = [cons EXCEPT ![c] = new] /\ cons[c].pc = "idle" /\ cons[c].m = NoMsg
        /\ open' = open \ {c} /\ UNCHANGED <<proc, active, queue, settled, robotsVars>>
    BY <1>2 DEF Return, Goes, ProcInv, HandsOK
  <2> HIDE DEF new
  <2>3. /\ cons' \in [Consumers -> ConsumerState] /\ cons'[c] = new
        /\ \A d \in Consumers : d # c => cons'[d] = cons[d]
    BY <1>1, <2>1, <2>2
  <2>4. RobotsTypes' /\ CopiesOK'
    BY <2>1, <2>2, <2>3, CopiesStay
  <2>5. \A d \in Consumers :
          /\ cons'[d].m = cons[d].m
          /\ cons[d].m # NoMsg => (d \in open' <=> d \in open)
          /\ cons'[d].pc \in Stages <=> cons[d].pc \in Stages
          /\ cons'[d].pc \in {"idle", "returned"} <=> cons[d].pc \in {"idle", "returned"}
    BY <2>1, <2>2, <2>3 DEF Stages
  <2>6. OpenOK'
    BY <1>1, <2>2, <2>3 DEF FetchTypeOK, OpenOK
  <2>7. QED
    BY <1>1, <2>2, <2>3, <2>4, <2>5, <2>6, QuietStep
<1>r. ASSUME NEW c \in Consumers, Reconnect(c) PROVE ProcInv'
  <2>1. /\ cons[c].pc = "idle" /\ cons[c].m = NoMsg /\ open' = open \cup {c}
        /\ UNCHANGED <<proc, cons, active, queue, settled, robotsVars>>
    BY <1>r DEF Reconnect, ProcInv, HandsOK
  <2>2. RobotsTypes' /\ CopiesOK'
    BY <2>1, CopiesStay
  <2>3. OpenOK'
    BY <1>1, <2>1 DEF FetchTypeOK, OpenOK
  <2>4. QED
    BY <1>1, <2>1, <2>2, <2>3, QuietStep
<1>3. ASSUME NEW c \in Consumers, Lookup(c) PROVE ProcInv'
  <2>1. cons[c].pc \in Stages /\ {"ack", "nack"} \subseteq Ends /\ {"robots", "limit"} \subseteq Stages \ {"store"}
    BY <1>3 DEF Lookup, Stages, Ends
  <2>2. PICK p \in {"robots", "limit"} : p = IF cons[c].m \in Obeying THEN "robots" ELSE "limit"
    OBVIOUS
  <2>3. QED
    BY <1>3, <2>1, <2>2, GoesStep, ReturnsStep DEF Lookup
<1>4. CASE Tick
  <2>1. UNCHANGED <<proc, active, queue, settled, open, robotsVars>>
    BY <1>4 DEF Tick
  <2>2. RobotsTypes' /\ CopiesOK'
    BY <1>4, <2>1, TickStates, CopiesStay
  <2>3. OpenOK'
    BY <1>4, <2>1, TickStates, OpenStays
  <2>4. QED
    BY <1>1, <1>4, <2>1, <2>2, <2>3, TickStates, QuietStep
<1>5. ASSUME NEW p \in Procs, BeginDrain(p) \/ DrainPoll(p) \/ Stop(p) PROVE ProcInv'
  <2>1. UNCHANGED <<cons, active, queue, settled, open, robotsVars>> /\ proc' \in [Procs -> ProcStates]
    BY <1>1, <1>5 DEF BeginDrain, DrainPoll, Stop, ProcStates
  <2>2. RobotsTypes' /\ CopiesOK' /\ OpenOK'
    BY <2>1, CopiesStay, OpenStays
  <2>3. QED
    BY <1>1, <2>1, <2>2, QuietStep
<1>6. ASSUME NEW p \in Procs, Close(p) \/ Kill(p) PROVE ProcInv'
  BY <1>6, GoneStep DEF Close, Kill, ProcStates
<1>7. CASE UNCHANGED fetchVars
  <2>1. UNCHANGED <<proc, cons, active, queue, settled, open, robotsVars>>
    BY <1>7 DEF fetchVars, robotsVars
  <2>2. RobotsTypes' /\ CopiesOK' /\ OpenOK'
    BY <2>1, CopiesStay, OpenStays
  <2>3. QED
    BY <1>1, <2>1, <2>2, QuietStep
<1>8. QED
  BY <1>2, <1>r, <1>3, <1>4, <1>5, <1>6, <1>7, DeliverStep, HandlerBegins, AnswerStep, LoseStep,
     RobotsStep, SiteStep, LimitStep, FetchStep
  DEF FetchNext

-----------------------------------------------------------------------------
(* Waiting for a bucket.                                                    *)

\* What a call will find in a bucket is a number, also after a refusal.
LEMMA RefilledType ==
  ASSUME LimiterTypeOK, NEW k \in Keys, Refuse(k)
  PROVE  \A j \in Keys : Refilled(j)' \in Int
<1>1. LimiterTypeOK'
  BY LimiterTypeStep DEF LimiterNext
<1> SUFFICES ASSUME NEW j \in Keys PROVE Refilled(j)' \in Int
  OBVIOUS
<1>2. bucket'[j].tokens \in Nat /\ bucket'[j].age \in Nat /\ Rate[j] \in Nat /\ Capacity(j) \in Nat
  BY <1>1, LimiterAssumption, CapacityAtLeastUnit DEF LimiterTypeOK
<1>3. bucket'[j].tokens + bucket'[j].age * Rate[j] \in Nat
  BY <1>2
<1>4. QED
  BY <1>2, <1>3 DEF Refilled, AtMost, Capacity

\* A bucket that was just written holds what was written, or is full.
LEMMA RefilledAtLeastWritten ==
  ASSUME LimiterTypeOK, NEW k \in Keys, NEW t \in Nat, t <= Capacity(k), Write(k, t)
  PROVE  Refilled(k)' >= t
<1>1. bucket'[k].tokens = t /\ bucket'[k].age = 0
  BY DEF Write, LimiterTypeOK
<1>2. Rate[k] \in Nat /\ Capacity(k) \in Nat
  BY LimiterAssumption, CapacityAtLeastUnit
<1>3. bucket'[k].tokens + bucket'[k].age * Rate[k] = t
  BY <1>1, <1>2
<1>4. QED
  BY <1>2, <1>3 DEF Refilled, AtMost, Capacity

\* A tick gives a bucket all that the rate says, or leaves it full.
LEMMA RefilledGrows ==
  ASSUME LimiterTypeOK, TickBuckets, NEW k \in Keys
  PROVE  /\ Refilled(k)' >= Capacity(k) \/ Refilled(k)' >= Refilled(k) + Rate[k]
         /\ Refilled(k)' \in Nat
<1> DEFINE tokens == bucket[k].tokens
           age == bucket[k].age
<1>1. tokens \in Nat /\ age \in 0 .. TTL + 1 /\ Rate[k] \in Nat /\ Capacity(k) \in Nat /\ TTL \in Nat
  BY LimiterAssumption, CapacityAtLeastUnit DEF LimiterTypeOK
<1>2. bucket'[k].tokens = tokens /\ bucket'[k].age = AtMost(TTL + 1, age + 1)
  BY DEF TickBuckets, LimiterTypeOK
<1>3. CASE Forgotten(k)'
  BY <1>1, <1>3 DEF Refilled, Capacity
<1>4. CASE ~Forgotten(k)'
  <2>1. ~Forgotten(k) /\ bucket'[k].age = age + 1
    BY <1>1, <1>2, <1>4 DEF Forgotten, AtMost
  <2>2. (age + 1) * Rate[k] = age * Rate[k] + Rate[k] /\ age * Rate[k] \in Nat
    BY <1>1
  <2>3. Refilled(k) = AtMost(Capacity(k), tokens + age * Rate[k])
    BY <2>1 DEF Refilled
  <2>4. Refilled(k)' = AtMost(Capacity(k), tokens + (age + 1) * Rate[k])
    BY <1>2, <1>4, <2>1 DEF Refilled, Capacity
  <2>5. QED
    BY <1>1, <2>2, <2>3, <2>4 DEF AtMost
<1>5. QED
  BY <1>3, <1>4

\* A call that says no takes nothing from any bucket.
LEMMA RefusalTakesNothing ==
  ASSUME LimiterTypeOK, NEW k \in Keys, Refuse(k), NEW j \in Keys
  PROVE  Refilled(j)' >= Refilled(j)
<1>1. Refilled(j) \in Nat /\ Refilled(k) \in Nat /\ Refilled(k) <= Capacity(k)
  BY RefilledBounds
<1>2. CASE j = k
  BY <1>1, <1>2, RefilledAtLeastWritten DEF Refuse
<1>3. CASE j # k
  <2>1. Refilled(j)' = Refilled(j)
    BY <1>3, OtherBuckets DEF Refuse
  <2>2. QED
    BY <1>1, <2>1
<1>4. QED
  BY <1>2, <1>3

\* A consumer that waits, with all that its waiting rests on.
WaitFor(c, k) ==
  /\ cons[c].pc = "wait" /\ ~cons[c].lost /\ k \in Keys
  /\ k = Bucket(c)
  /\ cons[c].wait \in Nat /\ Refilled(k) \in Nat
  /\ Refilled(k) + cons[c].wait * Rate[k] >= Unit

\* What the invariant says of one that waits.
LEMMA Waiting ==
  ASSUME FetchInv, NEW c \in Consumers, cons[c].pc = "wait", ~cons[c].lost
  PROVE  \E k \in Keys : WaitFor(c, k)
<1>1. Bucket(c) \in Keys
  BY BucketOfWaiting DEF FetchInv, Stages
<1>2. Refilled(Bucket(c)) \in Nat
  BY <1>1, RefilledBounds DEF FetchInv, LimiterInvariant
<1>3. cons[c].wait \in Nat
  BY LimiterAssumption DEF FetchInv, ProcInv, FetchTypeOK, ConsumerState, MaxWait
<1>4. QED
  BY <1>1, <1>2, <1>3 DEF WaitFor, FetchInv, WaitOK

\* The bucket of a consumer that keeps its message.
LEMMA SameBucket ==
  ASSUME NEW c \in Consumers, NEW k, k = Bucket(c), cons'[c].m = cons[c].m,
         Refilled(k)' + cons'[c].wait * Rate[k] >= Unit
  PROVE  (Refilled(Bucket(c)) + cons[c].wait * Rate[Bucket(c)] >= Unit)'
<1>1. Bucket(c)' = k
  BY DEF Bucket
<1>2. Refilled(Bucket(c))' = Refilled(k)'
  BY <1>1 DEF Refilled, Forgotten, Capacity
<1>3. QED
  BY <1>1, <1>2

\* Nobody begins to wait or is refused a second time.
Calm == \A c \in Consumers : cons'[c].pc \in {"wait", "limited"} => cons'[c] = cons[c]

\* Steps that have nothing to do with the limiter.
LEMMA CalmStep ==
  ASSUME FetchInv, Calm, UNCHANGED limiterVars
  PROVE  WaitOK' /\ WaitIsEnough'
<1>1. \A k : Refilled(k)' = Refilled(k)
  BY DEF limiterVars, Refilled, Forgotten, Capacity
<1>2. \A c \in Consumers : cons'[c] = cons[c] => Bucket(c)' = Bucket(c)
  BY DEF Bucket
<1>3. WaitOK'
  BY <1>1, <1>2 DEF FetchInv, WaitOK, Calm
<1>4. WaitIsEnough'
  BY DEF FetchInv, WaitIsEnough, Calm
<1>5. QED
  BY <1>3, <1>4

\* One consumer changes, and does not begin to wait.
LEMMA OneIsCalm ==
  ASSUME FetchInv, NEW c \in Consumers, NEW new, cons' = [cons EXCEPT ![c] = new],
         new.pc \notin {"wait", "limited"}
  PROVE  Calm
  BY DEF FetchInv, ProcInv, FetchTypeOK, Calm

\* The ways to go on or to end a handler that are calm.
LEMMA GoesIsCalm ==
  ASSUME FetchInv, NEW c \in Consumers, NEW p \in Pcs \ {"wait", "limited"},
         Goes(c, p) \/ HandlerEnds(c, p)
  PROVE  Calm
<1>1. cons[c] \in ConsumerState
  BY DEF FetchInv, ProcInv, FetchTypeOK
<1>2. CASE Goes(c, p)
  <2> DEFINE new == [cons[c] EXCEPT !.pc = p]
  <2>1. new.pc = p /\ cons' = [cons EXCEPT ![c] = new]
    BY <1>1, <1>2, StateWithPc DEF Goes
  <2> HIDE DEF new
  <2>2. QED
    BY <2>1, OneIsCalm
<1>3. CASE HandlerEnds(c, p)
  <2> DEFINE new == EndState(cons[c], p)
  <2>1. new.pc = p /\ cons' = [cons EXCEPT ![c] = new]
    BY <1>1, <1>3, StateAtEnd DEF HandlerEnds, EndState
  <2> HIDE DEF new
  <2>2. QED
    BY <2>1, OneIsCalm
<1>4. QED
  BY <1>2, <1>3

\* A consumer is admitted: whoever waits for the same bucket has lost its place.
LEMMA AdmittedWait ==
  ASSUME FetchInv, NEW c \in Consumers, cons[c].pc \in Stages, Admitted(c)
  PROVE  WaitOK' /\ WaitIsEnough'
<1>0. ProcInv /\ LimiterTypeOK
  BY DEF FetchInv, LimiterInvariant
<1>1. /\ cons'[c].pc = "fetch"
      /\ \A d \in Consumers \ {c} :
           /\ cons'[d].pc = cons[d].pc /\ cons'[d].m = cons[d].m /\ cons'[d].wait = cons[d].wait
           /\ cons'[d].lost = cons[d].lost \/ cons'[d].lost
           /\ cons[d].pc = "wait" /\ Bucket(d) = Bucket(c) => cons'[d].lost
  BY <1>0, AdmittedStates
<1>2. WaitIsEnough'
  BY <1>1 DEF FetchInv, WaitIsEnough
<1>3. ASSUME NEW d \in Consumers, cons'[d].pc = "wait", ~cons'[d].lost
      PROVE  (Refilled(Bucket(d)) + cons[d].wait * Rate[Bucket(d)] >= Unit)'
  <2>1. d # c /\ cons[d].pc = "wait" /\ ~cons[d].lost /\ Bucket(d) # Bucket(c)
    BY <1>1, <1>3
  <2>2. PICK k \in Keys : WaitFor(d, k)
    BY <2>1, Waiting
  <2>3. PICK j \in Keys : j = Bucket(c)
    BY <1>0, BucketOfWaiting
  <2>4. Refilled(k)' = Refilled(k)
    <3>1. CASE UNCHANGED limiterVars
      BY <3>1 DEF limiterVars, Refilled, Forgotten, Capacity
    <3>2. ASSUME NEW t, Write(j, t) PROVE Refilled(k)' = Refilled(k)
      BY <1>0, <2>1, <2>2, <2>3, <3>2, OtherBuckets DEF WaitFor
    <3>3. Admit(j)
      BY <2>3 DEF Admitted
    <3>4. QED
      BY <3>1, <3>2, <3>3 DEF Admit
  <2>5. Refilled(k)' + cons'[d].wait * Rate[k] >= Unit /\ k = Bucket(d) /\ cons'[d].m = cons[d].m
    BY <1>1, <2>1, <2>2, <2>4 DEF WaitFor
  <2>6. QED
    BY <2>5, SameBucket
<1>4. QED
  BY <1>2, <1>3 DEF WaitOK

\* A refusal: the wait that it asks for is enough, and a second one only comes
\* to those that have lost their place.
LEMMA RefusedWait ==
  ASSUME FetchInv, NEW c \in Consumers, NEW k \in Keys, k = Bucket(c), cons[c].pc \in Stages,
         Refuse(k), \A d \in Consumers \ {c} : cons'[d] = cons[d],
         \/ /\ cons'[c].pc = "wait" /\ cons'[c].m = cons[c].m
            /\ cons'[c].wait = RetryAfter(k)
         \/ /\ cons[c].pc = "wait" /\ cons[c].wait = 0
            /\ cons'[c].pc = "limited" /\ cons'[c].lost = cons[c].lost
  PROVE  WaitOK' /\ WaitIsEnough'
<1>0. ProcInv /\ LimiterTypeOK /\ Rate[k] > 0 /\ Rate[k] \in Nat /\ Refilled(k) < Unit
      /\ Unit \in Nat /\ Refilled(k) \in Nat
  BY RefilledBounds, LimiterAssumption DEF FetchInv, LimiterInvariant, Refuse
<1>1. WaitIsEnough'
  <2> SUFFICES ASSUME cons'[c].pc = "limited" PROVE cons'[c].lost
    BY DEF FetchInv, WaitIsEnough
  <2>1. cons[c].pc = "wait" /\ cons[c].wait = 0 /\ cons'[c].lost = cons[c].lost
    OBVIOUS
  <2>2. ASSUME ~cons[c].lost PROVE FALSE
    <3>1. PICK j \in Keys : WaitFor(c, j)
      BY <2>1, <2>2, Waiting
    <3>2. j = k /\ Refilled(k) + 0 * Rate[k] >= Unit
      BY <2>1, <3>1 DEF WaitFor
    <3>3. QED
      BY <1>0, <3>2
  <2>3. QED
    BY <2>1, <2>2
<1>2. ASSUME NEW d \in Consumers, cons'[d].pc = "wait", ~cons'[d].lost
      PROVE  (Refilled(Bucket(d)) + cons[d].wait * Rate[Bucket(d)] >= Unit)'
  <2>1. \A j \in Keys : Refilled(j)' >= Refilled(j)
    BY <1>0, RefusalTakesNothing
  <2>2. \A j \in Keys : Refilled(j)' \in Int
    BY <1>0, RefilledType
  <2>3. CASE d = c
    <3>1. RetryAfter(k) \in 0 .. MaxWait /\ Refilled(k) + RetryAfter(k) * Rate[k] >= Unit
      BY <1>0, RetryAfterIsEnough
    <3>2. RetryAfter(k) * Rate[k] \in Int
      BY <1>0, <3>1 DEF MaxWait
    <3>3. cons'[c].m = cons[c].m /\ cons'[c].wait = RetryAfter(k)
      BY <1>2, <2>3
    <3>4. Refilled(k)' + cons'[c].wait * Rate[k] >= Unit
      BY <1>0, <2>1, <2>2, <3>1, <3>2, <3>3
    <3>5. QED
      BY <2>3, <3>3, <3>4, SameBucket
  <2>4. CASE d # c
    <3>1. cons'[d] = cons[d]
      BY <2>4
    <3>2. PICK j \in Keys : WaitFor(d, j)
      BY <1>2, <3>1, Waiting
    <3>3. /\ j = Bucket(d) /\ cons[d].wait * Rate[j] \in Nat /\ Refilled(j) \in Nat
          /\ Refilled(j) + cons[d].wait * Rate[j] >= Unit
      BY <3>2, LimiterAssumption DEF WaitFor
    <3>4. Refilled(j)' + cons'[d].wait * Rate[j] >= Unit
      BY <1>0, <2>1, <2>2, <3>1, <3>3
    <3>5. QED
      BY <3>1, <3>3, <3>4, SameBucket
  <2>5. QED
    BY <2>3, <2>4
<1>3. QED
  BY <1>1, <1>2 DEF WaitOK

\* A tick shortens a wait by as much as the rate adds to the bucket.
LEMMA TickWait ==
  ASSUME FetchInv, Tick
  PROVE  WaitOK' /\ WaitIsEnough'
<1>0. ProcInv /\ LimiterTypeOK /\ TickBuckets
  BY DEF FetchInv, LimiterInvariant, Tick
<1>1. \A c \in Consumers :
        /\ cons'[c].pc = cons[c].pc /\ cons'[c].m = cons[c].m /\ cons'[c].lost = cons[c].lost
        /\ cons'[c].wait = AtLeast(0, cons[c].wait - 1)
  BY <1>0, TickStates
<1>2. WaitIsEnough'
  BY <1>1 DEF FetchInv, WaitIsEnough
<1>3. ASSUME NEW d \in Consumers, cons'[d].pc = "wait", ~cons'[d].lost
      PROVE  (Refilled(Bucket(d)) + cons[d].wait * Rate[Bucket(d)] >= Unit)'
  <2>1. PICK k \in Keys : WaitFor(d, k)
    BY <1>1, <1>3, Waiting
  <2>2. /\ k = Bucket(d) /\ cons[d].wait \in Nat /\ Rate[k] \in Nat /\ Refilled(k) \in Nat
        /\ Refilled(k) + cons[d].wait * Rate[k] >= Unit
        /\ Capacity(k) \in Nat /\ Capacity(k) >= Unit /\ Unit \in Nat
    BY <2>1, LimiterAssumption, CapacityAtLeastUnit DEF WaitFor
  <2>3. /\ Refilled(k)' >= Capacity(k) \/ Refilled(k)' >= Refilled(k) + Rate[k]
        /\ Refilled(k)' \in Nat
    BY <1>0, RefilledGrows
  <2> DEFINE w == cons[d].wait
  <2>4. CASE w = 0
    <3>1. cons'[d].wait = 0 /\ 0 * Rate[k] = 0
      BY <1>1, <2>2, <2>4 DEF AtLeast
    <3>2. QED
      BY <1>1, <2>2, <2>3, <2>4, <3>1, SameBucket
  <2>5. CASE w > 0
    <3>1. cons'[d].wait = w - 1 /\ w - 1 \in Nat
      BY <1>1, <2>2, <2>5 DEF AtLeast
    <3>2. (w - 1) * Rate[k] = w * Rate[k] - Rate[k] /\ (w - 1) * Rate[k] \in Nat /\ w * Rate[k] \in Nat
      BY <2>2, <3>1
    <3>3. Refilled(k)' + (w - 1) * Rate[k] >= Unit
      BY <2>2, <2>3, <3>2
    <3>4. QED
      BY <1>1, <2>2, <3>1, <3>3, SameBucket
  <2>6. QED
    BY <2>2, <2>4, <2>5
<1>4. QED
  BY <1>2, <1>3 DEF WaitOK

\* Every step keeps what the waiting rests on.
LEMMA WaitStep ==
  ASSUME FetchInv, [FetchNext]_fetchVars
  PROVE  WaitOK' /\ WaitIsEnough'
<1>0. /\ ProcInv /\ cons \in [Consumers -> ConsumerState]
      /\ {"lookup", "robots", "download", "store", "limit", "fetch", "ack", "nack", "returned"}
           \subseteq Pcs \ {"wait", "limited"}
  BY DEF FetchInv, ProcInv, FetchTypeOK, Pcs, Stages, Ends
<1>1. ASSUME NEW c \in Consumers, Deliver(c) PROVE WaitOK' /\ WaitIsEnough'
  <2>1. PICK m \in Msgs : cons' = [cons EXCEPT ![c] = [IdleConsumer EXCEPT !.pc = "taken", !.m = m]]
    BY <1>0, <1>1 DEF Deliver, ProcInv, FetchTypeOK
  <2>2. [IdleConsumer EXCEPT !.pc = "taken", !.m = m].pc = "taken"
    BY IdleState DEF ConsumerState
  <2>3. QED
    BY <1>1, <2>1, <2>2, OneIsCalm, CalmStep DEF Deliver
<1>2. ASSUME NEW c \in Consumers, HandlerStarts(c) \/ Return(c) \/ Lookup(c) \/ RobotsLookup(c)
      PROVE  WaitOK' /\ WaitIsEnough'
  <2>1. \E p \in {"lookup", "robots", "download", "limit", "ack", "nack", "returned"} :
          Goes(c, p) \/ HandlerEnds(c, p)
    BY <1>2 DEF HandlerStarts, Return, Lookup, RobotsLookup, Verdict, HandlerEndsWithWrite
  <2>2. Calm
    BY <1>0, <2>1, GoesIsCalm
  <2>3. QED
    BY <1>2, <2>2, CalmStep DEF HandlerStarts, Return, Lookup, RobotsLookup
<1>3. ASSUME NEW c \in Consumers, Ack(c) \/ Nack(c) PROVE WaitOK' /\ WaitIsEnough'
  <2>1. cons' = [cons EXCEPT ![c] = IdleConsumer] /\ UNCHANGED limiterVars
    BY <1>3 DEF Ack, Nack
  <2>2. QED
    BY <2>1, IdleState, OneIsCalm, CalmStep
<1>4. ASSUME NEW c \in Consumers, RobotsReply(c) \/ RobotsStore(c) PROVE WaitOK' /\ WaitIsEnough'
  <2>1. CASE \E p \in {"limit", "ack", "nack"} : Goes(c, p) \/ HandlerEnds(c, p)
    <3>1. Calm
      BY <1>0, <2>1, GoesIsCalm
    <3>2. QED
      BY <1>4, <3>1, CalmStep DEF RobotsReply, RobotsStore
  <2>2. CASE cons' = [cons EXCEPT ![c] = [@ EXCEPT !.pc = "store", !.copy = site]]
    <3> DEFINE new == [cons[c] EXCEPT !.pc = "store", !.copy = site]
    <3>1. cons' = [cons EXCEPT ![c] = new]
      BY <2>2
    <3>2. new.pc = "store"
      BY <1>0 DEF ConsumerState
    <3> HIDE DEF new
    <3>3. Calm
      BY <3>1, <3>2, OneIsCalm
    <3>4. QED
      BY <1>4, <3>3, CalmStep DEF RobotsReply, RobotsStore
  <2>3. QED
    BY <1>4, <2>1, <2>2 DEF RobotsReply, RobotsStore, Verdict, HandlerEndsWithWrite
<1>l. ASSUME NEW c \in Consumers, LoseChannel(c) \/ Reconnect(c) PROVE WaitOK' /\ WaitIsEnough'
  <2>1. cons' = cons /\ UNCHANGED limiterVars
    BY <1>l DEF LoseChannel, Reconnect
  <2>2. QED
    BY <2>1, CalmStep DEF Calm
<1>5. CASE CacheExpires \/ SiteChanges
  <2>1. cons' = cons /\ UNCHANGED limiterVars
    BY <1>5 DEF CacheExpires, SiteChanges, procVars
  <2>2. QED
    BY <2>1, CalmStep DEF Calm
<1>6. ASSUME NEW c \in Consumers, LimitCheck(c) \/ LimitCheckAgain(c) PROVE WaitOK' /\ WaitIsEnough'
  <2>1. cons[c].pc \in Stages /\ cons[c] \in ConsumerState
    BY <1>0, <1>6 DEF LimitCheck, LimitCheckAgain, Stages
  <2>2. PICK k \in Keys : k = Bucket(c)
    BY <1>0, <2>1, BucketOfWaiting
  <2>3. CASE Admitted(c)
    BY <2>1, <2>3, AdmittedWait
  <2>4. CASE HandlerEnds(c, "nack") /\ UNCHANGED limiterVars
    <3>1. Calm
      BY <1>0, <2>4, GoesIsCalm
    <3>2. QED
      BY <2>4, <3>1, CalmStep
  <2>5. CASE /\ Refuse(Bucket(c))
             /\ cons' = [cons EXCEPT ![c] = [@ EXCEPT !.pc = "wait", !.wait = RetryAfter(Bucket(c)), !.lost = FALSE]]
    <3>1. PICK w \in 0 .. MaxWait : w = RetryAfter(k)
      BY <2>2, <2>5, RetryAfterIsEnough DEF FetchInv, LimiterInvariant, Refuse
    <3> DEFINE new == [cons[c] EXCEPT !.pc = "wait", !.wait = w, !.lost = FALSE]
    <3>2. cons' = [cons EXCEPT ![c] = new]
      BY <2>2, <2>5, <3>1
    <3>3. new.pc = "wait" /\ new.m = cons[c].m /\ new.wait = w
      BY <2>1, StateToWait
    <3> HIDE DEF new
    <3>4. cons'[c] = new /\ \A d \in Consumers \ {c} : cons'[d] = cons[d]
      BY <1>0, <3>2
    <3>5. QED
      BY <2>1, <2>2, <2>5, <3>1, <3>3, <3>4, RefusedWait
  <2>6. CASE Refuse(Bucket(c)) /\ HandlerEnds(c, "limited") /\ cons[c].pc = "wait" /\ cons[c].wait = 0
    <3> DEFINE new == EndState(cons[c], "limited")
    <3>1. cons' = [cons EXCEPT ![c] = new]
      BY <2>6 DEF HandlerEnds, EndState
    <3>2. new.pc = "limited" /\ new.lost = cons[c].lost
      BY <2>1, StateAtEnd DEF Pcs, Ends
    <3> HIDE DEF new
    <3>3. cons'[c] = new /\ \A d \in Consumers \ {c} : cons'[d] = cons[d]
      BY <1>0, <3>1
    <3>4. QED
      BY <2>1, <2>2, <2>6, <3>2, <3>3, RefusedWait
  <2>7. QED
    BY <1>6, <2>3, <2>4, <2>5, <2>6 DEF LimitCheck, LimitCheckAgain
<1>7. ASSUME NEW c \in Consumers, FetchAttempt(c) PROVE WaitOK' /\ WaitIsEnough'
  <2>1. CASE HandlerEnds(c, "ack") \/ HandlerEnds(c, "nack")
    <3>1. Calm
      BY <1>0, <2>1, GoesIsCalm
    <3>2. QED
      BY <1>7, <3>1, CalmStep DEF FetchAttempt
  <2>2. CASE TryAgain(c, cons[c].tries + 1)
    <3> DEFINE new == [cons[c] EXCEPT !.tries = cons[c].tries + 1]
    <3>1. cons' = [cons EXCEPT ![c] = new]
      BY <2>2 DEF TryAgain
    <3>2. new.pc = "fetch"
      BY <1>0, <1>7 DEF FetchAttempt, ConsumerState
    <3> HIDE DEF new
    <3>3. Calm
      BY <3>1, <3>2, OneIsCalm
    <3>4. QED
      BY <1>7, <3>3, CalmStep DEF FetchAttempt
  <2>3. QED
    BY <1>7, <2>1, <2>2 DEF FetchAttempt, RetriesExhausted, HandlerEndsWithWrite
<1>8. ASSUME NEW p \in Procs, BeginDrain(p) \/ DrainPoll(p) \/ Stop(p) PROVE WaitOK' /\ WaitIsEnough'
  <2>1. cons' = cons /\ UNCHANGED limiterVars
    BY <1>8 DEF BeginDrain, DrainPoll, Stop
  <2>2. QED
    BY <2>1, CalmStep DEF Calm
<1>9. ASSUME NEW p \in Procs, Close(p) \/ Kill(p) PROVE WaitOK' /\ WaitIsEnough'
  <2> DEFINE gone == [IdleConsumer EXCEPT !.pc = "returned"]
  <2>1. /\ cons' = [c \in Consumers |-> IF OwnerOf(c) = p THEN gone ELSE cons[c]]
        /\ UNCHANGED limiterVars
    BY <1>9 DEF Close, Kill, Gone
  <2>2. gone.pc = "returned"
    BY IdleState DEF ConsumerState
  <2> HIDE DEF gone
  <2>3. Calm
    BY <2>1, <2>2 DEF Calm
  <2>4. QED
    BY <2>1, <2>3, CalmStep
<1>10. CASE UNCHANGED fetchVars
  <2>1. cons' = cons /\ UNCHANGED limiterVars
    BY <1>10 DEF fetchVars, limiterVars
  <2>2. QED
    BY <2>1, CalmStep DEF Calm
<1>11. QED
  BY <1>1, <1>2, <1>3, <1>l, <1>4, <1>5, <1>6, <1>7, <1>8, <1>9, <1>10, TickWait DEF FetchNext

-----------------------------------------------------------------------------
(* The invariant of the whole, and the theorems.                            *)

\* To the limiter, a step of the workers is one of its calls, a tick or nothing.
LEMMA FetchStepsTheLimiter ==
  ASSUME ProcInv, [FetchNext]_fetchVars
  PROVE  LimiterNext \/ UNCHANGED limiterVars
<1>1. ASSUME NEW c \in Consumers, LimitCheck(c) \/ LimitCheckAgain(c)
      PROVE  LimiterNext \/ UNCHANGED limiterVars
  <2>1. PICK k \in Keys : k = Bucket(c)
    BY <1>1, BucketOfWaiting DEF LimitCheck, LimitCheckAgain, Stages
  <2>2. Admit(k) \/ Refuse(k) \/ UNCHANGED limiterVars
    BY <1>1, <2>1 DEF LimitCheck, LimitCheckAgain, Admitted
  <2>3. QED
    BY <2>2 DEF LimiterNext
<1>2. ASSUME NEW c \in Consumers,
             \/ Deliver(c) \/ HandlerStarts(c) \/ Ack(c) \/ Nack(c) \/ Return(c) \/ Lookup(c)
             \/ LoseChannel(c) \/ Reconnect(c)
             \/ RobotsLookup(c) \/ RobotsReply(c) \/ RobotsStore(c) \/ FetchAttempt(c)
      PROVE  UNCHANGED limiterVars
  BY <1>2 DEF Deliver, HandlerStarts, Ack, Nack, Return, Lookup, LoseChannel, Reconnect,
              RobotsLookup, RobotsReply, RobotsStore, FetchAttempt
<1>3. ASSUME NEW p \in Procs, BeginDrain(p) \/ DrainPoll(p) \/ Stop(p) \/ Close(p) \/ Kill(p)
      PROVE  UNCHANGED limiterVars
  BY <1>3 DEF BeginDrain, DrainPoll, Stop, Close, Kill, Gone
<1>4. CASE CacheExpires \/ SiteChanges \/ UNCHANGED fetchVars
  BY <1>4 DEF CacheExpires, SiteChanges, fetchVars, limiterVars
<1>5. CASE Tick
  BY <1>5 DEF Tick, LimiterNext
<1>6. QED
  BY <1>1, <1>2, <1>3, <1>4, <1>5 DEF FetchNext

\* The processes start with all messages in the queues.
LEMMA FetchInitOK == FetchInit => FetchInv
<1> SUFFICES ASSUME FetchInit PROVE FetchInv
  OBVIOUS
<1>1. /\ cons = [c \in Consumers |-> IdleConsumer] /\ active = [p \in Procs |-> 0]
      /\ queue = Msgs /\ settled = {} /\ open = Consumers /\ site = 1 /\ cache = 0 /\ epoch = 1
      /\ proc = [p \in Procs |-> "active"]
  BY DEF FetchInit
<1>2. \A c \in Consumers : cons[c].pc = "idle" /\ cons[c].m = NoMsg
  BY <1>1, IdleState
<1>3. \A p \in Procs : active[p] = Cardinality(Working(p))
  <2>1. \A p \in Procs : Working(p) = {}
    BY <1>2 DEF Working, Stages
  <2>2. QED
    BY <1>1, <2>1, FS_EmptySet
<1>4. FetchTypeOK
  BY <1>1, <1>2, <1>3, IdleState, ProcessAssumption DEF FetchTypeOK, Versions
<1>5. HandsOK /\ CopiesOK /\ WaitOK /\ WaitIsEnough
  BY <1>1, <1>2 DEF HandsOK, CopiesOK, WaitOK, WaitIsEnough
<1>6. \A m \in Msgs : OnePlace(m)
  BY <1>1, <1>2, ProcessAssumption DEF OnePlace, Holds, NoMsg
<1>7. LimiterInvariant
  BY LimiterInitHolds DEF FetchInit
<1>8. QED
  BY <1>4, <1>5, <1>6, <1>7 DEF FetchInv, ProcInv

LEMMA FetchInvariant == FetchProcessSpec => []FetchInv
<1>1. ASSUME FetchInv, [FetchNext]_fetchVars PROVE FetchInv'
  <2>1. ProcInv /\ LimiterInvariant /\ LimiterTypeOK
    BY <1>1 DEF FetchInv, LimiterInvariant
  <2>2. LimiterInvariant'
    <3>1. LimiterInvariant /\ UNCHANGED limiterVars => LimiterInvariant'
      BY DEF LimiterInvariant, LimiterTypeOK, limiterVars, Refilled, Forgotten, Capacity, Steady
    <3>2. QED
      BY <1>1, <2>1, <3>1, FetchStepsTheLimiter, LimiterStep
  <2>3. ProcInv'
    BY <1>1, <2>1, ProcInvStep
  <2>4. WaitOK' /\ WaitIsEnough'
    BY <1>1, WaitStep
  <2>5. QED
    BY <2>2, <2>3, <2>4 DEF FetchInv
<1>2. QED
  BY <1>1, FetchInitOK, PTL DEF FetchProcessSpec

\* The number of active tasks that a drain looks at is that of the handlers that
\* run, for any number of processes and however handlers end.
THEOREM FetchTypeCorrect == FetchProcessSpec => []FetchTypeOK
<1>1. FetchInv => FetchTypeOK
  BY DEF FetchInv, ProcInv
<1>2. QED
  BY <1>1, FetchInvariant, PTL

\* The workers, with all that they do between their calls of the limiter, keep
\* the rate.
THEOREM FetchKeepsRate == FetchProcessSpec => []RateBound
<1>1. FetchInv => RateBound
  BY InvariantBounds DEF FetchInv
<1>2. QED
  BY <1>1, FetchInvariant, PTL

\* No message is lost and none can be settled by two, for any number of processes
\* that are drained, stopped and killed and of channels that break at any moment, also
\* while a handler runs.
THEOREM NoMessageLost == FetchProcessSpec => []EveryMessageHasOnePlace
<1>1. ASSUME FetchInv, NEW m \in Msgs PROVE Places(m) = 1
  <2>1. OnePlace(m) /\ open \subseteq Consumers
    BY <1>1 DEF FetchInv, ProcInv, FetchTypeOK
  <2> DEFINE S == Holders(m)
  <2>2. ASSUME NEW c \in Consumers, Holds(c, m) PROVE Places(m) = 1
    <3>1. S = {c} /\ m \notin queue /\ m \notin settled
      BY <2>1, <2>2 DEF OnePlace, Holds, Holders
    <3>2. Cardinality(S) = 1
      BY <3>1, FS_Singleton
    <3>3. QED
      BY <3>1, <3>2 DEF Places
  <2>3. ASSUME \A c \in Consumers : ~Holds(c, m) PROVE Places(m) = 1
    <3>1. S = {} /\ (m \in queue \/ m \in settled) /\ ~(m \in queue /\ m \in settled)
      BY <2>1, <2>3 DEF OnePlace, Holds, Holders
    <3>2. Cardinality(S) = 0
      BY <3>1, FS_EmptySet
    <3>3. QED
      BY <3>1, <3>2 DEF Places
  <2>4. QED
    BY <2>2, <2>3
<1>2. FetchInv => EveryMessageHasOnePlace
  BY <1>1 DEF EveryMessageHasOnePlace
<1>3. QED
  BY <1>2, FetchInvariant, PTL

\* What the limiter tells a worker to wait is enough, for all rates: a worker is
\* refused again only if another one was admitted in the meantime.
THEOREM RetryAfterSuffices == FetchProcessSpec => []WaitIsEnough
<1>1. FetchInv => WaitIsEnough
  BY DEF FetchInv
<1>2. QED
  BY <1>1, FetchInvariant, PTL

\* However slow workers overwrite the cached robots.txt and however often the
\* site changes it, a page is let through only on a robots.txt that may be asked.
THEOREM RobotsAreObeyed == FetchProcessSpec => RobotsObeyed
<1>1. FetchInv /\ [FetchNext]_fetchVars
        => [\A c \in Consumers : LetThrough(c) => Allowed(c)]_fetchVars
  <2> SUFFICES ASSUME FetchInv, FetchNext, NEW c \in Consumers, LetThrough(c) PROVE Allowed(c)
    BY DEF fetchVars
  <2>0. /\ ProcInv /\ cons \in [Consumers -> ConsumerState] /\ cons[c] \in ConsumerState
        /\ RobotsTypes /\ CopiesOK
        /\ cons[c].pc \in {"robots", "download", "store"} /\ cons'[c].pc = "limit"
    BY DEF FetchInv, ProcInv, FetchTypeOK, RobotsTypes, LetThrough
  <2>1. \A v \in Versions : Served[v] \in {"allow", "deny", "missing", "down"}
    BY ProcessAssumption DEF Versions
  <2>2. ASSUME NEW v, Remembered(v), Served[v] \notin {"deny", "missing"} PROVE Allowed(c)
    <3>1. v \in Versions /\ v \in epoch .. site
      BY <2>0, <2>2, ProcessAssumption DEF Remembered, RobotsTypes, Versions
    <3>2. Served[v] = "allow"
      BY <2>1, <2>2, <3>1 DEF Remembered
    <3>3. QED
      BY <3>1, <3>2 DEF Allowed
  <2>3. ASSUME NEW e \in Ends, HandlerEnds(c, e) PROVE FALSE
    <3>1. cons' = [cons EXCEPT ![c] = EndState(cons[c], e)] /\ EndState(cons[c], e).pc = e
      BY <2>0, <2>3, StateAtEnd DEF HandlerEnds, EndState, Pcs
    <3>2. QED
      BY <2>0, <3>1 DEF Ends
  <2>4. CASE RobotsLookup(c)
    <3>1. ~Goes(c, "download")
      BY <2>0 DEF Goes, ConsumerState
    <3>2. cons[c].pc = "robots" /\ CacheHit /\ Verdict(c, cache)
      BY <2>4, <3>1 DEF RobotsLookup
    <3>3. Served[cache] # "deny"
      BY <2>3, <3>2 DEF Verdict, HandlerEndsWithWrite, Ends
    <3>4. QED
      BY <2>0, <2>2, <3>2, <3>3 DEF CacheHit, CopiesOK
  <2>5. CASE RobotsReply(c)
    <3>1. cons[c].pc = "download"
      BY <2>5 DEF RobotsReply
    <3>2. CASE Served[site] = "down"
      BY <3>1, <3>2 DEF Allowed
    <3>3. CASE Served[site] # "down"
      <4>1. cons' = [cons EXCEPT ![c] = [cons[c] EXCEPT !.pc = "store", !.copy = site]]
        BY <2>5, <3>3 DEF RobotsReply
      <4>2. QED
        BY <2>0, <4>1 DEF ConsumerState
    <3>4. QED
      BY <3>2, <3>3
  <2>6. CASE RobotsStore(c)
    <3>1. cons[c].pc = "store" /\ Verdict(c, cons[c].copy)
      BY <2>6 DEF RobotsStore
    <3>2. Served[cons[c].copy] # "deny"
      BY <2>3, <3>1 DEF Verdict, HandlerEndsWithWrite, Ends
    <3>3. CASE Served[cons[c].copy] = "missing"
      BY <3>1, <3>3 DEF Allowed
    <3>4. QED
      BY <2>0, <2>2, <3>1, <3>2, <3>3 DEF CopiesOK
  <2>7. ASSUME cons'[c].pc = cons[c].pc PROVE FALSE
    BY <2>0, <2>7
  <2>8. ASSUME NEW d \in Consumers,
               \/ Deliver(d) \/ HandlerStarts(d) \/ Ack(d) \/ Nack(d) \/ Return(d) \/ FetchAttempt(d)
        PROVE  FALSE
    <3>1. d # c
      BY <2>0, <2>8 DEF Deliver, HandlerStarts, Ack, Nack, Return, FetchAttempt
    <3>2. cons'[c] = cons[c]
      BY <2>0, <2>8, <3>1 DEF Deliver, HandlerStarts, Ack, Nack, Return, FetchAttempt,
                              RetriesExhausted, TryAgain, HandlerEndsWithWrite, HandlerEnds, Goes
    <3>3. QED
      BY <2>7, <3>2
  <2>9. ASSUME NEW d \in Consumers, Lookup(d) PROVE FALSE
    <3>1. d # c
      BY <2>0, <2>9 DEF Lookup
    <3>2. cons'[c] = cons[c]
      BY <2>0, <2>9, <3>1 DEF Lookup, HandlerEnds, Goes
    <3>3. QED
      BY <2>7, <3>2
  <2>10. ASSUME NEW d \in Consumers, d # c, RobotsLookup(d) \/ RobotsReply(d) \/ RobotsStore(d)
         PROVE  FALSE
    <3>1. cons'[c] = cons[c]
      BY <2>0, <2>10 DEF RobotsLookup, RobotsReply, RobotsStore, Verdict, HandlerEndsWithWrite,
                      HandlerEnds, Goes
    <3>2. QED
      BY <2>7, <3>1
  <2>11. ASSUME NEW d \in Consumers, LimitCheck(d) \/ LimitCheckAgain(d) PROVE FALSE
    <3>1. cons[d].pc \in {"limit", "wait"}
      BY <2>11 DEF LimitCheck, LimitCheckAgain
    <3>2. d # c
      BY <2>0, <3>1
    <3>3. CASE Admitted(d)
      BY <2>0, <2>7, <3>1, <3>2, <3>3, AdmittedStates DEF Stages
    <3>4. CASE ~Admitted(d)
      <4>1. cons'[c] = cons[c]
        BY <2>0, <2>11, <3>2, <3>4 DEF LimitCheck, LimitCheckAgain, HandlerEnds
      <4>2. QED
        BY <2>7, <4>1
    <3>5. QED
      BY <3>3, <3>4
  <2>12. CASE Tick
    BY <2>0, <2>7, <2>12, TickStates
  <2>13. CASE CacheExpires \/ SiteChanges
    <3>1. cons' = cons
      BY <2>13 DEF CacheExpires, SiteChanges, procVars
    <3>2. QED
      BY <2>7, <3>1
  <2>l. ASSUME NEW d \in Consumers, LoseChannel(d) \/ Reconnect(d) PROVE FALSE
    BY <2>7, <2>l DEF LoseChannel, Reconnect
  <2>14. ASSUME NEW p \in Procs, BeginDrain(p) \/ DrainPoll(p) \/ Stop(p) PROVE FALSE
    <3>1. cons' = cons
      BY <2>14 DEF BeginDrain, DrainPoll, Stop
    <3>2. QED
      BY <2>7, <3>1
  <2>15. ASSUME NEW p \in Procs, Close(p) \/ Kill(p) PROVE FALSE
    <3>1. cons'[c] = [IdleConsumer EXCEPT !.pc = "returned"] \/ cons'[c] = cons[c]
      BY <2>15 DEF Close, Kill, Gone
    <3>2. [IdleConsumer EXCEPT !.pc = "returned"].pc = "returned"
      BY DEF IdleConsumer
    <3>3. QED
      BY <2>0, <2>7, <3>1, <3>2
  <2>16. QED
    BY <2>4, <2>5, <2>6, <2>8, <2>9, <2>10, <2>11, <2>12, <2>13, <2>l, <2>14, <2>15 DEF FetchNext
<1>2. QED
  BY <1>1, FetchInvariant, PTL DEF FetchProcessSpec, RobotsObeyed

\* For any number of processes and messages, and wherever the drain or the signal
\* meets the handler: a process with one queue that closes its clients has no
\* message in hand.
THEOREM DrainLeavesNothing == FetchProcessSpec => CleanExit
<1>1. FetchInv /\ [FetchNext]_fetchVars
        => [\A p \in Procs : Closes(p) /\ Cardinality(Of(p)) = 1
                               => \A c \in Of(p) : cons[c].m = NoMsg]_fetchVars
  <2> SUFFICES ASSUME FetchInv, FetchNext, NEW p \in Procs, Closes(p), Cardinality(Of(p)) = 1,
                      NEW c \in Of(p)
               PROVE  cons[c].m = NoMsg
    BY DEF fetchVars
  <2>1. HandsOK /\ proc \in [Procs -> ProcStates] /\ proc'[p] = "closed" /\ proc[p] # "closed"
    BY DEF FetchInv, ProcInv, FetchTypeOK, ProcStates, Closes
  <2>2. CASE proc' = proc
    BY <2>1, <2>2
  <2>3. ASSUME NEW r \in Procs, BeginDrain(r) \/ DrainPoll(r) \/ Stop(r) \/ Kill(r) PROVE FALSE
    <3>1. PICK how \in {"draining", "stopped", "dead"} : proc' = [proc EXCEPT ![r] = how]
      BY <2>3 DEF BeginDrain, DrainPoll, Stop, Kill, Gone
    <3>2. QED
      BY <2>1, <3>1
  <2>4. ASSUME NEW r \in Procs, Close(r) PROVE cons[c].m = NoMsg
    <3>1. r = p
      BY <2>1, <2>4 DEF Close, Gone
    <3>2. PICK d \in Of(p) : cons[d].pc = "returned"
      BY <2>4, <3>1 DEF Close, StartReturned
    <3>3. c = d
      BY ConsumersOfProcess, FS_Singleton
    <3>4. QED
      BY <2>1, <3>2, <3>3 DEF HandsOK, Of
  <2>5. ASSUME NEW d \in Consumers,
               \/ Deliver(d) \/ HandlerStarts(d) \/ Ack(d) \/ Nack(d) \/ Return(d) \/ Lookup(d)
               \/ RobotsLookup(d) \/ RobotsReply(d) \/ RobotsStore(d) \/ LimitCheck(d)
               \/ LimitCheckAgain(d) \/ FetchAttempt(d) \/ LoseChannel(d) \/ Reconnect(d)
        PROVE  proc' = proc
    BY <2>5 DEF Deliver, HandlerStarts, Ack, Nack, Return, Lookup, RobotsLookup, RobotsReply,
                RobotsStore, LimitCheck, LimitCheckAgain, FetchAttempt, Verdict, Admitted,
                HandlerEndsWithWrite, HandlerEnds, TryAgain, RetriesExhausted, LoseChannel, Reconnect
  <2>6. CASE Tick \/ CacheExpires \/ SiteChanges
    BY <2>2, <2>6 DEF Tick, CacheExpires, SiteChanges, procVars
  <2>7. QED
    BY <2>2, <2>3, <2>4, <2>5, <2>6 DEF FetchNext
<1>2. QED
  BY <1>1, FetchInvariant, PTL DEF FetchProcessSpec, CleanExit
=============================================================================
