----------------------------- MODULE KafkaProofs -----------------------------
(***************************************************************************)
(* The consumer group never commits past a message that was not given to   *)
(* a handler, for any number of members, messages, rebalances and errors.  *)
(***************************************************************************)
EXTENDS KafkaConsumer, TLAPS

Attempted == handled \cup failed

\* What a member relies on: all messages before its position have been through
\* a handler, except the one in its hands, and so have all before that one.
LoopOK(c) ==
  /\ \A i \in Offsets :
       i < kc[c].pos => i \in Attempted \/ (kc[c].pc = "got" /\ i = kc[c].msg)
  /\ kc[c].pc \in {"got", "commit"} =>
       /\ kc[c].msg \in Offsets
       /\ \A i \in Offsets : i < kc[c].msg => i \in Attempted
  /\ kc[c].pc = "commit" => kc[c].msg \in Attempted

KafkaInv ==
  /\ KafkaTypeOK
  /\ NoMessageSkipped
  /\ \A c \in Consumers : LoopOK(c)

\* The invariant holds initially.
LEMMA KafkaInitOK == KafkaInit => KafkaInv
<1> SUFFICES ASSUME KafkaInit PROVE KafkaInv
  OBVIOUS
<1>1. KafkaTypeOK
  BY KafkaAssumption DEF KafkaInit, KafkaTypeOK, Loop, Offsets
<1>2. NoMessageSkipped
  BY DEF KafkaInit, NoMessageSkipped, Offsets
<1>3. ASSUME NEW c \in Consumers PROVE LoopOK(c)
  BY <1>3 DEF KafkaInit, LoopOK, Offsets
<1>4. QED
  BY <1>1, <1>2, <1>3 DEF KafkaInv

\* A step of one member: the other members keep what they rely on, because
\* messages that have been through a handler stay so.
LEMMA OthersKeep ==
  ASSUME KafkaInv, NEW c \in Consumers, NEW l \in Loop,
         kc' = [kc EXCEPT ![c] = l],
         Attempted \subseteq Attempted',
         LoopOK(c)'
  PROVE  \A d \in Consumers : LoopOK(d)'
<1> SUFFICES ASSUME NEW d \in Consumers, d # c PROVE LoopOK(d)'
  OBVIOUS
<1>1. kc'[d] = kc[d]
  BY DEF KafkaInv, KafkaTypeOK
<1>2. LoopOK(d)
  BY DEF KafkaInv
<1>3. QED
  BY <1>1, <1>2 DEF LoopOK

\* Every step keeps the invariant.
LEMMA KafkaInvStep == KafkaInv /\ [KafkaNext]_kafkaVars => KafkaInv'
<1> SUFFICES ASSUME KafkaInv, [KafkaNext]_kafkaVars PROVE KafkaInv'
  OBVIOUS
<1>0. /\ KafkaTypeOK
      /\ NoMessageSkipped
      /\ \A c \in Consumers : LoopOK(c)
      /\ \A c \in Consumers : kc[c] \in Loop
  BY DEF KafkaInv, KafkaTypeOK
<1>1. CASE Publish
  <2>1. KafkaTypeOK'
    BY <1>0, <1>1, KafkaAssumption DEF Publish, KafkaTypeOK
  <2>2. QED
    BY <1>0, <1>1, <2>1 DEF Publish, KafkaInv, NoMessageSkipped, LoopOK, Attempted
<1>2. ASSUME NEW c \in Consumers, Fetch(c) PROVE KafkaInv'
  <2> DEFINE l == [pc |-> "got", pos |-> kc[c].pos + 1, msg |-> kc[c].pos]
  <2>1. l \in Loop /\ kc[c].pos \in Offsets
    BY <1>0, <1>2, KafkaAssumption DEF Fetch, KafkaTypeOK, Loop, Offsets
  <2>2. KafkaTypeOK'
    BY <1>0, <1>2, <2>1 DEF Fetch, KafkaTypeOK
  <2>3. kc'[c] = l /\ Attempted' = Attempted
    BY <1>0, <1>2 DEF Fetch, KafkaTypeOK, Attempted
  <2>4. LoopOK(c)'
    BY <1>0, <1>2, <2>1, <2>3 DEF Fetch, LoopOK, Offsets, Loop
  <2>5. \A d \in Consumers : LoopOK(d)'
    BY <1>2, <2>1, <2>3, <2>4, OthersKeep DEF Fetch
  <2>6. QED
    BY <1>0, <1>2, <2>2, <2>5 DEF Fetch, KafkaInv, NoMessageSkipped
<1>3. ASSUME NEW c \in Consumers, Handle(c) PROVE KafkaInv'
  <2> DEFINE l == [pc |-> "commit", pos |-> kc[c].pos, msg |-> kc[c].msg]
  <2>1. l \in Loop /\ kc[c].msg \in Offsets
    BY <1>0, <1>3 DEF Handle, Loop, LoopOK
  <2>2. KafkaTypeOK'
    BY <1>0, <1>3, <2>1 DEF Handle, KafkaTypeOK
  <2>3. kc'[c] = l /\ Attempted' = Attempted \cup {kc[c].msg}
    BY <1>0, <1>3 DEF Handle, KafkaTypeOK, Attempted
  <2>4. LoopOK(c)'
    BY <1>0, <1>3, <2>1, <2>3 DEF Handle, LoopOK
  <2>5. \A d \in Consumers : LoopOK(d)'
    BY <1>3, <2>1, <2>3, <2>4, OthersKeep DEF Handle
  <2>6. QED
    BY <1>0, <1>3, <2>2, <2>5 DEF Handle, KafkaInv, NoMessageSkipped
<1>4. ASSUME NEW c \in Consumers, HandleRetryable(c) PROVE KafkaInv'
  <2> DEFINE l == [pc |-> "idle", pos |-> kc[c].pos, msg |-> kc[c].msg]
  <2>1. l \in Loop /\ kc[c].msg \in Offsets
    BY <1>0, <1>4 DEF HandleRetryable, Loop, LoopOK
  <2>2. KafkaTypeOK'
    BY <1>0, <1>4, <2>1, KafkaAssumption DEF HandleRetryable, KafkaTypeOK
  <2>3. kc'[c] = l /\ Attempted' = Attempted \cup {kc[c].msg}
    BY <1>0, <1>4 DEF HandleRetryable, KafkaTypeOK, Attempted
  <2>4. LoopOK(c)'
    BY <1>0, <1>4, <2>1, <2>3 DEF HandleRetryable, LoopOK
  <2>5. \A d \in Consumers : LoopOK(d)'
    BY <1>4, <2>1, <2>3, <2>4, OthersKeep DEF HandleRetryable
  <2>6. QED
    BY <1>0, <1>4, <2>2, <2>5 DEF HandleRetryable, KafkaInv, NoMessageSkipped
<1>5. ASSUME NEW c \in Consumers, Commit(c) \/ CommitFails(c) PROVE KafkaInv'
  <2> DEFINE l == [pc |-> "idle", pos |-> kc[c].pos, msg |-> kc[c].msg]
  <2>1. l \in Loop /\ kc[c].msg \in Offsets
    BY <1>0, <1>5 DEF Commit, CommitFails, Loop, LoopOK
  <2>2. kc' = [kc EXCEPT ![c] = l] /\ handled' = handled /\ failed' = failed
    BY <1>5 DEF Commit, CommitFails
  <2>3. kc'[c] = l /\ Attempted' = Attempted
    BY <1>0, <2>2 DEF KafkaTypeOK, Attempted
  <2>4. committed' \in {committed, kc[c].msg + 1}
    BY <1>5 DEF Commit, CommitFails
  <2>5. committed' \in 0 .. MaxOffset
    BY <1>0, <2>1, <2>4, KafkaAssumption DEF KafkaTypeOK, Offsets
  <2>6. KafkaTypeOK'
    BY <1>0, <1>5, <2>1, <2>2, <2>5, KafkaAssumption DEF Commit, CommitFails, KafkaTypeOK
  <2>7. NoMessageSkipped'
    <3>1. \A i \in Offsets : i <= kc[c].msg => i \in Attempted
      BY <1>0, <1>5, <2>1 DEF Commit, CommitFails, LoopOK, Offsets
    <3>2. \A i \in Offsets : i < committed' => i < committed \/ i <= kc[c].msg
      BY <1>0, <2>1, <2>4 DEF KafkaTypeOK, Offsets
    <3>3. QED
      BY <1>0, <2>2, <3>1, <3>2 DEF NoMessageSkipped, Attempted
  <2>8. LoopOK(c)'
    BY <1>0, <1>5, <2>1, <2>3 DEF Commit, CommitFails, LoopOK
  <2>9. QED
    BY <2>1, <2>2, <2>3, <2>6, <2>7, <2>8, OthersKeep DEF KafkaInv
<1>6. ASSUME NEW c \in Consumers, Rebalance(c) \/ Restart(c) PROVE KafkaInv'
  <2>1. PICK p \in {"idle", kc[c].pc} :
          kc' = [kc EXCEPT ![c] = [pc |-> p, pos |-> committed, msg |-> kc[c].msg]]
    BY <1>6 DEF Rebalance, Restart
  <2> DEFINE l == [pc |-> p, pos |-> committed, msg |-> kc[c].msg]
  <2>2. l \in Loop
    BY <1>0 DEF KafkaTypeOK, Loop
  <2>3. KafkaTypeOK'
    BY <1>0, <1>6, <2>1, <2>2, KafkaAssumption DEF Rebalance, Restart, KafkaTypeOK
  <2>4. kc'[c] = l /\ Attempted' = Attempted /\ committed' = committed
    BY <1>0, <1>6, <2>1 DEF Rebalance, Restart, KafkaTypeOK, Attempted
  <2>5. LoopOK(c)'
    BY <1>0, <2>4 DEF LoopOK, NoMessageSkipped, Attempted
  <2>6. NoMessageSkipped'
    BY <1>0, <1>6 DEF Rebalance, Restart, NoMessageSkipped
  <2>7. QED
    BY <2>1, <2>2, <2>3, <2>4, <2>5, <2>6, OthersKeep DEF KafkaInv
<1>7. CASE UNCHANGED kafkaVars
  BY <1>0, <1>7
  DEF kafkaVars, KafkaInv, KafkaTypeOK, NoMessageSkipped, LoopOK, Attempted
<1>8. QED
  BY <1>1, <1>2, <1>3, <1>4, <1>5, <1>6, <1>7 DEF KafkaNext, LoopStep

\* THEOREM.  The group's offset never passes a message that has not been
\* through a handler: a rebalance or crash repeats messages and skips none.
THEOREM NothingIsSkipped == KafkaSpec => []NoMessageSkipped
<1>1. KafkaInv => NoMessageSkipped
  BY DEF KafkaInv
<1>2. QED
  BY <1>1, KafkaInitOK, KafkaInvStep, PTL DEF KafkaSpec

\* The offsets stay in range, for any number of consumers and messages: the
\* group's offset is never moved past the end of the log.
THEOREM KafkaTypeCorrect == KafkaSpec => []KafkaTypeOK
<1>1. KafkaInv => KafkaTypeOK
  BY DEF KafkaInv
<1>2. QED
  BY <1>1, KafkaInitOK, KafkaInvStep, PTL DEF KafkaSpec
=============================================================================
