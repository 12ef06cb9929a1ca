--------------------------- MODULE KafkaConsumer ---------------------------
(***************************************************************************)
(* The Kafka messaging client on one partition of a topic: consumeLoop of  *)
(* the members of the consumer group, the committed offset of the group,   *)
(* and rebalances, which hand the partition to a member that starts again  *)
(* from the committed offset while the old one may still be in a handler.  *)
(***************************************************************************)
EXTENDS Integers

CONSTANTS
  Consumers,       \* members of the consumer group
  MaxOffset,       \* model bound on published messages
  MaxRebalances,   \* model bound on rebalances and restarts
  MaxErrors,       \* model bound on retryable errors of the handler
  MaxLostCommits   \* model bound on failed commits

ASSUME KafkaAssumption ==
  /\ MaxOffset \in Nat
  /\ MaxRebalances \in Nat
  /\ MaxErrors \in Nat
  /\ MaxLostCommits \in Nat

VARIABLES
  end,         \* number of messages in the partition
  committed,   \* the group's offset: the first message that is not committed
  owner,       \* the member the partition is assigned to
  kc,          \* the members' loops
  handled,     \* offsets whose handler succeeded or discarded the message
  failed,      \* offsets whose handler returned a retryable error
  rebalances, errors, lost

kafkaVars == <<end, committed, owner, kc, handled, failed, rebalances, errors, lost>>

Offsets == 0 .. MaxOffset - 1

Loop == [pc : {"idle", "got", "commit"}, pos : 0 .. MaxOffset, msg : 0 .. MaxOffset]

\* Types of all variables.
KafkaTypeOK ==
  /\ end \in 0 .. MaxOffset
  /\ committed \in 0 .. MaxOffset
  /\ owner \in Consumers
  /\ kc \in [Consumers -> Loop]
  /\ handled \in SUBSET Offsets
  /\ failed \in SUBSET Offsets
  /\ rebalances \in 0 .. MaxRebalances
  /\ errors \in 0 .. MaxErrors
  /\ lost \in 0 .. MaxLostCommits

KafkaInit ==
  /\ end = 0
  /\ committed = 0
  /\ owner \in Consumers
  /\ kc = [c \in Consumers |-> [pc |-> "idle", pos |-> 0, msg |-> 0]]
  /\ handled = {}
  /\ failed = {}
  /\ rebalances = 0
  /\ errors = 0
  /\ lost = 0

\* Publish: WriteMessages appends to the partition.
Publish ==
  /\ end < MaxOffset
  /\ end' = end + 1
  /\ UNCHANGED <<committed, owner, kc, handled, failed, rebalances, errors, lost>>

\* A plausible bug: ReadMessage, which commits the offset while it reads.
FetchAndCommit(c) ==
  /\ owner = c
  /\ kc[c].pc = "idle"
  /\ kc[c].pos < end
  /\ kc' = [kc EXCEPT ![c] = [pc |-> "got", pos |-> kc[c].pos + 1, msg |-> kc[c].pos]]
  /\ committed' = kc[c].pos + 1
  /\ UNCHANGED <<end, owner, handled, failed, rebalances, errors, lost>>

\* FetchMessage of the member that holds the partition.
Fetch(c) ==
  /\ owner = c
  /\ kc[c].pc = "idle"
  /\ kc[c].pos < end
  /\ kc' = [kc EXCEPT ![c] = [pc |-> "got", pos |-> kc[c].pos + 1, msg |-> kc[c].pos]]
  /\ UNCHANGED <<end, committed, owner, handled, failed, rebalances, errors, lost>>

\* The handler returns nil or a non-retryable error, which discards the message.
Handle(c) ==
  /\ kc[c].pc = "got"
  /\ handled' = handled \cup {kc[c].msg}
  /\ kc' = [kc EXCEPT ![c] = [pc |-> "commit", pos |-> kc[c].pos, msg |-> kc[c].msg]]
  /\ UNCHANGED <<end, committed, owner, failed, rebalances, errors, lost>>

\* The handler returns a retryable error: the offset is not committed, and
\* after a pause the loop fetches the next message.
HandleRetryable(c) ==
  /\ kc[c].pc = "got"
  /\ errors < MaxErrors
  /\ errors' = errors + 1
  /\ failed' = failed \cup {kc[c].msg}
  /\ kc' = [kc EXCEPT ![c] = [pc |-> "idle", pos |-> kc[c].pos, msg |-> kc[c].msg]]
  /\ UNCHANGED <<end, committed, owner, handled, rebalances, lost>>

\* A plausible bug: the offset after the next message is committed.
CommitPast(c) ==
  /\ kc[c].pc = "commit"
  /\ committed' = IF owner = c THEN kc[c].msg + 2 ELSE committed
  /\ kc' = [kc EXCEPT ![c] = [pc |-> "idle", pos |-> kc[c].pos, msg |-> kc[c].msg]]
  /\ UNCHANGED <<end, owner, handled, failed, rebalances, errors, lost>>

\* CommitMessages sets the group's offset behind the message; it fails for a
\* member that has lost the partition.
Commit(c) ==
  /\ kc[c].pc = "commit"
  /\ committed' = IF owner = c THEN kc[c].msg + 1 ELSE committed
  /\ kc' = [kc EXCEPT ![c] = [pc |-> "idle", pos |-> kc[c].pos, msg |-> kc[c].msg]]
  /\ UNCHANGED <<end, owner, handled, failed, rebalances, errors, lost>>

\* CommitMessages fails; the error is only logged.
CommitFails(c) ==
  /\ kc[c].pc = "commit"
  /\ lost < MaxLostCommits
  /\ lost' = lost + 1
  /\ kc' = [kc EXCEPT ![c] = [pc |-> "idle", pos |-> kc[c].pos, msg |-> kc[c].msg]]
  /\ UNCHANGED <<end, committed, owner, handled, failed, rebalances, errors>>

\* A rebalance: a member gets the partition and reads from the committed
\* offset.  A handler it is in goes on.
Rebalance(c) ==
  /\ rebalances < MaxRebalances
  /\ rebalances' = rebalances + 1
  /\ owner' = c
  /\ kc' = [kc EXCEPT ![c] = [pc |-> kc[c].pc, pos |-> committed, msg |-> kc[c].msg]]
  /\ UNCHANGED <<end, committed, handled, failed, errors, lost>>

\* The member's process is restarted, or consumeLoop returns an error and
\* Consume opens a new reader: its message is delivered again.
Restart(c) ==
  /\ rebalances < MaxRebalances
  /\ rebalances' = rebalances + 1
  /\ owner' = c
  /\ kc' = [kc EXCEPT ![c] = [pc |-> "idle", pos |-> committed, msg |-> kc[c].msg]]
  /\ UNCHANGED <<end, committed, handled, failed, errors, lost>>

LoopStep(c) == Fetch(c) \/ Handle(c) \/ Commit(c)

KafkaNext ==
  \/ Publish
  \/ \E c \in Consumers : LoopStep(c)
  \/ \E c \in Consumers : HandleRetryable(c)
  \/ \E c \in Consumers : CommitFails(c)
  \/ \E c \in Consumers : Rebalance(c)
  \/ \E c \in Consumers : Restart(c)

KafkaSpec == KafkaInit /\ [][KafkaNext]_kafkaVars

\* Fairness: a member's loop goes on, and handlers return.
KafkaFairSpec == KafkaSpec /\ \A c \in Consumers : WF_kafkaVars(LoopStep(c))

-----------------------------------------------------------------------------
\* Delivery is at least once: the committed offset never passes a message that
\* was not given to a handler to the end, however the partition changes hands
\* and whichever commits are lost or late.
NoMessageSkipped == \A i \in Offsets : i < committed => i \in handled \cup failed

\* Every published message comes to the end of a handler.
EveryMessageHandled == \A i \in Offsets : (i < end) ~> (i \in handled \cup failed)

\* What the comment in consumeLoop says of a retryable error: the message is
\* not committed and will be delivered again after a restart or rebalance, so
\* the committed offset must not pass it before it is handled.
FailedIsRedelivered == \A i \in failed \ handled : committed <= i
=============================================================================
