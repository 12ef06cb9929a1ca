-------------------------- MODULE OutboxPublisher --------------------------
(***************************************************************************)
(* The two processes that put messages for existing tasks on the crawl     *)
(* queue: the transactional outbox publisher and the recovery loop for     *)
(* stuck tasks.                                                            *)
(***************************************************************************)
EXTENDS CrawlState

Pending == {t \in Tasks : outbox[t] = "pending"}

\* processOutboxEvents opens a transaction and locks the unprocessed events.
OutboxFetch ==
  /\ pub.batch = {}
  /\ Pending # {}
  /\ pub' = [batch |-> Pending, sent |-> {}]
  /\ UNCHANGED <<job, tasks, outbox, crawlQ, parseQ, pages, results, report, fw, pw, ex, faults>>

\* publishTaskEnqueuedEvent: the message leaves at once; the event is marked
\* in the transaction only.
OutboxPublish(t) ==
  /\ t \in pub.batch \ pub.sent
  /\ crawlQ' = Push(crawlQ, t)
  /\ pub' = [pub EXCEPT !.sent = @ \cup {t}]
  /\ UNCHANGED <<job, tasks, outbox, parseQ, pages, results, report, fw, pw, ex, faults>>

\* Every event of the batch was published and marked: the transaction commits.
OutboxCommit ==
  /\ pub.batch # {}
  /\ pub.sent = pub.batch
  /\ outbox' = [t \in Tasks |-> IF t \in pub.sent THEN "processed" ELSE outbox[t]]
  /\ pub' = IdlePublisher
  /\ UNCHANGED <<job, tasks, crawlQ, parseQ, pages, results, report, fw, pw, ex, faults>>

\* A publish, a mark or the commit fails, or the process dies: the transaction
\* rolls back, and what was published stays published.
OutboxAbort ==
  /\ pub.batch # {}
  /\ Fault
  /\ pub' = IdlePublisher
  /\ UNCHANGED <<job, tasks, outbox, crawlQ, parseQ, pages, results, report, fw, pw, ex>>

\* Something is on its way to dispatch t or dispatches it now.
Dispatched(t) ==
  \/ outbox[t] = "pending"
  \/ crawlQ[t] > 0
  \/ \E w \in Fetchers : fw[w].task = t
  \/ \E p \in Parsers : t \in pw[p].todo

\* A plausible bug: the query looks for the tasks that were fetched.
StaleFetched(t) ==
  /\ tasks[t].status = "Fetched"
  /\ t \in Slow \/ ~Dispatched(t)

\* ListStaleInProgress selects by status and by age of enqueued_at only, so
\* it also finds a slow task whose message is merely waiting or being handled;
\* one that is not slow gets old only when nothing dispatches it any more.
Stale(t) ==
  /\ tasks[t].status = "InProgress"
  /\ t \in Slow \/ ~Dispatched(t)

\* StuckTaskRecovery.recover for one task.  A message that it publishes some
\* time after its query is one that waits in the queue for that time.
RecoverStale(t) ==
  /\ Stale(t)
  /\ crawlQ[t] < QueueCap
  /\ crawlQ' = Push(crawlQ, t)
  /\ UNCHANGED <<job, tasks, outbox, parseQ, pages, results, report, pub, fw, pw, ex, faults>>
=============================================================================
