----------------------------- MODULE JobService -----------------------------
(***************************************************************************)
(* The application service's commands on a crawl job: create and delete.   *)
(* Each runs in one database transaction, so each is one step.             *)
(***************************************************************************)
EXTENDS CrawlState

\* INSERT INTO outbox_events, processed_at is NULL.
EventsCreated(table, new) == [t \in Tasks |-> IF t \in new THEN "pending" ELSE table[t]]

\* CreateCrawlJob: configuration, job, one outbox event per seed and one task
\* row per seed whose URL is not in the list already.
CreateCrawlJob ==
  /\ job.state = "none"
  /\ job' = [job EXCEPT !.state = "active"]
  /\ tasks' = BulkCreate(tasks, Seeds \ DupSeeds, 0)
  /\ outbox' = EventsCreated(outbox, Seeds)
  /\ UNCHANGED <<crawlQ, parseQ, pages, results, report, pub, fw, pw, ex, faults>>

\* DeleteCrawlJob: the configuration's row is deleted, which cascades to the
\* job and its tasks; outbox events, queued messages and stored objects stay.
\* The export worker's FOR UPDATE lock on the job row makes the delete wait.
DeleteCrawlJob ==
  /\ job.state = "active"
  /\ ex.pc = "idle"
  /\ job' = [job EXCEPT !.state = "deleted"]
  /\ tasks' = [t \in Tasks |-> NoRow]
  /\ UNCHANGED <<outbox, crawlQ, parseQ, pages, results, report, pub, fw, pw, ex, faults>>
=============================================================================
