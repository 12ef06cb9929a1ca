---------------------------- MODULE FetchWorker ----------------------------
(***************************************************************************)
(* FetchWorker.handleMessage, with the consumer loop around it: a handler  *)
(* returns nil and its message is acknowledged, or returns an error (or    *)
(* the process dies) and its message goes back to the queue.  The handler  *)
(* reads the task's row once, works on that copy through robots.txt, rate  *)
(* limiting, download and upload, and writes the whole copy back.  It      *)
(* never looks at the row's status.                                        *)
(***************************************************************************)
EXTENDS CrawlState

\* A message is delivered, the task and its configuration are read.  When the
\* job is gone the handler returns nil and the message is dropped.
FetchStart(w, t) ==
  /\ fw[w].pc = "idle"
  /\ crawlQ[t] > 0
  /\ crawlQ' = Pop(crawlQ, t)
  /\ fw' = IF Exists(t)
           THEN [fw EXCEPT ![w] = [pc |-> "loaded", task |-> t, row |-> CopyOf(tasks[t])]]
           ELSE fw
  /\ UNCHANGED <<job, tasks, outbox, parseQ, pages, results, report, pub, pw, ex, faults>>

\* A plausible bug: the task is not marked before its row is written back.
FailTaskUnmarked(w) ==
  /\ tasks' = Update(fw[w].task, fw[w].row)
  /\ fw' = [fw EXCEPT ![w] = [@ EXCEPT !.pc = "done", !.row = NoRow]]
  /\ UNCHANGED <<job, outbox, crawlQ, parseQ, pages, results, report, pub, pw, ex, faults>>

\* MarkAsFailed, Update, return nil.
FailTask(w) ==
  /\ tasks' = Update(fw[w].task, MarkAsFailed(fw[w].row))
  /\ fw' = [fw EXCEPT ![w] = [@ EXCEPT !.pc = "done", !.row = NoRow]]
  /\ UNCHANGED <<job, outbox, crawlQ, parseQ, pages, results, report, pub, pw, ex, faults>>

\* Scope validation fails.
FetchReject(w) ==
  /\ fw[w].pc = "loaded"
  /\ ~InScope(fw[w].task, fw[w].row.depth)
  /\ FailTask(w)

\* robots.txt disallows the URL, the download fails for good, or its retries
\* are exhausted.
FetchFail(w) ==
  /\ fw[w].pc = "loaded"
  /\ InScope(fw[w].task, fw[w].row.depth)
  /\ fw[w].task \notin NoHost
  /\ FailTask(w)

\* A URL without a host: the handler returns an error every time.
FetchInvalidURL(w) ==
  /\ fw[w].pc = "loaded"
  /\ InScope(fw[w].task, fw[w].row.depth)
  /\ fw[w].task \in NoHost
  /\ crawlQ' = Push(crawlQ, fw[w].task)
  /\ fw' = [fw EXCEPT ![w] = IdleFetcher]
  /\ UNCHANGED <<job, tasks, outbox, parseQ, pages, results, report, pub, pw, ex, faults>>

\* The page is downloaded and stored under the task's key.
FetchStore(w) ==
  /\ fw[w].pc = "loaded"
  /\ InScope(fw[w].task, fw[w].row.depth)
  /\ fw[w].task \notin NoHost
  /\ pages' = pages \cup {fw[w].task}
  /\ fw' = [fw EXCEPT ![w] = [@ EXCEPT !.pc = "stored"]]
  /\ UNCHANGED <<job, tasks, outbox, crawlQ, parseQ, results, report, pub, pw, ex, faults>>

\* A plausible bug: the row is written before the page is stored.
FetchSaveBeforeStore(w) ==
  /\ fw[w].pc \in {"loaded", "stored"}
  /\ tasks' = Update(fw[w].task, MarkAsFetched(fw[w].row))
  /\ fw' = [fw EXCEPT ![w] = [@ EXCEPT !.pc = "saved", !.row = NoRow]]
  /\ UNCHANGED <<job, outbox, crawlQ, parseQ, pages, results, report, pub, pw, ex, faults>>

\* MarkAsFetched, Update.
FetchSave(w) ==
  /\ fw[w].pc = "stored"
  /\ tasks' = Update(fw[w].task, MarkAsFetched(fw[w].row))
  /\ fw' = [fw EXCEPT ![w] = [@ EXCEPT !.pc = "saved", !.row = NoRow]]
  /\ UNCHANGED <<job, outbox, crawlQ, parseQ, pages, results, report, pub, pw, ex, faults>>

\* A plausible bug: an error of Publish is logged and nil returned, as the
\* parser does for the messages of discovered links.
FetchPublishIgnoresError(w) ==
  /\ fw[w].pc = "saved"
  /\ \/ parseQ' = Push(parseQ, fw[w].task) /\ UNCHANGED faults
     \/ Fault /\ UNCHANGED parseQ
  /\ fw' = [fw EXCEPT ![w] = [@ EXCEPT !.pc = "done"]]
  /\ UNCHANGED <<job, tasks, outbox, crawlQ, pages, results, report, pub, pw, ex>>

\* The parsing message is published; the handler returns nil.
FetchPublish(w) ==
  /\ fw[w].pc = "saved"
  /\ parseQ' = Push(parseQ, fw[w].task)
  /\ fw' = [fw EXCEPT ![w] = [@ EXCEPT !.pc = "done"]]
  /\ UNCHANGED <<job, tasks, outbox, crawlQ, pages, results, report, pub, pw, ex, faults>>

\* A plausible bug: the handler keeps the delivery it has acknowledged.
FetchAckKeepsTask(w) ==
  /\ fw[w].pc = "done"
  /\ fw' = [fw EXCEPT ![w] = [@ EXCEPT !.pc = "idle"]]
  /\ UNCHANGED <<job, tasks, outbox, crawlQ, parseQ, pages, results, report, pub, pw, ex, faults>>

\* The broker gets the acknowledgement.
FetchAck(w) ==
  /\ fw[w].pc = "done"
  /\ fw' = [fw EXCEPT ![w] = IdleFetcher]
  /\ UNCHANGED <<job, tasks, outbox, crawlQ, parseQ, pages, results, report, pub, pw, ex, faults>>

\* The database, the rate limiter, the store or the broker returns an error,
\* the download fails for now, or the worker dies before its acknowledgement:
\* the message is requeued, and what was written stays written.
FetchNack(w) ==
  /\ fw[w].pc # "idle"
  /\ Fault
  /\ crawlQ' = Push(crawlQ, fw[w].task)
  /\ fw' = [fw EXCEPT ![w] = IdleFetcher]
  /\ UNCHANGED <<job, tasks, outbox, parseQ, pages, results, report, pub, pw, ex>>

FetchStep(w) ==
  \/ FetchReject(w)
  \/ FetchFail(w)
  \/ FetchInvalidURL(w)
  \/ FetchStore(w)
  \/ FetchSave(w)
  \/ FetchPublish(w)
  \/ FetchAck(w)
=============================================================================
