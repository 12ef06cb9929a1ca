---------------------------- MODULE ParserWorker ----------------------------
(***************************************************************************)
(* ParserWorker.handleMessage.  Like the fetch handler it works on a copy  *)
(* of the task's row; unlike it, it skips a task that is already Parsed    *)
(* when the row is read.  One transaction marks the task Parsed and        *)
(* inserts the tasks of the links; their messages are published after the  *)
(* commit, and a failed publish is only logged.                            *)
(***************************************************************************)
EXTENDS CrawlState

\* A message is delivered; task, job and configuration are read.  A missing
\* row and a Parsed one end the handler with nil.
ParseStart(p, t) ==
  /\ pw[p].pc = "idle"
  /\ parseQ[t] > 0
  /\ parseQ' = Pop(parseQ, t)
  /\ pw' = IF Exists(t) /\ tasks[t].status # "Parsed"
           THEN [pw EXCEPT ![p] = [pc |-> "loaded", task |-> t,
                                   row |-> CopyOf(tasks[t]), todo |-> {}]]
           ELSE pw
  /\ UNCHANGED <<job, tasks, outbox, crawlQ, pages, results, report, pub, fw, ex, faults>>

\* The row names no page: the object store has nothing under an empty key, the
\* handler returns an error and the message is requeued.
ParseNoPage(p) ==
  /\ pw[p].pc = "loaded"
  /\ ~pw[p].row.key
  /\ parseQ' = Push(parseQ, pw[p].task)
  /\ pw' = [pw EXCEPT ![p] = IdleParser]
  /\ UNCHANGED <<job, tasks, outbox, crawlQ, pages, results, report, pub, fw, ex, faults>>

\* MarkAsFailed, Update, return nil.
FailParse(p) ==
  /\ tasks' = Update(pw[p].task, MarkAsFailed(pw[p].row))
  /\ pw' = [pw EXCEPT ![p] = [@ EXCEPT !.pc = "done", !.row = NoRow]]
  /\ UNCHANGED <<job, outbox, crawlQ, parseQ, pages, results, report, pub, fw, ex, faults>>

\* The extraction or the upload of its result fails.
ParseFail(p) ==
  /\ pw[p].pc = "loaded"
  /\ pw[p].row.key
  /\ FailParse(p)

\* The result is uploaded, the links are prepared, the transaction is opened
\* and the copy of the row is stamped with the time of parsing.
ParseUpload(p) ==
  /\ pw[p].pc = "loaded"
  /\ pw[p].row.key
  /\ results' = results \cup {pw[p].task}
  /\ pw' = [pw EXCEPT ![p] = [@ EXCEPT !.pc = "stamped", !.row = MarkAsParsed(pw[p].row)]]
  /\ UNCHANGED <<job, tasks, outbox, crawlQ, parseQ, pages, report, pub, fw, ex, faults>>

NewLinks(p) == PreparedLinks(pw[p].task, pw[p].row.depth)

\* A plausible bug: the new tasks are inserted by a second transaction, which a
\* crash can forget.
ParseCommitInTwo(p) ==
  /\ pw[p].pc = "stamped"
  /\ job.state = "active" \/ NewLinks(p) = {}
  /\ Inserted(tasks, NewLinks(p)) # {} => ex.pc = "idle"
  /\ \/ tasks' = BulkCreate(Update(pw[p].task, pw[p].row), NewLinks(p), pw[p].row.depth + 1)
     \/ tasks' = Update(pw[p].task, pw[p].row)
  /\ pw' = [pw EXCEPT ![p] = [@ EXCEPT !.pc = "done", !.row = NoRow,
                                   !.todo = Inserted(tasks, NewLinks(p))]]
  /\ UNCHANGED <<job, outbox, crawlQ, parseQ, pages, results, report, pub, fw, ex, faults>>

\* A plausible bug: the export does not lock the job, and tasks come in.
ParseCommitUnlocked(p) ==
  /\ pw[p].pc = "stamped"
  /\ job.state = "active" \/ NewLinks(p) = {}
  /\ tasks' = BulkCreate(Update(pw[p].task, pw[p].row), NewLinks(p), pw[p].row.depth + 1)
  /\ pw' = [pw EXCEPT ![p] = [@ EXCEPT !.pc = "done", !.row = NoRow,
                                   !.todo = Inserted(tasks, NewLinks(p))]]
  /\ UNCHANGED <<job, outbox, crawlQ, parseQ, pages, results, report, pub, fw, ex, faults>>

\* The transaction commits: the row becomes Parsed and the tasks of the links
\* that have no row yet are inserted.  The foreign key of a new row needs the
\* job's row, and waits while the export worker holds it FOR UPDATE.
ParseCommit(p) ==
  /\ pw[p].pc = "stamped"
  /\ job.state = "active" \/ NewLinks(p) = {}
  /\ Inserted(tasks, NewLinks(p)) # {} => ex.pc = "idle"
  /\ tasks' = BulkCreate(Update(pw[p].task, pw[p].row), NewLinks(p), pw[p].row.depth + 1)
  /\ pw' = [pw EXCEPT ![p] = [@ EXCEPT !.pc = "done", !.row = NoRow,
                                   !.todo = Inserted(tasks, NewLinks(p))]]
  /\ UNCHANGED <<job, outbox, crawlQ, parseQ, pages, results, report, pub, fw, ex, faults>>

\* The transaction fails, for certain when the job is gone and there are rows
\* to insert: it is rolled back, the task is marked Failed outside it.
ParseRollback(p) ==
  /\ pw[p].pc = "stamped"
  /\ \/ job.state = "deleted" /\ NewLinks(p) # {} /\ UNCHANGED faults
     \/ Fault
  /\ tasks' = Update(pw[p].task, MarkAsFailed(pw[p].row))
  /\ pw' = [pw EXCEPT ![p] = [@ EXCEPT !.pc = "done", !.row = NoRow]]
  /\ UNCHANGED <<job, outbox, crawlQ, parseQ, pages, results, report, pub, fw, ex>>

\* One message per inserted task; an error of Publish is logged and forgotten.
ParsePublish(p, c) ==
  /\ c \in pw[p].todo
  /\ \/ crawlQ' = Push(crawlQ, c) /\ UNCHANGED faults
     \/ Fault /\ UNCHANGED crawlQ
  /\ pw' = [pw EXCEPT ![p] = [@ EXCEPT !.todo = pw[p].todo \ {c}]]
  /\ UNCHANGED <<job, tasks, outbox, parseQ, pages, results, report, pub, fw, ex>>

ParseAck(p) ==
  /\ pw[p].pc = "done"
  /\ pw[p].todo = {}
  /\ pw' = [pw EXCEPT ![p] = IdleParser]
  /\ UNCHANGED <<job, tasks, outbox, crawlQ, parseQ, pages, results, report, pub, fw, ex, faults>>

\* The database or the store returns an error, or the worker dies before its
\* acknowledgement: the message is requeued; an open transaction is rolled
\* back and unpublished messages of committed tasks are lost.
ParseNack(p) ==
  /\ pw[p].pc # "idle"
  /\ Fault
  /\ parseQ' = Push(parseQ, pw[p].task)
  /\ pw' = [pw EXCEPT ![p] = IdleParser]
  /\ UNCHANGED <<job, tasks, outbox, crawlQ, pages, results, report, pub, fw, ex>>

ParseStep(p) ==
  \/ ParseNoPage(p)
  \/ ParseFail(p)
  \/ ParseUpload(p)
  \/ ParseCommit(p)
  \/ ParseRollback(p)
  \/ \E c \in Tasks : ParsePublish(p, c)
  \/ ParseAck(p)
=============================================================================
