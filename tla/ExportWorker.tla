---------------------------- MODULE ExportWorker ----------------------------
(***************************************************************************)
(* ExportWorker.processEligibleJobs for the job.  The job's row is locked  *)
(* by the eligibility query; the tasks are read by a later statement of    *)
(* the same READ COMMITTED transaction, so they may have changed.          *)
(***************************************************************************)
EXTENDS CrawlState

\* A plausible bug: a Fetched task counts as finished.
EligibleWithFetched ==
  /\ job.state = "active"
  /\ \A t \in Tasks : tasks[t].status # "InProgress" /\ (Exists(t) => outbox[t] # "pending")
  /\ \/ ~job.exported
     \/ \E t \in Tasks : tasks[t].status = "Parsed" /\ tasks[t].result = "new"

\* A plausible bug: a Failed task blocks the export.
EligibleWithoutFailed ==
  /\ job.state = "active"
  /\ \A t \in Tasks : tasks[t].status \in {"Absent", "Parsed"}
  /\ ~job.exported

\* ListEligibleForExport: the conditions of its WHERE clause.  The status
\* IN_PROGRESS, which it excludes, is never written by the export worker.
Eligible ==
  /\ job.state = "active"
  /\ \A t \in Tasks :
       /\ tasks[t].status \in {"Absent", "Parsed", "Failed"}
       /\ tasks[t].status = "Parsed" => tasks[t].result # "none"
       /\ Exists(t) => outbox[t] # "pending"
  /\ \/ ~job.exported
     \/ \E t \in Tasks : tasks[t].status = "Parsed" /\ tasks[t].result = "new"

ExportSelect ==
  /\ ex.pc = "idle"
  /\ Eligible
  /\ ex' = [ex EXCEPT !.pc = "selected"]
  /\ UNCHANGED <<job, tasks, outbox, crawlQ, parseQ, pages, results, report, pub, fw, pw, faults>>

\* The results that the tasks Parsed by now refer to and the store holds.
Loadable == {t \in results : tasks[t].status = "Parsed" /\ tasks[t].result # "none"}

\* ListByJob and loadTaskResults.  A result that cannot be read is only noted
\* as an error in the report, and the export goes on.
ExportRead ==
  /\ ex.pc = "selected"
  /\ \E snap \in SUBSET Loadable :
       /\ \/ snap = Loadable /\ UNCHANGED faults
          \/ snap # Loadable /\ Fault
       /\ ex' = [pc |-> "read", snap |-> snap]
  /\ UNCHANGED <<job, tasks, outbox, crawlQ, parseQ, pages, results, report, pub, fw, pw>>

\* generateJSONReport overwrites the job's report.json.
ExportJSON ==
  /\ ex.pc = "read"
  /\ report' = [report EXCEPT !.json = ex.snap]
  /\ ex' = [ex EXCEPT !.pc = "json"]
  /\ UNCHANGED <<job, tasks, outbox, crawlQ, parseQ, pages, results, pub, fw, pw, faults>>

\* exported_at moves past every timestamp taken so far, in the table and in
\* the copies that workers hold.
Aged(row) == [row EXCEPT !.result = IF @ = "new" THEN "old" ELSE @]

\* generateCSVReport, MarkAsExported with the current time, Update, commit.
ExportFinish ==
  /\ ex.pc = "json"
  /\ report' = [report EXCEPT !.csv = ex.snap]
  /\ job' = [job EXCEPT !.exported = TRUE, !.export = "COMPLETED"]
  /\ tasks' = [t \in Tasks |-> Aged(tasks[t])]
  /\ fw' = [w \in Fetchers |-> [fw[w] EXCEPT !.row = Aged(@)]]
  /\ pw' = [p \in Parsers |-> [pw[p] EXCEPT !.row = Aged(@)]]
  /\ ex' = IdleExport
  /\ UNCHANGED <<outbox, crawlQ, parseQ, pages, results, pub, faults>>

\* One statement; the last keys and exported_at stay.
FailExport(j) == [j EXCEPT !.export = "FAILED"]

\* failExport: a report cannot be stored; export_status becomes FAILED.
ExportFail ==
  /\ ex.pc \in {"read", "json"}
  /\ Fault
  /\ job' = FailExport(job)
  /\ ex' = IdleExport
  /\ UNCHANGED <<tasks, outbox, crawlQ, parseQ, pages, results, report, pub, fw, pw>>

\* A statement or the commit fails, or the process dies: the transaction is
\* rolled back; a report that was stored stays.
ExportAbort ==
  /\ ex.pc # "idle"
  /\ Fault
  /\ ex' = IdleExport
  /\ UNCHANGED <<job, tasks, outbox, crawlQ, parseQ, pages, results, report, pub, fw, pw>>

ExportStep == ExportSelect \/ ExportRead \/ ExportJSON \/ ExportFinish
=============================================================================
