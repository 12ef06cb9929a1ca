----------------------------- MODULE CrawlState -----------------------------
(***************************************************************************)
(* The state that the crawler's processes share for one crawl job: the     *)
(* Postgres tables crawl_jobs, crawl_tasks and outbox_events, the object   *)
(* store, the crawl and parsing queues of the broker, and the private      *)
(* state of every worker that handles the job.  The component modules      *)
(* (JobService, OutboxPublisher, FetchWorker, ParserWorker, ExportWorker)  *)
(* extend this one and define the steps; CrawlPipeline composes them.      *)
(*                                                                         *)
(* A task identifier stands for one URL of the job: crawl_tasks has a      *)
(* unique index on (job_id, url), so the job holds at most one row per     *)
(* URL.  Several workers and messages may refer to the same task.          *)
(***************************************************************************)
EXTENDS Naturals, FiniteSets

CONSTANTS
  Tasks,      \* task identifiers, one per URL the job can meet
  NoTask,     \* the task of an idle worker
  Seeds,      \* the identifiers generated for the config's seed list
  DupSeeds,   \* those whose URL repeats an earlier seed: no row is inserted
  Denied,     \* tasks whose URL the domain and deny rules of the scope reject
  NoHost,     \* tasks whose URL has no host part
  Links,      \* Links[t]: the tasks of the links on the page of t that the crawl mode, the
              \* URL patterns and robots.txt admit (the same at every attempt)
  MaxDepth,   \* scopes.max_depth of the job's configuration
  Fetchers,   \* concurrent fetch handlers (one per consumed queue and process)
  Parsers,    \* concurrent parser handlers
  Slow,       \* tasks that may wait or be handled for longer than the recovery
              \* threshold of ten minutes
  QueueCap,   \* model bound: recovery adds no message to a queue this long
  MaxFaults   \* model bound on failed calls and crashes

ASSUME TasksAssumption ==
  /\ NoTask \notin Tasks
  /\ Seeds \subseteq Tasks
  /\ DupSeeds \subseteq Seeds
  /\ Denied \subseteq Tasks
  /\ NoHost \subseteq Tasks
  /\ Slow \subseteq Tasks
  /\ Links \in [Tasks -> SUBSET (Tasks \ DupSeeds)]   \* a link to their URL is the earlier seed

ASSUME BoundsAssumption ==
  /\ MaxDepth \in Nat
  /\ QueueCap \in Nat
  /\ MaxFaults \in Nat

VARIABLES
  job,      \* the row of crawl_jobs
  tasks,    \* the table crawl_tasks
  outbox,   \* the task.enqueued events of outbox_events, by aggregate id
  crawlQ,   \* messages ready in the crawl queues, by task
  parseQ,   \* messages ready in the parsing queue, by task
  pages,    \* tasks whose HTML is in the object store
  results,  \* tasks whose extraction result is in the object store
  report,   \* tasks whose result is in the job's report.json and report.csv
  pub,      \* the outbox publisher's open transaction
  fw,       \* the fetch handlers
  pw,       \* the parser handlers
  ex,       \* the export worker
  faults    \* failed calls and crashes so far

vars == <<job, tasks, outbox, crawlQ, parseQ, pages, results, report,
          pub, fw, pw, ex, faults>>

-----------------------------------------------------------------------------
(* Rows.  `result` abstracts result_object_key and result_created_at: there *)
(* is no result, or its timestamp is after the job's exported_at ("new",    *)
(* also while the job was never exported), or it is not ("old").  This is   *)
(* the only comparison the code makes on either timestamp.                  *)

Statuses == {"Absent", "InProgress", "Fetched", "Parsed", "Failed"}

Row == [status : Statuses,
        key    : BOOLEAN,                  \* minio_object_key is set
        result : {"none", "old", "new"},
        depth  : Nat]

NoRow == [status |-> "Absent", key |-> FALSE, result |-> "none", depth |-> 0]

NewRow(depth) ==
  [status |-> "InProgress", key |-> FALSE, result |-> "none", depth |-> depth]

MarkAsFetched(row) == [row EXCEPT !.status = "Fetched", !.key = TRUE]

MarkAsParsed(row) == [row EXCEPT !.status = "Parsed", !.result = "new"]

MarkAsFailed(row) == [row EXCEPT !.status = "Failed", !.result = "none"]

\* A handler's copy of a row.  The copy's status is never read after the
\* handler's first checks, and every write sets it first.
CopyOf(row) == [row EXCEPT !.status = "InProgress"]

Exists(t) == tasks[t].status # "Absent"

\* UPDATE crawl_tasks SET <every column> WHERE id = t: a write of the whole
\* row, whatever its status is now; no row, no effect and no error.
Update(t, row) ==
  [tasks EXCEPT ![t] = IF tasks[t].status = "Absent" THEN @ ELSE row]

\* INSERT ... ON CONFLICT (job_id, url) DO NOTHING RETURNING id.
Inserted(table, new) == {t \in new : table[t].status = "Absent"}

BulkCreate(table, new, depth) ==
  [t \in Tasks |-> IF t \in Inserted(table, new) THEN NewRow(depth) ELSE table[t]]

\* DomainScopeValidator.Validate
InScope(t, depth) == depth <= MaxDepth /\ t \notin Denied

\* preparePaginationLinks and prepareDiscoveredLinks: the tasks a page adds.
PreparedLinks(t, depth) ==
  IF depth >= MaxDepth THEN {} ELSE {c \in Links[t] : InScope(c, depth + 1)}

-----------------------------------------------------------------------------
(* Queues.  Delivery order is not modelled: a job's messages are spread     *)
(* over several queues and consumers, and a rejected one is requeued.       *)

Push(queue, t) == [queue EXCEPT ![t] = @ + 1]

Pop(queue, t) == [queue EXCEPT ![t] = @ - 1]

-----------------------------------------------------------------------------
IdleFetcher == [pc |-> "idle", task |-> NoTask, row |-> NoRow]

IdleParser == [pc |-> "idle", task |-> NoTask, row |-> NoRow, todo |-> {}]

IdleExport == [pc |-> "idle", snap |-> {}]

IdlePublisher == [batch |-> {}, sent |-> {}]

FetcherState == [pc   : {"idle", "loaded", "stored", "saved", "done"},
                 task : Tasks \cup {NoTask},
                 row  : Row]

ParserState == [pc   : {"idle", "loaded", "stamped", "done"},
                task : Tasks \cup {NoTask},
                row  : Row,
                todo : SUBSET Tasks]

ExportState == [pc : {"idle", "selected", "read", "json"}, snap : SUBSET Tasks]

Fault == faults < MaxFaults /\ faults' = faults + 1

\* Types of all variables; an idle handler holds no task, a busy one does.
TypeOK ==
  /\ job \in [state    : {"none", "active", "deleted"},
              exported : BOOLEAN,
              export   : {"NOT_STARTED", "COMPLETED", "FAILED"}]
  /\ tasks \in [Tasks -> Row]
  /\ outbox \in [Tasks -> {"none", "pending", "processed"}]
  /\ crawlQ \in [Tasks -> Nat]
  /\ parseQ \in [Tasks -> Nat]
  /\ pages \in SUBSET Tasks
  /\ results \in SUBSET Tasks
  /\ report \in [json : SUBSET Tasks, csv : SUBSET Tasks]
  /\ pub \in [batch : SUBSET Tasks, sent : SUBSET Tasks]
  /\ fw \in [Fetchers -> FetcherState]
  /\ pw \in [Parsers -> ParserState]
  /\ ex \in ExportState
  /\ faults \in 0 .. MaxFaults
  /\ \A w \in Fetchers : fw[w].pc = "idle" <=> fw[w].task = NoTask
  /\ \A p \in Parsers : pw[p].pc = "idle" <=> pw[p].task = NoTask

Init ==
  /\ job = [state |-> "none", exported |-> FALSE, export |-> "NOT_STARTED"]
  /\ tasks = [t \in Tasks |-> NoRow]
  /\ outbox = [t \in Tasks |-> "none"]
  /\ crawlQ = [t \in Tasks |-> 0]
  /\ parseQ = [t \in Tasks |-> 0]
  /\ pages = {}
  /\ results = {}
  /\ report = [json |-> {}, csv |-> {}]
  /\ pub = IdlePublisher
  /\ fw = [w \in Fetchers |-> IdleFetcher]
  /\ pw = [p \in Parsers |-> IdleParser]
  /\ ex = IdleExport
  /\ faults = 0
=============================================================================
