------------------------------ MODULE JobStore -----------------------------
(***************************************************************************)
(* The tables of jobs and tasks behind the API, spread over the database's *)
(* shards, and what the repositories read from them.  A query without a    *)
(* shard key is sent to every shard and the rows are strung together; a    *)
(* single row is looked up, and every write made, on the shard of the key, *)
(* without a key on the first.  Queries without a key fail inside a        *)
(* transaction unless there is one shard, so with several no job is ever   *)
(* stored.                                                                 *)
(***************************************************************************)
EXTENDS JobConfigCodec

CONSTANTS
  JobIds,   \* ids that GenerateCrawlJobID may give, in any order
  TaskIds,  \* the ids of a job's tasks: one per seed, the last for a link
  Gone,     \* a job that was deleted
  Hash,     \* fnv.New32a of a job id
  UserEmail \* the address of the user who submits the jobs

ASSUME StoreAssumption ==
  /\ Collation \in Seq(STRING)
  /\ MaxTime \in Nat
  /\ JobIds \subseteq String \ {""}
  /\ TaskIds \in [JobIds -> Seq(String)]
  /\ \A i, j \in JobIds : \A m \in DOMAIN TaskIds[i], n \in DOMAIN TaskIds[j] :
       TaskIds[i][m] = TaskIds[j][n] => i = j /\ m = n
  /\ Hash \in [JobIds -> Nat]

VARIABLES
  deploy,  \* the deployment: its crawl queues and the number of shards
  jobs,    \* the tables: row of each job id, Nil if never given, Gone if deleted
  clock    \* wall clock

storeVars == <<deploy, jobs, clock>>

Present == {j \in JobIds : jobs[j] \notin {Nil, Gone}}

-----------------------------------------------------------------------------
(* Shards. *)

ShardIndex(key, n) == IF n <= 1 THEN 0 ELSE Hash[key] % n

\* shardedDB.resolve
Resolve(key) == IF key = Nil THEN 0 ELSE ShardIndex(key, deploy.shards)

Shards == 0 .. deploy.shards - 1

\* QueryContext and ScanAllContext; rows[s] is the answer of shard s.
Query(key, rows) ==
  IF key # Nil \/ deploy.shards = 1 THEN rows[Resolve(key)]
  ELSE FlattenSeq([i \in 1 .. deploy.shards |-> rows[i - 1]])

\* Inside a transaction every shard's part of such a query goes to the one
\* connection of the transaction, which is busy with the first.
QueriesWorkInTx == deploy.shards = 1

On(shard) == {j \in Present : jobs[j].shard = shard}

-----------------------------------------------------------------------------
(* The rows of a job's tasks: those of the seeds, and one for the link that *)
(* the parser has found on a page.  They are worked off together.          *)

\* BulkCreate, ON CONFLICT (job_id, url) DO NOTHING: a seed that repeats an
\* earlier one gets no row, although it has an event in the outbox.
SeedRows(seeds) == {n \in DOMAIN seeds : \A m \in 1 .. n - 1 : seeds[m].url # seeds[n].url}

Tasks(j) ==
  LET seeds == jobs[j].config.seeds
  IN  SeedRows(seeds) \cup {n \in {Len(seeds) + 1} : jobs[j].foundAt # Nil}

Task(j, n) ==
  LET seeds == jobs[j].config.seeds
      isSeed == n <= Len(seeds)
      done == jobs[j].worked
  IN  [id |-> TaskIds[j][IF isSeed THEN n ELSE Len(TaskIds[j])],
       jobId |-> j,
       url |-> IF isSeed THEN seeds[n].url ELSE "/link",
       finalURL |-> Nil,
       status |-> IF done THEN "Parsed" ELSE "InProgress",
       enqueuedAt |-> IF isSeed THEN jobs[j].job.createdAt ELSE jobs[j].foundAt,
       depth |-> IF isSeed THEN 0 ELSE 1,
       minioObjectKey |-> IF done THEN "page" ELSE "",
       resultObjectKey |-> IF done THEN "result" ELSE Nil,
       errorMessage |-> Nil]

-----------------------------------------------------------------------------
(* Lookups by id; Nil for no row and for one that cannot be converted.     *)

\* scanCrawlJobWithConfig and the converter: the models of a joined row.
ScanJob(row) ==
  [job |-> RestoreCrawlJobFromSnapshot(row.job), config |-> RestoreCrawlJobConfigFromSnapshot(row.config)]

\* crawlJobRepository.Get: the job's model and its configuration's.
GetJob(key, j) ==
  IF j \in On(Resolve(key)) /\ Readable(jobs[j].config)
  THEN ScanJob(jobs[j])
  ELSE Nil

\* The task's model with that of its job, of whose row `job` was read.
RestoreCrawlTaskWithJobFromSnapshot(task, job) == [task |-> task, job |-> RestoreCrawlJobFromSnapshot(job)]

\* Mutant: the join's status column is read from the task's table.
GetTaskOwnStatus(key, id) ==
  LET rows == UNION {{<<j, n>> : n \in {n \in Tasks(j) : Task(j, n).id = id}} : j \in On(Resolve(key))}
      row == CHOOSE r \in rows : TRUE
      joined == {"id", "jobConfigId", "createdAt", "completedAt"}
  IN  IF rows = {} THEN Nil
      ELSE RestoreCrawlTaskWithJobFromSnapshot(
             Task(row[1], row[2]),
             [k \in DOMAIN jobs[row[1]].job |->
                CASE k \in joined -> jobs[row[1]].job[k]
                  [] k = "status" -> Task(row[1], row[2]).status
                  [] OTHER -> Nil])

\* crawlTaskRepository.Get: the join brings five columns of the job, the
\* others are as good as NULL; the configuration is not read.
GetTask(key, id) ==
  LET rows == UNION {{<<j, n>> : n \in {n \in Tasks(j) : Task(j, n).id = id}} : j \in On(Resolve(key))}
      row == CHOOSE r \in rows : TRUE
      joined == {"id", "jobConfigId", "status", "createdAt", "completedAt"}
  IN  IF rows = {} THEN Nil
      ELSE RestoreCrawlTaskWithJobFromSnapshot(
             Task(row[1], row[2]),
             [k \in DOMAIN jobs[row[1]].job |-> IF k \in joined THEN jobs[row[1]].job[k] ELSE Nil])

-----------------------------------------------------------------------------
(* Lists: keyset pagination.  A sort key is a number; rows with the same   *)
(* key are ordered by their ids.                                           *)

Rank == [s \in String |-> CHOOSE i \in DOMAIN Collation : Collation[i] = s]

\* Mutant: the row comparison without its second column.
LessByKey(a, b) == a[1] < b[1]

Less(a, b) == a[1] < b[1] \/ (a[1] = b[1] /\ a[2] < b[2])

InOrder(asc, a, b) == IF asc THEN Less(a, b) ELSE Less(b, a)

\* The rows in order: none comes before one that belongs before it.
Sorted(rows, pos, asc) ==
  CHOOSE s \in SetToSeqs(rows) : \A i, k \in DOMAIN s : i < k => ~InOrder(asc, pos[s[k]], pos[s[i]])

\* Of the rows at the positions pos, those behind `after` (Nil for the first page), in order,
\* at most one more than the limit.
Seek(pos, asc, after, limit) ==
  LET sorted == Sorted({r \in DOMAIN pos : after = Nil \/ InOrder(asc, after, pos[r])}, pos, asc)
  IN  SubSeq(sorted, 1, IF Len(sorted) > limit + 1 THEN limit + 1 ELSE Len(sorted))

\* The row (sort key, id) that a cursor or a job's row stands for.
JobPosition(field, r) ==
  <<CASE field = "name" -> Rank[r.name] [] field = "status" -> Rank[r.status] [] OTHER -> r.createdAt,
    Rank[r.id]>>

JobRow(j) == [id |-> j, name |-> jobs[j].config.name, status |-> jobs[j].job.status,
              createdAt |-> jobs[j].job.createdAt]

\* The cursor that points to a row: its columns, and the order of the list.
JobCursorAt(r, order) ==
  [id |-> r.id, name |-> r.name, status |-> r.status, createdAt |-> r.createdAt,
   sortField |-> order.field, sortAsc |-> order.asc]

TaskCursorAt(t, order) ==
  [id |-> t.id, url |-> t.url, status |-> t.status, enqueuedAt |-> t.enqueuedAt, depth |-> t.depth,
   sortField |-> order.field, sortAsc |-> order.asc]

TaskPosition(field, r) ==
  <<CASE field = "url" -> Rank[r.url] [] field = "status" -> Rank[r.status]
      [] field = "depth" -> r.depth [] OTHER -> r.enqueuedAt,
    Rank[r.id]>>

\* The range and equality conditions of a WHERE clause; Nil and "" are no condition.
Equal(condition, value) == condition \in {Nil, ""} \/ condition = value
Within(value, from, to) == (from = Nil \/ from <= value) /\ (to = Nil \/ value <= to)

JobMatches(j, f) ==
  f = Nil \/ (/\ Equal(f.status, jobs[j].job.status)
              /\ Equal(f.userEmail, UserEmail)
              /\ Equal(f.name, jobs[j].config.name)
              /\ Within(jobs[j].job.createdAt, f.createdFrom, f.createdTo))

TaskMatches(t, f) ==
  f = Nil \/ (/\ Equal(f.status, t.status)
              /\ Equal(f.url, t.url)
              /\ Within(t.depth, f.minDepth, f.maxDepth)
              /\ Within(t.enqueuedAt, f.enqueuedFrom, f.enqueuedTo))

\* crawlJobRepository.ListWithCursor up to the fetched rows.
JobRows(q) ==
  LET found(s) == {j \in On(s) : JobMatches(j, q.filter)}
      after == IF q.cursor = Nil THEN Nil ELSE JobPosition(q.sortField, q.cursor)
  IN  Query(Nil, [s \in Shards |->
                    Seek([j \in found(s) |-> JobPosition(q.sortField, JobRow(j))], q.sortAsc, after, q.limit)])

\* crawlTaskRepository.ListWithCursor up to the fetched rows.
TaskRows(key, q) ==
  LET found(s) == IF q.jobId \in On(s) THEN {n \in Tasks(q.jobId) : TaskMatches(Task(q.jobId, n), q.filter)} ELSE {}
      after == IF q.cursor = Nil THEN Nil ELSE TaskPosition(q.sortField, q.cursor)
  IN  Query(key, [s \in Shards |->
                    Seek([n \in found(s) |-> TaskPosition(q.sortField, Task(q.jobId, n))], q.sortAsc, after, q.limit)])

-----------------------------------------------------------------------------
(* crawlTaskRepository.GetAnalyticsByJob: two statements. *)

Counted(key, j, column, Values) ==
  [c \in Values |-> IF j \in On(Resolve(key)) THEN Cardinality({n \in Tasks(j) : Task(j, n)[column] = c}) ELSE 0]

StatusCounts(key, j) == Counted(key, j, "status", String)
\* Mutant: the second statement without the condition on the job.
DepthCountsOfAll(key, j) ==
  [d \in Uint |-> FoldSet(LAMBDA i, n : n + Counted(key, i, "depth", Uint)[d], 0, Present)]

DepthCounts(key, j) == Counted(key, j, "depth", Uint)
=============================================================================
