------------------------------- MODULE JobApi ------------------------------
(***************************************************************************)
(* The API server: clients submit, delete, list and count jobs and make    *)
(* previews while the workers change the jobs in the database.  A request  *)
(* that is refused, or whose transaction is rolled back, changes nothing   *)
(* and is left out, except where a client notices.                         *)
(***************************************************************************)
EXTENDS JobStore, ApiGateway, QueueRouting

CONSTANTS
  Submissions,   \* what a client may submit
  ConfigOf,      \* the config message of a submission
  WeightsOf,     \* the queue_weights in its body, which the message has no field for
  UserID,        \* the user in the caller's claims
  PreviewIds,    \* ids that GeneratePreviewID may give
  DefaultLimit,  \* page size without a limit: 20 in the code
  MaxLimit,      \* greatest page size: 100 in the code
  Samples,       \* calls that change nothing but are checked on their way
  Workloads,     \* deployments and what their clients and workers do: a bound for
                 \* each kind of action, the submissions and the lists asked for
  Crash          \* the answer of a server that panics

\* The methods that have parameters and change nothing here.
SampleMethods == Methods \ {"CreateJob", "DeleteJob", "CreatePreview", "ListUsers", "ListWorkers"}

RequestSet(method) ==
  CASE method = "ListJobs" -> ListJobsRequest({})
    [] method = "GetJob" -> GetJobRequest
    [] method = "GetJobExportFileURL" -> GetJobExportFileURLRequest
    [] method = "GetTask" -> GetTaskRequest
    [] method = "ListTasksByJob" -> ListTasksByJobRequest({})
    [] method = "GetTaskAnalytics" -> GetTaskAnalyticsRequest
    [] method = "GetTaskFileURL" -> GetTaskFileURLRequest
    [] method = "GetPreview" -> GetPreviewRequest
    [] method = "Register" -> RegisterRequest
    [] method = "Login" -> LoginRequest
    [] method = "Refresh" -> RefreshRequest
    [] method = "Logout" -> LogoutRequest
    [] method = "UpdateUserRole" -> UpdateUserRoleRequest
    [] method = "DrainWorker" -> DrainWorkerRequest
    [] method = "ForceKillWorker" -> ForceKillWorkerRequest

Workload ==
  [deploy : [queues : Seq(STRING), shards : Nat \ {0}], submissions : SUBSET Submissions,
   create : Nat, delete : Nat, find : Nat, finish : Nat, export : Nat, tick : Nat,
   pages : Nat, count : Nat, preview : Nat, calls : Nat,
   jobLists : SUBSET ListJobsRequest({}), taskLists : SUBSET ListTasksByJobRequest({})]

ASSUME ApiAssumption ==
  /\ ConfigOf \in [Submissions -> CrawlJobConfig]
  /\ WeightsOf \in [Submissions -> Seq(QueueWeight)]
  /\ \A call \in Samples :
       IF call.method \in {"ListUsers", "ListWorkers", "CrawlQueues"} THEN call.http.path = ""
       ELSE call.method \in SampleMethods /\ Message(call) \in RequestSet(call.method)
  /\ \A w \in Workloads : w \in Workload
  /\ DefaultLimit \in 1 .. MaxLimit
  /\ MaxLimit \in Nat
  /\ \A s \in Submissions, j \in JobIds : Len(ConfigOf[s].seeds) < Len(TaskIds[j])
  /\ UserID \in String \ {""}
  /\ PreviewIds \subseteq String
  /\ {"InProgress", "Completed", "Parsed", "NOT_STARTED", "COMPLETED", "FAILED", "json", "csv", "page", "result",
      "/a", "/link", "text/html"} \subseteq String

VARIABLES
  load,       \* what is left of the workload
  pass,       \* a client that lists jobs, or a job's tasks, page by page
  count,      \* a GetTaskAnalytics request
  previews,   \* table of previews
  objects,    \* keys of the objects in the content store
  misserved   \* history: methods whose handler ran for a call it must not run for

apiVars == <<storeVars, load, pass, count, previews, objects, misserved>>

Idle == [state |-> "idle"]

Spend(op) == load[op] > 0 /\ load' = [load EXCEPT ![op] = @ - 1]

ApiInit ==
  /\ load \in Workloads
  /\ deploy = load.deploy
  /\ jobs = [j \in JobIds |-> Nil]
  /\ clock = 0
  /\ pass = Idle /\ count = Idle
  /\ previews = [p \in PreviewIds |-> Nil]
  /\ objects = {}
  /\ misserved = {}

-----------------------------------------------------------------------------
(* The rules for a call, stated once for both doors: the role that the     *)
(* method asks for, the rules of the message, and that the resource named  *)
(* in the path is the one the message is about.                            *)

NeededLevel(method) ==
  CASE method \in AuthMethods -> 0
    [] method \in UserMethods \cup WorkerMethods -> 3
    [] method \in {"CreateJob", "DeleteJob"} \cup PreviewMethods -> 2
    [] OTHER -> 1

Rightful(call) ==
  LET msg == Message(call)
  IN  /\ Level(call.caller) >= NeededLevel(call.method)
      /\ ValidateInterceptor(call.method, msg)
      /\ call.door = "rest" /\ call.http.path # ""
           => \A k \in DOMAIN msg \cap {"id", "jobId", "taskId", "workerId"} : msg[k] = call.http.path

\* The call is let through to its handler.
Serve(call) ==
  /\ Arrive(call) = "handler"
  /\ misserved' = IF Rightful(call) THEN misserved ELSE misserved \cup {call.method}

Call(door, method, caller, body, path) ==
  [door |-> door, method |-> method, caller |-> caller,
   http |-> [body |-> body, path |-> path, query |-> Nil]]

ShardKey(call) == IF call.door = "rest" /\ call.method \in {"CreateJob", "GetJob", "DeleteJob"} THEN Nil
                  ELSE ShardKeyInterceptor(deploy.shards, call.method, Message(call))

\* A call to a method that changes nothing here.
PureCall ==
  /\ Spend("calls")
  /\ \E call \in Samples : Serve(call)
  /\ UNCHANGED <<storeVars, pass, count, previews, objects>>

-----------------------------------------------------------------------------
(* What a client that is in the middle of a pass must see: the rows that   *)
(* are there and keep their place from its first page on.                  *)

RowsOf(j) ==
  CASE pass.kind = "jobs" -> {j}
    [] pass.kind = "tasks" /\ pass.job = j -> {Task(j, n).id : n \in Tasks(j)}
    [] OTHER -> {}

ByStatus == pass.field = "status" \/ (pass.filter # Nil /\ ~Equal(pass.filter.status, Nil))

PassSeesDeletion(j) ==
  pass' = IF pass.state = "open" THEN [pass EXCEPT !.steady = @ \ RowsOf(j)] ELSE pass

\* The rows of a kind that belong to the jobs js change their status.
PassSeesProgress(kind, js) ==
  LET rows == UNION {RowsOf(j) : j \in js}
  IN  pass' = IF pass.state = "open" /\ pass.kind = kind /\ ByStatus
              THEN [pass EXCEPT !.steady = @ \ rows, !.moved = @ \cup rows] ELSE pass

-----------------------------------------------------------------------------
(* CreateJob and DeleteJob. *)

\* Mutant: weights count in single-region mode, too.
CommandedAnywhere(door, s) ==
  [FromProtoCrawlJobConfig(ConfigOf[s]) EXCEPT !.queueWeights = IF door = "rest" THEN WeightsOf[s] ELSE <<>>]

\* The configuration that CreateCrawlJob is called with: the weights only
\* come in over REST and only count where there is a choice of queues.
Commanded(door, s) ==
  [FromProtoCrawlJobConfig(ConfigOf[s]) EXCEPT
     !.queueWeights = IF door = "rest" /\ Len(deploy.queues) > 1 THEN WeightsOf[s] ELSE <<>>]

\* The loop over the patterns: n of them are trimmed, the empty ones dropped.
Normalized(patterns) ==
  LET kept[n \in 0 .. Len(patterns)] ==
        IF n = 0 THEN <<>>
        ELSE IF Trimmed[patterns[n]] = "" THEN kept[n - 1]
        ELSE Append(kept[n - 1], Trimmed[patterns[n]])
  IN  kept[Len(patterns)]

\* ReadCommitted begins the transaction on the shard of the context's key,
\* which the id of the job, made inside, has no part in.
Shard(key, j) == Resolve(key)

\* The configuration, completed by the service, as crawlJobConfigRepository.Create
\* inserts it.
ConfigInserted(j, config) ==
  SaveCrawlJobConfigToSnapshot(
    [config EXCEPT !.id = j, !.userId = UserID, !.scopes.allowedUrlPatterns = Normalized(@)])

\* The job as crawlJobRepository.Create inserts it.
JobInserted(j) ==
  SaveCrawlJobToSnapshot(
    [id |-> j, jobConfigId |-> j, userId |-> UserID, name |-> Nil, status |-> "InProgress",
     createdAt |-> clock, completedAt |-> Nil, exportJSONKey |-> Nil, exportCSVKey |-> Nil,
     exportedAt |-> Nil, exportStatus |-> "NOT_STARTED"])

\* The rows of one transaction: configuration, job, and a task with its
\* outbox event, which names the target queue, for each seed.
NewRow(key, j, s, config, targets) ==
  [job |-> JobInserted(j), config |-> ConfigInserted(j, config),
   sent |-> s, shard |-> Shard(key, j), targets |-> targets, foundAt |-> Nil, worked |-> FALSE]

\* The service.  BulkCreate asks with a query, and the call has no shard key:
\* where there are several shards the transaction is always rolled back.
CreateCrawlJob(key, s, config) ==
  LET queues == SelectCrawlQueue(deploy.queues, config.queueWeights)
  IN  /\ config.seeds # <<>>
      /\ Panic \notin queues
      /\ QueriesWorkInTx
      /\ \E j \in JobIds, targets \in [DOMAIN config.seeds -> queues] :
           /\ jobs[j] = Nil
           /\ jobs' = [jobs EXCEPT ![j] = NewRow(key, j, s, config, targets)]

CreateJob(door, caller, s) ==
  LET call == Call(door, "CreateJob", caller, [config |-> ConfigOf[s]], "")
  IN  /\ Spend("create")
      /\ Serve(call)
      /\ CreateCrawlJob(ShardKey(call), s, Commanded(door, s))
      /\ UNCHANGED <<deploy, clock, pass, count, previews, objects>>

\* The configuration is deleted; the job and its tasks go with it.
DeleteJob(door, caller, j) ==
  LET call == Call(door, "DeleteJob", caller, [id |-> j], IF door = "rest" THEN j ELSE "")
  IN  /\ Spend("delete")
      /\ Serve(call)
      /\ GetJob(ShardKey(call), Message(call).id) # Nil
      /\ jobs' = [jobs EXCEPT ![Message(call).id] = Gone]
      /\ PassSeesDeletion(Message(call).id)
      /\ UNCHANGED <<deploy, clock, count, previews, objects>>

-----------------------------------------------------------------------------
(* The workers, as the API sees them. *)

\* The outbox publisher, which hands out the tasks, fetches its events in a
\* transaction, and both workers read the job's configuration.
Workable(j) == QueriesWorkInTx /\ j \in Present /\ ~jobs[j].worked /\ Readable(jobs[j].config)

\* The parser adds the link's row, unless the job has one with its URL.
WorkerFinds(j) ==
  /\ Spend("find")
  /\ Workable(j) /\ jobs[j].foundAt = Nil
  /\ \A n \in Tasks(j) : Task(j, n).url # "/link"
  /\ jobs' = [jobs EXCEPT ![j].foundAt = clock]
  /\ count' = IF count.state = "half" /\ count.job = j /\ j \in On(Resolve(count.key))
              THEN [count EXCEPT !.added = @ + 1] ELSE count
  /\ UNCHANGED <<deploy, clock, pass, previews, objects, misserved>>

WorkerCompletes(j) ==
  /\ Spend("finish")
  /\ Workable(j)
  /\ jobs' = [jobs EXCEPT ![j].worked = TRUE]
  /\ PassSeesProgress("tasks", {j})
  /\ UNCHANGED <<deploy, clock, count, previews, objects, misserved>>

MarkAsExported(job) ==
  [job EXCEPT !.exportJSONKey = "json", !.exportCSVKey = "csv", !.exportedAt = clock,
              !.completedAt = clock, !.exportStatus = "COMPLETED", !.status = "Completed"]

\* crawlJobRepository.Update: all columns of the job, none of its configuration
\* or its tasks.  The converters give a stored job back as it was.
UpdateJob(row, job) == [row EXCEPT !.job = job]

\* One batch of the export worker, which is one transaction: the jobs whose
\* reports cannot be made are marked and tried again later.
ExportBatch(done, failed) ==
  /\ Spend("export")
  /\ QueriesWorkInTx
  /\ done \cup failed = {j \in Present : jobs[j].worked /\ jobs[j].job.exportedAt = Nil}
  /\ done \cap failed = {} /\ done \cup failed # {}
  /\ jobs' = [j \in JobIds |->
                CASE j \in done -> UpdateJob(jobs[j], MarkAsExported(jobs[j].job))
                  [] j \in failed -> [jobs[j] EXCEPT !.job.exportStatus = "FAILED"]
                  [] OTHER -> jobs[j]]
  /\ PassSeesProgress("jobs", done)
  /\ UNCHANGED <<deploy, clock, count, previews, objects, misserved>>

Tick ==
  /\ Spend("tick") /\ clock < MaxTime
  /\ clock' = clock + 1
  /\ UNCHANGED <<deploy, jobs, pass, count, previews, objects, misserved>>

-----------------------------------------------------------------------------
(* The handlers that read.  Nil is an error, Crash a panic, which ends the *)
(* server: no interceptor recovers.                                        *)

GetJobHandler(key, id) ==
  LET row == GetJob(key, id) IN IF row = Nil THEN Nil ELSE [job |-> ToProtoCrawlJob(row.job, row.config)]

GetTaskHandler(key, id) ==
  LET row == GetTask(key, id)
  IN  IF row = Nil THEN Nil
      ELSE [task |-> ToProtoCrawlTask(row.task, ToProtoCrawlJob(row.job, Nil))]

\* A link is the key of its object: PresignGetURL looks at nothing else.
Link(key) == IF key \in {Nil, ""} THEN Nil ELSE [url |-> key, expiresInSeconds |-> 600]

GetTaskFileURL(key, req) ==
  LET row == GetTask(key, req.taskId)
  IN  IF row = Nil THEN Nil
      ELSE Link(IF req.fileType = "pages" THEN row.task.minioObjectKey ELSE row.task.resultObjectKey)

GetJobExportFileURL(key, req) ==
  LET row == GetJob(key, req.jobId)
  IN  IF row = Nil THEN Nil
      ELSE Link(IF req.fileType = "json" THEN row.job.exportJSONKey ELSE row.job.exportCSVKey)

TaskStatuses == {"InProgress", "Fetched", "Parsed", "Completed", "Failed", "Skipped"}

Limit(n) == CASE n = 0 -> DefaultLimit [] n > MaxLimit -> MaxLimit [] OTHER -> n

Reversed(from, to) == from # Nil /\ to # Nil /\ from > to

JobFilterError(f) ==
  f # Nil /\ (f.status \notin TaskStatuses \cup {Nil, ""} \/ Reversed(f.createdFrom, f.createdTo))

TaskFilterError(f) ==
  f # Nil /\ (\/ f.status \notin TaskStatuses \cup {Nil, ""}
              \/ Reversed(f.minDepth, f.maxDepth)
              \/ Reversed(f.enqueuedFrom, f.enqueuedTo))

\* A cursor brings its own order, whatever the request says.
JobOrder(req) ==
  IF req.cursor # Nil THEN [field |-> req.cursor.sortField, asc |-> req.cursor.sortAsc]
  ELSE CASE req.sortField = "NAME" -> [field |-> "name", asc |-> req.sortOrder # "DESC"]
         [] req.sortField = "STATUS" -> [field |-> "status", asc |-> req.sortOrder # "DESC"]
         [] OTHER -> [field |-> "created_at", asc |-> req.sortOrder = "ASC"]

TaskOrder(req) ==
  IF req.cursor # Nil THEN [field |-> req.cursor.sortField, asc |-> req.cursor.sortAsc]
  ELSE [field |-> CASE req.sortField = "URL" -> "url" [] req.sortField = "STATUS" -> "status"
                    [] req.sortField = "DEPTH" -> "depth" [] OTHER -> "enqueued_at",
        asc |-> req.sortOrder # "DESC"]

\* One row more than the limit says that there are more pages.
HasMore(rows, limit) == Len(rows) > limit
Trim(rows, limit) == IF HasMore(rows, limit) THEN SubSeq(rows, 1, limit) ELSE rows

JobCursor == [id : JobIds, name : String, status : TaskStatuses, createdAt : Timestamp,
              sortField : {"created_at", "name", "status"}, sortAsc : BOOLEAN]
TaskCursor == [id : String, url : String, status : TaskStatuses, enqueuedAt : Timestamp, depth : Uint,
               sortField : {"enqueued_at", "url", "status", "depth"}, sortAsc : BOOLEAN]

\* The rows of a job, and what the tables do not hold: what was sent, the
\* shard of the rows and where the first tasks were sent.
StoredJob ==
  [job : JobModel, config : ConfigRow, sent : Submissions, shard : Nat, targets : Seq(STRING),
   foundAt : Opt(Timestamp), worked : BOOLEAN]

\* Nil is no other value (and Gone no row): neither a string or number, nor a row, model or message.
ASSUME NilAssumption ==
  /\ Nil \notin String \cup Nat /\ Nil \notin Int \X Int
  /\ Nil \notin ItemsModel /\ Nil \notin ConfigModel
  /\ Nil \notin JobCursor /\ Nil \notin TaskCursor
  /\ Nil \notin [job : JobModel, config : ConfigModel] /\ Nil \notin GetJobResponse
  /\ Nil \notin [task : TaskModel, job : JobModel] /\ Nil \notin GetTaskResponse
  /\ Nil \notin StoredJob \cup {Gone} /\ Gone \notin StoredJob

\* scanJobsWithQueueEndpoints: one row that cannot be converted fails all.
ScanFails(rows) == \E i \in DOMAIN rows : ~Readable(jobs[rows[i]].config)

ListJobs(req) ==
  LET order == JobOrder(req)
      limit == Limit(req.limit)
      rows == JobRows([cursor |-> req.cursor, limit |-> limit, filter |-> req.filter,
                       sortField |-> order.field, sortAsc |-> order.asc])
      page == Trim(rows, limit)
  IN  CASE JobFilterError(req.filter) \/ limit < -1 -> Nil
        [] limit = -1 -> Crash
        [] ScanFails(rows) -> Nil
        [] OTHER ->
             [jobs |-> [i \in DOMAIN page |->
                          ToProtoCrawlJob(RestoreCrawlJobFromSnapshot(jobs[page[i]].job),
                                          RestoreCrawlJobConfigFromSnapshot(jobs[page[i]].config))],
              nextCursor |-> IF HasMore(rows, limit) THEN JobCursorAt(JobRow(Last(page)), order) ELSE Nil,
              hasMore |-> HasMore(rows, limit)]

ListTasksByJob(key, req) ==
  LET order == TaskOrder(req)
      limit == Limit(req.limit)
      rows == TaskRows(key, [cursor |-> req.cursor, limit |-> limit, filter |-> req.filter, jobId |-> req.jobId,
                             sortField |-> order.field, sortAsc |-> order.asc])
      page == Mapped(LAMBDA n : Task(req.jobId, n), Trim(rows, limit))
  IN  CASE TaskFilterError(req.filter) \/ limit < -1 -> Nil
        [] limit = -1 -> Crash
        [] OTHER ->
             [tasks |-> Mapped(LAMBDA t : ToProtoCrawlTask(t, Nil), page),
              nextCursor |-> IF HasMore(rows, limit) THEN TaskCursorAt(Last(page), order) ELSE Nil,
              hasMore |-> HasMore(rows, limit)]

-----------------------------------------------------------------------------
(* A pass: the client asks for the first page with an order and for each   *)
(* further one with the cursor it was given and the same filter.           *)

\* p is the pass so far, ids the rows of the page.
TakePage(p, answer, ids) ==
  /\ pass' = CASE answer \in {Nil, Crash} -> [p EXCEPT !.state = "failed"]
              [] OTHER -> [p EXCEPT !.listed = @ \o ids, !.cursor = answer.nextCursor,
                                    !.state = IF answer.hasMore THEN "open" ELSE "done"]
  /\ count' = IF answer = Crash /\ count.state = "half" THEN [count EXCEPT !.state = "lost"] ELSE count

AskJobs(p, req) ==
  LET call == Call("grpc", "ListJobs", "READ", req, "")
      answer == ListJobs(req)
  IN  /\ Spend("pages")
      /\ Serve(call)
      /\ TakePage(p, answer, IF answer \in {Nil, Crash} THEN <<>> ELSE Mapped(LAMBDA j : j.id, answer.jobs))
      /\ UNCHANGED <<storeVars, previews, objects>>

AskTasks(p, req) ==
  LET call == Call("grpc", "ListTasksByJob", "READ", req, "")
      answer == ListTasksByJob(ShardKey(call), req)
  IN  /\ Spend("pages")
      /\ Serve(call)
      /\ TakePage(p, answer, IF answer \in {Nil, Crash} THEN <<>> ELSE Mapped(LAMBDA t : t.id, answer.tasks))
      /\ UNCHANGED <<storeVars, previews, objects>>

NewPass(kind, j, req, order, rows) ==
  [state |-> "open", kind |-> kind, job |-> j, cursor |-> Nil, limit |-> req.limit, filter |-> req.filter,
   field |-> order.field, listed |-> <<>>, steady |-> rows, moved |-> {}]

FirstJobs(req) ==
  /\ pass = Idle
  /\ AskJobs(NewPass("jobs", Nil, req, JobOrder(req), {j \in Present : JobMatches(j, req.filter)}), req)

FirstTasks(req) ==
  LET j == req.jobId
      key == ShardKeyInterceptor(deploy.shards, "ListTasksByJob", req)
      seen == {Task(j, n) : n \in UNION {Tasks(i) : i \in {j} \cap On(Resolve(key))}}
  IN  /\ pass = Idle /\ jobs[j] # Nil
      /\ AskTasks(NewPass("tasks", j, req, TaskOrder(req), {t.id : t \in {t \in seen : TaskMatches(t, req.filter)}}), req)

NextJobs ==
  /\ pass.state = "open" /\ pass.kind = "jobs"
  /\ AskJobs(pass, [cursor |-> pass.cursor, limit |-> pass.limit, filter |-> pass.filter,
                    sortField |-> "UNSPECIFIED", sortOrder |-> "UNSPECIFIED"])

NextTasks ==
  /\ pass.state = "open" /\ pass.kind = "tasks"
  /\ AskTasks(pass, [jobId |-> pass.job, cursor |-> pass.cursor, limit |-> pass.limit, filter |-> pass.filter,
                     sortField |-> "UNSPECIFIED", sortOrder |-> "UNSPECIFIED"])

-----------------------------------------------------------------------------
(* GetTaskAnalytics: two statements, each of which sees the rows that are  *)
(* committed when it begins.                                               *)

CountStatuses(door, j) ==
  LET call == Call(door, "GetTaskAnalytics", "READ", [jobId |-> j], IF door = "rest" THEN j ELSE "")
  IN  /\ count = Idle /\ jobs[j] # Nil
      /\ Spend("count")
      /\ Serve(call)
      /\ count' = [state |-> "half", job |-> j, key |-> ShardKey(call), added |-> 0,
                   statusCounts |-> StatusCounts(ShardKey(call), j), depthCounts |-> Nil]
      /\ UNCHANGED <<storeVars, pass, previews, objects>>

CountDepths ==
  /\ count.state = "half"
  /\ count' = [count EXCEPT !.state = "done", !.depthCounts = DepthCounts(count.key, count.job)]
  /\ UNCHANGED <<storeVars, load, pass, previews, objects, misserved>>

Total(counts) == FoldFunction(+, 0, counts)

GetTaskAnalytics ==
  [analytics |-> [statusCounts |-> count.statusCounts, depthCounts |-> count.depthCounts,
                  totalCount |-> Total(count.statusCounts)]]

-----------------------------------------------------------------------------
(* Previews.  The object is stored inside the transaction, but the content *)
(* store does not take part in it: what fails later leaves the object.     *)

PreviewRow(p, url, final) ==
  [id |-> p, sourceUrl |-> url, finalUrl |-> IF final # url THEN final ELSE Nil, minioKey |-> p,
   contentType |-> "text/html", downloadUrl |-> p, createdAt |-> clock, expiresAt |-> Nil]

\* Mutant: an error of the content store is only logged.
PreviewTxLoggingOnly(p, url, final, outcome) ==
  /\ objects' = IF outcome \in {"fetch", "store"} THEN objects ELSE objects \cup {p}
  /\ previews' = IF outcome \in {"ok", "store"} THEN [previews EXCEPT ![p] = PreviewRow(p, url, final)] ELSE previews

\* The service: outcome names the step that fails, or "ok".
PreviewTx(p, url, final, outcome) ==
  /\ objects' = IF outcome \in {"fetch", "store"} THEN objects ELSE objects \cup {p}
  /\ previews' = IF outcome = "ok" THEN [previews EXCEPT ![p] = PreviewRow(p, url, final)] ELSE previews

\* The handler, with a new id; what the service returns as an error is the answer.
CreatePreview(door, p, url, final, outcome) ==
  /\ Spend("preview")
  /\ Serve(Call(door, "CreatePreview", "READ_WRITE", [url |-> url], ""))
  /\ previews[p] = Nil /\ p \notin objects
  /\ PreviewTx(p, url, final, outcome)
  /\ UNCHANGED <<storeVars, pass, count>>

\* The fields of the message are the columns of the row.
ToProtoPreview(row) ==
  [id |-> row.id, sourceUrl |-> row.sourceUrl, finalUrl |-> row.finalUrl, minioKey |-> row.minioKey,
   contentType |-> row.contentType, downloadUrl |-> row.downloadUrl, createdAt |-> row.createdAt,
   expiresAt |-> row.expiresAt]

GetPreview(p) == IF previews[p] = Nil THEN Nil ELSE [preview |-> ToProtoPreview(previews[p])]

-----------------------------------------------------------------------------
Doors == {"rest", "grpc"}
PreviewOutcomes == {"fetch", "store", "presign", "insert", "ok"}

ApiNext ==
  \/ PureCall
  \/ \E door \in Doors, caller \in Callers, s \in load.submissions : CreateJob(door, caller, s)
  \/ \E door \in Doors, caller \in Callers, j \in JobIds : DeleteJob(door, caller, j)
  \/ \E j \in JobIds : WorkerFinds(j) \/ WorkerCompletes(j)
  \/ \E done, failed \in SUBSET JobIds : ExportBatch(done, failed)
  \/ Tick
  \/ \E req \in load.jobLists : FirstJobs(req)
  \/ \E req \in load.taskLists, j \in JobIds : FirstTasks([req EXCEPT !.jobId = j])
  \/ NextJobs
  \/ NextTasks
  \/ \E door \in Doors, j \in JobIds : CountStatuses(door, j)
  \/ CountDepths
  \/ \E door \in Doors, p \in PreviewIds, url, final \in {"/a", "/link"}, outcome \in PreviewOutcomes :
       CreatePreview(door, p, url, final, outcome)

ApiSpec == ApiInit /\ [][ApiNext]_apiVars

-----------------------------------------------------------------------------
(* Properties. *)

AllJobs(limit) == [cursor |-> Nil, limit |-> limit, filter |-> Nil,
                   sortField |-> "UNSPECIFIED", sortOrder |-> "UNSPECIFIED"]
AllTasks(j, limit) == [jobId |-> j, cursor |-> Nil, limit |-> limit, filter |-> Nil,
                       sortField |-> "UNSPECIFIED", sortOrder |-> "UNSPECIFIED"]

\* The state has its type, and whatever the state, every answer is a
\* well-formed message: the handlers of get_job.go, list_jobs.go, task_*.go,
\* get_preview.go never leave a field without a value of its type.
ApiTypeOK ==
  /\ jobs \in [JobIds -> StoredJob \cup {Nil, Gone}] /\ \A j \in Present : jobs[j].shard < deploy.shards
  /\ clock \in Timestamp
  /\ misserved \subseteq Methods \cup {"CrawlQueues"}
  /\ pass.state \in {"idle", "open", "done", "failed"}
  /\ pass # Idle /\ pass.cursor # Nil => pass.cursor \in (IF pass.kind = "jobs" THEN JobCursor ELSE TaskCursor)
  /\ count.state \in {"idle", "half", "done", "lost"}
  /\ count.state = "done" => GetTaskAnalytics \in GetTaskAnalyticsResponse
  /\ \A p \in PreviewIds : GetPreview(p) \in Opt(GetPreviewResponse)
  /\ load.jobLists \subseteq ListJobsRequest(JobCursor) /\ load.taskLists \subseteq ListTasksByJobRequest(TaskCursor)
  /\ \A j \in Present : \A key \in {Nil, j} :
       /\ GetJobHandler(key, j) \in Opt(GetJobResponse)
       /\ GetJobExportFileURL(key, [jobId |-> j, fileType |-> "csv"]) \in Opt(GetJobExportFileURLResponse)
       /\ ListTasksByJob(key, AllTasks(j, 1)) \in ListTasksByJobResponse(Opt(TaskCursor))
       /\ \A n \in Tasks(j) :
            /\ GetTaskHandler(key, Task(j, n).id) \in Opt(GetTaskResponse)
            /\ GetTaskFileURL(key, [taskId |-> Task(j, n).id, fileType |-> "result"]) \in Opt(GetTaskFileURLResponse)
  /\ ListJobs(AllJobs(1)) \in Opt(ListJobsResponse(Opt(JobCursor)))

\* ListWithCursor of both repositories: however jobs are submitted, deleted
\* and worked on between its pages, a pass that ends has listed every row
\* that was there all the time and kept its place exactly once, and no row
\* twice unless the row itself moved.
PassIsExact ==
  pass # Idle =>
    LET times(r) == Cardinality({i \in DOMAIN pass.listed : pass.listed[i] = r})
    IN  /\ \A r \in Range(pass.listed) : times(r) = 1 \/ r \in pass.moved
        /\ pass.state = "done" => pass.steady \subseteq Range(pass.listed)

\* What the client gets back for what it sent: parts that were not set come
\* with their zero values, and the ids are the server's.
TransformAsSent(p) == [op |-> p.op, arg |-> IF JsonText[p.arg] = Nil THEN "" ELSE JsonText[p.arg]]

FieldAsSent(p) == [p EXCEPT !.extractor = FromProtoExtractorSpec(@), !.transforms = Mapped(TransformAsSent, @)]

ItemsAsSent(p) == IF p = Nil THEN Nil ELSE [p EXCEPT !.fields = Mapped(FieldAsSent, @)]

ExtractionAsSent(p) ==
  IF p = Nil THEN FromProtoExtractionSpec(Nil)
  ELSE [p EXCEPT !.fields = Mapped(FieldAsSent, @), !.items = ItemsAsSent(@)]

JobTypeAsSent(t) == IF t = "UNSPECIFIED" THEN "ONCE" ELSE t

AsSent(id, p) ==
  [p EXCEPT
     !.id = id, !.userId = UserID,
     !.scopes = [FromProtoScopeRules(p.scopes) EXCEPT !.allowedUrlPatterns = Normalized(@)],
     !.rateLimit = FromProtoRateLimitPolicy(p.rateLimit), !.retries = FromProtoRetryPolicy(p.retries),
     !.auth = FromProtoAuthOptions(p.auth), !.schedule = FromProtoScheduleOptions(p.schedule),
     !.jobType = JobTypeAsSent(p.jobType),
     !.extractionSpec = ExtractionAsSent(p.extractionSpec)]

\* FromProto*, Save*ToSnapshot, Restore*FromSnapshot and ToProto* together:
\* a client reads back the configuration that it sent, through any door and
\* after whatever has happened to the job, as long as its numbers are not
\* beyond the 2^53 that a float64 holds exactly.
ConfigSurvives ==
  \A j \in Present :
    LET sent == AsSent(j, ConfigOf[jobs[j].sent])
        numbers == {sent.scopes.maxDepth, sent.retries.maxAttempts, sent.retries.backoffInitialMs}
    IN  (\A n \in numbers : n <= 2 ^ FloatBits) => /\ GetJobHandler(Nil, j) # Nil
                                                   /\ GetJobHandler(Nil, j).job.jobConfig = sent

\* A stored job whose row can be read is found by every reader, and all
\* tell the same of it: GetJob, which reads the row, GetTask of each of its
\* tasks, which reads five columns by a join, and ListJobs, which converts
\* a page of rows; whatever the workers and other clients have done to it.
ReadersAgree ==
  LET readable == {j \in Present : Readable(jobs[j].config)}
      list == ListJobs(AllJobs(MaxLimit))
  IN  /\ \A j \in readable :
           /\ GetJobHandler(Nil, j) # Nil
           /\ \A n \in Tasks(j) :
                LET task == GetTaskHandler(Nil, Task(j, n).id)
                IN  /\ task # Nil
                    /\ \A k \in {"id", "jobConfigId", "status", "createdAt", "completedAt"} :
                         task.task.job[k] = GetJobHandler(Nil, j).job[k]
      /\ Present = readable /\ Cardinality(Present) <= MaxLimit =>
           /\ Len(list.jobs) = Cardinality(Present)
           /\ \A j \in Present : \E i \in DOMAIN list.jobs : list.jobs[i] = GetJobHandler(Nil, j).job

\* A handler runs only for a caller with the role its method asks for, with
\* a message that obeys its rules and about the resource of its path,
\* although four REST routes pass by the interceptors and check for
\* themselves (crawl_queues_handler.go, delete_job_handler.go).
EveryCallIsChecked == misserved = {}

\* CreatePreview, whichever of its steps fails: the table never names an
\* object that is not in the content store, nor a link to another one.
PreviewIsBacked ==
  \A p \in PreviewIds : previews[p] # Nil => previews[p].minioKey \in objects /\ previews[p].downloadUrl = previews[p].minioKey

\* Of the queues that a job asks for, those with weight 0 are excluded unless
\* they are also named with another weight.
WithinReach(asked, weights, got, queues) ==
  LET wanted == {asked[i].queue : i \in {i \in DOMAIN asked : asked[i].weight > 0}}
      excluded == {asked[i].queue : i \in DOMAIN asked} \ wanted
  IN  /\ Len(queues) = 1 => got \subseteq Range(queues)
      /\ weights # <<>> /\ wanted # {} => got \cap excluded = {}

\* Queue routing of CreateCrawlJob: where there is one crawl queue, the
\* tasks go to it whatever weights were sent; elsewhere no task goes to a
\* queue that its job excludes with weight 0 while it wants another.
RoutedWithinReach ==
  \A j \in Present :
    WithinReach(WeightsOf[jobs[j].sent], jobs[j].config.queueWeights, Range(jobs[j].targets), deploy.queues)

\* GetAnalyticsByJob: its two statements are about the same tasks, except
\* for those that the parser added in between and a job deleted in between.
AnalyticsConsistent ==
  count.state = "done" /\ count.job \in Present =>
    Total(count.depthCounts) = Total(count.statusCounts) + count.added
=============================================================================
