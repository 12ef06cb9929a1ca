---------------------------- MODULE ApiMessages ----------------------------
(***************************************************************************)
(* The messages of the API (api/v1/models.proto) as sets of records.  A    *)
(* pointer or an optional field that is not set is Nil; a field without    *)
(* presence has its zero value then.  Strings are the members of one small *)
(* set, listed in the order in which the database sorts them.              *)
(***************************************************************************)
EXTENDS Integers, Sequences, FiniteSets

CONSTANTS
  Nil,        \* a pointer that is not set
  Collation,  \* every string, in the order of the database's collation
  MaxUint,    \* the greatest uint64
  MaxTime     \* the last point in time

String == {Collation[i] : i \in DOMAIN Collation}
Uint == 0 .. MaxUint
Timestamp == 0 .. MaxTime

\* A field that has presence.
Opt(S) == S \cup {Nil}


CrawlMode == {"UNSPECIFIED", "PAGINATION_AND_LINKS", "PAGINATION_ONLY", "LINKS_ONLY"}
JobType == {"UNSPECIFIED", "ONCE", "SCHEDULED"}
SortOrder == {"UNSPECIFIED", "ASC", "DESC"}
JobSortField == {"UNSPECIFIED", "CREATED_AT", "NAME", "STATUS"}
TaskSortField == {"UNSPECIFIED", "ENQUEUED_AT", "URL", "STATUS", "DEPTH"}
UserRole == {"UNSPECIFIED", "READ", "READ_WRITE", "ADMINISTRATOR"}

-----------------------------------------------------------------------------
(* The configuration of a crawl job. *)

AuthOptions == [cookie : String, basicUser : String, basicPassword : String, bearerToken : String]
RateLimitPolicy == [rps : Nat]
RetryPolicy == [maxAttempts : Uint, backoffInitialMs : Uint, backoffMultiplier : Nat]
ScheduleOptions == [cron : String]
ScopeRules == [maxDepth : Uint, allowedDomains : Seq(String),
               denyUrlPatterns : Seq(String), allowedUrlPatterns : Seq(String)]
Seed == [url : String]
ExtractorSpec == [selector : String, attribute : String, multiple : BOOLEAN, index : Opt(Int)]
TransformSpec == [op : String, arg : String]
FieldSpec == [name : String, type : String, required : BOOLEAN,
              extractor : Opt(ExtractorSpec), transforms : Seq(TransformSpec)]
PaginationSpec == [name : String, selector : String, attribute : String, multiple : BOOLEAN]
ItemsSpec == [containerSelector : String, fields : Seq(FieldSpec)]
ExtractionSpec == [fields : Seq(FieldSpec), pagination : Seq(PaginationSpec), items : Opt(ItemsSpec)]

CrawlJobConfig ==
  [id : String, userId : Opt(String), name : String, extractionSpec : Opt(ExtractionSpec),
   scopes : Opt(ScopeRules), seeds : Seq(Seed), rateLimit : Opt(RateLimitPolicy),
   retries : Opt(RetryPolicy), auth : Opt(AuthOptions), schedule : Opt(ScheduleOptions),
   respectRobotsTxt : BOOLEAN, jobType : JobType, crawlMode : CrawlMode]

-----------------------------------------------------------------------------
(* Jobs and tasks. *)

CrawlJob ==
  [id : String, jobConfigId : String, jobConfig : Opt(CrawlJobConfig), status : String,
   createdAt : Opt(Timestamp), completedAt : Opt(Timestamp), exportJsonKey : Opt(String),
   exportCsvKey : Opt(String), exportedAt : Opt(Timestamp), exportStatus : String,
   name : Opt(String), userId : Opt(String)]

CrawlTask ==
  [id : String, jobId : String, job : Opt(CrawlJob), url : String, finalUrl : Opt(String),
   status : String, enqueuedAt : Opt(Timestamp), depth : Uint, minioObjectKey : String,
   resultObjectKey : Opt(String), errorMessage : Opt(String)]

JobListFilter == [name : Opt(String), status : Opt(String), createdFrom : Opt(Timestamp),
                  createdTo : Opt(Timestamp), userEmail : Opt(String)]

\* A cursor is an opaque string to the client: "" for none, else what the
\* server put into it.  The set of cursors is a parameter of the two messages.
ListJobsRequest(Cursor) ==
  [cursor : Opt(Cursor), limit : Int, filter : Opt(JobListFilter),
   sortField : JobSortField, sortOrder : SortOrder]
ListJobsResponse(Cursor) == [jobs : Seq(CrawlJob), nextCursor : Cursor, hasMore : BOOLEAN]

CreateJobRequest == [config : Opt(CrawlJobConfig)]
CreateJobResponse == [id : String]
GetJobRequest == [id : String]
GetJobResponse == [job : Opt(CrawlJob)]
DeleteJobRequest == [id : String]
GetTaskRequest == [id : String]
GetTaskResponse == [task : Opt(CrawlTask)]

TaskListFilter == [status : Opt(String), url : Opt(String), minDepth : Opt(Uint), maxDepth : Opt(Uint),
                   enqueuedFrom : Opt(Timestamp), enqueuedTo : Opt(Timestamp)]
ListTasksByJobRequest(Cursor) ==
  [jobId : String, cursor : Opt(Cursor), limit : Int, filter : Opt(TaskListFilter),
   sortField : TaskSortField, sortOrder : SortOrder]
ListTasksByJobResponse(Cursor) == [tasks : Seq(CrawlTask), nextCursor : Cursor, hasMore : BOOLEAN]

\* The counts are maps; a key that is not in the map is counted as 0.
TaskAnalytics == [statusCounts : [String -> Nat], depthCounts : [Uint -> Nat], totalCount : Nat]
GetTaskAnalyticsRequest == [jobId : String]
GetTaskAnalyticsResponse == [analytics : Opt(TaskAnalytics)]

GetJobExportFileURLRequest == [jobId : String, fileType : String]
GetJobExportFileURLResponse == [url : String, expiresInSeconds : Nat]
GetTaskFileURLRequest == [taskId : String, fileType : String]
GetTaskFileURLResponse == [url : String, expiresInSeconds : Nat]

-----------------------------------------------------------------------------
(* Previews, accounts and workers. *)

Preview == [id : String, sourceUrl : String, finalUrl : Opt(String), minioKey : String,
            contentType : String, downloadUrl : String, createdAt : Opt(Timestamp), expiresAt : Opt(Timestamp)]
CreatePreviewRequest == [url : String]
CreatePreviewResponse == [id : String]
GetPreviewRequest == [id : String]
GetPreviewResponse == [preview : Opt(Preview)]

RegisterRequest == [email : String, password : String]
LoginRequest == [email : String, password : String]
RefreshRequest == [refreshToken : String]
LogoutRequest == [refreshToken : String]
UpdateUserRoleRequest == [id : String, role : UserRole]
DrainWorkerRequest == [workerId : String, reason : String]
ForceKillWorkerRequest == [workerId : String, reason : String]
=============================================================================
