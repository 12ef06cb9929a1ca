--------------------------- MODULE JobConfigCodec --------------------------
(***************************************************************************)
(* The way of a job's configuration from a request into the database and   *)
(* back into an answer: message, domain model, row with JSONB columns,     *)
(* domain model, message.                                                  *)
(***************************************************************************)
EXTENDS ApiMessages, QueueRouting, SequencesExt

CONSTANTS
  Trimmed,    \* strings.TrimSpace
  JsonText,   \* the JSON text for the value of a JSON text, Nil for null and for other text
  FloatBits   \* significant bits of a float64: 53 in the code

ASSUME CodecAssumption ==
  /\ Trimmed \in [String -> String]
  /\ JsonText \in [String -> Opt(String)]
  /\ "" \in String /\ JsonText[""] = Nil
  /\ \A s \in String : JsonText[s] # Nil => JsonText[JsonText[s]] = JsonText[s]
  /\ FloatBits \in Nat
  /\ MaxUint \in Nat \ {0}
  /\ MaxUint = 2 ^ (FloatBits + 1) - 1

-----------------------------------------------------------------------------
(* The domain models that differ from their messages: parts that are not   *)
(* pointers are always set, and an argument is a JSON value or nil.        *)

TransformModel == [op : String, arg : Opt(String)]
FieldModel == [name : String, type : String, required : BOOLEAN,
               extractor : ExtractorSpec, transforms : Seq(TransformModel)]
ItemsModel == [containerSelector : String, fields : Seq(FieldModel)]
ExtractionModel == [fields : Seq(FieldModel), pagination : Seq(PaginationSpec), items : Opt(ItemsModel)]

\* A configuration is read with the numbers of its message, and stored with
\* what a float64 makes of them.
ConfigWith(Scopes, Retries) ==
  [id : String, userId : String, name : String, extractionSpec : ExtractionModel,
   scopes : Scopes, seeds : Seq(Seed), rateLimit : RateLimitPolicy, retries : Retries,
   auth : AuthOptions, schedule : ScheduleOptions, respectRobotsTxt : BOOLEAN,
   jobType : {"JOB_TYPE_ONCE", "JOB_TYPE_SCHEDULED"},
   crawlMode : {"", "pagination_and_links", "pagination_only", "links_only"},
   queueWeights : Seq(QueueWeight)]

ConfigModel == ConfigWith(ScopeRules, RetryPolicy)
ConfigRow ==
  ConfigWith([maxDepth : Nat, allowedDomains : Seq(String), denyUrlPatterns : Seq(String), allowedUrlPatterns : Seq(String)],
             [maxAttempts : Nat, backoffInitialMs : Nat, backoffMultiplier : Nat])

JobModel ==
  [id : String, jobConfigId : String, userId : String, name : Opt(String), status : String,
   createdAt : Timestamp, completedAt : Opt(Timestamp), exportJSONKey : Opt(String),
   exportCSVKey : Opt(String), exportedAt : Opt(Timestamp), exportStatus : String]

TaskModel ==
  [id : String, jobId : String, url : String, finalURL : Opt(String), status : String, enqueuedAt : Timestamp,
   depth : Uint, minioObjectKey : String, resultObjectKey : Opt(String), errorMessage : Opt(String)]

-----------------------------------------------------------------------------
(* From the message to the domain model: a message that is not set is the  *)
(* zero value of its struct.                                               *)

OrZero(message, zero) == IF message = Nil THEN zero ELSE message

FromProtoAuthOptions(p) ==
  OrZero(p, [cookie |-> "", basicUser |-> "", basicPassword |-> "", bearerToken |-> ""])
FromProtoRateLimitPolicy(p) == OrZero(p, [rps |-> 0])
FromProtoRetryPolicy(p) == OrZero(p, [maxAttempts |-> 0, backoffInitialMs |-> 0, backoffMultiplier |-> 0])
FromProtoScheduleOptions(p) == OrZero(p, [cron |-> ""])
FromProtoScopeRules(p) ==
  OrZero(p, [maxDepth |-> 0, allowedDomains |-> <<>>, denyUrlPatterns |-> <<>>, allowedUrlPatterns |-> <<>>])
FromProtoExtractorSpec(p) ==
  OrZero(p, [selector |-> "", attribute |-> "", multiple |-> FALSE, index |-> Nil])

\* The argument is any JSON value; text that is no JSON is dropped silently.
FromProtoTransformSpec(p) == [op |-> p.op, arg |-> IF p.arg = "" THEN Nil ELSE JsonText[p.arg]]

Mapped(Op(_), s) == [i \in DOMAIN s |-> Op(s[i])]

FromProtoFieldSpec(p) ==
  [p EXCEPT !.extractor = FromProtoExtractorSpec(p.extractor),
            !.transforms = Mapped(FromProtoTransformSpec, p.transforms)]

FromProtoItemsSpec(p) ==
  IF p = Nil THEN Nil ELSE [p EXCEPT !.fields = Mapped(FromProtoFieldSpec, p.fields)]

FromProtoExtractionSpec(p) ==
  IF p = Nil THEN [fields |-> <<>>, pagination |-> <<>>, items |-> Nil]
  ELSE [fields |-> Mapped(FromProtoFieldSpec, p.fields),
        pagination |-> p.pagination,
        items |-> FromProtoItemsSpec(p.items)]

\* Mutant: the mode that was added last is forgotten.
FromProtoCrawlModeOld(m) ==
  CASE m = "PAGINATION_AND_LINKS" -> "pagination_and_links"
    [] m = "PAGINATION_ONLY" -> "pagination_only"
    [] OTHER -> ""

FromProtoCrawlMode(m) ==
  CASE m = "PAGINATION_AND_LINKS" -> "pagination_and_links"
    [] m = "PAGINATION_ONLY" -> "pagination_only"
    [] m = "LINKS_ONLY" -> "links_only"
    [] OTHER -> ""

FromProtoJobType(t) == IF t = "SCHEDULED" THEN "JOB_TYPE_SCHEDULED" ELSE "JOB_TYPE_ONCE"

\* id and userId come from the service, the weights from the REST handler.
FromProtoCrawlJobConfig(p) ==
  [id |-> "", userId |-> "", name |-> p.name,
   extractionSpec |-> FromProtoExtractionSpec(p.extractionSpec),
   scopes |-> FromProtoScopeRules(p.scopes),
   seeds |-> p.seeds,
   rateLimit |-> FromProtoRateLimitPolicy(p.rateLimit),
   retries |-> FromProtoRetryPolicy(p.retries),
   auth |-> FromProtoAuthOptions(p.auth),
   schedule |-> FromProtoScheduleOptions(p.schedule),
   respectRobotsTxt |-> p.respectRobotsTxt,
   jobType |-> FromProtoJobType(p.jobType),
   crawlMode |-> FromProtoCrawlMode(p.crawlMode),
   queueWeights |-> <<>>]

-----------------------------------------------------------------------------
(* Into the row and back.  The converters pass each part through           *)
(* map[string]interface{}, where a number is a float64: the nearest one,   *)
(* and of two equally near the one whose last bit is 0.  Integers have one *)
(* bit more than a float64 here; with the eleven more of a uint64 the      *)
(* greater ones are also rounded when they are written as decimals.        *)

Float64(n) ==
  IF n <= 2 ^ FloatBits \/ n % 2 = 0 THEN n
  ELSE CHOOSE f \in {n - 1, n + 1} : f % 4 = 0

Null(s) == IF s = "" THEN Nil ELSE s
NotNull(s) == IF s = Nil THEN "" ELSE s

SaveCrawlJobConfigToSnapshot(c) ==
  [c EXCEPT !.userId = Null(@),
            !.scopes.maxDepth = Float64(@),
            !.retries.maxAttempts = Float64(@),
            !.retries.backoffInitialMs = Float64(@),
            !.jobType = IF @ = "" THEN "JOB_TYPE_ONCE" ELSE @]

\* Mutant: numbers that do not fit are let through.
ReadableAlways(row) == TRUE

\* json.Unmarshal fails for a number that is too great for its uint64.
Readable(row) ==
  {row.scopes.maxDepth, row.retries.maxAttempts, row.retries.backoffInitialMs} \subseteq Uint

\* Nil stands for the error that the converter returns.
RestoreCrawlJobConfigFromSnapshot(row) ==
  IF ~Readable(row) THEN Nil
  ELSE [row EXCEPT !.userId = NotNull(@), !.jobType = IF @ = "" THEN "JOB_TYPE_ONCE" ELSE @]

SaveCrawlJobToSnapshot(j) == [j EXCEPT !.jobConfigId = Null(@), !.userId = Null(@)]

RestoreCrawlJobFromSnapshot(row) ==
  [row EXCEPT !.jobConfigId = NotNull(@), !.userId = NotNull(@),
              !.exportStatus = IF @ = Nil THEN "NOT_STARTED" ELSE @]

-----------------------------------------------------------------------------
(* From the domain model to the message. *)

ToProtoTransformSpec(t) == [op |-> t.op, arg |-> IF t.arg = Nil THEN "" ELSE t.arg]

ToProtoFieldSpec(f) == [f EXCEPT !.transforms = Mapped(ToProtoTransformSpec, f.transforms)]

ToProtoItemsSpec(s) == IF s = Nil THEN Nil ELSE [s EXCEPT !.fields = Mapped(ToProtoFieldSpec, s.fields)]

ToProtoExtractionSpec(s) ==
  [fields |-> Mapped(ToProtoFieldSpec, s.fields),
   pagination |-> s.pagination,
   items |-> ToProtoItemsSpec(s.items)]

ToProtoCrawlMode(m) ==
  CASE m = "pagination_and_links" -> "PAGINATION_AND_LINKS"
    [] m = "pagination_only" -> "PAGINATION_ONLY"
    [] m = "links_only" -> "LINKS_ONLY"
    [] OTHER -> "UNSPECIFIED"

ToProtoJobType(t) == IF t = "JOB_TYPE_SCHEDULED" THEN "SCHEDULED" ELSE "ONCE"

\* The message has no field for the queue weights.
ToProtoCrawlJobConfig(c) ==
  IF c = Nil THEN Nil ELSE
  [k \in DOMAIN c \ {"queueWeights"} |->
     CASE k = "userId" -> Null(c.userId)
       [] k = "extractionSpec" -> ToProtoExtractionSpec(c.extractionSpec)
       [] k = "jobType" -> ToProtoJobType(c.jobType)
       [] k = "crawlMode" -> ToProtoCrawlMode(c.crawlMode)
       [] OTHER -> c[k]]

\* j is the job's model, c its configuration's.
ToProtoCrawlJob(j, c) ==
  [id |-> j.id, jobConfigId |-> j.jobConfigId, jobConfig |-> ToProtoCrawlJobConfig(c),
   userId |-> Null(j.userId), name |-> j.name, status |-> j.status,
   createdAt |-> j.createdAt, completedAt |-> j.completedAt,
   exportJsonKey |-> j.exportJSONKey, exportCsvKey |-> j.exportCSVKey,
   exportedAt |-> j.exportedAt, exportStatus |-> j.exportStatus]

\* t is the task's model, job the message of its job, Nil in a list.
ToProtoCrawlTask(t, job) ==
  [id |-> t.id, jobId |-> t.jobId, job |-> job, url |-> t.url, finalUrl |-> t.finalURL,
   status |-> t.status, enqueuedAt |-> t.enqueuedAt, depth |-> t.depth,
   minioObjectKey |-> t.minioObjectKey, resultObjectKey |-> t.resultObjectKey,
   errorMessage |-> t.errorMessage]
=============================================================================
