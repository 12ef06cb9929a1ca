----------------------------- MODULE ApiGateway ----------------------------
(***************************************************************************)
(* How a request reaches its handler: over gRPC through the chain of       *)
(* interceptors, or over REST, where the gateway makes the message for the *)
(* same chain, except on the routes that the API server serves itself.     *)
(***************************************************************************)
EXTENDS ApiValidation

-----------------------------------------------------------------------------
(* The gRPC services. *)

CrawlerMethods == {"ListJobs", "CreateJob", "GetJob", "GetJobExportFileURL", "DeleteJob", "GetTask",
                   "ListTasksByJob", "GetTaskAnalytics", "GetTaskFileURL"}
PreviewMethods == {"CreatePreview", "GetPreview"}
AuthMethods == {"Register", "Login", "Refresh", "Logout"}
UserMethods == {"ListUsers", "UpdateUserRole"}
WorkerMethods == {"ListWorkers", "DrainWorker", "ForceKillWorker"}

Methods == CrawlerMethods \cup PreviewMethods \cup AuthMethods \cup UserMethods \cup WorkerMethods

-----------------------------------------------------------------------------
(* Who calls: a caller without a good token, or the role in the claims of  *)
(* its token, which need not be a role that the server knows.              *)

Callers == {"nobody", "guest", "READ", "READ_WRITE", "ADMINISTRATOR"}

Level(role) ==
  CASE role = "READ" -> 1 [] role = "READ_WRITE" -> 2 [] role = "ADMINISTRATOR" -> 3 [] OTHER -> 0

isPublicEndpoint(method) == method \in {"Register", "Login", "Refresh", "Logout"}

\* Nil for a method that the table does not name.
requiredRoleForMethod(method) ==
  CASE method \in {"ListJobs", "GetJob", "ListTasksByJob", "GetTask", "GetTaskFileURL",
                   "GetTaskAnalytics", "GetJobExportFileURL"} -> "READ"
    [] method \in {"CreateJob", "CreatePreview", "GetPreview"} -> "READ_WRITE"
    [] method \in {"ListWorkers", "DrainWorker", "ForceKillWorker", "ListUsers", "UpdateUserRole"}
         -> "ADMINISTRATOR"
    [] OTHER -> Nil

\* There is a token with a good signature, and its role is a known one.
VerifyToken(caller) == caller # "nobody" /\ Level(caller) > 0

JWTAuthInterceptor(method, caller) == isPublicEndpoint(method) \/ VerifyToken(caller)

RBACInterceptor(method, caller) ==
  \/ isPublicEndpoint(method)
  \/ /\ Level(caller) > 0
     /\ requiredRoleForMethod(method) # Nil
     /\ Level(caller) >= Level(requiredRoleForMethod(method))

\* The chain of initGRPCServer: the first interceptor that objects answers.
GrpcChain(method, caller, req) ==
  CASE ~ValidateInterceptor(method, req) -> "invalid"
    [] ~JWTAuthInterceptor(method, caller) -> "unauthenticated"
    [] ~RBACInterceptor(method, caller) -> "denied"
    [] OTHER -> "handler"

\* The routes that do not pass through the chain check the token themselves.
verifyAuth(caller, minRole) ==
  CASE ~VerifyToken(caller) -> "unauthenticated"
    [] Level(caller) < Level(minRole) -> "denied"
    [] OTHER -> "handler"

-----------------------------------------------------------------------------
(* Shards: the job id of a request becomes the shard key of its context,   *)
(* Nil for none.  REST's own routes set no key.                            *)

isJobEndpoint(method) == method \in {"GetJob", "DeleteJob"}

ShardKeyInterceptor(shards, method, req) ==
  IF shards = 1 THEN Nil
  ELSE CASE "jobId" \in DOMAIN req /\ req.jobId # "" -> req.jobId
         [] isJobEndpoint(method) /\ req.id # "" -> req.id
         [] OTHER -> Nil

-----------------------------------------------------------------------------
(* The gateway: a message from the parts of an HTTP request, which are the *)
(* decoded body, the parameter in the path and the query.  What the path   *)
(* names cannot be changed by the body or the query.                       *)

request_ListJobs(http) == http.query
request_CreateJob(http) == http.body
request_GetJob(http) == [id |-> http.path]
request_GetJobExportFileURL(http) == [jobId |-> http.path, fileType |-> http.query.fileType]
request_DeleteJob(http) == [id |-> http.path]
request_GetTask(http) == [id |-> http.path]
request_ListTasksByJob(http) == [http.query EXCEPT !.jobId = http.path]
request_GetTaskAnalytics(http) == [jobId |-> http.path]
request_GetTaskFileURL(http) == [taskId |-> http.path, fileType |-> http.query.fileType]
request_CreatePreview(http) == http.body
request_GetPreview(http) == [id |-> http.path]
request_Register(http) == http.body
request_Login(http) == http.body
request_Refresh(http) == http.body
request_Logout(http) == http.body
request_UpdateUserRole(http) == [http.body EXCEPT !.id = http.path]
request_DrainWorker(http) == [http.body EXCEPT !.workerId = http.path]
request_ForceKillWorker(http) == [http.body EXCEPT !.workerId = http.path]

\* The routes of each service.
CrawlerRoutes(method, http) ==
  CASE method = "ListJobs" -> request_ListJobs(http)
    [] method = "CreateJob" -> request_CreateJob(http)
    [] method = "GetJob" -> request_GetJob(http)
    [] method = "GetJobExportFileURL" -> request_GetJobExportFileURL(http)
    [] method = "DeleteJob" -> request_DeleteJob(http)
    [] method = "GetTask" -> request_GetTask(http)
    [] method = "ListTasksByJob" -> request_ListTasksByJob(http)
    [] method = "GetTaskAnalytics" -> request_GetTaskAnalytics(http)
    [] method = "GetTaskFileURL" -> request_GetTaskFileURL(http)

PreviewRoutes(method, http) ==
  IF method = "CreatePreview" THEN request_CreatePreview(http) ELSE request_GetPreview(http)

AuthRoutes(method, http) ==
  CASE method = "Register" -> request_Register(http)
    [] method = "Login" -> request_Login(http)
    [] method = "Refresh" -> request_Refresh(http)
    [] method = "Logout" -> request_Logout(http)

\* The messages of ListUsers and ListWorkers have no fields.
UserRoutes(method, http) ==
  IF method = "ListUsers" THEN http.body ELSE request_UpdateUserRole(http)

WorkerRoutes(method, http) ==
  CASE method = "ListWorkers" -> http.body
    [] method = "DrainWorker" -> request_DrainWorker(http)
    [] method = "ForceKillWorker" -> request_ForceKillWorker(http)

RestMessage(method, http) ==
  CASE method \in CrawlerMethods -> CrawlerRoutes(method, http)
    [] method \in PreviewMethods -> PreviewRoutes(method, http)
    [] method \in AuthMethods -> AuthRoutes(method, http)
    [] method \in UserMethods -> UserRoutes(method, http)
    [] method \in WorkerMethods -> WorkerRoutes(method, http)
    [] OTHER -> http.body

-----------------------------------------------------------------------------
(* The routes that initHTTPServer registers after the gateway's: a later   *)
(* registration is tried first, so these never reach the chain.            *)

Checked(auth, ok) == IF auth = "handler" /\ ~ok THEN "invalid" ELSE auth

crawlQueuesHandlerFunc(caller, http) == verifyAuth(caller, "READ")
createJobHandlerFunc(caller, http) == Checked(verifyAuth(caller, "READ_WRITE"), http.body.config # Nil)
getJobHandlerFunc(caller, http) == Checked(verifyAuth(caller, "READ"), http.path # "")
\* Mutant: asks for the role of the reading routes.
deleteJobHandlerFuncRead(caller, http) == Checked(verifyAuth(caller, "READ"), http.path # "")
deleteJobHandlerFunc(caller, http) == Checked(verifyAuth(caller, "READ_WRITE"), http.path # "")

RestChain(method, caller, http) ==
  CASE method = "CreateJob" -> createJobHandlerFunc(caller, http)
    [] method = "GetJob" -> getJobHandlerFunc(caller, http)
    [] method = "DeleteJob" -> deleteJobHandlerFunc(caller, http)
    [] method = "CrawlQueues" -> crawlQueuesHandlerFunc(caller, http)
    [] OTHER -> GrpcChain(method, caller, RestMessage(method, http))

\* A gRPC client sends the message itself, which is the body here.
Message(call) == IF call.door = "rest" THEN RestMessage(call.method, call.http) ELSE call.http.body

Arrive(call) ==
  IF call.door = "rest" THEN RestChain(call.method, call.caller, call.http)
  ELSE GrpcChain(call.method, call.caller, call.http.body)
=============================================================================
