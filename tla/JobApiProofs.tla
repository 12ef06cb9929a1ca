---------------------------- MODULE JobApiProofs ---------------------------
(***************************************************************************)
(* What JobApi checks and what it stores, proved for any number of jobs,   *)
(* submissions and previews, any messages, weights and numbers of queues   *)
(* and shards:                                                             *)
(*                                                                         *)
(*   - no call reaches a handler unchecked (CallsAreChecked);              *)
(*   - the previews name objects that are stored (PreviewsAreBacked);      *)
(*   - no task goes to a queue its job excludes (TasksStayWithinReach);    *)
(*   - a job is answered as it was sent (ConfigsSurvive), from the         *)
(*     invariant StoreSound of the tables.                                 *)
(***************************************************************************)
EXTENDS JobApi, TLAPS, WellFoundedInduction, SequenceTheorems

-----------------------------------------------------------------------------
(* What the checks on the way to a handler establish.                       *)

\* The message of a REST call is about the resource in the path.
PathHolds(call) ==
  LET msg == Message(call)
  IN  call.door = "rest" /\ call.http.path # ""
        => \A k \in DOMAIN msg \cap {"id", "jobId", "taskId", "workerId"} : msg[k] = call.http.path

\* Every role has one of four levels.
LEMMA Levels == \A role : Level(role) \in 0 .. 3
  BY DEF Level

\* The chain of interceptors lets a call through only if it is valid and its
\* caller has the level of its method.
LEMMA ChainChecks ==
  ASSUME NEW method, NEW caller, NEW req, GrpcChain(method, caller, req) = "handler"
  PROVE  Level(caller) >= NeededLevel(method) /\ ValidateInterceptor(method, req)
  <1>1. ValidateInterceptor(method, req) /\ RBACInterceptor(method, caller)
    BY DEF GrpcChain
  <1>2. CASE isPublicEndpoint(method)
    <2>1. NeededLevel(method) = 0
      BY <1>2 DEF isPublicEndpoint, NeededLevel, AuthMethods, UserMethods, WorkerMethods, PreviewMethods
    <2>2. QED
      BY <1>1, <2>1, Levels
  <1>3. CASE ~isPublicEndpoint(method)
    <2>1. requiredRoleForMethod(method) # Nil /\ Level(caller) >= Level(requiredRoleForMethod(method))
      BY <1>1, <1>3 DEF RBACInterceptor
    <2>2. Level(requiredRoleForMethod(method)) = NeededLevel(method)
      <3>1. CASE method \in {"ListJobs", "GetJob", "ListTasksByJob", "GetTask", "GetTaskFileURL",
                             "GetTaskAnalytics", "GetJobExportFileURL"}
        BY <3>1 DEF requiredRoleForMethod, NeededLevel, Level, AuthMethods, UserMethods, WorkerMethods, PreviewMethods
      <3>2. CASE method \in {"CreateJob", "CreatePreview", "GetPreview"}
        BY <3>2 DEF requiredRoleForMethod, NeededLevel, Level, AuthMethods, UserMethods, WorkerMethods, PreviewMethods
      <3>3. CASE method \in {"ListWorkers", "DrainWorker", "ForceKillWorker", "ListUsers", "UpdateUserRole"}
        BY <3>3 DEF requiredRoleForMethod, NeededLevel, Level, AuthMethods, UserMethods, WorkerMethods, PreviewMethods
      <3>4. QED
        BY <2>1, <3>1, <3>2, <3>3 DEF requiredRoleForMethod
    <2>3. QED
      BY <1>1, <2>1, <2>2
  <1>4. QED
    BY <1>2, <1>3

\* The routes of the API server itself ask for the level of their method.
LEMMA RoutesCheck ==
  ASSUME NEW caller, NEW http
  PROVE  /\ createJobHandlerFunc(caller, http) = "handler" => Level(caller) >= 2 /\ http.body.config # Nil
         /\ deleteJobHandlerFunc(caller, http) = "handler" => Level(caller) >= 2 /\ http.path # ""
         /\ getJobHandlerFunc(caller, http) = "handler" => Level(caller) >= 1 /\ http.path # ""
         /\ crawlQueuesHandlerFunc(caller, http) = "handler" => Level(caller) >= 1
  <1>1. Level("READ") = 1 /\ Level("READ_WRITE") = 2
    BY DEF Level
  <1>2. \A role : verifyAuth(caller, role) = "handler" => Level(caller) >= Level(role)
    BY Levels DEF verifyAuth, VerifyToken
  <1>3. QED
    BY <1>1, <1>2 DEF createJobHandlerFunc, deleteJobHandlerFunc, getJobHandlerFunc, crawlQueuesHandlerFunc, Checked

\* A call that neither REST's own routes nor their message concern.
LEMMA ArriveChecks ==
  ASSUME NEW call, Arrive(call) = "handler", PathHolds(call),
         call.door = "rest" => call.method \notin {"CreateJob", "GetJob", "DeleteJob", "CrawlQueues"}
  PROVE  Rightful(call)
  <1>1. GrpcChain(call.method, call.caller, Message(call)) = "handler"
    BY DEF Arrive, RestChain, Message
  <1>2. QED
    BY <1>1, ChainChecks DEF Rightful, PathHolds

\* The message of a REST call to a method that changes nothing is about the
\* resource in its path: neither body nor query can replace it.
LEMMA PathDecides ==
  ASSUME NEW call, call.method \in SampleMethods, Message(call) \in RequestSet(call.method)
  PROVE  PathHolds(call)
  <1> SUFFICES ASSUME call.door = "rest",
                      NEW k \in DOMAIN Message(call) \cap {"id", "jobId", "taskId", "workerId"}
               PROVE  Message(call)[k] = call.http.path
    BY DEF PathHolds
  <1>0. Message(call) = RestMessage(call.method, call.http)
    BY DEF Message
  <1>1. CASE call.method \in {"GetJob", "GetTask", "GetPreview"}
    <2>1. Message(call) = [id |-> call.http.path]
      BY <1>0, <1>1 DEF RestMessage, CrawlerMethods, PreviewMethods, AuthMethods, UserMethods,
                       WorkerMethods, CrawlerRoutes, PreviewRoutes,
                       request_GetJob, request_GetTask, request_GetPreview
    <2>2. QED
      BY <2>1
  <1>2. CASE call.method = "GetTaskAnalytics"
    <2>1. Message(call) = [jobId |-> call.http.path]
      BY <1>0, <1>2 DEF RestMessage, CrawlerMethods, PreviewMethods, AuthMethods, UserMethods,
                       WorkerMethods, CrawlerRoutes, request_GetTaskAnalytics
    <2>2. QED
      BY <2>1
  <1>3. CASE call.method = "GetJobExportFileURL"
    <2>1. Message(call) = [jobId |-> call.http.path, fileType |-> call.http.query.fileType]
      BY <1>0, <1>3 DEF RestMessage, CrawlerMethods, PreviewMethods, AuthMethods, UserMethods,
                       WorkerMethods, CrawlerRoutes, request_GetJobExportFileURL
    <2>2. QED
      BY <2>1
  <1>4. CASE call.method = "GetTaskFileURL"
    <2>1. Message(call) = [taskId |-> call.http.path, fileType |-> call.http.query.fileType]
      BY <1>0, <1>4 DEF RestMessage, CrawlerMethods, PreviewMethods, AuthMethods, UserMethods,
                       WorkerMethods, CrawlerRoutes, request_GetTaskFileURL
    <2>2. QED
      BY <2>1
  <1>5. CASE call.method = "ListTasksByJob"
    <2>1. Message(call) = [call.http.query EXCEPT !.jobId = call.http.path]
      BY <1>0, <1>5 DEF RestMessage, CrawlerMethods, PreviewMethods, AuthMethods, UserMethods,
                       WorkerMethods, CrawlerRoutes, request_ListTasksByJob
    <2>2. Message(call) \in ListTasksByJobRequest({})
      BY <1>5 DEF RequestSet
    <2>3. DOMAIN Message(call) = {"jobId", "cursor", "limit", "filter", "sortField", "sortOrder"}
      BY <2>2 DEF ListTasksByJobRequest
    <2>4. QED
      BY <2>1, <2>3
  <1>6. CASE call.method = "UpdateUserRole"
    <2>1. Message(call) = [call.http.body EXCEPT !.id = call.http.path]
      BY <1>0, <1>6 DEF RestMessage, CrawlerMethods, PreviewMethods, AuthMethods, UserMethods,
                       WorkerMethods, UserRoutes, request_UpdateUserRole
    <2>2. DOMAIN Message(call) = {"id", "role"}
      BY <1>6 DEF RequestSet, UpdateUserRoleRequest
    <2>3. QED
      BY <2>1, <2>2
  <1>7. CASE call.method \in {"DrainWorker", "ForceKillWorker"}
    <2>1. Message(call) = [call.http.body EXCEPT !.workerId = call.http.path]
      BY <1>0, <1>7 DEF RestMessage, CrawlerMethods, PreviewMethods, AuthMethods, UserMethods,
                       WorkerMethods,
                       WorkerRoutes, request_DrainWorker, request_ForceKillWorker
    <2>2. DOMAIN Message(call) = {"workerId", "reason"}
      BY <1>7 DEF RequestSet, DrainWorkerRequest, ForceKillWorkerRequest
    <2>3. QED
      BY <2>1, <2>2
  <1>8. CASE call.method \in {"ListJobs", "Register", "Login", "Refresh", "Logout"}
    <2>1. CASE call.method = "ListJobs"
      BY <2>1 DEF RequestSet, ListJobsRequest
    <2>2. CASE call.method \in {"Register", "Login"}
      BY <2>2 DEF RequestSet, RegisterRequest, LoginRequest
    <2>3. CASE call.method \in {"Refresh", "Logout"}
      BY <2>3 DEF RequestSet, RefreshRequest, LogoutRequest
    <2>4. QED
      BY <1>8, <2>1, <2>2, <2>3
  <1>9. QED
    BY <1>1, <1>2, <1>3, <1>4, <1>5, <1>6, <1>7, <1>8
       DEF SampleMethods, Methods, CrawlerMethods, PreviewMethods, AuthMethods, UserMethods, WorkerMethods

-----------------------------------------------------------------------------
(* EveryCallIsChecked.                                                      *)

\* A rightful call leaves the history as it is.
LEMMA ServeRightful ==
  ASSUME NEW call, Serve(call), Arrive(call) = "handler" => Rightful(call)
  PROVE  misserved' = misserved
  BY DEF Serve

\* The calls that change nothing.
LEMMA SamplesRightful ==
  ASSUME NEW call \in Samples, Arrive(call) = "handler"
  PROVE  Rightful(call)
  <1>1. PathHolds(call)
    <2>1. CASE call.method \in {"ListUsers", "ListWorkers", "CrawlQueues"}
      BY <2>1, ApiAssumption DEF PathHolds
    <2>2. CASE call.method \notin {"ListUsers", "ListWorkers", "CrawlQueues"}
      BY <2>2, ApiAssumption, PathDecides
    <2>3. QED
      BY <2>1, <2>2
  <1>2. call.method \notin {"CreateJob", "DeleteJob"}
    BY ApiAssumption DEF SampleMethods
  <1>3. CASE call.door = "rest" /\ call.method \in {"GetJob", "CrawlQueues"}
    <2>1. Level(call.caller) >= 1
      BY <1>3, RoutesCheck DEF Arrive, RestChain
    <2>2. NeededLevel(call.method) = 1 /\ ValidateInterceptor(call.method, Message(call))
      BY <1>3 DEF NeededLevel, AuthMethods, UserMethods, WorkerMethods, PreviewMethods, ValidateInterceptor
    <2>3. QED
      BY <1>1, <2>1, <2>2 DEF Rightful, PathHolds
  <1>4. CASE ~(call.door = "rest" /\ call.method \in {"GetJob", "CrawlQueues"})
    BY <1>1, <1>2, <1>4, ArriveChecks
  <1>5. QED
    BY <1>3, <1>4

\* A message that consists of the id in the path is about that resource.
LEMMA PathOfRecord ==
  ASSUME NEW call, Message(call) = [id |-> call.http.path] \/ Message(call) = [jobId |-> call.http.path]
  PROVE  PathHolds(call)
  <1> SUFFICES ASSUME NEW k \in DOMAIN Message(call) \cap {"id", "jobId", "taskId", "workerId"}
               PROVE  Message(call)[k] = call.http.path
    BY DEF PathHolds
  <1>1. QED
    OBVIOUS

\* A submitted job.
LEMMA CreateJobRightful ==
  ASSUME NEW door, NEW caller, NEW config,
         Arrive(Call(door, "CreateJob", caller, [config |-> config], "")) = "handler"
  PROVE  Rightful(Call(door, "CreateJob", caller, [config |-> config], ""))
  <1> DEFINE call == Call(door, "CreateJob", caller, [config |-> config], "")
  <1>1. /\ call.door = door /\ call.method = "CreateJob" /\ call.caller = caller
        /\ call.http.body = [config |-> config] /\ call.http.path = ""
    BY DEF Call
  <1>2. Arrive(call) = "handler"
    OBVIOUS
  <1> HIDE DEF call
  <1>3. PathHolds(call)
    BY <1>1 DEF PathHolds
  <1>4. CASE door = "rest"
    <2>0. createJobHandlerFunc(caller, call.http) = "handler"
      BY <1>1, <1>2, <1>4 DEF Arrive, RestChain
    <2>1. Level(caller) >= 2 /\ call.http.body.config # Nil
      BY <2>0, RoutesCheck
    <2>2. Message(call) = [config |-> config]
      BY <1>1, <1>4 DEF Message, RestMessage, CrawlerMethods, PreviewMethods, AuthMethods, UserMethods, WorkerMethods,
                       CrawlerRoutes, request_CreateJob
    <2>3. NeededLevel("CreateJob") = 2
      BY DEF NeededLevel, AuthMethods, UserMethods, WorkerMethods, PreviewMethods
    <2>a. Message(call).config # Nil
      BY <1>1, <2>1, <2>2
    <2>b. ValidateInterceptor("CreateJob", Message(call))
      BY <2>a DEF ValidateInterceptor, ValidateCreateJobRequest
    <2>4. QED
      BY <1>1, <1>3, <2>1, <2>3, <2>b DEF Rightful, PathHolds, call
  <1>5. CASE door # "rest"
    BY <1>1, <1>2, <1>3, <1>5, ArriveChecks DEF call
  <1>6. QED
    BY <1>4, <1>5

\* A job id is not the empty string.
LEMMA JobIdsHaveLength ==
  ASSUME NEW j \in JobIds
  PROVE  RuneCount[j] >= 1
  <1>1. j \in String /\ j # ""
    BY StoreAssumption
  <1>2. RuneCount[j] \in Nat /\ RuneCount[j] # 0
    BY <1>1, ValidationAssumption
  <1>3. QED
    BY <1>2

\* A field of a record with one field.
LEMMA IdOfRecord == \A m, x : m = [id |-> x] => m.id = x
  OBVIOUS

\* A deleted job.
LEMMA DeleteJobRightful ==
  ASSUME NEW door, NEW caller, NEW j \in JobIds, NEW path, path = (IF door = "rest" THEN j ELSE ""),
         Arrive(Call(door, "DeleteJob", caller, [id |-> j], path)) = "handler"
  PROVE  Rightful(Call(door, "DeleteJob", caller, [id |-> j], path))
  <1> DEFINE call == Call(door, "DeleteJob", caller, [id |-> j], path)
  <1>1. /\ call.door = door /\ call.method = "DeleteJob" /\ call.caller = caller
        /\ call.http.body = [id |-> j] /\ call.http.path = path
    BY DEF Call
  <1>2. Arrive(call) = "handler"
    OBVIOUS
  <1> HIDE DEF call
  <1>3. Message(call) = [id |-> j]
    BY <1>1 DEF Message, RestMessage, CrawlerMethods, PreviewMethods, AuthMethods, UserMethods, WorkerMethods,
                CrawlerRoutes, request_DeleteJob
  <1>4. PathHolds(call)
    BY <1>1, <1>3, PathOfRecord DEF PathHolds
  <1>5. CASE door = "rest"
    <2>1. Level(caller) >= 2
      BY <1>1, <1>2, <1>5, RoutesCheck DEF Arrive, RestChain
    <2>2. RuneCount[j] >= 1
      BY JobIdsHaveLength, Zenon
    <2>3. NeededLevel("DeleteJob") = 2
      BY DEF NeededLevel, AuthMethods, UserMethods, WorkerMethods, PreviewMethods
    <2>a. Message(call).id = j
      BY <1>3, IdOfRecord, Zenon
    <2>b. ValidateInterceptor("DeleteJob", Message(call))
      BY <2>2, <2>a DEF ValidateInterceptor, ValidateDeleteJobRequest, MinLen
    <2>4. QED
      BY <1>1, <1>4, <2>1, <2>3, <2>b DEF Rightful, PathHolds, call
  <1>6. CASE door # "rest"
    BY <1>1, <1>2, <1>4, <1>6, ArriveChecks DEF call
  <1>7. QED
    BY <1>5, <1>6

\* The other calls of the model's actions.
LEMMA ActionsRightful ==
  ASSUME NEW door, NEW method \in {"ListJobs", "ListTasksByJob", "GetTaskAnalytics", "CreatePreview"},
         NEW caller, NEW body, NEW path,
         \/ door = "grpc"
         \/ method = "CreatePreview" /\ path = ""
         \/ method = "GetTaskAnalytics" /\ body = [jobId |-> path],
         Arrive(Call(door, method, caller, body, path)) = "handler"
  PROVE  Rightful(Call(door, method, caller, body, path))
  <1> DEFINE call == Call(door, method, caller, body, path)
  <1>1. call.door = door /\ call.method = method /\ call.http.path = path
    BY DEF Call
  <1>2. Arrive(call) = "handler"
    OBVIOUS
  <1> HIDE DEF call
  <1>3. PathHolds(call)
    <2>1. CASE door = "grpc" \/ path = ""
      BY <1>1, <2>1 DEF PathHolds
    <2>2. CASE door = "rest" /\ method = "GetTaskAnalytics"
      <3>1. Message(call) = [jobId |-> path]
        BY <1>1, <2>2 DEF Message, RestMessage, CrawlerMethods, PreviewMethods, AuthMethods, UserMethods,
                         WorkerMethods, CrawlerRoutes, request_GetTaskAnalytics
      <3>2. QED
        BY <1>1, <3>1, PathOfRecord
    <2>3. CASE door # "rest"
      BY <1>1, <2>3 DEF PathHolds
    <2>4. QED
      BY <2>1, <2>2, <2>3
  <1>4. Rightful(call)
    BY <1>1, <1>2, <1>3, ArriveChecks
  <1>5. QED
    BY <1>4 DEF call

\* No step serves a call that is not rightful.
LEMMA StepServesRightful ==
  ASSUME [ApiNext]_apiVars
  PROVE  misserved' = misserved
  <1>1. CASE PureCall
    BY <1>1, ServeRightful, SamplesRightful DEF PureCall
  <1>2. ASSUME NEW door \in Doors, NEW caller \in Callers, NEW s \in load.submissions, CreateJob(door, caller, s)
        PROVE  misserved' = misserved
    <2>1. Serve(Call(door, "CreateJob", caller, [config |-> ConfigOf[s]], ""))
      BY <1>2 DEF CreateJob, CreateCrawlJob
    <2>2. QED
      BY <2>1, ServeRightful, CreateJobRightful
  <1>3. ASSUME NEW door \in Doors, NEW caller \in Callers, NEW j \in JobIds, DeleteJob(door, caller, j)
        PROVE  misserved' = misserved
    <2>1. Serve(Call(door, "DeleteJob", caller, [id |-> j], IF door = "rest" THEN j ELSE ""))
      BY <1>3 DEF DeleteJob
    <2>2. QED
      BY <2>1, ServeRightful, DeleteJobRightful
  <1>4. ASSUME NEW req, NEW p, AskJobs(p, req)
        PROVE  misserved' = misserved
    <2>1. Serve(Call("grpc", "ListJobs", "READ", req, ""))
      BY <1>4 DEF AskJobs
    <2>2. QED
      BY <2>1, ServeRightful, ActionsRightful
  <1>5. ASSUME NEW req, NEW p, AskTasks(p, req)
        PROVE  misserved' = misserved
    <2>1. Serve(Call("grpc", "ListTasksByJob", "READ", req, ""))
      BY <1>5 DEF AskTasks
    <2>2. QED
      BY <2>1, ServeRightful, ActionsRightful
  <1>6. ASSUME NEW door \in Doors, NEW j \in JobIds, CountStatuses(door, j)
        PROVE  misserved' = misserved
    <2>1. Serve(Call(door, "GetTaskAnalytics", "READ", [jobId |-> j], IF door = "rest" THEN j ELSE ""))
      BY <1>6 DEF CountStatuses
    <2>2. QED
      BY <2>1, ServeRightful, ActionsRightful DEF Doors
  <1>7. ASSUME NEW door \in Doors, NEW p, NEW url, NEW final, NEW outcome, CreatePreview(door, p, url, final, outcome)
        PROVE  misserved' = misserved
    <2>1. Serve(Call(door, "CreatePreview", "READ_WRITE", [url |-> url], ""))
      BY <1>7 DEF CreatePreview, PreviewTx
    <2>2. QED
      BY <2>1, ServeRightful, ActionsRightful
  <1>8. ASSUME \/ \E j \in JobIds : WorkerFinds(j) \/ WorkerCompletes(j)
               \/ \E done, failed \in SUBSET JobIds : ExportBatch(done, failed)
               \/ Tick \/ CountDepths \/ UNCHANGED apiVars
        PROVE  misserved' = misserved
    BY <1>8 DEF WorkerFinds, WorkerCompletes, ExportBatch, UpdateJob, Tick, CountDepths, apiVars
  <1>9. QED
    BY <1>1, <1>2, <1>3, <1>4, <1>5, <1>6, <1>7, <1>8 DEF ApiNext, FirstJobs, FirstTasks, NextJobs, NextTasks

\* EveryCallIsChecked holds for every set of messages, callers and ids: a
\* handler of the API server runs only for a rightful call, through the
\* chain of interceptors and on the REST routes that bypass it.
THEOREM CallsAreChecked == ApiSpec => []EveryCallIsChecked
  <1>1. ApiInit => EveryCallIsChecked
    BY DEF ApiInit, EveryCallIsChecked
  <1>2. EveryCallIsChecked /\ [ApiNext]_apiVars => EveryCallIsChecked'
    BY StepServesRightful DEF EveryCallIsChecked
  <1>3. QED
    BY <1>1, <1>2, PTL DEF ApiSpec

-----------------------------------------------------------------------------
(* PreviewIsBacked.                                                         *)

\* The inductive form of PreviewIsBacked.
PreviewsKnown == DOMAIN previews = PreviewIds /\ PreviewIsBacked

\* PreviewIsBacked holds whichever step of CreatePreview fails, for any
\* number of previews and of requests.
THEOREM PreviewsAreBacked == ApiSpec => []PreviewIsBacked
  <1>1. ApiInit => PreviewsKnown
    BY DEF ApiInit, PreviewsKnown, PreviewIsBacked
  <1>2. PreviewsKnown /\ [ApiNext]_apiVars => PreviewsKnown'
    <2> SUFFICES ASSUME PreviewsKnown, [ApiNext]_apiVars
                 PROVE  PreviewsKnown'
      OBVIOUS
    <2>1. CASE UNCHANGED <<previews, objects>>
      BY <2>1 DEF PreviewsKnown, PreviewIsBacked
    <2>2. ASSUME NEW door \in Doors, NEW p \in PreviewIds, NEW url, NEW final, NEW outcome,
                 CreatePreview(door, p, url, final, outcome)
          PROVE  PreviewsKnown'
      <3>1. objects \subseteq objects' /\ (outcome = "ok" => p \in objects')
        BY <2>2 DEF CreatePreview, PreviewTx
      <3>2. DOMAIN previews' = PreviewIds
        BY <2>2 DEF CreatePreview, PreviewTx, PreviewsKnown
      <3>3. ASSUME NEW q \in PreviewIds
            PROVE  \/ previews'[q] = previews[q]
                   \/ q = p /\ outcome = "ok" /\ previews'[q] = PreviewRow(p, url, final)
        BY <2>2 DEF CreatePreview, PreviewTx, PreviewsKnown
      <3>4. PreviewRow(p, url, final).minioKey = p /\ PreviewRow(p, url, final).downloadUrl = p
        BY DEF PreviewRow
      <3>5. QED
        BY <3>1, <3>2, <3>3, <3>4 DEF PreviewsKnown, PreviewIsBacked
    <2>3. QED
      BY <2>1, <2>2 DEF ApiNext, apiVars, PureCall, CreateJob, CreateCrawlJob, DeleteJob, WorkerFinds, WorkerCompletes, ExportBatch, UpdateJob,
                        Tick, FirstJobs, FirstTasks, NextJobs, NextTasks, AskJobs, AskTasks, CountStatuses, CountDepths
  <1>3. PreviewsKnown => PreviewIsBacked
    BY DEF PreviewsKnown
  <1>4. QED
    BY <1>1, <1>2, <1>3, PTL DEF ApiSpec

-----------------------------------------------------------------------------
(* RoutedWithinReach.                                                       *)

\* A set of natural numbers up to n has a least and a greatest member.
LEMMA LeastAndGreatest ==
  ASSUME NEW n \in Nat, NEW S \in SUBSET (1 .. n), S # {}
  PROVE  (\E i \in S : \A k \in S : i <= k) /\ (\E i \in S : \A k \in S : k <= i)
  <1>1. ASSUME NEW T \in SUBSET Nat, T # {}
        PROVE  \E i \in T : \A k \in T : i <= k
    <2>1. PICK i \in T : \A k \in T : ~(<<k, i>> \in OpToRel(<, Nat))
      BY <1>1, WFMin, NatLessThanWellFounded
    <2>2. \A k \in T : ~(k < i)
      BY <2>1 DEF OpToRel
    <2>3. QED
      BY <2>2
  <1>2. \E i \in S : \A k \in S : i <= k
    BY <1>1
  <1>3. \E i \in S : \A k \in S : k <= i
    <2> DEFINE T == {n - i : i \in S}
    <2>1. T \in SUBSET Nat /\ T # {}
      <3>1. PICK m \in S : TRUE
        OBVIOUS
      <3>2. n - m \in T
        BY <3>1
      <3>3. \A i \in S : n - i \in Nat
        OBVIOUS
      <3>4. QED
        BY <3>2, <3>3
    <2>2. PICK d \in T : \A e \in T : d <= e
      BY <1>1, <2>1
    <2>3. PICK i \in S : d = n - i
      OBVIOUS
    <2>4. ASSUME NEW k \in S PROVE k <= i
      <3>1. n - k \in T
        OBVIOUS
      <3>2. n - i <= n - k
        BY <2>2, <2>3, <3>1
      <3> HIDE DEF T
      <3>3. n \in Nat /\ i \in Nat /\ k \in Nat
        OBVIOUS
      <3>4. QED
        BY <3>2, <3>3
    <2>5. QED
      BY <2>4
  <1>4. QED
    BY <1>2, <1>3

\* Where a job has candidates, its tasks go to one of them, or the choice
\* panics.
LEMMA QueuesAreCandidates ==
  ASSUME NEW available, NEW weights \in Seq(QueueWeight), Candidates(weights) # {},
         Panic \notin SelectCrawlQueue(available, weights)
  PROVE  SelectCrawlQueue(available, weights) \subseteq {weights[i].queue : i \in Candidates(weights)}
  <1>1. Candidates(weights) \in SUBSET (1 .. Len(weights)) /\ Len(weights) \in Nat
    BY DEF Candidates
  <1>2. ASSUME NEW r PROVE Landing(weights, r) \in Candidates(weights)
    <2> DEFINE hits == {i \in Candidates(weights) : r < WeightUpTo(weights, i)}
    <2>1. CASE hits # {}
      <3>1. \E i \in hits : \A k \in hits : i <= k
        BY <1>1, <2>1, LeastAndGreatest
      <3>2. QED
        BY <2>1, <3>1 DEF Landing
    <2>2. CASE hits = {}
      <3>1. \E i \in Candidates(weights) : \A k \in Candidates(weights) : k <= i
        BY <1>1, LeastAndGreatest
      <3>2. QED
        BY <2>2, <3>1 DEF Landing
    <2>3. QED
      BY <2>1, <2>2
  <1>3. QED
    BY <1>2 DEF SelectCrawlQueue

\* The columns of a job with its configuration and tasks.
RowFields == {"job", "config", "sent", "shard", "targets", "foundAt", "worked"}

\* Beside the property: clients submit what they may, and a job has a row.
RoutingSound ==
  /\ "submissions" \in DOMAIN load /\ load.submissions \subseteq Submissions
  /\ deploy.queues \in Seq(STRING)
  /\ DOMAIN jobs = JobIds
  /\ \A j \in Present : DOMAIN jobs[j] = RowFields
  /\ RoutedWithinReach

\* No row is new, and what routing decided stays as it is.
RoutesKept ==
  \A j \in Present' :
    /\ j \in Present
    /\ DOMAIN jobs'[j] = DOMAIN jobs[j] /\ jobs'[j].sent = jobs[j].sent
    /\ jobs'[j].targets = jobs[j].targets /\ jobs'[j].config = jobs[j].config

\* A client goes on with the submissions it has.
LEMMA LoadKept ==
  ASSUME "submissions" \in DOMAIN load, [ApiNext]_apiVars
  PROVE  "submissions" \in DOMAIN load' /\ load'.submissions = load.submissions /\ deploy' = deploy
  <1>1. ASSUME NEW op, op # "submissions", Spend(op)
        PROVE  "submissions" \in DOMAIN load' /\ load'.submissions = load.submissions
    BY <1>1 DEF Spend
  <1>2. QED
    BY <1>1
       DEF ApiNext, apiVars, storeVars, PureCall, CreateJob, CreateCrawlJob, DeleteJob, WorkerFinds, WorkerCompletes, ExportBatch, UpdateJob,
           Tick, FirstJobs, FirstTasks, NextJobs, NextTasks, AskJobs, AskTasks, CountStatuses, CountDepths,
           CreatePreview, PreviewTx

\* The row that CreateJob inserts has the weights it was given.
LEMMA NewRowRoutes ==
  ASSUME NEW key, NEW j, NEW s, NEW door, NEW targets, NEW row,
         row = NewRow(key, j, s, Commanded(door, s), targets)
  PROVE  /\ DOMAIN row = RowFields /\ row.sent = s /\ row.targets = targets
         /\ row.config.queueWeights = Commanded(door, s).queueWeights
  <1>1. "queueWeights" \in DOMAIN Commanded(door, s)
    BY DEF Commanded, FromProtoCrawlJobConfig
  <1>2. ASSUME NEW c, "queueWeights" \in DOMAIN c
        PROVE  /\ "queueWeights" \in DOMAIN SaveCrawlJobConfigToSnapshot(c)
               /\ SaveCrawlJobConfigToSnapshot(c).queueWeights = c.queueWeights
    BY <1>2 DEF SaveCrawlJobConfigToSnapshot
  <1>3. ASSUME NEW c, "queueWeights" \in DOMAIN c
        PROVE  LET d == [c EXCEPT !.id = j, !.userId = UserID, !.scopes.allowedUrlPatterns = Normalized(@)]
               IN  "queueWeights" \in DOMAIN d /\ d.queueWeights = c.queueWeights
    BY <1>3
  <1>4. QED
    BY <1>1, <1>2, <1>3 DEF NewRow, JobInserted, ConfigInserted, RowFields

\* The queues of the tasks of a submission.
LEMMA SubmissionRouted ==
  ASSUME NEW s \in Submissions, NEW available \in Seq(STRING), NEW weights,
         weights = <<>> \/ (Len(available) # 1 /\ weights = WeightsOf[s]),
         NEW queues, queues = SelectCrawlQueue(available, weights), Panic \notin queues
  PROVE  WithinReach(WeightsOf[s], weights, queues, available)
  <1> DEFINE asked == WeightsOf[s]
             wanted == {asked[i].queue : i \in {i \in DOMAIN asked : asked[i].weight > 0}}
             excluded == {asked[i].queue : i \in DOMAIN asked} \ wanted
  <1>1. ASSUME Len(available) = 1 PROVE queues \subseteq Range(available)
    <2>1. weights = <<>> /\ available # <<>>
      BY <1>1
    <2>2. Candidates(weights) = {}
      BY <2>1 DEF Candidates
    <2>3. QED
      BY <2>1, <2>2 DEF SelectCrawlQueue, Range
  <1>2. ASSUME weights # <<>>, wanted # {} PROVE queues \cap excluded = {}
    <2>1. weights = asked /\ asked \in Seq(QueueWeight)
      BY <1>2, ApiAssumption
    <2>2. \A i \in DOMAIN asked : asked[i].weight \in Nat
      <3>1. ASSUME NEW q \in QueueWeight PROVE q.weight \in Nat
        BY RoutingAssumption DEF QueueWeight
      <3>2. QED
        BY <2>1, <3>1
    <2>3. Candidates(asked) = {i \in DOMAIN asked : asked[i].weight > 0}
      BY <2>2 DEF Candidates
    <2>4. Candidates(weights) # {}
      BY <1>2, <2>1, <2>3
    <2>5. queues \subseteq {weights[i].queue : i \in Candidates(weights)}
      BY <2>1, <2>4, QueuesAreCandidates
    <2>6. QED
      BY <2>1, <2>3, <2>5
  <1>3. QED
    BY <1>1, <1>2 DEF WithinReach

\* Weights count only where there is a choice.
LEMMA CommandedWeights ==
  ASSUME NEW door, NEW s, deploy.queues \in Seq(STRING)
  PROVE  \/ Commanded(door, s).queueWeights = <<>>
         \/ Len(deploy.queues) # 1 /\ Commanded(door, s).queueWeights = WeightsOf[s]
  <1>1. Commanded(door, s).queueWeights = IF door = "rest" /\ Len(deploy.queues) > 1 THEN WeightsOf[s] ELSE <<>>
    BY DEF Commanded, FromProtoCrawlJobConfig
  <1>2. \A n \in Nat : n > 1 => n # 1
    OBVIOUS
  <1>3. Len(deploy.queues) \in Nat
    OBVIOUS
  <1>4. Len(deploy.queues) > 1 => Len(deploy.queues) # 1
    BY <1>2, <1>3, Zenon
  <1>5. QED
    BY <1>1, <1>4, Zenon

\* What CreateJob decides.
LEMMA CreateRoutes ==
  ASSUME RoutingSound, NEW door, NEW caller, NEW s \in load.submissions, CreateJob(door, caller, s)
  PROVE  (DOMAIN jobs = JobIds /\ (\A j \in Present : DOMAIN jobs[j] = RowFields) /\ RoutedWithinReach)'
  <1> DEFINE config == Commanded(door, s)
             queues == SelectCrawlQueue(deploy.queues, config.queueWeights)
             call == Call(door, "CreateJob", caller, [config |-> ConfigOf[s]], "")
  <1>1. PICK n \in JobIds, targets \in [DOMAIN config.seeds -> queues] :
          jobs' = [jobs EXCEPT ![n] = NewRow(ShardKey(call), n, s, config, targets)]
    BY DEF CreateJob, CreateCrawlJob
  <1>2. Panic \notin queues /\ deploy' = deploy
    BY DEF CreateJob, CreateCrawlJob
  <1>3. PICK row : /\ row = NewRow(ShardKey(call), n, s, config, targets)
                   /\ DOMAIN row = RowFields /\ row.sent = s /\ row.targets = targets
                   /\ row.config.queueWeights = config.queueWeights
    <2>1. PICK row : row = NewRow(ShardKey(call), n, s, config, targets)
      OBVIOUS
    <2>2. /\ DOMAIN row = RowFields /\ row.sent = s /\ row.targets = targets
          /\ row.config.queueWeights = config.queueWeights
      <3>1. row = NewRow(ShardKey(call), n, s, Commanded(door, s), targets)
        BY <2>1
      <3> HIDE DEF call, config, queues
      <3>2. /\ DOMAIN row = RowFields /\ row.sent = s /\ row.targets = targets
            /\ row.config.queueWeights = Commanded(door, s).queueWeights
        BY <3>1, NewRowRoutes
      <3>3. QED
        BY <3>2 DEF config
    <2>3. QED
      BY <2>1, <2>2
  <1>4. s \in Submissions /\ deploy.queues \in Seq(STRING)
    BY DEF RoutingSound
  <1>5. config.queueWeights = <<>> \/ (Len(deploy.queues) # 1 /\ config.queueWeights = WeightsOf[s])
    BY <1>4, CommandedWeights, Zenon
  <1>6. Range(targets) \subseteq queues
    BY DEF Range
  <1>7. jobs' = [jobs EXCEPT ![n] = row]
    BY <1>1, <1>3
  <1> HIDE DEF config, queues, call
  <1>8. DOMAIN jobs' = JobIds
    BY <1>7 DEF RoutingSound
  <1>9. \A j \in JobIds : jobs'[j] = IF j = n THEN row ELSE jobs[j]
    BY <1>7 DEF RoutingSound
  <1>10. \A j \in Present' : DOMAIN jobs'[j] = RowFields
    BY <1>3, <1>9 DEF RoutingSound, Present
  <1>11. RoutedWithinReach'
    <2>1. WithinReach(WeightsOf[s], config.queueWeights, queues, deploy.queues)
      BY <1>2, <1>4, <1>5, SubmissionRouted DEF queues
    <2>2. WithinReach(WeightsOf[s], config.queueWeights, Range(targets), deploy.queues)
      BY <1>6, <2>1 DEF WithinReach
    <2>3. ASSUME NEW j \in Present'
          PROVE  WithinReach(WeightsOf[jobs'[j].sent], jobs'[j].config.queueWeights, Range(jobs'[j].targets), deploy.queues)
      <3>1. CASE j = n
        <4>1. jobs'[j] = row
          BY <1>9, <3>1
        <4>2. QED
          BY <1>3, <2>2, <4>1
      <3>2. CASE j # n
        <4>1. j \in Present /\ jobs'[j] = jobs[j]
          BY <1>9, <3>2 DEF Present
        <4>2. QED
          BY <4>1 DEF RoutingSound, RoutedWithinReach
      <3>3. QED
        BY <3>1, <3>2
    <2>4. QED
      BY <1>2, <2>3 DEF RoutedWithinReach
  <1>12. QED
    BY <1>8, <1>10, <1>11

\* The other steps create no row and route no task.
LEMMA OthersKeepRoutes ==
  ASSUME RoutingSound, [ApiNext]_apiVars,
         ~\E door \in Doors, caller \in Callers, s \in load.submissions : CreateJob(door, caller, s)
  PROVE  DOMAIN jobs' = JobIds /\ RoutesKept
  <1>0. DOMAIN jobs = JobIds /\ \A j \in Present : DOMAIN jobs[j] = RowFields
    BY DEF RoutingSound
  <1>1. CASE jobs' = jobs
    BY <1>0, <1>1 DEF RoutesKept, Present
  <1>2. ASSUME NEW d, jobs' = [jobs EXCEPT ![d] = Gone]
        PROVE  DOMAIN jobs' = JobIds /\ RoutesKept
    BY <1>0, <1>2 DEF RoutesKept, Present
  <1>3. ASSUME NEW d \in JobIds, WorkerFinds(d) \/ WorkerCompletes(d)
        PROVE  DOMAIN jobs' = JobIds /\ RoutesKept
    <2>1. d \in Present /\ (jobs' = [jobs EXCEPT ![d].foundAt = clock] \/ jobs' = [jobs EXCEPT ![d].worked = TRUE])
      BY <1>3 DEF WorkerFinds, WorkerCompletes, Workable
    <2>2. QED
      BY <1>0, <2>1 DEF RoutesKept, RowFields, Present
  <1>4. ASSUME NEW done \in SUBSET JobIds, NEW failed \in SUBSET JobIds, ExportBatch(done, failed)
        PROVE  DOMAIN jobs' = JobIds /\ RoutesKept
    <2>1. done \cup failed \subseteq Present /\ done \cap failed = {}
      BY <1>4 DEF ExportBatch, UpdateJob
    <2>2. jobs' = [j \in JobIds |->
                     CASE j \in done -> [jobs[j] EXCEPT !.job = MarkAsExported(@)]
                       [] j \in failed -> [jobs[j] EXCEPT !.job.exportStatus = "FAILED"]
                       [] OTHER -> jobs[j]]
      BY <1>4 DEF ExportBatch, UpdateJob
    <2>3. ASSUME NEW j \in Present'
          PROVE  /\ j \in Present
                 /\ DOMAIN jobs'[j] = DOMAIN jobs[j] /\ jobs'[j].sent = jobs[j].sent
                 /\ jobs'[j].targets = jobs[j].targets /\ jobs'[j].config = jobs[j].config
      <3>1. CASE j \in done \cup failed
        <4>1. j \in JobIds /\ j \in Present /\ DOMAIN jobs[j] = RowFields
          BY <1>0, <2>1, <3>1 DEF Present
        <4>2. PICK v : jobs'[j] = [jobs[j] EXCEPT !.job = v]
          <5>1. CASE j \in done
            <6>1. jobs'[j] = [jobs[j] EXCEPT !.job = MarkAsExported(jobs[j].job)]
              BY <2>1, <2>2, <4>1, <5>1
            <6>2. QED
              BY <6>1
          <5>2. CASE j \in failed
            <6>1. jobs'[j] = [jobs[j] EXCEPT !.job = [jobs[j].job EXCEPT !.exportStatus = "FAILED"]]
              BY <2>1, <2>2, <4>1, <5>2
            <6>2. QED
              BY <6>1
          <5>3. QED
            BY <3>1, <5>1, <5>2
        <4>3. QED
          BY <4>1, <4>2 DEF RowFields
      <3>2. CASE j \notin done \cup failed
        <4>1. j \in JobIds /\ jobs'[j] = jobs[j]
          BY <2>2, <3>2 DEF Present
        <4>2. QED
          BY <4>1 DEF Present
      <3>3. QED
        BY <3>1, <3>2
    <2>4. QED
      BY <2>2, <2>3 DEF RoutesKept
  <1>5. ASSUME NEW door \in Doors, NEW caller \in Callers, NEW j \in JobIds, DeleteJob(door, caller, j)
        PROVE  DOMAIN jobs' = JobIds /\ RoutesKept
    BY <1>2, <1>5 DEF DeleteJob
  <1>6. QED
    BY <1>1, <1>3, <1>4, <1>5
       DEF ApiNext, apiVars, storeVars, PureCall, Tick, FirstJobs, FirstTasks, NextJobs, NextTasks, AskJobs, AskTasks,
           CountStatuses, CountDepths, CreatePreview, PreviewTx

\* RoutedWithinReach holds for every list of weights, also where their sum
\* wraps around, and for every number of queues.
THEOREM TasksStayWithinReach == ApiSpec => []RoutedWithinReach
  <1>1. ApiInit => RoutingSound
    <2> SUFFICES ASSUME ApiInit PROVE RoutingSound
      OBVIOUS
    <2>1. load \in Workload
      BY ApiAssumption DEF ApiInit
    <2>2. "submissions" \in DOMAIN load /\ load.submissions \subseteq Submissions /\ load.deploy.queues \in Seq(STRING)
      BY <2>1 DEF Workload
    <2>3. Present = {} /\ DOMAIN jobs = JobIds
      BY DEF ApiInit, Present
    <2>4. QED
      BY <2>2, <2>3 DEF RoutingSound, ApiInit, RoutedWithinReach
  <1>2. RoutingSound /\ [ApiNext]_apiVars => RoutingSound'
    <2> SUFFICES ASSUME RoutingSound, [ApiNext]_apiVars
                 PROVE  RoutingSound'
      OBVIOUS
    <2>1. "submissions" \in DOMAIN load' /\ load'.submissions \subseteq Submissions /\ deploy' = deploy
      BY LoadKept DEF RoutingSound
    <2>2. CASE \E door \in Doors, caller \in Callers, s \in load.submissions : CreateJob(door, caller, s)
      BY <2>1, <2>2, CreateRoutes DEF RoutingSound
    <2>3. CASE ~\E door \in Doors, caller \in Callers, s \in load.submissions : CreateJob(door, caller, s)
      <3>1. DOMAIN jobs' = JobIds /\ RoutesKept
        BY <2>3, OthersKeepRoutes
      <3>2. RoutedWithinReach'
        BY <2>1, <3>1 DEF RoutingSound, RoutesKept, RoutedWithinReach
      <3>3. QED
        BY <2>1, <3>1, <3>2 DEF RoutingSound, RoutesKept
    <2>4. QED
      BY <2>2, <2>3
  <1>3. RoutingSound => RoutedWithinReach
    BY DEF RoutingSound
  <1>4. QED
    BY <1>1, <1>2, <1>3, PTL DEF ApiSpec

-----------------------------------------------------------------------------
(* Messages, models and rows: what CreateJob saves is what GetJob answers.  *)


\* A transform becomes a model, and the model answers what was sent.
LEMMA TransformModelled ==
  ASSUME NEW p \in TransformSpec
  PROVE  /\ FromProtoTransformSpec(p) \in TransformModel
         /\ ToProtoTransformSpec(FromProtoTransformSpec(p)) = TransformAsSent(p)
  <1>1. p.op \in String /\ p.arg \in String
    BY DEF TransformSpec
  <1>2. JsonText[p.arg] \in Opt(String)
    BY <1>1, CodecAssumption
  <1>3. PICK a : a = IF p.arg = "" THEN Nil ELSE JsonText[p.arg]
    OBVIOUS
  <1>4. a \in Opt(String)
    BY <1>2, <1>3, Zenon DEF Opt
  <1>5. (IF a = Nil THEN "" ELSE a) = (IF JsonText[p.arg] = Nil THEN "" ELSE JsonText[p.arg])
    BY <1>3, CodecAssumption, Zenon
  <1>6. FromProtoTransformSpec(p) = [op |-> p.op, arg |-> a]
    BY <1>3, Zenon DEF FromProtoTransformSpec
  <1>7. FromProtoTransformSpec(p) \in TransformModel
    BY <1>1, <1>4, <1>6 DEF TransformModel
  <1>8. PICK m : m = [op |-> p.op, arg |-> a]
    OBVIOUS
  <1>9. m.op = p.op /\ m.arg = a
    BY <1>8
  <1>10. ToProtoTransformSpec(m) = TransformAsSent(p)
    BY <1>5, <1>9, Zenon DEF ToProtoTransformSpec, TransformAsSent
  <1>11. QED
    BY <1>6, <1>7, <1>8, <1>10, Zenon

\* A sequence mapped element by element keeps its length.
LEMMA MappedSeq ==
  ASSUME NEW S, NEW T, NEW s \in Seq(S), NEW f, f = [i \in DOMAIN s |-> f[i]],
         \A i \in DOMAIN s : f[i] \in T
  PROVE  f \in Seq(T) /\ Len(f) = Len(s) /\ DOMAIN f = DOMAIN s
  <1>1. Len(s) \in Nat /\ DOMAIN s = 1 .. Len(s)
    BY LenProperties
  <1>2. f \in [1 .. Len(s) -> T]
    BY <1>1
  <1>3. QED
    BY <1>1, <1>2

\* A field with its extractor and transforms: the same.
LEMMA FieldModelled ==
  ASSUME NEW p \in FieldSpec
  PROVE  /\ FromProtoFieldSpec(p) \in FieldModel
         /\ ToProtoFieldSpec(FromProtoFieldSpec(p)) = FieldAsSent(p)
  <1>1. p.transforms \in Seq(TransformSpec) /\ p.extractor \in Opt(ExtractorSpec)
    BY DEF FieldSpec
  <1>2. FromProtoExtractorSpec(p.extractor) \in ExtractorSpec
    <2>1. CASE p.extractor = Nil
      BY <2>1, CodecAssumption DEF FromProtoExtractorSpec, OrZero, ExtractorSpec, Opt
    <2>2. CASE p.extractor # Nil
      BY <1>1, <2>2 DEF FromProtoExtractorSpec, OrZero, Opt
    <2>3. QED
      BY <2>1, <2>2
  <1>3. PICK ts : ts = [t \in DOMAIN p.transforms |-> FromProtoTransformSpec(p.transforms[t])]
    OBVIOUS
  <1>4. ts \in Seq(TransformModel) /\ DOMAIN ts = DOMAIN p.transforms
    <2>1. \A t \in DOMAIN p.transforms : p.transforms[t] \in TransformSpec
      BY <1>1
    <2>2. \A t \in DOMAIN p.transforms : ts[t] \in TransformModel
      BY <1>3, <2>1, TransformModelled
    <2>3. ts = [t \in DOMAIN p.transforms |-> ts[t]]
      BY <1>3
    <2>4. QED
      BY <1>1, <2>2, <2>3, MappedSeq
  <1>5. PICK e : e = FromProtoExtractorSpec(p.extractor)
    OBVIOUS
  <1>6. PICK m : m = [p EXCEPT !.extractor = e, !.transforms = ts]
    OBVIOUS
  <1>7. FromProtoFieldSpec(p) = m
    BY <1>3, <1>5, <1>6 DEF FromProtoFieldSpec, Mapped
  <1>8. m \in FieldModel /\ m.transforms = ts
    BY <1>2, <1>4, <1>5, <1>6 DEF FieldSpec, FieldModel
  <1>9. PICK us : us = [t \in DOMAIN ts |-> ToProtoTransformSpec(ts[t])]
    OBVIOUS
  <1>10. ToProtoFieldSpec(m) = [m EXCEPT !.transforms = us]
    BY <1>8, <1>9 DEF ToProtoFieldSpec, Mapped
  <1>11. us = [t \in DOMAIN p.transforms |-> TransformAsSent(p.transforms[t])]
    <2>1. \A t \in DOMAIN p.transforms : p.transforms[t] \in TransformSpec
      BY <1>1
    <2>2. \A t \in DOMAIN p.transforms :
            ToProtoTransformSpec(ts[t]) = TransformAsSent(p.transforms[t])
      BY <1>3, <2>1, TransformModelled
    <2>3. QED
      BY <1>4, <1>9, <2>2
  <1>12. [m EXCEPT !.transforms = us] = [p EXCEPT !.extractor = e, !.transforms = us]
    BY <1>6 DEF FieldSpec
  <1>13. FieldAsSent(p) = [p EXCEPT !.extractor = e, !.transforms = us]
    BY <1>5, <1>11 DEF FieldAsSent, Mapped
  <1>14. QED
    BY <1>7, <1>8, <1>10, <1>12, <1>13

\* A list of fields: the same.
LEMMA FieldsModelled ==
  ASSUME NEW fs \in Seq(FieldSpec)
  PROVE  /\ Mapped(FromProtoFieldSpec, fs) \in Seq(FieldModel)
         /\ Mapped(ToProtoFieldSpec, Mapped(FromProtoFieldSpec, fs)) = Mapped(FieldAsSent, fs)
  <1>1. PICK ms : ms = [i \in DOMAIN fs |-> FromProtoFieldSpec(fs[i])]
    OBVIOUS
  <1>2. \A i \in DOMAIN fs : fs[i] \in FieldSpec
    OBVIOUS
  <1>3. \A i \in DOMAIN fs : ms[i] \in FieldModel /\ ToProtoFieldSpec(ms[i]) = FieldAsSent(fs[i])
    BY <1>1, <1>2, FieldModelled
  <1>4. ms = [i \in DOMAIN fs |-> ms[i]]
    BY <1>1
  <1>5. ms \in Seq(FieldModel) /\ DOMAIN ms = DOMAIN fs
    BY <1>3, <1>4, MappedSeq
  <1>6. Mapped(FromProtoFieldSpec, fs) = ms
    BY <1>1 DEF Mapped
  <1>7. Mapped(ToProtoFieldSpec, ms) = Mapped(FieldAsSent, fs)
    BY <1>3, <1>5 DEF Mapped
  <1>8. QED
    BY <1>5, <1>6, <1>7

\* The items of a list page, which may be absent: the same.
LEMMA ItemsModelled ==
  ASSUME NEW p \in Opt(ItemsSpec)
  PROVE  /\ FromProtoItemsSpec(p) \in Opt(ItemsModel)
         /\ ToProtoItemsSpec(FromProtoItemsSpec(p)) = ItemsAsSent(p)
  <1>1. CASE p = Nil
    BY <1>1 DEF FromProtoItemsSpec, ToProtoItemsSpec, ItemsAsSent, Opt
  <1>2. CASE p # Nil
    <2>1. p \in ItemsSpec
      BY <1>2 DEF Opt
    <2>2. p.fields \in Seq(FieldSpec)
      BY <2>1 DEF ItemsSpec
    <2>3. PICK ms : ms = Mapped(FromProtoFieldSpec, p.fields)
      OBVIOUS
    <2>4. ms \in Seq(FieldModel) /\ Mapped(ToProtoFieldSpec, ms) = Mapped(FieldAsSent, p.fields)
      BY <2>2, <2>3, FieldsModelled
    <2>5. PICK m : m = [p EXCEPT !.fields = ms]
      OBVIOUS
    <2>6. m \in ItemsModel /\ m.fields = ms
      BY <2>1, <2>4, <2>5 DEF ItemsSpec, ItemsModel
    <2>7. m # Nil
      BY <2>6, NilAssumption
    <2>8. FromProtoItemsSpec(p) = m
      BY <1>2, <2>3, <2>5 DEF FromProtoItemsSpec
    <2>9. ToProtoItemsSpec(m) = [m EXCEPT !.fields = Mapped(FieldAsSent, p.fields)]
      BY <2>4, <2>6, <2>7 DEF ToProtoItemsSpec
    <2>10. PICK ss : ss = Mapped(FieldAsSent, p.fields)
      OBVIOUS
    <2>11. [m EXCEPT !.fields = ss] = [p EXCEPT !.fields = ss]
      BY <2>1, <2>5 DEF ItemsSpec
    <2>12. ItemsAsSent(p) = [p EXCEPT !.fields = ss]
      BY <1>2, <2>10 DEF ItemsAsSent
    <2>13. QED
      BY <2>6, <2>8, <2>9, <2>10, <2>11, <2>12 DEF Opt
  <1>3. QED
    BY <1>1, <1>2

\* The extraction spec, which may be absent in the message and never in the model.
LEMMA ExtractionModelled ==
  ASSUME NEW p \in Opt(ExtractionSpec)
  PROVE  /\ FromProtoExtractionSpec(p) \in ExtractionModel
         /\ ToProtoExtractionSpec(FromProtoExtractionSpec(p)) = ExtractionAsSent(p)
  <1>1. CASE p = Nil
    <2>1. PICK m : m = [fields |-> <<>>, pagination |-> <<>>, items |-> Nil]
      OBVIOUS
    <2>2. FromProtoExtractionSpec(Nil) = m
      BY <2>1 DEF FromProtoExtractionSpec
    <2>3. m \in ExtractionModel
      BY <2>1 DEF ExtractionModel, Opt
    <2>4. Mapped(ToProtoFieldSpec, <<>>) = <<>>
      BY DEF Mapped
    <2>5. ToProtoItemsSpec(Nil) = Nil
      BY DEF ToProtoItemsSpec
    <2>6. m.fields = <<>> /\ m.pagination = <<>> /\ m.items = Nil
      BY <2>1
    <2>7. ToProtoExtractionSpec(m) = [fields |-> <<>>, pagination |-> <<>>, items |-> Nil]
      BY <2>4, <2>5, <2>6, Zenon DEF ToProtoExtractionSpec
    <2>8. QED
      BY <1>1, <2>1, <2>2, <2>3, <2>7 DEF ExtractionAsSent
  <1>2. CASE p # Nil
    <2>1. p \in ExtractionSpec
      BY <1>2 DEF Opt
    <2>2. p.fields \in Seq(FieldSpec) /\ p.pagination \in Seq(PaginationSpec) /\ p.items \in Opt(ItemsSpec)
      BY <2>1 DEF ExtractionSpec
    <2>3. PICK fs : fs = Mapped(FromProtoFieldSpec, p.fields)
      OBVIOUS
    <2>4. PICK is : is = FromProtoItemsSpec(p.items)
      OBVIOUS
    <2>5. fs \in Seq(FieldModel) /\ Mapped(ToProtoFieldSpec, fs) = Mapped(FieldAsSent, p.fields)
      BY <2>2, <2>3, FieldsModelled
    <2>6. is \in Opt(ItemsModel) /\ ToProtoItemsSpec(is) = ItemsAsSent(p.items)
      BY <2>2, <2>4, ItemsModelled
    <2>7. PICK m : m = [fields |-> fs, pagination |-> p.pagination, items |-> is]
      OBVIOUS
    <2>8. m \in ExtractionModel /\ m.fields = fs /\ m.pagination = p.pagination /\ m.items = is
      BY <2>2, <2>5, <2>6, <2>7 DEF ExtractionModel
    <2>9. FromProtoExtractionSpec(p) = m
      BY <1>2, <2>3, <2>4, <2>7 DEF FromProtoExtractionSpec
    <2>10. PICK ss, ii : ss = Mapped(FieldAsSent, p.fields) /\ ii = ItemsAsSent(p.items)
      OBVIOUS
    <2>11. ToProtoExtractionSpec(m) = [fields |-> ss, pagination |-> p.pagination, items |-> ii]
      BY <2>5, <2>6, <2>8, <2>10, Zenon DEF ToProtoExtractionSpec
    <2>12. ExtractionAsSent(p) = [p EXCEPT !.fields = ss, !.items = ii]
      BY <1>2, <2>10, Zenon DEF ExtractionAsSent
    <2>13. [p EXCEPT !.fields = ss, !.items = ii] = [fields |-> ss, pagination |-> p.pagination, items |-> ii]
      <3>1. DOMAIN p = {"fields", "pagination", "items"}
        BY <2>1 DEF ExtractionSpec
      <3>2. PICK r : r = [p EXCEPT !.fields = ss, !.items = ii]
        OBVIOUS
      <3>3. PICK q : q = [fields |-> ss, pagination |-> p.pagination, items |-> ii]
        OBVIOUS
      <3>4. r = [k \in {"fields", "pagination", "items"} |-> r[k]] /\ r.fields = ss /\ r.pagination = p.pagination /\ r.items = ii
        BY <3>1, <3>2
      <3>5. q = [k \in {"fields", "pagination", "items"} |-> q[k]] /\ q.fields = ss /\ q.pagination = p.pagination /\ q.items = ii
        BY <3>3
      <3>6. r = q
        BY <3>4, <3>5
      <3>7. QED
        BY <3>2, <3>3, <3>6
    <2>14. QED
      BY <2>8, <2>9, <2>11, <2>12, <2>13
  <1>3. QED
    BY <1>1, <1>2

\* The columns of a stored configuration.
ConfigFields == {"id", "userId", "name", "extractionSpec", "scopes", "seeds", "rateLimit", "retries", "auth",
                 "schedule", "respectRobotsTxt", "jobType", "crawlMode", "queueWeights"}

\* What the row of a configuration holds for the message p.
Stored(c, id, p) ==
  /\ c = [k \in ConfigFields |-> c[k]]
  /\ c.id = id /\ c.userId = UserID /\ c.name = p.name
  /\ c.extractionSpec = FromProtoExtractionSpec(p.extractionSpec)
  /\ c.scopes = [FromProtoScopeRules(p.scopes) EXCEPT !.maxDepth = Float64(@), !.allowedUrlPatterns = Normalized(@)]
  /\ c.seeds = p.seeds
  /\ c.rateLimit = FromProtoRateLimitPolicy(p.rateLimit)
  /\ c.retries = [FromProtoRetryPolicy(p.retries) EXCEPT !.maxAttempts = Float64(@), !.backoffInitialMs = Float64(@)]
  /\ c.auth = FromProtoAuthOptions(p.auth)
  /\ c.schedule = FromProtoScheduleOptions(p.schedule)
  /\ c.respectRobotsTxt = p.respectRobotsTxt
  /\ c.jobType = FromProtoJobType(p.jobType)
  /\ c.crawlMode = FromProtoCrawlMode(p.crawlMode)

\* The parts of a message, and their zero values.
LEMMA PartsModelled ==
  ASSUME NEW p \in CrawlJobConfig
  PROVE  /\ FromProtoScopeRules(p.scopes) \in ScopeRules
         /\ FromProtoRetryPolicy(p.retries) \in RetryPolicy
         /\ FromProtoRateLimitPolicy(p.rateLimit) \in RateLimitPolicy
         /\ FromProtoAuthOptions(p.auth) \in AuthOptions
         /\ FromProtoScheduleOptions(p.schedule) \in ScheduleOptions
  <1>1. /\ p.scopes \in Opt(ScopeRules) /\ p.retries \in Opt(RetryPolicy) /\ p.rateLimit \in Opt(RateLimitPolicy)
        /\ p.auth \in Opt(AuthOptions) /\ p.schedule \in Opt(ScheduleOptions)
    BY DEF CrawlJobConfig
  <1>2. ASSUME NEW S, NEW zero \in S, NEW m \in Opt(S) PROVE OrZero(m, zero) \in S
    BY DEF OrZero, Opt
  <1>3. 0 \in Uint /\ "" \in String /\ <<>> \in Seq(String)
    <2>1. MaxUint \in Nat
      BY CodecAssumption, Zenon
    <2>2. "" \in String
      BY CodecAssumption, Zenon
    <2>3. 0 \in Uint
      BY <2>1 DEF Uint
    <2>4. \A S : <<>> \in Seq(S)
      OBVIOUS
    <2>5. QED
      BY <2>2, <2>3, <2>4
  <1>4. FromProtoScopeRules(p.scopes) \in ScopeRules
    <2>1. [maxDepth |-> 0, allowedDomains |-> <<>>, denyUrlPatterns |-> <<>>, allowedUrlPatterns |-> <<>>] \in ScopeRules
      BY <1>3 DEF ScopeRules
    <2>2. QED
      BY <1>1, <1>2, <2>1 DEF FromProtoScopeRules
  <1>5. FromProtoRetryPolicy(p.retries) \in RetryPolicy
    <2>1. [maxAttempts |-> 0, backoffInitialMs |-> 0, backoffMultiplier |-> 0] \in RetryPolicy
      BY <1>3 DEF RetryPolicy
    <2>2. QED
      BY <1>1, <1>2, <2>1 DEF FromProtoRetryPolicy
  <1>6. FromProtoRateLimitPolicy(p.rateLimit) \in RateLimitPolicy
    <2>1. [rps |-> 0] \in RateLimitPolicy
      BY DEF RateLimitPolicy
    <2>2. QED
      BY <1>1, <1>2, <2>1 DEF FromProtoRateLimitPolicy
  <1>7. FromProtoAuthOptions(p.auth) \in AuthOptions
    <2>1. [cookie |-> "", basicUser |-> "", basicPassword |-> "", bearerToken |-> ""] \in AuthOptions
      BY <1>3 DEF AuthOptions
    <2>2. QED
      BY <1>1, <1>2, <2>1 DEF FromProtoAuthOptions
  <1>8. FromProtoScheduleOptions(p.schedule) \in ScheduleOptions
    <2>1. [cron |-> ""] \in ScheduleOptions
      BY <1>3 DEF ScheduleOptions
    <2>2. QED
      BY <1>1, <1>2, <2>1 DEF FromProtoScheduleOptions
  <1>9. QED
    BY <1>4, <1>5, <1>6, <1>7, <1>8

\* What CreateJob saves is its message, with the id and the user set and the
\* URL patterns normalised.
LEMMA CreatedIsStored ==
  ASSUME NEW s \in Submissions, NEW door, NEW j, NEW c,
         c = SaveCrawlJobConfigToSnapshot(
               [Commanded(door, s) EXCEPT !.id = j, !.userId = UserID, !.scopes.allowedUrlPatterns = Normalized(@)])
  PROVE  Stored(c, j, ConfigOf[s]) /\ c.queueWeights = Commanded(door, s).queueWeights
  <1>1. PICK p : p = ConfigOf[s] /\ p \in CrawlJobConfig
    BY ApiAssumption
  <1>2. PICK sc, re : sc = FromProtoScopeRules(p.scopes) /\ re = FromProtoRetryPolicy(p.retries)
    OBVIOUS
  <1>3. DOMAIN sc = {"maxDepth", "allowedDomains", "denyUrlPatterns", "allowedUrlPatterns"}
        /\ DOMAIN re = {"maxAttempts", "backoffInitialMs", "backoffMultiplier"}
    BY <1>1, <1>2, PartsModelled DEF ScopeRules, RetryPolicy
  <1>4. PICK c1 : c1 = Commanded(door, s)
    OBVIOUS
  <1>5. /\ c1 = [k \in ConfigFields |-> c1[k]]
        /\ c1.name = p.name /\ c1.extractionSpec = FromProtoExtractionSpec(p.extractionSpec)
        /\ c1.scopes = sc /\ c1.seeds = p.seeds /\ c1.rateLimit = FromProtoRateLimitPolicy(p.rateLimit)
        /\ c1.retries = re /\ c1.auth = FromProtoAuthOptions(p.auth) /\ c1.schedule = FromProtoScheduleOptions(p.schedule)
        /\ c1.respectRobotsTxt = p.respectRobotsTxt /\ c1.jobType = FromProtoJobType(p.jobType)
        /\ c1.crawlMode = FromProtoCrawlMode(p.crawlMode)
    BY <1>1, <1>2, <1>4 DEF Commanded, FromProtoCrawlJobConfig, ConfigFields
  <1>6. PICK sc2 : sc2 = [sc EXCEPT !.allowedUrlPatterns = Normalized(@)]
    OBVIOUS
  <1>7. PICK c2 : c2 = [c1 EXCEPT !.id = j, !.userId = UserID, !.scopes = sc2]
    OBVIOUS
  <1>8. c2 = [c1 EXCEPT !.id = j, !.userId = UserID, !.scopes.allowedUrlPatterns = Normalized(@)]
    BY <1>5, <1>6, <1>7 DEF ConfigFields
  <1>9. /\ c2 = [k \in ConfigFields |-> c2[k]] /\ c2.id = j /\ c2.userId = UserID /\ c2.scopes = sc2
        /\ \A k \in ConfigFields \ {"id", "userId", "scopes"} : c2[k] = c1[k]
    BY <1>5, <1>7 DEF ConfigFields
  <1>10. PICK sc3, re3 : sc3 = [sc2 EXCEPT !.maxDepth = Float64(@)] /\
                         re3 = [re EXCEPT !.maxAttempts = Float64(@), !.backoffInitialMs = Float64(@)]
    OBVIOUS
  <1>11. Null(UserID) = UserID /\ c2.jobType # ""
    <2>1. c2.jobType = FromProtoJobType(p.jobType)
      BY <1>5, <1>9 DEF ConfigFields
    <2>2. QED
      BY <2>1, ApiAssumption, Zenon DEF Null, FromProtoJobType
  <1>12. /\ c = [k \in ConfigFields |-> c[k]]
         /\ c.userId = Null(c2.userId) /\ c.jobType = IF c2.jobType = "" THEN "JOB_TYPE_ONCE" ELSE c2.jobType
         /\ c.scopes = [c2.scopes EXCEPT !.maxDepth = Float64(@)]
         /\ c.retries = [c2.retries EXCEPT !.maxAttempts = Float64(@), !.backoffInitialMs = Float64(@)]
         /\ \A k \in ConfigFields \ {"userId", "scopes", "retries", "jobType"} : c[k] = c2[k]
    <2>1. c = SaveCrawlJobConfigToSnapshot(c2)
      BY <1>4, <1>8
    <2>2. DOMAIN c2 = ConfigFields
      BY <1>9
    <2>3. QED
      BY <2>1, <2>2 DEF SaveCrawlJobConfigToSnapshot, ConfigFields
  <1>13. c.scopes = [sc EXCEPT !.maxDepth = Float64(@), !.allowedUrlPatterns = Normalized(@)]
    <2>1. c.scopes = [sc2 EXCEPT !.maxDepth = Float64(sc2.maxDepth)] /\ sc2.maxDepth = sc.maxDepth
      BY <1>3, <1>6, <1>9, <1>12
    <2>2. PICK n, d : n = Normalized(sc.allowedUrlPatterns) /\ d = Float64(sc.maxDepth)
      OBVIOUS
    <2>3. sc2 = [sc EXCEPT !.allowedUrlPatterns = n]
      BY <1>6, <2>2
    <2>4. c.scopes = [sc2 EXCEPT !.maxDepth = d]
      BY <2>1, <2>2
    <2>5. c.scopes = [sc EXCEPT !.maxDepth = d, !.allowedUrlPatterns = n]
      BY <1>3, <2>3, <2>4
    <2>6. [sc EXCEPT !.maxDepth = d, !.allowedUrlPatterns = n]
            = [sc EXCEPT !.maxDepth = Float64(@), !.allowedUrlPatterns = Normalized(@)]
      BY <2>2
    <2>7. QED
      BY <2>5, <2>6
  <1>14. c.retries = [re EXCEPT !.maxAttempts = Float64(@), !.backoffInitialMs = Float64(@)]
    BY <1>5, <1>9, <1>12 DEF ConfigFields
  <1>15. c.userId = UserID /\ c.jobType = c2.jobType
    BY <1>9, <1>11, <1>12, Zenon
  <1>16. \A k \in ConfigFields \ {"id", "userId", "scopes", "retries", "jobType"} : c[k] = c1[k]
    BY <1>9, <1>12
  <1>16b. c.jobType = c1.jobType
    BY <1>9, <1>15 DEF ConfigFields
  <1>17. c.id = j
    BY <1>9, <1>12 DEF ConfigFields
  <1>18. Stored(c, j, p)
    BY <1>2, <1>5, <1>12, <1>13, <1>14, <1>15, <1>16, <1>16b, <1>17 DEF Stored, ConfigFields
  <1>19. c.queueWeights = c1.queueWeights
    BY <1>16 DEF ConfigFields
  <1>20. QED
    BY <1>1, <1>4, <1>18, <1>19

\* A set of natural numbers that is not empty has a least member.
LEMMA Least ==
  ASSUME NEW T \in SUBSET Nat, T # {}
  PROVE  \E i \in T : \A k \in T : i <= k
  <1>1. PICK i \in T : \A k \in T : ~(<<k, i>> \in OpToRel(<, Nat))
    BY WFMin, NatLessThanWellFounded
  <1>2. \A k \in T : ~(k < i)
    BY <1>1 DEF OpToRel
  <1>3. QED
    BY <1>2

\* Induction up to N, with a set in place of a predicate.
LEMMA UpTo ==
  ASSUME NEW N \in Nat, NEW S, 0 \in S, \A m \in 1 .. N : m - 1 \in S => m \in S
  PROVE  \A m \in 0 .. N : m \in S
  <1> DEFINE Bad == {m \in 0 .. N : m \notin S}
  <1> SUFFICES ASSUME Bad # {} PROVE FALSE
    OBVIOUS
  <1>1. Bad \in SUBSET Nat
    OBVIOUS
  <1>2. PICK m \in Bad : \A k \in Bad : m <= k
    BY <1>1, Least
  <1>3. m \in 0 .. N /\ m \notin S /\ m # 0
    OBVIOUS
  <1>4. m \in 1 .. N /\ m - 1 \in 0 .. N
    BY <1>3
  <1>5. m - 1 \notin Bad
    BY <1>2, <1>3, <1>4
  <1>6. QED
    BY <1>3, <1>4, <1>5

\* One step of the loop that trims the patterns and drops the empty ones.
KeptStep(kept, ps, n) ==
  IF n = 0 THEN <<>>
  ELSE IF Trimmed[ps[n]] = "" THEN kept[n - 1]
  ELSE Append(kept[n - 1], Trimmed[ps[n]])

\* A step of the loop keeps a list of strings.
LEMMA KeptStepType ==
  ASSUME NEW ps \in Seq(String), NEW m \in 1 .. Len(ps), NEW f, f[m - 1] \in Seq(String)
  PROVE  KeptStep(f, ps, m) \in Seq(String)
  <1>1. ps[m] \in String
    OBVIOUS
  <1>2. PICK t \in String : t = Trimmed[ps[m]]
    BY <1>1, CodecAssumption
  <1>3. m # 0
    OBVIOUS
  <1>4. PICK k : k = f[m - 1]
    OBVIOUS
  <1>5. KeptStep(f, ps, m) = IF t = "" THEN k ELSE Append(k, t)
    BY <1>2, <1>3, <1>4 DEF KeptStep
  <1>6. k \in Seq(String) /\ Append(k, t) \in Seq(String)
    BY <1>2, <1>4
  <1>7. QED
    BY <1>5, <1>6, Zenon

\* The normalised patterns are a list of strings.
LEMMA NormalizedType ==
  ASSUME NEW ps \in Seq(String)
  PROVE  Normalized(ps) \in Seq(String)
  <1>1. PICK N \in Nat : N = Len(ps)
    OBVIOUS
  <1> DEFINE Loop(f, m) == f \in [0 .. m -> Seq(String)] /\ \A n \in 0 .. m : f[n] = KeptStep(f, ps, n)
             Good == {m \in 0 .. N : \E f : Loop(f, m)}
  <1>2. \A f : KeptStep(f, ps, 0) = <<>>
    BY DEF KeptStep
  <1>3. 0 \in Good
    <2>1. PICK f : f = [n \in 0 .. 0 |-> <<>>]
      OBVIOUS
    <2>2. f \in [0 .. 0 -> Seq(String)] /\ f[0] = <<>>
      BY <2>1
    <2>3. \A n \in 0 .. 0 : n = 0
      OBVIOUS
    <2>4. \A n \in 0 .. 0 : f[n] = KeptStep(f, ps, n)
      BY <1>2, <2>2, <2>3
    <2>5. 0 \in 0 .. N
      OBVIOUS
    <2>6. QED
      BY <2>2, <2>4, <2>5
  <1>4. ASSUME NEW m \in 1 .. N, m - 1 \in Good PROVE m \in Good
    <2>1. PICK f : Loop(f, m - 1)
      BY <1>4
    <2>2. f[m - 1] \in Seq(String) /\ m - 1 \in 0 .. m - 1
      BY <2>1
    <2>3. PICK v \in Seq(String) : v = KeptStep(f, ps, m)
      BY <1>1, <2>2, KeptStepType
    <2>4. PICK g : g = [n \in 0 .. m |-> IF n < m THEN f[n] ELSE v]
      OBVIOUS
    <2>5. g[m] = v /\ \A n \in 0 .. m - 1 : g[n] = f[n] /\ n \in 0 .. m
      BY <2>4
    <2>6. \A n \in 0 .. m : n = m \/ n \in 0 .. m - 1
      OBVIOUS
    <2>7. g \in [0 .. m -> Seq(String)]
      <3>1. \A n \in 0 .. m : g[n] \in Seq(String)
        BY <2>1, <2>3, <2>5, <2>6
      <3>2. QED
        BY <2>4, <3>1
    <2>8. \A n \in 0 .. m : KeptStep(g, ps, n) = KeptStep(f, ps, n)
      <3>1. ASSUME NEW n \in 0 .. m PROVE KeptStep(g, ps, n) = KeptStep(f, ps, n)
        <4>1. CASE n = 0
          BY <1>2, <4>1
        <4>2. CASE n # 0
          <5>1. n - 1 \in 0 .. m - 1
            BY <4>2
          <5>2. g[n - 1] = f[n - 1]
            BY <2>5, <5>1
          <5>3. QED
            BY <5>2 DEF KeptStep
        <4>3. QED
          BY <4>1, <4>2
      <3>2. QED
        BY <3>1
    <2>9. \A n \in 0 .. m : g[n] = KeptStep(g, ps, n)
      BY <2>1, <2>3, <2>5, <2>6, <2>8
    <2>10. m \in 0 .. N
      OBVIOUS
    <2>11. QED
      BY <2>7, <2>9, <2>10
  <1>5. \A m \in 0 .. N : m \in Good
    <2> HIDE DEF Good
    <2>1. QED
      BY <1>3, <1>4, UpTo
  <1>6. PICK f : Loop(f, N)
    <2>1. N \in 0 .. N
      OBVIOUS
    <2>a. N \in Good
      BY <1>5, <2>1
    <2>2. QED
      BY <2>a
  <1>7. f = [n \in 0 .. N |-> KeptStep(f, ps, n)]
    BY <1>6
  <1>8. PICK h : /\ h = CHOOSE kept : kept = [n \in 0 .. N |-> KeptStep(kept, ps, n)]
                 /\ Normalized(ps) = h[N]
    BY <1>1 DEF Normalized, KeptStep
  <1>9. h = [n \in 0 .. N |-> KeptStep(h, ps, n)]
    BY <1>7, <1>8
  <1>10. \A n \in 0 .. N : h[n] \in Seq(String)
    <2> DEFINE Typed == {n \in 0 .. N : h[n] \in Seq(String)}
    <2>1. 0 \in Typed
      <3>1. 0 \in 0 .. N
        OBVIOUS
      <3>2. h[0] = <<>>
        BY <1>2, <1>9, <3>1
      <3>3. <<>> \in Seq(String)
        OBVIOUS
      <3>4. h[0] \in Seq(String)
        BY <3>2, <3>3
      <3>5. QED
        BY <3>1, <3>4
    <2>2. ASSUME NEW m \in 1 .. N, m - 1 \in Typed PROVE m \in Typed
      <3>1. h[m - 1] \in Seq(String)
        BY <2>2
      <3>2. KeptStep(h, ps, m) \in Seq(String)
        BY <1>1, <3>1, KeptStepType
      <3>3. m \in 0 .. N /\ h[m] = KeptStep(h, ps, m)
        BY <1>9
      <3>4. QED
        BY <3>2, <3>3
    <2>3. \A m \in 0 .. N : m \in Typed
      <3> HIDE DEF Typed
      <3>1. QED
        BY <2>1, <2>2, UpTo
    <2>4. QED
      BY <2>3
  <1>11. QED
    <2>1. N \in 0 .. N
      OBVIOUS
    <2>2. QED
      BY <1>8, <1>10, <2>1

\* A number of at most FloatBits bits is not rounded.
LEMMA FloatExact == \A n : n <= 2 ^ FloatBits => Float64(n) = n
  BY DEF Float64

\* The numbers of a configuration that pass through a float64.
SmallNumbers(p) ==
  /\ FromProtoScopeRules(p.scopes).maxDepth <= 2 ^ FloatBits
  /\ FromProtoRetryPolicy(p.retries).maxAttempts <= 2 ^ FloatBits
  /\ FromProtoRetryPolicy(p.retries).backoffInitialMs <= 2 ^ FloatBits

\* Numbers that a float64 holds are stored as they are.
LEMMA SmallNumbersKept ==
  ASSUME NEW id, NEW p \in CrawlJobConfig, NEW c, Stored(c, id, p), SmallNumbers(p)
  PROVE  /\ c.scopes = [FromProtoScopeRules(p.scopes) EXCEPT !.allowedUrlPatterns = Normalized(@)]
         /\ c.retries = FromProtoRetryPolicy(p.retries)
         /\ c.scopes \in ScopeRules /\ c.retries \in RetryPolicy
         /\ Readable(c)
  <1>1. PICK sc \in ScopeRules : sc = FromProtoScopeRules(p.scopes)
    BY PartsModelled
  <1>2. PICK re \in RetryPolicy : re = FromProtoRetryPolicy(p.retries)
    BY PartsModelled
  <1>3. Float64(sc.maxDepth) = sc.maxDepth /\ Float64(re.maxAttempts) = re.maxAttempts
        /\ Float64(re.backoffInitialMs) = re.backoffInitialMs
    BY <1>1, <1>2, FloatExact, Zenon DEF SmallNumbers
  <1>4. PICK n : n = Normalized(sc.allowedUrlPatterns)
    OBVIOUS
  <1>5. n \in Seq(String)
    BY <1>4, NormalizedType DEF ScopeRules
  <1>6. c.scopes = [sc EXCEPT !.maxDepth = Float64(sc.maxDepth), !.allowedUrlPatterns = n]
    BY <1>1, <1>4 DEF Stored
  <1>7. c.scopes = [sc EXCEPT !.maxDepth = sc.maxDepth, !.allowedUrlPatterns = n]
    BY <1>3, <1>6
  <1>8. c.scopes = [sc EXCEPT !.allowedUrlPatterns = n]
    BY <1>7 DEF ScopeRules
  <1>9. c.retries = [re EXCEPT !.maxAttempts = Float64(re.maxAttempts), !.backoffInitialMs = Float64(re.backoffInitialMs)]
    BY <1>2 DEF Stored
  <1>10. c.retries = [re EXCEPT !.maxAttempts = re.maxAttempts, !.backoffInitialMs = re.backoffInitialMs]
    BY <1>3, <1>9
  <1>11. c.retries = re
    BY <1>10 DEF RetryPolicy
  <1>12. c.scopes \in ScopeRules
    BY <1>5, <1>8 DEF ScopeRules
  <1>13. c.scopes.maxDepth \in Uint /\ c.retries.maxAttempts \in Uint /\ c.retries.backoffInitialMs \in Uint
    BY <1>11, <1>12 DEF ScopeRules, RetryPolicy
  <1>14. Readable(c)
    BY <1>13 DEF Readable
  <1>15. QED
    BY <1>1, <1>2, <1>4, <1>8, <1>11, <1>12, <1>14

\* What the row of a configuration is restored to: itself.
LEMMA RestoredAsStored ==
  ASSUME NEW id, NEW p \in CrawlJobConfig, NEW c, Stored(c, id, p), Readable(c)
  PROVE  RestoreCrawlJobConfigFromSnapshot(c) = c
  <1>1. c.userId = UserID /\ UserID # Nil
    BY ApiAssumption, NilAssumption DEF Stored
  <1>2. NotNull(c.userId) = c.userId
    BY <1>1, Zenon DEF NotNull
  <1>3. c.jobType # ""
    BY Zenon DEF Stored, FromProtoJobType
  <1>4. (IF c.jobType = "" THEN "JOB_TYPE_ONCE" ELSE c.jobType) = c.jobType
    BY <1>3, Zenon
  <1>5. RestoreCrawlJobConfigFromSnapshot(c) = [c EXCEPT !.userId = c.userId, !.jobType = c.jobType]
    BY <1>2, <1>4, Zenon DEF RestoreCrawlJobConfigFromSnapshot
  <1>6. c = [k \in ConfigFields |-> c[k]]
    BY DEF Stored
  <1>7. [c EXCEPT !.userId = c.userId, !.jobType = c.jobType] = c
    BY <1>6 DEF ConfigFields
  <1>8. QED
    BY <1>5, <1>7

\* A stored configuration has its type.
LEMMA StoredType ==
  ASSUME NEW id \in String, NEW p \in CrawlJobConfig, NEW c, Stored(c, id, p), NEW Scopes, NEW Retries,
         c.scopes \in Scopes, c.retries \in Retries, c.queueWeights \in Seq(QueueWeight)
  PROVE  c \in ConfigWith(Scopes, Retries)
  <1>1. /\ p.name \in String /\ p.extractionSpec \in Opt(ExtractionSpec) /\ p.seeds \in Seq(Seed)
        /\ p.respectRobotsTxt \in BOOLEAN
    BY DEF CrawlJobConfig
  <1>2. c.id \in String /\ c.userId \in String /\ c.name \in String
    BY <1>1, ApiAssumption DEF Stored
  <1>3. c.extractionSpec \in ExtractionModel
    BY <1>1, ExtractionModelled DEF Stored
  <1>4. c.seeds \in Seq(Seed)
    BY <1>1 DEF Stored
  <1>5. c.rateLimit \in RateLimitPolicy /\ c.auth \in AuthOptions /\ c.schedule \in ScheduleOptions
    BY PartsModelled DEF Stored
  <1>6. c.respectRobotsTxt \in BOOLEAN
    BY <1>1, Zenon DEF Stored
  <1>7. c.jobType \in {"JOB_TYPE_ONCE", "JOB_TYPE_SCHEDULED"}
    BY Zenon DEF Stored, FromProtoJobType
  <1>8. c.crawlMode \in {"", "pagination_and_links", "pagination_only", "links_only"}
    <2>1. c.crawlMode = FromProtoCrawlMode(p.crawlMode)
      BY DEF Stored
    <2>2. QED
      BY <2>1 DEF FromProtoCrawlMode
  <1>9. c = [k \in ConfigFields |-> c[k]]
    BY DEF Stored
  <1>10. QED
    BY <1>2, <1>3, <1>4, <1>5, <1>6, <1>7, <1>8, <1>9 DEF ConfigWith, ConfigFields

\* Rounding maps naturals to naturals.
LEMMA FloatNat ==
  ASSUME NEW n \in Nat
  PROVE  Float64(n) \in Nat
  <1>1. CASE n <= 2 ^ FloatBits \/ n % 2 = 0
    BY <1>1 DEF Float64
  <1>2. CASE ~(n <= 2 ^ FloatBits \/ n % 2 = 0)
    <2>1. n % 2 # 0
      BY <1>2
    <2>2. n - 1 \in Nat /\ n + 1 \in Nat
      BY <2>1
    <2>3. (n - 1) % 4 = 0 \/ (n + 1) % 4 = 0
      BY <2>1
    <2>4. \E f \in {n - 1, n + 1} : f % 4 = 0
      BY <2>3
    <2>5. Float64(n) = CHOOSE f \in {n - 1, n + 1} : f % 4 = 0
      BY <1>2 DEF Float64
    <2>6. Float64(n) \in {n - 1, n + 1}
      BY <2>4, <2>5
    <2>7. QED
      BY <2>2, <2>6
  <1>3. QED
    BY <1>1, <1>2

\* A configuration saved from a message has the type of its row.
LEMMA StoredRow ==
  ASSUME NEW id \in String, NEW p \in CrawlJobConfig, NEW c, Stored(c, id, p), c.queueWeights \in Seq(QueueWeight)
  PROVE  c \in ConfigRow
  <1>1. PICK sc \in ScopeRules : sc = FromProtoScopeRules(p.scopes)
    BY PartsModelled
  <1>2. PICK re \in RetryPolicy : re = FromProtoRetryPolicy(p.retries)
    BY PartsModelled
  <1>3. sc.maxDepth \in Nat /\ re.maxAttempts \in Nat /\ re.backoffInitialMs \in Nat
    <2>1. Uint \subseteq Nat
      BY DEF Uint
    <2>2. QED
      BY <2>1 DEF ScopeRules, RetryPolicy
  <1>4. PICK d \in Nat, a \in Nat, b \in Nat :
          d = Float64(sc.maxDepth) /\ a = Float64(re.maxAttempts) /\ b = Float64(re.backoffInitialMs)
    BY <1>3, FloatNat
  <1>5. PICK n \in Seq(String) : n = Normalized(sc.allowedUrlPatterns)
    BY NormalizedType DEF ScopeRules
  <1>6. c.scopes = [sc EXCEPT !.maxDepth = d, !.allowedUrlPatterns = n]
    BY <1>1, <1>4, <1>5 DEF Stored
  <1>7. c.retries = [re EXCEPT !.maxAttempts = a, !.backoffInitialMs = b]
    BY <1>2, <1>4 DEF Stored
  <1>8. c.scopes \in [maxDepth : Nat, allowedDomains : Seq(String), denyUrlPatterns : Seq(String),
                      allowedUrlPatterns : Seq(String)]
    BY <1>6 DEF ScopeRules
  <1>9. c.retries \in [maxAttempts : Nat, backoffInitialMs : Nat, backoffMultiplier : Nat]
    BY <1>7 DEF RetryPolicy
  <1>10. QED
    BY <1>8, <1>9, StoredType DEF ConfigRow

\* The fields of a configuration in a message.
MessageFields == {"id", "userId", "name", "extractionSpec", "scopes", "seeds", "rateLimit", "retries", "auth",
                  "schedule", "respectRobotsTxt", "jobType", "crawlMode"}

\* The enumerations go through their own strings and back.
LEMMA ModesSurvive ==
  ASSUME NEW p \in CrawlJobConfig
  PROVE  /\ ToProtoCrawlMode(FromProtoCrawlMode(p.crawlMode)) = p.crawlMode
         /\ ToProtoJobType(FromProtoJobType(p.jobType)) = JobTypeAsSent(p.jobType)
  <1>1. p.crawlMode \in CrawlMode /\ p.jobType \in JobType
    BY DEF CrawlJobConfig
  <1>2. ASSUME NEW m \in CrawlMode PROVE ToProtoCrawlMode(FromProtoCrawlMode(m)) = m
    BY <1>2 DEF CrawlMode, ToProtoCrawlMode, FromProtoCrawlMode
  <1>3. ASSUME NEW t \in JobType PROVE ToProtoJobType(FromProtoJobType(t)) = JobTypeAsSent(t)
    BY <1>3 DEF JobType, JobTypeAsSent, ToProtoJobType, FromProtoJobType
  <1>4. QED
    BY <1>1, <1>2, <1>3

\* The configuration that a client expects back, field by field.
LEMMA SentFields ==
  ASSUME NEW id, NEW p \in CrawlJobConfig, NEW m, m = AsSent(id, p)
  PROVE  /\ m = [k \in MessageFields |-> m[k]]
         /\ m.id = id /\ m.userId = UserID /\ m.name = p.name /\ m.extractionSpec = ExtractionAsSent(p.extractionSpec)
         /\ m.scopes = [FromProtoScopeRules(p.scopes) EXCEPT !.allowedUrlPatterns = Normalized(@)]
         /\ m.seeds = p.seeds /\ m.rateLimit = FromProtoRateLimitPolicy(p.rateLimit)
         /\ m.retries = FromProtoRetryPolicy(p.retries) /\ m.auth = FromProtoAuthOptions(p.auth)
         /\ m.schedule = FromProtoScheduleOptions(p.schedule) /\ m.respectRobotsTxt = p.respectRobotsTxt
         /\ m.jobType = JobTypeAsSent(p.jobType) /\ m.crawlMode = p.crawlMode
  <1>1. DOMAIN p = MessageFields
    BY DEF CrawlJobConfig, MessageFields
  <1>2. QED
    <2>1. PICK a, b, c, d, e, f, g :
            /\ a = [FromProtoScopeRules(p.scopes) EXCEPT !.allowedUrlPatterns = Normalized(@)]
            /\ b = FromProtoRateLimitPolicy(p.rateLimit) /\ c = FromProtoRetryPolicy(p.retries)
            /\ d = FromProtoAuthOptions(p.auth) /\ e = FromProtoScheduleOptions(p.schedule)
            /\ f = JobTypeAsSent(p.jobType) /\ g = ExtractionAsSent(p.extractionSpec)
      OBVIOUS
    <2>2. m = [p EXCEPT !.id = id, !.userId = UserID, !.scopes = a, !.rateLimit = b, !.retries = c, !.auth = d,
                        !.schedule = e, !.jobType = f, !.extractionSpec = g]
      BY <2>1, Zenon DEF AsSent
    <2>3. /\ m = [k \in MessageFields |-> m[k]]
          /\ m.id = id /\ m.userId = UserID /\ m.name = p.name /\ m.extractionSpec = g /\ m.scopes = a
          /\ m.seeds = p.seeds /\ m.rateLimit = b /\ m.retries = c /\ m.auth = d /\ m.schedule = e
          /\ m.respectRobotsTxt = p.respectRobotsTxt /\ m.jobType = f /\ m.crawlMode = p.crawlMode
      BY <1>1, <2>2 DEF MessageFields
    <2>4. QED
      BY <2>1, <2>3, Zenon

\* m is the message for the stored configuration c of the submitted p.
ReadAs(m, c, p) ==
  /\ m = [k \in MessageFields |-> m[k]]
  /\ m.userId = UserID /\ m.extractionSpec = ExtractionAsSent(p.extractionSpec)
  /\ m.jobType = JobTypeAsSent(p.jobType) /\ m.crawlMode = p.crawlMode
  /\ m.id = c.id /\ m.name = c.name /\ m.scopes = c.scopes /\ m.seeds = c.seeds /\ m.rateLimit = c.rateLimit
  /\ m.retries = c.retries /\ m.auth = c.auth /\ m.schedule = c.schedule
  /\ m.respectRobotsTxt = c.respectRobotsTxt

\* A stored configuration is answered as it was sent.
LEMMA MessageOf ==
  ASSUME NEW id, NEW p \in CrawlJobConfig, NEW c, Stored(c, id, p), c # Nil, NEW m, m = ToProtoCrawlJobConfig(c)
  PROVE  ReadAs(m, c, p)
  <1>1. DOMAIN c \ {"queueWeights"} = MessageFields
    <2>1. DOMAIN c = ConfigFields
      BY DEF Stored
    <2>2. QED
      BY <2>1 DEF ConfigFields, MessageFields
  <1>2. PICK u, e, t, d : u = Null(c.userId) /\ e = ToProtoExtractionSpec(c.extractionSpec)
                          /\ t = ToProtoJobType(c.jobType) /\ d = ToProtoCrawlMode(c.crawlMode)
    OBVIOUS
  <1>3. m = [k \in MessageFields |->
               CASE k = "userId" -> u [] k = "extractionSpec" -> e [] k = "jobType" -> t [] k = "crawlMode" -> d
                 [] OTHER -> c[k]]
    BY <1>1, <1>2, Zenon DEF ToProtoCrawlJobConfig
  <1>4. /\ m = [k \in MessageFields |-> m[k]] /\ m.userId = u /\ m.extractionSpec = e /\ m.jobType = t /\ m.crawlMode = d
        /\ m.id = c.id /\ m.name = c.name /\ m.scopes = c.scopes /\ m.seeds = c.seeds /\ m.rateLimit = c.rateLimit
        /\ m.retries = c.retries /\ m.auth = c.auth /\ m.schedule = c.schedule
        /\ m.respectRobotsTxt = c.respectRobotsTxt
    BY <1>3 DEF MessageFields
  <1>5. u = UserID
    BY <1>2, ApiAssumption, Zenon DEF Stored, Null
  <1>6. e = ExtractionAsSent(p.extractionSpec)
    <2>1. p.extractionSpec \in Opt(ExtractionSpec)
      BY DEF CrawlJobConfig
    <2>2. c.extractionSpec = FromProtoExtractionSpec(p.extractionSpec)
      BY DEF Stored
    <2>3. QED
      BY <1>2, <2>1, <2>2, ExtractionModelled
  <1>7. t = JobTypeAsSent(p.jobType) /\ d = p.crawlMode
    <2>1. c.jobType = FromProtoJobType(p.jobType) /\ c.crawlMode = FromProtoCrawlMode(p.crawlMode)
      BY DEF Stored
    <2>2. QED
      BY <1>2, <2>1, ModesSurvive, Zenon
  <1>8. QED
    BY <1>4, <1>5, <1>6, <1>7, Zenon DEF ReadAs

\* The round trip: a stored configuration with small numbers is read as it
\* was sent.
LEMMA RoundTrip ==
  ASSUME NEW id \in String, NEW p \in CrawlJobConfig, NEW c, Stored(c, id, p), c.queueWeights \in Seq(QueueWeight),
         SmallNumbers(p)
  PROVE  /\ Readable(c) /\ RestoreCrawlJobConfigFromSnapshot(c) = c /\ c \in ConfigModel
         /\ ToProtoCrawlJobConfig(c) = AsSent(id, p)
  <1>1. Readable(c) /\ c.scopes \in ScopeRules /\ c.retries \in RetryPolicy
        /\ c.scopes = [FromProtoScopeRules(p.scopes) EXCEPT !.allowedUrlPatterns = Normalized(@)]
        /\ c.retries = FromProtoRetryPolicy(p.retries)
    BY SmallNumbersKept, Zenon
  <1>2. RestoreCrawlJobConfigFromSnapshot(c) = c
    BY <1>1, RestoredAsStored
  <1>3. c \in ConfigModel
    BY <1>1, StoredType DEF ConfigModel
  <1>4. c # Nil
    BY <1>3, NilAssumption
  <1>5. PICK m : m = ToProtoCrawlJobConfig(c)
    OBVIOUS
  <1>6. PICK q : q = AsSent(id, p)
    OBVIOUS
  <1>7. ReadAs(m, c, p)
    BY <1>4, <1>5, MessageOf, Zenon
  <1>9. /\ q = [k \in MessageFields |-> q[k]]
        /\ q.id = id /\ q.userId = UserID /\ q.name = p.name /\ q.extractionSpec = ExtractionAsSent(p.extractionSpec)
        /\ q.scopes = [FromProtoScopeRules(p.scopes) EXCEPT !.allowedUrlPatterns = Normalized(@)]
        /\ q.seeds = p.seeds /\ q.rateLimit = FromProtoRateLimitPolicy(p.rateLimit)
        /\ q.retries = FromProtoRetryPolicy(p.retries) /\ q.auth = FromProtoAuthOptions(p.auth)
        /\ q.schedule = FromProtoScheduleOptions(p.schedule) /\ q.respectRobotsTxt = p.respectRobotsTxt
        /\ q.jobType = JobTypeAsSent(p.jobType) /\ q.crawlMode = p.crawlMode
    BY <1>6, SentFields
  <1>10. /\ m.id = q.id /\ m.userId = q.userId /\ m.name = q.name /\ m.extractionSpec = q.extractionSpec
         /\ m.scopes = q.scopes /\ m.seeds = q.seeds /\ m.rateLimit = q.rateLimit /\ m.retries = q.retries
         /\ m.auth = q.auth /\ m.schedule = q.schedule /\ m.respectRobotsTxt = q.respectRobotsTxt
         /\ m.jobType = q.jobType /\ m.crawlMode = q.crawlMode
    BY <1>1, <1>7, <1>9, Zenon DEF Stored, ReadAs
  <1>11. m = q
    BY <1>7, <1>9, <1>10 DEF MessageFields, ReadAs
  <1>12. QED
    BY <1>1, <1>2, <1>3, <1>5, <1>6, <1>11

-----------------------------------------------------------------------------
(* The invariant of the tables.                                             *)

\* The row of job j is what its client sent, on the first shard, and has its type.
RowSound(j, r) ==
  /\ r \in StoredJob
  /\ r.shard = 0
  /\ Stored(r.config, j, ConfigOf[r.sent])
  /\ r.job.id = j /\ r.job.status \in {"InProgress", "Completed"}

\* What the clients send is typed, and a first page has no cursor.
LoadSound ==
  /\ {"submissions", "jobLists", "taskLists"} \subseteq DOMAIN load
  /\ load.submissions \subseteq Submissions
  /\ load.jobLists \subseteq ListJobsRequest({}) /\ load.taskLists \subseteq ListTasksByJobRequest({})

\* The inductive invariant of the tables: every row is sound and on the first
\* shard.
StoreSound ==
  /\ LoadSound
  /\ deploy.queues \in Seq(STRING) /\ deploy.shards \in Nat \ {0}
  /\ clock \in Timestamp
  /\ jobs \in [JobIds -> StoredJob \cup {Nil, Gone}]
  /\ \A j \in Present : RowSound(j, jobs[j])

\* No step changes what may be sent, or the deployment.
LEMMA ListsKept ==
  ASSUME LoadSound, [ApiNext]_apiVars
  PROVE  LoadSound' /\ deploy' = deploy
         /\ load'.submissions = load.submissions /\ load'.jobLists = load.jobLists /\ load'.taskLists = load.taskLists
  <1> DEFINE Kept == /\ {"submissions", "jobLists", "taskLists"} \subseteq DOMAIN load'
                     /\ load'.submissions = load.submissions
                     /\ load'.jobLists = load.jobLists /\ load'.taskLists = load.taskLists
  <1>1. ASSUME NEW op, op \notin {"submissions", "jobLists", "taskLists"}, Spend(op)
        PROVE  Kept
    BY <1>1 DEF Spend, LoadSound
  <1>2. load' = load => Kept
    BY DEF LoadSound
  <1>3. Kept /\ deploy' = deploy
    <2> HIDE DEF Kept
    <2>1. QED
      BY <1>1, <1>2
       DEF ApiNext, apiVars, storeVars, PureCall, CreateJob, CreateCrawlJob, DeleteJob, WorkerFinds, WorkerCompletes, ExportBatch, UpdateJob,
           Tick, FirstJobs, FirstTasks, NextJobs, NextTasks, AskJobs, AskTasks, CountStatuses, CountDepths,
           CreatePreview, PreviewTx
  <1>4. QED
    BY <1>3 DEF LoadSound

\* CreateJob has no shard key: its transaction begins on the first shard.
LEMMA CreateHasNoKey ==
  ASSUME NEW door, NEW caller, NEW config, NEW j
  PROVE  Shard(ShardKey(Call(door, "CreateJob", caller, [config |-> config], "")), j) = 0
  <1> DEFINE call == Call(door, "CreateJob", caller, [config |-> config], "")
  <1>1. call.door = door /\ call.method = "CreateJob" /\ call.http.body = [config |-> config]
    BY DEF Call
  <1> HIDE DEF call
  <1>2. CASE door = "rest"
    BY <1>1, <1>2 DEF ShardKey, Shard, Resolve, call
  <1>3. CASE door # "rest"
    <2>1. Message(call) = [config |-> config]
      BY <1>1, <1>3 DEF Message
    <2>2. PICK m : m = Message(call)
      OBVIOUS
    <2>3. "jobId" \notin DOMAIN m
      BY <2>1, <2>2
    <2>4. ShardKeyInterceptor(deploy.shards, "CreateJob", m) = Nil
      BY <2>3 DEF ShardKeyInterceptor, isJobEndpoint
    <2>5. ShardKey(call) = Nil
      BY <1>1, <1>3, <2>2, <2>4 DEF ShardKey
    <2>6. QED
      BY <2>5 DEF Shard, Resolve, call
  <1>4. QED
    BY <1>2, <1>3

\* The queues that a task may be sent to are strings.
LEMMA QueuesAreNames ==
  ASSUME NEW available \in Seq(STRING), NEW weights \in Seq(QueueWeight), Panic \notin SelectCrawlQueue(available, weights)
  PROVE  SelectCrawlQueue(available, weights) \subseteq STRING
  <1>1. \A i \in DOMAIN weights : weights[i].queue \in STRING
    <2>1. \A i \in DOMAIN weights : weights[i] \in QueueWeight
      OBVIOUS
    <2>2. \A q \in QueueWeight : q.queue \in STRING
      BY DEF QueueWeight
    <2>3. QED
      BY <2>1, <2>2
  <1>2. CASE Candidates(weights) # {}
    <2>1. SelectCrawlQueue(available, weights) \subseteq {weights[i].queue : i \in Candidates(weights)}
      BY <1>2, QueuesAreCandidates
    <2>2. QED
      BY <1>1, <2>1 DEF Candidates
  <1>3. CASE Candidates(weights) = {}
    <2>1. ASSUME NEW q \in SelectCrawlQueue(available, weights)
          PROVE  q = "" \/ \E i \in DOMAIN available : q = available[i]
      <3>1. CASE available = <<>>
        BY <1>3, <2>1, <3>1 DEF SelectCrawlQueue
      <3>2. CASE available # <<>>
        BY <1>3, <2>1, <3>2 DEF SelectCrawlQueue
      <3>3. QED
        BY <3>1, <3>2
    <2>2. \A i \in DOMAIN available : available[i] \in STRING
      OBVIOUS
    <2>3. "" \in STRING
      <3>1. PICK i \in DOMAIN Collation : "" = Collation[i]
        BY CodecAssumption DEF String
      <3>2. Collation \in Seq(STRING)
        BY StoreAssumption
      <3>3. Collation[i] \in STRING
        BY <3>2
      <3>4. QED
        BY <3>1, <3>3
    <2>4. QED
      BY <2>1, <2>2, <2>3
  <1>4. QED
    BY <1>2, <1>3

\* The row of a new job.
LEMMA NewJobType ==
  ASSUME clock \in Timestamp, NEW j \in JobIds, NEW r,
         r = SaveCrawlJobToSnapshot(
             [id |-> j, jobConfigId |-> j, userId |-> UserID, name |-> Nil, status |-> "InProgress",
              createdAt |-> clock, completedAt |-> Nil, exportJSONKey |-> Nil, exportCSVKey |-> Nil,
              exportedAt |-> Nil, exportStatus |-> "NOT_STARTED"])
  PROVE  r \in JobModel /\ r.id = j /\ r.status = "InProgress"
  <1>1. Null(j) = j /\ Null(UserID) = UserID
    BY StoreAssumption, ApiAssumption, Zenon DEF Null
  <1>2. r = [id |-> j, jobConfigId |-> j, userId |-> UserID, name |-> Nil, status |-> "InProgress",
              createdAt |-> clock, completedAt |-> Nil, exportJSONKey |-> Nil, exportCSVKey |-> Nil,
              exportedAt |-> Nil, exportStatus |-> "NOT_STARTED"]
    BY <1>1 DEF SaveCrawlJobToSnapshot
  <1>3. j \in String /\ UserID \in String /\ "InProgress" \in String /\ "NOT_STARTED" \in String
    BY StoreAssumption, ApiAssumption
  <1>4. QED
    BY <1>2, <1>3 DEF JobModel, Opt

\* A submission may have no weights.
LEMMA NoWeights == <<>> \in Seq(QueueWeight)
  OBVIOUS

\* A row from its parts.
LEMMA RowFromParts ==
  ASSUME NEW j, NEW jr \in JobModel, NEW c \in ConfigRow, NEW s \in Submissions, NEW sh, NEW targets \in Seq(STRING),
         NEW w \in BOOLEAN, NEW row, sh = 0, jr.id = j, jr.status = "InProgress", Stored(c, j, ConfigOf[s]),
         row = [job |-> jr, config |-> c, sent |-> s, shard |-> sh, targets |-> targets, foundAt |-> Nil, worked |-> w]
  PROVE  RowSound(j, row) /\ row.foundAt = Nil
  <1>1. row \in StoredJob
    BY DEF StoredJob, Opt
  <1>2. row.job = jr /\ row.config = c /\ row.sent = s /\ row.shard = sh /\ row.foundAt = Nil
    OBVIOUS
  <1>3. QED
    BY <1>1, <1>2 DEF RowSound

\* The queues of the tasks of a new job.
LEMMA TargetsType ==
  ASSUME deploy.queues \in Seq(STRING), NEW door, NEW s \in Submissions, NEW queues, NEW targets,
         queues = SelectCrawlQueue(deploy.queues, Commanded(door, s).queueWeights), Panic \notin queues,
         targets \in [DOMAIN Commanded(door, s).seeds -> queues]
  PROVE  targets \in Seq(STRING)
  <1>1. Commanded(door, s).queueWeights \in Seq(QueueWeight)
    <2>1. WeightsOf[s] \in Seq(QueueWeight)
      BY ApiAssumption
    <2>2. QED
      BY <2>1, CommandedWeights, NoWeights, Zenon
  <1>2. Commanded(door, s).seeds = ConfigOf[s].seeds
    BY DEF Commanded, FromProtoCrawlJobConfig
  <1>3. PICK sd \in Seq(Seed) : sd = ConfigOf[s].seeds
    BY ApiAssumption DEF CrawlJobConfig
  <1>4. queues \subseteq STRING
    BY <1>1, QueuesAreNames
  <1>5. \A i \in DOMAIN sd : targets[i] \in STRING
    BY <1>2, <1>3, <1>4
  <1>6. targets = [i \in DOMAIN sd |-> targets[i]]
    BY <1>2, <1>3
  <1>7. QED
    BY <1>5, <1>6, MappedSeq, Zenon

\* The configuration of a new job.
LEMMA NewConfigType ==
  ASSUME deploy.queues \in Seq(STRING), NEW door, NEW s \in Submissions, NEW j \in JobIds, NEW c,
         c = SaveCrawlJobConfigToSnapshot(
               [Commanded(door, s) EXCEPT !.id = j, !.userId = UserID, !.scopes.allowedUrlPatterns = Normalized(@)])
  PROVE  c \in ConfigRow /\ Stored(c, j, ConfigOf[s])
  <1>1. Stored(c, j, ConfigOf[s]) /\ c.queueWeights = Commanded(door, s).queueWeights
    BY CreatedIsStored
  <1>2. c.queueWeights \in Seq(QueueWeight)
    <2>1. WeightsOf[s] \in Seq(QueueWeight)
      BY ApiAssumption
    <2>2. QED
      BY <1>1, <2>1, CommandedWeights, NoWeights, Zenon
  <1>3. j \in String /\ ConfigOf[s] \in CrawlJobConfig
    BY StoreAssumption, ApiAssumption
  <1>4. QED
    BY <1>1, <1>2, <1>3, StoredRow

\* What may become of a row: a worker finds a link, completes the tasks, or
\* the export worker marks the job.
RowStep(j, r, q) ==
  \/ q = r
  \/ q = [r EXCEPT !.foundAt = clock] /\ r.foundAt = Nil
  \/ q = [r EXCEPT !.worked = TRUE]
  \/ q = [r EXCEPT !.job = MarkAsExported(@)]
  \/ q = [r EXCEPT !.job.exportStatus = "FAILED"]

\* The export worker keeps the type, the id and the creation time of a job.
LEMMA MarkedType ==
  ASSUME clock \in Timestamp, NEW job \in JobModel
  PROVE  /\ MarkAsExported(job) \in JobModel /\ MarkAsExported(job).id = job.id
         /\ MarkAsExported(job).status = "Completed" /\ MarkAsExported(job).createdAt = job.createdAt
         /\ [job EXCEPT !.exportStatus = "FAILED"] \in JobModel
         /\ [job EXCEPT !.exportStatus = "FAILED"].id = job.id
         /\ [job EXCEPT !.exportStatus = "FAILED"].status = job.status
         /\ [job EXCEPT !.exportStatus = "FAILED"].createdAt = job.createdAt
  <1>1. {"json", "csv", "COMPLETED", "Completed", "FAILED"} \subseteq String
    BY ApiAssumption
  <1>2. QED
    BY <1>1 DEF MarkAsExported, JobModel, Opt

\* Such a step keeps a row sound, and changes only what it is about.
LEMMA RowStepSound ==
  ASSUME clock \in Timestamp, NEW j, NEW r, RowSound(j, r), NEW q, RowStep(j, r, q)
  PROVE  /\ RowSound(j, q) /\ q.config = r.config /\ q.sent = r.sent /\ q.job.createdAt = r.job.createdAt
         /\ q.foundAt # r.foundAt => r.foundAt = Nil /\ q.foundAt = clock
  <1>1. r \in StoredJob
    BY DEF RowSound
  <1>2. CASE q = r
    BY <1>2
  <1>3. CASE q = [r EXCEPT !.foundAt = clock] /\ r.foundAt = Nil
    <2>1. q \in StoredJob /\ q.shard = r.shard /\ q.config = r.config /\ q.sent = r.sent /\ q.job = r.job /\ q.foundAt = clock
      BY <1>1, <1>3 DEF StoredJob, Opt
    <2>2. QED
      BY <1>3, <2>1 DEF RowSound
  <1>4. CASE q = [r EXCEPT !.worked = TRUE]
    <2>1. q \in StoredJob /\ q.shard = r.shard /\ q.config = r.config /\ q.sent = r.sent /\ q.job = r.job
          /\ q.foundAt = r.foundAt
      BY <1>1, <1>4 DEF StoredJob
    <2>2. QED
      BY <2>1 DEF RowSound
  <1>5. ASSUME NEW b \in JobModel, q = [r EXCEPT !.job = b], b.id = r.job.id, b.createdAt = r.job.createdAt,
               b.status \in {r.job.status, "Completed"}
        PROVE  /\ RowSound(j, q) /\ q.config = r.config /\ q.sent = r.sent /\ q.job.createdAt = r.job.createdAt
               /\ q.foundAt = r.foundAt
    <2>1. q \in StoredJob /\ q.shard = r.shard /\ q.config = r.config /\ q.sent = r.sent /\ q.job = b
          /\ q.foundAt = r.foundAt
      BY <1>1, <1>5 DEF StoredJob
    <2>2. QED
      BY <1>5, <2>1 DEF RowSound
  <1>6. r.job \in JobModel
    BY <1>1 DEF StoredJob
  <1>7. CASE q = [r EXCEPT !.job = MarkAsExported(@)]
    <2>1. PICK b \in JobModel : b = MarkAsExported(r.job)
      BY <1>6, MarkedType
    <2>2. q = [r EXCEPT !.job = b]
      BY <1>7, <2>1
    <2>3. b.id = r.job.id /\ b.createdAt = r.job.createdAt /\ b.status = "Completed"
      BY <1>6, <2>1, MarkedType
    <2>4. QED
      BY <1>5, <2>2, <2>3
  <1>8. CASE q = [r EXCEPT !.job.exportStatus = "FAILED"]
    <2>1. PICK b \in JobModel : b = [r.job EXCEPT !.exportStatus = "FAILED"]
      BY <1>6, MarkedType
    <2>2. q = [r EXCEPT !.job = b]
      BY <1>8, <2>1
    <2>3. b.id = r.job.id /\ b.createdAt = r.job.createdAt /\ b.status = r.job.status
      BY <1>6, <2>1, MarkedType
    <2>4. QED
      BY <1>5, <2>2, <2>3
  <1>9. QED
    BY <1>2, <1>3, <1>4, <1>7, <1>8 DEF RowStep

\* A row is no Nil, and not Gone.
LEMMA RowsArePresent ==
  ASSUME NEW j, NEW r, RowSound(j, r)
  PROVE  r # Nil /\ r # Gone
  BY NilAssumption DEF RowSound

\* What a step does to the table: a job is created, or deleted, or rows change.
JobCreated ==
  \E n \in JobIds : \E row : /\ jobs[n] = Nil /\ RowSound(n, row) /\ row.foundAt = Nil
                             /\ jobs' = [jobs EXCEPT ![n] = row]

\* A step of the workers: rows change, none comes or goes.
RowsStep ==
  /\ jobs' = [j \in JobIds |-> jobs'[j]]
  /\ \A j \in JobIds : IF j \in Present THEN RowStep(j, jobs[j], jobs'[j]) ELSE jobs'[j] = jobs[j]

\* What a step can do to the tables.
TableStep ==
  \/ JobCreated
  \/ \E d \in Present : jobs' = [jobs EXCEPT ![d] = Gone]
  \/ RowsStep

\* CreateJob adds a row.
LEMMA CreateMakesRow ==
  ASSUME StoreSound, NEW door, NEW caller, NEW s \in load.submissions, CreateJob(door, caller, s)
  PROVE  JobCreated
  <1> DEFINE config == Commanded(door, s)
             key == ShardKey(Call(door, "CreateJob", caller, [config |-> ConfigOf[s]], ""))
             queues == SelectCrawlQueue(deploy.queues, config.queueWeights)
  <1>1. s \in Submissions
    BY DEF StoreSound, LoadSound
  <1>2. PICK n \in JobIds, targets \in [DOMAIN config.seeds -> queues] :
          jobs[n] = Nil /\ jobs' = [jobs EXCEPT ![n] = NewRow(key, n, s, config, targets)]
    BY DEF CreateJob, CreateCrawlJob
  <1>3. Panic \notin queues
    BY DEF CreateJob, CreateCrawlJob
  <1>4. PICK row : row = NewRow(key, n, s, config, targets)
    OBVIOUS
  <1>5. RowSound(n, row) /\ row.foundAt = Nil
    <2>1. PICK c : c = SaveCrawlJobConfigToSnapshot(
                 [Commanded(door, s) EXCEPT !.id = n, !.userId = UserID, !.scopes.allowedUrlPatterns = Normalized(@)])
      OBVIOUS
    <2>2. PICK jr : jr = SaveCrawlJobToSnapshot(
             [id |-> n, jobConfigId |-> n, userId |-> UserID, name |-> Nil, status |-> "InProgress",
              createdAt |-> clock, completedAt |-> Nil, exportJSONKey |-> Nil, exportCSVKey |-> Nil,
              exportedAt |-> Nil, exportStatus |-> "NOT_STARTED"])
      OBVIOUS
    <2>3. PICK sh, w : sh = Shard(key, n) /\ w = FALSE
      OBVIOUS
    <2>4. row = [job |-> jr, config |-> c, sent |-> s, shard |-> sh, targets |-> targets, foundAt |-> Nil, worked |-> w]
      BY <1>4, <2>1, <2>2, <2>3, Zenon DEF NewRow, JobInserted, ConfigInserted
    <2>5. deploy.queues \in Seq(STRING) /\ clock \in Timestamp
      BY DEF StoreSound
    <2>6. targets \in Seq(STRING)
      BY <1>1, <1>3, <2>5, TargetsType
    <2> HIDE DEF config, key, queues
    <2>7. c \in ConfigRow /\ Stored(c, n, ConfigOf[s])
      BY <1>1, <2>1, <2>5, NewConfigType
    <2>8. jr \in JobModel /\ jr.id = n /\ jr.status = "InProgress"
      BY <2>2, <2>5, NewJobType
    <2>9. sh = 0
      BY <2>3, CreateHasNoKey DEF key
    <2>10. w \in BOOLEAN
      BY <2>3, Zenon
    <2>11. QED
      BY <1>1, <2>4, <2>6, <2>7, <2>8, <2>9, <2>10, RowFromParts
  <1>6. jobs' = [jobs EXCEPT ![n] = row]
    BY <1>2, <1>4
  <1>7. QED
    BY <1>2, <1>5, <1>6 DEF JobCreated

\* A worker that finds a link leaves the job row alone.
LEMMA FindChangesRow ==
  ASSUME StoreSound, NEW d \in JobIds, WorkerFinds(d)
  PROVE  RowsStep /\ \A j \in Present : jobs'[j].job = jobs[j].job /\ jobs'[j].worked = jobs[j].worked
  <1>1. DOMAIN jobs = JobIds /\ jobs = [j \in JobIds |-> jobs[j]]
    BY DEF StoreSound
  <1>2. d \in Present /\ jobs[d].foundAt = Nil /\ jobs' = [jobs EXCEPT ![d].foundAt = clock]
    BY DEF WorkerFinds, Workable
  <1>3. jobs'[d] = [jobs[d] EXCEPT !.foundAt = clock] /\ \A j \in JobIds \ {d} : jobs'[j] = jobs[j]
    BY <1>1, <1>2
  <1>4. jobs' = [j \in JobIds |-> jobs'[j]]
    BY <1>1, <1>2
  <1>5. RowsStep
    BY <1>2, <1>3, <1>4 DEF RowsStep, RowStep
  <1>6. jobs'[d].job = jobs[d].job /\ jobs'[d].worked = jobs[d].worked
    BY <1>3
  <1>7. QED
    BY <1>3, <1>5, <1>6 DEF Present

\* A worker that completes a task touches the tasks of one job.
LEMMA CompleteChangesRow ==
  ASSUME StoreSound, NEW d \in JobIds, WorkerCompletes(d)
  PROVE  /\ RowsStep /\ d \in Present
         /\ \A j \in Present : jobs'[j].job = jobs[j].job /\ (j # d => jobs'[j].worked = jobs[j].worked)
  <1>1. DOMAIN jobs = JobIds /\ jobs = [j \in JobIds |-> jobs[j]]
    BY DEF StoreSound
  <1>2. d \in Present /\ jobs' = [jobs EXCEPT ![d].worked = TRUE]
    BY DEF WorkerCompletes, Workable
  <1>3. jobs'[d] = [jobs[d] EXCEPT !.worked = TRUE] /\ \A j \in JobIds \ {d} : jobs'[j] = jobs[j]
    BY <1>1, <1>2
  <1>4. jobs' = [j \in JobIds |-> jobs'[j]]
    BY <1>1, <1>2
  <1>5. RowsStep
    BY <1>2, <1>3, <1>4 DEF RowsStep, RowStep
  <1>6. jobs'[d].job = jobs[d].job
    BY <1>3
  <1>7. QED
    BY <1>2, <1>3, <1>5, <1>6 DEF Present

\* A batch of exports changes the status of the jobs that are done.
LEMMA ExportChangesRows ==
  ASSUME StoreSound, NEW done \in SUBSET JobIds, NEW failed \in SUBSET JobIds, ExportBatch(done, failed)
  PROVE  /\ RowsStep /\ done \subseteq Present
         /\ \A j \in Present : /\ jobs'[j].worked = jobs[j].worked
                               /\ j \notin done => jobs'[j].job.status = jobs[j].job.status
  <1>1. done \cup failed \subseteq Present /\ done \cap failed = {}
    BY DEF ExportBatch, UpdateJob
  <1>2. jobs' = [j \in JobIds |->
                   CASE j \in done -> [jobs[j] EXCEPT !.job = MarkAsExported(@)]
                     [] j \in failed -> [jobs[j] EXCEPT !.job.exportStatus = "FAILED"]
                     [] OTHER -> jobs[j]]
    BY DEF ExportBatch, UpdateJob
  <1>3. ASSUME NEW j \in JobIds
        PROVE  /\ IF j \in Present THEN RowStep(j, jobs[j], jobs'[j]) ELSE jobs'[j] = jobs[j]
               /\ j \in Present => /\ jobs'[j].worked = jobs[j].worked
                                   /\ j \notin done => jobs'[j].job.status = jobs[j].job.status
    <2>1. CASE j \in done
      <3>1. jobs'[j] = [jobs[j] EXCEPT !.job = MarkAsExported(@)]
        BY <1>1, <1>2, <2>1
      <3>2. j \in Present
        BY <1>1, <2>1
      <3>3. jobs'[j].worked = jobs[j].worked
        BY <3>1
      <3>4. QED
        BY <2>1, <3>1, <3>2, <3>3 DEF RowStep
    <2>2. CASE j \in failed
      <3>1. PICK r, q : r = jobs[j] /\ q = jobs'[j]
        OBVIOUS
      <3>2. q = [r EXCEPT !.job.exportStatus = "FAILED"]
        BY <1>1, <1>2, <2>2, <3>1
      <3>3. j \in Present
        BY <1>1, <2>2
      <3>4. r \in StoredJob
        BY <3>1, <3>3 DEF StoreSound, RowSound
      <3>5. PICK b \in JobModel : b = r.job
        BY <3>4 DEF StoredJob
      <3>6. q.worked = r.worked /\ q.job = [b EXCEPT !.exportStatus = "FAILED"]
        BY <3>2, <3>4, <3>5 DEF StoredJob
      <3>7. q.job.status = r.job.status
        BY <3>5, <3>6 DEF JobModel
      <3>8. QED
        BY <3>1, <3>2, <3>3, <3>6, <3>7 DEF RowStep
    <2>3. CASE j \notin done \cup failed
      <3>1. jobs'[j] = jobs[j]
        BY <1>2, <2>3
      <3>2. QED
        BY <3>1 DEF RowStep
    <2>4. QED
      BY <2>1, <2>2, <2>3
  <1>4. jobs' = [j \in JobIds |-> jobs'[j]]
    BY <1>2
  <1>5. RowsStep
    BY <1>3, <1>4 DEF RowsStep
  <1>6. QED
    BY <1>1, <1>3, <1>5 DEF Present

\* DeleteJob removes a row for good.
LEMMA DeleteRemovesRow ==
  ASSUME NEW door, NEW caller, NEW j, DeleteJob(door, caller, j)
  PROVE  \E d \in Present : jobs' = [jobs EXCEPT ![d] = Gone] /\ PassSeesDeletion(d)
  <1>1. PICK d : d = Message(Call(door, "DeleteJob", caller, [id |-> j], IF door = "rest" THEN j ELSE "")).id
    OBVIOUS
  <1>2. PICK k : k = ShardKey(Call(door, "DeleteJob", caller, [id |-> j], IF door = "rest" THEN j ELSE ""))
    OBVIOUS
  <1>3. GetJob(k, d) # Nil /\ jobs' = [jobs EXCEPT ![d] = Gone] /\ PassSeesDeletion(d)
    BY <1>1, <1>2, Zenon DEF DeleteJob
  <1>4. d \in Present
    BY <1>3 DEF GetJob, ScanJob, On
  <1>5. QED
    BY <1>3, <1>4

\* No change is a step of the rows.
LEMMA SameRows ==
  ASSUME StoreSound, jobs' = jobs
  PROVE  RowsStep
  BY DEF StoreSound, RowsStep, RowStep

\* The clock keeps its type.
LEMMA ClockKept ==
  ASSUME clock \in Timestamp, [ApiNext]_apiVars
  PROVE  clock' \in Timestamp
  <1>1. CASE Tick
    <2>1. clock < MaxTime /\ clock' = clock + 1
      BY <1>1 DEF Tick
    <2>2. MaxTime \in Nat
      BY StoreAssumption, Zenon
    <2>3. QED
      BY <2>1, <2>2 DEF Timestamp
  <1>2. CASE clock' = clock
    BY <1>2
  <1>3. QED
    BY <1>1, <1>2
       DEF ApiNext, apiVars, storeVars, PureCall, CreateJob, CreateCrawlJob, DeleteJob, WorkerFinds, WorkerCompletes, ExportBatch, UpdateJob,
           FirstJobs, FirstTasks, NextJobs, NextTasks, AskJobs, AskTasks, CountStatuses, CountDepths, CreatePreview, PreviewTx

\* The table, after a step.
LEMMA TableKept ==
  ASSUME StoreSound, TableStep
  PROVE  /\ jobs' \in [JobIds -> StoredJob \cup {Nil, Gone}]
         /\ \A j \in Present' : RowSound(j, jobs'[j])
  <1>1. jobs \in [JobIds -> StoredJob \cup {Nil, Gone}] /\ clock \in Timestamp
        /\ \A j \in Present : RowSound(j, jobs[j])
    BY DEF StoreSound
  <1>2. ASSUME NEW n \in JobIds, NEW row, RowSound(n, row), jobs' = [jobs EXCEPT ![n] = row]
        PROVE  /\ jobs' \in [JobIds -> StoredJob \cup {Nil, Gone}]
               /\ \A j \in Present' : RowSound(j, jobs'[j])
    <2>1. row \in StoredJob
      BY <1>2 DEF RowSound
    <2>2. jobs'[n] = row /\ \A j \in JobIds \ {n} : jobs'[j] = jobs[j]
      BY <1>1, <1>2
    <2>3. jobs' \in [JobIds -> StoredJob \cup {Nil, Gone}]
      BY <1>1, <1>2, <2>1
    <2>4. QED
      BY <1>1, <1>2, <2>2, <2>3 DEF Present
  <1>3. ASSUME NEW d \in Present, jobs' = [jobs EXCEPT ![d] = Gone]
        PROVE  /\ jobs' \in [JobIds -> StoredJob \cup {Nil, Gone}]
               /\ \A j \in Present' : RowSound(j, jobs'[j])
    <2>1. d \in JobIds /\ jobs'[d] = Gone /\ \A j \in JobIds \ {d} : jobs'[j] = jobs[j]
      BY <1>1, <1>3 DEF Present
    <2>2. jobs' \in [JobIds -> StoredJob \cup {Nil, Gone}]
      BY <1>1, <1>3
    <2>3. QED
      BY <1>1, <2>1, <2>2 DEF Present
  <1>4. ASSUME jobs' = [j \in JobIds |-> jobs'[j]],
               \A j \in JobIds : IF j \in Present THEN RowStep(j, jobs[j], jobs'[j]) ELSE jobs'[j] = jobs[j]
        PROVE  /\ jobs' \in [JobIds -> StoredJob \cup {Nil, Gone}]
               /\ \A j \in Present' : RowSound(j, jobs'[j])
    <2>1. ASSUME NEW j \in JobIds, j \in Present PROVE RowSound(j, jobs'[j])
      BY <1>1, <1>4, <2>1, RowStepSound
    <2>2. \A j \in JobIds : jobs'[j] \in StoredJob \cup {Nil, Gone}
      BY <1>1, <1>4, <2>1 DEF RowSound
    <2>3. jobs' \in [JobIds -> StoredJob \cup {Nil, Gone}]
      BY <1>4, <2>2
    <2>4. ASSUME NEW j \in Present' PROVE j \in Present
      BY <1>4, <2>4 DEF Present
    <2>5. QED
      BY <2>1, <2>3, <2>4 DEF Present
  <1>5. QED
    BY <1>2, <1>3, <1>4 DEF TableStep, JobCreated, RowsStep

\* The tables are sound when empty.
LEMMA StoreInit == ApiInit => StoreSound
  <1> SUFFICES ASSUME ApiInit PROVE StoreSound
    OBVIOUS
  <1>1. load \in Workload
    BY ApiAssumption DEF ApiInit
  <1>2. LoadSound /\ load.deploy.queues \in Seq(STRING) /\ load.deploy.shards \in Nat \ {0}
    BY <1>1 DEF Workload, LoadSound
  <1>3. Present = {} /\ jobs \in [JobIds -> StoredJob \cup {Nil, Gone}]
    BY DEF ApiInit, Present
  <1>4. clock \in Timestamp
    <2>1. MaxTime \in Nat
      BY StoreAssumption, Zenon
    <2>2. clock = 0
      BY DEF ApiInit
    <2>3. QED
      BY <2>1, <2>2 DEF Timestamp
  <1>5. QED
    BY <1>2, <1>3, <1>4 DEF StoreSound, ApiInit

\* Every step of the API and the workers is a step of the tables.
LEMMA StepOnTable ==
  ASSUME StoreSound, [ApiNext]_apiVars
  PROVE  TableStep
  <1>1. CASE jobs' = jobs
    BY <1>1, SameRows DEF TableStep
  <1>2. CASE jobs' # jobs
    BY <1>2, CreateMakesRow, FindChangesRow, CompleteChangesRow, ExportChangesRows, DeleteRemovesRow
       DEF ApiNext, apiVars, storeVars, PureCall, Tick, FirstJobs, FirstTasks, NextJobs, NextTasks, AskJobs, AskTasks,
           CountStatuses, CountDepths, CreatePreview, PreviewTx, TableStep
  <1>3. QED
    BY <1>1, <1>2

\* Every step keeps the tables sound.
LEMMA StoreKept ==
  ASSUME StoreSound, [ApiNext]_apiVars
  PROVE  StoreSound'
  <1>1. LoadSound' /\ deploy' = deploy
    BY ListsKept DEF StoreSound
  <1>2. clock' \in Timestamp
    BY ClockKept DEF StoreSound
  <1>3. TableStep
    BY StepOnTable
  <1>4. jobs' \in [JobIds -> StoredJob \cup {Nil, Gone}] /\ \A j \in Present' : RowSound(j, jobs'[j])
    BY <1>3, TableKept
  <1>5. QED
    BY <1>1, <1>2, <1>4 DEF StoreSound

-----------------------------------------------------------------------------
(* What is answered has the type of its message.                            *)

\* A transform.
LEMMA TransformTyped ==
  ASSUME NEW t \in TransformModel
  PROVE  ToProtoTransformSpec(t) \in TransformSpec
  <1>1. t.op \in String /\ t.arg \in Opt(String)
    BY DEF TransformModel
  <1>2. PICK a : a = IF t.arg = Nil THEN "" ELSE t.arg
    OBVIOUS
  <1>3. a \in String
    BY <1>1, <1>2, CodecAssumption, Zenon DEF Opt
  <1>4. ToProtoTransformSpec(t) = [op |-> t.op, arg |-> a]
    BY <1>2, Zenon DEF ToProtoTransformSpec
  <1>5. QED
    BY <1>1, <1>3, <1>4 DEF TransformSpec

\* A field.
LEMMA FieldTyped ==
  ASSUME NEW f \in FieldModel
  PROVE  ToProtoFieldSpec(f) \in FieldSpec
  <1>1. f.transforms \in Seq(TransformModel) /\ f.extractor \in ExtractorSpec
    BY DEF FieldModel
  <1>2. PICK ts : ts = [i \in DOMAIN f.transforms |-> ToProtoTransformSpec(f.transforms[i])]
    OBVIOUS
  <1>3. ts \in Seq(TransformSpec)
    <2>1. \A i \in DOMAIN f.transforms : f.transforms[i] \in TransformModel
      BY <1>1
    <2>2. \A i \in DOMAIN f.transforms : ts[i] \in TransformSpec
      BY <1>2, <2>1, TransformTyped
    <2>3. ts = [i \in DOMAIN f.transforms |-> ts[i]]
      BY <1>2
    <2>4. QED
      BY <1>1, <2>2, <2>3, MappedSeq
  <1>4. ToProtoFieldSpec(f) = [f EXCEPT !.transforms = ts]
    BY <1>2 DEF ToProtoFieldSpec, Mapped
  <1>5. QED
    BY <1>1, <1>3, <1>4 DEF FieldModel, FieldSpec, Opt

\* A list of fields.
LEMMA FieldsTyped ==
  ASSUME NEW fs \in Seq(FieldModel)
  PROVE  Mapped(ToProtoFieldSpec, fs) \in Seq(FieldSpec)
  <1>1. PICK ms : ms = [i \in DOMAIN fs |-> ToProtoFieldSpec(fs[i])]
    OBVIOUS
  <1>2. \A i \in DOMAIN fs : fs[i] \in FieldModel
    OBVIOUS
  <1>3. \A i \in DOMAIN fs : ms[i] \in FieldSpec
    BY <1>1, <1>2, FieldTyped
  <1>4. ms = [i \in DOMAIN fs |-> ms[i]]
    BY <1>1
  <1>5. ms \in Seq(FieldSpec)
    BY <1>3, <1>4, MappedSeq
  <1>6. QED
    BY <1>1, <1>5 DEF Mapped

\* The items of a list page.
LEMMA ItemsTyped ==
  ASSUME NEW s \in Opt(ItemsModel)
  PROVE  ToProtoItemsSpec(s) \in Opt(ItemsSpec)
  <1>1. CASE s = Nil
    BY <1>1 DEF ToProtoItemsSpec, Opt
  <1>2. CASE s # Nil
    <2>1. s \in ItemsModel
      BY <1>2 DEF Opt
    <2>2. PICK ms \in Seq(FieldSpec) : ms = Mapped(ToProtoFieldSpec, s.fields)
      BY <2>1, FieldsTyped DEF ItemsModel
    <2>3. ToProtoItemsSpec(s) = [s EXCEPT !.fields = ms]
      BY <1>2, <2>2 DEF ToProtoItemsSpec
    <2>4. QED
      BY <2>1, <2>3 DEF ItemsModel, ItemsSpec, Opt
  <1>3. QED
    BY <1>1, <1>2

\* The extraction spec.
LEMMA ExtractionTyped ==
  ASSUME NEW s \in ExtractionModel
  PROVE  ToProtoExtractionSpec(s) \in ExtractionSpec
  <1>1. s.fields \in Seq(FieldModel) /\ s.pagination \in Seq(PaginationSpec) /\ s.items \in Opt(ItemsModel)
    BY DEF ExtractionModel
  <1>2. PICK fs \in Seq(FieldSpec) : fs = Mapped(ToProtoFieldSpec, s.fields)
    BY <1>1, FieldsTyped
  <1>3. PICK is \in Opt(ItemsSpec) : is = ToProtoItemsSpec(s.items)
    BY <1>1, ItemsTyped
  <1>4. ToProtoExtractionSpec(s) = [fields |-> fs, pagination |-> s.pagination, items |-> is]
    BY <1>2, <1>3 DEF ToProtoExtractionSpec
  <1>5. QED
    BY <1>1, <1>4 DEF ExtractionSpec

\* A column that may be null.
LEMMA NullType ==
  ASSUME NEW s \in String
  PROVE  Null(s) \in Opt(String)
  BY Zenon DEF Null, Opt

\* The configuration.
LEMMA ConfigTyped ==
  ASSUME NEW c \in ConfigModel
  PROVE  ToProtoCrawlJobConfig(c) \in CrawlJobConfig
  <1>1. c \in ConfigWith(ScopeRules, RetryPolicy)
    BY DEF ConfigModel
  <1>2. c # Nil
    BY NilAssumption
  <1>3. DOMAIN c \ {"queueWeights"} = MessageFields
    <2>1. DOMAIN c = ConfigFields
      BY <1>1 DEF ConfigWith, ConfigFields
    <2>2. QED
      BY <2>1 DEF ConfigFields, MessageFields
  <1>4. PICK u \in Opt(String) : u = Null(c.userId)
    <2>1. c.userId \in String
      BY <1>1 DEF ConfigWith
    <2>2. QED
      BY <2>1, NullType
  <1>5. PICK e \in ExtractionSpec : e = ToProtoExtractionSpec(c.extractionSpec)
    BY <1>1, ExtractionTyped DEF ConfigWith
  <1>6. PICK t \in JobType : t = ToProtoJobType(c.jobType)
    BY DEF ToProtoJobType, JobType
  <1>7. PICK d \in CrawlMode : d = ToProtoCrawlMode(c.crawlMode)
    BY DEF ToProtoCrawlMode, CrawlMode
  <1>8. PICK m : m = [k \in MessageFields |->
               CASE k = "userId" -> u [] k = "extractionSpec" -> e [] k = "jobType" -> t [] k = "crawlMode" -> d
                 [] OTHER -> c[k]]
    OBVIOUS
  <1>9. ToProtoCrawlJobConfig(c) = m
    BY <1>2, <1>3, <1>4, <1>5, <1>6, <1>7, <1>8, Zenon DEF ToProtoCrawlJobConfig
  <1>10. /\ m = [k \in MessageFields |-> m[k]] /\ m.userId = u /\ m.extractionSpec = e /\ m.jobType = t /\ m.crawlMode = d
         /\ m.id = c.id /\ m.name = c.name /\ m.scopes = c.scopes /\ m.seeds = c.seeds /\ m.rateLimit = c.rateLimit
         /\ m.retries = c.retries /\ m.auth = c.auth /\ m.schedule = c.schedule
         /\ m.respectRobotsTxt = c.respectRobotsTxt
    BY <1>8 DEF MessageFields
  <1>11. /\ c.id \in String /\ c.name \in String /\ c.scopes \in ScopeRules /\ c.seeds \in Seq(Seed)
         /\ c.rateLimit \in RateLimitPolicy /\ c.retries \in RetryPolicy /\ c.auth \in AuthOptions
         /\ c.schedule \in ScheduleOptions /\ c.respectRobotsTxt \in BOOLEAN
    BY <1>1 DEF ConfigWith
  <1>12. /\ m.id \in String /\ m.name \in String /\ m.scopes \in Opt(ScopeRules) /\ m.seeds \in Seq(Seed)
         /\ m.rateLimit \in Opt(RateLimitPolicy) /\ m.retries \in Opt(RetryPolicy) /\ m.auth \in Opt(AuthOptions)
         /\ m.schedule \in Opt(ScheduleOptions) /\ m.respectRobotsTxt \in BOOLEAN
         /\ m.userId \in Opt(String) /\ m.extractionSpec \in Opt(ExtractionSpec) /\ m.jobType \in JobType
         /\ m.crawlMode \in CrawlMode
    BY <1>10, <1>11, Zenon DEF Opt
  <1>13. m \in CrawlJobConfig
    BY <1>10, <1>12 DEF CrawlJobConfig, MessageFields
  <1>14. QED
    BY <1>9, <1>13

\* A job read back from all its columns is the job that was saved.
LEMMA RestoredJob ==
  ASSUME NEW r \in JobModel
  PROVE  RestoreCrawlJobFromSnapshot(r) = r
  <1>1. NotNull(r.jobConfigId) = r.jobConfigId /\ NotNull(r.userId) = r.userId /\ r.exportStatus # Nil
    <2>1. r.jobConfigId \in String /\ r.userId \in String /\ r.exportStatus \in String
      BY DEF JobModel
    <2>2. r.jobConfigId # Nil /\ r.userId # Nil /\ r.exportStatus # Nil
      BY <2>1, NilAssumption
    <2>3. QED
      BY <2>2, Zenon DEF NotNull
  <1>2. (IF r.exportStatus = Nil THEN "NOT_STARTED" ELSE r.exportStatus) = r.exportStatus
    BY <1>1, Zenon
  <1>3. RestoreCrawlJobFromSnapshot(r)
          = [r EXCEPT !.jobConfigId = r.jobConfigId, !.userId = r.userId, !.exportStatus = r.exportStatus]
    BY <1>1, <1>2, Zenon DEF RestoreCrawlJobFromSnapshot
  <1>4. QED
    BY <1>3 DEF JobModel

\* The job, with its configuration or without.
LEMMA JobTyped ==
  ASSUME NEW r \in JobModel, NEW c \in Opt(ConfigModel)
  PROVE  ToProtoCrawlJob(r, c) \in CrawlJob
  <1>1. PICK m : m = ToProtoCrawlJobConfig(c)
    OBVIOUS
  <1>2. m \in Opt(CrawlJobConfig)
    <2>1. CASE c = Nil
      BY <1>1, <2>1 DEF ToProtoCrawlJobConfig, Opt
    <2>2. CASE c # Nil
      BY <1>1, <2>2, ConfigTyped DEF Opt
    <2>3. QED
      BY <2>1, <2>2
  <1>3. PICK u \in Opt(String) : u = Null(r.userId)
    <2>1. r.userId \in String
      BY DEF JobModel
    <2>2. QED
      BY <2>1, NullType
  <1>4. ToProtoCrawlJob(r, c) =
          [id |-> r.id, jobConfigId |-> r.jobConfigId, jobConfig |-> m,
           userId |-> u, name |-> r.name, status |-> r.status,
           createdAt |-> r.createdAt, completedAt |-> r.completedAt,
           exportJsonKey |-> r.exportJSONKey, exportCsvKey |-> r.exportCSVKey,
           exportedAt |-> r.exportedAt, exportStatus |-> r.exportStatus]
    BY <1>1, <1>3, Zenon DEF ToProtoCrawlJob
  <1>5. QED
    BY <1>2, <1>4 DEF JobModel, CrawlJob, Opt

-----------------------------------------------------------------------------
(* ConfigSurvives.                                                          *)

\* What a reader finds for a row that can be read.
LEMMA RowRead ==
  ASSUME NEW key, NEW j \in JobIds, NEW r, r = jobs[j], RowSound(j, r), Resolve(key) = 0, Readable(r.config)
  PROVE  /\ r.config \in ConfigModel /\ RestoreCrawlJobConfigFromSnapshot(r.config) = r.config
         /\ RestoreCrawlJobFromSnapshot(r.job) = r.job
         /\ GetJobHandler(key, j) = [job |-> ToProtoCrawlJob(r.job, r.config)]
         /\ GetJobHandler(key, j) \in GetJobResponse /\ GetJobHandler(key, j) # Nil
  <1>1. r \in StoredJob /\ r.shard = 0 /\ Stored(r.config, j, ConfigOf[r.sent])
    BY DEF RowSound
  <1>2. PICK c \in ConfigRow, b \in JobModel, p \in CrawlJobConfig : c = r.config /\ b = r.job /\ p = ConfigOf[r.sent]
    BY <1>1, ApiAssumption DEF StoredJob
  <1>3. Stored(c, j, p) /\ Readable(c) /\ j \in String
    BY <1>1, <1>2, StoreAssumption
  <1>4. RestoreCrawlJobConfigFromSnapshot(c) = c
    BY <1>3, RestoredAsStored
  <1>5. c \in ConfigModel
    <2>1. c.scopes.maxDepth \in Uint /\ c.retries.maxAttempts \in Uint /\ c.retries.backoffInitialMs \in Uint
      BY <1>3 DEF Readable
    <2>2. c.scopes \in ScopeRules /\ c.retries \in RetryPolicy
      BY <1>2, <2>1 DEF ConfigRow, ConfigWith, ScopeRules, RetryPolicy
    <2>3. c.queueWeights \in Seq(QueueWeight)
      BY <1>2 DEF ConfigRow, ConfigWith
    <2>4. QED
      BY <1>3, <2>2, <2>3, StoredType DEF ConfigModel
  <1>6. RestoreCrawlJobFromSnapshot(b) = b
    BY RestoredJob
  <1>7. j \in On(Resolve(key))
    BY <1>1, RowsArePresent DEF On, Present
  <1>8. PICK row : row = [job |-> b, config |-> c]
    OBVIOUS
  <1>9. row # Nil /\ row.job = b /\ row.config = c
    BY <1>5, <1>8, NilAssumption
  <1>10. GetJob(key, j) = row
    BY <1>2, <1>3, <1>4, <1>6, <1>7, <1>8 DEF GetJob, ScanJob
  <1>11. PICK m \in CrawlJob : m = ToProtoCrawlJob(b, c)
    BY <1>5, JobTyped DEF Opt
  <1>12. GetJobHandler(key, j) = [job |-> m]
    BY <1>9, <1>10, <1>11 DEF GetJobHandler
  <1>13. [job |-> m] \in GetJobResponse
    BY <1>11 DEF GetJobResponse, Opt
  <1>14. QED
    BY <1>2, <1>4, <1>5, <1>6, <1>11, <1>12, <1>13, NilAssumption

\* Sound tables answer every configuration as it was sent.
LEMMA StoredSurvives == StoreSound => ConfigSurvives
  <1> SUFFICES ASSUME StoreSound, NEW j \in Present,
                      NEW sent, sent = AsSent(j, ConfigOf[jobs[j].sent]),
                      \A n \in {sent.scopes.maxDepth, sent.retries.maxAttempts, sent.retries.backoffInitialMs} :
                        n <= 2 ^ FloatBits
               PROVE  GetJobHandler(Nil, j) # Nil /\ GetJobHandler(Nil, j).job.jobConfig = sent
    BY DEF ConfigSurvives
  <1>1. PICK r : r = jobs[j] /\ RowSound(j, r) /\ j \in JobIds
    BY DEF StoreSound, Present
  <1>2. r \in StoredJob /\ Stored(r.config, j, ConfigOf[r.sent])
    BY <1>1 DEF RowSound
  <1>3. PICK c \in ConfigRow, b \in JobModel, p \in CrawlJobConfig : c = r.config /\ b = r.job /\ p = ConfigOf[r.sent]
    BY <1>2, ApiAssumption DEF StoredJob
  <1>4. sent = AsSent(j, p)
    BY <1>1, <1>3
  <1>5. SmallNumbers(p)
    <2>1. sent.scopes = [FromProtoScopeRules(p.scopes) EXCEPT !.allowedUrlPatterns = Normalized(@)]
          /\ sent.retries = FromProtoRetryPolicy(p.retries)
      BY <1>4, SentFields
    <2>2. PICK sc \in ScopeRules : sc = FromProtoScopeRules(p.scopes)
      BY PartsModelled
    <2>3. sent.scopes.maxDepth = sc.maxDepth
      BY <2>1, <2>2 DEF ScopeRules
    <2>4. QED
      BY <2>1, <2>2, <2>3, Zenon DEF SmallNumbers
  <1>6. /\ Readable(c) /\ ToProtoCrawlJobConfig(c) = sent
    <2>1. Stored(c, j, p) /\ j \in String /\ c.queueWeights \in Seq(QueueWeight)
      BY <1>1, <1>2, <1>3, StoreAssumption DEF ConfigRow, ConfigWith
    <2>2. QED
      BY <1>4, <1>5, <2>1, RoundTrip
  <1>7. Resolve(Nil) = 0
    BY DEF Resolve
  <1>8. GetJobHandler(Nil, j) = [job |-> ToProtoCrawlJob(b, c)] /\ GetJobHandler(Nil, j) # Nil
    BY <1>1, <1>3, <1>6, <1>7, RowRead
  <1>9. ToProtoCrawlJob(b, c).jobConfig = sent
    BY <1>6 DEF ToProtoCrawlJob
  <1>10. QED
    BY <1>8, <1>9

\* CreateJob, GetJob and the converters between them: ConfigSurvives holds
\* for every configuration a client can send and every later step.
THEOREM ConfigsSurvive == ApiSpec => []ConfigSurvives
  <1>1. ApiInit => StoreSound
    BY StoreInit
  <1>2. StoreSound /\ [ApiNext]_apiVars => StoreSound'
    BY StoreKept
  <1>3. StoreSound => ConfigSurvives
    BY StoredSurvives
  <1>4. QED
    BY <1>1, <1>2, <1>3, PTL DEF ApiSpec

=============================================================================
