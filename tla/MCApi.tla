------------------------------- MODULE MCApi -------------------------------
(* Instances of JobApi, with the reports of JobReport, for TLC. *)
EXTENDS JobReport

Strings == <<"", " ", " HREF ", " p ", "/a", "/b", "/link", "/p", "1", "1.0", "7", "COMPLETED",
             "Completed", "FAILED", "Fetched", "HREF", "InProgress", "NOT_STARTED", "P", "Parsed", "a", "a1", "a2",
             "a3", "b", "b1", "b2", "b3", "bool", "c", "c1", "c2", "c3", "csv", "e@x", "float", "href",
             "html", "int", "json", "limit", "list", "news", "p", "page", "pages", "parse_price", "pass",
             "passw0rd", "pv1", "pv2", "result", "shop", "string", "text/html", "to_float", "to_int",
             "trim", "u1", "unique", "upper", "url">>

Trim1 == [s \in String |-> CASE s = " " -> "" [] s = " p " -> "p" [] s = " HREF " -> "HREF" [] OTHER -> s]

\* Of these strings three are JSON, and two of them are the same number.
Json1 == [s \in String |-> CASE s \in {"1", "1.0"} -> "1" [] s = "7" -> "7" [] OTHER -> Nil]

Lengths == [s \in String |-> CASE s = "" -> 0 [] s = "passw0rd" -> 8 [] OTHER -> 1]

TaskNames == [j \in JobIds |-> CASE j = "a" -> <<"a1", "a2", "a3">> [] j = "b" -> <<"b1", "b2", "b3">>
                                 [] OTHER -> <<"c1", "c2", "c3">>]

\* Of two shards, c belongs to the second.
Fnv == [j \in JobIds |-> CASE j = "a" -> 2 [] j = "b" -> 4 [] OTHER -> 7]

Plain(name) ==
  [id |-> "", userId |-> Nil, name |-> name, extractionSpec |-> Nil, scopes |-> Nil,
   seeds |-> <<[url |-> "/b"], [url |-> "/a"]>>, rateLimit |-> Nil, retries |-> Nil, auth |-> Nil,
   schedule |-> Nil, respectRobotsTxt |-> FALSE, jobType |-> "UNSPECIFIED", crawlMode |-> "UNSPECIFIED"]

Extractor(selector, attribute, multiple, index) ==
  [selector |-> selector, attribute |-> attribute, multiple |-> multiple, index |-> index]

Field(name, type, extractor, transforms) ==
  [name |-> name, type |-> type, required |-> name = "a", extractor |-> extractor, transforms |-> transforms]

Op(name) == [op |-> name, arg |-> ""]

\* A field without extractor, a list that is cut, one of several values, and
\* items that have not all of their fields.
Shop ==
  [fields |-> <<Field("c", "string", Nil, <<Op("trim")>>),
                Field("a", "json", Extractor("p", "", TRUE, Nil),
                      <<[op |-> "unique", arg |-> "p"], [op |-> "limit", arg |-> "1.0"], Op("to_int")>>),
                Field("b", "int", Extractor("p", "", TRUE, -1), <<Op("to_int")>>)>>,
   pagination |-> <<[name |-> "p", selector |-> "p", attribute |-> "p", multiple |-> FALSE]>>,
   items |-> [containerSelector |-> "list",
              fields |-> <<Field("a", "float", Extractor("p", "html", FALSE, Nil), <<Op("to_float")>>),
                           Field("b", "url", Extractor("a", " HREF ", FALSE, Nil), <<>>)>>]]

\* Two fields of one name, a number that is too great, types that some
\* values cannot be converted to.
Prices ==
  [fields |-> <<Field("a", "bool", Extractor("p", "", TRUE, 1), <<>>),
                Field("b", "string", Extractor("p", "", TRUE, 9), <<>>),
                Field("b", "string", Extractor("p", "", TRUE, 1), <<Op("to_int")>>),
                Field("p", "int", Extractor("a", "", FALSE, Nil), <<Op("parse_price")>>)>>,
   pagination |-> <<>>,
   items |-> [containerSelector |-> "list",
              fields |-> <<Field("c", "string", Extractor("a", "", FALSE, Nil), <<Op("upper")>>),
                           Field("a", "int", Extractor("a", "", FALSE, Nil), <<>>),
                           Field("b", "float", Extractor("p", "", TRUE, 0), <<Op("to_int"), Op("limit")>>),
                           Field("p", "bool", Extractor("p", "", FALSE, Nil), <<>>)>>]]

Full(depth, spec) ==
  [Plain("shop") EXCEPT
     !.extractionSpec = spec,
     !.scopes = [maxDepth |-> depth, allowedDomains |-> <<"a">>, denyUrlPatterns |-> <<" p ">>,
                 allowedUrlPatterns |-> <<" ", " p ", "">>],
     !.seeds = <<[url |-> "/a"]>>,
     !.rateLimit = [rps |-> 2],
     !.retries = [maxAttempts |-> 3, backoffInitialMs |-> 4, backoffMultiplier |-> 2],
     !.auth = [cookie |-> "p", basicUser |-> "a", basicPassword |-> "b", bearerToken |-> "c"],
     !.schedule = [cron |-> "p"],
     !.respectRobotsTxt = TRUE, !.jobType = "SCHEDULED", !.crawlMode = "LINKS_ONLY"]

\* Among the seeds are the link that a page has and one that is named twice.
Configs == [s \in Submissions |->
              CASE s = "news" -> Plain("news") [] s = "full" -> Full(4, Shop)
                [] s = "shop" -> [Plain("shop") EXCEPT !.seeds = <<[url |-> "/link"], [url |-> "/a"]>>]
                [] s = "deep" -> Full(5, Prices) [] s = "deepest" -> Full(7, Shop)
                [] s = "wrap" -> [Plain("shop") EXCEPT !.crawlMode = "PAGINATION_ONLY",
                                                      !.extractionSpec = [Shop EXCEPT !.items.containerSelector = ""],
                                                      !.seeds = <<[url |-> "/a"], [url |-> "/a"]>>]
                [] OTHER -> [Plain("news") EXCEPT !.seeds = <<>>]]

\* The pages: /a has four paragraphs and a list of three things, the last
\* of which is empty, /link an empty paragraph, the others have nothing.
Element(text) == [text |-> text, html |-> text, attrs |-> <<>>, below |-> <<>>]
Anchor(text, href) == [Element(text) EXCEPT !.attrs = [href |-> href]]
Containing(below) == [Element("") EXCEPT !.below = below]

Site == [u \in String |->
           CASE u = "/a" -> Containing(
                              [p |-> <<Element(" p "), Element("1"), Element("p"), Element("1")>>,
                               a |-> <<Anchor("7", "/p")>>,
                               list |-> <<Containing([p |-> <<Element("1")>>, a |-> <<Anchor("p", "p")>>]),
                                          Containing([a |-> <<Anchor("1", "p"), Anchor("p", "p")>>]),
                                          Containing([p |-> <<Element(" ")>>])>>])
             [] u = "/link" -> Containing([p |-> <<Element(" ")>>])
             [] OTHER -> Element("")]

Lower == [s \in String |-> CASE s = "HREF" -> "href" [] s = "P" -> "p" [] OTHER -> s]
Upper == [s \in String |-> CASE s = "p" -> "P" [] s = "href" -> "HREF" [] OTHER -> s]
Texts == [op \in {"trim", "lower", "upper", "collapse_ws", "html_to_text", "normalize_url", "sha256"} |->
            CASE op \in {"trim", "collapse_ws"} -> Trim1 [] op = "lower" -> Lower [] op = "upper" -> Upper
              [] op = "sha256" -> [s \in String |-> "page"] [] OTHER -> [s \in String |-> s]]
Integers1 == [s \in String |-> CASE s = "1" -> 1 [] s = "7" -> 7 [] OTHER -> Nil]
Numbers == [op \in {"to_int", "to_float", "parse_price"} |->
              IF op = "to_int" THEN Integers1 ELSE [Integers1 EXCEPT !["1.0"] = 1]]
Bools == [s \in String |-> IF s = "1" THEN TRUE ELSE Nil]
Absolute == [base \in String |-> [s \in String |-> IF s = "p" THEN "/p" ELSE s]]
Limits == [s \in Opt(String) |-> CASE s = "1" -> 1 [] s = "7" -> 7 [] OTHER -> -1]
Decimals == [n \in 0 .. MaxUint + 1 |-> ToString(n)]
Bytewise == Rank

Weights == [s \in Submissions |->
              CASE s = "full" -> <<[queue |-> "east", weight |-> 0], [queue |-> "west", weight |-> 3]>>
                [] s = "deep" -> <<[queue |-> "east", weight |-> 2], [queue |-> "north", weight |-> 1]>>
                [] s = "wrap" -> <<[queue |-> "east", weight |-> 3], [queue |-> "west", weight |-> 5]>>
                [] s = "shop" -> <<[queue |-> "east", weight |-> 0]>>
                [] OTHER -> <<>>]

List(field, order, limit, filter) ==
  [cursor |-> Nil, limit |-> limit, filter |-> filter, sortField |-> field, sortOrder |-> order]

TaskList(field, order, limit, filter) == [jobId |-> ""] @@ List(field, order, limit, filter)

Early == [name |-> Nil, status |-> Nil, createdFrom |-> 0, createdTo |-> 0, userEmail |-> Nil]
Running == [name |-> "news", status |-> "InProgress", createdFrom |-> Nil, createdTo |-> Nil, userEmail |-> "e@x"]
Backwards == [name |-> "news", status |-> "", createdFrom |-> 1, createdTo |-> 0, userEmail |-> Nil]
Shallow == [status |-> Nil, url |-> Nil, minDepth |-> 0, maxDepth |-> 0, enqueuedFrom |-> 0, enqueuedTo |-> Nil]
Unknown == [status |-> "page", url |-> Nil, minDepth |-> 0, maxDepth |-> 0, enqueuedFrom |-> 0, enqueuedTo |-> Nil]

-----------------------------------------------------------------------------
(* Calls of every method, through both doors, by every caller, with        *)
(* messages that obey their rules and messages that do not.                *)

Bodies(method) ==
  CASE method = "ListJobs" -> {AllJobs(1)}
    [] method = "ListTasksByJob" -> {AllTasks("a", 1)}
    [] method \in {"GetJobExportFileURL"} -> {[jobId |-> "a", fileType |-> "csv"], [jobId |-> "a", fileType |-> "p"]}
    [] method \in {"GetTaskFileURL"} -> {[taskId |-> "a1", fileType |-> "pages"], [taskId |-> "", fileType |-> "result"]}
    [] method = "GetTaskAnalytics" -> {[jobId |-> "a"], [jobId |-> ""]}
    [] method \in {"GetJob", "GetTask", "GetPreview"} -> {[id |-> "a"], [id |-> ""]}
    [] method = "Register" -> {[email |-> "e@x", password |-> "passw0rd"], [email |-> "e@x", password |-> "pass"]}
    [] method = "Login" -> {[email |-> "e@x", password |-> "pass"], [email |-> "p", password |-> "pass"]}
    [] method \in {"Refresh", "Logout"} -> {[refreshToken |-> "p"], [refreshToken |-> ""]}
    [] method = "UpdateUserRole" -> {[id |-> "u1", role |-> "READ"]}
    [] method \in {"DrainWorker", "ForceKillWorker"} -> {[workerId |-> "a", reason |-> ""]}
    [] OTHER -> {[nothing |-> Nil]}

\* The path names b wherever the route has a parameter; the body may name another.
Paths(method) == IF {"id", "jobId", "taskId", "workerId"} \cap DOMAIN (CHOOSE b \in Bodies(method) : TRUE) = {}
                 THEN {""} ELSE {"b"}

Calls == UNION {
  {[door |-> "grpc", method |-> m, caller |-> c, http |-> [body |-> b, path |-> "", query |-> b]] :
     c \in Callers, b \in Bodies(m)} \cup
  {[door |-> "rest", method |-> m, caller |-> c, http |-> [body |-> b, path |-> p, query |-> b]] :
     c \in Callers, b \in Bodies(m), p \in Paths(m)} : m \in Methods \ {"CreateJob", "DeleteJob", "CreatePreview"}}
  \cup {[door |-> "rest", method |-> "CrawlQueues", caller |-> c, http |-> [body |-> Nil, path |-> "", query |-> Nil]] :
          c \in Callers}

-----------------------------------------------------------------------------
Bounds == [submissions |-> {}, create |-> 0, delete |-> 0, find |-> 0, finish |-> 0, export |-> 0, tick |-> 0,
           pages |-> 0, count |-> 0, preview |-> 0, calls |-> 0, jobLists |-> {}, taskLists |-> {},
           deploy |-> [queues |-> <<"crawl">>, shards |-> 1]]

\* Passes over three jobs while one is deleted and one is new: in the order
\* of their creation, where two are as old as each other, of their names,
\* where two have the same, and of their states, which change.
ByTime == [Bounds EXCEPT !.submissions = {"news", "shop"}, !.create = 3, !.delete = 1, !.tick = 1, !.pages = 4,
             !.jobLists = {List("UNSPECIFIED", "UNSPECIFIED", 1, Nil), List("CREATED_AT", "ASC", 0, Nil),
                           List("CREATED_AT", "DESC", 1, Early), List("UNSPECIFIED", "ASC", 9, Backwards),
                           List("UNSPECIFIED", "ASC", -1, Nil)}]
ByName == [Bounds EXCEPT !.submissions = {"news", "shop"}, !.create = 3, !.delete = 1, !.finish = 1, !.pages = 3,
             !.jobLists = {List("NAME", "UNSPECIFIED", 1, Nil), List("NAME", "DESC", 0, Nil)}]
ByState == [Bounds EXCEPT !.submissions = {"news", "shop"}, !.create = 3, !.finish = 2, !.export = 1, !.pages = 4,
              !.jobLists = {List("STATUS", "ASC", 1, Nil), List("STATUS", "DESC", 1, Nil),
                            List("NAME", "ASC", 1, Running)}]

\* Passes over the tasks of a job beside the workers, with a deletion.
TaskLists == [Bounds EXCEPT !.submissions = {"news", "wrap"}, !.create = 1, !.delete = 1, !.find = 1, !.finish = 1,
                !.tick = 1, !.pages = 3,
                !.taskLists = {TaskList("URL", "UNSPECIFIED", 1, Nil), TaskList("UNSPECIFIED", "DESC", 1, Nil),
                               TaskList("STATUS", "ASC", 0, Nil), TaskList("DEPTH", "ASC", 1, Nil),
                               TaskList("ENQUEUED_AT", "ASC", 1, Shallow), TaskList("URL", "DESC", 9, Unknown),
                               TaskList("URL", "ASC", -1, Nil)}]

\* The number of a job's tasks, beside those of another job.
Counting == [Bounds EXCEPT !.submissions = {"news", "wrap", "shop"}, !.create = 2, !.delete = 1, !.find = 2, !.finish = 1, !.count = 1,
               !.pages = 1, !.jobLists = {List("UNSPECIFIED", "ASC", -1, Nil)}]

\* All configurations in two regions, through their whole life.
Regions == [Bounds EXCEPT !.submissions = Submissions, !.create = 1, !.delete = 1, !.find = 1, !.finish = 1,
              !.export = 1, !.tick = 1, !.pages = 1,
              !.jobLists = {List("CREATED_AT", "ASC", 0, Nil)}, !.taskLists = {TaskList("URL", "ASC", 0, Nil)},
              !.deploy = [queues |-> <<"east", "west">>, shards |-> 1]]

\* The same beside another job; one of them may be unreadable.
Neighbours == [Regions EXCEPT !.submissions = {"full", "deepest"}, !.create = 2, !.tick = 0]

\* Previews and all the other calls.
Others == [Bounds EXCEPT !.preview = 2, !.tick = 1, !.calls = 1]

\* Two shards: no job can be stored, but the rest is served.
TwoShards == [Others EXCEPT !.submissions = {"news"}, !.create = 1, !.pages = 1, !.deploy.shards = 2,
                !.jobLists = {List("CREATED_AT", "ASC", 0, Nil)}]

\* One queue: weights do not count.
OneQueue == [Bounds EXCEPT !.submissions = {"full", "shop"}, !.create = 1, !.find = 1]

AllWorkloads == {ByTime, ByName, ByState, TaskLists, Counting, Regions, Neighbours, OneQueue, Others, TwoShards}
=============================================================================
