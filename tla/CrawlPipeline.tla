--------------------------- MODULE CrawlPipeline ---------------------------
(***************************************************************************)
(* The life of one crawl job: every process of the system that touches the *)
(* job, interleaved.                                                       *)
(***************************************************************************)
EXTENDS JobService, OutboxPublisher, FetchWorker, ParserWorker, ExportWorker

\* Everything that happens to a job that its owner keeps.
Work ==
  \/ CreateCrawlJob
  \/ OutboxFetch
  \/ \E t \in Tasks : OutboxPublish(t)
  \/ OutboxCommit
  \/ OutboxAbort
  \/ \E t \in Tasks : RecoverStale(t)
  \/ \E w \in Fetchers, t \in Tasks : FetchStart(w, t)
  \/ \E w \in Fetchers : FetchStep(w)
  \/ \E w \in Fetchers : FetchNack(w)
  \/ \E p \in Parsers, t \in Tasks : ParseStart(p, t)
  \/ \E p \in Parsers : ParseStep(p)
  \/ \E p \in Parsers : ParseNack(p)
  \/ ExportStep
  \/ ExportFail
  \/ ExportAbort

Next == Work \/ DeleteCrawlJob

Spec == Init /\ [][Next]_vars

-----------------------------------------------------------------------------
(* Safety.                                                                  *)

\* What a row of t names is in the object store.
Backed(t, row) ==
  /\ row.key => t \in pages
  /\ row.result # "none" => t \in results

\* The database never points into the void: the page and the result a row names
\* are in the object store, a Parsed row names both and a Failed one no result,
\* whatever copies of the row were written in whatever order.
StoredBeforeReferenced ==
  \A t \in Tasks :
    /\ Backed(t, tasks[t])
    /\ tasks[t].status = "Parsed" => tasks[t].key /\ tasks[t].result # "none"
    /\ tasks[t].status = "Failed" => tasks[t].result = "none"

\* A fetch handler that still has to publish the parsing message of t.
FetchOwes(w, t) == fw[w].task = t /\ fw[w].pc \in {"loaded", "stored", "saved"}

\* A parser handler that still has to write the row of t.
ParseOwes(p, t) == pw[p].task = t /\ pw[p].pc \in {"loaded", "stamped"}

\* Some message for t is queued, or a handler that has not settled t holds one.
Covered(t) ==
  \/ crawlQ[t] > 0
  \/ parseQ[t] > 0
  \/ \E w \in Fetchers : FetchOwes(w, t)
  \/ \E p \in Parsers : ParseOwes(p, t)

\* A Fetched task is never forgotten: its message is queued or in good hands,
\* whatever crashed.  Recovery could not help it, as ListStaleInProgress only
\* looks for InProgress tasks.
FetchedIsCovered ==
  \A t \in Tasks : tasks[t].status = "Fetched" => Covered(t)

\* A page that counts as Parsed has contributed its links: every in-scope link
\* within the depth limit has a row, whichever step crashed or was repeated.
FrontierClosed ==
  \A t \in Tasks :
    tasks[t].status = "Parsed" =>
      \A c \in PreparedLinks(t, tasks[t].depth) : Exists(c)

\* What makes StoredBeforeReferenced inductive: the same holds of the copies of
\* rows that handlers will write back, at the moment they will.
CopiesAreSound ==
  /\ \A w \in Fetchers :
       /\ Backed(fw[w].task, fw[w].row)
       /\ fw[w].pc = "stored" => fw[w].task \in pages
  /\ \A p \in Parsers :
       /\ Backed(pw[p].task, pw[p].row)
       /\ pw[p].pc = "stamped" => /\ pw[p].row.status = "Parsed"
                                 /\ pw[p].row.key
                                 /\ pw[p].row.result # "none"

\* A copy of t's row has the depth that the table has, or the job is gone.
Current(t, row) ==
  job.state = "deleted" \/ (Exists(t) /\ row.depth = tasks[t].depth)

\* What makes FrontierClosed inductive: a handler inserts the links its copy of
\* the row asks for, and the copy agrees with the table on the depth.  A row is
\* only ever removed with its job, and is not inserted again.
DepthsAgree ==
  /\ \A t \in Tasks : Exists(t) => job.state = "active"
  /\ \A w \in Fetchers :
       fw[w].pc \in {"loaded", "stored"} => Current(fw[w].task, fw[w].row)
  /\ \A p \in Parsers :
       pw[p].pc \in {"loaded", "stamped"} => Current(pw[p].task, pw[p].row)

\* A parsing message whose row names no page is requeued for ever.  That happens
\* when a handler with an old copy of the row writes over the key, and then the row
\* is Failed: the message holds up no task that is still to be settled.
PagelessIsFailed ==
  \A t \in Tasks : parseQ[t] > 0 /\ Exists(t) => tasks[t].key \/ tasks[t].status = "Failed"

\* Conditions under which no step of any worker is under way.
Quiet ==
  /\ \A t \in Tasks : crawlQ[t] = 0 /\ parseQ[t] = 0 /\ outbox[t] # "pending"
  /\ \A w \in Fetchers : fw[w].pc = "idle"
  /\ \A p \in Parsers : pw[p].pc = "idle"
  /\ pub = IdlePublisher
  /\ ex = IdleExport

Settled(t) == tasks[t].status \in {"Absent", "Parsed", "Failed"}

\* Without duplicate messages (no crash, no failed call, no recovery) a job is
\* exported exactly once and at the right moment: from then on every task is
\* settled and both reports hold the result of every Parsed task.
ExportIsFinal ==
  faults = 0 /\ Slow = {} /\ job.exported /\ job.state = "active" =>
    /\ \A t \in Tasks : Settled(t)
    /\ report.json = {t \in Tasks : tasks[t].status = "Parsed"}
    /\ report.csv = report.json

\* ListEligibleForExport: a job is exported again when "task results were
\* updated after last export".  So when nothing is left to do, the report has
\* the result of every Parsed task.
NoResultLeftOut ==
  job.exported /\ job.state = "active" /\ Quiet /\ ~Eligible =>
    \A t \in Tasks : tasks[t].status = "Parsed" => t \in report.json

\* The parser's "Idempotency guard: skip if already parsed": a parser handler
\* never writes a row that is already Parsed.
ParsedIsSkipped ==
  [][\A p \in Parsers :
       pw[p].pc \in {"loaded", "stamped"} /\ pw'[p].pc = "done"
         => tasks[pw[p].task].status # "Parsed"]_vars

\* A task is a seed, or a link of another task that is one step closer to the
\* seeds, admitted by the scope and the depth limit.
Traced(t) ==
  \/ t \in Seeds \ DupSeeds /\ tasks[t].depth = 0
  \/ /\ InScope(t, tasks[t].depth)
     /\ \E s \in Tasks : Exists(s) /\ t \in Links[s] /\ tasks[t].depth = tasks[s].depth + 1

\* The crawl never leaves the job's reach: parsers compute the depth of new
\* tasks from copies of rows that may be old, and several of them may insert
\* the same link; still every row has a chain of links back to a seed, as long
\* as its depth says.
CrawlIsTraced == \A t \in Tasks : Exists(t) => Traced(t)

Life ==
  INSTANCE JobLife
    WITH Urls <- Tasks, Start <- Seeds \ DupSeeds, LinksOf <- Links, Refused <- Denied, Limit <- MaxDepth,
         state <- job.state, found <- {t \in Tasks : Exists(t)}, depth <- [t \in Tasks |-> tasks[t].depth],
         exporting <- ex.pc # "idle", exported <- job.exported, json <- report.json, csv <- report.csv

\* The pipeline implements JobLife: with repeated messages, stale copies of rows,
\* crashes between any two steps and an export beside the workers, the owner
\* sees a crawl that adds each page's links at once and an export of a list
\* that stands still.
OwnerSees == Life!LifeSpec

-----------------------------------------------------------------------------
(* Liveness.  Handlers and tickers run; the broker hands every queued      *)
(* message to some idle consumer sooner or later.                           *)

Fairness ==
  /\ WF_vars(OutboxFetch)
  /\ \A t \in Tasks : WF_vars(OutboxPublish(t))
  /\ WF_vars(OutboxCommit)
  /\ \A t \in Tasks : WF_vars(RecoverStale(t))
  /\ \A t \in Tasks : SF_vars(\E w \in Fetchers : FetchStart(w, t))
  /\ \A w \in Fetchers : WF_vars(FetchStep(w))
  /\ \A t \in Tasks : SF_vars(\E p \in Parsers : ParseStart(p, t))
  /\ \A p \in Parsers : WF_vars(ParseStep(p))
  /\ WF_vars(ExportStep)

\* Nobody has to delete the job.
FairSpec == Spec /\ Fairness

\* Every task of a job that is not deleted reaches Parsed or Failed, although
\* the parser forgets messages it cannot publish and crashes lose transactions.
TasksSettle == \A t \in Tasks \ NoHost : Exists(t) ~> Settled(t)

\* Every job is exported in the end, unless it is deleted.
JobExported == job.state = "active" ~> job.exported \/ job.state = "deleted"
=============================================================================
