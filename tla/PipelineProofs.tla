------------------------- MODULE PipelineProofs --------------------------
(***************************************************************************)
(* The safety invariants of CrawlPipeline hold for every value of the      *)
(* constants: any number of tasks, handlers, faults and repeated messages, *)
(* every link graph and every depth limit.                                 *)
(*                                                                         *)
(*   1  types: TypeOK, and what a handler holds while it is busy           *)
(*   2  the table names only what is stored, and a Fetched task is covered *)
(*   3  a page that counts as Parsed has contributed its links             *)
(*   6  every task hangs on a chain of links to a seed                     *)
(*   7  the owner sees what JobLife promises                               *)
(*                                                                         *)
(* Two more hold on a part of its behaviours:                              *)
(*                                                                         *)
(*   4  a parsing message always finds the key of its page, as long as one *)
(*      fetch handler runs (KeysKept)                                      *)
(*   5  a job is exported only when every task that will ever exist is     *)
(*      settled, as long as nothing was repeated or lost.  What makes that *)
(*      true is that every task then has one message, one handler or a     *)
(*      settled row, never two of them (OneMessageEach)                    *)
(***************************************************************************)
EXTENDS CrawlPipeline, TLAPS

-----------------------------------------------------------------------------
(* What the row operators return.                                           *)

\* The domain methods of CrawlTask map rows to rows.
LEMMA RowTypes ==
  /\ NoRow \in Row
  /\ \A d \in Nat : NewRow(d) \in Row
  /\ \A r \in Row : /\ MarkAsFetched(r) \in Row
                    /\ MarkAsParsed(r) \in Row
                    /\ MarkAsFailed(r) \in Row
                    /\ CopyOf(r) \in Row
                    /\ Aged(r) \in Row
  BY DEF Row, Statuses, NoRow, NewRow, MarkAsFetched, MarkAsParsed,
         MarkAsFailed, CopyOf, Aged

\* A full-row update and a bulk insert map tables to tables.
LEMMA TableTypes ==
  ASSUME TypeOK, NEW t \in Tasks, NEW r \in Row, NEW S, NEW d \in Nat
  PROVE  /\ Update(t, r) \in [Tasks -> Row]
         /\ BulkCreate(tasks, S, d) \in [Tasks -> Row]
         /\ BulkCreate(Update(t, r), S, d) \in [Tasks -> Row]
  <1>1. tasks \in [Tasks -> Row]
    BY DEF TypeOK
  <1>2. Update(t, r) \in [Tasks -> Row]
    BY <1>1 DEF Update
  <1>3. NewRow(d) \in Row
    BY RowTypes
  <1>4. ASSUME NEW table \in [Tasks -> Row]
        PROVE  BulkCreate(table, S, d) \in [Tasks -> Row]
    BY <1>3 DEF BulkCreate
  <1>5. QED
    BY <1>1, <1>2, <1>4

\* A message more or less leaves a queue a queue.
LEMMA QueueTypes ==
  ASSUME NEW q \in [Tasks -> Nat], NEW t \in Tasks
  PROVE  /\ Push(q, t) \in [Tasks -> Nat]
         /\ q[t] > 0 => Pop(q, t) \in [Tasks -> Nat]
  BY DEF Push, Pop

\* Replacing one handler's state by a well-formed one.
FetchersOK ==
  /\ fw \in [Fetchers -> FetcherState]
  /\ \A w \in Fetchers : fw[w].pc = "idle" <=> fw[w].task = NoTask

ParsersOK ==
  /\ pw \in [Parsers -> ParserState]
  /\ \A p \in Parsers : pw[p].pc = "idle" <=> pw[p].task = NoTask

\* A fetch handler's state is replaced by a well-formed one.
LEMMA FetcherSet ==
  ASSUME FetchersOK, NEW w \in Fetchers, NEW x \in FetcherState,
         x.pc = "idle" <=> x.task = NoTask,
         fw' = [fw EXCEPT ![w] = x]
  PROVE  FetchersOK'
  BY DEF FetchersOK

\* A parser handler's state is replaced by a well-formed one.
LEMMA ParserSet ==
  ASSUME ParsersOK, NEW p \in Parsers, NEW x \in ParserState,
         x.pc = "idle" <=> x.task = NoTask,
         pw' = [pw EXCEPT ![p] = x]
  PROVE  ParsersOK'
  BY DEF ParsersOK

\* A busy fetch handler has a task and a copy of its row.
LEMMA BusyFetcher ==
  ASSUME FetchersOK, NEW w \in Fetchers, fw[w].pc # "idle"
  PROVE  fw[w] \in FetcherState /\ fw[w].task \in Tasks /\ fw[w].row \in Row
  BY DEF FetchersOK, FetcherState

\* A busy fetch handler moves to another control point with its task.
LEMMA MoveFetcher ==
  ASSUME FetchersOK, NEW w \in Fetchers, fw[w].pc # "idle",
         NEW pc \in {"loaded", "stored", "saved", "done"}, NEW row \in Row,
         fw' = [fw EXCEPT ![w] = [@ EXCEPT !.pc = pc, !.row = row]]
  PROVE  FetchersOK'
  <1> DEFINE x == [fw[w] EXCEPT !.pc = pc, !.row = row]
  <1>1. x \in FetcherState /\ x.pc # "idle" /\ x.task # NoTask
    BY BusyFetcher, TasksAssumption DEF FetcherState
  <1>2. fw' = [fw EXCEPT ![w] = x]
    OBVIOUS
  <1> HIDE DEF x
  <1>3. QED
    BY <1>1, <1>2, FetcherSet

\* A busy parser handler has a task, a copy of its row and messages to publish.
LEMMA BusyParser ==
  ASSUME ParsersOK, NEW p \in Parsers, pw[p].pc # "idle"
  PROVE  /\ pw[p] \in ParserState
         /\ pw[p].task \in Tasks
         /\ pw[p].row \in Row
         /\ pw[p].todo \in SUBSET Tasks
  BY DEF ParsersOK, ParserState

\* A busy parser handler moves to another control point with its task.
LEMMA MoveParser ==
  ASSUME ParsersOK, NEW p \in Parsers, pw[p].pc # "idle",
         NEW pc \in {"loaded", "stamped", "done"}, NEW row \in Row,
         NEW todo \in SUBSET Tasks,
         pw' = [pw EXCEPT ![p] = [@ EXCEPT !.pc = pc, !.row = row, !.todo = todo]]
  PROVE  ParsersOK'
  <1> DEFINE x == [pw[p] EXCEPT !.pc = pc, !.row = row, !.todo = todo]
  <1>1. x \in ParserState /\ x.pc # "idle" /\ x.task # NoTask
    BY BusyParser, TasksAssumption DEF ParserState
  <1>2. pw' = [pw EXCEPT ![p] = x]
    OBVIOUS
  <1> HIDE DEF x
  <1>3. QED
    BY <1>1, <1>2, ParserSet

\* The types of the state, action by action.
LEMMA TypeStep ==
  TypeOK /\ [Next]_vars => TypeOK'
  <1> SUFFICES ASSUME TypeOK, [Next]_vars
               PROVE  TypeOK'
    OBVIOUS
  <1> USE TasksAssumption, BoundsAssumption, RowTypes
  <1>1. CASE CreateCrawlJob
    <2>1. tasks' \in [Tasks -> Row]
      BY <1>1, TableTypes DEF CreateCrawlJob, EventsCreated, TypeOK, BulkCreate
    <2>2. QED
      BY <1>1, <2>1 DEF CreateCrawlJob, EventsCreated, TypeOK
  <1>2. CASE DeleteCrawlJob
    BY <1>2 DEF DeleteCrawlJob, TypeOK
  <1>3. CASE OutboxFetch
    BY <1>3 DEF OutboxFetch, TypeOK, Pending
  <1>4. ASSUME NEW t \in Tasks, OutboxPublish(t)
        PROVE  TypeOK'
    BY <1>4, QueueTypes DEF OutboxPublish, TypeOK
  <1>5. CASE OutboxCommit
    BY <1>5 DEF OutboxCommit, TypeOK, IdlePublisher
  <1>6. CASE OutboxAbort
    BY <1>6 DEF OutboxAbort, TypeOK, IdlePublisher, Fault
  <1>7. ASSUME NEW t \in Tasks, RecoverStale(t)
        PROVE  TypeOK'
    BY <1>7, QueueTypes DEF RecoverStale, TypeOK
  <1>8. ASSUME NEW w \in Fetchers, NEW t \in Tasks, FetchStart(w, t)
        PROVE  TypeOK'
    BY <1>8, QueueTypes DEF FetchStart, TypeOK, FetcherState
  <1>9. ASSUME NEW w \in Fetchers, FetchStep(w)
        PROVE  TypeOK'
    <2>a. FetchersOK
      BY DEF TypeOK, FetchersOK
    <2>b. ASSUME fw[w].pc # "idle", FetchersOK',
                 tasks' \in [Tasks -> Row], parseQ' \in [Tasks -> Nat],
                 crawlQ' \in [Tasks -> Nat], pages' \in SUBSET Tasks,
                 UNCHANGED <<job, outbox, results, report, pub, pw, ex, faults>>
          PROVE  TypeOK'
      BY <2>b DEF TypeOK, FetchersOK
    <2>c. ASSUME FailTask(w), fw[w].pc = "loaded"
          PROVE  TypeOK'
      <3>1. fw[w].task \in Tasks /\ MarkAsFailed(fw[w].row) \in Row
        BY <2>a, <2>c, BusyFetcher
      <3>2. tasks' \in [Tasks -> Row]
        BY <2>c, <3>1, TableTypes DEF FailTask
      <3>3. FetchersOK'
        BY <2>a, <2>c, MoveFetcher DEF FailTask
      <3>4. QED
        BY <2>b, <2>c, <3>2, <3>3 DEF FailTask, TypeOK
    <2>1. CASE FetchReject(w)
      BY <2>c, <2>1 DEF FetchReject
    <2>2. CASE FetchFail(w)
      BY <2>c, <2>2 DEF FetchFail
    <2>3. CASE FetchInvalidURL(w)
      BY <1>9, <2>3, QueueTypes DEF FetchInvalidURL, TypeOK, IdleFetcher, FetcherState
    <2>4. CASE FetchStore(w)
      BY <1>9, <2>4 DEF FetchStore, TypeOK, FetcherState
    <2>5. CASE FetchSave(w)
      <3>1. fw[w].task \in Tasks /\ MarkAsFetched(fw[w].row) \in Row
        BY <2>a, <2>5, BusyFetcher DEF FetchSave
      <3>2. tasks' \in [Tasks -> Row]
        BY <2>5, <3>1, TableTypes DEF FetchSave
      <3>3. FetchersOK'
        BY <2>a, <2>5, MoveFetcher DEF FetchSave
      <3>4. QED
        BY <2>b, <2>5, <3>2, <3>3 DEF FetchSave, TypeOK
    <2>6. CASE FetchPublish(w)
      <3>1. fw[w] \in FetcherState /\ fw[w].task \in Tasks
        BY <2>a, <2>6, BusyFetcher DEF FetchPublish
      <3>2. parseQ' \in [Tasks -> Nat]
        BY <2>6, <3>1, QueueTypes DEF FetchPublish, TypeOK
      <3> DEFINE x == [fw[w] EXCEPT !.pc = "done"]
      <3>3. x \in FetcherState /\ x.pc # "idle" /\ x.task # NoTask
        BY <3>1 DEF FetcherState
      <3>4. fw' = [fw EXCEPT ![w] = x]
        BY <2>6 DEF FetchPublish
      <3> HIDE DEF x
      <3>5. FetchersOK'
        BY <2>a, <3>3, <3>4, FetcherSet
      <3>6. QED
        BY <2>b, <2>6, <3>2, <3>5 DEF FetchPublish, TypeOK
    <2>7. CASE FetchAck(w)
      BY <1>9, <2>7 DEF FetchAck, TypeOK, IdleFetcher, FetcherState
    <2>8. QED
      BY <1>9, <2>1, <2>2, <2>3, <2>4, <2>5, <2>6, <2>7 DEF FetchStep
  <1>10. ASSUME NEW w \in Fetchers, FetchNack(w)
         PROVE  TypeOK'
    BY <1>10, QueueTypes DEF FetchNack, Fault, TypeOK, FetcherState, IdleFetcher
  <1>11. ASSUME NEW p \in Parsers, NEW t \in Tasks, ParseStart(p, t)
         PROVE  TypeOK'
    BY <1>11, QueueTypes DEF ParseStart, TypeOK, ParserState
  <1>12. ASSUME NEW p \in Parsers, ParseStep(p)
         PROVE  TypeOK'
    <2>a. ParsersOK
      BY DEF TypeOK, ParsersOK
    <2>b. ASSUME ParsersOK', tasks' \in [Tasks -> Row], crawlQ' \in [Tasks -> Nat],
                 results' \in SUBSET Tasks, faults' \in 0 .. MaxFaults,
                 UNCHANGED <<job, outbox, parseQ, pages, report, pub, fw, ex>>
          PROVE  TypeOK'
      BY <2>b DEF TypeOK, ParsersOK
    <2>c. ASSUME pw[p].pc # "idle",
                 pw' = [pw EXCEPT ![p] = [@ EXCEPT !.pc = "done", !.row = NoRow]]
          PROVE  ParsersOK'
      <3> DEFINE x == [pw[p] EXCEPT !.pc = "done", !.row = NoRow]
      <3>1. x \in ParserState /\ x.pc # "idle" /\ x.task # NoTask
        BY <2>a, <2>c, BusyParser DEF ParserState
      <3>2. pw' = [pw EXCEPT ![p] = x]
        BY <2>c
      <3> HIDE DEF x
      <3>3. QED
        BY <2>a, <3>1, <3>2, ParserSet
    <2>1. CASE ParseNoPage(p)
      <3>1. pw[p].task \in Tasks
        BY <2>a, <2>1, BusyParser DEF ParseNoPage
      <3>2. parseQ' \in [Tasks -> Nat]
        BY <2>1, <3>1, QueueTypes DEF ParseNoPage, TypeOK
      <3>3. QED
        BY <2>1, <3>2 DEF ParseNoPage, TypeOK, IdleParser, ParserState
    <2>2. CASE ParseFail(p)
      <3>1. pw[p].task \in Tasks /\ MarkAsFailed(pw[p].row) \in Row
        BY <2>a, <2>2, BusyParser DEF ParseFail
      <3>2. tasks' \in [Tasks -> Row]
        BY <2>2, <3>1, TableTypes DEF ParseFail, FailParse
      <3>3. ParsersOK'
        BY <2>2, <2>c DEF ParseFail, FailParse
      <3>4. QED
        BY <2>b, <2>2, <3>2, <3>3 DEF ParseFail, FailParse, TypeOK
    <2>3. CASE ParseUpload(p)
      <3>1. pw[p] \in ParserState /\ pw[p].task \in Tasks /\ MarkAsParsed(pw[p].row) \in Row
        BY <2>a, <2>3, BusyParser DEF ParseUpload
      <3> DEFINE x == [pw[p] EXCEPT !.pc = "stamped", !.row = MarkAsParsed(pw[p].row)]
      <3>2. x \in ParserState /\ x.pc # "idle" /\ x.task # NoTask
        BY <3>1 DEF ParserState
      <3>3. pw' = [pw EXCEPT ![p] = x]
        BY <2>3 DEF ParseUpload
      <3> HIDE DEF x
      <3>4. ParsersOK'
        BY <2>a, <3>2, <3>3, ParserSet
      <3>5. QED
        BY <2>b, <2>3, <3>1, <3>4 DEF ParseUpload, TypeOK
    <2>4. CASE ParseCommit(p)
      <3>1. pw[p] \in ParserState /\ pw[p].task \in Tasks /\ pw[p].row \in Row
        BY <2>a, <2>4, BusyParser DEF ParseCommit
      <3>2. pw[p].row.depth + 1 \in Nat
        BY <3>1 DEF Row
      <3>3. tasks' \in [Tasks -> Row]
        BY <2>4, <3>1, <3>2, TableTypes DEF ParseCommit
      <3>4. NewLinks(p) \subseteq Tasks
        BY <3>1 DEF NewLinks, PreparedLinks
      <3>5. Inserted(tasks, NewLinks(p)) \in SUBSET Tasks
        BY <3>4 DEF Inserted
      <3>6. ParsersOK'
        BY <2>a, <2>4, <3>5, MoveParser DEF ParseCommit
      <3>7. QED
        BY <2>b, <2>4, <3>3, <3>6 DEF ParseCommit, TypeOK
    <2>5. CASE ParseRollback(p)
      <3>1. pw[p].task \in Tasks /\ MarkAsFailed(pw[p].row) \in Row
        BY <2>a, <2>5, BusyParser DEF ParseRollback
      <3>2. tasks' \in [Tasks -> Row]
        BY <2>5, <3>1, TableTypes DEF ParseRollback
      <3>3. ParsersOK'
        BY <2>5, <2>c DEF ParseRollback
      <3>4. faults' \in 0 .. MaxFaults
        BY <2>5 DEF ParseRollback, Fault, TypeOK
      <3>5. QED
        BY <2>b, <2>5, <3>2, <3>3, <3>4 DEF ParseRollback, TypeOK
    <2>6. ASSUME NEW c \in Tasks, ParsePublish(p, c)
          PROVE  TypeOK'
      <3> DEFINE x == [pw[p] EXCEPT !.todo = pw[p].todo \ {c}]
      <3>1. pw[p] \in ParserState
        BY <2>a DEF ParsersOK
      <3>2. x \in ParserState /\ x.pc = pw[p].pc /\ x.task = pw[p].task
        BY <3>1 DEF ParserState
      <3>3. pw' = [pw EXCEPT ![p] = x]
        BY <2>6 DEF ParsePublish
      <3> HIDE DEF x
      <3>4. ParsersOK'
        <4>1. x.pc = "idle" <=> x.task = NoTask
          BY <2>a, <3>2 DEF ParsersOK
        <4>2. QED
          BY <2>a, <3>2, <3>3, <4>1, ParserSet
      <3>5. crawlQ' \in [Tasks -> Nat] /\ faults' \in 0 .. MaxFaults
        BY <2>6, QueueTypes DEF ParsePublish, Fault, TypeOK
      <3>6. QED
        BY <2>b, <2>6, <3>4, <3>5 DEF ParsePublish, TypeOK
    <2>7. CASE ParseAck(p)
      BY <1>12, <2>7 DEF ParseAck, TypeOK, IdleParser, ParserState
    <2>8. QED
      BY <1>12, <2>1, <2>2, <2>3, <2>4, <2>5, <2>6, <2>7 DEF ParseStep
  <1>13. ASSUME NEW p \in Parsers, ParseNack(p)
         PROVE  TypeOK'
    <2>1. pw[p].task \in Tasks
      BY <1>13 DEF ParseNack, TypeOK, ParserState
    <2>2. parseQ' \in [Tasks -> Nat]
      BY <1>13, <2>1, QueueTypes DEF ParseNack, TypeOK
    <2>3. QED
      BY <1>13, <2>2 DEF ParseNack, Fault, TypeOK, ParserState, IdleParser
  <1>14. CASE ExportStep
    <2> USE DEF ExportState
    <2>1. CASE ExportSelect
      BY <2>1 DEF ExportSelect, TypeOK
    <2>2. CASE ExportRead
      BY <2>2, BoundsAssumption DEF ExportRead, Loadable, Fault, ExportState, TypeOK
    <2>3. CASE ExportJSON
      BY <2>3 DEF ExportJSON, TypeOK
    <2>4. CASE ExportFinish
      <3>1. ASSUME NEW w \in Fetchers
            PROVE  /\ fw'[w] \in FetcherState
                   /\ fw'[w].pc = fw[w].pc /\ fw'[w].task = fw[w].task
        <4>1. fw[w] \in FetcherState /\ Aged(fw[w].row) \in Row
          BY DEF TypeOK, FetcherState
        <4>2. QED
          BY <2>4, <4>1 DEF ExportFinish, FetcherState
      <3>2. ASSUME NEW p \in Parsers
            PROVE  /\ pw'[p] \in ParserState
                   /\ pw'[p].pc = pw[p].pc /\ pw'[p].task = pw[p].task
        <4>1. pw[p] \in ParserState /\ Aged(pw[p].row) \in Row
          BY DEF TypeOK, ParserState
        <4>2. QED
          BY <2>4, <4>1 DEF ExportFinish, ParserState
      <3>3. fw' \in [Fetchers -> FetcherState] /\ pw' \in [Parsers -> ParserState]
        BY <2>4, <3>1, <3>2 DEF ExportFinish
      <3>4. FetchersOK' /\ ParsersOK'
        <4>1. FetchersOK /\ ParsersOK
          BY DEF TypeOK, FetchersOK, ParsersOK
        <4>2. QED
          BY <3>1, <3>2, <3>3, <4>1 DEF FetchersOK, ParsersOK
      <3>5. tasks' \in [Tasks -> Row]
        <4>1. \A t \in Tasks : tasks[t] \in Row
          BY DEF TypeOK
        <4>2. tasks' = [t \in Tasks |-> Aged(tasks[t])]
          BY <2>4 DEF ExportFinish
        <4>3. QED
          BY <4>1, <4>2
      <3>6. QED
        BY <2>4, <3>4, <3>5 DEF ExportFinish, TypeOK, IdleExport, FetchersOK, ParsersOK
    <2>5. QED
      BY <1>14, <2>1, <2>2, <2>3, <2>4 DEF ExportStep
  <1>15. CASE ExportFail
    BY <1>15 DEF ExportFail, FailExport, Fault, TypeOK, ExportState, IdleExport
  <1>16. CASE ExportAbort
    BY <1>16 DEF ExportAbort, Fault, TypeOK, ExportState, IdleExport
  <1>17. CASE UNCHANGED vars
    BY <1>17 DEF vars, TypeOK
  <1>18. QED
    BY <1>1, <1>2, <1>3, <1>4, <1>5, <1>6, <1>7, <1>8, <1>9, <1>10, <1>11,
       <1>12, <1>13, <1>14, <1>15, <1>16, <1>17 DEF Next, Work

\* The initial state has the right types.
LEMMA TypeInit == Init => TypeOK
  BY BoundsAssumption, RowTypes
  DEF Init, TypeOK, IdleFetcher, IdleParser, IdleExport, IdlePublisher,
      FetcherState, ParserState, ExportState

\* THEOREM.  Every variable keeps its type, and a handler is idle exactly when
\* it holds no task, in every reachable state.
THEOREM TypeCorrect == Spec => []TypeOK
  BY TypeInit, TypeStep, PTL DEF Spec

-----------------------------------------------------------------------------
(* What the row and table operators do, field by field.                     *)

\* The fields the domain methods of CrawlTask set and leave alone.
LEMMA RowFields ==
  ASSUME NEW r \in Row
  PROVE  /\ MarkAsFetched(r).status = "Fetched" /\ MarkAsFetched(r).key
         /\ MarkAsFetched(r).result = r.result /\ MarkAsFetched(r).depth = r.depth
         /\ MarkAsParsed(r).status = "Parsed" /\ MarkAsParsed(r).key = r.key
         /\ MarkAsParsed(r).result = "new" /\ MarkAsParsed(r).depth = r.depth
         /\ MarkAsFailed(r).status = "Failed" /\ MarkAsFailed(r).key = r.key
         /\ MarkAsFailed(r).result = "none" /\ MarkAsFailed(r).depth = r.depth
         /\ CopyOf(r).status = "InProgress" /\ CopyOf(r).key = r.key
         /\ CopyOf(r).result = r.result /\ CopyOf(r).depth = r.depth
         /\ Aged(r).status = r.status /\ Aged(r).key = r.key
         /\ (Aged(r).result = "none") = (r.result = "none") /\ Aged(r).depth = r.depth
  BY DEF Row, MarkAsFetched, MarkAsParsed, MarkAsFailed, CopyOf, Aged

\* The fields of a row that is missing and of one just inserted.
LEMMA NewRowFields ==
  /\ NoRow.status = "Absent" /\ ~NoRow.key /\ NoRow.result = "none"
  /\ \A d \in Nat : /\ NewRow(d).status = "InProgress" /\ ~NewRow(d).key
                    /\ NewRow(d).result = "none" /\ NewRow(d).depth = d
  BY DEF NoRow, NewRow

\* A full-row update touches one row, and only if it exists.
LEMMA UpdateAt ==
  ASSUME TypeOK, NEW t \in Tasks, NEW r, NEW u \in Tasks
  PROVE  Update(t, r)[u] = IF u = t /\ Exists(t) THEN r ELSE tasks[u]
  BY DEF Update, Exists, TypeOK

\* A bulk insert adds the missing rows and touches no other.
LEMMA BulkCreateAt ==
  ASSUME NEW table, NEW S, NEW d, NEW u \in Tasks
  PROVE  BulkCreate(table, S, d)[u] =
           IF u \in S /\ table[u].status = "Absent" THEN NewRow(d) ELSE table[u]
  BY DEF BulkCreate, Inserted

-----------------------------------------------------------------------------
(* StoredBeforeReferenced, with the copies that handlers hold.              *)

Sound == TypeOK /\ CopiesAreSound /\ StoredBeforeReferenced

\* No step writes a reference to an object that is not stored.
LEMMA SoundStep ==
  Sound /\ [Next]_vars => (CopiesAreSound /\ StoredBeforeReferenced)'
  <1> SUFFICES ASSUME Sound, [Next]_vars
               PROVE  (CopiesAreSound /\ StoredBeforeReferenced)'
    OBVIOUS
  <1>a. TypeOK /\ FetchersOK /\ ParsersOK
    BY DEF Sound, TypeOK, FetchersOK, ParsersOK
  <1>b. /\ tasks \in [Tasks -> Row]
        /\ fw \in [Fetchers -> FetcherState]
        /\ pw \in [Parsers -> ParserState]
    BY <1>a DEF TypeOK
  <1>0. ASSUME UNCHANGED <<tasks, pages, results, fw, pw>>
        PROVE  (CopiesAreSound /\ StoredBeforeReferenced)'
    BY <1>0 DEF Sound, CopiesAreSound, StoredBeforeReferenced, Backed
  <1>c. ASSUME NEW t \in Tasks, NEW r \in Row, Backed(t, r),
               r.status = "Parsed" => r.key /\ r.result # "none",
               r.status = "Failed" => r.result = "none",
               tasks' = Update(t, r), UNCHANGED <<pages, results>>
        PROVE  StoredBeforeReferenced'
    <2>1. ASSUME NEW u \in Tasks
          PROVE  tasks'[u] = IF u = t /\ Exists(t) THEN r ELSE tasks[u]
      BY <1>a, <1>c, UpdateAt
    <2>2. QED
      BY <1>c, <2>1 DEF Sound, StoredBeforeReferenced, Backed
  <1>d. ASSUME NEW w \in Fetchers, NEW x, fw' = [fw EXCEPT ![w] = x],
               pages \subseteq pages', UNCHANGED <<results, pw>>,
               x.row.key => x.task \in pages',
               x.row.result # "none" => x.task \in results,
               x.pc = "stored" => x.task \in pages'
        PROVE  CopiesAreSound'
    <2>1. fw'[w] = x /\ \A v \in Fetchers : v # w => fw'[v] = fw[v]
      BY <1>b, <1>d
    <2>2. QED
      BY <1>d, <2>1 DEF Sound, CopiesAreSound, Backed
  <1>e. ASSUME NEW p \in Parsers, NEW x, pw' = [pw EXCEPT ![p] = x],
               results \subseteq results', UNCHANGED <<pages, fw>>,
               x.row.key => x.task \in pages,
               x.row.result # "none" => x.task \in results',
               x.pc = "stamped" => /\ x.row.status = "Parsed" /\ x.row.key
                                   /\ x.row.result # "none"
        PROVE  CopiesAreSound'
    <2>1. pw'[p] = x /\ \A q \in Parsers : q # p => pw'[q] = pw[q]
      BY <1>b, <1>e
    <2>2. QED
      BY <1>e, <2>1 DEF Sound, CopiesAreSound, Backed
  <1>1. CASE CreateCrawlJob
    <2>1. ASSUME NEW t \in Tasks
          PROVE  tasks'[t] = tasks[t] \/ tasks'[t] = NewRow(0)
      BY <1>1 DEF CreateCrawlJob, EventsCreated, BulkCreate
    <2>2. StoredBeforeReferenced'
      <3>1. /\ NewRow(0).status = "InProgress" /\ ~NewRow(0).key
            /\ NewRow(0).result = "none"
        BY NewRowFields
      <3>2. UNCHANGED <<pages, results>>
        BY <1>1 DEF CreateCrawlJob, EventsCreated
      <3>3. QED
        BY <2>1, <3>1, <3>2 DEF Sound, StoredBeforeReferenced, Backed
    <2>3. CopiesAreSound'
      BY <1>1 DEF CreateCrawlJob, EventsCreated, Sound, CopiesAreSound, Backed
    <2>4. QED
      BY <2>2, <2>3
  <1>2. CASE DeleteCrawlJob
    <2>1. StoredBeforeReferenced'
      BY <1>2, NewRowFields DEF DeleteCrawlJob, Sound, StoredBeforeReferenced, Backed
    <2>2. CopiesAreSound'
      BY <1>2 DEF DeleteCrawlJob, Sound, CopiesAreSound, Backed
    <2>3. QED
      BY <2>1, <2>2
  <1>3. CASE OutboxFetch
    BY <1>0, <1>3 DEF OutboxFetch
  <1>4. ASSUME NEW t \in Tasks, OutboxPublish(t)
        PROVE  (CopiesAreSound /\ StoredBeforeReferenced)'
    BY <1>0, <1>4 DEF OutboxPublish
  <1>5. CASE OutboxCommit
    BY <1>0, <1>5 DEF OutboxCommit
  <1>6. CASE OutboxAbort
    BY <1>0, <1>6 DEF OutboxAbort
  <1>7. ASSUME NEW t \in Tasks, RecoverStale(t)
        PROVE  (CopiesAreSound /\ StoredBeforeReferenced)'
    BY <1>0, <1>7 DEF RecoverStale
  <1>8. ASSUME NEW w \in Fetchers, NEW t \in Tasks, FetchStart(w, t)
        PROVE  (CopiesAreSound /\ StoredBeforeReferenced)'
    <2>1. CASE ~Exists(t)
      BY <1>0, <1>8, <2>1 DEF FetchStart
    <2>2. CASE Exists(t)
      <3>1. StoredBeforeReferenced'
        BY <1>8 DEF FetchStart, Sound, StoredBeforeReferenced, Backed
      <3>2. tasks[t] \in Row /\ Backed(t, tasks[t])
        BY <1>b DEF Sound, StoredBeforeReferenced
      <3> DEFINE x == [pc |-> "loaded", task |-> t, row |-> CopyOf(tasks[t])]
      <3>3. fw' = [fw EXCEPT ![w] = x]
        BY <1>8, <2>2 DEF FetchStart
      <3>4. x.pc = "loaded" /\ Backed(x.task, x.row)
        BY <3>2, RowFields DEF Backed
      <3> HIDE DEF x
      <3>5. CopiesAreSound'
        BY <1>8, <1>d, <3>3, <3>4 DEF FetchStart, Backed
      <3>6. QED
        BY <3>1, <3>5
    <2>3. QED
      BY <2>1, <2>2
  <1>9. ASSUME NEW w \in Fetchers, FetchStep(w)
        PROVE  (CopiesAreSound /\ StoredBeforeReferenced)'
    <2>a. ASSUME NEW pc \in {"saved", "done"}, fw[w].pc # "idle",
                 fw' = [fw EXCEPT ![w] = [@ EXCEPT !.pc = pc, !.row = NoRow]],
                 UNCHANGED <<pages, results, pw>>
          PROVE  CopiesAreSound'
      <3> DEFINE x == [fw[w] EXCEPT !.pc = pc, !.row = NoRow]
      <3>1. x.pc # "stored" /\ x.row = NoRow
        BY <1>a, <2>a, BusyFetcher DEF FetcherState
      <3>2. fw' = [fw EXCEPT ![w] = x]
        BY <2>a
      <3> HIDE DEF x
      <3>3. QED
        BY <1>d, <2>a, <3>1, <3>2, NewRowFields
    <2>b. ASSUME fw' = [fw EXCEPT ![w] = IdleFetcher], UNCHANGED <<pages, results, pw>>
          PROVE  CopiesAreSound'
      <3>1. IdleFetcher.row = NoRow /\ IdleFetcher.pc = "idle"
        BY DEF IdleFetcher
      <3>2. QED
        BY <1>d, <2>b, <3>1, NewRowFields
    <2>c. ASSUME fw[w].pc # "idle"
          PROVE  fw[w] \in FetcherState /\ fw[w].task \in Tasks /\ fw[w].row \in Row
      BY <1>a, <2>c, BusyFetcher
    <2>d. Backed(fw[w].task, fw[w].row) /\ (fw[w].pc = "stored" => fw[w].task \in pages)
      BY DEF Sound, CopiesAreSound
    <2>e. ASSUME FailTask(w), fw[w].pc = "loaded"
          PROVE  (CopiesAreSound /\ StoredBeforeReferenced)'
      <3> DEFINE r == MarkAsFailed(fw[w].row)
      <3>1. /\ r \in Row /\ Backed(fw[w].task, r)
            /\ r.status = "Failed" /\ r.result = "none"
        BY <2>c, <2>d, <2>e, RowFields, RowTypes DEF Backed
      <3>2. tasks' = Update(fw[w].task, r)
        BY <2>e DEF FailTask
      <3> HIDE DEF r
      <3>3. StoredBeforeReferenced'
        BY <1>c, <2>c, <2>e, <3>1, <3>2 DEF FailTask
      <3>4. CopiesAreSound'
        BY <2>a, <2>e DEF FailTask
      <3>5. QED
        BY <3>3, <3>4
    <2>1. CASE FetchReject(w)
      BY <2>e, <2>1 DEF FetchReject
    <2>2. CASE FetchFail(w)
      BY <2>e, <2>2 DEF FetchFail
    <2>3. CASE FetchInvalidURL(w)
      BY <2>b, <2>3 DEF FetchInvalidURL, Sound, StoredBeforeReferenced, Backed
    <2>4. CASE FetchStore(w)
      <3>1. StoredBeforeReferenced'
        BY <2>4 DEF FetchStore, Sound, StoredBeforeReferenced, Backed
      <3> DEFINE x == [fw[w] EXCEPT !.pc = "stored"]
      <3>2. x.task = fw[w].task /\ x.row = fw[w].row
        BY <2>c, <2>4 DEF FetchStore, FetcherState
      <3>3. fw' = [fw EXCEPT ![w] = x] /\ pages' = pages \cup {fw[w].task}
        BY <2>4 DEF FetchStore
      <3> HIDE DEF x
      <3>4. CopiesAreSound'
        BY <1>d, <2>4, <2>d, <3>2, <3>3 DEF FetchStore, Backed
      <3>5. QED
        BY <3>1, <3>4
    <2>5. CASE FetchSave(w)
      <3> DEFINE r == MarkAsFetched(fw[w].row)
      <3>1. r \in Row /\ Backed(fw[w].task, r) /\ r.status = "Fetched"
        BY <2>c, <2>d, <2>5, RowFields, RowTypes DEF Backed, FetchSave
      <3>2. tasks' = Update(fw[w].task, r)
        BY <2>5 DEF FetchSave
      <3> HIDE DEF r
      <3>3. StoredBeforeReferenced'
        BY <1>c, <2>c, <2>5, <3>1, <3>2 DEF FetchSave
      <3>4. CopiesAreSound'
        BY <2>a, <2>5 DEF FetchSave
      <3>5. QED
        BY <3>3, <3>4
    <2>6. CASE FetchPublish(w)
      <3>1. StoredBeforeReferenced'
        BY <2>6 DEF FetchPublish, Sound, StoredBeforeReferenced, Backed
      <3> DEFINE x == [fw[w] EXCEPT !.pc = "done"]
      <3>2. x.task = fw[w].task /\ x.row = fw[w].row /\ x.pc = "done"
        BY <2>c, <2>6 DEF FetchPublish, FetcherState
      <3>3. fw' = [fw EXCEPT ![w] = x]
        BY <2>6 DEF FetchPublish
      <3> HIDE DEF x
      <3>4. CopiesAreSound'
        BY <1>d, <2>6, <2>d, <3>2, <3>3 DEF FetchPublish, Backed
      <3>5. QED
        BY <3>1, <3>4
    <2>7. CASE FetchAck(w)
      BY <2>b, <2>7 DEF FetchAck, Sound, StoredBeforeReferenced, Backed
    <2>8. QED
      BY <1>9, <2>1, <2>2, <2>3, <2>4, <2>5, <2>6, <2>7 DEF FetchStep
  <1>10. ASSUME NEW w \in Fetchers, FetchNack(w)
         PROVE  (CopiesAreSound /\ StoredBeforeReferenced)'
    <2>1. StoredBeforeReferenced'
      BY <1>10 DEF FetchNack, Sound, StoredBeforeReferenced, Backed
    <2>2. IdleFetcher.row = NoRow /\ IdleFetcher.pc = "idle"
      BY DEF IdleFetcher
    <2>3. CopiesAreSound'
      BY <1>10, <1>d, <2>2, NewRowFields DEF FetchNack
    <2>4. QED
      BY <2>1, <2>3
  <1>11. ASSUME NEW p \in Parsers, NEW t \in Tasks, ParseStart(p, t)
         PROVE  (CopiesAreSound /\ StoredBeforeReferenced)'
    <2>1. CASE ~(Exists(t) /\ tasks[t].status # "Parsed")
      BY <1>0, <1>11, <2>1 DEF ParseStart
    <2>2. CASE Exists(t) /\ tasks[t].status # "Parsed"
      <3>1. StoredBeforeReferenced'
        BY <1>11 DEF ParseStart, Sound, StoredBeforeReferenced, Backed
      <3>2. tasks[t] \in Row /\ Backed(t, tasks[t])
        BY <1>b DEF Sound, StoredBeforeReferenced
      <3> DEFINE x == [pc |-> "loaded", task |-> t, row |-> CopyOf(tasks[t]), todo |-> {}]
      <3>3. pw' = [pw EXCEPT ![p] = x]
        BY <1>11, <2>2 DEF ParseStart
      <3>4. x.pc = "loaded" /\ Backed(x.task, x.row)
        BY <3>2, RowFields DEF Backed
      <3> HIDE DEF x
      <3>5. CopiesAreSound'
        BY <1>11, <1>e, <3>3, <3>4 DEF ParseStart, Backed
      <3>6. QED
        BY <3>1, <3>5
    <2>3. QED
      BY <2>1, <2>2
  <1>12. ASSUME NEW p \in Parsers, ParseStep(p)
         PROVE  (CopiesAreSound /\ StoredBeforeReferenced)'
    <2>a. ASSUME NEW x, pw' = [pw EXCEPT ![p] = x], x.pc # "stamped", x.row = NoRow,
                 UNCHANGED <<pages, results, fw>>
          PROVE  CopiesAreSound'
      BY <1>e, <2>a, NewRowFields
    <2>b. ASSUME pw[p].pc # "idle"
          PROVE  /\ pw[p] \in ParserState /\ pw[p].task \in Tasks
                 /\ pw[p].row \in Row /\ MarkAsFailed(pw[p].row) \in Row
      BY <1>a, <2>b, BusyParser, RowTypes
    <2>c. /\ Backed(pw[p].task, pw[p].row)
          /\ pw[p].pc = "stamped" => /\ pw[p].row.status = "Parsed" /\ pw[p].row.key
                                     /\ pw[p].row.result # "none"
      BY DEF Sound, CopiesAreSound
    <2>d. ASSUME pw[p].pc # "idle", tasks' = Update(pw[p].task, MarkAsFailed(pw[p].row)),
                 pw' = [pw EXCEPT ![p] = [@ EXCEPT !.pc = "done", !.row = NoRow]],
                 UNCHANGED <<pages, results, fw>>
          PROVE  (CopiesAreSound /\ StoredBeforeReferenced)'
      <3> DEFINE r == MarkAsFailed(pw[p].row)
                 x == [pw[p] EXCEPT !.pc = "done", !.row = NoRow]
      <3>1. /\ r \in Row /\ Backed(pw[p].task, r)
            /\ r.status = "Failed" /\ r.result = "none"
        BY <2>b, <2>c, <2>d, RowFields DEF Backed
      <3>2. tasks' = Update(pw[p].task, r) /\ pw' = [pw EXCEPT ![p] = x]
        BY <2>d
      <3>3. x.pc = "done" /\ x.row = NoRow
        BY <2>b, <2>d DEF ParserState
      <3> HIDE DEF r, x
      <3>4. StoredBeforeReferenced'
        BY <1>c, <2>b, <2>d, <3>1, <3>2
      <3>5. CopiesAreSound'
        BY <2>a, <2>d, <3>2, <3>3
      <3>6. QED
        BY <3>4, <3>5
    <2>e. IdleParser.row = NoRow /\ IdleParser.pc = "idle"
      BY DEF IdleParser
    <2>1. CASE ParseNoPage(p)
      BY <2>a, <2>e, <2>1 DEF ParseNoPage, Sound, StoredBeforeReferenced, Backed
    <2>2. CASE ParseFail(p)
      BY <2>d, <2>2 DEF ParseFail, FailParse
    <2>3. CASE ParseUpload(p)
      <3>1. StoredBeforeReferenced'
        BY <2>3 DEF ParseUpload, Sound, StoredBeforeReferenced, Backed
      <3> DEFINE x == [pw[p] EXCEPT !.pc = "stamped", !.row = MarkAsParsed(pw[p].row)]
      <3>2. x.task = pw[p].task /\ x.row = MarkAsParsed(pw[p].row)
        BY <2>b, <2>3 DEF ParseUpload, ParserState
      <3>3. pw' = [pw EXCEPT ![p] = x] /\ results' = results \cup {pw[p].task}
        BY <2>3 DEF ParseUpload
      <3> HIDE DEF x
      <3>4. pw[p].row \in Row /\ pw[p].row.key
        BY <2>b, <2>3 DEF ParseUpload
      <3>5. x.row.status = "Parsed" /\ x.row.key /\ x.row.result = "new"
        BY <3>2, <3>4, RowFields
      <3>6. CopiesAreSound'
        BY <1>e, <2>3, <2>c, <3>2, <3>3, <3>4, <3>5 DEF ParseUpload, Backed
      <3>7. QED
        BY <3>1, <3>6
    <2>4. CASE ParseCommit(p)
      <3> DEFINE table == Update(pw[p].task, pw[p].row)
                 d == pw[p].row.depth + 1
                 x == [pw[p] EXCEPT !.pc = "done", !.row = NoRow,
                                    !.todo = Inserted(tasks, NewLinks(p))]
      <3>1. /\ pw[p] \in ParserState /\ pw[p].task \in Tasks /\ pw[p].row \in Row
            /\ d \in Nat
        BY <2>b, <2>4 DEF ParseCommit, Row
      <3>2. ASSUME NEW u \in Tasks
            PROVE  /\ table[u] = IF u = pw[p].task /\ Exists(u) THEN pw[p].row ELSE tasks[u]
                   /\ tasks'[u] = table[u] \/ tasks'[u] = NewRow(d)
        <4>1. table[u] = IF u = pw[p].task /\ Exists(u) THEN pw[p].row ELSE tasks[u]
          BY <1>a, <3>1, UpdateAt
        <4>2. tasks' = BulkCreate(table, NewLinks(p), d)
          BY <2>4 DEF ParseCommit
        <4> HIDE DEF table, d
        <4>3. QED
          BY <4>1, <4>2, BulkCreateAt
      <3>3. pw' = [pw EXCEPT ![p] = x]
        BY <2>4 DEF ParseCommit
      <3>4. x.pc = "done" /\ x.row = NoRow
        BY <3>1 DEF ParserState
      <3>5. NewRow(d).status = "InProgress" /\ ~NewRow(d).key /\ NewRow(d).result = "none"
        BY <3>1, NewRowFields
      <3>6. pw[p].pc = "stamped" /\ UNCHANGED <<pages, results, fw>>
        BY <2>4 DEF ParseCommit
      <3> HIDE DEF table, d, x
      <3>7. StoredBeforeReferenced'
        BY <2>c, <3>2, <3>5, <3>6 DEF Sound, StoredBeforeReferenced, Backed
      <3>8. CopiesAreSound'
        BY <2>a, <3>3, <3>4, <3>6
      <3>9. QED
        BY <3>7, <3>8
    <2>5. CASE ParseRollback(p)
      BY <2>d, <2>5 DEF ParseRollback
    <2>6. ASSUME NEW c \in Tasks, ParsePublish(p, c)
          PROVE  (CopiesAreSound /\ StoredBeforeReferenced)'
      <3>1. StoredBeforeReferenced'
        BY <2>6 DEF ParsePublish, Sound, StoredBeforeReferenced, Backed
      <3> DEFINE x == [pw[p] EXCEPT !.todo = pw[p].todo \ {c}]
      <3>2. x.task = pw[p].task /\ x.row = pw[p].row /\ x.pc = pw[p].pc
        BY <1>b DEF ParserState
      <3>3. pw' = [pw EXCEPT ![p] = x] /\ UNCHANGED <<pages, results, fw>>
        BY <2>6 DEF ParsePublish
      <3> HIDE DEF x
      <3>4. CopiesAreSound'
        BY <1>e, <2>c, <3>2, <3>3 DEF Backed
      <3>5. QED
        BY <3>1, <3>4
    <2>7. CASE ParseAck(p)
      BY <2>a, <2>e, <2>7 DEF ParseAck, Sound, StoredBeforeReferenced, Backed
    <2>8. QED
      BY <1>12, <2>1, <2>2, <2>3, <2>4, <2>5, <2>6, <2>7 DEF ParseStep
  <1>13. ASSUME NEW p \in Parsers, ParseNack(p)
         PROVE  (CopiesAreSound /\ StoredBeforeReferenced)'
    <2>1. StoredBeforeReferenced'
      BY <1>13 DEF ParseNack, Sound, StoredBeforeReferenced, Backed
    <2>2. IdleParser.row = NoRow /\ IdleParser.pc = "idle"
      BY DEF IdleParser
    <2>3. CopiesAreSound'
      BY <1>13, <1>e, <2>2, NewRowFields DEF ParseNack
    <2>4. QED
      BY <2>1, <2>3
  <1>14. CASE ExportStep
    <2>1. CASE ExportSelect \/ ExportRead \/ ExportJSON
      BY <1>0, <2>1 DEF ExportSelect, ExportRead, ExportJSON
    <2>2. CASE ExportFinish
      <3>1. ASSUME NEW t \in Tasks
            PROVE  /\ tasks'[t].status = tasks[t].status /\ tasks'[t].key = tasks[t].key
                   /\ (tasks'[t].result = "none") = (tasks[t].result = "none")
        BY <1>b, <2>2, RowFields DEF ExportFinish
      <3>2. ASSUME NEW w \in Fetchers
            PROVE  /\ fw'[w].task = fw[w].task /\ fw'[w].pc = fw[w].pc
                   /\ fw'[w].row = Aged(fw[w].row) /\ fw[w].row \in Row
        BY <1>b, <2>2 DEF ExportFinish, FetcherState
      <3>3. ASSUME NEW p \in Parsers
            PROVE  /\ pw'[p].task = pw[p].task /\ pw'[p].pc = pw[p].pc
                   /\ pw'[p].row = Aged(pw[p].row) /\ pw[p].row \in Row
        BY <1>b, <2>2 DEF ExportFinish, ParserState
      <3>4. UNCHANGED <<pages, results>>
        BY <2>2 DEF ExportFinish
      <3>5. StoredBeforeReferenced'
        BY <3>1, <3>4 DEF Sound, StoredBeforeReferenced, Backed
      <3>6. CopiesAreSound'
        BY <3>2, <3>3, <3>4, RowFields DEF Sound, CopiesAreSound, Backed
      <3>7. QED
        BY <3>5, <3>6
    <2>3. QED
      BY <1>14, <2>1, <2>2 DEF ExportStep
  <1>15. CASE ExportFail
    BY <1>0, <1>15 DEF ExportFail, FailExport
  <1>16. CASE ExportAbort
    BY <1>0, <1>16 DEF ExportAbort
  <1>17. CASE UNCHANGED vars
    BY <1>0, <1>17 DEF vars
  <1>18. QED
    BY <1>1, <1>2, <1>3, <1>4, <1>5, <1>6, <1>7, <1>8, <1>9, <1>10, <1>11,
       <1>12, <1>13, <1>14, <1>15, <1>16, <1>17 DEF Next, Work

\* Nothing is referred to in the initial state.
LEMMA SoundInit == Init => Sound
  <1>1. Init => CopiesAreSound /\ StoredBeforeReferenced
    BY NewRowFields
    DEF Init, CopiesAreSound, StoredBeforeReferenced, Backed, IdleFetcher, IdleParser
  <1>2. QED
    BY <1>1, TypeInit DEF Sound

\* THEOREM.  No row ever refers to a page or a result that is not stored,
\* however many handlers work on the same task with old copies of its row.
THEOREM ReferencesAreStored == Spec => []StoredBeforeReferenced
  <1>1. Sound /\ [Next]_vars => Sound'
    BY SoundStep, TypeStep DEF Sound
  <1>2. Sound => StoredBeforeReferenced
    BY DEF Sound
  <1>3. QED
    BY SoundInit, <1>1, <1>2, PTL DEF Spec

-----------------------------------------------------------------------------
(* FetchedIsCovered.                                                        *)

\* A task covered by somebody else stays covered when fetch handler w moves.
LEMMA CoveredByOthersF ==
  ASSUME NEW t \in Tasks, Covered(t), NEW w \in Fetchers, fw[w].task # t,
         \A v \in Fetchers : v # w => fw'[v] = fw[v],
         crawlQ'[t] = crawlQ[t], parseQ'[t] = parseQ[t], pw' = pw
  PROVE  Covered(t)'
  BY DEF Covered, FetchOwes, ParseOwes

\* A task covered by somebody else stays covered when parser handler p moves.
LEMMA CoveredByOthersP ==
  ASSUME NEW t \in Tasks, Covered(t), NEW p \in Parsers, pw[p].task # t,
         \A q \in Parsers : q # p => pw'[q] = pw[q],
         crawlQ'[t] >= crawlQ[t], parseQ'[t] = parseQ[t], fw' = fw,
         crawlQ[t] \in Nat, crawlQ'[t] \in Nat
  PROVE  Covered(t)'
  BY DEF Covered, FetchOwes, ParseOwes

\* No step drops the last message of a Fetched task.
LEMMA CoveredStep ==
  Sound /\ FetchedIsCovered /\ [Next]_vars => FetchedIsCovered'
  <1> SUFFICES ASSUME Sound, FetchedIsCovered, [Next]_vars,
                      NEW t \in Tasks, tasks'[t].status = "Fetched"
               PROVE  Covered(t)'
    BY DEF FetchedIsCovered
  <1>a. TypeOK /\ TypeOK' /\ FetchersOK /\ ParsersOK
    BY TypeStep DEF Sound, TypeOK, FetchersOK, ParsersOK
  <1>b. /\ tasks \in [Tasks -> Row]
        /\ crawlQ \in [Tasks -> Nat] /\ crawlQ' \in [Tasks -> Nat]
        /\ parseQ \in [Tasks -> Nat] /\ parseQ' \in [Tasks -> Nat]
        /\ fw \in [Fetchers -> FetcherState]
        /\ pw \in [Parsers -> ParserState]
    BY <1>a DEF TypeOK
  <1>c. tasks[t].status = "Fetched" => Covered(t)
    BY DEF FetchedIsCovered
  <1>0. ASSUME tasks' = tasks, UNCHANGED <<fw, pw, parseQ>>, crawlQ'[t] >= crawlQ[t]
        PROVE  Covered(t)'
    BY <1>0, <1>b, <1>c DEF Covered, FetchOwes, ParseOwes
  <1>1. CASE CreateCrawlJob
    <2>1. tasks'[t] = tasks[t] \/ tasks'[t] = NewRow(0)
      BY <1>1 DEF CreateCrawlJob, EventsCreated, BulkCreate
    <2>2. tasks[t].status = "Fetched"
      BY <2>1, NewRowFields
    <2>3. QED
      BY <1>1, <1>c, <2>2 DEF CreateCrawlJob, EventsCreated, Covered, FetchOwes, ParseOwes
  <1>2. CASE DeleteCrawlJob
    BY <1>2, NewRowFields DEF DeleteCrawlJob
  <1>3. CASE OutboxFetch
    BY <1>0, <1>3, <1>b DEF OutboxFetch
  <1>4. ASSUME NEW u \in Tasks, OutboxPublish(u)
        PROVE  Covered(t)'
    BY <1>0, <1>4, <1>b DEF OutboxPublish, Push
  <1>5. CASE OutboxCommit
    BY <1>0, <1>5, <1>b DEF OutboxCommit
  <1>6. CASE OutboxAbort
    BY <1>0, <1>6, <1>b DEF OutboxAbort
  <1>7. ASSUME NEW u \in Tasks, RecoverStale(u)
        PROVE  Covered(t)'
    BY <1>0, <1>7, <1>b DEF RecoverStale, Push
  <1>8. ASSUME NEW w \in Fetchers, NEW u \in Tasks, FetchStart(w, u)
        PROVE  Covered(t)'
    <2>1. tasks[t].status = "Fetched" /\ Exists(t) /\ Covered(t)
      BY <1>8, <1>c DEF FetchStart, Exists
    <2>2. fw[w].pc = "idle" /\ fw[w].task # t
      BY <1>8, <1>a, TasksAssumption DEF FetchStart, FetchersOK
    <2>3. CASE u = t
      <3>1. fw'[w].pc = "loaded" /\ fw'[w].task = t
        BY <1>8, <1>b, <2>1, <2>3 DEF FetchStart
      <3>2. QED
        BY <3>1 DEF Covered, FetchOwes
    <2>4. CASE u # t
      <3>1. \A v \in Fetchers : v # w => fw'[v] = fw[v]
        BY <1>8, <1>b DEF FetchStart
      <3>2. crawlQ'[t] = crawlQ[t] /\ UNCHANGED <<parseQ, pw>>
        BY <1>8, <1>b, <2>4 DEF FetchStart, Pop
      <3>3. QED
        BY <2>1, <2>2, <3>1, <3>2, CoveredByOthersF
    <2>5. QED
      BY <2>3, <2>4
  <1>9. ASSUME NEW w \in Fetchers, FetchStep(w)
        PROVE  Covered(t)'
    <2>a. ASSUME fw[w].task # t, tasks'[t] = tasks[t],
                 \A v \in Fetchers : v # w => fw'[v] = fw[v],
                 crawlQ'[t] = crawlQ[t], parseQ'[t] = parseQ[t], pw' = pw
          PROVE  Covered(t)'
      BY <1>c, <2>a, CoveredByOthersF
    <2>b. fw[w].pc # "idle"
      BY <1>9 DEF FetchStep, FetchReject, FetchFail, FetchInvalidURL, FetchStore,
                  FetchSave, FetchPublish, FetchAck
    <2>c. fw[w] \in FetcherState /\ fw[w].task \in Tasks /\ fw[w].row \in Row
      BY <1>a, <2>b, BusyFetcher
    <2>d. ASSUME FailTask(w)
          PROVE  Covered(t)'
      <3> DEFINE r == MarkAsFailed(fw[w].row)
      <3>1. r.status = "Failed"
        BY <2>c, RowFields
      <3>2. tasks' = Update(fw[w].task, r)
        BY <2>d DEF FailTask
      <3> HIDE DEF r
      <3>3. tasks'[t] = IF t = fw[w].task /\ Exists(t) THEN r ELSE tasks[t]
        BY <1>a, <2>c, <3>2, UpdateAt
      <3>4. fw[w].task # t /\ tasks'[t] = tasks[t]
        BY <3>1, <3>3 DEF Exists
      <3>5. QED
        BY <1>b, <2>a, <2>d, <3>4 DEF FailTask
    <2>1. CASE FetchReject(w)
      BY <2>d, <2>1 DEF FetchReject
    <2>2. CASE FetchFail(w)
      BY <2>d, <2>2 DEF FetchFail
    <2>3. CASE FetchInvalidURL(w)
      <3>1. CASE fw[w].task = t
        BY <1>b, <2>3, <3>1 DEF FetchInvalidURL, Push, Covered
      <3>2. CASE fw[w].task # t
        BY <1>b, <2>a, <2>3, <3>2 DEF FetchInvalidURL, Push
      <3>3. QED
        BY <3>1, <3>2
    <2>4. CASE FetchStore(w)
      <3>1. CASE fw[w].task = t
        <4>1. fw'[w].pc = "stored" /\ fw'[w].task = t
          BY <1>b, <2>4, <2>c, <3>1 DEF FetchStore, FetcherState
        <4>2. QED
          BY <4>1 DEF Covered, FetchOwes
      <3>2. CASE fw[w].task # t
        BY <1>b, <2>a, <2>4, <3>2 DEF FetchStore
      <3>3. QED
        BY <3>1, <3>2
    <2>5. CASE FetchSave(w)
      <3>1. CASE fw[w].task = t
        <4>1. fw'[w].pc = "saved" /\ fw'[w].task = t
          BY <1>b, <2>5, <2>c, <3>1 DEF FetchSave, FetcherState
        <4>2. QED
          BY <4>1 DEF Covered, FetchOwes
      <3>2. CASE fw[w].task # t
        <4>1. tasks'[t] = tasks[t]
          BY <1>b, <2>5, <3>2 DEF FetchSave, Update
        <4>2. QED
          BY <1>b, <2>a, <2>5, <3>2, <4>1 DEF FetchSave
      <3>3. QED
        BY <3>1, <3>2
    <2>6. CASE FetchPublish(w)
      <3>1. CASE fw[w].task = t
        BY <1>b, <2>6, <3>1 DEF FetchPublish, Push, Covered
      <3>2. CASE fw[w].task # t
        BY <1>b, <2>a, <2>6, <3>2 DEF FetchPublish, Push
      <3>3. QED
        BY <3>1, <3>2
    <2>7. CASE FetchAck(w)
      <3>1. tasks[t].status = "Fetched" /\ Covered(t)
        BY <1>c, <2>7 DEF FetchAck
      <3>2. \A v \in Fetchers : FetchOwes(v, t) => v # w
        BY <2>7 DEF FetchAck, FetchOwes
      <3>3. QED
        BY <1>b, <2>7, <3>1, <3>2 DEF FetchAck, Covered, FetchOwes, ParseOwes
    <2>8. QED
      BY <1>9, <2>1, <2>2, <2>3, <2>4, <2>5, <2>6, <2>7 DEF FetchStep
  <1>10. ASSUME NEW w \in Fetchers, FetchNack(w)
         PROVE  Covered(t)'
    <2>1. CASE fw[w].task = t
      BY <1>10, <1>b, <2>1 DEF FetchNack, Push, Covered
    <2>2. CASE fw[w].task # t
      <3>1. \A v \in Fetchers : v # w => fw'[v] = fw[v]
        BY <1>10, <1>b DEF FetchNack
      <3>2. crawlQ'[t] = crawlQ[t] /\ UNCHANGED <<tasks, parseQ, pw>>
        BY <1>10, <1>b, <2>2 DEF FetchNack, Push
      <3>3. QED
        BY <1>c, <2>2, <3>1, <3>2, CoveredByOthersF
    <2>3. QED
      BY <2>1, <2>2
  <1>11. ASSUME NEW p \in Parsers, NEW u \in Tasks, ParseStart(p, u)
         PROVE  Covered(t)'
    <2>1. tasks[t].status = "Fetched" /\ Exists(t) /\ Covered(t)
      BY <1>11, <1>c DEF ParseStart, Exists
    <2>2. pw[p].pc = "idle" /\ pw[p].task # t
      BY <1>11, <1>a, TasksAssumption DEF ParseStart, ParsersOK
    <2>3. CASE u = t
      <3>1. pw'[p].pc = "loaded" /\ pw'[p].task = t
        BY <1>11, <1>b, <2>1, <2>3 DEF ParseStart
      <3>2. QED
        BY <3>1 DEF Covered, ParseOwes
    <2>4. CASE u # t
      <3>1. \A q \in Parsers : q # p => pw'[q] = pw[q]
        BY <1>11, <1>b DEF ParseStart
      <3>2. parseQ'[t] = parseQ[t] /\ UNCHANGED <<crawlQ, fw>>
        BY <1>11, <1>b, <2>4 DEF ParseStart, Pop
      <3>3. QED
        BY <1>b, <2>1, <2>2, <3>1, <3>2, CoveredByOthersP
    <2>5. QED
      BY <2>3, <2>4
  <1>12. ASSUME NEW p \in Parsers, ParseStep(p)
         PROVE  Covered(t)'
    <2>a. ASSUME pw[p].task # t, tasks'[t] = tasks[t],
                 \A q \in Parsers : q # p => pw'[q] = pw[q],
                 crawlQ' = crawlQ, parseQ'[t] = parseQ[t], fw' = fw
          PROVE  Covered(t)'
      BY <1>b, <1>c, <2>a, CoveredByOthersP
    <2>b. ASSUME pw[p].pc # "idle"
          PROVE  pw[p] \in ParserState /\ pw[p].task \in Tasks /\ pw[p].row \in Row
      BY <1>a, <2>b, BusyParser
    <2>c. ASSUME NEW r, r.status # "Fetched", pw[p].pc # "idle",
                 tasks' = Update(pw[p].task, r) \/
                   \E S, d : d \in Nat /\ tasks' = BulkCreate(Update(pw[p].task, r), S, d),
                 \A q \in Parsers : q # p => pw'[q] = pw[q],
                 UNCHANGED <<crawlQ, parseQ, fw>>
          PROVE  Covered(t)'
      <3> DEFINE table == Update(pw[p].task, r)
      <3>1. table[t] = IF t = pw[p].task /\ Exists(t) THEN r ELSE tasks[t]
        BY <1>a, <2>b, <2>c, UpdateAt
      <3>2. tasks'[t] = table[t]
        <4>1. CASE tasks' = table
          BY <4>1
        <4>2. ASSUME NEW S, NEW d \in Nat, tasks' = BulkCreate(table, S, d)
              PROVE  tasks'[t] = table[t]
          <5> HIDE DEF table
          <5>1. tasks'[t] = table[t] \/ tasks'[t] = NewRow(d)
            BY <4>2, BulkCreateAt
          <5>2. QED
            BY <5>1, NewRowFields
        <4>3. QED
          BY <2>c, <4>1, <4>2
      <3> HIDE DEF table
      <3>3. pw[p].task # t /\ tasks'[t] = tasks[t]
        BY <2>c, <3>1, <3>2 DEF Exists
      <3>4. QED
        BY <2>a, <2>c, <3>3
    <2>1. CASE ParseNoPage(p)
      <3>1. CASE pw[p].task = t
        BY <1>b, <2>1, <3>1 DEF ParseNoPage, Push, Covered
      <3>2. CASE pw[p].task # t
        BY <1>b, <2>a, <2>1, <3>2 DEF ParseNoPage, Push
      <3>3. QED
        BY <3>1, <3>2
    <2>2. CASE ParseFail(p)
      <3>1. pw[p].pc # "idle" /\ MarkAsFailed(pw[p].row).status # "Fetched"
        BY <2>b, <2>2, RowFields DEF ParseFail
      <3>2. /\ \A q \in Parsers : q # p => pw'[q] = pw[q]
            /\ UNCHANGED <<crawlQ, parseQ, fw>>
            /\ tasks' = Update(pw[p].task, MarkAsFailed(pw[p].row))
        BY <1>b, <2>2 DEF ParseFail, FailParse
      <3>3. QED
        BY <2>c, <3>1, <3>2
    <2>3. CASE ParseUpload(p)
      <3>1. CASE pw[p].task = t
        <4>1. pw'[p].pc = "stamped" /\ pw'[p].task = t
          BY <1>b, <2>3, <2>b, <3>1 DEF ParseUpload, ParserState
        <4>2. QED
          BY <4>1 DEF Covered, ParseOwes
      <3>2. CASE pw[p].task # t
        BY <1>b, <2>a, <2>3, <3>2 DEF ParseUpload
      <3>3. QED
        BY <3>1, <3>2
    <2>4. CASE ParseCommit(p)
      <3> DEFINE d == pw[p].row.depth + 1
      <3>1. pw[p].pc = "stamped" /\ pw[p].row.status = "Parsed"
        BY <2>4 DEF ParseCommit, Sound, CopiesAreSound
      <3>2. d \in Nat
        BY <2>b, <3>1 DEF Row
      <3>3. /\ \A q \in Parsers : q # p => pw'[q] = pw[q]
            /\ UNCHANGED <<crawlQ, parseQ, fw>>
            /\ tasks' = BulkCreate(Update(pw[p].task, pw[p].row), NewLinks(p), d)
        BY <1>b, <2>4 DEF ParseCommit
      <3> HIDE DEF d
      <3>4. QED
        BY <2>c, <3>1, <3>2, <3>3
    <2>5. CASE ParseRollback(p)
      <3>1. pw[p].pc # "idle" /\ MarkAsFailed(pw[p].row).status # "Fetched"
        BY <2>b, <2>5, RowFields DEF ParseRollback
      <3>2. /\ \A q \in Parsers : q # p => pw'[q] = pw[q]
            /\ UNCHANGED <<crawlQ, parseQ, fw>>
            /\ tasks' = Update(pw[p].task, MarkAsFailed(pw[p].row))
        BY <1>b, <2>5 DEF ParseRollback
      <3>3. QED
        BY <2>c, <3>1, <3>2
    <2>6. ASSUME NEW c \in Tasks, ParsePublish(p, c)
          PROVE  Covered(t)'
      <3>1. pw'[p].pc = pw[p].pc /\ pw'[p].task = pw[p].task
        BY <1>b, <2>6 DEF ParsePublish, ParserState
      <3>2. \A q \in Parsers : q # p => pw'[q] = pw[q]
        BY <1>b, <2>6 DEF ParsePublish
      <3>3. crawlQ'[t] >= crawlQ[t] /\ UNCHANGED <<tasks, parseQ, fw>>
        BY <1>b, <2>6 DEF ParsePublish, Push
      <3>4. QED
        BY <1>b, <1>c, <3>1, <3>2, <3>3 DEF Covered, FetchOwes, ParseOwes
    <2>7. CASE ParseAck(p)
      <3>1. tasks[t].status = "Fetched" /\ Covered(t)
        BY <1>c, <2>7 DEF ParseAck
      <3>2. \A q \in Parsers : ParseOwes(q, t) => q # p
        BY <2>7 DEF ParseAck, ParseOwes
      <3>3. QED
        BY <1>b, <2>7, <3>1, <3>2 DEF ParseAck, Covered, FetchOwes, ParseOwes
    <2>8. QED
      BY <1>12, <2>1, <2>2, <2>3, <2>4, <2>5, <2>6, <2>7 DEF ParseStep
  <1>13. ASSUME NEW p \in Parsers, ParseNack(p)
         PROVE  Covered(t)'
    <2>1. CASE pw[p].task = t
      BY <1>13, <1>b, <2>1 DEF ParseNack, Push, Covered
    <2>2. CASE pw[p].task # t
      <3>1. \A q \in Parsers : q # p => pw'[q] = pw[q]
        BY <1>13, <1>b DEF ParseNack
      <3>2. parseQ'[t] = parseQ[t] /\ UNCHANGED <<tasks, crawlQ, fw>>
        BY <1>13, <1>b, <2>2 DEF ParseNack, Push
      <3>3. QED
        BY <1>b, <1>c, <2>2, <3>1, <3>2, CoveredByOthersP
    <2>3. QED
      BY <2>1, <2>2
  <1>14. CASE ExportStep
    <2>1. CASE ExportSelect \/ ExportRead \/ ExportJSON
      BY <1>0, <1>b, <2>1 DEF ExportSelect, ExportRead, ExportJSON
    <2>2. CASE ExportFinish
      <3>1. tasks[t].status = "Fetched"
        BY <1>b, <2>2, RowFields DEF ExportFinish
      <3>2. \A w \in Fetchers : fw'[w].task = fw[w].task /\ fw'[w].pc = fw[w].pc
        BY <1>b, <2>2 DEF ExportFinish, FetcherState
      <3>3. \A p \in Parsers : pw'[p].task = pw[p].task /\ pw'[p].pc = pw[p].pc
        BY <1>b, <2>2 DEF ExportFinish, ParserState
      <3>4. UNCHANGED <<crawlQ, parseQ>>
        BY <2>2 DEF ExportFinish
      <3>5. QED
        BY <1>c, <3>1, <3>2, <3>3, <3>4 DEF Covered, FetchOwes, ParseOwes
    <2>3. QED
      BY <1>14, <2>1, <2>2 DEF ExportStep
  <1>15. CASE ExportFail
    BY <1>0, <1>15, <1>b DEF ExportFail, FailExport
  <1>16. CASE ExportAbort
    BY <1>0, <1>16, <1>b DEF ExportAbort
  <1>17. CASE UNCHANGED vars
    BY <1>0, <1>17, <1>b DEF vars
  <1>18. QED
    BY <1>1, <1>2, <1>3, <1>4, <1>5, <1>6, <1>7, <1>8, <1>9, <1>10, <1>11,
       <1>12, <1>13, <1>14, <1>15, <1>16, <1>17 DEF Next, Work

\* THEOREM.  In every reachable state a Fetched task has a message or a handler
\* that will settle it: the fetcher publishes after its save, or is redelivered.
THEOREM FetchedNeverForgotten == Spec => []FetchedIsCovered
  <1>1. Init => Sound /\ FetchedIsCovered
    BY SoundInit, NewRowFields DEF Init, FetchedIsCovered
  <1>2. Sound /\ FetchedIsCovered /\ [Next]_vars => (Sound /\ FetchedIsCovered)'
    BY SoundStep, TypeStep, CoveredStep DEF Sound
  <1>3. QED
    BY <1>1, <1>2, PTL DEF Spec

-----------------------------------------------------------------------------
(* 3. FrontierClosed: a Parsed page has a row for each of its links.       *)

Frontier == Sound /\ DepthsAgree /\ FrontierClosed

\* No row disappears and none changes its depth.
Kept ==
  \A t \in Tasks : Exists(t) => Exists(t)' /\ tasks'[t].depth = tasks[t].depth

\* A table whose rows are kept, and in which no row became Parsed, still has
\* the links of every Parsed page.
LEMMA FrontierKept ==
  ASSUME FrontierClosed, Kept,
         \A t \in Tasks : tasks'[t].status = "Parsed" => tasks[t].status = "Parsed"
  PROVE  FrontierClosed'
  <1> SUFFICES ASSUME NEW t \in Tasks, tasks'[t].status = "Parsed",
                      NEW c \in PreparedLinks(t, tasks'[t].depth)
               PROVE  Exists(c)'
    BY DEF FrontierClosed, PreparedLinks, InScope
  <1>1. tasks[t].status = "Parsed" /\ tasks'[t].depth = tasks[t].depth
    BY DEF Kept, Exists
  <1>2. c \in Tasks /\ Exists(c)
    BY <1>1, TasksAssumption DEF FrontierClosed, PreparedLinks
  <1>3. QED
    BY <1>2 DEF Kept

\* A full-row update with a row of the same depth keeps every row.
LEMMA UpdateKeeps ==
  ASSUME TypeOK, NEW u \in Tasks, NEW r, r.status # "Absent",
         Exists(u) => r.depth = tasks[u].depth,
         tasks' = Update(u, r)
  PROVE  /\ Kept
         /\ \A t \in Tasks : Exists(t)' => Exists(t)
         /\ \A t \in Tasks : tasks'[t] = tasks[t] \/ tasks'[t] = r
  <1>1. \A t \in Tasks : tasks'[t] = IF t = u /\ Exists(u) THEN r ELSE tasks[t]
    BY UpdateAt
  <1>2. QED
    BY <1>1 DEF Kept, Exists

\* No step breaks the agreement on depths or leaves a Parsed page without links.
LEMMA FrontierStep ==
  Frontier /\ [Next]_vars => (DepthsAgree /\ FrontierClosed)'
  <1> SUFFICES ASSUME Frontier, [Next]_vars
               PROVE  (DepthsAgree /\ FrontierClosed)'
    OBVIOUS
  <1>a. Sound /\ TypeOK /\ FetchersOK /\ ParsersOK
    BY DEF Frontier, Sound, TypeOK, FetchersOK, ParsersOK
  <1>b. /\ tasks \in [Tasks -> Row]
        /\ fw \in [Fetchers -> FetcherState]
        /\ pw \in [Parsers -> ParserState]
    BY <1>a DEF TypeOK
  <1>0. ASSUME UNCHANGED <<tasks, fw, pw>>, job'.state = job.state
        PROVE  (DepthsAgree /\ FrontierClosed)'
    BY <1>0 DEF Frontier, DepthsAgree, Current, FrontierClosed, Exists
  <1>c. ASSUME Kept, job' = job, \A t \in Tasks : Exists(t)' => Exists(t)
        PROVE  /\ \A t \in Tasks : Exists(t)' => job'.state = "active"
               /\ \A t \in Tasks : \A row : Current(t, row) =>
                    \/ job'.state = "deleted"
                    \/ Exists(t)' /\ row.depth = tasks'[t].depth
    BY <1>c DEF Frontier, DepthsAgree, Current, Kept
  <1>d. ASSUME Kept, job' = job, \A t \in Tasks : Exists(t)' => Exists(t),
               NEW w \in Fetchers, NEW x, fw' = [fw EXCEPT ![w] = x], pw' = pw,
               x.pc \in {"loaded", "stored"} => x.task \in Tasks /\ Current(x.task, x.row)
        PROVE  DepthsAgree'
    <2>1. fw'[w] = x /\ \A v \in Fetchers : v # w => fw'[v] = fw[v]
      BY <1>b, <1>d
    <2>2. \A v \in Fetchers : fw[v].pc \in {"loaded", "stored"} => fw[v].task \in Tasks
      BY <1>a, BusyFetcher
    <2>3. \A q \in Parsers : pw[q].pc \in {"loaded", "stamped"} => pw[q].task \in Tasks
      BY <1>a, BusyParser
    <2>4. QED
      BY <1>c, <1>d, <2>1, <2>2, <2>3 DEF Frontier, DepthsAgree, Current
  <1>e. ASSUME Kept, job' = job, \A t \in Tasks : Exists(t)' => Exists(t),
               NEW p \in Parsers, NEW x, pw' = [pw EXCEPT ![p] = x], fw' = fw,
               x.pc \in {"loaded", "stamped"} => x.task \in Tasks /\ Current(x.task, x.row)
        PROVE  DepthsAgree'
    <2>1. pw'[p] = x /\ \A q \in Parsers : q # p => pw'[q] = pw[q]
      BY <1>b, <1>e
    <2>2. \A v \in Fetchers : fw[v].pc \in {"loaded", "stored"} => fw[v].task \in Tasks
      BY <1>a, BusyFetcher
    <2>3. \A q \in Parsers : pw[q].pc \in {"loaded", "stamped"} => pw[q].task \in Tasks
      BY <1>a, BusyParser
    <2>4. QED
      BY <1>c, <1>e, <2>1, <2>2, <2>3 DEF Frontier, DepthsAgree, Current
  <1>f. ASSUME tasks' = tasks
        PROVE  Kept /\ (\A t \in Tasks : Exists(t)' => Exists(t)) /\ FrontierClosed'
    BY <1>f DEF Kept, Exists, Frontier, FrontierClosed
  <1>1. CASE CreateCrawlJob
    <2>1. \A t \in Tasks : ~Exists(t)
      BY <1>1 DEF CreateCrawlJob, EventsCreated, Frontier, DepthsAgree
    <2>2. \A t \in Tasks : tasks'[t] = tasks[t] \/ tasks'[t] = NewRow(0)
      BY <1>1 DEF CreateCrawlJob, EventsCreated, BulkCreate
    <2>3. FrontierClosed'
      BY <2>1, <2>2, NewRowFields DEF FrontierClosed, Exists
    <2>4. /\ \A w \in Fetchers : fw[w].pc \notin {"loaded", "stored"}
          /\ \A p \in Parsers : pw[p].pc \notin {"loaded", "stamped"}
      <3>1. ASSUME NEW w \in Fetchers, fw[w].pc \in {"loaded", "stored"}
            PROVE  FALSE
        BY <1>1, <1>a, <2>1, <3>1, BusyFetcher DEF CreateCrawlJob, EventsCreated, Frontier, DepthsAgree, Current
      <3>2. ASSUME NEW p \in Parsers, pw[p].pc \in {"loaded", "stamped"}
            PROVE  FALSE
        BY <1>1, <1>a, <2>1, <3>2, BusyParser DEF CreateCrawlJob, EventsCreated, Frontier, DepthsAgree, Current
      <3>3. QED
        BY <3>1, <3>2
    <2>5. job'.state = "active" /\ UNCHANGED <<fw, pw>>
      BY <1>1, <1>a DEF CreateCrawlJob, EventsCreated, TypeOK
    <2>6. QED
      BY <2>3, <2>4, <2>5 DEF DepthsAgree
  <1>2. CASE DeleteCrawlJob
    <2>1. \A t \in Tasks : ~Exists(t)' /\ tasks'[t].status # "Parsed"
      BY <1>2, NewRowFields DEF DeleteCrawlJob, Exists
    <2>2. job'.state = "deleted" /\ UNCHANGED <<fw, pw>>
      BY <1>2, <1>a DEF DeleteCrawlJob, TypeOK
    <2>3. QED
      BY <2>1, <2>2 DEF DepthsAgree, Current, FrontierClosed
  <1>3. CASE OutboxFetch
    BY <1>0, <1>3 DEF OutboxFetch
  <1>4. ASSUME NEW t \in Tasks, OutboxPublish(t)
        PROVE  (DepthsAgree /\ FrontierClosed)'
    BY <1>0, <1>4 DEF OutboxPublish
  <1>5. CASE OutboxCommit
    BY <1>0, <1>5 DEF OutboxCommit
  <1>6. CASE OutboxAbort
    BY <1>0, <1>6 DEF OutboxAbort
  <1>7. ASSUME NEW t \in Tasks, RecoverStale(t)
        PROVE  (DepthsAgree /\ FrontierClosed)'
    BY <1>0, <1>7 DEF RecoverStale
  <1>8. ASSUME NEW w \in Fetchers, NEW t \in Tasks, FetchStart(w, t)
        PROVE  (DepthsAgree /\ FrontierClosed)'
    <2>1. CASE ~Exists(t)
      BY <1>0, <1>8, <2>1 DEF FetchStart
    <2>2. CASE Exists(t)
      <3> DEFINE x == [pc |-> "loaded", task |-> t, row |-> CopyOf(tasks[t])]
      <3>1. fw' = [fw EXCEPT ![w] = x] /\ UNCHANGED <<tasks, job, pw>>
        BY <1>8, <2>2 DEF FetchStart
      <3>2. tasks[t] \in Row
        BY <1>b
      <3>3. x.task = t /\ Current(x.task, x.row)
        BY <2>2, <3>2, RowFields DEF Current
      <3> HIDE DEF x
      <3>4. DepthsAgree'
        BY <1>d, <1>f, <3>1, <3>3
      <3>5. QED
        BY <1>f, <3>1, <3>4
    <2>3. QED
      BY <2>1, <2>2
  <1>9. ASSUME NEW w \in Fetchers, FetchStep(w)
        PROVE  (DepthsAgree /\ FrontierClosed)'
    <2>a. fw[w].pc # "idle"
      BY <1>9 DEF FetchStep, FetchReject, FetchFail, FetchInvalidURL, FetchStore,
                  FetchSave, FetchPublish, FetchAck
    <2>b. fw[w] \in FetcherState /\ fw[w].task \in Tasks /\ fw[w].row \in Row
      BY <1>a, <2>a, BusyFetcher
    <2>c. ASSUME NEW r, r.status \notin {"Absent", "Parsed"}, r.depth = fw[w].row.depth,
                 fw[w].pc \in {"loaded", "stored"}, tasks' = Update(fw[w].task, r),
                 NEW pc \in {"saved", "done"},
                 fw' = [fw EXCEPT ![w] = [@ EXCEPT !.pc = pc, !.row = NoRow]],
                 UNCHANGED <<job, pw>>
          PROVE  (DepthsAgree /\ FrontierClosed)'
      <3>1. Current(fw[w].task, fw[w].row)
        BY <2>c DEF Frontier, DepthsAgree
      <3>2. Exists(fw[w].task) => r.depth = tasks[fw[w].task].depth
        BY <2>b, <2>c, <3>1 DEF Current, Frontier, DepthsAgree
      <3>3. /\ Kept
            /\ \A t \in Tasks : Exists(t)' => Exists(t)
            /\ \A t \in Tasks : tasks'[t] = tasks[t] \/ tasks'[t] = r
        BY <1>a, <2>b, <2>c, <3>2, UpdateKeeps
      <3>4. FrontierClosed'
        BY <2>c, <3>3, FrontierKept DEF Frontier
      <3> DEFINE x == [fw[w] EXCEPT !.pc = pc, !.row = NoRow]
      <3>5. x.pc = pc /\ fw' = [fw EXCEPT ![w] = x]
        BY <2>b, <2>c DEF FetcherState
      <3> HIDE DEF x
      <3>6. DepthsAgree'
        BY <1>d, <2>c, <3>3, <3>5
      <3>7. QED
        BY <3>4, <3>6
    <2>d. ASSUME FailTask(w), fw[w].pc = "loaded"
          PROVE  (DepthsAgree /\ FrontierClosed)'
      <3>1. MarkAsFailed(fw[w].row).status = "Failed" /\ MarkAsFailed(fw[w].row).depth = fw[w].row.depth
        BY <2>b, RowFields
      <3>2. QED
        BY <2>c, <2>d, <3>1 DEF FailTask
    <2>e. ASSUME NEW x, x.pc \notin {"loaded", "stored"},
                 fw' = [fw EXCEPT ![w] = x], UNCHANGED <<tasks, job, pw>>
          PROVE  (DepthsAgree /\ FrontierClosed)'
      <3>1. DepthsAgree'
        BY <1>d, <1>f, <2>e
      <3>2. QED
        BY <1>f, <2>e, <3>1
    <2>f. IdleFetcher.pc = "idle"
      BY DEF IdleFetcher
    <2>1. CASE FetchReject(w)
      BY <2>d, <2>1 DEF FetchReject
    <2>2. CASE FetchFail(w)
      BY <2>d, <2>2 DEF FetchFail
    <2>3. CASE FetchInvalidURL(w)
      BY <2>e, <2>f, <2>3 DEF FetchInvalidURL
    <2>4. CASE FetchStore(w)
      <3> DEFINE x == [fw[w] EXCEPT !.pc = "stored"]
      <3>1. fw' = [fw EXCEPT ![w] = x] /\ UNCHANGED <<tasks, job, pw>>
        BY <2>4 DEF FetchStore
      <3>2. x.task = fw[w].task /\ x.row = fw[w].row
        BY <2>b DEF FetcherState
      <3>3. Current(fw[w].task, fw[w].row)
        BY <2>4 DEF FetchStore, Frontier, DepthsAgree
      <3> HIDE DEF x
      <3>4. DepthsAgree'
        BY <1>d, <1>f, <2>b, <3>1, <3>2, <3>3
      <3>5. QED
        BY <1>f, <3>1, <3>4
    <2>5. CASE FetchSave(w)
      <3>1. MarkAsFetched(fw[w].row).status = "Fetched" /\ MarkAsFetched(fw[w].row).depth = fw[w].row.depth
        BY <2>b, RowFields
      <3>2. QED
        BY <2>c, <2>5, <3>1 DEF FetchSave
    <2>6. CASE FetchPublish(w)
      <3> DEFINE x == [fw[w] EXCEPT !.pc = "done"]
      <3>1. fw' = [fw EXCEPT ![w] = x] /\ UNCHANGED <<tasks, job, pw>> /\ x.pc = "done"
        BY <2>b, <2>6 DEF FetchPublish, FetcherState
      <3> HIDE DEF x
      <3>2. QED
        BY <2>e, <3>1
    <2>7. CASE FetchAck(w)
      BY <2>e, <2>f, <2>7 DEF FetchAck
    <2>8. QED
      BY <1>9, <2>1, <2>2, <2>3, <2>4, <2>5, <2>6, <2>7 DEF FetchStep
  <1>10. ASSUME NEW w \in Fetchers, FetchNack(w)
         PROVE  (DepthsAgree /\ FrontierClosed)'
    <2>1. /\ fw' = [fw EXCEPT ![w] = IdleFetcher] /\ IdleFetcher.pc = "idle"
          /\ UNCHANGED <<tasks, job, pw>>
      BY <1>10 DEF FetchNack, IdleFetcher
    <2>2. DepthsAgree'
      BY <1>d, <1>f, <2>1
    <2>3. QED
      BY <1>f, <2>1, <2>2
  <1>11. ASSUME NEW p \in Parsers, NEW t \in Tasks, ParseStart(p, t)
         PROVE  (DepthsAgree /\ FrontierClosed)'
    <2>1. CASE ~(Exists(t) /\ tasks[t].status # "Parsed")
      BY <1>0, <1>11, <2>1 DEF ParseStart
    <2>2. CASE Exists(t) /\ tasks[t].status # "Parsed"
      <3> DEFINE x == [pc |-> "loaded", task |-> t, row |-> CopyOf(tasks[t]), todo |-> {}]
      <3>1. pw' = [pw EXCEPT ![p] = x] /\ UNCHANGED <<tasks, job, fw>>
        BY <1>11, <2>2 DEF ParseStart
      <3>2. tasks[t] \in Row
        BY <1>b
      <3>3. x.task = t /\ Current(x.task, x.row)
        BY <2>2, <3>2, RowFields DEF Current
      <3> HIDE DEF x
      <3>4. DepthsAgree'
        BY <1>e, <1>f, <3>1, <3>3
      <3>5. QED
        BY <1>f, <3>1, <3>4
    <2>3. QED
      BY <2>1, <2>2
  <1>12. ASSUME NEW p \in Parsers, ParseStep(p)
         PROVE  (DepthsAgree /\ FrontierClosed)'
    <2>b. ASSUME pw[p].pc # "idle"
          PROVE  pw[p] \in ParserState /\ pw[p].task \in Tasks /\ pw[p].row \in Row
      BY <1>a, <2>b, BusyParser
    <2>c. ASSUME pw[p].pc \in {"loaded", "stamped"}
          PROVE  /\ Current(pw[p].task, pw[p].row)
                 /\ Exists(pw[p].task) => pw[p].row.depth = tasks[pw[p].task].depth
      BY <2>b, <2>c DEF Current, Frontier, DepthsAgree
    <2>d. ASSUME pw[p].pc \in {"loaded", "stamped"},
                 tasks' = Update(pw[p].task, MarkAsFailed(pw[p].row)),
                 pw' = [pw EXCEPT ![p] = [@ EXCEPT !.pc = "done", !.row = NoRow]],
                 UNCHANGED <<job, fw>>
          PROVE  (DepthsAgree /\ FrontierClosed)'
      <3> DEFINE r == MarkAsFailed(pw[p].row)
                 x == [pw[p] EXCEPT !.pc = "done", !.row = NoRow]
      <3>1. r.status = "Failed" /\ r.depth = pw[p].row.depth
        BY <2>b, <2>d, RowFields
      <3>2. x.pc = "done" /\ pw' = [pw EXCEPT ![p] = x] /\ tasks' = Update(pw[p].task, r)
        BY <2>b, <2>d DEF ParserState
      <3> HIDE DEF r, x
      <3>3. /\ Kept
            /\ \A t \in Tasks : Exists(t)' => Exists(t)
            /\ \A t \in Tasks : tasks'[t] = tasks[t] \/ tasks'[t] = r
        BY <1>a, <2>b, <2>c, <2>d, <3>1, <3>2, UpdateKeeps
      <3>4. FrontierClosed'
        BY <3>1, <3>3, FrontierKept DEF Frontier
      <3>5. DepthsAgree'
        BY <1>e, <2>d, <3>2, <3>3
      <3>6. QED
        BY <3>4, <3>5
    <2>e. ASSUME NEW x, pw' = [pw EXCEPT ![p] = x], UNCHANGED <<tasks, job, fw>>,
                 x.pc \in {"loaded", "stamped"} => x.task \in Tasks /\ Current(x.task, x.row)
          PROVE  (DepthsAgree /\ FrontierClosed)'
      <3>1. DepthsAgree'
        BY <1>e, <1>f, <2>e
      <3>2. QED
        BY <1>f, <2>e, <3>1
    <2>f. IdleParser.pc = "idle"
      BY DEF IdleParser
    <2>1. CASE ParseNoPage(p)
      BY <2>e, <2>f, <2>1 DEF ParseNoPage
    <2>2. CASE ParseFail(p)
      BY <2>d, <2>2 DEF ParseFail, FailParse
    <2>3. CASE ParseUpload(p)
      <3> DEFINE x == [pw[p] EXCEPT !.pc = "stamped", !.row = MarkAsParsed(pw[p].row)]
      <3>1. pw' = [pw EXCEPT ![p] = x] /\ UNCHANGED <<tasks, job, fw>> /\ pw[p].pc = "loaded"
        BY <2>3 DEF ParseUpload
      <3>2. x.task = pw[p].task /\ x.row = MarkAsParsed(pw[p].row)
        BY <2>b, <3>1 DEF ParserState
      <3> HIDE DEF x
      <3>3. x.row.depth = pw[p].row.depth
        BY <2>b, <3>1, <3>2, RowFields
      <3>4. x.task \in Tasks /\ Current(x.task, x.row)
        BY <2>b, <2>c, <3>1, <3>2, <3>3 DEF Current
      <3>5. QED
        BY <2>e, <3>1, <3>4
    <2>4. CASE ParseCommit(p)
      <3> DEFINE u == pw[p].task
                 r == pw[p].row
                 d == pw[p].row.depth + 1
                 x == [pw[p] EXCEPT !.pc = "done", !.row = NoRow,
                                    !.todo = Inserted(tasks, NewLinks(p))]
      <3>1. /\ pw[p].pc = "stamped" /\ UNCHANGED <<job, fw>>
            /\ job.state = "active" \/ NewLinks(p) = {}
            /\ tasks' = BulkCreate(Update(u, r), NewLinks(p), d)
            /\ pw' = [pw EXCEPT ![p] = x]
        BY <2>4 DEF ParseCommit
      <3>2. u \in Tasks /\ r \in Row /\ d \in Nat /\ x.pc = "done"
        BY <2>b, <3>1 DEF Row, ParserState
      <3>3. r.status = "Parsed"
        BY <1>a, <3>1 DEF Sound, CopiesAreSound
      <3>4. Current(u, r) /\ (Exists(u) => r.depth = tasks[u].depth)
        BY <2>c, <3>1
      <3>5. ASSUME NEW t \in Tasks
            PROVE  tasks'[t] = IF t = u /\ Exists(u) THEN r
                               ELSE IF t \in NewLinks(p) /\ ~Exists(t) THEN NewRow(d)
                               ELSE tasks[t]
        <4> DEFINE table == Update(u, r)
        <4>1. table[t] = IF t = u /\ Exists(u) THEN r ELSE tasks[t]
          BY <1>a, <3>2, UpdateAt
        <4>2. tasks' = BulkCreate(table, NewLinks(p), d)
          BY <3>1
        <4> HIDE DEF table
        <4>3. tasks'[t] = IF t \in NewLinks(p) /\ table[t].status = "Absent"
                          THEN NewRow(d) ELSE table[t]
          BY <4>2, BulkCreateAt
        <4>4. QED
          BY <3>3, <4>1, <4>3 DEF Exists
      <3>6. NewLinks(p) = PreparedLinks(u, r.depth)
        BY DEF NewLinks
      <3>7. NewRow(d).status = "InProgress"
        BY <3>2, NewRowFields
      <3>8. x.pc = "done"
        BY <3>2
      <3> HIDE DEF u, r, d, x
      <3>9. Kept
        BY <3>3, <3>4, <3>5 DEF Kept, Exists
      <3>10. \A t \in Tasks : Exists(t)' => Exists(t) \/ t \in NewLinks(p)
        BY <3>5 DEF Exists
      <3>11. FrontierClosed'
        <4> SUFFICES ASSUME NEW t \in Tasks, tasks'[t].status = "Parsed",
                            NEW c \in PreparedLinks(t, tasks'[t].depth)
                     PROVE  Exists(c)'
          BY DEF FrontierClosed, PreparedLinks, InScope
        <4>1. c \in Tasks
          BY TasksAssumption DEF PreparedLinks
        <4>2. CASE t = u /\ Exists(u)
          <5>1. tasks'[t].depth = r.depth
            BY <3>5, <4>2
          <5>2. c \in NewLinks(p)
            BY <3>6, <4>2, <5>1
          <5>3. QED
            BY <3>3, <3>5, <3>7, <4>1, <5>2 DEF Exists
        <4>3. CASE ~(t = u /\ Exists(u))
          <5>1. tasks'[t] = tasks[t]
            BY <3>5, <3>7, <4>3
          <5>2. Exists(c)
            BY <5>1 DEF Frontier, FrontierClosed
          <5>3. QED
            BY <3>9, <4>1, <5>2 DEF Kept
        <4>4. QED
          BY <4>2, <4>3
      <3>12. DepthsAgree'
        <4>1. \A t \in Tasks : Exists(t)' => job'.state = "active"
          BY <3>1, <3>10 DEF Frontier, DepthsAgree
        <4>2. \A t \in Tasks : \A row : Current(t, row) =>
                \/ job'.state = "deleted"
                \/ Exists(t)' /\ row.depth = tasks'[t].depth
          BY <3>1, <3>9 DEF Current, Kept
        <4>3. pw'[p] = x /\ \A q \in Parsers : q # p => pw'[q] = pw[q]
          BY <1>b, <3>1
        <4>4. \A v \in Fetchers : fw[v].pc \in {"loaded", "stored"} => fw[v].task \in Tasks
          BY <1>a, BusyFetcher
        <4>5. \A q \in Parsers : pw[q].pc \in {"loaded", "stamped"} => pw[q].task \in Tasks
          BY <1>a, BusyParser
        <4>6. QED
          BY <3>1, <3>8, <4>1, <4>2, <4>3, <4>4, <4>5 DEF Frontier, DepthsAgree, Current
      <3>13. QED
        BY <3>11, <3>12
    <2>5. CASE ParseRollback(p)
      BY <2>d, <2>5 DEF ParseRollback
    <2>6. ASSUME NEW c \in Tasks, ParsePublish(p, c)
          PROVE  (DepthsAgree /\ FrontierClosed)'
      <3> DEFINE x == [pw[p] EXCEPT !.todo = pw[p].todo \ {c}]
      <3>1. pw' = [pw EXCEPT ![p] = x] /\ UNCHANGED <<tasks, job, fw>>
        BY <2>6 DEF ParsePublish
      <3>2. x.task = pw[p].task /\ x.row = pw[p].row /\ x.pc = pw[p].pc
        BY <1>b DEF ParserState
      <3> HIDE DEF x
      <3>3. x.pc \in {"loaded", "stamped"} => x.task \in Tasks /\ Current(x.task, x.row)
        BY <2>b, <2>c, <3>2
      <3>4. QED
        BY <2>e, <3>1, <3>3
    <2>7. CASE ParseAck(p)
      BY <2>e, <2>f, <2>7 DEF ParseAck
    <2>8. QED
      BY <1>12, <2>1, <2>2, <2>3, <2>4, <2>5, <2>6, <2>7 DEF ParseStep
  <1>13. ASSUME NEW p \in Parsers, ParseNack(p)
         PROVE  (DepthsAgree /\ FrontierClosed)'
    <2>1. /\ pw' = [pw EXCEPT ![p] = IdleParser] /\ IdleParser.pc = "idle"
          /\ UNCHANGED <<tasks, job, fw>>
      BY <1>13 DEF ParseNack, IdleParser
    <2>2. DepthsAgree'
      BY <1>e, <1>f, <2>1
    <2>3. QED
      BY <1>f, <2>1, <2>2
  <1>14. CASE ExportStep
    <2>1. CASE ExportSelect \/ ExportRead \/ ExportJSON
      BY <1>0, <2>1 DEF ExportSelect, ExportRead, ExportJSON
    <2>2. CASE ExportFinish
      <3>1. \A t \in Tasks : tasks'[t].status = tasks[t].status /\ tasks'[t].depth = tasks[t].depth
        BY <1>b, <2>2, RowFields DEF ExportFinish
      <3>2. ASSUME NEW w \in Fetchers
            PROVE  /\ fw'[w].task = fw[w].task /\ fw'[w].pc = fw[w].pc
                   /\ fw'[w].row.depth = fw[w].row.depth
                   /\ fw[w].pc # "idle" => fw[w].task \in Tasks
        <4>1. fw[w].row \in Row /\ fw'[w].row = Aged(fw[w].row)
          BY <1>b, <2>2 DEF ExportFinish, FetcherState
        <4>2. fw'[w].task = fw[w].task /\ fw'[w].pc = fw[w].pc
          BY <1>b, <2>2 DEF ExportFinish, FetcherState
        <4>3. QED
          BY <1>a, <4>1, <4>2, RowFields, BusyFetcher
      <3>3. ASSUME NEW p \in Parsers
            PROVE  /\ pw'[p].task = pw[p].task /\ pw'[p].pc = pw[p].pc
                   /\ pw'[p].row.depth = pw[p].row.depth
                   /\ pw[p].pc # "idle" => pw[p].task \in Tasks
        <4>1. pw[p].row \in Row /\ pw'[p].row = Aged(pw[p].row)
          BY <1>b, <2>2 DEF ExportFinish, ParserState
        <4>2. pw'[p].task = pw[p].task /\ pw'[p].pc = pw[p].pc
          BY <1>b, <2>2 DEF ExportFinish, ParserState
        <4>3. QED
          BY <1>a, <4>1, <4>2, RowFields, BusyParser
      <3>4. job'.state = job.state
        BY <1>a, <2>2 DEF ExportFinish, TypeOK
      <3>5. FrontierClosed'
        BY <3>1, FrontierKept DEF Frontier, Kept, Exists
      <3>6. DepthsAgree'
        BY <3>1, <3>2, <3>3, <3>4 DEF Frontier, DepthsAgree, Current, Exists
      <3>7. QED
        BY <3>5, <3>6
    <2>3. QED
      BY <1>14, <2>1, <2>2 DEF ExportStep
  <1>15. CASE ExportFail
    BY <1>0, <1>15, <1>a DEF ExportFail, FailExport, TypeOK
  <1>16. CASE ExportAbort
    BY <1>0, <1>16 DEF ExportAbort
  <1>17. CASE UNCHANGED vars
    BY <1>0, <1>17 DEF vars
  <1>18. QED
    BY <1>1, <1>2, <1>3, <1>4, <1>5, <1>6, <1>7, <1>8, <1>9, <1>10, <1>11,
       <1>12, <1>13, <1>14, <1>15, <1>16, <1>17 DEF Next, Work

LEMMA FrontierInvariant == Spec => []Frontier
  <1>1. Init => DepthsAgree /\ FrontierClosed
    BY NewRowFields
    DEF Init, DepthsAgree, FrontierClosed, Exists, IdleFetcher, IdleParser
  <1>2. Init => Frontier
    BY <1>1, SoundInit DEF Frontier
  <1>3. Frontier /\ [Next]_vars => Frontier'
    BY FrontierStep, SoundStep, TypeStep DEF Frontier, Sound
  <1>4. QED
    BY <1>2, <1>3, PTL DEF Spec

\* THEOREM.  Whenever a page counts as Parsed, each of its in-scope links within
\* the depth limit has a row: the parser's transaction marks and inserts as one.
THEOREM FrontierAlwaysClosed == Spec => []FrontierClosed
  <1>1. Frontier => FrontierClosed
    BY DEF Frontier
  <1>2. QED
    BY <1>1, FrontierInvariant, PTL

-----------------------------------------------------------------------------
(* What a step of a handler changes, field by field.                        *)

\* The row of t becomes one with this status and this key, if there is a row.
Written(t, status, key) ==
  \A u \in Tasks :
    IF u = t /\ Exists(t) THEN tasks'[u].status = status /\ (tasks'[u].key <=> key)
    ELSE tasks'[u] = tasks[u]

\* Fetch handler w comes to pc with its task; no other one moves.
FetcherAt(w, pc) ==
  /\ fw'[w].pc = pc /\ fw'[w].task = fw[w].task
  /\ \A v \in Fetchers \ {w} : fw'[v] = fw[v]

\* Parser handler p comes to pc with its task and these messages to publish.
ParserAt(p, pc, todo) ==
  /\ pw'[p].pc = pc /\ pw'[p].task = pw[p].task /\ pw'[p].todo = todo
  /\ \A q \in Parsers \ {p} : pw'[q] = pw[q]

\* One message more, or one less, for t.
Added(q, r, t) == r[t] = q[t] + 1 /\ \A u \in Tasks \ {t} : r[u] = q[u]

LEMMA PushAdds ==
  ASSUME NEW q \in [Tasks -> Nat], NEW t \in Tasks
  PROVE  Added(q, Push(q, t), t) /\ (q[t] > 0 => Added(Pop(q, t), q, t))
  BY DEF Push, Pop, Added

LEMMA FetcherMoves ==
  ASSUME FetchersOK, NEW w \in Fetchers, fw[w].pc # "idle",
         NEW pc \in {"stored", "saved", "done"}, NEW row \in Row,
         \/ fw' = [fw EXCEPT ![w] = [@ EXCEPT !.pc = pc, !.row = row]]
         \/ fw' = [fw EXCEPT ![w] = [@ EXCEPT !.pc = pc]] /\ row = fw[w].row
  PROVE  FetcherAt(w, pc) /\ fw'[w].row = row
  <1>1. fw \in [Fetchers -> FetcherState] /\ fw[w] \in FetcherState
    BY DEF FetchersOK
  <1>2. fw'[w] = [fw[w] EXCEPT !.pc = pc, !.row = row] \/ (fw'[w] = [fw[w] EXCEPT !.pc = pc] /\ row = fw[w].row)
    BY <1>1
  <1>3. fw'[w].pc = pc /\ fw'[w].task = fw[w].task /\ fw'[w].row = row
    BY <1>1, <1>2 DEF FetcherState
  <1>4. QED
    BY <1>1, <1>3 DEF FetcherAt

LEMMA ParserMoves ==
  ASSUME ParsersOK, NEW p \in Parsers, pw[p].pc # "idle",
         NEW pc \in {"stamped", "done"}, NEW row \in Row, NEW todo \in SUBSET Tasks,
         pw' = [pw EXCEPT ![p] = [@ EXCEPT !.pc = pc, !.row = row, !.todo = todo]]
  PROVE  ParserAt(p, pc, todo)
  <1>1. pw \in [Parsers -> ParserState] /\ pw[p] \in ParserState
    BY DEF ParsersOK
  <1>2. QED
    BY <1>1 DEF ParserAt, ParserState

LEMMA UpdateWrites ==
  ASSUME TypeOK, NEW t \in Tasks, NEW r \in Row, tasks' = Update(t, r)
  PROVE  Written(t, r.status, r.key)
  BY UpdateAt DEF Written

\* The handlers as FetchStep moves them.
FetchMoves(w) ==
  LET t == fw[w].task IN
  /\ t \in Tasks /\ fw[w].pc # "idle"
  /\ \/ /\ fw[w].pc = "loaded" /\ FetcherAt(w, "done")
        /\ Written(t, "Failed", fw[w].row.key) /\ UNCHANGED <<crawlQ, parseQ>>
     \/ /\ fw[w].pc = "loaded" /\ fw' = [fw EXCEPT ![w] = IdleFetcher]
        /\ Added(crawlQ, crawlQ', t) /\ UNCHANGED <<tasks, parseQ>>
     \/ /\ fw[w].pc = "loaded" /\ FetcherAt(w, "stored") /\ fw'[w].row = fw[w].row
        /\ UNCHANGED <<tasks, crawlQ, parseQ>>
     \/ /\ fw[w].pc = "stored" /\ FetcherAt(w, "saved")
        /\ Written(t, "Fetched", TRUE) /\ UNCHANGED <<crawlQ, parseQ>>
     \/ /\ fw[w].pc = "saved" /\ FetcherAt(w, "done")
        /\ Added(parseQ, parseQ', t) /\ UNCHANGED <<tasks, crawlQ>>
     \/ /\ fw[w].pc = "done" /\ fw' = [fw EXCEPT ![w] = IdleFetcher]
        /\ UNCHANGED <<tasks, crawlQ, parseQ>>
  /\ UNCHANGED <<job, outbox, report, pub, pw, ex, faults>>

LEMMA FetchStepMoves ==
  ASSUME Sound, NEW w \in Fetchers, FetchStep(w)
  PROVE  FetchMoves(w)
  <1>a. /\ TypeOK /\ FetchersOK /\ tasks \in [Tasks -> Row]
        /\ crawlQ \in [Tasks -> Nat] /\ parseQ \in [Tasks -> Nat]
    BY DEF Sound, TypeOK, FetchersOK
  <1>b. fw[w].pc # "idle"
    BY DEF FetchStep, FetchReject, FetchFail, FetchInvalidURL, FetchStore, FetchSave, FetchPublish, FetchAck
  <1>c. fw[w].task \in Tasks /\ fw[w].row \in Row
    BY <1>a, <1>b, BusyFetcher
  <1> DEFINE t == fw[w].task
  <1>d. NoRow \in Row /\ MarkAsFailed(fw[w].row) \in Row /\ MarkAsFetched(fw[w].row) \in Row
    BY <1>c, RowTypes
  <1>1. CASE FetchReject(w) \/ FetchFail(w)
    <2>1. FailTask(w) /\ fw[w].pc = "loaded"
      BY <1>1 DEF FetchReject, FetchFail
    <2>2. FetcherAt(w, "done")
      BY <1>a, <1>b, <1>d, <2>1, FetcherMoves DEF FailTask
    <2>3. Written(t, MarkAsFailed(fw[w].row).status, MarkAsFailed(fw[w].row).key)
      BY <1>a, <1>c, <1>d, <2>1, UpdateWrites DEF FailTask
    <2>4. Written(t, "Failed", fw[w].row.key)
      BY <1>c, <2>3, RowFields DEF Written
    <2>5. QED
      BY <1>b, <1>c, <2>1, <2>2, <2>4 DEF FetchMoves, FailTask
  <1>2. CASE FetchInvalidURL(w)
    BY <1>a, <1>b, <1>c, <1>2, PushAdds DEF FetchInvalidURL, FetchMoves
  <1>3. CASE FetchStore(w)
    <2>1. FetcherAt(w, "stored") /\ fw'[w].row = fw[w].row
      BY <1>a, <1>b, <1>c, <1>3, FetcherMoves DEF FetchStore
    <2>2. QED
      BY <1>b, <1>c, <1>3, <2>1 DEF FetchStore, FetchMoves
  <1>4. CASE FetchSave(w)
    <2>1. FetcherAt(w, "saved")
      BY <1>a, <1>b, <1>d, <1>4, FetcherMoves DEF FetchSave
    <2>2. Written(t, MarkAsFetched(fw[w].row).status, MarkAsFetched(fw[w].row).key)
      BY <1>a, <1>c, <1>d, <1>4, UpdateWrites DEF FetchSave
    <2>3. Written(t, "Fetched", TRUE)
      BY <1>c, <2>2, RowFields DEF Written
    <2>4. QED
      BY <1>b, <1>c, <1>4, <2>1, <2>3 DEF FetchSave, FetchMoves
  <1>5. CASE FetchPublish(w)
    <2>1. FetcherAt(w, "done")
      BY <1>a, <1>b, <1>c, <1>5, FetcherMoves DEF FetchPublish
    <2>2. QED
      BY <1>a, <1>b, <1>c, <1>5, <2>1, PushAdds DEF FetchPublish, FetchMoves
  <1>6. CASE FetchAck(w)
    BY <1>b, <1>c, <1>6 DEF FetchAck, FetchMoves
  <1>7. QED
    BY <1>1, <1>2, <1>3, <1>4, <1>5, <1>6 DEF FetchStep

\* The tasks that p's transaction inserts.
Fresh(p) == {u \in NewLinks(p) : ~Exists(u)}

\* The table after p's transaction: the row of t is Parsed, new ones are there.
Committed(p, t) ==
  \A u \in Tasks :
    IF u \in Fresh(p) THEN tasks'[u].status = "InProgress" /\ ~tasks'[u].key
    ELSE IF u = t /\ Exists(t) THEN tasks'[u].status = "Parsed" /\ tasks'[u].key
    ELSE tasks'[u] = tasks[u]

\* The handlers as ParseStep moves them.
ParseMoves(p) ==
  LET t == pw[p].task IN
  /\ \/ /\ pw[p].pc = "loaded" /\ pw' = [pw EXCEPT ![p] = IdleParser]
        /\ Added(parseQ, parseQ', t) /\ UNCHANGED <<job, tasks, crawlQ, faults>>
     \/ /\ pw[p].pc = "loaded" /\ pw[p].row.key /\ ParserAt(p, "done", pw[p].todo)
        /\ Written(t, "Failed", TRUE) /\ UNCHANGED <<job, crawlQ, parseQ, faults>>
     \/ /\ pw[p].pc = "loaded" /\ ParserAt(p, "stamped", pw[p].todo)
        /\ UNCHANGED <<job, tasks, crawlQ, parseQ, faults>>
     \/ /\ pw[p].pc = "stamped" /\ ParserAt(p, "done", Fresh(p)) /\ Committed(p, t)
        /\ job.state = "active" \/ NewLinks(p) = {}
        /\ Fresh(p) # {} => ex.pc = "idle"
        /\ UNCHANGED <<job, crawlQ, parseQ, faults>>
     \/ /\ pw[p].pc = "stamped" /\ ParserAt(p, "done", pw[p].todo)
        /\ Written(t, "Failed", TRUE)
        /\ job.state = "deleted" \/ faults' = faults + 1
        /\ UNCHANGED <<job, crawlQ, parseQ>>
     \/ \E c \in pw[p].todo :
          /\ c \in Tasks /\ ParserAt(p, pw[p].pc, pw[p].todo \ {c})
          /\ \/ Added(crawlQ, crawlQ', c) /\ UNCHANGED faults
             \/ faults' = faults + 1 /\ UNCHANGED crawlQ
          /\ UNCHANGED <<job, tasks, parseQ>>
     \/ /\ pw[p].pc = "done" /\ pw[p].todo = {} /\ pw' = [pw EXCEPT ![p] = IdleParser]
        /\ UNCHANGED <<job, tasks, crawlQ, parseQ, faults>>
  /\ UNCHANGED <<outbox, report, pub, fw, ex>>

LEMMA ParseStepMoves ==
  ASSUME Sound, NEW p \in Parsers, ParseStep(p)
  PROVE  ParseMoves(p)
  <1>a. /\ TypeOK /\ ParsersOK /\ tasks \in [Tasks -> Row]
        /\ pw \in [Parsers -> ParserState] /\ pw[p] \in ParserState
        /\ crawlQ \in [Tasks -> Nat] /\ parseQ \in [Tasks -> Nat]
    BY DEF Sound, TypeOK, ParsersOK
  <1>b. /\ pw[p].row \in Row /\ pw[p].todo \in SUBSET Tasks /\ pw[p].row.key \in BOOLEAN
        /\ pw[p].row.depth \in Nat
    BY <1>a DEF ParserState, Row
  <1>c. pw[p].pc # "idle" => pw[p].task \in Tasks
    BY <1>a, BusyParser
  <1>d. /\ NoRow \in Row /\ MarkAsFailed(pw[p].row) \in Row
        /\ MarkAsFailed(pw[p].row).status = "Failed"
        /\ MarkAsFailed(pw[p].row).key = pw[p].row.key
    BY <1>b, RowTypes, RowFields
  <1>e. pw[p].pc = "stamped" => pw[p].row.status = "Parsed" /\ pw[p].row.key
    BY DEF Sound, CopiesAreSound
  <1> DEFINE t == pw[p].task
  <1>f. ASSUME pw[p].pc # "idle", pw[p].row.key, tasks' = Update(t, MarkAsFailed(pw[p].row))
        PROVE  Written(t, "Failed", TRUE)
    <2>1. Written(t, MarkAsFailed(pw[p].row).status, MarkAsFailed(pw[p].row).key)
      BY <1>a, <1>c, <1>d, <1>f, UpdateWrites
    <2>2. QED
      BY <1>d, <1>f, <2>1 DEF Written
  <1>g. ASSUME NEW pc \in {"stamped", "done"}, pw[p].pc # "idle", NEW row \in Row,
               pw' = [pw EXCEPT ![p] = [@ EXCEPT !.pc = pc, !.row = row]]
        PROVE  ParserAt(p, pc, pw[p].todo)
    <2>1. pw'[p] = [pw[p] EXCEPT !.pc = pc, !.row = row]
      BY <1>a, <1>g
    <2>2. pw'[p].pc = pc /\ pw'[p].task = pw[p].task /\ pw'[p].todo = pw[p].todo
      BY <1>a, <2>1 DEF ParserState
    <2>3. QED
      BY <1>a, <1>g, <2>2 DEF ParserAt
  <1>1. CASE ParseNoPage(p)
    BY <1>a, <1>c, <1>1, PushAdds DEF ParseNoPage, ParseMoves
  <1>2. CASE ParseFail(p)
    <2>1. ParserAt(p, "done", pw[p].todo)
      BY <1>2, <1>d, <1>g DEF ParseFail, FailParse
    <2>2. Written(t, "Failed", TRUE)
      BY <1>2, <1>f DEF ParseFail, FailParse
    <2>3. QED
      BY <1>2, <2>1, <2>2 DEF ParseFail, FailParse, ParseMoves
  <1>3. CASE ParseUpload(p)
    <2>1. MarkAsParsed(pw[p].row) \in Row
      BY <1>b, RowTypes
    <2>2. ParserAt(p, "stamped", pw[p].todo)
      BY <1>3, <1>g, <2>1 DEF ParseUpload
    <2>3. QED
      BY <1>3, <2>2 DEF ParseUpload, ParseMoves
  <1>4. CASE ParseCommit(p)
    <2>0. t \in Tasks
      BY <1>4, <1>c DEF ParseCommit
    <2>1. Inserted(tasks, NewLinks(p)) = Fresh(p) /\ Fresh(p) \in SUBSET Tasks
      BY <2>0, TasksAssumption DEF Inserted, Fresh, Exists, NewLinks, PreparedLinks
    <2>2. ParserAt(p, "done", Fresh(p))
      BY <1>a, <1>4, <1>d, <2>1, ParserMoves DEF ParseCommit
    <2>3. Committed(p, t)
      <3> SUFFICES ASSUME NEW u \in Tasks
                   PROVE  IF u \in Fresh(p) THEN tasks'[u].status = "InProgress" /\ ~tasks'[u].key
                          ELSE IF u = t /\ Exists(t) THEN tasks'[u].status = "Parsed" /\ tasks'[u].key
                          ELSE tasks'[u] = tasks[u]
        BY DEF Committed
      <3>1. pw[p].pc = "stamped" /\ t \in Tasks
        BY <1>4, <1>c DEF ParseCommit
      <3>2. Update(t, pw[p].row)[u] = IF u = t /\ Exists(t) THEN pw[p].row ELSE tasks[u]
        BY <1>a, <3>1, UpdateAt
      <3>3. tasks'[u] = IF u \in NewLinks(p) /\ Update(t, pw[p].row)[u].status = "Absent"
                        THEN NewRow(pw[p].row.depth + 1) ELSE Update(t, pw[p].row)[u]
        BY <1>4, BulkCreateAt DEF ParseCommit
      <3>4. /\ NewRow(pw[p].row.depth + 1).status = "InProgress"
            /\ ~NewRow(pw[p].row.depth + 1).key
        BY <1>b, NewRowFields
      <3>5. QED
        BY <1>e, <3>1, <3>2, <3>3, <3>4 DEF Fresh, Exists
    <2>4. QED
      BY <1>4, <2>1, <2>2, <2>3 DEF ParseCommit, ParseMoves
  <1>5. CASE ParseRollback(p)
    <2>1. ParserAt(p, "done", pw[p].todo)
      BY <1>5, <1>d, <1>g DEF ParseRollback
    <2>2. Written(t, "Failed", TRUE)
      BY <1>5, <1>e, <1>f DEF ParseRollback
    <2>3. QED
      BY <1>5, <2>1, <2>2 DEF ParseRollback, ParseMoves, Fault
  <1>6. ASSUME NEW c \in Tasks, ParsePublish(p, c) PROVE ParseMoves(p)
    <2>1. pw'[p] = [pw[p] EXCEPT !.todo = pw[p].todo \ {c}]
      BY <1>a, <1>6 DEF ParsePublish
    <2>2. ParserAt(p, pw[p].pc, pw[p].todo \ {c})
      BY <1>a, <1>6, <2>1 DEF ParsePublish, ParserAt, ParserState
    <2>3. QED
      BY <1>a, <1>6, <2>2, PushAdds DEF ParsePublish, ParseMoves, Fault
  <1>7. CASE ParseAck(p)
    BY <1>7 DEF ParseAck, ParseMoves
  <1>8. QED
    BY <1>1, <1>2, <1>3, <1>4, <1>5, <1>6, <1>7 DEF ParseStep

\* The end of an export changes no status, no key and no handler's place.
LEMMA ExportFinishMoves ==
  ASSUME Sound, ExportFinish
  PROVE  /\ \A t \in Tasks : /\ tasks'[t].status = tasks[t].status
                             /\ tasks'[t].key = tasks[t].key
         /\ \A w \in Fetchers : /\ fw'[w].pc = fw[w].pc /\ fw'[w].task = fw[w].task
                                /\ fw'[w].row.key = fw[w].row.key
         /\ \A p \in Parsers : /\ pw'[p].pc = pw[p].pc /\ pw'[p].task = pw[p].task
                               /\ pw'[p].todo = pw[p].todo
         /\ job'.state = job.state /\ job'.exported
         /\ report'.json = report.json /\ report'.csv = ex.snap
         /\ ex'.pc = "idle"
  <1>a. /\ tasks \in [Tasks -> Row] /\ fw \in [Fetchers -> FetcherState]
        /\ pw \in [Parsers -> ParserState]
    BY DEF Sound, TypeOK
  <1>1. ASSUME NEW t \in Tasks
        PROVE  tasks'[t].status = tasks[t].status /\ tasks'[t].key = tasks[t].key
    <2>1. tasks'[t] = Aged(tasks[t])
      BY DEF ExportFinish
    <2>2. QED
      BY <1>a, <2>1, RowFields
  <1>2. ASSUME NEW w \in Fetchers
        PROVE  /\ fw'[w].pc = fw[w].pc /\ fw'[w].task = fw[w].task
               /\ fw'[w].row.key = fw[w].row.key
    <2>1. fw'[w] = [fw[w] EXCEPT !.row = Aged(fw[w].row)] /\ fw[w] \in FetcherState
      BY <1>a DEF ExportFinish
    <2>2. fw'[w].pc = fw[w].pc /\ fw'[w].task = fw[w].task /\ fw'[w].row = Aged(fw[w].row)
          /\ fw[w].row \in Row
      BY <2>1 DEF FetcherState
    <2>3. QED
      BY <2>2, RowFields
  <1>3. ASSUME NEW p \in Parsers
        PROVE  /\ pw'[p].pc = pw[p].pc /\ pw'[p].task = pw[p].task /\ pw'[p].todo = pw[p].todo
    <2>1. pw'[p] = [pw[p] EXCEPT !.row = Aged(pw[p].row)] /\ pw[p] \in ParserState
      BY <1>a DEF ExportFinish
    <2>2. QED
      BY <2>1 DEF ParserState
  <1>4. /\ job'.state = job.state /\ job'.exported
        /\ report'.json = report.json /\ report'.csv = ex.snap
        /\ ex'.pc = "idle"
    BY DEF ExportFinish, Sound, TypeOK, IdleExport
  <1>5. QED
    BY <1>1, <1>2, <1>3, <1>4

-----------------------------------------------------------------------------
(* PagelessIsFailed.                                                        *)

\* The row of t names its page or is Failed, or is gone with its job.
Keyed(t) ==
  job.state = "deleted" \/ (Exists(t) /\ (tasks[t].key \/ tasks[t].status = "Failed"))

\* What makes PagelessIsFailed inductive: the same holds of the tasks whose parsing
\* message somebody will publish or put back.
KeysKept ==
  /\ \A t \in Tasks : parseQ[t] > 0 => Keyed(t)
  /\ \A w \in Fetchers : fw[w].pc = "saved" => Keyed(fw[w].task)
  /\ \A p \in Parsers : pw[p].pc # "idle" => Keyed(pw[p].task)

LEMMA KeysStep ==
  ASSUME Frontier, KeysKept, [Next]_vars
  PROVE  KeysKept'
  <1>a. Sound /\ TypeOK /\ FetchersOK /\ ParsersOK
    BY DEF Frontier, Sound, TypeOK, FetchersOK, ParsersOK
  <1>b. /\ tasks \in [Tasks -> Row] /\ crawlQ \in [Tasks -> Nat] /\ parseQ \in [Tasks -> Nat]
        /\ fw \in [Fetchers -> FetcherState] /\ pw \in [Parsers -> ParserState]
    BY <1>a DEF TypeOK
  <1>c. /\ \A w \in Fetchers : fw[w].pc # "idle" => fw[w].task \in Tasks
        /\ \A p \in Parsers : pw[p].pc # "idle" => pw[p].task \in Tasks
    BY <1>a, BusyFetcher, BusyParser
  <1>d. IdleFetcher.pc = "idle" /\ IdleParser.pc = "idle"
    BY DEF IdleFetcher, IdleParser
  <1>0. ASSUME UNCHANGED <<tasks, fw, pw, parseQ>>, job'.state = job.state
        PROVE  KeysKept'
    BY <1>0 DEF KeysKept, Keyed, Exists
  <1>1. CASE CreateCrawlJob
    <2>1. job.state = "none" /\ \A t \in Tasks : ~Exists(t)
      BY <1>1 DEF CreateCrawlJob, EventsCreated, Frontier, DepthsAgree
    <2>2. \A t \in Tasks : ~Keyed(t)
      BY <2>1 DEF Keyed
    <2>3. /\ \A t \in Tasks : ~(parseQ[t] > 0)
          /\ \A w \in Fetchers : fw[w].pc # "saved"
          /\ \A p \in Parsers : pw[p].pc = "idle"
      BY <1>c, <2>1, <2>2 DEF KeysKept
    <2>4. UNCHANGED <<parseQ, fw, pw>>
      BY <1>1 DEF CreateCrawlJob, EventsCreated
    <2>5. QED
      BY <2>3, <2>4 DEF KeysKept
  <1>2. CASE DeleteCrawlJob
    <2>1. job'.state = "deleted"
      BY <1>2, <1>a DEF DeleteCrawlJob, TypeOK
    <2>2. QED
      BY <2>1 DEF KeysKept, Keyed
  <1>3. CASE OutboxFetch \/ OutboxCommit \/ OutboxAbort \/ ExportAbort \/ UNCHANGED vars
    BY <1>0, <1>3 DEF OutboxFetch, OutboxCommit, OutboxAbort, ExportAbort, vars
  <1>4. ASSUME NEW t \in Tasks, OutboxPublish(t) \/ RecoverStale(t) PROVE KeysKept'
    BY <1>0, <1>4 DEF OutboxPublish, RecoverStale
  <1>5. CASE ExportFail
    BY <1>0, <1>5, <1>a DEF ExportFail, FailExport, TypeOK
  <1>6. CASE ExportStep
    <2>1. CASE ExportSelect \/ ExportRead \/ ExportJSON
      BY <1>0, <2>1 DEF ExportSelect, ExportRead, ExportJSON
    <2>2. CASE ExportFinish
      <3>1. parseQ' = parseQ
        BY <2>2 DEF ExportFinish
      <3>2. QED
        BY <1>a, <1>c, <2>2, <3>1, ExportFinishMoves DEF KeysKept, Keyed, Exists
    <2>3. QED
      BY <1>6, <2>1, <2>2 DEF ExportStep
  <1>7. ASSUME NEW w \in Fetchers, NEW t \in Tasks, FetchStart(w, t) PROVE KeysKept'
    <2>1. UNCHANGED <<tasks, job, parseQ, pw>>
      BY <1>7 DEF FetchStart
    <2>2. CASE fw' = fw
      BY <1>0, <2>1, <2>2
    <2>3. CASE Exists(t) /\ fw' = [fw EXCEPT ![w] = [pc |-> "loaded", task |-> t, row |-> CopyOf(tasks[t])]]
      <3>1. /\ fw'[w].pc = "loaded" /\ fw'[w].task = t /\ fw'[w].row = CopyOf(tasks[t])
            /\ \A v \in Fetchers : v # w => fw'[v] = fw[v]
        BY <1>b, <2>3
      <3>2. QED
        BY <2>1, <2>3, <3>1 DEF KeysKept, Keyed, Exists
    <2>4. QED
      BY <1>7, <2>2, <2>3 DEF FetchStart
  <1>8. ASSUME NEW w \in Fetchers, FetchStep(w) PROVE KeysKept'
    <2>1. FetchMoves(w) /\ UNCHANGED <<job, pw>>
      BY <1>a, <1>8, FetchStepMoves DEF FetchMoves
    <2>t. PICK t \in Tasks : t = fw[w].task
      BY <2>1 DEF FetchMoves
    <2>2. t \in Tasks /\ t = fw[w].task
      BY <2>t
    <2>3. CASE fw[w].pc = "loaded" /\ FetcherAt(w, "done") /\ Written(t, "Failed", fw[w].row.key) /\ parseQ' = parseQ
      <3>1. \A u \in Tasks : Keyed(u) => Keyed(u)'
        BY <2>1, <2>2, <2>3 DEF Written, Keyed, Exists, KeysKept
      <3>2. QED
        BY <1>c, <2>1, <2>2, <2>3, <3>1 DEF KeysKept, FetcherAt
    <2>4. CASE fw' = [fw EXCEPT ![w] = IdleFetcher] /\ UNCHANGED <<tasks, parseQ>>
      BY <1>b, <1>d, <2>1, <2>2, <2>4 DEF KeysKept, Keyed, Exists
    <2>5. CASE fw[w].pc = "loaded" /\ FetcherAt(w, "stored") /\ fw'[w].row = fw[w].row /\ UNCHANGED <<tasks, parseQ>>
      BY <2>1, <2>2, <2>5 DEF KeysKept, Keyed, Exists, FetcherAt
    <2>6. CASE fw[w].pc = "stored" /\ FetcherAt(w, "saved") /\ Written(t, "Fetched", TRUE) /\ parseQ' = parseQ
      <3>0. job.state = "deleted" \/ Exists(t)
        BY <2>2, <2>6 DEF Frontier, DepthsAgree, Current
      <3>a. Exists(t) => tasks'[t].status = "Fetched" /\ tasks'[t].key
        BY <2>2, <2>6 DEF Written
      <3>b. \A u \in Tasks : u # t => tasks'[u] = tasks[u]
        BY <2>6 DEF Written
      <3>c. Keyed(t)'
        BY <2>1, <3>0, <3>a DEF Keyed, Exists
      <3>1. (\A u \in Tasks : Keyed(u) => Keyed(u)') /\ Keyed(t)'
        BY <2>1, <3>b, <3>c DEF Keyed, Exists
      <3>2. QED
        BY <1>c, <2>1, <2>2, <2>6, <3>1 DEF KeysKept, FetcherAt
    <2>7. CASE fw[w].pc = "saved" /\ FetcherAt(w, "done") /\ Added(parseQ, parseQ', t) /\ tasks' = tasks
      BY <2>1, <2>2, <2>7 DEF KeysKept, Keyed, Exists, FetcherAt, Added
    <2>8. QED
      BY <2>1, <2>t, <2>3, <2>4, <2>5, <2>6, <2>7 DEF FetchMoves
  <1>9. ASSUME NEW w \in Fetchers, FetchNack(w) PROVE KeysKept'
    BY <1>9, <1>b, <1>d DEF FetchNack, KeysKept, Keyed, Exists
  <1>10. ASSUME NEW p \in Parsers, NEW t \in Tasks, ParseStart(p, t) PROVE KeysKept'
    <2>1. UNCHANGED <<tasks, job, fw>> /\ parseQ[t] > 0 /\ Added(parseQ', parseQ, t)
      BY <1>10, <1>b, PushAdds DEF ParseStart
    <2>2. \A u \in Tasks : parseQ'[u] > 0 => parseQ[u] > 0
      BY <1>b, <1>10 DEF ParseStart, Pop
    <2>3. \A q \in Parsers : pw'[q] = pw[q] \/ pw'[q].task = t
      BY <1>b, <1>10 DEF ParseStart
    <2>4. QED
      BY <2>1, <2>2, <2>3 DEF KeysKept, Keyed, Exists
  <1>11. ASSUME NEW p \in Parsers, ParseStep(p) PROVE KeysKept'
    <2>1. ParseMoves(p)
      BY <1>a, <1>11, ParseStepMoves
    <2> DEFINE t == pw[p].task
    <2>2. UNCHANGED <<job, fw>> /\ pw[p].todo \in SUBSET Tasks
      BY <1>b, <2>1 DEF ParseMoves, ParserState
    <2>3. pw[p].pc # "idle" => t \in Tasks /\ Keyed(t)
      BY <1>c DEF KeysKept
    <2>4. ASSUME \A u \in Tasks : Keyed(u) => Keyed(u)',
                 NEW pc, NEW todo, ParserAt(p, pc, todo), pc = pw[p].pc \/ pw[p].pc # "idle",
                 parseQ' = parseQ
          PROVE  KeysKept'
      <3>2. ASSUME NEW q \in Parsers, NEW u, u = pw'[q].task, pw'[q].pc # "idle" PROVE Keyed(u)'
        <4>1. u = pw[q].task /\ pw[q].pc # "idle"
          BY <2>4, <3>2 DEF ParserAt
        <4>2. u \in Tasks /\ Keyed(u)
          BY <1>c, <4>1 DEF KeysKept
        <4>3. QED
          BY <2>4, <4>2
      <3>3. \A w \in Fetchers : fw'[w].pc = "saved" => Keyed(fw[w].task)'
        <4>1. ASSUME NEW w \in Fetchers, NEW u, u = fw[w].task, fw'[w].pc = "saved" PROVE Keyed(u)'
          BY <1>c, <2>2, <2>4, <4>1 DEF KeysKept
        <4>2. QED
          BY <2>2, <4>1 DEF Keyed, Exists
      <3>4. \A u \in Tasks : parseQ'[u] > 0 => Keyed(u)'
        BY <2>4 DEF KeysKept
      <3>5. QED
        BY <2>2, <3>2, <3>3, <3>4 DEF KeysKept
    <2>5. ASSUME pw[p].pc # "idle", Written(t, "Failed", TRUE), NEW todo, ParserAt(p, "done", todo), parseQ' = parseQ
          PROVE  KeysKept'
      <3>1. Exists(t) => tasks'[t].status = "Failed" /\ tasks'[t].key
        BY <2>3, <2>5 DEF Written
      <3>2. \A u \in Tasks : u # t \/ ~Exists(t) => tasks'[u] = tasks[u]
        BY <2>5 DEF Written
      <3>3. QED
        BY <2>2, <2>3, <2>4, <2>5, <3>1, <3>2 DEF Keyed, Exists
    <2>6. CASE tasks' = tasks /\ parseQ' = parseQ
      <3>1. CASE pw' = [pw EXCEPT ![p] = IdleParser]
        BY <1>b, <1>d, <2>2, <2>6, <3>1 DEF KeysKept, Keyed, Exists
      <3>2. ASSUME NEW pc, NEW todo, ParserAt(p, pc, todo), pc = pw[p].pc \/ pw[p].pc # "idle" PROVE KeysKept'
        BY <2>2, <2>4, <2>6, <3>2 DEF Keyed, Exists
      <3>3. QED
        BY <2>1, <2>5, <2>6, <3>1, <3>2 DEF ParseMoves
    <2>7. CASE pw[p].pc = "loaded" /\ pw' = [pw EXCEPT ![p] = IdleParser] /\ Added(parseQ, parseQ', t) /\ tasks' = tasks
      BY <1>b, <1>d, <2>2, <2>3, <2>7 DEF KeysKept, Keyed, Exists, Added
    <2>8. CASE /\ pw[p].pc = "stamped" /\ ParserAt(p, "done", Fresh(p)) /\ Committed(p, t)
               /\ (job.state = "active" \/ NewLinks(p) = {}) /\ parseQ' = parseQ
      <3>1. \A u \in Fresh(p) : u \in Tasks /\ ~Exists(u)
        BY <2>3, <2>8, TasksAssumption DEF Fresh, NewLinks, PreparedLinks
      <3>2. Exists(t) => tasks'[t].status = "Parsed" /\ tasks'[t].key
        BY <2>3, <2>8, <3>1 DEF Committed
      <3>3. \A u \in Tasks : u \notin Fresh(p) /\ (u # t \/ ~Exists(t)) => tasks'[u] = tasks[u]
        BY <2>8 DEF Committed
      <3>4. \A u \in Fresh(p) : tasks'[u].status = "InProgress" /\ ~tasks'[u].key
        BY <2>8, <3>1 DEF Committed
      <3>5. Fresh(p) = {} \/ job.state = "active"
        BY <2>8 DEF Fresh
      <3>6. \A u \in Tasks : Keyed(u) => Keyed(u)'
        BY <2>2, <2>3, <2>8, <3>1, <3>2, <3>3, <3>4, <3>5 DEF Keyed, Exists
      <3>7. QED
        BY <2>4, <2>8, <3>6
    <2>9. QED
      BY <2>1, <2>5, <2>6, <2>7, <2>8 DEF ParseMoves
  <1>12. ASSUME NEW p \in Parsers, ParseNack(p) PROVE KeysKept'
    <2>1. UNCHANGED <<tasks, job, fw>> /\ pw[p].pc # "idle" /\ pw[p].task \in Tasks /\ Added(parseQ, parseQ', pw[p].task)
      BY <1>12, <1>b, <1>c, PushAdds DEF ParseNack
    <2>2. QED
      BY <1>12, <1>b, <1>d, <2>1 DEF ParseNack, KeysKept, Keyed, Exists, Added
  <1>13. QED
    BY <1>1, <1>2, <1>3, <1>4, <1>5, <1>6, <1>7, <1>8, <1>9, <1>10, <1>11, <1>12 DEF Next, Work

\* THEOREM.  For every number of fetch and parser handlers, however old their copies
\* of the row are and however often calls fail, workers crash and messages are
\* repeated: a queued parsing message that finds no page belongs to a Failed task.
THEOREM PagelessTasksAreFailed == Spec => []PagelessIsFailed
  <1>1. Init => KeysKept
    BY DEF Init, KeysKept, IdleFetcher, IdleParser
  <1>2. Frontier /\ KeysKept /\ [Next]_vars => KeysKept'
    BY KeysStep
  <1>3. Frontier /\ KeysKept => PagelessIsFailed
    BY DEF Frontier, DepthsAgree, KeysKept, Keyed, PagelessIsFailed
  <1>4. QED
    BY <1>1, <1>2, <1>3, FrontierInvariant, PTL DEF Spec

-----------------------------------------------------------------------------
(* ExportIsFinal.  As long as no call fails and no task is slow, a task has *)
(* one message, or one handler at work on it, until it is settled.          *)

\* The event of t is still to be published.
InOutbox(t) == outbox[t] = "pending" /\ t \notin pub.sent

\* A parser handler is about to publish the first message for t.
Announcing(p, t) == t \in pw[p].todo

\* A fetch handler has not written the row of t yet; it has, and owes a message.
Fetching(w, t) == fw[w].task = t /\ fw[w].pc \in {"loaded", "stored"}

Saved(w, t) == fw[w].task = t /\ fw[w].pc = "saved"

OneCrawlMessage(t) ==
  /\ crawlQ[t] \in {0, 1}
  /\ crawlQ[t] = 1 => ~InOutbox(t)
  /\ \A w \in Fetchers : Fetching(w, t) =>
       /\ tasks[t].status = "InProgress"
       /\ ~InOutbox(t) /\ crawlQ[t] = 0
       /\ \A v \in Fetchers : Fetching(v, t) => v = w
  /\ \A p \in Parsers : Announcing(p, t) =>
       /\ tasks[t].status = "InProgress"
       /\ ~InOutbox(t) /\ crawlQ[t] = 0
       /\ \A w \in Fetchers : ~Fetching(w, t)
       /\ \A q \in Parsers : Announcing(q, t) => q = p

OneParsingMessage(t) ==
  /\ parseQ[t] \in {0, 1}
  /\ parseQ[t] = 1 => tasks[t].status = "Fetched"
  /\ \A w \in Fetchers : Saved(w, t) =>
       /\ tasks[t].status = "Fetched" /\ parseQ[t] = 0
       /\ \A v \in Fetchers : Saved(v, t) => v = w
  /\ \A p \in Parsers : ParseOwes(p, t) =>
       /\ tasks[t].status = "Fetched" /\ parseQ[t] = 0
       /\ \A w \in Fetchers : ~Saved(w, t)
       /\ \A q \in Parsers : ParseOwes(q, t) => q = p

\* What is on its way fits the row, and a row InProgress has something on its way.
RowFits(t) ==
  /\ InOutbox(t) \/ crawlQ[t] = 1 => tasks[t].status \in {"Absent", "InProgress"}
  /\ tasks[t].status = "InProgress" =>
       \/ InOutbox(t)
       \/ crawlQ[t] = 1
       \/ \E w \in Fetchers : Fetching(w, t)
       \/ \E p \in Parsers : Announcing(p, t)

\* Seeds have their row and their event from the start, others have neither
\* before the row is inserted.
SeedFits(t) ==
  /\ outbox[t] # "none" => t \in Seeds
  /\ t \in Seeds \ DupSeeds /\ job.state = "active" => Exists(t)
  /\ ~Exists(t) /\ t \notin Seeds => crawlQ[t] = 0
  /\ job.state = "none" => ~Exists(t) /\ outbox[t] = "none" /\ crawlQ[t] = 0

OneMessage(t) ==
  OneCrawlMessage(t) /\ OneParsingMessage(t) /\ RowFits(t) /\ SeedFits(t)

\* The publisher's batch is still to be marked, and only a handler that is done
\* has messages to publish.
BatchFits ==
  /\ pub.sent \subseteq pub.batch
  /\ \A t \in pub.batch : outbox[t] = "pending"
  /\ \A p \in Parsers : pw[p].todo # {} => pw[p].pc = "done"

ParsedTasks == {t \in Tasks : tasks[t].status = "Parsed"}

\* From the selection of the job on nothing changes, and the reports are complete.
ExportFits ==
  /\ ex.pc # "idle" \/ job.exported => \A t \in Tasks : Settled(t)
  /\ ex.pc # "idle" \/ job.exported => job.state = "active"
  /\ ex.pc \in {"read", "json"} => ex.snap = ParsedTasks
  /\ ex.pc = "json" => report.json = ParsedTasks
  /\ job.exported => report.json = ParsedTasks /\ report.csv = ParsedTasks

Orderly == faults = 0 /\ Slow = {} /\ job.state # "deleted"

OneMessageEach ==
  Orderly => BatchFits /\ ExportFits /\ \A t \in Tasks : OneMessage(t)

\* Nothing that concerns t changes.
Untouched(t) ==
  /\ tasks'[t].status = tasks[t].status
  /\ crawlQ'[t] = crawlQ[t] /\ parseQ'[t] = parseQ[t]
  /\ (outbox'[t] = "none") <=> (outbox[t] = "none")
  /\ InOutbox(t)' <=> InOutbox(t)
  /\ \A w \in Fetchers : (Fetching(w, t)' <=> Fetching(w, t)) /\ (Saved(w, t)' <=> Saved(w, t))
  /\ \A p \in Parsers : (Announcing(p, t)' <=> Announcing(p, t)) /\ (ParseOwes(p, t)' <=> ParseOwes(p, t))

LEMMA UntouchedFits ==
  ASSUME NEW t \in Tasks, OneMessage(t), Untouched(t), job'.state = job.state
  PROVE  OneMessage(t)'
  <1>1. OneCrawlMessage(t)'
    BY DEF OneMessage, OneCrawlMessage, Untouched
  <1>2. OneParsingMessage(t)'
    BY DEF OneMessage, OneParsingMessage, Untouched
  <1>3. RowFits(t)' /\ SeedFits(t)'
    BY DEF OneMessage, RowFits, SeedFits, Untouched, Exists
  <1>4. QED
    BY <1>1, <1>2, <1>3 DEF OneMessage

\* The same for all tasks that do not appear in a step of a handler.
LEMMA OthersFetch ==
  ASSUME NEW w \in Fetchers, NEW t \in Tasks, NEW u \in Tasks, u # t,
         fw[w].task \in {t, NoTask}, fw'[w].task \in {t, NoTask},
         \A v \in Fetchers \ {w} : fw'[v] = fw[v],
         UNCHANGED <<outbox, pub, pw>>,
         tasks'[u].status = tasks[u].status, crawlQ'[u] = crawlQ[u], parseQ'[u] = parseQ[u]
  PROVE  Untouched(u)
  <1>1. u # NoTask
    BY TasksAssumption
  <1>2. ASSUME NEW v \in Fetchers PROVE (Fetching(v, u)' <=> Fetching(v, u)) /\ (Saved(v, u)' <=> Saved(v, u))
    BY <1>1 DEF Fetching, Saved
  <1>3. QED
    BY <1>2 DEF Untouched, InOutbox, Announcing, ParseOwes

LEMMA OthersParse ==
  ASSUME NEW p \in Parsers, NEW t \in Tasks, NEW u \in Tasks, u # t,
         pw[p].task \in {t, NoTask}, pw'[p].task \in {t, NoTask},
         u \in pw'[p].todo <=> u \in pw[p].todo,
         \A q \in Parsers \ {p} : pw'[q] = pw[q],
         UNCHANGED <<outbox, pub, fw>>,
         tasks'[u].status = tasks[u].status, crawlQ'[u] = crawlQ[u], parseQ'[u] = parseQ[u]
  PROVE  Untouched(u)
  <1>1. u # NoTask
    BY TasksAssumption
  <1>2. ASSUME NEW q \in Parsers PROVE (Announcing(q, u)' <=> Announcing(q, u)) /\ (ParseOwes(q, u)' <=> ParseOwes(q, u))
    BY <1>1 DEF Announcing, ParseOwes
  <1>3. QED
    BY <1>2 DEF Untouched, InOutbox, Fetching, Saved

\* A fetch handler takes a message.
LEMMA OneFetchStart ==
  ASSUME Sound, NEW w \in Fetchers, NEW t \in Tasks, FetchStart(w, t),
         \A u \in Tasks : OneMessage(u)
  PROVE  \A u \in Tasks : OneMessage(u)'
  <1>a. /\ tasks \in [Tasks -> Row] /\ crawlQ \in [Tasks -> Nat] /\ fw \in [Fetchers -> FetcherState]
        /\ FetchersOK
    BY DEF Sound, TypeOK, FetchersOK
  <1>b. /\ crawlQ[t] = 1 /\ crawlQ'[t] = 0 /\ \A u \in Tasks \ {t} : crawlQ'[u] = crawlQ[u]
        /\ UNCHANGED <<job, tasks, outbox, pub, parseQ, pw>>
        /\ fw[w].pc = "idle" /\ fw[w].task = NoTask
    BY <1>a DEF FetchStart, Pop, OneMessage, OneCrawlMessage, FetchersOK
  <1>c. OneCrawlMessage(t) /\ OneParsingMessage(t) /\ RowFits(t) /\ SeedFits(t)
    BY DEF OneMessage
  <1>d. t # NoTask /\ ~Fetching(w, t) /\ ~Saved(w, t)
    BY <1>b, TasksAssumption DEF Fetching, Saved
  <1>1. CASE ~Exists(t)
    <2>1. fw' = fw
      BY <1>1 DEF FetchStart
    <2>2. ASSUME NEW u \in Tasks, u # t PROVE OneMessage(u)'
      <3>1. Untouched(u)
        BY <1>b, <2>1, <2>2 DEF Untouched, InOutbox, Fetching, Saved, Announcing, ParseOwes
      <3>2. QED
        BY <1>b, <3>1, UntouchedFits
    <2>3. OneMessage(t)'
      BY <1>1, <1>b, <1>c, <2>1
      DEF OneMessage, OneCrawlMessage, OneParsingMessage, RowFits, SeedFits, Exists, InOutbox,
          Fetching, Saved, Announcing, ParseOwes
    <2>4. QED
      BY <2>2, <2>3
  <1>2. CASE Exists(t)
    <2>1. /\ fw'[w].pc = "loaded" /\ fw'[w].task = t
          /\ \A v \in Fetchers \ {w} : fw'[v] = fw[v]
      BY <1>2, <1>a DEF FetchStart
    <2>2. ASSUME NEW u \in Tasks, u # t PROVE OneMessage(u)'
      <3>1. Untouched(u)
        BY <1>b, <2>1, <2>2, OthersFetch
      <3>2. QED
        BY <1>b, <3>1, UntouchedFits
    <2>3. /\ Fetching(w, t)' /\ ~Saved(w, t)'
          /\ \A v \in Fetchers \ {w} : (Fetching(v, t)' <=> Fetching(v, t)) /\ (Saved(v, t)' <=> Saved(v, t))
          /\ InOutbox(t)' <=> InOutbox(t)
          /\ \A p \in Parsers : (Announcing(p, t)' <=> Announcing(p, t)) /\ (ParseOwes(p, t)' <=> ParseOwes(p, t))
      BY <1>b, <2>1 DEF Fetching, Saved, InOutbox, Announcing, ParseOwes
    <2>4. tasks[t].status = "InProgress"
      BY <1>2, <1>b, <1>c DEF RowFits, Exists
    <2>5. OneCrawlMessage(t)'
      BY <1>b, <1>c, <1>d, <2>3, <2>4 DEF OneCrawlMessage
    <2>6. OneParsingMessage(t)'
      BY <1>b, <1>c, <1>d, <2>3, <2>4 DEF OneParsingMessage
    <2>7. RowFits(t)' /\ SeedFits(t)'
      BY <1>b, <1>c, <2>3, <2>4 DEF RowFits, SeedFits, Exists, OneCrawlMessage
    <2>8. QED
      BY <2>2, <2>5, <2>6, <2>7 DEF OneMessage
  <1>3. QED
    BY <1>1, <1>2

\* A fetch handler goes on.
LEMMA OneFetchStep ==
  ASSUME Sound, NEW w \in Fetchers, FetchStep(w), job.state # "deleted",
         \A u \in Tasks : OneMessage(u)
  PROVE  \A u \in Tasks : OneMessage(u)'
  <1>a. FetchMoves(w) /\ UNCHANGED <<job, outbox, pub, pw>>
    BY FetchStepMoves DEF FetchMoves
  <1>t. PICK t \in Tasks : t = fw[w].task
    BY <1>a DEF FetchMoves
  <1>b. /\ OneCrawlMessage(t) /\ OneParsingMessage(t) /\ RowFits(t) /\ SeedFits(t)
        /\ t # NoTask /\ IdleFetcher.pc = "idle" /\ IdleFetcher.task = NoTask
        /\ fw \in [Fetchers -> FetcherState]
    BY TasksAssumption DEF OneMessage, IdleFetcher, Sound, TypeOK
  <1>c. /\ InOutbox(t)' <=> InOutbox(t)
        /\ \A p \in Parsers : (Announcing(p, t)' <=> Announcing(p, t)) /\ (ParseOwes(p, t)' <=> ParseOwes(p, t))
    BY <1>a DEF InOutbox, Announcing, ParseOwes
  <1>d. ASSUME \A u \in Tasks \ {t} : crawlQ'[u] = crawlQ[u] /\ parseQ'[u] = parseQ[u] /\ tasks'[u].status = tasks[u].status,
               fw'[w].task \in {t, NoTask}, \A v \in Fetchers \ {w} : fw'[v] = fw[v]
        PROVE  /\ \A u \in Tasks \ {t} : OneMessage(u)'
               /\ \A v \in Fetchers \ {w} : (Fetching(v, t)' <=> Fetching(v, t)) /\ (Saved(v, t)' <=> Saved(v, t))
    <2>1. ASSUME NEW u \in Tasks, u # t PROVE OneMessage(u)'
      <3>1. Untouched(u)
        BY <1>a, <1>t, <1>d, <2>1, OthersFetch
      <3>2. QED
        BY <1>a, <3>1, UntouchedFits
    <2>2. QED
      BY <1>d, <2>1 DEF Fetching, Saved
  <1>e. ASSUME OneCrawlMessage(t)', OneParsingMessage(t)', RowFits(t)', SeedFits(t)', \A u \in Tasks \ {t} : OneMessage(u)'
        PROVE  \A u \in Tasks : OneMessage(u)'
    BY <1>e DEF OneMessage
  <1>1. CASE /\ fw[w].pc = "loaded" /\ FetcherAt(w, "done")
             /\ Written(t, "Failed", fw[w].row.key) /\ UNCHANGED <<crawlQ, parseQ>>
    <2>1. Fetching(w, t) /\ ~Saved(w, t) /\ ~Fetching(w, t)' /\ ~Saved(w, t)'
      BY <1>1, <1>t DEF FetcherAt, Fetching, Saved
    <2>2. tasks[t].status = "InProgress" /\ tasks'[t].status = "Failed"
      BY <1>1, <1>b, <2>1 DEF OneCrawlMessage, Written, Exists
    <2>3. /\ \A u \in Tasks \ {t} : OneMessage(u)'
          /\ \A v \in Fetchers \ {w} : (Fetching(v, t)' <=> Fetching(v, t)) /\ (Saved(v, t)' <=> Saved(v, t))
      BY <1>1, <1>t, <1>d DEF FetcherAt, Written
    <2>4. OneCrawlMessage(t)' /\ OneParsingMessage(t)' /\ RowFits(t)' /\ SeedFits(t)'
      BY <1>1, <1>a, <1>b, <1>c, <2>1, <2>2, <2>3 DEF OneCrawlMessage, OneParsingMessage, RowFits, SeedFits, Exists
    <2>5. QED
      BY <1>e, <2>3, <2>4
  <1>2. CASE /\ fw[w].pc = "loaded" /\ fw' = [fw EXCEPT ![w] = IdleFetcher]
             /\ Added(crawlQ, crawlQ', t) /\ UNCHANGED <<tasks, parseQ>>
    <2>1. Fetching(w, t) /\ ~Saved(w, t) /\ ~Fetching(w, t)' /\ ~Saved(w, t)'
      BY <1>2, <1>b, <1>t DEF Fetching, Saved
    <2>2. /\ \A u \in Tasks \ {t} : OneMessage(u)'
          /\ \A v \in Fetchers \ {w} : (Fetching(v, t)' <=> Fetching(v, t)) /\ (Saved(v, t)' <=> Saved(v, t))
      BY <1>2, <1>b, <1>t, <1>d DEF Added
    <2>3. crawlQ[t] = 0 /\ crawlQ'[t] = 1 /\ tasks[t].status = "InProgress" /\ ~InOutbox(t)
      BY <1>2, <1>b, <2>1 DEF OneCrawlMessage, Added
    <2>4. OneCrawlMessage(t)' /\ OneParsingMessage(t)' /\ RowFits(t)' /\ SeedFits(t)'
      BY <1>2, <1>a, <1>b, <1>c, <2>1, <2>2, <2>3 DEF OneCrawlMessage, OneParsingMessage, RowFits, SeedFits, Exists
    <2>5. QED
      BY <1>e, <2>2, <2>4
  <1>3. CASE /\ fw[w].pc = "loaded" /\ FetcherAt(w, "stored") /\ UNCHANGED <<tasks, crawlQ, parseQ>>
    <2>1. Fetching(w, t) /\ ~Saved(w, t) /\ Fetching(w, t)' /\ ~Saved(w, t)'
      BY <1>3, <1>t DEF FetcherAt, Fetching, Saved
    <2>2. /\ \A u \in Tasks \ {t} : OneMessage(u)'
          /\ \A v \in Fetchers \ {w} : (Fetching(v, t)' <=> Fetching(v, t)) /\ (Saved(v, t)' <=> Saved(v, t))
      BY <1>3, <1>t, <1>d DEF FetcherAt
    <2>3. Untouched(t)
      BY <1>3, <1>a, <1>c, <2>1, <2>2 DEF Untouched
    <2>4. QED
      BY <1>a, <2>2, <2>3, UntouchedFits
  <1>4. CASE /\ fw[w].pc = "stored" /\ FetcherAt(w, "saved")
             /\ Written(t, "Fetched", TRUE) /\ UNCHANGED <<crawlQ, parseQ>>
    <2>1. Fetching(w, t) /\ ~Saved(w, t) /\ ~Fetching(w, t)' /\ Saved(w, t)'
      BY <1>4, <1>t DEF FetcherAt, Fetching, Saved
    <2>2. tasks[t].status = "InProgress" /\ tasks'[t].status = "Fetched"
      BY <1>4, <1>b, <2>1 DEF OneCrawlMessage, Written, Exists
    <2>3. /\ \A u \in Tasks \ {t} : OneMessage(u)'
          /\ \A v \in Fetchers \ {w} : (Fetching(v, t)' <=> Fetching(v, t)) /\ (Saved(v, t)' <=> Saved(v, t))
      BY <1>4, <1>t, <1>d DEF FetcherAt, Written
    <2>4. OneCrawlMessage(t)' /\ OneParsingMessage(t)' /\ RowFits(t)' /\ SeedFits(t)'
      BY <1>4, <1>a, <1>b, <1>c, <2>1, <2>2, <2>3 DEF OneCrawlMessage, OneParsingMessage, RowFits, SeedFits, Exists
    <2>5. QED
      BY <1>e, <2>3, <2>4
  <1>5. CASE /\ fw[w].pc = "saved" /\ FetcherAt(w, "done")
             /\ Added(parseQ, parseQ', t) /\ UNCHANGED <<tasks, crawlQ>>
    <2>1. ~Fetching(w, t) /\ Saved(w, t) /\ ~Fetching(w, t)' /\ ~Saved(w, t)'
      BY <1>5, <1>t DEF FetcherAt, Fetching, Saved
    <2>2. /\ \A u \in Tasks \ {t} : OneMessage(u)'
          /\ \A v \in Fetchers \ {w} : (Fetching(v, t)' <=> Fetching(v, t)) /\ (Saved(v, t)' <=> Saved(v, t))
      BY <1>5, <1>t, <1>d DEF FetcherAt, Added
    <2>3. parseQ[t] = 0 /\ parseQ'[t] = 1 /\ tasks[t].status = "Fetched"
      BY <1>5, <1>b, <2>1 DEF OneParsingMessage, Added
    <2>4. OneCrawlMessage(t)' /\ OneParsingMessage(t)' /\ RowFits(t)' /\ SeedFits(t)'
      BY <1>5, <1>a, <1>b, <1>c, <2>1, <2>2, <2>3 DEF OneCrawlMessage, OneParsingMessage, RowFits, SeedFits, Exists
    <2>5. QED
      BY <1>e, <2>2, <2>4
  <1>6. CASE /\ fw[w].pc = "done" /\ fw' = [fw EXCEPT ![w] = IdleFetcher]
             /\ UNCHANGED <<tasks, crawlQ, parseQ>>
    <2>1. ~Fetching(w, t) /\ ~Saved(w, t) /\ ~Fetching(w, t)' /\ ~Saved(w, t)'
      BY <1>6, <1>b, <1>t DEF Fetching, Saved
    <2>2. /\ \A u \in Tasks \ {t} : OneMessage(u)'
          /\ \A v \in Fetchers \ {w} : (Fetching(v, t)' <=> Fetching(v, t)) /\ (Saved(v, t)' <=> Saved(v, t))
      BY <1>6, <1>b, <1>t, <1>d
    <2>3. Untouched(t)
      BY <1>6, <1>a, <1>c, <2>1, <2>2 DEF Untouched
    <2>4. QED
      BY <1>a, <2>2, <2>3, UntouchedFits
  <1>7. QED
    BY <1>a, <1>t, <1>1, <1>2, <1>3, <1>4, <1>5, <1>6 DEF FetchMoves

\* A parser handler takes a message.
LEMMA OneParseStart ==
  ASSUME Sound, NEW p \in Parsers, NEW t \in Tasks, ParseStart(p, t), pw[p].todo = {},
         \A u \in Tasks : OneMessage(u)
  PROVE  /\ \A u \in Tasks : OneMessage(u)'
         /\ pw'[p].todo = {} /\ \A q \in Parsers \ {p} : pw'[q] = pw[q]
  <1>a. /\ parseQ \in [Tasks -> Nat] /\ pw \in [Parsers -> ParserState] /\ ParsersOK
    BY DEF Sound, TypeOK, ParsersOK
  <1>b. OneCrawlMessage(t) /\ OneParsingMessage(t) /\ RowFits(t) /\ SeedFits(t) /\ t # NoTask
    BY TasksAssumption DEF OneMessage
  <1>c. /\ parseQ[t] = 1 /\ parseQ'[t] = 0 /\ \A u \in Tasks \ {t} : parseQ'[u] = parseQ[u]
        /\ UNCHANGED <<job, tasks, outbox, pub, crawlQ, fw>>
        /\ pw[p].pc = "idle" /\ pw[p].task = NoTask
    BY <1>a, <1>b DEF ParseStart, Pop, OneParsingMessage, ParsersOK
  <1>d. tasks[t].status = "Fetched"
    BY <1>b, <1>c DEF OneParsingMessage
  <1>e. /\ pw'[p].pc = "loaded" /\ pw'[p].task = t /\ pw'[p].todo = {}
        /\ \A q \in Parsers \ {p} : pw'[q] = pw[q]
    BY <1>a, <1>d DEF ParseStart, Exists
  <1>1. ASSUME NEW u \in Tasks, u # t PROVE OneMessage(u)'
    <2>1. Untouched(u)
      BY <1>c, <1>e, <1>1, OthersParse
    <2>2. QED
      BY <1>c, <2>1, UntouchedFits
  <1>2. /\ ParseOwes(p, t)' /\ ~ParseOwes(p, t) /\ ~Announcing(p, t) /\ ~Announcing(p, t)'
        /\ \A q \in Parsers \ {p} : (Announcing(q, t)' <=> Announcing(q, t)) /\ (ParseOwes(q, t)' <=> ParseOwes(q, t))
        /\ InOutbox(t)' <=> InOutbox(t)
        /\ \A w \in Fetchers : (Fetching(w, t)' <=> Fetching(w, t)) /\ (Saved(w, t)' <=> Saved(w, t))
    BY <1>b, <1>c, <1>e DEF ParseOwes, Announcing, InOutbox, Fetching, Saved
  <1>3. OneMessage(t)'
    BY <1>b, <1>c, <1>d, <1>2
    DEF OneMessage, OneCrawlMessage, OneParsingMessage, RowFits, SeedFits, Exists
  <1>4. QED
    BY <1>e, <1>1, <1>3

\* The transaction of a parser handler settles its task and announces others.
LEMMA OneCommit ==
  ASSUME NEW p \in Parsers, NEW t \in Tasks, t = pw[p].task,
         pw[p].pc = "stamped", pw[p].todo = {}, ParserAt(p, "done", Fresh(p)), Committed(p, t),
         job.state = "active" \/ NewLinks(p) = {},
         UNCHANGED <<job, outbox, pub, fw, crawlQ, parseQ>>,
         \A u \in Tasks : OneMessage(u)
  PROVE  \A u \in Tasks : OneMessage(u)'
  <1>a. ParseOwes(p, t) /\ tasks[t].status = "Fetched"
    BY DEF ParseOwes, OneMessage, OneParsingMessage
  <1>b. Fresh(p) \subseteq Tasks \ {t} /\ (\A u \in Fresh(p) : ~Exists(u) /\ u \in Tasks \ DupSeeds)
    BY <1>a, TasksAssumption DEF Fresh, NewLinks, PreparedLinks, Exists
  <1>c. /\ \A u \in Tasks : /\ InOutbox(u)' <=> InOutbox(u)
                            /\ \A w \in Fetchers : (Fetching(w, u)' <=> Fetching(w, u)) /\ (Saved(w, u)' <=> Saved(w, u))
        /\ \A u \in Tasks : \A q \in Parsers \ {p} :
              (Announcing(q, u)' <=> Announcing(q, u)) /\ (ParseOwes(q, u)' <=> ParseOwes(q, u))
        /\ \A u \in Tasks : /\ ~ParseOwes(p, u)' /\ ~Announcing(p, u)
                            /\ Announcing(p, u)' <=> u \in Fresh(p)
                            /\ ParseOwes(p, u) <=> u = t
    BY DEF InOutbox, Fetching, Saved, Announcing, ParseOwes, ParserAt
  <1>1. ASSUME NEW u \in Tasks, u # t, u \notin Fresh(p) PROVE OneMessage(u)'
    <2>1. tasks'[u] = tasks[u]
      BY <1>1 DEF Committed
    <2>2. Untouched(u)
      BY <1>1, <1>c, <2>1 DEF Untouched
    <2>3. QED
      BY <2>2, UntouchedFits
  <1>2. ASSUME NEW u \in Fresh(p) PROVE OneMessage(u)'
    <2>1. u \in Tasks /\ u # t /\ ~Exists(u) /\ tasks'[u].status = "InProgress" /\ tasks[u].status = "Absent"
      BY <1>2, <1>b DEF Committed, Exists
    <2>2. /\ OneCrawlMessage(u) /\ OneParsingMessage(u) /\ RowFits(u) /\ SeedFits(u)
      BY <2>1 DEF OneMessage
    <2>3. u \notin Seeds
      BY <1>2, <1>b, <2>1, <2>2 DEF SeedFits, Fresh
    <2>4. crawlQ[u] = 0 /\ ~InOutbox(u)
      BY <2>1, <2>2, <2>3 DEF SeedFits, InOutbox
    <2>5. /\ \A w \in Fetchers : ~Fetching(w, u) /\ ~Saved(w, u)
          /\ \A q \in Parsers : ~Announcing(q, u) /\ ~ParseOwes(q, u)
          /\ parseQ[u] = 0
      BY <2>1, <2>2 DEF OneCrawlMessage, OneParsingMessage
    <2>6. OneCrawlMessage(u)'
      BY <1>2, <1>c, <2>1, <2>4, <2>5 DEF OneCrawlMessage
    <2>7. OneParsingMessage(u)'
      BY <1>2, <1>c, <2>1, <2>4, <2>5 DEF OneParsingMessage
    <2>8. RowFits(u)'
      BY <1>2, <1>c, <2>1, <2>4, <2>5 DEF RowFits
    <2>9. SeedFits(u)'
      BY <1>2, <2>1, <2>2, <2>4 DEF SeedFits, Exists, Fresh
    <2>10. QED
      BY <2>6, <2>7, <2>8, <2>9 DEF OneMessage
  <1>3. OneMessage(t)'
    <2>1. tasks'[t].status = "Parsed" /\ t \notin Fresh(p)
      BY <1>a, <1>b DEF Committed, Exists
    <2>2. OneCrawlMessage(t) /\ OneParsingMessage(t) /\ RowFits(t) /\ SeedFits(t)
      BY DEF OneMessage
    <2>3. /\ crawlQ[t] = 0 /\ parseQ[t] = 0 /\ ~InOutbox(t)
          /\ \A w \in Fetchers : ~Fetching(w, t) /\ ~Saved(w, t)
          /\ \A q \in Parsers : ~Announcing(q, t) /\ (ParseOwes(q, t) => q = p)
      BY <1>a, <2>2 DEF OneCrawlMessage, OneParsingMessage, RowFits
    <2>4. OneCrawlMessage(t)' /\ OneParsingMessage(t)'
      BY <1>c, <2>1, <2>3 DEF OneCrawlMessage, OneParsingMessage
    <2>5. RowFits(t)' /\ SeedFits(t)'
      BY <1>a, <1>c, <2>1, <2>2, <2>3 DEF RowFits, SeedFits, Exists
    <2>6. QED
      BY <2>4, <2>5 DEF OneMessage
  <1>4. QED
    BY <1>1, <1>2, <1>3

\* A parser handler goes on.
LEMMA OneParseStep ==
  ASSUME Sound, NEW p \in Parsers, ParseStep(p), job.state # "deleted",
         faults' = 0, faults = 0, pw[p].todo # {} => pw[p].pc = "done",
         \A u \in Tasks : OneMessage(u)
  PROVE  \A u \in Tasks : OneMessage(u)'
  <1>a. ParseMoves(p)
    BY ParseStepMoves
  <1>b. UNCHANGED <<job, outbox, pub, fw>> /\ pw \in [Parsers -> ParserState] /\ ParsersOK
    BY <1>a DEF ParseMoves, Sound, TypeOK, ParsersOK
  <1>p. pw[p].pc # "idle" \/ pw[p].todo # {}
    BY <1>a DEF ParseMoves
  <1>t. PICK t \in Tasks : t = pw[p].task
    BY <1>b, <1>p, BusyParser
  <1>c. /\ OneCrawlMessage(t) /\ OneParsingMessage(t) /\ RowFits(t) /\ SeedFits(t)
        /\ t # NoTask /\ IdleParser.pc = "idle" /\ IdleParser.task = NoTask /\ IdleParser.todo = {}
    BY TasksAssumption DEF OneMessage, IdleParser
  <1>d. /\ \A u \in Tasks : /\ InOutbox(u)' <=> InOutbox(u)
                            /\ \A w \in Fetchers : (Fetching(w, u)' <=> Fetching(w, u)) /\ (Saved(w, u)' <=> Saved(w, u))
    BY <1>b DEF InOutbox, Fetching, Saved
  <1>e. ASSUME pw'[p].task \in {t, NoTask}, pw'[p].todo = pw[p].todo, \A q \in Parsers \ {p} : pw'[q] = pw[q],
               \A u \in Tasks \ {t} : crawlQ'[u] = crawlQ[u] /\ parseQ'[u] = parseQ[u] /\ tasks'[u].status = tasks[u].status
        PROVE  /\ \A u \in Tasks \ {t} : OneMessage(u)'
               /\ \A q \in Parsers : Announcing(q, t)' <=> Announcing(q, t)
               /\ \A q \in Parsers \ {p} : ParseOwes(q, t)' <=> ParseOwes(q, t)
    <2>1. ASSUME NEW u \in Tasks, u # t PROVE OneMessage(u)'
      <3>1. Untouched(u)
        BY <1>b, <1>t, <1>e, <2>1, OthersParse
      <3>2. QED
        BY <1>b, <3>1, UntouchedFits
    <2>2. QED
      BY <1>e, <2>1 DEF Announcing, ParseOwes
  <1>f. ASSUME OneCrawlMessage(t)', OneParsingMessage(t)', RowFits(t)', SeedFits(t)', \A u \in Tasks \ {t} : OneMessage(u)'
        PROVE  \A u \in Tasks : OneMessage(u)'
    BY <1>f DEF OneMessage
  <1>1. CASE /\ pw[p].pc = "loaded" /\ pw' = [pw EXCEPT ![p] = IdleParser]
             /\ Added(parseQ, parseQ', t) /\ UNCHANGED <<tasks, crawlQ>>
    <2>1. ParseOwes(p, t) /\ ~ParseOwes(p, t)' /\ pw[p].todo = {}
      BY <1>1, <1>b, <1>c, <1>t DEF ParseOwes
    <2>2. /\ \A u \in Tasks \ {t} : OneMessage(u)'
          /\ \A q \in Parsers : Announcing(q, t)' <=> Announcing(q, t)
          /\ \A q \in Parsers \ {p} : ParseOwes(q, t)' <=> ParseOwes(q, t)
      BY <1>1, <1>b, <1>c, <1>e, <2>1 DEF Added
    <2>3. parseQ[t] = 0 /\ parseQ'[t] = 1 /\ tasks[t].status = "Fetched"
      BY <1>1, <1>c, <2>1 DEF OneParsingMessage, Added
    <2>4. OneCrawlMessage(t)' /\ OneParsingMessage(t)' /\ RowFits(t)' /\ SeedFits(t)'
      BY <1>1, <1>b, <1>c, <1>d, <2>1, <2>2, <2>3 DEF OneCrawlMessage, OneParsingMessage, RowFits, SeedFits, Exists
    <2>5. QED
      BY <1>f, <2>2, <2>4
  <1>2. CASE /\ pw[p].pc = "loaded" /\ ParserAt(p, "done", pw[p].todo)
             /\ Written(t, "Failed", TRUE) /\ UNCHANGED <<crawlQ, parseQ>>
    <2>1. ParseOwes(p, t) /\ ~ParseOwes(p, t)'
      BY <1>2, <1>t DEF ParserAt, ParseOwes
    <2>2. tasks[t].status = "Fetched" /\ tasks'[t].status = "Failed"
      BY <1>2, <1>c, <2>1 DEF OneParsingMessage, Written, Exists
    <2>3. /\ \A u \in Tasks \ {t} : OneMessage(u)'
          /\ \A q \in Parsers : Announcing(q, t)' <=> Announcing(q, t)
          /\ \A q \in Parsers \ {p} : ParseOwes(q, t)' <=> ParseOwes(q, t)
      BY <1>2, <1>t, <1>e DEF ParserAt, Written
    <2>4. OneCrawlMessage(t)' /\ OneParsingMessage(t)' /\ RowFits(t)' /\ SeedFits(t)'
      BY <1>2, <1>b, <1>c, <1>d, <2>1, <2>2, <2>3 DEF OneCrawlMessage, OneParsingMessage, RowFits, SeedFits, Exists
    <2>5. QED
      BY <1>f, <2>3, <2>4
  <1>3. CASE pw[p].pc = "loaded" /\ ParserAt(p, "stamped", pw[p].todo) /\ UNCHANGED <<tasks, crawlQ, parseQ>>
    <2>1. ParseOwes(p, t) /\ ParseOwes(p, t)'
      BY <1>3, <1>t DEF ParserAt, ParseOwes
    <2>2. /\ \A u \in Tasks \ {t} : OneMessage(u)'
          /\ \A q \in Parsers : Announcing(q, t)' <=> Announcing(q, t)
          /\ \A q \in Parsers \ {p} : ParseOwes(q, t)' <=> ParseOwes(q, t)
      BY <1>3, <1>t, <1>e DEF ParserAt
    <2>3. Untouched(t)
      BY <1>3, <1>b, <1>d, <2>1, <2>2 DEF Untouched
    <2>4. QED
      BY <1>b, <2>2, <2>3, UntouchedFits
  <1>4. CASE /\ pw[p].pc = "stamped" /\ ParserAt(p, "done", Fresh(p)) /\ Committed(p, t)
             /\ job.state = "active" \/ NewLinks(p) = {}
             /\ UNCHANGED <<crawlQ, parseQ>>
    BY <1>4, <1>b, <1>t, OneCommit
  <1>5. ASSUME NEW c \in pw[p].todo, c \in Tasks, ParserAt(p, pw[p].pc, pw[p].todo \ {c}),
               Added(crawlQ, crawlQ', c), UNCHANGED <<tasks, parseQ>>
        PROVE  \A u \in Tasks : OneMessage(u)'
    <2>1. /\ Announcing(p, c) /\ ~Announcing(p, c)'
          /\ \A u \in Tasks : \A q \in Parsers : /\ ParseOwes(q, u)' <=> ParseOwes(q, u)
                                                 /\ u # c \/ q # p => (Announcing(q, u)' <=> Announcing(q, u))
      BY <1>5 DEF Announcing, ParseOwes, ParserAt
    <2>2. ASSUME NEW u \in Tasks, u # c PROVE OneMessage(u)'
      <3>1. Untouched(u)
        BY <1>b, <1>d, <1>5, <2>1, <2>2 DEF Untouched, Added
      <3>2. QED
        BY <1>b, <3>1, UntouchedFits
    <2>3. OneCrawlMessage(c) /\ OneParsingMessage(c) /\ RowFits(c) /\ SeedFits(c)
      BY <1>5 DEF OneMessage
    <2>4. /\ crawlQ[c] = 0 /\ crawlQ'[c] = 1 /\ tasks[c].status = "InProgress" /\ ~InOutbox(c)
          /\ \A w \in Fetchers : ~Fetching(w, c)
          /\ \A q \in Parsers : Announcing(q, c) => q = p
      BY <1>5, <2>1, <2>3 DEF OneCrawlMessage, Added
    <2>5. OneCrawlMessage(c)' /\ OneParsingMessage(c)' /\ RowFits(c)' /\ SeedFits(c)'
      BY <1>b, <1>d, <1>5, <2>1, <2>3, <2>4 DEF OneCrawlMessage, OneParsingMessage, RowFits, SeedFits, Exists
    <2>6. QED
      BY <2>2, <2>5 DEF OneMessage
  <1>6. CASE pw[p].pc = "done" /\ pw[p].todo = {} /\ pw' = [pw EXCEPT ![p] = IdleParser] /\ UNCHANGED <<tasks, crawlQ, parseQ>>
    <2>1. ~ParseOwes(p, t) /\ ~ParseOwes(p, t)'
      BY <1>6, <1>b, <1>c DEF ParseOwes
    <2>2. /\ \A u \in Tasks \ {t} : OneMessage(u)'
          /\ \A q \in Parsers : Announcing(q, t)' <=> Announcing(q, t)
          /\ \A q \in Parsers \ {p} : ParseOwes(q, t)' <=> ParseOwes(q, t)
      BY <1>6, <1>b, <1>c, <1>e
    <2>3. Untouched(t)
      BY <1>6, <1>b, <1>d, <2>1, <2>2 DEF Untouched
    <2>4. QED
      BY <1>b, <2>2, <2>3, UntouchedFits
  <1>7. CASE \E c \in pw[p].todo :
               /\ c \in Tasks /\ ParserAt(p, pw[p].pc, pw[p].todo \ {c})
               /\ \/ Added(crawlQ, crawlQ', c) /\ UNCHANGED faults
                  \/ faults' = faults + 1 /\ UNCHANGED crawlQ
               /\ UNCHANGED <<job, tasks, parseQ>>
    BY <1>5, <1>7
  <1>8. ~(job.state = "deleted" \/ faults' = faults + 1)
    OBVIOUS
  <1>9. QED
    BY <1>a, <1>t, <1>1, <1>2, <1>3, <1>4, <1>6, <1>7, <1>8 DEF ParseMoves

\* The job is created: every seed has its event.
LEMMA OneCreate ==
  ASSUME Sound, CreateCrawlJob, BatchFits, \A u \in Tasks : OneMessage(u)
  PROVE  \A u \in Tasks : OneMessage(u)'
  <1> SUFFICES ASSUME NEW u \in Tasks PROVE OneMessage(u)'
    OBVIOUS
  <1>a. /\ OneCrawlMessage(u) /\ OneParsingMessage(u) /\ RowFits(u) /\ SeedFits(u)
    BY DEF OneMessage
  <1>b. /\ job.state = "none" /\ job'.state = "active"
        /\ UNCHANGED <<crawlQ, parseQ, pub, fw, pw>>
        /\ outbox'[u] = IF u \in Seeds THEN "pending" ELSE outbox[u]
    BY DEF CreateCrawlJob, EventsCreated, Sound, TypeOK
  <1>c. ~Exists(u) /\ tasks[u].status = "Absent" /\ outbox[u] = "none" /\ crawlQ[u] = 0
    BY <1>a, <1>b DEF SeedFits, Exists
  <1>d. tasks'[u] = IF u \in Seeds \ DupSeeds THEN NewRow(0) ELSE tasks[u]
    BY <1>c, BulkCreateAt DEF CreateCrawlJob, EventsCreated
  <1>e. /\ u \in Seeds \ DupSeeds => tasks'[u].status = "InProgress"
        /\ u \notin Seeds \ DupSeeds => tasks'[u].status = "Absent"
    BY <1>c, <1>d, NewRowFields
  <1>f. u \notin pub.sent
    BY <1>c DEF BatchFits
  <1>g. InOutbox(u)' <=> u \in Seeds
    BY <1>b, <1>c, <1>f DEF InOutbox
  <1>h. /\ \A w \in Fetchers : ~Fetching(w, u) /\ ~Saved(w, u) /\ ~Fetching(w, u)' /\ ~Saved(w, u)'
        /\ \A p \in Parsers : ~Announcing(p, u) /\ ~ParseOwes(p, u) /\ ~Announcing(p, u)' /\ ~ParseOwes(p, u)'
        /\ parseQ[u] = 0
    <2>1. /\ \A w \in Fetchers : ~Fetching(w, u) /\ ~Saved(w, u)
          /\ \A p \in Parsers : ~Announcing(p, u) /\ ~ParseOwes(p, u)
          /\ parseQ[u] = 0
      BY <1>a, <1>c DEF OneCrawlMessage, OneParsingMessage
    <2>2. QED
      BY <1>b, <2>1 DEF Fetching, Saved, Announcing, ParseOwes
  <1>1. OneCrawlMessage(u)' /\ OneParsingMessage(u)'
    BY <1>b, <1>c, <1>h DEF OneCrawlMessage, OneParsingMessage
  <1>2. RowFits(u)'
    BY <1>b, <1>c, <1>e, <1>g DEF RowFits
  <1>3. SeedFits(u)'
    BY <1>b, <1>c, <1>e DEF SeedFits, Exists
  <1>4. QED
    BY <1>1, <1>2, <1>3 DEF OneMessage

\* The publisher moves a message from the outbox to the queue.
LEMMA OneOutbox ==
  ASSUME Sound, BatchFits, \A u \in Tasks : OneMessage(u),
         OutboxFetch \/ OutboxCommit \/ \E t \in Tasks : OutboxPublish(t)
  PROVE  (\A u \in Tasks : OneMessage(u)') /\ BatchFits'
  <1>a. /\ UNCHANGED <<job, tasks, parseQ, fw, pw>>
    BY DEF OutboxFetch, OutboxCommit, OutboxPublish
  <1>t. /\ outbox \in [Tasks -> {"none", "pending", "processed"}] /\ crawlQ \in [Tasks -> Nat]
        /\ pub.batch \in SUBSET Tasks /\ pub.sent \in SUBSET Tasks
        /\ pub \in [batch : SUBSET Tasks, sent : SUBSET Tasks]
    BY DEF Sound, TypeOK
  <1>b. ASSUME NEW u \in Tasks, crawlQ'[u] = crawlQ[u], (outbox'[u] = "none") <=> (outbox[u] = "none"),
               InOutbox(u)' <=> InOutbox(u)
        PROVE  OneMessage(u)'
    <2>1. Untouched(u)
      BY <1>a, <1>b DEF Untouched, Fetching, Saved, Announcing, ParseOwes
    <2>2. QED
      BY <1>a, <2>1, UntouchedFits
  <1>1. CASE OutboxFetch
    <2>1. /\ pub.sent = {} /\ pub'.sent = {} /\ pub'.batch = Pending /\ UNCHANGED <<outbox, crawlQ>>
      BY <1>1 DEF OutboxFetch, BatchFits
    <2>2. \A u \in Tasks : InOutbox(u)' <=> InOutbox(u)
      BY <2>1 DEF InOutbox
    <2>3. QED
      BY <1>a, <1>b, <2>1, <2>2 DEF BatchFits, Pending
  <1>2. CASE OutboxCommit
    <2>1. /\ pub'.sent = {} /\ pub'.batch = {} /\ UNCHANGED crawlQ
          /\ \A u \in Tasks : outbox'[u] = IF u \in pub.sent THEN "processed" ELSE outbox[u]
      BY <1>2 DEF OutboxCommit, IdlePublisher
    <2>2. \A u \in pub.sent : outbox[u] = "pending"
      BY DEF BatchFits
    <2>3. \A u \in Tasks : (InOutbox(u)' <=> InOutbox(u)) /\ ((outbox'[u] = "none") <=> (outbox[u] = "none"))
      BY <2>1, <2>2 DEF InOutbox
    <2>4. QED
      BY <1>a, <1>b, <2>1, <2>3 DEF BatchFits
  <1>3. ASSUME NEW t \in Tasks, OutboxPublish(t) PROVE (\A u \in Tasks : OneMessage(u)') /\ BatchFits'
    <2>1. /\ t \in pub.batch /\ t \notin pub.sent /\ outbox[t] = "pending"
          /\ pub'.batch = pub.batch /\ pub'.sent = pub.sent \cup {t} /\ outbox' = outbox
      BY <1>3, <1>t DEF OutboxPublish, BatchFits
    <2>2. Added(crawlQ, crawlQ', t)
      BY <1>3, <1>t, PushAdds DEF OutboxPublish
    <2>3. BatchFits'
      BY <1>a, <2>1 DEF BatchFits
    <2>4. ASSUME NEW u \in Tasks, u # t PROVE OneMessage(u)'
      BY <1>b, <2>1, <2>2, <2>4 DEF InOutbox, Added
    <2>5. /\ OneCrawlMessage(t) /\ OneParsingMessage(t) /\ RowFits(t) /\ SeedFits(t)
          /\ InOutbox(t) /\ ~InOutbox(t)'
      BY <2>1 DEF OneMessage, InOutbox
    <2>6. /\ crawlQ[t] = 0 /\ crawlQ'[t] = 1 /\ tasks[t].status \in {"Absent", "InProgress"}
          /\ t \in Seeds /\ job.state # "none"
      BY <2>1, <2>2, <2>5 DEF OneCrawlMessage, RowFits, SeedFits, Added
    <2>7. /\ \A w \in Fetchers : (Fetching(w, t)' <=> Fetching(w, t)) /\ (Saved(w, t)' <=> Saved(w, t))
          /\ \A p \in Parsers : (Announcing(p, t)' <=> Announcing(p, t)) /\ (ParseOwes(p, t)' <=> ParseOwes(p, t))
      BY <1>a DEF Fetching, Saved, Announcing, ParseOwes
    <2>8. OneCrawlMessage(t)' /\ OneParsingMessage(t)' /\ RowFits(t)' /\ SeedFits(t)'
      BY <1>a, <2>1, <2>5, <2>6, <2>7 DEF OneCrawlMessage, OneParsingMessage, RowFits, SeedFits, Exists
    <2>9. QED
      BY <2>3, <2>4, <2>8 DEF OneMessage
  <1>4. QED
    BY <1>1, <1>2, <1>3

\* A task that is InProgress is being dispatched: there is nothing to recover.
LEMMA NothingIsStale ==
  ASSUME NEW t \in Tasks, OneMessage(t), Slow = {}, RecoverStale(t)
  PROVE  FALSE
  <1>1. tasks[t].status = "InProgress" /\ ~Dispatched(t)
    BY DEF RecoverStale, Stale
  <1>2. InOutbox(t) \/ crawlQ[t] = 1 \/ (\E w \in Fetchers : Fetching(w, t)) \/ \E p \in Parsers : Announcing(p, t)
    BY <1>1 DEF OneMessage, RowFits
  <1>3. Dispatched(t)
    BY <1>2 DEF Dispatched, InOutbox, Fetching, Announcing
  <1>4. QED
    BY <1>1, <1>3

\* When all tasks are settled no handler has a row to write.
LEMMA SettledStays ==
  ASSUME Sound, \A u \in Tasks : OneMessage(u), \A u \in Tasks : Settled(u),
         job.state # "deleted", faults = 0, faults' = 0,
         \/ \E w \in Fetchers : FetchStep(w)
         \/ \E p \in Parsers : ParseStep(p)
  PROVE  tasks' = tasks
  <1>a. tasks \in [Tasks -> Row] /\ FetchersOK /\ ParsersOK
    BY DEF Sound, TypeOK, FetchersOK, ParsersOK
  <1>1. ASSUME NEW w \in Fetchers, FetchStep(w) PROVE tasks' = tasks
    <2>1. FetchMoves(w)
      BY <1>1, FetchStepMoves
    <2>2. ASSUME fw[w].pc \in {"loaded", "stored"} PROVE FALSE
      <3>1. PICK t \in Tasks : t = fw[w].task
        BY <2>1 DEF FetchMoves
      <3>2. Fetching(w, t)
        BY <2>2, <3>1 DEF Fetching
      <3>3. QED
        BY <3>2 DEF OneMessage, OneCrawlMessage, Settled
    <2>3. QED
      BY <2>1, <2>2 DEF FetchMoves
  <1>2. ASSUME NEW p \in Parsers, ParseStep(p) PROVE tasks' = tasks
    <2>1. ParseMoves(p)
      BY <1>2, ParseStepMoves
    <2>2. ASSUME pw[p].pc \in {"loaded", "stamped"} PROVE FALSE
      <3>1. PICK t \in Tasks : t = pw[p].task
        BY <1>a, <2>2, BusyParser
      <3>2. ParseOwes(p, t)
        BY <2>2, <3>1 DEF ParseOwes
      <3>3. QED
        BY <3>2 DEF OneMessage, OneParsingMessage, Settled
    <2>3. QED
      BY <2>1, <2>2 DEF ParseMoves
  <1>3. QED
    BY <1>1, <1>2

\* The export worker reads the results of all Parsed tasks.
LEMMA ExportStepFits ==
  ASSUME Sound, ExportStep, ExportFits, faults = 0, faults' = 0
  PROVE  ExportFits'
  <1>a. /\ ex \in ExportState /\ tasks \in [Tasks -> Row] /\ results \in SUBSET Tasks
        /\ report \in [json : SUBSET Tasks, csv : SUBSET Tasks]
    BY DEF Sound, TypeOK
  <1>1. CASE ExportSelect
    <2>1. /\ ex'.pc = "selected" /\ job.state = "active" /\ UNCHANGED <<job, tasks, report>>
      BY <1>1, <1>a DEF ExportSelect, Eligible, ExportState
    <2>2. \A t \in Tasks : Settled(t)
      BY <1>1 DEF ExportSelect, Eligible, Settled
    <2>3. QED
      BY <2>1, <2>2 DEF ExportFits, Settled, ParsedTasks
  <1>2. CASE ExportRead
    <2>1. /\ ex.pc = "selected" /\ ex'.pc = "read" /\ ex'.snap = Loadable
          /\ UNCHANGED <<job, tasks, report>>
      BY <1>2 DEF ExportRead, Fault
    <2>2. Loadable = ParsedTasks
      <3>1. \A t \in Tasks : tasks[t].status = "Parsed" => tasks[t].result # "none" /\ t \in results
        BY DEF Sound, StoredBeforeReferenced, Backed
      <3>2. QED
        BY <1>a, <3>1 DEF Loadable, ParsedTasks
    <2>3. QED
      BY <2>1, <2>2 DEF ExportFits, Settled, ParsedTasks
  <1>3. CASE ExportJSON
    <2>1. /\ ex.pc = "read" /\ ex'.pc = "json" /\ ex'.snap = ex.snap /\ report'.json = ex.snap
          /\ report'.csv = report.csv /\ UNCHANGED <<job, tasks>>
      BY <1>3, <1>a DEF ExportJSON, ExportState
    <2>2. QED
      BY <2>1 DEF ExportFits, Settled, ParsedTasks
  <1>4. CASE ExportFinish
    <2>1. ex.pc = "json"
      BY <1>4 DEF ExportFinish
    <2>2. ParsedTasks' = ParsedTasks
      BY <1>4, ExportFinishMoves DEF ParsedTasks
    <2>3. QED
      BY <1>4, <2>1, <2>2, ExportFinishMoves DEF ExportFits, Settled
  <1>5. QED
    BY <1>1, <1>2, <1>3, <1>4 DEF ExportStep

\* No step breaks OneMessageEach.
LEMMA OneMessageStep ==
  ASSUME Sound, OneMessageEach, [Next]_vars
  PROVE  OneMessageEach'
  <1> SUFFICES ASSUME Orderly'
               PROVE  BatchFits' /\ ExportFits' /\ \A u \in Tasks : OneMessage(u)'
    BY DEF OneMessageEach
  <1>a. /\ TypeOK /\ faults \in Nat /\ pw \in [Parsers -> ParserState]
        /\ job \in [state : {"none", "active", "deleted"}, exported : BOOLEAN,
                    export : {"NOT_STARTED", "COMPLETED", "FAILED"}]
    BY BoundsAssumption DEF Sound, TypeOK
  <1>b. faults' \in {faults, faults + 1}
    BY DEF Next, Work, vars, CreateCrawlJob, EventsCreated, DeleteCrawlJob, OutboxFetch, OutboxPublish, OutboxCommit,
           OutboxAbort, RecoverStale, FetchStart, FetchStep, FetchReject, FetchFail, FailTask,
           FetchInvalidURL, FetchStore, FetchSave, FetchPublish, FetchAck, FetchNack, ParseStart,
           ParseStep, ParseNoPage, ParseFail, FailParse, ParseUpload, ParseCommit, ParseRollback,
           ParsePublish, ParseAck, ParseNack, ExportStep, ExportSelect, ExportRead, ExportJSON,
           ExportFinish, ExportFail, FailExport, ExportAbort, Fault
  <1>c. faults = 0 /\ faults' = 0 /\ Slow = {} /\ job'.state # "deleted"
    BY <1>a, <1>b DEF Orderly
  <1>d. ~Fault /\ ~DeleteCrawlJob
    BY <1>a, <1>c DEF Fault, DeleteCrawlJob
  <1>e. /\ ~OutboxAbort /\ ~ExportFail /\ ~ExportAbort
        /\ \A w \in Fetchers : ~FetchNack(w)
        /\ \A p \in Parsers : ~ParseNack(p)
    BY <1>d DEF OutboxAbort, ExportFail, FailExport, ExportAbort, FetchNack, ParseNack
  <1>f. ASSUME job'.state = job.state PROVE Orderly
    BY <1>c, <1>f DEF Orderly
  <1>g. ASSUME Orderly PROVE BatchFits /\ ExportFits /\ \A u \in Tasks : OneMessage(u)
    BY <1>g DEF OneMessageEach
  <1>h. ASSUME ExportFits, UNCHANGED <<ex, report>>, job'.exported = job.exported, job'.state = job.state,
               (ex.pc # "idle" \/ job.exported) => tasks' = tasks
        PROVE  ExportFits'
    <2>1. CASE ex.pc # "idle" \/ job.exported
      BY <1>h, <2>1 DEF ExportFits, Settled, ParsedTasks
    <2>2. CASE ~(ex.pc # "idle" \/ job.exported)
      BY <1>h, <2>2 DEF ExportFits
    <2>3. QED
      BY <2>1, <2>2
  <1>1. CASE CreateCrawlJob
    <2>1. job.state = "none" /\ job'.state = "active" /\ job'.exported = job.exported
          /\ UNCHANGED <<ex, report, pub, pw>>
      BY <1>1, <1>a DEF CreateCrawlJob, EventsCreated
    <2>2. BatchFits /\ ExportFits /\ \A u \in Tasks : OneMessage(u)
      BY <1>c, <1>g, <2>1 DEF Orderly
    <2>3. \A u \in Tasks : OneMessage(u)'
      BY <1>1, <2>2, OneCreate
    <2>4. ex.pc = "idle" /\ ~job.exported
      BY <2>1, <2>2 DEF ExportFits
    <2>5. ExportFits'
      BY <2>1, <2>4 DEF ExportFits
    <2>6. BatchFits'
      <3>1. \A t \in pub.batch : FALSE
        <4>1. \A t \in Tasks : outbox[t] = "none"
          BY <2>1, <2>2 DEF OneMessage, SeedFits
        <4>2. pub.batch \subseteq Tasks
          BY <1>a DEF TypeOK
        <4>3. QED
          BY <2>2, <4>1, <4>2 DEF BatchFits
      <3>2. QED
        BY <2>1, <2>2, <3>1 DEF BatchFits
    <2>7. QED
      BY <2>3, <2>5, <2>6
  <1>2. CASE OutboxFetch \/ OutboxCommit \/ \E t \in Tasks : OutboxPublish(t)
    <2>1. UNCHANGED <<job, tasks, ex, report>>
      BY <1>2 DEF OutboxFetch, OutboxCommit, OutboxPublish
    <2>2. BatchFits /\ ExportFits /\ \A u \in Tasks : OneMessage(u)
      BY <1>f, <1>g, <2>1
    <2>3. QED
      BY <1>2, <1>h, <2>1, <2>2, OneOutbox
  <1>3. ASSUME NEW t \in Tasks, RecoverStale(t) PROVE FALSE
    <2>1. job' = job
      BY <1>3 DEF RecoverStale
    <2>2. QED
      BY <1>3, <1>c, <1>f, <1>g, <2>1, NothingIsStale
  <1>4. ASSUME NEW w \in Fetchers, (\E t \in Tasks : FetchStart(w, t)) \/ FetchStep(w)
        PROVE  BatchFits' /\ ExportFits' /\ \A u \in Tasks : OneMessage(u)'
    <2>1. UNCHANGED <<job, ex, report, pub, outbox, pw>>
      <3>1. CASE \E t \in Tasks : FetchStart(w, t)
        BY <3>1 DEF FetchStart
      <3>2. CASE FetchStep(w)
        BY <3>2, FetchStepMoves DEF FetchMoves
      <3>3. QED
        BY <1>4, <3>1, <3>2
    <2>2. Orderly /\ BatchFits /\ ExportFits /\ \A u \in Tasks : OneMessage(u)
      BY <1>f, <1>g, <2>1
    <2>3. \A u \in Tasks : OneMessage(u)'
      BY <1>4, <2>2, OneFetchStart, OneFetchStep DEF Orderly
    <2>4. (ex.pc # "idle" \/ job.exported) => tasks' = tasks
      <3>1. CASE \E t \in Tasks : FetchStart(w, t)
        BY <3>1 DEF FetchStart
      <3>2. CASE FetchStep(w)
        BY <1>c, <2>2, <3>2, SettledStays DEF ExportFits, Orderly
      <3>3. QED
        BY <1>4, <3>1, <3>2
    <2>5. BatchFits'
      BY <2>1, <2>2 DEF BatchFits
    <2>6. QED
      BY <1>h, <2>1, <2>2, <2>3, <2>4, <2>5
  <1>5. ASSUME NEW p \in Parsers, (\E t \in Tasks : ParseStart(p, t)) \/ ParseStep(p)
        PROVE  BatchFits' /\ ExportFits' /\ \A u \in Tasks : OneMessage(u)'
    <2>1. UNCHANGED <<job, ex, report, pub, outbox>>
      <3>1. CASE \E t \in Tasks : ParseStart(p, t)
        BY <3>1 DEF ParseStart
      <3>2. CASE ParseStep(p)
        BY <3>2, ParseStepMoves DEF ParseMoves
      <3>3. QED
        BY <1>5, <3>1, <3>2
    <2>2. Orderly /\ BatchFits /\ ExportFits /\ \A u \in Tasks : OneMessage(u)
      BY <1>f, <1>g, <2>1
    <2>3. CASE \E t \in Tasks : ParseStart(p, t)
      <3>1. PICK t \in Tasks : ParseStart(p, t)
        BY <2>3
      <3>2. pw[p].todo = {}
        BY <2>2, <3>1 DEF BatchFits, ParseStart
      <3>3. /\ \A u \in Tasks : OneMessage(u)'
            /\ pw'[p].todo = {} /\ \A q \in Parsers \ {p} : pw'[q] = pw[q]
        BY <2>2, <3>1, <3>2, OneParseStart
      <3>4. BatchFits'
        BY <2>1, <2>2, <3>3 DEF BatchFits
      <3>5. tasks' = tasks
        BY <3>1 DEF ParseStart
      <3>6. QED
        BY <1>h, <2>1, <2>2, <3>3, <3>4, <3>5
    <2>4. CASE ParseStep(p)
      <3>1. pw[p].todo # {} => pw[p].pc = "done"
        BY <2>2 DEF BatchFits
      <3>2. \A u \in Tasks : OneMessage(u)'
        BY <1>c, <2>2, <2>4, <3>1, OneParseStep DEF Orderly
      <3>3. (ex.pc # "idle" \/ job.exported) => tasks' = tasks
        BY <1>c, <2>2, <2>4, SettledStays DEF ExportFits, Orderly
      <3>4. /\ \A q \in Parsers \ {p} : pw'[q] = pw[q]
            /\ pw'[p].todo # {} => pw'[p].pc = "done"
        <4>1. ParseMoves(p) /\ IdleParser.todo = {}
          BY <2>4, ParseStepMoves DEF IdleParser
        <4>2. CASE pw' = [pw EXCEPT ![p] = IdleParser]
          BY <1>a, <4>1, <4>2
        <4>3. CASE pw' # [pw EXCEPT ![p] = IdleParser]
          BY <3>1, <4>1, <4>3 DEF ParseMoves, ParserAt
        <4>4. QED
          BY <4>2, <4>3
      <3>5. BatchFits'
        BY <2>1, <2>2, <3>4 DEF BatchFits
      <3>6. QED
        BY <1>h, <2>1, <2>2, <3>2, <3>3, <3>5
    <2>5. QED
      BY <1>5, <2>3, <2>4
  <1>6. CASE ExportStep
    <2>1. UNCHANGED <<outbox, crawlQ, parseQ, pub>> /\ job'.state = job.state
      BY <1>6, <1>a DEF ExportStep, ExportSelect, ExportRead, ExportJSON, ExportFinish
    <2>2. BatchFits /\ ExportFits /\ \A u \in Tasks : OneMessage(u)
      BY <1>f, <1>g, <2>1
    <2>3. /\ \A t \in Tasks : tasks'[t].status = tasks[t].status
          /\ \A w \in Fetchers : fw'[w].pc = fw[w].pc /\ fw'[w].task = fw[w].task
          /\ \A p \in Parsers : pw'[p].pc = pw[p].pc /\ pw'[p].task = pw[p].task /\ pw'[p].todo = pw[p].todo
      <3>1. CASE ExportFinish
        BY <3>1, ExportFinishMoves
      <3>2. CASE ExportSelect \/ ExportRead \/ ExportJSON
        BY <3>2 DEF ExportSelect, ExportRead, ExportJSON
      <3>3. QED
        BY <1>6, <3>1, <3>2 DEF ExportStep
    <2>4. ASSUME NEW u \in Tasks PROVE OneMessage(u)'
      <3>1. Untouched(u)
        BY <2>1, <2>3 DEF Untouched, InOutbox, Fetching, Saved, Announcing, ParseOwes
      <3>2. QED
        BY <2>1, <2>2, <3>1, UntouchedFits
    <2>5. BatchFits'
      BY <2>1, <2>2, <2>3 DEF BatchFits
    <2>6. QED
      BY <1>6, <1>c, <2>2, <2>4, <2>5, ExportStepFits
  <1>7. CASE UNCHANGED vars
    <2>1. UNCHANGED <<job, tasks, outbox, crawlQ, parseQ, report, pub, fw, pw, ex>>
      BY <1>7 DEF vars
    <2>2. BatchFits /\ ExportFits /\ \A u \in Tasks : OneMessage(u)
      BY <1>f, <1>g, <2>1
    <2>3. ASSUME NEW u \in Tasks PROVE OneMessage(u)'
      <3>1. Untouched(u)
        BY <2>1 DEF Untouched, InOutbox, Fetching, Saved, Announcing, ParseOwes
      <3>2. QED
        BY <2>1, <2>2, <3>1, UntouchedFits
    <2>4. QED
      BY <1>h, <2>1, <2>2, <2>3 DEF BatchFits
  <1>8. QED
    BY <1>d, <1>e, <1>1, <1>2, <1>3, <1>4, <1>5, <1>6, <1>7 DEF Next, Work

\* THEOREM.  For every link graph and every number of handlers, as long as no call
\* fails and no task is slow: when a job is exported all its tasks are settled,
\* no row changes afterwards, and both reports have the result of every Parsed task.
THEOREM ExportIsComplete == Spec => []ExportIsFinal
  <1>1. Init => OneMessageEach
    <2> SUFFICES ASSUME Init PROVE BatchFits /\ ExportFits /\ \A t \in Tasks : OneMessage(t)
      BY DEF OneMessageEach
    <2>1. /\ job.state = "none" /\ ~job.exported /\ ex.pc = "idle" /\ pub.batch = {} /\ pub.sent = {}
          /\ \A w \in Fetchers : fw[w].pc = "idle"
          /\ \A p \in Parsers : pw[p].pc = "idle" /\ pw[p].todo = {}
          /\ \A t \in Tasks : /\ tasks[t].status = "Absent" /\ outbox[t] = "none"
                              /\ crawlQ[t] = 0 /\ parseQ[t] = 0
      BY NewRowFields DEF Init, IdleExport, IdlePublisher, IdleFetcher, IdleParser
    <2>2. BatchFits /\ ExportFits
      BY <2>1 DEF BatchFits, ExportFits
    <2>3. ASSUME NEW t \in Tasks PROVE OneMessage(t)
      <3>1. /\ ~InOutbox(t)
            /\ \A w \in Fetchers : ~Fetching(w, t) /\ ~Saved(w, t)
            /\ \A p \in Parsers : ~Announcing(p, t) /\ ~ParseOwes(p, t)
        BY <2>1 DEF InOutbox, Fetching, Saved, Announcing, ParseOwes
      <3>2. QED
        BY <2>1, <3>1 DEF OneMessage, OneCrawlMessage, OneParsingMessage, RowFits, SeedFits, Exists
    <2>4. QED
      BY <2>2, <2>3
  <1>2. Frontier /\ OneMessageEach /\ [Next]_vars => OneMessageEach'
    BY OneMessageStep DEF Frontier
  <1>3. OneMessageEach => ExportIsFinal
    BY DEF OneMessageEach, Orderly, ExportFits, ExportIsFinal, ParsedTasks
  <1>4. QED
    BY <1>1, <1>2, <1>3, FrontierInvariant, PTL DEF Spec

-----------------------------------------------------------------------------
(* 6. The list of the job's tasks as its owner sees it.                     *)

\* The same tasks, at the same depths.
SameList ==
  \A t \in Tasks : (Exists(t)' <=> Exists(t)) /\ tasks'[t].depth = tasks[t].depth

\* The links of task s that have no row yet.
NewTasks(s) == {c \in PreparedLinks(s, tasks[s].depth) : ~Exists(c)}

\* They are listed, one step deeper, and nothing else changes.
ListGrows(s) ==
  /\ s \in Tasks /\ Exists(s) /\ job.state = "active" /\ ex.pc = "idle" /\ NewTasks(s) # {}
  /\ UNCHANGED <<job, report, ex>>
  /\ \A t \in Tasks : IF t \in NewTasks(s) THEN Exists(t)' /\ tasks'[t].depth = tasks[s].depth + 1
                      ELSE (Exists(t)' <=> Exists(t)) /\ tasks'[t].depth = tasks[t].depth

\* What a running export relies on: the job is there, and so are the tasks it
\* has read; the first report is the one it wrote.
ExportSound ==
  /\ ex.pc # "idle" => job.state = "active"
  /\ ex.pc \in {"read", "json"} => \A t \in ex.snap : Exists(t)
  /\ ex.pc = "json" => report.json = ex.snap

\* A write of a row of the same depth leaves the list alone.
LEMMA UpdateKeepsList ==
  ASSUME TypeOK, NEW u \in Tasks, NEW r, r.status # "Absent",
         Exists(u) => r.depth = tasks[u].depth, tasks' = Update(u, r)
  PROVE  SameList
  <1>1. \A t \in Tasks : tasks'[t] = IF t = u /\ Exists(u) THEN r ELSE tasks[t]
    BY UpdateAt
  <1>2. QED
    BY <1>1 DEF SameList, Exists

\* The same table has the same list.
LEMMA SameTasksSameList ==
  ASSUME tasks' = tasks
  PROVE  SameList
  BY DEF SameList, Exists

\* Copies of rows that will be written agree with the table on the depth.
LEMMA CopyDepth ==
  ASSUME DepthsAgree
  PROVE  /\ \A w \in Fetchers : fw[w].pc \in {"loaded", "stored"} /\ fw[w].task \in Tasks /\ Exists(fw[w].task)
                                  => fw[w].row.depth = tasks[fw[w].task].depth
         /\ \A p \in Parsers : pw[p].pc \in {"loaded", "stamped"} /\ pw[p].task \in Tasks /\ Exists(pw[p].task)
                                  => pw[p].row.depth = tasks[pw[p].task].depth
  BY DEF DepthsAgree, Current

\* A fetch handler leaves the list alone.
LEMMA FetchKeepsList ==
  ASSUME Frontier, NEW w \in Fetchers, FetchStep(w)
  PROVE  SameList /\ UNCHANGED <<job, report, ex>>
  <1>1. TypeOK /\ FetchersOK /\ DepthsAgree
    BY DEF Frontier, Sound, TypeOK, FetchersOK
  <1>2. fw[w].pc # "idle"
    BY DEF FetchStep, FetchReject, FetchFail, FetchInvalidURL, FetchStore, FetchSave, FetchPublish, FetchAck
  <1>3. fw[w].task \in Tasks /\ fw[w].row \in Row
    BY <1>1, <1>2, BusyFetcher
  <1>4. ASSUME fw[w].pc \in {"loaded", "stored"}, NEW r, r.status # "Absent", r.depth = fw[w].row.depth,
               tasks' = Update(fw[w].task, r)
        PROVE  SameList
    <2>1. Exists(fw[w].task) => r.depth = tasks[fw[w].task].depth
      BY <1>1, <1>3, <1>4, CopyDepth
    <2>2. QED
      BY <1>1, <1>3, <1>4, <2>1, UpdateKeepsList
  <1>5. /\ MarkAsFailed(fw[w].row).status = "Failed" /\ MarkAsFailed(fw[w].row).depth = fw[w].row.depth
        /\ MarkAsFetched(fw[w].row).status = "Fetched" /\ MarkAsFetched(fw[w].row).depth = fw[w].row.depth
    BY <1>3, RowFields
  <1>6. CASE FetchReject(w) \/ FetchFail(w)
    BY <1>4, <1>5, <1>6 DEF FetchReject, FetchFail, FailTask
  <1>7. CASE FetchSave(w)
    BY <1>4, <1>5, <1>7 DEF FetchSave
  <1>8. CASE FetchInvalidURL(w) \/ FetchStore(w) \/ FetchPublish(w) \/ FetchAck(w)
    BY <1>8, SameTasksSameList DEF FetchInvalidURL, FetchStore, FetchPublish, FetchAck
  <1>9. QED
    BY <1>6, <1>7, <1>8 DEF FetchStep

\* The parser's transaction lists the new links of its page, or there are none.
LEMMA CommitGrowsList ==
  ASSUME Frontier, NEW p \in Parsers, ParseCommit(p)
  PROVE  (SameList /\ UNCHANGED <<job, report, ex>>) \/ ListGrows(pw[p].task)
  <1> DEFINE s == pw[p].task
             r == pw[p].row
             mid == Update(s, r)
             S == NewLinks(p)
  <1>1. TypeOK /\ ParsersOK /\ DepthsAgree /\ CopiesAreSound
    BY DEF Frontier, Sound, TypeOK, ParsersOK
  <1>2. s \in Tasks /\ r \in Row /\ r.status = "Parsed"
    BY <1>1, BusyParser DEF ParseCommit, CopiesAreSound
  <1>3. Exists(s) => r.depth = tasks[s].depth
    BY <1>1, <1>2, CopyDepth DEF ParseCommit
  <1>4. \A t \in Tasks : mid[t] = IF t = s /\ Exists(s) THEN r ELSE tasks[t]
    BY <1>1, <1>2, UpdateAt
  <1>5. \A t \in Tasks : tasks'[t] = IF t \in S /\ mid[t].status = "Absent" THEN NewRow(r.depth + 1) ELSE mid[t]
    BY BulkCreateAt DEF ParseCommit
  <1>6. r.depth + 1 \in Nat /\ r.depth \in Nat
    BY <1>2 DEF Row
  <1>7. \A t \in Tasks : (mid[t].status = "Absent" <=> ~Exists(t)) /\ mid[t].depth = tasks[t].depth
    BY <1>2, <1>3, <1>4 DEF Exists
  <1>8. NewRow(r.depth + 1).status # "Absent" /\ NewRow(r.depth + 1).depth = r.depth + 1
    BY <1>6, NewRowFields
  <1>9. UNCHANGED <<job, report, ex>> /\ S \subseteq Tasks
    BY <1>2, TasksAssumption DEF ParseCommit, NewLinks, PreparedLinks
  <1>10. CASE \A c \in S : Exists(c)
    <2>1. \A t \in Tasks : tasks'[t] = mid[t]
      BY <1>5, <1>7, <1>10
    <2>2. SameList
      BY <1>7, <2>1 DEF SameList, Exists
    <2>3. QED
      BY <1>9, <2>2
  <1>11. CASE ~\A c \in S : Exists(c)
    <2>1. job.state = "active" /\ ex.pc = "idle"
      BY <1>11 DEF ParseCommit, Inserted, Exists
    <2>2. Current(s, r)
      BY <1>1 DEF ParseCommit, DepthsAgree
    <2>3. Exists(s) /\ r.depth = tasks[s].depth
      BY <2>1, <2>2 DEF Current
    <2>4. NewTasks(s) = {c \in S : ~Exists(c)}
      BY <2>3 DEF NewTasks, NewLinks
    <2>5. NewTasks(s) # {}
      BY <1>11, <2>4
    <2>6. ASSUME NEW t \in Tasks
          PROVE  IF t \in NewTasks(s) THEN Exists(t)' /\ tasks'[t].depth = tasks[s].depth + 1
                 ELSE (Exists(t)' <=> Exists(t)) /\ tasks'[t].depth = tasks[t].depth
      <3>1. CASE t \in NewTasks(s)
        <4>1. tasks'[t] = NewRow(r.depth + 1)
          BY <1>5, <1>7, <2>4, <3>1
        <4>2. QED
          BY <1>8, <2>3, <3>1, <4>1 DEF Exists
      <3>2. CASE t \notin NewTasks(s)
        <4>1. tasks'[t] = mid[t]
          BY <1>5, <1>7, <2>4, <3>2
        <4>2. QED
          BY <1>7, <3>2, <4>1 DEF Exists
      <3>3. QED
        BY <3>1, <3>2
    <2>7. QED
      BY <1>2, <1>9, <2>1, <2>3, <2>5, <2>6 DEF ListGrows
  <1>12. QED
    BY <1>10, <1>11

\* The other steps of a parser handler leave the list alone.
LEMMA ParseKeepsList ==
  ASSUME Frontier, NEW p \in Parsers, ParseStep(p)
  PROVE  (SameList /\ UNCHANGED <<job, report, ex>>) \/ ListGrows(pw[p].task)
  <1>1. TypeOK /\ ParsersOK /\ DepthsAgree
    BY DEF Frontier, Sound, TypeOK, ParsersOK
  <1>2. CASE ParseFail(p) \/ ParseRollback(p)
    <2>1. pw[p].pc \in {"loaded", "stamped"} /\ tasks' = Update(pw[p].task, MarkAsFailed(pw[p].row))
          /\ UNCHANGED <<job, report, ex>>
      BY <1>2 DEF ParseFail, FailParse, ParseRollback
    <2>2. pw[p].task \in Tasks /\ pw[p].row \in Row
      BY <1>1, <2>1, BusyParser
    <2>3. MarkAsFailed(pw[p].row).status = "Failed" /\ MarkAsFailed(pw[p].row).depth = pw[p].row.depth
      BY <2>2, RowFields
    <2>4. Exists(pw[p].task) => MarkAsFailed(pw[p].row).depth = tasks[pw[p].task].depth
      BY <1>1, <2>1, <2>2, <2>3, CopyDepth
    <2>5. QED
      BY <1>1, <2>1, <2>2, <2>3, <2>4, UpdateKeepsList
  <1>3. CASE ParseNoPage(p) \/ ParseUpload(p) \/ (\E c \in Tasks : ParsePublish(p, c)) \/ ParseAck(p)
    BY <1>3, SameTasksSameList DEF ParseNoPage, ParseUpload, ParsePublish, ParseAck
  <1>4. QED
    BY <1>2, <1>3, CommitGrowsList DEF ParseStep

\* The steps that are none of the owner's and none of the export worker's.
WorkersStep == (SameList /\ UNCHANGED <<job, report, ex>>) \/ \E s \in Tasks : ListGrows(s)

\* Every step is one of those, or of the owner, or of the export worker.
LEMMA ListStep ==
  ASSUME Frontier, [Next]_vars
  PROVE  WorkersStep \/ CreateCrawlJob \/ DeleteCrawlJob \/ ExportStep \/ ExportFail \/ ExportAbort
  <1>1. ASSUME NEW p \in Parsers, ParseStep(p) PROVE WorkersStep
    <2>1. (SameList /\ UNCHANGED <<job, report, ex>>) \/ ListGrows(pw[p].task)
      BY <1>1, ParseKeepsList
    <2>2. ListGrows(pw[p].task) => pw[p].task \in Tasks
      BY DEF ListGrows
    <2>3. QED
      BY <2>1, <2>2 DEF WorkersStep
  <1>2. ASSUME NEW w \in Fetchers, FetchStep(w) PROVE WorkersStep
    BY <1>2, FetchKeepsList DEF WorkersStep
  <1>3. ASSUME tasks' = tasks, UNCHANGED <<job, report, ex>> PROVE WorkersStep
    BY <1>3, SameTasksSameList DEF WorkersStep
  <1>4. CASE OutboxFetch \/ OutboxCommit \/ OutboxAbort \/ (\E t \in Tasks : OutboxPublish(t) \/ RecoverStale(t))
    BY <1>3, <1>4 DEF OutboxFetch, OutboxCommit, OutboxAbort, OutboxPublish, RecoverStale
  <1>5. CASE \E w \in Fetchers : FetchNack(w) \/ \E t \in Tasks : FetchStart(w, t)
    BY <1>3, <1>5 DEF FetchNack, FetchStart
  <1>6. CASE \E p \in Parsers : ParseNack(p) \/ \E t \in Tasks : ParseStart(p, t)
    BY <1>3, <1>6 DEF ParseNack, ParseStart
  <1>7. CASE UNCHANGED vars
    BY <1>3, <1>7 DEF vars
  <1>8. QED
    BY <1>1, <1>2, <1>4, <1>5, <1>6, <1>7 DEF Next, Work

\* The export worker leaves the list alone.
LEMMA ExportKeepsList ==
  ASSUME TypeOK, ExportStep \/ ExportFail \/ ExportAbort
  PROVE  SameList /\ job'.state = job.state
  <1>1. CASE ExportFinish
    <2>1. \A t \in Tasks : tasks[t] \in Row /\ tasks'[t] = Aged(tasks[t])
      BY <1>1 DEF TypeOK, ExportFinish
    <2>2. SameList
      BY <2>1, RowFields DEF SameList, Exists
    <2>3. QED
      BY <1>1, <2>2 DEF TypeOK, ExportFinish
  <1>2. CASE ExportSelect \/ ExportRead \/ ExportJSON \/ ExportAbort
    BY <1>2, SameTasksSameList DEF ExportSelect, ExportRead, ExportJSON, ExportAbort
  <1>3. CASE ExportFail
    BY <1>3, SameTasksSameList DEF TypeOK, ExportFail, FailExport
  <1>4. QED
    BY <1>1, <1>2, <1>3 DEF ExportStep

\* A list that only grows, in a job that stays, keeps what an export has read.
LEMMA ExportMeetsList ==
  ASSUME ExportSound, ex' = ex, report' = report, job'.state = job.state,
         TypeOK, \A t \in Tasks : Exists(t) => Exists(t)'
  PROVE  ExportSound'
  <1>1. ex.snap \subseteq Tasks
    BY DEF TypeOK, ExportState
  <1>2. QED
    BY <1>1 DEF ExportSound, Exists

\* No step takes away what an export relies on.
LEMMA ExportSoundStep ==
  ASSUME Frontier, ExportSound, [Next]_vars
  PROVE  ExportSound'
  <1>1. TypeOK /\ ex \in ExportState
    BY DEF Frontier, Sound, TypeOK
  <1>2. CASE WorkersStep
    <2>1. UNCHANGED <<job, report, ex>> /\ \A t \in Tasks : Exists(t) => Exists(t)'
      BY <1>2 DEF WorkersStep, SameList, ListGrows, NewTasks
    <2>2. QED
      BY <1>1, <2>1, ExportMeetsList
  <1>3. CASE CreateCrawlJob \/ DeleteCrawlJob
    <2>1. ex.pc = "idle" /\ ex' = ex
      BY <1>3 DEF CreateCrawlJob, EventsCreated, DeleteCrawlJob, ExportSound
    <2>2. QED
      BY <2>1 DEF ExportSound
  <1>4. CASE ExportSelect
    <2>1. ex'.pc = "selected" /\ job' = job /\ job.state = "active"
      BY <1>1, <1>4 DEF ExportSelect, Eligible, ExportState
    <2>2. QED
      BY <2>1 DEF ExportSound
  <1>5. CASE ExportRead
    <2>1. PICK snap \in SUBSET Loadable : ex' = [pc |-> "read", snap |-> snap]
      BY <1>5 DEF ExportRead
    <2>2. job' = job /\ tasks' = tasks /\ job.state = "active"
      BY <1>5 DEF ExportRead, ExportSound
    <2>3. \A t \in snap : Exists(t)
      BY <2>1 DEF Loadable, Exists
    <2>4. ex'.pc = "read" /\ ex'.snap = snap
      BY <2>1
    <2>5. QED
      BY <2>2, <2>3, <2>4 DEF ExportSound, Exists
  <1>6. CASE ExportJSON
    <2>1. ex'.pc = "json" /\ ex'.snap = ex.snap /\ report'.json = ex.snap
      BY <1>1, <1>6 DEF ExportJSON, ExportState, TypeOK
    <2>2. job' = job /\ tasks' = tasks /\ ex.pc = "read"
      BY <1>6 DEF ExportJSON
    <2>3. QED
      BY <2>1, <2>2 DEF ExportSound, Exists
  <1>7. CASE ExportFinish \/ ExportFail \/ ExportAbort
    <2>1. ex'.pc = "idle"
      BY <1>7 DEF ExportFinish, ExportFail, FailExport, ExportAbort, IdleExport
    <2>2. QED
      BY <2>1 DEF ExportSound
  <1>8. QED
    BY <1>2, <1>3, <1>4, <1>5, <1>6, <1>7, ListStep DEF ExportStep

\* The same list has the same chains of links.
LEMMA SameListTraced ==
  ASSUME CrawlIsTraced, SameList
  PROVE  CrawlIsTraced'
  <1>1. ASSUME NEW t \in Tasks, Exists(t)' PROVE Traced(t)'
    <2>1. Exists(t) /\ Traced(t) /\ tasks'[t].depth = tasks[t].depth
      BY <1>1 DEF CrawlIsTraced, SameList
    <2>2. QED
      BY <2>1 DEF Traced, SameList, InScope
  <1>2. QED
    BY <1>1 DEF CrawlIsTraced

\* What is added to the list hangs on it.
LEMMA GrowthTraced ==
  ASSUME TypeOK, CrawlIsTraced, NEW s \in Tasks, ListGrows(s)
  PROVE  CrawlIsTraced'
  <1>1. \A t \in Tasks : Exists(t) => Exists(t)' /\ tasks'[t].depth = tasks[t].depth
    BY DEF ListGrows, NewTasks
  <1>2. ASSUME NEW t \in Tasks, Exists(t)' PROVE Traced(t)'
    <2>1. CASE t \in NewTasks(s)
      <3>1. tasks'[t].depth = tasks[s].depth + 1 /\ Exists(s)' /\ tasks'[s].depth = tasks[s].depth
        BY <1>1, <2>1 DEF ListGrows
      <3>2. t \in Links[s] /\ InScope(t, tasks[s].depth + 1)
        BY <2>1 DEF NewTasks, PreparedLinks
      <3>3. QED
        BY <3>1, <3>2 DEF Traced, InScope
    <2>2. CASE t \notin NewTasks(s)
      <3>1. Exists(t) /\ tasks'[t].depth = tasks[t].depth
        BY <1>2, <2>2 DEF ListGrows
      <3>2. Traced(t)
        BY <3>1 DEF CrawlIsTraced
      <3>3. QED
        BY <1>1, <3>1, <3>2 DEF Traced, InScope
    <2>3. QED
      BY <2>1, <2>2
  <1>3. QED
    BY <1>2 DEF CrawlIsTraced

\* Every step keeps the chains of links.
LEMMA TracedStep ==
  ASSUME Frontier, CrawlIsTraced, [Next]_vars
  PROVE  CrawlIsTraced'
  <1>1. TypeOK /\ DepthsAgree
    BY DEF Frontier, Sound
  <1>2. CASE WorkersStep
    BY <1>1, <1>2, SameListTraced, GrowthTraced DEF WorkersStep
  <1>3. CASE CreateCrawlJob
    <2>1. \A t \in Tasks : ~Exists(t)
      BY <1>1, <1>3 DEF CreateCrawlJob, EventsCreated, DepthsAgree
    <2>2. \A t \in Tasks : tasks'[t] = IF t \in Seeds \ DupSeeds THEN NewRow(0) ELSE tasks[t]
      BY <1>3, <2>1, BulkCreateAt DEF CreateCrawlJob, EventsCreated, Exists
    <2>3. \A t \in Tasks : Exists(t)' => t \in Seeds \ DupSeeds /\ tasks'[t].depth = 0
      BY <2>1, <2>2, NewRowFields DEF Exists
    <2>4. QED
      BY <2>3 DEF CrawlIsTraced, Traced
  <1>4. CASE DeleteCrawlJob
    <2>1. \A t \in Tasks : ~Exists(t)'
      BY <1>4, NewRowFields DEF DeleteCrawlJob, Exists
    <2>2. QED
      BY <2>1 DEF CrawlIsTraced
  <1>5. CASE ExportStep \/ ExportFail \/ ExportAbort
    BY <1>1, <1>5, ExportKeepsList, SameListTraced
  <1>6. QED
    BY <1>2, <1>3, <1>4, <1>5, ListStep

\* The table of tasks is a crawl: for every link graph, depth limit, number of
\* handlers and repeated message, each row that ParserWorker or CreateCrawlJob
\* inserted hangs on a chain of links to a seed, within the scope and as long
\* as its depth says.
THEOREM CrawlStaysTraced == Spec => []CrawlIsTraced
  <1>1. Init => CrawlIsTraced
    BY NewRowFields DEF Init, CrawlIsTraced, Exists
  <1>2. Frontier /\ CrawlIsTraced /\ [Next]_vars => CrawlIsTraced'
    BY TracedStep
  <1>3. QED
    BY <1>1, <1>2, FrontierInvariant, PTL DEF Spec

-----------------------------------------------------------------------------
(* 7. The pipeline implements JobLife.                                      *)

\* The owner's view of a list that stays the same.
LEMMA SameListSeen ==
  ASSUME SameList
  PROVE  /\ {t \in Tasks : Exists(t)}' = {t \in Tasks : Exists(t)}
         /\ [t \in Tasks |-> tasks[t].depth]' = [t \in Tasks |-> tasks[t].depth]
  BY DEF SameList

\* The parser's transaction is an expansion of its page.
LEMMA GrowthExpands ==
  ASSUME TypeOK, NEW s \in Tasks, ListGrows(s)
  PROVE  Life!Expand(s)
  <1> DEFINE found == {t \in Tasks : Exists(t)}
             depth == [t \in Tasks |-> tasks[t].depth]
             fresh == {c \in Links[s] \ (found \cup Denied) : depth[s] < MaxDepth}
  <1>1. tasks[s].depth \in Nat /\ MaxDepth \in Nat /\ Links[s] \subseteq Tasks
    BY TasksAssumption, BoundsAssumption DEF TypeOK, Row
  <1>2. fresh = NewTasks(s)
    BY <1>1 DEF NewTasks, PreparedLinks, InScope
  <1>3. NewTasks(s) \subseteq Tasks
    BY <1>1 DEF NewTasks, PreparedLinks
  <1>4. found' = found \cup NewTasks(s)
    BY <1>3 DEF ListGrows
  <1>5. depth' = [c \in Tasks |-> IF c \in NewTasks(s) THEN depth[s] + 1 ELSE depth[c]]
    BY DEF ListGrows
  <1>6. s \in found /\ NewTasks(s) # {}
    BY DEF ListGrows
  <1>7. job.state = "active" /\ ~(ex.pc # "idle") /\ UNCHANGED <<job, report, ex>>
    BY DEF ListGrows
  <1>8. QED
    BY <1>2, <1>4, <1>5, <1>6, <1>7 DEF Life!Expand, Life!Fresh

\* The owner's two steps.
LEMMA OwnerSteps ==
  ASSUME Frontier, ExportSound, CreateCrawlJob \/ DeleteCrawlJob
  PROVE  Life!Submit \/ Life!Delete
  <1> DEFINE found == {t \in Tasks : Exists(t)}
             depth == [t \in Tasks |-> tasks[t].depth]
  <1>1. TypeOK /\ DepthsAgree
    BY DEF Frontier, Sound
  <1>2. CASE DeleteCrawlJob
    <2>1. found' = {} /\ depth' = [t \in Tasks |-> 0]
      BY <1>2 DEF DeleteCrawlJob, Exists, NoRow
    <2>2. job.state = "active" /\ job'.state = "deleted" /\ job'.exported = job.exported
      BY <1>1, <1>2 DEF DeleteCrawlJob, TypeOK
    <2>3. ~(ex.pc # "idle") /\ UNCHANGED <<report, ex>>
      BY <1>2 DEF DeleteCrawlJob
    <2>4. QED
      BY <2>1, <2>2, <2>3 DEF Life!Delete
  <1>3. CASE CreateCrawlJob
    <2>1. \A t \in Tasks : ~Exists(t)
      BY <1>1, <1>3 DEF CreateCrawlJob, EventsCreated, DepthsAgree
    <2>2. \A t \in Tasks : tasks'[t] = IF t \in Seeds \ DupSeeds THEN NewRow(0) ELSE tasks[t]
      BY <1>3, <2>1, BulkCreateAt DEF CreateCrawlJob, EventsCreated, Exists
    <2>3. Seeds \ DupSeeds \subseteq Tasks
      BY TasksAssumption
    <2>4. found' = Seeds \ DupSeeds
      BY <2>1, <2>2, <2>3, NewRowFields DEF Exists
    <2>5. depth' = [t \in Tasks |-> IF t \in Seeds \ DupSeeds THEN 0 ELSE depth[t]]
      BY <2>2, NewRowFields
    <2>6. job.state = "none" /\ job'.state = "active" /\ job'.exported = job.exported /\ UNCHANGED <<report, ex>>
      BY <1>1, <1>3 DEF CreateCrawlJob, EventsCreated, TypeOK
    <2>7. QED
      BY <2>4, <2>5, <2>6 DEF Life!Submit
  <1>4. QED
    BY <1>2, <1>3

\* The export worker's steps.
LEMMA ExportSteps ==
  ASSUME Frontier, ExportSound, ExportStep \/ ExportFail \/ ExportAbort
  PROVE  Life!LifeNext \/ UNCHANGED Life!lifeVars
  <1> DEFINE found == {t \in Tasks : Exists(t)}
             depth == [t \in Tasks |-> tasks[t].depth]
  <1>1. TypeOK /\ ex \in ExportState
    BY DEF Frontier, Sound, TypeOK
  <1>2. found' = found /\ depth' = depth /\ job'.state = job.state
    BY <1>1, ExportKeepsList, SameListSeen
  <1>3. CASE ExportSelect
    <2>1. ex.pc = "idle" /\ ex'.pc = "selected" /\ job.state = "active" /\ UNCHANGED <<job, report>>
      BY <1>1, <1>3 DEF ExportSelect, Eligible, ExportState
    <2>2. Life!BeginExport
      BY <1>2, <2>1 DEF Life!BeginExport
    <2>3. QED
      BY <2>2 DEF Life!LifeNext
  <1>4. CASE ExportRead
    <2>1. ex.pc # "idle" /\ ex'.pc # "idle" /\ UNCHANGED <<job, report>>
      BY <1>4 DEF ExportRead
    <2>2. QED
      BY <1>2, <2>1 DEF Life!lifeVars
  <1>5. CASE ExportJSON
    <2>1. /\ ex.pc = "read" /\ ex'.pc = "json" /\ UNCHANGED job
          /\ report'.json = ex.snap /\ report'.csv = report.csv
      BY <1>1, <1>5 DEF ExportJSON, ExportState, TypeOK
    <2>2. ex.snap \subseteq found /\ ex.snap \in SUBSET Tasks
      BY <1>1, <2>1 DEF ExportSound, ExportState
    <2>3. Life!WriteJSON(ex.snap)
      BY <1>2, <2>1, <2>2 DEF Life!WriteJSON
    <2>4. QED
      BY <2>2, <2>3 DEF Life!LifeNext
  <1>6. CASE ExportFinish
    <2>1. /\ ex.pc = "json" /\ ex'.pc = "idle" /\ job'.exported = TRUE
          /\ report'.json = report.json /\ report'.csv = ex.snap
      BY <1>1, <1>6 DEF ExportFinish, IdleExport, TypeOK
    <2>2. report'.csv = report.json
      BY <2>1 DEF ExportSound
    <2>3. Life!FinishExport
      BY <1>2, <2>1, <2>2 DEF Life!FinishExport
    <2>4. QED
      BY <2>3 DEF Life!LifeNext
  <1>7. CASE ExportFail \/ ExportAbort
    <2>1. ex.pc # "idle" /\ ex'.pc = "idle" /\ job'.exported = job.exported /\ UNCHANGED report
      BY <1>1, <1>7 DEF ExportFail, FailExport, ExportAbort, IdleExport, TypeOK
    <2>2. Life!GiveUpExport
      BY <1>2, <2>1 DEF Life!GiveUpExport
    <2>3. QED
      BY <2>2 DEF Life!LifeNext
  <1>8. QED
    BY <1>3, <1>4, <1>5, <1>6, <1>7 DEF ExportStep

\* CrawlPipeline implements JobLife for any number of tasks and handlers, every
\* link graph and every interleaving of messages, crashes, the export worker
\* and the deletion of the job: what CreateCrawlJob, DeleteCrawlJob, the parser's
\* transaction and the export worker do is one step of the owner's view or none,
\* and what everybody else does is none.
THEOREM JobRefinement == Spec => OwnerSees
  <1>1. Init => Life!LifeInit /\ ExportSound
    BY DEF Init, Life!LifeInit, ExportSound, IdleExport, Exists, NoRow
  <1>2. Frontier /\ ExportSound /\ [Next]_vars => ExportSound'
    BY ExportSoundStep
  <1>3. ASSUME Frontier, ExportSound, [Next]_vars
        PROVE  Life!LifeNext \/ UNCHANGED Life!lifeVars
    <2>1. CASE WorkersStep
      <3>1. TypeOK
        BY <1>3 DEF Frontier, Sound
      <3>2. CASE SameList /\ UNCHANGED <<job, report, ex>>
        BY <3>2, SameListSeen DEF Life!lifeVars
      <3>3. ASSUME NEW s \in Tasks, ListGrows(s) PROVE Life!LifeNext
        BY <3>1, <3>3, GrowthExpands DEF Life!LifeNext
      <3>4. QED
        BY <2>1, <3>2, <3>3 DEF WorkersStep
    <2>2. CASE CreateCrawlJob \/ DeleteCrawlJob
      BY <1>3, <2>2, OwnerSteps DEF Life!LifeNext
    <2>3. CASE ExportStep \/ ExportFail \/ ExportAbort
      BY <1>3, <2>3, ExportSteps
    <2>4. QED
      BY <1>3, <2>1, <2>2, <2>3, ListStep
  <1>4. QED
    BY <1>1, <1>2, <1>3, FrontierInvariant, PTL DEF Spec, OwnerSees, Life!LifeSpec

=============================================================================
