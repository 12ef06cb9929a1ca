-------------------------- MODULE SchedulerWorker --------------------------
(***************************************************************************)
(* ScheduleWorker.processSchedules for one scheduled configuration: the    *)
(* configuration is listed, its copy is compared with the clock, the       *)
(* latest run is looked up, and a transaction moves NextRunAt and creates  *)
(* the next run.  The API server embeds one such loop and a separate       *)
(* scheduler process is another one; nothing but the database is shared.   *)
(***************************************************************************)
EXTENDS Integers, Sequences

CONSTANTS
  Schedulers,       \* scheduler loops
  MaxTime,          \* model bound on the clock
  MaxFailures,      \* model bound on failed statements and crashes
  NextActivation    \* cron.Schedule.Next: the first activation strictly after t

ASSUME ScheduleAssumption ==
  /\ MaxTime \in Nat
  /\ MaxFailures \in Nat
  /\ NextActivation \in [0 .. MaxTime -> Nat]
  /\ \A t \in 0 .. MaxTime : NextActivation[t] > t
  /\ \A t, u \in 0 .. MaxTime : t <= u => NextActivation[t] <= NextActivation[u]

VARIABLES
  now,      \* the wall clock
  exists,   \* the configuration has not been deleted
  next,     \* schedule.NextRunAt in the database, Unset while it is nil
  runs,     \* the configuration's rows of crawl_jobs, in the order of insertion
  sw,       \* the scheduler loops
  failures  \* failed statements and crashes so far

schedVars == <<now, exists, next, runs, sw, failures>>

Unset == -1

IdleScheduler == [pc |-> "idle", next |-> Unset, now |-> 0]

\* A loop that this deployment does not run.
OffScheduler == [pc |-> "off", next |-> Unset, now |-> 0]

\* GetLatestByConfigID: a row with the greatest created_at.
Latest == {i \in 1 .. Len(runs) : \A j \in 1 .. Len(runs) : runs[j].created <= runs[i].created}

Run == [created : 0 .. MaxTime, done : BOOLEAN]

SchedulerState == [pc   : {"off", "idle", "listed", "init", "due", "set", "create"},
                   next : Nat \cup {Unset},
                   now  : 0 .. MaxTime]

\* Types of all variables.
SchedTypeOK ==
  /\ now \in 0 .. MaxTime
  /\ exists \in BOOLEAN
  /\ next \in Nat \cup {Unset}
  /\ runs \in Seq(Run)
  /\ sw \in [Schedulers -> SchedulerState]
  /\ failures \in 0 .. MaxFailures

\* CreateCrawlJob has stored the configuration together with its first run; any
\* of the loops may be deployed.
SchedInit ==
  /\ now = 0
  /\ exists = TRUE
  /\ next = Unset
  /\ runs = <<[created |-> 0, done |-> FALSE]>>
  /\ sw \in [Schedulers -> {IdleScheduler, OffScheduler}]
  /\ failures = 0

\* ListAllScheduled: the loop works on this copy of the configuration.
List(s) ==
  /\ sw[s].pc = "idle"
  /\ exists
  /\ sw' = [sw EXCEPT ![s] = [pc |-> "listed", next |-> next, now |-> 0]]
  /\ UNCHANGED <<now, exists, next, runs, failures>>

\* processConfig: the clock is read once; a run that is not due ends the step.
Evaluate(s) ==
  /\ sw[s].pc = "listed"
  /\ sw' = [sw EXCEPT ![s] =
              IF sw[s].next > now THEN IdleScheduler
              ELSE [pc   |-> IF sw[s].next = Unset THEN "init" ELSE "due",
                    next |-> sw[s].next,
                    now  |-> now]]
  /\ UNCHANGED <<now, exists, next, runs, failures>>

\* NextRunAt is nil: it is computed from the last run if that is completed,
\* else from the clock.  Without any run the query fails and so does the step.
InitNextRun(s) ==
  /\ sw[s].pc = "init"
  /\ IF exists
     THEN \E i \in Latest :
            sw' = [sw EXCEPT ![s] =
                     [pc   |-> "set",
                      next |-> NextActivation[IF runs[i].done THEN runs[i].created ELSE sw[s].now],
                      now  |-> sw[s].now]]
     ELSE sw' = [sw EXCEPT ![s] = IdleScheduler]
  /\ UNCHANGED <<now, exists, next, runs, failures>>

\* jobConfigRepo.Update of the whole configuration.
SetNextRun(s) ==
  /\ sw[s].pc = "set"
  /\ next' = IF exists THEN sw[s].next ELSE next
  /\ sw' = [sw EXCEPT ![s] = IdleScheduler]
  /\ UNCHANGED <<now, exists, runs, failures>>

\* A plausible bug: the run is created although the last one is under way.
CheckLastRunIgnored(s) ==
  /\ sw[s].pc = "due"
  /\ sw' = [sw EXCEPT ![s] = [pc |-> "create", next |-> sw[s].next, now |-> sw[s].now]]
  /\ UNCHANGED <<now, exists, next, runs, failures>>

\* A plausible bug: the condition is inverted.
CheckLastRunInverted(s) ==
  /\ sw[s].pc = "due"
  /\ IF exists
     THEN \E i \in Latest :
            sw' = [sw EXCEPT ![s] =
                     IF runs[i].done
                     THEN IdleScheduler
                     ELSE [pc |-> "create", next |-> sw[s].next, now |-> sw[s].now]]
     ELSE sw' = [sw EXCEPT ![s] = IdleScheduler]
  /\ UNCHANGED <<now, exists, next, runs, failures>>

\* The run is due: it is not created while the latest one is not completed.
CheckLastRun(s) ==
  /\ sw[s].pc = "due"
  /\ IF exists
     THEN \E i \in Latest :
            sw' = [sw EXCEPT ![s] =
                     IF runs[i].done
                     THEN [pc |-> "create", next |-> sw[s].next, now |-> sw[s].now]
                     ELSE IdleScheduler]
     ELSE sw' = [sw EXCEPT ![s] = IdleScheduler]
  /\ UNCHANGED <<now, exists, next, runs, failures>>

\* A plausible bug: NextRunAt is advanced from the activation that was due.
CreateFromActivation(s) ==
  /\ sw[s].pc = "create"
  /\ IF exists
     THEN /\ next' = NextActivation[sw[s].next]
          /\ runs' = Append(runs, [created |-> sw[s].now, done |-> FALSE])
     ELSE UNCHANGED <<next, runs>>
  /\ sw' = [sw EXCEPT ![s] = IdleScheduler]
  /\ UNCHANGED <<now, exists, failures>>

\* A plausible bug: the run is stamped with the next activation, not the clock.
CreateStampedNext(s) ==
  /\ sw[s].pc = "create"
  /\ IF exists
     THEN /\ next' = NextActivation[sw[s].now]
          /\ runs' = Append(runs, [created |-> NextActivation[sw[s].now], done |-> FALSE])
     ELSE UNCHANGED <<next, runs>>
  /\ sw' = [sw EXCEPT ![s] = IdleScheduler]
  /\ UNCHANGED <<now, exists, failures>>

\* createScheduledJob, one transaction: NextRunAt is moved past the clock and
\* the run with its tasks and outbox events is inserted.  If the configuration
\* is gone the foreign key fails and the transaction is rolled back.
CreateScheduledJob(s) ==
  /\ sw[s].pc = "create"
  /\ IF exists
     THEN /\ next' = NextActivation[sw[s].now]
          /\ runs' = Append(runs, [created |-> sw[s].now, done |-> FALSE])
     ELSE UNCHANGED <<next, runs>>
  /\ sw' = [sw EXCEPT ![s] = IdleScheduler]
  /\ UNCHANGED <<now, exists, failures>>

\* A statement fails or the process dies; nothing was committed.
SchedulerFails(s) ==
  /\ sw[s].pc \notin {"idle", "off"}
  /\ failures < MaxFailures
  /\ failures' = failures + 1
  /\ sw' = [sw EXCEPT ![s] = IdleScheduler]
  /\ UNCHANGED <<now, exists, next, runs>>

\* The export worker completes a run (MarkAsExported sets completed_at).
CompleteRun(i) ==
  /\ i \in 1 .. Len(runs)
  /\ ~runs[i].done
  /\ runs' = [runs EXCEPT ![i] = [created |-> runs[i].created, done |-> TRUE]]
  /\ UNCHANGED <<now, exists, next, sw, failures>>

\* DeleteCrawlJob removes the configuration and all its runs.
DeleteConfig ==
  /\ exists
  /\ exists' = FALSE
  /\ runs' = <<>>
  /\ UNCHANGED <<now, next, sw, failures>>

Tick ==
  /\ now < MaxTime
  /\ now' = now + 1
  /\ UNCHANGED <<exists, next, runs, sw, failures>>

SchedulerStep(s) ==
  \/ List(s)
  \/ Evaluate(s)
  \/ InitNextRun(s)
  \/ SetNextRun(s)
  \/ CheckLastRun(s)
  \/ CreateScheduledJob(s)

SchedNext ==
  \/ \E s \in Schedulers : SchedulerStep(s)
  \/ \E s \in Schedulers : SchedulerFails(s)
  \/ \E i \in 1 .. Len(runs) : CompleteRun(i)
  \/ DeleteConfig
  \/ Tick

SchedSpec == SchedInit /\ [][SchedNext]_schedVars

-----------------------------------------------------------------------------
Running == {s \in Schedulers : sw[s].pc # "off"}

SingleLoop == \A a, b \in Running : a = b

RunsSeparate == \A i \in 1 .. Len(runs) : i < Len(runs) => runs[i].done

ActivationsSeparate ==
  \A i, j \in 1 .. Len(runs) :
    i < j => NextActivation[runs[i].created] <= runs[j].created

\* With a single loop, runs of a configuration never overlap: all but the last
\* one inserted are completed, although the loop decides on a copy of the
\* configuration and on a clock that are both out of date when it writes.
RunsDoNotOverlap == SingleLoop => RunsSeparate

\* With a single loop, no activation of the cron expression produces two runs,
\* and runs are inserted in the order of their creation times.
OneRunPerActivation == SingleLoop => ActivationsSeparate

\* Fairness: the loop polls every ten seconds and goes on; runs get completed.
SchedFairness ==
  /\ \A s \in Schedulers : WF_schedVars(SchedulerStep(s))
  /\ WF_schedVars(\E i \in 1 .. Len(runs) : CompleteRun(i))

SchedFairSpec == SchedSpec /\ SchedFairness

\* A schedule is never stuck, with one loop or with several: an activation that
\* is due is followed by a run with a later NextRunAt, unless the configuration
\* is deleted.
DueIsRun ==
  (Running # {} /\ next # Unset /\ next <= now) ~> (next > now \/ ~exists)
=============================================================================
