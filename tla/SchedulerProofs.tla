-------------------------- MODULE SchedulerProofs --------------------------
(***************************************************************************)
(* With one scheduler loop the runs of a configuration never overlap and   *)
(* no activation is used twice, for every cron expression and whatever     *)
(* statements fail.                                                        *)
(***************************************************************************)
EXTENDS SchedulerWorker, TLAPS

\* What a loop knows of the shared state: the copy it decides on is still the
\* database's, its clock is not before any run, and what it found out about
\* the runs still holds when it writes.
LoopOK(s) ==
  /\ exists /\ sw[s].pc \in {"listed", "init", "due", "create"} => sw[s].next = next
  /\ exists /\ sw[s].pc \in {"init", "set"} => next = Unset
  /\ sw[s].pc \in {"due", "create"} => sw[s].next # Unset /\ sw[s].next <= sw[s].now
  /\ sw[s].pc \in {"init", "due", "set", "create"} =>
       /\ sw[s].now <= now
       /\ \A i \in 1 .. Len(runs) : runs[i].created <= sw[s].now
  /\ sw[s].pc = "set" =>
       \A i \in 1 .. Len(runs) : NextActivation[runs[i].created] <= sw[s].next
  /\ sw[s].pc = "create" => \A i \in 1 .. Len(runs) : runs[i].done

RunsInPast == \A i \in 1 .. Len(runs) : runs[i].created <= now

NextIsAhead ==
  next # Unset => \A i \in 1 .. Len(runs) : NextActivation[runs[i].created] <= next

SchedInv ==
  /\ SchedTypeOK
  /\ RunsSeparate
  /\ ActivationsSeparate
  /\ RunsInPast
  /\ NextIsAhead
  /\ \A s \in Schedulers : LoopOK(s)

\* The rows of runs are well typed, one by one.
LEMMA RunTypes ==
  ASSUME SchedTypeOK, NEW i \in 1 .. Len(runs)
  PROVE  /\ runs[i] \in Run
         /\ runs[i].created \in 0 .. MaxTime
         /\ NextActivation[runs[i].created] \in Nat
<1>1. runs \in Seq(Run)
  BY DEF SchedTypeOK
<1>2. runs[i] \in Run
  BY <1>1
<1>3. runs[i].created \in 0 .. MaxTime
  BY <1>2 DEF Run
<1>4. QED
  BY <1>2, <1>3, ScheduleAssumption

\* So is the state of a loop.
LEMMA LoopTypes ==
  ASSUME SchedTypeOK, NEW s \in Schedulers
  PROVE  /\ sw[s] \in SchedulerState
         /\ sw[s].next \in Nat \cup {Unset}
         /\ sw[s].now \in 0 .. MaxTime
         /\ NextActivation[sw[s].now] \in Nat
<1>1. sw[s] \in SchedulerState
  BY DEF SchedTypeOK
<1>2. QED
  BY <1>1, ScheduleAssumption DEF SchedulerState

\* The invariant holds initially.
LEMMA SchedInitOK == SchedInit => SchedInv
<1> SUFFICES ASSUME SchedInit PROVE SchedInv
  OBVIOUS
<1> USE ScheduleAssumption
<1>1. runs \in Seq(Run) /\ Len(runs) = 1 /\ runs[1].created = 0
  <2>1. [created |-> 0, done |-> FALSE] \in Run
    BY DEF Run
  <2>2. QED
    BY <2>1 DEF SchedInit
<1>2. sw \in [Schedulers -> SchedulerState]
  <2>1. IdleScheduler \in SchedulerState /\ OffScheduler \in SchedulerState
    BY DEF SchedulerState, IdleScheduler, OffScheduler, Unset
  <2>2. QED
    BY <2>1 DEF SchedInit
<1>3. SchedTypeOK
  BY <1>1, <1>2 DEF SchedInit, SchedTypeOK, Unset
<1>4. RunsSeparate /\ ActivationsSeparate /\ RunsInPast /\ NextIsAhead
  BY <1>1 DEF SchedInit, RunsSeparate, ActivationsSeparate, RunsInPast, NextIsAhead
<1>5. \A s \in Schedulers : LoopOK(s)
  <2>1. ASSUME NEW s \in Schedulers PROVE sw[s].pc \in {"idle", "off"}
    <3>1. sw[s] \in {IdleScheduler, OffScheduler}
      BY DEF SchedInit
    <3>2. QED
      BY <3>1 DEF IdleScheduler, OffScheduler
  <2>2. QED
    BY <2>1 DEF LoopOK
<1>6. QED
  BY <1>3, <1>4, <1>5 DEF SchedInv

\* SchedTypeOK is preserved by every step.
LEMMA SchedTypeStep == SchedTypeOK /\ [SchedNext]_schedVars => SchedTypeOK'
<1> SUFFICES ASSUME SchedTypeOK, [SchedNext]_schedVars PROVE SchedTypeOK'
  OBVIOUS
<1> USE ScheduleAssumption
<1>0. IdleScheduler \in SchedulerState
  BY DEF IdleScheduler, SchedulerState, Unset
<1>1. ASSUME NEW s \in Schedulers, List(s) \/ Evaluate(s) PROVE SchedTypeOK'
  <2>1. [pc |-> "listed", next |-> next, now |-> 0] \in SchedulerState
    BY DEF SchedTypeOK, SchedulerState
  <2>2. \A c \in {"init", "due"} : [pc |-> c, next |-> sw[s].next, now |-> now] \in SchedulerState
    BY LoopTypes DEF SchedTypeOK, SchedulerState
  <2>3. sw' \in [Schedulers -> SchedulerState]
    BY <1>0, <1>1, <2>1, <2>2 DEF List, Evaluate, SchedTypeOK
  <2>4. QED
    BY <1>1, <2>3 DEF List, Evaluate, SchedTypeOK
<1>2. ASSUME NEW s \in Schedulers, InitNextRun(s) PROVE SchedTypeOK'
  <2>1. CASE exists
    <3>1. PICK i \in Latest :
            sw' = [sw EXCEPT ![s] =
                     [pc   |-> "set",
                      next |-> NextActivation[IF runs[i].done THEN runs[i].created ELSE sw[s].now],
                      now  |-> sw[s].now]]
      BY <1>2, <2>1 DEF InitNextRun
    <3>2. i \in 1 .. Len(runs)
      BY DEF Latest
    <3>3. NextActivation[IF runs[i].done THEN runs[i].created ELSE sw[s].now] \in Nat
      BY <3>2, RunTypes, LoopTypes
    <3>4. [pc   |-> "set",
           next |-> NextActivation[IF runs[i].done THEN runs[i].created ELSE sw[s].now],
           now  |-> sw[s].now] \in SchedulerState
      BY <3>3, LoopTypes DEF SchedulerState
    <3>5. QED
      BY <1>2, <3>1, <3>4 DEF InitNextRun, SchedTypeOK
  <2>2. CASE ~exists
    BY <1>0, <1>2, <2>2 DEF InitNextRun, SchedTypeOK
  <2>3. QED
    BY <2>1, <2>2
<1>3. ASSUME NEW s \in Schedulers, SetNextRun(s) PROVE SchedTypeOK'
  BY <1>0, <1>3, LoopTypes DEF SetNextRun, SchedTypeOK
<1>4. ASSUME NEW s \in Schedulers, CheckLastRun(s) PROVE SchedTypeOK'
  <2>1. [pc |-> "create", next |-> sw[s].next, now |-> sw[s].now] \in SchedulerState
    BY LoopTypes DEF SchedulerState
  <2>2. QED
    BY <1>0, <1>4, <2>1 DEF CheckLastRun, SchedTypeOK
<1>5. ASSUME NEW s \in Schedulers, CreateScheduledJob(s) PROVE SchedTypeOK'
  <2>1. [created |-> sw[s].now, done |-> FALSE] \in Run
    BY LoopTypes DEF Run
  <2>2. runs' \in Seq(Run)
    <3>1. runs \in Seq(Run)
      BY DEF SchedTypeOK
    <3>2. Append(runs, [created |-> sw[s].now, done |-> FALSE]) \in Seq(Run)
      BY <2>1, <3>1
    <3>3. QED
      BY <1>5, <3>1, <3>2 DEF CreateScheduledJob
  <2>3. next' \in Nat \cup {Unset}
    BY <1>5, LoopTypes DEF CreateScheduledJob, SchedTypeOK
  <2>4. QED
    BY <1>0, <1>5, <2>2, <2>3 DEF CreateScheduledJob, SchedTypeOK
<1>6. ASSUME NEW s \in Schedulers, SchedulerFails(s) PROVE SchedTypeOK'
  BY <1>0, <1>6 DEF SchedulerFails, SchedTypeOK
<1>7. ASSUME NEW i \in 1 .. Len(runs), CompleteRun(i) PROVE SchedTypeOK'
  <2>1. [created |-> runs[i].created, done |-> TRUE] \in Run
    BY RunTypes DEF Run
  <2>2. runs' \in Seq(Run)
    BY <1>7, <2>1 DEF CompleteRun, SchedTypeOK
  <2>3. QED
    BY <1>7, <2>2 DEF CompleteRun, SchedTypeOK
<1>8. CASE DeleteConfig
  <2>1. << >> \in Seq(Run)
    OBVIOUS
  <2>2. QED
    BY <1>8, <2>1 DEF DeleteConfig, SchedTypeOK
<1>9. CASE Tick
  BY <1>9 DEF Tick, SchedTypeOK
<1>10. CASE UNCHANGED schedVars
  BY <1>10 DEF schedVars, SchedTypeOK
<1>11. QED
  BY <1>1, <1>2, <1>3, <1>4, <1>5, <1>6, <1>7, <1>8, <1>9, <1>10 DEF SchedNext, SchedulerStep

\* With a single loop running, the others are off and know nothing.
LEMMA OthersAreOff ==
  ASSUME SingleLoop, SchedTypeOK, NEW s \in Schedulers, sw[s].pc # "off", NEW x,
         sw' = [sw EXCEPT ![s] = x], LoopOK(s)'
  PROVE  \A t \in Schedulers : LoopOK(t)'
<1>1. SUFFICES ASSUME NEW t \in Schedulers, t # s PROVE LoopOK(t)'
  OBVIOUS
<1>2. sw[t].pc = "off"
  BY <1>1 DEF SingleLoop, Running
<1>3. sw'[t] = sw[t]
  BY <1>1 DEF SchedTypeOK
<1>4. QED
  BY <1>2, <1>3 DEF LoopOK

\* A step of a loop that only changes the loop's own state keeps the rest, and
\* with a single loop there is no other LoopOK to keep.
LEMMA OwnStep ==
  ASSUME SingleLoop, SchedInv, SchedTypeOK', NEW s \in Schedulers,
         sw[s].pc # "off", NEW x, sw' = [sw EXCEPT ![s] = x],
         UNCHANGED <<now, exists, next, runs>>, LoopOK(s)'
  PROVE  SchedInv'
<1>1. \A t \in Schedulers : LoopOK(t)'
  BY OthersAreOff DEF SchedInv
<1>2. QED
  BY <1>1 DEF SchedInv, RunsSeparate, ActivationsSeparate, RunsInPast, NextIsAhead

\* An idle loop knows nothing.
LEMMA IdleOK ==
  ASSUME NEW s \in Schedulers, SchedTypeOK,
         sw' = [sw EXCEPT ![s] = IdleScheduler]
  PROVE  LoopOK(s)'
<1>1. sw'[s].pc = "idle"
  BY DEF SchedTypeOK, IdleScheduler
<1>2. QED
  BY <1>1 DEF LoopOK

\* The latest run is the last one inserted, so if it is completed all are.
LEMMA LatestIsLast ==
  ASSUME SchedInv, NEW i \in Latest, runs[i].done
  PROVE  \A j \in 1 .. Len(runs) : runs[j].done
<1> USE ScheduleAssumption
<1>1. i \in 1 .. Len(runs) /\ \A j \in 1 .. Len(runs) : runs[j].created <= runs[i].created
  BY DEF Latest
<1>2. Len(runs) \in Nat
  BY DEF SchedInv, SchedTypeOK
<1>3. i = Len(runs)
  <2>1. SUFFICES ASSUME i < Len(runs) PROVE FALSE
    BY <1>1, <1>2
  <2>2. NextActivation[runs[i].created] <= runs[Len(runs)].created
    BY <1>1, <1>2, <2>1 DEF SchedInv, ActivationsSeparate
  <2>3. runs[Len(runs)].created <= runs[i].created
    BY <1>1, <1>2, <2>1
  <2>4. runs[i].created < NextActivation[runs[i].created]
    BY <1>1, RunTypes DEF SchedInv
  <2>5. /\ runs[i].created \in 0 .. MaxTime
        /\ runs[Len(runs)].created \in 0 .. MaxTime
        /\ NextActivation[runs[i].created] \in Nat
    BY <1>1, <1>2, <2>1, RunTypes DEF SchedInv
  <2>6. QED
    BY <2>2, <2>3, <2>4, <2>5
<1>4. QED
  BY <1>1, <1>2, <1>3 DEF SchedInv, RunsSeparate

\* Every step of a single loop, of the exporter, of the owner and of the clock
\* preserves the invariant.
LEMMA SchedInvStep ==
  ASSUME SingleLoop PROVE SchedInv /\ [SchedNext]_schedVars => SchedInv'
<1> SUFFICES ASSUME SchedInv, [SchedNext]_schedVars PROVE SchedInv'
  OBVIOUS
<1> USE ScheduleAssumption
<1>0. SchedTypeOK /\ SchedTypeOK'
  BY SchedTypeStep DEF SchedInv
<1>1. ASSUME NEW s \in Schedulers, List(s) PROVE SchedInv'
  <2>1. sw'[s].pc = "listed" /\ sw'[s].next = next
    BY <1>0, <1>1 DEF List, SchedTypeOK
  <2>2. LoopOK(s)'
    BY <1>1, <2>1 DEF List, LoopOK
  <2>3. QED
    BY <1>0, <1>1, <2>2, OwnStep DEF List
<1>2. ASSUME NEW s \in Schedulers, Evaluate(s) PROVE SchedInv'
  <2>1. CASE sw[s].next > now
    BY <1>0, <1>2, <2>1, IdleOK, OwnStep DEF Evaluate
  <2>2. CASE ~(sw[s].next > now)
    <3>1. /\ sw'[s].pc = IF sw[s].next = Unset THEN "init" ELSE "due"
          /\ sw'[s].next = sw[s].next
          /\ sw'[s].now = now
      BY <1>0, <1>2, <2>2 DEF Evaluate, SchedTypeOK
    <3>2. sw[s].next # Unset => sw[s].next <= now
      BY <1>0, <2>2, LoopTypes DEF SchedTypeOK
    <3>3. /\ now' = now /\ next' = next /\ exists' = exists /\ runs' = runs
          /\ now <= now
          /\ \A i \in 1 .. Len(runs) : runs[i].created <= now
          /\ exists => sw[s].next = next
      BY <1>0, <1>2 DEF Evaluate, LoopOK, SchedInv, RunsInPast, SchedTypeOK
    <3>4. LoopOK(s)'
      BY <3>1, <3>2, <3>3 DEF LoopOK
    <3>5. QED
      BY <1>0, <1>2, <3>4, OwnStep DEF Evaluate
  <2>3. QED
    BY <2>1, <2>2
<1>3. ASSUME NEW s \in Schedulers, InitNextRun(s) PROVE SchedInv'
  <2>1. CASE exists
    <3>1. PICK i \in Latest :
            sw' = [sw EXCEPT ![s] =
                     [pc   |-> "set",
                      next |-> NextActivation[IF runs[i].done THEN runs[i].created ELSE sw[s].now],
                      now  |-> sw[s].now]]
      BY <1>3, <2>1 DEF InitNextRun
    <3> DEFINE base == IF runs[i].done THEN runs[i].created ELSE sw[s].now
    <3>2. /\ i \in 1 .. Len(runs)
          /\ \A j \in 1 .. Len(runs) : runs[j].created <= runs[i].created
      BY DEF Latest
    <3>3. \A j \in 1 .. Len(runs) : runs[j].created <= base
      BY <1>3, <3>2 DEF InitNextRun, SchedInv, LoopOK
    <3>4. base \in 0 .. MaxTime
      BY <1>0, <3>2, RunTypes, LoopTypes
    <3>5. \A j \in 1 .. Len(runs) : NextActivation[runs[j].created] <= NextActivation[base]
      BY <1>0, <3>3, <3>4, RunTypes
    <3>6. /\ sw'[s].pc = "set"
          /\ sw'[s].next = NextActivation[base]
          /\ sw'[s].now = sw[s].now
      BY <1>0, <3>1 DEF SchedTypeOK
    <3> HIDE DEF base
    <3>7. LoopOK(s)'
      BY <1>3, <3>5, <3>6 DEF InitNextRun, LoopOK, SchedInv
    <3>8. QED
      BY <1>0, <1>3, <3>7, OwnStep DEF InitNextRun
  <2>2. CASE ~exists
    BY <1>0, <1>3, <2>2, IdleOK, OwnStep DEF InitNextRun
  <2>3. QED
    BY <2>1, <2>2
<1>4. ASSUME NEW s \in Schedulers, SetNextRun(s) PROVE SchedInv'
  <2>1. LoopOK(s)'
    BY <1>0, <1>4, IdleOK DEF SetNextRun
  <2>2. \A t \in Schedulers : LoopOK(t)'
    BY <1>0, <1>4, <2>1, OthersAreOff DEF SetNextRun
  <2>3. NextIsAhead'
    BY <1>4 DEF SetNextRun, NextIsAhead, SchedInv, LoopOK
  <2>4. QED
    BY <1>0, <1>4, <2>2, <2>3
    DEF SetNextRun, SchedInv, RunsSeparate, ActivationsSeparate, RunsInPast
<1>5. ASSUME NEW s \in Schedulers, CheckLastRun(s) PROVE SchedInv'
  <2>1. CASE sw' = [sw EXCEPT ![s] = IdleScheduler]
    BY <1>0, <1>5, <2>1, IdleOK, OwnStep DEF CheckLastRun
  <2>2. ASSUME exists, NEW i \in Latest, runs[i].done,
               sw' = [sw EXCEPT ![s] = [pc |-> "create", next |-> sw[s].next, now |-> sw[s].now]]
        PROVE  SchedInv'
    <3>1. sw'[s].pc = "create" /\ sw'[s].next = sw[s].next /\ sw'[s].now = sw[s].now
      BY <1>0, <2>2 DEF SchedTypeOK
    <3>2. \A j \in 1 .. Len(runs) : runs[j].done
      BY <2>2, LatestIsLast
    <3>3. LoopOK(s)'
      BY <1>5, <3>1, <3>2 DEF CheckLastRun, LoopOK, SchedInv
    <3>4. QED
      BY <1>0, <1>5, <3>3, OwnStep DEF CheckLastRun
  <2>3. QED
    BY <1>5, <2>1, <2>2 DEF CheckLastRun
<1>6. ASSUME NEW s \in Schedulers, CreateScheduledJob(s) PROVE SchedInv'
  <2>1. CASE ~exists
    BY <1>0, <1>6, <2>1, IdleOK, OwnStep DEF CreateScheduledJob
  <2>2. CASE exists
    <3> DEFINE n == Len(runs)
    <3> DEFINE new == [created |-> sw[s].now, done |-> FALSE]
    <3>1. /\ runs' = Append(runs, new)
          /\ next' = NextActivation[sw[s].now]
          /\ now' = now
          /\ sw' = [sw EXCEPT ![s] = IdleScheduler]
      BY <1>6, <2>2 DEF CreateScheduledJob
    <3>2. /\ n \in Nat
          /\ Len(runs') = n + 1
          /\ \A i \in 1 .. n : runs'[i] = runs[i]
          /\ runs'[n + 1] = new
      BY <1>0, <3>1 DEF SchedTypeOK
    <3>3. /\ sw[s].now \in 0 .. MaxTime
          /\ NextActivation[sw[s].now] \in Nat
      BY <1>0, LoopTypes
    <3>4. /\ \A i \in 1 .. n : runs[i].created <= sw[s].now
          /\ \A i \in 1 .. n : runs[i].done
          /\ next # Unset /\ next <= sw[s].now
      BY <1>6, <2>2 DEF CreateScheduledJob, SchedInv, LoopOK
    <3>5. \A i \in 1 .. n : /\ runs[i].created \in 0 .. MaxTime
                            /\ NextActivation[runs[i].created] \in Nat
      BY <1>0, RunTypes
    <3>6. \A i \in 1 .. n : NextActivation[runs[i].created] <= sw[s].now
      <4>1. next \in Nat
        BY <1>0, <3>4 DEF SchedTypeOK
      <4>2. \A i \in 1 .. n : NextActivation[runs[i].created] <= next
        BY <3>4 DEF SchedInv, NextIsAhead
      <4>3. QED
        BY <3>3, <3>4, <3>5, <4>1, <4>2
    <3>7. sw[s].now <= now
      BY <1>6 DEF CreateScheduledJob, SchedInv, LoopOK
    <3>8. RunsSeparate'
      BY <3>2, <3>4 DEF RunsSeparate
    <3>9. ActivationsSeparate'
      <4>1. SUFFICES ASSUME NEW i \in 1 .. n + 1, NEW j \in 1 .. n + 1, i < j
                     PROVE  NextActivation[runs'[i].created] <= runs'[j].created
        BY <3>2 DEF ActivationsSeparate
      <4>2. i \in 1 .. n /\ runs'[i] = runs[i]
        BY <3>2, <4>1
      <4>3. CASE j \in 1 .. n
        BY <3>2, <4>1, <4>2, <4>3 DEF ActivationsSeparate, SchedInv
      <4>4. CASE j = n + 1
        BY <3>2, <3>6, <4>2, <4>4
      <4>5. QED
        BY <3>2, <4>3, <4>4
    <3>10. RunsInPast'
      BY <3>1, <3>2, <3>7 DEF RunsInPast, SchedInv
    <3>11. NextIsAhead'
      BY <3>1, <3>2, <3>3, <3>4, <3>5 DEF NextIsAhead
    <3>12. \A t \in Schedulers : LoopOK(t)'
      BY <1>0, <1>6, <3>1, IdleOK, OthersAreOff DEF CreateScheduledJob
    <3>13. QED
      BY <1>0, <3>8, <3>9, <3>10, <3>11, <3>12 DEF SchedInv
  <2>3. QED
    BY <2>1, <2>2
<1>7. ASSUME NEW s \in Schedulers, SchedulerFails(s) PROVE SchedInv'
  BY <1>0, <1>7, IdleOK, OwnStep DEF SchedulerFails
<1>8. ASSUME NEW i \in 1 .. Len(runs), CompleteRun(i) PROVE SchedInv'
  <2>1. /\ Len(runs') = Len(runs)
        /\ \A j \in 1 .. Len(runs) : /\ runs'[j].created = runs[j].created
                                     /\ runs[j].done => runs'[j].done
    BY <1>0, <1>8 DEF CompleteRun, SchedTypeOK
  <2>2. RunsSeparate' /\ ActivationsSeparate' /\ RunsInPast' /\ NextIsAhead'
    BY <1>8, <2>1
    DEF CompleteRun, SchedInv, RunsSeparate, ActivationsSeparate, RunsInPast, NextIsAhead
  <2>3. ASSUME NEW t \in Schedulers PROVE LoopOK(t)'
    BY <1>8, <2>1 DEF CompleteRun, SchedInv, LoopOK
  <2>4. QED
    BY <1>0, <2>2, <2>3 DEF SchedInv
<1>9. CASE DeleteConfig
  <2>1. Len(runs') = 0 /\ exists' = FALSE
    BY <1>9 DEF DeleteConfig
  <2>2. RunsSeparate' /\ ActivationsSeparate' /\ RunsInPast' /\ NextIsAhead'
    BY <2>1 DEF RunsSeparate, ActivationsSeparate, RunsInPast, NextIsAhead
  <2>3. ASSUME NEW t \in Schedulers PROVE LoopOK(t)'
    BY <1>9, <2>1 DEF DeleteConfig, SchedInv, LoopOK
  <2>4. QED
    BY <1>0, <2>2, <2>3 DEF SchedInv
<1>10. CASE Tick
  <2>1. RunsInPast'
    BY <1>0, <1>10, RunTypes DEF Tick, SchedInv, RunsInPast, SchedTypeOK
  <2>2. ASSUME NEW t \in Schedulers PROVE LoopOK(t)'
    BY <1>0, <1>10, LoopTypes DEF Tick, SchedInv, LoopOK, SchedTypeOK
  <2>3. QED
    BY <1>0, <1>10, <2>1, <2>2
    DEF Tick, SchedInv, RunsSeparate, ActivationsSeparate, NextIsAhead
<1>11. CASE UNCHANGED schedVars
  BY <1>0, <1>11
  DEF schedVars, SchedInv, RunsSeparate, ActivationsSeparate, RunsInPast, NextIsAhead, LoopOK
<1>12. QED
  BY <1>1, <1>2, <1>3, <1>4, <1>5, <1>6, <1>7, <1>8, <1>9, <1>10, <1>11
  DEF SchedNext, SchedulerStep

\* No step starts or stops a loop.
LEMMA RunningStep ==
  ASSUME SchedTypeOK, [SchedNext]_schedVars, SingleLoop' PROVE SingleLoop
<1>1. ASSUME NEW s \in Schedulers, sw[s].pc # "off" PROVE sw'[s].pc # "off"
  <2>1. ASSUME NEW t \in Schedulers, SchedulerStep(t) \/ SchedulerFails(t)
        PROVE  sw'[s].pc # "off"
    <3>1. CASE s # t
      <4>1. sw'[s] = sw[s]
        BY <2>1, <3>1 DEF SchedTypeOK, SchedulerStep, List, Evaluate, InitNextRun, SetNextRun,
           CheckLastRun, CreateScheduledJob, SchedulerFails
      <4>2. QED
        BY <1>1, <4>1
    <3>2. CASE s = t
      BY <2>1, <3>2 DEF SchedTypeOK, SchedulerStep, List, Evaluate, InitNextRun, SetNextRun,
         CheckLastRun, CreateScheduledJob, SchedulerFails, IdleScheduler
    <3>3. QED
      BY <3>1, <3>2
  <2>2. CASE UNCHANGED sw
    BY <1>1, <2>2
  <2>3. QED
    BY <2>1, <2>2 DEF SchedNext, schedVars, CompleteRun, DeleteConfig, Tick
<1>2. QED
  BY <1>1 DEF SingleLoop, Running

\* For every deployment: the types, and the rest while one loop is running.
DeploymentInv == SchedTypeOK /\ (SingleLoop => SchedInv)

\* The invariant of every deployment of scheduler loops.
LEMMA DeploymentInvHolds == SchedSpec => []DeploymentInv
<1>1. SchedInit => DeploymentInv
  BY SchedInitOK DEF DeploymentInv, SchedInv
<1>2. DeploymentInv /\ [SchedNext]_schedVars => DeploymentInv'
  BY SchedTypeStep, RunningStep, SchedInvStep DEF DeploymentInv
<1>3. QED
  BY <1>1, <1>2, PTL DEF SchedSpec

\* The scheduler's variables keep their types, with any number of loops.
THEOREM SchedulerTypeCorrect == SchedSpec => []SchedTypeOK
<1>1. DeploymentInv => SchedTypeOK
  BY DEF DeploymentInv
<1>2. QED
  BY <1>1, DeploymentInvHolds, PTL

\* The runs that a single loop creates for one configuration never overlap.
THEOREM SingleLoopNeverOverlaps == SchedSpec => []RunsDoNotOverlap
<1>1. DeploymentInv => RunsDoNotOverlap
  BY DEF DeploymentInv, SchedInv, RunsDoNotOverlap
<1>2. QED
  BY <1>1, DeploymentInvHolds, PTL

\* A single loop creates at most one run for each activation of the schedule.
THEOREM SingleLoopOncePerActivation == SchedSpec => []OneRunPerActivation
<1>1. DeploymentInv => OneRunPerActivation
  BY DEF DeploymentInv, SchedInv, OneRunPerActivation
<1>2. QED
  BY <1>1, DeploymentInvHolds, PTL
=============================================================================
