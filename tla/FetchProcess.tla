---------------------------- MODULE FetchProcess ---------------------------
(***************************************************************************)
(* The fetch worker as a process: the consumers of its queues, the way of  *)
(* a message through the robots.txt check, the rate limiter and the        *)
(* fetcher, and how a process is drained, stopped or killed meanwhile.     *)
(* FetchWorker models what the handler reads and writes in the database;   *)
(* here those parts are the handler's early and late ends.                 *)
(***************************************************************************)
EXTENDS RateLimiter, Fetchers, FiniteSets, Sequences

CONSTANTS
  Procs,           \* worker processes
  Region,          \* WORKER_REGION of each process, "" if it is not set
  FetcherOf,       \* FETCHER_TYPE of each process
  Msgs,            \* messages, numbered by their place in the queues
  QueueOf,         \* the queue of each message
  BucketOf,        \* the bucket for a message in a process
  Obeying,         \* messages of jobs with RespectRobotsTxt
  Served,          \* what a GET of robots.txt gives, one version after the other
  MaxAttempts      \* of the retry policy

ASSUME ProcessAssumption ==
  /\ FetcherOf \in [Procs -> {"http", "browser", "selenium"}]
  /\ Msgs \subseteq Nat \ {0}
  /\ BucketOf \in [Procs -> [Msgs -> Keys]]
  /\ Obeying \subseteq Msgs
  /\ Served \in Seq({"allow", "deny", "missing", "down"})
  /\ Len(Served) > 0
  /\ MaxAttempts \in Nat

VARIABLES
  proc,     \* state of each process
  cons,     \* state of each consumer
  active,   \* activeTasks of each process
  queue,    \* messages waiting in the broker
  settled,  \* messages that were acknowledged
  open,     \* consumers whose channel to the broker is open
  site,     \* the version of robots.txt that the site serves now
  cache,    \* the version that Redis holds, 0 without a key
  epoch     \* history: the version at the last time that nobody had a copy

procVars == <<proc, cons, active, queue, settled, open>>
robotsVars == <<site, cache, epoch>>
fetchVars == <<bucket, debt, proc, cons, active, queue, settled, open, site, cache, epoch>>

Versions == 1 .. Len(Served)

Attempts == AttemptsOf(MaxAttempts)

\* initFetchWorker: the default queue and, if a region is set, its own.
CrawlQueues(p) == {"crawl"} \cup (IF Region[p] = "" THEN {} ELSE {Region[p]})

\* The goroutines in client.Consume, one per process and queue.
Consumers == UNION {{<<p, q>> : q \in CrawlQueues(p)} : p \in Procs}

OwnerOf(c) == c[1]

\* How an attempt of the fetcher that a process was started with may end.
OutcomesIn == [p \in Procs |-> AttemptOutcomes(FetcherOf[p])]

Reads(c) == {m \in Msgs : QueueOf[m] = c[2]}

NoMsg == 0

\* pc: "idle" waits in the select, "taken" has a message, then the stages of the
\* handler; "ack", "nack" and "limited" when it has returned.
\* `lost`: somebody else was admitted while this one waited.
IdleConsumer == [pc |-> "idle", m |-> NoMsg, wait |-> 0, tries |-> 0, copy |-> 0, lost |-> FALSE]

Stages == {"lookup", "robots", "download", "store", "limit", "wait", "fetch"}

Ends == {"ack", "nack", "limited"}

MaxWait == Unit

ConsumerState ==
  [pc    : {"idle", "taken", "returned"} \cup Stages \cup Ends,
   m     : Msgs \cup {NoMsg},
   wait  : 0 .. MaxWait,
   tries : 0 .. Attempts,
   copy  : 0 .. Len(Served),
   lost  : BOOLEAN]

\* The consumers of a process that are inside its handler.
Working(p) == {c \in Consumers : OwnerOf(c) = p /\ cons[c].pc \in Stages}

\* Types of all variables; activeTasks counts the handlers that run, and a consumer
\* that has returned leaves no channel behind.
FetchTypeOK ==
  /\ proc \in [Procs -> {"active", "draining", "stopped", "closed", "dead"}]
  /\ cons \in [Consumers -> ConsumerState]
  /\ active \in [Procs -> Nat]
  /\ \A p \in Procs : active[p] = Cardinality(Working(p))
  /\ queue \subseteq Msgs /\ settled \subseteq Msgs
  /\ open \subseteq {c \in Consumers : cons[c].pc # "returned"}
  /\ site \in Versions /\ cache \in 0 .. site /\ epoch \in 1 .. site

Of(p) == {c \in Consumers : OwnerOf(c) = p}

Alive(p) == proc[p] \notin {"closed", "dead"}

Goes(c, pc) == cons' = [cons EXCEPT ![c] = [@ EXCEPT !.pc = pc]]

\* A plausible bug: a handler that ends early is not counted down.
HandlerEndsUncounted(c, pc) ==
  /\ cons' = [cons EXCEPT ![c] = [IdleConsumer EXCEPT !.pc = pc, !.m = cons[c].m, !.lost = cons[c].lost]]
  /\ UNCHANGED <<proc, active, queue, settled, open>>

\* The handler returns: `defer w.activeTasks.Add(-1)`.
HandlerEnds(c, pc) ==
  /\ cons' = [cons EXCEPT ![c] = [IdleConsumer EXCEPT !.pc = pc, !.m = cons[c].m, !.lost = cons[c].lost]]
  /\ active' = [active EXCEPT ![OwnerOf(c)] = @ - 1]
  /\ UNCHANGED <<proc, queue, settled, open>>

\* The handler ends with a write of the task: done, or an error of the database,
\* which puts the message back.
HandlerEndsWithWrite(c) == HandlerEnds(c, "ack") \/ HandlerEnds(c, "nack")

FetchInit ==
  /\ LimiterInit
  /\ proc = [p \in Procs |-> "active"]
  /\ cons = [c \in Consumers |-> IdleConsumer]
  /\ active = [p \in Procs |-> 0]
  /\ queue = Msgs
  /\ settled = {}
  /\ open = Consumers
  /\ site = 1 /\ cache = 0 /\ epoch = 1

-----------------------------------------------------------------------------
(* client.Consume.                                                          *)

\* The select may take a message although its context is done.
Deliver(c) ==
  /\ c \in open
  /\ cons[c].pc = "idle"
  /\ \E m \in queue \cap Reads(c) :
       /\ \A n \in queue \cap Reads(c) : m <= n
       /\ cons' = [cons EXCEPT ![c] = [IdleConsumer EXCEPT !.pc = "taken", !.m = m]]
       /\ queue' = queue \ {m}
  /\ UNCHANGED <<proc, active, settled, open, robotsVars, limiterVars>>

\* handleMessage begins: `w.activeTasks.Add(1)`.
HandlerStarts(c) ==
  /\ cons[c].pc = "taken"
  /\ Goes(c, "lookup")
  /\ active' = [active EXCEPT ![OwnerOf(c)] = @ + 1]
  /\ UNCHANGED <<proc, queue, settled, open, robotsVars, limiterVars>>

\* The channel or the connection breaks: the broker takes back what the consumer
\* has not answered.  The consumer finds out when it selects again; a handler that
\* runs goes on.
LoseChannel(c) ==
  /\ c \in open
  /\ open' = open \ {c}
  /\ queue' = queue \cup ({cons[c].m} \ {NoMsg})
  /\ UNCHANGED <<proc, cons, active, settled, robotsVars, limiterVars>>

\* The select finds the channel closed and the outer loop opens another one,
\* unless its context is done.
Reconnect(c) ==
  /\ c \notin open
  /\ cons[c].pc = "idle"
  /\ proc[OwnerOf(c)] = "active"
  /\ open' = open \cup {c}
  /\ UNCHANGED <<proc, cons, active, queue, settled, robotsVars, limiterVars>>

\* The message that an answer of c is about: none if the channel is broken by now;
\* nobody looks at the error of Ack and Nack.
Answered(c) == IF c \in open THEN {cons[c].m} ELSE {}

\* msg.Ack
Ack(c) ==
  /\ cons[c].pc = "ack"
  /\ settled' = settled \cup Answered(c)
  /\ cons' = [cons EXCEPT ![c] = IdleConsumer]
  /\ UNCHANGED <<proc, active, queue, open, robotsVars, limiterVars>>

\* A plausible bug: the message is not put back.
NackDiscards(c) ==
  /\ cons[c].pc \in {"nack", "limited"}
  /\ cons' = [cons EXCEPT ![c] = IdleConsumer]
  /\ UNCHANGED <<proc, active, queue, settled, open, robotsVars, limiterVars>>

\* msg.Nack(false, true): no error of this worker is marked as non-retryable.
Nack(c) ==
  /\ cons[c].pc \in {"nack", "limited"}
  /\ queue' = queue \cup Answered(c)
  /\ cons' = [cons EXCEPT ![c] = IdleConsumer]
  /\ UNCHANGED <<proc, active, settled, open, robotsVars, limiterVars>>

\* A plausible bug: the consumers have the context of the worker.
ReturnWhenStopped(c) ==
  /\ cons[c].pc = "idle"
  /\ proc[OwnerOf(c)] = "stopped"
  /\ Goes(c, "returned")
  /\ open' = open \ {c}
  /\ UNCHANGED <<proc, active, queue, settled, robotsVars, limiterVars>>

\* `case <-ctx.Done(): return` in the same select, or in one of those around the
\* reconnection; the channel is closed.
Return(c) ==
  /\ cons[c].pc = "idle"
  /\ proc[OwnerOf(c)] \in {"draining", "stopped"}
  /\ Goes(c, "returned")
  /\ open' = open \ {c}
  /\ UNCHANGED <<proc, active, queue, settled, robotsVars, limiterVars>>

-----------------------------------------------------------------------------
(* The handler up to the robots.txt check: see FetchWorker.                 *)

\* The task is gone, its configuration is gone or its scope forbids the page:
\* done.  The database cannot be asked: an error.  Else it goes on.
Lookup(c) ==
  /\ cons[c].pc = "lookup"
  /\ \/ HandlerEnds(c, "ack")
     \/ HandlerEnds(c, "nack")
     \/ /\ Goes(c, IF cons[c].m \in Obeying THEN "robots" ELSE "limit")
        /\ UNCHANGED <<proc, active, queue, settled, open>>
  /\ UNCHANGED <<robotsVars, limiterVars>>

-----------------------------------------------------------------------------
(* CachedRobotsTxtService.IsAllowed.                                        *)

\* A robots.txt that forbids the page: the task is marked as failed.
Verdict(c, v) ==
  IF Served[v] = "deny" THEN HandlerEndsWithWrite(c)
  ELSE Goes(c, "limit") /\ UNCHANGED <<proc, active, queue, settled, open>>

\* A copy is in the cache, and an empty one, cached for a site without
\* robots.txt, is taken for none.
CacheHit == cache # 0 /\ Served[cache] # "missing"

RobotsLookup(c) ==
  /\ cons[c].pc = "robots"
  /\ \/ CacheHit /\ Verdict(c, cache)
     \/ /\ Goes(c, "download")     \* a miss, or Redis fails
        /\ UNCHANGED <<proc, active, queue, settled, open>>
  /\ UNCHANGED <<robotsVars, limiterVars>>

\* A plausible bug: that a site does not answer is remembered as well.
RobotsReplyRemembered(c) ==
  /\ cons[c].pc = "download"
  /\ cons' = [cons EXCEPT ![c] = [@ EXCEPT !.pc = "store", !.copy = site]]
  /\ UNCHANGED <<proc, active, queue, settled, open, robotsVars, limiterVars>>

\* fetchRobotsTxt: a site that does not answer allows the page, for now.
RobotsReply(c) ==
  /\ cons[c].pc = "download"
  /\ IF Served[site] = "down"
     THEN Goes(c, "limit")
     ELSE cons' = [cons EXCEPT ![c] = [@ EXCEPT !.pc = "store", !.copy = site]]
  /\ UNCHANGED <<proc, active, queue, settled, open, robotsVars, limiterVars>>

\* The copy is cached, over whatever is there by now; that Redis refuses it is
\* ignored.  Then the copy is asked.
RobotsStore(c) ==
  /\ cons[c].pc = "store"
  /\ cache' \in {cache, cons[c].copy}
  /\ Verdict(c, cons[c].copy)
  /\ UNCHANGED <<site, epoch, limiterVars>>

NoCopies == \A c \in Consumers : cons[c].pc # "store"

\* The time to live of the key is over.
CacheExpires ==
  /\ cache # 0
  /\ cache' = 0
  /\ epoch' = IF NoCopies THEN site ELSE epoch
  /\ UNCHANGED <<site, procVars, limiterVars>>

\* The site changes its robots.txt.
SiteChanges ==
  /\ site < Len(Served)
  /\ site' = site + 1
  /\ epoch' = IF NoCopies /\ cache = 0 THEN site' ELSE epoch
  /\ UNCHANGED <<cache, procVars, limiterVars>>

-----------------------------------------------------------------------------
(* Rate limiting and fetching.                                              *)

Bucket(c) == BucketOf[OwnerOf(c)][cons[c].m]

\* c is admitted; whoever waits for the same bucket has lost its place.
Admitted(c) ==
  /\ Admit(Bucket(c))
  /\ cons' = [d \in Consumers |->
                IF d = c THEN [cons[c] EXCEPT !.pc = "fetch", !.tries = 0]
                ELSE IF cons[d].pc = "wait" /\ Bucket(d) = Bucket(c) THEN [cons[d] EXCEPT !.lost = TRUE]
                ELSE cons[d]]
  /\ UNCHANGED <<proc, active, queue, settled, open>>

\* The first Allow: admitted, to wait, or the limiter cannot be asked.
LimitCheck(c) ==
  /\ cons[c].pc = "limit"
  /\ \/ Admitted(c)
     \/ /\ Refuse(Bucket(c))
        /\ cons' = [cons EXCEPT ![c] = [@ EXCEPT !.pc = "wait", !.wait = RetryAfter(Bucket(c)), !.lost = FALSE]]
        /\ UNCHANGED <<proc, active, queue, settled, open>>
     \/ HandlerEnds(c, "nack") /\ UNCHANGED limiterVars
  /\ UNCHANGED robotsVars

\* time.Sleep is over, and the second Allow.
LimitCheckAgain(c) ==
  /\ cons[c].pc = "wait" /\ cons[c].wait = 0
  /\ \/ Admitted(c)
     \/ Refuse(Bucket(c)) /\ HandlerEnds(c, "limited")
     \/ HandlerEnds(c, "nack") /\ UNCHANGED limiterVars
  /\ UNCHANGED robotsVars

\* The loops of the fetchers: another attempt after the backoff, or the last error.
TryAgain(c, tries) ==
  /\ tries < Attempts
  /\ cons' = [cons EXCEPT ![c] = [@ EXCEPT !.tries = tries]]
  /\ UNCHANGED <<proc, active, queue, settled, open>>

RetriesExhausted(c, tries) == tries >= Attempts /\ HandlerEndsWithWrite(c)

\* Fetch, one attempt.  A page goes on to the store and the parser (see
\* FetchWorker; that may fail).  "permanent error" and "failed after ... attempts"
\* mark the task as failed.  The handler's context is never cancelled.
FetchAttempt(c) ==
  /\ cons[c].pc = "fetch"
  /\ LET tries == cons[c].tries + 1
         outcomes == OutcomesIn[OwnerOf(c)] IN
     \/ "page" \in outcomes /\ HandlerEndsWithWrite(c)
     \/ "permanent" \in outcomes /\ HandlerEndsWithWrite(c)
     \/ "retry" \in outcomes /\ RetriesExhausted(c, tries)
     \/ "retry" \in outcomes /\ TryAgain(c, tries)
  /\ UNCHANGED <<robotsVars, limiterVars>>

Tick ==
  /\ TickBuckets
  /\ cons' = [c \in Consumers |-> [cons[c] EXCEPT !.wait = AtLeast(0, @ - 1)]]
  /\ UNCHANGED <<proc, active, queue, settled, open, robotsVars>>

-----------------------------------------------------------------------------
(* WorkerApp.                                                               *)

\* beginDrain, once: the consumers' context is cancelled.
BeginDrain(p) ==
  /\ proc[p] = "active"
  /\ proc' = [proc EXCEPT ![p] = "draining"]
  /\ UNCHANGED <<cons, active, queue, settled, open, robotsVars, limiterVars>>

\* A poll of the drain finds no active task: Stop.
DrainPoll(p) ==
  /\ proc[p] = "draining"
  /\ active[p] = 0
  /\ proc' = [proc EXCEPT ![p] = "stopped"]
  /\ UNCHANGED <<cons, active, queue, settled, open, robotsVars, limiterVars>>

\* SIGTERM: Stop.
Stop(p) ==
  /\ proc[p] \in {"active", "draining"}
  /\ proc' = [proc EXCEPT ![p] = "stopped"]
  /\ UNCHANGED <<cons, active, queue, settled, open, robotsVars, limiterVars>>

\* FetchWorker.Start has returned: with the first of the consumers.
StartReturned(p) == \E c \in Of(p) : cons[c].pc = "returned"

\* The process is gone, and the broker takes back what was not acknowledged.
Gone(p, how) ==
  /\ proc' = [proc EXCEPT ![p] = how]
  /\ queue' = queue \cup ({cons[c].m : c \in Of(p) \cap open} \ {NoMsg})
  /\ open' = open \ Of(p)
  /\ cons' = [c \in Consumers |->
                IF OwnerOf(c) = p THEN [IdleConsumer EXCEPT !.pc = "returned"] ELSE cons[c]]
  /\ active' = [active EXCEPT ![p] = 0]
  /\ UNCHANGED <<settled, robotsVars, limiterVars>>

\* A plausible bug: Run waits for the monitor only.
CloseEarly(p) == proc[p] = "stopped" /\ Gone(p, "closed")

\* Run has waited for the monitor and for Start: the clients are closed.
Close(p) ==
  /\ proc[p] = "stopped"
  /\ StartReturned(p)
  /\ Gone(p, "closed")

\* forceKill, or any other sudden end.
Kill(p) == Alive(p) /\ Gone(p, "dead")

FetchNext ==
  \/ \E c \in Consumers : Deliver(c)
  \/ \E c \in Consumers : HandlerStarts(c)
  \/ \E c \in Consumers : LoseChannel(c)
  \/ \E c \in Consumers : Reconnect(c)
  \/ \E c \in Consumers : Ack(c)
  \/ \E c \in Consumers : Nack(c)
  \/ \E c \in Consumers : Return(c)
  \/ \E c \in Consumers : Lookup(c)
  \/ \E c \in Consumers : RobotsLookup(c)
  \/ \E c \in Consumers : RobotsReply(c)
  \/ \E c \in Consumers : RobotsStore(c)
  \/ CacheExpires
  \/ SiteChanges
  \/ \E c \in Consumers : LimitCheck(c)
  \/ \E c \in Consumers : LimitCheckAgain(c)
  \/ \E c \in Consumers : FetchAttempt(c)
  \/ Tick
  \/ \E p \in Procs : BeginDrain(p)
  \/ \E p \in Procs : DrainPoll(p)
  \/ \E p \in Procs : Stop(p)
  \/ \E p \in Procs : Close(p)
  \/ \E p \in Procs : Kill(p)

\* The next step of a handler and of the answer to its message.
HandlerStep(c) ==
  \/ HandlerStarts(c) \/ Lookup(c) \/ RobotsLookup(c) \/ RobotsReply(c) \/ RobotsStore(c)
  \/ LimitCheck(c) \/ LimitCheckAgain(c) \/ FetchAttempt(c) \/ Ack(c) \/ Nack(c)

\* Handlers run to their end, time passes, and a select that may again and again
\* choose its context being done chooses it some time.
FetchFairness ==
  /\ WF_fetchVars(Tick)
  /\ \A c \in Consumers : WF_fetchVars(HandlerStep(c)) /\ SF_fetchVars(Return(c))
  /\ \A p \in Procs : WF_fetchVars(DrainPoll(p) \/ Close(p))

FetchProcessSpec == FetchInit /\ [][FetchNext]_fetchVars

FairFetchProcessSpec == FetchProcessSpec /\ FetchFairness

-----------------------------------------------------------------------------
\* The consumers whose answer to a message counts.
Holders(m) == {c \in open : cons[c].m = m}

Places(m) ==
  Cardinality(Holders(m)) + (IF m \in queue THEN 1 ELSE 0) + (IF m \in settled THEN 1 ELSE 0)

\* Every message is in the queue, acknowledged or in the hands of one consumer with
\* an open channel: however handlers fail, channels break and processes end, none is
\* lost.  Two handlers have the same message only if the channel of all but one is
\* gone, and then the answers of the others do not settle it or put it back again.
EveryMessageHasOnePlace == \A m \in Msgs : Places(m) = 1

\* What a worker waits after a refusal is enough: it is refused again only if
\* another one was admitted in the meantime.
WaitIsEnough == \A c \in Consumers : cons[c].pc = "limited" => cons[c].lost

\* The robots.txt check lets the page of c through.
LetThrough(c) == cons[c].pc \in {"robots", "download", "store"} /\ cons'[c].pc = "limit"

\* What justifies it.
Allowed(c) ==
  \/ \E v \in epoch .. site : Served[v] = "allow"
  \/ cons[c].pc = "store" /\ Served[cons[c].copy] = "missing"
  \/ cons[c].pc = "download" /\ Served[site] = "down"

\* A page is let through only if some robots.txt that the site has served since
\* the last time that nobody had a copy allows it, or the site has no robots.txt or
\* does not answer right now: neither of the last two is remembered.  How long a copy
\* may be kept is not bounded: a slow worker that stores an old one starts its 24
\* hours again.
RobotsObeyed == [][\A c \in Consumers : LetThrough(c) => Allowed(c)]_fetchVars

Closes(p) == proc[p] # "closed" /\ proc'[p] = "closed"

\* A process with one queue that is drained or stopped closes its clients only
\* when the message in hand is finished and answered, also one that it had just
\* taken when the drain saw no active task.  (With a second queue, of a region,
\* Start returns with the first consumer and the work of the other is cut off.)
CleanExit ==
  [][\A p \in Procs : Closes(p) /\ Cardinality(Of(p)) = 1
                         => \A c \in Of(p) : cons[c].m = NoMsg]_fetchVars

\* A drained process ends.
DrainEnds == \A p \in Procs : proc[p] = "draining" ~> ~Alive(p)
=============================================================================
