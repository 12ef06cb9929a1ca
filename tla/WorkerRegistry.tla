--------------------------- MODULE WorkerRegistry ---------------------------
(***************************************************************************)
(* The coordinator's view of one worker (workerhealth.Registry), the gRPC  *)
(* handlers WorkerStream that serve its connections, each with a sender    *)
(* goroutine, and the worker's own monitor loop, which reconnects.  A new  *)
(* connection may be served while the handler of an earlier one has not    *)
(* noticed yet that its peer is gone.                                      *)
(***************************************************************************)
EXTENDS Integers, Sequences

CONSTANTS
  MaxConns,        \* model bound on connections that are served at once
  MaxBreaks,       \* model bound on broken connections
  MaxCommands,     \* model bound on commands of the operator
  MaxTime,         \* model bound on the clock
  ChannelCap,      \* buffer of a command channel
  InactiveAfter,   \* inactiveThreshold
  CleanupAfter     \* cleanupDelay

ASSUME RegistryAssumption ==
  /\ MaxConns \in Nat \ {0}
  /\ MaxBreaks \in Nat
  /\ MaxCommands \in Nat
  /\ MaxTime \in Nat
  /\ ChannelCap \in Nat \ {0}
  /\ InactiveAfter \in Nat \ {0}
  /\ CleanupAfter \in Nat \ {0}

VARIABLES
  now,      \* the clock, the same for coordinator and worker
  rec,      \* Registry.workers[id]
  stream,   \* Registry.streams[id]: the connection whose channel is registered, or 0
  chan,     \* the command channels, one for each connection
  pending,  \* Registry.pendingCommands[id]
  srv,      \* the handler and the sender of each connection
  up,       \* heartbeats under way, for each connection
  down,     \* commands under way, for each connection
  live,     \* the connections that are not broken
  worker,   \* the worker process: its status and the connection it uses, or 0
  issued,   \* number of commands issued
  breaks    \* number of broken connections

regVars == <<now, rec, stream, chan, pending, srv, up, down, live, worker, issued, breaks>>

Conns == 1 .. MaxConns

Never == -1

Command == [id : 1 .. MaxCommands, kind : {"DRAIN", "FORCE_KILL"}]

Record == [status : {"NONE", "UNKNOWN", "ACTIVE", "INACTIVE", "DRAINING", "DEAD"},
           beat   : 0 .. MaxTime \cup {Never},
           since  : 0 .. MaxTime]

NoRecord == [status |-> "NONE", beat |-> Never, since |-> 0]

Channel == [cmds : Seq(Command), open : BOOLEAN]

Handler == [pc     : {"unused", "open", "first", "loop", "detach", "ended"},
            sender : {"off", "run", "ended"},
            todo   : Seq(Command)]

Heartbeat == [status : {"ACTIVE", "DRAINING"}, time : 0 .. MaxTime]

WorkerState == [status : {"ACTIVE", "DRAINING", "EXITED"}, conn : 0 .. MaxConns]

\* Types of all variables.
RegTypeOK ==
  /\ now \in 0 .. MaxTime
  /\ rec \in Record
  /\ stream \in 0 .. MaxConns
  /\ chan \in [Conns -> Channel]
  /\ pending \in Seq(Command)
  /\ srv \in [Conns -> Handler]
  /\ up \in [Conns -> Seq(Heartbeat)]
  /\ down \in [Conns -> Seq(Command)]
  /\ live \in SUBSET Conns
  /\ worker \in WorkerState
  /\ issued \in 0 .. MaxCommands
  /\ breaks \in 0 .. MaxBreaks

RegInit ==
  /\ now = 0
  /\ rec = NoRecord
  /\ stream = 0
  /\ chan = [c \in Conns |-> [cmds |-> <<>>, open |-> FALSE]]
  /\ pending = <<>>
  /\ srv = [c \in Conns |-> [pc |-> "unused", sender |-> "off", todo |-> <<>>]]
  /\ up = [c \in Conns |-> <<>>]
  /\ down = [c \in Conns |-> <<>>]
  /\ live = {}
  /\ worker = [status |-> "ACTIVE", conn |-> 0]
  /\ issued = 0
  /\ breaks = 0

-----------------------------------------------------------------------------
(* Operations of the registry, each under its mutex. *)

\* The channels after the registered one has been closed.
Closed == IF stream = 0 THEN chan ELSE [chan EXCEPT ![stream].open = FALSE]

\* A plausible bug: LastStatusAt is set to the time of the planned removal.
MarkInactiveUntil(r, t) ==
  IF r.status \notin {"NONE", "DEAD", "INACTIVE"} /\ r.beat # Never /\ t - r.beat > InactiveAfter
  THEN [r EXCEPT !.status = "INACTIVE", !.since = t + CleanupAfter]
  ELSE r

\* markInactiveLocked at time t.
MarkInactive(r, t) ==
  IF r.status \notin {"NONE", "DEAD", "INACTIVE"} /\ r.beat # Never /\ t - r.beat > InactiveAfter
  THEN [r EXCEPT !.status = "INACTIVE", !.since = t]
  ELSE r

\* The status a heartbeat leaves: DEAD is kept, DRAINING is not undone by ACTIVE.
HeartbeatStatus(old, reported) ==
  CASE old = "DEAD"                             -> "DEAD"
    [] old = "DRAINING" /\ reported = "ACTIVE"  -> "DRAINING"
    [] OTHER                                    -> reported

\* UpdateHeartbeat: time is the worker's timestamp, not the time of arrival.
UpdateHeartbeat(r, h) ==
  LET m == MarkInactive(r, h.time)
      s == HeartbeatStatus(m.status, h.status)
  IN  IF r.status = "NONE"
      THEN [status |-> h.status, beat |-> h.time, since |-> h.time]
      ELSE [status |-> s, beat |-> h.time, since |-> IF s = m.status THEN m.since ELSE h.time]

\* A plausible bug: pending commands are handed out but not removed.
AttachKeepsPending(c) ==
  /\ chan' = [Closed EXCEPT ![c] = [cmds |-> <<>>, open |-> TRUE]]
  /\ stream' = c
  /\ srv' = [srv EXCEPT ![c] = [pc |-> "first", sender |-> "run", todo |-> pending]]
  /\ UNCHANGED pending

\* AttachStream: an earlier stream is closed, pending commands go to the sender.
AttachStream(c) ==
  /\ chan' = [Closed EXCEPT ![c] = [cmds |-> <<>>, open |-> TRUE]]
  /\ stream' = c
  /\ srv' = [srv EXCEPT ![c] = [pc |-> "first", sender |-> "run", todo |-> pending]]
  /\ pending' = <<>>

\* A plausible bug: the closed channel stays registered.
DetachKeepsEntry ==
  /\ chan' = Closed
  /\ UNCHANGED stream

\* DetachStream: closes whatever stream is registered for the worker.
DetachStream ==
  /\ chan' = Closed
  /\ stream' = 0

-----------------------------------------------------------------------------
(* The worker's monitor. *)

\* A connection is over when neither its handler nor its sender runs.
Free(c) == srv[c].pc \in {"unused", "ended"} /\ srv[c].sender # "run" /\ worker.conn # c

\* Run and runStream: a new connection, and the first heartbeat on it.
Connect(c) ==
  /\ worker.status # "EXITED"
  /\ worker.conn = 0
  /\ Free(c)
  /\ \A d \in Conns : d < c => ~Free(d)
  /\ worker' = [worker EXCEPT !.conn = c]
  /\ live' = live \cup {c}
  /\ chan' = [chan EXCEPT ![c] = [cmds |-> <<>>, open |-> FALSE]]
  /\ srv' = [srv EXCEPT ![c] = [pc |-> "open", sender |-> "off", todo |-> <<>>]]
  /\ up' = [up EXCEPT ![c] = <<[status |-> worker.status, time |-> now]>>]
  /\ down' = [down EXCEPT ![c] = <<>>]
  /\ UNCHANGED <<now, rec, stream, pending, issued, breaks>>

\* The heartbeat ticker; one heartbeat may be under way.
Beat(c) ==
  /\ worker.conn = c
  /\ c \in live
  /\ srv[c].pc # "ended"
  /\ up[c] = <<>>
  /\ up' = [up EXCEPT ![c] = <<[status |-> worker.status, time |-> now]>>]
  /\ UNCHANGED <<now, rec, stream, chan, pending, srv, down, live, worker, issued, breaks>>

\* handleCommand: beginDrain, once, or forceKill, which exits at once.
Receive(c) ==
  /\ worker.conn = c
  /\ c \in live
  /\ down[c] # <<>>
  /\ down' = [down EXCEPT ![c] = Tail(@)]
  /\ IF Head(down[c]).kind = "DRAIN"
     THEN /\ worker' = [worker EXCEPT !.status = "DRAINING"]
          /\ UNCHANGED live
     ELSE /\ worker' = [status |-> "EXITED", conn |-> 0]
          /\ live' = live \ {c}
  /\ UNCHANGED <<now, rec, stream, chan, pending, srv, up, issued, breaks>>

\* The monitor sees the end of the stream, after the commands sent before it,
\* or an error; it closes the connection and will open another one.
StreamClosed(c) ==
  /\ worker.conn = c
  /\ c \notin live \/ (srv[c].pc = "ended" /\ down[c] = <<>>)
  /\ worker' = [worker EXCEPT !.conn = 0]
  /\ live' = live \ {c}
  /\ UNCHANGED <<now, rec, stream, chan, pending, srv, up, down, issued, breaks>>

\* The goroutine of beginDrain: no task is active any more, the process stops.
DrainComplete ==
  /\ worker.status = "DRAINING"
  /\ worker' = [status |-> "EXITED", conn |-> 0]
  /\ live' = live \ {worker.conn}
  /\ UNCHANGED <<now, rec, stream, chan, pending, srv, up, down, issued, breaks>>

\* The connection breaks; commands under way are lost.
Break(c) ==
  /\ c \in live
  /\ breaks < MaxBreaks
  /\ breaks' = breaks + 1
  /\ live' = live \ {c}
  /\ down' = [down EXCEPT ![c] = <<>>]
  /\ UNCHANGED <<now, rec, stream, chan, pending, srv, up, worker, issued>>

-----------------------------------------------------------------------------
(* WorkerStream, one handler and one sender for each connection. *)

\* The stream's context ends with the connection and with the handler.
CtxDone(c) == c \notin live \/ srv[c].pc = "ended"

\* The first Recv: the handler attaches the stream and starts the sender.
Open(c) ==
  /\ srv[c].pc = "open"
  /\ up[c] # <<>>
  /\ AttachStream(c)
  /\ UNCHANGED <<now, rec, up, down, live, worker, issued, breaks>>

\* The first Recv fails: nothing was attached and nothing is detached.
OpenFails(c) ==
  /\ srv[c].pc = "open"
  /\ c \notin live
  /\ srv' = [srv EXCEPT ![c].pc = "ended"]
  /\ UNCHANGED <<now, rec, stream, chan, pending, up, down, live, worker, issued, breaks>>

\* handleHeartbeat of the first heartbeat.
FirstHeartbeat(c) ==
  /\ srv[c].pc = "first"
  /\ rec' = UpdateHeartbeat(rec, Head(up[c]))
  /\ up' = [up EXCEPT ![c] = <<>>]
  /\ srv' = [srv EXCEPT ![c].pc = "loop"]
  /\ UNCHANGED <<now, stream, chan, pending, down, live, worker, issued, breaks>>

\* A plausible bug: the handler does not look at what its sender reports.
NextHeartbeatOnly(c) ==
  /\ srv[c].pc = "loop"
  /\ up[c] # <<>>
  /\ rec' = UpdateHeartbeat(rec, Head(up[c]))
  /\ up' = [up EXCEPT ![c] = <<>>]
  /\ UNCHANGED <<now, stream, chan, pending, srv, down, live, worker, issued, breaks>>

\* Recv and handleHeartbeat; the handler returns if its sender has ended.
NextHeartbeat(c) ==
  /\ srv[c].pc = "loop"
  /\ up[c] # <<>>
  /\ rec' = UpdateHeartbeat(rec, Head(up[c]))
  /\ up' = [up EXCEPT ![c] = <<>>]
  /\ srv' = [srv EXCEPT ![c].pc = IF srv[c].sender = "ended" THEN "detach" ELSE "loop"]
  /\ UNCHANGED <<now, stream, chan, pending, down, live, worker, issued, breaks>>

\* Recv fails.
RecvFails(c) ==
  /\ srv[c].pc = "loop"
  /\ c \notin live
  /\ srv' = [srv EXCEPT ![c].pc = "detach"]
  /\ UNCHANGED <<now, rec, stream, chan, pending, up, down, live, worker, issued, breaks>>

\* The deferred DetachStream, by worker and not by stream.
Detach(c) ==
  /\ srv[c].pc = "detach"
  /\ DetachStream
  /\ srv' = [srv EXCEPT ![c].pc = "ended"]
  /\ UNCHANGED <<now, rec, pending, up, down, live, worker, issued, breaks>>

\* stream.Send: on a dead stream the command is lost, and the sender learns of
\* it with the error or later.
Send(c, cmd, ended) ==
  /\ ended => CtxDone(c)
  /\ down' = IF CtxDone(c) THEN down ELSE [down EXCEPT ![c] = Append(@, cmd)]

SendPending(c, ended) ==
  /\ srv[c].sender = "run"
  /\ srv[c].todo # <<>>
  /\ Send(c, Head(srv[c].todo), ended)
  /\ srv' = [srv EXCEPT ![c] = [pc     |-> srv[c].pc,
                                sender |-> IF ended THEN "ended" ELSE "run",
                                todo   |-> IF ended THEN <<>> ELSE Tail(srv[c].todo)]]
  /\ UNCHANGED <<now, rec, stream, chan, pending, up, live, worker, issued, breaks>>

SendQueued(c, ended) ==
  /\ srv[c].sender = "run"
  /\ srv[c].todo = <<>>
  /\ chan[c].cmds # <<>>
  /\ Send(c, Head(chan[c].cmds), ended)
  /\ chan' = [chan EXCEPT ![c].cmds = Tail(@)]
  /\ srv' = [srv EXCEPT ![c].sender = IF ended THEN "ended" ELSE "run"]
  /\ UNCHANGED <<now, rec, stream, pending, up, live, worker, issued, breaks>>

\* The channel is closed and drained, or the context is done.
SenderEnds(c) ==
  /\ srv[c].sender = "run"
  /\ srv[c].todo = <<>>
  /\ (chan[c].cmds = <<>> /\ ~chan[c].open) \/ CtxDone(c)
  /\ srv' = [srv EXCEPT ![c].sender = "ended"]
  /\ UNCHANGED <<now, rec, stream, chan, pending, up, down, live, worker, issued, breaks>>

-----------------------------------------------------------------------------
(* The operator's requests. *)

\* sendCommand (RequestDrain, RequestForceKill): the record takes the status,
\* the command goes to the registered channel unless it is full.
SendCommand(kind) ==
  LET cmd == [id |-> issued + 1, kind |-> kind]
      s   == IF kind = "DRAIN" THEN "DRAINING" ELSE "DEAD"
  IN  /\ issued < MaxCommands
      /\ issued' = issued + 1
      /\ rec' = [status |-> s,
                 beat   |-> rec.beat,
                 since  |-> IF rec.status = s THEN rec.since ELSE now]
      /\ IF stream # 0 /\ Len(chan[stream].cmds) < ChannelCap
         THEN /\ chan' = [chan EXCEPT ![stream].cmds = Append(@, cmd)]
              /\ UNCHANGED pending
         ELSE /\ pending' = Append(pending, cmd)
              /\ UNCHANGED chan
      /\ UNCHANGED <<now, stream, srv, up, down, live, worker, breaks>>

\* The two handlers of the API; the worker need not be known to the registry.
DrainWorker == SendCommand("DRAIN")
ForceKillWorker == SendCommand("FORCE_KILL")

\* List: markInactiveLocked and cleanupInactiveLocked.
ListWorkers ==
  LET m == MarkInactive(rec, now)
  IN  /\ IF m.status \in {"INACTIVE", "DEAD"} /\ now - m.since > CleanupAfter
         THEN /\ rec' = NoRecord
              /\ pending' = <<>>
              /\ chan' = Closed
              /\ stream' = 0
         ELSE /\ rec' = m
              /\ UNCHANGED <<pending, chan, stream>>
      /\ UNCHANGED <<now, srv, up, down, live, worker, issued, breaks>>

RegTick ==
  /\ now < MaxTime
  /\ now' = now + 1
  /\ UNCHANGED <<rec, stream, chan, pending, srv, up, down, live, worker, issued, breaks>>

-----------------------------------------------------------------------------
MonitorStep(c) == Connect(c) \/ Beat(c) \/ Receive(c) \/ StreamClosed(c)

HandlerStep(c) ==
  \/ Open(c)
  \/ OpenFails(c)
  \/ FirstHeartbeat(c)
  \/ NextHeartbeat(c)
  \/ RecvFails(c)
  \/ Detach(c)

SenderStep(c) ==
  \/ \E ended \in BOOLEAN : SendPending(c, ended)
  \/ \E ended \in BOOLEAN : SendQueued(c, ended)
  \/ SenderEnds(c)

RegNext ==
  \/ \E c \in Conns : MonitorStep(c)
  \/ \E c \in Conns : HandlerStep(c)
  \/ \E c \in Conns : SenderStep(c)
  \/ \E c \in Conns : Break(c)
  \/ DrainWorker
  \/ ForceKillWorker
  \/ DrainComplete
  \/ ListWorkers
  \/ RegTick

RegSpec == RegInit /\ [][RegNext]_regVars

\* Fairness: goroutines of a running process go on.  Commands, broken
\* connections, listings and the clock are not forced to happen.
RegFairness ==
  \A c \in Conns :
    /\ WF_regVars(MonitorStep(c))
    /\ WF_regVars(HandlerStep(c))
    /\ WF_regVars(SenderStep(c))

RegFairSpec == RegSpec /\ RegFairness

-----------------------------------------------------------------------------
\* The channel that is registered for a worker is open.  sendCommand sends on
\* it and AttachStream, DetachStream and the cleanup close it, whoever of the
\* handlers runs them: on a closed channel each of these would panic.
RegisteredStreamIsOpen == stream # 0 => chan[stream].open

\* Where a command may be before the worker has it: in pendingCommands, in a
\* command channel, with a sender or on a connection.
Places == {<<"pending", 0>>} \cup {"channel", "sender", "stream"} \X Conns

Queue(p) ==
  CASE p[1] = "pending" -> pending
    [] p[1] = "channel" -> chan[p[2]].cmds
    [] p[1] = "sender"  -> srv[p[2]].todo
    [] p[1] = "stream"  -> down[p[2]]

\* No command is sent twice over reconnects: it is at one place at most, and
\* there once.
CommandsAreNotDuplicated ==
  \A p, q \in Places : \A i \in DOMAIN Queue(p), j \in DOMAIN Queue(q) :
    Queue(p)[i].id = Queue(q)[j].id => p = q /\ i = j

\* While fewer commands than the buffer holds are issued, a command waits in
\* pendingCommands only when no stream is attached to carry it.
PendingMeansOffline ==
  issued <= ChannelCap /\ pending # <<>> => stream = 0

\* The worker gets back a working command channel: the late DetachStream of an
\* old handler may close the stream of a newer connection, but in the end the
\* connection the worker uses is the registered one.
StreamSettles == <>[](worker.status = "EXITED" \/ (stream # 0 /\ stream = worker.conn))
=============================================================================
