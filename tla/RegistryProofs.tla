---------------------------- MODULE RegistryProofs ----------------------------
(***************************************************************************)
(* The registered command channel is open in every reachable state, for    *)
(* any number of connections, commands and failures.                       *)
(***************************************************************************)
EXTENDS WorkerRegistry, SequenceTheorems, TLAPS

\* The registered channel belongs to a handler that has attached and has not
\* yet run its deferred DetachStream; so its slot is not taken over.
RegisteredHandlerRuns == stream # 0 => srv[stream].pc \in {"first", "loop", "detach"}

\* The handler that has attached still holds the heartbeat it attached for.
FirstIsHeld == \A c \in Conns : srv[c].pc = "first" => up[c] # <<>>

\* A process that has exited has no connection.
ExitedIsOffline == worker.status = "EXITED" => worker.conn = 0

RegInv ==
  /\ RegTypeOK
  /\ ExitedIsOffline
  /\ RegisteredStreamIsOpen
  /\ RegisteredHandlerRuns
  /\ FirstIsHeld

\* Closing the registered channel keeps the type of the channels.
LEMMA ClosedType ==
  ASSUME RegTypeOK
  PROVE  /\ Closed \in [Conns -> Channel]
         /\ \A c \in Conns : c # stream => Closed[c] = chan[c]
BY DEF RegTypeOK, Closed, Channel, Conns

\* markInactiveLocked keeps the type of a record.
LEMMA MarkInactiveType ==
  ASSUME NEW r \in Record, NEW t \in 0 .. MaxTime
  PROVE  MarkInactive(r, t) \in Record
BY DEF MarkInactive, Record

\* UpdateHeartbeat keeps the type of a record.
LEMMA UpdateHeartbeatType ==
  ASSUME NEW r \in Record, NEW h \in Heartbeat
  PROVE  UpdateHeartbeat(r, h) \in Record
<1>1. MarkInactive(r, h.time) \in Record
  BY MarkInactiveType DEF Heartbeat
<1>2. HeartbeatStatus(MarkInactive(r, h.time).status, h.status) \in
        {"NONE", "UNKNOWN", "ACTIVE", "INACTIVE", "DRAINING", "DEAD"}
  BY DEF HeartbeatStatus, Heartbeat
<1>3. QED
  BY <1>1, <1>2 DEF UpdateHeartbeat, Record, Heartbeat

\* The tail and the head of a queue that is not empty.
LEMMA QueueType ==
  ASSUME NEW S, NEW q \in Seq(S), q # <<>>
  PROVE  Head(q) \in S /\ Tail(q) \in Seq(S)
BY HeadTailProperties

\* A step of a handler changes where it is and nothing else of its state.
LEMMA PcType ==
  ASSUME RegTypeOK, NEW c \in Conns,
         NEW p \in {"unused", "open", "first", "loop", "detach", "ended"}
  PROVE  [srv EXCEPT ![c].pc = p] \in [Conns -> Handler]
<1>1. srv \in [Conns -> Handler]
  BY DEF RegTypeOK
<1>2. srv[c] \in Handler
  BY <1>1
<1>3. [srv[c] EXCEPT !.pc = p] \in Handler
  BY <1>2 DEF Handler
<1>4. QED
  BY <1>1, <1>3

\* A heartbeat is built from the worker's status and the clock.
LEMMA BeatType ==
  ASSUME NEW s \in {"ACTIVE", "DRAINING"}, NEW t \in 0 .. MaxTime
  PROVE  <<[status |-> s, time |-> t]>> \in Seq(Heartbeat)
<1>1. [status |-> s, time |-> t] \in Heartbeat
  BY DEF Heartbeat
<1>2. QED
  BY <1>1

\* A worker that gives up its connection is well typed.
LEMMA OfflineType ==
  ASSUME RegTypeOK
  PROVE  [worker EXCEPT !.conn = 0] \in WorkerState
<1>1. 0 \in 0 .. MaxConns
  BY RegistryAssumption
<1>2. QED
  BY <1>1 DEF RegTypeOK, WorkerState

\* The initial state satisfies the invariant.
LEMMA RegInitOK == RegInit => RegInv
<1> SUFFICES ASSUME RegInit PROVE RegInv
  OBVIOUS
<1>1. RegTypeOK
  BY RegistryAssumption
  DEF RegInit, RegTypeOK, Conns, Record, NoRecord, Never, Channel, Handler, WorkerState
<1>2. RegisteredStreamIsOpen /\ RegisteredHandlerRuns
  BY DEF RegInit, RegisteredStreamIsOpen, RegisteredHandlerRuns
<1>3. FirstIsHeld /\ ExitedIsOffline
  BY DEF RegInit, FirstIsHeld, ExitedIsOffline
<1>4. QED
  BY <1>1, <1>2, <1>3 DEF RegInv

\* Every step keeps the types.
LEMMA RegTypeStep ==
  ASSUME RegInv, [RegNext]_regVars
  PROVE  RegTypeOK'
<1>0. /\ RegTypeOK
      /\ FirstIsHeld
      /\ ExitedIsOffline
  BY DEF RegInv
<1>1. ASSUME NEW c \in Conns, Connect(c) PROVE RegTypeOK'
  <2>1. worker.status \in {"ACTIVE", "DRAINING"}
    BY <1>0, <1>1 DEF Connect, RegTypeOK, WorkerState
  <2>2. up' \in [Conns -> Seq(Heartbeat)]
    <3>1. <<[status |-> worker.status, time |-> now]>> \in Seq(Heartbeat)
      BY <1>0, <2>1, BeatType DEF RegTypeOK
    <3>2. QED
      BY <1>0, <1>1, <3>1 DEF Connect, RegTypeOK
  <2>3. worker' \in WorkerState
    BY <1>0, <1>1 DEF Connect, RegTypeOK, WorkerState, Conns
  <2>4. chan' \in [Conns -> Channel]
    BY <1>0, <1>1 DEF Connect, RegTypeOK, Channel
  <2>5. srv' \in [Conns -> Handler]
    BY <1>0, <1>1 DEF Connect, RegTypeOK, Handler
  <2>6. QED
    BY <1>0, <1>1, <2>2, <2>3, <2>4, <2>5 DEF Connect, RegTypeOK
<1>2. ASSUME NEW c \in Conns, Beat(c) PROVE RegTypeOK'
  <2>1. worker.status \in {"ACTIVE", "DRAINING"}
    BY <1>0, <1>2 DEF Beat, RegTypeOK, WorkerState, Conns, ExitedIsOffline
  <2>2. <<[status |-> worker.status, time |-> now]>> \in Seq(Heartbeat)
    BY <1>0, <2>1, BeatType DEF RegTypeOK
  <2>3. QED
    BY <1>0, <1>2, <2>2 DEF Beat, RegTypeOK
<1>3. ASSUME NEW c \in Conns, Receive(c) PROVE RegTypeOK'
  <2>1. Tail(down[c]) \in Seq(Command)
    BY <1>0, <1>3, QueueType DEF Receive, RegTypeOK
  <2>2. QED
    BY <1>0, <1>3, <2>1, RegistryAssumption DEF Receive, RegTypeOK, WorkerState, Conns
<1>4. ASSUME NEW c \in Conns, StreamClosed(c) PROVE RegTypeOK'
  BY <1>0, <1>4, OfflineType DEF StreamClosed, RegTypeOK
<1>5. ASSUME NEW c \in Conns, Open(c) PROVE RegTypeOK'
  <2>1. chan' \in [Conns -> Channel]
    BY <1>0, <1>5, ClosedType DEF Open, AttachStream, RegTypeOK, Channel
  <2>2. srv' \in [Conns -> Handler]
    BY <1>0, <1>5 DEF Open, AttachStream, RegTypeOK, Handler
  <2>3. QED
    BY <1>0, <1>5, <2>1, <2>2 DEF Open, AttachStream, RegTypeOK, Conns
<1>6. ASSUME NEW c \in Conns, OpenFails(c) PROVE RegTypeOK'
  BY <1>0, <1>6, PcType DEF OpenFails, RegTypeOK
<1>7. ASSUME NEW c \in Conns, FirstHeartbeat(c) PROVE RegTypeOK'
  <2>1. Head(up[c]) \in Heartbeat
    BY <1>0, <1>7, QueueType DEF FirstHeartbeat, RegTypeOK, FirstIsHeld
  <2>2. rec' \in Record
    BY <1>0, <1>7, <2>1, UpdateHeartbeatType DEF FirstHeartbeat, RegTypeOK
  <2>3. up' \in [Conns -> Seq(Heartbeat)]
    <3>1. <<>> \in Seq(Heartbeat)
      OBVIOUS
    <3>2. QED
      BY <1>0, <1>7, <3>1 DEF FirstHeartbeat, RegTypeOK
  <2>4. srv' \in [Conns -> Handler]
    BY <1>0, <1>7, PcType DEF FirstHeartbeat
  <2>5. QED
    BY <1>0, <1>7, <2>2, <2>3, <2>4 DEF FirstHeartbeat, RegTypeOK
<1>8. ASSUME NEW c \in Conns, NextHeartbeat(c) PROVE RegTypeOK'
  <2>1. Head(up[c]) \in Heartbeat
    BY <1>0, <1>8, QueueType DEF NextHeartbeat, RegTypeOK
  <2>2. rec' \in Record
    BY <1>0, <1>8, <2>1, UpdateHeartbeatType DEF NextHeartbeat, RegTypeOK
  <2>3. up' \in [Conns -> Seq(Heartbeat)]
    <3>1. <<>> \in Seq(Heartbeat)
      OBVIOUS
    <3>2. QED
      BY <1>0, <1>8, <3>1 DEF NextHeartbeat, RegTypeOK
  <2>4. srv' \in [Conns -> Handler]
    BY <1>0, <1>8, PcType DEF NextHeartbeat
  <2>5. QED
    BY <1>0, <1>8, <2>2, <2>3, <2>4 DEF NextHeartbeat, RegTypeOK
<1>9. ASSUME NEW c \in Conns, RecvFails(c) PROVE RegTypeOK'
  BY <1>0, <1>9, PcType DEF RecvFails, RegTypeOK
<1>10. ASSUME NEW c \in Conns, Detach(c) PROVE RegTypeOK'
  <2>1. srv' \in [Conns -> Handler]
    BY <1>0, <1>10, PcType DEF Detach
  <2>2. chan' \in [Conns -> Channel]
    BY <1>0, <1>10, ClosedType DEF Detach, DetachStream
  <2>3. stream' \in 0 .. MaxConns
    BY <1>10, RegistryAssumption DEF Detach, DetachStream
  <2>4. QED
    BY <1>0, <1>10, <2>1, <2>2, <2>3 DEF Detach, RegTypeOK
<1>11. ASSUME NEW c \in Conns, NEW e \in BOOLEAN, SendPending(c, e) PROVE RegTypeOK'
  <2>1. /\ Head(srv[c].todo) \in Command
        /\ Tail(srv[c].todo) \in Seq(Command)
    BY <1>0, <1>11, QueueType DEF SendPending, RegTypeOK, Handler
  <2>2. down' \in [Conns -> Seq(Command)]
    BY <1>0, <1>11, <2>1 DEF SendPending, Send, RegTypeOK
  <2>3. srv' \in [Conns -> Handler]
    BY <1>0, <1>11, <2>1 DEF SendPending, RegTypeOK, Handler
  <2>4. QED
    BY <1>0, <1>11, <2>2, <2>3 DEF SendPending, RegTypeOK
<1>12. ASSUME NEW c \in Conns, NEW e \in BOOLEAN, SendQueued(c, e) PROVE RegTypeOK'
  <2>1. /\ Head(chan[c].cmds) \in Command
        /\ Tail(chan[c].cmds) \in Seq(Command)
    BY <1>0, <1>12, QueueType DEF SendQueued, RegTypeOK, Channel
  <2>2. down' \in [Conns -> Seq(Command)]
    BY <1>0, <1>12, <2>1 DEF SendQueued, Send, RegTypeOK
  <2>3. chan' \in [Conns -> Channel]
    BY <1>0, <1>12, <2>1 DEF SendQueued, RegTypeOK, Channel
  <2>4. srv' \in [Conns -> Handler]
    BY <1>0, <1>12 DEF SendQueued, RegTypeOK, Handler
  <2>5. QED
    BY <1>0, <1>12, <2>2, <2>3, <2>4 DEF SendQueued, RegTypeOK
<1>13. ASSUME NEW c \in Conns, SenderEnds(c) PROVE RegTypeOK'
  BY <1>0, <1>13 DEF SenderEnds, RegTypeOK, Handler
<1>14. ASSUME NEW c \in Conns, Break(c) PROVE RegTypeOK'
  <2>1. breaks' \in 0 .. MaxBreaks
    BY <1>0, <1>14, RegistryAssumption DEF Break, RegTypeOK
  <2>2. QED
    BY <1>0, <1>14, <2>1 DEF Break, RegTypeOK
<1>15. ASSUME NEW k \in {"DRAIN", "FORCE_KILL"}, SendCommand(k) PROVE RegTypeOK'
  <2>1. [id |-> issued + 1, kind |-> k] \in Command
    <3>1. issued \in 0 .. MaxCommands /\ issued < MaxCommands
      BY <1>0, <1>15 DEF SendCommand, RegTypeOK
    <3>2. issued + 1 \in 1 .. MaxCommands
      BY <3>1, RegistryAssumption
    <3>3. QED
      BY <3>2 DEF Command
  <2>2. issued' \in 0 .. MaxCommands
    BY <1>0, <1>15, RegistryAssumption DEF SendCommand, RegTypeOK
  <2>3. rec' \in Record
    BY <1>0, <1>15 DEF SendCommand, RegTypeOK, Record
  <2>4. chan' \in [Conns -> Channel] /\ pending' \in Seq(Command)
    <3>1. CASE stream # 0 /\ Len(chan[stream].cmds) < ChannelCap
      <4>1. stream \in Conns
        BY <1>0, <3>1, RegistryAssumption DEF RegTypeOK, Conns
      <4>2. Append(chan[stream].cmds, [id |-> issued + 1, kind |-> k]) \in Seq(Command)
        BY <1>0, <2>1, <4>1 DEF RegTypeOK, Channel
      <4>3. QED
        BY <1>0, <1>15, <3>1, <4>1, <4>2 DEF SendCommand, RegTypeOK, Channel
    <3>2. CASE ~(stream # 0 /\ Len(chan[stream].cmds) < ChannelCap)
      <4>1. chan' = chan /\ pending' = Append(pending, [id |-> issued + 1, kind |-> k])
        BY <1>15, <3>2 DEF SendCommand
      <4>2. Append(pending, [id |-> issued + 1, kind |-> k]) \in Seq(Command)
        BY <1>0, <2>1 DEF RegTypeOK
      <4>3. QED
        BY <1>0, <4>1, <4>2 DEF RegTypeOK
    <3>3. QED
      BY <3>1, <3>2
  <2>5. QED
    BY <1>0, <1>15, <2>2, <2>3, <2>4 DEF SendCommand, RegTypeOK
<1>16. CASE DrainComplete
  BY <1>0, <1>16, RegistryAssumption DEF DrainComplete, RegTypeOK, WorkerState
<1>17. CASE ListWorkers
  <2>1. MarkInactive(rec, now) \in Record
    BY <1>0, MarkInactiveType DEF RegTypeOK
  <2>2. NoRecord \in Record
    BY RegistryAssumption DEF NoRecord, Record, Never
  <2>3. rec' \in Record
    BY <1>17, <2>1, <2>2 DEF ListWorkers
  <2>4. chan' \in [Conns -> Channel]
    BY <1>0, <1>17, ClosedType DEF ListWorkers, RegTypeOK
  <2>5. pending' \in Seq(Command)
    <3>1. <<>> \in Seq(Command)
      OBVIOUS
    <3>2. QED
      BY <1>0, <1>17, <3>1 DEF ListWorkers, RegTypeOK
  <2>6. stream' \in 0 .. MaxConns
    BY <1>0, <1>17, RegistryAssumption DEF ListWorkers, RegTypeOK
  <2>7. QED
    BY <1>0, <1>17, <2>3, <2>4, <2>5, <2>6 DEF ListWorkers, RegTypeOK
<1>18. CASE RegTick
  BY <1>0, <1>18, RegistryAssumption DEF RegTick, RegTypeOK
<1>19. CASE UNCHANGED regVars
  BY <1>0, <1>19 DEF regVars, RegTypeOK
<1>20. QED
  BY <1>1, <1>2, <1>3, <1>4, <1>5, <1>6, <1>7, <1>8, <1>9, <1>10, <1>11, <1>12, <1>13,
     <1>14, <1>15, <1>16, <1>17, <1>18, <1>19
  DEF RegNext, DrainWorker, ForceKillWorker, MonitorStep, HandlerStep, SenderStep

\* Every step keeps the registered channel open and its handler running.
LEMMA RegInvStep == RegInv /\ [RegNext]_regVars => RegInv'
<1> SUFFICES ASSUME RegInv, [RegNext]_regVars PROVE RegInv'
  OBVIOUS
<1>0. /\ RegTypeOK /\ RegTypeOK'
      /\ chan \in [Conns -> Channel] /\ srv \in [Conns -> Handler]
      /\ up \in [Conns -> Seq(Heartbeat)]
      /\ stream # 0 => stream \in Conns
      /\ RegisteredStreamIsOpen /\ RegisteredHandlerRuns /\ FirstIsHeld /\ ExitedIsOffline
  <2>1. stream # 0 => stream \in Conns
    BY RegistryAssumption DEF RegInv, RegTypeOK, Conns
  <2>2. RegTypeOK'
    BY RegTypeStep
  <2>3. QED
    BY <2>1, <2>2 DEF RegInv, RegTypeOK
<1>1. RegisteredStreamIsOpen' /\ RegisteredHandlerRuns'
  <2>1. ASSUME NEW c \in Conns, MonitorStep(c) PROVE RegisteredStreamIsOpen' /\ RegisteredHandlerRuns'
    <3>1. CASE Connect(c)
      <4>1. stream # c
        BY <1>0, <3>1 DEF Connect, Free, RegisteredHandlerRuns
      <4>2. stream # 0 => chan'[stream] = chan[stream] /\ srv'[stream] = srv[stream]
        BY <1>0, <3>1, <4>1 DEF Connect
      <4>3. stream' = stream
        BY <3>1 DEF Connect
      <4>4. QED
        BY <1>0, <4>2, <4>3 DEF RegisteredStreamIsOpen, RegisteredHandlerRuns
    <3>2. CASE Beat(c) \/ Receive(c) \/ StreamClosed(c)
      BY <1>0, <3>2
      DEF Beat, Receive, StreamClosed, RegisteredStreamIsOpen, RegisteredHandlerRuns
    <3>3. QED
      BY <2>1, <3>1, <3>2 DEF MonitorStep
  <2>2. ASSUME NEW c \in Conns, HandlerStep(c) PROVE RegisteredStreamIsOpen' /\ RegisteredHandlerRuns'
    <3>1. CASE Open(c)
      BY <1>0, <3>1, ClosedType
      DEF Open, AttachStream, RegisteredStreamIsOpen, RegisteredHandlerRuns
    <3>2. CASE OpenFails(c)
      <4>1. stream # c
        BY <1>0, <3>2 DEF OpenFails, RegisteredHandlerRuns, Conns
      <4>2. stream # 0 => srv'[stream] = srv[stream]
        BY <1>0, <3>2, <4>1 DEF OpenFails
      <4>3. QED
        BY <1>0, <3>2, <4>2 DEF OpenFails, RegisteredStreamIsOpen, RegisteredHandlerRuns
    <3>3. CASE FirstHeartbeat(c)
      BY <1>0, <3>3 DEF FirstHeartbeat, RegisteredStreamIsOpen, RegisteredHandlerRuns, Handler
    <3>4. CASE NextHeartbeat(c)
      BY <1>0, <3>4 DEF NextHeartbeat, RegisteredStreamIsOpen, RegisteredHandlerRuns, Handler
    <3>5. CASE RecvFails(c)
      BY <1>0, <3>5 DEF RecvFails, RegisteredStreamIsOpen, RegisteredHandlerRuns, Handler
    <3>6. CASE Detach(c)
      BY <3>6 DEF Detach, DetachStream, RegisteredStreamIsOpen, RegisteredHandlerRuns
    <3>7. QED
      BY <2>2, <3>1, <3>2, <3>3, <3>4, <3>5, <3>6 DEF HandlerStep
  <2>3. ASSUME NEW c \in Conns, SenderStep(c) PROVE RegisteredStreamIsOpen' /\ RegisteredHandlerRuns'
    <3>1. ASSUME NEW e \in BOOLEAN, SendPending(c, e) PROVE RegisteredStreamIsOpen' /\ RegisteredHandlerRuns'
      BY <1>0, <3>1 DEF SendPending, RegisteredStreamIsOpen, RegisteredHandlerRuns
    <3>2. ASSUME NEW e \in BOOLEAN, SendQueued(c, e) PROVE RegisteredStreamIsOpen' /\ RegisteredHandlerRuns'
      BY <1>0, <3>2
      DEF SendQueued, RegisteredStreamIsOpen, RegisteredHandlerRuns, Handler, Channel
    <3>3. CASE SenderEnds(c)
      BY <1>0, <3>3 DEF SenderEnds, RegisteredStreamIsOpen, RegisteredHandlerRuns, Handler
    <3>4. QED
      BY <2>3, <3>1, <3>2, <3>3 DEF SenderStep
  <2>4. ASSUME NEW k \in {"DRAIN", "FORCE_KILL"}, SendCommand(k) PROVE RegisteredStreamIsOpen' /\ RegisteredHandlerRuns'
    BY <1>0, <2>4 DEF SendCommand, RegisteredStreamIsOpen, RegisteredHandlerRuns, Channel
  <2>5. CASE ListWorkers
    BY <1>0, <2>5 DEF ListWorkers, RegisteredStreamIsOpen, RegisteredHandlerRuns
  <2>6. ASSUME (\E c \in Conns : Break(c)) \/ DrainComplete \/ RegTick \/ UNCHANGED regVars
        PROVE  RegisteredStreamIsOpen' /\ RegisteredHandlerRuns'
    BY <1>0, <2>6
    DEF Break, DrainComplete, RegTick, regVars, RegisteredStreamIsOpen, RegisteredHandlerRuns
  <2>7. QED
    BY <2>1, <2>2, <2>3, <2>4, <2>5, <2>6 DEF RegNext, DrainWorker, ForceKillWorker
<1>2. FirstIsHeld'
  <2> SUFFICES ASSUME NEW d \in Conns, srv'[d].pc = "first" PROVE up'[d] # <<>>
    BY DEF FirstIsHeld
  <2>1. ASSUME NEW c \in Conns, MonitorStep(c) PROVE up'[d] # <<>>
    <3>1. CASE Connect(c)
      BY <1>0, <3>1 DEF Connect, FirstIsHeld
    <3>2. CASE Beat(c)
      BY <1>0, <3>2 DEF Beat, FirstIsHeld
    <3>3. CASE Receive(c) \/ StreamClosed(c)
      BY <1>0, <3>3 DEF Receive, StreamClosed, FirstIsHeld
    <3>4. QED
      BY <2>1, <3>1, <3>2, <3>3 DEF MonitorStep
  <2>2. ASSUME NEW c \in Conns, HandlerStep(c) PROVE up'[d] # <<>>
    <3>1. CASE Open(c)
      BY <1>0, <3>1 DEF Open, AttachStream, FirstIsHeld
    <3>2. CASE FirstHeartbeat(c)
      BY <1>0, <3>2 DEF FirstHeartbeat, FirstIsHeld, Handler
    <3>3. CASE NextHeartbeat(c)
      BY <1>0, <3>3 DEF NextHeartbeat, FirstIsHeld, Handler
    <3>4. CASE OpenFails(c) \/ RecvFails(c) \/ Detach(c)
      BY <1>0, <3>4 DEF OpenFails, RecvFails, Detach, FirstIsHeld, Handler
    <3>5. QED
      BY <2>2, <3>1, <3>2, <3>3, <3>4 DEF HandlerStep
  <2>3. ASSUME NEW c \in Conns, SenderStep(c) PROVE up'[d] # <<>>
    <3>1. ASSUME NEW e \in BOOLEAN, SendPending(c, e) PROVE up'[d] # <<>>
      BY <1>0, <3>1 DEF SendPending, FirstIsHeld
    <3>2. ASSUME NEW e \in BOOLEAN, SendQueued(c, e) PROVE up'[d] # <<>>
      BY <1>0, <3>2 DEF SendQueued, FirstIsHeld, Handler
    <3>3. CASE SenderEnds(c)
      BY <1>0, <3>3 DEF SenderEnds, FirstIsHeld, Handler
    <3>4. QED
      BY <2>3, <3>1, <3>2, <3>3 DEF SenderStep
  <2>4. ASSUME \/ \E c \in Conns : Break(c)
               \/ \E k \in {"DRAIN", "FORCE_KILL"} : SendCommand(k)
               \/ DrainComplete \/ ListWorkers \/ RegTick \/ UNCHANGED regVars
        PROVE  up'[d] # <<>>
    BY <1>0, <2>4
    DEF Break, SendCommand, DrainComplete, ListWorkers, RegTick, regVars, FirstIsHeld
  <2>5. QED
    BY <2>1, <2>2, <2>3, <2>4 DEF RegNext, DrainWorker, ForceKillWorker
<1>3. ExitedIsOffline'
  <2>1. ASSUME NEW c \in Conns, MonitorStep(c) PROVE ExitedIsOffline'
    BY <1>0, <2>1
    DEF MonitorStep, Connect, Beat, Receive, StreamClosed, ExitedIsOffline, RegTypeOK, WorkerState
  <2>2. CASE DrainComplete
    BY <2>2 DEF DrainComplete, ExitedIsOffline
  <2>3. ASSUME NEW c \in Conns, HandlerStep(c) \/ SenderStep(c) \/ Break(c) PROVE worker' = worker
    BY <2>3
    DEF HandlerStep, Open, OpenFails, FirstHeartbeat, NextHeartbeat, RecvFails, Detach,
        SenderStep, SendPending, SendQueued, SenderEnds, Break
  <2>4. ASSUME \/ \E k \in {"DRAIN", "FORCE_KILL"} : SendCommand(k)
               \/ ListWorkers \/ RegTick \/ UNCHANGED regVars
        PROVE  worker' = worker
    BY <2>4 DEF SendCommand, ListWorkers, RegTick, regVars
  <2>5. QED
    BY <1>0, <2>1, <2>2, <2>3, <2>4 DEF RegNext, DrainWorker, ForceKillWorker, ExitedIsOffline
<1>4. QED
  BY <1>0, <1>1, <1>2, <1>3 DEF RegInv

\* THEOREM.  For any number of connections and commands, and however late an
\* old handler runs its deferred DetachStream, the registered channel is open:
\* no send and no close in the registry ever panics.
THEOREM RegisteredStreamAlwaysOpen == RegSpec => []RegisteredStreamIsOpen
<1>1. RegInv => RegisteredStreamIsOpen
  BY DEF RegInv
<1>2. QED
  BY <1>1, RegInitOK, RegInvStep, PTL DEF RegSpec

\* Every reachable state is well typed, for any number of connections.
THEOREM RegistryTypeCorrect == RegSpec => []RegTypeOK
<1>1. RegInv => RegTypeOK
  BY DEF RegInv
<1>2. QED
  BY <1>1, RegInitOK, RegInvStep, PTL DEF RegSpec

-----------------------------------------------------------------------------
(* Commands.                                                                *)

\* The numbers of the commands in a queue.
Ids(q) == {q[i].id : i \in DOMAIN q}

\* No command is twice in a queue.
Distinct(q) == \A i, j \in DOMAIN q : q[i].id = q[j].id => i = j

\* The strengthening of CommandsAreNotDuplicated: every command was issued, so
\* that the next one is new.
CommandsInv ==
  /\ \A p \in Places : Queue(p) \in Seq(Command) /\ Distinct(Queue(p))
  /\ \A p \in Places : \A n \in Ids(Queue(p)) : n <= issued
  /\ \A p, q \in Places : p # q => Ids(Queue(p)) \cap Ids(Queue(q)) = {}

\* A queue is left alone, emptied, or its first command is taken.
Shrinks(new, old) == new = old \/ new = <<>> \/ (old # <<>> /\ new = Tail(old))

\* The first command of a queue without duplicates is not among the others.
LEMMA IdsOfTail ==
  ASSUME NEW q \in Seq(Command), q # <<>>
  PROVE  /\ Tail(q) \in Seq(Command)
         /\ Ids(Tail(q)) \subseteq Ids(q)
         /\ Head(q) \in Command /\ Head(q).id \in Ids(q)
         /\ Distinct(q) => Distinct(Tail(q)) /\ Head(q).id \notin Ids(Tail(q))
<1>1. /\ Tail(q) \in Seq(Command) /\ Head(q) \in Command
      /\ Len(q) \in Nat \ {0} /\ Len(Tail(q)) = Len(q) - 1
      /\ Head(q) = q[1]
      /\ \A i \in 1 .. Len(q) - 1 : Tail(q)[i] = q[i + 1]
  BY HeadTailProperties
<1>2. DOMAIN q = 1 .. Len(q) /\ DOMAIN Tail(q) = 1 .. Len(q) - 1
  BY <1>1
<1>3. \A i \in DOMAIN Tail(q) : i + 1 \in DOMAIN q /\ Tail(q)[i] = q[i + 1] /\ i + 1 # 1 /\ i \in Int
  BY <1>1, <1>2
<1>4. 1 \in DOMAIN q
  BY <1>1, <1>2
<1>5. QED
  BY <1>1, <1>3, <1>4 DEF Ids, Distinct

\* A command is added at the end of a queue.
LEMMA IdsOfAppend ==
  ASSUME NEW q \in Seq(Command), NEW e \in Command
  PROVE  /\ Append(q, e) \in Seq(Command)
         /\ Ids(Append(q, e)) = Ids(q) \cup {e.id}
         /\ Distinct(q) /\ e.id \notin Ids(q) => Distinct(Append(q, e))
<1>1. /\ Append(q, e) \in Seq(Command)
      /\ Len(q) \in Nat /\ Len(Append(q, e)) = Len(q) + 1
      /\ Append(q, e)[Len(q) + 1] = e
      /\ \A i \in 1 .. Len(q) : Append(q, e)[i] = q[i]
  BY AppendProperties
<1>2. DOMAIN q = 1 .. Len(q) /\ DOMAIN Append(q, e) = 1 .. Len(q) + 1
  BY <1>1
<1>3. /\ \A i \in DOMAIN q : i \in DOMAIN Append(q, e) /\ Append(q, e)[i] = q[i] /\ i # Len(q) + 1
      /\ \A i \in DOMAIN Append(q, e) : i \in DOMAIN q \/ i = Len(q) + 1
      /\ Len(q) + 1 \in DOMAIN Append(q, e)
  BY <1>1, <1>2
<1>4. Ids(Append(q, e)) = Ids(q) \cup {e.id}
  BY <1>1, <1>3 DEF Ids
<1>5. ASSUME Distinct(q), e.id \notin Ids(q) PROVE Distinct(Append(q, e))
  BY <1>1, <1>3, <1>5 DEF Ids, Distinct
<1>6. QED
  BY <1>1, <1>4, <1>5

\* A queue that shrinks holds nothing new.
LEMMA IdsOfShrunk ==
  ASSUME NEW old \in Seq(Command), Distinct(old), NEW new, Shrinks(new, old)
  PROVE  new \in Seq(Command) /\ Distinct(new) /\ Ids(new) \subseteq Ids(old)
<1>1. CASE new = <<>>
  BY <1>1 DEF Distinct, Ids
<1>2. CASE old # <<>> /\ new = Tail(old)
  BY <1>2, IdsOfTail
<1>3. QED
  BY <1>1, <1>2 DEF Shrinks

\* The places of a command, one by one.
LEMMA PlaceQueues ==
  /\ Queue(<<"pending", 0>>) = pending /\ <<"pending", 0>> \in Places
  /\ \A c \in Conns : /\ Queue(<<"channel", c>>) = chan[c].cmds /\ <<"channel", c>> \in Places
                       /\ Queue(<<"sender", c>>) = srv[c].todo /\ <<"sender", c>> \in Places
                       /\ Queue(<<"stream", c>>) = down[c] /\ <<"stream", c>> \in Places
  /\ \A p \in Places : \/ p = <<"pending", 0>>
                        \/ \E c \in Conns : p \in {<<"channel", c>>, <<"sender", c>>, <<"stream", c>>}
<1>1. Queue(<<"pending", 0>>) = pending /\ <<"pending", 0>> \in Places
  BY DEF Queue, Places
<1>2. ASSUME NEW c \in Conns
      PROVE  /\ Queue(<<"channel", c>>) = chan[c].cmds /\ <<"channel", c>> \in Places
             /\ Queue(<<"sender", c>>) = srv[c].todo /\ <<"sender", c>> \in Places
             /\ Queue(<<"stream", c>>) = down[c] /\ <<"stream", c>> \in Places
  BY DEF Queue, Places
<1>3. QED
  BY <1>1, <1>2 DEF Places

\* A step that only takes commands away.
LEMMA CommandsGo ==
  ASSUME CommandsInv, issued' = issued, Shrinks(pending', pending),
         \A c \in Conns : /\ Shrinks(chan'[c].cmds, chan[c].cmds)
                          /\ Shrinks(srv'[c].todo, srv[c].todo)
                          /\ Shrinks(down'[c], down[c])
  PROVE  CommandsInv'
<1>1. ASSUME NEW p \in Places PROVE Shrinks(Queue(p)', Queue(p))
  <2>1. CASE p = <<"pending", 0>>
    BY <2>1, PlaceQueues DEF Queue
  <2>2. ASSUME NEW c \in Conns, p \in {<<"channel", c>>, <<"sender", c>>, <<"stream", c>>}
        PROVE  Shrinks(Queue(p)', Queue(p))
    BY <2>2, PlaceQueues DEF Queue
  <2>3. QED
    BY <2>1, <2>2, PlaceQueues
<1>2. ASSUME NEW p \in Places
      PROVE  /\ Queue(p)' \in Seq(Command) /\ Distinct(Queue(p))'
             /\ Ids(Queue(p))' \subseteq Ids(Queue(p))
  BY <1>1, IdsOfShrunk DEF CommandsInv
<1>3. QED
  BY <1>2 DEF CommandsInv

\* A step that adds commands to one place, new ones or such as it takes from
\* another place.
LEMMA CommandsMove ==
  ASSUME CommandsInv, NEW from \in Places, NEW to \in Places, from # to, NEW X,
         Queue(from)' \in Seq(Command) /\ Distinct(Queue(from))',
         Queue(to)' \in Seq(Command) /\ Distinct(Queue(to))',
         Ids(Queue(from))' \subseteq Ids(Queue(from)) \ X,
         Ids(Queue(to))' \subseteq Ids(Queue(to)) \cup X,
         X \subseteq Ids(Queue(from)),
         \A p \in Places \ {from, to} : Shrinks(Queue(p)', Queue(p)),
         issued' = issued
  PROVE  CommandsInv'
<1>1. ASSUME NEW p \in Places \ {from, to}
      PROVE  /\ Queue(p)' \in Seq(Command) /\ Distinct(Queue(p))'
             /\ Ids(Queue(p))' \subseteq Ids(Queue(p))
  BY <1>1, IdsOfShrunk DEF CommandsInv
<1>2. \A p \in Places : Queue(p)' \in Seq(Command) /\ Distinct(Queue(p))'
  BY <1>1
<1>3. \A p \in Places : \A n \in Ids(Queue(p))' : n <= issued
  BY <1>1 DEF CommandsInv
<1>4. ASSUME NEW p \in Places, NEW q \in Places, p # q,
             NEW n \in Ids(Queue(p))', n \in Ids(Queue(q))'
      PROVE  FALSE
  <2>1. CASE n \in X
    <3>1. \A r \in Places : n \in Ids(Queue(r)) => r = from
      BY <2>1 DEF CommandsInv
    <3>2. \A r \in Places : n \in Ids(Queue(r))' => r = to
      BY <1>1, <2>1, <3>1
    <3>3. QED
      BY <1>4, <3>2
  <2>2. CASE n \notin X
    <3>1. n \in Ids(Queue(p)) /\ n \in Ids(Queue(q))
      BY <1>1, <1>4, <2>2
    <3>2. QED
      BY <1>4, <3>1 DEF CommandsInv
  <2>3. QED
    BY <2>1, <2>2
<1>5. QED
  BY <1>2, <1>3, <1>4 DEF CommandsInv

\* A new command is added at one place.
LEMMA CommandsCome ==
  ASSUME CommandsInv, RegTypeOK, NEW to \in Places, NEW e \in Command, e.id = issued + 1,
         Queue(to)' = Append(Queue(to), e),
         \A p \in Places \ {to} : Queue(p)' = Queue(p),
         issued' = issued + 1
  PROVE  CommandsInv'
<1>1. issued \in Nat /\ \A p \in Places : issued + 1 \notin Ids(Queue(p))
  <2>1. issued \in Nat
    BY RegistryAssumption DEF RegTypeOK
  <2>2. QED
    BY <2>1 DEF CommandsInv
<1>2. /\ Queue(to)' \in Seq(Command) /\ Distinct(Queue(to))'
      /\ Ids(Queue(to))' = Ids(Queue(to)) \cup {issued + 1}
  <2>1. Queue(to) \in Seq(Command) /\ Distinct(Queue(to))
    BY DEF CommandsInv
  <2>2. QED
    BY <1>1, <2>1, IdsOfAppend
<1>3. \A p \in Places \ {to} : Ids(Queue(p))' = Ids(Queue(p)) /\ (Distinct(Queue(p))' <=> Distinct(Queue(p)))
  OBVIOUS
<1>4. \A p \in Places : Queue(p)' \in Seq(Command) /\ Distinct(Queue(p))'
  BY <1>2, <1>3 DEF CommandsInv
<1>5. ASSUME NEW p \in Places, NEW n \in Ids(Queue(p))' PROVE n <= issued'
  <2>1. CASE n \in Ids(Queue(p))
    <3>1. n <= issued /\ Queue(p) \in Seq(Command)
      BY <2>1 DEF CommandsInv
    <3>2. n \in Int
      <4>1. PICK i \in DOMAIN Queue(p) : n = Queue(p)[i].id
        BY <2>1 DEF Ids
      <4>2. Queue(p)[i] \in Command
        BY <3>1, <4>1, ElementOfSeq
      <4>3. QED
        BY <4>1, <4>2, RegistryAssumption DEF Command
    <3>3. QED
      BY <1>1, <3>1, <3>2
  <2>2. CASE n \notin Ids(Queue(p))
    <3>1. p = to
      BY <1>3, <1>5, <2>2
    <3>2. n = issued + 1
      BY <1>2, <1>5, <2>2, <3>1
    <3>3. QED
      BY <1>1, <3>2
  <2>3. QED
    BY <2>1, <2>2
<1>6. ASSUME NEW p \in Places, NEW q \in Places, p # q,
             NEW n \in Ids(Queue(p))', n \in Ids(Queue(q))'
      PROVE  FALSE
  <2>1. CASE p # to /\ q # to
    <3>1. n \in Ids(Queue(p)) /\ n \in Ids(Queue(q))
      BY <1>3, <1>6, <2>1
    <3>2. QED
      BY <1>6, <3>1 DEF CommandsInv
  <2>2. ASSUME NEW r \in Places, r # to, n \in Ids(Queue(r))', n \in Ids(Queue(to))' PROVE FALSE
    <3>1. n \in Ids(Queue(r)) /\ (n \in Ids(Queue(to)) \/ n = issued + 1)
      BY <1>2, <1>3, <2>2
    <3>2. QED
      BY <1>1, <2>2, <3>1 DEF CommandsInv
  <2>3. QED
    BY <1>6, <2>1, <2>2
<1>7. QED
  BY <1>4, <1>5, <1>6 DEF CommandsInv

\* What closing the registered channel leaves in the channels.
LEMMA ClosedKeepsCommands ==
  ASSUME RegTypeOK
  PROVE  \A c \in Conns : Closed[c].cmds = chan[c].cmds
BY DEF RegTypeOK, Closed, Channel, Conns

\* Every step moves a command from one place to the next or loses it.
LEMMA CommandsInvStep ==
  ASSUME RegInv, CommandsInv, [RegNext]_regVars
  PROVE  CommandsInv'
<1>0. /\ RegTypeOK
      /\ chan \in [Conns -> Channel] /\ srv \in [Conns -> Handler]
      /\ down \in [Conns -> Seq(Command)] /\ pending \in Seq(Command)
  BY DEF RegInv, RegTypeOK
<1>1. ASSUME NEW c \in Conns, Connect(c) PROVE CommandsInv'
  BY <1>0, <1>1, CommandsGo DEF Connect, Shrinks
<1>2. ASSUME NEW c \in Conns, Receive(c) PROVE CommandsInv'
  BY <1>0, <1>2, CommandsGo DEF Receive, Shrinks
<1>3. ASSUME NEW c \in Conns, Beat(c) \/ StreamClosed(c) PROVE CommandsInv'
  BY <1>0, <1>3, CommandsGo DEF Beat, StreamClosed, Shrinks
<1>4. ASSUME NEW c \in Conns, Open(c) PROVE CommandsInv'
  <2> DEFINE from == <<"pending", 0>>
             to == <<"sender", c>>
  <2>1. /\ pending' = <<>> /\ down' = down /\ issued' = issued
        /\ srv'[c].todo = pending /\ \A d \in Conns \ {c} : srv'[d].todo = srv[d].todo
        /\ \A d \in Conns : Shrinks(chan'[d].cmds, chan[d].cmds)
    BY <1>0, <1>4, ClosedKeepsCommands, ClosedType DEF Open, AttachStream, Shrinks
  <2>2. /\ from \in Places /\ to \in Places /\ from # to
        /\ Queue(from) = pending
    BY PlaceQueues
  <2>3. Queue(from)' = <<>> /\ Queue(to)' = pending
    BY <2>1 DEF Queue
  <2>4. /\ Queue(from)' \in Seq(Command) /\ Distinct(Queue(from))' /\ Ids(Queue(from))' = {}
    BY <2>3 DEF Distinct, Ids
  <2>5. /\ Queue(to)' \in Seq(Command) /\ Distinct(Queue(to))'
        /\ Ids(Queue(to))' = Ids(Queue(from))
    <3>1. Queue(from) \in Seq(Command) /\ Distinct(Queue(from))
      BY <2>2 DEF CommandsInv
    <3>2. QED
      BY <2>2, <2>3, <3>1
  <2>6. ASSUME NEW p \in Places \ {from, to} PROVE Shrinks(Queue(p)', Queue(p))
    <3>1. ASSUME NEW d \in Conns, p \in {<<"channel", d>>, <<"sender", d>>, <<"stream", d>>}
          PROVE  Shrinks(Queue(p)', Queue(p))
      BY <2>1, <2>6, <3>1, PlaceQueues DEF Queue, Shrinks
    <3>2. QED
      BY <2>6, <3>1, PlaceQueues
  <2> HIDE DEF from, to
  <2>7. PICK X : X = Ids(Queue(from))
    OBVIOUS
  <2>8. QED
    BY <2>1, <2>2, <2>4, <2>5, <2>6, <2>7, CommandsMove
<1>5. ASSUME NEW c \in Conns, OpenFails(c) \/ FirstHeartbeat(c) \/ NextHeartbeat(c) \/ RecvFails(c)
      PROVE  CommandsInv'
  <2>1. chan' = chan /\ pending' = pending /\ down' = down /\ issued' = issued
    BY <1>5 DEF OpenFails, FirstHeartbeat, NextHeartbeat, RecvFails
  <2>2. PICK pc : srv' = [srv EXCEPT ![c].pc = pc]
    BY <1>5 DEF OpenFails, FirstHeartbeat, NextHeartbeat, RecvFails
  <2>3. \A d \in Conns : srv'[d].todo = srv[d].todo
    BY <1>0, <2>2 DEF Handler
  <2>4. QED
    BY <2>1, <2>3, CommandsGo DEF Shrinks
<1>6. ASSUME NEW c \in Conns, Detach(c) PROVE CommandsInv'
  BY <1>0, <1>6, ClosedKeepsCommands, CommandsGo DEF Detach, DetachStream, Shrinks, Handler
<1>7. ASSUME NEW c \in Conns, NEW from \in Places, from # <<"stream", c>>, Queue(from) # <<>>,
             Shrinks(Queue(from)', Tail(Queue(from))),
             down' = down \/ down' = [down EXCEPT ![c] = Append(@, Head(Queue(from)))],
             \A p \in Places \ {from, <<"stream", c>>} : Queue(p)' = Queue(p),
             \A d \in Conns : Queue(<<"stream", d>>)' = down'[d],
             issued' = issued
      PROVE  CommandsInv'
  <2> DEFINE to == <<"stream", c>>
  <2>1. to \in Places /\ Queue(to) = down[c] /\ Queue(to)' = down'[c]
    BY <1>7, PlaceQueues
  <2>2. /\ Queue(from) \in Seq(Command) /\ Distinct(Queue(from))
        /\ Queue(to) \in Seq(Command) /\ Distinct(Queue(to))
        /\ Ids(Queue(from)) \cap Ids(Queue(to)) = {}
    BY <1>7, <2>1 DEF CommandsInv
  <2>3. /\ Tail(Queue(from)) \in Seq(Command) /\ Distinct(Tail(Queue(from)))
        /\ Ids(Tail(Queue(from))) \subseteq Ids(Queue(from))
        /\ Head(Queue(from)) \in Command
        /\ Head(Queue(from)).id \in Ids(Queue(from)) \ Ids(Tail(Queue(from)))
    BY <1>7, <2>2, IdsOfTail
  <2>4. /\ Queue(from)' \in Seq(Command) /\ Distinct(Queue(from))'
        /\ Ids(Queue(from))' \subseteq Ids(Queue(from)) \ {Head(Queue(from)).id}
    <3>1. /\ Queue(from)' \in Seq(Command) /\ Distinct(Queue(from))'
          /\ Ids(Queue(from))' \subseteq Ids(Tail(Queue(from)))
      BY <1>7, <2>3, IdsOfShrunk
    <3>2. QED
      BY <2>3, <3>1
  <2>5. /\ Queue(to)' \in Seq(Command) /\ Distinct(Queue(to))'
        /\ Ids(Queue(to))' \subseteq Ids(Queue(to)) \cup {Head(Queue(from)).id}
    <3>1. CASE down' = down
      <4>1. Queue(to)' = Queue(to)
        BY <2>1, <3>1
      <4>2. QED
        BY <2>2, <4>1
    <3>2. CASE down' = [down EXCEPT ![c] = Append(@, Head(Queue(from)))]
      <4>1. Queue(to)' = Append(Queue(to), Head(Queue(from)))
        BY <1>0, <2>1, <3>2
      <4>2. Head(Queue(from)).id \notin Ids(Queue(to))
        BY <2>2, <2>3
      <4>3. QED
        BY <2>2, <2>3, <4>1, <4>2, IdsOfAppend
    <3>3. QED
      BY <1>7, <3>1, <3>2
  <2>6. \A p \in Places \ {from, to} : Shrinks(Queue(p)', Queue(p))
    BY <1>7 DEF Shrinks
  <2> HIDE DEF to
  <2>7. PICK X : X = {Head(Queue(from)).id}
    OBVIOUS
  <2>8. X \subseteq Ids(Queue(from)) /\ from # to
    BY <1>7, <2>3, <2>7 DEF to
  <2>9. QED
    BY <1>7, <2>1, <2>4, <2>5, <2>6, <2>7, <2>8, CommandsMove
<1>8. ASSUME NEW c \in Conns, NEW e \in BOOLEAN, SendPending(c, e) PROVE CommandsInv'
  <2> DEFINE from == <<"sender", c>>
  <2>1. /\ from \in Places /\ from # <<"stream", c>> /\ Queue(from) = srv[c].todo
        /\ Queue(from)' = srv'[c].todo
    BY PlaceQueues DEF Queue
  <2>2. /\ Queue(from) # <<>> /\ Shrinks(Queue(from)', Tail(Queue(from)))
    BY <1>0, <1>8, <2>1 DEF SendPending, Shrinks
  <2>3. down' = down \/ down' = [down EXCEPT ![c] = Append(@, Head(Queue(from)))]
    BY <1>8, <2>1 DEF SendPending, Send
  <2>4. \A p \in Places \ {from, <<"stream", c>>} : Queue(p)' = Queue(p)
    <3>1. /\ pending' = pending /\ chan' = chan
          /\ \A d \in Conns \ {c} : srv'[d] = srv[d] /\ down'[d] = down[d]
      BY <1>0, <1>8 DEF SendPending, Send
    <3>2. QED
      BY <3>1, PlaceQueues DEF Queue
  <2>5. \A d \in Conns : Queue(<<"stream", d>>)' = down'[d]
    BY DEF Queue
  <2>6. issued' = issued
    BY <1>8 DEF SendPending
  <2>7. QED
    BY <1>7, <2>1, <2>2, <2>3, <2>4, <2>5, <2>6
<1>9. ASSUME NEW c \in Conns, NEW e \in BOOLEAN, SendQueued(c, e) PROVE CommandsInv'
  <2> DEFINE from == <<"channel", c>>
  <2>1. /\ from \in Places /\ from # <<"stream", c>> /\ Queue(from) = chan[c].cmds
        /\ Queue(from)' = chan'[c].cmds
    BY PlaceQueues DEF Queue
  <2>2. /\ Queue(from) # <<>> /\ Shrinks(Queue(from)', Tail(Queue(from)))
    BY <1>0, <1>9, <2>1 DEF SendQueued, Shrinks, Channel
  <2>3. down' = down \/ down' = [down EXCEPT ![c] = Append(@, Head(Queue(from)))]
    BY <1>9, <2>1 DEF SendQueued, Send
  <2>4. \A p \in Places \ {from, <<"stream", c>>} : Queue(p)' = Queue(p)
    <3>1. /\ pending' = pending
          /\ \A d \in Conns \ {c} : chan'[d] = chan[d] /\ down'[d] = down[d]
          /\ \A d \in Conns : srv'[d].todo = srv[d].todo
      BY <1>0, <1>9 DEF SendQueued, Send, Handler
    <3>2. QED
      BY <3>1, PlaceQueues DEF Queue
  <2>5. \A d \in Conns : Queue(<<"stream", d>>)' = down'[d]
    BY DEF Queue
  <2>6. issued' = issued
    BY <1>9 DEF SendQueued
  <2>7. QED
    BY <1>7, <2>1, <2>2, <2>3, <2>4, <2>5, <2>6
<1>10. ASSUME NEW c \in Conns, SenderEnds(c) PROVE CommandsInv'
  BY <1>0, <1>10, CommandsGo DEF SenderEnds, Shrinks, Handler
<1>11. ASSUME NEW c \in Conns, Break(c) PROVE CommandsInv'
  BY <1>0, <1>11, CommandsGo DEF Break, Shrinks
<1>12. ASSUME NEW k \in {"DRAIN", "FORCE_KILL"}, SendCommand(k) PROVE CommandsInv'
  <2> DEFINE e == [id |-> issued + 1, kind |-> k]
  <2>1. e \in Command /\ e.id = issued + 1 /\ issued' = issued + 1
    <3>1. issued \in 0 .. MaxCommands /\ issued < MaxCommands /\ issued' = issued + 1
      BY <1>0, <1>12 DEF SendCommand, RegTypeOK
    <3>2. issued + 1 \in 1 .. MaxCommands
      BY <3>1, RegistryAssumption
    <3>3. QED
      BY <3>1, <3>2 DEF Command
  <2>2. PICK new \in Command : new = e
    BY <2>1
  <2>3. srv' = srv /\ down' = down
    BY <1>12 DEF SendCommand
  <2>4. CASE stream # 0 /\ Len(chan[stream].cmds) < ChannelCap
    <3>1. PICK s \in Conns : s = stream
      BY <1>0, <2>4, RegistryAssumption DEF RegTypeOK, Conns
    <3>2. /\ chan'[s].cmds = Append(chan[s].cmds, new) /\ pending' = pending
          /\ \A d \in Conns \ {s} : chan'[d] = chan[d]
      BY <1>0, <1>12, <2>2, <2>4, <3>1 DEF SendCommand, Channel
    <3>3. /\ <<"channel", s>> \in Places
          /\ Queue(<<"channel", s>>)' = Append(Queue(<<"channel", s>>), new)
      BY <3>2, PlaceQueues DEF Queue
    <3>4. \A p \in Places \ {<<"channel", s>>} : Queue(p)' = Queue(p)
      BY <2>3, <3>2, PlaceQueues DEF Queue
    <3>5. QED
      BY <1>0, <2>1, <2>2, <3>3, <3>4, CommandsCome
  <2>5. CASE ~(stream # 0 /\ Len(chan[stream].cmds) < ChannelCap)
    <3>1. pending' = Append(pending, new) /\ chan' = chan
      BY <1>12, <2>2, <2>5 DEF SendCommand
    <3>2. /\ <<"pending", 0>> \in Places
          /\ Queue(<<"pending", 0>>)' = Append(Queue(<<"pending", 0>>), new)
      BY <3>1, PlaceQueues DEF Queue
    <3>3. \A p \in Places \ {<<"pending", 0>>} : Queue(p)' = Queue(p)
      BY <2>3, <3>1, PlaceQueues DEF Queue
    <3>4. QED
      BY <1>0, <2>1, <2>2, <3>2, <3>3, CommandsCome
  <2>6. QED
    BY <2>4, <2>5
<1>13. CASE ListWorkers
  BY <1>0, <1>13, ClosedKeepsCommands, CommandsGo DEF ListWorkers, Shrinks
<1>14. CASE DrainComplete \/ RegTick \/ UNCHANGED regVars
  BY <1>0, <1>14, CommandsGo DEF DrainComplete, RegTick, regVars, Shrinks
<1>15. QED
  BY <1>1, <1>2, <1>3, <1>4, <1>5, <1>6, <1>8, <1>9, <1>10, <1>11, <1>12, <1>13, <1>14
  DEF RegNext, DrainWorker, ForceKillWorker, MonitorStep, HandlerStep, SenderStep

\* THEOREM.  However connections break and handlers overlap, a command is at one
\* place at most: a reconnect never sends it a second time.
THEOREM NoCommandTwice == RegSpec => []CommandsAreNotDuplicated
<1>1. RegInit => CommandsInv
  <2> SUFFICES ASSUME RegInit PROVE CommandsInv
    OBVIOUS
  <2>1. \A p \in Places : Queue(p) = <<>>
    BY PlaceQueues DEF RegInit
  <2>2. <<>> \in Seq(Command) /\ Distinct(<<>>) /\ Ids(<<>>) = {}
    BY DEF Distinct, Ids
  <2>3. QED
    BY <2>1, <2>2 DEF CommandsInv
<1>2. CommandsInv => CommandsAreNotDuplicated
  BY DEF CommandsInv, CommandsAreNotDuplicated, Ids, Distinct
<1>3. RegInv /\ CommandsInv /\ [RegNext]_regVars => CommandsInv'
  BY CommandsInvStep
<1>4. QED
  BY <1>1, <1>2, <1>3, RegInitOK, RegInvStep, PTL DEF RegSpec

-----------------------------------------------------------------------------
\* No channel holds more commands than were issued.
ChannelsFit == \A c \in Conns : Len(chan[c].cmds) <= issued

\* Every step keeps the channels within what was issued, and leaves a command
\* pending only while no stream is registered.
LEMMA PendingStep ==
  ASSUME RegInv, ChannelsFit, PendingMeansOffline, [RegNext]_regVars
  PROVE  ChannelsFit' /\ PendingMeansOffline'
<1>0. /\ RegTypeOK
      /\ chan \in [Conns -> Channel] /\ srv \in [Conns -> Handler]
      /\ issued \in Nat /\ ChannelCap \in Nat
      /\ stream # 0 => stream \in Conns
  BY RegistryAssumption DEF RegInv, RegTypeOK, Conns
<1>1. \A c \in Conns : chan[c].cmds \in Seq(Command) /\ Len(chan[c].cmds) \in Nat
  BY <1>0 DEF Channel
<1>2. ASSUME issued' = issued, pending' = pending \/ pending' = <<>>, stream' = stream \/ stream' = 0,
             \A c \in Conns : Shrinks(chan'[c].cmds, chan[c].cmds)
      PROVE  ChannelsFit' /\ PendingMeansOffline'
  <2>1. ASSUME NEW c \in Conns PROVE Len(chan'[c].cmds) <= Len(chan[c].cmds)
    <3>1. CASE chan[c].cmds # <<>> /\ chan'[c].cmds = Tail(chan[c].cmds)
      BY <1>1, <3>1, HeadTailProperties
    <3>2. CASE chan'[c].cmds = <<>>
      BY <1>1, <3>2
    <3>3. QED
      BY <1>1, <1>2, <3>1, <3>2 DEF Shrinks
  <2>2. ChannelsFit'
    <3> SUFFICES ASSUME NEW c \in Conns PROVE Len(chan'[c].cmds) <= issued
      BY <1>2 DEF ChannelsFit
    <3>1. Shrinks(chan'[c].cmds, chan[c].cmds) /\ Len(chan[c].cmds) <= issued
      BY <1>2 DEF ChannelsFit
    <3>2. Len(chan'[c].cmds) \in Nat
      BY <1>1, <3>1, HeadTailProperties DEF Shrinks
    <3>3. QED
      BY <1>0, <1>1, <2>1, <3>1, <3>2
  <2>3. PendingMeansOffline'
    BY <1>2 DEF PendingMeansOffline
  <2>4. QED
    BY <2>2, <2>3
<1>3. ASSUME NEW c \in Conns, Open(c) PROVE ChannelsFit' /\ PendingMeansOffline'
  <2>1. pending' = <<>> /\ issued' = issued
    BY <1>3 DEF Open, AttachStream
  <2>2. chan'[c].cmds = <<>> /\ \A d \in Conns \ {c} : chan'[d].cmds = chan[d].cmds
    BY <1>0, <1>3, ClosedKeepsCommands, ClosedType DEF Open, AttachStream
  <2>3. QED
    BY <1>0, <2>1, <2>2 DEF ChannelsFit, PendingMeansOffline
<1>4. ASSUME NEW k \in {"DRAIN", "FORCE_KILL"}, SendCommand(k) PROVE ChannelsFit' /\ PendingMeansOffline'
  <2>1. issued' = issued + 1 /\ stream' = stream
    BY <1>4 DEF SendCommand
  <2>2. CASE stream # 0 /\ Len(chan[stream].cmds) < ChannelCap
    <3>1. /\ chan'[stream].cmds = Append(chan[stream].cmds, [id |-> issued + 1, kind |-> k])
          /\ pending' = pending
          /\ \A d \in Conns \ {stream} : chan'[d] = chan[d]
      BY <1>0, <1>4, <2>2 DEF SendCommand, Channel
    <3>2. Len(chan'[stream].cmds) = Len(chan[stream].cmds) + 1
      BY <1>0, <1>1, <2>2, <3>1
    <3>3. ChannelsFit'
      BY <1>0, <1>1, <2>1, <2>2, <3>1, <3>2 DEF ChannelsFit
    <3>4. PendingMeansOffline'
      BY <1>0, <2>1, <3>1 DEF PendingMeansOffline
    <3>5. QED
      BY <3>3, <3>4
  <2>3. CASE ~(stream # 0 /\ Len(chan[stream].cmds) < ChannelCap)
    <3>1. chan' = chan
      BY <1>4, <2>3 DEF SendCommand
    <3>2. ChannelsFit'
      BY <1>0, <1>1, <2>1, <3>1 DEF ChannelsFit
    <3>3. issued + 1 <= ChannelCap => stream = 0
      BY <1>0, <1>1, <2>3 DEF ChannelsFit
    <3>4. QED
      BY <2>1, <3>2, <3>3 DEF PendingMeansOffline
  <2>4. QED
    BY <2>2, <2>3
<1>5. ASSUME NEW c \in Conns, MonitorStep(c) PROVE ChannelsFit' /\ PendingMeansOffline'
  BY <1>0, <1>2, <1>5 DEF MonitorStep, Connect, Beat, Receive, StreamClosed, Shrinks
<1>6. ASSUME NEW c \in Conns, OpenFails(c) \/ FirstHeartbeat(c) \/ NextHeartbeat(c) \/ RecvFails(c)
      PROVE  ChannelsFit' /\ PendingMeansOffline'
  BY <1>2, <1>6 DEF OpenFails, FirstHeartbeat, NextHeartbeat, RecvFails, Shrinks
<1>7. ASSUME NEW c \in Conns, Detach(c) PROVE ChannelsFit' /\ PendingMeansOffline'
  BY <1>0, <1>2, <1>7, ClosedKeepsCommands DEF Detach, DetachStream, Shrinks
<1>8. ASSUME NEW c \in Conns, SenderStep(c) PROVE ChannelsFit' /\ PendingMeansOffline'
  <2>1. issued' = issued /\ pending' = pending /\ stream' = stream
    BY <1>8 DEF SenderStep, SendPending, SendQueued, SenderEnds
  <2>2. \A d \in Conns : Shrinks(chan'[d].cmds, chan[d].cmds)
    <3>1. CASE chan' = chan
      BY <3>1 DEF Shrinks
    <3>2. ASSUME NEW e \in BOOLEAN, SendQueued(c, e)
          PROVE  \A d \in Conns : Shrinks(chan'[d].cmds, chan[d].cmds)
      BY <1>0, <3>2 DEF SendQueued, Shrinks, Channel
    <3>3. QED
      BY <1>8, <3>1, <3>2 DEF SenderStep, SendPending, SenderEnds
  <2>3. QED
    BY <1>2, <2>1, <2>2
<1>9. CASE ListWorkers
  BY <1>0, <1>2, <1>9, ClosedKeepsCommands DEF ListWorkers, Shrinks
<1>10. CASE (\E c \in Conns : Break(c)) \/ DrainComplete \/ RegTick \/ UNCHANGED regVars
  BY <1>2, <1>10 DEF Break, DrainComplete, RegTick, regVars, Shrinks
<1>11. QED
  BY <1>3, <1>4, <1>5, <1>6, <1>7, <1>8, <1>9, <1>10 DEF RegNext, DrainWorker, ForceKillWorker, HandlerStep

\* THEOREM.  Until the operator has issued more commands than a channel buffers,
\* none is kept back while a stream is registered to carry it.
THEOREM PendingOnlyOffline == RegSpec => []PendingMeansOffline
<1>1. RegInit => ChannelsFit /\ PendingMeansOffline
  BY DEF RegInit, ChannelsFit, PendingMeansOffline
<1>2. RegInv /\ ChannelsFit /\ PendingMeansOffline /\ [RegNext]_regVars
        => ChannelsFit' /\ PendingMeansOffline'
  BY PendingStep
<1>3. QED
  BY <1>1, <1>2, RegInitOK, RegInvStep, PTL DEF RegSpec
=============================================================================
