--------------------------- MODULE ConnectionProofs ---------------------------
(*****************************************************************************)
(* The connections of the program, whatever becomes of their peers: the life *)
(* of a client and its tasks, for every number of API threads, every pool of *)
(* task identities, every capacity of the stop channel and every kind of     *)
(* node; the sessions of the stratum proxy, for every number of clients and  *)
(* frames; and the telemetry channel of the Stratum V2 client, for every     *)
(* number of connections and size of its queues.                             *)
(*****************************************************************************)
EXTENDS ClientLifecycle, ProxyServer, Telemetry, TLAPS

-----------------------------------------------------------------------------
(* What the proofs use of sequences.                                       *)

LEMMA SeqElement ==
  ASSUME NEW S, NEW q \in Seq(S), NEW k \in 1 .. Len(q)
  PROVE  q[k] \in S
  OBVIOUS

LEMMA SeqEmpty ==
  ASSUME NEW S
  PROVE  /\ <<>> \in Seq(S) /\ Len(<<>>) = 0
         /\ \A q \in Seq(S) : q # <<>> => Len(q) \in Nat \ {0}
  OBVIOUS

LEMMA SeqLen ==
  ASSUME NEW S, NEW q \in Seq(S)
  PROVE  Len(q) \in Nat /\ DOMAIN q = 1 .. Len(q) /\ q \in [1 .. Len(q) -> S]
  OBVIOUS

LEMMA SeqTail ==
  ASSUME NEW S, NEW q \in Seq(S), q # <<>>
  PROVE  /\ Head(q) \in S
         /\ Tail(q) \in Seq(S) /\ Len(Tail(q)) = Len(q) - 1
         /\ \A k \in 1 .. Len(Tail(q)) : Tail(q)[k] = q[k + 1]
  OBVIOUS

LEMMA SeqAppend ==
  ASSUME NEW S, NEW q \in Seq(S), NEW x \in S
  PROVE  /\ Append(q, x) \in Seq(S) /\ Append(q, x) # <<>>
         /\ Len(Append(q, x)) = Len(q) + 1
         /\ \A k \in 1 .. Len(q) : Append(q, x)[k] = q[k]
         /\ Append(q, x)[Len(q) + 1] = x
  OBVIOUS

-----------------------------------------------------------------------------
(* The life of a client.                                                     *)

LEMMA InitIInv == Init => IInv
  <1> SUFFICES ASSUME Init PROVE IInv OBVIOUS
  <1> USE SchedulerAssumption, CapacityAssumption, KindAssumption DEF Init, Actor
  <1>1. TypeOK
    <2>1. pc \in [Actor -> ActorPc] BY DEF ActorPc
    <2>2. tokens \in 0..StopCapacity OBVIOUS
    <2> QED BY <2>1, <2>2, Zenon DEF TypeOK, Status, TaskPc, Panics
  <1>2. Spawning = {} /\ LiveTask = {} BY DEF Spawning, LiveTask
  <1>3. OneMainTask BY <1>2 DEF OneMainTask
  <1>4. NoOrphanJob /\ StopIsHeard /\ OnlyTokensPanic /\ FailingEnds
    BY DEF NoOrphanJob, StopIsHeard, OnlyTokensPanic, FailingEnds
  <1>5. RoundEnded BY DEF RoundEnded
  <1> QED BY <1>1, <1>3, <1>4, <1>5 DEF IInv

LEMMA RequestIInv == ASSUME IInv, NEW a \in Actor, Request(a) PROVE IInv'
  <1> USE SchedulerAssumption, CapacityAssumption, KindAssumption
      DEF IInv, TypeOK, OneMainTask, NoOrphanJob, StopIsHeard, OnlyTokensPanic,
        FailingEnds, RoundEnded, LiveTask, Spawning, Actor, Goto, handle, Alive
  <1>1. CASE GetClient(a)
    BY <1>1 DEF GetClient, ActorPc
  <1>2. CASE TryDisable(a)
    <2>1. enabled' \in BOOLEAN BY <1>2, Zenon DEF TryDisable
    <2> QED BY <1>2, <2>1 DEF TryDisable, ActorPc
  <1>3. ASSUME NEW must \in BOOLEAN, TryRestart(a, must) PROVE IInv'
    <2>1. enabled' \in BOOLEAN BY <1>3, Zenon DEF TryRestart
    <2> QED BY <1>3, <2>1 DEF TryRestart, ActorPc
  <1>4. CASE Remove(a)
    <2>1. enabled' \in BOOLEAN BY <1>4, Zenon DEF Remove
    <2> QED BY <1>4, <2>1 DEF Remove, ActorPc
  <1> QED BY <1>1, <1>2, <1>3, <1>4 DEF Request

LEMMA ContinueIInv == ASSUME IInv, NEW a \in Actor, Continue(a) PROVE IInv'
  <1> USE SchedulerAssumption, CapacityAssumption, KindAssumption
      DEF IInv, TypeOK, OneMainTask, NoOrphanJob, StopIsHeard, OnlyTokensPanic,
        FailingEnds, RoundEnded, LiveTask, Spawning, Actor, Goto, handle, Alive, ActorPc
  <1>1. CASE PushSkip(a)
    BY <1>1 DEF PushSkip
  <1>2. CASE PushEnable(a)
    <2>1. enabled' \in BOOLEAN BY <1>2, Zenon DEF PushEnable
    <2> QED BY <1>2, <2>1 DEF PushEnable, Panics
  <1>3. CASE TryEnable(a)
    BY <1>3 DEF TryEnable
  <1>4. CASE Start(a)
    BY <1>4 DEF Start, StartingMaySpawn, AfterStarting, Status, Resting
  <1>5. CASE Stop(a)
    BY <1>5 DEF Stop, StoppingOk, AfterStopping, AfterStop, Status, Resting
  <1>6. CASE SendStop(a)
    BY <1>6 DEF SendStop, AfterStop, Put
  <1>7. ASSUME NEW t \in Task, Spawn(a, t) PROVE IInv'
    BY <1>7 DEF Spawn, TaskPc
  <1> QED BY <1>1, <1>2, <1>3, <1>4, <1>5, <1>6, <1>7, Zenon DEF Continue

LEMMA SchedulerIInv ==
  ASSUME IInv, SchedulerTryStart \/ SchedulerTryStop \/ DropHandle PROVE IInv'
  <1> USE SchedulerAssumption, CapacityAssumption, KindAssumption
      DEF IInv, TypeOK, OneMainTask, NoOrphanJob, StopIsHeard, OnlyTokensPanic,
        FailingEnds, RoundEnded, LiveTask, Spawning, Actor, Goto, handle, Alive, ActorPc
  <1>1. CASE SchedulerTryStart
    BY <1>1 DEF SchedulerTryStart
  <1>2. CASE SchedulerTryStop
    BY <1>2 DEF SchedulerTryStop
  <1>3. CASE DropHandle
    BY <1>3 DEF DropHandle, Put, callers
  <1> QED BY <1>1, <1>2, <1>3

LEMMA WorkIInv == ASSUME IInv, NEW t \in Task, Work(t) \/ TakeToken(t) PROVE IInv'
  <1> USE SchedulerAssumption, CapacityAssumption, KindAssumption
      DEF IInv, TypeOK, OneMainTask, NoOrphanJob, StopIsHeard, OnlyTokensPanic,
        FailingEnds, RoundEnded, LiveTask, Spawning, At, handle, callers, Alive, TaskPc
  <1>1. CASE LockReceiver(t)
    BY <1>1 DEF LockReceiver
  <1>2. CASE Connected(t)
    BY <1>2 DEF Connected, RunningPanics, RunningOk, AfterRunning, Status, Resting, Panics
  <1>3. CASE ConnectFails(t)
    BY <1>3 DEF ConnectFails
  <1>4. ASSUME NEW ok \in BOOLEAN, SessionOpened(t, ok) PROVE IInv'
    BY <1>4 DEF SessionOpened
  <1>5. CASE CheckShutdown(t)
    BY <1>5 DEF CheckShutdown, IsShuttingDown
  <1>6. ASSUME NEW newJob \in BOOLEAN, HandleEvent(t, newJob) PROVE IInv'
    BY <1>6 DEF HandleEvent
  <1>7. CASE SessionBreaks(t)
    BY <1>7 DEF SessionBreaks
  <1>8. CASE Fail(t)
    BY <1>8 DEF Fail, FailingPanics, AfterFailing, Status, Resting, Panics
  <1>9. CASE InvalidateJob(t)
    <2>1. job' \in BOOLEAN BY <1>9, Zenon DEF InvalidateJob
    <2> QED BY <1>9, <2>1 DEF InvalidateJob
  <1>10. CASE CanStop(t)
    BY <1>10 DEF CanStop, CanStopPanics, CanStopOk, AfterCanStop, Status, Resting, Panics
  <1>11. CASE Exit(t)
    BY <1>11 DEF Exit
  <1>12. CASE TakeToken(t)
    BY <1>12 DEF TakeToken
  <1> QED
    BY <1>1, <1>2, <1>3, <1>4, <1>5, <1>6, <1>7, <1>8, <1>9, <1>10, <1>11, <1>12, Zenon DEF Work

LEMMA NextIInv == ASSUME IInv, [Next]_vars PROVE IInv'
  <1>1. CASE Next
    BY <1>1, RequestIInv, ContinueIInv, SchedulerIInv, WorkIInv DEF Next
  <1>2. CASE UNCHANGED vars
    BY <1>2 DEF vars, IInv, TypeOK, OneMainTask, NoOrphanJob, StopIsHeard, OnlyTokensPanic,
       FailingEnds, RoundEnded, LiveTask, Spawning
  <1> QED BY <1>1, <1>2

\* The inductive invariant holds in every reachable state.
THEOREM Invariance == Spec => []IInv
  BY InitIInv, NextIInv, PTL DEF Spec

\* However many threads call start, stop, try_enable, try_disable and
\* try_restart at once, at most one main task is alive, and none when the
\* status is Created, Stopped or Failed.
THEOREM SingleMainTask == Spec => []OneMainTask
  <1>1. IInv => OneMainTask BY DEF IInv
  <1> QED BY <1>1, Invariance, PTL

\* No token is lost that a pending stop or restart still needs.
THEOREM StopsAreHeard == Spec => []StopIsHeard
  <1>1. IInv => StopIsHeard BY DEF IInv
  <1> QED BY <1>1, Invariance, PTL

\* initiate_running and initiate_failing never panic; can_stop panics only in
\* a round that a stop token ended.
THEOREM PanicsAreTokens == Spec => []OnlyTokensPanic
  <1>1. IInv => OnlyTokensPanic BY DEF IInv
  <1> QED BY <1>1, Invariance, PTL

\* Every step of the client is a step of ClientService or leaves it alone.
LEMMA ServiceStep == ASSUME IInv, IInv', [Next]_vars PROVE [Service!SNext]_(Service!svars)
  <1> USE DEF Service!SNext, Service!svars, Service!ComeUp, Service!SendJob,
        Service!TakeBack, Service!GoDown
  <1>1. ASSUME UNCHANGED <<status, job>> PROVE [Service!SNext]_(Service!svars)
    BY <1>1
  <1>2. ASSUME NEW a \in Actor, Start(a) PROVE [Service!SNext]_(Service!svars)
    BY <1>2 DEF Start, AfterStarting, Resting
  <1>3. ASSUME NEW a \in Actor, Stop(a) PROVE [Service!SNext]_(Service!svars)
    BY <1>3 DEF Stop, AfterStopping, Resting
  <1>4. ASSUME NEW t \in Task, Connected(t) PROVE [Service!SNext]_(Service!svars)
    BY <1>4 DEF Connected, AfterRunning, RunningPanics, Resting
  <1>5. ASSUME NEW t \in Task, NEW newJob \in BOOLEAN, HandleEvent(t, newJob)
        PROVE [Service!SNext]_(Service!svars)
    <2>1. t \in LiveTask BY <1>5 DEF HandleEvent, LiveTask
    <2>2. status \notin Resting BY <2>1 DEF IInv, OneMainTask
    <2>3. job' = TRUE \/ job' = job
      BY <1>5, Zenon DEF HandleEvent, IInv, TypeOK
    <2> QED BY <1>5, <2>2, <2>3 DEF HandleEvent
  <1>6. ASSUME NEW t \in Task, Fail(t) PROVE [Service!SNext]_(Service!svars)
    BY <1>6 DEF Fail, AfterFailing, FailingPanics, Resting
  <1>7. ASSUME NEW t \in Task, InvalidateJob(t) PROVE [Service!SNext]_(Service!svars)
    <2>1. t \in LiveTask BY <1>7 DEF InvalidateJob, LiveTask
    <2>2. status \notin Resting BY <2>1 DEF IInv, OneMainTask
    <2> QED BY <1>7, <2>2 DEF InvalidateJob
  <1>8. ASSUME NEW t \in Task, CanStop(t) PROVE [Service!SNext]_(Service!svars)
    <2>1. t \in LiveTask BY <1>8 DEF CanStop, LiveTask
    <2>2. status \notin Resting BY <2>1 DEF IInv, OneMainTask
    <2>3. CASE status' \notin Resting BY <1>8, <2>2, <2>3 DEF CanStop
    <2>4. CASE status' \in Resting
      <3>1. job' = FALSE BY <2>4 DEF IInv, TypeOK, OneMainTask, NoOrphanJob, LiveTask
      <3> QED BY <1>8, <2>2, <2>4, <3>1 DEF CanStop
    <2> QED BY <2>3, <2>4, Zenon
  <1>9. CASE UNCHANGED vars BY <1>9 DEF vars
  <1> HIDE DEF Service!SNext, Service!svars
  <1>10. ASSUME NEW a \in Actor, Request(a) \/ Continue(a)
         PROVE [Service!SNext]_(Service!svars)
    BY <1>1, <1>2, <1>3, <1>10, Zenon DEF Request, Continue, GetClient, TryDisable, TryRestart,
       Remove, PushSkip, PushEnable, TryEnable, SendStop, Spawn
  <1>11. ASSUME SchedulerTryStart \/ SchedulerTryStop \/ DropHandle
         PROVE [Service!SNext]_(Service!svars)
    BY <1>1, <1>11 DEF SchedulerTryStart, SchedulerTryStop, DropHandle
  <1>12. ASSUME NEW t \in Task, Work(t) \/ TakeToken(t)
         PROVE [Service!SNext]_(Service!svars)
    BY <1>1, <1>4, <1>5, <1>6, <1>7, <1>8, <1>12 DEF Work, LockReceiver, ConnectFails,
       SessionOpened, CheckShutdown, SessionBreaks, Exit, TakeToken
  <1> QED BY <1>9, <1>10, <1>11, <1>12 DEF Next

\* The client implements what the rest of bosminer relies on: jobs come only
\* from a client that is up, and are gone when it goes down.
THEOREM ClientRefinesService == Spec => ImplementsService
  <1>1. Init => Service!SInit BY DEF Init, Service!SInit, Resting
  <1> QED BY <1>1, Invariance, ServiceStep, PTL DEF Spec, ImplementsService, Service!SSpec

-----------------------------------------------------------------------------
(* The stratum proxy.                                                      *)

Connection ==
  [stage : Stages,
   peer  : [Side -> {"none", "reading", "stuck", "closed", "reset"}],
   inbox : [Side -> Seq({"frame", "bad"})],
   queue : [Side -> Nat],
   task  : [Side -> {"none", "running", "ended", "killed"}],
   sent  : Nat]

\* A send task ends with nothing left in its queue, and nothing is queued for it
\* after that.
Drained(k) == \A s \in Side : k.task[s] = "ended" => k.queue[s] = 0

\* The inductive invariant: TranslatedIsSent alone does not survive a peer that
\* was gone for the task to end.
AllDrained == \A c \in Conn : conn[c] \in Connection /\ Drained(conn[c])
ConnType == conn = [c \in Conn |-> conn[c]]

LEMMA InitDrained == ProxyInit => ConnType /\ AllDrained
  BY SeqEmpty DEF ProxyInit, ConnType, AllDrained, NoConnection, Connection, Drained, Stages, Side

\* A step of one connection.
LEMMA OneConnection ==
  ASSUME ConnType, AllDrained, NEW c \in Conn, NEW k \in Connection, Drained(k),
         conn' = [conn EXCEPT ![c] = k]
  PROVE  ConnType' /\ AllDrained'
  BY DEF ConnType, AllDrained
\* A new stage changes nothing else.
LEMMA StageStep ==
  ASSUME ConnType, AllDrained, NEW c \in Conn, NEW stage \in Stages,
         conn' = [conn EXCEPT ![c].stage = stage]
  PROVE  ConnType' /\ AllDrained'
  <1>1. PICK k : k = [conn[c] EXCEPT !.stage = stage] BY Zenon
  <1>2. conn[c] \in Connection /\ Drained(conn[c]) BY DEF AllDrained
  <1>3. k \in Connection BY <1>1, <1>2, Zenon DEF Connection
  <1>4. Drained(k) BY <1>1, <1>2 DEF Connection, Drained
  <1>5. conn' = [conn EXCEPT ![c] = k] BY <1>1
  <1> QED BY <1>3, <1>4, <1>5, OneConnection, Zenon

\* The end of the process takes every connection along.
LEMMA KilledStep ==
  ASSUME ConnType, AllDrained, conn' = Killed
  PROVE  ConnType' /\ AllDrained'
  <1>1. ASSUME NEW c \in Conn PROVE conn'[c] \in Connection /\ Drained(conn'[c])
    <2>1. conn[c] \in Connection /\ Drained(conn[c]) BY DEF AllDrained
    <2> DEFINE send == [s \in Side |-> IF conn[c].task[s] = "running" THEN "killed" ELSE conn[c].task[s]]
    <2>2. PICK stage \in Stages : conn'[c] = [conn[c] EXCEPT !.stage = stage, !.task = send]
      BY <2>1, Zenon DEF Killed, Connection, Stages
    <2>3. /\ send \in [Side -> {"none", "running", "ended", "killed"}]
          /\ \A s \in Side : send[s] = "ended" => conn[c].task[s] = "ended"
      BY <2>1 DEF Connection
    <2> HIDE DEF send
    <2>4. PICK k : k = [conn[c] EXCEPT !.stage = stage, !.task = send] OBVIOUS
    <2>5. k \in Connection BY <2>1, <2>3, <2>4, Zenon DEF Connection
    <2>6. Drained(k) BY <2>1, <2>3, <2>4 DEF Connection, Drained
    <2> QED BY <2>2, <2>4, <2>5, <2>6
  <1>2. ConnType' BY Zenon DEF Killed, ConnType
  <1> QED BY <1>1, <1>2 DEF AllDrained

LEMMA PumpStep ==
  ASSUME ConnType, AllDrained, NEW c \in Conn, NEW k \in Connection, StartPump(c, k)
  PROVE  ConnType' /\ AllDrained'
  <1>1. PICK l : l = [k EXCEPT !.stage = "running", !.task = [s \in Side |-> "running"]] OBVIOUS
  <1>2. l \in Connection /\ Drained(l) BY <1>1, Zenon DEF Connection, Drained, Stages
  <1>3. conn' = [conn EXCEPT ![c] = l] BY <1>1 DEF StartPump
  <1> QED BY <1>2, <1>3, OneConnection, Zenon

LEMMA ConnectStep ==
  ASSUME ConnType, AllDrained, NEW c \in Conn, ConnectUpstream(c)
  PROVE  ConnType' /\ AllDrained'
  <1>1. PICK k : k = [conn[c] EXCEPT !.peer["v1"] = "reading"] BY Zenon
  <1>2. k \in Connection /\ Drained(k) BY <1>1 DEF AllDrained, Connection, Drained, Side
  <1>3. CASE conn' = [conn EXCEPT ![c].stage = "done"] BY <1>3, StageStep, Zenon DEF Stages
  <1>4. CASE conn' = [conn EXCEPT ![c] = [k EXCEPT !.stage = "handshake"]]
    <2>1. PICK l : l = [k EXCEPT !.stage = "handshake"] BY Zenon
    <2>2. l \in Connection /\ Drained(l) BY <1>2, <2>1, Zenon DEF Connection, Drained, Stages
    <2> QED BY <1>4, <2>1, <2>2, OneConnection, Zenon
  <1>5. CASE StartPump(c, k) BY <1>2, <1>5, PumpStep
  <1> QED BY <1>1, <1>3, <1>4, <1>5 DEF ConnectUpstream

\* A frame is queued only for a send task that runs.
LEMMA FrameStep ==
  ASSUME ConnType, AllDrained, NEW c \in Conn, NEW s \in Side, PumpFrame(c, s)
  PROVE  ConnType' /\ AllDrained'
  <1>1. PICK rest : rest = [conn[c] EXCEPT !.inbox[s] = Tail(conn[c].inbox[s])] BY Zenon
  <1>2. Tail(conn[c].inbox[s]) \in Seq({"frame", "bad"})
    <2>1. conn[c].inbox[s] \in Seq({"frame", "bad"}) BY DEF AllDrained, Connection
    <2>2. conn[c].inbox[s] # <<>> BY Zenon DEF PumpFrame
    <2> QED BY <2>1, <2>2, SeqTail
  <1>3. rest \in Connection /\ Drained(rest) BY <1>1, <1>2, Zenon DEF AllDrained, Connection, Drained
  <1>4. CASE conn' = [conn EXCEPT ![c] = [rest EXCEPT !.stage = "done"]]
    <2>1. PICK l : l = [rest EXCEPT !.stage = "done"] BY Zenon
    <2>2. l \in Connection /\ Drained(l) BY <1>3, <2>1, Zenon DEF Connection, Drained, Stages
    <2> QED BY <1>4, <2>1, <2>2, OneConnection, Zenon
  <1>5. ASSUME NEW n \in [Side -> 0 .. 1],
               conn' = [conn EXCEPT ![c] = [rest EXCEPT !.queue = Queued(rest, n)]]
        PROVE  ConnType' /\ AllDrained'
    <2>1. PICK l : l = [rest EXCEPT !.queue = Queued(rest, n)] BY Zenon
    <2>2. Queued(rest, n) \in [Side -> Nat]
      <3>1. ASSUME NEW t \in Side PROVE rest.queue[t] \in Nat /\ rest.queue[t] + n[t] \in Nat
        <4>1. rest.queue[t] \in Nat BY <1>3 DEF Connection
        <4>2. n[t] \in 0 .. 1 OBVIOUS
        <4> QED BY <4>1, <4>2
      <3> QED BY <3>1 DEF Queued
    <2>3. l \in Connection /\ Drained(l) BY <1>3, <2>1, <2>2, Zenon DEF Connection, Drained, Queued
    <2> QED BY <1>5, <2>1, <2>3, OneConnection, Zenon
  <1> QED BY <1>1, <1>4, <1>5, Zenon DEF PumpFrame

LEMMA SendStep ==
  ASSUME ConnType, AllDrained, NEW c \in Conn, NEW s \in Side, SendTask(c, s)
  PROVE  ConnType' /\ AllDrained'
  <1>1. conn[c] \in Connection /\ Drained(conn[c]) /\ conn[c].task[s] = "running"
    BY DEF AllDrained, SendTask
  <1>2. PICK send \in {"running", "ended"}, n \in Nat :
          /\ conn' = [conn EXCEPT ![c] = [conn[c] EXCEPT !.task[s] = send, !.queue[s] = n]]
          /\ send = "ended" => n = 0
    <2>0. conn[c].queue[s] \in Nat BY <1>1 DEF Connection
    <2>1. CASE NoMoreFrames(c, s) /\ conn' = [conn EXCEPT ![c].task[s] = "ended"]
      <3>1. [conn[c] EXCEPT !.task[s] = "ended"]
              = [conn[c] EXCEPT !.task[s] = "ended", !.queue[s] = 0]
        BY <1>1, <2>1, Zenon DEF NoMoreFrames, Connection
      <3> QED BY <2>1, <3>1, Zenon
    <2>2. CASE conn[c].queue[s] > 0 /\ conn' = [conn EXCEPT ![c].queue[s] = @ - 1]
      <3>1. [conn[c] EXCEPT !.queue[s] = conn[c].queue[s] - 1]
              = [conn[c] EXCEPT !.task[s] = "running", !.queue[s] = conn[c].queue[s] - 1]
        BY <1>1, Zenon DEF Connection
      <3>2. conn[c].queue[s] - 1 \in Nat BY <2>0, <2>2
      <3> QED BY <2>2, <3>1, <3>2, Zenon
    <2>3. CASE conn' = [conn EXCEPT ![c].task[s] = "ended", ![c].queue[s] = 0]
      <3>1. conn' = [conn EXCEPT ![c] = [conn[c] EXCEPT !.task[s] = "ended", !.queue[s] = 0]]
        BY <2>3, Zenon DEF ConnType
      <3> QED BY <3>1, Zenon
    <2> QED BY <2>1, <2>2, <2>3, Zenon DEF SendTask
  <1>3. PICK k : k = [conn[c] EXCEPT !.task[s] = send, !.queue[s] = n] OBVIOUS
  <1>4. k \in Connection /\ Drained(k) BY <1>1, <1>2, <1>3, Zenon DEF Connection, Drained
  <1> QED BY <1>2, <1>3, <1>4, OneConnection, Zenon
LEMMA NextDrained ==
  ASSUME ConnType, AllDrained, [ProxyNext]_proxy_vars
  PROVE  ConnType' /\ AllDrained'
  <1>1. CASE UNCHANGED conn BY <1>1 DEF ConnType, AllDrained
  <1>2. CASE TakeQuit BY <1>2, KilledStep DEF TakeQuit
  <1>3. ASSUME NEW c \in Conn, ConnectionNext(c) PROVE ConnType' /\ AllDrained'
    <2>0. conn[c] \in Connection /\ Drained(conn[c]) BY DEF AllDrained
    <2>1. CASE AcceptClient(c)
      <3>1. PICK stage \in Stages : conn' = [conn EXCEPT ![c].stage = stage]
        BY <2>1, Zenon DEF AcceptClient, Stages
      <3> QED BY <3>1, StageStep, Zenon
    <2>2. CASE HandleClient(c) BY <2>2, StageStep, KilledStep DEF HandleClient, Stages
    <2>3. CASE ConnectUpstream(c) BY <2>3, ConnectStep
    <2>4. CASE FinishHandshake(c) BY <2>0, <2>4, PumpStep DEF FinishHandshake
    <2>5. CASE FailHandshake(c) \/ PumpTimeout(c) BY <2>5, StageStep DEF FailHandshake, PumpTimeout, Stages
    <2>6. CASE ClientConnects(c)
      <3>1. PICK k : k = [conn[c] EXCEPT !.stage = "backlog", !.peer["v2"] = "reading"] OBVIOUS
      <3>2. conn' = [conn EXCEPT ![c] = k] BY <2>6, <3>1, Zenon DEF ClientConnects, ConnType
      <3>3. k \in Connection BY <2>0, <3>1, Zenon DEF Connection, Stages, Side
      <3>4. Drained(k) BY <2>0, <3>1 DEF Connection, Drained
      <3> QED BY <3>2, <3>3, <3>4, OneConnection, Zenon
    <2>7. ASSUME NEW s \in Side, PumpFrame(c, s) PROVE ConnType' /\ AllDrained' BY <2>7, FrameStep
    <2>8. ASSUME NEW s \in Side, PumpLeft(c, s) PROVE ConnType' /\ AllDrained'
      BY <2>8, StageStep, Zenon DEF PumpLeft, Stages
    <2>9. ASSUME NEW s \in Side, SendTask(c, s) PROVE ConnType' /\ AllDrained' BY <2>9, SendStep
    <2>10. ASSUME NEW s \in Side, PeerSends(c, s) PROVE ConnType' /\ AllDrained'
      <3>1. PICK frame \in {"frame", "bad"} : conn' = [conn EXCEPT
              ![c] = [conn[c] EXCEPT !.inbox[s] = Append(conn[c].inbox[s], frame), !.sent = conn[c].sent + 1]]
        BY <2>10, Zenon DEF PeerSends, ConnType
      <3>2. PICK k : k = [conn[c] EXCEPT !.inbox[s] = Append(conn[c].inbox[s], frame),
                                         !.sent = conn[c].sent + 1]
        OBVIOUS
      <3>3. conn[c].inbox[s] \in Seq({"frame", "bad"}) BY <2>0 DEF Connection
      <3>4. Append(conn[c].inbox[s], frame) \in Seq({"frame", "bad"}) BY <3>3, SeqAppend
      <3>5. conn[c].sent + 1 \in Nat BY <2>0 DEF Connection
      <3>6. k \in Connection BY <2>0, <3>2, <3>4, <3>5, Zenon DEF Connection
      <3>7. Drained(k) BY <2>0, <3>2 DEF Connection, Drained
      <3> QED BY <3>1, <3>2, <3>6, <3>7, OneConnection, Zenon
    <2>11. ASSUME NEW s \in Side, PeerStalls(c, s) PROVE ConnType' /\ AllDrained'
      <3>1. PICK peer \in {"reading", "stuck"} : conn' = [conn EXCEPT ![c].peer[s] = peer]
        BY <2>11, Zenon DEF PeerStalls
      <3>2. PICK k : k = [conn[c] EXCEPT !.peer[s] = peer] BY Zenon
      <3>3. k \in Connection BY <2>0, <3>2, Zenon DEF Connection
      <3>4. Drained(k) BY <2>0, <3>2 DEF Connection, Drained
      <3> QED BY <3>1, <3>2, <3>3, <3>4, OneConnection, Zenon
    <2>12. ASSUME NEW s \in Side, PeerLeaves(c, s) PROVE ConnType' /\ AllDrained'
      <3>1. PICK k : /\ conn' = [conn EXCEPT ![c] = k]
                     /\ \/ k = [conn[c] EXCEPT !.peer[s] = "closed"]
                        \/ k = [conn[c] EXCEPT !.peer[s] = "reset", !.inbox[s] = <<>>]
        BY <2>12, Zenon DEF PeerLeaves, ConnType
      <3>2. <<>> \in Seq({"frame", "bad"}) BY SeqEmpty
      <3>3. k \in Connection
        <4>1. CASE k = [conn[c] EXCEPT !.peer[s] = "closed"] BY <2>0, <4>1, Zenon DEF Connection
        <4>2. CASE k = [conn[c] EXCEPT !.peer[s] = "reset", !.inbox[s] = <<>>]
          BY <2>0, <3>2, <4>2, Zenon DEF Connection
        <4> QED BY <3>1, <4>1, <4>2
      <3>4. Drained(k) BY <2>0, <3>1, Zenon DEF Connection, Drained
      <3> QED BY <3>1, <3>3, <3>4, OneConnection, Zenon
    <2> QED BY <1>3, <2>1, <2>2, <2>3, <2>4, <2>5, <2>6, <2>7, <2>8, <2>9, <2>10, <2>11, <2>12
            DEF ConnectionNext
  <1> QED BY <1>1, <1>2, <1>3 DEF ProxyNext, proxy_vars, ReadKeys, Listen, Interrupt

\* However peers stall, leave and fail, and whatever ends the pump, a send task
\* that ends of itself leaves nothing unsent for a peer that is still there.
THEOREM EndedTasksHaveSent == ProxySpec => []TranslatedIsSent
  <1>1. AllDrained => TranslatedIsSent BY DEF AllDrained, Drained, TranslatedIsSent
  <1>2. ProxySpec => [](ConnType /\ AllDrained) BY InitDrained, NextDrained, PTL DEF ProxySpec
  <1> QED BY <1>1, <1>2, PTL
-----------------------------------------------------------------------------
(* The telemetry channel.                                                  *)

DownFrame ==
  [kind : {"Start"}, session : Nat] \cup [kind : {"Stop", "Bad"}]
    \cup [kind : {"Success"}, request : Nat, channel : Nat]
    \cup [kind : {"Error"}, request : Nat] \cup [kind : {"Verdict"}, channel : Nat]
UpFrame == [kind : {"Open"}, request : Nat] \cup [kind : {"Data"}, channel : Nat, seq : Nat]

TelemetryTypes ==
  /\ telem \in [state : {"Init", "Handshake", "Operational"}, channel : Nat, request : Nat,
                seq : Nat, started : Nat, running : BOOLEAN]
  /\ telemIn \in Seq(DownFrame) /\ extDown \in Seq(DownFrame)
  /\ telemOut \in Seq(UpFrame) /\ extUp \in Seq(UpFrame)
  /\ extConn \in [session : Nat, up : BOOLEAN, panicked : BOOLEAN]
  /\ IsFiniteSet(granted)

\* When the client comes to the i-th message of its queue, the last Start that it has
\* handled is that of session s.
StartedAt(i, s) ==
  \/ /\ \A j \in 1 .. i - 1 : telemIn[j].kind # "Start"
     /\ telem.started = s
  \/ \E j \in 1 .. i - 1 :
       /\ telemIn[j].kind = "Start" /\ telemIn[j].session = s
       /\ \A k \in j + 1 .. i - 1 : telemIn[k].kind # "Start"

\* The pool has opened the channel of this answer in session s.
GrantedIn(frame, s) ==
  \E channel \in granted :
    channel.request = frame.request /\ channel.channel = frame.channel /\ channel.session = s

\* The inductive invariant: an answer stays with its session.  On the connection
\* because the connection ends with the session, in the queue because it stands
\* behind the Start of its session and before the next.
AnswersFollowStart ==
  telem.running =>
    /\ \A i \in 1 .. Len(telemIn) : telemIn[i].kind = "Success" =>
         \E s \in Nat : StartedAt(i, s) /\ GrantedIn(telemIn[i], s)
    /\ extConn.up => StartedAt(Len(telemIn) + 1, extConn.session)
AnswersOnConnection ==
  /\ \A i \in 1 .. Len(extDown) : extDown[i].kind # "Start"
  /\ extConn.up => \A i \in 1 .. Len(extDown) : extDown[i].kind = "Success" =>
       GrantedIn(extDown[i], extConn.session)
  /\ ~extConn.up /\ ~extConn.panicked => extDown = <<>>
InSession == TelemetryTypes /\ AnswersFollowStart /\ AnswersOnConnection /\ ChannelIsOurs
\* Constructors of well-formed frames.
LEMMA DownFrames ==
  ASSUME NEW n \in Nat, NEW m \in Nat
  PROVE  /\ [kind |-> "Start", session |-> n] \in DownFrame
         /\ [kind |-> "Stop"] \in DownFrame /\ [kind |-> "Bad"] \in DownFrame
         /\ [kind |-> "Success", request |-> n, channel |-> m] \in DownFrame
         /\ [kind |-> "Error", request |-> n] \in DownFrame
         /\ [kind |-> "Verdict", channel |-> n] \in DownFrame
  BY DEF DownFrame

LEMMA UpFrames ==
  ASSUME NEW n \in Nat, NEW m \in Nat
  PROVE  /\ [kind |-> "Open", request |-> n] \in UpFrame
         /\ [kind |-> "Data", channel |-> n, seq |-> m] \in UpFrame
  BY DEF UpFrame

\* Fields of well-formed frames.
LEMMA FrameFields ==
  ASSUME NEW f \in DownFrame
  PROVE  /\ f.kind = "Start" => f.session \in Nat
         /\ f.kind = "Success" => f.request \in Nat /\ f.channel \in Nat
  BY DEF DownFrame

LEMMA UpFrameFields ==
  ASSUME NEW f \in UpFrame
  PROVE  /\ f.kind = "Open" => f.request \in Nat
         /\ f.kind = "Data" => f.channel \in Nat
  BY DEF UpFrame

LEMMA NextIdType == \A n \in Nat : NextId(n) \in Nat
  BY IdAssumption DEF NextId

\* Handling a message moves the others one place forward.
LEMMA Handled ==
  ASSUME telemIn \in Seq(DownFrame), telemIn # <<>>, telemIn' = Tail(telemIn),
         Head(telemIn).kind = "Start" => telem'.started = Head(telemIn).session,
         Head(telemIn).kind # "Start" => telem'.started = telem.started,
         NEW i \in 1 .. Len(telemIn), NEW s, StartedAt(i + 1, s)
  PROVE  StartedAt(i, s)'
  <1>1. /\ Len(telemIn) \in Nat /\ Len(telemIn') = Len(telemIn) - 1
        /\ Head(telemIn) = telemIn[1]
        /\ \A j \in 1 .. Len(telemIn) - 1 : telemIn'[j] = telemIn[j + 1]
    BY SeqTail
  <1>2. \A j \in 1 .. i - 1 : j + 1 \in 2 .. i /\ telemIn'[j] = telemIn[j + 1] BY <1>1
  <1>3. CASE (\A j \in 1 .. i : telemIn[j].kind # "Start") /\ telem.started = s
    <2>1. Head(telemIn).kind # "Start" BY <1>1, <1>3
    <2>2. \A j \in 1 .. i - 1 : telemIn'[j].kind # "Start" BY <1>2, <1>3
    <2> QED BY <1>3, <2>1, <2>2 DEF StartedAt
  <1>4. ASSUME NEW j \in 1 .. i, telemIn[j].kind = "Start", telemIn[j].session = s,
               \A k \in j + 1 .. i : telemIn[k].kind # "Start"
        PROVE  StartedAt(i, s)'
    <2>1. CASE j = 1
      <3>1. telem'.started = s BY <1>1, <1>4, <2>1
      <3>2. \A k \in 1 .. i - 1 : telemIn'[k].kind # "Start" BY <1>2, <1>4, <2>1
      <3> QED BY <3>1, <3>2 DEF StartedAt
    <2>2. CASE j # 1
      <3>1. j - 1 \in 1 .. i - 1 /\ telemIn'[j - 1] = telemIn[j] BY <1>1, <2>2
      <3>2. \A k \in (j - 1) + 1 .. i - 1 : telemIn'[k].kind # "Start"
        <4> TAKE k \in (j - 1) + 1 .. i - 1
        <4>1. k + 1 \in j + 1 .. i /\ k \in 1 .. i - 1 BY <1>1
        <4> QED BY <1>2, <1>4, <4>1
      <3> QED BY <1>4, <3>1, <3>2, Zenon DEF StartedAt
    <2> QED BY <2>1, <2>2
  <1>5. (i + 1) - 1 = i BY <1>1
  <1> QED BY <1>3, <1>4, <1>5, Zenon DEF StartedAt

\* A message that is added comes after all the others.
LEMMA Added ==
  ASSUME telemIn \in Seq(DownFrame), NEW f \in DownFrame, telemIn' = Append(telemIn, f),
         UNCHANGED telem, NEW s
  PROVE  /\ telemIn' \in Seq(DownFrame) /\ Len(telemIn') = Len(telemIn) + 1 /\ Len(telemIn) \in Nat
         /\ telemIn'[Len(telemIn) + 1] = f
         /\ \A i \in 1 .. Len(telemIn) : telemIn'[i] = telemIn[i]
         /\ \A i \in 1 .. Len(telemIn) + 1 : StartedAt(i, s) => StartedAt(i, s)'
         /\ f.kind # "Start" /\ StartedAt(Len(telemIn) + 1, s) => StartedAt(Len(telemIn) + 1, s)'
         /\ f.kind = "Start" /\ f.session = s => StartedAt(Len(telemIn) + 1, s)'
  <1>1. /\ telemIn' \in Seq(DownFrame) /\ Len(telemIn') = Len(telemIn) + 1 /\ Len(telemIn) \in Nat
        /\ telemIn'[Len(telemIn) + 1] = f
        /\ \A i \in 1 .. Len(telemIn) : telemIn'[i] = telemIn[i]
    BY SeqAppend
  <1>2. ASSUME NEW i \in 1 .. Len(telemIn) + 1, StartedAt(i, s) PROVE StartedAt(i, s)'
    <2>1. \A j \in 1 .. i - 1 : telemIn'[j] = telemIn[j] BY <1>1
    <2>2. \A j \in 1 .. i - 1 : \A k \in j + 1 .. i - 1 : k \in 1 .. i - 1 BY <1>1
    <2> QED BY <1>2, <2>1, <2>2 DEF StartedAt
  <1>3. ASSUME f.kind # "Start", StartedAt(Len(telemIn) + 1, s) PROVE StartedAt(Len(telemIn) + 1, s)'
    <2>1. PICK n \in Nat : n = Len(telemIn) BY <1>1
    <2>2. (n + 1) - 1 = n /\ (n + 2) - 1 = n + 1 /\ Len(telemIn') + 1 = n + 2 BY <1>1, <2>1
    <2>3. \A j \in 1 .. n + 1 : j \in 1 .. n \/ j = n + 1 BY <2>1
    <2>4. CASE (\A j \in 1 .. n : telemIn[j].kind # "Start") /\ telem.started = s
      <3>1. \A j \in 1 .. n + 1 : telemIn'[j].kind # "Start" BY <1>1, <1>3, <2>1, <2>3, <2>4
      <3> QED BY <2>1, <2>2, <2>4, <3>1 DEF StartedAt
    <2>5. ASSUME NEW j \in 1 .. n, telemIn[j].kind = "Start", telemIn[j].session = s,
                 \A k \in j + 1 .. n : telemIn[k].kind # "Start"
          PROVE  StartedAt(n + 2, s)'
      <3>1. j \in 1 .. n + 1 /\ telemIn'[j] = telemIn[j] BY <1>1, <2>1
      <3>2. \A k \in j + 1 .. n + 1 : telemIn'[k].kind # "Start"
        <4> TAKE k \in j + 1 .. n + 1
        <4>1. CASE k = n + 1 BY <1>1, <1>3, <2>1, <4>1
        <4>2. CASE k # n + 1
          <5>1. k \in j + 1 .. n /\ k \in 1 .. n BY <4>2
          <5> QED BY <1>1, <2>1, <2>5, <5>1
        <4> QED BY <4>1, <4>2, Zenon
      <3> QED BY <2>2, <2>5, <3>1, <3>2, Zenon DEF StartedAt
    <2> QED BY <1>3, <2>1, <2>2, <2>4, <2>5 DEF StartedAt
  <1>4. ASSUME f.kind = "Start", f.session = s PROVE StartedAt(Len(telemIn) + 1, s)'
    <2>1. PICK n \in Nat : n = Len(telemIn) BY <1>1
    <2>2. Len(telemIn') + 1 - 1 = n + 1 /\ n + 1 \in 1 .. n + 1 /\ (n + 1) + 1 .. n + 1 = {} BY <1>1, <2>1
    <2> QED BY <1>1, <1>4, <2>1, <2>2 DEF StartedAt
  <1> QED BY <1>1, <1>2, <1>3, <1>4
\* The client's task handles the message at the head of its queue.
LEMMA HandledStep ==
  ASSUME InSession, telem.running, telemIn # <<>>, telemIn' = Tail(telemIn),
         telem'.running =>
           telem'.started = IF Head(telemIn).kind = "Start" THEN Head(telemIn).session ELSE telem.started,
         UNCHANGED <<extConn, extDown, granted>>
  PROVE  telemIn' \in Seq(DownFrame) /\ AnswersFollowStart' /\ AnswersOnConnection'
  <1>1. /\ telemIn' \in Seq(DownFrame) /\ Len(telemIn) \in Nat /\ Len(telemIn') = Len(telemIn) - 1
        /\ Len(telemIn) >= 1
        /\ \A j \in 1 .. Len(telemIn) - 1 : telemIn'[j] = telemIn[j + 1]
    BY SeqTail, SeqEmpty DEF InSession, TelemetryTypes
  <1>2. AnswersOnConnection' BY DEF InSession, AnswersOnConnection, GrantedIn
  <1>3. ASSUME telem'.running, NEW i \in 1 .. Len(telemIn), NEW s, StartedAt(i + 1, s)
        PROVE  StartedAt(i, s)'
    BY <1>3, Handled DEF InSession, TelemetryTypes
  <1>4. ASSUME telem'.running, NEW i \in 1 .. Len(telemIn'), telemIn'[i].kind = "Success"
        PROVE  \E s \in Nat : StartedAt(i, s)' /\ GrantedIn(telemIn[i], s)'
    <2>1. i \in 1 .. Len(telemIn) /\ i + 1 \in 1 .. Len(telemIn) /\ telemIn'[i] = telemIn[i + 1] BY <1>1
    <2>2. PICK s \in Nat : StartedAt(i + 1, s) /\ GrantedIn(telemIn[i + 1], s)
      BY <1>4, <2>1 DEF InSession, AnswersFollowStart
    <2>3. GrantedIn(telemIn[i], s)' BY <2>1, <2>2 DEF GrantedIn
    <2> QED BY <1>3, <1>4, <2>1, <2>2, <2>3
  <1>5. ASSUME telem'.running, extConn'.up PROVE StartedAt(Len(telemIn) + 1, extConn.session)'
    <2>1. StartedAt(Len(telemIn) + 1, extConn.session) BY <1>5 DEF InSession, AnswersFollowStart
    <2>2. PICK n, s : n \in Nat /\ n = Len(telemIn) /\ s = extConn.session BY <1>1
    <2>3. n \in 1 .. Len(telemIn) /\ StartedAt(n + 1, s) BY <1>1, <2>1, <2>2
    <2>4. StartedAt(n, s)' BY <1>3, <1>5, <2>3
    <2>5. n = Len(telemIn') + 1 /\ s = extConn'.session BY <1>1, <2>2
    <2> QED BY <2>4, <2>5, Zenon DEF StartedAt
  <1>6. AnswersFollowStart' BY <1>4, <1>5, Zenon DEF AnswersFollowStart, StartedAt, GrantedIn
  <1> QED BY <1>1, <1>2, <1>6

\* The main task puts a message into the client's queue.
LEMMA AddedStep ==
  ASSUME InSession, NEW f \in DownFrame, telemIn' = Append(telemIn, f), UNCHANGED <<telem, granted>>,
         f.kind = "Success" => extConn.up /\ GrantedIn(f, extConn.session),
         extConn'.up => \/ f.kind = "Start" /\ f.session = extConn'.session
                        \/ f.kind # "Start" /\ UNCHANGED extConn
  PROVE  telemIn' \in Seq(DownFrame) /\ AnswersFollowStart'
  <1>1. telemIn \in Seq(DownFrame) /\ extConn.session \in Nat BY DEF InSession, TelemetryTypes
  <1>2. /\ telemIn' \in Seq(DownFrame) /\ Len(telemIn') = Len(telemIn) + 1 /\ Len(telemIn) \in Nat
        /\ telemIn'[Len(telemIn) + 1] = f
        /\ \A i \in 1 .. Len(telemIn) : telemIn'[i] = telemIn[i]
    BY <1>1, Added
  <1>3. ASSUME NEW i \in 1 .. Len(telemIn) + 1, NEW s, StartedAt(i, s) PROVE StartedAt(i, s)'
    BY <1>1, <1>3, Added
  <1>4. ASSUME telem'.running, NEW i \in 1 .. Len(telemIn'), telemIn'[i].kind = "Success"
        PROVE  \E s \in Nat : StartedAt(i, s)' /\ GrantedIn(telemIn[i], s)'
    <2>1. CASE i \in 1 .. Len(telemIn)
      <3>1. telemIn'[i] = telemIn[i] /\ i \in 1 .. Len(telemIn) + 1 BY <1>2, <2>1
      <3>2. PICK s \in Nat : StartedAt(i, s) /\ GrantedIn(telemIn[i], s)
        BY <1>4, <2>1, <3>1 DEF InSession, AnswersFollowStart
      <3>3. GrantedIn(telemIn[i], s)' BY <3>1, <3>2 DEF GrantedIn
      <3> QED BY <1>3, <3>1, <3>2, <3>3
    <2>2. CASE i = Len(telemIn) + 1
      <3>1. telemIn'[i] = f BY <1>2, <2>2
      <3>2. PICK s \in Nat : s = extConn.session BY <1>1
      <3>3. extConn.up /\ GrantedIn(f, s) BY <1>4, <3>1, <3>2
      <3>4. StartedAt(i, s) BY <1>4, <2>2, <3>2, <3>3 DEF InSession, AnswersFollowStart
      <3>5. StartedAt(i, s)' BY <1>2, <1>3, <2>2, <3>4
      <3>6. GrantedIn(telemIn[i], s)' BY <3>1, <3>3 DEF GrantedIn
      <3> QED BY <3>5, <3>6
    <2> QED BY <1>2, <2>1, <2>2
  <1>5. ASSUME telem'.running, extConn'.up PROVE StartedAt(Len(telemIn) + 1, extConn.session)'
    <2>1. PICK s : s = extConn'.session OBVIOUS
    <2>2. CASE f.kind = "Start" /\ f.session = s
      <3>1. StartedAt(Len(telemIn) + 1, s)' BY <1>1, <2>2, Added
      <3> QED BY <2>1, <3>1 DEF StartedAt
    <2>3. CASE f.kind # "Start" /\ UNCHANGED extConn
      <3>1. StartedAt(Len(telemIn) + 1, s) BY <1>5, <2>1, <2>3 DEF InSession, AnswersFollowStart
      <3>2. StartedAt(Len(telemIn) + 1, s)' BY <1>1, <2>3, <3>1, Added
      <3> QED BY <2>1, <3>2 DEF StartedAt
    <2> QED BY <1>5, <2>1, <2>2, <2>3
  <1>6. AnswersFollowStart' BY <1>4, <1>5 DEF AnswersFollowStart, StartedAt, GrantedIn
  <1> QED BY <1>2, <1>6

\* Steps that leave the client and its queue alone.
LEMMA QueueUntouched ==
  ASSUME InSession, UNCHANGED telemIn, telem'.started = telem.started,
         telem'.running => telem.running, granted \subseteq granted',
         extConn'.up => UNCHANGED extConn
  PROVE  AnswersFollowStart'
  BY DEF InSession, AnswersFollowStart, StartedAt, GrantedIn
\* What the task sends up keeps the types.
LEMMA SendUpTypes ==
  ASSUME telemOut \in Seq(UpFrame), NEW f \in UpFrame, NEW k, SendUp(f, k)
  PROVE  /\ telemOut' \in Seq(UpFrame)
         /\ telem' = k \/ telem' = [k EXCEPT !.running = FALSE]
  BY SeqAppend DEF SendUp

\* The steps of the client's task.
LEMMA TaskInSession ==
  ASSUME InSession,
         StartChannel \/ StopChannel \/ OpenSuccess \/ OpenError \/ DataVerdict \/ BadFrame \/ SendTelemetry
  PROVE  InSession'
  <1> DEFINE Client == [state : {"Init", "Handshake", "Operational"}, channel : Nat, request : Nat,
                        seq : Nat, started : Nat, running : BOOLEAN]
  <1>0. /\ telem \in Client /\ telemIn \in Seq(DownFrame) /\ extDown \in Seq(DownFrame)
        /\ telemOut \in Seq(UpFrame) /\ extUp \in Seq(UpFrame)
        /\ extConn \in [session : Nat, up : BOOLEAN, panicked : BOOLEAN] /\ IsFiniteSet(granted)
    BY DEF InSession, TelemetryTypes
  <1>h. ASSUME telemIn # <<>> PROVE Head(telemIn) \in DownFrame /\ Head(telemIn) = telemIn[1] /\ 1 \in 1 .. Len(telemIn)
    BY <1>0, <1>h, SeqTail, SeqEmpty, SeqLen, SeqElement
  <1>u. UNCHANGED <<extConn, extUp, extDown, granted>>
    BY DEF StartChannel, StopChannel, OpenSuccess, OpenError, DataVerdict, BadFrame, SendTelemetry
  <1> SUFFICES /\ telem' \in Client /\ telemOut' \in Seq(UpFrame) /\ telemIn' \in Seq(DownFrame)
               /\ AnswersFollowStart' /\ AnswersOnConnection' /\ ChannelIsOurs'
    BY <1>0, <1>u DEF InSession, TelemetryTypes
  <1>1. CASE StartChannel
    <2>1. /\ telem.running /\ telemIn # <<>> /\ Head(telemIn).kind = "Start" /\ telemIn' = Tail(telemIn)
      BY <1>1 DEF StartChannel, Receives
    <2>2. PICK s \in Nat : s = Head(telemIn).session BY <1>h, <2>1, FrameFields
    <2>3. PICK r \in Nat : r = NextId(telem.request) BY <1>0, NextIdType, Zenon
    <2>4. CASE telem.state = "Init"
      <3>1. PICK k : k = [telem EXCEPT !.state = "Handshake", !.request = r, !.started = s] OBVIOUS
      <3>2. k \in Client /\ k.state = "Handshake" /\ k.started = s BY <1>0, <2>2, <2>3, <3>1, Zenon
      <3>3. SendUp([kind |-> "Open", request |-> r], k) BY <1>0, <1>1, <2>2, <2>3, <2>4, <3>1 DEF StartChannel
      <3>4. telemOut' \in Seq(UpFrame) /\ (telem' = k \/ telem' = [k EXCEPT !.running = FALSE])
        BY <1>0, <2>3, <3>3, UpFrames, SendUpTypes, Zenon
      <3>5. telem' \in Client /\ telem'.state = "Handshake" /\ telem'.started = s BY <3>2, <3>4, Zenon
      <3>6. telemIn' \in Seq(DownFrame) /\ AnswersFollowStart' /\ AnswersOnConnection'
        BY <1>u, <2>1, <2>2, <3>5, HandledStep
      <3> QED BY <3>4, <3>5, <3>6 DEF ChannelIsOurs
    <2>5. CASE telem.state # "Init"
      <3>1. telem' = [telem EXCEPT !.running = FALSE] /\ UNCHANGED telemOut BY <1>1, <2>5 DEF StartChannel
      <3>2. telem' \in Client /\ ~telem'.running BY <1>0, <3>1, Zenon
      <3>3. telemIn' \in Seq(DownFrame) /\ AnswersFollowStart' /\ AnswersOnConnection'
        BY <1>u, <2>1, <3>2, HandledStep
      <3>4. ChannelIsOurs' BY <1>0, <1>u, <3>1 DEF InSession, ChannelIsOurs
      <3> QED BY <1>0, <3>1, <3>2, <3>3, <3>4
    <2> QED BY <2>4, <2>5
  <1>2. CASE StopChannel
    <2>1. /\ telem.running /\ telemIn # <<>> /\ Head(telemIn).kind = "Stop" /\ telemIn' = Tail(telemIn)
          /\ telem' = [telem EXCEPT !.state = "Init"] /\ UNCHANGED telemOut
      BY <1>2 DEF StopChannel, Receives
    <2>2. telem' \in Client /\ telem'.state = "Init" /\ telem'.started = telem.started BY <1>0, <2>1, Zenon
    <2>3. telemIn' \in Seq(DownFrame) /\ AnswersFollowStart' /\ AnswersOnConnection'
      BY <1>u, <2>1, <2>2, HandledStep
    <2> QED BY <1>0, <2>1, <2>2, <2>3 DEF ChannelIsOurs
  <1>3. CASE OpenSuccess
    <2>1. /\ telem.running /\ telemIn # <<>> /\ Head(telemIn).kind = "Success" /\ telemIn' = Tail(telemIn)
          /\ UNCHANGED telemOut
      BY <1>3 DEF OpenSuccess, Receives
    <2>2. PICK f \in DownFrame : f = Head(telemIn) BY <1>h, <2>1
    <2>3. f.kind = "Success" /\ f.request \in Nat /\ f.channel \in Nat BY <2>1, <2>2, FrameFields
    <2>4. PICK r \in Nat : r = NextId(telem.request) BY <1>0, NextIdType, Zenon
    <2>5. CASE telem.state # "Handshake"
      <3>1. telem' = telem BY <1>3, <2>5 DEF OpenSuccess
      <3>2. telemIn' \in Seq(DownFrame) /\ AnswersFollowStart' /\ AnswersOnConnection'
        BY <1>u, <2>1, <3>1, HandledStep
      <3>3. ChannelIsOurs' BY <1>u, <3>1 DEF InSession, ChannelIsOurs
      <3> QED BY <1>0, <2>1, <3>1, <3>2, <3>3
    <2>6. CASE telem.state = "Handshake" /\ f.request # telem.request
      <3>1. telem' = [telem EXCEPT !.state = "Init"] BY <1>3, <2>2, <2>6 DEF OpenSuccess
      <3>2. telem' \in Client /\ telem'.state = "Init" /\ telem'.started = telem.started BY <1>0, <3>1, Zenon
      <3>3. telemIn' \in Seq(DownFrame) /\ AnswersFollowStart' /\ AnswersOnConnection'
        BY <1>u, <2>1, <3>2, HandledStep
      <3> QED BY <1>0, <2>1, <3>2, <3>3 DEF ChannelIsOurs
    <2>7. CASE telem.state = "Handshake" /\ f.request = telem.request
      <3>1. telem' = [telem EXCEPT !.state = "Operational", !.channel = f.channel, !.request = r]
        BY <1>3, <2>2, <2>4, <2>7 DEF OpenSuccess
      <3>2. telem' \in Client /\ telem'.started = telem.started /\ telem'.channel = f.channel /\ telem'.request = r
        BY <1>0, <2>3, <2>4, <3>1, Zenon
      <3>3. telemIn' \in Seq(DownFrame) /\ AnswersFollowStart' /\ AnswersOnConnection'
        BY <1>u, <2>1, <3>2, HandledStep
      <3>4. PICK s \in Nat : StartedAt(1, s) /\ GrantedIn(f, s)
        BY <1>h, <2>1, <2>2, <2>3 DEF InSession, AnswersFollowStart
      <3>5. 1 .. 1 - 1 = {} OBVIOUS
      <3>6. telem.started = s BY <3>4, <3>5 DEF StartedAt
      <3>7. PICK c \in granted : c.request = f.request /\ c.channel = f.channel /\ c.session = s
        BY <3>4 DEF GrantedIn
      <3>8. NextId(c.request) = telem'.request BY <2>4, <2>7, <3>2, <3>7
      <3>9. ChannelIsOurs' BY <1>u, <3>2, <3>6, <3>7, <3>8 DEF ChannelIsOurs, NextId
      <3> QED BY <1>0, <2>1, <3>2, <3>3, <3>9
    <2> QED BY <2>5, <2>6, <2>7
  <1>4. CASE OpenError
    <2>1. /\ telem.running /\ telemIn # <<>> /\ Head(telemIn).kind = "Error" /\ telemIn' = Tail(telemIn)
          /\ UNCHANGED telemOut
      BY <1>4 DEF OpenError, Receives
    <2>2. PICK r \in Nat : telem' = [telem EXCEPT !.state = "Init", !.request = r]
      BY <1>0, <1>4, NextIdType, Zenon DEF OpenError
    <2>3. telem' \in Client /\ telem'.state = "Init" /\ telem'.started = telem.started BY <1>0, <2>2, Zenon
    <2>4. telemIn' \in Seq(DownFrame) /\ AnswersFollowStart' /\ AnswersOnConnection'
      BY <1>u, <2>1, <2>3, HandledStep
    <2> QED BY <1>0, <2>1, <2>3, <2>4 DEF ChannelIsOurs
  <1>5. CASE DataVerdict
    <2>1. /\ telem.running /\ telemIn # <<>> /\ Head(telemIn).kind = "Verdict" /\ telemIn' = Tail(telemIn)
          /\ UNCHANGED <<telem, telemOut>>
      BY <1>5 DEF DataVerdict, Receives
    <2>2. telemIn' \in Seq(DownFrame) /\ AnswersFollowStart' /\ AnswersOnConnection'
      BY <1>u, <2>1, HandledStep
    <2>3. ChannelIsOurs' BY <1>u, <2>1 DEF InSession, ChannelIsOurs
    <2> QED BY <1>0, <2>1, <2>2, <2>3
  <1>6. CASE BadFrame
    <2>1. /\ telem.running /\ telemIn # <<>> /\ Head(telemIn).kind = "Bad" /\ telemIn' = Tail(telemIn)
          /\ telem' = [telem EXCEPT !.running = FALSE] /\ UNCHANGED telemOut
      BY <1>6 DEF BadFrame, Receives
    <2>2. telem' \in Client /\ ~telem'.running BY <1>0, <2>1, Zenon
    <2>3. telemIn' \in Seq(DownFrame) /\ AnswersFollowStart' /\ AnswersOnConnection'
      BY <1>u, <2>1, <2>2, HandledStep
    <2>4. ChannelIsOurs' BY <1>0, <1>u, <2>1 DEF InSession, ChannelIsOurs
    <2> QED BY <1>0, <2>1, <2>2, <2>3, <2>4
  <1>7. CASE SendTelemetry
    <2>0. telem.seq \in Nat BY <1>0
    <2>1. PICK q \in Nat : q = NextId(telem.seq) BY <2>0, NextIdType, Zenon
    <2>2. PICK k : k = [telem EXCEPT !.seq = q] BY Zenon
    <2>3. /\ k \in Client /\ k.state = telem.state /\ k.channel = telem.channel
          /\ k.request = telem.request /\ k.started = telem.started /\ k.running = telem.running
      BY <1>0, <2>1, <2>2, Zenon
    <2>4. telem.channel \in Nat /\ SendUp([kind |-> "Data", channel |-> telem.channel, seq |-> q], k)
      BY <1>0, <1>7, <2>1, <2>2 DEF SendTelemetry
    <2>5. telemOut' \in Seq(UpFrame) /\ (telem' = k \/ telem' = [k EXCEPT !.running = FALSE])
      BY <1>0, <2>1, <2>4, UpFrames, SendUpTypes, Zenon
    <2>6. /\ telem' \in Client /\ telem'.state = telem.state /\ telem'.channel = telem.channel
          /\ telem'.request = telem.request /\ telem'.started = telem.started
          /\ telem'.running => telem.running
      BY <2>3, <2>5, Zenon
    <2>7. UNCHANGED telemIn BY <1>7 DEF SendTelemetry
    <2>8. AnswersFollowStart' BY <1>u, <2>6, <2>7, QueueUntouched
    <2>9. AnswersOnConnection' /\ ChannelIsOurs'
      BY <1>u, <2>6 DEF InSession, AnswersOnConnection, ChannelIsOurs, GrantedIn
    <2> QED BY <1>0, <2>5, <2>6, <2>7, <2>8, <2>9
  <1> QED BY <1>1, <1>2, <1>3, <1>4, <1>5, <1>6, <1>7
\* The steps of the main task.
LEMMA MainTaskInSession ==
  ASSUME InSession, ExtConnect \/ PassDown \/ Forward \/ ExtConnectFails \/ ExtDisconnect
  PROVE  InSession'
  <1> DEFINE Main == [session : Nat, up : BOOLEAN, panicked : BOOLEAN]
  <1>0. /\ telemIn \in Seq(DownFrame) /\ extDown \in Seq(DownFrame)
        /\ telemOut \in Seq(UpFrame) /\ extUp \in Seq(UpFrame) /\ extConn \in Main
    BY DEF InSession, TelemetryTypes
  <1>u. UNCHANGED <<telem, granted>>
    BY DEF ExtConnect, PassDown, Forward, ExtConnectFails, ExtDisconnect
  <1>c. ChannelIsOurs' BY <1>u DEF InSession, ChannelIsOurs
  <1>s. [kind |-> "Stop"] \in DownFrame BY DEF DownFrame
  <1>q. ASSUME UNCHANGED telemIn, extConn'.up => UNCHANGED extConn
        PROVE  telemIn' \in Seq(DownFrame) /\ AnswersFollowStart'
    BY <1>0, <1>q, <1>u, QueueUntouched
  <1> SUFFICES /\ telemIn' \in Seq(DownFrame) /\ AnswersFollowStart'
               /\ extDown' \in Seq(DownFrame) /\ AnswersOnConnection'
               /\ telemOut' \in Seq(UpFrame) /\ extUp' \in Seq(UpFrame) /\ extConn' \in Main
    BY <1>c, <1>u DEF InSession, TelemetryTypes
  <1>1. CASE ExtConnect
    <2>0. UNCHANGED <<telemOut, extUp, extDown>> /\ ~extConn.up /\ ~extConn.panicked BY <1>1 DEF ExtConnect
    <2>1. extDown = <<>> BY <2>0 DEF InSession, AnswersOnConnection
    <2>2. AnswersOnConnection' BY <2>0, <2>1, SeqEmpty DEF AnswersOnConnection
    <2>3. PICK n \in Nat : n = extConn.session + 1 BY <1>0
    <2>4. CASE CanSendDown
      <3>1. /\ extConn' = [extConn EXCEPT !.session = n, !.up = TRUE]
            /\ telemIn' = Append(telemIn, [kind |-> "Start", session |-> n])
        BY <1>0, <1>1, <2>3, <2>4 DEF ExtConnect
      <3>2. extConn' \in Main /\ extConn'.session = n BY <1>0, <2>3, <3>1, Zenon
      <3>3. [kind |-> "Start", session |-> n] \in DownFrame BY <2>3, DownFrames, Zenon
      <3>4. telemIn' \in Seq(DownFrame) /\ AnswersFollowStart' BY <1>u, <3>1, <3>2, <3>3, AddedStep
      <3> QED BY <1>0, <2>0, <2>2, <3>2, <3>4
    <2>5. CASE ~CanSendDown
      <3>1. extConn' = [extConn EXCEPT !.panicked = TRUE] /\ UNCHANGED telemIn BY <1>1, <2>5 DEF ExtConnect
      <3>2. extConn' \in Main /\ ~extConn'.up BY <1>0, <2>0, <3>1, Zenon
      <3> QED BY <1>0, <1>q, <2>0, <2>2, <3>1, <3>2
    <2> QED BY <2>4, <2>5
  <1>2. CASE PassDown
    <2>1. /\ extConn.up /\ extDown # <<>> /\ extDown' = Tail(extDown)
          /\ telemIn' = IF CanSendDown THEN Append(telemIn, Head(extDown)) ELSE telemIn
          /\ UNCHANGED <<telemOut, extConn, extUp>>
      BY <1>2 DEF PassDown
    <2>2. /\ extDown' \in Seq(DownFrame) /\ Len(extDown) \in Nat /\ Len(extDown') = Len(extDown) - 1
          /\ Len(extDown) >= 1 /\ Head(extDown) = extDown[1]
          /\ \A j \in 1 .. Len(extDown) - 1 : extDown'[j] = extDown[j + 1]
      BY <1>0, <2>1, SeqTail, SeqEmpty
    <2>3. Head(extDown) \in DownFrame BY <1>0, <2>2, SeqElement
    <2>4. \A i \in 1 .. Len(extDown) : extDown[i].kind = "Success" => GrantedIn(extDown[i], extConn.session)
      BY <2>1 DEF InSession, AnswersOnConnection
    <2>5. \A i \in 1 .. Len(extDown') : i + 1 \in 1 .. Len(extDown) /\ extDown'[i] = extDown[i + 1] BY <2>2
    <2>6. AnswersOnConnection' BY <1>u, <2>1, <2>4, <2>5 DEF InSession, AnswersOnConnection, GrantedIn
    <2>7. CASE CanSendDown
      <3>1. PICK f \in DownFrame : f = Head(extDown) BY <2>3
      <3>2. f.kind = "Success" => GrantedIn(f, extConn.session) BY <2>2, <2>4, <3>1
      <3>3. f.kind # "Start" BY <2>2, <3>1 DEF InSession, AnswersOnConnection
      <3>4. telemIn' \in Seq(DownFrame) /\ AnswersFollowStart' BY <1>u, <2>1, <2>7, <3>1, <3>2, <3>3, AddedStep
      <3> QED BY <1>0, <2>1, <2>2, <2>6, <3>4
    <2>8. CASE ~CanSendDown BY <1>0, <1>q, <2>1, <2>2, <2>6, <2>8
    <2> QED BY <2>7, <2>8
  <1>3. CASE Forward
    <2>0. UNCHANGED <<telemIn, extDown>> BY <1>3 DEF Forward
    <2>1. CASE telemOut # <<>> /\ telemOut' = Tail(telemOut) /\ extUp' = Append(extUp, Head(telemOut))
               /\ UNCHANGED extConn
      <3>1. telemOut' \in Seq(UpFrame) /\ Head(telemOut) \in UpFrame
        BY <1>0, <2>1, SeqTail, SeqEmpty
      <3>2. extUp' \in Seq(UpFrame) BY <1>0, <2>1, <3>1, SeqAppend
      <3>3. AnswersOnConnection' BY <1>u, <2>0, <2>1 DEF InSession, AnswersOnConnection, GrantedIn
      <3> QED BY <1>0, <1>q, <2>0, <2>1, <3>1, <3>2, <3>3
    <2>2. CASE extConn' = [extConn EXCEPT !.up = FALSE, !.panicked = TRUE] /\ UNCHANGED <<telemOut, extUp>>
      <3>1. extConn' \in Main /\ ~extConn'.up /\ extConn'.panicked BY <1>0, <2>2, Zenon
      <3>2. AnswersOnConnection' BY <2>0, <3>1 DEF InSession, AnswersOnConnection
      <3> QED BY <1>0, <1>q, <2>0, <2>2, <3>1, <3>2
    <2> QED BY <1>3, <2>1, <2>2 DEF Forward
  <1>4. CASE ExtConnectFails \/ ExtDisconnect
    <2>1. /\ telemIn' = IF CanSendDown THEN Append(telemIn, [kind |-> "Stop"]) ELSE telemIn
          /\ UNCHANGED telemOut
      BY <1>4 DEF ExtConnectFails, ExtDisconnect
    <2>2. extConn' \in Main /\ ~extConn'.up
      <3>1. CASE ExtConnectFails
        <4>1. PICK n \in Nat : n = extConn.session + 1 BY <1>0
        <4>2. extConn' = [extConn EXCEPT !.session = n] /\ ~extConn.up BY <1>0, <3>1, <4>1 DEF ExtConnectFails
        <4> QED BY <1>0, <4>1, <4>2, Zenon
      <3>2. CASE ExtDisconnect
        <4>1. extConn' = [extConn EXCEPT !.up = FALSE] BY <3>2 DEF ExtDisconnect
        <4> QED BY <1>0, <4>1, Zenon
      <3> QED BY <1>4, <3>1, <3>2
    <2>3. extUp' \in Seq(UpFrame) /\ extDown' \in Seq(DownFrame)
      BY <1>0, <1>4, SeqEmpty, Zenon DEF ExtConnectFails, ExtDisconnect
    <2>4. extDown' = <<>>
      BY <1>4 DEF ExtConnectFails, ExtDisconnect, InSession, AnswersOnConnection
    <2>5. AnswersOnConnection' BY <2>2, <2>4, SeqEmpty DEF AnswersOnConnection
    <2>6. telemIn' \in Seq(DownFrame) /\ AnswersFollowStart'
      <3>1. CASE CanSendDown BY <1>s, <1>u, <2>1, <2>2, <3>1, AddedStep
      <3>2. CASE ~CanSendDown BY <1>q, <2>1, <2>2, <3>2
      <3> QED BY <3>1, <3>2
    <2> QED BY <1>0, <2>1, <2>2, <2>3, <2>5, <2>6
  <1> QED BY <1>1, <1>2, <1>3, <1>4

LEMMA StartInSession == ASSUME TelemetryInit, IsFiniteSet({}) PROVE InSession
  <1>1. TelemetryTypes BY SeqEmpty DEF TelemetryInit, TelemetryTypes
  <1>2. AnswersFollowStart BY DEF TelemetryInit, AnswersFollowStart
  <1>3. AnswersOnConnection BY DEF TelemetryInit, AnswersOnConnection
  <1>4. ChannelIsOurs BY DEF TelemetryInit, ChannelIsOurs
  <1> QED BY <1>1, <1>2, <1>3, <1>4 DEF InSession

\* What goes onto the connection is an answer of this session.
LEMMA AnswerInSession ==
  ASSUME InSession, extConn.up, UNCHANGED <<telem, telemIn, telemOut, extConn>>,
         NEW f \in DownFrame, extDown' = Append(extDown, f), f.kind # "Start",
         f.kind = "Success" => GrantedIn(f, extConn.session)', granted \subseteq granted',
         IsFiniteSet(granted'), extUp' \in Seq(UpFrame)
  PROVE  InSession'
  <1>0. extDown \in Seq(DownFrame) BY DEF InSession, TelemetryTypes
  <1>u. extConn.up /\ UNCHANGED <<telem, telemIn, telemOut, extConn>> OBVIOUS
  <1>1. /\ extDown' \in Seq(DownFrame) /\ Len(extDown') = Len(extDown) + 1 /\ Len(extDown) \in Nat
        /\ extDown'[Len(extDown) + 1] = f
        /\ \A i \in 1 .. Len(extDown) : extDown'[i] = extDown[i]
    BY <1>0, SeqAppend
  <1>2. \A i \in 1 .. Len(extDown') : i \in 1 .. Len(extDown) \/ i = Len(extDown) + 1 BY <1>1
  <1>3. ASSUME NEW i \in 1 .. Len(extDown')
        PROVE  /\ extDown'[i].kind # "Start"
               /\ extDown'[i].kind = "Success" => GrantedIn(extDown[i], extConn.session)'
    <2>1. CASE i \in 1 .. Len(extDown)
      <3>1. extDown'[i] = extDown[i] BY <1>1, <2>1
      <3>2. /\ extDown[i].kind # "Start"
            /\ extDown[i].kind = "Success" => GrantedIn(extDown[i], extConn.session)
        BY <1>u, <2>1 DEF InSession, AnswersOnConnection
      <3> QED BY <1>u, <3>1, <3>2 DEF GrantedIn
    <2>2. CASE i = Len(extDown) + 1
      <3>1. extDown'[i] = f BY <1>1, <2>2
      <3> QED BY <3>1 DEF GrantedIn
    <2> QED BY <1>2, <2>1, <2>2
  <1>4. AnswersOnConnection' BY <1>u, <1>3 DEF AnswersOnConnection
  <1>5. AnswersFollowStart' BY <1>u, QueueUntouched
  <1>6. ChannelIsOurs' BY <1>u DEF InSession, ChannelIsOurs
  <1>7. TelemetryTypes' BY <1>u, <1>1 DEF InSession, TelemetryTypes
  <1> QED BY <1>4, <1>5, <1>6, <1>7 DEF InSession

\* The steps of the pool.
LEMMA PoolInSession ==
  ASSUME InSession, PoolAnswers \/ PoolSendsUnknown,
         Cardinality(granted) \in Nat, \A c : IsFiniteSet(granted \cup {c})
  PROVE  InSession'
  <1>0. /\ extDown \in Seq(DownFrame) /\ extUp \in Seq(UpFrame) /\ extConn.session \in Nat
        /\ IsFiniteSet(granted)
    BY DEF InSession, TelemetryTypes
  <1>1. extConn.up /\ UNCHANGED <<telem, telemIn, telemOut, extConn>> BY DEF PoolAnswers, PoolSendsUnknown
  <1>2. ASSUME NEW f \in DownFrame, extDown' = Append(extDown, f), f.kind # "Start",
               f.kind = "Success" => GrantedIn(f, extConn.session)', granted \subseteq granted',
               IsFiniteSet(granted'), extUp' \in Seq(UpFrame)
        PROVE  InSession'
    BY <1>1, <1>2, AnswerInSession
  <1>3. CASE PoolAnswers
    <2>1. extUp # <<>> /\ extUp' = Tail(extUp) BY <1>3, Zenon DEF PoolAnswers
    <2>2. extUp' \in Seq(UpFrame) /\ Head(extUp) \in UpFrame BY <1>0, <2>1, SeqTail, SeqEmpty
    <2>3. PICK g \in UpFrame : g = Head(extUp) BY <2>2
    <2>4. CASE g.kind = "Open" /\ extDown' = Append(extDown, [kind |-> "Error", request |-> g.request])
               /\ UNCHANGED granted
      <3>1. [kind |-> "Error", request |-> g.request] \in DownFrame BY <2>4, UpFrameFields, DownFrames, Zenon
      <3>2. PICK f \in DownFrame : f = [kind |-> "Error", request |-> g.request] BY <3>1, Zenon
      <3>3. f.kind = "Error" BY <3>2
      <3>4. extDown' = Append(extDown, f) /\ granted \subseteq granted' /\ IsFiniteSet(granted')
        BY <1>0, <2>4, <3>2, Zenon
      <3> QED BY <1>2, <2>2, <3>3, <3>4
    <2>5. CASE g.kind = "Data" /\ extDown' = Append(extDown, [kind |-> "Verdict", channel |-> g.channel])
               /\ UNCHANGED granted
      <3>1. [kind |-> "Verdict", channel |-> g.channel] \in DownFrame BY <2>5, UpFrameFields, DownFrames, Zenon
      <3>2. PICK f \in DownFrame : f = [kind |-> "Verdict", channel |-> g.channel] BY <3>1, Zenon
      <3>3. f.kind = "Verdict" BY <3>2
      <3>4. extDown' = Append(extDown, f) /\ granted \subseteq granted' /\ IsFiniteSet(granted')
        BY <1>0, <2>5, <3>2, Zenon
      <3> QED BY <1>2, <2>2, <3>3, <3>4
    <2>6. ASSUME NEW n \in Nat, g.kind = "Open",
                 granted' = granted \cup {[request |-> g.request, channel |-> n, session |-> extConn.session]},
                 extDown' = Append(extDown, [kind |-> "Success", request |-> g.request, channel |-> n])
          PROVE  InSession'
      <3>1. PICK f \in DownFrame : f = [kind |-> "Success", request |-> g.request, channel |-> n]
        BY <2>6, UpFrameFields, DownFrames, Zenon
      <3>2. PICK c : c = [request |-> g.request, channel |-> n, session |-> extConn.session] BY Zenon
      <3>3. c \in granted' /\ c.request = f.request /\ c.channel = f.channel /\ c.session = extConn'.session
        BY <1>1, <2>6, <3>1, <3>2
      <3>4. GrantedIn(f, extConn.session)' BY <3>3 DEF GrantedIn
      <3>5. IsFiniteSet(granted') BY <2>6, Zenon
      <3> QED BY <1>2, <2>2, <2>6, <3>1, <3>4, <3>5
    <2>7. Cardinality(granted) + 1 \in Nat OBVIOUS
    <2> QED BY <1>3, <2>3, <2>4, <2>5, <2>6, <2>7, Zenon DEF PoolAnswers
  <1>4. CASE PoolSendsUnknown
    <2>1. [kind |-> "Bad"] \in DownFrame BY DEF DownFrame
    <2>2. extDown' = Append(extDown, [kind |-> "Bad"]) /\ UNCHANGED <<extUp, granted>>
      BY <1>4 DEF PoolSendsUnknown
    <2> QED BY <1>0, <1>2, <2>1, <2>2
  <1> QED BY <1>3, <1>4

LEMMA StepInSession ==
  ASSUME InSession, [TelemetryNext]_telemetryVars,
         Cardinality(granted) \in Nat, \A c : IsFiniteSet(granted \cup {c})
  PROVE  InSession'
  <1>1. CASE UNCHANGED telemetryVars
    <2>1. TelemetryTypes' BY <1>1 DEF telemetryVars, InSession, TelemetryTypes
    <2>2. AnswersFollowStart' BY <1>1, QueueUntouched DEF telemetryVars
    <2>3. AnswersOnConnection' BY <1>1 DEF telemetryVars, InSession, AnswersOnConnection, GrantedIn
    <2>4. ChannelIsOurs' BY <1>1 DEF telemetryVars, InSession, ChannelIsOurs
    <2> QED BY <2>1, <2>2, <2>3, <2>4 DEF InSession
  <1> QED BY <1>1, TaskInSession, MainTaskInSession, PoolInSession, Zenon DEF TelemetryNext

INSTANCE FiniteSetTheorems

LEMMA InitInSession == TelemetryInit => InSession
  BY FS_EmptySet, StartInSession

LEMMA NextInSession == InSession /\ [TelemetryNext]_telemetryVars => InSession'
  <1> SUFFICES ASSUME InSession, [TelemetryNext]_telemetryVars PROVE InSession' OBVIOUS
  <1>1. IsFiniteSet(granted) BY DEF InSession, TelemetryTypes
  <1>2. Cardinality(granted) \in Nat BY <1>1, FS_CardinalityType
  <1>3. \A c : IsFiniteSet(granted \cup {c}) BY <1>1, FS_AddElement, Zenon
  <1> QED BY <1>2, <1>3, StepInSession, Zenon

\* The telemetry client (telemetry.rs) submits its data only on a channel that the pool
\* has opened for the request of the last Start, on the connection of that Start, for
\* every size of the two queues and every number of reconnections: although neither
\* queue is emptied between sessions, an answer of an old session always stands before
\* the next Start, and the request number need not be unique for this.
THEOREM AnswersStayInSession == TelemetrySpec => []ChannelIsOurs
  <1>1. InSession => ChannelIsOurs BY DEF InSession
  <1> QED BY <1>1, InitInSession, NextInSession, PTL DEF TelemetrySpec
=============================================================================
