--------------------------- MODULE ClientLifecycle ---------------------------
(***************************************************************************)
(* The life of one mining client (bosminer/src/client.rs and the           *)
(* main_task / run / main_loop of its three node kinds): API threads and   *)
(* the scheduler enable, disable, restart, start, stop and remove it, each *)
(* in several steps, while its spawned main task connects, runs its        *)
(* session, is woken by a stop token and decides in can_stop whether to    *)
(* end or to go round again.                                               *)
(*                                                                         *)
(* A panic of any task aborts the process (ii_async_compat's               *)
(* setup_panic_handling): it is the value of `crashed` and ends the        *)
(* behaviour.  The channel of stop tokens is futures' mpsc: every send     *)
(* goes through a fresh clone of the sender, which always has a slot, so   *)
(* tokens pile up; StopCapacity bounds the pile for TLC, a full channel    *)
(* dropping the token as the code's is_full branch does.                   *)
(***************************************************************************)
EXTENDS Naturals, FiniteSets, StatusMonitor

CONSTANTS
  Api,           \* API threads, each working on at most one request
  Scheduler,     \* the job scheduler's task
  Task,          \* identities of spawned main tasks
  StopCapacity,  \* stop tokens the channel holds
  Kind           \* the node: "v2" StratumClient, "v1" its translating twin, "drain"

ASSUME SchedulerAssumption == Scheduler \notin Api
ASSUME CapacityAssumption == StopCapacity \in Nat \ {0}
ASSUME KindAssumption == Kind \in {"v2", "v1", "drain"}

Actor == Api \cup {Scheduler}

VARIABLES
  status,   \* the StatusMonitor word
  enabled,  \* Handle.enabled
  tokens,   \* tokens in stop_sender / stop_receiver
  job,      \* the job sender's engine has a job the hardware can work on
  task,     \* where each main task is
  woken,    \* main tasks whose current round was ended by a stop token
  pc,       \* where each actor is in its call
  again,    \* actors that are in try_restart and will call try_enable
  removed,  \* the handle left its group
  dropped,  \* the last Arc of the handle was dropped
  crashed   \* the operation that panicked, or "none"

vars == <<status, enabled, tokens, job, task, woken, pc, again, removed, dropped, crashed>>
handle == <<enabled, removed, dropped>>
callers == <<pc, again>>

ActorPc == {"idle", "push", "have", "enable", "start", "spawn", "stop", "send"}
TaskPc == {"idle", "lock", "connect", "session", "loop", "select", "fail",
           "cleanup", "decide", "exit"}
Panics == {"none", "can_stop", "initiate_running", "initiate_failing", "push_client"}

TypeOK ==
  /\ status \in Status
  /\ enabled \in BOOLEAN
  /\ tokens \in 0..StopCapacity
  /\ job \in BOOLEAN
  /\ task \in [Task -> TaskPc]
  /\ woken \subseteq Task
  /\ pc \in [Actor -> ActorPc]
  /\ again \subseteq Actor
  /\ removed \in BOOLEAN
  /\ dropped \in BOOLEAN
  /\ crashed \in Panics

\* A client has just been pushed into its group, disabled; the thread that
\* pushed it has not yet enabled it.
Init ==
  /\ status = "Created"
  /\ enabled = FALSE
  /\ tokens = 0
  /\ job = FALSE
  /\ task = [t \in Task |-> "idle"]
  /\ woken = {}
  /\ \E adder \in Api : pc = [a \in Actor |-> IF a = adder THEN "push" ELSE "idle"]
  /\ again = {}
  /\ removed = FALSE
  /\ dropped = FALSE
  /\ crashed = "none"

-----------------------------------------------------------------------------
(* Handle: requests of the API threads.                                     *)

Alive == crashed = "none"
Goto(a, p) == pc' = [pc EXCEPT ![a] = p]

\* The pushing thread: a descriptor that is not enabled is left alone.
PushSkip(a) ==
  /\ Alive
  /\ pc[a] = "push"
  /\ Goto(a, "idle")
  /\ UNCHANGED <<status, tokens, job, task, woken, again, handle, crashed>>

PushEnable(a) ==
  /\ Alive
  /\ pc[a] = "push"
  /\ IF enabled
       THEN crashed' = "push_client" /\ UNCHANGED <<enabled, pc>>
       ELSE enabled' = TRUE /\ Goto(a, "start") /\ UNCHANGED crashed
  /\ UNCHANGED <<status, tokens, job, task, woken, again, removed, dropped>>

\* An API request looks its client up; from here on it owns an Arc of it.
GetClient(a) ==
  /\ Alive
  /\ a \in Api
  /\ pc[a] = "idle"
  /\ ~removed
  /\ Goto(a, "have")
  /\ UNCHANGED <<status, tokens, job, task, woken, again, handle, crashed>>

TryEnable(a) ==
  /\ Alive
  /\ pc[a] \in {"have", "enable"}
  /\ enabled' = TRUE
  /\ Goto(a, IF enabled THEN "idle" ELSE "start")
  /\ again' = again \ {a}
  /\ UNCHANGED <<status, tokens, job, task, woken, removed, dropped, crashed>>

TryDisable(a) ==
  /\ Alive
  /\ pc[a] = "have"
  /\ enabled' = FALSE
  /\ Goto(a, IF enabled THEN "stop" ELSE "idle")
  /\ UNCHANGED <<status, tokens, job, task, woken, again, removed, dropped, crashed>>

\* try_restart(must): a client that was not enabled is an error when must.
TryRestart(a, must) ==
  /\ Alive
  /\ pc[a] = "have"
  /\ enabled' = FALSE
  /\ Goto(a, IF enabled THEN "stop" ELSE IF must THEN "idle" ELSE "enable")
  /\ again' = IF enabled THEN again \cup {a} ELSE again
  /\ UNCHANGED <<status, tokens, job, task, woken, removed, dropped, crashed>>

\* remove_client_at holds the group's list, which the scheduler walks too.
Remove(a) ==
  /\ Alive
  /\ pc[a] = "have"
  /\ ~removed
  /\ pc[Scheduler] = "idle"
  /\ removed' = TRUE
  /\ enabled' = FALSE
  /\ Goto(a, IF enabled THEN "stop" ELSE "idle")
  /\ UNCHANGED <<status, tokens, job, task, woken, again, dropped, crashed>>

Put(n) == IF n < StopCapacity THEN n + 1 ELSE n

\* Drop of the last Arc: a token with no change of status.
DropHandle ==
  /\ Alive
  /\ removed
  /\ ~dropped
  /\ \A a \in Actor : pc[a] = "idle"
  /\ dropped' = TRUE
  /\ tokens' = Put(tokens)
  /\ UNCHANGED <<status, enabled, job, task, woken, callers, removed, crashed>>

-----------------------------------------------------------------------------
(* The scheduler looks at the client, then acts on what it saw.             *)

SchedulerTryStart ==
  /\ Alive
  /\ pc[Scheduler] = "idle"
  /\ ~removed
  /\ enabled
  /\ status # "Running"
  /\ Goto(Scheduler, "start")
  /\ UNCHANGED <<status, tokens, job, task, woken, again, handle, crashed>>

SchedulerTryStop ==
  /\ Alive
  /\ pc[Scheduler] = "idle"
  /\ ~removed
  /\ enabled
  /\ Goto(Scheduler, "stop")
  /\ UNCHANGED <<status, tokens, job, task, woken, again, handle, crashed>>

-----------------------------------------------------------------------------
(* Handle::start and Handle::stop, one step for the status and one for its  *)
(* effect.                                                                   *)

Start(a) ==
  /\ Alive
  /\ pc[a] = "start"
  /\ status' = AfterStarting(status)
  /\ Goto(a, IF StartingMaySpawn(status) THEN "spawn" ELSE "idle")
  /\ UNCHANGED <<tokens, job, task, woken, again, handle, crashed>>

Spawn(a, t) ==
  /\ Alive
  /\ pc[a] = "spawn"
  /\ task[t] = "idle"
  /\ task' = [task EXCEPT ![t] = "lock"]
  /\ Goto(a, "idle")
  /\ UNCHANGED <<status, tokens, job, woken, again, handle, crashed>>

AfterStop(a) == IF a \in again THEN "enable" ELSE "idle"

Stop(a) ==
  /\ Alive
  /\ pc[a] = "stop"
  /\ status' = AfterStopping(status)
  /\ Goto(a, IF StoppingOk(status) THEN "send" ELSE AfterStop(a))
  /\ UNCHANGED <<tokens, job, task, woken, again, handle, crashed>>

SendStop(a) ==
  /\ Alive
  /\ pc[a] = "send"
  /\ tokens' = Put(tokens)
  /\ Goto(a, AfterStop(a))
  /\ UNCHANGED <<status, job, task, woken, again, handle, crashed>>

-----------------------------------------------------------------------------
(* The main task.                                                            *)

At(t, p) == task' = [task EXCEPT ![t] = p]

\* A round begins with the lock of stop_receiver, held to the round's end.
HoldsReceiver(t) == task[t] \notin {"idle", "lock"}

LockReceiver(t) ==
  /\ Alive
  /\ task[t] = "lock"
  /\ \A u \in Task : ~HoldsReceiver(u)
  /\ At(t, "connect")
  /\ woken' = woken \ {t}
  /\ UNCHANGED <<status, tokens, job, callers, handle, crashed>>

\* run: the pool answered (a drain has no pool and is here at once).
Connected(t) ==
  /\ Alive
  /\ task[t] = "connect"
  /\ IF RunningPanics(status)
       THEN crashed' = "initiate_running" /\ UNCHANGED <<status, task>>
       ELSE /\ status' = AfterRunning(status)
            /\ At(t, IF ~RunningOk(status) THEN "cleanup"
                     ELSE IF Kind = "v1" THEN "session" ELSE "loop")
            /\ UNCHANGED crashed
  /\ UNCHANGED <<tokens, job, woken, callers, handle>>

\* run: the connection or the handshake failed or timed out.
ConnectFails(t) ==
  /\ Alive
  /\ Kind # "drain"
  /\ task[t] = "connect"
  /\ At(t, "fail")
  /\ UNCHANGED <<status, tokens, job, woken, callers, handle, crashed>>

\* The translating client opens its mining session when it already runs.
SessionOpened(t, ok) ==
  /\ Alive
  /\ task[t] = "session"
  /\ At(t, IF ok THEN "loop" ELSE "fail")
  /\ UNCHANGED <<status, tokens, job, woken, callers, handle, crashed>>

\* main_loop: the loop's condition, then one event of its select.
CheckShutdown(t) ==
  /\ Alive
  /\ task[t] = "loop"
  /\ At(t, IF IsShuttingDown(status) THEN "cleanup" ELSE "select")
  /\ UNCHANGED <<status, tokens, job, woken, callers, handle, crashed>>

\* A frame or a solution was handled; some frames send a new job.
HandleEvent(t, newJob) ==
  /\ Alive
  /\ task[t] = "select"
  /\ job' = (job \/ newJob)
  /\ At(t, "loop")
  /\ UNCHANGED <<status, tokens, woken, callers, handle, crashed>>

\* The pool disconnected, fell silent past EVENT_TIMEOUT, or broke protocol.
SessionBreaks(t) ==
  /\ Alive
  /\ task[t] = "select"
  /\ At(t, "fail")
  /\ UNCHANGED <<status, tokens, job, woken, callers, handle, crashed>>

Fail(t) ==
  /\ Alive
  /\ task[t] = "fail"
  /\ IF FailingPanics(status)
       THEN crashed' = "initiate_failing" /\ UNCHANGED <<status, task>>
       ELSE status' = AfterFailing(status) /\ At(t, "cleanup") /\ UNCHANGED crashed
  /\ UNCHANGED <<tokens, job, woken, callers, handle>>

\* main_task's select: a stop token cancels run wherever it awaits.
TakeToken(t) ==
  /\ Alive
  /\ task[t] \in {"connect", "session", "loop", "select"}
  /\ tokens > 0
  /\ tokens' = tokens - 1
  /\ woken' = woken \cup {t}
  /\ At(t, "cleanup")
  /\ UNCHANGED <<status, job, callers, handle, crashed>>

\* (Mutant: the job is left in the engine until the task has exited.)
KeepJob(t) ==
  /\ Alive
  /\ task[t] = "cleanup"
  /\ At(t, "decide")
  /\ UNCHANGED <<status, tokens, job, woken, callers, handle, crashed>>

InvalidateJob(t) ==
  /\ Alive
  /\ task[t] = "cleanup"
  /\ job' = FALSE
  /\ At(t, "decide")
  /\ UNCHANGED <<status, tokens, woken, callers, handle, crashed>>

CanStop(t) ==
  /\ Alive
  /\ task[t] = "decide"
  /\ IF CanStopPanics(status)
       THEN crashed' = "can_stop" /\ UNCHANGED <<status, task>>
       ELSE /\ status' = AfterCanStop(status)
            /\ At(t, IF CanStopOk(status) THEN "exit" ELSE "lock")
            /\ UNCHANGED crashed
  /\ UNCHANGED <<tokens, job, woken, callers, handle>>

\* The task returns and its guard of stop_receiver is dropped.
Exit(t) ==
  /\ Alive
  /\ task[t] = "exit"
  /\ At(t, "idle")
  /\ UNCHANGED <<status, tokens, job, woken, callers, handle, crashed>>

-----------------------------------------------------------------------------
Request(a) ==
  \/ GetClient(a)
  \/ TryDisable(a)
  \/ \E must \in BOOLEAN : TryRestart(a, must)
  \/ Remove(a)

Continue(a) ==
  \/ PushSkip(a) \/ PushEnable(a)
  \/ TryEnable(a)
  \/ Start(a) \/ Stop(a) \/ SendStop(a)
  \/ \E t \in Task : Spawn(a, t)

Work(t) ==
  \/ LockReceiver(t)
  \/ Connected(t) \/ ConnectFails(t)
  \/ \E ok \in BOOLEAN : SessionOpened(t, ok)
  \/ CheckShutdown(t)
  \/ \E newJob \in BOOLEAN : HandleEvent(t, newJob)
  \/ SessionBreaks(t) \/ Fail(t)
  \/ InvalidateJob(t) \/ CanStop(t) \/ Exit(t)

Next ==
  \/ \E a \in Actor : Request(a) \/ Continue(a)
  \/ SchedulerTryStart \/ SchedulerTryStop
  \/ DropHandle
  \/ \E t \in Task : Work(t) \/ TakeToken(t)

Spec == Init /\ [][Next]_vars

\* A call that began goes on, a main task's round goes on (its awaits end by
\* CONNECTION_TIMEOUT and EVENT_TIMEOUT), and a token in the channel wakes the
\* select that waits for it.
Fairness ==
  /\ \A a \in Actor : WF_vars(Continue(a))
  /\ \A t \in Task : WF_vars(Work(t))
  /\ \A t \in Task : WF_vars(TakeToken(t))

FairSpec == Spec /\ Fairness

-----------------------------------------------------------------------------
(* What the lifecycle has to guarantee.                                     *)

LiveTask == {t \in Task : task[t] \notin {"idle", "exit"}}
Spawning == {a \in Actor : pc[a] = "spawn"}

\* A client has at most one main task between its spawn and the can_stop that
\* ends it, however its callers interleave: the status word alone decides who
\* may spawn, and a resting client has none.
OneMainTask ==
  /\ status \in Resting => Spawning = {} /\ LiveTask = {}
  /\ \A a, b \in Spawning : a = b
  /\ \A t, u \in LiveTask : t = u
  /\ Spawning = {} \/ LiveTask = {}

\* A job is only left with the hardware while its client's main task is alive
\* to replace or invalidate it: when can_stop announces Stopped or Failed, the
\* engine has been exhausted.
NoOrphanJob == job => \E t \in Task : task[t] \in {"loop", "select", "fail", "cleanup"}

\* Whoever asked for a stop is heard: while the status asks the main task to
\* wind up its round, a token is in the channel or about to be sent, or the
\* round is already ending, even if a restart has hidden the request from
\* is_shutting_down.
StopIsHeard ==
  status \in {"Stopping", "Declining", "Failing", "Restarting", "Recovering"} =>
    \/ tokens > 0
    \/ \E a \in Actor : pc[a] = "send"
    \/ \E t \in Task : task[t] \in {"cleanup", "decide"}

\* The assertions of initiate_running and initiate_failing never fire, and
\* can_stop's fires in no round that ended by itself: only a stop token can
\* bring a main task to can_stop in a state it does not expect.
OnlyTokensPanic ==
  /\ crashed \notin {"initiate_running", "initiate_failing"}
  /\ crashed = "can_stop" => \E t \in woken : task[t] = "decide"

\* Every request to wind up is carried out: the status does not stay among the
\* shutting-down and restarting states unless the process has died.
StopCompletes ==
  (status \in {"Stopping", "Declining", "Failing", "Restarting", "Recovering"})
    ~> (status \in {"Starting", "Retrying", "Stopped", "Failed"} \/ crashed # "none")

\* The client implements ClientService: it is up from the initiate_starting
\* that lets a caller spawn its main task to the can_stop that ends the task.
Service == INSTANCE ClientService WITH up <- status \notin Resting
ImplementsService == Service!SSpec

-----------------------------------------------------------------------------
(* The inductive invariant behind the properties above.                     *)

\* initiate_failing's Failing lasts no longer than the round it ends.
FailingEnds == status = "Failing" => \E t \in Task : task[t] \in {"cleanup", "decide"}

\* A round that no token ended was ended by a status can_stop accepts.
RoundEnded ==
  \A t \in Task \ woken : task[t] \in {"cleanup", "decide"} =>
    status \in {"Stopping", "Failing", "Declining", "Restarting", "Recovering"}

IInv ==
  /\ TypeOK
  /\ OneMainTask
  /\ NoOrphanJob
  /\ StopIsHeard
  /\ OnlyTokensPanic
  /\ FailingEnds
  /\ RoundEnded
=============================================================================
