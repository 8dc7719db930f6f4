---------------------------- MODULE StatusMonitor ----------------------------
(***************************************************************************)
(* bosminer/src/sync.rs: the status word of a mining client.  Every        *)
(* operation of the code is a load followed by a compare-and-swap loop on  *)
(* one atomic; it takes effect at the swap (or load) that ends the loop,   *)
(* so each operation is one atomic transition of the status: a next value, *)
(* a result, and the states in which the code panics.                      *)
(***************************************************************************)

Status == {"Created", "Starting", "Retrying", "Running", "Stopping", "Failing",
           "Declining", "Restarting", "Recovering", "Stopped", "Failed"}

\* The states in which no main task exists.
Resting == {"Created", "Stopped", "Failed"}

\* initiate_starting: only a resting client may be spawned by the caller; a
\* client on its way down is told to come up again by its own main task.
\* (Mutant: a stopping client is spawned anew by its caller.)
SpawnWhileStopping(s) == s \in Resting \cup {"Stopping"}
StartingMaySpawn(s) == s \in Resting
AfterStarting(s) ==
  CASE s \in {"Created", "Stopped"}    -> "Starting"
    [] s = "Failed"                    -> "Retrying"
    [] s = "Stopping"                  -> "Restarting"
    [] s \in {"Failing", "Declining"}  -> "Recovering"
    [] OTHER                           -> s

\* initiate_running: called by the main task once its pool answered.
RunningPanics(s) == s \in {"Created", "Stopped", "Failing", "Failed"}
RunningOk(s) == s \in {"Starting", "Retrying", "Running"}
AfterRunning(s) == IF s \in {"Starting", "Retrying"} THEN "Running" ELSE s

\* initiate_stopping: TRUE means the caller has to wake the main task.
\* (Mutant: a running session is trusted to see is_shutting_down.)
NoTokenWhileRunning(s) == s \in {"Starting", "Restarting", "Retrying", "Recovering"}
StoppingOk(s) == s \in {"Starting", "Running", "Restarting", "Retrying", "Recovering"}
AfterStopping(s) ==
  CASE s \in {"Starting", "Running", "Restarting"} -> "Stopping"
    [] s \in {"Retrying", "Recovering"}            -> "Declining"
    [] OTHER                                       -> s

\* initiate_failing: called by the main task when its session broke.
FailingPanics(s) == s \in Resting
AfterFailing(s) ==
  CASE s \in {"Running", "Stopping"}  -> "Failing"
    [] s \in {"Starting", "Retrying"} -> "Declining"
    [] OTHER                          -> s

\* is_shutting_down: the condition of the session's event loop.
IsShuttingDown(s) == s \in {"Stopping", "Failing", "Declining"}

\* can_stop: the last step of a main task's round; TRUE ends the task, FALSE
\* starts the next round.
CanStopPanics(s) == s \in {"Created", "Starting", "Retrying", "Running", "Stopped", "Failed"}
CanStopOk(s) == s \in {"Stopping", "Failing", "Declining"}
AfterCanStop(s) ==
  CASE s = "Stopping"                 -> "Stopped"
    [] s \in {"Failing", "Declining"} -> "Failed"
    [] s = "Restarting"               -> "Starting"
    [] s = "Recovering"               -> "Retrying"
    [] OTHER                          -> s
=============================================================================
