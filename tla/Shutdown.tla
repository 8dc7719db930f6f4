------------------------------- MODULE Shutdown -------------------------------
(***************************************************************************)
(* How the miner goes down (bosminer-am1-s9: halt.rs, monitor.rs, lib.rs). *)
(* A halt of the application drains its list of clients and stops them one *)
(* by one: the miner (which halts its hash chains one by one), the         *)
(* monitor's termination handler (which sets the fans), the monitor's tick *)
(* task; then the exit hook ends the process.  Each of three signals, and  *)
(* the monitor itself in do_tick, may start a halt.                        *)
(*                                                                         *)
(* do_tick holds Monitor.inner while it waits for the halt it started.     *)
(* HALT_TIMEOUT is taken to be long enough for every handler that makes    *)
(* progress: it runs out for a handler that waits for that lock.           *)
(***************************************************************************)
EXTENDS Naturals, Sequences

CONSTANTS
  MinerChains,    \* number of hash chains, halted in order
  Signal,    \* the hooked signals
  MaxHalts,  \* bound: halts that are started
  MayFail    \* the monitor may find a reason to shut the miner down

ASSUME ChainsAssumption == MinerChains \in Nat /\ MaxHalts \in Nat
ASSUME FailAssumption == MayFail \in BOOLEAN

Monitor == "monitor"
Halter == Signal \cup {Monitor}

\* The clients in the order of their registration.
AppClients == <<"miner termination", "monitor termination", "monitor">>

VARIABLES
  clients,       \* the application's halt clients that are not drained
  halter,        \* the state of each caller of send_halt
  todo,          \* the clients each has left to stop
  chain,         \* each hash chain
  stopping,      \* next chain that the miner's handler halts; MinerChains + 1: confirmed
  ticking,       \* the tick task: in its loop, in shutdown, or dropped
  failure_state,
  fans,
  halts,
  halted          \* "no", "exit" by the exit hook or "panic"

halt_vars == <<clients, halter, todo, chain, stopping, ticking, failure_state, fans, halts, halted>>

HaltTypeOK ==
  /\ clients \in {<<>>, AppClients}
  /\ halter \in [Halter -> {"idle", "next", "wait", "done"}]
  /\ \A h \in Halter : \E k \in 0 .. 3 : todo[h] = SubSeq(AppClients, k + 1, 3)
  /\ chain \in [1 .. MinerChains -> {"off", "starting", "running"}]
  /\ stopping \in 0 .. MinerChains + 1
  /\ ticking \in {"loop", "shutdown", "dropped"}
  /\ failure_state \in BOOLEAN
  /\ fans \in {"running", "full", "stopped"}
  /\ halts \in 0 .. MaxHalts
  /\ halted \in {"no", "exit", "panic"}

\* The miner is up; its chains are starting or running, or could not be started.
HaltInit ==
  /\ clients = AppClients
  /\ halter = [h \in Halter |-> "idle"] /\ todo = [h \in Halter |-> <<>>]
  /\ chain \in [1 .. MinerChains -> {"off", "starting", "running"}]
  /\ stopping = 0 /\ ticking = "loop"
  /\ failure_state = FALSE /\ fans = "running"
  /\ halts = 0 /\ halted = "no"

Alive == halted = "no"

-----------------------------------------------------------------------------
(* send_halt_internal.                                                     *)

Drain(h) ==
  /\ halts < MaxHalts /\ halts' = halts + 1
  /\ halter[h] = "idle" /\ halter' = [halter EXCEPT ![h] = "next"]
  /\ todo' = [todo EXCEPT ![h] = clients] /\ clients' = <<>>

\* A signal's task.
ReceiveSignal(h) ==
  /\ Alive /\ Drain(h)
  /\ UNCHANGED <<chain, stopping, ticking, failure_state, fans, halted>>

\* Notify the next client.  The tick task is dropped by its notification.
Notify(h) ==
  /\ Alive /\ halter[h] = "next" /\ todo[h] # <<>>
  /\ halter' = [halter EXCEPT ![h] = "wait"]
  /\ UNCHANGED <<clients, todo, chain, stopping, ticking, failure_state, fans, halts, halted>>

\* The client at the head of todo confirms.
Confirm(h, client) ==
  /\ Alive /\ halter[h] = "wait" /\ Head(todo[h]) = client
  /\ halter' = [halter EXCEPT ![h] = "next"]
  /\ todo' = [todo EXCEPT ![h] = Tail(@)]
  /\ UNCHANGED <<clients, halts, halted>>

\* No clients are left: the exit hooks.
ExitHook(h) ==
  /\ Alive /\ halter[h] = "next" /\ todo[h] = <<>>
  /\ halter' = [halter EXCEPT ![h] = "done"]
  /\ halted' = "exit"
  /\ UNCHANGED <<clients, todo, chain, stopping, ticking, failure_state, fans, halts>>

-----------------------------------------------------------------------------
(* "miner termination": the chains' Managers, one after the other.         *)

Halting == \E h \in Halter : halter[h] = "wait" /\ Head(todo[h]) = "miner termination"

\* stop_chain, once the chain's lock is free: a chain that is starting has it.
\* (Mutant: a chain that is starting is passed over.)
StopRunningChain ==
  /\ Alive /\ Halting /\ stopping \in 1 .. MinerChains
  /\ chain' = [chain EXCEPT ![stopping] = IF @ = "running" THEN "off" ELSE @]
  /\ stopping' = stopping + 1
  /\ UNCHANGED <<clients, halter, todo, ticking, failure_state, fans, halts, halted>>
StopChain ==
  /\ Alive /\ Halting /\ stopping \in 1 .. MinerChains
  /\ chain[stopping] # "starting"
  /\ chain' = [chain EXCEPT ![stopping] = "off"]
  /\ stopping' = stopping + 1
  /\ UNCHANGED <<clients, halter, todo, ticking, failure_state, fans, halts, halted>>

BeginStopping ==
  /\ Alive /\ Halting /\ stopping = 0 /\ stopping' = 1
  /\ UNCHANGED <<clients, halter, todo, chain, ticking, failure_state, fans, halts, halted>>

MinerTerminated(h) ==
  /\ Confirm(h, "miner termination")
  /\ stopping = MinerChains + 1
  /\ UNCHANGED <<chain, stopping, ticking, failure_state, fans>>

\* The boot task's attempt_start_chain ends.
ChainStarted(c) ==
  /\ Alive /\ chain[c] = "starting"
  /\ chain' = [chain EXCEPT ![c] = "running"]
  /\ UNCHANGED <<clients, halter, todo, stopping, ticking, failure_state, fans, halts, halted>>

-----------------------------------------------------------------------------
(* The monitor.                                                            *)

\* do_tick sets the fans.
FanTick(speed) ==
  /\ Alive /\ ticking = "loop"
  /\ fans' = speed
  /\ UNCHANGED <<clients, halter, todo, chain, stopping, ticking, failure_state, halts, halted>>

\* do_tick declares a failure: shutdown, with inner locked.
DeclareShutdown ==
  /\ Alive /\ MayFail /\ ticking = "loop"
  /\ ticking' = "shutdown"
  /\ failure_state' = TRUE
  /\ Drain(Monitor)
  /\ UNCHANGED <<chain, stopping, fans, halted>>

InnerLocked == ticking = "shutdown"

\* "monitor termination".
MonitorTerminated(h) ==
  /\ Confirm(h, "monitor termination")
  /\ ~InnerLocked
  /\ fans' = IF failure_state THEN "full" ELSE "stopped"
  /\ UNCHANGED <<chain, stopping, ticking, failure_state>>

\* Its handler does not get the lock: `.expect("halt failed")'.
\* (Mutant: a handler is waited for without a timeout.)
NoTimeout(h) == FALSE
Timeout(h) ==
  /\ Alive /\ InnerLocked
  /\ halter[h] = "wait" /\ Head(todo[h]) = "monitor termination"
  /\ halted' = "panic"
  /\ UNCHANGED <<clients, halter, todo, chain, stopping, ticking, failure_state, fans, halts>>

\* "monitor": the tick task is dropped at an await, and with it the lock.
TickDropped(h) ==
  /\ Confirm(h, "monitor")
  /\ ticking' = "dropped"
  /\ UNCHANGED <<chain, stopping, failure_state, fans>>

-----------------------------------------------------------------------------
Halt(h) == \/ Notify(h) \/ MinerTerminated(h) \/ MonitorTerminated(h)
           \/ Timeout(h) \/ TickDropped(h) \/ ExitHook(h)

HaltNext ==
  \/ \E h \in Signal : ReceiveSignal(h)
  \/ \E h \in Halter : Halt(h)
  \/ BeginStopping \/ StopChain
  \/ \E c \in 1 .. MinerChains : ChainStarted(c)
  \/ \E speed \in {"running", "full"} : FanTick(speed)
  \/ DeclareShutdown

HaltFairness ==
  /\ \A h \in Halter : WF_halt_vars(Halt(h))
  /\ WF_halt_vars(BeginStopping \/ StopChain)
  /\ \A c \in 1 .. MinerChains : WF_halt_vars(ChainStarted(c))

HaltSpec == HaltInit /\ [][HaltNext]_halt_vars
HaltFairSpec == HaltSpec /\ HaltFairness

-----------------------------------------------------------------------------
AllOff == \A c \in 1 .. MinerChains : chain[c] = "off"

\* The order of the halt clients: with a single halt, whoever starts it, the
\* process does not end, by its exit hook or a panic, and the fans do not stop
\* while a chain is powered, chains still starting when the halt came included.
ChainsOffFirst == ~Alive \/ fans = "stopped" => AllOff

\* send_halt returns or panics: every halt that is started ends the process.
HaltEnds == halts > 0 ~> ~Alive

\* "Decide whether to leave fans on (depending on whether we are in failure
\* state or not)": after a failure the fans are at full speed in the end.
FailureLeavesFansOn == failure_state ~> (~Alive /\ fans = "full")
=============================================================================
