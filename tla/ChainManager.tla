----------------------------- MODULE ChainManager -----------------------------
(***************************************************************************)
(* One hash chain's Manager (bosminer-am1-s9/src/lib.rs): owners acquire   *)
(* it as a StoppedChain or RunningChain, start it with retries, stop it    *)
(* and drop it, while the miner's termination handler stops whatever runs; *)
(* and the messages by which the monitor follows the chain (monitor.rs).   *)
(*                                                                         *)
(* Owners are the boot task "main" and whoever the hooks hand a Manager    *)
(* to.  A panic aborts the process: `crashed' names it.                    *)
(***************************************************************************)
EXTENDS Naturals, Sequences, FiniteSets

CONSTANTS
  Owner,
  Main,        \* the owner that start_miner spawns: acquires once, starts, drops
  RetryCount,  \* ENUM_RETRY_COUNT
  MaxAcquires, \* bound: calls of acquire by each other owner
  MaxMessages  \* bound: unread messages when a start or a heartbeat adds one

ASSUME OwnerAssumption == Cardinality(Owner) > 0
ASSUME BoundAssumption == {RetryCount, MaxAcquires, MaxMessages} \subseteq Nat

Handler == "handler"   \* the termination handler, as holder of the lock

ASSUME HandlerAssumption == Handler \notin Owner

VARIABLES
  lock,        \* holder of Manager.inner, {} or a singleton
  hash_chain,  \* inner.hash_chain is Some
  owned_by,    \* {} or a singleton
  handle,      \* the value each owner has
  pc,          \* where each owner is in its call
  tries_left,
  voltage,     \* the voltage controller is on
  watchdog,    \* monitor_watchdog_temp_task is spawned
  messages,    \* monitor_tx
  state,       \* ChainState, as the monitor sees the chain
  halt,        \* the termination handler
  acquires,
  crashed

manager_vars == <<lock, hash_chain, owned_by, handle, pc, tries_left, voltage, watchdog, messages,
          state, halt, acquires, crashed>>

ManagerTypeOK ==
  /\ lock \subseteq Owner \cup {Handler} /\ Cardinality(lock) <= 1
  /\ {hash_chain, voltage, watchdog} \subseteq BOOLEAN
  /\ owned_by \subseteq Owner /\ Cardinality(owned_by) <= 1
  /\ handle \in [Owner -> {"none", "stopped", "running"}]
  /\ pc \in [Owner -> {"idle", "look", "attempt", "init", "power", "view", "halting"}]
  /\ tries_left \in [Owner -> 0 .. RetryCount]
  /\ messages \in Seq({"On", "Running", "Off"})
  /\ state \in {"Off", "On", "Running", "Broken"}
  /\ halt \in {"idle", "wait", "halting", "done"}
  /\ acquires \in [Owner -> 0 .. MaxAcquires + 1]
  /\ crashed \in {"no", "owned", "not stopped", "not running", "missing", "running", "start failed"}

ManagerInit ==
  /\ lock = {} /\ hash_chain = FALSE /\ owned_by = {}
  /\ handle = [a \in Owner |-> "none"] /\ pc = [a \in Owner |-> "idle"]
  /\ tries_left = [a \in Owner |-> 0]
  /\ voltage = FALSE /\ watchdog = FALSE
  /\ messages = <<>> /\ state = "Off"
  /\ halt = "idle" /\ acquires = [a \in Owner |-> 0] /\ crashed = "no"

\* A step of an owner that is at `from' in its call.
At(a, from, to) == crashed = "no" /\ pc[a] = from /\ pc' = [pc EXCEPT ![a] = to]
Send(message) == messages' = Append(messages, message)

\* Manager.inner.  (Mutants: it is not waited for; its guard is not dropped.)
LockNoWait(a) == lock' = {a}
Lock(a) == lock = {} /\ lock' = {a}
UnlockNever == UNCHANGED lock
Unlock == lock' = {}

\* The halt of a HashChain runs the voltage controller's termination handler.
DisableVoltage == voltage' = FALSE

-----------------------------------------------------------------------------
(* Ownership.                                                              *)

\* acquire sets owned_by; Main's is expected to succeed.
Acquire(a) ==
  /\ handle[a] = "none"
  /\ acquires[a] < (IF a = Main THEN 1 ELSE MaxAcquires)
  /\ acquires' = [acquires EXCEPT ![a] = @ + 1]
  /\ IF owned_by = {}
     THEN At(a, "idle", "look") /\ owned_by' = {a} /\ UNCHANGED crashed
     ELSE /\ At(a, "idle", "idle") /\ UNCHANGED owned_by
          /\ crashed' = IF a = Main THEN "owned" ELSE "no"
  /\ UNCHANGED <<lock, hash_chain, handle, tries_left, voltage, watchdog, messages, state, halt>>

\* The second half of acquire: is the chain running?  Main expects it stopped.
Look(a) ==
  /\ At(a, "look", "idle")
  /\ lock = {}
  /\ handle' = [handle EXCEPT ![a] = IF hash_chain THEN "running" ELSE "stopped"]
  /\ crashed' = IF hash_chain /\ a = Main THEN "not stopped" ELSE "no"
  /\ UNCHANGED <<lock, hash_chain, owned_by, tries_left, voltage, watchdog, messages, state,
                 halt, acquires>>

\* Drop of StoppedChain or RunningChain.
Drop(a) ==
  /\ At(a, "idle", "idle")
  /\ handle[a] # "none" /\ (a = Main => handle[a] = "running")
  /\ handle' = [handle EXCEPT ![a] = "none"]
  /\ owned_by' = {}
  /\ UNCHANGED <<lock, hash_chain, tries_left, voltage, watchdog, messages, state, halt,
                 acquires, crashed>>

-----------------------------------------------------------------------------
(* StoppedChain::start.                                                    *)

Start(a) ==
  /\ At(a, "idle", "attempt")
  /\ handle[a] = "stopped"
  /\ tries_left' = [tries_left EXCEPT ![a] = RetryCount]
  /\ UNCHANGED <<lock, hash_chain, owned_by, handle, voltage, watchdog, messages, state,
                 halt, acquires, crashed>>

\* attempt_start_chain takes the lock, says On and asserts that nothing runs.
Attempt(a) ==
  /\ At(a, "attempt", "init") /\ Len(messages) < MaxMessages
  /\ Lock(a)
  /\ Send("On")
  /\ crashed' = IF hash_chain THEN "running" ELSE "no"
  /\ UNCHANGED <<hash_chain, owned_by, handle, tries_left, voltage, watchdog, state, halt, acquires>>

\* HashChain::init, as far as the voltage controller's init.
PowerUp(a) ==
  /\ At(a, "init", "power")
  /\ voltage' = TRUE
  /\ UNCHANGED <<lock, hash_chain, owned_by, handle, tries_left, watchdog, messages, state,
                 halt, acquires, crashed>>

\* The rest of it, and HashChain::start.  With less chips than expected it is
\* accepted in the second half of the tries.
InitDone(a, all_chips) ==
  /\ At(a, "power", "view")
  /\ all_chips \/ tries_left[a] <= RetryCount \div 2
  /\ watchdog' = TRUE
  /\ hash_chain' = TRUE
  /\ Unlock
  /\ UNCHANGED <<owned_by, handle, tries_left, voltage, messages, state, halt, acquires, crashed>>

OneLess(tries) == IF tries = 0 THEN 0 ELSE tries - 1

\* init fails, before or after the voltage is on: halt, Off, and another try.
InitFailed(a) ==
  /\ \E p \in {"init", "power"} : At(a, p, IF tries_left[a] = 0 THEN "idle" ELSE "attempt")
  /\ DisableVoltage /\ Send("Off") /\ Unlock
  /\ tries_left' = [tries_left EXCEPT ![a] = OneLess(@)]
  /\ crashed' = IF tries_left[a] = 0 /\ a = Main THEN "start failed" ELSE "no"
  /\ UNCHANGED <<hash_chain, owned_by, handle, watchdog, state, halt, acquires>>

\* RunningChain::from_manager under a lock taken anew; the StoppedChain is dropped.
View(a) ==
  /\ At(a, "view", "idle")
  /\ lock = {}
  /\ crashed' = IF hash_chain THEN "no" ELSE "not running"
  /\ handle' = [handle EXCEPT ![a] = "running"]
  /\ owned_by' = {}
  /\ UNCHANGED <<lock, hash_chain, tries_left, voltage, watchdog, messages, state, halt, acquires>>

-----------------------------------------------------------------------------
(* stop_chain, by RunningChain::stop and by the termination handler.       *)

Stop(a) ==
  /\ At(a, "idle", "halting")
  /\ handle[a] = "running" /\ a # Main
  /\ Lock(a)
  /\ hash_chain' = FALSE
  /\ crashed' = IF hash_chain THEN "no" ELSE "missing"
  /\ UNCHANGED <<owned_by, handle, tries_left, voltage, watchdog, messages, state, halt, acquires>>

\* The chain's halt stops its tasks and the voltage; then the monitor is told.
Halted == DisableVoltage /\ watchdog' = FALSE /\ Send("Off") /\ Unlock

Stopped(a) ==
  /\ At(a, "halting", "idle")
  /\ Halted
  /\ handle' = [handle EXCEPT ![a] = "stopped"]
  /\ owned_by' = {}
  /\ UNCHANGED <<hash_chain, tries_left, state, halt, acquires, crashed>>

Terminate ==
  /\ crashed = "no" /\ halt = "idle" /\ halt' = "wait"
  /\ UNCHANGED <<lock, hash_chain, owned_by, handle, pc, tries_left, voltage, watchdog,
                 messages, state, acquires, crashed>>

TerminateLocked ==
  /\ crashed = "no" /\ halt = "wait" /\ lock = {}
  /\ hash_chain' = FALSE
  /\ IF hash_chain THEN Lock(Handler) /\ halt' = "halting"
                   ELSE lock' = lock /\ halt' = "done"
  /\ UNCHANGED <<owned_by, handle, pc, tries_left, voltage, watchdog, messages, state,
                 acquires, crashed>>

Terminated ==
  /\ crashed = "no" /\ halt = "halting" /\ halt' = "done"
  /\ Halted
  /\ UNCHANGED <<hash_chain, owned_by, handle, pc, tries_left, state, acquires, crashed>>

-----------------------------------------------------------------------------
(* The monitor's side.                                                     *)

Heartbeat ==
  /\ crashed = "no" /\ watchdog /\ Len(messages) < MaxMessages
  /\ Send("Running")
  /\ UNCHANGED <<lock, hash_chain, owned_by, handle, pc, tries_left, voltage, watchdog, state,
                 halt, acquires, crashed>>

\* ChainState::transition.
Transition(from, message) ==
  CASE message = "On" /\ from = "Off" -> "On"
    [] message = "Running" /\ from \in {"On", "Running"} -> "Running"
    [] message = "Off" /\ from \in {"On", "Running"} -> "Off"
    [] OTHER -> "Broken"

\* recv_task.
Receive ==
  /\ crashed = "no" /\ messages # <<>>
  /\ state' = Transition(state, Head(messages))
  /\ messages' = Tail(messages)
  /\ UNCHANGED <<lock, hash_chain, owned_by, handle, pc, tries_left, voltage, watchdog, halt,
                 acquires, crashed>>

-----------------------------------------------------------------------------
OwnerNext(a) ==
  \/ Acquire(a) \/ Look(a) \/ Drop(a)
  \/ Start(a) \/ Attempt(a) \/ PowerUp(a)
  \/ \E all_chips \in BOOLEAN : InitDone(a, all_chips)
  \/ InitFailed(a) \/ View(a)
  \/ Stop(a) \/ Stopped(a)

ManagerNext ==
  \/ \E a \in Owner : OwnerNext(a)
  \/ Terminate \/ TerminateLocked \/ Terminated
  \/ Heartbeat \/ Receive

\* A started hardware sequence ends; the mutex is fair.
ManagerFairness ==
  /\ SF_manager_vars(TerminateLocked) /\ WF_manager_vars(Terminated)
  /\ \A a \in Owner :
       /\ WF_manager_vars(PowerUp(a) \/ (\E all_chips \in BOOLEAN : InitDone(a, all_chips)) \/ InitFailed(a))
       /\ WF_manager_vars(Stopped(a))

ManagerSpec == ManagerInit /\ [][ManagerNext]_manager_vars
ManagerFairSpec == ManagerSpec /\ ManagerFairness

-----------------------------------------------------------------------------
\* "state change must be strictly [Off -> On -> Running*]*": whoever starts,
\* retries, stops or terminates the chain, the monitor never sees a message out
\* of order (which would shut the miner down).
FollowsProtocol == state # "Broken"

\* attempt_start_chain locks inner "to guarantee atomicity of hashchain start":
\* one HashChain exists at a time, so the voltage and the FPGA core of the board
\* are never driven by two; and the voltage is on only while one exists, whose
\* halt will turn it off.
OneInstanceOwnsPower ==
  /\ \/ Cardinality({a \in Owner : pc[a] \in {"init", "power", "halting"}})
          + (IF hash_chain THEN 1 ELSE 0) + (IF halt = "halting" THEN 1 ELSE 0) <= 1
     \/ crashed # "no"
  /\ voltage => \/ hash_chain \/ halt = "halting"
                \/ \E a \in Owner : pc[a] \in {"power", "halting"}

\* The termination handler is not kept waiting by owners that retry or stop.
TerminationEnds == [](halt = "wait" => <>(halt = "done" \/ crashed # "no"))

\* The two promises of the manager, to the monitor and to the board.
ChainIsManaged == FollowsProtocol /\ OneInstanceOwnsPower
=============================================================================
