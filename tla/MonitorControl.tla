---------------------------- MODULE MonitorControl ----------------------------
(***************************************************************************)
(* The temperature and fan control of the S9 (bosminer-am1-s9/monitor.rs): *)
(* what the monitor knows of each chain from its messages, the timeouts it *)
(* checks in each tick, and what it decides for the fans.                  *)
(*                                                                         *)
(* Instants are modelled by their age, which stops counting at MaxAge.     *)
(* Chains send what ChainManager shows they send, at any time; the tick    *)
(* comes at most TickDelay after TICK_LENGTH.                              *)
(***************************************************************************)
EXTENDS Naturals, FiniteSetsExt

CONSTANTS
  Chains,            \* number of chains
  Config,            \* configurations to start with
  Reading,           \* sensor::Temperature values the chains report
  DangerousTemp, HotTemp,
  StartTimeout, RunUpdateTimeout, TickLength, WarmUpPeriod,
  TickDelay,         \* bound: how late a tick may come
  MaxFans,           \* fans that may spin
  MaxAge,            \* bound: ages above it are not told apart
  NoReading, Unknown, Failed   \* values that are no temperature

\* sensor::INVALID_TEMPERATURE_READING
InvalidReading == [remote |-> NoReading, local |-> NoReading]

\* The fan modes: fan control off, a fixed speed, fixed at STOPPED, PID.
FanModes == {"off", "fixed", "stopped", "target"}

\* resolve_monitor_config, of the mode, speed and min_fans that the user set.
ResolveMonitorConfig(mode, speed, min_fans, warm_up) ==
  [fans |-> IF mode = "auto" THEN "target" ELSE
            IF speed = 0 THEN (IF min_fans = 0 THEN "off" ELSE "stopped") ELSE "fixed",
   temps |-> mode # "disabled", min_fans |-> min_fans, warm_up |-> warm_up]

ASSUME ConfigAssumption ==
  \A c \in Config : /\ c.fans \in FanModes /\ c.temps \in BOOLEAN
                    /\ c.min_fans \in Nat /\ c.warm_up \in BOOLEAN
ASSUME TimeAssumption ==
  /\ TickLength \in Nat /\ TickDelay \in Nat /\ MaxAge \in Nat
  /\ StartTimeout \in Nat \ {0} /\ RunUpdateTimeout \in Nat \ {0}
  /\ RunUpdateTimeout + TickLength + TickDelay < MaxAge
  /\ StartTimeout + TickLength + TickDelay < MaxAge
ASSUME TempAssumption == HotTemp \in Nat /\ DangerousTemp \in Nat /\ HotTemp <= DangerousTemp
ASSUME ReadingAssumption ==
  /\ \A r \in Reading : r.remote \in Nat \cup {NoReading} /\ r.local \in Nat \cup {NoReading}
  /\ NoReading \notin Nat /\ Unknown \notin Nat /\ Failed \notin Nat /\ Unknown # Failed
ASSUME ChainAssumption == Chains \in Nat

VARIABLES
  config,
  states,      \* ChainState of each chain
  started,     \* age of On
  heartbeat,   \* age of the last Running
  reading,     \* the temperature it carried
  since_tick,
  fan,         \* current speed: none set, full, fixed, stopped, PID at either limit
  ended        \* "no", "shutdown" or "panic"

vars == <<config, states, started, heartbeat, reading, since_tick, fan, ended>>
Chain == 1 .. Chains
Age == 0 .. MaxAge

TypeOK ==
  /\ config \in Config
  /\ states \in [Chain -> {"Off", "On", "Running", "Broken"}]
  /\ started \in [Chain -> Age] /\ heartbeat \in [Chain -> Age]
  /\ reading \in [Chain -> Reading \cup {InvalidReading}]
  /\ since_tick \in 0 .. TickLength + TickDelay
  /\ fan \in {"unset", "full", "fixed", "stopped", "pid", "pid warm"}
  /\ ended \in {"no", "shutdown", "panic"}

\* The task ticks as soon as it is spawned; `since_tick' says it is due.
Init ==
  /\ config \in Config
  /\ states = [c \in Chain |-> "Off"]
  /\ started = [c \in Chain |-> 0] /\ heartbeat = [c \in Chain |-> 0]
  /\ reading = [c \in Chain |-> InvalidReading]
  /\ since_tick = TickLength
  /\ fan = "unset" /\ ended = "no"

Older(age) == Min({age + 1, MaxAge})

-----------------------------------------------------------------------------
(* The chains and the clock.                                               *)

Advance ==
  /\ ended = "no" /\ since_tick < TickLength + TickDelay
  /\ since_tick' = since_tick + 1
  /\ started' = [c \in Chain |-> IF states[c] \in {"On", "Running"} THEN Older(started[c]) ELSE 0]
  /\ heartbeat' = [c \in Chain |-> IF states[c] = "Running" THEN Older(heartbeat[c]) ELSE 0]
  /\ UNCHANGED <<config, states, reading, fan, ended>>

\* transition, for the messages in the order chains send them.
On(c) ==
  /\ ended = "no" /\ states[c] = "Off"
  /\ states' = [states EXCEPT ![c] = "On"]
  /\ started' = [started EXCEPT ![c] = 0]
  /\ UNCHANGED <<config, heartbeat, reading, since_tick, fan, ended>>

Running(c, temperature) ==
  /\ ended = "no" /\ states[c] \in {"On", "Running"}
  /\ states' = [states EXCEPT ![c] = "Running"]
  /\ heartbeat' = [heartbeat EXCEPT ![c] = 0]
  /\ reading' = [reading EXCEPT ![c] = temperature]
  /\ UNCHANGED <<config, started, since_tick, fan, ended>>

Off(c) ==
  /\ ended = "no" /\ states[c] \in {"On", "Running"}
  /\ states' = [states EXCEPT ![c] = "Off"]
  /\ started' = [started EXCEPT ![c] = 0] /\ heartbeat' = [heartbeat EXCEPT ![c] = 0]
  /\ reading' = [reading EXCEPT ![c] = InvalidReading]
  /\ UNCHANGED <<config, since_tick, fan, ended>>

-----------------------------------------------------------------------------
(* What a tick sees.                                                       *)

\* ChainState::tick.  (Mutant: a heartbeat is not looked at while a chain may
\* still be starting.)
TimeoutsOnce(c) == started[c] >= StartTimeout /\ states[c] = "On"
TimedOut(c) ==
  \/ states[c] = "On" /\ started[c] >= StartTimeout
  \/ states[c] = "Running" /\ heartbeat[c] >= RunUpdateTimeout

\* from_s9_sensor: the chip's sensor, or the board's and 15 degrees.
FromS9Sensor(r) == IF r.remote # NoReading THEN r.remote ELSE
                   IF r.local # NoReading THEN r.local + 15 ELSE Unknown

GetTemperature(c) ==
  CASE states[c] \in {"On", "Off"} -> Unknown
    [] states[c] = "Broken" -> Failed
    [] OTHER -> FromS9Sensor(reading[c])

\* calc_result: a failure, or the maximum of what is known, or Unknown.
CalcResult(temps) ==
  IF Failed \in temps THEN Failed ELSE
  IF temps \ {Unknown} = {} THEN Unknown ELSE Max(temps \ {Unknown})

\* is_warming_up.
IsWarmingUp(c) == states[c] = "On" \/ (states[c] = "Running" /\ started[c] <= WarmUpPeriod)

-----------------------------------------------------------------------------
(* ControlDecision.                                                        *)

\* decide_fan_control.
DecideFanControl(c, temp) ==
  IF temp = Unknown THEN "full" ELSE
  IF c.fans \in {"fixed", "stopped"} THEN c.fans ELSE
  IF temp = Failed THEN "panic" ELSE
  IF temp >= HotTemp THEN "full" ELSE "pid"

DecideFanControlNoTemp(c) == IF c.fans = "target" THEN "full" ELSE c.fans

Dangerous(c, temp) ==
  c.temps /\ (temp = Failed \/ (temp \in Nat /\ temp >= DangerousTemp))

Decide(c, fans_running, temp) ==
  LET speed == IF c.temps THEN DecideFanControl(c, temp) ELSE DecideFanControlNoTemp(c) IN
  CASE Dangerous(c, temp) -> "shutdown"
    [] ~Dangerous(c, temp) /\ c.fans = "off" -> "nothing"
    [] OTHER -> IF speed # "stopped" /\ fans_running < c.min_fans THEN "shutdown" ELSE speed

\* do_tick: the chains up to the first that is broken, then the fans.
Tick(fans_running) ==
  LET broken == {c \in Chain : TimedOut(c) \/ states[c] = "Broken"}
      decision == Decide(config, fans_running, CalcResult({GetTemperature(c) : c \in Chain}))
      warming_up == config.warm_up /\ \E c \in Chain : IsWarmingUp(c)
  IN
  /\ ended = "no" /\ since_tick >= TickLength
  /\ since_tick' = 0
  /\ states' = [c \in Chain |-> IF broken # {} /\ c = Min(broken) THEN "Broken" ELSE states[c]]
  /\ ended' = CASE broken # {} \/ decision = "shutdown" -> "shutdown"
                [] broken = {} /\ decision = "panic" -> "panic"
                [] OTHER -> "no"
  /\ fan' = CASE ended' # "no" \/ decision = "nothing" -> fan
              [] ended' = "no" /\ decision = "pid" /\ warming_up -> "pid warm"
              [] OTHER -> decision
  /\ UNCHANGED <<config, started, heartbeat, reading>>

-----------------------------------------------------------------------------
Next ==
  \/ Advance
  \/ \E c \in Chain : On(c) \/ Off(c) \/ \E r \in Reading : Running(c, r)
  \/ \E fans_running \in 0 .. MaxFans : Tick(fans_running)

Spec == Init /\ [][Next]_vars

-----------------------------------------------------------------------------
Up == ended = "no"
\* The state c is in, with this reading, is the one that the last tick saw.
SeenByTick(c) == states[c] = "Running" /\ heartbeat[c] > since_tick

\* While the miner is up, a chain that stopped sending, or does not come up, has
\* been so for less than its timeout and the time between two ticks: no order of
\* messages and ticks lets a dead chain go unnoticed.
DeadChainsNoticed ==
  Up => \A c \in Chain :
    /\ states[c] = "On" => started[c] < StartTimeout + TickLength + TickDelay
    /\ states[c] = "Running" => heartbeat[c] < RunUpdateTimeout + TickLength + TickDelay

\* With temperature control on, no chain that was above DANGEROUS in the last tick
\* is left on, whatever the other chains report or do not report: a chip
\* temperature, or a board temperature of 15 degrees less.
DangerStops ==
  Up /\ config.temps => \A c \in Chain : SeenByTick(c) =>
    /\ reading[c].remote # NoReading => reading[c].remote < DangerousTemp
    /\ reading[c].remote = NoReading /\ reading[c].local # NoReading
         => reading[c].local + 15 < DangerousTemp

\* The monitor misses neither a dead chain nor a hot one.
DangersNoticed == DeadChainsNoticed /\ DangerStops
=============================================================================
