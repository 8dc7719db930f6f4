------------------------------ MODULE MCMonitor ------------------------------
(* The two duties of the monitor: deciding in each tick while the miner runs,  *)
(* and its place in the halt that ends it.  A behaviour is one of a single     *)
(* duty and the other rests.                                                   *)
EXTENDS MonitorControl, Shutdown

VARIABLE duty

CONSTANTS sigterm, sigint
TwoSignals == {sigterm, sigint}

Auto == ResolveMonitorConfig("auto", 100, 1, TRUE)
AllModes ==
  {Auto, [Auto EXCEPT !.warm_up = FALSE]}
    \cup {ResolveMonitorConfig(mode, speed, min_fans, TRUE) :
            mode \in {"manual", "disabled"}, speed \in {0, 70}, min_fans \in {0, 1}}

Remote(t) == [remote |-> t, local |-> 60]
Local(t) == [remote |-> NoReading, local |-> t]
\* Cool, just HOT, and a board just DANGEROUS; no sensor at all.
Readings == {Remote(80), Remote(100), Local(95), InvalidReading}

MCInit ==
  /\ duty \in {"control", "halt"}
  /\ Init /\ HaltInit
  /\ duty = "control" => AllOff
  /\ duty = "halt" => config = Auto

MCNext ==
  \/ duty = "control" /\ Next     /\ UNCHANGED <<duty, halt_vars>>
  \/ duty = "halt"    /\ HaltNext /\ UNCHANGED <<duty, vars>>

MCSpec == MCInit /\ [][MCNext]_<<duty, vars, halt_vars>> /\ HaltFairness
=============================================================================
