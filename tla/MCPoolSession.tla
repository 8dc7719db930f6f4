----------------------------- MODULE MCPoolSession -----------------------------
(* A session with a V2 pool: the mining protocol, and the telemetry extension   *)
(* beside it on the same connection.  A behaviour is one of a single part and   *)
(* the other rests.                                                             *)
EXTENDS PoolSession, Telemetry, TLC

VARIABLE part

CONSTANTS easy, hard
TwoTargets == {easy, hard}
\* Targets are compared for equality only.
Symmetry == Permutations(TwoTargets)

MCInit == part \in {"mining", "telemetry"} /\ Init /\ TelemetryInit

MCNext ==
  \/ part = "mining"    /\ Next          /\ UNCHANGED <<part, telemetryVars>>
  \/ part = "telemetry" /\ TelemetryNext /\ UNCHANGED <<part, vars>>

MCSpec == MCInit /\ [][MCNext]_<<part, vars, telemetryVars>>
=============================================================================
