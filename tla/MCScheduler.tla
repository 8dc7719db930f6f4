----------------------------- MODULE MCScheduler -----------------------------
(* How work is dealt out: the choice of a group by its share, the choice of a   *)
(* client inside a group, the race of the hash boards for the work of the       *)
(* chosen client's job, and the API that changes groups and clients.  Each      *)
(* behaviour is one of a single level and the others rest.                      *)
EXTENDS ClientGroups, VersionRolling, MinerApi

VARIABLE level

Quota(n) == [kind |-> "quota", value |-> n]
Fixed(n) == [kind |-> "fixed", value |-> n]
MixedStrategies == {Quota(1), Quota(2), Fixed(1), Fixed(3)}

CONSTANTS c1, c2, c3, none, g1, g2, g3, h1, h2, h3
MCClient == {c1, c2, c3}
MCGenerator == {g1, g2, g3}
MCHandle == {h1, h2, h3}
TwoGroups == << <<h1>>, <<h2>> >>

MCInit ==
  /\ level \in {"groups", "clients", "work", "api"}
  /\ GroupsInit /\ FailoverInit /\ EngineInit /\ ApiInit
  /\ level # "clients" => good = {}
  /\ level # "api" => groups = <<>>

MCNext ==
  \/ level = "groups"  /\ GroupsNext   /\ UNCHANGED <<level, failover_vars, engine_vars, api_vars>>
  \/ level = "clients" /\ FailoverNext /\ UNCHANGED <<level, groups_vars, engine_vars, api_vars>>
  \/ level = "work"    /\ EngineNext /\ UNCHANGED <<level, groups_vars, failover_vars, api_vars>>
  \/ level = "api"     /\ ApiNext /\ UNCHANGED <<level, groups_vars, failover_vars, engine_vars>>

MCSpec ==
  /\ MCInit /\ [][MCNext]_<<level, groups_vars, failover_vars, engine_vars, api_vars>>
  /\ level = "clients" => FailoverFairness
=============================================================================
