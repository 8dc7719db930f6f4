----------------------------- MODULE ClientGroups -----------------------------
(***************************************************************************)
(* The two choices of the job scheduler (client.rs, client/scheduler.rs in *)
(* bosminer/src): a client group by its share of the work, then a client   *)
(* of that group by its priority.  The two work on state of their own and  *)
(* are specified apart.                                                    *)
(***************************************************************************)
EXTENDS Integers, Sequences, FiniteSets, FiniteSetsExt, SequencesExt, StatusMonitor

-----------------------------------------------------------------------------
(* Load balancing between groups: GroupRegistry::create_group and          *)
(* recalculate_quotas, and the choice of the next group in                 *)
(* JobDispatcher::select_client.  Shares are exact: a ratio is kept as its *)
(* numerator over Unit * total_quota, where the code rounds it to an f64,  *)
(* so that two errors compare as the integers they are proportional to.    *)

CONSTANTS
  Strategies,  \* descriptors that may be configured: [kind, value]
  MaxGroups,   \* bound: groups in the registry
  Unit,        \* a fixed share ratio is value / Unit
  Deltas,      \* works generated between two rounds of the scheduler
  MaxWork      \* bound: work generated in all

ASSUME UnitAssumption == Unit \in Nat \ {0}
ASSUME StrategyAssumption ==
  \A s \in Strategies : s.kind \in {"quota", "fixed"} /\ s.value \in Nat \ {0}

VARIABLES
  list,    \* the groups' strategies, in registry order
  total_quota,
  total_fixed,        \* total_fixed_share_ratio, over Unit
  fixed_count,        \* fixed_share_ratio_count
  share,   \* share_ratio of each group, over Unit * total_quota
  work,    \* generated_work of each group
  up,      \* groups with a running client
  active,  \* the group of the active client, 0 before the first selection
  steady   \* every group was up in all rounds since work was last reset

groups_vars == <<list, total_quota, total_fixed, fixed_count, share, work, up, active, steady>>
registry == <<list, total_quota, total_fixed, fixed_count, share>>

Group == 1 .. Len(list)
Total(f) == MapThenSumSet(LAMBDA i : f[i], DOMAIN f)

GroupsTypeOK ==
  /\ list \in Seq(Strategies) /\ Len(list) <= MaxGroups
  /\ {total_quota, total_fixed, fixed_count} \subseteq Nat
  /\ share \in [Group -> Nat]
  /\ work \in [Group -> Nat]
  /\ up \subseteq Group
  /\ active \in 0 .. Len(list)
  /\ steady \in BOOLEAN

GroupsInit ==
  /\ list = <<>> /\ total_quota = 0 /\ total_fixed = 0 /\ fixed_count = 0
  /\ share = <<>> /\ work = <<>>
  /\ up = {}
  /\ active = 0
  /\ steady = TRUE

\* recalculate_quotas: what the fixed groups leave is split by quota.
Recalculate(groups, quota, fixed) ==
  [i \in DOMAIN groups |->
     IF groups[i].kind = "fixed" THEN groups[i].value * quota
     ELSE (Unit - fixed) * groups[i].value]

\* The errors OnlyFixedShareRatio and FixedShareRatioOverflow.
Accepts(s) == s.kind = "fixed" => list # <<>> /\ total_fixed + s.value < Unit

\* create_group: the new group joins at the end and everyone starts afresh.
CreateGroup(s) ==
  /\ Len(list) < MaxGroups
  /\ Accepts(s)
  /\ list' = Append(list, s)
  /\ total_quota' = IF s.kind = "quota" THEN total_quota + s.value ELSE total_quota
  /\ total_fixed' = IF s.kind = "fixed" THEN total_fixed + s.value ELSE total_fixed
  /\ fixed_count' = IF s.kind = "fixed" THEN fixed_count + 1 ELSE fixed_count
  /\ share' = Recalculate(list', total_quota', total_fixed')
  /\ work' = [i \in DOMAIN list' |-> 0]
  /\ steady' = TRUE
  /\ UNCHANGED <<up, active>>

\* A group gets its first running client, or loses its last one.
GroupUp(g) == g \notin up /\ up' = up \cup {g} /\ UNCHANGED <<registry, work, active, steady>>
GroupDown(g) ==
  /\ g \in up
  /\ up' = up \ {g}
  /\ UNCHANGED <<registry, work, active, steady>>

-----------------------------------------------------------------------------
Abs(n) == IF n < 0 THEN -n ELSE n

\* |share_ratio - (generated + delta) / (total + delta)|, scaled to integers.
NextError(w, g, delta) ==
  Abs(share[g] * (Total(w) + delta) - Unit * total_quota * (w[g] + delta))

\* select_client: the running group with the least error, the last of equals;
\* with no work at all the ratios are NaN and the first running group stays.
\* (Mutant: the group with the largest error.)
SelectWorst(w, delta) ==
  IF Total(w) + delta = 0 THEN Min(up)
  ELSE Max({g \in up : \A h \in up : NextError(w, g, delta) >= NextError(w, h, delta)})
Select(w, delta) ==
  IF Total(w) + delta = 0 THEN Min(up)
  ELSE Max({g \in up : \A h \in up : NextError(w, g, delta) <= NextError(w, h, delta)})

\* One round of the scheduler: the active group has generated delta works since
\* the last one; with none generated by a running client nothing is done.
Schedule(delta) ==
  LET w == IF active = 0 THEN work ELSE [work EXCEPT ![active] = @ + delta]
      kept == delta = 0 /\ active \in up
      next == IF kept \/ up = {} THEN active ELSE Select(w, delta)
  IN /\ list # <<>>
     /\ active = 0 => delta = 0
     /\ Total(w) <= MaxWork
     /\ work' = w
     /\ active' = next
     /\ steady' = (steady /\ up = Group)
     /\ UNCHANGED <<registry, up>>

Configure == \E s \in Strategies : CreateGroup(s)
Pools == \E g \in Group : GroupUp(g) \/ GroupDown(g)
Rounds == \E delta \in Deltas : Schedule(delta)

GroupsNext == Configure \/ Pools \/ Rounds

GroupsSpec == GroupsInit /\ [][GroupsNext]_groups_vars

-----------------------------------------------------------------------------

\* As long as every group has a running client and every round generates the
\* same amount of work, no group strays from its quota by more than two rounds'
\* work: the greedy choice of select_client accumulates no error.
SharesFollowed ==
  steady => \A g \in Group :
    Abs(share[g] * Total(work) - Unit * total_quota * work[g])
      <= 2 * Max(Deltas) * Unit * total_quota

-----------------------------------------------------------------------------
(* Fail-over inside one group: the scheduler walks the clients in order    *)
(* (GroupHandle::update_status), starts those ahead of the first running   *)
(* one, stops those behind it, and the dispatcher switches to it.  Each    *)
(* client goes through the statuses of StatusMonitor; the steps of its     *)
(* start and stop that ClientLifecycle takes apart are one step here.      *)

CONSTANTS
  Client,
  None,
  MaxChanges   \* bound: changes of pools, of the configuration and of the order

ASSUME NoneAssumption == None \notin Client

VARIABLES
  order,    \* scheduler_client_handles, by priority
  enabled,  \* clients with Handle.enabled
  status,   \* each client's status
  good,     \* clients whose pool answers
  position, \* where the scheduler's walk is, 0 outside of one
  found,    \* GroupHandle.active_client of the walk
  active_client,   \* JobDispatcher.active_client
  changes

failover_vars == <<order, enabled, status, good, position, found, active_client, changes>>

FailoverTypeOK ==
  /\ order \in [1 .. Cardinality(Client) -> Client] /\ IsInjective(order)
  /\ enabled \subseteq Client
  /\ status \in [Client -> Status]
  /\ good \subseteq Client
  /\ position \in 0 .. Len(order) + 1
  /\ found \in Client \cup {None}
  /\ active_client \in Client \cup {None}
  /\ changes \in 0 .. MaxChanges

\* The configured clients were pushed and enabled, none has connected yet
\* (clients are alike, so any order stands for all).
FailoverInit ==
  /\ order = SetToSeq(Client)
  /\ enabled = Client
  /\ status = [c \in Client |-> "Starting"]
  /\ good \in SUBSET Client
  /\ position = 0
  /\ found = None
  /\ active_client = None
  /\ changes = 0

SetStatus(c, s) == status' = [status EXCEPT ![c] = s]
IsRunning(c) == c \in enabled /\ status[c] = "Running"

-----------------------------------------------------------------------------
\* schedule: nothing is done for a running client that generated no work.
Wake(generated) ==
  /\ position = 0
  /\ active_client # None /\ IsRunning(active_client) => generated
  /\ position' = 1
  /\ found' = None
  /\ UNCHANGED <<order, enabled, status, good, active_client, changes>>

\* update_status: one client of the walk.
\* (Mutant: clients behind the running one are left alone.)
VisitStartsOnly ==
  LET c == order[position] IN
  /\ position \in 1 .. Len(order)
  /\ position' = position + 1
  /\ found' = IF found = None /\ IsRunning(c) THEN c ELSE found
  /\ IF found = None /\ c \in enabled /\ ~IsRunning(c)
       THEN SetStatus(c, AfterStarting(status[c])) ELSE UNCHANGED status
  /\ UNCHANGED <<order, enabled, good, active_client, changes>>
Visit ==
  LET c == order[position] IN
  /\ position \in 1 .. Len(order)
  /\ position' = position + 1
  /\ found' = IF found = None /\ IsRunning(c) THEN c ELSE found
  /\ IF c \in enabled /\ (found # None \/ ~IsRunning(c))
       THEN SetStatus(c, IF found = None THEN AfterStarting(status[c])
                                         ELSE AfterStopping(status[c]))
       ELSE UNCHANGED status
  /\ UNCHANGED <<order, enabled, good, active_client, changes>>

\* switch_client: no running client leaves the active one in place.
Switch ==
  /\ position = Len(order) + 1
  /\ position' = 0
  /\ active_client' = IF found = None THEN active_client ELSE found
  /\ UNCHANGED <<order, enabled, status, good, found, changes>>

-----------------------------------------------------------------------------
\* A client's main task: connect, lose the pool, end the round.
Connect(c) ==
  /\ status[c] \in {"Starting", "Retrying"}
  /\ SetStatus(c, IF c \in good THEN AfterRunning(status[c]) ELSE AfterFailing(status[c]))
  /\ UNCHANGED <<order, enabled, good, position, found, active_client, changes>>

Lose(c) ==
  /\ status[c] = "Running"
  /\ c \notin good
  /\ SetStatus(c, AfterFailing(status[c]))
  /\ UNCHANGED <<order, enabled, good, position, found, active_client, changes>>

EndRound(c) ==
  /\ ~CanStopPanics(status[c])
  /\ SetStatus(c, AfterCanStop(status[c]))
  /\ UNCHANGED <<order, enabled, good, position, found, active_client, changes>>

-----------------------------------------------------------------------------
Change == changes < MaxChanges /\ changes' = changes + 1

PoolChanges(c) ==
  /\ Change
  /\ good' = IF c \in good THEN good \ {c} ELSE good \cup {c}
  /\ UNCHANGED <<order, enabled, status, position, found, active_client>>

Enable(c) ==
  /\ Change
  /\ c \notin enabled
  /\ enabled' = enabled \cup {c}
  /\ SetStatus(c, AfterStarting(status[c]))
  /\ UNCHANGED <<order, good, position, found, active_client>>

Disable(c) ==
  /\ Change
  /\ c \in enabled
  /\ enabled' = enabled \ {c}
  /\ SetStatus(c, AfterStopping(status[c]))
  /\ UNCHANGED <<order, good, position, found, active_client>>

\* move_client_to, with the code's slices (positions count from 1 here).
MoveTo(s, from, to) ==
  CASE from > to -> SubSeq(s, 1, to - 1) \o <<s[from]>> \o SubSeq(s, to, from - 1)
                      \o SubSeq(s, from + 1, Len(s))
    [] from < to -> SubSeq(s, 1, from - 1) \o SubSeq(s, from + 1, to) \o <<s[from]>>
                      \o SubSeq(s, to + 1, Len(s))
    [] OTHER     -> s

\* The walk holds the list's lock.
Move(from, to) ==
  /\ Change
  /\ position = 0
  /\ order' = MoveTo(order, from, to)
  /\ UNCHANGED <<enabled, status, good, position, found, active_client>>

Scheduler == (\E generated \in BOOLEAN : Wake(generated)) \/ Visit \/ Switch
Main(c) == Connect(c) \/ Lose(c) \/ EndRound(c)

FailoverNext ==
  \/ Scheduler
  \/ \E c \in Client : Main(c) \/ PoolChanges(c) \/ Enable(c) \/ Disable(c)
  \/ \E from, to \in 1 .. Len(order) : from # to /\ Move(from, to)

FailoverSpec == FailoverInit /\ [][FailoverNext]_failover_vars

\* The scheduler runs every SCHEDULE_INTERVAL, a running client's job keeps the
\* boards generating work, and main tasks make progress.
FailoverFairness ==
  /\ WF_failover_vars(Wake(TRUE)) /\ WF_failover_vars(Visit) /\ WF_failover_vars(Switch)
  /\ \A c \in Client : WF_failover_vars(Main(c))

-----------------------------------------------------------------------------
Usable == {i \in 1 .. Len(order) : order[i] \in enabled \cap good}
Preferred == order[CHOOSE i \in Usable : \A j \in Usable : i <= j]

\* "The order of the pools specifies a priority for failover algorithm": once
\* pools and configuration settle, the first enabled client with a working pool
\* becomes and stays the active one, and the clients behind it come to rest.
FailoverSettles ==
  <>[](Usable # {} =>
        /\ active_client = Preferred
        /\ \A i \in 1 .. Len(order) :
             order[i] \in enabled /\ (\E j \in Usable : j < i) => status[order[i]] \in Resting)
=============================================================================
