---------------------------- MODULE MiningStats ----------------------------
(***************************************************************************)
(* Mining statistics (bosminer/src/stats.rs, job.rs): the receivers of the *)
(* clients classify solutions and account them in every node of the        *)
(* solution's path, one meter after the other, while the API and the log   *)
(* take snapshots of the meters.  A meter is changed and read under its    *)
(* own lock; nothing is locked across two of them.  A receiver waits for   *)
(* the lock inside a select of its client, which may drop it there.        *)
(***************************************************************************)
EXTENDS Integers, Sequences, FiniteSets, SequencesExt

CONSTANTS Receiver,          \* clients, each with its SolutionReceiver
          Frontend,          \* the root of the work solvers
          Board,             \* the work solvers below it
          Difficulty,        \* difficulties of the jobs
          BackendDifficulty, \* of the chips
          NetworkDifficulty,
          MaxSolved           \* bound: solutions in a behaviour

ASSUME DifficultyAssumption ==
  BackendDifficulty \in Nat /\ NetworkDifficulty \in Nat /\ Difficulty \subseteq Nat \ {0}

VARIABLES meters,     \* solutions and shares of each node and level
          last_share, \* difficulty of the last share of each node, or 0
          best_share, \* BestShare.inner
          accounting, \* what each receiver has still to account
          report,     \* the snapshots being taken
          solved,      \* solutions so far
          asserted,   \* the assertion of `receive' failed
          credited,   \* ghost: the best share ever accounted in each node
          lost        \* ghost: accountings that were dropped half-way

stats_vars == <<meters, last_share, best_share, accounting, report, solved, asserted, credited, lost>>

Node == Receiver \cup {Frontend} \cup Board
Level == {"backend", "job", "network", "error"}
NoTask == [todo |-> <<>>, difficulty |-> 0, old |-> 0]
NoReport == [node |-> Frontend, todo |-> <<>>, got |-> <<>>]

StatsInit ==
  /\ meters = [n \in Node |-> [l \in Level |-> [solutions |-> 0, shares |-> 0]]]
  /\ last_share = [n \in Node |-> 0]
  /\ best_share = [n \in Node |-> 0]
  /\ accounting = [r \in Receiver |-> NoTask]
  /\ report = NoReport
  /\ solved = 0 /\ asserted = FALSE
  /\ credited = [n \in Node |-> 0] /\ lost = 0

-----------------------------------------------------------------------------
(* Classification.                                                         *)

\* A hash as good as `hash' meets the targets of all difficulties up to it.
DiffTarget(hash, difficulty) ==
  IF hash >= NetworkDifficulty THEN "network"
  ELSE IF hash >= difficulty THEN "job"
  ELSE IF hash >= BackendDifficulty THEN "backend"
  ELSE "error"

Metered(level, path) == [i \in 1 .. Len(path) |-> [kind |-> "meter", level |-> level, node |-> path[i]]]
Shared(path) ==
  FlattenSeq([i \in 1 .. Len(path) |->
    <<[kind |-> "last", node |-> path[i]], [kind |-> "swap", node |-> path[i]]>>])

\* account_valid_solution, account_error_backend_diff: what is accounted, in order.
MutantAccounts(target, path) ==
  CASE target = "error"   -> Metered("error", path)
    [] target = "backend" -> Metered("backend", path)
    [] target = "job"     -> Metered("job", path) \o Metered("backend", path) \o Shared(path)
    [] target = "network" -> Metered("network", path) \o Metered("job", path)
                               \o Metered("backend", path) \o Shared(path)
Accounts(target, path) ==
  CASE target = "error"   -> Metered("error", path)
    [] target = "backend" -> Metered("backend", path)
    [] target = "job"     -> Metered("backend", path) \o Metered("job", path) \o Shared(path)
    [] target = "network" -> Metered("backend", path) \o Metered("job", path)
                               \o Metered("network", path) \o Shared(path)

\* SolutionReceiver::receive takes a solution, which some work solver found for a job
\* of the client.
TakeSolution(r) ==
  /\ ~asserted /\ accounting[r] = NoTask /\ solved < MaxSolved
  /\ \E b \in Board, difficulty \in Difficulty, hash \in 0 .. NetworkDifficulty :
       IF difficulty > NetworkDifficulty
       THEN asserted' = TRUE /\ UNCHANGED accounting
       ELSE /\ accounting' = [accounting EXCEPT ![r] =
                 [todo |-> Accounts(DiffTarget(hash, difficulty), <<r, Frontend, b>>),
                  difficulty |-> difficulty, old |-> 0]]
            /\ UNCHANGED asserted
  /\ solved' = solved + 1
  /\ UNCHANGED <<meters, last_share, best_share, report, credited, lost>>

-----------------------------------------------------------------------------
(* Accounting.                                                             *)

Doing(r, kind) == ~asserted /\ accounting[r].todo # <<>> /\ Head(accounting[r].todo).kind = kind
Target(r) == Head(accounting[r].todo).node

\* The task of r after n more steps of its list.
Done(r, n) ==
  LET rest == SubSeq(accounting[r].todo, n + 1, Len(accounting[r].todo))
  IN [accounting EXCEPT ![r] = IF rest = <<>> THEN NoTask ELSE [@ EXCEPT !.todo = rest, !.old = 0]]

\* Meter::account_solution.  The network level, too, counts the job's difficulty.
AccountMeter(r) ==
  /\ Doing(r, "meter")
  /\ LET level == Head(accounting[r].todo).level
         shares == IF level \in {"backend", "error"} THEN BackendDifficulty
                   ELSE accounting[r].difficulty
     IN meters' = [meters EXCEPT ![Target(r)][level] =
                     [solutions |-> @.solutions + 1, shares |-> @.shares + shares]]
  /\ accounting' = Done(r, 1)
  /\ UNCHANGED <<last_share, best_share, report, solved, asserted, credited, lost>>

Credit(r) ==
  credited' = [credited EXCEPT ![Target(r)] =
                 IF @ < accounting[r].difficulty THEN accounting[r].difficulty ELSE @]

\* LastShare::account_solution, and the load of BestShare::account_solution.
AccountLast(r) ==
  /\ Doing(r, "last")
  /\ last_share' = [last_share EXCEPT ![Target(r)] = accounting[r].difficulty]
  /\ LET old == best_share[Target(r)]
     IN IF old < accounting[r].difficulty
        THEN /\ accounting' = [accounting EXCEPT ![r].todo = Tail(@), ![r].old = old]
             /\ UNCHANGED credited
        ELSE accounting' = Done(r, 2) /\ Credit(r)
  /\ UNCHANGED <<meters, best_share, report, solved, asserted, lost>>

\* BestShare::account_solution: compare-and-swap until it succeeds or the share is no
\* longer the best.
SwapBest(r) ==
  /\ Doing(r, "swap")
  /\ LET prev == best_share[Target(r)]
     IN IF prev = accounting[r].old
        THEN /\ best_share' = [best_share EXCEPT ![Target(r)] = accounting[r].difficulty]
             /\ accounting' = Done(r, 1) /\ Credit(r)
        ELSE IF prev < accounting[r].difficulty
        THEN accounting' = [accounting EXCEPT ![r].old = prev] /\ UNCHANGED <<best_share, credited>>
        ELSE accounting' = Done(r, 1) /\ Credit(r) /\ UNCHANGED best_share
  /\ UNCHANGED <<meters, last_share, report, solved, asserted, lost>>

\* The select of the client completes with another branch while `receive' waits for
\* the lock of a meter or of the last share.
DropReceive(r) ==
  /\ Doing(r, "meter") \/ Doing(r, "last")
  /\ accounting' = [accounting EXCEPT ![r] = NoTask]
  /\ lost' = lost + 1
  /\ UNCHANGED <<meters, last_share, best_share, report, solved, asserted, credited>>

-----------------------------------------------------------------------------
(* Snapshots: handle_summary and get_asc_status, each in its order.        *)
(* get_pool_status and mining_task take some of these, in the same order.  *)
(* The snapshots that no other is compared with are left out.              *)

Summary == <<"network", "job", "backend">>
AscStatus == <<"last", "job", "backend">>

BeginReport ==
  /\ ~asserted /\ report = NoReport
  /\ \E n \in {Frontend} \cup Board :
       report' = [node |-> n, got |-> <<>>,
                  todo |-> IF n = Frontend THEN Summary ELSE AscStatus]
  /\ UNCHANGED <<meters, last_share, best_share, accounting, solved, asserted, credited, lost>>

TakeSnapshot ==
  /\ ~asserted /\ report.todo # <<>>
  /\ LET field == Head(report.todo)
         value == IF field = "last" THEN last_share[report.node]
                  ELSE meters[report.node][field]
     IN report' = [report EXCEPT !.todo = Tail(@), !.got = Append(@, [field |-> field, value |-> value])]
  /\ UNCHANGED <<meters, last_share, best_share, accounting, solved, asserted, credited, lost>>

EndReport ==
  /\ report # NoReport /\ report.todo = <<>>
  /\ report' = NoReport
  /\ UNCHANGED <<meters, last_share, best_share, accounting, solved, asserted, credited, lost>>

StatsNext ==
  \/ \E r \in Receiver : \/ TakeSolution(r) \/ AccountMeter(r) \/ AccountLast(r)
                         \/ SwapBest(r) \/ DropReceive(r)
  \/ BeginReport \/ TakeSnapshot \/ EndReport

StatsSpec == StatsInit /\ [][StatsNext]_stats_vars

-----------------------------------------------------------------------------
Got(field) == {report.got[i].value : i \in {j \in 1 .. Len(report.got) : report.got[j].field = field}}
Sum(nodes, level) == MapThenSumSet(LAMBDA n : meters[n][level].solutions, nodes)
Busy == Cardinality({r \in Receiver : accounting[r] # NoTask})

\* Snapshots taken in the handlers' order nest whatever is accounted meanwhile: no
\* more blocks than shares, no more shares than nonces of the chips, and a last share
\* is one of the shares.
ReportsNest ==
  /\ \A n \in Got("network"), j \in Got("job") : n.solutions <= j.solutions
  /\ \A j \in Got("job"), b \in Got("backend") : j.solutions <= b.solutions
  /\ \A s \in Got("last") : s # 0 => \A j \in Got("job") : j.shares >= s

\* account_impl walks the path from its root: a node has counted no less than the nodes
\* below it, and more only for solutions on their way, or dropped there.
PathsAddUp ==
  \A level \in Level :
    LET root == meters[Frontend][level].solutions
    IN /\ Sum(Board, level) <= root /\ root <= Sum(Receiver, level)
       /\ Sum(Receiver, level) - Sum(Board, level) <= Busy + lost

\* stats.rs: the reports of the API and of the log fit together, and so do the nodes of
\* a path; the best share is the best of those accounted, however the receivers race.
StatsAreConsistent ==
  solved > 0 => ReportsNest /\ PathsAddUp /\ best_share = credited
=============================================================================
