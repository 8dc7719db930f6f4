------------------------------ MODULE PoolSession ------------------------------
(***************************************************************************)
(* A Stratum V2 client and a pool.  The pool is not in the repository: it  *)
(* announces jobs, for now or for the next block, references announced     *)
(* jobs in SetNewPrevHash, changes the target, and answers shares in the   *)
(* order they come, successes possibly several at a time, but before the   *)
(* answer to any later share.                                              *)
(***************************************************************************)
EXTENDS StratumClient

CONSTANTS
  Targets,
  MaxJobs,   \* bound: jobs of a session
  MaxPrevs,  \* bound: blocks
  MaxDn      \* bound: messages on the way to the client

VARIABLES
  pool_jobs,    \* number of jobs announced in this session
  pool_prev,    \* None until the first SetNewPrevHash of the session
  blocks,       \* number of blocks so far
  pool_target,
  intended,     \* jobs the pool wants mined: with their block and target
  batch,        \* sequence number of the last success not sent yet, or None
  verdict       \* accepted and rejected solutions, as the pool sees them

poolVars == <<pool_jobs, pool_prev, blocks, pool_target, intended, batch, verdict>>
vars == <<up, dn, clientVars, poolVars>>

Init ==
  /\ ClientInit
  /\ pool_jobs = 0 /\ pool_prev = None /\ blocks = 0 /\ pool_target = None
  /\ intended = {} /\ batch = None
  /\ verdict = [accepted |-> {}, rejected |-> {}]

Room == Len(dn) < MaxDn
Intend(id, prev) ==
  intended' = intended \cup {[session |-> session, id |-> id, root |-> id, prev |-> prev,
                              target |-> pool_target]}

PoolSetup ==
  /\ up # <<>> /\ Head(up) = SetupConnection
  /\ up' = Tail(up)
  /\ \/ dn' = Append(dn, SetupConnectionSuccess)
     \/ dn' = Append(dn, SetupConnectionError)
  /\ UNCHANGED <<clientVars, poolVars>>

PoolOpen ==
  /\ up # <<>> /\ Head(up) = OpenStandardMiningChannel
  /\ up' = Tail(up)
  /\ \E t \in Targets :
       /\ dn' = Append(dn, OpenStandardMiningChannelSuccess(t))
       /\ pool_target' = t
  /\ pool_jobs' = 0 /\ pool_prev' = None /\ batch' = None
  /\ UNCHANGED <<clientVars, blocks, intended, verdict>>

\* The pool's side of the channel is open.
Opened == \A i \in 1 .. Len(up) : up[i].type = "SubmitSharesStandard"
Serving == phase \in {"open", "mine"} /\ pool_target # None /\ Opened /\ Room

PoolNewJob(future) ==
  /\ Serving /\ pool_jobs < MaxJobs
  /\ ~future => pool_prev # None
  /\ pool_jobs' = pool_jobs + 1
  /\ dn' = Append(dn, NewMiningJob(pool_jobs, future, pool_jobs))
  /\ IF future THEN UNCHANGED intended ELSE Intend(pool_jobs, pool_prev)
  /\ UNCHANGED <<up, clientVars, pool_prev, blocks, pool_target, batch, verdict>>

PoolNewBlock(id) ==
  /\ Serving /\ blocks < MaxPrevs
  /\ blocks' = blocks + 1
  /\ pool_prev' = blocks + 1
  /\ dn' = Append(dn, SetNewPrevHash(id, blocks + 1))
  /\ Intend(id, blocks + 1)
  /\ UNCHANGED <<up, clientVars, pool_jobs, pool_target, batch, verdict>>

PoolSetTarget(t) ==
  /\ Serving /\ pool_jobs > 0 /\ t # pool_target
  /\ pool_target' = t
  /\ dn' = Append(dn, SetTarget(t))
  /\ UNCHANGED <<up, clientVars, pool_jobs, pool_prev, blocks, intended, batch, verdict>>

Acknowledged == IF batch = None THEN dn ELSE Append(dn, SubmitSharesSuccess(batch))

PoolAccept ==
  LET share == Head(up) IN
  /\ up # <<>> /\ share.type = "SubmitSharesStandard"
  /\ up' = Tail(up)
  /\ batch' = share.seq_num
  /\ verdict' = [verdict EXCEPT !.accepted = @ \cup {share.solution.uid}]
  /\ UNCHANGED <<dn, clientVars, pool_jobs, pool_prev, blocks, pool_target, intended>>

PoolReject ==
  LET share == Head(up) IN
  /\ up # <<>> /\ share.type = "SubmitSharesStandard"
  /\ Room
  /\ up' = Tail(up)
  /\ dn' = Append(Acknowledged, SubmitSharesError(share.seq_num))
  /\ batch' = None
  /\ verdict' = [verdict EXCEPT !.rejected = @ \cup {share.solution.uid}]
  /\ UNCHANGED <<clientVars, pool_jobs, pool_prev, blocks, pool_target, intended>>

PoolAcknowledge ==
  /\ batch # None /\ Room /\ phase = "mine"
  /\ dn' = Acknowledged
  /\ batch' = None
  /\ UNCHANGED <<up, clientVars, pool_jobs, pool_prev, blocks, pool_target, intended, verdict>>

Next ==
  \/ Connect /\ UNCHANGED poolVars
  \/ ClientStep /\ UNCHANGED poolVars
  \/ PoolSetup
  \/ PoolOpen
  \/ \E future \in BOOLEAN : PoolNewJob(future)
  \/ \E id \in 0 .. pool_jobs - 1 : PoolNewBlock(id)
  \/ \E t \in Targets : PoolSetTarget(t)
  \/ PoolAccept
  \/ PoolReject
  \/ PoolAcknowledge

Spec == Init /\ [][Next]_vars

-----------------------------------------------------------------------------
Jobs == [session : 1 .. MaxSessions, id : 0 .. MaxJobs - 1, root : 0 .. MaxJobs - 1,
         prev : 1 .. MaxPrevs, target : Targets]
Solutions == [uid : 1 .. MaxFound, job : Jobs]

TypeOK ==
  /\ phase \in {"connect", "setup", "open", "mine"}
  /\ session \in 0 .. MaxSessions
  /\ all_jobs \subseteq [id : 0 .. MaxJobs - 1, root : 0 .. MaxJobs - 1]
  /\ \A j, k \in all_jobs : j.id = k.id => j = k
  /\ prevhash \in (1 .. MaxPrevs) \cup {None}
  /\ target \in Targets \cup {None}
  /\ job \in Jobs \cup {None}
  /\ held \in Seq(Jobs) /\ Len(held) <= HeldJobs
  /\ channel \in Seq(Solutions)
  /\ receiving \subseteq Solutions /\ Cardinality(receiving) <= 1
  /\ solutions \in Seq([solution : Solutions, seq_num : 0 .. SeqNums - 1])
  /\ seq_num \in 0 .. SeqNums - 1
  /\ \A c \in {accepted, rejected, flushed, cancelled} : c \subseteq 1 .. MaxFound
  /\ panicked \in BOOLEAN

\* "The rules for prevhash/mining job pairing": whatever the order of jobs, blocks
\* and targets, the job that is mined is one the pool wanted, with the block and
\* the target that were current at the pool when it asked for it.
MinesWhatPoolWants == job # None => job \in intended

\* process_accepted_shares, process_rejected_shares: a share is counted the way
\* the pool decided it, across batched successes, wrapped sequence numbers,
\* solutions of older jobs and sessions that ended in between.
VerdictsMatch == accepted \subseteq verdict.accepted /\ rejected \subseteq verdict.rejected

\* Every solution the hardware finds is in one place: on its way to the client,
\* submitted and unanswered, counted, flushed with its session, or lost with a
\* receive() that a frame of the pool overtook.  Nothing is counted twice, and
\* nothing of an ended session waits for an answer.
SolutionsAccounted ==
  LET places == <<Uids(channel), {s.uid : s \in receiving}, Queued, accepted, rejected,
                  flushed, cancelled>>
  IN /\ \A uid \in 1 .. found :
          \E p \in DOMAIN places : \A q \in DOMAIN places : uid \in places[q] <=> q = p
     /\ phase # "mine" => solutions = <<>>

\* The books of a session: every solution in one place, counted as it was decided.
SharesAccounted == VerdictsMatch /\ SolutionsAccounted
=============================================================================
