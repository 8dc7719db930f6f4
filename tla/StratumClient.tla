----------------------------- MODULE StratumClient -----------------------------
(***************************************************************************)
(* One Stratum client between two runs of its main task: session setup,    *)
(* the pairing of jobs with previous hashes and targets                    *)
(* (StratumEventHandler), the solutions it receives from the hardware      *)
(* (job::SolutionReceiver) and submits (StratumSolutionHandler), and the   *)
(* clean-up after each session (main_task).  client/stratum_v2.rs and      *)
(* client/stratum_v2_channels.rs have the same logic; the line numbers of  *)
(* the map are those of the former.                                        *)
(*                                                                         *)
(* Every solution here meets its job's target.  `session' and a solution's *)
(* `uid' are not in the code: they say which session a job and which find  *)
(* a share really belongs to.                                              *)
(***************************************************************************)
EXTENDS V2Link, FiniteSets, Functions

CONSTANTS
  SeqNums,      \* values of the wrapping sequence number (2^32)
  HeldJobs,     \* jobs of which the hardware still has work
  MaxSessions,  \* bound: sessions
  MaxFound      \* bound: solutions found

ASSUME ClientAssumption == {SeqNums, HeldJobs, MaxSessions, MaxFound} \subseteq Nat \ {0}

VARIABLES
  phase,      \* where run() is: "connect", "setup", "open" or "mine"
  session,
  all_jobs,   \* NewMiningJob messages, at most one per identifier
  prevhash,   \* current_prevhash_msg
  target,     \* current_target
  job,        \* the job the work engine is built from
  held,       \* jobs of which the hardware has work, newest first
  channel,    \* solution_channel
  receiving,  \* taken from the channel by a receive() that has not returned
  solutions,  \* submitted and not acknowledged, with sequence numbers
  seq_num,
  accepted, rejected,  \* client_stats, as the solutions that were counted
  flushed,    \* discarded at the end of a session
  cancelled,  \* lost with a receive() that the select dropped
  found,
  panicked

handler == <<all_jobs, prevhash, target>>
stats == <<accepted, rejected>>
clientVars == <<phase, session, all_jobs, prevhash, target, job, held, channel,
                receiving, solutions, seq_num, accepted, rejected, flushed, cancelled, found,
                panicked>>

ClientInit ==
  /\ phase = "connect" /\ session = 0
  /\ all_jobs = {} /\ prevhash = None /\ target = None
  /\ job = None /\ held = <<>>
  /\ channel = <<>> /\ receiving = {}
  /\ solutions = <<>> /\ seq_num = 0
  /\ accepted = {} /\ rejected = {} /\ flushed = {} /\ cancelled = {}
  /\ found = 0 /\ panicked = FALSE
  /\ up = <<>> /\ dn = <<>>

-----------------------------------------------------------------------------
(* Connection and session setup.                                           *)

\* run, up to the first message of init_mining_session.
Connect ==
  /\ phase = "connect" /\ session < MaxSessions
  /\ phase' = "setup" /\ session' = session + 1
  /\ up' = <<SetupConnection>> /\ dn' = <<>>
  /\ UNCHANGED <<all_jobs, prevhash, target, job, held, channel, receiving, solutions,
                 seq_num, accepted, rejected, flushed, cancelled, found, panicked>>

\* setup_mining_connection and open_channel wait for one frame each; any other
\* than the expected success ends the session (EndSession).
SetupReply ==
  /\ phase = "setup" /\ dn # <<>> /\ Head(dn) = SetupConnectionSuccess
  /\ phase' = "open"
  /\ dn' = Tail(dn) /\ up' = Append(up, OpenStandardMiningChannel)
  /\ UNCHANGED <<session, all_jobs, prevhash, target, job, held, channel, receiving,
                 solutions, seq_num, accepted, rejected, flushed, cancelled, found, panicked>>

\* run_job_solver starts with a new event handler and a new solution handler.
OpenReply ==
  /\ phase = "open" /\ dn # <<>> /\ Head(dn).type = "OpenStandardMiningChannelSuccess"
  /\ phase' = "mine"
  /\ all_jobs' = {} /\ prevhash' = None /\ target' = Head(dn).target
  /\ seq_num' = 0
  /\ dn' = Tail(dn)
  /\ UNCHANGED <<up, session, job, held, channel, receiving, solutions, accepted,
                 rejected, flushed, cancelled, found, panicked>>

Uids(s) == {s[i].uid : i \in 1 .. Len(s)}
Queued == {solutions[i].solution.uid : i \in 1 .. Len(solutions)}

\* The session fails (a send or the 60 s without a frame times out, the server
\* disconnects or refuses) or the client is stopped; main_task invalidates the job
\* and empties the channel and the queue of submitted solutions.
Cleared(s) == <<>>
EndSession ==
  /\ phase # "connect" /\ ~panicked
  /\ phase' = "connect"
  /\ job' = None
  /\ channel' = <<>> /\ receiving' = {}
  /\ solutions' = Cleared(solutions)
  /\ flushed' = flushed \cup Uids(channel) \cup {s.uid : s \in receiving} \cup Queued
  /\ up' = <<>> /\ dn' = <<>>
  /\ UNCHANGED <<session, all_jobs, prevhash, target, held, seq_num, accepted, rejected,
                 cancelled, found, panicked>>

-----------------------------------------------------------------------------
(* StratumEventHandler: one frame.  The receive() that the select polled   *)
(* beside it is dropped, and with it the solution it had taken from the    *)
(* channel and was accounting in the statistics.                           *)

Frame(type) ==
  /\ phase = "mine" /\ ~panicked
  /\ dn # <<>> /\ Head(dn).type = type
  /\ dn' = Tail(dn)
  /\ receiving' = {} /\ cancelled' = cancelled \cup {s.uid : s \in receiving}
  /\ UNCHANGED <<up, phase, session, channel, seq_num, flushed, found>>

\* update_job: StratumJob::new and job::Sender::send.
UpdateJob(id, root, prev) ==
  LET new == [session |-> session, id |-> id, root |-> root, prev |-> prev, target |-> target]
  IN /\ job' = new
     /\ held' = SubSeq(<<new>> \o held, 1,
                       IF Len(held) < HeldJobs THEN Len(held) + 1 ELSE HeldJobs)

Insert(jobs, msg) == {j \in jobs : j.id # msg.id} \cup {msg}

\* (Mutant: every job is mined at once.)
StartsAlways(msg) == prevhash # None
StartsNow(msg) == ~msg.future_job /\ prevhash # None

VisitNewMiningJob ==
  LET msg == Head(dn) IN
  /\ Frame("NewMiningJob")
  /\ all_jobs' = Insert(all_jobs, [id |-> msg.job_id, root |-> msg.merkle_root])
  /\ IF StartsNow(msg) THEN UpdateJob(msg.job_id, msg.merkle_root, prevhash)
     ELSE UNCHANGED <<job, held>>
  /\ UNCHANGED <<prevhash, target, solutions, stats, panicked>>

\* retain(|_, _| true): the other jobs stay.  `expect' when the job is unknown.
Referenced(id) == {j \in all_jobs : j.id = id}
VisitSetNewPrevHash ==
  LET msg == Head(dn) IN
  /\ Frame("SetNewPrevHash")
  /\ prevhash' = msg.prev_hash
  /\ IF Referenced(msg.job_id) # {}
       THEN /\ \E j \in Referenced(msg.job_id) : UpdateJob(j.id, j.root, msg.prev_hash)
            /\ UNCHANGED panicked
       ELSE /\ panicked' = TRUE /\ UNCHANGED <<job, held>>
  /\ UNCHANGED <<all_jobs, target, solutions, stats>>

VisitSetTarget ==
  /\ Frame("SetTarget")
  /\ target' = Head(dn).target
  /\ UNCHANGED <<all_jobs, prevhash, job, held, solutions, stats, panicked>>

\* process_accepted_shares and process_rejected_shares take solutions from the
\* front until the number matches, or all of them when none does.
\* (Mutant: the queue is emptied at each answer.)
TakenAll(seq) == Len(solutions)
Taken(seq) ==
  LET at == {i \in 1 .. Len(solutions) : solutions[i].seq_num = seq}
  IN IF at = {} THEN Len(solutions) ELSE CHOOSE i \in at : \A k \in at : i <= k
Matched(seq) == {i \in 1 .. Taken(seq) : solutions[i].seq_num = seq}
CountedAt(indices) == {solutions[i].solution.uid : i \in indices}

ProcessAcceptedShares(seq) ==
  /\ accepted' = accepted \cup CountedAt(1 .. Taken(seq))
  /\ solutions' = SubSeq(solutions, Taken(seq) + 1, Len(solutions))
VisitSubmitSharesSuccess ==
  /\ Frame("SubmitSharesSuccess")
  /\ ProcessAcceptedShares(Head(dn).last_seq_num)
  /\ UNCHANGED <<rejected, handler, job, held, panicked>>

ProcessRejectedShares(seq) ==
  /\ accepted' = accepted \cup CountedAt((1 .. Taken(seq)) \ Matched(seq))
  /\ rejected' = rejected \cup CountedAt(Matched(seq))
  /\ solutions' = SubSeq(solutions, Taken(seq) + 1, Len(solutions))
VisitSubmitSharesError ==
  /\ Frame("SubmitSharesError")
  /\ ProcessRejectedShares(Head(dn).seq_num)
  /\ UNCHANGED <<handler, job, held, panicked>>

-----------------------------------------------------------------------------
(* Solutions.                                                              *)

\* The hardware finds a solution of a job it still has work of, whatever has
\* become of the job; SolutionRouter puts it into the client's channel.
Find(j) ==
  /\ found < MaxFound
  /\ found' = found + 1
  /\ channel' = Append(channel, [uid |-> found + 1, job |-> j])
  /\ UNCHANGED <<up, dn, phase, session, handler, job, held, receiving, solutions, seq_num,
                 stats, flushed, cancelled, panicked>>

\* SolutionReceiver::receive takes a solution and waits for the statistics' locks.
Receive ==
  /\ phase = "mine" /\ ~panicked
  /\ receiving = {} /\ channel # <<>>
  /\ receiving' = {Head(channel)}
  /\ channel' = Tail(channel)
  /\ UNCHANGED <<up, dn, phase, session, handler, job, held, solutions, seq_num, stats,
                 flushed, cancelled, found, panicked>>

\* receive returns; process_solution remembers the solution and submits it.  Fewer
\* than SeqNums shares are ever unanswered.
ProcessSolution ==
  /\ phase = "mine" /\ ~panicked
  /\ Len(solutions) < SeqNums
  /\ \E s \in receiving :
       /\ solutions' = Append(solutions, [solution |-> s, seq_num |-> seq_num])
       /\ up' = Append(up, SubmitSharesStandard(seq_num, s.job.id, s))
  /\ seq_num' = (seq_num + 1) % SeqNums
  /\ receiving' = {}
  /\ UNCHANGED <<dn, phase, session, handler, job, held, channel, stats, flushed, cancelled, found,
                 panicked>>

ClientStep ==
  \/ SetupReply
  \/ OpenReply
  \/ EndSession
  \/ VisitNewMiningJob
  \/ VisitSetNewPrevHash
  \/ VisitSetTarget
  \/ VisitSubmitSharesSuccess
  \/ VisitSubmitSharesError
  \/ \E j \in Range(held) : Find(j)
  \/ Receive
  \/ ProcessSolution
=============================================================================
