-------------------------------- MODULE V2Link --------------------------------
(***************************************************************************)
(* The Stratum V2 connection between a mining client and whatever serves   *)
(* it (a pool or the translation to Stratum V1): two FIFO queues and the   *)
(* messages on them, which are named as in protocols/stratum.              *)
(***************************************************************************)
EXTENDS Integers, Sequences

CONSTANT None  \* an absent value

VARIABLES
  up,   \* from the client
  dn    \* to the client

SetupConnection == [type |-> "SetupConnection"]
SetupConnectionSuccess == [type |-> "SetupConnectionSuccess"]
SetupConnectionError == [type |-> "SetupConnectionError"]
OpenStandardMiningChannel == [type |-> "OpenStandardMiningChannel"]
OpenStandardMiningChannelSuccess(target) ==
  [type |-> "OpenStandardMiningChannelSuccess", target |-> target]
OpenStandardMiningChannelError == [type |-> "OpenStandardMiningChannelError"]
NewMiningJob(id, future, root) ==
  [type |-> "NewMiningJob", job_id |-> id, future_job |-> future, merkle_root |-> root]
SetNewPrevHash(id, prev) == [type |-> "SetNewPrevHash", job_id |-> id, prev_hash |-> prev]
SetTarget(target) == [type |-> "SetTarget", target |-> target]
\* `solution' is what nonce, time and version stand for.
SubmitSharesStandard(seq, id, solution) ==
  [type |-> "SubmitSharesStandard", seq_num |-> seq, job_id |-> id, solution |-> solution]
SubmitSharesSuccess(last) == [type |-> "SubmitSharesSuccess", last_seq_num |-> last]
SubmitSharesError(seq) == [type |-> "SubmitSharesError", seq_num |-> seq]
=============================================================================
