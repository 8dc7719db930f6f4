------------------------- MODULE PoolSessionProofs --------------------------
(***************************************************************************)
(* What the Stratum V2 client promises through its sessions with a pool,   *)
(* for every number of sessions, jobs, blocks, targets and solutions and   *)
(* every width of the sequence numbers: it mines what the pool wants, it   *)
(* knows every job that a message refers to, and it counts every share     *)
(* once and the way the pool decided it.                                   *)
(***************************************************************************)
EXTENDS PoolClientProofs

-----------------------------------------------------------------------------
(* The steps of the pool, and of the session as a whole.                       *)

\* What the client has is left alone.
LEMMA ClientStill ==
  ASSUME SessionInv, UNCHANGED clientVars, intended \subseteq intended',
         verdict.accepted \subseteq verdict'.accepted, verdict.rejected \subseteq verdict'.rejected
  PROVE  Mirrors' /\ Books' /\ Distinct' /\ VerdictsMatch' /\ (Numbered => Numbered')
  <1> USE DEF clientVars
  <1>1. Mirrors' BY MirrorsStill DEF SessionInv
  <1>2. Books' BY BooksStill DEF SessionInv
  <1>3. Distinct' BY DistinctStill DEF SessionInv
  <1>4. VerdictsMatch' BY DEF SessionInv, VerdictsMatch
  <1>5. Numbered => Numbered' BY DEF Numbered, Numbers, Wrapped
  <1> QED BY <1>1, <1>2, <1>3, <1>4, <1>5

\* Steps of the pool: it answers the setup,
LEMMA AnswersSetup ==
  ASSUME SessionInv, PoolSetup
  PROVE  SessionInv'
  <1>1. /\ up # <<>> /\ Head(up) = SetupConnection /\ up' = Tail(up)
        /\ UNCHANGED clientVars /\ UNCHANGED poolVars
    BY DEF PoolSetup
  <1>2. PICK m : dn' = Append(dn, m) BY DEF PoolSetup
  <1>3. Queues BY DEF SessionInv, PoolTypes
  <1>4. Mirrors' /\ Books' /\ Distinct' /\ VerdictsMatch' BY <1>1, ClientStill DEF poolVars
  <1>5. phase = "setup"
    <2>1. Head(up).type = "SetupConnection" BY <1>1 DEF SetupConnection
    <2>2. CASE phase = "open"
      <3>1. up = <<OpenStandardMiningChannel>> BY <1>1, <2>2 DEF SessionInv, Stages
      <3>2. Head(up) = OpenStandardMiningChannel BY <3>1, OneMessage
      <3> QED BY <2>1, <3>2 DEF OpenStandardMiningChannel
    <2>3. CASE phase = "mine"
      <3>1. Shares BY <2>3 DEF SessionInv, Stages, Ledger
      <3>2. PICK n \in Nat \ {0} : n = Len(up) BY <1>1, <1>3, SequenceTail DEF Queues
      <3>3. 1 \in 1 .. n /\ Head(up) = up[1] BY <1>1, <1>3, <3>2, SequenceTail DEF Queues
      <3>4. Head(up).type = "SubmitSharesStandard" BY <3>1, <3>2, <3>3 DEF Shares
      <3> QED BY <2>1, <3>4
    <2> QED BY <1>1, <2>2, <2>3 DEF SessionInv, Stages
  <1>6. up = <<SetupConnection>> /\ dn = <<>> BY <1>1, <1>5 DEF SessionInv, Stages
  <1>7. up' = <<>>
    <2>1. Len(up') = 0 /\ IsSequence(up') BY <1>1, <1>3, <1>6, OneMessage, SequenceTail DEF Queues
    <2> QED BY <2>1, SequenceLen
  <1>8. Len(dn') = 1 /\ IsSequence(dn')
    <2>1. Len(dn) = 0 /\ IsSequence(dn) BY <1>3, <1>6, EmptyIsSequence DEF Queues
    <2>2. Len(dn') = Len(dn) + 1 /\ IsSequence(dn') BY <1>2, <2>1, SequenceAppend, Zenon
    <2> QED BY <2>1, <2>2
  <1>9. PoolTypes'
    BY <1>1, <1>3, <1>7, <1>8, EmptyIsSequence, Zenon
    DEF SessionInv, PoolTypes, Queues, Judges, poolVars, clientVars
  <1>10. Stages' BY <1>1, <1>5, <1>7, <1>8 DEF SessionInv, Stages, clientVars
  <1> QED BY <1>4, <1>9, <1>10 DEF SessionInv

\* opens the channel, with a target, a block and a job that go with it,
LEMMA AnswersOpen ==
  ASSUME SessionInv, PoolOpen
  PROVE  SessionInv'
  <1>1. /\ up # <<>> /\ Head(up) = OpenStandardMiningChannel /\ up' = Tail(up)
        /\ pool_jobs' = 0 /\ pool_prev' = None /\ batch' = None
        /\ UNCHANGED clientVars /\ UNCHANGED <<blocks, intended, verdict>>
    BY DEF PoolOpen
  <1>2. PICK t \in Targets : dn' = Append(dn, OpenStandardMiningChannelSuccess(t)) /\ pool_target' = t
    BY DEF PoolOpen
  <1>3. Queues BY DEF SessionInv, PoolTypes
  <1>4. Mirrors' /\ Books' /\ Distinct' /\ VerdictsMatch' BY <1>1, ClientStill
  <1>5. phase = "open"
    <2>1. Head(up).type = "OpenStandardMiningChannel" BY <1>1 DEF OpenStandardMiningChannel
    <2>2. CASE phase = "setup"
      <3>1. up = <<SetupConnection>> BY <1>1, <2>2 DEF SessionInv, Stages
      <3>2. Head(up) = SetupConnection BY <3>1, OneMessage
      <3> QED BY <2>1, <3>2 DEF SetupConnection
    <2>3. CASE phase = "mine"
      <3>1. Shares BY <2>3 DEF SessionInv, Stages, Ledger
      <3>2. PICK n \in Nat \ {0} : n = Len(up) BY <1>1, <1>3, SequenceTail DEF Queues
      <3>3. 1 \in 1 .. n /\ Head(up) = up[1] BY <1>1, <1>3, <3>2, SequenceTail DEF Queues
      <3>4. Head(up).type = "SubmitSharesStandard" BY <3>1, <3>2, <3>3 DEF Shares
      <3> QED BY <2>1, <3>4
    <2> QED BY <1>1, <2>2, <2>3 DEF SessionInv, Stages
  <1>6. up = <<OpenStandardMiningChannel>> /\ dn = <<>> BY <1>1, <1>5 DEF SessionInv, Stages
  <1>7. up' = <<>>
    <2>1. Len(up') = 0 /\ IsSequence(up') BY <1>1, <1>3, <1>6, OneMessage, SequenceTail DEF Queues
    <2> QED BY <2>1, SequenceLen
  <1>8. PICK m : m = OpenStandardMiningChannelSuccess(t) OBVIOUS
  <1>9. m.type = Open /\ m.target = t BY <1>8 DEF OpenStandardMiningChannelSuccess, Open
  <1>10. /\ dn' = <<m>> /\ Len(dn') = 1 /\ IsSequence(dn') /\ dn' # <<>>
         /\ dn'[1] = m /\ Head(dn') = m
    <2>1. dn' = <<m>> BY <1>2, <1>6, <1>8
    <2>2. dn' # <<>> BY <2>1
    <2> QED BY <2>1, <2>2, OneMessage
  <1>11. PoolTypes'
    BY <1>1, <1>3, <1>7, <1>10, EmptyIsSequence, Zenon
    DEF SessionInv, PoolTypes, Queues, Judges, clientVars
  <1>12. Follows'
    <2>1. PICK T, P, J : /\ T = [i \in 1 .. 2 |-> IF i = 1 THEN target ELSE t]
                         /\ P = [i \in 1 .. 2 |-> IF i = 1 THEN prevhash ELSE None]
                         /\ J = [i \in 1 .. 2 |-> {}]
      BY Zenon
    <2>2. /\ T[1] = target /\ T[2] = t /\ P[1] = prevhash /\ P[2] = None
          /\ J[1] = {} /\ J[2] = {}
      BY <2>1
    <2>3. /\ T[2] = TargetAfter(T[1], m) /\ P[2] = PrevAfter(P[1], m) /\ J[2] = JobsAfter(J[1], m)
      BY <1>9, <2>2 DEF TargetAfter, PrevAfter, JobsAfter
    <2>4. Meant(m, T[1], P[1], J[1])' BY <1>9 DEF Meant, Open
    <2>5. Known(J[1])' BY <2>2 DEF Known
    <2>6. T[1] = target' /\ P[1] = prevhash' BY <1>1, <2>2 DEF clientVars
    <2>7. \A i \in 1 .. 1 : i = 1 /\ i + 1 = 2 OBVIOUS
    <2>8. 0 .. pool_jobs' - 1 \subseteq J[2] BY <1>1
    <2>9. T[2] = pool_target' /\ P[2] = pool_prev' BY <1>1, <1>2, <2>2
    <2>10. ASSUME NEW i \in 1 .. Len(dn')
           PROVE  /\ T[i + 1] = TargetAfter(T[i], dn'[i])
                  /\ P[i + 1] = PrevAfter(P[i], dn'[i])
                  /\ J[i + 1] = JobsAfter(J[i], dn'[i])
                  /\ Meant(dn[i], T[i], P[i], J[i])'
      <3>1. i = 1 /\ i + 1 = 2 BY <1>10, <2>7
      <3>2. dn'[i] = m BY <1>10, <3>1
      <3>3. Meant(dn[i], T[i], P[i], J[i])' BY <2>4, <3>1, <3>2
      <3> QED BY <2>3, <3>1, <3>2, <3>3
    <2>11. Len(dn') + 1 = 2 BY <1>10
    <2>12. Replay(T, P, J, dn)' BY <2>5, <2>6, <2>8, <2>9, <2>10, <2>11 DEF Replay
    <2> QED BY <2>12 DEF Follows
  <1>13. Ledger'
    <2>1. solutions' = <<>> /\ Len(solutions') = 0 /\ Len(up') = 0
      BY <1>1, <1>5, <1>7, EmptyIsSequence DEF SessionInv, Stages, clientVars
    <2>2. Decided' = 0 BY <2>1 DEF Decided
    <2>3. Shares' BY <2>1, <2>2 DEF Shares
    <2>4. PICK c : c = [i \in 0 .. 1 |-> 0] BY Zenon
    <2>5. c[0] = 0 /\ c[1] = 0 BY <2>4
    <2>6. \A q, v : Answers(m, 0, 0, q, v) BY <1>9 DEF Answers, Open
    <2>7. \A q, v : Answering(c, <<m>>, q, 0, v)
      <3>1. Len(<<m>>) = 1 /\ <<m>>[1] = m BY OneMessage
      <3>2. \A i \in 1 .. 1 : i = 1 /\ i - 1 = 0 OBVIOUS
      <3>3. 0 \in 0 .. 0 /\ 0 <= 0 OBVIOUS
      <3> QED BY <2>5, <2>6, <3>1, <3>2, <3>3 DEF Answering
    <2>8. Answering(c, dn, solutions, Decided, verdict)' BY <1>10, <2>2, <2>7
    <2>9. Unsent(c[Len(dn)], solutions, Decided, verdict, batch)'
      BY <1>1, <1>10, <2>2, <2>5 DEF Unsent, Yes
    <2> QED BY <2>3, <2>8, <2>9 DEF Ledger
  <1>14. Stages'
    BY <1>1, <1>5, <1>7, <1>9, <1>10, <1>12, <1>13 DEF SessionInv, Stages, clientVars
  <1> QED BY <1>4, <1>11, <1>14 DEF SessionInv

\* The pool sends a job, a block or a target.
LEMMA Serves ==
  ASSUME SessionInv, Serving, UNCHANGED clientVars, UNCHANGED <<up, batch, verdict>>,
         NEW m, dn' = Append(dn, m),
         m.type \notin {"SubmitSharesSuccess", "SubmitSharesError"},
         intended \subseteq intended', pool_jobs' \in Nat,
         NEW t, t = pool_target, NEW p, p = pool_prev,
         pool_target' = TargetAfter(t, m), pool_prev' = PrevAfter(p, m),
         \A js : 0 .. pool_jobs - 1 \subseteq js =>
                   0 .. pool_jobs' - 1 \subseteq JobsAfter(js, m) /\ Meant(m, t, p, js)'
  PROVE  SessionInv'
  <1>1. Mirrors' /\ Books' /\ Distinct' /\ VerdictsMatch' /\ (Numbered => Numbered')
    BY ClientStill
  <1>2. Queues BY DEF SessionInv, PoolTypes
  <1>3. PoolTypes' BY <1>2, SequenceAppend DEF SessionInv, PoolTypes, Queues, Judges, clientVars
  <1>4. Follows => Follows' BY <1>2, FollowsAdded DEF Queues, clientVars
  <1>5. Ledger => Ledger' BY <1>2, LedgerSends DEF clientVars
  <1>6. CASE phase = "mine"
    <2>1. Stages' BY <1>1, <1>4, <1>5, <1>6 DEF SessionInv, Stages, clientVars
    <2> QED BY <1>1, <1>3, <2>1 DEF SessionInv
  <1>7. CASE phase = "open"
    <2>1. up # <<OpenStandardMiningChannel>>
      <3>1. SUFFICES ASSUME up = <<OpenStandardMiningChannel>> PROVE FALSE OBVIOUS
      <3>2. Len(up) = 1 /\ up[1] = OpenStandardMiningChannel BY <3>1, OneMessage
      <3>3. up[1].type = "SubmitSharesStandard" BY <3>2 DEF Serving, Opened
      <3> QED BY <3>2, <3>3 DEF OpenStandardMiningChannel
    <2>2. up = <<>> /\ dn # <<>> /\ Head(dn).type = Open /\ Follows /\ Ledger
      BY <1>7, <2>1 DEF SessionInv, Stages
    <2>3. Head(dn') = Head(dn) /\ dn' # <<>>
      <3>1. PICK n \in Nat \ {0} : n = Len(dn) BY <1>2, <2>2, SequenceTail DEF Queues
      <3>2. IsSequence(dn') /\ Len(dn') = n + 1 /\ dn'[1] = dn[1]
        <4>1. 1 \in 1 .. n BY <3>1
        <4> QED BY <1>2, <3>1, <4>1, SequenceAppend DEF Queues
      <3>3. dn' # <<>> BY <3>2, EmptyIsSequence
      <3>4. Head(dn') = dn'[1] /\ Head(dn) = dn[1]
        BY <1>2, <2>2, <3>2, <3>3, SequenceTail DEF Queues
      <3> QED BY <3>2, <3>3, <3>4
    <2>4. Stages' BY <1>4, <1>5, <1>7, <2>2, <2>3 DEF SessionInv, Stages, clientVars
    <2> QED BY <1>1, <1>3, <2>4 DEF SessionInv
  <1> QED BY <1>6, <1>7 DEF Serving

\* sends a job,
LEMMA SendsJob ==
  ASSUME SessionInv, NEW future, PoolNewJob(future)
  PROVE  SessionInv'
  <1>1. /\ Serving /\ (~future => pool_prev # None) /\ pool_jobs' = pool_jobs + 1
        /\ dn' = Append(dn, NewMiningJob(pool_jobs, future, pool_jobs))
        /\ UNCHANGED clientVars /\ UNCHANGED <<up, pool_prev, blocks, pool_target, batch, verdict>>
    BY DEF PoolNewJob
  <1>2. PICK n \in Nat : n = pool_jobs BY DEF SessionInv, PoolTypes
  <1>3. PICK m : m = NewMiningJob(n, future, n) OBVIOUS
  <1>4. m.type = "NewMiningJob" /\ m.job_id = n /\ m.merkle_root = n /\ m.future_job = future
    BY <1>3 DEF NewMiningJob
  <1>5. PICK t, p : t = pool_target /\ p = pool_prev OBVIOUS
  <1>6. intended \subseteq intended' BY DEF PoolNewJob, Intend
  <1>7. pool_target' = TargetAfter(t, m) /\ pool_prev' = PrevAfter(p, m)
    BY <1>1, <1>4, <1>5 DEF TargetAfter, PrevAfter, Open
  <1>8. ASSUME NEW js, 0 .. pool_jobs - 1 \subseteq js
        PROVE  0 .. pool_jobs' - 1 \subseteq JobsAfter(js, m) /\ Meant(m, t, p, js)'
    <2>1. JobsAfter(js, m) = js \cup {n} BY <1>4 DEF JobsAfter, Open
    <2>2. \A i \in 0 .. (n + 1) - 1 : i \in 0 .. n - 1 \/ i = n BY <1>2
    <2>3. ~future => Wanted(n, p, t)' BY <1>1, <1>2, <1>5 DEF PoolNewJob, Intend, Wanted, clientVars
    <2>4. Meant(m, t, p, js)' BY <1>4, <2>3 DEF Meant
    <2> QED BY <1>1, <1>2, <1>8, <2>1, <2>2, <2>4
  <1>9. dn' = Append(dn, m) /\ pool_jobs' \in Nat BY <1>1, <1>2, <1>3
  <1>10. m.type \notin {"SubmitSharesSuccess", "SubmitSharesError"} BY <1>4
  <1> QED BY <1>1, <1>5, <1>6, <1>7, <1>8, <1>9, <1>10, Serves, Zenon

\* a block
LEMMA SendsBlock ==
  ASSUME SessionInv, NEW id \in 0 .. pool_jobs - 1, PoolNewBlock(id)
  PROVE  SessionInv'
  <1>1. /\ Serving /\ pool_prev' = blocks + 1
        /\ dn' = Append(dn, SetNewPrevHash(id, blocks + 1))
        /\ UNCHANGED clientVars /\ UNCHANGED <<up, pool_jobs, pool_target, batch, verdict>>
    BY DEF PoolNewBlock
  <1>2. PICK m, b : m = SetNewPrevHash(id, b) /\ b = blocks + 1 OBVIOUS
  <1>3. m.type = "SetNewPrevHash" /\ m.job_id = id /\ m.prev_hash = b
    BY <1>2 DEF SetNewPrevHash
  <1>4. PICK t, p : t = pool_target /\ p = pool_prev OBVIOUS
  <1>5. intended \subseteq intended' BY DEF PoolNewBlock, Intend
  <1>6. pool_target' = TargetAfter(t, m) /\ pool_prev' = PrevAfter(p, m)
    BY <1>1, <1>2, <1>3, <1>4 DEF TargetAfter, PrevAfter, Open
  <1>7. ASSUME NEW js, 0 .. pool_jobs - 1 \subseteq js
        PROVE  0 .. pool_jobs' - 1 \subseteq JobsAfter(js, m) /\ Meant(m, t, p, js)'
    <2>1. JobsAfter(js, m) = js BY <1>3 DEF JobsAfter, Open
    <2>2. Wanted(id, b, t)' BY <1>1, <1>2, <1>4 DEF PoolNewBlock, Intend, Wanted, clientVars
    <2>3. Meant(m, t, p, js)' BY <1>3, <1>7, <2>2 DEF Meant
    <2> QED BY <1>1, <1>7, <2>1, <2>3
  <1>8. dn' = Append(dn, m) /\ pool_jobs' \in Nat BY <1>1, <1>2 DEF SessionInv, PoolTypes
  <1>9. m.type \notin {"SubmitSharesSuccess", "SubmitSharesError"} BY <1>3
  <1> QED BY <1>1, <1>4, <1>5, <1>6, <1>7, <1>8, <1>9, Serves, Zenon

\* or a target,
LEMMA SendsTarget ==
  ASSUME SessionInv, NEW g, PoolSetTarget(g)
  PROVE  SessionInv'
  <1>1. /\ Serving /\ pool_target' = g /\ dn' = Append(dn, SetTarget(g))
        /\ UNCHANGED clientVars /\ UNCHANGED <<up, pool_jobs, pool_prev, intended, batch, verdict>>
    BY DEF PoolSetTarget
  <1>2. PICK m : m = SetTarget(g) OBVIOUS
  <1>3. m.type = "SetTarget" /\ m.target = g BY <1>2 DEF SetTarget
  <1>4. PICK t, p : t = pool_target /\ p = pool_prev OBVIOUS
  <1>5. pool_target' = TargetAfter(t, m) /\ pool_prev' = PrevAfter(p, m)
    BY <1>1, <1>3, <1>4 DEF TargetAfter, PrevAfter, Open
  <1>6. ASSUME NEW js, 0 .. pool_jobs - 1 \subseteq js
        PROVE  0 .. pool_jobs' - 1 \subseteq JobsAfter(js, m) /\ Meant(m, t, p, js)'
    <2>1. JobsAfter(js, m) = js BY <1>3 DEF JobsAfter, Open
    <2>2. Meant(m, t, p, js)' BY <1>3 DEF Meant
    <2> QED BY <1>1, <1>6, <2>1, <2>2
  <1>7. dn' = Append(dn, m) /\ pool_jobs' \in Nat BY <1>1, <1>2 DEF SessionInv, PoolTypes
  <1>8. m.type \notin {"SubmitSharesSuccess", "SubmitSharesError"} BY <1>3
  <1>9. intended \subseteq intended' BY <1>1
  <1> QED BY <1>1, <1>4, <1>5, <1>6, <1>7, <1>8, <1>9, Serves, Zenon

\* Answers move neither the jobs nor the target of the client.
Says(m) == m.type \in {"SubmitSharesSuccess", "SubmitSharesError"}
\* An answer to shares does not disturb what the client is replaying.
LEMMA ReplayAnswer ==
  ASSUME NEW T, NEW P, NEW J, NEW msgs, IsSequence(msgs), Replay(T, P, J, msgs), NEW m, Says(m)
  PROVE  \E T1, P1, J1 : Replay(T1, P1, J1, Append(msgs, m))
  <1>1. PICK n \in Nat : n = Len(msgs) BY SequenceLen
  <1>2. PICK msgs1 : msgs1 = Append(msgs, m) BY Zenon
  <1>3. Len(msgs1) = n + 1 /\ msgs1[n + 1] = m /\ \A i \in 1 .. n : msgs1[i] = msgs[i]
    BY <1>1, <1>2, SequenceAppend
  <1>4. PICK T1, P1, J1 :
          /\ T1 = [i \in 1 .. n + 2 |-> IF i = n + 2 THEN T[n + 1] ELSE T[i]]
          /\ P1 = [i \in 1 .. n + 2 |-> IF i = n + 2 THEN P[n + 1] ELSE P[i]]
          /\ J1 = [i \in 1 .. n + 2 |-> IF i = n + 2 THEN J[n + 1] ELSE J[i]]
    BY Zenon
  <1>5. /\ T1[n + 2] = T[n + 1] /\ P1[n + 2] = P[n + 1] /\ J1[n + 2] = J[n + 1]
        /\ \A i \in 1 .. n + 1 : T1[i] = T[i] /\ P1[i] = P[i] /\ J1[i] = J[i]
    BY <1>4
  <1>6. 1 \in 1 .. n + 1 /\ n + 1 \in 1 .. n + 1 OBVIOUS
  <1>7. ASSUME NEW i \in 1 .. n + 1
        PROVE  /\ T1[i + 1] = TargetAfter(T1[i], msgs1[i])
               /\ P1[i + 1] = PrevAfter(P1[i], msgs1[i])
               /\ J1[i + 1] = JobsAfter(J1[i], msgs1[i])
               /\ Meant(msgs1[i], T1[i], P1[i], J1[i])
    <2>1. CASE i = n + 1
      <3>1. msgs1[i] = m /\ i + 1 = n + 2 /\ T1[i] = T[n + 1] /\ P1[i] = P[n + 1] /\ J1[i] = J[n + 1]
        <4>1. msgs1[i] = m /\ i + 1 = n + 2 BY <1>3, <2>1
        <4>2. T1[n + 1] = T[n + 1] /\ P1[n + 1] = P[n + 1] /\ J1[n + 1] = J[n + 1]
          BY <1>5, <1>6, Zenon
        <4> QED BY <2>1, <4>1, <4>2, Zenon
      <3>2. \A t, q, js : /\ TargetAfter(t, m) = t /\ PrevAfter(q, m) = q /\ JobsAfter(js, m) = js
                          /\ Meant(m, t, q, js)
        BY DEF Says, TargetAfter, PrevAfter, JobsAfter, Meant, Open
      <3> QED BY <1>5, <3>1, <3>2
    <2>2. CASE i # n + 1
      <3>1. i \in 1 .. n /\ i + 1 \in 1 .. n + 1 /\ msgs1[i] = msgs[i] BY <1>3, <2>2
      <3>2. /\ T[i + 1] = TargetAfter(T[i], msgs[i]) /\ P[i + 1] = PrevAfter(P[i], msgs[i])
            /\ J[i + 1] = JobsAfter(J[i], msgs[i]) /\ Meant(msgs[i], T[i], P[i], J[i])
        BY <1>1, <3>1 DEF Replay
      <3> QED BY <1>5, <3>1, <3>2
    <2> QED BY <2>1, <2>2
  <1>8. T1[1] = target /\ P1[1] = prevhash /\ Known(J1[1]) BY <1>5, <1>6 DEF Replay
  <1>9. /\ T1[n + 2] = pool_target /\ P1[n + 2] = pool_prev /\ 0 .. pool_jobs - 1 \subseteq J1[n + 2]
    BY <1>1, <1>5 DEF Replay
  <1>10. Len(msgs1) + 1 = n + 2 BY <1>3
  <1>11. Replay(T1, P1, J1, msgs1) BY <1>3, <1>7, <1>8, <1>9, <1>10 DEF Replay
  <1> QED BY <1>2, <1>11

LEMMA ReplayThen ==
  ASSUME NEW T, NEW P, NEW J, NEW msgs, Replay(T, P, J, msgs), dn' = msgs,
         UNCHANGED <<session, target, prevhash, all_jobs, intended, pool_jobs, pool_prev, pool_target>>
  PROVE  Follows'
  <1>1. Replay(T, P, J, dn)' BY Zenon DEF Replay, Known, Meant, Wanted
  <1> QED BY <1>1 DEF Follows

LEMMA ReplaySent ==
  ASSUME IsSequence(dn), Follows, NEW msgs, msgs = Sent(dn, batch)
  PROVE  IsSequence(msgs) /\ \E T, P, J : Replay(T, P, J, msgs)
  <1>1. CASE batch = None BY <1>1 DEF Sent, Follows
  <1>2. CASE batch # None
    <2>1. PICK m : m = SubmitSharesSuccess(batch) OBVIOUS
    <2>2. Says(m) BY <2>1 DEF SubmitSharesSuccess, Says
    <2>3. PICK T, P, J : Replay(T, P, J, dn) BY DEF Follows
    <2>4. msgs = Append(dn, m) BY <1>2, <2>1 DEF Sent
    <2>5. IsSequence(Append(dn, m)) BY SequenceAppend
    <2>6. \E T1, P1, J1 : Replay(T1, P1, J1, Append(dn, m)) BY <2>2, <2>3, ReplayAnswer
    <2> QED BY <2>4, <2>5, <2>6
  <1> QED BY <1>1, <1>2

\* A share reaches the pool only while the client mines.
LEMMA ShareWhileMining ==
  ASSUME SessionInv, up # <<>>, Head(up).type = "SubmitSharesStandard"
  PROVE  phase = "mine" /\ Follows /\ Ledger /\ Numbered /\ Queues
  <1>1. CASE phase = "setup"
    <2>1. Head(up) = SetupConnection BY <1>1, OneMessage DEF SessionInv, Stages
    <2> QED BY <2>1 DEF SetupConnection
  <1>2. CASE phase = "open"
    <2>1. Head(up) = OpenStandardMiningChannel BY <1>2, OneMessage DEF SessionInv, Stages
    <2> QED BY <2>1 DEF OpenStandardMiningChannel
  <1> QED BY <1>1, <1>2 DEF SessionInv, Stages, PoolTypes

\* accepts a share,
LEMMA Accepts ==
  ASSUME SessionInv, PoolAccept
  PROVE  SessionInv'
  <1>1. /\ up # <<>> /\ Head(up).type = "SubmitSharesStandard" /\ up' = Tail(up)
        /\ batch' = Head(up).seq_num
        /\ UNCHANGED clientVars /\ UNCHANGED <<dn, pool_jobs, pool_prev, blocks, pool_target, intended>>
    BY DEF PoolAccept
  <1>2. /\ verdict'.accepted = verdict.accepted \cup {Head(up).solution.uid}
        /\ verdict'.rejected = verdict.rejected /\ Judges'
    BY Zenon DEF PoolAccept, SessionInv, PoolTypes, Judges
  <1>3. phase = "mine" /\ Follows /\ Ledger /\ Numbered /\ Queues BY <1>1, ShareWhileMining
  <1>4. Mirrors' /\ Books' /\ Distinct' /\ VerdictsMatch' /\ Numbered'
    BY <1>1, <1>2, <1>3, ClientStill
  <1>5. PoolTypes' BY <1>1, <1>2, <1>3, SequenceTail DEF SessionInv, PoolTypes, Queues, clientVars
  <1>6. Follows' BY <1>1, <1>3, FollowsStill DEF clientVars
  <1>7. Ledger' BY <1>1, <1>2, <1>3, LedgerAccepts DEF clientVars
  <1>8. Stages' BY <1>1, <1>3, <1>4, <1>6, <1>7 DEF Stages, clientVars
  <1> QED BY <1>4, <1>5, <1>8 DEF SessionInv

\* acknowledges what it accepted,
LEMMA Acknowledges ==
  ASSUME SessionInv, PoolAcknowledge
  PROVE  SessionInv'
  <1>1. /\ phase = "mine" /\ batch' = None /\ UNCHANGED clientVars
        /\ UNCHANGED <<up, pool_jobs, pool_prev, blocks, pool_target, intended, verdict>>
    BY DEF PoolAcknowledge
  <1>2. dn' = Sent(dn, batch) BY DEF PoolAcknowledge, Acknowledged, Sent
  <1>3. Follows /\ Ledger /\ Numbered /\ Queues BY <1>1 DEF SessionInv, Stages, PoolTypes
  <1>4. Mirrors' /\ Books' /\ Distinct' /\ VerdictsMatch' /\ Numbered'
    BY <1>1, <1>3, ClientStill
  <1>5. PICK msgs : msgs = Sent(dn, batch) OBVIOUS
  <1>6. IsSequence(msgs) /\ \E T, P, J : Replay(T, P, J, msgs)
    BY <1>3, <1>5, ReplaySent DEF Queues
  <1>7. dn' = msgs BY <1>2, <1>5
  <1>8. PoolTypes'
    BY <1>1, <1>3, <1>6, <1>7 DEF SessionInv, PoolTypes, Queues, Judges, clientVars
  <1>9. Follows' BY <1>1, <1>6, <1>7, ReplayThen DEF clientVars
  <1>10. Ledger' BY <1>1, <1>2, <1>3, LedgerAcknowledges DEF clientVars
  <1>11. Stages' BY <1>1, <1>4, <1>9, <1>10 DEF Stages, clientVars
  <1> QED BY <1>4, <1>8, <1>11 DEF SessionInv

\* and rejects a share.
LEMMA Rejects ==
  ASSUME SessionInv, PoolReject
  PROVE  SessionInv'
  <1>1. /\ up # <<>> /\ Head(up).type = "SubmitSharesStandard" /\ up' = Tail(up) /\ batch' = None
        /\ UNCHANGED clientVars /\ UNCHANGED <<pool_jobs, pool_prev, blocks, pool_target, intended>>
    BY DEF PoolReject
  <1>2. /\ verdict'.rejected = verdict.rejected \cup {Head(up).solution.uid}
        /\ verdict'.accepted = verdict.accepted /\ Judges'
    BY Zenon DEF PoolReject, SessionInv, PoolTypes, Judges
  <1>3. phase = "mine" /\ Follows /\ Ledger /\ Numbered /\ Queues BY <1>1, ShareWhileMining
  <1>4. PICK m : m = SubmitSharesError(Head(up).seq_num) OBVIOUS
  <1>5. m.type = "SubmitSharesError" /\ m.seq_num = Head(up).seq_num
    BY <1>4 DEF SubmitSharesError
  <1>6. dn' = Append(Sent(dn, batch), m)
    BY <1>4 DEF PoolReject, Acknowledged, Sent
  <1>7. Mirrors' /\ Books' /\ Distinct' /\ VerdictsMatch' /\ Numbered'
    BY <1>1, <1>2, <1>3, ClientStill
  <1>8. PICK msgs : msgs = Sent(dn, batch) OBVIOUS
  <1>9. IsSequence(msgs) /\ \E T, P, J : Replay(T, P, J, msgs)
    BY <1>3, <1>8, ReplaySent DEF Queues
  <1>10. PICK T, P, J : Replay(T, P, J, msgs) BY <1>9
  <1>11. PICK msgs1 : msgs1 = Append(msgs, m) BY Zenon
  <1>12. IsSequence(msgs1) /\ \E T1, P1, J1 : Replay(T1, P1, J1, msgs1)
    <2>1. Says(m) BY <1>5 DEF Says
    <2>2. \E T1, P1, J1 : Replay(T1, P1, J1, Append(msgs, m)) BY <1>9, <1>10, <2>1, ReplayAnswer
    <2>3. IsSequence(Append(msgs, m)) BY <1>9, SequenceAppend
    <2> QED BY <1>11, <2>2, <2>3
  <1>13. dn' = msgs1 BY <1>6, <1>8, <1>11
  <1>14. IsSequence(up') BY <1>1, <1>3, SequenceTail DEF Queues
  <1>15. PoolTypes'
    BY <1>1, <1>2, <1>3, <1>12, <1>13, <1>14 DEF SessionInv, PoolTypes, Queues, clientVars
  <1>16. Follows' BY <1>1, <1>12, <1>13, ReplayThen DEF clientVars
  <1>17. Ledger' BY <1>1, <1>2, <1>3, <1>5, <1>6, LedgerRejects DEF clientVars
  <1>18. Stages' BY <1>1, <1>3, <1>7, <1>16, <1>17 DEF Stages, clientVars
  <1> QED BY <1>7, <1>15, <1>18 DEF SessionInv

LEMMA SessionSteps == SessionInv /\ [Next]_vars => SessionInv'
  <1> SUFFICES ASSUME SessionInv, [Next]_vars PROVE SessionInv' OBVIOUS
  <1>1. CASE Connect /\ UNCHANGED poolVars BY <1>1, Connects
  <1>2. CASE ClientStep /\ UNCHANGED poolVars
    <2>1. CASE SetupReply BY <1>2, <2>1, SetsUp
    <2>2. CASE OpenReply BY <1>2, <2>2, Opens
    <2>3. CASE EndSession BY <1>2, <2>3, Ends
    <2>4. CASE VisitNewMiningJob BY <1>2, <2>4, HandlesJob
    <2>5. CASE VisitSetNewPrevHash BY <1>2, <2>5, HandlesBlock
    <2>6. CASE VisitSetTarget BY <1>2, <2>6, HandlesTarget
    <2>7. CASE VisitSubmitSharesSuccess BY <1>2, <2>7, HandlesSuccess
    <2>8. CASE VisitSubmitSharesError BY <1>2, <2>8, HandlesError
    <2>9. ASSUME NEW j \in Range(held), Find(j) PROVE SessionInv' BY <1>2, <2>9, Finds
    <2>10. CASE Receive BY <1>2, <2>10, Receives
    <2>11. CASE ProcessSolution BY <1>2, <2>11, Submits
    <2> QED BY <1>2, <2>1, <2>2, <2>3, <2>4, <2>5, <2>6, <2>7, <2>8, <2>9, <2>10, <2>11
            DEF ClientStep
  <1>3. CASE PoolSetup BY <1>3, AnswersSetup
  <1>4. CASE PoolOpen BY <1>4, AnswersOpen
  <1>5. ASSUME NEW future \in BOOLEAN, PoolNewJob(future) PROVE SessionInv' BY <1>5, SendsJob
  <1>6. ASSUME NEW id \in 0 .. pool_jobs - 1, PoolNewBlock(id) PROVE SessionInv' BY <1>6, SendsBlock
  <1>7. ASSUME NEW t \in Targets, PoolSetTarget(t) PROVE SessionInv' BY <1>7, SendsTarget
  <1>8. CASE PoolAccept BY <1>8, Accepts
  <1>9. CASE PoolReject BY <1>9, Rejects
  <1>10. CASE PoolAcknowledge BY <1>10, Acknowledges
  <1>11. CASE UNCHANGED vars
    <2>1. UNCHANGED <<up, dn>> /\ UNCHANGED clientVars /\ UNCHANGED poolVars BY <1>11 DEF vars
    <2>2. Mirrors' /\ Books' /\ Distinct' /\ VerdictsMatch'
      BY <2>1, ClientStill DEF poolVars
    <2>3. PoolTypes' BY <2>1 DEF SessionInv, PoolTypes, Queues, Judges, poolVars, clientVars
    <2>4. Stages' BY <2>1, StagesStill DEF SessionInv, poolVars, clientVars
    <2> QED BY <2>2, <2>3, <2>4 DEF SessionInv
  <1> QED BY <1>1, <1>2, <1>3, <1>4, <1>5, <1>6, <1>7, <1>8, <1>9, <1>10, <1>11 DEF Next

\* The inductive invariant of the session holds for every number of targets, jobs,
\* blocks, sessions, solutions and sequence numbers.
THEOREM SessionInvariance == Spec => []SessionInv
  BY SessionStarts, SessionSteps, PTL DEF Spec

\* visit_new_mining_job, visit_set_new_prev_hash, visit_set_target: the job that
\* is mined is one the pool wanted, with the block and the target that were
\* current at the pool when it asked for it.
THEOREM MinedIsWanted == Spec => []MinesWhatPoolWants
  <1>1. SessionInv => MinesWhatPoolWants BY DEF SessionInv, Mirrors
  <1> QED BY <1>1, SessionInvariance, PTL

\* visit_set_new_prev_hash: the `expect' on the referenced job never fires with a
\* pool that refers only to jobs it sent in the session.
THEOREM ReferencesAreKnown == Spec => []~panicked
  <1>1. SessionInv => ~panicked BY DEF SessionInv, Mirrors
  <1> QED BY <1>1, SessionInvariance, PTL

\* The function of the books is the partition that SolutionsAccounted counts.
LEMMA BooksAreSolutions == SessionInv => SolutionsAccounted
  <1> SUFFICES ASSUME SessionInv PROVE SolutionsAccounted OBVIOUS
  <1>1. PICK w : (\A u \in 1 .. found : w[u] \in 1 .. 7) /\ Places(w) BY DEF SessionInv, Books
  <1>2. PICK places : places = <<Uids(channel), {s.uid : s \in receiving}, Queued, accepted, rejected,
                                 flushed, cancelled>>
    BY Zenon
  <1>3. /\ DOMAIN places = 1 .. 7
        /\ places[1] = Uids(channel) /\ places[2] = Received /\ places[3] = Queued
        /\ places[4] = accepted /\ places[5] = rejected /\ places[6] = flushed
        /\ places[7] = cancelled
    BY <1>2 DEF Received
  <1>4. \A p \in 1 .. 7 : p = 1 \/ p = 2 \/ p = 3 \/ p = 4 \/ p = 5 \/ p = 6 \/ p = 7
    OBVIOUS
  <1>5. ASSUME NEW p \in 1 .. 7, NEW u \in 1 .. found PROVE u \in places[p] <=> w[u] = p
    BY <1>1, <1>3, <1>4 DEF Places
  <1>6. ASSUME NEW u \in 1 .. found
        PROVE  \E p \in DOMAIN places : \A q \in DOMAIN places : u \in places[q] <=> q = p
    <2>1. w[u] \in 1 .. 7 BY <1>1
    <2> QED BY <1>3, <1>5, <2>1
  <1>7. phase # "mine" => solutions = <<>> BY DEF SessionInv, Stages
  <1> QED BY <1>2, <1>6, <1>7, Zenon DEF SolutionsAccounted

\* process_accepted_shares, process_rejected_shares and the clean-up of main_task:
\* each solution is in exactly one place and counted the way the pool decided it.
THEOREM SharesAreAccounted == Spec => []SharesAccounted
  <1>1. SessionInv => SharesAccounted
    BY BooksAreSolutions DEF SessionInv, SharesAccounted
  <1> QED BY <1>1, SessionInvariance, PTL
=============================================================================
