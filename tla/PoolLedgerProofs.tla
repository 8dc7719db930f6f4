-------------------------- MODULE PoolLedgerProofs --------------------------
(***************************************************************************)
(* The messages between the Stratum V2 client and its pool, and what they  *)
(* amount to: the states the client will go through as it handles what is  *)
(* on its way, and the share that each answer of the pool is about.        *)
(***************************************************************************)
EXTENDS PoolSession, TLAPS

-----------------------------------------------------------------------------
(* What the proofs use of sequences.                                       *)

LEMMA SeqElement ==
  ASSUME NEW S, NEW q \in Seq(S), NEW k \in 1 .. Len(q)
  PROVE  q[k] \in S
  OBVIOUS

LEMMA SeqEmpty ==
  ASSUME NEW S
  PROVE  /\ <<>> \in Seq(S) /\ Len(<<>>) = 0
         /\ \A q \in Seq(S) : q # <<>> => Len(q) \in Nat \ {0}
  OBVIOUS

LEMMA SeqLen ==
  ASSUME NEW S, NEW q \in Seq(S)
  PROVE  Len(q) \in Nat /\ DOMAIN q = 1 .. Len(q) /\ q \in [1 .. Len(q) -> S]
  OBVIOUS

LEMMA SeqTail ==
  ASSUME NEW S, NEW q \in Seq(S), q # <<>>
  PROVE  /\ Head(q) \in S
         /\ Tail(q) \in Seq(S) /\ Len(Tail(q)) = Len(q) - 1
         /\ \A k \in 1 .. Len(Tail(q)) : Tail(q)[k] = q[k + 1]
  OBVIOUS

LEMMA SeqAppend ==
  ASSUME NEW S, NEW q \in Seq(S), NEW x \in S
  PROVE  /\ Append(q, x) \in Seq(S) /\ Append(q, x) # <<>>
         /\ Len(Append(q, x)) = Len(q) + 1
         /\ \A k \in 1 .. Len(q) : Append(q, x)[k] = q[k]
         /\ Append(q, x)[Len(q) + 1] = x
  OBVIOUS

LEMMA SeqWider ==
  ASSUME NEW S, NEW T, NEW q \in Seq(S), S \subseteq T
  PROVE  q \in Seq(T)
  OBVIOUS

LEMMA SeqPart ==
  ASSUME NEW S, NEW q, NEW a \in Int, NEW b \in Int, \A k \in a .. b : q[k] \in S
  PROVE  /\ SubSeq(q, a, b) \in Seq(S)
         /\ Len(SubSeq(q, a, b)) = IF a <= b THEN b - a + 1 ELSE 0
         /\ \A k \in 1 .. b - a + 1 : SubSeq(q, a, b)[k] = q[a + k - 1]
  OBVIOUS

-----------------------------------------------------------------------------
(* Sequences of anything.                                                      *)

IsSequence(s) == \E S : s \in Seq(S)

\* What the library proves of the sequences over a set, for sequences of anything.
LEMMA EmptyIsSequence == IsSequence(<<>>) /\ Len(<<>>) = 0
  <1>1. <<>> \in Seq({}) BY SeqEmpty
  <1> QED BY <1>1 DEF IsSequence

LEMMA SequenceLen ==
  ASSUME NEW s, IsSequence(s)
  PROVE  Len(s) \in Nat /\ (s = <<>> <=> Len(s) = 0)
  <1>1. PICK S : s \in Seq(S) BY DEF IsSequence
  <1> QED BY <1>1, SeqLen, SeqEmpty

LEMMA SequenceAppend ==
  ASSUME NEW s, IsSequence(s), NEW e
  PROVE  /\ IsSequence(Append(s, e))
         /\ Len(Append(s, e)) = Len(s) + 1
         /\ \A i \in 1 .. Len(s) : Append(s, e)[i] = s[i]
         /\ Append(s, e)[Len(s) + 1] = e
  <1>1. PICK S : s \in Seq(S) BY DEF IsSequence
  <1>2. s \in Seq(S \cup {e}) /\ e \in S \cup {e}
    <2>1. S \subseteq S \cup {e} OBVIOUS
    <2> QED BY <1>1, <2>1, SeqWider
  <1>3. /\ Append(s, e) \in Seq(S \cup {e})
        /\ Len(Append(s, e)) = Len(s) + 1
        /\ \A i \in 1 .. Len(s) : Append(s, e)[i] = s[i]
        /\ Append(s, e)[Len(s) + 1] = e
    BY <1>2, SeqAppend
  <1> QED BY <1>3 DEF IsSequence

LEMMA SequenceTail ==
  ASSUME NEW s, IsSequence(s), s # <<>>
  PROVE  /\ IsSequence(Tail(s))
         /\ Len(s) \in Nat \ {0} /\ Len(Tail(s)) = Len(s) - 1
         /\ \A i \in 1 .. Len(Tail(s)) : Tail(s)[i] = s[i + 1]
         /\ Head(s) = s[1]
  <1>1. PICK S : s \in Seq(S) BY DEF IsSequence
  <1>2. /\ Tail(s) \in Seq(S) /\ Len(Tail(s)) = Len(s) - 1
        /\ \A i \in 1 .. Len(Tail(s)) : Tail(s)[i] = s[i + 1]
    BY <1>1, SeqTail
  <1>3. Len(s) \in Nat /\ Len(s) # 0 BY <1>1, SeqLen, SeqEmpty
  <1>4. Head(s) = s[1] BY <1>1
  <1> QED BY <1>2, <1>3, <1>4 DEF IsSequence

LEMMA SequenceDrop ==
  ASSUME NEW s, IsSequence(s), NEW k \in 0 .. Len(s)
  PROVE  /\ IsSequence(SubSeq(s, k + 1, Len(s)))
         /\ Len(SubSeq(s, k + 1, Len(s))) = Len(s) - k
         /\ \A i \in 1 .. Len(s) - k : SubSeq(s, k + 1, Len(s))[i] = s[k + i]
  <1>1. PICK S : s \in Seq(S) BY DEF IsSequence
  <1>2. Len(s) \in Nat BY <1>1, SeqLen
  <1>3. PICK n \in Nat, m \in Nat : n = Len(s) /\ m = k + 1 BY <1>2
  <1>4. \A i \in m .. n : s[i] \in S
    <2>1. \A i \in 1 .. n : s[i] \in S BY <1>1, <1>3, SeqElement
    <2> QED BY <1>3, <2>1
  <1>5. /\ SubSeq(s, m, n) \in Seq(S)
        /\ Len(SubSeq(s, m, n)) = IF m <= n THEN n - m + 1 ELSE 0
        /\ \A i \in 1 .. n - m + 1 : SubSeq(s, m, n)[i] = s[m + i - 1]
    BY <1>4, SeqPart
  <1>6. n - m + 1 = Len(s) - k /\ \A i \in 1 .. n : m + i - 1 = k + i BY <1>2, <1>3
  <1>7. (IF m <= n THEN n - m + 1 ELSE 0) = Len(s) - k BY <1>2, <1>3
  <1>8. \A i \in 1 .. Len(s) - k : SubSeq(s, m, n)[i] = s[k + i]
    <2> TAKE i \in 1 .. Len(s) - k
    <2>1. i \in 1 .. n - m + 1 /\ m + i - 1 = k + i BY <1>2, <1>3
    <2> QED BY <1>5, <2>1
  <1> QED BY <1>3, <1>5, <1>7, <1>8 DEF IsSequence
-----------------------------------------------------------------------------
(* The client follows the pool.                                                *)

Open == "OpenStandardMiningChannelSuccess"

\* The target, the previous hash and the known jobs of a client after a message.
TargetAfter(t, m) == IF m.type \in {Open, "SetTarget"} THEN m.target ELSE t
PrevAfter(p, m) ==
  IF m.type = Open THEN None ELSE IF m.type = "SetNewPrevHash" THEN m.prev_hash ELSE p
JobsAfter(js, m) ==
  IF m.type = Open THEN {} ELSE IF m.type = "NewMiningJob" THEN js \cup {m.job_id} ELSE js

Wanted(id, prev, t) ==
  [session |-> session, id |-> id, root |-> id, prev |-> prev, target |-> t] \in intended

\* What a client in this state makes of the message is what the pool wants.
Meant(m, t, p, js) ==
  /\ m.type = "NewMiningJob" =>
       m.merkle_root = m.job_id /\ (~m.future_job /\ p # None => Wanted(m.job_id, p, t))
  /\ m.type = "SetNewPrevHash" => m.job_id \in js /\ Wanted(m.job_id, m.prev_hash, t)

Known(js) == \A id \in js : \E a \in all_jobs : a.id = id

\* The states that the client will go through while it handles what is on its
\* way: it ends where the pool is now.
Replay(T, P, J, msgs) ==
  /\ T[1] = target /\ P[1] = prevhash /\ Known(J[1])
  /\ \A i \in 1 .. Len(msgs) :
       /\ T[i + 1] = TargetAfter(T[i], msgs[i])
       /\ P[i + 1] = PrevAfter(P[i], msgs[i])
       /\ J[i + 1] = JobsAfter(J[i], msgs[i])
       /\ Meant(msgs[i], T[i], P[i], J[i])
  /\ T[Len(msgs) + 1] = pool_target /\ P[Len(msgs) + 1] = pool_prev
  /\ 0 .. pool_jobs - 1 \subseteq J[Len(msgs) + 1]

Follows == \E T, P, J : Replay(T, P, J, dn)

\* The client handles the next message.
LEMMA FollowsHandled ==
  ASSUME IsSequence(dn), dn # <<>>, Follows, dn' = Tail(dn),
         NEW m, m = Head(dn),
         target' = TargetAfter(target, m), prevhash' = PrevAfter(prevhash, m),
         \A js : Known(js) => Known(JobsAfter(js, m))',
         UNCHANGED <<session, intended, pool_target, pool_prev, pool_jobs>>
  PROVE  Follows'
  <1>1. PICK T, P, J : Replay(T, P, J, dn) BY DEF Follows
  <1>2. PICK n \in Nat \ {0} : n = Len(dn) BY SequenceTail
  <1>3. Len(dn') = n - 1 /\ \A i \in 1 .. n - 1 : dn'[i] = dn[i + 1] BY <1>2, SequenceTail
  <1>4. PICK T1, P1, J1 : /\ T1 = [i \in 1 .. n |-> T[i + 1]]
                          /\ P1 = [i \in 1 .. n |-> P[i + 1]]
                          /\ J1 = [i \in 1 .. n |-> J[i + 1]]
    BY Zenon
  <1>5. 1 \in 1 .. n /\ n \in 1 .. n /\ 1 + 1 = 2 BY <1>2
  <1>6. T1[1] = target' /\ P1[1] = prevhash' /\ Known(J1[1])'
    <2>1. m = dn[1] BY SequenceTail
    <2>2. T[2] = TargetAfter(target, dn[1]) /\ P[2] = PrevAfter(prevhash, dn[1])
          /\ J[2] = JobsAfter(J[1], dn[1]) /\ Known(J[1])
      BY <1>1, <1>2, <1>5 DEF Replay
    <2>3. Known(JobsAfter(J[1], m))' BY <2>2
    <2>4. J1[1] = JobsAfter(J[1], m) BY <1>4, <1>5, <2>1, <2>2
    <2> QED BY <1>4, <1>5, <2>1, <2>2, <2>3, <2>4
  <1>7. ASSUME NEW i \in 1 .. n - 1
        PROVE  /\ T1[i + 1] = TargetAfter(T1[i], dn'[i])
               /\ P1[i + 1] = PrevAfter(P1[i], dn'[i])
               /\ J1[i + 1] = JobsAfter(J1[i], dn'[i])
               /\ Meant(dn[i], T1[i], P1[i], J1[i])'
    <2>1. PICK j \in 1 .. n : j = i + 1 BY <1>2
    <2>2. /\ T[j + 1] = TargetAfter(T[j], dn[j]) /\ P[j + 1] = PrevAfter(P[j], dn[j])
          /\ J[j + 1] = JobsAfter(J[j], dn[j]) /\ Meant(dn[j], T[j], P[j], J[j])
      BY <1>1, <1>2 DEF Replay
    <2>3. i \in 1 .. n /\ T1[i] = T[j] /\ P1[i] = P[j] /\ J1[i] = J[j] /\ dn'[i] = dn[j]
      BY <1>2, <1>3, <1>4, <2>1
    <2>4. T1[j] = T[j + 1] /\ P1[j] = P[j + 1] /\ J1[j] = J[j + 1] BY <1>4
    <2>5. Meant(dn[i], T1[i], P1[i], J1[i])'
      BY <2>2, <2>3, Zenon DEF Meant, Wanted
    <2> QED BY <2>1, <2>2, <2>3, <2>4, <2>5, Zenon
  <1>8. T1[n] = pool_target' /\ P1[n] = pool_prev' /\ 0 .. pool_jobs' - 1 \subseteq J1[n]
    BY <1>1, <1>2, <1>4, <1>5 DEF Replay
  <1>9. Len(dn') + 1 = n BY <1>2, <1>3
  <1>10. Replay(T1, P1, J1, dn)' BY <1>3, <1>6, <1>7, <1>8, <1>9 DEF Replay
  <1> QED BY <1>10 DEF Follows

\* The pool sends a message that moves the client to the pool's new state.
LEMMA FollowsAdded ==
  ASSUME IsSequence(dn), Follows, NEW m, dn' = Append(dn, m),
         UNCHANGED <<session, target, prevhash, all_jobs>>, intended \subseteq intended',
         NEW t, t = pool_target, NEW p, p = pool_prev,
         pool_target' = TargetAfter(t, m), pool_prev' = PrevAfter(p, m),
         \A js : 0 .. pool_jobs - 1 \subseteq js =>
                   0 .. pool_jobs' - 1 \subseteq JobsAfter(js, m) /\ Meant(m, t, p, js)'
  PROVE  Follows'
  <1>1. PICK T, P, J : Replay(T, P, J, dn) BY DEF Follows
  <1>2. PICK n \in Nat : n = Len(dn) BY SequenceLen
  <1>3. Len(dn') = n + 1 /\ dn'[n + 1] = m /\ \A i \in 1 .. n : dn'[i] = dn[i]
    BY <1>2, SequenceAppend
  <1>4. PICK T1, P1, J1 :
          /\ T1 = [i \in 1 .. n + 2 |-> IF i = n + 2 THEN TargetAfter(t, m) ELSE T[i]]
          /\ P1 = [i \in 1 .. n + 2 |-> IF i = n + 2 THEN PrevAfter(p, m) ELSE P[i]]
          /\ J1 = [i \in 1 .. n + 2 |-> IF i = n + 2 THEN JobsAfter(J[n + 1], m) ELSE J[i]]
    BY Zenon
  <1>5. T[n + 1] = t /\ P[n + 1] = p /\ 0 .. pool_jobs - 1 \subseteq J[n + 1]
    BY <1>1, <1>2 DEF Replay
  <1>6. /\ T1[n + 2] = TargetAfter(t, m) /\ P1[n + 2] = PrevAfter(p, m)
        /\ J1[n + 2] = JobsAfter(J[n + 1], m)
        /\ \A i \in 1 .. n + 1 : T1[i] = T[i] /\ P1[i] = P[i] /\ J1[i] = J[i]
    BY <1>4
  <1>7. T1[1] = target' /\ P1[1] = prevhash' /\ Known(J1[1])'
    BY <1>1, <1>2, <1>6 DEF Replay, Known
  <1>8. ASSUME NEW i \in 1 .. n + 1
        PROVE  /\ T1[i + 1] = TargetAfter(T1[i], dn'[i])
               /\ P1[i + 1] = PrevAfter(P1[i], dn'[i])
               /\ J1[i + 1] = JobsAfter(J1[i], dn'[i])
               /\ Meant(dn[i], T1[i], P1[i], J1[i])'
    <2>1. CASE i = n + 1
      <3>1. T1[i] = t /\ P1[i] = p /\ J1[i] = J[n + 1] /\ dn'[i] = m /\ i + 1 = n + 2
        BY <1>3, <1>5, <1>6, <2>1
      <3>2. Meant(m, t, p, J[n + 1])' BY <1>5
      <3>3. Meant(dn[i], T1[i], P1[i], J1[i])' BY <3>1, <3>2
      <3> QED BY <1>6, <3>1, <3>3
    <2>2. CASE i # n + 1
      <3>1. i \in 1 .. n /\ i + 1 \in 1 .. n + 1 /\ dn'[i] = dn[i] BY <1>3, <2>2
      <3>2. /\ T[i + 1] = TargetAfter(T[i], dn[i]) /\ P[i + 1] = PrevAfter(P[i], dn[i])
            /\ J[i + 1] = JobsAfter(J[i], dn[i]) /\ Meant(dn[i], T[i], P[i], J[i])
        BY <1>1, <1>2, <3>1 DEF Replay
      <3>3. /\ T1[i] = T[i] /\ P1[i] = P[i] /\ J1[i] = J[i]
            /\ T1[i + 1] = T[i + 1] /\ P1[i + 1] = P[i + 1] /\ J1[i + 1] = J[i + 1]
        BY <1>6, <3>1
      <3>4. Meant(dn[i], T1[i], P1[i], J1[i])' BY <3>1, <3>2, <3>3 DEF Meant, Wanted
      <3> QED BY <3>1, <3>2, <3>3, <3>4
    <2> QED BY <2>1, <2>2, Zenon
  <1>9. /\ T1[n + 2] = pool_target' /\ P1[n + 2] = pool_prev'
        /\ 0 .. pool_jobs' - 1 \subseteq J1[n + 2]
    BY <1>5, <1>6
  <1>10. Len(dn') + 1 = n + 2 BY <1>3
  <1>11. Replay(T1, P1, J1, dn)' BY <1>3, <1>7, <1>8, <1>9, <1>10 DEF Replay
  <1> QED BY <1>11 DEF Follows

\* Nothing of this changes.
LEMMA FollowsStill ==
  ASSUME Follows,
         UNCHANGED <<dn, session, target, prevhash, all_jobs, intended, pool_target, pool_prev, pool_jobs>>
  PROVE  Follows'
  <1>1. PICK T, P, J : Replay(T, P, J, dn) BY DEF Follows
  <1>2. Replay(T, P, J, dn)' BY <1>1 DEF Replay, Known, Meant, Wanted
  <1> QED BY <1>2 DEF Follows

-----------------------------------------------------------------------------
(* The client's queue and the pool's answers.                                  *)

\* The pool accepted the solutions at these places of the queue.
Yes(a, b, q, v) == \A k \in a .. b : q[k].solution.uid \in v.accepted

\* A message that answers the solutions of q after place a, up to place b.
Answers(m, a, b, q, v) ==
  /\ m.type = "SubmitSharesSuccess" =>
       a < b /\ q[b].seq_num = m.last_seq_num /\ Yes(a + 1, b, q, v)
  /\ m.type = "SubmitSharesError" =>
       /\ a < b /\ q[b].seq_num = m.seq_num /\ Yes(a + 1, b - 1, q, v)
       /\ q[b].solution.uid \in v.rejected
  /\ m.type \notin {"SubmitSharesSuccess", "SubmitSharesError"} => a = b

\* The i-th message on its way answers up to place c[i], at most d.
Answering(c, msgs, q, d, v) ==
  /\ c[0] = 0
  /\ \A i \in 1 .. Len(msgs) : c[i] \in 0 .. d /\ Answers(msgs[i], c[i - 1], c[i], q, v)
  /\ \A i, j \in 1 .. Len(msgs) : i <= j => c[i] <= c[j]

\* Those after the last answer are accepted, and the last one is the batch.
Unsent(a, q, d, v, last) ==
  /\ Yes(a + 1, d, q, v)
  /\ last # None => a < d /\ last = q[d].seq_num

\* The solutions that the pool has not seen are on their way to it.
Decided == Len(solutions) - Len(up)
Shares ==
  /\ Decided \in Nat
  /\ \A k \in 1 .. Len(up) :
       /\ up[k].type = "SubmitSharesStandard"
       /\ up[k].seq_num = solutions[Decided + k].seq_num
       /\ up[k].solution = solutions[Decided + k].solution
Ledger ==
  /\ Shares
  /\ \E c : /\ Answering(c, dn, solutions, Decided, verdict)
            /\ Unsent(c[Len(dn)], solutions, Decided, verdict, batch)

\* The answers on their way stay good when the queue grows at its end.
LEMMA AnsweringMore ==
  ASSUME NEW c, NEW msgs, NEW q, NEW d \in Nat, NEW v, Answering(c, msgs, q, d, v),
         NEW q1, NEW d1 \in Nat, NEW v1, d <= d1, \A k \in 1 .. d : q1[k] = q[k],
         v.accepted \subseteq v1.accepted, v.rejected \subseteq v1.rejected,
         IsSequence(msgs)
  PROVE  Answering(c, msgs, q1, d1, v1)
  <1> SUFFICES ASSUME NEW i \in 1 .. Len(msgs)
               PROVE  c[i] \in 0 .. d1 /\ Answers(msgs[i], c[i - 1], c[i], q1, v1)
    BY DEF Answering
  <1>0. Len(msgs) \in Nat BY SequenceLen
  <1>1. PICK b \in 0 .. d : b = c[i] /\ Answers(msgs[i], c[i - 1], b, q, v) BY DEF Answering
  <1>2. PICK a \in 0 .. d : a = c[i - 1]
    <2>1. CASE i = 1 BY <1>0, <2>1 DEF Answering
    <2>2. CASE i # 1
      <3>1. i - 1 \in 1 .. Len(msgs) BY <1>0, <2>2
      <3> QED BY <3>1 DEF Answering
    <2> QED BY <2>1, <2>2
  <1>3. \A k \in a + 1 .. b : q1[k] = q[k] BY <1>1, <1>2
  <1>4. Yes(a + 1, b, q, v) => Yes(a + 1, b, q1, v1) BY <1>3 DEF Yes
  <1>5. Yes(a + 1, b - 1, q, v) => Yes(a + 1, b - 1, q1, v1)
    <2>1. \A k \in a + 1 .. b - 1 : k \in a + 1 .. b BY <1>1, <1>2
    <2> QED BY <1>3, <2>1 DEF Yes
  <1>6. a < b => q1[b] = q[b] BY <1>1, <1>2, <1>3
  <1>7. Answers(msgs[i], a, b, q, v) BY <1>1, <1>2
  <1>8. Answers(msgs[i], a, b, q1, v1) BY <1>4, <1>5, <1>6, <1>7 DEF Answers
  <1> QED BY <1>1, <1>2, <1>8

\* One more message is sent, and with it the first b solutions are answered.
AnsweringNext(msgs, m, q, d, v, b) ==
  \E c1 : Answering(c1, Append(msgs, m), q, d, v) /\ c1[Len(msgs) + 1] = b

\* An answer that is sent covers the shares decided since the last one.
LEMMA AnsweringAppend ==
  ASSUME NEW c, NEW msgs, NEW q, NEW d \in Nat, NEW v, Answering(c, msgs, q, d, v),
         IsSequence(msgs), NEW m, NEW b \in 0 .. d, Answers(m, c[Len(msgs)], b, q, v)
  PROVE  AnsweringNext(msgs, m, q, d, v, b)
  <1>1. PICK n \in Nat : n = Len(msgs) BY SequenceLen
  <1>2. PICK c1 : c1 = [i \in 0 .. n + 1 |-> IF i = n + 1 THEN b ELSE c[i]] BY Zenon
  <1>3. c1[n + 1] = b /\ \A i \in 0 .. n : c1[i] = c[i] BY <1>2
  <1>4. PICK msgs1 : msgs1 = Append(msgs, m) BY Zenon
  <1>5. Len(msgs1) = n + 1 /\ msgs1[n + 1] = m /\ \A i \in 1 .. n : msgs1[i] = msgs[i]
    BY <1>1, <1>4, SequenceAppend
  <1>6. c1[0] = 0 BY <1>3 DEF Answering
  <1>7. ASSUME NEW i \in 1 .. n + 1
        PROVE  c1[i] \in 0 .. d /\ Answers(msgs1[i], c1[i - 1], c1[i], q, v)
    <2>1. CASE i = n + 1
      <3>1. i - 1 = n /\ n \in 0 .. n BY <2>1
      <3> QED BY <1>1, <1>3, <1>5, <2>1, <3>1
    <2>2. CASE i # n + 1
      <3>1. i \in 1 .. n /\ i \in 0 .. n /\ i - 1 \in 0 .. n BY <2>2
      <3> QED BY <1>1, <1>3, <1>5, <3>1 DEF Answering
    <2> QED BY <2>1, <2>2
  <1>8. ASSUME NEW i \in 1 .. n + 1, NEW j \in 1 .. n + 1, i <= j PROVE c1[i] <= c1[j]
    <2>1. CASE j \in 1 .. n
      <3>1. i \in 1 .. n /\ i \in 0 .. n /\ j \in 0 .. n BY <1>8, <2>1
      <3> QED BY <1>1, <1>3, <1>8, <2>1, <3>1 DEF Answering
    <2>2. CASE j = n + 1 /\ i \in 1 .. n
      <3>1. n \in 1 .. n /\ i \in 0 .. n /\ i <= n BY <2>2
      <3>2. c[i] <= c[n] /\ c[n] \in 0 .. d /\ c[i] \in 0 .. d BY <1>1, <2>2, <3>1 DEF Answering
      <3>3. c[n] <= b BY <1>1, <3>2 DEF Answers
      <3> QED BY <1>3, <2>2, <3>1, <3>2, <3>3
    <2>3. CASE j = n + 1 /\ i = n + 1 BY <1>3, <2>3
    <2> QED BY <1>8, <2>1, <2>2, <2>3
  <1>9. Answering(c1, msgs1, q, d, v) BY <1>5, <1>6, <1>7, <1>8 DEF Answering
  <1> QED BY <1>1, <1>3, <1>4, <1>9 DEF AnsweringNext

\* The client handles a message that answers its first k solutions.
AnswersFirst(c, k) == c[1] = k
Dropped(q, q1, d, k) == \A i \in 1 .. d - k : q1[i] = q[k + i]
AnsweringRest(c, msgs, q1, d, v, k) ==
  \E c1 : Answering(c1, Tail(msgs), q1, d - k, v) /\ c1[Len(msgs) - 1] = c[Len(msgs)] - k

\* When the first answer is handled, the others cover what it leaves.
LEMMA AnsweringTail ==
  ASSUME NEW c, NEW msgs, NEW q, NEW d \in Nat, NEW v, Answering(c, msgs, q, d, v),
         IsSequence(msgs), msgs # <<>>, NEW k, AnswersFirst(c, k),
         NEW q1, Dropped(q, q1, d, k)
  PROVE  AnsweringRest(c, msgs, q1, d, v, k)
  <1>1. PICK n \in Nat \ {0} : n = Len(msgs) BY SequenceTail
  <1>2. k \in 0 .. d /\ k = c[1]
    <2>1. 1 \in 1 .. n BY <1>1
    <2> QED BY <1>1, <2>1 DEF Answering, AnswersFirst
  <1>3. PICK c1 : c1 = [i \in 0 .. n - 1 |-> c[i + 1] - k] BY Zenon
  <1>4. \A i \in 0 .. n - 1 : c1[i] = c[i + 1] - k BY <1>3
  <1>5. PICK msgs1 : msgs1 = Tail(msgs) BY Zenon
  <1>6. Len(msgs1) = n - 1 /\ \A i \in 1 .. n - 1 : msgs1[i] = msgs[i + 1] BY <1>1, <1>5, SequenceTail
  <1>7. \A i \in 1 .. n : c[i] \in k .. d
    <2> TAKE i \in 1 .. n
    <2>1. 1 \in 1 .. n /\ 1 <= i BY <1>1
    <2>2. c[i] \in 0 .. d /\ c[1] <= c[i] BY <1>1, <2>1 DEF Answering
    <2> QED BY <1>2, <2>2
  <1>8. c1[0] = 0
    <2>1. 0 \in 0 .. n - 1 /\ 0 + 1 = 1 BY <1>1
    <2> QED BY <1>2, <1>4, <2>1
  <1>9. ASSUME NEW i \in 1 .. n - 1
        PROVE  c1[i] \in 0 .. d - k /\ Answers(msgs1[i], c1[i - 1], c1[i], q1, v)
    <2>1. PICK j \in 2 .. n : j = i + 1 BY <1>1
    <2>2. i \in 1 .. n /\ i \in 0 .. n - 1 /\ i - 1 \in 0 .. n - 1 /\ (i - 1) + 1 = i /\ j - 1 = i
      BY <1>1, <2>1
    <2>3. PICK a \in k .. d, b \in k .. d : a = c[i] /\ b = c[j] BY <1>1, <1>7, <2>2
    <2>4. c1[i - 1] = a - k /\ c1[i] = b - k BY <1>4, <2>1, <2>2, <2>3
    <2>5. Answers(msgs[j], a, b, q, v) BY <1>1, <2>2, <2>3 DEF Answering
    <2>6. \A x \in 1 .. d - k : q1[x] = q[k + x] BY DEF Dropped
    <2>0. d \in Nat /\ k \in Nat /\ a \in Nat /\ b \in Nat BY <1>2, <2>3
    <2>b. k <= a /\ a <= d /\ k <= b /\ b <= d BY <2>0
    <2>7. PICK a1 \in Nat, b1 \in Nat : a1 = a - k /\ b1 = b - k
      <3>1. a - k \in Nat /\ b - k \in Nat BY <2>0, <2>b
      <3> QED BY <3>1
    <2>a. a1 + k = a /\ b1 + k = b /\ a1 <= d - k /\ b1 <= d - k
      <3>1. a1 + k = a /\ b1 + k = b BY <2>0, <2>7
      <3>2. a1 <= d - k BY <2>0, <2>b, <2>7
      <3>3. b1 <= d - k BY <2>0, <2>b, <2>7
      <3> QED BY <3>1, <3>2, <3>3
    <2>8. Yes(a + 1, b, q, v) => Yes(a1 + 1, b1, q1, v)
      <3> SUFFICES ASSUME Yes(a + 1, b, q, v), NEW x \in a1 + 1 .. b1
                   PROVE  q1[x].solution.uid \in v.accepted
        BY DEF Yes
      <3>1. x \in 1 .. d - k /\ k + x \in a + 1 .. b BY <2>0, <2>7, <2>a
      <3> QED BY <2>6, <3>1 DEF Yes
    <2>9. Yes(a + 1, b - 1, q, v) => Yes(a1 + 1, b1 - 1, q1, v)
      <3> SUFFICES ASSUME Yes(a + 1, b - 1, q, v), NEW x \in a1 + 1 .. b1 - 1
                   PROVE  q1[x].solution.uid \in v.accepted
        BY DEF Yes
      <3>1. x \in 1 .. d - k /\ k + x \in a + 1 .. b - 1 BY <2>0, <2>7, <2>a
      <3> QED BY <2>6, <3>1 DEF Yes
    <2>10. a < b => a1 < b1 /\ q1[b1] = q[b]
      <3>1. a < b => b1 \in 1 .. d - k /\ k + b1 = b BY <2>0, <2>7, <2>a
      <3>2. a < b => a1 < b1 BY <2>0, <2>7, <2>a
      <3> QED BY <2>6, <3>1, <3>2
    <2>11. a = b => a1 = b1 BY <2>7
    <2>12. Answers(msgs[j], a1, b1, q1, v) BY <2>5, <2>8, <2>9, <2>10, <2>11 DEF Answers
    <2>13. c1[i] \in 0 .. d - k
      <3>1. c1[i] = b1 BY <2>4, <2>7
      <3> QED BY <2>0, <2>a, <3>1
    <2>14. msgs1[i] = msgs[j] BY <1>6, <2>1
    <2>15. c1[i - 1] = a1 /\ c1[i] = b1 BY <2>4, <2>7
    <2> QED BY <2>12, <2>13, <2>14, <2>15, Zenon
  <1>10. ASSUME NEW i \in 1 .. n - 1, NEW j \in 1 .. n - 1, i <= j PROVE c1[i] <= c1[j]
    <2>1. i + 1 \in 1 .. n /\ j + 1 \in 1 .. n /\ i + 1 <= j + 1 /\ i \in 0 .. n - 1 /\ j \in 0 .. n - 1
      BY <1>1, <1>10
    <2>2. c[i + 1] <= c[j + 1] BY <1>1, <2>1 DEF Answering
    <2>3. c[i + 1] \in k .. d /\ c[j + 1] \in k .. d BY <1>7, <2>1
    <2> QED BY <1>2, <1>4, <2>1, <2>2, <2>3, SMTT(30)
  <1>11. Answering(c1, msgs1, q1, d - k, v) BY <1>6, <1>8, <1>9, <1>10 DEF Answering
  <1>12. c1[n - 1] = c[n] - k
    <2>1. n - 1 \in 0 .. n - 1 /\ (n - 1) + 1 = n BY <1>1
    <2> QED BY <1>4, <2>1
  <1> QED BY <1>1, <1>2, <1>5, <1>11, <1>12 DEF AnsweringRest

\* The sequence numbers of the queue are consecutive, and no two are the same.
Wrapped(b, k) == IF b + k < SeqNums THEN b + k ELSE b + k - SeqNums
Numbers(b) ==
  /\ Len(solutions) <= SeqNums
  /\ \A i \in 1 .. Len(solutions) : solutions[i].seq_num = Wrapped(b, i - 1)
  /\ seq_num = Wrapped(b, Len(solutions))
Numbered == \E b \in 0 .. SeqNums - 1 : Numbers(b)

LEMMA SeqNumsPositive == SeqNums \in Nat \ {0}
  BY ClientAssumption

\* The sequence number of an answer finds its share in the queue, wrapped or not.
LEMMA AnswerMatches ==
  ASSUME Numbered, IsSequence(solutions), NEW k \in 1 .. Len(solutions), NEW seq,
         solutions[k].seq_num = seq
  PROVE  Taken(seq) = k /\ Matched(seq) = {k}
  <1>1. PICK b \in 0 .. SeqNums - 1 : Numbers(b) BY DEF Numbered
  <1>2. PICK n \in Nat : n = Len(solutions) BY SequenceLen
  <1>3. ASSUME NEW i \in 1 .. n, solutions[i].seq_num = seq PROVE i = k
    <2>1. n <= SeqNums /\ Wrapped(b, i - 1) = Wrapped(b, k - 1) BY <1>1, <1>2, <1>3 DEF Numbers
    <2> QED BY <1>2, <2>1, SeqNumsPositive DEF Wrapped
  <1>4. PICK at : at = {i \in 1 .. n : solutions[i].seq_num = seq} BY Zenon
  <1>5. at = {k} BY <1>2, <1>3, <1>4
  <1>6. (CHOOSE i \in at : \A j \in at : i <= j) = k
    <2>1. \E i \in at : \A j \in at : i <= j BY <1>2, <1>5
    <2> QED BY <1>5, <2>1
  <1>7. Taken(seq) = k BY <1>2, <1>4, <1>5, <1>6 DEF Taken
  <1>8. Matched(seq) = {i \in 1 .. k : solutions[i].seq_num = seq} BY <1>7 DEF Matched
  <1>9. \A i \in 1 .. k : i \in 1 .. n BY <1>2
  <1>10. k \in 1 .. k BY <1>2
  <1> QED BY <1>3, <1>7, <1>8, <1>9, <1>10

\* The first k solutions leave the queue.
LEMMA NumberedDrop ==
  ASSUME Numbered, IsSequence(solutions), NEW k \in 0 .. Len(solutions),
         Len(solutions') = Len(solutions) - k, seq_num' = seq_num,
         \A i \in 1 .. Len(solutions) - k : solutions'[i] = solutions[k + i]
  PROVE  Numbered'
  <1>1. PICK b \in 0 .. SeqNums - 1 : Numbers(b) BY DEF Numbered
  <1>2. PICK n \in Nat : n = Len(solutions) BY SequenceLen
  <1>3. k \in Nat /\ k <= n /\ n <= SeqNums BY <1>1, <1>2 DEF Numbers
  <1>4. PICK b1 : b1 = Wrapped(b, k) OBVIOUS
  <1>5. b1 \in 0 .. SeqNums - 1 BY <1>3, <1>4, SeqNumsPositive DEF Wrapped
  <1>6. ASSUME NEW i \in 1 .. n - k PROVE solutions'[i].seq_num = Wrapped(b1, i - 1)
    <2>1. PICK j \in 1 .. n : j = k + i BY <1>3
    <2>2. solutions'[i].seq_num = Wrapped(b, j - 1) BY <1>1, <1>2, <2>1 DEF Numbers
    <2>3. Wrapped(b, j - 1) = Wrapped(b1, i - 1)
      BY <1>3, <1>4, <2>1, SeqNumsPositive DEF Wrapped
    <2> QED BY <2>2, <2>3
  <1>7. seq_num' = Wrapped(b1, n - k)
    <2>1. seq_num' = Wrapped(b, n) BY <1>1, <1>2 DEF Numbers
    <2>2. Wrapped(b, n) = Wrapped(b1, n - k) BY <1>3, <1>4, SeqNumsPositive DEF Wrapped
    <2> QED BY <2>1, <2>2
  <1>8. Len(solutions') = n - k /\ n - k <= SeqNums BY <1>2, <1>3, SeqNumsPositive
  <1>9. Numbers(b1)' BY <1>6, <1>7, <1>8 DEF Numbers, Wrapped
  <1> QED BY <1>5, <1>9 DEF Numbered

\* A solution joins the queue.
LEMMA NumberedAppend ==
  ASSUME Numbered, IsSequence(solutions), Len(solutions) < SeqNums, NEW e,
         solutions' = Append(solutions, e), e.seq_num = seq_num, seq_num' = (seq_num + 1) % SeqNums
  PROVE  Numbered'
  <1>1. PICK b \in 0 .. SeqNums - 1 : Numbers(b) BY DEF Numbered
  <1>2. PICK n \in Nat : n = Len(solutions) BY SequenceLen
  <1>3. Len(solutions') = n + 1 /\ solutions'[n + 1] = e
        /\ \A i \in 1 .. n : solutions'[i] = solutions[i]
    BY <1>2, SequenceAppend
  <1>4. seq_num = Wrapped(b, n) /\ n < SeqNums BY <1>1, <1>2 DEF Numbers
  <1>5. seq_num \in 0 .. SeqNums - 1 BY <1>4, SeqNumsPositive DEF Wrapped
  <1>6. (seq_num + 1) % SeqNums = IF seq_num + 1 < SeqNums THEN seq_num + 1 ELSE 0
    <2>1. PICK x \in 0 .. SeqNums - 1 : x = seq_num BY <1>5
    <2>2. CASE x + 1 < SeqNums
      <3>1. (x + 1) % SeqNums = x + 1 BY <2>2, SeqNumsPositive
      <3> QED BY <2>1, <2>2, <3>1
    <2>3. CASE x + 1 = SeqNums
      <3>1. SeqNums % SeqNums = 0 BY SeqNumsPositive
      <3> QED BY <2>1, <2>3, <3>1, SeqNumsPositive
    <2> QED BY <2>2, <2>3, SeqNumsPositive
  <1>7. seq_num' = Wrapped(b, n + 1) BY <1>4, <1>6, SeqNumsPositive DEF Wrapped
  <1>8. ASSUME NEW i \in 1 .. n + 1 PROVE solutions'[i].seq_num = Wrapped(b, i - 1)
    <2>1. CASE i = n + 1
      <3>1. i - 1 = n BY <2>1
      <3> QED BY <1>3, <1>4, <2>1, <3>1
    <2>2. CASE i # n + 1
      <3>1. i \in 1 .. n BY <2>2
      <3> QED BY <1>1, <1>2, <1>3, <3>1 DEF Numbers
    <2> QED BY <2>1, <2>2, Zenon
  <1>9. n + 1 <= SeqNums BY <1>4, SeqNumsPositive
  <1>10. Numbers(b)' BY <1>3, <1>7, <1>8, <1>9, Zenon DEF Numbers, Wrapped
  <1> QED BY <1>10 DEF Numbered

Queues == IsSequence(dn) /\ IsSequence(up) /\ IsSequence(solutions) /\ IsSequence(channel)

\* The client handles a message; the k solutions it answers leave the queue.
LEMMA LedgerHandled ==
  ASSUME Queues, Shares, NEW c, Answering(c, dn, solutions, Decided, verdict),
         Unsent(c[Len(dn)], solutions, Decided, verdict, batch),
         dn # <<>>, dn' = Tail(dn), UNCHANGED <<up, verdict, batch>>,
         Len(solutions') = Len(solutions) - c[1],
         \A i \in 1 .. Len(solutions) - c[1] : solutions'[i] = solutions[c[1] + i]
  PROVE  Ledger'
  <1>1. PICK n \in Nat, l \in Nat : n = Len(solutions) /\ l = Len(up) BY SequenceLen DEF Queues
  <1>2. PICK d \in Nat : d = Decided BY DEF Shares
  <1>3. PICK w \in Nat \ {0} : w = Len(dn) BY SequenceTail DEF Queues
  <1>4. Answering(c, dn, solutions, d, verdict) BY <1>2
  <1>5. 1 \in 1 .. w /\ w \in 1 .. w /\ 1 <= w BY <1>3
  <1>6. PICK k \in 0 .. d, e \in 0 .. d : k = c[1] /\ e = c[w] /\ k <= e
    <2>1. c[1] \in 0 .. d /\ c[w] \in 0 .. d /\ c[1] <= c[w] BY <1>3, <1>4, <1>5, Zenon DEF Answering
    <2> QED BY <2>1
  <1>a. k \in Nat /\ e \in Nat /\ k <= e /\ e <= d BY <1>6
  <1>7. d = n - l BY <1>1, <1>2 DEF Decided
  <1>8. PICK d1 \in Nat, e1 \in Nat : d1 = d - k /\ e1 = e - k
    <2>1. d - k \in Nat /\ e - k \in Nat BY <1>a
    <2> QED BY <2>1
  <1>9. Decided' = d1
    <2>1. Len(solutions') = n - k /\ Len(up') = l BY <1>1, <1>6
    <2>2. (n - k) - l = d1 BY <1>a, <1>7, <1>8
    <2> QED BY <2>1, <2>2 DEF Decided
  <1>10. \A i \in 1 .. n - k : solutions'[i] = solutions[k + i] BY <1>1, <1>6
  <1>11. Shares'
    <2>1. ASSUME NEW i \in 1 .. l PROVE solutions'[d1 + i] = solutions[d + i]
      <3>1. PICK j \in 1 .. n - k : j = d1 + i
        <4>1. d1 + i \in 1 .. n - k BY <1>a, <1>7, <1>8, SMTT(30)
        <4> QED BY <4>1
      <3>2. k + j = d + i BY <1>a, <1>8, <3>1, SMTT(30)
      <3> QED BY <1>10, <3>1, <3>2, Zenon
    <2>2. \A i \in 1 .. l : up'[i] = up[i] /\ up[i].type = "SubmitSharesStandard"
                            /\ up[i].seq_num = solutions[d + i].seq_num
                            /\ up[i].solution = solutions[d + i].solution
      BY <1>1, <1>2 DEF Shares
    <2> QED BY <1>1, <1>9, <2>1, <2>2, SMTT(30) DEF Shares
  <1>12. PICK c1 : /\ Answering(c1, Tail(dn), solutions', d - k, verdict)
                   /\ c1[w - 1] = e - k
    <2>1. PICK q1 : q1 = solutions' OBVIOUS
    <2>2. \A i \in 1 .. d - k : q1[i] = solutions[k + i]
      <3>1. \A i \in 1 .. d - k : i \in 1 .. n - k BY <1>a, <1>7
      <3> QED BY <1>10, <2>1, <3>1, Zenon
    <2>3. Dropped(solutions, q1, d, k) /\ AnswersFirst(c, k) BY <1>6, <2>2 DEF Dropped, AnswersFirst
    <2>4. IsSequence(dn) BY DEF Queues
    <2>5. AnsweringRest(c, dn, q1, d, verdict, k) BY <1>4, <2>3, <2>4, AnsweringTail
    <2> QED BY <1>3, <1>6, <2>1, <2>5 DEF AnsweringRest
  <1>13. Unsent(e1, solutions, d1, verdict, batch)'
    <2>1. Yes(e + 1, d, solutions, verdict) /\ (batch # None => e < d /\ batch = solutions[d].seq_num)
      BY <1>2, <1>3, <1>6 DEF Unsent
    <2>2. ASSUME NEW x \in e1 + 1 .. d1 PROVE solutions'[x].solution.uid \in verdict.accepted
      <3>1. x \in 1 .. n - k /\ k + x \in e + 1 .. d BY <1>a, <1>7, <1>8
      <3> QED BY <1>10, <2>1, <3>1 DEF Yes
    <2>3. e < d => e1 < d1 /\ d1 \in 1 .. n - k /\ k + d1 = d BY <1>a, <1>7, <1>8, SMTT(30)
    <2>4. e < d => e1 < d1 /\ solutions'[d1] = solutions[d] BY <1>10, <2>3, Zenon
    <2> QED BY <2>1, <2>2, <2>4 DEF Unsent, Yes
  <1>14. Answering(c1, dn, solutions, Decided, verdict)' BY <1>8, <1>9, <1>12
  <1>15. Unsent(c1[Len(dn)], solutions, Decided, verdict, batch)'
    <2>1. Len(dn') = w - 1 BY <1>3, SequenceTail DEF Queues
    <2> QED BY <1>8, <1>9, <1>12, <1>13, <2>1
  <1> QED BY <1>11, <1>14, <1>15 DEF Ledger

\* The ledger depends on the queues, the verdicts and the batch only.
LEMMA LedgerStill ==
  ASSUME Ledger, UNCHANGED <<dn, up, solutions, verdict, batch>>
  PROVE  Ledger'
  <1>1. Decided' = Decided BY DEF Decided
  <1>2. Shares' BY <1>1 DEF Ledger, Shares
  <1>3. PICK c : /\ Answering(c, dn, solutions, Decided, verdict)
                 /\ Unsent(c[Len(dn)], solutions, Decided, verdict, batch)
    BY DEF Ledger
  <1>4. /\ Answering(c, dn, solutions, Decided, verdict)'
        /\ Unsent(c[Len(dn)], solutions, Decided, verdict, batch)'
    BY <1>1, <1>3
  <1> QED BY <1>2, <1>4 DEF Ledger

\* The last share of a batch is the last one decided.
LEMMA LastAnswer ==
  ASSUME NEW c, NEW msgs, NEW q, NEW d \in Nat, NEW v, Answering(c, msgs, q, d, v), IsSequence(msgs)
  PROVE  c[Len(msgs)] \in 0 .. d
  <1>1. PICK w \in Nat : w = Len(msgs) BY SequenceLen
  <1>2. CASE w = 0
    <2>1. c[0] = 0 BY DEF Answering
    <2> QED BY <1>1, <1>2, <2>1
  <1>3. CASE w # 0
    <2>1. w \in 1 .. w BY <1>3
    <2> QED BY <1>1, <2>1 DEF Answering
  <1> QED BY <1>2, <1>3

LEMMA UpTo ==
  ASSUME NEW d \in Nat, NEW a \in 0 .. d
  PROVE  (\A k \in a + 1 .. d : k \in 1 .. d) /\ (a < d => d \in 1 .. d)
  OBVIOUS

\* The client submits a solution.
LEMMA LedgerSubmits ==
  ASSUME Queues, Ledger, NEW e, NEW m, solutions' = Append(solutions, e), up' = Append(up, m),
         m.type = "SubmitSharesStandard", m.seq_num = e.seq_num, m.solution = e.solution,
         UNCHANGED <<dn, verdict, batch>>
  PROVE  Ledger'
  <1>1. PICK n \in Nat, l \in Nat : n = Len(solutions) /\ l = Len(up) BY SequenceLen DEF Queues
  <1>2. PICK d \in Nat : d = Decided /\ d = n - l BY <1>1, Zenon DEF Ledger, Shares, Decided
  <1>3. /\ Len(solutions') = n + 1 /\ solutions'[n + 1] = e
        /\ \A i \in 1 .. n : solutions'[i] = solutions[i]
        /\ Len(up') = l + 1 /\ up'[l + 1] = m
        /\ \A i \in 1 .. l : up'[i] = up[i]
    <2>1. IsSequence(solutions) /\ IsSequence(up) BY DEF Queues
    <2>2. /\ Len(solutions') = n + 1 /\ solutions'[n + 1] = e
          /\ \A i \in 1 .. n : solutions'[i] = solutions[i]
      BY <1>1, <2>1, SequenceAppend
    <2>3. Len(up') = l + 1 /\ up'[l + 1] = m /\ \A i \in 1 .. l : up'[i] = up[i]
      BY <1>1, <2>1, SequenceAppend
    <2> QED BY <2>2, <2>3
  <1>4. Decided' = d BY <1>1, <1>2, <1>3 DEF Decided
  <1>5. Shares'
    <2>1. ASSUME NEW i \in 1 .. l + 1
          PROVE  /\ up'[i].type = "SubmitSharesStandard"
                 /\ up'[i].seq_num = solutions'[d + i].seq_num
                 /\ up'[i].solution = solutions'[d + i].solution
      <3>1. CASE i = l + 1
        <4>1. d + i = n + 1 BY <1>1, <1>2, <3>1
        <4> QED BY <1>3, <3>1, <4>1
      <3>2. CASE i # l + 1
        <4>1. i \in 1 .. l /\ d + i \in 1 .. n BY <1>1, <1>2, <3>2
        <4>2. /\ up[i].type = "SubmitSharesStandard"
              /\ up[i].seq_num = solutions[d + i].seq_num
              /\ up[i].solution = solutions[d + i].solution
          BY <1>1, <1>2, <4>1 DEF Ledger, Shares
        <4> QED BY <1>3, <4>1, <4>2
      <3> QED BY <3>1, <3>2, Zenon
    <2> QED BY <1>3, <1>4, <2>1, Zenon DEF Shares
  <1>6. PICK c : /\ Answering(c, dn, solutions, d, verdict)
                 /\ Unsent(c[Len(dn)], solutions, d, verdict, batch)
    BY <1>2 DEF Ledger
  <1>7. \A k \in 1 .. d : solutions'[k] = solutions[k] BY <1>1, <1>2, <1>3
  <1>8. Answering(c, dn, solutions', d, verdict)
    <2>1. PICK q1 : q1 = solutions' OBVIOUS
    <2>2. d <= d OBVIOUS
    <2>3. IsSequence(dn) BY DEF Queues
    <2>4. Answering(c, dn, q1, d, verdict) BY <1>6, <1>7, <2>1, <2>2, <2>3, AnsweringMore, ZenonT(40)
    <2> QED BY <2>1, <2>4
  <1>9. PICK a \in 0 .. d : a = c[Len(dn)]
    <2>1. IsSequence(dn) BY DEF Queues
    <2> QED BY <1>6, <2>1, LastAnswer
  <1>10. Unsent(a, solutions', d, verdict, batch)
    <2>1. (\A k \in a + 1 .. d : k \in 1 .. d) /\ (a < d => d \in 1 .. d) BY UpTo, Zenon
    <2>2. Yes(a + 1, d, solutions, verdict) /\ (batch # None => a < d /\ batch = solutions[d].seq_num)
      BY <1>6, <1>9, Zenon DEF Unsent
    <2> QED BY <1>7, <2>1, <2>2, Zenon DEF Unsent, Yes
  <1>11. Answering(c, dn, solutions, Decided, verdict)' BY <1>4, <1>8
  <1>12. Unsent(c[Len(dn)], solutions, Decided, verdict, batch)' BY <1>4, <1>9, <1>10
  <1> QED BY <1>5, <1>11, <1>12 DEF Ledger

\* The pool sends a message that is no answer.
LEMMA LedgerSends ==
  ASSUME Queues, Ledger, NEW m, m.type \notin {"SubmitSharesSuccess", "SubmitSharesError"},
         dn' = Append(dn, m), UNCHANGED <<up, solutions, verdict, batch>>
  PROVE  Ledger'
  <1>1. PICK d \in Nat : d = Decided BY DEF Ledger, Shares
  <1>2. PICK c : /\ Answering(c, dn, solutions, d, verdict)
                 /\ Unsent(c[Len(dn)], solutions, d, verdict, batch)
    BY <1>1 DEF Ledger
  <1>3. IsSequence(dn) BY DEF Queues
  <1>4. PICK a \in 0 .. d : a = c[Len(dn)] BY <1>2, <1>3, LastAnswer
  <1>5. Answers(m, c[Len(dn)], a, solutions, verdict) BY <1>4 DEF Answers
  <1>6. PICK c1 : Answering(c1, Append(dn, m), solutions, d, verdict) /\ c1[Len(dn) + 1] = a
    <2>1. AnsweringNext(dn, m, solutions, d, verdict, a) BY <1>2, <1>3, <1>4, <1>5, AnsweringAppend
    <2> QED BY <2>1 DEF AnsweringNext
  <1>7. Len(dn') = Len(dn) + 1 BY <1>3, SequenceAppend, Zenon
  <1>8. Decided' = d BY <1>1 DEF Decided
  <1>9. Shares' BY <1>1, <1>8 DEF Ledger, Shares
  <1>10. Answering(c1, dn, solutions, Decided, verdict)' BY <1>6, <1>8
  <1>11. Unsent(c1[Len(dn)], solutions, Decided, verdict, batch)'
    BY <1>2, <1>4, <1>6, <1>7, <1>8
  <1> QED BY <1>9, <1>10, <1>11 DEF Ledger

\* The batch goes out: every accepted solution is answered then.
Sent(msgs, last) == IF last = None THEN msgs ELSE Append(msgs, SubmitSharesSuccess(last))
AllAnswered(msgs, q, d, v) ==
  \E c : Answering(c, msgs, q, d, v) /\ Yes(c[Len(msgs)] + 1, d, q, v)

\* A batch of accepted shares that is sent is one more message, or none.
LEMMA BatchSent ==
  ASSUME NEW c, NEW msgs, NEW q, NEW d \in Nat, NEW v, NEW last, IsSequence(msgs),
         Answering(c, msgs, q, d, v), Unsent(c[Len(msgs)], q, d, v, last),
         NEW msgs1, msgs1 = Sent(msgs, last)
  PROVE  IsSequence(msgs1) /\ AllAnswered(msgs1, q, d, v)
  <1>1. CASE last = None
    BY <1>1 DEF Sent, Unsent, AllAnswered
  <1>2. CASE last # None
    <2>1. PICK m : m = SubmitSharesSuccess(last) OBVIOUS
    <2>2. m.type = "SubmitSharesSuccess" /\ m.last_seq_num = last BY <2>1 DEF SubmitSharesSuccess
    <2>3. msgs1 = Append(msgs, m) BY <1>2, <2>1 DEF Sent
    <2>4. IsSequence(msgs1) /\ Len(msgs1) = Len(msgs) + 1 BY <2>3, SequenceAppend
    <2>5. d \in 0 .. d /\ Answers(m, c[Len(msgs)], d, q, v)
      <3>1. d \in 0 .. d OBVIOUS
      <3>2. c[Len(msgs)] < d /\ last = q[d].seq_num /\ Yes(c[Len(msgs)] + 1, d, q, v)
        BY <1>2, Zenon DEF Unsent
      <3>3. m.type # "SubmitSharesError" BY <2>2
      <3> QED BY <2>2, <3>1, <3>2, <3>3, Zenon DEF Answers
    <2>6. PICK c1 : Answering(c1, Append(msgs, m), q, d, v) /\ c1[Len(msgs) + 1] = d
      <3>1. AnsweringNext(msgs, m, q, d, v, d) BY <2>5, AnsweringAppend
      <3> QED BY <3>1 DEF AnsweringNext
    <2>7. Yes(d + 1, d, q, v) BY DEF Yes
    <2>8. Answering(c1, msgs1, q, d, v) /\ c1[Len(msgs1)] = d BY <2>3, <2>4, <2>6, Zenon
    <2>9. Yes(c1[Len(msgs1)] + 1, d, q, v) BY <2>7, <2>8, Zenon
    <2> QED BY <2>4, <2>8, <2>9, Zenon DEF AllAnswered
  <1> QED BY <1>1, <1>2

\* The pool sends the answer of its batch.
LEMMA LedgerAcknowledges ==
  ASSUME Queues, Ledger, dn' = Sent(dn, batch), batch' = None, UNCHANGED <<up, solutions, verdict>>
  PROVE  Ledger'
  <1>1. PICK d \in Nat : d = Decided BY DEF Ledger, Shares
  <1>2. PICK c : /\ Answering(c, dn, solutions, d, verdict)
                 /\ Unsent(c[Len(dn)], solutions, d, verdict, batch)
    BY <1>1 DEF Ledger
  <1>3. IsSequence(dn) BY DEF Queues
  <1>4. PICK msgs1 : msgs1 = Sent(dn, batch) OBVIOUS
  <1>5. PICK c1 : Answering(c1, msgs1, solutions, d, verdict) /\ Yes(c1[Len(msgs1)] + 1, d, solutions, verdict)
    <2>1. AllAnswered(msgs1, solutions, d, verdict) BY <1>2, <1>3, <1>4, BatchSent, Zenon
    <2> QED BY <2>1, Zenon DEF AllAnswered
  <1>6. Decided' = d BY <1>1 DEF Decided
  <1>7. Shares' BY <1>1, <1>6 DEF Ledger, Shares
  <1>8. Answering(c1, dn, solutions, Decided, verdict)' BY <1>4, <1>5, <1>6
  <1>9. Unsent(c1[Len(dn)], solutions, Decided, verdict, batch)' BY <1>4, <1>5, <1>6 DEF Unsent
  <1> QED BY <1>7, <1>8, <1>9 DEF Ledger

\* The pool decides the oldest share that it has.
LEMMA ShareDecided ==
  ASSUME Queues, Shares, up # <<>>, up' = Tail(up), solutions' = solutions
  PROVE  /\ Decided' = Decided + 1 /\ Shares'
         /\ Head(up).seq_num = solutions[Decided + 1].seq_num
         /\ Head(up).solution = solutions[Decided + 1].solution
  <1>1. PICK n \in Nat, l \in Nat \ {0} : n = Len(solutions) /\ l = Len(up)
    BY SequenceLen, SequenceTail DEF Queues
  <1>2. PICK d \in Nat : d = Decided /\ d = n - l BY <1>1, Zenon DEF Shares, Decided
  <1>3. Len(up') = l - 1 /\ Head(up) = up[1] /\ \A i \in 1 .. l - 1 : up'[i] = up[i + 1]
    BY <1>1, SequenceTail DEF Queues
  <1>4. Decided' = d + 1 BY <1>1, <1>2, <1>3 DEF Decided
  <1>5. \A i \in 1 .. l : /\ up[i].type = "SubmitSharesStandard"
                          /\ up[i].seq_num = solutions[d + i].seq_num
                          /\ up[i].solution = solutions[d + i].solution
    BY <1>1, <1>2 DEF Shares
  <1>6. ASSUME NEW i \in 1 .. l - 1
        PROVE  /\ up'[i].type = "SubmitSharesStandard"
               /\ up'[i].seq_num = solutions[(d + 1) + i].seq_num
               /\ up'[i].solution = solutions[(d + 1) + i].solution
    <2>1. PICK j \in 1 .. l : j = i + 1 BY <1>1
    <2>2. (d + 1) + i = d + j BY <2>1
    <2> QED BY <1>3, <1>5, <2>1, <2>2
  <1>7. Shares' BY <1>3, <1>4, <1>6 DEF Shares
  <1>8. 1 \in 1 .. l BY <1>1
  <1> QED BY <1>2, <1>3, <1>4, <1>5, <1>7, <1>8

\* The pool accepts the next share into its batch.
LEMMA LedgerAccepts ==
  ASSUME Queues, Ledger, up # <<>>, up' = Tail(up), UNCHANGED <<dn, solutions>>,
         batch' = Head(up).seq_num,
         verdict'.accepted = verdict.accepted \cup {Head(up).solution.uid},
         verdict'.rejected = verdict.rejected
  PROVE  Ledger'
  <1>1. PICK d \in Nat : d = Decided BY DEF Ledger, Shares
  <1>2. PICK c : /\ Answering(c, dn, solutions, d, verdict)
                 /\ Unsent(c[Len(dn)], solutions, d, verdict, batch)
    BY <1>1 DEF Ledger
  <1>3. /\ Decided' = d + 1 /\ Shares'
        /\ Head(up).seq_num = solutions[d + 1].seq_num
        /\ Head(up).solution = solutions[d + 1].solution
    BY <1>1, ShareDecided DEF Ledger
  <1>4. PICK v1 : v1 = verdict' OBVIOUS
  <1>5. /\ v1.accepted = verdict.accepted \cup {solutions[d + 1].solution.uid}
        /\ v1.rejected = verdict.rejected
    BY <1>3, <1>4
  <1>6. PICK d1 \in Nat : d1 = d + 1 OBVIOUS
  <1>7. Answering(c, dn, solutions, d1, v1)
    <2>1. d <= d1 /\ IsSequence(dn) BY <1>6 DEF Queues
    <2>2. verdict.accepted \subseteq v1.accepted /\ verdict.rejected \subseteq v1.rejected BY <1>5
    <2> QED BY <1>2, <2>1, <2>2, AnsweringMore
  <1>8. PICK a \in 0 .. d : a = c[Len(dn)] BY <1>2, LastAnswer DEF Queues
  <1>9. Unsent(a, solutions, d1, v1, solutions[d1].seq_num)
    <2>1. \A k \in a + 1 .. d1 : k \in a + 1 .. d \/ k = d1 BY <1>6
    <2>2. a < d1 BY <1>6
    <2> QED BY <1>2, <1>5, <1>6, <1>8, <2>1, <2>2 DEF Unsent, Yes
  <1>10. Answering(c, dn, solutions, Decided, verdict)' BY <1>3, <1>4, <1>6, <1>7
  <1>11. Unsent(c[Len(dn)], solutions, Decided, verdict, batch)'
    BY <1>3, <1>4, <1>6, <1>8, <1>9
  <1> QED BY <1>3, <1>10, <1>11 DEF Ledger

\* The pool sends its batch, and rejects the next share.
LEMMA LedgerRejects ==
  ASSUME Queues, Ledger, up # <<>>, up' = Tail(up), solutions' = solutions, batch' = None,
         NEW m, m.type = "SubmitSharesError", m.seq_num = Head(up).seq_num,
         dn' = Append(Sent(dn, batch), m),
         verdict'.rejected = verdict.rejected \cup {Head(up).solution.uid},
         verdict'.accepted = verdict.accepted
  PROVE  Ledger'
  <1>1. PICK d \in Nat : d = Decided BY Zenon DEF Ledger, Shares
  <1>2. PICK c : /\ Answering(c, dn, solutions, d, verdict)
                 /\ Unsent(c[Len(dn)], solutions, d, verdict, batch)
    BY <1>1 DEF Ledger
  <1>3. /\ Decided' = d + 1 /\ Shares'
        /\ Head(up).seq_num = solutions[d + 1].seq_num
        /\ Head(up).solution = solutions[d + 1].solution
    BY <1>1, ShareDecided DEF Ledger
  <1>4. PICK v1 : v1 = verdict' OBVIOUS
  <1>5. /\ v1.rejected = verdict.rejected \cup {solutions[d + 1].solution.uid}
        /\ v1.accepted = verdict.accepted
    BY <1>3, <1>4
  <1>6. PICK d1 \in Nat : d1 = d + 1 OBVIOUS
  <1>7. PICK msgs1 : msgs1 = Sent(dn, batch) OBVIOUS
  <1>8. IsSequence(msgs1) /\ AllAnswered(msgs1, solutions, d, verdict)
    <2>1. IsSequence(dn) BY DEF Queues
    <2> QED BY <1>2, <1>7, <2>1, BatchSent, Zenon
  <1>9. PICK c1 : Answering(c1, msgs1, solutions, d, verdict)
                  /\ Yes(c1[Len(msgs1)] + 1, d, solutions, verdict)
    BY <1>8, Zenon DEF AllAnswered
  <1>10. Answering(c1, msgs1, solutions, d1, v1)
    <2>1. d <= d1 BY <1>6
    <2>2. verdict.accepted \subseteq v1.accepted /\ verdict.rejected \subseteq v1.rejected BY <1>5
    <2> QED BY <1>8, <1>9, <2>1, <2>2, AnsweringMore, Zenon
  <1>11. PICK a \in 0 .. d : a = c1[Len(msgs1)] BY <1>8, <1>9, LastAnswer, Zenon
  <1>12. Answers(m, c1[Len(msgs1)], d1, solutions, v1)
    <2>1. Yes(a + 1, d1 - 1, solutions, v1)
      <3>1. d1 - 1 = d BY <1>6
      <3> QED BY <1>5, <1>9, <1>11, <3>1 DEF Yes
    <2>2. a < d1 /\ solutions[d1].seq_num = m.seq_num BY <1>3, <1>6
    <2>3. solutions[d1].solution.uid \in v1.rejected BY <1>5, <1>6
    <2> QED BY <1>11, <2>1, <2>2, <2>3 DEF Answers
  <1>13. PICK c2 : Answering(c2, Append(msgs1, m), solutions, d1, v1) /\ c2[Len(msgs1) + 1] = d1
    <2>1. d1 \in 0 .. d1 OBVIOUS
    <2>2. IsSequence(msgs1) BY <1>8
    <2>3. AnsweringNext(msgs1, m, solutions, d1, v1, d1)
      BY <1>10, <1>12, <2>1, <2>2, AnsweringAppend, Zenon
    <2> QED BY <2>3, Zenon DEF AnsweringNext
  <1>14. Len(dn') = Len(msgs1) + 1 BY <1>7, <1>8, SequenceAppend
  <1>15. Answering(c2, dn, solutions, Decided, verdict)' BY <1>3, <1>4, <1>6, <1>7, <1>13
  <1>16. Unsent(c2[Len(dn)], solutions, Decided, verdict, batch)'
    <2>1. c2[Len(dn')] = d1 /\ Decided' = d1 BY <1>3, <1>6, <1>13, <1>14
    <2>2. Yes(d1 + 1, d1, solutions, v1) BY DEF Yes
    <2> QED BY <1>4, <2>1, <2>2 DEF Unsent
  <1> QED BY <1>3, <1>15, <1>16 DEF Ledger
=============================================================================
