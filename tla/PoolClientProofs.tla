-------------------------- MODULE PoolClientProofs --------------------------
(***************************************************************************)
(* The steps of the Stratum V2 client in a session with a pool: where each *)
(* solution is, the inductive invariant of the session, and that every     *)
(* step of the client keeps it.                                            *)
(***************************************************************************)
EXTENDS PoolLedgerProofs

-----------------------------------------------------------------------------
(* Every solution is in one place.                                             *)

Received == {s.uid : s \in receiving}
\* w says where each solution is.
Places(w) ==
  /\ Uids(channel) = {u \in 1 .. found : w[u] = 1}
  /\ Received = {u \in 1 .. found : w[u] = 2}
  /\ Queued = {u \in 1 .. found : w[u] = 3}
  /\ accepted = {u \in 1 .. found : w[u] = 4}
  /\ rejected = {u \in 1 .. found : w[u] = 5}
  /\ flushed = {u \in 1 .. found : w[u] = 6}
  /\ cancelled = {u \in 1 .. found : w[u] = 7}
Books == found \in Nat /\ \E w : (\A u \in 1 .. found : w[u] \in 1 .. 7) /\ Places(w)
Distinct ==
  /\ \A i, j \in 1 .. Len(channel) : channel[i].uid = channel[j].uid => i = j
  /\ \A i, j \in 1 .. Len(solutions) : solutions[i].solution.uid = solutions[j].solution.uid => i = j
  /\ \A s, t \in receiving : s = t

\* The client handles a message: the solutions of D are counted as accepted,
\* those of E as rejected, and the one being received is lost.
LEMMA BooksAnswered ==
  ASSUME Books, NEW D, NEW E, D \subseteq Queued, E \subseteq Queued, D \cap E = {},
         Queued' = Queued \ (D \cup E), accepted' = accepted \cup D, rejected' = rejected \cup E,
         receiving' = {}, cancelled' = cancelled \cup Received,
         UNCHANGED <<channel, flushed, found>>
  PROVE  Books'
  <1>1. PICK w : (\A u \in 1 .. found : w[u] \in 1 .. 7) /\ Places(w) BY DEF Books
  <1>2. PICK w1 : w1 = [u \in 1 .. found |-> IF u \in D THEN 4 ELSE IF u \in E THEN 5
                                             ELSE IF w[u] = 2 THEN 7 ELSE w[u]]
    BY Zenon
  <1>3. \A u \in 1 .. found : w1[u] = IF u \in D THEN 4 ELSE IF u \in E THEN 5
                                      ELSE IF w[u] = 2 THEN 7 ELSE w[u]
    BY <1>2
  <1>a. \A u \in D : u \in 1 .. found /\ w[u] = 3 BY <1>1 DEF Places
  <1>b. \A u \in E : u \in 1 .. found /\ w[u] = 3 /\ u \notin D BY <1>1 DEF Places
  <1>4. \A u \in 1 .. found' : w1[u] \in 1 .. 7 BY <1>1, <1>3
  <1>5. Uids(channel)' = {u \in 1 .. found : w1[u] = 1}
    <2>1. Uids(channel)' = Uids(channel) BY DEF Uids
    <2> QED BY <1>1, <1>3, <2>1 DEF Places
  <1>6. Received' = {u \in 1 .. found : w1[u] = 2}
    <2>1. Received' = {} BY DEF Received
    <2> QED BY <1>1, <1>3, <2>1 DEF Places
  <1>7. Queued' = {u \in 1 .. found : w1[u] = 3} BY <1>1, <1>3 DEF Places
  <1>8. accepted' = {u \in 1 .. found : w1[u] = 4}
    <2>1. accepted = {u \in 1 .. found : w[u] = 4} BY <1>1 DEF Places
    <2> QED BY <1>3, <1>a, <1>b, <2>1
  <1>9. rejected' = {u \in 1 .. found : w1[u] = 5}
    <2>1. rejected = {u \in 1 .. found : w[u] = 5} BY <1>1 DEF Places
    <2> QED BY <1>3, <1>a, <1>b, <2>1
  <1>10. flushed' = {u \in 1 .. found : w1[u] = 6} BY <1>1, <1>3 DEF Places
  <1>11. cancelled' = {u \in 1 .. found : w1[u] = 7} BY <1>1, <1>3 DEF Places
  <1>12. Places(w1)' BY <1>5, <1>6, <1>7, <1>8, <1>9, <1>10, <1>11 DEF Places
  <1> QED BY <1>4, <1>12 DEF Books

\* The books depend on the places of the solutions only.
LEMMA BooksStill ==
  ASSUME Books, UNCHANGED <<channel, receiving, solutions, accepted, rejected, flushed, cancelled, found>>
  PROVE  Books'
  <1>1. PICK w : (\A u \in 1 .. found : w[u] \in 1 .. 7) /\ Places(w) BY DEF Books
  <1>2. Uids(channel)' = Uids(channel) /\ Received' = Received /\ Queued' = Queued
    BY DEF Uids, Received, Queued
  <1>3. Places(w)' BY <1>1, <1>2 DEF Places
  <1> QED BY <1>1, <1>3 DEF Books

\* The same of the distinctness of what waits.
LEMMA DistinctStill ==
  ASSUME Distinct, UNCHANGED <<channel, receiving, solutions>>
  PROVE  Distinct'
  BY DEF Distinct

\* The session ends.
LEMMA BooksFlushed ==
  ASSUME Books, channel' = <<>>, receiving' = {}, solutions' = <<>>,
         flushed' = flushed \cup Uids(channel) \cup Received \cup Queued,
         UNCHANGED <<accepted, rejected, cancelled, found>>
  PROVE  Books' /\ Distinct'
  <1>1. PICK w : (\A u \in 1 .. found : w[u] \in 1 .. 7) /\ Places(w) BY DEF Books
  <1>2. PICK w1 : w1 = [u \in 1 .. found |-> IF w[u] \in 1 .. 3 THEN 6 ELSE w[u]] BY Zenon
  <1>3. \A u \in 1 .. found : w1[u] = IF w[u] \in 1 .. 3 THEN 6 ELSE w[u] BY <1>2
  <1>4. \A u \in 1 .. found' : w1[u] \in 1 .. 7 BY <1>1, <1>3
  <1>5. Len(channel') = 0 /\ Len(solutions') = 0 BY EmptyIsSequence
  <1>6. Uids(channel)' = {} /\ Queued' = {} /\ Received' = {} BY <1>5 DEF Uids, Queued, Received
  <1>7. Uids(channel)' = {u \in 1 .. found : w1[u] = 1} BY <1>1, <1>3, <1>6
  <1>8. Received' = {u \in 1 .. found : w1[u] = 2} BY <1>1, <1>3, <1>6
  <1>9. Queued' = {u \in 1 .. found : w1[u] = 3} BY <1>1, <1>3, <1>6
  <1>10. accepted' = {u \in 1 .. found : w1[u] = 4} BY <1>1, <1>3 DEF Places
  <1>11. rejected' = {u \in 1 .. found : w1[u] = 5} BY <1>1, <1>3 DEF Places
  <1>12. flushed' = {u \in 1 .. found : w1[u] = 6} BY <1>1, <1>3 DEF Places
  <1>13. cancelled' = {u \in 1 .. found : w1[u] = 7} BY <1>1, <1>3 DEF Places
  <1>14. Places(w1)' BY <1>7, <1>8, <1>9, <1>10, <1>11, <1>12, <1>13 DEF Places
  <1>15. Distinct' BY <1>5 DEF Distinct
  <1> QED BY <1>4, <1>14, <1>15 DEF Books

\* The hardware finds a solution.
LEMMA BooksFound ==
  ASSUME Books, Distinct, IsSequence(channel), NEW s, channel' = Append(channel, s),
         s.uid = found + 1, found' = found + 1,
         UNCHANGED <<receiving, solutions, accepted, rejected, flushed, cancelled>>
  PROVE  Books' /\ Distinct'
  <1>1. PICK w : (\A u \in 1 .. found : w[u] \in 1 .. 7) /\ Places(w) BY DEF Books
  <1>2. PICK f \in Nat, n \in Nat : f = found /\ n = Len(channel) BY SequenceLen DEF Books
  <1>3. PICK w1 : w1 = [u \in 1 .. f + 1 |-> IF u = f + 1 THEN 1 ELSE w[u]] BY Zenon
  <1>4. w1[f + 1] = 1 /\ \A u \in 1 .. f : w1[u] = w[u] BY <1>3
  <1>5. \A u \in 1 .. f + 1 : u \in 1 .. f \/ u = f + 1 BY <1>2
  <1>6. \A u \in 1 .. f + 1 : w1[u] \in 1 .. 7 BY <1>1, <1>2, <1>4, <1>5
  <1>7. \A u \in 1 .. f : u \in 1 .. f + 1 /\ f + 1 \in 1 .. f + 1 BY <1>2
  <1>8. f + 1 \in 1 .. f + 1 /\ f + 1 \notin 1 .. f BY <1>2
  <1>9. Len(channel') = n + 1 /\ channel'[n + 1] = s /\ \A i \in 1 .. n : channel'[i] = channel[i]
    BY <1>2, SequenceAppend
  <1>10. \A i \in 1 .. n + 1 : i \in 1 .. n \/ i = n + 1 BY <1>2
  <1>11. \A i \in 1 .. n : i \in 1 .. n + 1 BY <1>2
  <1>12. n + 1 \in 1 .. n + 1 BY <1>2
  <1>13. Uids(channel)' = Uids(channel) \cup {f + 1}
    BY <1>2, <1>9, <1>10, <1>11, <1>12 DEF Uids
  <1>14. Uids(channel)' = {u \in 1 .. f + 1 : w1[u] = 1}
    BY <1>1, <1>2, <1>4, <1>5, <1>7, <1>8, <1>13 DEF Places
  <1>15. \A p \in 2 .. 7 : {u \in 1 .. f + 1 : w1[u] = p} = {u \in 1 .. f : w[u] = p}
    BY <1>4, <1>5, <1>7
  <1>16. Received' = Received /\ Queued' = Queued BY DEF Received, Queued
  <1>17. Places(w1)' BY <1>1, <1>2, <1>14, <1>15, <1>16 DEF Places
  <1>18. \A i \in 1 .. n : channel[i].uid # f + 1
    BY <1>1, <1>2, <1>8, Zenon DEF Places, Uids
  <1>19. \A i, j \in 1 .. n + 1 : channel'[i].uid = channel'[j].uid => i = j
    BY <1>2, <1>9, <1>10, <1>18 DEF Distinct
  <1> QED BY <1>2, <1>6, <1>9, <1>17, <1>19 DEF Books, Distinct

\* receive() takes a solution from the channel.
LEMMA BooksReceived ==
  ASSUME Books, Distinct, IsSequence(channel), channel # <<>>, receiving = {},
         receiving' = {Head(channel)}, channel' = Tail(channel),
         UNCHANGED <<solutions, accepted, rejected, flushed, cancelled, found>>
  PROVE  Books' /\ Distinct'
  <1>1. PICK w : (\A u \in 1 .. found : w[u] \in 1 .. 7) /\ Places(w) BY DEF Books
  <1>2. PICK n \in Nat \ {0} : n = Len(channel) BY SequenceTail
  <1>3. /\ Len(channel') = n - 1 /\ Head(channel) = channel[1]
        /\ \A i \in 1 .. n - 1 : channel'[i] = channel[i + 1]
    BY <1>2, SequenceTail
  <1>4. PICK x : x = channel[1].uid OBVIOUS
  <1>5. 1 \in 1 .. n BY <1>2
  <1>6. x \in 1 .. found /\ w[x] = 1 BY <1>1, <1>2, <1>4, <1>5 DEF Places, Uids
  <1>7. \A i, j \in 1 .. n : channel[i].uid = channel[j].uid => i = j BY <1>2 DEF Distinct
  <1>8. \A i \in 1 .. n - 1 : i + 1 \in 1 .. n /\ i + 1 # 1 BY <1>2
  <1>9. \A i \in 1 .. n : i = 1 \/ (i - 1 \in 1 .. n - 1 /\ (i - 1) + 1 = i) BY <1>2
  <1>10. Uids(channel)' = Uids(channel) \ {x}
    <2>1. Uids(channel) = {channel[i].uid : i \in 1 .. n} BY <1>2 DEF Uids
    <2>2. Uids(channel)' = {channel[i + 1].uid : i \in 1 .. n - 1} BY <1>3 DEF Uids
    <2>3. ASSUME NEW u \in Uids(channel)' PROVE u \in Uids(channel) /\ u # x
      <3>1. PICK i \in 1 .. n - 1 : u = channel[i + 1].uid BY <2>2
      <3>2. i + 1 \in 1 .. n /\ i + 1 # 1 BY <1>8
      <3> QED BY <1>4, <1>5, <1>7, <2>1, <3>1, <3>2
    <2>4. ASSUME NEW u \in Uids(channel), u # x PROVE u \in Uids(channel)'
      <3>1. PICK i \in 1 .. n : u = channel[i].uid BY <2>1
      <3>2. i # 1 BY <1>4, <2>4, <3>1
      <3>3. PICK j \in 1 .. n - 1 : j + 1 = i BY <1>9, <3>2
      <3> QED BY <2>2, <3>1, <3>3, Zenon
    <2> QED BY <2>3, <2>4
  <1>11. Received' = {x} /\ Received = {} BY <1>3, <1>4 DEF Received
  <1>12. PICK w1 : w1 = [u \in 1 .. found |-> IF u = x THEN 2 ELSE w[u]] BY Zenon
  <1>13. \A u \in 1 .. found : w1[u] = IF u = x THEN 2 ELSE w[u] BY <1>12
  <1>14. \A u \in 1 .. found' : w1[u] \in 1 .. 7 BY <1>1, <1>13
  <1>15. Uids(channel)' = {u \in 1 .. found : w1[u] = 1}
    <2>1. Uids(channel) = {u \in 1 .. found : w[u] = 1} BY <1>1 DEF Places
    <2> QED BY <1>6, <1>10, <1>13, <2>1
  <1>16. Received' = {u \in 1 .. found : w1[u] = 2}
    <2>1. Received = {u \in 1 .. found : w[u] = 2} BY <1>1 DEF Places
    <2> QED BY <1>6, <1>11, <1>13, <2>1
  <1>17. \A p \in 3 .. 7 : {u \in 1 .. found : w1[u] = p} = {u \in 1 .. found : w[u] = p}
    BY <1>6, <1>13
  <1>18. Queued' = Queued BY DEF Queued
  <1>19. Places(w1)' BY <1>1, <1>15, <1>16, <1>17, <1>18 DEF Places
  <1>20. Distinct'
    <2>1. ASSUME NEW i \in 1 .. n - 1, NEW j \in 1 .. n - 1, channel'[i].uid = channel'[j].uid
          PROVE  i = j
      <3>1. i + 1 \in 1 .. n /\ j + 1 \in 1 .. n /\ channel[i + 1].uid = channel[j + 1].uid
        BY <1>3, <1>8, <2>1
      <3>2. i + 1 = j + 1 BY <1>7, <3>1
      <3> QED BY <3>2
    <2> QED BY <1>3, <2>1 DEF Distinct
  <1> QED BY <1>14, <1>19, <1>20 DEF Books

\* process_solution puts the solution that was received into the queue.
LEMMA BooksSubmitted ==
  ASSUME Books, Distinct, IsSequence(solutions), NEW s \in receiving, NEW e, e.solution = s,
         solutions' = Append(solutions, e), receiving' = {},
         UNCHANGED <<channel, accepted, rejected, flushed, cancelled, found>>
  PROVE  Books' /\ Distinct'
  <1>1. PICK w : (\A u \in 1 .. found : w[u] \in 1 .. 7) /\ Places(w) BY DEF Books
  <1>2. PICK n \in Nat : n = Len(solutions) BY SequenceLen
  <1>3. /\ Len(solutions') = n + 1 /\ solutions'[n + 1] = e
        /\ \A i \in 1 .. n : solutions'[i] = solutions[i]
    BY <1>2, SequenceAppend
  <1>4. PICK x : x = s.uid OBVIOUS
  <1>5. Received = {x} /\ Received' = {} BY <1>4 DEF Received, Distinct
  <1>6. \A i \in 1 .. n + 1 : i \in 1 .. n \/ i = n + 1 BY <1>2
  <1>7. \A i \in 1 .. n : i \in 1 .. n + 1 BY <1>2
  <1>8. n + 1 \in 1 .. n + 1 BY <1>2
  <1>9. Queued' = Queued \cup {x} BY <1>2, <1>3, <1>4, <1>6, <1>7, <1>8 DEF Queued
  <1>10. x \in 1 .. found /\ w[x] = 2
    <2>1. Received = {u \in 1 .. found : w[u] = 2} BY <1>1 DEF Places
    <2> QED BY <1>5, <2>1
  <1>11. PICK w1 : w1 = [u \in 1 .. found |-> IF u = x THEN 3 ELSE w[u]] BY Zenon
  <1>12. \A u \in 1 .. found : w1[u] = IF u = x THEN 3 ELSE w[u] BY <1>11
  <1>13. \A u \in 1 .. found' : w1[u] \in 1 .. 7 BY <1>1, <1>12
  <1>14. Received' = {u \in 1 .. found : w1[u] = 2}
    <2>1. Received = {u \in 1 .. found : w[u] = 2} BY <1>1 DEF Places
    <2> QED BY <1>5, <1>10, <1>12, <2>1
  <1>15. Queued' = {u \in 1 .. found : w1[u] = 3}
    <2>1. Queued = {u \in 1 .. found : w[u] = 3} BY <1>1 DEF Places
    <2> QED BY <1>9, <1>10, <1>12, <2>1
  <1>16. \A p \in {1, 4, 5, 6, 7} : {u \in 1 .. found : w1[u] = p} = {u \in 1 .. found : w[u] = p}
    BY <1>10, <1>12
  <1>17. Uids(channel)' = Uids(channel) BY DEF Uids
  <1>18. Places(w1)' BY <1>1, <1>14, <1>15, <1>16, <1>17 DEF Places
  <1>19. \A i \in 1 .. n : solutions[i].solution.uid # x
    <2>1. Queued = {u \in 1 .. found : w[u] = 3} BY <1>1 DEF Places
    <2>2. \A i \in 1 .. n : solutions[i].solution.uid \in Queued BY <1>2 DEF Queued
    <2> QED BY <1>10, <2>1, <2>2
  <1>20. \A i, j \in 1 .. n + 1 :
           solutions'[i].solution.uid = solutions'[j].solution.uid => i = j
    <2>1. \A i, j \in 1 .. n : solutions[i].solution.uid = solutions[j].solution.uid => i = j
      BY <1>2 DEF Distinct
    <2>2. \A i \in 1 .. n : solutions'[i].solution.uid # x BY <1>3, <1>19
    <2>3. solutions'[n + 1].solution.uid = x BY <1>3, <1>4
    <2>4. \A i, j \in 1 .. n : solutions'[i].solution.uid = solutions'[j].solution.uid => i = j
      BY <1>3, <2>1
    <2> QED BY <1>6, <2>2, <2>3, <2>4, Zenon
  <1> QED BY <1>3, <1>13, <1>18, <1>20 DEF Books, Distinct

\* The first k solutions leave the queue, I and J between them.
LEMMA QueueDrops ==
  ASSUME Distinct, IsSequence(solutions), NEW k \in 0 .. Len(solutions),
         Len(solutions') = Len(solutions) - k,
         \A i \in 1 .. Len(solutions) - k : solutions'[i] = solutions[k + i],
         NEW I, NEW J, I \cup J = 1 .. k, I \cap J = {}
  PROVE  /\ Queued' = Queued \ (CountedAt(I) \cup CountedAt(J))
         /\ CountedAt(I) \subseteq Queued /\ CountedAt(J) \subseteq Queued
         /\ CountedAt(I) \cap CountedAt(J) = {}
         /\ \A i, j \in 1 .. Len(solutions') :
              solutions'[i].solution.uid = solutions'[j].solution.uid => i = j
  <1>1. PICK n \in Nat : n = Len(solutions) BY SequenceLen
  <1>2. k \in Nat /\ k <= n BY <1>1
  <1>3. \A i \in 1 .. k : i \in 1 .. n BY <1>2
  <1>4. \A i \in 1 .. n - k : k + i \in 1 .. n /\ k + i \notin 1 .. k BY <1>2
  <1>5. \A i \in 1 .. n : i \in 1 .. k \/ (i - k \in 1 .. n - k /\ k + (i - k) = i) BY <1>2
  <1>6. \A i, j \in 1 .. n : solutions[i].solution.uid = solutions[j].solution.uid => i = j
    BY <1>1 DEF Distinct
  <1>7. Queued = {solutions[i].solution.uid : i \in 1 .. n} BY <1>1 DEF Queued
  <1>8. Queued' = {solutions[k + i].solution.uid : i \in 1 .. n - k} BY <1>1 DEF Queued
  <1>9. CountedAt(I) \cup CountedAt(J) = {solutions[i].solution.uid : i \in 1 .. k}
    BY DEF CountedAt
  <1>10. ASSUME NEW u \in Queued' PROVE u \in Queued /\ u \notin CountedAt(I) \cup CountedAt(J)
    <2>1. PICK i \in 1 .. n - k : u = solutions[k + i].solution.uid BY <1>8
    <2>2. PICK h \in 1 .. n : h = k + i /\ h \notin 1 .. k BY <1>4
    <2>3. \A j \in 1 .. k : solutions[j].solution.uid # u BY <1>3, <1>6, <2>1, <2>2
    <2> QED BY <1>7, <1>9, <2>1, <2>2, <2>3, Zenon
  <1>11. ASSUME NEW u \in Queued, u \notin CountedAt(I) \cup CountedAt(J) PROVE u \in Queued'
    <2>1. PICK i \in 1 .. n : u = solutions[i].solution.uid BY <1>7
    <2>2. i \notin 1 .. k BY <1>9, <1>11, <2>1
    <2>3. PICK j \in 1 .. n - k : k + j = i BY <1>5, <2>2
    <2> QED BY <1>8, <2>1, <2>3, Zenon
  <1>12. CountedAt(I) \subseteq Queued /\ CountedAt(J) \subseteq Queued
    <2>1. \A i \in I \cup J : i \in 1 .. n BY <1>3, Zenon
    <2> QED BY <1>7, <2>1 DEF CountedAt
  <1>13. CountedAt(I) \cap CountedAt(J) = {}
    <2>1. \A i \in I, j \in J : i \in 1 .. n /\ j \in 1 .. n /\ i # j BY <1>3, Zenon
    <2> QED BY <1>6, <2>1 DEF CountedAt
  <1>14. ASSUME NEW i \in 1 .. n - k, NEW j \in 1 .. n - k,
                solutions'[i].solution.uid = solutions'[j].solution.uid
         PROVE  i = j
    <2>1. k + i \in 1 .. n /\ k + j \in 1 .. n BY <1>4
    <2>2. solutions[k + i].solution.uid = solutions[k + j].solution.uid BY <1>1, <1>14
    <2>3. k + i = k + j BY <1>6, <2>1, <2>2
    <2> QED BY <1>2, <2>3
  <1> QED BY <1>1, <1>10, <1>11, <1>12, <1>13, <1>14

\* Then each solution is counted once.
LEMMA BooksAnswer ==
  ASSUME Books, Distinct, IsSequence(solutions), NEW k \in 0 .. Len(solutions),
         Len(solutions') = Len(solutions) - k,
         \A i \in 1 .. Len(solutions) - k : solutions'[i] = solutions[k + i],
         NEW I, NEW J, I \cup J = 1 .. k, I \cap J = {},
         accepted' = accepted \cup CountedAt(I), rejected' = rejected \cup CountedAt(J),
         receiving' = {}, cancelled' = cancelled \cup Received,
         UNCHANGED <<channel, flushed, found>>
  PROVE  Books' /\ Distinct'
  <1>1. /\ Queued' = Queued \ (CountedAt(I) \cup CountedAt(J))
        /\ CountedAt(I) \subseteq Queued /\ CountedAt(J) \subseteq Queued
        /\ CountedAt(I) \cap CountedAt(J) = {}
        /\ \A i, j \in 1 .. Len(solutions') :
             solutions'[i].solution.uid = solutions'[j].solution.uid => i = j
    BY QueueDrops, Zenon
  <1>2. PICK D, E : D = CountedAt(I) /\ E = CountedAt(J) OBVIOUS
  <1>3. Books' BY <1>1, <1>2, BooksAnswered, Zenon
  <1>4. Distinct' BY <1>1, Zenon DEF Distinct
  <1> QED BY <1>3, <1>4

-----------------------------------------------------------------------------
(* The session.                                                                *)

\* How far the session is, and what is on the connection then.
Stages ==
  /\ phase \in {"connect", "setup", "open", "mine"}
  /\ phase = "connect" => up = <<>> /\ dn = <<>>
  /\ phase = "setup" => \/ up = <<SetupConnection>> /\ dn = <<>>
                        \/ up = <<>> /\ Len(dn) = 1
  /\ phase = "open" => \/ up = <<OpenStandardMiningChannel>> /\ dn = <<>>
                       \/ up = <<>> /\ dn # <<>> /\ Head(dn).type = Open /\ Follows /\ Ledger
  /\ phase = "mine" => Follows /\ Ledger /\ Numbered
  /\ phase # "mine" => solutions = <<>>
Mirrors == (\A a \in all_jobs : a.root = a.id) /\ MinesWhatPoolWants /\ ~panicked
Judges == verdict = [accepted |-> verdict.accepted, rejected |-> verdict.rejected]
PoolTypes == Queues /\ pool_jobs \in Nat /\ Judges

SessionInv == PoolTypes /\ Stages /\ Mirrors /\ Books /\ Distinct /\ VerdictsMatch

\* A job is wanted for as long as the pool forgets nothing.
LEMMA MirrorsStill ==
  ASSUME Mirrors, UNCHANGED <<all_jobs, job, panicked>>, intended \subseteq intended'
  PROVE  Mirrors'
  BY DEF Mirrors, MinesWhatPoolWants

\* The next message means something in the client's state.
LEMMA FollowsNow ==
  ASSUME IsSequence(dn), dn # <<>>, Follows
  PROVE  \E js : Known(js) /\ Meant(Head(dn), target, prevhash, js)
  <1>1. PICK T, P, J : Replay(T, P, J, dn) BY DEF Follows
  <1>2. PICK n \in Nat \ {0} : n = Len(dn) BY SequenceTail
  <1>3. 1 \in 1 .. n /\ Head(dn) = dn[1] BY <1>2, SequenceTail
  <1> QED BY <1>1, <1>2, <1>3 DEF Replay

\* A message of a given type answers as many solutions as its type says.
LEMMA NextAnswer ==
  ASSUME Queues, Ledger, dn # <<>>
  PROVE  \E c : /\ Answering(c, dn, solutions, Decided, verdict)
                /\ Unsent(c[Len(dn)], solutions, Decided, verdict, batch)
                /\ c[1] \in 0 .. Decided /\ Decided \in Nat /\ Decided <= Len(solutions)
                /\ Answers(Head(dn), 0, c[1], solutions, verdict)
  <1>1. PICK c : /\ Answering(c, dn, solutions, Decided, verdict)
                 /\ Unsent(c[Len(dn)], solutions, Decided, verdict, batch)
    BY DEF Ledger
  <1>2. PICK n \in Nat \ {0} : n = Len(dn) BY SequenceTail DEF Queues
  <1>3. 1 \in 1 .. n /\ 1 - 1 = 0 /\ Head(dn) = dn[1] BY <1>2, SequenceTail DEF Queues
  <1>4. c[1] \in 0 .. Decided /\ Answers(dn[1], c[0], c[1], solutions, verdict) /\ c[0] = 0
    BY <1>1, <1>2, <1>3 DEF Answering
  <1>5. Decided \in Nat BY DEF Ledger, Shares
  <1>6. PICK a \in Nat, b \in Nat : a = Len(solutions) /\ b = Len(up) BY SequenceLen DEF Queues
  <1>7. Decided <= Len(solutions) BY <1>5, <1>6 DEF Decided
  <1> QED BY <1>1, <1>3, <1>4, <1>5, <1>7

LEMMA SessionStarts == Init => SessionInv
  <1> SUFFICES ASSUME Init PROVE SessionInv OBVIOUS
  <1> USE DEF Init, ClientInit
  <1>1. PoolTypes BY EmptyIsSequence DEF PoolTypes, Queues, Judges
  <1>2. Stages BY DEF Stages
  <1>3. Mirrors BY DEF Mirrors, MinesWhatPoolWants
  <1>4. Books
    <2>1. Len(channel) = 0 /\ Len(solutions) = 0 BY EmptyIsSequence
    <2>2. Uids(channel) = {} /\ Queued = {} /\ Received = {} BY <2>1 DEF Uids, Queued, Received
    <2>3. \A w : Places(w) /\ \A u \in 1 .. found : w[u] \in 1 .. 7 BY <2>2 DEF Places
    <2> QED BY <2>3 DEF Books
  <1>5. Distinct
    <2>1. Len(channel) = 0 /\ Len(solutions) = 0 BY EmptyIsSequence
    <2> QED BY <2>1 DEF Distinct
  <1>6. VerdictsMatch BY DEF VerdictsMatch
  <1> QED BY <1>1, <1>2, <1>3, <1>4, <1>5, <1>6 DEF SessionInv

\* What neither the pool decides nor the client counts or reads changes.
LEMMA RestStill ==
  ASSUME SessionInv,
         UNCHANGED <<all_jobs, job, panicked, intended, verdict, channel, receiving, solutions,
                     accepted, rejected, flushed, cancelled, found>>
  PROVE  Mirrors' /\ Books' /\ Distinct' /\ VerdictsMatch' /\ Judges'
  <1>1. Mirrors' BY MirrorsStill DEF SessionInv
  <1>2. Books' BY BooksStill DEF SessionInv
  <1>3. Distinct' BY DistinctStill DEF SessionInv
  <1>4. VerdictsMatch' BY DEF SessionInv, VerdictsMatch
  <1>5. Judges' BY DEF SessionInv, PoolTypes, Judges
  <1> QED BY <1>1, <1>2, <1>3, <1>4, <1>5

\* The sequence of a single message.
LEMMA OneMessage ==
  ASSUME NEW m
  PROVE  IsSequence(<<m>>) /\ Len(<<m>>) = 1 /\ <<m>>[1] = m /\ Head(<<m>>) = m
  <1>1. IsSequence(<<m>>)
    <2>1. <<m>> \in Seq({m}) OBVIOUS
    <2> QED BY <2>1, Zenon DEF IsSequence
  <1>2. Len(<<m>>) = 1 /\ <<m>>[1] = m /\ Head(<<m>>) = m OBVIOUS
  <1> QED BY <1>1, <1>2

\* Steps of the client: it connects,
LEMMA Connects ==
  ASSUME SessionInv, Connect, UNCHANGED poolVars
  PROVE  SessionInv'
  <1> USE DEF Connect, poolVars
  <1>1. Mirrors' /\ Books' /\ Distinct' /\ VerdictsMatch' /\ Judges' BY RestStill
  <1>2. PoolTypes' BY <1>1, OneMessage, EmptyIsSequence DEF SessionInv, PoolTypes, Queues
  <1>3. Stages' BY DEF SessionInv, Stages
  <1> QED BY <1>1, <1>2, <1>3 DEF SessionInv

\* is set up,
LEMMA SetsUp ==
  ASSUME SessionInv, SetupReply, UNCHANGED poolVars
  PROVE  SessionInv'
  <1> USE DEF SetupReply, poolVars
  <1>1. Mirrors' /\ Books' /\ Distinct' /\ VerdictsMatch' /\ Judges' BY RestStill
  <1>2. Queues BY DEF SessionInv, PoolTypes
  <1>3. up = <<>> /\ Len(dn) = 1 BY DEF SessionInv, Stages
  <1>4. dn' = <<>>
    <2>1. Len(dn') = 0 /\ IsSequence(dn') BY <1>2, <1>3, SequenceTail DEF Queues
    <2> QED BY <2>1, SequenceLen, Zenon
  <1>5. up' = <<OpenStandardMiningChannel>> BY <1>3
  <1>6. PoolTypes'
    BY <1>1, <1>2, <1>4, <1>5, OneMessage, EmptyIsSequence, Zenon DEF SessionInv, PoolTypes, Queues
  <1>7. Stages' BY <1>4, <1>5 DEF SessionInv, Stages
  <1> QED BY <1>1, <1>6, <1>7 DEF SessionInv

\* opens its channel,
LEMMA Opens ==
  ASSUME SessionInv, OpenReply, UNCHANGED poolVars
  PROVE  SessionInv'
  <1> USE DEF OpenReply, poolVars
  <1>1. Queues /\ dn # <<>> BY DEF SessionInv, PoolTypes
  <1>2. up = <<>> /\ Follows /\ Ledger /\ solutions = <<>> BY DEF SessionInv, Stages
  <1>3. IsSequence(dn') BY <1>1, SequenceTail DEF Queues
  <1>4. PoolTypes' BY <1>1, <1>3 DEF SessionInv, PoolTypes, Queues, Judges
  <1>5. PICK m : m = Head(dn) OBVIOUS
  <1>6. m.type = Open BY <1>5 DEF Open
  <1>7. Follows'
    <2>1. target' = TargetAfter(target, m) BY <1>5, <1>6 DEF TargetAfter
    <2>2. prevhash' = PrevAfter(prevhash, m) BY <1>6 DEF PrevAfter
    <2>3. \A js : JobsAfter(js, m) = {} BY <1>6 DEF JobsAfter
    <2>4. \A js : Known(JobsAfter(js, m))' BY <2>3 DEF Known
    <2>5. \A js : Known(js) => Known(JobsAfter(js, m))' BY <2>4
    <2> QED BY <1>1, <1>2, <1>5, <2>1, <2>2, <2>5, FollowsHandled DEF Queues
  <1>8. Ledger'
    <2>1. PICK c : /\ Answering(c, dn, solutions, Decided, verdict)
                   /\ Unsent(c[Len(dn)], solutions, Decided, verdict, batch)
                   /\ c[1] \in 0 .. Decided /\ Decided \in Nat
                   /\ Answers(m, 0, c[1], solutions, verdict)
      BY <1>1, <1>2, <1>5, NextAnswer
    <2>2. c[1] = 0 BY <1>6, <2>1 DEF Answers, Open
    <2>3. solutions' = solutions /\ Len(solutions) \in Nat BY <1>1, SequenceLen DEF Queues
    <2>4. /\ Len(solutions') = Len(solutions) - c[1]
          /\ \A i \in 1 .. Len(solutions) - c[1] : solutions'[i] = solutions[c[1] + i]
      BY <2>2, <2>3
    <2>5. Shares BY <1>2 DEF Ledger
    <2> QED BY <1>1, <2>1, <2>4, <2>5, LedgerHandled
  <1>9. Numbered'
    <2>1. solutions' = <<>> /\ Len(solutions') = 0 BY <1>2, EmptyIsSequence
    <2>2. Numbers(0)' BY <2>1, SeqNumsPositive DEF Numbers, Wrapped
    <2>3. 0 \in 0 .. SeqNums - 1 BY SeqNumsPositive
    <2> QED BY <2>2, <2>3 DEF Numbered
  <1>10. Stages' BY <1>7, <1>8, <1>9 DEF Stages
  <1>11. Mirrors' BY DEF SessionInv, Mirrors, MinesWhatPoolWants
  <1>12. Books' /\ Distinct' BY BooksStill, DistinctStill DEF SessionInv
  <1>13. VerdictsMatch' BY DEF SessionInv, VerdictsMatch
  <1> QED BY <1>4, <1>10, <1>11, <1>12, <1>13 DEF SessionInv

\* and its session ends.
LEMMA Ends ==
  ASSUME SessionInv, EndSession, UNCHANGED poolVars
  PROVE  SessionInv'
  <1> USE DEF EndSession, poolVars, Cleared
  <1>1. PoolTypes' BY EmptyIsSequence DEF SessionInv, PoolTypes, Queues, Judges
  <1>2. Stages' BY DEF SessionInv, Stages
  <1>3. Mirrors' BY DEF SessionInv, Mirrors, MinesWhatPoolWants
  <1>4. Books' /\ Distinct' BY BooksFlushed DEF SessionInv, Received
  <1>5. VerdictsMatch' BY DEF SessionInv, VerdictsMatch
  <1> QED BY <1>1, <1>2, <1>3, <1>4, <1>5 DEF SessionInv

\* The solutions a message answers leave the queue: those at I were accepted,
\* those at J rejected.
Settles(k, I, J) ==
  /\ IsSequence(solutions') /\ Len(solutions') = Len(solutions) - k
  /\ \A i \in 1 .. Len(solutions) - k : solutions'[i] = solutions[k + i]
  /\ I \cup J = 1 .. k /\ I \cap J = {}
  /\ accepted' = accepted \cup CountedAt(I) /\ CountedAt(I) \subseteq verdict.accepted
  /\ rejected' = rejected \cup CountedAt(J) /\ CountedAt(J) \subseteq verdict.rejected

LEMMA Handled ==
  ASSUME SessionInv, NEW type, Frame(type), UNCHANGED poolVars, NEW m, m = Head(dn),
         target' = TargetAfter(target, m), prevhash' = PrevAfter(prevhash, m),
         \A js : Known(js) => Known(JobsAfter(js, m))',
         \A k \in 0 .. Len(solutions) :
           Answers(m, 0, k, solutions, verdict) => \E I, J : Settles(k, I, J),
         Mirrors'
  PROVE  SessionInv'
  <1>1. /\ phase = "mine" /\ dn # <<>> /\ dn' = Tail(dn)
        /\ UNCHANGED <<up, phase, session, channel, seq_num, flushed, found>>
        /\ receiving' = {} /\ cancelled' = cancelled \cup Received
    BY DEF Frame, Received
  <1>2. UNCHANGED <<pool_jobs, pool_prev, blocks, pool_target, intended, batch, verdict>>
    BY DEF poolVars
  <1>3. Follows /\ Ledger /\ Numbered /\ Queues BY <1>1 DEF SessionInv, Stages, PoolTypes
  <1>4. PICK c : /\ Answering(c, dn, solutions, Decided, verdict)
                 /\ Unsent(c[Len(dn)], solutions, Decided, verdict, batch)
                 /\ c[1] \in 0 .. Decided /\ Decided \in Nat /\ Decided <= Len(solutions)
                 /\ Answers(m, 0, c[1], solutions, verdict)
    BY <1>1, <1>3, NextAnswer
  <1>5. PICK k \in 0 .. Len(solutions) : k = c[1]
    <2>1. PICK n \in Nat, d \in Nat : n = Len(solutions) /\ d = Decided
      BY <1>3, <1>4, SequenceLen DEF Queues
    <2> QED BY <1>4, <2>1
  <1>6. PICK I, J : Settles(k, I, J) BY <1>4, <1>5
  <1>7. Follows' BY <1>1, <1>2, <1>3, FollowsHandled DEF Queues
  <1>8. Ledger'
    <2>1. /\ Len(solutions') = Len(solutions) - c[1]
          /\ \A i \in 1 .. Len(solutions) - c[1] : solutions'[i] = solutions[c[1] + i]
      BY <1>5, <1>6, Zenon DEF Settles
    <2>2. Shares BY <1>3 DEF Ledger
    <2> QED BY <1>1, <1>2, <1>3, <1>4, <2>1, <2>2, LedgerHandled, Zenon
  <1>9. /\ Len(solutions') = Len(solutions) - k
        /\ \A i \in 1 .. Len(solutions) - k : solutions'[i] = solutions[k + i]
    BY <1>6 DEF Settles
  <1>10. IsSequence(solutions) BY <1>3 DEF Queues
  <1>11. Numbered' BY <1>1, <1>3, <1>9, <1>10, NumberedDrop, ZenonT(40)
  <1>12. Books' /\ Distinct'
    <2>1. /\ I \cup J = 1 .. k /\ I \cap J = {}
          /\ accepted' = accepted \cup CountedAt(I) /\ rejected' = rejected \cup CountedAt(J)
      BY <1>6, Zenon DEF Settles
    <2>2. Books /\ Distinct BY DEF SessionInv
    <2> QED BY <1>1, <1>9, <1>10, <2>1, <2>2, BooksAnswer, Zenon
  <1>13. VerdictsMatch' BY <1>2, <1>6, Zenon DEF SessionInv, VerdictsMatch, Settles
  <1>14. Stages' BY <1>1, <1>7, <1>8, <1>11 DEF Stages
  <1>15. PoolTypes'
    <2>1. IsSequence(dn') BY <1>1, <1>3, SequenceTail DEF Queues
    <2> QED BY <1>1, <1>2, <1>3, <1>6, <2>1 DEF SessionInv, PoolTypes, Queues, Judges, Settles
  <1> QED BY <1>12, <1>13, <1>14, <1>15 DEF SessionInv

\* Most messages answer nothing.
LEMMA SettlesNothing ==
  ASSUME NEW m, m.type \notin {"SubmitSharesSuccess", "SubmitSharesError"}, IsSequence(solutions),
         UNCHANGED <<solutions, accepted, rejected>>
  PROVE  \A k \in 0 .. Len(solutions) :
           Answers(m, 0, k, solutions, verdict) => \E I, J : Settles(k, I, J)
  <1> SUFFICES ASSUME NEW k \in 0 .. Len(solutions), Answers(m, 0, k, solutions, verdict)
               PROVE  \E I, J : Settles(k, I, J)
    OBVIOUS
  <1>1. k = 0 BY DEF Answers
  <1>2. Len(solutions) \in Nat BY SequenceLen
  <1>3. /\ Len(solutions') = Len(solutions) - k
        /\ \A i \in 1 .. Len(solutions) - k : solutions'[i] = solutions[k + i]
    BY <1>1, <1>2
  <1>4. CountedAt({}) = {} BY DEF CountedAt
  <1>5. {} \cup {} = 1 .. k BY <1>1
  <1>6. Settles(k, {}, {}) BY <1>3, <1>4, <1>5 DEF Settles
  <1> QED BY <1>6

\* Messages of the pool: a new job,
LEMMA HandlesJob ==
  ASSUME SessionInv, VisitNewMiningJob, UNCHANGED poolVars
  PROVE  SessionInv'
  <1>1. PICK m : m = Head(dn) OBVIOUS
  <1>2. /\ Frame("NewMiningJob")
        /\ all_jobs' = Insert(all_jobs, [id |-> m.job_id, root |-> m.merkle_root])
        /\ IF StartsNow(m) THEN UpdateJob(m.job_id, m.merkle_root, prevhash)
           ELSE UNCHANGED <<job, held>>
        /\ UNCHANGED <<prevhash, target, solutions, accepted, rejected, panicked>>
    BY <1>1 DEF VisitNewMiningJob, stats
  <1>3. m.type = "NewMiningJob" /\ phase = "mine" /\ dn # <<>> BY <1>1, <1>2 DEF Frame
  <1>4. IsSequence(dn) /\ IsSequence(solutions) /\ Follows
    BY <1>3 DEF SessionInv, PoolTypes, Queues, Stages
  <1>5. target' = TargetAfter(target, m) /\ prevhash' = PrevAfter(prevhash, m)
    BY <1>2, <1>3 DEF TargetAfter, PrevAfter, Open
  <1>6. ASSUME NEW js, Known(js) PROVE Known(JobsAfter(js, m))'
    <2>1. JobsAfter(js, m) = js \cup {m.job_id} BY <1>3 DEF JobsAfter, Open
    <2>2. \A id \in js \cup {m.job_id} : \E a \in all_jobs' : a.id = id
      BY <1>2, <1>6, Zenon DEF Known, Insert
    <2> QED BY <2>1, <2>2 DEF Known
  <1>7. PICK js : Known(js) /\ Meant(m, target, prevhash, js) BY <1>1, <1>3, <1>4, FollowsNow
  <1>8. m.merkle_root = m.job_id BY <1>3, <1>7 DEF Meant
  <1>9. intended' = intended BY DEF poolVars
  <1>10. Mirrors'
    <2>1. \A a \in all_jobs' : a.root = a.id
      BY <1>2, <1>8 DEF SessionInv, Mirrors, Insert
    <2>2. CASE StartsNow(m)
      <3>1. Wanted(m.job_id, prevhash, target) BY <1>3, <1>7, <2>2 DEF Meant, StartsNow
      <3>2. job' \in intended BY <1>2, <1>8, <2>2, <3>1, ZenonT(40) DEF UpdateJob, Wanted
      <3> QED BY <1>2, <1>9, <2>1, <3>2 DEF SessionInv, Mirrors, MinesWhatPoolWants
    <2>3. CASE ~StartsNow(m)
      BY <1>2, <1>9, <2>1, <2>3 DEF SessionInv, Mirrors, MinesWhatPoolWants
    <2> QED BY <2>2, <2>3
  <1>11. \A k \in 0 .. Len(solutions) :
           Answers(m, 0, k, solutions, verdict) => \E I, J : Settles(k, I, J)
    BY <1>2, <1>3, <1>4, SettlesNothing
  <1> QED BY <1>1, <1>2, <1>5, <1>6, <1>10, <1>11, Handled

\* a new block,
LEMMA HandlesBlock ==
  ASSUME SessionInv, VisitSetNewPrevHash, UNCHANGED poolVars
  PROVE  SessionInv'
  <1>1. PICK m : m = Head(dn) OBVIOUS
  <1>2. /\ Frame("SetNewPrevHash") /\ prevhash' = m.prev_hash
        /\ IF Referenced(m.job_id) # {}
             THEN /\ \E j \in Referenced(m.job_id) : UpdateJob(j.id, j.root, m.prev_hash)
                  /\ UNCHANGED panicked
             ELSE /\ panicked' = TRUE /\ UNCHANGED <<job, held>>
        /\ UNCHANGED <<all_jobs, target, solutions, accepted, rejected>>
    BY <1>1, Zenon DEF VisitSetNewPrevHash, stats
  <1>3. m.type = "SetNewPrevHash" /\ phase = "mine" /\ dn # <<>> BY <1>1, <1>2, Zenon DEF Frame
  <1>4. IsSequence(dn) /\ IsSequence(solutions) /\ Follows
    BY <1>3 DEF SessionInv, PoolTypes, Queues, Stages
  <1>5. target' = TargetAfter(target, m) /\ prevhash' = PrevAfter(prevhash, m)
    BY <1>2, <1>3 DEF TargetAfter, PrevAfter, Open
  <1>6. ASSUME NEW js, Known(js) PROVE Known(JobsAfter(js, m))'
    <2>1. JobsAfter(js, m) = js BY <1>3 DEF JobsAfter, Open
    <2>2. \A id \in js : \E a \in all_jobs' : a.id = id BY <1>2, <1>6 DEF Known
    <2> QED BY <2>1, <2>2 DEF Known
  <1>7. PICK js : Known(js) /\ Meant(m, target, prevhash, js) BY <1>1, <1>3, <1>4, FollowsNow
  <1>8. m.job_id \in js /\ Wanted(m.job_id, m.prev_hash, target) BY <1>3, <1>7 DEF Meant
  <1>9. intended' = intended BY DEF poolVars
  <1>10. Referenced(m.job_id) # {} BY <1>7, <1>8 DEF Known, Referenced
  <1>11. PICK j \in Referenced(m.job_id) : UpdateJob(j.id, j.root, m.prev_hash) BY <1>2, <1>10
  <1>12. j.id = m.job_id /\ j.root = m.job_id BY DEF Referenced, SessionInv, Mirrors
  <1>13. job' \in intended BY <1>8, <1>11, <1>12 DEF UpdateJob, Wanted
  <1>14. Mirrors' BY <1>2, <1>9, <1>10, <1>13, Zenon DEF SessionInv, Mirrors, MinesWhatPoolWants
  <1>15. \A k \in 0 .. Len(solutions) :
           Answers(m, 0, k, solutions, verdict) => \E I, J : Settles(k, I, J)
    BY <1>2, <1>3, <1>4, SettlesNothing
  <1> QED BY <1>1, <1>2, <1>5, <1>6, <1>14, <1>15, Handled

\* a new target,
LEMMA HandlesTarget ==
  ASSUME SessionInv, VisitSetTarget, UNCHANGED poolVars
  PROVE  SessionInv'
  <1>1. PICK m : m = Head(dn) OBVIOUS
  <1>2. /\ Frame("SetTarget") /\ target' = m.target
        /\ UNCHANGED <<all_jobs, prevhash, job, held, solutions, accepted, rejected, panicked>>
    BY <1>1 DEF VisitSetTarget, stats
  <1>3. m.type = "SetTarget" /\ phase = "mine" BY <1>1, <1>2 DEF Frame
  <1>4. IsSequence(solutions) BY DEF SessionInv, PoolTypes, Queues
  <1>5. target' = TargetAfter(target, m) /\ prevhash' = PrevAfter(prevhash, m)
    BY <1>2, <1>3 DEF TargetAfter, PrevAfter, Open
  <1>6. ASSUME NEW js, Known(js) PROVE Known(JobsAfter(js, m))'
    <2>1. JobsAfter(js, m) = js BY <1>3 DEF JobsAfter, Open
    <2>2. \A id \in js : \E a \in all_jobs' : a.id = id BY <1>2, <1>6 DEF Known
    <2> QED BY <2>1, <2>2 DEF Known
  <1>7. Mirrors' BY <1>2, MirrorsStill DEF SessionInv, poolVars
  <1>8. \A k \in 0 .. Len(solutions) :
           Answers(m, 0, k, solutions, verdict) => \E I, J : Settles(k, I, J)
    BY <1>2, <1>3, <1>4, SettlesNothing
  <1> QED BY <1>1, <1>2, <1>5, <1>6, <1>7, <1>8, Handled

\* shares accepted,
LEMMA HandlesSuccess ==
  ASSUME SessionInv, VisitSubmitSharesSuccess, UNCHANGED poolVars
  PROVE  SessionInv'
  <1>1. PICK m, seq : m = Head(dn) /\ seq = m.last_seq_num OBVIOUS
  <1>2. /\ Frame("SubmitSharesSuccess")
        /\ accepted' = accepted \cup CountedAt(1 .. Taken(seq))
        /\ solutions' = SubSeq(solutions, Taken(seq) + 1, Len(solutions))
        /\ UNCHANGED <<rejected, all_jobs, prevhash, target, job, held, panicked>>
    BY <1>1, Zenon DEF VisitSubmitSharesSuccess, ProcessAcceptedShares, handler
  <1>3. m.type = "SubmitSharesSuccess" /\ phase = "mine" BY <1>1, <1>2, Zenon DEF Frame
  <1>4. IsSequence(solutions) /\ Numbered BY <1>3 DEF SessionInv, PoolTypes, Queues, Stages
  <1>5. target' = TargetAfter(target, m) /\ prevhash' = PrevAfter(prevhash, m)
    BY <1>2, <1>3 DEF TargetAfter, PrevAfter, Open
  <1>6. ASSUME NEW js, Known(js) PROVE Known(JobsAfter(js, m))'
    <2>1. JobsAfter(js, m) = js BY <1>3 DEF JobsAfter, Open
    <2>2. \A id \in js : \E a \in all_jobs' : a.id = id BY <1>2, <1>6 DEF Known
    <2> QED BY <2>1, <2>2 DEF Known
  <1>7. Mirrors' BY <1>2, MirrorsStill DEF SessionInv, poolVars
  <1>8. ASSUME NEW k \in 0 .. Len(solutions), Answers(m, 0, k, solutions, verdict)
        PROVE  \E I, J : Settles(k, I, J)
    <2>1. 0 < k /\ solutions[k].seq_num = seq /\ Yes(0 + 1, k, solutions, verdict)
      BY <1>1, <1>3, <1>8 DEF Answers
    <2>2. k \in 1 .. Len(solutions) BY <1>4, <2>1, SequenceLen
    <2>3. Taken(seq) = k BY <1>4, <2>1, <2>2, AnswerMatches
    <2>4. /\ IsSequence(solutions') /\ Len(solutions') = Len(solutions) - k
          /\ \A i \in 1 .. Len(solutions) - k : solutions'[i] = solutions[k + i]
      BY <1>2, <1>4, <2>3, SequenceDrop
    <2>5. CountedAt(1 .. k) \subseteq verdict.accepted BY <2>1 DEF CountedAt, Yes
    <2>6. CountedAt({}) = {} BY DEF CountedAt
    <2>7. Settles(k, 1 .. k, {}) BY <1>2, <2>3, <2>4, <2>5, <2>6 DEF Settles
    <2> QED BY <2>7
  <1> QED BY <1>1, <1>2, <1>5, <1>6, <1>7, <1>8, Handled

\* a share rejected.
LEMMA HandlesError ==
  ASSUME SessionInv, VisitSubmitSharesError, UNCHANGED poolVars
  PROVE  SessionInv'
  <1>1. PICK m, seq : m = Head(dn) /\ seq = m.seq_num OBVIOUS
  <1>2. /\ Frame("SubmitSharesError")
        /\ accepted' = accepted \cup CountedAt((1 .. Taken(seq)) \ Matched(seq))
        /\ rejected' = rejected \cup CountedAt(Matched(seq))
        /\ solutions' = SubSeq(solutions, Taken(seq) + 1, Len(solutions))
        /\ UNCHANGED <<all_jobs, prevhash, target, job, held, panicked>>
    BY <1>1, Zenon DEF VisitSubmitSharesError, ProcessRejectedShares, handler
  <1>3. m.type = "SubmitSharesError" /\ phase = "mine" BY <1>1, <1>2, Zenon DEF Frame
  <1>4. IsSequence(solutions) /\ Numbered BY <1>3 DEF SessionInv, PoolTypes, Queues, Stages
  <1>5. target' = TargetAfter(target, m) /\ prevhash' = PrevAfter(prevhash, m)
    BY <1>2, <1>3 DEF TargetAfter, PrevAfter, Open
  <1>6. ASSUME NEW js, Known(js) PROVE Known(JobsAfter(js, m))'
    <2>1. JobsAfter(js, m) = js BY <1>3 DEF JobsAfter, Open
    <2>2. \A id \in js : \E a \in all_jobs' : a.id = id BY <1>2, <1>6 DEF Known
    <2> QED BY <2>1, <2>2 DEF Known
  <1>7. Mirrors' BY <1>2, MirrorsStill DEF SessionInv, poolVars
  <1>8. ASSUME NEW k \in 0 .. Len(solutions), Answers(m, 0, k, solutions, verdict)
        PROVE  \E I, J : Settles(k, I, J)
    <2>1. /\ 0 < k /\ solutions[k].seq_num = seq /\ Yes(0 + 1, k - 1, solutions, verdict)
          /\ solutions[k].solution.uid \in verdict.rejected
      BY <1>1, <1>3, <1>8 DEF Answers
    <2>2. k \in 1 .. Len(solutions) /\ k \in Nat BY <1>4, <2>1, SequenceLen
    <2>3. Taken(seq) = k /\ Matched(seq) = {k} BY <1>4, <2>1, <2>2, AnswerMatches, Zenon
    <2>4. /\ IsSequence(solutions') /\ Len(solutions') = Len(solutions) - k
          /\ \A i \in 1 .. Len(solutions) - k : solutions'[i] = solutions[k + i]
      BY <1>2, <1>4, <2>3, SequenceDrop
    <2>5. PICK I : I = (1 .. k) \ {k} BY Zenon
    <2>6. (\A i \in I : i \in 0 + 1 .. k - 1) /\ I \cup {k} = 1 .. k /\ I \cap {k} = {}
      BY <2>1, <2>2, <2>5
    <2>7. CountedAt(I) \subseteq verdict.accepted BY <2>1, <2>6 DEF CountedAt, Yes
    <2>8. CountedAt({k}) \subseteq verdict.rejected BY <2>1 DEF CountedAt
    <2>9. Settles(k, I, {k}) BY <1>2, <2>3, <2>4, <2>5, <2>6, <2>7, <2>8, Zenon DEF Settles
    <2> QED BY <2>9
  <1> QED BY <1>1, <1>2, <1>5, <1>6, <1>7, <1>8, Handled

\* Nothing that passes between the client and the pool changes.
LEMMA StagesStill ==
  ASSUME Stages,
         UNCHANGED <<up, dn, phase, session, all_jobs, prevhash, target, solutions, seq_num,
                     pool_jobs, pool_prev, pool_target, intended, batch, verdict>>
  PROVE  Stages'
  <1>1. Follows => Follows' BY FollowsStill
  <1>2. Ledger => Ledger' BY LedgerStill
  <1>3. Numbered => Numbered' BY DEF Numbered, Numbers, Wrapped
  <1> QED BY <1>1, <1>2, <1>3, Zenon DEF Stages

\* The hardware finds a solution, the client receives it and submits it.
LEMMA Finds ==
  ASSUME SessionInv, NEW j, Find(j), UNCHANGED poolVars
  PROVE  SessionInv'
  <1> USE DEF Find, poolVars, handler, stats
  <1>1. PICK s : s = [uid |-> found + 1, job |-> j] OBVIOUS
  <1>2. channel' = Append(channel, s) /\ s.uid = found + 1 BY <1>1
  <1>3. IsSequence(channel) BY DEF SessionInv, PoolTypes, Queues
  <1>4. PoolTypes' BY <1>2, <1>3, SequenceAppend DEF SessionInv, PoolTypes, Queues, Judges
  <1>5. Stages' BY StagesStill DEF SessionInv
  <1>6. Mirrors' BY MirrorsStill DEF SessionInv
  <1>7. Books' /\ Distinct' BY <1>2, <1>3, BooksFound DEF SessionInv
  <1>8. VerdictsMatch' BY DEF SessionInv, VerdictsMatch
  <1> QED BY <1>4, <1>5, <1>6, <1>7, <1>8 DEF SessionInv

LEMMA Receives ==
  ASSUME SessionInv, Receive, UNCHANGED poolVars
  PROVE  SessionInv'
  <1> USE DEF Receive, poolVars, handler, stats
  <1>1. IsSequence(channel) BY DEF SessionInv, PoolTypes, Queues
  <1>2. PoolTypes' BY <1>1, SequenceTail DEF SessionInv, PoolTypes, Queues, Judges
  <1>3. Stages' BY StagesStill DEF SessionInv
  <1>4. Mirrors' BY MirrorsStill DEF SessionInv
  <1>5. Books' /\ Distinct' BY <1>1, BooksReceived DEF SessionInv
  <1>6. VerdictsMatch' BY DEF SessionInv, VerdictsMatch
  <1> QED BY <1>2, <1>3, <1>4, <1>5, <1>6 DEF SessionInv

LEMMA Submits ==
  ASSUME SessionInv, ProcessSolution, UNCHANGED poolVars
  PROVE  SessionInv'
  <1>1. /\ phase = "mine" /\ Len(solutions) < SeqNums
        /\ seq_num' = (seq_num + 1) % SeqNums /\ receiving' = {}
        /\ UNCHANGED <<dn, phase, session, all_jobs, prevhash, target, job, held, channel,
                       accepted, rejected, flushed, cancelled, found, panicked>>
    BY DEF ProcessSolution, handler, stats
  <1>2. UNCHANGED <<pool_jobs, pool_prev, blocks, pool_target, intended, batch, verdict>>
    BY DEF poolVars
  <1>3. PICK s \in receiving :
          /\ solutions' = Append(solutions, [solution |-> s, seq_num |-> seq_num])
          /\ up' = Append(up, SubmitSharesStandard(seq_num, s.job.id, s))
    BY DEF ProcessSolution
  <1>4. PICK e, m : e = [solution |-> s, seq_num |-> seq_num]
                    /\ m = SubmitSharesStandard(seq_num, s.job.id, s)
    BY Zenon
  <1>5. /\ e.solution = s /\ e.seq_num = seq_num
        /\ m.type = "SubmitSharesStandard" /\ m.seq_num = seq_num /\ m.solution = s
    BY <1>4 DEF SubmitSharesStandard
  <1>6. solutions' = Append(solutions, e) /\ up' = Append(up, m) BY <1>3, <1>4
  <1>7. Queues /\ Follows /\ Ledger /\ Numbered BY <1>1 DEF SessionInv, PoolTypes, Stages
  <1>8. PoolTypes'
    BY <1>1, <1>2, <1>6, <1>7, SequenceAppend DEF SessionInv, PoolTypes, Queues, Judges
  <1>9. Follows' BY <1>1, <1>2, <1>7, FollowsStill
  <1>10. Ledger' BY <1>1, <1>2, <1>5, <1>6, <1>7, LedgerSubmits
  <1>11. Numbered' BY <1>1, <1>5, <1>6, <1>7, NumberedAppend DEF Queues
  <1>12. Stages' BY <1>1, <1>9, <1>10, <1>11 DEF Stages
  <1>13. Mirrors' BY <1>1, <1>2, MirrorsStill DEF SessionInv
  <1>14. Books' /\ Distinct' BY <1>1, <1>5, <1>6, <1>7, BooksSubmitted DEF SessionInv, Queues
  <1>15. VerdictsMatch' BY <1>1, <1>2 DEF SessionInv, VerdictsMatch
  <1> QED BY <1>8, <1>12, <1>13, <1>14, <1>15 DEF SessionInv
=============================================================================
