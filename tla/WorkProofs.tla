------------------------------ MODULE WorkProofs ----------------------------
(***************************************************************************)
(* The way of work to a hash board.  A FIFO of its IP core is a queue, for *)
(* every size and every set of items, and a transfer on the bus acts once  *)
(* on its FIFO, for every size.  The work engine of a job gives            *)
(* each work to one board, for every number of boards, every range and     *)
(* every step, and the hardware sees the engine of the active client, for  *)
(* every number of clients, generators, jobs and works.                    *)
(***************************************************************************)
EXTENDS FifoQueue, AxiSlave, VersionRolling, WorkDistribution, TLAPS

-----------------------------------------------------------------------------
(* What the proofs use of sequences.                                       *)

LEMMA SeqEmpty ==
  ASSUME NEW S
  PROVE  /\ <<>> \in Seq(S) /\ Len(<<>>) = 0
         /\ \A q \in Seq(S) : q # <<>> => Len(q) \in Nat \ {0}
  OBVIOUS

LEMMA SeqLen ==
  ASSUME NEW S, NEW q \in Seq(S)
  PROVE  Len(q) \in Nat /\ DOMAIN q = 1 .. Len(q) /\ q \in [1 .. Len(q) -> S]
  OBVIOUS

LEMMA SeqTail ==
  ASSUME NEW S, NEW q \in Seq(S), q # <<>>
  PROVE  /\ Head(q) \in S
         /\ Tail(q) \in Seq(S) /\ Len(Tail(q)) = Len(q) - 1
         /\ \A k \in 1 .. Len(Tail(q)) : Tail(q)[k] = q[k + 1]
  OBVIOUS

LEMMA SeqAppend ==
  ASSUME NEW S, NEW q \in Seq(S), NEW x \in S
  PROVE  /\ Append(q, x) \in Seq(S) /\ Append(q, x) # <<>>
         /\ Len(Append(q, x)) = Len(q) + 1
         /\ \A k \in 1 .. Len(q) : Append(q, x)[k] = q[k]
         /\ Append(q, x)[Len(q) + 1] = x
  OBVIOUS

LEMMA SeqConcatEmpty ==
  ASSUME NEW S, NEW q \in Seq(S)
  PROVE  q \o <<>> = q /\ <<>> \o q = q
  OBVIOUS

LEMMA SeqAppendConcat ==
  ASSUME NEW S, NEW q \in Seq(S), NEW x \in S
  PROVE  Append(q, x) = q \o <<x>>
  OBVIOUS

-----------------------------------------------------------------------------
(* The pointers of a FIFO.                                                     *)

\* Pointers wrap once at most.
LEMMA Wraps ==
  ASSUME NEW size \in Nat \ {0}, NEW x \in Int, 0 - size <= x, x < 2 * size
  PROVE  x % size = IF x < 0 THEN x + size ELSE IF x < size THEN x ELSE x - size
  <1>0. size \in Nat \ {0} OBVIOUS
  <1>1. CASE x < 0
    <2>1. x + size \in 0 .. size - 1 /\ x = size * (-1) + (x + size) BY <1>0, <1>1
    <2>2. PICK y \in 0 .. size - 1 : y = x + size BY <2>1
    <2>3. x % size = y BY <1>0, <2>1, <2>2
    <2> QED BY <1>1, <2>2, <2>3
  <1>2. CASE 0 <= x /\ x < size
    BY <1>0, <1>2
  <1>3. CASE size <= x
    <2>1. x - size \in 0 .. size - 1 /\ x = size * 1 + (x - size) BY <1>0, <1>3
    <2>2. PICK y \in 0 .. size - 1 : y = x - size BY <2>1
    <2>3. x % size = y BY <1>0, <2>1, <2>2
    <2> QED BY <1>0, <1>3, <2>2, <2>3
  <1> QED BY <1>0, <1>1, <1>2, <1>3

\* The slot k places after the read pointer.
Slot(size, r, k) == IF r + k < size THEN r + k ELSE r + k - size

LEMMA SlotIsMod ==
  ASSUME NEW size \in Nat \ {0}, NEW r \in 0 .. size - 1, NEW k \in 0 .. size
  PROVE  /\ (r + k) % size = Slot(size, r, k)
         /\ Slot(size, r, k) \in 0 .. size - 1
  <1>0. size \in Nat \ {0} OBVIOUS
  <1>1. PICK x \in Int : x = r + k BY <1>0
  <1>2. 0 - size <= x /\ x < 2 * size /\ x >= 0 BY <1>0, <1>1
  <1>3. x % size = IF x < 0 THEN x + size ELSE IF x < size THEN x ELSE x - size
    BY <1>2, Wraps, Zenon
  <1> QED BY <1>0, <1>1, <1>2, <1>3 DEF Slot

LEMMA VolumeIsLength ==
  ASSUME NEW size \in Nat \ {0}, NEW r \in 0 .. size - 1, NEW k \in 0 .. size
  PROVE  (Slot(size, r, k) - r) % size = IF k = size THEN 0 ELSE k
  <1>0. size \in Nat \ {0} OBVIOUS
  <1>1. PICK x \in Int : x = Slot(size, r, k) - r BY <1>0 DEF Slot
  <1>2. 0 - size <= x /\ x < 2 * size BY <1>0, <1>1 DEF Slot
  <1>3. x % size = IF x < 0 THEN x + size ELSE IF x < size THEN x ELSE x - size
    BY <1>2, Wraps, Zenon
  <1> QED BY <1>0, <1>1, <1>2, <1>3 DEF Slot

-----------------------------------------------------------------------------
(* A FIFO and its queue.                                                       *)

\* This memory holds the items of q between these two pointers.
Holds(ram, r, w, q) ==
  /\ w = Slot(Size, r, Len(q))
  /\ \A i \in 1 .. Len(q) : q[i] = ram[Slot(Size, r, i - 1)]

\* Taking the oldest item.
LEMMA Pop ==
  ASSUME NEW ram \in [0 .. Size - 1 -> Data \cup {NoData}],
         NEW r \in 0 .. Size - 1, NEW w, NEW q \in Seq(Data),
         q # <<>>, Len(q) <= Size, Holds(ram, r, w, q)
  PROVE  /\ Holds(ram, Slot(Size, r, 1), w, Tail(q))
         /\ Head(q) = ram[r]
         /\ Tail(q) \in Seq(Data) /\ Len(Tail(q)) = Len(q) - 1
  <1>0. Size \in Nat \ {0, 1} BY FifoSizeAssumption
  <1>1. /\ Tail(q) \in Seq(Data) /\ Len(Tail(q)) = Len(q) - 1
        /\ \A i \in 1 .. Len(Tail(q)) : Tail(q)[i] = q[i + 1]
        /\ Len(q) \in Nat /\ Len(q) >= 1 /\ Head(q) = q[1]
    BY SeqTail
  <1>2. w = Slot(Size, Slot(Size, r, 1), Len(q) - 1) BY <1>0, <1>1 DEF Holds, Slot
  <1>3. ASSUME NEW i \in 1 .. Len(Tail(q)) PROVE Tail(q)[i] = ram[Slot(Size, Slot(Size, r, 1), i - 1)]
    <2>1. i + 1 \in 1 .. Len(q) /\ Tail(q)[i] = q[i + 1] BY <1>1
    <2>2. q[i + 1] = ram[Slot(Size, r, i)]
      <3>1. PICK j \in 1 .. Len(q) : j = i + 1 BY <2>1
      <3>2. q[j] = ram[Slot(Size, r, j - 1)] BY DEF Holds
      <3>3. j - 1 = i BY <3>1, <1>1
      <3> QED BY <3>1, <3>2, <3>3
    <2>3. Slot(Size, r, i) = Slot(Size, Slot(Size, r, 1), i - 1) BY <1>0, <1>1 DEF Slot
    <2> QED BY <2>1, <2>2, <2>3
  <1>4. q[1] = ram[r]
    <2>1. 1 \in 1 .. Len(q) /\ Slot(Size, r, 1 - 1) = r BY <1>0, <1>1 DEF Slot
    <2> QED BY <2>1 DEF Holds
  <1> QED BY <1>1, <1>2, <1>3, <1>4 DEF Holds

\* Adding an item where there is room.
HoldsMore(ram, r, w, q, d) ==
  /\ Holds([ram EXCEPT ![w] = d], r, Slot(Size, w, 1), Append(q, d))
  /\ Append(q, d) \in Seq(Data) /\ Len(Append(q, d)) = Len(q) + 1

LEMMA Push ==
  ASSUME NEW ram \in [0 .. Size - 1 -> Data \cup {NoData}],
         NEW r \in 0 .. Size - 1, NEW w \in 0 .. Size - 1, NEW q \in Seq(Data),
         NEW d \in Data, Len(q) < Size, Holds(ram, r, w, q)
  PROVE  HoldsMore(ram, r, w, q, d)
  <1>0. Size \in Nat \ {0, 1} BY FifoSizeAssumption
  <1>1. PICK m, p : m = [ram EXCEPT ![w] = d] /\ p = Append(q, d) BY Zenon
  <1>2. /\ p \in Seq(Data) /\ Len(p) = Len(q) + 1 /\ Len(q) \in Nat
        /\ p[Len(q) + 1] = d /\ \A i \in 1 .. Len(q) : p[i] = q[i]
    BY <1>1, SeqAppend
  <1>3. Slot(Size, w, 1) = Slot(Size, r, Len(q) + 1) BY <1>0, <1>2 DEF Holds, Slot
  <1>4. ASSUME NEW i \in 1 .. Len(q) + 1 PROVE p[i] = m[Slot(Size, r, i - 1)]
    <2>1. CASE i = Len(q) + 1
      <3>1. Slot(Size, r, i - 1) = w BY <1>0, <1>2, <2>1 DEF Holds, Slot
      <3> QED BY <1>1, <1>2, <2>1, <3>1
    <2>2. CASE i \in 1 .. Len(q)
      <3>1. Slot(Size, r, i - 1) # w /\ Slot(Size, r, i - 1) \in 0 .. Size - 1
        BY <1>0, <1>2, <2>2 DEF Holds, Slot
      <3>2. q[i] = ram[Slot(Size, r, i - 1)] BY <2>2 DEF Holds
      <3> QED BY <1>1, <1>2, <2>2, <3>1, <3>2
    <2> QED BY <1>2, <2>1, <2>2
  <1>5. Holds(m, r, Slot(Size, w, 1), p) BY <1>2, <1>3, <1>4 DEF Holds
  <1> QED BY <1>1, <1>2, <1>5 DEF HoldsMore

-----------------------------------------------------------------------------
\* The inductive invariant: the flags cannot be read off the pointers alone, which
\* are equal in an empty and in a full FIFO.
RingInv ==
  /\ QTypeOK /\ MemoryHoldsQueue /\ ReadsInOrder
  /\ fifo.empty <=> queue = <<>>
  /\ fifo.full <=> Len(queue) = Size

\* MemoryHoldsQueue without remainders.
LEMMA Memory ==
  ASSUME QTypeOK
  PROVE  MemoryHoldsQueue <=> Holds(fifo.ram, fifo.r_ptr, fifo.w_ptr, queue)
  <1>0. Size \in Nat \ {0, 1} BY FifoSizeAssumption
  <1>1. fifo.r_ptr \in 0 .. Size - 1 /\ Len(queue) \in 0 .. Size
    BY <1>0, SeqLen DEF QTypeOK
  <1>2. (fifo.r_ptr + Len(queue)) % Size = Slot(Size, fifo.r_ptr, Len(queue)) BY <1>0, <1>1, SlotIsMod, Zenon
  <1>3. ASSUME NEW i \in 1 .. Len(queue)
        PROVE  (fifo.r_ptr + i - 1) % Size = Slot(Size, fifo.r_ptr, i - 1)
    <2>1. PICK k \in 0 .. Size : k = i - 1 BY <1>0, <1>1
    <2>2. (fifo.r_ptr + k) % Size = Slot(Size, fifo.r_ptr, k) BY <1>0, <1>1, SlotIsMod, Zenon
    <2>3. fifo.r_ptr + i - 1 = fifo.r_ptr + k BY <1>0, <1>1, <2>1
    <2> QED BY <2>1, <2>2, <2>3
  <1> QED BY <1>2, <1>3 DEF MemoryHoldsQueue, Holds

LEMMA InitRingInv == QInit => RingInv
  <1> SUFFICES ASSUME QInit PROVE RingInv OBVIOUS
  <1>0. Size \in Nat \ {0, 1} BY FifoSizeAssumption
  <1>1. QTypeOK BY <1>0 DEF QInit, QTypeOK, FifoReset
  <1>2. Holds(fifo.ram, fifo.r_ptr, fifo.w_ptr, queue)
    BY <1>0 DEF QInit, FifoReset, Holds, Slot
  <1>3. MemoryHoldsQueue BY <1>1, <1>2, Memory
  <1> QED BY <1>0, <1>1, <1>3 DEF QInit, FifoReset, RingInv, ReadsInOrder

\* Every edge keeps it.
LEMMA EdgeRingInv ==
  ASSUME RingInv, NEW wr \in BOOLEAN, NEW rd \in BOOLEAN, NEW clear \in BOOLEAN,
         NEW data \in Data, Edge(wr, data, rd, clear)
  PROVE  RingInv'
  <1>0. Size \in Nat \ {0, 1} BY FifoSizeAssumption
  <1>1. PICK ram \in [0 .. Size - 1 -> Data \cup {NoData}], r \in 0 .. Size - 1,
             w \in 0 .. Size - 1, e \in BOOLEAN, f \in BOOLEAN, d \in Data \cup {NoData} :
          fifo = [ram |-> ram, r_ptr |-> r, w_ptr |-> w, empty |-> e, full |-> f, data_r |-> d]
    BY DEF RingInv, QTypeOK
  <1>2. /\ queue \in Seq(Data) /\ Len(queue) \in 0 .. Size
        /\ e <=> queue = <<>>
        /\ f <=> Len(queue) = Size
        /\ d = port
    BY <1>0, <1>1, SeqLen DEF RingInv, QTypeOK, ReadsInOrder
  <1>3. Holds(ram, r, w, queue) BY <1>1, Memory DEF RingInv
  <1>4. PICK pop \in BOOLEAN : pop <=> rd /\ ~e BY Zenon
  <1>5. PICK push \in BOOLEAN : push <=> wr /\ ~f BY Zenon
  <1>6. (pop => queue # <<>>) /\ (push => Len(queue) < Size) BY <1>0, <1>2, <1>4, <1>5
  <1>7. PICK r1 \in 0 .. Size - 1, q1 \in Seq(Data) :
          /\ r1 = (IF pop THEN Slot(Size, r, 1) ELSE r) /\ q1 = (IF pop THEN Tail(queue) ELSE queue)
          /\ Holds(ram, r1, w, q1) /\ Len(q1) = (IF pop THEN Len(queue) - 1 ELSE Len(queue))
          /\ pop => Head(queue) = ram[r]
    <2>0. Len(queue) <= Size /\ 1 \in 0 .. Size BY <1>0, <1>2
    <2>1. CASE pop
      <3>1. Slot(Size, r, 1) \in 0 .. Size - 1 BY <1>0, <2>0, SlotIsMod, Zenon
      <3>2. /\ Holds(ram, Slot(Size, r, 1), w, Tail(queue)) /\ Head(queue) = ram[r]
            /\ Tail(queue) \in Seq(Data) /\ Len(Tail(queue)) = Len(queue) - 1
        BY <1>2, <1>3, <1>6, <2>0, <2>1, Pop, Zenon
      <3> QED BY <2>1, <3>1, <3>2, Zenon
    <2>2. CASE ~pop BY <1>2, <1>3, <2>2
    <2> QED BY <2>1, <2>2
  <1>8. PICK w1 \in 0 .. Size - 1, ram1 \in [0 .. Size - 1 -> Data \cup {NoData}], q2 \in Seq(Data) :
          /\ w1 = (IF push THEN Slot(Size, w, 1) ELSE w) /\ q2 = (IF push THEN Append(q1, data) ELSE q1)
          /\ ram1 = IF push THEN [ram EXCEPT ![w] = data] ELSE ram
          /\ Holds(ram1, r1, w1, q2) /\ Len(q2) = (IF push THEN Len(q1) + 1 ELSE Len(q1))
    <2>0. Holds(ram, r1, w, q1) /\ (push => Len(q1) < Size) /\ 1 \in 0 .. Size
      BY <1>0, <1>2, <1>6, <1>7
    <2>1. CASE push
      <3>1. Slot(Size, w, 1) \in 0 .. Size - 1 BY <1>0, <2>0, SlotIsMod, Zenon
      <3>2. HoldsMore(ram, r1, w, q1, data) BY <2>0, <2>1, Push
      <3>3. [ram EXCEPT ![w] = data] \in [0 .. Size - 1 -> Data \cup {NoData}] OBVIOUS
      <3> QED BY <2>1, <3>1, <3>2, <3>3, Zenon DEF HoldsMore
    <2>2. CASE ~push BY <2>0, <2>2
    <2> QED BY <2>1, <2>2
  <1>9. /\ port' \in Data \cup {NoData}
        /\ port' = IF pop THEN ram[r] ELSE d
    <2>1. pop <=> rd /\ queue # <<>> BY <1>2, <1>4
    <2>2. port' = IF pop THEN Head(queue) ELSE port BY <2>1 DEF Edge
    <2>3. ram[r] \in Data \cup {NoData} OBVIOUS
    <2> QED BY <1>2, <1>7, <2>2, <2>3
  <1>10. (r + 1) % Size = Slot(Size, r, 1) /\ (w + 1) % Size = Slot(Size, w, 1)
    <2>1. 1 \in 0 .. Size BY <1>0
    <2> QED BY <1>0, <2>1, SlotIsMod, Zenon
  <1>11. CASE clear
    <2>1. /\ fifo' = [ram |-> ram1, r_ptr |-> 0, w_ptr |-> 0, empty |-> TRUE, full |-> FALSE,
                      data_r |-> IF pop THEN ram[r] ELSE d]
          /\ queue' = <<>>
      BY <1>1, <1>4, <1>5, <1>8, <1>11, Zenon DEF Edge, BlockStep, Control, Stored
    <2>2. QTypeOK' BY <1>0, <1>9, <2>1 DEF QTypeOK
    <2>3. Holds(ram1, 0, 0, <<>>) BY <1>0 DEF Holds, Slot
    <2>4. MemoryHoldsQueue' BY <1>0, <2>1 DEF MemoryHoldsQueue
    <2> QED BY <1>0, <1>9, <2>1, <2>2, <2>4 DEF RingInv, ReadsInOrder
  <1>12. CASE ~clear
    <2>1. PICK e1 \in BOOLEAN, f1 \in BOOLEAN :
            /\ e1 = (IF pop = push THEN e ELSE pop /\ Slot(Size, r, 1) = w)
            /\ f1 = (IF pop = push THEN f ELSE push /\ Slot(Size, w, 1) = r)
      OBVIOUS
    <2>2. fifo' = [ram |-> ram1, r_ptr |-> r1, w_ptr |-> w1, empty |-> e1, full |-> f1,
                   data_r |-> IF pop THEN ram[r] ELSE d]
      BY <1>1, <1>4, <1>5, <1>7, <1>8, <1>10, <1>12, <2>1, Zenon
         DEF Edge, BlockStep, Control, Stored, Incremented
    <2>3. queue' = q2
      <3>1. Popped(rd) = q1 BY <1>2, <1>4, <1>7 DEF Popped
      <3>2. Pushed(wr, data) = IF push THEN <<data>> ELSE <<>>
        <4>1. push <=> wr /\ Len(queue) < Size BY <1>0, <1>2, <1>5
        <4> QED BY <4>1 DEF Pushed
      <3>3. q1 \o <<>> = q1 /\ q1 \o <<data>> = Append(q1, data)
        BY SeqConcatEmpty, SeqAppendConcat
      <3> QED BY <1>8, <1>12, <3>1, <3>2, <3>3 DEF Edge
    <2>4. Len(q1) \in Nat /\ Len(q2) \in Nat /\ (q2 = <<>> <=> Len(q2) = 0)
      BY SeqLen, SeqEmpty
    <2>5. e1 <=> q2 = <<>>
      <3>1. Len(queue) > 0 <=> ~e BY <1>2, SeqLen, SeqEmpty
      <3>2. w = Slot(Size, r, Len(queue)) BY <1>3 DEF Holds
      <3>3. CASE pop = push BY <1>0, <1>2, <1>4, <1>7, <1>8, <2>1, <2>4, <3>1, <3>3
      <3>4. CASE pop /\ ~push
        <4>1. e1 <=> Slot(Size, r, 1) = w BY <2>1, <3>4, Zenon
        <4>2. Len(q2) = Len(queue) - 1 /\ Len(queue) \in 1 .. Size
          BY <1>0, <1>2, <1>4, <1>7, <1>8, <3>1, <3>4
        <4>3. Slot(Size, r, 1) = Slot(Size, r, Len(queue)) <=> Len(queue) = 1
          <5>1. PICK k \in 1 .. Size : k = Len(queue) BY <4>2
          <5>2. Slot(Size, r, 1) = Slot(Size, r, k) <=> k = 1 BY <1>0 DEF Slot
          <5> QED BY <5>1, <5>2
        <4>4. Len(q2) = 0 <=> Len(queue) = 1 BY <4>2
        <4> QED BY <2>4, <3>2, <4>1, <4>3, <4>4
      <3>5. CASE ~pop /\ push
        <4>1. ~e1 BY <2>1, <3>5, Zenon
        <4>2. Len(q2) # 0 BY <1>8, <2>4, <3>5
        <4> QED BY <2>4, <4>1, <4>2
      <3> QED BY <3>3, <3>4, <3>5
    <2>6. f1 <=> Len(q2) = Size
      <3>1. w = Slot(Size, r, Len(queue)) BY <1>3 DEF Holds
      <3>2. CASE pop = push BY <1>0, <1>2, <1>7, <1>8, <2>1, <2>4, <3>2
      <3>3. CASE pop /\ ~push
        <4>1. ~f1 BY <2>1, <3>3, Zenon
        <4>2. Len(q2) # Size BY <1>0, <1>2, <1>7, <1>8, <3>3
        <4> QED BY <4>1, <4>2
      <3>4. CASE ~pop /\ push
        <4>1. f1 <=> Slot(Size, w, 1) = r BY <2>1, <3>4, Zenon
        <4>2. Len(q2) = Len(queue) + 1 /\ Len(queue) \in 0 .. Size - 1
          <5>1. Len(queue) < Size /\ Len(queue) \in 0 .. Size BY <1>2, <1>6, <3>4
          <5>2. Len(q1) = Len(queue) BY <1>7, <3>4
          <5>3. Len(q2) = Len(q1) + 1 BY <1>8, <3>4
          <5> QED BY <1>0, <5>1, <5>2, <5>3
        <4>3. Slot(Size, w, 1) = r <=> Len(queue) = Size - 1
          <5>1. PICK k \in 0 .. Size - 1 : k = Len(queue) BY <4>2
          <5>2. Slot(Size, Slot(Size, r, k), 1) = r <=> k = Size - 1 BY <1>0 DEF Slot
          <5> QED BY <3>1, <5>1, <5>2
        <4>4. Len(q2) = Size <=> Len(queue) = Size - 1 BY <1>0, <4>2
        <4> QED BY <4>1, <4>3, <4>4
      <3> QED BY <3>2, <3>3, <3>4
    <2>7. Len(q2) <= Size BY <1>0, <1>2, <1>6, <1>7, <1>8, <2>4
    <2>8. QTypeOK' BY <1>9, <2>2, <2>3, <2>7 DEF QTypeOK
    <2>9. MemoryHoldsQueue'
      <3>1. Holds(fifo.ram, fifo.r_ptr, fifo.w_ptr, queue)' BY <1>8, <2>2, <2>3
      <3>2. (QTypeOK => (MemoryHoldsQueue <=> Holds(fifo.ram, fifo.r_ptr, fifo.w_ptr, queue)))'
        BY Memory, PTL
      <3> QED BY <2>8, <3>1, <3>2
    <2> QED BY <1>9, <2>2, <2>3, <2>5, <2>6, <2>8, <2>9 DEF RingInv, ReadsInOrder
  <1> QED BY <1>11, <1>12

LEMMA NextRingInv == RingInv /\ [QNext]_qvars => RingInv'
  <1> SUFFICES ASSUME RingInv, [QNext]_qvars PROVE RingInv' OBVIOUS
  <1>1. CASE QNext
    <2>1. PICK wr \in BOOLEAN, rd \in BOOLEAN, clear \in BOOLEAN, data \in Data :
               Edge(wr, data, rd, clear)
      BY <1>1 DEF QNext
    <2> QED BY <2>1, EdgeRingInv
  <1>2. CASE UNCHANGED qvars
    BY <1>2 DEF qvars, RingInv, QTypeOK, MemoryHoldsQueue, ReadsInOrder
  <1> QED BY <1>1, <1>2

\* What the thresholds compare is the number of items, except in a full FIFO.
LEMMA Thresholds == RingInv => FlagsAreTrue
  <1> SUFFICES ASSUME RingInv PROVE FlagsAreTrue OBVIOUS
  <1>0. Size \in Nat \ {0, 1} BY FifoSizeAssumption
  <1>1. /\ fifo.r_ptr \in 0 .. Size - 1 /\ Len(queue) \in 0 .. Size
        /\ fifo.empty <=> queue = <<>>
        /\ fifo.full <=> Len(queue) = Size
        /\ queue = <<>> <=> Len(queue) = 0
    BY <1>0, SeqLen, SeqEmpty DEF RingInv, QTypeOK
  <1>2. fifo.w_ptr = Slot(Size, fifo.r_ptr, Len(queue)) BY Memory DEF RingInv, Holds
  <1>3. Volume(fifo, Size) = IF Len(queue) = Size THEN 0 ELSE Len(queue)
    BY <1>0, <1>1, <1>2, VolumeIsLength DEF Volume
  <1> QED BY <1>0, <1>1, <1>3 DEF FlagsAreTrue, AlmostFull, ThrWorkReady, ThrIrq

\* fifo_block and fifo_block_thr are a queue of any size of at least two: their
\* flags, volume and thresholds are those of the items written and not yet read,
\* and reads deliver them in order.
THEOREM FifoIsAQueue == QSpec => []FifoIsQueue
  <1>1. RingInv => FifoIsQueue BY Thresholds DEF RingInv, FifoIsQueue
  <1>2. QSpec => []RingInv BY InitRingInv, NextRingInv, PTL DEF QSpec
  <1> QED BY <1>1, <1>2, PTL
-----------------------------------------------------------------------------
(* The interface to the bus.                                                   *)

\* The receive FIFO holds the n words after `base', and its flags say so.
Window(f, n, base) ==
  /\ f.ram \in [0 .. AxiSize - 1 -> Nat \cup {NoData}]
  /\ f.r_ptr \in 0 .. AxiSize - 1 /\ n \in 0 .. AxiSize
  /\ f.w_ptr = Slot(AxiSize, f.r_ptr, n)
  /\ \A i \in 1 .. n : f.ram[Slot(AxiSize, f.r_ptr, i - 1)] = base + i
  /\ f.empty = (n = 0) /\ f.full = (n = AxiSize)

\* An edge that puts in p words, `data', and takes out q.
Moves(f, g, p, data, q) ==
  /\ p \in {0, 1} /\ q \in {0, 1} /\ (p = 1 => ~f.full) /\ (q = 1 => ~f.empty)
  /\ g = BlockStep(f, AxiSize, p = 1, data, q = 1, FALSE)

\* The core adds the next word, a read takes the oldest.
LEMMA WindowStep ==
  ASSUME NEW f, NEW n, NEW base \in Nat, Window(f, n, base),
         NEW g, NEW p, NEW data, NEW q, Moves(f, g, p, data, q), data = base + n + 1
  PROVE  /\ Window(g, n + p - q, base + q)
         /\ g.data_r = IF q = 1 THEN base + q ELSE f.data_r
  <1>1. p \in {0, 1} /\ q \in {0, 1} BY DEF Moves
  <1>2. PICK wr \in BOOLEAN, rd \in BOOLEAN : wr = (p = 1) /\ rd = (q = 1) BY <1>1, Zenon
  <1>3. PICK m, b : m = n + p - q /\ b = base + q OBVIOUS
  <1>4. /\ (wr => ~f.full) /\ (rd => ~f.empty)
         /\ g = BlockStep(f, AxiSize, wr, base + n + 1, rd, FALSE)
         /\ p = (IF wr THEN 1 ELSE 0) /\ q = (IF rd THEN 1 ELSE 0)
    BY <1>1, <1>2, Zenon DEF Moves
  <1>5. AxiSize \in Nat \ {0, 1} BY AxiAssumption
  <1>6. PICK ram \in [0 .. AxiSize - 1 -> Nat \cup {NoData}], r \in 0 .. AxiSize - 1 :
          f.ram = ram /\ f.r_ptr = r
    BY DEF Window
  <1>7. PICK w, e, l : f.w_ptr = w /\ f.empty = e /\ f.full = l OBVIOUS
  <1>8. f.ram = ram /\ f.r_ptr = r /\ f.w_ptr = w /\ f.empty = e /\ f.full = l BY <1>6, <1>7
  <1>9. /\ n \in 0 .. AxiSize /\ w = Slot(AxiSize, r, n) /\ e = (n = 0) /\ l = (n = AxiSize)
        /\ \A i \in 1 .. n : ram[Slot(AxiSize, r, i - 1)] = base + i
    BY <1>8 DEF Window
  <1>10. (wr => n < AxiSize) /\ (rd => n > 0) BY <1>5, <1>8, <1>9, <1>4
  <1>11. w \in 0 .. AxiSize - 1 BY <1>5, <1>9, SlotIsMod
  <1>12. /\ (r + 1) % AxiSize = Slot(AxiSize, r, 1) /\ Slot(AxiSize, r, 1) \in 0 .. AxiSize - 1
        /\ (w + 1) % AxiSize = Slot(AxiSize, w, 1)
    <2>1. 1 \in 0 .. AxiSize BY <1>5
    <2> QED BY <1>5, <1>11, <2>1, SlotIsMod, Zenon
  <1>13. /\ m \in 0 .. AxiSize /\ b \in Nat
        /\ m = n + (IF wr THEN 1 ELSE 0) - (IF rd THEN 1 ELSE 0) /\ b = base + (IF rd THEN 1 ELSE 0)
    BY <1>5, <1>9, <1>10, <1>1, <1>3, <1>4
  <1>14. PICK r1 \in 0 .. AxiSize - 1 : r1 = IF rd THEN Slot(AxiSize, r, 1) ELSE r BY <1>12
  <1>15. PICK w1 : w1 = IF wr THEN Slot(AxiSize, w, 1) ELSE w OBVIOUS
  <1>16. PICK ram1 \in [0 .. AxiSize - 1 -> Nat \cup {NoData}] :
          ram1 = IF wr THEN [ram EXCEPT ![w] = base + n + 1] ELSE ram
    <2>1. base + n + 1 \in Nat BY <1>5, <1>9
    <2> QED BY <1>11, <2>1, Zenon
  <1>17. PICK e1, l1 : /\ e1 = (IF rd = wr THEN e ELSE rd /\ Slot(AxiSize, r, 1) = w)
                       /\ l1 = (IF rd = wr THEN l ELSE wr /\ Slot(AxiSize, w, 1) = r)
    OBVIOUS
  <1>18. /\ g.ram = ram1 /\ g.r_ptr = r1 /\ g.w_ptr = w1 /\ g.empty = e1 /\ g.full = l1
         /\ g.data_r = IF rd THEN ram[r] ELSE f.data_r
    <2>1. (rd /\ ~f.empty) = rd /\ (wr /\ ~f.full) = wr BY <1>4
    <2>2. g = BlockStep(f, AxiSize, wr, base + n + 1, rd, FALSE) BY <1>4
    <2> QED BY <1>8, <1>12, <1>14, <1>15, <1>16, <1>17, <2>1, <2>2, Zenon DEF BlockStep, Control, Stored, Incremented
  <1>19. w1 = Slot(AxiSize, r1, m) BY <1>5, <1>9, <1>10, <1>13, <1>14, <1>15 DEF Slot
  <1>20. e1 = (m = 0) BY <1>5, <1>9, <1>10, <1>13, <1>17 DEF Slot
  <1>21. l1 = (m = AxiSize) BY <1>5, <1>9, <1>10, <1>13, <1>17 DEF Slot
  <1>22. ASSUME NEW i \in 1 .. m PROVE ram1[Slot(AxiSize, r1, i - 1)] = b + i
    <2>1. PICK j \in 1 .. n + 1 : j = IF rd THEN i + 1 ELSE i BY <1>5, <1>9, <1>10, <1>13
    <2>2. Slot(AxiSize, r1, i - 1) = Slot(AxiSize, r, j - 1) /\ b + i = base + j
      BY <1>5, <1>9, <1>10, <1>13, <1>14, <2>1 DEF Slot
    <2>3. CASE j = n + 1
      <3>1. wr /\ j - 1 = n BY <1>5, <1>9, <1>13, <2>1, <2>3
      <3>2. Slot(AxiSize, r, j - 1) = w BY <1>9, <3>1
      <3>3. ram1[w] = base + n + 1 BY <1>11, <1>16, <3>1
      <3>4. base + j = base + n + 1 BY <1>5, <1>9, <2>3
      <3> QED BY <2>2, <3>2, <3>3, <3>4
    <2>4. CASE j # n + 1
      <3>1. j \in 1 .. n BY <1>5, <1>9, <2>4
      <3>2. ram[Slot(AxiSize, r, j - 1)] = base + j BY <1>9, <3>1
      <3>3. j - 1 \in 0 .. AxiSize /\ Slot(AxiSize, r, j - 1) \in 0 .. AxiSize - 1
        BY <1>5, <1>9, <3>1 DEF Slot
      <3>4. wr => Slot(AxiSize, r, j - 1) # w BY <1>5, <1>9, <1>10, <3>1 DEF Slot
      <3>5. ram1[Slot(AxiSize, r, j - 1)] = ram[Slot(AxiSize, r, j - 1)] BY <1>11, <1>16, <3>3, <3>4
      <3> QED BY <2>2, <3>2, <3>5
    <2> QED BY <2>3, <2>4
  <1>23. Window(g, m, b) BY <1>13, <1>18, <1>19, <1>20, <1>21, <1>22, Zenon DEF Window
  <1>24. rd => ram[r] = base + 1
    <2>1. rd => 1 \in 1 .. n BY <1>5, <1>9, <1>10
    <2>2. Slot(AxiSize, r, 1 - 1) = r BY <1>5 DEF Slot
    <2> QED BY <1>9, <2>1, <2>2
  <1>25. g.data_r = IF rd THEN b ELSE f.data_r BY <1>13, <1>18, <1>24
  <1> QED BY <1>23, <1>25, <1>2, <1>3, Zenon
\* A word that is out of the FIFO and whose response the master has not seen.
Answering == axi.rvalid /\ bus.araddr = "fifo"

\* Words that left the receive FIFO.
Taken == Len(master.read) + (IF Answering THEN 1 ELSE 0)

AxiTypes ==
  /\ axi \in [awready: BOOLEAN, wready: BOOLEAN, awaddr: Addresses, bvalid: BOOLEAN,
              arready: BOOLEAN, araddr: Addresses, rvalid: BOOLEAN]
  /\ bus.aw \in {"none", "valid", "taken"} /\ bus.w \in {"none", "valid", "taken"}
  /\ bus.ar \in {"none", "valid", "taken"}
  /\ bus.bready \in BOOLEAN /\ bus.rready \in BOOLEAN
  /\ bus.awaddr \in Addresses /\ bus.araddr \in Addresses
  /\ core.put \in Nat /\ core.pushed \in Nat /\ master.written \in Nat
  /\ master.read \in Seq(Nat)

\* A write is taken when it acts and answered from then on until its response.
WriteHandshake ==
  /\ axi.wready = axi.awready
  /\ axi.awready => bus.aw = "valid" /\ bus.w = "valid" /\ axi.awaddr = bus.awaddr
  /\ axi.bvalid = (bus.aw = "taken") /\ axi.bvalid = (bus.w = "taken")
  /\ core.pushed - master.written = IF bus.awaddr = "fifo" /\ axi.bvalid THEN 1 ELSE 0

\* So is a read, and the address that the interface holds is the master's.
ReadHandshake ==
  /\ axi.arready => bus.ar = "valid"
  /\ axi.arready \/ axi.rvalid => axi.araddr = bus.araddr
  /\ axi.rvalid = (bus.ar = "taken")

\* The FIFO holds the words that were put in and not taken, the word taken last
\* is on the port until the response is seen, and a read on its way finds a word.
WordsInOrder ==
  /\ Window(rxq, core.put - Taken, Taken)
  /\ bus.ar = "valid" /\ bus.araddr = "fifo" => core.put - Taken > 0
  /\ Answering => rxq.data_r = Taken
  /\ master.read = [i \in 1 .. Len(master.read) |-> i]

AxiInv == AxiTypes /\ WriteHandshake /\ ReadHandshake /\ WordsInOrder

LEMMA AxiStarts == AxiInit => AxiInv
  <1> SUFFICES ASSUME AxiInit PROVE AxiInv OBVIOUS
  <1>0. AxiSize \in Nat \ {0, 1} BY AxiAssumption
  <1>1. master.read = <<>> /\ Len(master.read) = 0 /\ master.read \in Seq(Nat)
    BY SeqEmpty DEF AxiInit
  <1>2. AxiTypes BY <1>1 DEF AxiInit, AxiTypes, Addresses
  <1>3. WriteHandshake /\ ReadHandshake
    <2>1. /\ axi.awready = FALSE /\ axi.wready = FALSE /\ axi.bvalid = FALSE
          /\ axi.arready = FALSE /\ axi.rvalid = FALSE
          /\ bus.aw = "none" /\ bus.w = "none" /\ bus.ar = "none"
      BY Zenon DEF AxiInit
    <2>2. core.pushed - master.written = 0 BY DEF AxiInit
    <2> QED BY <2>1, <2>2, Zenon DEF WriteHandshake, ReadHandshake
  <1>4. ~Answering /\ Taken = 0 /\ core.put - Taken = 0 /\ bus.ar = "none"
    <2>1. axi.rvalid = FALSE /\ master.read = <<>> /\ core.put = 0 /\ bus.ar = "none" BY DEF AxiInit
    <2>2. ~Answering BY <2>1, Zenon DEF Answering
    <2>3. Len(master.read) = 0 BY <2>1
    <2>4. Taken = Len(master.read) + 0 BY <2>2, Zenon DEF Taken
    <2> QED BY <2>1, <2>2, <2>3, <2>4
  <1>5. Window(rxq, 0, 0)
    <2>1. rxq = FifoReset(AxiSize) BY DEF AxiInit
    <2>2. /\ rxq.ram = [a \in 0 .. AxiSize - 1 |-> NoData] /\ rxq.r_ptr = 0 /\ rxq.w_ptr = 0
          /\ rxq.empty = TRUE /\ rxq.full = FALSE
      BY <2>1 DEF FifoReset
    <2>3. 0 \in 0 .. AxiSize - 1 /\ Slot(AxiSize, 0, 0) = 0 /\ 1 .. 0 = {} /\ 0 \in 0 .. AxiSize
      BY <1>0 DEF Slot
    <2>4. rxq.ram \in [0 .. AxiSize - 1 -> Nat \cup {NoData}] BY <2>2
    <2>5. rxq.empty = (0 = 0) /\ rxq.full = (0 = AxiSize) BY <1>0, <2>2, Zenon
    <2> QED BY <2>2, <2>3, <2>4, <2>5 DEF Window
  <1>6. master.read = [i \in 1 .. Len(master.read) |-> i] BY <1>1
  <1>7. WordsInOrder BY <1>4, <1>5, <1>6 DEF WordsInOrder
  <1> QED BY <1>2, <1>3, <1>7 DEF AxiInv

\* What an edge does to the requests: each moves on by its own handshake, and an
\* address only changes with its request.
LEMMA Requests ==
  ASSUME AxiInv, AxiEdge
  PROVE  /\ bus'.aw \in Held(bus.aw, axi.awready, axi.bvalid /\ bus.bready)
         /\ bus'.w \in Held(bus.w, axi.wready, axi.bvalid /\ bus.bready)
         /\ bus'.ar \in Held(bus.ar, axi.arready, axi.rvalid /\ bus.rready)
         /\ bus'.bready \in BOOLEAN /\ bus'.rready \in BOOLEAN
         /\ bus'.awaddr \in Given(bus.aw, bus'.aw, bus.awaddr)
         /\ bus'.araddr \in Given(bus.ar, bus'.ar, bus.araddr)
  <1>1. PICK aw \in Held(bus.aw, axi.awready, axi.bvalid /\ bus.bready),
             w \in Held(bus.w, axi.wready, axi.bvalid /\ bus.bready),
             ar \in Held(bus.ar, axi.arready, axi.rvalid /\ bus.rready),
             bready, rready \in BOOLEAN :
          \E awaddr \in Given(bus.aw, aw, bus.awaddr), araddr \in Given(bus.ar, ar, bus.araddr) :
             bus' = [aw |-> aw, w |-> w, ar |-> ar, bready |-> bready, rready |-> rready,
                     awaddr |-> awaddr, araddr |-> araddr]
    BY Zenon DEF AxiEdge
  <1>2. PICK awaddr \in Given(bus.aw, aw, bus.awaddr), araddr \in Given(bus.ar, ar, bus.araddr) :
             bus' = [aw |-> aw, w |-> w, ar |-> ar, bready |-> bready, rready |-> rready,
                     awaddr |-> awaddr, araddr |-> araddr]
    BY <1>1, Zenon
  <1>3. /\ bus'.aw = aw /\ bus'.w = w /\ bus'.ar = ar /\ bus'.bready = bready
        /\ bus'.rready = rready /\ bus'.awaddr = awaddr /\ bus'.araddr = araddr
    BY <1>2, Zenon
  <1> QED BY <1>1, <1>2, <1>3, Zenon

LEMMA HeldCases ==
  ASSUME NEW request \in {"none", "valid", "taken"}, NEW ready \in BOOLEAN,
         NEW response \in BOOLEAN, NEW next \in Held(request, ready, response)
  PROVE  /\ next \in {"none", "valid", "taken"}
         /\ request = "valid" => next = IF ready THEN "taken" ELSE "valid"
         /\ request = "taken" => next = IF response THEN "none" ELSE "taken"
         /\ request = "none" => next # "taken"
  <1>0. "none" # "valid" /\ "none" # "taken" /\ "valid" # "taken" OBVIOUS
  <1>1. CASE request = "valid" BY <1>0, <1>1, Zenon DEF Held
  <1>2. CASE request = "taken" BY <1>0, <1>2, Zenon DEF Held
  <1>3. CASE request = "none" BY <1>0, <1>3, Zenon DEF Held
  <1> QED BY <1>1, <1>2, <1>3

\* What a clock edge adds to the counters of the transfers.
LEMMA EdgeCounts ==
  ASSUME AxiEdge
  PROVE  /\ \E put \in BOOLEAN : core'.put = core.put + (IF put THEN 1 ELSE 0)
         /\ core'.pushed = core.pushed + (IF RegWren /\ axi.awaddr = "fifo" THEN 1 ELSE 0)
         /\ master'.written
              = master.written + (IF axi.bvalid /\ bus.bready /\ bus.awaddr = "fifo" THEN 1 ELSE 0)
  <1>1. PICK put \in BOOLEAN :
          core' = [put |-> core.put + (IF put THEN 1 ELSE 0),
                   pushed |-> core.pushed + (IF RegWren /\ axi.awaddr = "fifo" THEN 1 ELSE 0)]
    BY Zenon DEF AxiEdge
  <1>2. PICK read :
          master' = [written |-> master.written
                       + (IF axi.bvalid /\ bus.bready /\ bus.awaddr = "fifo" THEN 1 ELSE 0),
                     read |-> read]
    BY Zenon DEF AxiEdge
  <1> QED BY <1>1, <1>2

LEMMA EdgeTypes ==
  ASSUME AxiInv, AxiEdge
  PROVE  AxiTypes'
  <1>1. AxiTypes BY DEF AxiInv
  <1>2. axi' \in [awready: BOOLEAN, wready: BOOLEAN, awaddr: Addresses, bvalid: BOOLEAN,
                  arready: BOOLEAN, araddr: Addresses, rvalid: BOOLEAN]
    <2>1. axi' = AxiStep BY Zenon DEF AxiEdge
    <2>2. RegWren \in BOOLEAN /\ RegRden \in BOOLEAN BY DEF RegWren, RegRden
    <2>3. /\ (IF axi.bvalid THEN ~bus.bready ELSE RegWren) \in BOOLEAN
          /\ (IF axi.rvalid THEN ~bus.rready ELSE RegRden) \in BOOLEAN
      BY <2>2, Zenon
    <2> QED BY <1>1, <2>1, <2>3 DEF AxiTypes, AxiStep
  <1>3. /\ bus'.aw \in {"none", "valid", "taken"} /\ bus'.w \in {"none", "valid", "taken"}
        /\ bus'.ar \in {"none", "valid", "taken"}
    <2>1. (axi.bvalid /\ bus.bready) \in BOOLEAN /\ (axi.rvalid /\ bus.rready) \in BOOLEAN
          /\ axi.awready \in BOOLEAN /\ axi.wready \in BOOLEAN /\ axi.arready \in BOOLEAN
      BY <1>1 DEF AxiTypes
    <2>2. bus.aw \in {"none", "valid", "taken"} /\ bus.w \in {"none", "valid", "taken"}
          /\ bus.ar \in {"none", "valid", "taken"}
      BY <1>1 DEF AxiTypes
    <2>3. bus'.aw \in {"none", "valid", "taken"} BY <2>1, <2>2, HeldCases, Requests, Zenon
    <2>4. bus'.w \in {"none", "valid", "taken"} BY <2>1, <2>2, HeldCases, Requests, Zenon
    <2>5. bus'.ar \in {"none", "valid", "taken"} BY <2>1, <2>2, HeldCases, Requests, Zenon
    <2> QED BY <2>3, <2>4, <2>5
  <1>4. bus'.awaddr \in Addresses /\ bus'.araddr \in Addresses
    BY <1>1, Requests, Zenon DEF AxiTypes, Given
  <1>5. core'.put \in Nat /\ core'.pushed \in Nat /\ master'.written \in Nat
    <2>1. core.put \in Nat /\ core.pushed \in Nat /\ master.written \in Nat BY <1>1 DEF AxiTypes
    <2> QED BY <2>1, EdgeCounts
  <1>6. master'.read \in Seq(Nat)
    <2>1. master.read \in Seq(Nat) BY <1>1 DEF AxiTypes
    <2>2. CASE axi.rvalid /\ bus.rready /\ bus.araddr = "fifo"
      <3>1. master'.read = Append(master.read, RData) BY <2>2, Zenon DEF AxiEdge
      <3>2. RData = Taken /\ Taken \in Nat
        <4>1. axi.araddr = "fifo" /\ rxq.data_r = Taken
          BY <2>2 DEF AxiInv, ReadHandshake, WordsInOrder, Answering
        <4>2. PICK k \in Nat : k = Len(master.read) BY <2>1, SeqLen
        <4>3. Taken = k + (IF Answering THEN 1 ELSE 0) BY <4>2 DEF Taken
        <4>4. Taken \in Nat BY <4>3
        <4> QED BY <4>1, <4>4 DEF RData
      <3> QED BY <2>1, <3>1, <3>2, SeqAppend
    <2>3. CASE ~(axi.rvalid /\ bus.rready /\ bus.araddr = "fifo")
      BY <2>1, <2>3, Zenon DEF AxiEdge
    <2> QED BY <2>2, <2>3
  <1> QED BY <1>2, <1>3, <1>4, <1>5, <1>6, Requests, Zenon DEF AxiTypes

\* A word is pushed at the edge where the write is taken, and counted by the
\* master at the edge where it sees the response.
LEMMA EdgeWrites ==
  ASSUME AxiInv, AxiEdge
  PROVE  WriteHandshake'
  <1>1. AxiTypes /\ WriteHandshake BY DEF AxiInv
  <1>2. PICK x \in BOOLEAN, v \in BOOLEAN, y \in BOOLEAN :
          x = axi.awready /\ v = axi.bvalid /\ y = bus.bready /\ x = axi.wready
    BY <1>1 DEF AxiTypes, WriteHandshake
  <1>3. /\ axi'.awready = (~x /\ bus.aw = "valid" /\ bus.w = "valid")
        /\ axi'.wready = (~x /\ bus.aw = "valid" /\ bus.w = "valid")
        /\ axi'.bvalid = (IF v THEN ~y ELSE x /\ bus.aw = "valid" /\ bus.w = "valid")
        /\ axi'.awaddr = IF ~x /\ bus.aw = "valid" /\ bus.w = "valid" THEN bus.awaddr ELSE axi.awaddr
    BY <1>2, Zenon DEF AxiEdge, AxiStep, RegWren
  <1>4. /\ bus.aw \in {"none", "valid", "taken"} /\ bus.w \in {"none", "valid", "taken"}
        /\ x => bus.aw = "valid" /\ bus.w = "valid" /\ axi.awaddr = bus.awaddr
        /\ v = (bus.aw = "taken") /\ v = (bus.w = "taken")
    BY <1>1, <1>2 DEF AxiTypes, WriteHandshake
  <1>5. PICK z \in BOOLEAN : z = (v /\ y) OBVIOUS
  <1>6. /\ bus.aw = "valid" => bus'.aw = IF x THEN "taken" ELSE "valid"
        /\ bus.aw = "taken" => bus'.aw = IF z THEN "none" ELSE "taken"
        /\ bus.aw = "none" => bus'.aw # "taken"
    <2>1. bus'.aw \in Held(bus.aw, x, z) BY <1>2, <1>5, Requests
    <2> QED BY <1>4, <2>1, HeldCases
  <1>7. /\ bus.w = "valid" => bus'.w = IF x THEN "taken" ELSE "valid"
        /\ bus.w = "taken" => bus'.w = IF z THEN "none" ELSE "taken"
        /\ bus.w = "none" => bus'.w # "taken"
    <2>1. bus'.w \in Held(bus.w, x, z) BY <1>2, <1>5, Requests
    <2> QED BY <1>4, <2>1, HeldCases
  <1>8. bus.aw # "none" => bus'.awaddr = bus.awaddr BY Requests, Zenon DEF Given
  <1>9. /\ axi'.wready = axi'.awready
        /\ axi'.awready => bus'.aw = "valid" /\ bus'.w = "valid" /\ axi'.awaddr = bus'.awaddr
        /\ axi'.bvalid = (bus'.aw = "taken") /\ axi'.bvalid = (bus'.w = "taken")
    BY <1>3, <1>4, <1>5, <1>6, <1>7, <1>8, Zenon
  <1>10. core'.pushed - master'.written = IF bus'.awaddr = "fifo" /\ axi'.bvalid THEN 1 ELSE 0
    <2>1. PICK p \in Nat, t \in Nat : p = core.pushed /\ t = master.written BY <1>1 DEF AxiTypes
    <2>2. p - t = IF bus.awaddr = "fifo" /\ v THEN 1 ELSE 0 BY <1>1, <1>2, <2>1 DEF WriteHandshake
    <2>3. core'.pushed = p + (IF x /\ bus.awaddr = "fifo" THEN 1 ELSE 0)
      <3>1. core'.pushed = p + (IF RegWren /\ axi.awaddr = "fifo" THEN 1 ELSE 0) BY <2>1, EdgeCounts
      <3>2. RegWren = x BY <1>2, <1>4 DEF RegWren
      <3> QED BY <3>1, <3>2, <1>4
    <2>4. master'.written = t + (IF z /\ bus.awaddr = "fifo" THEN 1 ELSE 0)
      BY <1>2, <1>5, <2>1, Zenon DEF AxiEdge
    <2>5. axi'.bvalid = (x \/ (v /\ ~y)) /\ ~(x /\ v) BY <1>3, <1>4, Zenon
    <2>6. v \/ x => bus'.awaddr = bus.awaddr BY <1>4, <1>8
    <2> QED BY <1>5, <2>2, <2>3, <2>4, <2>5, <2>6
  <1> QED BY <1>9, <1>10 DEF WriteHandshake
LEMMA EdgeReads ==
  ASSUME AxiInv, AxiEdge
  PROVE  /\ ReadHandshake'
         /\ bus.ar # "none" => bus'.araddr = bus.araddr
         /\ bus'.ar = "valid" => bus.ar = "none" \/ (bus.ar = "valid" /\ ~axi.arready)
         /\ axi'.rvalid = (IF axi.rvalid THEN ~bus.rready ELSE axi.arready)
         /\ axi.arready => ~axi.rvalid
  <1>1. AxiTypes /\ ReadHandshake BY DEF AxiInv
  <1>2. PICK x \in BOOLEAN, v \in BOOLEAN, y \in BOOLEAN :
          x = axi.arready /\ v = axi.rvalid /\ y = bus.rready
    BY <1>1 DEF AxiTypes
  <1>3. /\ axi'.arready = (~x /\ bus.ar = "valid")
        /\ axi'.rvalid = (IF v THEN ~y ELSE x /\ bus.ar = "valid")
        /\ axi'.araddr = IF ~x /\ bus.ar = "valid" THEN bus.araddr ELSE axi.araddr
    BY <1>2, Zenon DEF AxiEdge, AxiStep, RegRden
  <1>4. /\ bus.ar \in {"none", "valid", "taken"}
        /\ x => bus.ar = "valid"
        /\ x \/ v => axi.araddr = bus.araddr
        /\ v = (bus.ar = "taken")
    BY <1>1, <1>2 DEF AxiTypes, ReadHandshake
  <1>5. PICK z \in BOOLEAN : z = (v /\ y) OBVIOUS
  <1>6. /\ bus'.ar \in {"none", "valid", "taken"}
        /\ bus.ar = "valid" => bus'.ar = IF x THEN "taken" ELSE "valid"
        /\ bus.ar = "taken" => bus'.ar = IF z THEN "none" ELSE "taken"
        /\ bus.ar = "none" => bus'.ar # "taken"
    <2>1. bus'.ar \in Held(bus.ar, x, z) BY <1>2, <1>5, Requests
    <2> QED BY <1>4, <2>1, HeldCases
  <1>7. bus.ar # "none" => bus'.araddr = bus.araddr BY Requests, Zenon DEF Given
  <1>8. /\ axi'.arready => bus'.ar = "valid"
        /\ axi'.arready \/ axi'.rvalid => axi'.araddr = bus'.araddr
        /\ axi'.rvalid = (bus'.ar = "taken")
    BY <1>3, <1>4, <1>5, <1>6, <1>7, Zenon
  <1>9. bus'.ar = "valid" => bus.ar = "none" \/ (bus.ar = "valid" /\ ~x) BY <1>4, <1>6
  <1>10. axi'.rvalid = (IF v THEN ~y ELSE x) /\ (x => ~v) BY <1>3, <1>4, Zenon
  <1> QED BY <1>2, <1>7, <1>8, <1>9, <1>10 DEF ReadHandshake

\* The word that the master sees is the next one, and a word leaves the FIFO at
\* the edge where its read is taken.
LEMMA EdgeTakes ==
  ASSUME AxiInv, AxiEdge
  PROVE  /\ Taken \in Nat
         /\ Taken' = Taken + (IF RegRden /\ axi.araddr = "fifo" THEN 1 ELSE 0)
         /\ master'.read = [i \in 1 .. Len(master'.read) |-> i]
         /\ Answering' => (RegRden /\ axi.araddr = "fifo") \/ Answering
  <1>1. AxiTypes /\ ReadHandshake /\ WordsInOrder BY DEF AxiInv
  <1>2. PICK s \in Seq(Nat) : s = master.read BY <1>1 DEF AxiTypes
  <1>3. PICK k \in Nat : k = Len(s) BY SeqLen
  <1>4. PICK v \in BOOLEAN, x \in BOOLEAN, y \in BOOLEAN, a \in BOOLEAN :
          v = axi.rvalid /\ x = axi.arready /\ y = bus.rready /\ a = (bus.araddr = "fifo")
    BY <1>1, Zenon DEF AxiTypes
  <1>5. Answering = (v /\ a) /\ Taken = k + (IF v /\ a THEN 1 ELSE 0)
    BY <1>2, <1>3, <1>4, Zenon DEF Answering, Taken
  <1>6. (RegRden /\ axi.araddr = "fifo") = (x /\ a) /\ (x => ~v)
    BY <1>1, <1>4, EdgeReads DEF RegRden, ReadHandshake
  <1>7. s = [i \in 1 .. k |-> i] BY <1>1, <1>2, <1>3 DEF WordsInOrder
  <1>8. axi'.rvalid = (IF v THEN ~y ELSE x) BY <1>4, EdgeReads
  <1>9. v \/ x => bus'.araddr = bus.araddr BY <1>1, <1>4, EdgeReads DEF ReadHandshake
  <1>10. Answering' = (a /\ (IF v THEN ~y ELSE x)) BY <1>4, <1>8, <1>9, Zenon DEF Answering
  <1>11. CASE v /\ y /\ a
    <2>1. master'.read = Append(s, RData) BY <1>2, <1>4, <1>11, Zenon DEF AxiEdge
    <2>2. RData = k + 1
      <3>1. axi.araddr = "fifo" /\ rxq.data_r = Taken
        BY <1>1, <1>4, <1>5, <1>11, Zenon DEF ReadHandshake, WordsInOrder
      <3> QED BY <1>5, <1>11, <3>1 DEF RData
    <2>3. PICK t : t = Append(s, k + 1) BY Zenon
    <2>4. /\ t \in Seq(Nat) /\ Len(t) = k + 1
          /\ \A i \in 1 .. k : t[i] = s[i]
          /\ t[k + 1] = k + 1
      BY <1>3, <2>3, SeqAppend
    <2>5. \A i \in 1 .. k + 1 : t[i] = i BY <1>7, <2>4
    <2>6. t = [i \in 1 .. Len(t) |-> i]
      <3>1. t = [i \in 1 .. Len(t) |-> t[i]] BY <2>4, SeqLen
      <3> QED BY <2>4, <2>5, <3>1
    <2>7. master'.read = t /\ Len(master'.read) = k + 1 BY <2>1, <2>2, <2>3, <2>4
    <2>8. Taken' = k + 1
      <3>1. ~Answering' BY <1>10, <1>11, Zenon
      <3>2. Taken' = Len(master'.read) + 0 BY <3>1 DEF Taken
      <3> QED BY <2>7, <3>2
    <2> QED BY <1>5, <1>6, <1>10, <1>11, <2>6, <2>7, <2>8
  <1>12. CASE ~(v /\ y /\ a)
    <2>1. master'.read = s BY <1>2, <1>4, <1>12, Zenon DEF AxiEdge
    <2>2. Taken' = k + (IF Answering' THEN 1 ELSE 0) BY <1>3, <2>1 DEF Taken
    <2>3. Answering' = ((v /\ a) \/ (x /\ a)) BY <1>6, <1>10, <1>12
    <2> QED BY <1>3, <1>5, <1>6, <1>7, <2>1, <2>2, <2>3
  <1> QED BY <1>11, <1>12

LEMMA EdgeWords ==
  ASSUME AxiInv, AxiNext
  PROVE  WordsInOrder'
  <1>1. AxiTypes /\ ReadHandshake /\ WordsInOrder /\ AxiEdge BY DEF AxiInv, AxiNext
  <1>2. PICK rd \in BOOLEAN : rd = (RegRden /\ axi.araddr = "fifo") BY Zenon
  <1>3. PICK put \in BOOLEAN :
          /\ put => ~rxq.full
          /\ rxq' = BlockStep(rxq, AxiSize, put, core.put + 1, rd, FALSE)
          /\ core' = [put |-> core.put + (IF put THEN 1 ELSE 0),
                      pushed |-> core.pushed + (IF RegWren /\ axi.awaddr = "fifo" THEN 1 ELSE 0)]
    BY <1>1, <1>2, Zenon DEF AxiEdge
  <1>4. PICK base \in Nat : base = Taken BY <1>1, EdgeTakes
  <1>5. PICK n \in Int : n = core.put - base BY <1>1, <1>4 DEF AxiTypes
  <1>6. Window(rxq, n, base) BY <1>1, <1>4, <1>5 DEF WordsInOrder
  <1>7. n >= 0 /\ (rxq.empty <=> n = 0)
    <2>1. n >= 0 /\ rxq.empty = (n = 0) BY <1>6, AxiAssumption DEF Window
    <2>2. CASE n = 0
      <3>1. rxq.empty = TRUE BY <2>1, <2>2, Zenon
      <3> QED BY <2>1, <2>2, <3>1
    <2>3. CASE n # 0
      <3>1. rxq.empty = FALSE BY <2>1, <2>3, Zenon
      <3> QED BY <2>1, <2>3, <3>1
    <2> QED BY <2>2, <2>3
  <1>8. rd => n > 0 /\ bus.ar = "valid"
    BY <1>1, <1>2, <1>4, <1>5, Zenon DEF RegRden, ReadHandshake, WordsInOrder
  <1>9. core.put + 1 = base + n + 1 BY <1>1, <1>4, <1>5 DEF AxiTypes
  <1>10. rd => ~rxq.empty BY <1>7, <1>8
  <1>11. PICK p \in {0, 1}, q \in {0, 1} : put = (p = 1) /\ rd = (q = 1)
    <2>1. (0 = 1) = FALSE OBVIOUS
    <2> QED BY <2>1
  <1>12. Window(rxq', n + p - q, base + q) /\ rxq'.data_r = IF q = 1 THEN base + q ELSE rxq.data_r
    <2>1. PICK f, g, data : f = rxq /\ g = rxq' /\ data = core.put + 1 OBVIOUS
    <2>2. Moves(f, g, p, data, q) BY <1>3, <1>10, <1>11, <2>1, Zenon DEF Moves
    <2>3. Window(f, n, base) /\ data = base + n + 1 BY <1>6, <1>9, <2>1
    <2>4. Window(g, n + p - q, base + q) /\ g.data_r = IF q = 1 THEN base + q ELSE f.data_r
      BY <2>2, <2>3, WindowStep
    <2> QED BY <2>1, <2>4
  <1>13. Taken' = base + q BY <1>1, <1>2, <1>4, <1>11, EdgeTakes
  <1>14. core'.put - Taken' = n + p - q
    <2>1. core'.put = core.put + (IF put THEN 1 ELSE 0) BY <1>3
    <2>2. core'.put = core.put + p BY <1>11, <2>1, Zenon
    <2>3. core.put \in Nat BY <1>1 DEF AxiTypes
    <2> QED BY <1>5, <1>13, <2>2, <2>3
  <1>15. Window(rxq, core.put - Taken, Taken)'
    <2>1. Window(rxq', core'.put - Taken', Taken') BY <1>12, <1>13, <1>14
    <2> QED BY <2>1 DEF Window
  <1>16. ASSUME bus'.ar = "valid", bus'.araddr = "fifo" PROVE core'.put - Taken' > 0
    <2>1. q = 0 BY <1>1, <1>2, <1>11, <1>16, EdgeReads DEF RegRden
    <2>2. CASE bus.ar = "none"
      <3>1. ~rxq.empty BY <1>16, <2>2 DEF AxiNext
      <3> QED BY <1>7, <1>14, <2>1, <3>1
    <2>3. CASE bus.ar # "none"
      <3>1. bus.ar = "valid" /\ bus.araddr = "fifo" BY <1>1, <1>16, <2>3, EdgeReads
      <3>2. n > 0 BY <1>1, <1>4, <1>5, <3>1 DEF WordsInOrder
      <3> QED BY <1>14, <2>1, <3>2
    <2> QED BY <2>2, <2>3
  <1>17. ASSUME Answering' PROVE rxq'.data_r = Taken'
    <2>1. CASE rd BY <1>11, <1>12, <1>13, <2>1, Zenon
    <2>2. CASE ~rd
      <3>1. Answering BY <1>1, <1>2, <1>17, <2>2, EdgeTakes, Zenon
      <3>2. rxq.data_r = base BY <1>1, <1>4, <3>1 DEF WordsInOrder
      <3> QED BY <1>11, <1>12, <1>13, <2>2, <3>2
    <2> QED BY <2>1, <2>2
  <1> QED BY <1>1, <1>15, <1>16, <1>17, EdgeTakes, Zenon DEF WordsInOrder

\* AxiInv is inductive, for every size of the FIFO and every number of transfers.
THEOREM AxiInvariance == AxiSpec => []AxiInv
  <1>1. AxiInv /\ [AxiNext]_axivars => AxiInv'
    <2> SUFFICES ASSUME AxiInv, [AxiNext]_axivars PROVE AxiInv' OBVIOUS
    <2>1. CASE AxiNext
      BY <2>1, EdgeTypes, EdgeWrites, EdgeReads, EdgeWords DEF AxiNext, AxiInv
    <2>2. CASE UNCHANGED axivars
      <3>1. axi' = axi /\ bus' = bus /\ rxq' = rxq /\ core' = core /\ master' = master
        BY <2>2 DEF axivars
      <3>2. AxiTypes' BY <3>1 DEF AxiInv, AxiTypes
      <3>3. WriteHandshake' /\ ReadHandshake' BY <3>1 DEF AxiInv, WriteHandshake, ReadHandshake
      <3>4. Answering' = Answering /\ Taken' = Taken BY <3>1 DEF Taken, Answering
      <3>5. Window(rxq, core.put - Taken, Taken)' = Window(rxq, core.put - Taken, Taken)
        BY <3>1, <3>4 DEF Window
      <3>6. WordsInOrder' BY <3>1, <3>4, <3>5 DEF AxiInv, WordsInOrder
      <3> QED BY <3>2, <3>3, <3>6 DEF AxiInv
    <2> QED BY <2>1, <2>2
  <1> QED BY <1>1, AxiStarts, PTL DEF AxiSpec

\* A write to a transmit FIFO puts in one word by the time its response is seen,
\* and reads of a receive FIFO return its words in order, none twice and none
\* left out, for every size of that FIFO (slv_reg_wren and slv_reg_rden).
THEOREM TransfersAreExact == AxiSpec => []TransfersActOnce
  <1>1. AxiInv => TransfersActOnce
    <2> SUFFICES ASSUME AxiInv PROVE TransfersActOnce OBVIOUS
    <2>0. AxiSize \in Nat \ {0} BY AxiAssumption
    <2>1. AxiTypes /\ WriteHandshake /\ WordsInOrder BY DEF AxiInv
    <2>2. PICK k \in Nat : k = Len(master.read) BY <2>1, SeqLen DEF AxiTypes
    <2>3. PICK n \in 0 .. AxiSize : n = core.put - Taken BY <2>1 DEF WordsInOrder, Window
    <2>4. PICK r \in 0 .. AxiSize - 1 :
            rxq.r_ptr = r /\ rxq.w_ptr = Slot(AxiSize, r, n) /\ rxq.full = (n = AxiSize)
      BY <2>1, <2>3 DEF WordsInOrder, Window
    <2>5. Volume(rxq, AxiSize) = IF n = AxiSize THEN 0 ELSE n
      BY <2>0, <2>4, VolumeIsLength DEF Volume
    <2>6. Volume(rxq, AxiSize) + (IF rxq.full THEN AxiSize ELSE 0) = n
      <3>1. CASE n = AxiSize
        <4>1. rxq.full = TRUE BY <2>4, <3>1, Zenon
        <4> QED BY <2>0, <2>5, <3>1, <4>1
      <3>2. CASE n # AxiSize
        <4>1. rxq.full = FALSE BY <2>4, <3>2, Zenon
        <4> QED BY <2>0, <2>5, <3>2, <4>1
      <3> QED BY <3>1, <3>2
    <2>7. core.put - k = n + (IF bus.araddr = "fifo" /\ axi.rvalid THEN 1 ELSE 0)
      <3>1. PICK c \in Nat : c = core.put BY <2>1 DEF AxiTypes
      <3>2. PICK d \in {0, 1} : d = IF bus.araddr = "fifo" /\ axi.rvalid THEN 1 ELSE 0 OBVIOUS
      <3>3. Taken = k + d BY <2>2, <3>2, Zenon DEF Taken, Answering
      <3> QED BY <2>3, <3>1, <3>2, <3>3
    <2> QED BY <2>1, <2>2, <2>6, <2>7, Zenon DEF TransfersActOnce, WriteHandshake, WordsInOrder
  <1> QED BY <1>1, AxiInvariance, PTL

-----------------------------------------------------------------------------
(* The work engine: division, as the indices need it.                      *)

LEMMA DivMod ==
  ASSUME NEW i \in Nat, NEW d \in Nat \ {0}
  PROVE  \E q \in Nat, r \in 0 .. d - 1 : i = d * q + r /\ i \div d = q /\ i % d = r
  <1>1. i = d * (i \div d) + (i % d) OBVIOUS
  <1>2. i % d \in 0 .. d - 1 OBVIOUS
  <1>3. i \div d \in Nat OBVIOUS
  <1> QED BY <1>1, <1>2, <1>3

LEMMA DivModUnique ==
  ASSUME NEW d \in Nat \ {0}, NEW q \in Nat, NEW r \in 0 .. d - 1
  PROVE  (d * q + r) \div d = q /\ (d * q + r) % d = r
  OBVIOUS

LEMMA Distribute ==
  ASSUME NEW m \in Nat, NEW k \in Nat, NEW q \in Nat, NEW a \in Nat, NEW b \in Nat
  PROVE  (m * k) * q + (m * a + b) = m * (k * q + a) + b /\ k * q + a \in Nat
  OBVIOUS

\* Dropping the offset inside a work's range keeps the ntime.
LEMMA SameSecond ==
  ASSUME NEW i \in Nat, NEW v \in Nat \ {0}, NEW m \in Nat \ {0}, v % m = 0
  PROVE  (i - (i % m)) \div v = i \div v
  <1>1. PICK q \in Nat, r \in 0 .. v - 1 : i = v * q + r /\ i \div v = q /\ i % v = r
    BY DivMod
  <1>2. PICK k \in Nat, z \in 0 .. m - 1 : v = m * k + z /\ v \div m = k /\ v % m = z
    BY DivMod
  <1>3. v = m * k BY <1>2
  <1>4. PICK a \in Nat, b \in 0 .. m - 1 : r = m * a + b /\ r \div m = a /\ r % m = b
    BY DivMod
  <1>5. i = m * (k * q + a) + b /\ k * q + a \in Nat
    BY <1>1, <1>3, <1>4, Distribute
  <1>6. i % m = b BY <1>5, DivModUnique
  <1>7. r - b \in 0 .. v - 1
    <2>1. m * a \in Nat OBVIOUS
    <2> QED BY <1>4, <2>1
  <1>8. i - b = v * q + (r - b)
    <2>1. v * q \in Nat OBVIOUS
    <2> QED BY <1>1, <2>1
  <1>9. (i - b) \div v = q BY <1>7, <1>8, DivModUnique
  <1> QED BY <1>1, <1>6, <1>9

-----------------------------------------------------------------------------
LEMMA MaxIndex == max_index \in Nat /\ max_index + 1 < WordSize /\ WordSize \in Nat
  BY SizeAssumption, WidthAssumption DEF max_index

LEMMA TerminalIndex == (max_index + 1) % WordSize = max_index + 1
  BY MaxIndex

USE StepAssumption, MaxIndex

LEMMA IndexIsNat == \A i \in Index : i \in Nat /\ i < max_index
  BY DEF Index

LEMMA HandOutCounts ==
  ASSUME taken \in [Index -> Nat], NEW from \in Nat, HandOut(from)
  PROVE  /\ taken' \in [Index -> Nat]
         /\ \A i \in Index : from <= i /\ i < from + Midstates => taken'[i] = taken[i] + 1
         /\ \A i \in Index : ~(from <= i /\ i < from + Midstates) => taken'[i] = taken[i]
  <1>1. \A i \in Index :
          (IF from <= i /\ i < from + Midstates THEN taken[i] + 1 ELSE taken[i]) \in Nat
    OBVIOUS
  <1> QED BY <1>1, Zenon DEF HandOut

USE IndexIsNat

LEMMA EngineStarts == EngineInit => EngineInv
  <1> SUFFICES ASSUME EngineInit PROVE EngineInv OBVIOUS
  <1>1. EngineTypes
    <2>1. terminated \in BOOLEAN BY Zenon DEF EngineInit
    <2> QED BY <2>1 DEF EngineInit, EngineTypes
  <1>2. ~terminated /\ curr_index = 0 /\ breaks = 0 BY DEF EngineInit
  <1>3. \A i \in Index : taken[i] = 0 BY DEF EngineInit
  <1>4. \A g \in Board : at[g] # "swap" BY Zenon DEF EngineInit
  <1> QED BY <1>1, <1>2, <1>3, <1>4 DEF EngineInv, NoWorkTwice, NoWorkSkipped

LEMMA EngineSteps == ASSUME EngineInv, [EngineNext]_engine_vars PROVE EngineInv'
  <1> USE DEF EngineInv, EngineTypes, NoWorkTwice, NoWorkSkipped, Fits
  <1>1. ASSUME NEW g \in Board, Load(g) PROVE EngineInv'
    BY <1>1 DEF Load
  <1>2. ASSUME NEW g \in Board, Swap(g) PROVE EngineInv'
    <2>1. curr_index + Midstates <= max_index /\ curr_index \in Nat BY <1>2 DEF Swap
    <2>2. ~terminated BY <2>1
    <2>3. breaks = 0 BY <2>1
    <2>4. curr_index' = curr_index + Midstates /\ HandOut(curr_index) BY <1>2 DEF Swap
    <2>5. /\ taken' \in [Index -> Nat]
          /\ \A i \in Index : curr_index <= i /\ i < curr_index' => taken'[i] = taken[i] + 1
          /\ \A i \in Index : ~(curr_index <= i /\ i < curr_index') => taken'[i] = taken[i]
      BY <2>1, <2>4, HandOutCounts
    <2>6. \A i \in Index : ~(i < curr_index) => taken[i] = 0 BY <2>1
    <2>7. \A i \in Index : taken'[i] > 0 => i < curr_index' BY <2>1, <2>4, <2>5
    <2>8. NoWorkTwice' BY <2>1, <2>5, <2>6
    <2>9. \A i \in Index : i < curr_index' => taken'[i] = 1
      BY <2>1, <2>2, <2>4, <2>5, <2>6
    <2>10. breaks' \in Nat /\ breaks' <= 1 /\ (breaks' = 1 => ~Fits(curr_index)')
      BY <1>2, <2>3 DEF Swap
    <2>11. at' \in [Board -> {"idle", "swap"}] /\ loaded' = loaded /\ terminated' = terminated
           /\ \A h \in Board : at'[h] = "swap" => at[h] = "swap"
      BY <1>2 DEF Swap
    <2> QED BY <2>1, <2>2, <2>4, <2>5, <2>7, <2>8, <2>9, <2>10, <2>11
  <1>3. ASSUME NEW g \in Board, Retry(g) PROVE EngineInv'
    BY <1>3 DEF Retry
  <1>4. CASE Terminate
    <2>1. curr_index' = max_index + 1 BY <1>4, TerminalIndex DEF Terminate
    <2>2. terminated' = TRUE BY <1>4 DEF Terminate
    <2>3. UNCHANGED <<at, loaded, taken, breaks>> BY <1>4 DEF Terminate
    <2>4. terminated' \in BOOLEAN BY <2>2, Zenon
    <2> QED BY <2>1, <2>2, <2>3, <2>4
  <1>5. CASE UNCHANGED engine_vars BY <1>5 DEF engine_vars
  <1> QED BY <1>1, <1>2, <1>3, <1>4, <1>5, ZenonT(40) DEF EngineNext

\* The inductive invariant holds in every reachable state.
THEOREM EngineInvariance == EngineSpec => []EngineInv
  BY EngineStarts, EngineSteps, PTL DEF EngineSpec

\* AtomicRange::next gives every index of the range to at most one caller and,
\* until terminate, leaves none below the current one out.
THEOREM WorkIsUnique == EngineSpec => []EachWorkOnce
  <1>1. EngineInv => EachWorkOnce BY DEF EngineInv, EachWorkOnce
  <1> QED BY <1>1, EngineInvariance, PTL

\* At most one generator is told that it took the last work.
THEOREM BreakIsUnique == EngineSpec => []OneBreak
  <1>1. EngineInv => OneBreak BY DEF EngineInv, OneBreak
  <1> QED BY <1>1, EngineInvariance, PTL

\* terminate silences the engine, races included.
THEOREM TerminateSilences == EngineSpec => SilentAfterTerminate
  <1>1. ASSUME EngineInv, [EngineNext]_engine_vars PROVE [terminated => taken' = taken]_engine_vars
    <2>1. ASSUME NEW g \in Board, Swap(g) PROVE ~terminated
      <3>1. curr_index + Midstates <= max_index /\ curr_index \in Nat
        BY <1>1, <2>1 DEF Swap, EngineInv, EngineTypes, Fits
      <3> QED BY <1>1, <3>1 DEF EngineInv
    <2> QED BY <1>1, <2>1 DEF EngineNext, Load, Retry, Terminate, engine_vars
  <1> QED BY <1>1, EngineInvariance, PTL DEF EngineSpec, SilentAfterTerminate

-----------------------------------------------------------------------------
(* Indices and headers.                                                     *)

LEMMA HeaderFacts ==
  ASSUME NEW i \in Index
  PROVE  /\ i % Versions \in 0 .. Versions - 1
         /\ i \div Versions \in 0 .. Seconds - 1
         /\ (i - (i % Midstates)) \div Versions = i \div Versions
  <1>1. i \in Nat /\ i < Versions * Seconds BY DEF max_index
  <1>2. i % Versions \in 0 .. Versions - 1 BY <1>1, SizeAssumption, DivMod
  <1>3. i \div Versions \in Nat /\ i \div Versions < Seconds BY <1>1, SizeAssumption
  <1>4. (i - (i % Midstates)) \div Versions = i \div Versions
    BY <1>1, SizeAssumption, DivideAssumption, SameSecond, Zenon
  <1> QED BY <1>2, <1>3, <1>4, SizeAssumption

\* No two indices of an engine stand for the same block header, every header
\* stays within the bits and the seconds it may roll, and the midstates of one
\* work share their ntime.
THEOREM HeadersAreDistinct == EngineSpec => []HeadersDistinct
  <1>1. ASSUME NEW i \in Index, NEW j \in Index, Header(i) = Header(j) PROVE i = j
    <2>1. i % Versions = j % Versions /\ i \div Versions = j \div Versions
      BY <1>1 DEF Header
    <2>2. PICK q \in Nat, r \in 0 .. Versions - 1 :
            i = Versions * q + r /\ i \div Versions = q /\ i % Versions = r
      BY SizeAssumption, DivMod, Zenon
    <2>3. PICK p \in Nat, t \in 0 .. Versions - 1 :
            j = Versions * p + t /\ j \div Versions = p /\ j % Versions = t
      BY SizeAssumption, DivMod
    <2> QED BY <2>1, <2>2, <2>3
  <1>2. ASSUME NEW i \in Index
        PROVE  /\ Header(i)[1] \in 0 .. Versions - 1 /\ Header(i)[2] \in 0 .. Seconds - 1
               /\ Header(i)[2] = Header(i - (i % Midstates))[2]
    BY HeaderFacts DEF Header
  <1>3. HeadersDistinct BY <1>1, <1>2 DEF HeadersDistinct
  <1> QED BY <1>3, PTL

-----------------------------------------------------------------------------
(* The distribution of work.                                                 *)

USE DispatcherAssumption, BoundAssumption

\* The inductive invariant: the two properties and the types they need.
Channel ==
  /\ sent \in [Client -> 0 .. MaxJobs]
  /\ active \in Sender
  /\ selected \in Sender
  /\ current \in [Sender -> Engine]
  /\ WatchFollowsActive
  /\ IdleClientsAreExhausted

LEMMA InitChannel == Init => Channel
  BY DEF Init, Channel, WatchFollowsActive, IdleClientsAreExhausted, Sender, Engine

LEMMA BroadcastKeeps ==
  ASSUME Channel, NEW c \in Client, NEW e \in Engine, BroadcastEngine(c, e),
         UNCHANGED <<sender, active, selected>>
  PROVE  /\ WatchFollowsActive'
         /\ current' \in [Sender -> Engine]
         /\ current'[c] = e
         /\ \A b \in Client \ {c} : current'[b] = current[b]
  <1>1. current' = [current EXCEPT ![c] = e] BY DEF BroadcastEngine
  <1>2. CASE c = active
    BY <1>1, <1>2 DEF Channel, WatchFollowsActive, BroadcastEngine, Broadcast, Sender
  <1>3. CASE c # active
    BY <1>1, <1>3 DEF Channel, WatchFollowsActive, BroadcastEngine, NoBroadcast, Sender
  <1> QED BY <1>2, <1>3

LEMMA NextChannel == ASSUME Channel, [Next]_vars PROVE Channel'
  <1>1. ASSUME NEW c \in Client, ComeUp(c) \/ GoDown(c) \/ Drop(c) \/ Select(c) PROVE Channel'
    BY <1>1 DEF ComeUp, GoDown, Drop, Select, Channel, WatchFollowsActive,
       IdleClientsAreExhausted, Sender, clients
  <1>2. ASSUME NEW c \in Client, SendJob(c) PROVE Channel'
    <2>1. <<c, sent[c] + 1>> \in Engine BY <1>2 DEF SendJob, Engine, Channel
    <2>2. UNCHANGED <<sender, active, selected, up>> /\ sent' \in [Client -> 0 .. MaxJobs]
      BY <1>2 DEF SendJob, Channel
    <2>3. /\ WatchFollowsActive'
          /\ current' \in [Sender -> Engine]
          /\ \A b \in Client \ {c} : current'[b] = current[b]
      BY <1>2, <2>1, <2>2, BroadcastKeeps DEF SendJob
    <2>4. IdleClientsAreExhausted'
      BY <1>2, <2>2, <2>3 DEF SendJob, Channel, IdleClientsAreExhausted
    <2> QED BY <2>2, <2>3, <2>4 DEF Channel
  <1>3. ASSUME NEW c \in Client, Invalidate(c) PROVE Channel'
    <2>1. ExhaustedWork \in Engine BY DEF Engine
    <2>2. UNCHANGED <<sender, active, selected, up, sent>> BY <1>3 DEF Invalidate, clients
    <2>3. /\ WatchFollowsActive'
          /\ current' \in [Sender -> Engine]
          /\ current'[c] = ExhaustedWork
          /\ \A b \in Client \ {c} : current'[b] = current[b]
      BY <1>3, <2>1, <2>2, BroadcastKeeps DEF Invalidate
    <2>4. IdleClientsAreExhausted' BY <2>2, <2>3 DEF Channel, IdleClientsAreExhausted
    <2> QED BY <2>2, <2>3, <2>4 DEF Channel
  <1>4. CASE SwitchClient
    <2>1. UNCHANGED <<current, up, sent>> /\ selected' \in Sender /\ active' \in Sender
      BY <1>4 DEF SwitchClient, Channel, clients, Sender
    <2>2. CASE selected = active
      BY <1>4, <2>1, <2>2 DEF SwitchClient, Channel, WatchFollowsActive,
         IdleClientsAreExhausted, NoBroadcast
    <2>3. CASE selected # active
      <3>1. active' = selected /\ sender' = {selected}
        BY <1>4, <2>3 DEF SwitchClient, Exchange, Channel, WatchFollowsActive
      <3>2. watch' = current[selected]
        BY <1>4, <2>3, <3>1 DEF SwitchClient, Broadcast
      <3> QED BY <2>1, <3>1, <3>2 DEF Channel, WatchFollowsActive, IdleClientsAreExhausted
    <2> QED BY <2>2, <2>3
  <1>5. ASSUME NEW g \in Generator, Generate(g) PROVE Channel'
    BY <1>5, ZenonT(40) DEF Generate, Borrow, IsExhausted, WaitNext, TakeWork, TakeNothing, clients,
       Channel, WatchFollowsActive, IdleClientsAreExhausted
  <1>6. CASE UNCHANGED vars
    BY <1>6 DEF vars, Channel, WatchFollowsActive, IdleClientsAreExhausted
  <1> QED BY <1>1, <1>2, <1>3, <1>4, <1>5, <1>6 DEF Next

\* The inductive invariant holds in every reachable state.
THEOREM Invariance == Spec => []Channel
  BY InitChannel, NextChannel, PTL DEF Spec

\* The hardware always sees the current engine of the one sender that holds
\* the channel, the dispatcher's active one.
THEOREM HardwareSeesActive == Spec => []WatchFollowsActive
  <1>1. Channel => WatchFollowsActive BY DEF Channel
  <1> QED BY <1>1, Invariance, PTL

\* A client that is down has an exhausted engine, whoever is active.
THEOREM DownMeansExhausted == Spec => []IdleClientsAreExhausted
  <1>1. Channel => IdleClientsAreExhausted BY DEF Channel
  <1> QED BY <1>1, Invariance, PTL
-----------------------------------------------------------------------------
\* The generators that may still take a work from e without asking again.
Holding(e) == {g \in Generator : held[g] = e /\ pc[g] \in {"check", "take"}}

\* The inductive invariant behind LateWorkBounded: each late work was paid for
\* by a generator that held the engine when it left the watch.
Paid ==
  /\ watch \in Engine
  /\ pc \in [Generator -> {"ask", "check", "wait", "take"}]
  /\ held \in [Generator -> Engine]
  /\ late \in [Engine -> Nat]
  /\ late[watch] = 0
  /\ \A e \in Engine \ {watch} : late[e] + Cardinality(Holding(e)) <= Cardinality(Generator)

INSTANCE FiniteSetTheorems

LEMMA HoldingSize ==
  ASSUME NEW e
  PROVE  /\ IsFiniteSet(Holding(e)) /\ Cardinality(Holding(e)) \in Nat
         /\ Cardinality(Generator) \in Nat
         /\ Cardinality(Holding(e)) <= Cardinality(Generator)
  <1>1. Holding(e) \subseteq Generator BY DEF Holding
  <1> QED BY <1>1, GeneratorAssumption, FS_Subset, FS_CardinalityType

\* Fewer holders need less.
LEMMA FewerHolders ==
  ASSUME NEW S, NEW e, S \subseteq Holding(e)
  PROVE  Cardinality(S) \in Nat /\ Cardinality(S) <= Cardinality(Holding(e))
  BY HoldingSize, FS_Subset, FS_CardinalityType

LEMMA InitPaid == Init => Paid
  <1> SUFFICES ASSUME Init PROVE Paid OBVIOUS
  <1>1. \A e \in Engine : late[e] + Cardinality(Holding(e)) <= Cardinality(Generator)
    BY HoldingSize DEF Init
  <1> QED BY <1>1 DEF Init, Paid, Engine

\* A broadcast leaves every engine but the new one with what it has: the one that
\* leaves the watch has no late work yet.
LEMMA BroadcastPaid ==
  ASSUME Paid, NEW e \in Engine, Broadcast(e), UNCHANGED <<pc, held>>
  PROVE  Paid'
  <1>1. /\ watch' = e /\ late' \in [Engine -> Nat] /\ late'[e] = 0
        /\ \A d \in Engine \ {e} : late'[d] = late[d]
    BY DEF Broadcast, Paid
  <1>2. ASSUME NEW d \in Engine \ {e}
        PROVE  late'[d] + Cardinality(Holding(d)') <= Cardinality(Generator)
    <2>1. Holding(d)' = Holding(d) BY Zenon DEF Holding
    <2>2. CASE d = watch BY <1>1, <2>1, <2>2, HoldingSize DEF Paid
    <2>3. CASE d # watch BY <1>1, <2>1, <2>3 DEF Paid
    <2> QED BY <2>2, <2>3
  <1> QED BY <1>1, <1>2 DEF Paid

\* A step that leaves the watch and the late works alone, and makes no generator
\* hold an engine that is not in the watch.
LEMMA QuietPaid ==
  ASSUME Paid, UNCHANGED <<watch, late>>,
         pc' \in [Generator -> {"ask", "check", "wait", "take"}],
         held' \in [Generator -> Engine],
         \A e \in Engine \ {watch} : Holding(e)' \subseteq Holding(e)
  PROVE  Paid'
  <1>1. ASSUME NEW e \in Engine \ {watch}
        PROVE  late[e] + Cardinality(Holding(e)') <= Cardinality(Generator)
    <2>1. late[e] \in Nat /\ late[e] + Cardinality(Holding(e)) <= Cardinality(Generator)
      BY DEF Paid
    <2>2. /\ Cardinality(Holding(e)') \in Nat
          /\ Cardinality(Holding(e)') <= Cardinality(Holding(e))
      BY FewerHolders
    <2> QED BY <2>1, <2>2, HoldingSize
  <1> QED BY <1>1 DEF Paid

\* A late work costs its generator the engine.
LEMMA TakeWorkPaid ==
  ASSUME Paid, NEW g \in Generator, TakeWork(g)
  PROVE  Paid'
  <1>1. PICK e \in Engine : e = held[g] BY DEF Paid
  <1>2. /\ pc[g] = "take" /\ pc' = [pc EXCEPT ![g] = "ask"] /\ UNCHANGED <<watch, held>>
        /\ late' = IF e = watch \/ e[1] \in gone THEN late ELSE [late EXCEPT ![e] = @ + 1]
    BY <1>1 DEF TakeWork, At
  <1>3. pc' \in [Generator -> {"ask", "check", "wait", "take"}] BY <1>2 DEF Paid
  <1>4. \A d : Holding(d)' = Holding(d) \ {g} BY <1>2 DEF Holding, Paid
  <1>5. CASE e = watch \/ e[1] \in gone BY <1>2, <1>3, <1>4, <1>5, QuietPaid DEF Paid
  <1>6. CASE ~(e = watch \/ e[1] \in gone)
    <2>1. late' = [late EXCEPT ![e] = late[e] + 1] BY <1>2, <1>6
    <2>2. g \in Holding(e) BY <1>1, <1>2 DEF Holding
    <2>3. Cardinality(Holding(e)') = Cardinality(Holding(e)) - 1
      BY <1>4, <2>2, HoldingSize, FS_RemoveElement
    <2>4. late[e] \in Nat /\ late[e] + Cardinality(Holding(e)) <= Cardinality(Generator)
      BY <1>6 DEF Paid
    <2>5. late'[e] + Cardinality(Holding(e)') <= Cardinality(Generator)
      BY <2>1, <2>3, <2>4, HoldingSize DEF Paid
    <2>6. ASSUME NEW d \in Engine \ {watch, e}
          PROVE  late'[d] + Cardinality(Holding(d)') <= Cardinality(Generator)
      <3>1. late'[d] = late[d] /\ late[d] \in Nat BY <2>1 DEF Paid
      <3>2. late[d] + Cardinality(Holding(d)) <= Cardinality(Generator) BY DEF Paid
      <3>3. Cardinality(Holding(d)') \in Nat /\ Cardinality(Holding(d)') <= Cardinality(Holding(d))
        BY <1>4, FewerHolders
      <3> QED BY <3>1, <3>2, <3>3, HoldingSize
    <2>7. late' \in [Engine -> Nat] /\ late'[watch] = 0 BY <1>6, <2>1, <2>4 DEF Paid
    <2> QED BY <1>2, <1>3, <2>5, <2>6, <2>7 DEF Paid
  <1> QED BY <1>5, <1>6

LEMMA NextPaid == ASSUME Channel, Paid, [Next]_vars PROVE Paid'
  <1>1. ASSUME UNCHANGED <<watch, late, pc, held>> PROVE Paid' BY <1>1 DEF Paid, Holding
  <1>2. ASSUME NEW c \in Client, NEW e \in Engine, BroadcastEngine(c, e), UNCHANGED generators
        PROVE  Paid'
    BY <1>1, <1>2, BroadcastPaid DEF BroadcastEngine, NoBroadcast, generators
  <1>3. ASSUME NEW c \in Client,
               ComeUp(c) \/ SendJob(c) \/ Invalidate(c) \/ GoDown(c) \/ Drop(c) \/ Select(c)
        PROVE  Paid'
    <2>1. CASE SendJob(c)
      <3>1. <<c, sent[c] + 1>> \in Engine BY <2>1 DEF SendJob, Engine, Channel
      <3> QED BY <1>2, <2>1, <3>1 DEF SendJob
    <2>2. CASE Invalidate(c)
      <3>1. ExhaustedWork \in Engine BY DEF Engine
      <3> QED BY <1>2, <2>2, <3>1 DEF Invalidate
    <2> QED BY <1>1, <1>3, <2>1, <2>2, Zenon DEF ComeUp, GoDown, Drop, Select, generators
  <1>4. CASE SwitchClient
    <2>1. current[selected] \in Engine /\ current[active] \in Engine BY DEF Channel
    <2>2. UNCHANGED <<pc, held>> BY <1>4 DEF SwitchClient, generators
    <2>3. \/ Broadcast(current[selected]) \/ Broadcast(current[active]) \/ NoBroadcast
      BY <1>4 DEF SwitchClient
    <2> QED BY <1>1, <2>1, <2>2, <2>3, BroadcastPaid DEF NoBroadcast
  <1>5. ASSUME NEW g \in Generator, Generate(g) PROVE Paid'
    <2>1. CASE Borrow(g) \/ WaitNext(g)
      <3>1. /\ held' = [held EXCEPT ![g] = watch] /\ pc' = [pc EXCEPT ![g] = "check"]
            /\ UNCHANGED <<watch, late>>
        BY <2>1 DEF Borrow, WaitNext, At
      <3>2. \A e \in Engine \ {watch} : Holding(e)' \subseteq Holding(e)
        BY <3>1 DEF Holding, Paid
      <3>3. /\ pc' \in [Generator -> {"ask", "check", "wait", "take"}]
            /\ held' \in [Generator -> Engine]
        BY <3>1 DEF Paid
      <3> QED BY <3>1, <3>2, <3>3, QuietPaid
    <2>2. CASE IsExhausted(g) \/ TakeNothing(g)
      <3>1. /\ pc[g] \in {"check", "take"} /\ UNCHANGED <<watch, late, held>>
            /\ \E p \in {"wait", "take", "ask"} : pc' = [pc EXCEPT ![g] = p]
        BY <2>2, Zenon DEF IsExhausted, TakeNothing, At
      <3>2. \A e \in Engine \ {watch} : Holding(e)' \subseteq Holding(e)
        BY <3>1 DEF Holding, Paid
      <3>3. pc' \in [Generator -> {"ask", "check", "wait", "take"}] BY <3>1 DEF Paid
      <3> QED BY <3>1, <3>2, <3>3, QuietPaid DEF Paid
    <2>3. CASE TakeWork(g) BY <2>3, TakeWorkPaid
    <2> QED BY <1>5, <2>1, <2>2, <2>3 DEF Generate
  <1>6. CASE UNCHANGED vars BY <1>1, <1>6 DEF vars
  <1> QED BY <1>3, <1>4, <1>5, <1>6 DEF Next

\* However many generators, clients and works there are, an engine that left the
\* channel yields at most one more work per generator.
THEOREM LateWorkIsBounded == Spec => []LateWorkBounded
  <1>1. Paid => LateWorkBounded
    <2> SUFFICES ASSUME Paid, NEW e \in Engine PROVE late[e] <= Cardinality(Generator)
      BY DEF LateWorkBounded
    <2> QED BY HoldingSize DEF Paid
  <1>2. Spec => []Paid BY Invariance, InitPaid, NextPaid, PTL DEF Spec
  <1> QED BY <1>1, <1>2, PTL
=============================================================================
