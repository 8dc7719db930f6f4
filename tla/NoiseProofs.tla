----------------------------- MODULE NoiseProofs -----------------------------
(*****************************************************************************)
(* The encrypted stream below a Stratum V2 connection, for every number of   *)
(* frames.                                                                   *)
(*****************************************************************************)
EXTENDS NoiseLink, Integers, TLAPS

-----------------------------------------------------------------------------
(* What the proofs use of sequences.                                       *)

LEMMA SeqElement ==
  ASSUME NEW S, NEW q \in Seq(S), NEW k \in 1 .. Len(q)
  PROVE  q[k] \in S
  OBVIOUS

LEMMA SeqEmpty ==
  ASSUME NEW S
  PROVE  /\ <<>> \in Seq(S) /\ Len(<<>>) = 0
         /\ \A q \in Seq(S) : q # <<>> => Len(q) \in Nat \ {0}
  OBVIOUS

LEMMA SeqLen ==
  ASSUME NEW S, NEW q \in Seq(S)
  PROVE  Len(q) \in Nat /\ DOMAIN q = 1 .. Len(q) /\ q \in [1 .. Len(q) -> S]
  OBVIOUS

LEMMA SeqTail ==
  ASSUME NEW S, NEW q \in Seq(S), q # <<>>
  PROVE  /\ Head(q) \in S
         /\ Tail(q) \in Seq(S) /\ Len(Tail(q)) = Len(q) - 1
         /\ \A k \in 1 .. Len(Tail(q)) : Tail(q)[k] = q[k + 1]
  OBVIOUS

LEMMA SeqAppend ==
  ASSUME NEW S, NEW q \in Seq(S), NEW x \in S
  PROVE  /\ Append(q, x) \in Seq(S) /\ Append(q, x) # <<>>
         /\ Len(Append(q, x)) = Len(q) + 1
         /\ \A k \in 1 .. Len(q) : Append(q, x)[k] = q[k]
         /\ Append(q, x)[Len(q) + 1] = x
  OBVIOUS

LEMMA SeqWider ==
  ASSUME NEW S, NEW T, NEW q \in Seq(S), S \subseteq T
  PROVE  q \in Seq(T)
  OBVIOUS

LEMMA SeqSame ==
  ASSUME NEW S, NEW p \in Seq(S), NEW q \in Seq(S), Len(p) = Len(q),
         \A k \in 1 .. Len(p) : p[k] = q[k]
  PROVE  p = q
  OBVIOUS

LEMMA SeqConcat ==
  ASSUME NEW S, NEW p \in Seq(S), NEW q \in Seq(S)
  PROVE  /\ p \o q \in Seq(S) /\ Len(p \o q) = Len(p) + Len(q)
         /\ \A k \in 1 .. Len(p) + Len(q) :
              (p \o q)[k] = IF k <= Len(p) THEN p[k] ELSE q[k - Len(p)]
  OBVIOUS

LEMMA SeqPart ==
  ASSUME NEW S, NEW q, NEW a \in Int, NEW b \in Int, \A k \in a .. b : q[k] \in S
  PROVE  /\ SubSeq(q, a, b) \in Seq(S)
         /\ Len(SubSeq(q, a, b)) = IF a <= b THEN b - a + 1 ELSE 0
         /\ \A k \in 1 .. b - a + 1 : SubSeq(q, a, b)[k] = q[a + k - 1]
  OBVIOUS

-----------------------------------------------------------------------------
(* What is on the wire.                                                      *)

\* The messages towards a side, from the one of the handshake on.
Message(cert, side, n) ==
  IF n > 0 THEN [kind |-> "data", from |-> Peer(side), nonce |-> n - 1, frame |-> n]
  ELSE IF side = "responder" THEN Hello ELSE Reply(cert)

\* How many of them a side has sent whose state is k, and how many it has read.
Posted(side, k) == IF k.stage >= (IF side = "initiator" THEN 1 ELSE 2) THEN k.tx + 1 ELSE 0
Taken(k) == IF k.stage >= 2 THEN k.rx + 1 ELSE 0

\* The cell at a place of what a side has yet to read.
CellAt(b, w, i) == IF i <= Len(b) THEN b[i] ELSE w[i - Len(b)]
\* The buffer and the wire hold two cells of each message from number c up to n.
Flow(cert, side, n, c, b, w) ==
  /\ c <= n
  /\ Len(b) + Len(w) = 2 * (n - c)
  /\ \A j \in 0 .. n - c - 1 :
       /\ CellAt(b, w, 2 * j + 1).of = Message(cert, side, c + j)
       /\ CellAt(b, w, 2 * j + 2).of = Message(cert, side, c + j)

NoiseModes == {"start", "wait", "replied", "transport", "failed"}
Reading == NoiseModes \ {"failed"}

NoiseMessages(cert) ==
  {Hello, Reply(cert)} \cup [kind : {"data"}, from : Sides, nonce : Nat, frame : Nat]
NoiseCells(cert) == [of : NoiseMessages(cert), half : {1, 2}]
SideStates(S) ==
  [stage : 0 .. 3, mode : NoiseModes, buf : Seq(S), tx : Nat, rx : Nat,
   sent : Seq(Nat), got : Seq(Nat)]
NoiseTypes ==
  /\ noise \in [Sides -> SideStates(NoiseCells(noiseCert))]
  /\ noiseWire \in [Sides -> Seq(NoiseCells(noiseCert))]
  /\ noiseClock \in Nat
  /\ \E h, k, a : h.valid_from \in Nat /\ noiseCert = Certificate(SignedPart(h, k, a))

\* How far the handshake of a side is in each mode.
Shook(side, k) ==
  /\ k.mode \in {"start", "wait", "replied"} => k.tx = 0 /\ k.rx = 0
  /\ k.mode = "start" => k.stage = 0
  /\ k.mode = "wait" => k.stage = 1
  /\ k.mode = "replied" => side = "responder" /\ k.stage = 2
  /\ k.mode = "transport" => k.stage >= 2

\* Frames are numbered, and none arrived that was not sent.
CountUp(s, n) == Len(s) = n /\ \A i \in 1 .. n : s[i] = i
Counts(k, o) == CountUp(k.sent, k.tx) /\ CountUp(k.got, k.rx) /\ k.rx <= o.tx

\* A side that reads finds everything its peer o has sent and it has not read.
Flows(cert, side, k, o, w) ==
  k.mode \in Reading => Flow(cert, side, Posted(Peer(side), o), Taken(k), k.buf, w)

SideInv(cert, side, k, o, w) == Shook(side, k) /\ Counts(k, o) /\ Flows(cert, side, k, o, w)

\* The inductive invariant: NoiseInOrder speaks of what arrived, and this of
\* everything on its way as well.
NoiseInv ==
  /\ NoiseTypes /\ PeerIsCertified
  /\ \A side \in Sides :
       SideInv(noiseCert, side, noise[side], noise[Peer(side)], noiseWire[side])

\* TCP moves a cell from the wire to the buffer.
LEMMA FlowDelivered ==
  ASSUME NEW S, NEW b \in Seq(S), NEW w \in Seq(S), NEW cert, NEW side, NEW n \in Nat, NEW c \in Nat,
         Flow(cert, side, n, c, b, w), w # <<>>
  PROVE  Flow(cert, side, n, c, Append(b, Head(w)), Tail(w))
  <1>1. PICK b1, w1 : b1 = Append(b, Head(w)) /\ w1 = Tail(w) BY Zenon
  <1>2. Len(w) \in Nat \ {0} /\ Len(b) \in Nat BY SeqLen, SeqEmpty
  <1>p. PICK p \in Nat, q \in Nat : p = Len(b) /\ q = Len(w) BY <1>2
  <1>3. Head(w) = w[1] /\ Head(w) \in S /\ Len(w1) = Len(w) - 1
        /\ \A i \in 1 .. Len(w1) : w1[i] = w[i + 1]
    BY <1>1, <1>2, SeqTail
  <1>4. /\ Len(b1) = Len(b) + 1 /\ b1[Len(b) + 1] = w[1]
        /\ \A i \in 1 .. Len(b) : b1[i] = b[i]
    BY <1>1, <1>3, SeqAppend
  <1>5. ASSUME NEW i \in 1 .. p + q PROVE CellAt(b1, w1, i) = CellAt(b, w, i)
    <2>1. CASE i <= p BY <1>4, <1>p, <2>1 DEF CellAt
    <2>2. CASE i = p + 1 BY <1>4, <1>p, <2>2 DEF CellAt
    <2>3. CASE i > p + 1
      <3>1. i - (p + 1) \in 1 .. q - 1 /\ (i - (p + 1)) + 1 = i - p BY <2>3
      <3>2. w1[i - (p + 1)] = w[i - p] BY <1>3, <1>p, <3>1
      <3> QED BY <1>4, <1>p, <2>3, <3>2 DEF CellAt
    <2> QED BY <2>1, <2>2, <2>3
  <1>6. Len(b1) + Len(w1) = 2 * (n - c)
    <2>1. p + q = 2 * (n - c) BY <1>p DEF Flow
    <2>2. Len(b1) = p + 1 /\ Len(w1) = q - 1 BY <1>3, <1>4, <1>p
    <2> QED BY <2>1, <2>2
  <1>7. ASSUME NEW j \in 0 .. n - c - 1
        PROVE  /\ CellAt(b1, w1, 2 * j + 1).of = Message(cert, side, c + j)
               /\ CellAt(b1, w1, 2 * j + 2).of = Message(cert, side, c + j)
    <2>1. 2 * j + 1 \in 1 .. 2 * (n - c) /\ 2 * j + 2 \in 1 .. 2 * (n - c) OBVIOUS
    <2>2. p + q = 2 * (n - c) BY <1>p DEF Flow
    <2>3. /\ CellAt(b, w, 2 * j + 1).of = Message(cert, side, c + j)
          /\ CellAt(b, w, 2 * j + 2).of = Message(cert, side, c + j)
      BY DEF Flow
    <2> QED BY <1>5, <2>1, <2>2, <2>3
  <1>8. c <= n BY DEF Flow
  <1> QED BY <1>1, <1>6, <1>7, <1>8 DEF Flow

\* The next message is sent.
LEMMA FlowSent ==
  ASSUME NEW S, NEW b \in Seq(S), NEW w \in Seq(S), NEW cert, NEW side, NEW n \in Nat, NEW c \in Nat,
         Flow(cert, side, n, c, b, w), NEW m, m = Message(cert, side, n)
  PROVE  Flow(cert, side, n + 1, c, b, w \o Cells(m))
  <1>1. PICK w1, e : w1 = w \o e /\ e = Cells(m) BY Zenon
  <1>2. PICK e1, e2 : e = <<e1, e2>> /\ e1.of = m /\ e2.of = m BY <1>1 DEF Cells
  <1>3. PICK S1 : S1 = S \cup {e1, e2} BY Zenon
  <1>4. w \in Seq(S1) BY <1>3, SeqWider
  <1>5. e \in Seq(S1) /\ Len(e) = 2 /\ e[1] = e1 /\ e[2] = e2 BY <1>2, <1>3
  <1>6. /\ Len(w1) = Len(w) + Len(e)
        /\ \A i \in 1 .. Len(w) + Len(e) : w1[i] = IF i <= Len(w) THEN w[i] ELSE e[i - Len(w)]
    BY <1>1, <1>4, <1>5, SeqConcat, ZenonT(40)
  <1>7. Len(w) \in Nat /\ Len(b) \in Nat /\ Len(b) + Len(w) = 2 * (n - c) /\ c <= n
    BY SeqLen DEF Flow
  <1>p. PICK p \in Nat, q \in Nat : p = Len(b) /\ q = Len(w) BY <1>7
  <1>8. \A i \in 1 .. 2 * (n - c) : CellAt(b, w1, i) = CellAt(b, w, i)
    <2> SUFFICES ASSUME NEW i \in 1 .. 2 * (n - c) PROVE CellAt(b, w1, i) = CellAt(b, w, i)
      OBVIOUS
    <2>1. CASE i <= p BY <1>p, <2>1 DEF CellAt
    <2>2. CASE ~(i <= p)
      <3>1. i - p \in 1 .. q + 2 /\ i - p <= q BY <1>7, <1>p, <2>2
      <3>2. \A k \in 1 .. q + 2 : w1[k] = IF k <= q THEN w[k] ELSE e[k - q] BY <1>5, <1>6, <1>p
      <3>3. w1[i - p] = w[i - p] BY <3>1, <3>2, Zenon
      <3> QED BY <1>p, <2>2, <3>3 DEF CellAt
    <2> QED BY <2>1, <2>2
  <1>9. CellAt(b, w1, 2 * (n - c) + 1) = e1 /\ CellAt(b, w1, 2 * (n - c) + 2) = e2
    <2>1. w1[q + 1] = e1 /\ w1[q + 2] = e2
      <3>1. q + 1 \in 1 .. q + 2 /\ ~(q + 1 <= q) /\ (q + 1) - q = 1 OBVIOUS
      <3>2. q + 2 \in 1 .. q + 2 /\ ~(q + 2 <= q) /\ (q + 2) - q = 2 OBVIOUS
      <3>3. \A i \in 1 .. q + 2 : w1[i] = IF i <= q THEN w[i] ELSE e[i - q] BY <1>5, <1>6, <1>p
      <3> QED BY <1>5, <3>1, <3>2, <3>3
    <2>2. PICK k : k = 2 * (n - c) OBVIOUS
    <2>3. /\ ~(k + 1 <= p) /\ (k + 1) - p = q + 1
          /\ ~(k + 2 <= p) /\ (k + 2) - p = q + 2
      BY <1>7, <1>p, <2>2
    <2> QED BY <1>p, <2>1, <2>2, <2>3 DEF CellAt
  <1>10. ASSUME NEW j \in 0 .. n + 1 - c - 1
         PROVE  /\ CellAt(b, w1, 2 * j + 1).of = Message(cert, side, c + j)
                /\ CellAt(b, w1, 2 * j + 2).of = Message(cert, side, c + j)
    <2>1. CASE j = n - c BY <1>2, <1>7, <1>9, <2>1
    <2>2. CASE j \in 0 .. n - c - 1
      <3>1. 2 * j + 1 \in 1 .. 2 * (n - c) /\ 2 * j + 2 \in 1 .. 2 * (n - c) BY <2>2
      <3>2. /\ CellAt(b, w, 2 * j + 1).of = Message(cert, side, c + j)
            /\ CellAt(b, w, 2 * j + 2).of = Message(cert, side, c + j)
        BY <2>2 DEF Flow
      <3> QED BY <1>8, <3>1, <3>2
    <2> QED BY <1>7, <2>1, <2>2
  <1>11. Len(b) + Len(w1) = 2 * (n + 1 - c) /\ c <= n + 1
    <2>1. Len(w1) = q + 2 BY <1>5, <1>6, <1>p
    <2> QED BY <1>7, <1>p, <2>1
  <1> QED BY <1>1, <1>10, <1>11 DEF Flow

\* A whole message is in the buffer, and is taken from it.
LEMMA FlowTaken ==
  ASSUME NEW S, NEW b \in Seq(S), NEW w \in Seq(S), NEW cert, NEW side, NEW n \in Nat, NEW c \in Nat,
         Flow(cert, side, n, c, b, w), HasMessage(b)
  PROVE  /\ c < n /\ FirstMessage(b) = Message(cert, side, c)
         /\ AfterMessage(b) \in Seq(S)
         /\ Flow(cert, side, n, c + 1, AfterMessage(b), w)
  <1>1. PICK b1 : b1 = SubSeq(b, 3, Len(b)) BY Zenon
  <1>2. Len(w) \in Nat /\ Len(b) \in Nat /\ Len(b) + Len(w) = 2 * (n - c) /\ Len(b) >= 2
    BY SeqLen DEF Flow, HasMessage
  <1>3. c < n BY <1>2
  <1>4. FirstMessage(b) = Message(cert, side, c)
    <2>1. 0 \in 0 .. n - c - 1 BY <1>3
    <2>2. CellAt(b, w, 2 * 0 + 1).of = Message(cert, side, c + 0) BY <2>1 DEF Flow
    <2>3. 2 * 0 + 1 = 1 /\ c + 0 = c OBVIOUS
    <2>4. CellAt(b, w, 1) = b[1] BY <1>2 DEF CellAt
    <2> QED BY <2>2, <2>3, <2>4 DEF FirstMessage
  <1>5. /\ b1 \in Seq(S) /\ Len(b1) = Len(b) - 2
        /\ \A i \in 1 .. Len(b) - 2 : b1[i] = b[i + 2]
    <2>1. PICK p \in Nat, k \in Nat : p = Len(b) /\ k = 3 BY <1>2
    <2>2. \A i \in k .. p : b[i] \in S
      <3>1. \A i \in 1 .. p : b[i] \in S BY <2>1, SeqElement
      <3> QED BY <2>1, <3>1
    <2>3. /\ SubSeq(b, k, p) \in Seq(S)
          /\ Len(SubSeq(b, k, p)) = IF k <= p THEN p - k + 1 ELSE 0
          /\ \A i \in 1 .. p - k + 1 : SubSeq(b, k, p)[i] = b[k + i - 1]
      BY <2>2, SeqPart
    <2>4. b1 = SubSeq(b, k, p) /\ p >= 2 BY <1>1, <1>2, <2>1
    <2>5. b1 \in Seq(S) /\ Len(b1) = p - 2 BY <2>1, <2>3, <2>4
    <2>6. \A i \in 1 .. p - 2 : b1[i] = b[i + 2]
      <3>1. \A i \in 1 .. p - 2 : i \in 1 .. p - k + 1 /\ k + i - 1 = i + 2 BY <2>1
      <3> QED BY <2>3, <2>4, <3>1, Zenon
    <2> QED BY <2>1, <2>5, <2>6
  <1>6. \A i \in 1 .. 2 * (n - c) - 2 : CellAt(b1, w, i) = CellAt(b, w, i + 2)
    BY <1>2, <1>5 DEF CellAt
  <1>7. ASSUME NEW j \in 0 .. n - (c + 1) - 1
        PROVE  /\ CellAt(b1, w, 2 * j + 1).of = Message(cert, side, c + 1 + j)
               /\ CellAt(b1, w, 2 * j + 2).of = Message(cert, side, c + 1 + j)
    <2>1. PICK k : k = j + 1 OBVIOUS
    <2>2. /\ k \in 0 .. n - c - 1 /\ c + k = c + 1 + j
          /\ 2 * k + 1 = 2 * j + 1 + 2 /\ 2 * k + 2 = 2 * j + 2 + 2
          /\ 2 * j + 1 \in 1 .. 2 * (n - c) - 2 /\ 2 * j + 2 \in 1 .. 2 * (n - c) - 2
      BY <1>3, <2>1
    <2>3. /\ CellAt(b, w, 2 * k + 1).of = Message(cert, side, c + k)
          /\ CellAt(b, w, 2 * k + 2).of = Message(cert, side, c + k)
      BY <2>2 DEF Flow
    <2> QED BY <1>6, <2>2, <2>3, Zenon
  <1>8. Len(b1) + Len(w) = 2 * (n - (c + 1)) /\ c + 1 <= n BY <1>2, <1>3, <1>5
  <1>9. Flow(cert, side, n, c + 1, b1, w) BY <1>7, <1>8 DEF Flow
  <1> QED BY <1>1, <1>3, <1>4, <1>5, <1>9 DEF AfterMessage

-----------------------------------------------------------------------------
(* What a step does to the side that takes it, and to its peer.            *)

LEMMA SideFields ==
  ASSUME NEW S, NEW k \in SideStates(S)
  PROVE  /\ k.stage \in Nat /\ k.tx \in Nat /\ k.rx \in Nat /\ k.buf \in Seq(S)
         /\ k.sent \in Seq(Nat) /\ k.got \in Seq(Nat)
         /\ Taken(k) \in Nat /\ \A side : Posted(side, k) \in Nat
  <1>1. /\ k.stage \in Nat /\ k.tx \in Nat /\ k.rx \in Nat /\ k.buf \in Seq(S)
        /\ k.sent \in Seq(Nat) /\ k.got \in Seq(Nat)
    BY DEF SideStates
  <1>2. Taken(k) \in Nat BY <1>1 DEF Taken
  <1>3. \A side : Posted(side, k) \in Nat BY <1>1 DEF Posted
  <1> QED BY <1>1, <1>2, <1>3

\* The peer moves and sends nothing.
LEMMA PeerMoves ==
  ASSUME NEW cert, NEW side \in Sides, NEW k, NEW o, NEW w, NEW o1,
         SideInv(cert, side, k, o, w),
         Posted(Peer(side), o1) = Posted(Peer(side), o), o1.tx = o.tx
  PROVE  SideInv(cert, side, k, o1, w)
  BY DEF SideInv, Counts, Flows

\* The peer sends its next message.
LEMMA PeerSends ==
  ASSUME NEW cert, NEW S, NEW side \in Sides, NEW k \in SideStates(S), NEW o \in SideStates(S),
         NEW w \in Seq(S), NEW o1 \in SideStates(S), NEW m, NEW n \in Nat,
         SideInv(cert, side, k, o, w), n = Posted(Peer(side), o),
         m = Message(cert, side, n), Posted(Peer(side), o1) = n + 1, o.tx <= o1.tx
  PROVE  SideInv(cert, side, k, o1, w \o Cells(m))
  <1>1. Shook(side, k) BY DEF SideInv
  <1>2. Counts(k, o1)
    <2>1. k.rx \in Nat /\ o.tx \in Nat /\ o1.tx \in Nat BY DEF SideStates
    <2> QED BY <2>1 DEF SideInv, Counts
  <1>3. ASSUME k.mode \in Reading PROVE Flow(cert, side, n + 1, Taken(k), k.buf, w \o Cells(m))
    <2>1. Flow(cert, side, n, Taken(k), k.buf, w) BY <1>3 DEF SideInv, Flows
    <2>2. Taken(k) \in Nat /\ k.buf \in Seq(S) BY SideFields
    <2> QED BY <2>1, <2>2, FlowSent
  <1> QED BY <1>1, <1>2, <1>3 DEF SideInv, Flows

\* The side gives up.
LEMMA SideFails ==
  ASSUME NEW cert, NEW side \in Sides, NEW k, NEW o, NEW w, NEW k1,
         SideInv(cert, side, k, o, w), k1.mode = "failed",
         k1.tx = k.tx, k1.rx = k.rx, k1.sent = k.sent, k1.got = k.got
  PROVE  SideInv(cert, side, k1, o, w)
  BY DEF SideInv, Shook, Counts, Flows, Reading

\* A cell is delivered to the side.
LEMMA SideGetsCell ==
  ASSUME NEW cert, NEW S, NEW side \in Sides, NEW k \in SideStates(S), NEW o \in SideStates(S),
         NEW w \in Seq(S), w # <<>>, NEW k1, SideInv(cert, side, k, o, w),
         k1.mode = k.mode, k1.stage = k.stage, k1.buf = Append(k.buf, Head(w)),
         k1.tx = k.tx, k1.rx = k.rx, k1.sent = k.sent, k1.got = k.got
  PROVE  SideInv(cert, side, k1, o, Tail(w))
  <1>1. Shook(side, k1) /\ Counts(k1, o) BY DEF SideInv, Shook, Counts
  <1>2. ASSUME k.mode \in Reading
        PROVE  Flow(cert, side, Posted(Peer(side), o), Taken(k1), k1.buf, Tail(w))
    <2>1. PICK n, c : n = Posted(Peer(side), o) /\ c = Taken(k) OBVIOUS
    <2>2. n \in Nat /\ c \in Nat /\ k.buf \in Seq(S) BY <2>1, SideFields
    <2>3. Taken(k1) = c BY <2>1 DEF Taken
    <2>4. Flow(cert, side, n, c, k.buf, w) BY <1>2, <2>1 DEF SideInv, Flows
    <2> QED BY <2>1, <2>2, <2>3, <2>4, FlowDelivered
  <1> QED BY <1>1, <1>2 DEF SideInv, Flows

\* The first message of the buffer of a side that reads.
LEMMA SideReads ==
  ASSUME NEW cert, NEW S, NEW side \in Sides, NEW k \in SideStates(S), NEW o \in SideStates(S),
         NEW w \in Seq(S), SideInv(cert, side, k, o, w), k.mode \in Reading, HasMessage(k.buf)
  PROVE  /\ Taken(k) \in Nat /\ Posted(Peer(side), o) \in Nat
         /\ Taken(k) < Posted(Peer(side), o)
         /\ FirstMessage(k.buf) = Message(cert, side, Taken(k))
         /\ AfterMessage(k.buf) \in Seq(S)
         /\ Flow(cert, side, Posted(Peer(side), o), Taken(k) + 1, AfterMessage(k.buf), w)
  <1>1. PICK n, c : n = Posted(Peer(side), o) /\ c = Taken(k) OBVIOUS
  <1>2. n \in Nat /\ c \in Nat /\ k.buf \in Seq(S) BY <1>1, SideFields
  <1>3. Flow(cert, side, n, c, k.buf, w) BY <1>1 DEF SideInv, Flows
  <1>4. /\ c < n /\ FirstMessage(k.buf) = Message(cert, side, c)
        /\ AfterMessage(k.buf) \in Seq(S) /\ Flow(cert, side, n, c + 1, AfterMessage(k.buf), w)
    BY <1>2, <1>3, FlowTaken
  <1> QED BY <1>1, <1>2, <1>4

\* The side takes the message of the handshake.
LEMMA SideShakes ==
  ASSUME NEW cert, NEW S, NEW side \in Sides, NEW k \in SideStates(S), NEW o \in SideStates(S),
         NEW w \in Seq(S), NEW k1, SideInv(cert, side, k, o, w),
         k.mode = "wait", HasMessage(k.buf),
         k1.stage = 2, k1.mode = "transport" \/ (side = "responder" /\ k1.mode = "replied"),
         k1.buf = AfterMessage(k.buf),
         k1.tx = k.tx, k1.rx = k.rx, k1.sent = k.sent, k1.got = k.got
  PROVE  SideInv(cert, side, k1, o, w)
  <1>1. Shook(side, k1) /\ Counts(k1, o) BY DEF SideInv, Shook, Counts
  <1>2. k.stage = 1 /\ k.rx = 0 BY DEF SideInv, Shook
  <1>3. Taken(k) = 0 /\ Taken(k1) = 0 + 1 BY <1>2 DEF Taken
  <1>4. Flow(cert, side, Posted(Peer(side), o), 0 + 1, AfterMessage(k.buf), w)
    BY <1>3, SideReads DEF Reading, NoiseModes
  <1> QED BY <1>1, <1>3, <1>4 DEF SideInv, Flows

\* The side takes the next frame, which it can open.
LEMMA SideTakes ==
  ASSUME NEW cert, NEW S, NEW side \in Sides, NEW k \in SideStates(S), NEW o \in SideStates(S),
         NEW w \in Seq(S), SideInv(cert, side, k, o, w), k.mode = "transport", HasMessage(k.buf)
  PROVE  /\ FirstMessage(k.buf)
             = [kind |-> "data", from |-> Peer(side), nonce |-> k.rx, frame |-> k.rx + 1]
         /\ \A k1 :
              /\ k1.stage = k.stage /\ k1.mode = k.mode /\ k1.tx = k.tx /\ k1.sent = k.sent
              /\ k1.buf = AfterMessage(k.buf)
              /\ k1.rx = k.rx + 1 /\ k1.got = Append(k.got, k.rx + 1)
              => SideInv(cert, side, k1, o, w)
  <1>1. /\ k.rx \in Nat /\ k.tx \in Nat /\ o.tx \in Nat /\ k.got \in Seq(Nat)
        /\ k.stage \in Nat /\ o.stage \in Nat
    BY DEF SideStates
  <1>2. k.stage >= 2 BY DEF SideInv, Shook
  <1>3. Taken(k) = k.rx + 1 BY <1>2 DEF Taken
  <1>4. /\ k.rx + 1 < Posted(Peer(side), o)
        /\ FirstMessage(k.buf) = Message(cert, side, k.rx + 1)
        /\ Flow(cert, side, Posted(Peer(side), o), k.rx + 1 + 1, AfterMessage(k.buf), w)
    BY <1>3, SideReads DEF Reading, NoiseModes
  <1>5. k.rx + 1 <= o.tx BY <1>1, <1>4 DEF Posted
  <1>6. FirstMessage(k.buf)
          = [kind |-> "data", from |-> Peer(side), nonce |-> k.rx, frame |-> k.rx + 1]
    <2>1. PICK n : n = k.rx + 1 OBVIOUS
    <2>2. n > 0 /\ n - 1 = k.rx BY <1>1, <2>1
    <2>3. FirstMessage(k.buf) = Message(cert, side, n) BY <1>4, <2>1
    <2> QED BY <2>1, <2>2, <2>3 DEF Message
  <1>7. ASSUME NEW k1, k1.stage = k.stage, k1.mode = k.mode, k1.tx = k.tx, k1.sent = k.sent,
               k1.buf = AfterMessage(k.buf), k1.rx = k.rx + 1, k1.got = Append(k.got, k.rx + 1)
        PROVE  SideInv(cert, side, k1, o, w)
    <2>1. Shook(side, k1) BY <1>7 DEF SideInv, Shook
    <2>2. CountUp(k1.got, k.rx + 1)
      <3>1. PICK n \in Nat : n = k.rx BY <1>1
      <3>2. Len(k.got) = n /\ \A i \in 1 .. n : k.got[i] = i BY <3>1 DEF SideInv, Counts, CountUp
      <3>3. n + 1 \in Nat OBVIOUS
      <3>4. /\ Len(Append(k.got, n + 1)) = n + 1
            /\ \A i \in 1 .. n : Append(k.got, n + 1)[i] = k.got[i]
            /\ Append(k.got, n + 1)[n + 1] = n + 1
        BY <1>1, <3>2, <3>3, SeqAppend
      <3>5. k1.got = Append(k.got, n + 1) BY <1>7, <3>1
      <3> QED BY <3>1, <3>2, <3>4, <3>5 DEF CountUp
    <2>3. Counts(k1, o) BY <1>5, <1>7, <2>2 DEF SideInv, Counts
    <2>4. Taken(k1) = k.rx + 1 + 1 BY <1>2, <1>7 DEF Taken
    <2> QED BY <1>4, <1>7, <2>1, <2>3, <2>4 DEF SideInv, Flows
  <1> QED BY <1>6, <1>7

\* The side moves on in the handshake, and takes nothing.
LEMMA SideMoves ==
  ASSUME NEW cert, NEW side \in Sides, NEW k, NEW o, NEW w, NEW k1,
         SideInv(cert, side, k, o, w), k.mode \in Reading, Shook(side, k1),
         Taken(k1) = Taken(k), k1.buf = k.buf,
         k1.tx = k.tx, k1.rx = k.rx, k1.sent = k.sent, k1.got = k.got
  PROVE  SideInv(cert, side, k1, o, w)
  BY DEF SideInv, Counts, Flows

\* The side sends a frame.
LEMMA SideSends ==
  ASSUME NEW cert, NEW S, NEW side \in Sides, NEW k \in SideStates(S), NEW o, NEW w, NEW k1,
         SideInv(cert, side, k, o, w), k.mode = "transport",
         k1.stage = k.stage, k1.mode = k.mode, k1.buf = k.buf, k1.rx = k.rx, k1.got = k.got,
         k1.tx = k.tx + 1, k1.sent = Append(k.sent, k.tx + 1)
  PROVE  SideInv(cert, side, k1, o, w)
  <1>1. PICK n \in Nat : n = k.tx BY SideFields
  <1>2. Len(k.sent) = n /\ \A i \in 1 .. n : k.sent[i] = i BY <1>1 DEF SideInv, Counts, CountUp
  <1>3. CountUp(k1.sent, k1.tx)
    <2>1. n + 1 \in Nat /\ k.sent \in Seq(Nat) BY SideFields
    <2>2. /\ Len(Append(k.sent, n + 1)) = n + 1
          /\ \A i \in 1 .. n : Append(k.sent, n + 1)[i] = k.sent[i]
          /\ Append(k.sent, n + 1)[n + 1] = n + 1
      BY <1>2, <2>1, SeqAppend
    <2>3. k1.sent = Append(k.sent, n + 1) /\ k1.tx = n + 1 BY <1>1
    <2> QED BY <1>2, <2>2, <2>3 DEF CountUp
  <1>4. Shook(side, k1) BY DEF SideInv, Shook
  <1>5. Taken(k1) = Taken(k) BY DEF Taken
  <1> QED BY <1>3, <1>4, <1>5 DEF SideInv, Counts, Flows

-----------------------------------------------------------------------------
(* The steps of the connection.                                            *)

LEMMA SidesArePeers ==
  \A side \in Sides : Peer(side) \in Sides /\ Peer(side) # side /\ Peer(Peer(side)) = side
                        /\ \A other \in Sides : other = side \/ other = Peer(side)
  BY DEF Sides, Peer

\* A step of one side.
LEMMA StepOf ==
  ASSUME NoiseInv, NEW side \in Sides,
         noise' \in [Sides -> SideStates(NoiseCells(noiseCert))],
         noiseWire' \in [Sides -> Seq(NoiseCells(noiseCert))],
         UNCHANGED <<noiseClock, noiseCert>>, PeerIsCertified',
         noise'[Peer(side)] = noise[Peer(side)],
         SideInv(noiseCert, side, noise'[side], noise[Peer(side)], noiseWire'[side]),
         SideInv(noiseCert, Peer(side), noise[Peer(side)], noise'[side], noiseWire'[Peer(side)])
  PROVE  NoiseInv'
  <1>1. NoiseTypes' BY DEF NoiseInv, NoiseTypes
  <1>2. ASSUME NEW other \in Sides
        PROVE  SideInv(noiseCert, other, noise'[other], noise'[Peer(other)], noiseWire'[other])
    <2>1. CASE other = side BY <2>1
    <2>2. CASE other = Peer(side)
      <3>1. Peer(other) = side BY <2>2, SidesArePeers
      <3> QED BY <2>2, <3>1
    <2> QED BY <2>1, <2>2, SidesArePeers
  <1> QED BY <1>1, <1>2 DEF NoiseInv

\* What a step may assume of the side that takes it.
LEMMA SidesNow ==
  ASSUME NoiseInv, NEW side \in Sides
  PROVE  /\ noise[side] \in SideStates(NoiseCells(noiseCert))
         /\ noise[Peer(side)] \in SideStates(NoiseCells(noiseCert))
         /\ noiseWire[side] \in Seq(NoiseCells(noiseCert))
         /\ noiseWire[Peer(side)] \in Seq(NoiseCells(noiseCert))
         /\ SideInv(noiseCert, side, noise[side], noise[Peer(side)], noiseWire[side])
         /\ SideInv(noiseCert, Peer(side), noise[Peer(side)], noise[side], noiseWire[Peer(side)])
  <1>1. Peer(side) \in Sides /\ Peer(Peer(side)) = side BY SidesArePeers
  <1>2. SideInv(noiseCert, side, noise[side], noise[Peer(side)], noiseWire[side]) BY DEF NoiseInv
  <1>3. SideInv(noiseCert, Peer(side), noise[Peer(side)], noise[Peer(Peer(side))],
                noiseWire[Peer(side)])
    BY <1>1 DEF NoiseInv
  <1> QED BY <1>1, <1>2, <1>3 DEF NoiseInv, NoiseTypes

\* A certified peer stays one.
LEMMA StillCertified ==
  ASSUME NoiseInv, UNCHANGED <<noiseClock, noiseCert>>,
         noise["initiator"].mode # "transport" => noise["initiator"].mode' # "transport",
         noise["responder"].stage >= 2 => noise["responder"].stage' >= 2
  PROVE  PeerIsCertified'
  BY DEF NoiseInv, PeerIsCertified

LEMMA NoiseStarts == NoiseInit => NoiseInv
  <1> SUFFICES ASSUME NoiseInit PROVE NoiseInv OBVIOUS
  <1>1. MaxTime \in Nat /\ UnixWrap \in Nat \ {0} BY BoundAssumption, UnixAssumption
  <1>2. \E h, k, a : h.valid_from \in Nat /\ noiseCert = Certificate(SignedPart(h, k, a))
    <2>1. PICK now \in 0 .. MaxTime :
            \E duration, key, authority :
              noiseCert = Certificate(SignedPart(SignedPartHeader(now, duration), key, authority))
      BY Zenon DEF NoiseInit
    <2>2. now % UnixWrap \in Nat BY <1>1
    <2>3. \A duration : SignedPartHeader(now, duration).valid_from \in Nat
      BY <2>2 DEF SignedPartHeader, UnixTime
    <2> QED BY <2>1, <2>3
  <1>3. NoiseTypes
    <2>1. <<>> \in Seq(NoiseCells(noiseCert)) /\ <<>> \in Seq(Nat) BY SeqEmpty
    <2>2. noise \in [Sides -> SideStates(NoiseCells(noiseCert))]
      <3>1. noise = [side \in Sides |-> [stage |-> 0, mode |-> "start", buf |-> <<>>,
                                         tx |-> 0, rx |-> 0, sent |-> <<>>, got |-> <<>>]]
        BY Zenon DEF NoiseInit
      <3> QED BY <2>1, <3>1 DEF SideStates, NoiseModes
    <2>3. noiseWire \in [Sides -> Seq(NoiseCells(noiseCert))] BY <2>1, Zenon DEF NoiseInit
    <2>4. noiseClock \in Nat
      <3>1. noiseClock \in 0 .. MaxTime BY Zenon DEF NoiseInit
      <3> QED BY <1>1, <3>1
    <2> QED BY <1>2, <2>2, <2>3, <2>4 DEF NoiseTypes
  <1>4. ASSUME NEW side \in Sides
        PROVE  SideInv(noiseCert, side, noise[side], noise[Peer(side)], noiseWire[side])
    <2>1. PICK k, o : k = noise[side] /\ o = noise[Peer(side)] OBVIOUS
    <2>2. /\ k.stage = 0 /\ k.mode = "start" /\ k.buf = <<>> /\ k.tx = 0 /\ k.rx = 0
          /\ k.sent = <<>> /\ k.got = <<>> /\ o.stage = 0 /\ o.tx = 0
      BY <2>1, SidesArePeers, Zenon DEF NoiseInit
    <2>3. noiseWire[side] = <<>> BY Zenon DEF NoiseInit
    <2>4. Posted(Peer(side), o) = 0 /\ Taken(k) = 0 BY <2>2 DEF Posted, Taken
    <2>5. Flow(noiseCert, side, 0, 0, <<>>, <<>>) BY DEF Flow
    <2>6. Shook(side, k) BY <2>2 DEF Shook
    <2>7. Counts(k, o) BY <2>2 DEF Counts, CountUp
    <2> QED BY <2>1, <2>2, <2>3, <2>4, <2>5, <2>6, <2>7 DEF SideInv, Flows
  <1>5. PeerIsCertified BY Zenon DEF NoiseInit, PeerIsCertified, Sides
  <1> QED BY <1>3, <1>4, <1>5 DEF NoiseInv

LEMMA GivesUp ==
  ASSUME NoiseInv, NEW side \in Sides, GiveUp(side, "failed"),
         UNCHANGED <<noiseWire, noiseClock, noiseCert>>
  PROVE  NoiseInv'
  <1>1. PICK k, o, k1, S : /\ k = noise[side] /\ o = noise[Peer(side)]
                           /\ k1 = noise'[side] /\ S = NoiseCells(noiseCert)
    OBVIOUS
  <1>2. /\ k \in SideStates(S) /\ SideInv(noiseCert, side, k, o, noiseWire[side])
        /\ SideInv(noiseCert, Peer(side), o, k, noiseWire[Peer(side)])
    BY <1>1, SidesNow
  <1>3. noise \in [Sides -> SideStates(S)] /\ noiseWire \in [Sides -> Seq(S)]
    BY <1>1 DEF NoiseInv, NoiseTypes
  <1>4. noise' \in [Sides -> SideStates(S)]
    <2>1. <<>> \in Seq(S) BY SeqEmpty
    <2> QED BY <1>3, <2>1, ZenonT(40) DEF GiveUp, SideStates, NoiseModes
  <1>5. /\ k1.mode = "failed" /\ k1.stage = k.stage /\ k1.tx = k.tx /\ k1.rx = k.rx
        /\ k1.sent = k.sent /\ k1.got = k.got
    BY <1>1, <1>3 DEF GiveUp, SideStates
  <1>6. noise'[Peer(side)] = o BY <1>1, <1>3, SidesArePeers DEF GiveUp
  <1>7. SideInv(noiseCert, side, k1, o, noiseWire[side]) BY <1>2, <1>5, SideFails
  <1>8. SideInv(noiseCert, Peer(side), o, k1, noiseWire[Peer(side)])
    <2>1. Peer(side) \in Sides /\ Peer(Peer(side)) = side BY SidesArePeers
    <2>2. Posted(side, k1) = Posted(side, k) BY <1>5 DEF Posted
    <2> QED BY <1>2, <1>5, <2>1, <2>2, PeerMoves
  <1>9. PeerIsCertified'
    <2>1. \A s \in Sides : noise'[s].stage = noise[s].stage
                            /\ (noise'[s].mode = noise[s].mode \/ noise'[s].mode = "failed")
      BY <1>1, <1>5, <1>6, SidesArePeers
    <2>2. "initiator" \in Sides /\ "responder" \in Sides BY DEF Sides
    <2> QED BY <2>1, <2>2, StillCertified
  <1> QED BY <1>1, <1>3, <1>4, <1>6, <1>7, <1>8, <1>9, StepOf

LEMMA Delivers ==
  ASSUME NoiseInv, NEW side \in Sides, DeliverCell(side)
  PROVE  NoiseInv'
  <1>1. PICK k, o, k1, S, w : /\ k = noise[side] /\ o = noise[Peer(side)]
                              /\ k1 = noise'[side] /\ S = NoiseCells(noiseCert)
                              /\ w = noiseWire[side]
    OBVIOUS
  <1>2. /\ k \in SideStates(S) /\ o \in SideStates(S) /\ w \in Seq(S)
        /\ SideInv(noiseCert, side, k, o, w)
        /\ SideInv(noiseCert, Peer(side), o, k, noiseWire[Peer(side)])
    BY <1>1, SidesNow
  <1>3. noise \in [Sides -> SideStates(S)] /\ noiseWire \in [Sides -> Seq(S)]
    BY <1>1 DEF NoiseInv, NoiseTypes
  <1>4. /\ w # <<>> /\ noise' = [noise EXCEPT ![side].buf = Append(@, Head(w))]
        /\ noiseWire' = [noiseWire EXCEPT ![side] = Tail(w)]
    BY <1>1 DEF DeliverCell
  <1>5. Head(w) \in S /\ Tail(w) \in Seq(S) BY <1>2, <1>4, SeqTail
  <1>6. Append(k.buf, Head(w)) \in Seq(S) BY <1>2, <1>5, SideFields, SeqAppend
  <1>7. noise' \in [Sides -> SideStates(S)] BY <1>1, <1>3, <1>4, <1>6, ZenonT(40) DEF SideStates
  <1>8. noiseWire' \in [Sides -> Seq(S)] BY <1>3, <1>4, <1>5
  <1>9. /\ k1.buf = Append(k.buf, Head(w)) /\ k1.mode = k.mode /\ k1.stage = k.stage
        /\ k1.tx = k.tx /\ k1.rx = k.rx /\ k1.sent = k.sent /\ k1.got = k.got
    BY <1>1, <1>3, <1>4 DEF SideStates
  <1>10. /\ noise'[Peer(side)] = o /\ noiseWire'[side] = Tail(w)
         /\ noiseWire'[Peer(side)] = noiseWire[Peer(side)]
    BY <1>1, <1>3, <1>4, SidesArePeers
  <1>11. SideInv(noiseCert, side, k1, o, Tail(w)) BY <1>2, <1>4, <1>9, SideGetsCell
  <1>12. SideInv(noiseCert, Peer(side), o, k1, noiseWire[Peer(side)])
    <2>1. Peer(side) \in Sides /\ Peer(Peer(side)) = side BY SidesArePeers
    <2>2. Posted(side, k1) = Posted(side, k) BY <1>9 DEF Posted
    <2> QED BY <1>2, <1>9, <2>1, <2>2, PeerMoves
  <1>13. UNCHANGED <<noiseClock, noiseCert>> BY DEF DeliverCell
  <1>14. PeerIsCertified'
    <2>1. \A s \in Sides : noise'[s].stage = noise[s].stage /\ noise'[s].mode = noise[s].mode
      BY <1>1, <1>9, <1>10, SidesArePeers
    <2>2. "initiator" \in Sides /\ "responder" \in Sides BY DEF Sides
    <2> QED BY <1>13, <2>1, <2>2, StillCertified
  <1> QED BY <1>1, <1>7, <1>8, <1>10, <1>11, <1>12, <1>13, <1>14, StepOf, Zenon

\* A side moves on without sending: the steps of its own that remain.
LEMMA MovesOn ==
  ASSUME NoiseInv, NEW side \in Sides, NEW k1,
         k1 \in SideStates(NoiseCells(noiseCert)), noise' = [noise EXCEPT ![side] = k1],
         UNCHANGED <<noiseWire, noiseClock, noiseCert>>, PeerIsCertified',
         Posted(side, k1) = Posted(side, noise[side]), k1.tx = noise[side].tx,
         SideInv(noiseCert, side, k1, noise[Peer(side)], noiseWire[side])
  PROVE  NoiseInv'
  <1>1. PICK k, o, S : k = noise[side] /\ o = noise[Peer(side)] /\ S = NoiseCells(noiseCert)
    OBVIOUS
  <1>2. noise \in [Sides -> SideStates(S)] /\ noiseWire \in [Sides -> Seq(S)]
    BY <1>1 DEF NoiseInv, NoiseTypes
  <1>3. noise' \in [Sides -> SideStates(S)] BY <1>1, <1>2
  <1>4. noise'[side] = k1 /\ noise'[Peer(side)] = o BY <1>1, <1>2, SidesArePeers
  <1>5. SideInv(noiseCert, Peer(side), o, k1, noiseWire[Peer(side)])
    <2>1. Peer(side) \in Sides /\ Peer(Peer(side)) = side BY SidesArePeers
    <2>2. SideInv(noiseCert, Peer(side), o, k, noiseWire[Peer(side)]) BY <1>1, SidesNow
    <2> QED BY <1>1, <2>1, <2>2, PeerMoves
  <1> QED BY <1>1, <1>2, <1>3, <1>4, <1>5, StepOf

\* A side sends its next message.
LEMMA SendsOn ==
  ASSUME NoiseInv, NEW side \in Sides, NEW k1, NEW m, NEW n \in Nat,
         k1 \in SideStates(NoiseCells(noiseCert)), noise' = [noise EXCEPT ![side] = k1],
         Send(side, m), UNCHANGED <<noiseClock, noiseCert>>, PeerIsCertified',
         m \in NoiseMessages(noiseCert), m = Message(noiseCert, Peer(side), n),
         n = Posted(side, noise[side]), Posted(side, k1) = n + 1, noise[side].tx <= k1.tx,
         SideInv(noiseCert, side, k1, noise[Peer(side)], noiseWire[side])
  PROVE  NoiseInv'
  <1>1. PICK k, o, S, w : /\ k = noise[side] /\ o = noise[Peer(side)]
                          /\ S = NoiseCells(noiseCert) /\ w = noiseWire[Peer(side)]
    OBVIOUS
  <1>2. noise \in [Sides -> SideStates(S)] /\ noiseWire \in [Sides -> Seq(S)]
    BY <1>1 DEF NoiseInv, NoiseTypes
  <1>3. noise' \in [Sides -> SideStates(S)] BY <1>1, <1>2
  <1>4. noise'[side] = k1 /\ noise'[Peer(side)] = o BY <1>1, <1>2, SidesArePeers
  <1>5. /\ k \in SideStates(S) /\ o \in SideStates(S) /\ w \in Seq(S)
        /\ SideInv(noiseCert, Peer(side), o, k, w)
    BY <1>1, SidesNow
  <1>6. Cells(m) \in Seq(S)
    <2>1. [of |-> m, half |-> 1] \in S /\ [of |-> m, half |-> 2] \in S BY <1>1 DEF NoiseCells
    <2> QED BY <2>1 DEF Cells
  <1>7. w \o Cells(m) \in Seq(S) BY <1>5, <1>6, SeqConcat
  <1>8. noiseWire' = [noiseWire EXCEPT ![Peer(side)] = w \o Cells(m)] BY <1>1 DEF Send
  <1>9. /\ noiseWire' \in [Sides -> Seq(S)] /\ noiseWire'[side] = noiseWire[side]
        /\ noiseWire'[Peer(side)] = w \o Cells(m)
    BY <1>2, <1>7, <1>8, SidesArePeers
  <1>10. SideInv(noiseCert, Peer(side), o, k1, w \o Cells(m))
    <2>1. Peer(side) \in Sides /\ Peer(Peer(side)) = side BY SidesArePeers
    <2> QED BY <1>1, <1>5, <2>1, PeerSends
  <1> QED BY <1>1, <1>3, <1>4, <1>9, <1>10, StepOf, Zenon

LEMMA SaysHello == ASSUME NoiseInv, InitiatorHello PROVE NoiseInv'
  <1>1. PICK side, k, S : side = "initiator" /\ k = noise[side] /\ S = NoiseCells(noiseCert)
    OBVIOUS
  <1>2. PICK k1 : k1 = [k EXCEPT !.stage = 1, !.mode = "wait"] OBVIOUS
  <1>3. side \in Sides /\ Peer(side) = "responder" BY <1>1 DEF Sides, Peer
  <1>4. /\ k \in SideStates(S) /\ k.mode = "start"
        /\ SideInv(noiseCert, side, k, noise[Peer(side)], noiseWire[side])
    BY <1>1, <1>3, SidesNow DEF InitiatorHello
  <1>5. k.stage = 0 /\ k.tx = 0 /\ k.rx = 0 BY <1>4 DEF SideInv, Shook
  <1>6. k1 \in SideStates(S)
    <2>1. 1 \in 0 .. 3 /\ "wait" \in NoiseModes BY DEF NoiseModes
    <2> QED BY <1>2, <1>4, <2>1, Zenon DEF SideStates
  <1>7. /\ k1.stage = 1 /\ k1.mode = "wait" /\ k1.buf = k.buf /\ k1.tx = k.tx /\ k1.rx = k.rx
        /\ k1.sent = k.sent /\ k1.got = k.got
    BY <1>2, <1>4 DEF SideStates
  <1>8. noise \in [Sides -> SideStates(S)] BY <1>1 DEF NoiseInv, NoiseTypes
  <1>9. noise' = [noise EXCEPT ![side] = k1] BY <1>1, <1>2, <1>3, <1>8, Zenon DEF InitiatorHello
  <1>10. SideInv(noiseCert, side, k1, noise[Peer(side)], noiseWire[side])
    <2>1. Shook(side, k1) BY <1>5, <1>7 DEF Shook
    <2>2. Taken(k1) = Taken(k) BY <1>5, <1>7 DEF Taken
    <2> QED BY <1>3, <1>4, <1>7, <2>1, <2>2, SideMoves DEF Reading, NoiseModes
  <1>11. Posted(side, k) = 0 /\ Posted(side, k1) = 0 + 1 BY <1>1, <1>5, <1>7 DEF Posted
  <1>12. Hello = Message(noiseCert, Peer(side), 0) /\ Hello \in NoiseMessages(noiseCert)
    BY <1>3 DEF Message, NoiseMessages
  <1>13. PeerIsCertified'
    <2>1. noise'["initiator"].mode = "wait" /\ noise'["responder"] = noise["responder"]
      BY <1>1, <1>3, <1>7, <1>8, <1>9 DEF Sides
    <2> QED BY <2>1 DEF PeerIsCertified
  <1>14. Send(side, Hello) /\ UNCHANGED <<noiseClock, noiseCert>> BY <1>1 DEF InitiatorHello
  <1>15. k.tx <= k1.tx BY <1>5, <1>7
  <1>16. PICK n \in Nat : n = 0 OBVIOUS
  <1>17. /\ n = Posted(side, noise[side]) /\ Posted(side, k1) = n + 1
         /\ Hello = Message(noiseCert, Peer(side), n) /\ noise[side].tx <= k1.tx
    BY <1>1, <1>11, <1>12, <1>15, <1>16
  <1>18. k1 \in SideStates(NoiseCells(noiseCert)) /\ Hello \in NoiseMessages(noiseCert)
    BY <1>1, <1>6, <1>12
  <1> QED BY <1>3, <1>9, <1>10, <1>13, <1>14, <1>17, <1>18, SendsOn, Zenon

LEMMA WaitsForHello == ASSUME NoiseInv, ResponderReceive PROVE NoiseInv'
  <1>1. PICK side, k, S : side = "responder" /\ k = noise[side] /\ S = NoiseCells(noiseCert)
    OBVIOUS
  <1>2. PICK k1 : k1 = [k EXCEPT !.stage = 1, !.mode = "wait"] OBVIOUS
  <1>3. side \in Sides BY <1>1 DEF Sides
  <1>4. /\ k \in SideStates(S) /\ k.mode = "start"
        /\ SideInv(noiseCert, side, k, noise[Peer(side)], noiseWire[side])
    BY <1>1, <1>3, SidesNow DEF ResponderReceive
  <1>5. k.stage = 0 /\ k.tx = 0 /\ k.rx = 0 BY <1>4 DEF SideInv, Shook
  <1>6. k1 \in SideStates(S)
    <2>1. 1 \in 0 .. 3 /\ "wait" \in NoiseModes BY DEF NoiseModes
    <2> QED BY <1>2, <1>4, <2>1, Zenon DEF SideStates
  <1>7. /\ k1.stage = 1 /\ k1.mode = "wait" /\ k1.buf = k.buf /\ k1.tx = k.tx /\ k1.rx = k.rx
        /\ k1.sent = k.sent /\ k1.got = k.got
    BY <1>2, <1>4 DEF SideStates
  <1>8. noise \in [Sides -> SideStates(S)] BY <1>1 DEF NoiseInv, NoiseTypes
  <1>9. noise' = [noise EXCEPT ![side] = k1] BY <1>1, <1>2, <1>3, <1>8, Zenon DEF ResponderReceive
  <1>10. SideInv(noiseCert, side, k1, noise[Peer(side)], noiseWire[side])
    <2>1. Shook(side, k1) BY <1>5, <1>7 DEF Shook
    <2>2. Taken(k1) = Taken(k) BY <1>5, <1>7 DEF Taken
    <2> QED BY <1>3, <1>4, <1>7, <2>1, <2>2, SideMoves DEF Reading, NoiseModes
  <1>11. Posted(side, k1) = Posted(side, noise[side]) /\ k1.tx = noise[side].tx
    BY <1>1, <1>5, <1>7 DEF Posted
  <1>12. UNCHANGED <<noiseWire, noiseClock, noiseCert>> BY DEF ResponderReceive
  <1>13. PeerIsCertified'
    <2>1. noise'["initiator"] = noise["initiator"] /\ noise["responder"].stage = 0
      BY <1>1, <1>5, <1>8, <1>9 DEF Sides
    <2> QED BY <1>12, <2>1, StillCertified
  <1>14. k1 \in SideStates(NoiseCells(noiseCert)) BY <1>1, <1>6
  <1> QED BY <1>3, <1>9, <1>10, <1>11, <1>12, <1>13, <1>14, MovesOn, Zenon

LEMMA Settles == ASSUME NoiseInv, ResponderDone PROVE NoiseInv'
  <1>1. PICK side, k, S : side = "responder" /\ k = noise[side] /\ S = NoiseCells(noiseCert)
    OBVIOUS
  <1>2. PICK k1 : k1 = IntoFramed(k, k.buf) OBVIOUS
  <1>3. side \in Sides BY <1>1 DEF Sides
  <1>4. /\ k \in SideStates(S) /\ k.mode = "replied"
        /\ SideInv(noiseCert, side, k, noise[Peer(side)], noiseWire[side])
    BY <1>1, <1>3, SidesNow DEF ResponderDone
  <1>5. k.stage = 2 /\ k.tx = 0 /\ k.rx = 0 BY <1>4 DEF SideInv, Shook
  <1>6. /\ k1.stage = 3 /\ k1.mode = "transport" /\ k1.buf = k.buf /\ k1.tx = k.tx
        /\ k1.rx = k.rx /\ k1.sent = k.sent /\ k1.got = k.got
    BY <1>2, <1>4, <1>5 DEF IntoFramed, SideStates
  <1>7. k1 \in SideStates(S)
    <2>1. k.stage + 1 \in 0 .. 3 /\ "transport" \in NoiseModes BY <1>5 DEF NoiseModes
    <2> QED BY <1>2, <1>4, <2>1, Zenon DEF IntoFramed, SideStates
  <1>8. noise \in [Sides -> SideStates(S)] BY <1>1 DEF NoiseInv, NoiseTypes
  <1>9. noise' = [noise EXCEPT ![side] = k1] BY <1>1, <1>2, <1>3, <1>8 DEF ResponderDone
  <1>10. SideInv(noiseCert, side, k1, noise[Peer(side)], noiseWire[side])
    <2>1. Shook(side, k1) BY <1>6 DEF Shook
    <2>2. Taken(k1) = Taken(k) BY <1>5, <1>6 DEF Taken
    <2> QED BY <1>3, <1>4, <1>6, <2>1, <2>2, SideMoves DEF Reading, NoiseModes
  <1>11. Posted(side, k1) = Posted(side, noise[side]) /\ k1.tx = noise[side].tx
    BY <1>1, <1>5, <1>6 DEF Posted
  <1>12. UNCHANGED <<noiseWire, noiseClock, noiseCert>> BY DEF ResponderDone
  <1>13. PeerIsCertified'
    <2>1. noise'["initiator"] = noise["initiator"] /\ noise'["responder"].stage = 3
      BY <1>1, <1>6, <1>8, <1>9 DEF Sides
    <2> QED BY <1>12, <2>1, StillCertified
  <1>14. k1 \in SideStates(NoiseCells(noiseCert)) BY <1>1, <1>7
  <1> QED BY <1>3, <1>9, <1>10, <1>11, <1>12, <1>13, <1>14, MovesOn, Zenon

LEMMA RepliesToHello == ASSUME NoiseInv, ResponderReply PROVE NoiseInv'
  <1>1. PICK side, k, S : side = "responder" /\ k = noise[side] /\ S = NoiseCells(noiseCert)
    OBVIOUS
  <1>2. side \in Sides /\ Peer(side) = "initiator" BY <1>1 DEF Sides, Peer
  <1>3. /\ k \in SideStates(S) /\ noise[Peer(side)] \in SideStates(S) /\ noiseWire[side] \in Seq(S)
        /\ SideInv(noiseCert, side, k, noise[Peer(side)], noiseWire[side])
    BY <1>1, <1>2, SidesNow
  <1>4. k.mode = "wait" /\ HasMessage(k.buf) BY <1>1 DEF ResponderReply
  <1>5. UNCHANGED <<noiseClock, noiseCert>> BY DEF ResponderReply
  <1>6. CASE FirstMessage(k.buf) # Hello
    <2>1. GiveUp(side, "failed") /\ UNCHANGED noiseWire BY <1>1, <1>6 DEF ResponderReply
    <2> QED BY <1>2, <1>5, <2>1, GivesUp
  <1>7. CASE FirstMessage(k.buf) = Hello
    <2>1. PICK k1 : k1 = [k EXCEPT !.stage = 2, !.mode = "replied", !.buf = AfterMessage(@)] OBVIOUS
    <2>2. k.stage = 1 /\ k.tx = 0 /\ k.rx = 0 BY <1>3, <1>4 DEF SideInv, Shook
    <2>3. AfterMessage(k.buf) \in Seq(S)
      BY <1>2, <1>3, <1>4, SideReads DEF Reading, NoiseModes
    <2>4. k1 \in SideStates(S)
      <3>1. 2 \in 0 .. 3 /\ "replied" \in NoiseModes BY DEF NoiseModes
      <3> QED BY <1>3, <2>1, <2>3, <3>1, Zenon DEF SideStates
    <2>5. /\ k1.stage = 2 /\ k1.mode = "replied" /\ k1.buf = AfterMessage(k.buf) /\ k1.tx = k.tx
          /\ k1.rx = k.rx /\ k1.sent = k.sent /\ k1.got = k.got
      BY <1>3, <2>1 DEF SideStates
    <2>6. noise \in [Sides -> SideStates(S)] BY <1>1 DEF NoiseInv, NoiseTypes
    <2>7. /\ noise' = [noise EXCEPT ![side].stage = 2, ![side].mode = "replied",
                                    ![side].buf = AfterMessage(@)]
          /\ Send(side, Reply(noiseCert))
      BY <1>1, <1>7 DEF ResponderReply
    <2>8. noise' = [noise EXCEPT ![side] = k1] BY <1>1, <1>2, <2>1, <2>6, <2>7, Zenon
    <2>9. SideInv(noiseCert, side, k1, noise[Peer(side)], noiseWire[side])
      BY <1>1, <1>2, <1>3, <1>4, <2>5, SideShakes
    <2>10. PICK n \in Nat : n = 0 OBVIOUS
    <2>11. /\ n = Posted(side, noise[side]) /\ Posted(side, k1) = n + 1 /\ noise[side].tx <= k1.tx
      BY <1>1, <2>2, <2>5, <2>10 DEF Posted
    <2>12. /\ Reply(noiseCert) = Message(noiseCert, Peer(side), n)
           /\ Reply(noiseCert) \in NoiseMessages(noiseCert)
      BY <1>2, <2>10 DEF Message, NoiseMessages
    <2>13. PeerIsCertified'
      <3>1. noise'["initiator"] = noise["initiator"] /\ noise'["responder"].stage = 2
        BY <1>1, <2>5, <2>6, <2>8 DEF Sides
      <3> QED BY <1>5, <3>1, StillCertified
    <2>14. k1 \in SideStates(NoiseCells(noiseCert)) BY <1>1, <2>4
    <2> QED BY <1>2, <1>5, <2>7, <2>8, <2>9, <2>11, <2>12, <2>13, <2>14, SendsOn, Zenon
  <1> QED BY <1>6, <1>7

LEMMA Remainder ==
  ASSUME NEW n \in Nat, NEW d \in Nat \ {0}
  PROVE  n % d \in Nat /\ n % d <= n
  <1>1. n = d * (n \div d) + (n % d) OBVIOUS
  <1>2. n % d \in 0 .. d - 1 OBVIOUS
  <1>3. n \div d \in Nat OBVIOUS
  <1>4. d * (n \div d) \in Nat BY <1>3
  <1> QED BY <1>1, <1>2, <1>4

\* The certificate decides: what ValidateCertificate accepts in a reply of the
\* responder is a certificate for its key, signed by the authority and begun.
LEMMA ReplyCertifies ==
  ASSUME NoiseTypes,
         ValidateCertificate(Reply(noiseCert).message, Reply(noiseCert).static, noiseClock)
  PROVE  /\ noiseCert.part.authority = Authority /\ noiseCert.part.pubkey = StaticKey
         /\ noiseCert.part.header.valid_from <= noiseClock
  <1>1. PICK h, k, a : h.valid_from \in Nat /\ noiseCert = Certificate(SignedPart(h, k, a))
    BY DEF NoiseTypes
  <1>2. PICK part : part = SignedPart(h, k, a) OBVIOUS
  <1>3. part.header = h /\ part.pubkey = k /\ part.authority = a BY <1>2 DEF SignedPart
  <1>4. noiseCert.part = part /\ noiseCert.signature = [signed |-> part]
    BY <1>1, <1>2 DEF Certificate, Sign
  <1>5. /\ Reply(noiseCert).static = StaticKey /\ Reply(noiseCert).message.header = h
        /\ Reply(noiseCert).message.signature = [signed |-> part]
    BY <1>3, <1>4 DEF Reply, NoiseMessage
  <1>6. [signed |-> part] = [signed |-> SignedPart(h, StaticKey, Authority)]
    BY <1>5 DEF ValidateCertificate, VerifySignature
  <1>7. part = SignedPart(h, StaticKey, Authority)
    <2>1. [signed |-> part].signed = part
          /\ [signed |-> SignedPart(h, StaticKey, Authority)].signed
               = SignedPart(h, StaticKey, Authority)
      OBVIOUS
    <2> QED BY <1>6, <2>1
  <1>8. k = StaticKey /\ a = Authority BY <1>3, <1>7 DEF SignedPart
  <1>9. UnixTime(noiseClock) >= h.valid_from BY <1>5 DEF ValidateCertificate, VerifyExpiration
  <1>10. UnixTime(noiseClock) \in Nat /\ UnixTime(noiseClock) <= noiseClock
    <2>1. noiseClock \in Nat /\ UnixWrap \in Nat \ {0} BY UnixAssumption DEF NoiseTypes
    <2> QED BY <2>1, Remainder DEF UnixTime
  <1>11. h.valid_from <= noiseClock
    <2>1. noiseClock \in Nat BY DEF NoiseTypes
    <2> QED BY <1>1, <1>9, <1>10, <2>1
  <1> QED BY <1>3, <1>4, <1>8, <1>11

LEMMA Finishes == ASSUME NoiseInv, InitiatorFinish PROVE NoiseInv'
  <1>1. PICK side, k, o, S : /\ side = "initiator" /\ k = noise[side] /\ o = noise[Peer(side)]
                             /\ S = NoiseCells(noiseCert)
    OBVIOUS
  <1>2. side \in Sides /\ Peer(side) = "responder" BY <1>1 DEF Sides, Peer
  <1>3. /\ k \in SideStates(S) /\ o \in SideStates(S) /\ noiseWire[side] \in Seq(S)
        /\ SideInv(noiseCert, side, k, o, noiseWire[side])
    BY <1>1, <1>2, SidesNow
  <1>4. k.mode = "wait" /\ HasMessage(k.buf) BY <1>1 DEF InitiatorFinish
  <1>5. UNCHANGED <<noiseWire, noiseClock, noiseCert>> BY DEF InitiatorFinish
  <1>6. k.stage = 1 /\ k.tx = 0 /\ k.rx = 0 BY <1>3, <1>4 DEF SideInv, Shook
  <1>7. Taken(k) = 0 BY <1>6 DEF Taken
  <1>8. /\ 0 < Posted(Peer(side), o) /\ FirstMessage(k.buf) = Message(noiseCert, side, 0)
        /\ AfterMessage(k.buf) \in Seq(S)
    BY <1>2, <1>3, <1>4, <1>7, SideReads DEF Reading, NoiseModes
  <1>9. FirstMessage(k.buf) = Reply(noiseCert) BY <1>1, <1>8 DEF Message
  <1>10. o.stage >= 2 BY <1>2, <1>8 DEF Posted
  <1>11. CASE ~ValidateCertificate(Reply(noiseCert).message, Reply(noiseCert).static, noiseClock)
    <2>1. GiveUp(side, "failed") BY <1>1, <1>9, <1>11 DEF InitiatorFinish
    <2> QED BY <1>2, <1>5, <2>1, GivesUp
  <1>12. CASE ValidateCertificate(Reply(noiseCert).message, Reply(noiseCert).static, noiseClock)
    <2>1. PICK k1 : k1 = IntoFramed(k, AfterMessage(k.buf)) OBVIOUS
    <2>2. /\ k1.stage = 2 /\ k1.mode = "transport" /\ k1.buf = AfterMessage(k.buf)
          /\ k1.tx = k.tx /\ k1.rx = k.rx /\ k1.sent = k.sent /\ k1.got = k.got
      BY <1>3, <1>6, <2>1 DEF IntoFramed, SideStates
    <2>3. k1 \in SideStates(S)
      <3>1. k.stage + 1 \in 0 .. 3 /\ "transport" \in NoiseModes BY <1>6 DEF NoiseModes
      <3> QED BY <1>3, <1>8, <2>1, <3>1, Zenon DEF IntoFramed, SideStates
    <2>4. noise \in [Sides -> SideStates(S)] BY <1>1 DEF NoiseInv, NoiseTypes
    <2>5. Reply(noiseCert).kind = "reply" BY DEF Reply
    <2>6. noise' = [noise EXCEPT ![side] = IntoFramed(@, AfterMessage(@.buf))]
      BY <1>1, <1>9, <1>12, <2>5 DEF InitiatorFinish
    <2>7. noise' = [noise EXCEPT ![side] = k1] BY <1>1, <1>2, <2>1, <2>4, <2>6
    <2>8. SideInv(noiseCert, side, k1, noise[Peer(side)], noiseWire[side])
      <3>1. SideInv(noiseCert, side, k1, o, noiseWire[side])
        BY <1>2, <1>3, <1>4, <2>2, SideShakes
      <3> QED BY <1>1, <3>1
    <2>9. Posted(side, k1) = Posted(side, noise[side]) /\ k1.tx = noise[side].tx
      BY <1>1, <1>6, <2>2 DEF Posted
    <2>10. PeerIsCertified'
      <3>1. noise'["responder"] = o BY <1>1, <1>2, <2>4, <2>7 DEF Sides
      <3>2. NoiseTypes BY DEF NoiseInv
      <3>3. /\ noiseCert.part.authority = Authority /\ noiseCert.part.pubkey = StaticKey
            /\ noiseCert.part.header.valid_from <= noiseClock
        BY <1>12, <3>2, ReplyCertifies
      <3> QED BY <1>5, <1>10, <3>1, <3>3 DEF PeerIsCertified
    <2>11. k1 \in SideStates(NoiseCells(noiseCert)) BY <1>1, <2>3
    <2> QED BY <1>2, <1>5, <2>7, <2>8, <2>9, <2>10, <2>11, MovesOn, Zenon
  <1> QED BY <1>11, <1>12

LEMMA SendsFrame == ASSUME NoiseInv, NEW side \in Sides, SendFrame(side) PROVE NoiseInv'
  <1>1. PICK k, S : k = noise[side] /\ S = NoiseCells(noiseCert) OBVIOUS
  <1>2. /\ k \in SideStates(S) /\ k.mode = "transport"
        /\ SideInv(noiseCert, side, k, noise[Peer(side)], noiseWire[side])
    BY <1>1, SidesNow DEF SendFrame
  <1>3. PICK t \in Nat : t = k.tx BY <1>2, SideFields
  <1>4. Len(k.sent) = t BY <1>2, <1>3 DEF SideInv, Counts, CountUp
  <1>5. k.stage \in Nat /\ k.stage >= 2 /\ k.sent \in Seq(Nat)
    BY <1>2, SideFields DEF SideInv, Shook
  <1>6. PICK k1 : k1 = [k EXCEPT !.tx = t + 1, !.sent = Append(@, t + 1)] OBVIOUS
  <1>7. k1 \in SideStates(S)
    <2>1. t + 1 \in Nat /\ Append(k.sent, t + 1) \in Seq(Nat) BY <1>5, SeqAppend
    <2> QED BY <1>2, <1>6, <2>1, Zenon DEF SideStates
  <1>8. /\ k1.stage = k.stage /\ k1.mode = k.mode /\ k1.buf = k.buf /\ k1.rx = k.rx
        /\ k1.got = k.got /\ k1.tx = k.tx + 1 /\ k1.sent = Append(k.sent, k.tx + 1)
    BY <1>2, <1>3, <1>6 DEF SideStates
  <1>9. noise \in [Sides -> SideStates(S)] BY <1>1 DEF NoiseInv, NoiseTypes
  <1>10. /\ noise' = [noise EXCEPT ![side].tx = @ + 1, ![side].sent = Append(@, t + 1)]
         /\ Send(side, Sealed(side, t + 1)) /\ UNCHANGED <<noiseClock, noiseCert>>
    BY <1>1, <1>4 DEF SendFrame
  <1>11. noise' = [noise EXCEPT ![side] = k1] BY <1>1, <1>3, <1>6, <1>9, <1>10, Zenon
  <1>12. SideInv(noiseCert, side, k1, noise[Peer(side)], noiseWire[side])
    BY <1>2, <1>8, SideSends
  <1>13. PICK n \in Nat : n = t + 1 OBVIOUS
  <1>14. /\ n = Posted(side, noise[side]) /\ Posted(side, k1) = n + 1 /\ noise[side].tx <= k1.tx
    BY <1>1, <1>3, <1>5, <1>8, <1>13 DEF Posted
  <1>15. PICK m : m = [kind |-> "data", from |-> side, nonce |-> t, frame |-> n] BY Zenon
  <1>16. Sealed(side, t + 1) = m BY <1>1, <1>3, <1>13, <1>15 DEF Sealed
  <1>17. m = Message(noiseCert, Peer(side), n)
    <2>1. n > 0 /\ n - 1 = t /\ Peer(Peer(side)) = side BY <1>13, SidesArePeers
    <2> QED BY <1>15, <2>1 DEF Message
  <1>18. m \in NoiseMessages(noiseCert) BY <1>15 DEF NoiseMessages
  <1>19. PeerIsCertified'
    <2>1. \A s \in Sides : noise'[s].stage = noise[s].stage /\ noise'[s].mode = noise[s].mode
      BY <1>1, <1>8, <1>9, <1>11
    <2>2. "initiator" \in Sides /\ "responder" \in Sides BY DEF Sides
    <2> QED BY <1>10, <2>1, <2>2, StillCertified
  <1>20. k1 \in SideStates(NoiseCells(noiseCert)) /\ Send(side, m) BY <1>1, <1>7, <1>10, <1>16
  <1>21. UNCHANGED <<noiseClock, noiseCert>> BY <1>10
  <1> QED BY <1>11, <1>12, <1>14, <1>17, <1>18, <1>19, <1>20, <1>21, SendsOn, Zenon

LEMMA ReceivesFrame == ASSUME NoiseInv, NEW side \in Sides, ReceiveFrame(side) PROVE NoiseInv'
  <1>1. PICK k, o, S : k = noise[side] /\ o = noise[Peer(side)] /\ S = NoiseCells(noiseCert)
    OBVIOUS
  <1>2. /\ k \in SideStates(S) /\ o \in SideStates(S) /\ noiseWire[side] \in Seq(S)
        /\ SideInv(noiseCert, side, k, o, noiseWire[side])
    BY <1>1, SidesNow
  <1>3. k.mode = "transport" /\ HasMessage(k.buf) BY <1>1 DEF ReceiveFrame
  <1>4. PICK m : m = [kind |-> "data", from |-> Peer(side), nonce |-> k.rx, frame |-> k.rx + 1]
    BY Zenon
  <1>5. FirstMessage(k.buf) = m BY <1>2, <1>3, <1>4, SideTakes
  <1>6. Opens(side, m) /\ m.frame = k.rx + 1 BY <1>1, <1>4 DEF Opens
  <1>7. noise' = [noise EXCEPT ![side].rx = @ + 1, ![side].buf = AfterMessage(@),
                               ![side].got = Append(@, m.frame)]
    BY <1>1, <1>5, <1>6 DEF ReceiveFrame
  <1>8. PICK r \in Nat : r = k.rx BY <1>2, SideFields
  <1>9. PICK k1 : k1 = [k EXCEPT !.rx = r + 1, !.buf = AfterMessage(@), !.got = Append(@, r + 1)]
    OBVIOUS
  <1>10. AfterMessage(k.buf) \in Seq(S)
    BY <1>2, <1>3, SideReads DEF Reading, NoiseModes
  <1>11. k1 \in SideStates(S)
    <2>1. r + 1 \in Nat /\ k.got \in Seq(Nat) BY <1>2, SideFields
    <2>2. Append(k.got, r + 1) \in Seq(Nat) BY <2>1, SeqAppend
    <2> QED BY <1>2, <1>9, <1>10, <2>1, <2>2, Zenon DEF SideStates
  <1>12. /\ k1.stage = k.stage /\ k1.mode = k.mode /\ k1.tx = k.tx /\ k1.sent = k.sent
         /\ k1.buf = AfterMessage(k.buf)
         /\ k1.rx = k.rx + 1 /\ k1.got = Append(k.got, k.rx + 1)
    BY <1>2, <1>8, <1>9 DEF SideStates
  <1>13. noise \in [Sides -> SideStates(S)] BY <1>1 DEF NoiseInv, NoiseTypes
  <1>14. noise' = [noise EXCEPT ![side] = k1] BY <1>1, <1>6, <1>7, <1>8, <1>9, <1>13, Zenon
  <1>15. SideInv(noiseCert, side, k1, noise[Peer(side)], noiseWire[side])
    <2>1. SideInv(noiseCert, side, k1, o, noiseWire[side]) BY <1>2, <1>3, <1>12, SideTakes, Zenon
    <2> QED BY <1>1, <2>1
  <1>16. Posted(side, k1) = Posted(side, noise[side]) /\ k1.tx = noise[side].tx
    BY <1>1, <1>12 DEF Posted
  <1>17. UNCHANGED <<noiseWire, noiseClock, noiseCert>> BY DEF ReceiveFrame
  <1>18. PeerIsCertified'
    <2>1. \A s \in Sides : noise'[s].stage = noise[s].stage /\ noise'[s].mode = noise[s].mode
      BY <1>1, <1>12, <1>13, <1>14
    <2>2. "initiator" \in Sides /\ "responder" \in Sides BY DEF Sides
    <2> QED BY <1>17, <2>1, <2>2, StillCertified
  <1>19. k1 \in SideStates(NoiseCells(noiseCert)) BY <1>1, <1>11
  <1> QED BY <1>14, <1>15, <1>16, <1>17, <1>18, <1>19, MovesOn, Zenon

LEMMA NoiseSteps == NoiseInv /\ [NoiseNext]_noiseVars => NoiseInv'
  <1> SUFFICES ASSUME NoiseInv, [NoiseNext]_noiseVars PROVE NoiseInv' OBVIOUS
  <1>1. CASE Tick
    <2>1. noiseClock \in Nat /\ noiseClock' = noiseClock + 1 BY <1>1 DEF Tick, NoiseInv, NoiseTypes
    <2>2. UNCHANGED <<noise, noiseWire, noiseCert>> BY <1>1 DEF Tick
    <2>3. NoiseTypes' BY <2>1, <2>2 DEF NoiseInv, NoiseTypes
    <2>4. PeerIsCertified'
      <3>1. PICK v : v = noiseCert.part.header.valid_from OBVIOUS
      <3>2. v \in Nat
        <4>1. PICK h, k, a : h.valid_from \in Nat /\ noiseCert = Certificate(SignedPart(h, k, a))
          BY DEF NoiseInv, NoiseTypes
        <4> QED BY <3>1, <4>1 DEF Certificate, SignedPart
      <3>3. v <= noiseClock => v <= noiseClock' BY <2>1, <3>2
      <3> QED BY <2>2, <3>1, <3>3 DEF NoiseInv, PeerIsCertified
    <2> QED BY <2>2, <2>3, <2>4 DEF NoiseInv
  <1>2. CASE InitiatorHello BY <1>2, SaysHello
  <1>3. CASE ResponderReceive BY <1>3, WaitsForHello
  <1>4. CASE InitiatorFinish BY <1>4, Finishes
  <1>5. CASE ResponderReply BY <1>5, RepliesToHello
  <1>6. CASE ResponderDone BY <1>6, Settles
  <1>7. ASSUME NEW side \in Sides,
               HandshakeTimeout(side) \/ PeerClosed(side) \/ SendOversized(side)
        PROVE  NoiseInv'
    <2>1. GiveUp(side, "failed") /\ UNCHANGED <<noiseWire, noiseClock, noiseCert>>
      BY <1>7 DEF HandshakeTimeout, PeerClosed, SendOversized
    <2> QED BY <2>1, GivesUp
  <1>8. ASSUME NEW side \in Sides,
               DeliverCell(side) \/ SendFrame(side) \/ ReceiveFrame(side)
        PROVE  NoiseInv'
    BY <1>8, Delivers, SendsFrame, ReceivesFrame
  <1>9. CASE UNCHANGED noiseVars
    BY <1>9 DEF noiseVars, NoiseInv, NoiseTypes, PeerIsCertified
  <1> QED BY <1>1, <1>2, <1>3, <1>4, <1>5, <1>6, <1>7, <1>8, <1>9 DEF NoiseNext

\* The inductive invariant of the encrypted stream holds for every number of
\* frames and every width of the certificate's times.
THEOREM NoiseInvariance == NoiseSpec => []NoiseInv
  BY NoiseStarts, NoiseSteps, PTL DEF NoiseSpec

\* What a side got is how its peer began to send.
LEMMA CountsArePrefixes ==
  ASSUME NEW s \in Seq(Nat), NEW t \in Seq(Nat), NEW m \in Nat, NEW n \in Nat,
         CountUp(s, m), CountUp(t, n), m <= n
  PROVE  StartsAs(s, t) /\ (m = n => s = t)
  <1>1. Len(s) = m /\ Len(t) = n BY DEF CountUp
  <1>2. \A i \in 1 .. m : s[i] = t[i] /\ i \in 1 .. n BY DEF CountUp
  <1>3. m = n => s = t BY <1>1, <1>2, SeqSame
  <1>4. DOMAIN s = 1 .. m BY <1>1, SeqLen
  <1> QED BY <1>1, <1>2, <1>3, <1>4 DEF StartsAs

\* The invariant says what the property asks of the stream.
LEMMA InvIsSound == NoiseInv => NoiseIsSound
  <1> SUFFICES ASSUME NoiseInv PROVE NoiseInOrder BY DEF NoiseInv, NoiseIsSound
  <1> SUFFICES ASSUME NEW side \in Sides
               PROVE  /\ StartsAs(noise[side].got, noise[Peer(side)].sent)
                      /\ noise[side].mode # "broken"
                      /\ noise[side].mode = "transport" /\ noise[side].buf = <<>>
                           /\ noiseWire[side] = <<>> =>
                           noise[side].got = noise[Peer(side)].sent
    BY DEF NoiseInOrder
  <1>1. PICK k, o, S : k = noise[side] /\ o = noise[Peer(side)] /\ S = NoiseCells(noiseCert)
    OBVIOUS
  <1>2. /\ k \in SideStates(S) /\ o \in SideStates(S)
        /\ SideInv(noiseCert, side, k, o, noiseWire[side])
        /\ SideInv(noiseCert, Peer(side), o, k, noiseWire[Peer(side)])
    BY <1>1, SidesNow
  <1>3. PICK r \in Nat, t \in Nat : r = k.rx /\ t = o.tx BY <1>2, SideFields
  <1>4. /\ k.got \in Seq(Nat) /\ o.sent \in Seq(Nat) /\ CountUp(k.got, r) /\ CountUp(o.sent, t)
        /\ r <= t
    BY <1>2, <1>3, SideFields DEF SideInv, Counts
  <1>5. StartsAs(k.got, o.sent) /\ (r = t => k.got = o.sent) BY <1>4, CountsArePrefixes
  <1>6. k.mode # "broken" BY <1>2 DEF SideStates, NoiseModes
  <1>7. ASSUME k.mode = "transport", k.buf = <<>>, noiseWire[side] = <<>> PROVE r = t
    <2>1. PICK n, c : n = Posted(Peer(side), o) /\ c = Taken(k) OBVIOUS
    <2>2. n \in Nat /\ c \in Nat /\ k.stage \in Nat BY <1>2, <2>1, SideFields
    <2>3. Flow(noiseCert, side, n, c, <<>>, <<>>)
      BY <1>2, <1>7, <2>1 DEF SideInv, Flows, Reading, NoiseModes
    <2>4. c = n BY <2>2, <2>3 DEF Flow
    <2>5. c = r + 1 BY <1>2, <1>3, <1>7, <2>1, <2>2 DEF SideInv, Shook, Taken
    <2>6. n = t + 1 \/ n = 0 BY <1>3, <2>1 DEF Posted
    <2> QED BY <2>4, <2>5, <2>6
  <1> QED BY <1>1, <1>5, <1>6, <1>7

\* The switch of a TCP stream from the handshake to encrypted frames loses,
\* doubles and reorders nothing, however the stream is cut into reads and however
\* many frames follow, nothing fails to decrypt, and the initiator talks to a peer
\* its authority certified (Handshake::run, into_stratum_framed_stream,
\* Codec::decode, Certificate::validate).
THEOREM StreamIsSound == NoiseSpec => []NoiseIsSound
  BY NoiseInvariance, InvIsSound, PTL
=============================================================================
