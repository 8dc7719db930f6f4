------------------------------ MODULE FifoQueue ------------------------------
(* A FIFO of the IP core under all inputs, next to the bounded queue it        *)
(* stands for.                                                                 *)
EXTENDS Fifo

CONSTANTS Size, Data

ASSUME FifoSizeAssumption == Size \in Nat \ {0, 1}

VARIABLES
    fifo,     \* the registers
    queue,    \* the items that were accepted and not yet taken
    port      \* the item that was taken last

qvars == <<fifo, queue, port>>

QTypeOK ==
    /\ fifo \in [ram : [0 .. Size - 1 -> Data \cup {NoData}],
                 r_ptr : 0 .. Size - 1, w_ptr : 0 .. Size - 1,
                 empty : BOOLEAN, full : BOOLEAN,
                 data_r : Data \cup {NoData}]
    /\ queue \in Seq(Data)
    /\ Len(queue) <= Size
    /\ port \in Data \cup {NoData}

QInit == fifo = FifoReset(Size) /\ queue = <<>> /\ port = NoData

\* What the queue does with the inputs of an edge.
Pushed(wr, data) == IF wr /\ Len(queue) < Size THEN <<data>> ELSE <<>>

Popped(rd) == IF rd /\ queue # <<>> THEN Tail(queue) ELSE queue

\* An edge of the clock with these inputs.
Edge(wr, data, rd, clear) ==
    /\ fifo' = BlockStep(fifo, Size, wr, data, rd, clear)
    /\ queue' = IF clear THEN <<>> ELSE Popped(rd) \o Pushed(wr, data)
    /\ port' = IF rd /\ queue # <<>> THEN Head(queue) ELSE port

QNext == \E wr, rd, clear \in BOOLEAN, data \in Data : Edge(wr, data, rd, clear)

QSpec == QInit /\ [][QNext]_qvars

\* The flags and the thresholds tell the truth about the queue, up to the one
\* value that the width of the pointers cannot express: a full FIFO has volume 0.
FlagsAreTrue ==
    /\ fifo.empty <=> queue = <<>>
    /\ fifo.full <=> Len(queue) = Size
    /\ AlmostFull(fifo, Size) <=> Len(queue) >= Size - 1
    /\ \A thr \in 1 .. Size - 1 :
         /\ ThrWorkReady(fifo, Size, thr) <=> Len(queue) >= thr
         /\ Len(queue) < Size => (ThrIrq(fifo, Size, thr) <=> Len(queue) < thr)

\* A read delivers the oldest item, and nothing else changes what the read port
\* shows (p_read), whatever is written or cleared at the same edge.
ReadsInOrder == fifo.data_r = port

\* The block RAM, its pointers and its flags are a queue.
FifoIsQueue == FlagsAreTrue /\ ReadsInOrder

\* The memory holds the queue from the read pointer on.
MemoryHoldsQueue ==
    /\ fifo.w_ptr = (fifo.r_ptr + Len(queue)) % Size
    /\ \A i \in 1 .. Len(queue) : queue[i] = fifo.ram[(fifo.r_ptr + i - 1) % Size]
=============================================================================
