-------------------------------- MODULE Fifo --------------------------------
(* The FIFO buffers of the IP core that drives a hash chain, at the level of   *)
(* their registers.  fifo_block reads its memory through a register,           *)
(* fifo_distr shows the oldest item at once, and fifo_block_thr compares its   *)
(* volume with two thresholds.  A step is one clock edge.                      *)
EXTENDS Integers, Sequences

CONSTANT NoData   \* what a read port shows before the first read

\* The registers of a FIFO with `size' items after a reset.
FifoReset(size) ==
    [ram |-> [a \in 0 .. size - 1 |-> NoData], r_ptr |-> 0, w_ptr |-> 0,
     empty |-> TRUE, full |-> FALSE, data_r |-> NoData]

\* The pointer after `p' in a FIFO of `size' items.
Incremented(p, size) == (p + 1) % size

\* Pointers and flags after an edge.  Reads of an empty and writes to a full
\* FIFO are ignored, and clearing comes before both.
Control(f, size, wr, rd, clear) ==
    LET rd_en == rd /\ ~f.empty
        wr_en == wr /\ ~f.full
        r_inc == Incremented(f.r_ptr, size)
        w_inc == Incremented(f.w_ptr, size)
    IN  IF clear
        THEN [r_ptr |-> 0, w_ptr |-> 0, empty |-> TRUE, full |-> FALSE]
        ELSE [r_ptr |-> IF rd_en THEN r_inc ELSE f.r_ptr,
              w_ptr |-> IF wr_en THEN w_inc ELSE f.w_ptr,
              empty |-> IF rd_en = wr_en THEN f.empty
                        ELSE rd_en /\ r_inc = f.w_ptr,
              full  |-> IF rd_en = wr_en THEN f.full
                        ELSE wr_en /\ w_inc = f.r_ptr]

\* The memory after an edge.
Stored(f, wr, data) ==
    IF wr /\ ~f.full THEN [f.ram EXCEPT ![f.w_ptr] = data] ELSE f.ram

\* Mutant: the read port looks at the pointer of the next read.
BlockStepAhead(f, size, wr, data, rd, clear) ==
    LET c == Control(f, size, wr, rd, clear)
    IN  [ram |-> Stored(f, wr, data),
         r_ptr |-> c.r_ptr, w_ptr |-> c.w_ptr,
         empty |-> c.empty, full |-> c.full,
         data_r |-> IF rd /\ ~f.empty THEN f.ram[c.r_ptr] ELSE f.data_r]

\* An edge of fifo_block and of fifo_block_thr: the read port is a register.
BlockStep(f, size, wr, data, rd, clear) ==
    LET c == Control(f, size, wr, rd, clear)
    IN  [ram |-> Stored(f, wr, data),
         r_ptr |-> c.r_ptr, w_ptr |-> c.w_ptr,
         empty |-> c.empty, full |-> c.full,
         data_r |-> IF rd /\ ~f.empty THEN f.ram[f.r_ptr] ELSE f.data_r]

\* An edge of fifo_distr: the read port shows the item at the read pointer.
DistrStep(f, size, wr, data, rd, clear) ==
    LET c == Control(f, size, wr, rd, clear)
        ram == Stored(f, wr, data)
    IN  [ram |-> ram, r_ptr |-> c.r_ptr, w_ptr |-> c.w_ptr,
         empty |-> c.empty, full |-> c.full, data_r |-> ram[c.r_ptr]]

\* The difference of the pointers, in as many bits as they have: 0 when the
\* FIFO is full.
Volume(f, size) == (f.w_ptr - f.r_ptr) % size

\* a_full: at most one item is free.
AlmostFull(f, size) == Volume(f, size) >= size - 1 \/ f.full

\* thr_irq: fewer than `thr' items, and so it seems when the FIFO is full.
ThrIrq(f, size, thr) == Volume(f, size) < thr \/ f.empty

\* thr_work_ready: at least `thr' items.
ThrWorkReady(f, size, thr) == Volume(f, size) >= thr \/ f.full
=============================================================================
