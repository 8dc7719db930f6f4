------------------------------ MODULE IpCoreRx ------------------------------
(* The receiving half of the IP core of a hash chain, clock edge by clock      *)
(* edge, and the two readers of its FIFOs, which sleep on interrupts.          *)
(*                                                                             *)
(* The chips send responses of Resp bytes.  A byte is <<response, index>>;     *)
(* noise is <<0, 0>>, and the preamble of the BM139x is <<"AA">>, <<"55">>.    *)
(* The CRC matches exactly when the bytes are those of one response.           *)
EXTENDS Fifo, SequencesExt

CONSTANTS
    Resp,                \* bytes of a response
    UartRxSize, RxSize,  \* sizes of the FIFOs
    RxCrcCycles,         \* edges the CRC engine needs for a byte
    MaxResponses,        \* bound: responses and faults
    MaxFaults            \* bound: bytes lost or added

Kinds == {"work", "cmd"}

VARIABLES
    rx,        \* registers of the receive FSM
    uart_rx,   \* receive FIFO of the UART
    fifos,     \* work_rx and cmd_rx
    pending,   \* irq_pending_*_rx_q
    uio,       \* the kernel's part: interrupt enabled, event not yet read
    reader,    \* the task that reads each FIFO
    chips,     \* what the chips send
    mode,      \* ctrl_bm139x
    fate       \* history: kind, intact, got or dropped, of each response

rxvars == <<rx, uart_rx, fifos, pending, uio, reader, chips, mode, fate>>

NoByte == <<0, 0>>

RxInit ==
    /\ rx = [fsm |-> "idle", byte_cnt |-> 0, resp |-> [i \in 1 .. Resp |-> NoByte], crc |-> 0]
    /\ uart_rx = FifoReset(UartRxSize)
    /\ fifos = [k \in Kinds |-> FifoReset(RxSize)]
    /\ pending = [k \in Kinds |-> FALSE]
    /\ uio = [k \in Kinds |-> [en |-> FALSE, event |-> FALSE]]
    /\ reader = [work |-> [pc |-> "check", words |-> <<>>, timed |-> FALSE],
                 cmd |-> [pc |-> "idle", words |-> <<>>, timed |-> FALSE]]
    /\ chips = [queue |-> <<>>, faults |-> 0]
    /\ mode \in {"bm1387", "bm139x"}
    /\ fate = <<>>

-----------------------------------------------------------------------------
RxQuiet == [read |-> FALSE, wr |-> {}, word |-> NoData, crc |-> FALSE, drop |-> FALSE]
RxTo(state) == [regs |-> [rx EXCEPT !.fsm = state], out |-> RxQuiet]
RxStay == [regs |-> rx, out |-> RxQuiet]
RxTake(state) == [RxTo(state) EXCEPT !.out.read = TRUE]

\* The response whose bytes the FSM holds, if it holds all of one.
Matching == {r \in 1 .. Len(fate) : rx.resp = [i \in 1 .. Resp |-> <<r, i>>]}
Current == CHOOSE r \in Matching : TRUE

\* The states that collect bytes.  The preamble is looked for byte by byte.
FsmCollect ==
    LET byte == uart_rx.data_r
    IN  CASE rx.fsm = "idle" -> RxTo("wait")
          [] uart_rx.empty -> RxStay
          [] rx.fsm = "wait" ->
                [RxTo(IF mode = "bm139x" THEN "read_AA" ELSE "read") EXCEPT !.regs.byte_cnt = 0]
          [] rx.fsm = "read_AA" -> RxTake(IF byte = <<"AA">> THEN "read_55" ELSE "wait")
          [] rx.fsm = "read_55" ->
                RxTake(IF byte = <<"55">> THEN "read" ELSE IF byte = <<"AA">> THEN "read_55" ELSE "wait")
          [] rx.fsm = "read" ->
                LET last == rx.byte_cnt = Resp - 1
                IN  [RxTake(IF last THEN "calc_crc" ELSE "read") EXCEPT
                        !.regs.resp = Append(Tail(@), byte),
                        !.regs.byte_cnt = IF last THEN 0 ELSE @ + 1]

\* Mutant: after an error of the CRC the receiver starts over with fresh bytes.
CrcErrForgets == RxTo("wait")

\* After an error of the CRC the window moves on by one byte.
CrcErr == [RxTo("read") EXCEPT !.regs.byte_cnt = Resp - 1]

\* The states that check and store a response.  The first word is written only
\* if there is room for two; otherwise the response is dropped.
FsmStore ==
    CASE rx.fsm = "calc_crc" ->
            IF rx.crc # 0 THEN RxStay
            ELSE [RxTo(IF rx.byte_cnt = Resp - 2 THEN "check_crc" ELSE "calc_crc") EXCEPT
                     !.regs.byte_cnt = @ + 1, !.out.crc = TRUE]
      [] rx.fsm = "check_crc" ->
            IF rx.crc # 0 THEN RxStay
            ELSE RxTo(IF Matching = {} THEN "crc_err" ELSE "write1")
      [] rx.fsm = "crc_err" -> CrcErr
      [] rx.fsm = "write1" ->
            LET k == fate[Current].kind
            IN  IF AlmostFull(fifos[k], RxSize)
                THEN [RxTo("wait") EXCEPT !.out.drop = TRUE]
                ELSE [RxTo("write2") EXCEPT !.out.wr = {k}, !.out.word = <<Current, 1>>]
      [] rx.fsm = "write2" ->
            LET k == fate[Current].kind
            IN  IF fifos[k].full THEN RxStay
                ELSE [RxTo("wait") EXCEPT !.out.wr = {k}, !.out.word = <<Current, 2>>]

FsmRx ==
    IF rx.fsm \in {"idle", "wait", "read_AA", "read_55", "read"} THEN FsmCollect ELSE FsmStore

\* How long the CRC engine is busy.
RxCrcBusy(cnt, write) == IF write THEN RxCrcCycles ELSE IF cnt = 0 THEN 0 ELSE cnt - 1

\* The pending bit is set with the second word, and cleared by a read unless it
\* is set at the same edge.
IrqSet(e, k) == rx.fsm = "write2" /\ k \in e.out.wr

\* History: what the edge does to a response.
Marked(e) ==
    IF e.out.drop THEN [fate EXCEPT ![Current].state = "dropped"]
    ELSE IF \E k \in Kinds : IrqSet(e, k) THEN [fate EXCEPT ![Current].state = "stored"]
    ELSE fate

\* An edge of the clock while a byte arrives from the UART, or a FIFO is
\* read; the responses got and sent by it are history.
RxEdge(byte, reads, got, sends) ==
    LET e == FsmRx
    IN  /\ rx' = [e.regs EXCEPT !.crc = RxCrcBusy(@, e.out.crc)]
        /\ uart_rx' = DistrStep(uart_rx, UartRxSize, byte # <<>>,
                                IF byte = <<>> THEN NoByte ELSE byte[1], e.out.read, FALSE)
        /\ fifos' = [k \in Kinds |-> BlockStep(fifos[k], RxSize, k \in e.out.wr, e.out.word,
                                              k \in reads, FALSE)]
        /\ pending' = [k \in Kinds |-> IrqSet(e, k) \/ (pending[k] /\ k \notin reads)]
        /\ fate' = [i \in DOMAIN fate |-> IF i \in got THEN [Marked(e)[i] EXCEPT !.state = "got"]
                                         ELSE Marked(e)[i]] \o sends

PlainEdge == RxEdge(<<>>, {}, {}, <<>>)

RxIdleEdge == PlainEdge /\ UNCHANGED <<uio, reader, chips, mode>>

-----------------------------------------------------------------------------
\* The chips send a response; a byte of it may be lost, or noise come before it.
RxPreamble == IF mode = "bm139x" THEN <<<<"AA">>, <<"55">>>> ELSE <<>>

ResponseBytes(r) == RxPreamble \o [i \in 1 .. Resp |-> <<r, i>>]

Answer(kind, bytes, faults, intact) ==
    /\ chips.queue = <<>> /\ chips.faults + faults <= MaxFaults
    /\ Len(fate) + chips.faults + faults < MaxResponses
    /\ chips' = [queue |-> bytes, faults |-> chips.faults + faults]
    /\ RxEdge(<<>>, {}, {}, <<[kind |-> kind, intact |-> intact, state |-> "sent"]>>)
    /\ UNCHANGED <<uio, reader, mode>>

Send(kind) ==
    LET bytes == ResponseBytes(Len(fate) + 1)
    IN  \/ Answer(kind, bytes, 0, TRUE)
        \/ Answer(kind, <<NoByte>> \o bytes, 1, TRUE)
        \/ \E j \in 1 .. Len(bytes) : Answer(kind, RemoveAt(bytes, j), 1, FALSE)

\* A byte is received.  The core is faster than the line, so there is room.
Arrive ==
    /\ chips.queue # <<>> /\ ~uart_rx.full
    /\ chips' = [chips EXCEPT !.queue = Tail(@)]
    /\ RxEdge(<<Head(chips.queue)>>, {}, {}, <<>>)
    /\ UNCHANGED <<uio, reader, mode>>

-----------------------------------------------------------------------------
\* uio_pdrv_genirq: the interrupt is disabled when it comes, and counted.
Interrupt(k) ==
    /\ pending[k] /\ uio[k].en
    /\ uio' = [uio EXCEPT ![k] = [en |-> FALSE, event |-> TRUE]]
    /\ PlainEdge
    /\ UNCHANGED <<reader, chips, mode>>

Reader(k, from, to) ==
    /\ reader[k].pc = from
    /\ reader' = [reader EXCEPT ![k].pc = to]
    /\ PlainEdge
    /\ UNCHANGED <<chips, mode>>

\* async_irq_wait_cond, where the condition is that the FIFO is not empty.
CheckCond(k) ==
    /\ Reader(k, "check", IF fifos[k].empty THEN "enable" ELSE "read")
    /\ UNCHANGED uio

\* Mutant: the interrupt is not enabled again.
IrqEnableForgotten(k) ==
    /\ Reader(k, "enable", "recheck")
    /\ UNCHANGED uio

IrqEnable(k) ==
    /\ Reader(k, "enable", "recheck")
    /\ uio' = [uio EXCEPT ![k].en = TRUE]

RecheckCond(k) ==
    /\ Reader(k, "recheck", IF fifos[k].empty THEN "wait" ELSE "read")
    /\ UNCHANGED uio

IrqWait(k) ==
    /\ uio[k].event
    /\ Reader(k, "wait", "check")
    /\ uio' = [uio EXCEPT ![k].event = FALSE]

\* A word is read; recv_solution and recv_response end with the second.
ReadWord(k) ==
    LET f == fifos[k]
        words == Append(reader[k].words, f.ram[f.r_ptr])
        whole == Len(words) = 2
    IN  /\ reader[k].pc = "read"
        /\ RxEdge(<<>>, {k}, IF whole THEN {words[1][1]} ELSE {}, <<>>)
        /\ reader' = [reader EXCEPT ![k] =
                        [pc |-> IF whole /\ k = "cmd" THEN "idle" ELSE "check",
                         words |-> IF whole THEN <<>> ELSE words,
                         timed |-> k = "cmd" /\ ~whole]]
        /\ UNCHANGED <<uio, chips, mode>>

\* recv_response is called, and gives up when nothing comes in time.  The second
\* word follows the first by a few edges, which no timeout undercuts.
RecvResponse ==
    /\ reader["cmd"].pc = "idle"
    /\ reader' = [reader EXCEPT !["cmd"] = [pc |-> "check", words |-> <<>>, timed |-> TRUE]]
    /\ PlainEdge
    /\ UNCHANGED <<uio, chips, mode>>

Timeout ==
    /\ reader["cmd"].pc = "wait" /\ reader["cmd"].timed
    /\ reader["cmd"].words = <<>> \/ ~fifos["cmd"].empty
    /\ reader' = [reader EXCEPT !["cmd"] = IF fifos["cmd"].empty
                                             THEN [pc |-> "idle", words |-> <<>>, timed |-> FALSE]
                                             ELSE [@ EXCEPT !.pc = "check", !.timed = FALSE]]
    /\ PlainEdge
    /\ UNCHANGED <<uio, chips, mode>>

RxNext ==
    \/ RxIdleEdge \/ Arrive \/ RecvResponse \/ Timeout
    \/ \E k \in Kinds :
          Send(k) \/ Interrupt(k) \/ CheckCond(k) \/ IrqEnable(k) \/ RecheckCond(k)
                  \/ IrqWait(k) \/ ReadWord(k)

RxSpec == RxInit /\ [][RxNext]_rxvars

-----------------------------------------------------------------------------
Contents(f) ==
    [i \in 1 .. (IF f.full THEN RxSize ELSE Volume(f, RxSize)) |-> f.ram[(f.r_ptr + i - 1) % RxSize]]

\* The words on their way to a reader are pairs of one response each, in the
\* order of the responses: no pair is split by a full FIFO, by a timeout of the
\* reader or by a read at the same edge (st_write_*1, recv_response).
ResponsesWhole ==
    \A k \in Kinds :
      LET words == reader[k].words \o Contents(fifos[k])
      IN  /\ \A i \in 1 .. Len(words) :
               /\ words[i][2] = IF i % 2 = 1 THEN 1 ELSE 2
               /\ i % 2 = 0 => words[i][1] = words[i - 1][1]
               /\ i > 2 => words[i - 2][1] < words[i][1]
          /\ Len(words) % 2 = 1 => rx.fsm = "write2" /\ Current = Last(words)[1]

\* A response that arrives whole is stored, or dropped because its FIFO has no
\* room, whatever was lost or added before it: the receiver finds the beginning
\* of a response again (st_crc_err, st_read_AA, st_read_55).
IntactIsStored ==
    chips.queue = <<>> /\ uart_rx.empty /\ rx.fsm \in {"wait", "read_AA", "read_55", "read"}
      => \A r \in 1 .. Len(fate) : fate[r].intact => fate[r].state # "sent"

\* No interrupt is lost: a reader asleep, with a whole response in its FIFO and
\* no event to wake it, is about to be interrupted.  The reader checks the FIFO
\* before and after it enables the interrupt, the kernel disables it again, and
\* reads clear the pending bit (async_irq_wait_cond, irq_pending_*_rx).
SleeperIsWoken ==
    \A k \in Kinds :
      /\ reader[k].pc = "wait" /\ ~uio[k].event
      /\ \E r \in 1 .. Len(fate) : fate[r].kind = k /\ fate[r].state = "stored"
      => pending[k] /\ uio[k].en

\* The receive path as a whole: no response is split, mixed or, if intact, missed.
RxIsFaithful == ResponsesWhole /\ IntactIsStored
=============================================================================
