------------------------------ MODULE UartLink ------------------------------
(* The UART of the IP core connected to the UART of the chips, bit by bit.     *)
(* The driver writes bytes, one of which (SwitchByte) tells the chips to       *)
(* change to the next speed, and then changes the speed of the core.  The      *)
(* chips answer every other byte with the same byte.                           *)
EXTENDS Uart, SequencesExt

CONSTANTS
    LinkSpeeds,   \* sequence of divisions
    MaxBytes

VARIABLES
    near,     \* the UART of the core
    far,      \* the UART of the chips; `answer' waits to be sent
    line,     \* the two wires
    host,     \* the driver: division register, a speed still to be set
    sent, heard, echoed   \* history: bytes written, received there, received back

linkvars == <<near, far, line, host, sent, heard, echoed>>

Bytes == [1 .. DB -> {0, 1}]
SwitchByte == [i \in 1 .. DB |-> 1]

\* The chips' receiver and transmitter are of the same kind; their clock is in
\* any phase, and they change their speed when the byte has arrived.
FarStep ==
    LET done == RxDone(far.rx, far.div.en, line.down)
        switch == done /\ far.rx.data = SwitchByte
        start == far.answer # <<>> /\ far.tx.fsm = "idle" /\ far.div.en
    IN  /\ far' = [speed |-> IF switch THEN far.speed + 1 ELSE far.speed,
                   div |-> IF switch THEN [cnt |-> 0, en |-> FALSE]
                           ELSE Divider(far.div, LinkSpeeds[far.speed]),
                   rx |-> UartRx(far.rx, far.div.en, line.down),
                   tx |-> UartTx(far.tx, far.div.en, start, IF start THEN far.answer[1] ELSE SwitchByte),
                   answer |-> (IF start THEN Tail(far.answer) ELSE far.answer)
                                 \o (IF done /\ ~switch THEN <<far.rx.data>> ELSE <<>>)]
        /\ heard' = IF done THEN Append(heard, far.rx.data) ELSE heard

LinkInit ==
    /\ near = [UartReset EXCEPT !.division = LinkSpeeds[1]]
    /\ \E phase \in 0 .. LinkSpeeds[1] :
         far = [speed |-> 1, div |-> [cnt |-> phase, en |-> FALSE],
                rx |-> RxIdle, tx |-> TxIdle, answer |-> <<>>]
    /\ line = [down |-> 1, up |-> 1]
    /\ host = [speed |-> 1, announced |-> FALSE]
    /\ sent = <<>> /\ heard = <<>> /\ echoed = <<>>

\* An edge while the driver writes the byte.  The driver empties the receive
\* FIFO as it fills.
LinkEdge(write) ==
    LET read == ~near.rxf.empty
    IN  /\ near' = UartStep(near, LinkSpeeds[host.speed], FALSE, write # <<>>,
                            IF write = <<>> THEN SwitchByte ELSE write[1], read, line.up, near.txf.data_r)
        /\ line' = [down |-> near.tx.txd, up |-> far.tx.txd]
        /\ echoed' = IF read THEN Append(echoed, near.rxf.data_r) ELSE echoed
        /\ sent' = sent \o write
        /\ FarStep

Asked == SelectSeq(sent, LAMBDA b : b # SwitchByte)

Pause == LinkEdge(<<>>) /\ UNCHANGED host

\* The core starts a frame only when no change of speed is pending (wait_sync).
WriteByte(b) ==
    /\ b # SwitchByte /\ Len(sent) < MaxBytes /\ ~near.txf.full
    /\ ~host.announced /\ ~SyncBusy(near, LinkSpeeds[host.speed])
    /\ LinkEdge(<<b>>)
    /\ UNCHANGED host

\* The chips are told to change their speed; reads before that are answered.
Announce ==
    /\ Len(sent) < MaxBytes /\ ~near.txf.full /\ ~host.announced
    /\ host.speed < Len(LinkSpeeds) /\ echoed = Asked
    /\ ~SyncBusy(near, LinkSpeeds[host.speed])
    /\ LinkEdge(<<SwitchByte>>)
    /\ host' = [host EXCEPT !.announced = TRUE]

SetSpeed ==
    /\ host.announced
    /\ LinkEdge(<<>>)
    /\ host' = [speed |-> host.speed + 1, announced |-> FALSE]

LinkNext == Pause \/ (\E b \in Bytes : WriteByte(b)) \/ Announce \/ SetSpeed

LinkSpec == LinkInit /\ [][LinkNext]_linkvars

\* Bytes arrive unchanged, in order and once at the chips, and the answers at the
\* core, at every speed and across changes of speed (uart, mod_divider).
LinkIsFaithful ==
    /\ IsPrefix(heard, sent)
    /\ IsPrefix(echoed, Asked)
    /\ ~near.frame_err /\ ~near.over_err
=============================================================================
