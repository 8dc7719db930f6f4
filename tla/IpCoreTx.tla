------------------------------ MODULE IpCoreTx ------------------------------
(* The transmitting half of the IP core of a hash chain, clock edge by clock   *)
(* edge, and the driver that feeds it.  Commands and work wait in a FIFO each; *)
(* the core turns them into frames for the chips and hands them to the UART    *)
(* byte by byte.  The driver starts the core, sends commands, changes the      *)
(* speed of the line and, once the chain is up, sends work.                    *)
(*                                                                             *)
(* A byte taken from a word is <<frame, word, byte, speed>>, where speed is    *)
(* what the driver had set when it wrote the word.  Other bytes are constants. *)
EXTENDS Fifo, SequencesExt

CONSTANTS
    TxBits, TxSamples, TxCntWidth, TxUartSize,   \* of the UART
    CmdSize, WorkSize,   \* sizes of the FIFOs, in words
    MidstateWords,       \* words of a work's midstates
    BIGGEST_WORK,        \* words the driver keeps free for a work
    WorkTime,            \* edges between two chances to send
    CrcCycles,           \* edges a CRC engine needs for a byte
    InitSpeed, TargetSpeed,   \* divisions of the two baud rates
    MaxCommands, MaxRestarts,
    MaxWorks             \* bound: works and restarts

ASSUME TxAssumption ==
    /\ MidstateWords \in Nat \ {0}
    /\ BIGGEST_WORK >= 4 + MidstateWords
    /\ BIGGEST_WORK <= WorkSize

U == INSTANCE Uart WITH DB <- TxBits, SPB <- TxSamples, CntWidth <- TxCntWidth,
                        UartSize <- TxUartSize

VARIABLES
    tx,        \* registers of the transmit FSM
    uart,      \* the UART
    cmd_tx, work_tx,     \* the FIFOs
    regs,      \* control registers: enable, bm139x (frames start with a preamble),
               \* rst (requests to clear FIFOs), baud
    timer,     \* work_time_cnt_q, work_time_out_q
    chain,     \* where HashChain::new and its start are
    cmd,       \* the holder of the command lock; words: history, size of each command
    work,      \* the task that sends work; n: number of works begun
    wire       \* history: what may follow in the frame on the line, frames sent so far

txvars == <<tx, uart, cmd_tx, work_tx, regs, timer, chain, cmd, work, wire>>

WorkWords == 4 + MidstateWords

FIFO_THRESHOLD == WorkSize - BIGGEST_WORK

\* The length field of a command of n words: it counts the CRC and not the
\* padding that the CRC takes the place of.
CmdLength(n) == 4 * n + 1

TxReset == [fsm |-> "idle", byte_cnt |-> 0, word_cnt |-> 0, byte_rest |-> 0, crc |-> 0]

TxInit ==
    /\ tx = TxReset
    /\ uart = U!UartReset
    /\ cmd_tx = FifoReset(CmdSize)
    /\ work_tx = FifoReset(WorkSize)
    /\ \E bm139x \in BOOLEAN :
          regs = [enable |-> FALSE, bm139x |-> bm139x, rst |-> FALSE, baud |-> InitSpeed]
    /\ timer = [cnt |-> 0, out |-> FALSE]
    /\ chain = [pc |-> "disable", restarts |-> 0]
    /\ cmd = [pc |-> "idle", words |-> <<>>, next |-> 1]
    /\ work = [pc |-> "idle", n |-> 0, next |-> 1]
    /\ wire = [rest |-> {<<>>}, cmds |-> 0, works |-> 0]

-----------------------------------------------------------------------------
\* The signals the FSM raises in a cycle.
Quiet == [byte |-> <<>>, crc |-> FALSE, cmd_rd |-> FALSE, work_rd |-> FALSE,
          ack |-> FALSE, clear |-> FALSE]

To(state) == [tx EXCEPT !.fsm = state]
Stay == [regs |-> tx, out |-> Quiet]
Go(state) == [regs |-> To(state), out |-> Quiet]
Emit(next, byte) == [regs |-> next, out |-> [Quiet EXCEPT !.byte = <<byte>>, !.crc = TRUE]]
EmitRaw(next, byte) == [regs |-> next, out |-> [Quiet EXCEPT !.byte = <<byte>>]]
Reading(e, signal) == [e EXCEPT !.out[signal] = TRUE]

\* work_ready and cmd_tx_ready: the UART takes a byte and the CRC engine is done.
\* Only one of the two CRC engines is busy at a time.
Ready == ~uart.txf.full /\ tx.crc = 0
WorkByte(k) == Append(work_tx.data_r, k)
CmdByte(k) == Append(cmd_tx.data_r.id, k)
NextByte == [tx EXCEPT !.byte_cnt = (@ + 1) % 4]
LastByte == tx.byte_cnt = 3

\* The states that start and synchronise.
FsmControl ==
    CASE tx.fsm = "idle" -> IF regs.enable THEN Reading(Go("wait_sync"), "clear") ELSE Stay
      [] tx.fsm = "wait_sync" ->
            IF timer.out /\ ~U!SyncBusy(uart, regs.baud) THEN Reading(Go("check"), "ack") ELSE Stay
      [] tx.fsm = "check" ->
            IF ThrWorkReady(work_tx, WorkSize, WorkWords)
            THEN Go(IF regs.bm139x THEN "work_55" ELSE "work_cmd")
            ELSE Go(IF cmd_tx.empty THEN "wait_sync" ELSE "cmd_read")

\* The states that send a work.
FsmWork ==
    CASE ~Ready -> Stay
      [] tx.fsm = "work_55" -> EmitRaw(To("work_AA"), <<"55">>)
      [] tx.fsm = "work_AA" -> EmitRaw(To("work_cmd"), <<"AA">>)
      [] tx.fsm = "work_cmd" -> Emit(To("work_length"), <<"21">>)
      [] tx.fsm = "work_length" ->
            IF work_tx.empty THEN Stay
            ELSE Reading(Emit(To("work_id"), <<"length">>), "work_rd")
      [] tx.fsm = "work_id" -> Emit(To("work_optv"), WorkByte(0))
      [] tx.fsm = "work_optv" -> Emit([To("work_nonce") EXCEPT !.byte_cnt = 0], <<"optv">>)
      [] tx.fsm = "work_nonce" ->
            IF work_tx.empty THEN Stay
            ELSE IF LastByte
            THEN Reading(Emit([To("work_chunk2") EXCEPT !.byte_cnt = 0, !.word_cnt = 2], <<"00">>), "work_rd")
            ELSE Emit(NextByte, <<"00">>)
      [] tx.fsm = "work_chunk2" ->
            IF work_tx.empty THEN Stay
            ELSE IF ~LastByte THEN Emit(NextByte, WorkByte(tx.byte_cnt))
            ELSE Reading(Emit(IF tx.word_cnt = 0
                              THEN [NextByte EXCEPT !.fsm = "work_midstate",
                                                    !.word_cnt = MidstateWords - 1]
                              ELSE [NextByte EXCEPT !.word_cnt = @ - 1],
                              WorkByte(tx.byte_cnt)), "work_rd")
      [] tx.fsm = "work_midstate" ->
            IF work_tx.empty /\ tx.word_cnt # 0 THEN Stay
            ELSE IF ~LastByte THEN Emit(NextByte, WorkByte(3 - tx.byte_cnt))
            ELSE IF tx.word_cnt = 0 THEN Emit([NextByte EXCEPT !.fsm = "work_crc16"], WorkByte(0))
            ELSE Reading(Emit([NextByte EXCEPT !.word_cnt = @ - 1], WorkByte(0)), "work_rd")
      [] tx.fsm = "work_crc16" ->
            EmitRaw(IF tx.byte_cnt = 1
                    THEN [NextByte EXCEPT !.fsm = IF cmd_tx.empty THEN "wait_sync" ELSE "cmd_read"]
                    ELSE NextByte, <<"crc16">>)

\* The states that send a command.  Its first word tells how many words and how
\* many bytes of the last one there are.
FsmCmd ==
    CASE tx.fsm = "cmd_read" -> Reading(Go("cmd_check"), "cmd_rd")
      [] tx.fsm = "cmd_check" ->
            [regs |-> [To("cmd_check_1") EXCEPT
                          !.byte_cnt = 0,
                          !.word_cnt = (cmd_tx.data_r.len - 2) \div 4,
                          !.byte_rest = (cmd_tx.data_r.len - 2) % 4],
             out |-> Quiet]
      [] ~Ready -> Stay
      [] tx.fsm = "cmd_check_1" ->
            IF cmd_tx.empty /\ tx.word_cnt # 0 THEN Stay
            ELSE Go(IF regs.bm139x THEN "cmd_55" ELSE "cmd_cmd")
      [] tx.fsm = "cmd_55" -> EmitRaw(To("cmd_AA"), <<"55">>)
      [] tx.fsm = "cmd_AA" -> EmitRaw(To("cmd_cmd"), <<"AA">>)
      [] tx.fsm = "cmd_cmd" -> Emit([NextByte EXCEPT !.fsm = "cmd_data"], CmdByte(0))
      [] tx.fsm = "cmd_data" ->
            IF cmd_tx.empty /\ tx.word_cnt # 0 THEN Stay
            ELSE IF tx.word_cnt = 0
            THEN Emit([NextByte EXCEPT !.fsm = IF tx.byte_cnt = tx.byte_rest THEN "cmd_crc5" ELSE @],
                      CmdByte(tx.byte_cnt))
            ELSE IF ~LastByte THEN Emit(NextByte, CmdByte(tx.byte_cnt))
            ELSE Reading(Emit([NextByte EXCEPT !.word_cnt = @ - 1], CmdByte(3)), "cmd_rd")
      [] tx.fsm = "cmd_crc5" -> EmitRaw(To("wait_sync"), <<"crc5">>)

Fsm ==
    CASE tx.fsm \in {"idle", "wait_sync", "check"} -> FsmControl
      [] tx.fsm \in {"cmd_read", "cmd_check", "cmd_check_1", "cmd_55", "cmd_AA",
                     "cmd_cmd", "cmd_data", "cmd_crc5"} -> FsmCmd
      [] OTHER -> FsmWork

\* How long the CRC engine is busy: it takes the bits of a byte one by one.
CrcBusy(cnt, write) == IF write THEN CrcCycles ELSE IF cnt = 0 THEN 0 ELSE cnt - 1

\* p_work_time_cnt.
Timer(ack) ==
    [cnt |-> IF timer.cnt = 0 THEN WorkTime - 1 ELSE timer.cnt - 1,
     out |-> ~ack /\ (timer.out \/ timer.cnt = 0)]

-----------------------------------------------------------------------------
\* The frames the chips have to hear.
Preamble == IF regs.bm139x THEN <<<<"55">>, <<"AA">>>> ELSE <<>>

CmdFrame(n) ==
    Preamble \o [j \in 1 .. 4 * cmd.words[n] |-> <<n, 1 + ((j - 1) \div 4), (j - 1) % 4>>]
             \o <<<<"crc5">>>>

WorkFrame(n) ==
    Preamble \o <<<<"21">>, <<"length">>, <<n, 1, 0>>, <<"optv">>, <<"00">>, <<"00">>, <<"00">>, <<"00">>>>
             \o [j \in 1 .. 12 |-> <<n, 2 + ((j - 1) \div 4), (j - 1) % 4>>]
             \o [j \in 1 .. 4 * MidstateWords |-> <<n, 5 + ((j - 1) \div 4), 3 - ((j - 1) % 4)>>]
             \o <<<<"crc16">>, <<"crc16">>>>

\* A byte without the speed it was written at.
Plain(b) == IF Len(b) = 1 THEN b ELSE <<b[1], b[2], b[4]>>

\* History: nothing is expected of frames sent before the chain is reset.
Unheard == [rest |-> {<<>>}, cmds |-> Len(cmd.words), works |-> work.n]

\* History: the transmitter takes the next byte of a frame.
Expected ==
    IF wire.rest # {<<>>} THEN wire.rest
    ELSE {CmdFrame(n) : n \in {wire.cmds + 1} \cap 1 .. Len(cmd.words)}
           \cup {WorkFrame(n) : n \in {wire.works + 1} \cap 1 .. work.n}

Heard ==
    IF uart.tx.fsm = "idle" /\ ~uart.txf.empty /\ uart.div.en
    THEN LET byte == Plain(uart.txf.data_r)
             rest == {Tail(f) : f \in {g \in Expected : Head(g) = byte}}
             sent(last) == IF rest = {<<>>} /\ byte = last THEN 1 ELSE 0
         IN  [rest |-> rest, cmds |-> wire.cmds + sent(<<"crc5">>),
              works |-> wire.works + sent(<<"crc16">>)]
    ELSE wire

\* An edge of the clock while the bus writes these words and registers.  A write
\* comes before the core's own clearing of a register.
ClockEdge(cmdw, workw, written) ==
    LET e == Fsm
        o == e.out
        clear == o.clear \/ (o.ack /\ regs.rst)
        word(w) == IF w = <<>> THEN NoData ELSE w[1]
    IN  /\ tx' = [e.regs EXCEPT
                     !.fsm = IF regs.enable THEN @ ELSE "idle",
                     !.crc = CrcBusy(@, o.crc)]
        /\ uart' = U!UartStep(uart, regs.baud, o.clear, o.byte # <<>>, word(o.byte), FALSE, 1,
                            [i \in 1 .. TxBits |-> 0])
        /\ cmd_tx' = BlockStep(cmd_tx, CmdSize, cmdw # <<>>, word(cmdw), o.cmd_rd, clear)
        /\ work_tx' = BlockStep(work_tx, WorkSize, workw # <<>>, word(workw), o.work_rd, clear)
        /\ timer' = Timer(o.ack)
        /\ regs' = written @@ [regs EXCEPT !.rst = @ /\ ~o.ack]
        /\ wire' = IF chain.pc = "ready" THEN Heard ELSE Unheard

Idle == ClockEdge(<<>>, <<>>, <<>>) /\ UNCHANGED <<chain, cmd, work>>

-----------------------------------------------------------------------------
\* HashChain::new and init: the core is restarted and its FIFOs are cleared, the
\* slow speed is set, and the chain is held in reset with the core disabled.
\* The delays in between are long enough for what the core still has to do.
Setup(from, to, written) ==
    /\ chain.pc = from
    /\ chain' = [chain EXCEPT !.pc = to]
    /\ ClockEdge(<<>>, <<>>, written)
    /\ UNCHANGED <<cmd, work>>

DisableCore == Setup("disable", "enable", [enable |-> FALSE])
EnableCore == Setup("enable", "fifos", [enable |-> TRUE])
InitFifos == Setup("fifos", "speed", [rst |-> TRUE])
IpCoreInit == ~regs.rst /\ Setup("speed", "enter", [baud |-> InitSpeed])
EnterReset == Setup("enter", "exit", [enable |-> FALSE])
ExitReset == U!UartTxReady(uart) /\ tx.fsm = "idle" /\ Setup("exit", "up", [enable |-> TRUE])
Wake == tx.fsm # "idle" /\ U!UartTxReady(uart) /\ Setup("up", "ready", <<>>)

\* The chain was stopped and is started anew.
Restart ==
    /\ chain.pc = "ready" /\ cmd.pc = "idle" /\ work.pc = "idle"
    /\ chain.restarts < MaxRestarts /\ work.n + chain.restarts < MaxWorks
    /\ chain' = [pc |-> "disable", restarts |-> chain.restarts + 1]
    /\ ClockEdge(<<>>, <<>>, <<>>)
    /\ UNCHANGED <<cmd, work>>

\* send_command: a read or an address is one word and nobody waits for it; a
\* register write is two words and the sender waits until the FIFO is empty.
BeginCommand(words) ==
    /\ chain.pc = "ready" /\ cmd.pc = "idle" /\ Len(cmd.words) < MaxCommands
    /\ cmd' = [pc |-> "write", words |-> Append(cmd.words, words), next |-> 1]
    /\ ClockEdge(<<>>, <<>>, <<>>)
    /\ UNCHANGED <<chain, work>>

WriteCommand ==
    /\ cmd.pc = "write" /\ ~cmd_tx.full
    /\ LET n == Len(cmd.words)
           last == cmd.next = cmd.words[n]
       IN  /\ ClockEdge(<<[id |-> <<n, cmd.next, regs.baud>>, len |-> CmdLength(cmd.words[n])]>>,
                        <<>>, <<>>)
           /\ cmd' = [cmd EXCEPT !.next = @ + 1,
                                 !.pc = IF ~last THEN @ ELSE IF cmd.words[n] = 2 THEN "wait" ELSE "idle"]
    /\ UNCHANGED <<chain, work>>

\* Mutant: the sender does not wait.
WaitTxHasty ==
    /\ cmd.pc = "wait"
    /\ cmd' = [cmd EXCEPT !.pc = "sent"]
    /\ ClockEdge(<<>>, <<>>, <<>>)
    /\ UNCHANGED <<chain, work>>

WaitTxEmpty ==
    /\ cmd.pc = "wait" /\ cmd_tx.empty
    /\ cmd' = [cmd EXCEPT !.pc = "sent"]
    /\ ClockEdge(<<>>, <<>>, <<>>)
    /\ UNCHANGED <<chain, work>>

\* The register was MiscCtrl with the fast speed (configure_hash_chain and
\* set_ip_core_baud_rate), or any other.
Written(speed) ==
    /\ cmd.pc = "sent" /\ (speed # regs.baud => regs.baud = InitSpeed)
    /\ cmd' = [cmd EXCEPT !.pc = "idle"]
    /\ ClockEdge(<<>>, <<>>, [baud |-> speed])
    /\ UNCHANGED <<chain, work>>

\* wait_for_room and send_work, which start once the chain is initialised.
WaitForRoom ==
    /\ chain.pc = "ready" /\ regs.baud = TargetSpeed
    /\ work.pc = "idle" /\ work.n + chain.restarts < MaxWorks
    /\ ThrIrq(work_tx, WorkSize, FIFO_THRESHOLD)
    /\ work' = [pc |-> "write", n |-> work.n + 1, next |-> 1]
    /\ ClockEdge(<<>>, <<>>, <<>>)
    /\ UNCHANGED <<chain, cmd>>

SendWork ==
    /\ work.pc = "write" /\ ~work_tx.full
    /\ work' = [work EXCEPT !.next = @ + 1, !.pc = IF work.next = WorkWords THEN "idle" ELSE @]
    /\ ClockEdge(<<>>, <<<<work.n, work.next, regs.baud>>>>, <<>>)
    /\ UNCHANGED <<chain, cmd>>

TxNext ==
    \/ Idle
    \/ DisableCore \/ EnableCore \/ InitFifos \/ IpCoreInit \/ EnterReset \/ ExitReset
    \/ Wake \/ Restart
    \/ \E words \in {1, 2} : BeginCommand(words)
    \/ WriteCommand \/ WaitTxEmpty
    \/ \E speed \in {regs.baud, TargetSpeed} : Written(speed)
    \/ WaitForRoom \/ SendWork

TxSpec == TxInit /\ [][TxNext]_txvars

-----------------------------------------------------------------------------
\* What the chips hear is always a beginning of the next command or of the next
\* work: frames are whole, in order, and not mixed, however the driver's writes,
\* the full UART and the two FIFOs meet (p_fsm_cmb, uart).
FramesWhole == wire.rest # {}

\* Every byte of a command or work goes out at the speed that was set when it was
\* written, although the driver changes the speed as soon as the command FIFO is
\* empty (set_ip_core_baud_rate after write_register).
SentAtItsSpeed ==
    chain.pc = "ready" /\ uart.tx.fsm = "idle" /\ ~uart.txf.empty /\ uart.div.en
        /\ Len(uart.txf.data_r) = 4
      => uart.txf.data_r[3] = uart.division

\* The transmit path as a whole: frames whole and in order, each at its own speed.
TxIsFaithful == FramesWhole /\ SentAtItsSpeed
=============================================================================
