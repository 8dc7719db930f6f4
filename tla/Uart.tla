-------------------------------- MODULE Uart --------------------------------
(* The UART of the IP core: baud rate generator, transmitter, receiver and     *)
(* their FIFOs, register by register.  A step is one clock edge.               *)
EXTENDS Fifo

CONSTANTS
    DB,          \* data bits of a byte
    SPB,         \* samples per bit
    CntWidth,    \* number of values of the divider's counter
    UartSize     \* size of the FIFOs

\* mod_divider: counts up to the division and then raises clk_en for a cycle.
\* A division below the count is met only after the counter has wrapped.
Divider(d, division) ==
    [cnt |-> IF d.cnt = division THEN 0 ELSE (d.cnt + 1) % CntWidth,
     en |-> d.cnt = division]

\* A sample has passed in a state that lasts for `n' of them.
Sampled(u, n, done) ==
    IF u.samples = n - 1 THEN done ELSE [u EXCEPT !.samples = @ + 1]

\* uart_tx: start bit, data bits from the lowest up, one stop bit.
TxIdle == [fsm |-> "idle", bits |-> 0, samples |-> 0, data |-> [i \in 1 .. DB |-> 0], txd |-> 1]

TxState(u, clk_en, start, data) ==
    CASE u.fsm = "idle" /\ start ->
            [u EXCEPT !.fsm = "start", !.samples = 0, !.data = data]
      [] u.fsm = "start" /\ clk_en ->
            Sampled(u, SPB, [u EXCEPT !.fsm = "data", !.samples = 0, !.bits = 0])
      [] u.fsm = "data" /\ clk_en ->
            Sampled(u, SPB, [u EXCEPT !.samples = 0, !.data = Append(Tail(@), 0),
                                      !.fsm = IF u.bits = DB - 1 THEN "stop" ELSE @,
                                      !.bits = IF u.bits = DB - 1 THEN @ ELSE @ + 1])
      [] u.fsm = "stop" /\ clk_en ->
            Sampled(u, SPB, [u EXCEPT !.fsm = "idle"])
      [] OTHER -> u

UartTx(u, clk_en, start, data) ==
    [TxState(u, clk_en, start, data) EXCEPT
        !.txd = CASE u.fsm = "data" -> Head(u.data)
                  [] u.fsm = "start" -> 0
                  [] OTHER -> 1]

\* uart_rx: waits for a start bit, looks at its middle and then at the middle of
\* each following bit.
RxIdle == [fsm |-> "idle", bits |-> 0, samples |-> 0, data |-> [i \in 1 .. DB |-> 0]]

UartRx(u, clk_en, rxd) ==
    CASE u.fsm = "idle" /\ rxd = 0 ->
            [u EXCEPT !.fsm = "start", !.samples = 0, !.bits = 0]
      [] u.fsm = "start" /\ clk_en ->
            Sampled(u, SPB \div 2, [u EXCEPT !.samples = 0,
                                             !.fsm = IF rxd = 0 THEN "data" ELSE "idle"])
      [] u.fsm = "data" /\ clk_en ->
            Sampled(u, SPB, [u EXCEPT !.samples = 0, !.data = Append(Tail(@), rxd),
                                      !.fsm = IF u.bits = DB - 1 THEN "stop" ELSE @,
                                      !.bits = IF u.bits = DB - 1 THEN @ ELSE @ + 1])
      [] u.fsm = "stop" /\ clk_en ->
            Sampled(u, SPB, [u EXCEPT !.fsm = "idle"])
      [] OTHER -> u

\* The last sample of the stop bit: rx_done when the line is high, an error of
\* the frame when it is not.
StopSample(u, clk_en) == u.fsm = "stop" /\ clk_en /\ u.samples = SPB - 1
RxDone(u, clk_en, rxd) == StopSample(u, clk_en) /\ rxd = 1
FrameError(u, clk_en, rxd) == StopSample(u, clk_en) /\ rxd = 0

-----------------------------------------------------------------------------
\* The UART with its FIFOs.  `bits' gives the data bits of an item of the FIFO.
UartReset ==
    [rxd |-> <<1, 1, 1>>, div |-> [cnt |-> 0, en |-> FALSE], division |-> 0,
     tx |-> TxIdle, rx |-> RxIdle, txf |-> FifoReset(UartSize), rxf |-> FifoReset(UartSize),
     frame_err |-> FALSE, over_err |-> FALSE]

\* Mutant: bytes that wait are not looked at.
UartTxIdle(u) == u.tx.fsm = "idle"

\* uart_tx_ready: nothing is being sent and nothing waits.
UartTxReady(u) == u.tx.fsm = "idle" /\ u.txf.empty

\* sync_busy: a new division waits for the transmitter.
SyncBusy(u, division) == ~UartTxReady(u) /\ u.division # division

\* An edge of the clock; `bits' are those of the byte at the head of the transmit FIFO.
UartStep(u, division, clear, tx_write, data, rx_read, rxd, bits) ==
    LET tx_read == u.tx.fsm = "idle" /\ ~u.txf.empty /\ u.div.en
        rx_done == RxDone(u.rx, u.div.en, u.rxd[1])
    IN  [rxd |-> Append(Tail(u.rxd), rxd),
         div |-> Divider(u.div, u.division),
         division |-> IF UartTxReady(u) THEN division ELSE u.division,
         tx |-> UartTx(u.tx, u.div.en, tx_read, bits),
         rx |-> UartRx(u.rx, u.div.en, u.rxd[1]),
         txf |-> DistrStep(u.txf, UartSize, tx_write, data, tx_read, clear),
         rxf |-> DistrStep(u.rxf, UartSize, rx_done, u.rx.data, rx_read, clear),
         frame_err |-> u.frame_err \/ FrameError(u.rx, u.div.en, u.rxd[1]),
         over_err |-> u.over_err \/ (rx_done /\ u.rxf.full)]
=============================================================================
