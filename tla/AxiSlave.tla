------------------------------ MODULE AxiSlave ------------------------------
(* The AXI4-Lite interface of the IP core, clock edge by clock edge.  Reading  *)
(* the address of a receive FIFO takes a word out of it, and writing that of a *)
(* transmit FIFO puts one in, so a transfer must act exactly once.  As the     *)
(* design expects, the bus has at most one write and one read under way.       *)
EXTENDS Fifo

CONSTANTS AxiSize, MaxTransfers

ASSUME AxiAssumption == AxiSize \in Nat \ {0, 1} /\ MaxTransfers \in Nat

VARIABLES
    axi,      \* registers of the interface
    bus,      \* the master: its four requests, its two ready signals, addresses
    rxq,      \* a receive FIFO; the core puts 1, 2, 3, ... into it
    core,     \* words that the core put in, and words that were written for it
    master    \* history: writes to the FIFO completed, words read from the FIFO

axivars == <<axi, bus, rxq, core, master>>

Addresses == {"fifo", "reg"}

AxiInit ==
    /\ axi = [awready |-> FALSE, wready |-> FALSE, awaddr |-> "reg", bvalid |-> FALSE,
              arready |-> FALSE, araddr |-> "reg", rvalid |-> FALSE]
    /\ bus = [aw |-> "none", w |-> "none", ar |-> "none", bready |-> FALSE,
              rready |-> FALSE, awaddr |-> "reg", araddr |-> "reg"]
    /\ rxq = FifoReset(AxiSize)
    /\ core = [put |-> 0, pushed |-> 0]
    /\ master = [written |-> 0, read |-> <<>>]

\* Mutant: a read acts as soon as it is asked for.
RegRdenEarly == bus.ar = "valid" /\ ~axi.rvalid

\* slv_reg_wren and slv_reg_rden.
RegWren == axi.awready /\ bus.aw = "valid" /\ axi.wready /\ bus.w = "valid"
RegRden == axi.arready /\ bus.ar = "valid" /\ ~axi.rvalid

\* The interface after an edge; aw_en is always set.
AxiStep ==
    LET both == bus.aw = "valid" /\ bus.w = "valid"
        address == ~axi.awready /\ both
        read == ~axi.arready /\ bus.ar = "valid"
    IN  [awready |-> address,
         wready |-> ~axi.wready /\ both,
         awaddr |-> IF address THEN bus.awaddr ELSE axi.awaddr,
         bvalid |-> IF axi.bvalid THEN ~bus.bready ELSE RegWren,
         arready |-> read,
         araddr |-> IF read THEN bus.araddr ELSE axi.araddr,
         rvalid |-> IF axi.rvalid THEN ~bus.rready ELSE RegRden]

\* S_AXI_RDATA: the port of the FIFO, or a register, whose value is left out.
RData == IF axi.araddr = "fifo" THEN rxq.data_r ELSE NoData

\* A request is made ("valid") and accepted ("taken").  It is held until
\* then, and the next one is made after the response; when is the master's choice.
Held(request, ready, response) ==
    CASE request = "valid" -> {IF ready THEN "taken" ELSE "valid"}
      [] request = "taken" -> {IF response THEN "none" ELSE "taken"}
      [] request = "none"  -> {"none", "valid"}

\* An address is given with its request.
Given(request, next, address) ==
    IF request = "none" /\ next = "valid" THEN Addresses ELSE {address}

\* An edge of the clock.
AxiEdge ==
    LET written == axi.bvalid /\ bus.bready
        read == axi.rvalid /\ bus.rready
    IN  /\ axi' = AxiStep
        /\ \E aw \in Held(bus.aw, axi.awready, written), w \in Held(bus.w, axi.wready, written),
              ar \in Held(bus.ar, axi.arready, read), bready, rready \in BOOLEAN :
           \E awaddr \in Given(bus.aw, aw, bus.awaddr), araddr \in Given(bus.ar, ar, bus.araddr) :
              bus' = [aw |-> aw, w |-> w, ar |-> ar, bready |-> bready, rready |-> rready,
                      awaddr |-> awaddr, araddr |-> araddr]
        /\ \E put \in BOOLEAN :
              /\ put => core.put < MaxTransfers /\ ~rxq.full
              /\ rxq' = BlockStep(rxq, AxiSize, put, core.put + 1,
                                  RegRden /\ axi.araddr = "fifo", FALSE)
              /\ core' = [put |-> core.put + (IF put THEN 1 ELSE 0),
                          pushed |-> core.pushed + (IF RegWren /\ axi.awaddr = "fifo" THEN 1 ELSE 0)]
        /\ master' = [written |-> master.written + (IF written /\ bus.awaddr = "fifo" THEN 1 ELSE 0),
                      read |-> IF read /\ bus.araddr = "fifo" THEN Append(master.read, RData)
                               ELSE master.read]

\* The driver looks at the flags before it reads, and the run ends at the bound.
AxiNext ==
    /\ master.written < MaxTransfers
    /\ AxiEdge
    /\ bus'.ar = "valid" /\ bus'.araddr = "fifo" /\ bus.ar = "none" => ~rxq.empty

AxiSpec == AxiInit /\ [][AxiNext]_axivars

\* A write to a transmit FIFO puts in one word by the time the response is seen,
\* and reads of a receive FIFO return its words in order, none twice and none
\* left out, however long the master waits with its ready signals.
TransfersActOnce ==
    /\ master.read = [i \in 1 .. Len(master.read) |-> i]
    /\ core.pushed - master.written =
         (IF bus.awaddr = "fifo" /\ axi.bvalid THEN 1 ELSE 0)
    /\ core.put - Len(master.read) =
         Volume(rxq, AxiSize) + (IF rxq.full THEN AxiSize ELSE 0)
           + (IF bus.araddr = "fifo" /\ axi.rvalid THEN 1 ELSE 0)
=============================================================================
