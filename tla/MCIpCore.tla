------------------------------- MODULE MCIpCore -------------------------------
(* Parts of the IP core with their surroundings, and the grading and counting  *)
(* of what comes out of it.  The parts are independent here, so each behaviour *)
(* is one of a single part and the others rest.                                *)
EXTENDS FifoQueue, UartLink, IpCoreTx, AxiSlave, MiningStats, BitcoinTarget

VARIABLE part

Parts == {"fifo", "link", "tx", "axi", "stats", "targets"}

SlowThenFast == <<2, 0>>

MCInit ==
    /\ part \in Parts
    /\ QInit /\ LinkInit /\ TxInit /\ AxiInit /\ StatsInit /\ TargetInit
    /\ part # "link" => far.div.cnt = 0
    /\ part # "tx" => ~regs.bm139x

MCNext ==
    \/ part = "fifo" /\ QNext    /\ UNCHANGED <<part, linkvars, txvars, axivars, stats_vars, conversion>>
    \/ part = "link" /\ LinkNext /\ UNCHANGED <<part, qvars, txvars, axivars, stats_vars, conversion>>
    \/ part = "tx"   /\ TxNext   /\ UNCHANGED <<part, qvars, linkvars, axivars, stats_vars, conversion>>
    \/ part = "axi"  /\ AxiNext  /\ UNCHANGED <<part, qvars, linkvars, txvars, stats_vars, conversion>>
    \/ part = "stats" /\ StatsNext /\ UNCHANGED <<part, qvars, linkvars, txvars, axivars, conversion>>
    \/ part = "targets" /\ TargetNext /\ UNCHANGED <<part, qvars, linkvars, txvars, axivars, stats_vars>>

MCSpec == MCInit /\ [][MCNext]_<<part, qvars, linkvars, txvars, axivars, stats_vars, conversion>>
=============================================================================
