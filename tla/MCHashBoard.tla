----------------------------- MODULE MCHashBoard -----------------------------
(* A hash board: its voltage controller, its chips with the sensor behind one  *)
(* of them, and the half of the IP core that receives their responses.  Each   *)
(* behaviour is one of a single part and the others rest.                      *)
EXTENDS PowerControl, ChipChain, IpCoreRx

VARIABLE part

Parts == {"power", "chips", "receive"}

TwoDevices == <<152, 154>>

MCInit ==
    /\ part \in Parts
    /\ PowerInit /\ ChainInit /\ RxInit
    /\ part # "power" => flash[1] = Firmware
    /\ part # "chips" => heat = Min(Temps)
    /\ part # "receive" => mode = "bm1387"

MCNext ==
    \/ part = "power"   /\ PowerNext /\ UNCHANGED <<part, chain_vars, rxvars>>
    \/ part = "chips"   /\ ChainNext /\ UNCHANGED <<part, power_vars, rxvars>>
    \/ part = "receive" /\ RxNext    /\ UNCHANGED <<part, power_vars, chain_vars>>

MCSpec == MCInit /\ [][MCNext]_<<part, power_vars, chain_vars, rxvars>>
=============================================================================
