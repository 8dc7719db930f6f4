------------------------------ MODULE MCV1Session ------------------------------
(* A session with a V1 pool, and what lies below every session: the bytes of V2 *)
(* messages on a stream, and the encrypted stream.  Each behaviour is one of a   *)
(* single part and the others rest.                                              *)
EXTENDS V1Session, V2Wire, NoiseLink

VARIABLE part

One == {1}
TwoDifficulties == {2, 5}

MCInit ==
  /\ part \in {"session", "bytes", "noise"}
  /\ Init /\ WireInit /\ NoiseInit
  /\ part # "noise" => noiseClock = 0 /\ noiseCert.part = SignedPart(SignedPartHeader(0, 0), StaticKey, Authority)

MCNext ==
  \/ part = "session" /\ Next      /\ UNCHANGED <<part, wireVars, noiseVars>>
  \/ part = "bytes"   /\ WireNext  /\ UNCHANGED <<part, vars, noiseVars>>
  \/ part = "noise"   /\ NoiseNext /\ UNCHANGED <<part, vars, wireVars>>

MCSpec == MCInit /\ [][MCNext]_<<part, vars, wireVars, noiseVars>>
=============================================================================
