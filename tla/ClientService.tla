---------------------------- MODULE ClientService ----------------------------
(***************************************************************************)
(* What the rest of bosminer may rely on from a client, whatever happens   *)
(* inside it: a job is only ever handed to the hardware by a client that   *)
(* is up, and a client that goes down has taken its job back first.        *)
(***************************************************************************)
VARIABLES up, job

svars == <<up, job>>

SInit == up = FALSE /\ job = FALSE

ComeUp == ~up /\ up' = TRUE /\ UNCHANGED job
SendJob == up /\ job' = TRUE /\ UNCHANGED up
TakeBack == up /\ job' = FALSE /\ UNCHANGED up
GoDown == up /\ ~job /\ up' = FALSE /\ UNCHANGED job

SNext == ComeUp \/ SendJob \/ TakeBack \/ GoDown

SSpec == SInit /\ [][SNext]_svars
=============================================================================
