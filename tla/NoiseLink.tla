------------------------------ MODULE NoiseLink ------------------------------
(* The encrypted Stratum V2 connection (protocols/stratum/src/v2: noise.rs,  *)
(* noise/handshake.rs, noise/codec.rs, noise/auth.rs, noise/auth/formats.rs, *)
(* framing/codec.rs): a handshake of two messages in which the responder     *)
(* shows a certificate, and the switch of the very same TCP stream to frames *)
(* encrypted under a counter.                                                *)
(*                                                                           *)
(* A noise message crosses TCP as two cells, so a read may end inside of it  *)
(* and may also bring the beginning of the next one.  Keys and signatures    *)
(* are ideal: a signature is what was signed, and a ciphertext is opened by  *)
(* the peer's counter only.                                                  *)
EXTENDS Naturals, Sequences

CONSTANTS
  UnixWrap,   \* values of the u32 unix time of a certificate (2^32)
  MaxTime,    \* bound: the clock of the behaviours
  MaxSealed   \* bound: frames sent in each direction

ASSUME UnixAssumption == UnixWrap \in Nat \ {0}
ASSUME BoundAssumption == {MaxTime, MaxSealed} \subseteq Nat

VARIABLES
  noise,      \* per side: stage, mode, read buffer, counters, frames sent and received
  noiseWire,  \* cells travelling towards each side
  noiseClock, \* system time
  noiseCert   \* the certificate the responder was configured with
noiseVars == <<noise, noiseWire, noiseClock, noiseCert>>

Sides == {"initiator", "responder"}
Peer(side) == IF side = "initiator" THEN "responder" ELSE "initiator"

-----------------------------------------------------------------------------
(* Certificates *)

\* The key the initiator trusts, and the static key of the responder's handshake.
Authority == "authority"
StaticKey == "static"

UnixTime(t) == t % UnixWrap
\* with_duration: valid from the moment of signing.
SignedPartHeader(now, duration) ==
  [valid_from |-> UnixTime(now), not_valid_after |-> UnixTime(now + duration)]
VerifyExpiration(header, now) ==
  UnixTime(now) >= header.valid_from /\ UnixTime(now) <= header.not_valid_after

SignedPart(header, pubkey, authority) ==
  [header |-> header, pubkey |-> pubkey, authority |-> authority]
\* ed25519: only the authority's key makes this.
Sign(part) == [signed |-> part]
Certificate(part) == [part |-> part, signature |-> Sign(part)]
VerifySignature(part, signature) == signature = [signed |-> part]

\* Certificate::build_noise_message: what travels is the header and the
\* signature; the keys are the ones the initiator already has.
NoiseMessage(cert) == [header |-> cert.part.header, signature |-> cert.signature]
ValidateCertificate(message, remote_static, now) ==
  /\ VerifySignature(SignedPart(message.header, remote_static, Authority), message.signature)
  /\ VerifyExpiration(message.header, now)

-----------------------------------------------------------------------------
(* The noise codec over the stream *)

Cells(message) == <<[of |-> message, half |-> 1], [of |-> message, half |-> 2]>>
\* LengthDelimitedCodec: the first whole message of a buffer.
HasMessage(buf) == Len(buf) >= 2
FirstMessage(buf) == buf[1].of
AfterMessage(buf) == SubSeq(buf, 3, Len(buf))

Hello == [kind |-> "e"]
Reply(cert) == [kind |-> "reply", static |-> StaticKey, message |-> NoiseMessage(cert)]
\* TransportMode::write and ::read: the counter of the direction is the nonce.
Sealed(side, frame) ==
  [kind |-> "data", from |-> side, nonce |-> noise[side].tx, frame |-> frame]
Opens(side, message) ==
  message.kind = "data" /\ message.from = Peer(side) /\ message.nonce = noise[side].rx

Send(side, message) == noiseWire' = [noiseWire EXCEPT ![Peer(side)] = @ \o Cells(message)]
\* The stream of a side that gave up is dropped, and with it what it has not read.
GiveUp(side, mode) ==
  noise' = [noise EXCEPT ![side].mode = mode, ![side].buf = <<>>]

NoiseInit ==
  /\ noise = [side \in Sides |-> [stage |-> 0, mode |-> "start", buf |-> <<>>,
                                  tx |-> 0, rx |-> 0, sent |-> <<>>, got |-> <<>>]]
  /\ noiseWire = [side \in Sides |-> <<>>]
  /\ noiseClock \in 0..MaxTime
  /\ \E now \in 0..MaxTime, duration \in 0..1, key \in {StaticKey, "other key"},
        authority \in {Authority, "other authority"} :
       noiseCert = Certificate(SignedPart(SignedPartHeader(now, duration), key, authority))

Tick ==
  /\ noiseClock < MaxTime
  /\ noiseClock' = noiseClock + 1
  /\ UNCHANGED <<noise, noiseWire, noiseCert>>

\* TCP hands the next cell to a reader.
DeliverCell(side) ==
  /\ noiseWire[side] # <<>>
  /\ noise[side].mode \in {"wait", "transport"}
  /\ noise' = [noise EXCEPT ![side].buf = Append(@, Head(noiseWire[side]))]
  /\ noiseWire' = [noiseWire EXCEPT ![side] = Tail(@)]
  /\ UNCHANGED <<noiseClock, noiseCert>>

-----------------------------------------------------------------------------
(* The handshake: one loop of Handshake::run *)

\* Initiator stage 0: -> e, and a reply is expected.
InitiatorHello ==
  /\ noise["initiator"].mode = "start" /\ noise["initiator"].stage = 0
  /\ noise' = [noise EXCEPT !["initiator"].stage = 1, !["initiator"].mode = "wait"]
  /\ Send("initiator", Hello)
  /\ UNCHANGED <<noiseClock, noiseCert>>

\* Responder stage 0: nothing to send, receive a message.
ResponderReceive ==
  /\ noise["responder"].mode = "start" /\ noise["responder"].stage = 0
  /\ noise' = [noise EXCEPT !["responder"].stage = 1, !["responder"].mode = "wait"]
  /\ UNCHANGED <<noiseWire, noiseClock, noiseCert>>

\* (Mutant: the new codec starts with an empty buffer.)
IntoFreshFramed(state, rest) ==
  [state EXCEPT !.stage = @ + 1, !.mode = "transport", !.buf = <<>>]
\* into_stratum_framed_stream: the noise codec enters transport mode inside of
\* the frame codec, and the bytes that were read too early stay in the buffer.
IntoFramed(state, rest) ==
  [state EXCEPT !.stage = @ + 1, !.mode = "transport", !.buf = rest]

\* Initiator stage 1: <- e, ee, s, es; the certificate decides.
InitiatorFinish ==
  LET side == "initiator"
      message == FirstMessage(noise[side].buf)
  IN  /\ noise[side].mode = "wait" /\ HasMessage(noise[side].buf)
      /\ IF message.kind = "reply" /\ ValidateCertificate(message.message, message.static, noiseClock)
         THEN noise' = [noise EXCEPT ![side] = IntoFramed(@, AfterMessage(@.buf))]
         ELSE GiveUp(side, "failed")
      /\ UNCHANGED <<noiseWire, noiseClock, noiseCert>>

\* Responder stage 1: <- e, then -> e, ee, s, es with the signature; no reply.
ResponderReply ==
  LET side == "responder"
  IN  /\ noise[side].mode = "wait" /\ HasMessage(noise[side].buf)
      /\ IF FirstMessage(noise[side].buf) = Hello
         THEN /\ noise' = [noise EXCEPT ![side].stage = 2, ![side].mode = "replied",
                                        ![side].buf = AfterMessage(@)]
              /\ Send(side, Reply(noiseCert))
         ELSE GiveUp(side, "failed") /\ UNCHANGED noiseWire
      /\ UNCHANGED <<noiseClock, noiseCert>>

\* Responder stage 2: done.
ResponderDone ==
  /\ noise["responder"].mode = "replied"
  /\ noise' = [noise EXCEPT !["responder"] = IntoFramed(@, @.buf)]
  /\ UNCHANGED <<noiseWire, noiseClock, noiseCert>>

\* HANDSHAKE_TIMEOUT passes while a message is received or sent.
HandshakeTimeout(side) ==
  /\ noise[side].mode \in {"wait", "replied"}
  /\ GiveUp(side, "failed")
  /\ UNCHANGED <<noiseWire, noiseClock, noiseCert>>

\* The peer's end of the stream is closed and all of it has been read.
PeerClosed(side) ==
  /\ noise[Peer(side)].mode = "failed"
  /\ noiseWire[side] = <<>> /\ ~HasMessage(noise[side].buf)
  /\ noise[side].mode \in {"wait", "transport"}
  /\ GiveUp(side, "failed")
  /\ UNCHANGED <<noiseWire, noiseClock, noiseCert>>

-----------------------------------------------------------------------------
(* Transport *)

SendFrame(side) ==
  LET frame == Len(noise[side].sent) + 1
  IN  /\ noise[side].mode = "transport" /\ frame <= MaxSealed
      /\ Send(side, Sealed(side, frame))
      /\ noise' = [noise EXCEPT ![side].tx = @ + 1, ![side].sent = Append(@, frame)]
      /\ UNCHANGED <<noiseClock, noiseCert>>

\* A frame above MAX_PAYLOAD_SIZE fails the assertion of the encoder.
SendOversized(side) ==
  /\ noise[side].mode = "transport"
  /\ GiveUp(side, "failed")
  /\ UNCHANGED <<noiseWire, noiseClock, noiseCert>>

ReceiveFrame(side) ==
  LET message == FirstMessage(noise[side].buf)
  IN  /\ noise[side].mode = "transport" /\ HasMessage(noise[side].buf)
      /\ IF Opens(side, message)
         THEN noise' = [noise EXCEPT ![side].rx = @ + 1, ![side].buf = AfterMessage(@),
                                     ![side].got = Append(@, message.frame)]
         ELSE GiveUp(side, "broken")
      /\ UNCHANGED <<noiseWire, noiseClock, noiseCert>>

NoiseNext ==
  \/ Tick
  \/ InitiatorHello \/ ResponderReceive \/ InitiatorFinish \/ ResponderReply \/ ResponderDone
  \/ \E side \in Sides :
       \/ DeliverCell(side) \/ HandshakeTimeout(side) \/ PeerClosed(side)
       \/ SendFrame(side) \/ SendOversized(side) \/ ReceiveFrame(side)
NoiseSpec == NoiseInit /\ [][NoiseNext]_noiseVars

-----------------------------------------------------------------------------
\* What was received is how the peer began to send.
StartsAs(got, sent) == Len(got) <= Len(sent) /\ \A i \in DOMAIN got : got[i] = sent[i]

\* No frame is lost, doubled or reordered, not even one that arrives together
\* with the last handshake message: what a side got is what its peer sent, from
\* the first frame on, nothing fails to decrypt, and once the stream is drained
\* it got everything (into_stratum_framed_stream, Codec::decode).
NoiseInOrder ==
  \A side \in Sides :
    /\ StartsAs(noise[side].got, noise[Peer(side)].sent)
    /\ noise[side].mode # "broken"
    /\ noise[side].mode = "transport" /\ noise[side].buf = <<>> /\ noiseWire[side] = <<>> =>
         noise[side].got = noise[Peer(side)].sent

\* The initiator sends frames only to the holder of a static key that its
\* authority signed, in a handshake in which the responder took part
\* (Initiator::step, Certificate::validate).
PeerIsCertified ==
  noise["initiator"].mode = "transport" =>
    /\ noiseCert.part.authority = Authority /\ noiseCert.part.pubkey = StaticKey
    /\ noiseCert.part.header.valid_from <= noiseClock
    /\ noise["responder"].stage >= 2

\* The secured stream as a whole: complete, in order, and with the right peer.
NoiseIsSound == NoiseInOrder /\ PeerIsCertified
=============================================================================
