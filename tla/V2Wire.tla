------------------------------- MODULE V2Wire -------------------------------
(* The Stratum V2 wire format (protocols/stratum/src: v2/serialization.rs,   *)
(* v2/types.rs, v2/messages.rs, v2/telemetry/messages.rs, v2/framing.rs,     *)
(* v2/framing/codec.rs, payload.rs, v2.rs): a message is serialised field by *)
(* field, gets a header, crosses a byte stream that may be cut anywhere, is  *)
(* cut out of the stream again by the length in its header and deserialised. *)
(*                                                                           *)
(* Numbers are scaled: a byte of a number has Base values instead of 256,    *)
(* and widths stay what they are, so u8, u16 and the 24-bit length run into  *)
(* their limits early.  The message type of a header keeps its real code.    *)
(* A value is a number, a Boolean or a tuple of values; a string is the      *)
(* tuple of its bytes, and the byte Base - 1 does not occur in UTF-8 text.   *)
EXTENDS Integers, Sequences, SequencesExt, FiniteSets

CONSTANTS
  Base,      \* number of values of a byte (256)
  Short,     \* the 32 of Str0_32, Str1_32, Bytes0_32 and Bytes1_32
  HashBytes, \* bytes of a Uint256Bytes (32)
  MaxSent    \* bound: frames sent in one behaviour

ASSUME WireAssumption ==
  /\ Base \in Nat /\ Base % 2 = 0 /\ Base > 2
  /\ Short \in 1..(Base - 1)
  /\ HashBytes \in Nat /\ MaxSent \in Nat

VARIABLES
  wireSent,  \* frames handed to the encoder, in order
  wireLink,  \* bytes in the TCP stream
  wireBuf,   \* read buffer of the receiver's Framed
  wireGot,   \* what each received frame was turned into, in order
  wireValue  \* a value written and read outside of frames, and what was read
wireVars == <<wireSent, wireLink, wireBuf, wireGot, wireValue>>

-----------------------------------------------------------------------------
(* Types *)

Bool == [kind |-> "bool"]
Uint(width) == [kind |-> "int", width |-> width, signed |-> FALSE]
Int_(width) == [kind |-> "int", width |-> width, signed |-> TRUE]
U8 == Uint(1)
U16 == Uint(2)
U32 == Uint(4)
U64 == Uint(8)
\* A float is its bits.
F32 == U32
\* A newtype of types.rs: what it holds, under the name serde sees.
Sized(name, of) == [kind |-> "sized", name |-> name, of |-> of]
Text == [kind |-> "text"]       \* String, with the u16 prefix of a bare string
VecOf(of) == [kind |-> "seq", of |-> of]
Option(of) == [kind |-> "option", of |-> of]
Enum(variants) == [kind |-> "enum", variants |-> variants]
Struct(fields) == [kind |-> "struct", fields |-> fields]
\* [u8; n]: a tuple of n bytes.
Uint256Bytes == Struct([i \in 1..HashBytes |-> U8])

\* MIN_LEN and MAX_LEN of the newtypes.
SizedBounds ==
  [Str0_32 |-> <<0, Short>>, Str1_32 |-> <<1, Short>>,
   Str0_255 |-> <<0, Base - 1>>, Str1_255 |-> <<1, Base - 1>>,
   Bytes0_32 |-> <<0, Short>>, Bytes1_32 |-> <<1, Short>>,
   Bytes0_255 |-> <<0, Base - 1>>, Bytes1_255 |-> <<1, Base - 1>>,
   Bytes0_64k |-> <<0, Base^2 - 1>>, Bytes1_64k |-> <<1, Base^2 - 1>>,
   Seq0_255 |-> <<0, Base - 1>>, Seq0_64k |-> <<0, Base^2 - 1>>]
Str(name) == Sized(name, Text)
Bytes(name) == Sized(name, VecOf(U8))

\* try_from, the way to every value of a newtype that the programs send.
TryFrom(name, len) == len >= SizedBounds[name][1] /\ len <= SizedBounds[name][2]

-----------------------------------------------------------------------------
(* Serializer.  The result is a set: one byte string, or none on an error.   *)

LeBytes(n, width) == [i \in 1..width |-> (n \div Base^(i - 1)) % Base]
Join(first, second) == {a \o b : a \in first, b \in second}
\* I::try_from(len): the length prefix of a sequence, u8 or u16 wide (Overlong).
LenPrefix(len, width) == {LeBytes(n, width) : n \in {len} \cap 0..(Base^width - 1)}

\* Prefix widths in serialize_newtype_struct.
EmitterWidth ==
  [Str1_32 |-> 1, Str0_32 |-> 1, Str1_255 |-> 1, Str0_255 |-> 1,
   Bytes0_32 |-> 1, Bytes1_32 |-> 1, Bytes0_255 |-> 1, Bytes1_255 |-> 1,
   Bytes0_64k |-> 2, Bytes1_64k |-> 2, Seq0_255 |-> 1, Seq0_64k |-> 2]

RECURSIVE Serialize(_, _)
\* The elements of a sequence, the fields of a struct, one after the other.
SerializeAll(types, v) ==
  FoldLeft(LAMBDA acc, i : Join(acc, Serialize(types[i], v[i])),
           {<<>>}, [i \in 1..Len(v) |-> i])
\* SizedSeqEmitter: the length in `width` bytes, then the elements.
EmitSized(of, width, v) ==
  Join(LenPrefix(Len(v), width),
       IF of.kind = "text" THEN {v} ELSE SerializeAll([i \in 1..Len(v) |-> of.of], v))
Serialize(t, v) ==
  CASE t.kind = "bool" -> {<<IF v THEN 1 ELSE 0>>}
    [] t.kind = "int" -> {LeBytes((v + Base^t.width) % Base^t.width, t.width)}
    [] t.kind \in {"text", "seq"} -> EmitSized(t, 2, v)
    [] t.kind = "sized" -> EmitSized(t.of, EmitterWidth[t.name], v)
    [] t.kind = "option" ->
         Join(Serialize(Bool, v # <<>>), IF v = <<>> THEN {<<>>} ELSE Serialize(t.of, v[1]))
    [] t.kind = "enum" -> Join(Serialize(U32, v[1]), Serialize(t.variants[v[1] + 1], v[2]))
    [] t.kind = "struct" -> SerializeAll(t.fields, v)
    [] t.kind = "map" -> {}

-----------------------------------------------------------------------------
(* Deserializer.  The result is a set: one pair of a value and the input     *)
(* that is left, or none on an error.                                        *)

LeValue(bytes) == FoldRight(LAMBDA b, acc : acc * Base + b, bytes, 0)

ReadBytes(input, size) ==
  {<<SubSeq(input, 1, n), SubSeq(input, n + 1, Len(input))>> : n \in {size} \cap 0..Len(input)}
ReadInt(input, width, signed) ==
  {LET n == LeValue(r[1])
   IN  <<IF signed /\ 2 * n >= Base^width THEN n - Base^width ELSE n, r[2]>> :
     r \in ReadBytes(input, width)}
ReadBool(input) ==
  {<<r[1] = 1, r[2]>> : r \in {r \in ReadInt(input, 1, FALSE) : r[1] \in {0, 1}}}
ReadStr(input, size) ==
  {r \in ReadBytes(input, size) : \A i \in 1..size : r[1][i] # Base - 1}

\* Bounds and prefix width in deserialize_newtype_struct.
SizedReader ==
  [Str0_32 |-> <<0, Short, 1>>, Str1_32 |-> <<1, Short, 1>>,
   Str0_255 |-> <<0, Base - 1, 1>>, Str1_255 |-> <<1, Base - 1, 1>>,
   Bytes0_32 |-> <<0, Short, 1>>, Bytes1_32 |-> <<1, Short, 1>>,
   Bytes0_255 |-> <<0, Base - 1, 1>>, Bytes1_255 |-> <<1, Base - 1, 1>>,
   Bytes0_64k |-> <<0, Base^2 - 1, 2>>, Bytes1_64k |-> <<1, Base^2 - 1, 2>>,
   Seq0_255 |-> <<0, Base - 1, 1>>, Seq0_64k |-> <<0, Base^2 - 1, 2>>]

RECURSIVE Deserialize(_, _)
\* FwdSeqAccess and the Access of deserialize_tuple: one element per type.
DeserializeAll(types, input) ==
  FoldLeft(LAMBDA acc, t : UNION {{<<Append(r[1], next[1]), next[2]>> :
                                     next \in Deserialize(t, r[2])} : r \in acc},
           {<< <<>>, input>>}, types)
\* The elements that follow a length.
DeserializeSeq(of, size, input) ==
  IF of.kind = "text" THEN ReadStr(input, size)
  ELSE DeserializeAll([i \in 1..size |-> of.of], input)
\* (Mutant: the maximum itself is overlong.)
DeserializeBelowMax(of, min, max, width, input) ==
  UNION {DeserializeSeq(of, size[1], size[2]) :
           size \in {r \in ReadInt(input, width, FALSE) : r[1] \in min..(max - 1)}}
\* deserialize_sized_seq: TooShort and Overlong outside of min..max.
DeserializeSized(of, min, max, width, input) ==
  UNION {DeserializeSeq(of, size[1], size[2]) :
           size \in {r \in ReadInt(input, width, FALSE) : r[1] \in min..max}}
\* EnumAccess and VariantAccess: a u32 index, then what the variant holds.
DeserializeEnum(variants, input) ==
  UNION {{<< <<index[1], r[1]>>, r[2]>> : r \in Deserialize(variants[index[1] + 1], index[2])} :
           index \in {r \in ReadInt(input, 4, FALSE) : r[1] < Len(variants)}}
Deserialize(t, input) ==
  CASE t.kind = "bool" -> ReadBool(input)
    [] t.kind = "int" -> ReadInt(input, t.width, t.signed)
    [] t.kind \in {"text", "seq"} -> DeserializeSized(t, 0, Base^2 - 1, 2, input)
    [] t.kind = "sized" ->
         LET reader == SizedReader[t.name]
         IN  DeserializeSized(t.of, reader[1], reader[2], reader[3], input)
    [] t.kind = "option" ->
         UNION {IF flag[1] THEN {<< <<r[1]>>, r[2]>> : r \in Deserialize(t.of, flag[2])}
                ELSE {<< <<>>, flag[2]>>} : flag \in ReadBool(input)}
    [] t.kind = "enum" -> DeserializeEnum(t.variants, input)
    [] t.kind = "struct" -> DeserializeAll(t.fields, input)
    [] t.kind = "map" -> {}
\* TrailingBytes when input is left.
FromSlice(t, bytes) == {r[1] : r \in {r \in Deserialize(t, bytes) : r[2] = <<>>}}

-----------------------------------------------------------------------------
(* Messages: payload type, header code, extension, channel flag *)

BASE == 0
TELEMETRY == 1
Message(code, extension, channel, fields) ==
  [code |-> code, extension |-> extension, channel |-> channel, type |-> Struct(fields)]

DeviceInfo == Struct([i \in 1..4 |-> Str("Str0_255")])
BaseMessages ==
  [SetupConnection |->
     Message(0, BASE, FALSE, <<U8, U16, U16, U32, Str("Str0_255"), U16, DeviceInfo>>),
   SetupConnectionSuccess |-> Message(1, BASE, FALSE, <<U16, U32>>),
   SetupConnectionError |-> Message(2, BASE, FALSE, <<U32, Str("Str0_255")>>),
   OpenStandardMiningChannel |->
     Message(16, BASE, FALSE, <<U32, Str("Str1_255"), F32, Uint256Bytes>>),
   OpenStandardMiningChannelSuccess |->
     Message(17, BASE, FALSE, <<U32, U32, Uint256Bytes, Bytes("Bytes0_32"), U32>>),
   OpenStandardMiningChannelError |-> Message(18, BASE, FALSE, <<U32, Str("Str0_32")>>),
   UpdateChannel |-> Message(22, BASE, TRUE, <<>>),
   UpdateChannelError |-> Message(23, BASE, TRUE, <<>>),
   SubmitSharesStandard |-> Message(26, BASE, TRUE, <<U32, U32, U32, U32, U32, U32>>),
   SubmitSharesSuccess |-> Message(28, BASE, TRUE, <<U32, U32, U32, U32>>),
   SubmitSharesError |-> Message(29, BASE, TRUE, <<U32, U32, Str("Str0_32")>>),
   NewMiningJob |-> Message(30, BASE, TRUE, <<U32, U32, Bool, U32, Uint256Bytes>>),
   SetNewPrevHash |-> Message(32, BASE, TRUE, <<U32, U32, Uint256Bytes, U32, U32>>),
   SetTarget |-> Message(33, BASE, TRUE, <<U32, Uint256Bytes>>)]
TelemetryMessages ==
  [OpenTelemetryChannel |-> Message(0, TELEMETRY, FALSE, <<U32, Str("Str0_255")>>),
   OpenTelemetryChannelSuccess |-> Message(1, TELEMETRY, FALSE, <<U32, U32>>),
   OpenTelemetryChannelError |-> Message(2, TELEMETRY, FALSE, <<U32, Str("Str0_32")>>),
   SubmitTelemetryData |-> Message(3, TELEMETRY, FALSE, <<U32, U32, Bytes("Bytes0_64k")>>),
   SubmitTelemetryDataSuccess |-> Message(4, TELEMETRY, FALSE, <<U32, U32>>),
   SubmitTelemetryDataError |-> Message(5, TELEMETRY, FALSE, <<U32, U32, Str("Str0_32")>>)]
Messages == [name \in DOMAIN BaseMessages \cup DOMAIN TelemetryMessages |->
               IF name \in DOMAIN BaseMessages THEN BaseMessages[name] ELSE TelemetryMessages[name]]

\* Values that are serialised outside of frames: what a noise certificate signs,
\* and what accompanies it (keys and signatures are byte strings).
SignedPartHeaderType == Struct(<<U16, U32, U32>>)
SignedPartType == Struct(<<SignedPartHeaderType, VecOf(U8), VecOf(U8)>>)
SignatureNoiseMessage == Struct(<<SignedPartHeaderType, VecOf(U8)>>)
\* The types of the serialisation tests, for what no message of the protocol uses.
MyEnum == Enum(<<Struct(<<>>), F32, Struct(<<U64>>)>>)
SeqItem == Struct(<<U32, F32>>)
MyData ==
  Struct(<<Bool, Int_(1), Int_(2), Int_(4), U64, Int_(8), Str("Str1_32"), MyEnum, Text,
           Bytes("Bytes1_255"), Sized("Seq0_255", VecOf(SeqItem)),
           Sized("Seq0_64k", VecOf(U8)), Option(U16)>>)

-----------------------------------------------------------------------------
(* Frames.  A payload is the message itself, serialised when needed, or bytes *)

HeaderSize == 6
ChannelMask == Base^2 \div 2

LazyBytes(name, value) == [lazy |-> TRUE, name |-> name, value |-> value]
SerializedBytes(bytes) == [lazy |-> FALSE, bytes |-> bytes]
ToBytes(payload) ==
  IF payload.lazy THEN Serialize(Messages[payload.name].type, payload.value) ELSE {payload.bytes}
PayloadEq(a, b) == ToBytes(a) # {} /\ ToBytes(a) = ToBytes(b)

FrameFrom(name, value) ==
  [channel |-> Messages[name].channel, extension |-> Messages[name].extension,
   code |-> Messages[name].code, payload |-> LazyBytes(name, value)]

SerializeHeader(frame, length) ==
  LeBytes(frame.extension + IF frame.channel THEN ChannelMask ELSE 0, 2)
    \o <<frame.code>> \o LeBytes(length, 3)
SerializeFrame(frame) ==
  {SerializeHeader(frame, Len(body)) \o body : body \in ToBytes(frame.payload)}

\* Frame::deserialize panics when the length is not that of the rest.
DeserializeFrame(bytes) ==
  LET field == LeValue(SubSeq(bytes, 1, 2))
  IN  [channel |-> field >= ChannelMask, extension |-> field % ChannelMask, code |-> bytes[3],
       panics |-> LeValue(SubSeq(bytes, 4, 6)) # Len(bytes) - HeaderSize,
       payload |-> SerializedBytes(SubSeq(bytes, HeaderSize + 1, Len(bytes)))]

\* The length delimited codec: bytes of the first frame in the buffer, if it is
\* whole (num_skip 0, length_adjustment = header size).
FrameLength(buf) ==
  IF Len(buf) < HeaderSize THEN 0
  ELSE LET length == HeaderSize + LeValue(SubSeq(buf, 4, 6))
       IN  IF Len(buf) < length THEN 0 ELSE length

\* build_message_from_frame of the base protocol and of the telemetry extension:
\* the message a frame stands for, none on an error.  UpdateChannel and
\* UpdateChannelError have types and codes and are not dispatched.
BuildBase(frame) ==
  IF frame.payload.lazy THEN {frame.payload}
  ELSE UNION {{LazyBytes(name, value) :
                 value \in FromSlice(BaseMessages[name].type, frame.payload.bytes)} :
              name \in {n \in DOMAIN BaseMessages \ {"UpdateChannel", "UpdateChannelError"} :
                          BaseMessages[n].code = frame.code}}
BuildTelemetry(frame) ==
  IF frame.payload.lazy THEN {frame.payload}
  ELSE UNION {{LazyBytes(name, value) :
                 value \in FromSlice(TelemetryMessages[name].type, frame.payload.bytes)} :
              name \in {n \in DOMAIN TelemetryMessages : TelemetryMessages[n].code = frame.code}}
\* Dispatch on the extension in handle_frame of the client.
HandleFrame(frame) ==
  IF frame.extension = BASE THEN BuildBase(frame) ELSE BuildTelemetry(frame)

-----------------------------------------------------------------------------
(* Inputs: one field at a limit of its type at a time *)

RECURSIVE Plain(_)
Plain(t) ==
  CASE t.kind = "bool" -> TRUE
    [] t.kind = "int" -> 1
    [] t.kind = "text" -> <<0>>
    [] t.kind = "seq" -> <<Plain(t.of)>>
    [] t.kind = "sized" -> <<IF t.of.kind = "text" THEN 0 ELSE Plain(t.of.of)>>
    [] t.kind = "option" -> <<>>
    [] t.kind = "enum" -> <<0, Plain(t.variants[1])>>
    [] t.kind = "struct" -> [i \in 1..Len(t.fields) |-> Plain(t.fields[i])]
Lengths == {0, 1, Short, Short + 1, Base - 1, Base, Base^2 - 1, Base^2}
RECURSIVE Samples(_)
Samples(t) ==
  CASE t.kind = "bool" -> BOOLEAN
    [] t.kind = "int" ->
         IF t.signed THEN {-1, 0, Base^t.width \div 2 - 1, -(Base^t.width \div 2)}
         ELSE {0, Base^(t.width - 1), Base^t.width - 1}
    [] t.kind = "text" -> {[i \in 1..n |-> i % (Base - 1)] : n \in {0, 1, Base}}
    [] t.kind = "seq" -> {[i \in 1..n |-> Plain(t.of)] : n \in {0, 1, Base}}
    [] t.kind = "sized" ->
         {[i \in 1..n |-> IF t.of.kind = "text" THEN i % (Base - 1) ELSE Plain(t.of.of)] :
            n \in {n \in Lengths : TryFrom(t.name, n)}}
    [] t.kind = "option" -> {<<>>} \cup {<<v>> : v \in Samples(t.of)}
    [] t.kind = "enum" ->
         UNION {{<<i - 1, v>> : v \in Samples(t.variants[i])} : i \in 1..Len(t.variants)}
    [] t.kind = "struct" ->
         {Plain(t)} \cup
         UNION {{[Plain(t) EXCEPT ![i] = v] : v \in Samples(t.fields[i])} : i \in 1..Len(t.fields)}

\* Payloads one byte away from a message's: what a peer with another idea of the
\* format would send.
Edits(bytes) ==
  {SubSeq(bytes, 1, n) : n \in 0..(Len(bytes) - 1)}
  \cup {Append(bytes, b) : b \in {0, Base - 1}}
  \cup {[bytes EXCEPT ![i] = b] : i \in 1..Len(bytes), b \in {0, 2, Base - 1}}

-----------------------------------------------------------------------------
(* The stream *)

WireInit ==
  /\ wireSent = <<>>
  /\ wireLink = <<>>
  /\ wireBuf = <<>>
  /\ wireGot = <<>>
  /\ wireValue = <<>>

Encode(frame) ==
  /\ wireSent' = Append(wireSent, frame)
  /\ wireLink' = wireLink \o FlattenSeq(SetToSeq(SerializeFrame(frame)))
  /\ UNCHANGED <<wireBuf, wireGot, wireValue>>

\* A program sends a message.
SendMessage ==
  /\ wireSent = <<>> /\ wireValue = <<>>
  /\ \E name \in DOMAIN Messages : \E value \in Samples(Messages[name].type) :
       Encode(FrameFrom(name, value))

\* More messages are queued behind the first before any of it is read.
SendAnother ==
  /\ wireSent # <<>> /\ Len(wireSent) < MaxSent
  /\ wireBuf = <<>> /\ wireGot = <<>>
  /\ \E name \in {"SetTarget", "OpenTelemetryChannel"} :
       Encode(FrameFrom(name, Plain(Messages[name].type)))

\* A peer sends a payload of its own, under any type code of the extension.
SendForeign ==
  /\ wireSent = <<>> /\ wireValue = <<>>
  /\ \E name \in DOMAIN Messages :
       LET frame == FrameFrom(name, Plain(Messages[name].type))
       IN  \/ \E bytes \in UNION {Edits(body) : body \in ToBytes(frame.payload)} :
                Encode([frame EXCEPT !.payload = SerializedBytes(bytes)])
           \/ \E code \in {3, 24, 38, 39}, bytes \in ToBytes(frame.payload) :
                Encode([frame EXCEPT !.payload = SerializedBytes(bytes), !.code = code])

\* TCP delivers the next byte; a read ends anywhere.
Deliver ==
  /\ wireLink # <<>>
  /\ wireBuf' = Append(wireBuf, Head(wireLink))
  /\ wireLink' = Tail(wireLink)
  /\ UNCHANGED <<wireSent, wireGot, wireValue>>

\* Framed finds a whole frame in its buffer.
Decode ==
  LET length == FrameLength(wireBuf)
      frame == DeserializeFrame(SubSeq(wireBuf, 1, length))
  IN  /\ length > 0
      /\ wireBuf' = SubSeq(wireBuf, length + 1, Len(wireBuf))
      /\ wireGot' = Append(wireGot, [panics |-> frame.panics, message |-> HandleFrame(frame)])
      /\ UNCHANGED <<wireSent, wireLink, wireValue>>

\* to_vec and from_slice of a value that is in no frame.
WriteAndRead ==
  /\ wireSent = <<>> /\ wireValue = <<>>
  /\ \E t \in {SignedPartType, SignatureNoiseMessage, MyData} : \E value \in Samples(t) :
       wireValue' = <<value, UNION {FromSlice(t, bytes) : bytes \in Serialize(t, value)}>>
  /\ UNCHANGED <<wireSent, wireLink, wireBuf, wireGot>>

WireNext == WriteAndRead \/ SendMessage \/ SendAnother \/ SendForeign \/ Deliver \/ Decode
WireSpec == WireInit /\ [][WireNext]_wireVars

-----------------------------------------------------------------------------
(* Every value the newtypes admit is serialised and read back as it was, in   *)
(* and out of frames: the three tables of limits (types.rs, the serializer,   *)
(* the deserializer) agree.  However the stream is cut, the receiver sees the *)
(* frames that were sent, one result for each; a message arrives as the       *)
(* message it was; and bytes that are accepted are the bytes this code would  *)
(* have sent for the message they were taken for.                             *)
MessagesSurvive ==
  /\ wireValue # <<>> => wireValue[2] = {wireValue[1]}
  /\ wireLink = <<>> /\ FrameLength(wireBuf) = 0 =>
       wireBuf = <<>> /\ Len(wireGot) = Len(wireSent)
  /\ \A i \in 1..Len(wireGot) :
       LET sent == wireSent[i].payload
           got == wireGot[i].message
       IN  /\ ~wireGot[i].panics
           /\ sent.lazy => \/ wireSent[i].code \in {22, 23} /\ got = {}
                           \/ \E m \in got : m.name = sent.name /\ m.value = sent.value
           /\ \A m \in got : PayloadEq(m, sent)
=============================================================================
