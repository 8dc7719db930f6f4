------------------------------ MODULE Telemetry ------------------------------
(* The telemetry extension of the Stratum V2 client                          *)
(* (bosminer/src/client/stratum_v2/telemetry.rs), and the two queues that    *)
(* tie it to the client's main task (stratum_v2.rs): Start, Stop and frames  *)
(* go down to it with try_send, frames come up from it and onto the          *)
(* connection.  Neither queue is emptied when the connection is lost, so     *)
(* what was meant for one session may be handled in the next.                *)
EXTENDS Naturals, Sequences, FiniteSets

CONSTANTS
  IdValues,     \* values of a u32 identifier (2^32)
  QueueSize,    \* messages a queue takes (CHANNEL_CAPACITY and one per sender)
  MaxConnects,  \* bound: connections of the main task
  MaxData,      \* bound: telemetry data submitted
  MaxBad        \* bound: frames of no known kind or extension from the pool

ASSUME IdAssumption == IdValues \in Nat \ {0}

VARIABLES
  telem,      \* the telemetry client
  telemIn,    \* stratum_receiver: Start, Stop, frames
  telemOut,   \* stratum_sender: frames to be sent
  extConn,    \* the main task: session number, connected, panicked
  extUp,      \* frames on the connection to the pool
  extDown,    \* frames on the connection from the pool
  granted,    \* channels the pool has opened
  badFrames   \* unknown frames the pool has sent
telemetryVars == <<telem, telemIn, telemOut, extConn, extUp, extDown, granted, badFrames>>

TelemetryInit ==
  /\ telem = [state |-> "Init", channel |-> 0, request |-> 0, seq |-> 0, started |-> 0,
              running |-> TRUE]
  /\ telemIn = <<>> /\ telemOut = <<>>
  /\ extConn = [session |-> 0, up |-> FALSE, panicked |-> FALSE]
  /\ extUp = <<>> /\ extDown = <<>>
  /\ granted = {} /\ badFrames = 0

-----------------------------------------------------------------------------
(* The telemetry client's task *)

\* next_request_id, next_data_sequence_id: wrapping_add.
NextId(id) == (id + 1) % IdValues

\* send_msg: an error of try_send ends run().
SendUp(frame, state) ==
  IF Len(telemOut) < QueueSize
  THEN /\ telemOut' = Append(telemOut, frame)
       /\ telem' = state
  ELSE /\ telem' = [state EXCEPT !.running = FALSE]
       /\ UNCHANGED telemOut

Receives(kind) == telem.running /\ telemIn # <<>> /\ Head(telemIn).kind = kind

StartChannel ==
  /\ Receives("Start")
  /\ telemIn' = Tail(telemIn)
  /\ IF telem.state = "Init"
     THEN SendUp([kind |-> "Open", request |-> NextId(telem.request)],
                 [telem EXCEPT !.state = "Handshake", !.request = NextId(@),
                               !.started = Head(telemIn).session])
     ELSE /\ telem' = [telem EXCEPT !.running = FALSE]
          /\ UNCHANGED telemOut
  /\ UNCHANGED <<extConn, extUp, extDown, granted, badFrames>>

StopChannel ==
  /\ Receives("Stop")
  /\ telemIn' = Tail(telemIn)
  /\ telem' = [telem EXCEPT !.state = "Init"]
  /\ UNCHANGED <<telemOut, extConn, extUp, extDown, granted, badFrames>>

\* Mutant: any answer opens the channel.
MutantOpenSuccess ==
  LET frame == Head(telemIn)
  IN  /\ Receives("Success")
      /\ telemIn' = Tail(telemIn)
      /\ telem' =
           IF telem.state # "Handshake" THEN telem
           ELSE [telem EXCEPT !.state = "Operational", !.channel = frame.channel, !.request = NextId(@)]
      /\ UNCHANGED <<telemOut, extConn, extUp, extDown, granted, badFrames>>

\* visit_open_telemetry_channel_success
OpenSuccess ==
  LET frame == Head(telemIn)
  IN  /\ Receives("Success")
      /\ telemIn' = Tail(telemIn)
      /\ telem' =
           IF telem.state # "Handshake" THEN telem
           ELSE IF frame.request = telem.request
           THEN [telem EXCEPT !.state = "Operational", !.channel = frame.channel, !.request = NextId(@)]
           ELSE [telem EXCEPT !.state = "Init"]
      /\ UNCHANGED <<telemOut, extConn, extUp, extDown, granted, badFrames>>

\* visit_open_telemetry_channel_error
OpenError ==
  LET frame == Head(telemIn)
      ours == telem.state = "Handshake" /\ frame.request = telem.request
  IN  /\ Receives("Error")
      /\ telemIn' = Tail(telemIn)
      /\ telem' = [telem EXCEPT !.state = "Init", !.request = IF ours THEN NextId(@) ELSE @]
      /\ UNCHANGED <<telemOut, extConn, extUp, extDown, granted, badFrames>>

\* visit_submit_telemetry_data_success and _error only log.
DataVerdict ==
  /\ Receives("Verdict")
  /\ telemIn' = Tail(telemIn)
  /\ UNCHANGED <<telem, telemOut, extConn, extUp, extDown, granted, badFrames>>

\* A frame that is no telemetry message ends run().
BadFrame ==
  /\ Receives("Bad")
  /\ telemIn' = Tail(telemIn)
  /\ telem' = [telem EXCEPT !.running = FALSE]
  /\ UNCHANGED <<telemOut, extConn, extUp, extDown, granted, badFrames>>

\* Data of some component: submitted on the open channel, ignored without one.
SendTelemetry ==
  /\ telem.running /\ telem.seq < MaxData
  /\ telem.state = "Operational"
  /\ SendUp([kind |-> "Data", channel |-> telem.channel, seq |-> NextId(telem.seq)],
            [telem EXCEPT !.seq = NextId(@)])
  /\ UNCHANGED <<telemIn, extConn, extUp, extDown, granted, badFrames>>

-----------------------------------------------------------------------------
(* The main task of the client *)

\* try_send towards the telemetry client; without a receiver it fails too.
CanSendDown == telem.running /\ Len(telemIn) < QueueSize

\* main_loop begins: the Start must get through.
ExtConnect ==
  /\ ~extConn.up /\ ~extConn.panicked /\ extConn.session < MaxConnects
  /\ IF CanSendDown
     THEN /\ extConn' = [extConn EXCEPT !.session = @ + 1, !.up = TRUE]
          /\ telemIn' = Append(telemIn, [kind |-> "Start", session |-> extConn.session + 1])
     ELSE /\ extConn' = [extConn EXCEPT !.panicked = TRUE]
          /\ UNCHANGED telemIn
  /\ UNCHANGED <<telem, telemOut, extUp, extDown, granted, badFrames>>

\* handle_frame: a frame of another extension is passed down, or dropped.
PassDown ==
  /\ extConn.up /\ extDown # <<>>
  /\ extDown' = Tail(extDown)
  /\ telemIn' = IF CanSendDown THEN Append(telemIn, Head(extDown)) ELSE telemIn
  /\ UNCHANGED <<telem, telemOut, extConn, extUp, granted, badFrames>>

\* A frame of the extension goes onto the network; the end of its queue is a BUG.
Forward ==
  /\ extConn.up
  /\ \/ /\ telemOut # <<>>
        /\ telemOut' = Tail(telemOut)
        /\ extUp' = Append(extUp, Head(telemOut))
        /\ UNCHANGED extConn
     \/ /\ telemOut = <<>> /\ ~telem.running
        /\ extConn' = [extConn EXCEPT !.up = FALSE, !.panicked = TRUE]
        /\ UNCHANGED <<telemOut, extUp>>
  /\ UNCHANGED <<telem, telemIn, extDown, granted, badFrames>>

\* connect or init_mining_session fails: run ends before main_loop.
ExtConnectFails ==
  /\ ~extConn.up /\ ~extConn.panicked /\ extConn.session < MaxConnects
  /\ extConn' = [extConn EXCEPT !.session = @ + 1]
  /\ telemIn' = IF CanSendDown THEN Append(telemIn, [kind |-> "Stop"]) ELSE telemIn
  /\ UNCHANGED <<telem, telemOut, extUp, extDown, granted, badFrames>>

\* The connection is lost or stopped; main_task tells the extension if it can.
ExtDisconnect ==
  /\ extConn.up
  /\ extConn' = [extConn EXCEPT !.up = FALSE]
  /\ extUp' = <<>> /\ extDown' = <<>>
  /\ telemIn' = IF CanSendDown THEN Append(telemIn, [kind |-> "Stop"]) ELSE telemIn
  /\ UNCHANGED <<telem, telemOut, granted, badFrames>>

-----------------------------------------------------------------------------
(* The pool *)

PoolAnswers ==
  /\ extConn.up /\ extUp # <<>>
  /\ extUp' = Tail(extUp)
  /\ LET frame == Head(extUp)
         fresh == [request |-> frame.request, channel |-> Cardinality(granted) + 1,
                   session |-> extConn.session]
     IN  \/ /\ frame.kind = "Open"
            /\ granted' = granted \cup {fresh}
            /\ extDown' = Append(extDown, [kind |-> "Success", request |-> frame.request,
                                           channel |-> fresh.channel])
         \/ /\ frame.kind = "Open"
            /\ extDown' = Append(extDown, [kind |-> "Error", request |-> frame.request])
            /\ UNCHANGED granted
         \/ /\ frame.kind = "Data"
            /\ extDown' = Append(extDown, [kind |-> "Verdict", channel |-> frame.channel])
            /\ UNCHANGED granted
  /\ UNCHANGED <<telem, telemIn, telemOut, extConn, badFrames>>

PoolSendsUnknown ==
  /\ extConn.up /\ badFrames < MaxBad
  /\ badFrames' = badFrames + 1
  /\ extDown' = Append(extDown, [kind |-> "Bad"])
  /\ UNCHANGED <<telem, telemIn, telemOut, extConn, extUp, granted>>

-----------------------------------------------------------------------------
TelemetryNext ==
  \/ StartChannel \/ StopChannel \/ OpenSuccess \/ OpenError \/ DataVerdict \/ BadFrame
  \/ SendTelemetry
  \/ ExtConnect \/ PassDown \/ Forward \/ ExtConnectFails \/ ExtDisconnect
  \/ PoolAnswers \/ PoolSendsUnknown

TelemetrySpec == TelemetryInit /\ [][TelemetryNext]_telemetryVars

-----------------------------------------------------------------------------
\* State::Operational: the client submits its data only on a channel that the pool has
\* opened for the request of the last Start, on the connection of that Start: an
\* answer to an earlier request, sent late or on another connection, opens nothing.
ChannelIsOurs ==
  telem.state = "Operational" =>
    \E channel \in granted :
      /\ NextId(channel.request) = telem.request
      /\ channel.channel = telem.channel /\ channel.session = telem.started
=============================================================================
