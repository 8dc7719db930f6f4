------------------------------ MODULE ProxyServer ------------------------------
(***************************************************************************)
(* The stratum proxy (stratum-proxy/src/server.rs, frontend.rs, main.rs):  *)
(* a server that accepts V2 clients, connects each of them to the V1 pool  *)
(* and pumps frames through a translation of their own.  Three tasks share *)
(* a connection: the pump, which holds the receiving halves of both        *)
(* sockets, and one send task per side, which holds a sending half.  A     *)
(* socket is closed when both of its halves are dropped.                   *)
(***************************************************************************)
EXTENDS Naturals, Sequences

CONSTANTS Conn,       \* the clients that may connect
          QueueLimit, \* frames that fit in a translation queue
          MaxFrames   \* frames a client and its pool send in a behaviour

VARIABLES server, \* "starting", "configured", "serving", "terminated", "failed" or "aborted"
          keys,   \* the server has a certificate and its key
          quit,   \* the quit channel holds a notification
          conn    \* the connections

proxy_vars == <<server, keys, quit, conn>>

Side == {"v1", "v2"}
Stages == {"none", "backlog", "accepted", "connecting", "handshake", "running", "done"}
NoConnection ==
  [stage |-> "none",
   peer  |-> [s \in Side |-> "none"],  \* "reading", "stuck", "closed" or "reset"
   inbox |-> [s \in Side |-> <<>>],    \* received and not yet handled
   queue |-> [s \in Side |-> 0],       \* translated and not yet sent
   task  |-> [s \in Side |-> "none"],  \* the send tasks
   sent  |-> 0]

Gone(c, s) == conn[c].peer[s] \in {"closed", "reset"}

\* The proxy still holds half of a socket of connection c.
Held(c, s) ==
  \/ conn[c].stage \in {"handshake", "running"}
  \/ s = "v2" /\ conn[c].stage \in {"accepted", "connecting"}
  \/ conn[c].task[s] = "running"

ProxyInit ==
  /\ server = "starting" /\ keys = FALSE /\ quit = FALSE
  /\ conn = [c \in Conn |-> NoConnection]

-----------------------------------------------------------------------------
(* main.                                                                   *)

\* read_certificate_secret_key_pair: none for an insecure server; both files must be
\* readable for any other.
ReadKeys ==
  /\ server = "starting"
  /\ \E insecure, certificate_ok, secret_key_ok \in BOOLEAN :
       IF insecure \/ (certificate_ok /\ secret_key_ok)
       THEN server' = "configured" /\ keys' = ~insecure
       ELSE server' = "failed" /\ UNCHANGED keys
  /\ UNCHANGED <<quit, conn>>

\* ProxyServer::listen: binding the socket may fail.
Listen ==
  /\ server = "configured"
  /\ server' \in {"serving", "failed"}
  /\ UNCHANGED <<keys, quit, conn>>

\* The SIGINT handler; a second notification finds the channel full.
Interrupt ==
  /\ server = "serving"
  /\ quit' = TRUE
  /\ UNCHANGED <<server, keys, conn>>

\* When main returns or the process aborts, every task and socket goes with it.
Killed ==
  [c \in Conn |-> [conn[c] EXCEPT !.stage = IF @ = "none" THEN @ ELSE "done",
     !.task = [s \in Side |-> IF @[s] = "running" THEN "killed" ELSE @[s]]]]

-----------------------------------------------------------------------------
(* ProxyServer::next and run: the listener is polled before the quit       *)
(* channel, so that a notification waits until no client does.             *)

Waiting == {c \in Conn : conn[c].stage = "backlog"}

\* accept asks for the address of the peer, which fails if it has reset the
\* connection: then only the connection is dropped.
AcceptClient(c) ==
  /\ server = "serving" /\ c \in Waiting
  /\ conn' = [conn EXCEPT ![c].stage = IF conn[c].peer["v2"] = "reset" THEN "done" ELSE "accepted"]
  /\ UNCHANGED <<server, keys, quit>>

TakeQuit ==
  /\ server = "serving" /\ quit /\ Waiting = {}
  /\ server' = "terminated"
  /\ conn' = Killed
  /\ UNCHANGED <<keys, quit>>

-----------------------------------------------------------------------------
(* ProxyConnection::handle and do_handle.                                  *)

\* handle asks for the address again and expects to get it: the panic hook aborts
\* the process.
HandleClient(c) ==
  /\ conn[c].stage = "accepted"
  /\ IF conn[c].peer["v2"] = "reset"
     THEN server' = "aborted" /\ conn' = Killed
     ELSE conn' = [conn EXCEPT ![c].stage = "connecting"] /\ UNCHANGED server
  /\ UNCHANGED <<keys, quit>>

\* ConnTranslation::new and the start of run: the pump and its two send tasks.
StartPump(c, k) ==
  conn' = [conn EXCEPT ![c] = [k EXCEPT !.stage = "running",
                                        !.task = [s \in Side |-> "running"]]]

\* One attempt to reach the pool.  Without a certificate the pump starts at once.
ConnectUpstream(c) ==
  /\ conn[c].stage = "connecting"
  /\ LET connected == [conn[c] EXCEPT !.peer["v1"] = "reading"]
     IN \/ conn' = [conn EXCEPT ![c].stage = "done"]
        \/ keys /\ conn' = [conn EXCEPT ![c] = [connected EXCEPT !.stage = "handshake"]]
        \/ ~keys /\ StartPump(c, connected)
  /\ UNCHANGED <<server, keys, quit>>

\* Responder::accept waits, with no time limit, for what the client sends.
FinishHandshake(c) ==
  /\ conn[c].stage = "handshake" /\ ~Gone(c, "v2")
  /\ StartPump(c, conn[c])
  /\ UNCHANGED <<server, keys, quit>>

FailHandshake(c) ==
  /\ conn[c].stage = "handshake"
  /\ conn' = [conn EXCEPT ![c].stage = "done"]
  /\ UNCHANGED <<server, keys, quit>>

-----------------------------------------------------------------------------
(* ConnTranslation::run.                                                   *)

\* What is translated is queued for the send tasks.  It is lost when the queue is
\* full, or its task has ended.
Queued(k, n) ==
  [s \in Side |-> IF k.task[s] = "running" /\ k.queue[s] + n[s] <= QueueLimit
                  THEN k.queue[s] + n[s] ELSE k.queue[s]]

\* A frame is translated into frames for both sides; one that cannot be decoded
\* ends the pump.
PumpFrame(c, s) ==
  /\ conn[c].stage = "running" /\ conn[c].inbox[s] # <<>>
  /\ LET rest == [conn[c] EXCEPT !.inbox[s] = Tail(@)]
     IN IF Head(conn[c].inbox[s]) = "bad"
        THEN conn' = [conn EXCEPT ![c] = [rest EXCEPT !.stage = "done"]]
        ELSE \E n \in [Side -> 0 .. 1] :
               conn' = [conn EXCEPT ![c] = [rest EXCEPT !.queue = Queued(rest, n)]]
  /\ UNCHANGED <<server, keys, quit>>

MutantPumpEnds(c, s) == conn[c].inbox[s] = <<>> /\ Gone(c, s) /\ s = "v1"

\* The stream of a peer that has left ends after the frames it had sent.
PumpEnds(c, s) == conn[c].inbox[s] = <<>> /\ Gone(c, s)

PumpLeft(c, s) ==
  /\ conn[c].stage = "running" /\ PumpEnds(c, s)
  /\ conn' = [conn EXCEPT ![c].stage = "done"]
  /\ UNCHANGED <<server, keys, quit>>

\* Both timers are made anew in every round of the loop: one elapses only if
\* neither side has sent anything.
PumpTimeout(c) ==
  /\ conn[c].stage = "running"
  /\ \A s \in Side : conn[c].inbox[s] = <<>> /\ ~Gone(c, s)
  /\ conn' = [conn EXCEPT ![c].stage = "done"]
  /\ UNCHANGED <<server, keys, quit>>

MutantNoMoreFrames(c, s) == conn[c].stage = "done"

\* The end of the pump drops the translation with the senders of both queues; the
\* receiver of a closed queue still gets what is in it.
NoMoreFrames(c, s) == conn[c].queue[s] = 0 /\ conn[c].stage = "done"

\* v1_send_task, v2_send_task.  A send to a peer that has left fails, at the latest
\* when the peer's reset arrives; one to a peer that does not read waits.
SendTask(c, s) ==
  /\ conn[c].task[s] = "running"
  /\ \/ /\ NoMoreFrames(c, s)
        /\ conn' = [conn EXCEPT ![c].task[s] = "ended"]
     \/ /\ conn[c].queue[s] > 0 /\ conn[c].peer[s] \in {"reading", "closed"}
        /\ conn' = [conn EXCEPT ![c].queue[s] = @ - 1]
     \/ /\ conn[c].queue[s] > 0 /\ Gone(c, s)
        /\ conn' = [conn EXCEPT ![c].task[s] = "ended", ![c].queue[s] = 0]
  /\ UNCHANGED <<server, keys, quit>>

-----------------------------------------------------------------------------
(* The peers.                                                              *)

ClientConnects(c) ==
  /\ server = "serving" /\ conn[c].stage = "none"
  /\ conn' = [conn EXCEPT ![c].stage = "backlog", ![c].peer["v2"] = "reading"]
  /\ UNCHANGED <<server, keys, quit>>

PeerSends(c, s) ==
  /\ Held(c, s) /\ ~Gone(c, s) /\ conn[c].sent < MaxFrames
  /\ \E frame \in {"frame", "bad"} :
       conn' = [conn EXCEPT ![c].inbox[s] = Append(@, frame), ![c].sent = @ + 1]
  /\ UNCHANGED <<server, keys, quit>>

\* A peer stops reading and its socket's buffers fill up, or it reads again.
PeerStalls(c, s) ==
  /\ conn[c].stage = "running" /\ conn[c].peer[s] \in {"reading", "stuck"}
  /\ conn' = [conn EXCEPT ![c].peer[s] = IF @ = "stuck" THEN "reading" ELSE "stuck"]
  /\ UNCHANGED <<server, keys, quit>>

\* A reset discards what has been received.
PeerLeaves(c, s) ==
  /\ (conn[c].stage = "backlog" /\ s = "v2") \/ Held(c, s)
  /\ ~Gone(c, s)
  /\ \/ conn' = [conn EXCEPT ![c].peer[s] = "closed"]
     \/ conn' = [conn EXCEPT ![c].peer[s] = "reset", ![c].inbox[s] = <<>>]
  /\ UNCHANGED <<server, keys, quit>>

-----------------------------------------------------------------------------
ConnectionNext(c) ==
  \/ AcceptClient(c) \/ HandleClient(c) \/ ConnectUpstream(c)
  \/ FinishHandshake(c) \/ FailHandshake(c) \/ PumpTimeout(c) \/ ClientConnects(c)
  \/ \E s \in Side : PumpFrame(c, s) \/ PumpLeft(c, s) \/ SendTask(c, s)
                     \/ PeerSends(c, s) \/ PeerStalls(c, s) \/ PeerLeaves(c, s)

ProxyNext == ReadKeys \/ Listen \/ Interrupt \/ TakeQuit \/ \E c \in Conn : ConnectionNext(c)

\* The executor runs every task that can go on; connecting to the pool ends one way
\* or the other; the handshake with a client that has left fails.
ProxyFairness ==
  /\ WF_proxy_vars(TakeQuit)
  /\ \A c \in Conn :
       /\ WF_proxy_vars(AcceptClient(c)) /\ WF_proxy_vars(HandleClient(c))
       /\ WF_proxy_vars(ConnectUpstream(c))
       /\ WF_proxy_vars(Gone(c, "v2") /\ FailHandshake(c))
       /\ \A s \in Side :
            /\ WF_proxy_vars(PumpFrame(c, s)) /\ WF_proxy_vars(PumpLeft(c, s))
            /\ WF_proxy_vars(SendTask(c, s))

ProxySpec == ProxyInit /\ [][ProxyNext]_proxy_vars /\ ProxyFairness

-----------------------------------------------------------------------------
\* ConnTranslation::run, send tasks: whatever ends a session, a send task that ends
\* of itself has sent all that was translated for a peer that reads.
TranslatedIsSent ==
  \A c \in Conn, s \in Side :
    conn[c].task[s] = "ended" /\ ~Gone(c, s) => conn[c].queue[s] = 0

\* ConnTranslation::run, ProxyServer::next: once the client has left, or the pool of
\* a running session has, the proxy gives up both sockets, unless the other peer has
\* stopped reading; and an interrupt ends the server.
SessionsEnd ==
  /\ \A c \in Conn :
       Gone(c, "v2") \/ (conn[c].stage = "running" /\ Gone(c, "v1"))
         ~> \/ \A s \in Side : ~Held(c, s)
            \/ \E s \in Side : conn[c].peer[s] = "stuck"
  /\ quit ~> server # "serving"
=============================================================================
