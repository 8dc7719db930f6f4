--------------------------- MODULE WorkDistribution ---------------------------
(***************************************************************************)
(* How jobs become work: every client owns an EngineSender, exactly one of *)
(* which holds the watch channel to the hardware (bosminer/src/work.rs);   *)
(* the dispatcher moves the channel to the client it selects               *)
(* (client/scheduler.rs); the generators of the hash boards clone the      *)
(* engine they see and drain it (work/solver.rs), possibly after it was    *)
(* superseded.  An engine's range is the number of works left in it, each  *)
(* call of next_work being atomic as VersionRolling shows.  Clients come   *)
(* and go as ClientService allows.                                         *)
(***************************************************************************)
EXTENDS Naturals, FiniteSets

CONSTANTS
  Client,
  Dispatcher,  \* the dispatcher's own sender, before a client was selected
  Generator,
  MaxJobs,     \* bound: jobs a client sends
  MaxWork      \* bound: works in one engine

ASSUME DispatcherAssumption == Dispatcher \notin Client
ASSUME BoundAssumption == MaxJobs \in Nat /\ MaxWork \in Nat
ASSUME GeneratorAssumption == IsFiniteSet(Generator)

Sender == Client \cup {Dispatcher}
ExhaustedWork == <<Dispatcher, 0>>
Engine == (Client \X (1 .. MaxJobs)) \cup {ExhaustedWork}

VARIABLES
  up,        \* the client's main task is alive and may send jobs
  gone,      \* the client was removed and dropped: its Weak is dangling
  sent,      \* jobs each client has sent
  current,   \* EngineSenderInner.current_engine
  sender,    \* EngineSenderInner.sender is Some
  active,    \* JobDispatcher.active_client
  selected,  \* the client select_client returned, or Dispatcher for none
  watch,     \* the value in the watch channel
  unseen,    \* generators whose receiver has not seen the latest value
  left,      \* works left in each engine
  pc,        \* where each generator is in generate
  held,      \* the engine each generator cloned
  late       \* works taken from an engine since it left the watch

vars == <<up, gone, sent, current, sender, active, selected, watch, unseen, left, pc, held, late>>
clients == <<up, gone, sent>>
generators == <<pc, held, left>>

TypeOK ==
  /\ up \subseteq Client
  /\ gone \subseteq Client
  /\ sent \in [Client -> 0 .. MaxJobs]
  /\ current \in [Sender -> Engine]
  /\ sender \subseteq Sender
  /\ active \in Sender
  /\ selected \in Sender
  /\ watch \in Engine
  /\ unseen \subseteq Generator
  /\ left \in [Engine -> 0 .. MaxWork]
  /\ pc \in [Generator -> {"ask", "check", "wait", "take"}]
  /\ held \in [Generator -> Engine]
  /\ late \in [Engine -> Nat]

Init ==
  /\ up = {}
  /\ gone = {}
  /\ sent = [c \in Client |-> 0]
  /\ current = [s \in Sender |-> ExhaustedWork]
  /\ sender = {Dispatcher}
  /\ active = Dispatcher
  /\ selected = Dispatcher
  /\ watch = ExhaustedWork
  /\ unseen = Generator
  /\ left = [e \in Engine |-> IF e = ExhaustedWork THEN 0 ELSE MaxWork]
  /\ pc = [g \in Generator |-> "ask"]
  /\ held = [g \in Generator |-> ExhaustedWork]
  /\ late = [e \in Engine |-> 0]

-----------------------------------------------------------------------------
\* Sender::broadcast of tokio's watch: the value is replaced and every
\* receiver is woken.  An engine that is broadcast again is no longer late.
Broadcast(e) ==
  /\ watch' = e
  /\ unseen' = Generator
  /\ late' = [late EXCEPT ![e] = 0]

NoBroadcast == UNCHANGED <<watch, unseen, late>>

\* re_broadcast: only the sender that holds the channel is heard.
BroadcastEngine(s, e) ==
  /\ current' = [current EXCEPT ![s] = e]
  /\ IF s \in sender THEN Broadcast(e) ELSE NoBroadcast

ComeUp(c) ==
  /\ c \notin up \cup gone
  /\ up' = up \cup {c}
  /\ UNCHANGED <<gone, sent, current, sender, active, selected, watch, unseen, generators, late>>

\* job::Sender::send of a valid job.
SendJob(c) ==
  /\ c \in up
  /\ sent[c] < MaxJobs
  /\ sent' = [sent EXCEPT ![c] = @ + 1]
  /\ BroadcastEngine(c, <<c, sent[c] + 1>>)
  /\ UNCHANGED <<up, gone, sender, active, selected, generators>>

\* The main task invalidates its job at the end of each round; only then may
\* can_stop end it.
Invalidate(c) ==
  /\ c \in up
  /\ BroadcastEngine(c, ExhaustedWork)
  /\ UNCHANGED <<clients, sender, active, selected, generators>>

\* (Mutant: the client goes down with its engine still current.)
GoDownHot(c) ==
  /\ c \in up
  /\ up' = up \ {c}
  /\ UNCHANGED <<gone, sent, current, sender, active, selected, watch, unseen, generators, late>>
GoDown(c) ==
  /\ c \in up
  /\ current[c] = ExhaustedWork
  /\ up' = up \ {c}
  /\ UNCHANGED <<gone, sent, current, sender, active, selected, watch, unseen, generators, late>>

\* The last Arc of a removed client is dropped; the dispatcher keeps one of
\* the client it made active.
Drop(c) ==
  /\ c \notin up \cup gone
  /\ c \notin {active, selected}
  /\ gone' = gone \cup {c}
  /\ UNCHANGED <<up, sent, current, sender, active, selected, watch, unseen, generators, late>>

-----------------------------------------------------------------------------
\* select_client returns a client it saw running.
Select(c) ==
  /\ selected = Dispatcher
  /\ c \in up
  /\ selected' = c
  /\ UNCHANGED <<clients, current, sender, active, watch, unseen, generators, late>>

Exchange(a, b) ==
  sender' = (sender \ {a, b}) \cup {s \in {a, b} : (s = a /\ b \in sender) \/ (s = b /\ a \in sender)}

\* switch_client: swap the channel with the active client's sender and
\* broadcast both, under both locks; by now the client may have gone down.
\* (Mutant: the new owner of the channel does not announce its engine.)
SwitchQuietly ==
  /\ selected # Dispatcher
  /\ IF selected = active
       THEN UNCHANGED <<sender, active>>
       ELSE Exchange(selected, active) /\ active' = selected
  /\ NoBroadcast
  /\ selected' = Dispatcher
  /\ UNCHANGED <<clients, current, generators>>
SwitchClient ==
  /\ selected # Dispatcher
  /\ IF selected = active
       THEN UNCHANGED <<sender, active>> /\ NoBroadcast
       ELSE /\ Exchange(selected, active)
            /\ active' = selected
            /\ IF selected \in sender'
                 THEN Broadcast(current[selected])
                 ELSE IF active \in sender' THEN Broadcast(current[active]) ELSE NoBroadcast
  /\ selected' = Dispatcher
  /\ UNCHANGED <<clients, current, generators>>

-----------------------------------------------------------------------------
At(g, p) == pc' = [pc EXCEPT ![g] = p]

\* get_engine: first whatever the channel holds, without marking it seen.
Borrow(g) ==
  /\ pc[g] = "ask"
  /\ held' = [held EXCEPT ![g] = watch]
  /\ At(g, "check")
  /\ UNCHANGED <<clients, current, sender, active, selected, watch, unseen, left, late>>

\* (Mutant: going to wait forgets what was broadcast since the borrow.)
IsExhaustedForgets(g) ==
  /\ pc[g] = "check"
  /\ At(g, IF left[held[g]] = 0 THEN "wait" ELSE "take")
  /\ unseen' = IF left[held[g]] = 0 THEN unseen \ {g} ELSE unseen
  /\ UNCHANGED <<clients, current, sender, active, selected, watch, left, held, late>>
IsExhausted(g) ==
  /\ pc[g] = "check"
  /\ At(g, IF left[held[g]] = 0 THEN "wait" ELSE "take")
  /\ UNCHANGED <<clients, current, sender, active, selected, watch, unseen, left, held, late>>

\* get_engine: the next value, at once if this receiver has not seen it yet.
WaitNext(g) ==
  /\ pc[g] = "wait"
  /\ g \in unseen
  /\ held' = [held EXCEPT ![g] = watch]
  /\ unseen' = unseen \ {g}
  /\ At(g, "check")
  /\ UNCHANGED <<clients, current, sender, active, selected, watch, left, late>>

\* next_work: one work if any is left; the engine of a dropped client is
\* terminated and its work discarded.
\* (Mutant: the engine of a dropped client is drained to its end.)
DrainDropped(g) ==
  LET e == held[g] IN
  /\ pc[g] = "take"
  /\ left[e] > 0
  /\ left' = [left EXCEPT ![e] = @ - 1]
  /\ late' = IF e = watch THEN late ELSE [late EXCEPT ![e] = @ + 1]
  /\ At(g, "take")
  /\ UNCHANGED <<clients, current, sender, active, selected, watch, unseen, held>>
TakeWork(g) ==
  LET e == held[g] IN
  /\ pc[g] = "take"
  /\ left[e] > 0
  /\ left' = [left EXCEPT ![e] = IF e[1] \in gone THEN 0 ELSE @ - 1]
  /\ late' = IF e = watch \/ e[1] \in gone THEN late ELSE [late EXCEPT ![e] = @ + 1]
  /\ At(g, "ask")
  /\ UNCHANGED <<clients, current, sender, active, selected, watch, unseen, held>>

TakeNothing(g) ==
  /\ pc[g] = "take"
  /\ left[held[g]] = 0
  /\ At(g, "ask")
  /\ UNCHANGED <<clients, current, sender, active, selected, watch, unseen, held, left, late>>

Generate(g) == Borrow(g) \/ IsExhausted(g) \/ WaitNext(g) \/ TakeWork(g) \/ TakeNothing(g)

Next ==
  \/ \E c \in Client : ComeUp(c) \/ SendJob(c) \/ Invalidate(c) \/ GoDown(c) \/ Drop(c)
  \/ \E c \in Client : Select(c)
  \/ SwitchClient
  \/ \E g \in Generator : Generate(g)

Spec == Init /\ [][Next]_vars

\* The boards' transmit tasks keep calling generate.
FairSpec == Spec /\ \A g \in Generator : WF_vars(Generate(g))

-----------------------------------------------------------------------------
\* Exactly one sender holds the channel, the dispatcher's active one, and what
\* the hardware sees is that sender's current engine, however clients send and
\* invalidate jobs around a switch.
WatchFollowsActive == sender = {active} /\ watch = current[active]

\* Only a client that is up has an engine with work: a client that stopped can
\* be switched to, but never puts its old job back on the hardware.
IdleClientsAreExhausted == \A c \in Client \ up : current[c] = ExhaustedWork

\* An engine that left the channel yields at most one more work per generator,
\* the one whose engine was cloned before: boards do not go on with a
\* superseded or invalidated job.
LateWorkBounded == \A e \in Engine : late[e] <= Cardinality(Generator)

\* No wake-up is lost: a generator asleep while the channel holds an engine
\* with work left gets up, unless the channel runs out of work first.
SleepersWake ==
  \A g \in Generator :
    (pc[g] = "wait" /\ left[watch] > 0) ~> (pc[g] # "wait" \/ left[watch] = 0)
=============================================================================
