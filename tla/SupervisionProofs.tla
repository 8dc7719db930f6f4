-------------------------- MODULE SupervisionProofs ---------------------------
(***************************************************************************)
(* How the hash chains are kept safe: by the Manager of each chain, for    *)
(* every number of owners, tries and unread messages; by the monitor, for  *)
(* every number of chains and every timeout; and when the miner goes down, *)
(* for every number of chains and of hooked signals.                       *)
(***************************************************************************)
EXTENDS ChainManager, MonitorControl, Shutdown, TLAPS

-----------------------------------------------------------------------------
(* What the proofs use of sequences.                                       *)

LEMMA SeqElement ==
  ASSUME NEW S, NEW q \in Seq(S), NEW k \in 1 .. Len(q)
  PROVE  q[k] \in S
  OBVIOUS

LEMMA SeqEmpty ==
  ASSUME NEW S
  PROVE  /\ <<>> \in Seq(S) /\ Len(<<>>) = 0
         /\ \A q \in Seq(S) : q # <<>> => Len(q) \in Nat \ {0}
  OBVIOUS

LEMMA SeqLen ==
  ASSUME NEW S, NEW q \in Seq(S)
  PROVE  Len(q) \in Nat /\ DOMAIN q = 1 .. Len(q) /\ q \in [1 .. Len(q) -> S]
  OBVIOUS

LEMMA SeqTail ==
  ASSUME NEW S, NEW q \in Seq(S), q # <<>>
  PROVE  /\ Head(q) \in S
         /\ Tail(q) \in Seq(S) /\ Len(Tail(q)) = Len(q) - 1
         /\ \A k \in 1 .. Len(Tail(q)) : Tail(q)[k] = q[k + 1]
  OBVIOUS

LEMMA SeqAppend ==
  ASSUME NEW S, NEW q \in Seq(S), NEW x \in S
  PROVE  /\ Append(q, x) \in Seq(S) /\ Append(q, x) # <<>>
         /\ Len(Append(q, x)) = Len(q) + 1
         /\ \A k \in 1 .. Len(q) : Append(q, x)[k] = q[k]
         /\ Append(q, x)[Len(q) + 1] = x
  OBVIOUS

-----------------------------------------------------------------------------
(* The halt of the miner.                                                  *)

\* The inductive invariant: the first halt has all the clients to stop, and past the
\* first of them the chains are off.
AppClient == {"miner termination", "monitor termination", "monitor"}
HaltTypes ==
  /\ clients \in Seq(AppClient)
  /\ halter \in [Halter -> {"idle", "next", "wait", "done"}]
  /\ todo \in [Halter -> Seq(AppClient)]
  /\ chain \in [1 .. MinerChains -> {"off", "starting", "running"}]
  /\ stopping \in Nat /\ halts \in Nat
  /\ \A h \in Halter : halter[h] = "wait" => todo[h] # <<>>
StoppedInOrder == \A c \in 1 .. MinerChains : c < stopping => chain[c] = "off"
FirstHaltHasAll == halts = 0 => clients = AppClients /\ \A h \in Halter : halter[h] = "idle"
MinerFirst ==
  halts <= 1 => \A h \in Halter : halter[h] # "idle" /\ todo[h] # AppClients => AllOff
HaltInv ==
  HaltTypes /\ StoppedInOrder /\ FirstHaltHasAll /\ MinerFirst /\ (halts <= 1 => ChainsOffFirst)

LEMMA InitHalt == HaltInit => HaltInv
  <1> SUFFICES ASSUME HaltInit PROVE HaltInv OBVIOUS
  <1>1. AppClients \in Seq(AppClient) BY DEF AppClients, AppClient
  <1>2. HaltTypes BY <1>1, SeqEmpty DEF HaltInit, HaltTypes
  <1>3. StoppedInOrder BY ChainsAssumption DEF HaltInit, StoppedInOrder
  <1>4. FirstHaltHasAll /\ MinerFirst BY DEF HaltInit, FirstHaltHasAll, MinerFirst
  <1>5. ChainsOffFirst BY DEF HaltInit, ChainsOffFirst, Alive
  <1> QED BY <1>2, <1>3, <1>4, <1>5 DEF HaltInv

\* Chains that are all off stay off.
LEMMA OffStaysOff ==
  ASSUME HaltInv, AllOff, HaltNext PROVE AllOff'
  <1>1. CASE UNCHANGED chain BY <1>1 DEF AllOff
  <1>2. CASE StopChain BY <1>2 DEF StopChain, AllOff, HaltInv, HaltTypes
  <1>3. ASSUME NEW c \in 1 .. MinerChains, ChainStarted(c) PROVE AllOff'
    BY <1>3 DEF ChainStarted, AllOff
  <1> QED BY <1>1, <1>2, <1>3, Zenon
      DEF HaltNext, ReceiveSignal, Drain, Halt, Notify, MinerTerminated, MonitorTerminated, Timeout,
          TickDropped, ExitHook, Confirm, BeginStopping, FanTick, DeclareShutdown

\* A caller of send_halt drains the list: the first gets all clients.
LEMMA DrainInOrder ==
  ASSUME HaltInv, NEW h \in Halter, Drain(h), UNCHANGED <<chain, stopping, fans, halted>>
  PROVE  HaltInv'
  <1>0. HaltTypes /\ halts \in Nat BY DEF HaltInv, HaltTypes
  <1>1. /\ halts' = halts + 1 /\ halter' = [halter EXCEPT ![h] = "next"]
        /\ todo' = [todo EXCEPT ![h] = clients] /\ clients' = <<>>
    BY DEF Drain
  <1>2. HaltTypes' BY <1>0, <1>1, SeqEmpty DEF HaltTypes
  <1>3. StoppedInOrder' BY DEF HaltInv, StoppedInOrder
  <1>4. halts' # 0 BY <1>0, <1>1
  <1>5. CASE halts = 0
    <2>1. clients = AppClients /\ \A g \in Halter : halter[g] = "idle" BY <1>5 DEF HaltInv, FirstHaltHasAll
    <2>2. \A g \in Halter : halter'[g] # "idle" => todo'[g] = AppClients
      BY <1>0, <1>1, <2>1 DEF HaltTypes
    <2>3. ChainsOffFirst BY <1>5 DEF HaltInv
    <2>4. ChainsOffFirst' BY <2>3 DEF ChainsOffFirst, Alive, AllOff
    <2> QED BY <1>2, <1>3, <1>4, <2>2, <2>4 DEF HaltInv, FirstHaltHasAll, MinerFirst
  <1>6. CASE halts # 0
    <2>1. ~(halts' <= 1) BY <1>0, <1>1, <1>6
    <2> QED BY <1>2, <1>3, <1>4, <2>1 DEF HaltInv, FirstHaltHasAll, MinerFirst
  <1> QED BY <1>5, <1>6

\* A caller goes on with its list.
LEMMA HaltInOrder ==
  ASSUME HaltInv, NEW h \in Halter, Halt(h), HaltNext
  PROVE  HaltInv'
  <1>0. HaltTypes BY DEF HaltInv
  <1>1. UNCHANGED <<clients, chain, stopping, halts>> /\ halter[h] \in {"next", "wait"}
    BY Zenon DEF Halt, Notify, MinerTerminated, MonitorTerminated, Timeout, TickDropped, ExitHook, Confirm
  <1>2. StoppedInOrder' BY <1>1 DEF HaltInv, StoppedInOrder
  <1>3. FirstHaltHasAll'
    BY <1>1, Zenon DEF HaltInv, FirstHaltHasAll
  <1>4. AppClients # <<>> /\ Head(AppClients) = "miner termination" BY DEF AppClients
  <1>5. ASSUME halts <= 1, todo[h] # AppClients PROVE AllOff BY <1>1, <1>5, Zenon DEF HaltInv, MinerFirst
  \* Steps that the caller takes while the chains are off.
  <1>6. ASSUME NEW x \in {"idle", "next", "wait", "done"}, NEW l \in Seq(AppClient),
               halter' = [halter EXCEPT ![h] = x], todo' = [todo EXCEPT ![h] = l],
               x = "wait" => l # <<>>, halts <= 1 => AllOff
        PROVE  HaltInv'
    <2>1. HaltTypes' BY <1>0, <1>1, <1>6 DEF HaltTypes
    <2>2. halts <= 1 => AllOff' BY <1>6, OffStaysOff
    <2>3. MinerFirst' /\ (halts <= 1 => ChainsOffFirst)' BY <1>1, <2>2, Zenon DEF MinerFirst, ChainsOffFirst
    <2> QED BY <1>2, <1>3, <2>1, <2>3 DEF HaltInv
  <1>7. CASE Notify(h)
    <2>1. halter' = [halter EXCEPT ![h] = "wait"] /\ UNCHANGED <<todo, fans, halted>> /\ halter[h] = "next"
          /\ todo[h] # <<>>
      BY <1>7, Zenon DEF Notify
    <2>2. HaltTypes' BY <1>0, <1>1, <2>1 DEF HaltTypes
    <2>3. \A g \in Halter : halter'[g] # "idle" => halter[g] # "idle" BY <1>0, <2>1 DEF HaltTypes
    <2>4. MinerFirst' BY <1>1, <2>1, <2>3, ZenonT(40) DEF HaltInv, MinerFirst, AllOff
    <2>5. (halts <= 1 => ChainsOffFirst)' BY <1>1, <2>1, Zenon DEF HaltInv, ChainsOffFirst, Alive, AllOff
    <2> QED BY <1>2, <1>3, <2>2, <2>4, <2>5 DEF HaltInv
  <1>8. CASE MinerTerminated(h) \/ MonitorTerminated(h) \/ TickDropped(h)
    <2>1. PICK k \in AppClient : Confirm(h, k) /\ (k = "miner termination" => stopping = MinerChains + 1)
      BY <1>8, Zenon DEF MinerTerminated, MonitorTerminated, TickDropped, AppClient
    <2>2. /\ halter[h] = "wait" /\ Head(todo[h]) = k
          /\ halter' = [halter EXCEPT ![h] = "next"] /\ todo' = [todo EXCEPT ![h] = Tail(todo[h])]
      BY <2>1, Zenon DEF Confirm
    <2>3. halts <= 1 => AllOff
      <3>1. CASE todo[h] = AppClients
        <4>1. stopping = MinerChains + 1 BY <1>4, <2>1, <2>2, <3>1, Zenon
        <4>2. \A c \in 1 .. MinerChains : c < stopping BY <4>1, ChainsAssumption
        <4> QED BY <4>2 DEF HaltInv, StoppedInOrder, AllOff
      <3>2. CASE todo[h] # AppClients BY <1>5, <3>2
      <3> QED BY <3>1, <3>2
    <2>4. Tail(todo[h]) \in Seq(AppClient)
      <3>1. todo[h] \in Seq(AppClient) /\ todo[h] # <<>> BY <1>0, <2>2 DEF HaltTypes
      <3> QED BY <3>1, SeqTail
    <2> QED BY <1>6, <2>2, <2>3, <2>4, Zenon
  <1>9. CASE Timeout(h)
    <2>1. UNCHANGED <<halter, todo>> /\ Head(todo[h]) = "monitor termination" BY <1>9, Zenon DEF Timeout
    <2>2. todo[h] # AppClients BY <1>4, <2>1, Zenon
    <2>3. halter' = [halter EXCEPT ![h] = halter[h]] /\ todo' = [todo EXCEPT ![h] = todo[h]]
      BY <1>0, <2>1, Zenon DEF HaltTypes
    <2>4. /\ halter[h] \in {"idle", "next", "wait", "done"} /\ todo[h] \in Seq(AppClient)
          /\ halter[h] = "wait" => todo[h] # <<>>
      BY <1>0 DEF HaltTypes
    <2> QED BY <1>5, <1>6, <2>2, <2>3, <2>4, Zenon
  <1>10. CASE ExitHook(h)
    <2>1. halter' = [halter EXCEPT ![h] = "done"] /\ UNCHANGED todo /\ todo[h] = <<>> BY <1>10 DEF ExitHook
    <2>2. todo' = [todo EXCEPT ![h] = todo[h]] /\ todo[h] \in Seq(AppClient) BY <1>0, <2>1 DEF HaltTypes
    <2> QED BY <1>4, <1>5, <1>6, <2>1, <2>2, ZenonT(40)
  <1> QED BY <1>7, <1>8, <1>9, <1>10 DEF Halt

\* The chains, the miner's handler and the monitor's tick.
LEMMA ChainsInOrder ==
  ASSUME HaltInv, UNCHANGED <<clients, halter, todo, halts, halted>>, HaltNext,
         HaltTypes', StoppedInOrder', fans' # "stopped" \/ UNCHANGED fans
  PROVE  HaltInv'
  <1>1. AllOff => AllOff' BY OffStaysOff
  <1>2. FirstHaltHasAll' /\ MinerFirst' BY <1>1 DEF HaltInv, FirstHaltHasAll, MinerFirst
  <1>3. (halts <= 1 => ChainsOffFirst)' BY <1>1 DEF HaltInv, ChainsOffFirst, Alive
  <1> QED BY <1>2, <1>3 DEF HaltInv

LEMMA NextHalt == HaltInv /\ [HaltNext]_halt_vars => HaltInv'
  <1> SUFFICES ASSUME HaltInv, [HaltNext]_halt_vars PROVE HaltInv' OBVIOUS
  <1>0. HaltTypes /\ StoppedInOrder BY DEF HaltInv
  <1>1. ASSUME NEW h \in Signal, ReceiveSignal(h) PROVE HaltInv'
    BY <1>1, DrainInOrder DEF ReceiveSignal, Halter
  <1>2. CASE DeclareShutdown BY <1>2, DrainInOrder DEF DeclareShutdown, Halter
  <1>3. ASSUME NEW h \in Halter, Halt(h) PROVE HaltInv'
    BY <1>3, HaltInOrder DEF HaltNext
  <1>4. CASE BeginStopping
    <2>1. /\ UNCHANGED <<clients, halter, todo, halts, halted, chain, fans>> /\ stopping' = 1
      BY <1>4 DEF BeginStopping
    <2>2. HaltTypes' BY <1>0, <2>1 DEF HaltTypes
    <2>3. StoppedInOrder' BY <2>1 DEF StoppedInOrder
    <2> QED BY <1>4, <2>1, <2>2, <2>3, ChainsInOrder DEF HaltNext
  <1>5. CASE StopChain
    <2>1. /\ UNCHANGED <<clients, halter, todo, halts, halted, fans>> /\ stopping \in 1 .. MinerChains
          /\ chain' = [chain EXCEPT ![stopping] = "off"] /\ stopping' = stopping + 1
      BY <1>5 DEF StopChain
    <2>2. HaltTypes' BY <1>0, <2>1 DEF HaltTypes
    <2>3. StoppedInOrder'
      <3> SUFFICES ASSUME NEW c \in 1 .. MinerChains, c < stopping + 1 PROVE chain'[c] = "off"
        BY <2>1 DEF StoppedInOrder
      <3>1. c = stopping \/ c < stopping BY <2>1
      <3> QED BY <1>0, <2>1, <3>1 DEF StoppedInOrder, HaltTypes
    <2> QED BY <1>5, <2>1, <2>2, <2>3, ChainsInOrder DEF HaltNext
  <1>6. ASSUME NEW c \in 1 .. MinerChains, ChainStarted(c) PROVE HaltInv'
    <2>1. /\ UNCHANGED <<clients, halter, todo, halts, halted, fans, stopping>> /\ chain[c] = "starting"
          /\ chain' = [chain EXCEPT ![c] = "running"]
      BY <1>6 DEF ChainStarted
    <2>2. HaltTypes' BY <1>0, <2>1 DEF HaltTypes
    <2>3. StoppedInOrder' BY <1>0, <2>1 DEF StoppedInOrder, HaltTypes
    <2> QED BY <1>6, <2>1, <2>2, <2>3, ChainsInOrder DEF HaltNext
  <1>7. ASSUME NEW speed \in {"running", "full"}, FanTick(speed) PROVE HaltInv'
    <2>1. /\ UNCHANGED <<clients, halter, todo, halts, halted, stopping, chain>> /\ fans' # "stopped"
      BY <1>7 DEF FanTick
    <2>2. HaltTypes' /\ StoppedInOrder' BY <1>0, <2>1 DEF HaltTypes, StoppedInOrder
    <2> QED BY <1>7, <2>1, <2>2, ChainsInOrder DEF HaltNext
  <1>8. CASE UNCHANGED halt_vars
    BY <1>8 DEF halt_vars, HaltInv, HaltTypes, StoppedInOrder, FirstHaltHasAll, MinerFirst,
                ChainsOffFirst, AllOff, Alive
  <1> QED BY <1>1, <1>2, <1>3, <1>4, <1>5, <1>6, <1>7, <1>8 DEF HaltNext

\* The halt of the miner (halt.rs, monitor.rs): however many chains there are and
\* whoever asks for it, the first halt switches every chain off before the fans may
\* stop and before the process ends, by its exit hook or a panic, as long as nobody
\* asks for a second one.
THEOREM FirstHaltIsOrderly == HaltSpec => [](halts <= 1 => ChainsOffFirst)
  <1>1. HaltInv => (halts <= 1 => ChainsOffFirst) BY DEF HaltInv
  <1> QED BY <1>1, InitHalt, NextHalt, PTL DEF HaltSpec

-----------------------------------------------------------------------------
(* The Manager of a chain.                                                 *)

USE HandlerAssumption

\* The places in a call at which an owner holds the lock.
Busy == {"init", "power", "halting"}
Message == {"On", "Running", "Off"}

\* The lock says who works on the chain: one owner, the handler or nobody.
Locked ==
  /\ \A a \in Owner : pc[a] \in Busy <=> lock = {a}
  /\ halt = "halting" <=> lock = {Handler}
  /\ lock = {} \/ \E h \in Owner \cup {Handler} : lock = {h}

\* Somebody is halting a HashChain that it has taken out of the Manager.
BeingHalted == halt = "halting" \/ \E a \in Owner : pc[a] = "halting"

\* The voltage is on only in the hands of somebody who will turn it off.
Powered == voltage => \/ hash_chain \/ BeingHalted \/ \E a \in Owner : pc[a] = "power"

\* The state that the monitor will be in after the messages on their way: each
\* message that is in order leads to the state of the same name.
Before(i) == IF i = 1 THEN state ELSE messages[i - 1]
LastSaid == IF messages = <<>> THEN state ELSE messages[Len(messages)]
InOrder == \A i \in 1 .. Len(messages) : Transition(Before(i), messages[i]) # "Broken"

\* While nothing has crashed, nobody works on a chain that runs, it sends while it
\* exists, and Off is the last word exactly when no HashChain does.
Announced ==
  /\ hash_chain => lock = {}
  /\ watchdog <=> hash_chain \/ BeingHalted
  /\ InOrder
  /\ LastSaid = "Off" <=> lock = {} /\ ~hash_chain

ChainTypes ==
  /\ hash_chain \in BOOLEAN /\ voltage \in BOOLEAN /\ watchdog \in BOOLEAN
  /\ pc \in [Owner -> {"idle", "look", "attempt", "init", "power", "view", "halting"}]
  /\ messages \in Seq(Message)
  /\ state \in {"Off", "On", "Running"}

\* The inductive invariant.
Managed == ChainTypes /\ Locked /\ Powered /\ (crashed = "no" => Announced)

LEMMA InitManaged == ManagerInit => Managed
  <1> SUFFICES ASSUME ManagerInit PROVE Managed OBVIOUS
  <1>1. ChainTypes BY SeqEmpty, Zenon DEF ManagerInit, ChainTypes
  <1>2. Locked /\ ~BeingHalted BY DEF ManagerInit, Locked, Busy, BeingHalted
  <1>3. InOrder /\ LastSaid = "Off" BY DEF ManagerInit, InOrder, LastSaid
  <1> QED BY <1>1, <1>2, <1>3 DEF ManagerInit, Managed, Powered, Announced

-----------------------------------------------------------------------------
(* Messages.                                                               *)

\* A message that is in order after the last one leaves all of them in order.
LEMMA Said ==
  ASSUME messages \in Seq(Message), InOrder, NEW m \in Message,
         Transition(LastSaid, m) # "Broken", Send(m), UNCHANGED state
  PROVE  InOrder' /\ LastSaid' = m /\ messages' \in Seq(Message)
  <1>1. /\ messages' \in Seq(Message) /\ Len(messages') = Len(messages) + 1
        /\ Len(messages) \in Nat /\ messages'[Len(messages) + 1] = m
        /\ \A i \in 1 .. Len(messages) : messages'[i] = messages[i]
    BY SeqAppend DEF Send
  <1>2. messages' # <<>> BY <1>1, SeqEmpty
  <1>3. LastSaid' = m BY <1>1, <1>2 DEF LastSaid
  <1>4. ASSUME NEW i \in 1 .. Len(messages') PROVE Transition(Before(i)', messages'[i]) # "Broken"
    <2>1. CASE i \in 1 .. Len(messages)
      <3>1. Before(i)' = Before(i) BY <1>1, <2>1 DEF Before
      <3> QED BY <1>1, <2>1, <3>1 DEF InOrder
    <2>2. CASE i = Len(messages) + 1
      <3>1. Before(i)' = LastSaid BY <1>1, <2>2, SeqEmpty DEF Before, LastSaid
      <3> QED BY <1>1, <2>2, <3>1
    <2> QED BY <1>1, <2>1, <2>2
  <1>5. InOrder' BY <1>4 DEF InOrder
  <1> QED BY <1>1, <1>3, <1>5

\* The monitor takes the first message and the last word stays.
LEMMA Heard ==
  ASSUME ChainTypes, InOrder, Receive
  PROVE  /\ InOrder' /\ LastSaid' = LastSaid
         /\ messages' \in Seq(Message) /\ state' \in {"Off", "On", "Running"}
  <1>1. /\ messages \in Seq(Message) /\ messages # <<>> /\ messages' = Tail(messages)
        /\ state' = Transition(state, Head(messages))
    BY DEF Receive, ChainTypes
  <1>2. /\ messages' \in Seq(Message) /\ Len(messages') = Len(messages) - 1
        /\ \A i \in 1 .. Len(messages') : messages'[i] = messages[i + 1]
        /\ Len(messages) \in Nat /\ Len(messages) >= 1 /\ Head(messages) = messages[1]
        /\ messages[1] \in Message
    BY <1>1, SeqTail, SeqElement
  <1>3. state' = messages[1]
    <2>1. Transition(Before(1), messages[1]) # "Broken" BY <1>2 DEF InOrder
    <2> QED BY <1>1, <1>2, <2>1 DEF Before, Transition
  <1>4. \A i \in 1 .. Len(messages') : Before(i)' = Before(i + 1) BY <1>2, <1>3 DEF Before
  <1>5. InOrder'
    <2> SUFFICES ASSUME NEW i \in 1 .. Len(messages')
                 PROVE  Transition(Before(i)', messages'[i]) # "Broken"
      BY DEF InOrder
    <2>1. i + 1 \in 1 .. Len(messages) BY <1>2
    <2> QED BY <1>2, <1>4, <2>1 DEF InOrder
  <1>6. LastSaid' = LastSaid
    <2>1. CASE Len(messages) = 1
      <3>1. messages' = <<>> BY <1>2, <2>1, SeqEmpty
      <3> QED BY <1>1, <1>3, <2>1, <3>1 DEF LastSaid
    <2>2. CASE Len(messages) > 1
      <3>1. messages' # <<>> /\ Len(messages') \in 1 .. Len(messages') BY <1>2, <2>2, SeqEmpty
      <3> QED BY <1>1, <1>2, <2>2, <3>1 DEF LastSaid
    <2> QED BY <1>2, <2>1, <2>2
  <1> QED BY <1>2, <1>3, <1>5, <1>6 DEF Message
-----------------------------------------------------------------------------
(* Steps.                                                                  *)

\* A step that changes no lock, no chain and no message, and moves an owner between
\* places where it holds nothing.
LEMMA Elsewhere ==
  ASSUME Managed, NEW a \in Owner, NEW from, NEW to \in {"idle", "look", "attempt"},
         At(a, from, to), from \notin Busy,
         UNCHANGED <<lock, hash_chain, voltage, watchdog, messages, state, halt>>
  PROVE  Managed'
  <1>1. /\ crashed = "no" /\ pc[a] \notin Busy /\ pc' = [pc EXCEPT ![a] = to]
        /\ pc \in [Owner -> {"idle", "look", "attempt", "init", "power", "view", "halting"}]
    BY DEF At, Managed, ChainTypes
  <1>2. pc' \in [Owner -> {"idle", "look", "attempt", "init", "power", "view", "halting"}]
    BY <1>1
  <1>3. \A b \in Owner : pc'[b] # pc[b] => pc[b] \notin Busy /\ pc'[b] \notin Busy
    BY <1>1 DEF Busy
  <1>4. ChainTypes' BY <1>2 DEF Managed, ChainTypes
  <1>5. Locked' BY <1>3 DEF Managed, Locked
  <1>6. BeingHalted' = BeingHalted BY <1>3 DEF BeingHalted, Busy
  <1>7. Powered' BY <1>3, <1>6 DEF Managed, Powered, Busy
  <1>8. Announced' BY <1>1, <1>6 DEF Managed, Announced, InOrder, Before, LastSaid
  <1> QED BY <1>4, <1>5, <1>7, <1>8 DEF Managed

\* Nobody else is busy while somebody holds the lock, and nobody at all without it.
LEMMA OthersRest ==
  ASSUME Locked
  PROVE  /\ lock = {} => halt # "halting" /\ \A b \in Owner : pc[b] \notin Busy
         /\ \A a \in Owner : lock = {a} =>
              /\ pc[a] \in Busy /\ halt # "halting"
              /\ \A b \in Owner \ {a} : pc[b] \notin Busy
         /\ lock = {Handler} => halt = "halting" /\ \A b \in Owner : pc[b] \notin Busy
  BY DEF Locked
\* A message is a message whether it is in order or not.
LEMMA SentType ==
  ASSUME messages \in Seq(Message), NEW m \in Message, Send(m)
  PROVE  messages' \in Seq(Message)
  BY SeqAppend DEF Send

\* The places of an owner in its call.
Places == {"idle", "look", "attempt", "init", "power", "view", "halting"}

LEMMA AttemptManaged == ASSUME Managed, NEW a \in Owner, Attempt(a) PROVE Managed'
  <1>1. /\ crashed = "no" /\ pc[a] = "attempt" /\ pc' = [pc EXCEPT ![a] = "init"]
        /\ lock = {} /\ lock' = {a} /\ Send("On")
        /\ UNCHANGED <<hash_chain, voltage, watchdog, state, halt>>
        /\ hash_chain => crashed' # "no"
    BY DEF Attempt, At, Lock
  <1>2. pc \in [Owner -> Places] /\ messages \in Seq(Message) /\ hash_chain \in BOOLEAN
    BY DEF Managed, ChainTypes, Places
  <1>3. pc' \in [Owner -> Places] /\ pc'[a] = "init" /\ \A b \in Owner \ {a} : pc'[b] = pc[b]
    BY <1>1, <1>2 DEF Places
  <1>4. ChainTypes'
    BY <1>1, <1>2, <1>3, SentType DEF Managed, ChainTypes, Places, Message
  <1>5. halt # "halting" /\ \A b \in Owner : pc[b] \notin Busy
    BY <1>1, OthersRest DEF Managed
  <1>6. Locked' BY <1>1, <1>3, <1>5 DEF Locked, Busy, Handler
  <1>7. ~BeingHalted /\ ~BeingHalted' BY <1>1, <1>3, <1>5 DEF BeingHalted, Busy
  <1>8. Powered' BY <1>1, <1>5, <1>7 DEF Managed, Powered, Busy
  <1>9. CASE hash_chain BY <1>1, <1>4, <1>6, <1>8, <1>9 DEF Managed
  <1>10. CASE ~hash_chain
    <2>1. InOrder /\ LastSaid = "Off" /\ ~watchdog BY <1>1, <1>7, <1>10 DEF Managed, Announced
    <2>2. Transition(LastSaid, "On") # "Broken" BY <2>1 DEF Transition
    <2>3. InOrder' /\ LastSaid' = "On" BY <1>1, <1>2, <2>1, <2>2, Said DEF Message
    <2>4. Announced' BY <1>1, <1>7, <1>10, <2>1, <2>3 DEF Announced
    <2> QED BY <1>4, <1>6, <1>8, <2>4 DEF Managed
  <1> QED BY <1>2, <1>9, <1>10

LEMMA PowerUpManaged == ASSUME Managed, NEW a \in Owner, PowerUp(a) PROVE Managed'
  <1>1. /\ crashed = "no" /\ pc[a] = "init" /\ pc' = [pc EXCEPT ![a] = "power"] /\ voltage' = TRUE
        /\ UNCHANGED <<lock, hash_chain, watchdog, messages, state, halt, crashed>>
    BY DEF PowerUp, At
  <1>2. pc \in [Owner -> Places] BY DEF Managed, ChainTypes, Places
  <1>3. pc' \in [Owner -> Places] /\ pc'[a] = "power" /\ \A b \in Owner \ {a} : pc'[b] = pc[b]
    BY <1>1, <1>2 DEF Places
  <1>4. ChainTypes' BY <1>1, <1>3 DEF Managed, ChainTypes, Places
  <1>5. Locked' BY <1>1, <1>3 DEF Managed, Locked, Busy
  <1>6. BeingHalted' = BeingHalted BY <1>1, <1>3 DEF BeingHalted
  <1>7. Powered' BY <1>3 DEF Powered
  <1>8. Announced' BY <1>1, <1>6 DEF Managed, Announced, InOrder, Before, LastSaid
  <1> QED BY <1>4, <1>5, <1>7, <1>8 DEF Managed

LEMMA InitDoneManaged ==
  ASSUME Managed, NEW a \in Owner, NEW all_chips \in BOOLEAN, InitDone(a, all_chips)
  PROVE  Managed'
  <1>1. /\ crashed = "no" /\ pc[a] = "power" /\ pc' = [pc EXCEPT ![a] = "view"]
        /\ watchdog' = TRUE /\ hash_chain' = TRUE /\ lock' = {}
        /\ UNCHANGED <<voltage, messages, state, halt, crashed>>
    BY DEF InitDone, At, Unlock
  <1>2. pc \in [Owner -> Places] BY DEF Managed, ChainTypes, Places
  <1>3. pc' \in [Owner -> Places] /\ pc'[a] = "view" /\ \A b \in Owner \ {a} : pc'[b] = pc[b]
    BY <1>1, <1>2 DEF Places
  <1>4. ChainTypes' BY <1>1, <1>3 DEF Managed, ChainTypes, Places
  <1>5. lock = {a} BY <1>1 DEF Managed, Locked, Busy
  <1>6. halt # "halting" /\ \A b \in Owner \ {a} : pc[b] \notin Busy
    BY <1>5, OthersRest DEF Managed
  <1>7. Locked' BY <1>1, <1>3, <1>6 DEF Locked, Busy
  <1>8. Powered' BY <1>1 DEF Powered
  <1>9. LastSaid # "Off" /\ InOrder BY <1>1, <1>5 DEF Managed, Announced
  <1>10. Announced' BY <1>1, <1>9 DEF Announced, InOrder, Before, LastSaid
  <1> QED BY <1>4, <1>7, <1>8, <1>10 DEF Managed

LEMMA NotOff ==
  ASSUME ChainTypes, LastSaid # "Off"
  PROVE  LastSaid \in {"On", "Running"}
  <1>1. CASE messages = <<>> BY <1>1 DEF LastSaid, ChainTypes
  <1>2. CASE messages # <<>>
    <2>1. Len(messages) \in 1 .. Len(messages) BY <1>2, SeqEmpty, SeqLen DEF ChainTypes
    <2>2. messages[Len(messages)] \in Message BY <2>1, SeqElement DEF ChainTypes
    <2> QED BY <1>2, <2>2 DEF LastSaid, Message
  <1> QED BY <1>1, <1>2

\* A chain that exists, or is being made or halted, can be said to be off.
LEMMA SaidOff ==
  ASSUME ChainTypes, InOrder, LastSaid # "Off", Send("Off"), UNCHANGED state
  PROVE  InOrder' /\ LastSaid' = "Off" /\ messages' \in Seq(Message)
  <1>1. LastSaid \in {"On", "Running"} BY NotOff
  <1>2. Transition(LastSaid, "Off") # "Broken" BY <1>1 DEF Transition
  <1> QED BY <1>2, Said DEF ChainTypes, Message

LEMMA InitFailedManaged == ASSUME Managed, NEW a \in Owner, InitFailed(a) PROVE Managed'
  <1>1. PICK to \in {"idle", "attempt"} :
          /\ crashed = "no" /\ pc[a] \in {"init", "power"} /\ pc' = [pc EXCEPT ![a] = to]
          /\ voltage' = FALSE /\ lock' = {} /\ Send("Off")
          /\ UNCHANGED <<hash_chain, watchdog, state, halt>>
    BY Zenon DEF InitFailed, At, DisableVoltage, Unlock
  <1>2. pc \in [Owner -> Places] BY DEF Managed, ChainTypes, Places
  <1>3. pc' \in [Owner -> Places] /\ pc'[a] = to /\ \A b \in Owner \ {a} : pc'[b] = pc[b]
    BY <1>1, <1>2 DEF Places
  <1>4. lock = {a} BY <1>1 DEF Managed, Locked, Busy
  <1>5. halt # "halting" /\ \A b \in Owner \ {a} : pc[b] \notin Busy
    BY <1>4, OthersRest DEF Managed
  <1>6. LastSaid # "Off" /\ InOrder /\ ~hash_chain BY <1>1, <1>4 DEF Managed, Announced, ChainTypes
  <1>7. InOrder' /\ LastSaid' = "Off" /\ messages' \in Seq(Message)
    BY <1>1, <1>6, SaidOff DEF Managed
  <1>8. ChainTypes' BY <1>1, <1>3, <1>7, Zenon DEF Managed, ChainTypes, Places
  <1>9. Locked' BY <1>1, <1>3, <1>5 DEF Locked, Busy
  <1>10. Powered' BY <1>1 DEF Powered
  <1>11. ~BeingHalted /\ ~BeingHalted' BY <1>1, <1>3, <1>5 DEF BeingHalted, Busy
  <1>12. Announced' BY <1>1, <1>6, <1>7, <1>11 DEF Managed, Announced
  <1> QED BY <1>8, <1>9, <1>10, <1>12 DEF Managed

LEMMA ViewManaged == ASSUME Managed, NEW a \in Owner, View(a) PROVE Managed'
  <1>1. /\ At(a, "view", "idle")
        /\ UNCHANGED <<lock, hash_chain, voltage, watchdog, messages, state, halt>>
    BY Zenon DEF View
  <1> QED BY <1>1, Elsewhere DEF Busy

LEMMA StopManaged == ASSUME Managed, NEW a \in Owner, Stop(a) PROVE Managed'
  <1>1. /\ crashed = "no" /\ pc[a] = "idle" /\ pc' = [pc EXCEPT ![a] = "halting"]
        /\ lock = {} /\ lock' = {a} /\ hash_chain' = FALSE
        /\ UNCHANGED <<voltage, watchdog, messages, state, halt>>
        /\ crashed' = IF hash_chain THEN "no" ELSE "missing"
    BY DEF Stop, At, Lock
  <1>2. pc \in [Owner -> Places] BY DEF Managed, ChainTypes, Places
  <1>3. pc' \in [Owner -> Places] /\ pc'[a] = "halting" /\ \A b \in Owner \ {a} : pc'[b] = pc[b]
    BY <1>1, <1>2 DEF Places
  <1>4. ChainTypes' BY <1>1, <1>3, Zenon DEF Managed, ChainTypes, Places
  <1>5. halt # "halting" /\ \A b \in Owner : pc[b] \notin Busy
    BY <1>1, OthersRest DEF Managed
  <1>6. Locked' BY <1>1, <1>3, <1>5 DEF Locked, Busy, Handler
  <1>7. BeingHalted' BY <1>3 DEF BeingHalted
  <1>8. Powered' BY <1>7 DEF Powered
  <1>9. CASE hash_chain
    <2>1. watchdog /\ InOrder /\ LastSaid # "Off" BY <1>1, <1>9 DEF Managed, Announced
    <2>2. Announced' BY <1>1, <1>7, <2>1 DEF Announced, InOrder, Before, LastSaid
    <2> QED BY <1>4, <1>6, <1>8, <2>2 DEF Managed
  <1>10. CASE ~hash_chain BY <1>1, <1>4, <1>6, <1>8, <1>10 DEF Managed
  <1> QED BY <1>9, <1>10
\* The end of stop_chain, whoever has called it.
LEMMA HaltedManaged ==
  ASSUME Managed, crashed = "no", BeingHalted, lock # {}, Halted, UNCHANGED <<hash_chain, state, crashed>>,
         pc' \in [Owner -> Places], halt' # "halting", \A b \in Owner : pc'[b] \notin Busy
  PROVE  Managed'
  <1>1. voltage' = FALSE /\ watchdog' = FALSE /\ Send("Off") /\ lock' = {}
    BY DEF Halted, DisableVoltage, Unlock
  <1>2. LastSaid # "Off" /\ InOrder /\ ~hash_chain BY DEF Managed, Announced
  <1>3. InOrder' /\ LastSaid' = "Off" /\ messages' \in Seq(Message)
    BY <1>1, <1>2, SaidOff DEF Managed
  <1>4. ChainTypes' BY <1>1, <1>3, Zenon DEF Managed, ChainTypes, Places
  <1>5. Locked' BY <1>1 DEF Locked
  <1>6. Powered' BY <1>1 DEF Powered
  <1>7. ~BeingHalted' BY DEF BeingHalted, Busy
  <1>8. Announced' BY <1>1, <1>2, <1>3, <1>7 DEF Announced
  <1> QED BY <1>4, <1>5, <1>6, <1>8 DEF Managed

LEMMA StoppedManaged == ASSUME Managed, NEW a \in Owner, Stopped(a) PROVE Managed'
  <1>1. /\ crashed = "no" /\ pc[a] = "halting" /\ pc' = [pc EXCEPT ![a] = "idle"] /\ Halted
        /\ UNCHANGED <<hash_chain, state, halt, crashed>>
    BY DEF Stopped, At
  <1>2. pc \in [Owner -> Places] BY DEF Managed, ChainTypes, Places
  <1>3. pc' \in [Owner -> Places] /\ pc'[a] = "idle" /\ \A b \in Owner \ {a} : pc'[b] = pc[b]
    BY <1>1, <1>2 DEF Places
  <1>4. lock = {a} BY <1>1 DEF Managed, Locked, Busy
  <1>5. halt # "halting" /\ \A b \in Owner \ {a} : pc[b] \notin Busy
    BY <1>4, OthersRest DEF Managed
  <1>6. \A b \in Owner : pc'[b] \notin Busy BY <1>3, <1>5 DEF Busy
  <1>7. BeingHalted BY <1>1 DEF BeingHalted
  <1> QED BY <1>1, <1>3, <1>4, <1>5, <1>6, <1>7, HaltedManaged

LEMMA TerminateManaged ==
  ASSUME Managed, Terminate \/ TerminateLocked \/ Terminated
  PROVE  Managed'
  <1>1. CASE Terminate
    <2>1. /\ halt = "idle" /\ halt' = "wait"
          /\ UNCHANGED <<lock, hash_chain, pc, voltage, watchdog, messages, state, crashed>>
      BY <1>1 DEF Terminate
    <2> QED BY <2>1 DEF Managed, ChainTypes, Locked, Powered, Announced, BeingHalted, InOrder,
               Before, LastSaid
  <1>2. CASE TerminateLocked
    <2>1. /\ crashed = "no" /\ halt = "wait" /\ lock = {} /\ hash_chain' = FALSE
          /\ UNCHANGED <<pc, voltage, watchdog, messages, state, crashed>>
          /\ hash_chain => lock' = {Handler} /\ halt' = "halting"
          /\ ~hash_chain => lock' = lock /\ halt' = "done"
      BY <1>2 DEF TerminateLocked, Lock
    <2>2. \A b \in Owner : pc[b] \notin Busy BY <2>1, OthersRest DEF Managed
    <2>3. ChainTypes' BY <2>1, Zenon DEF Managed, ChainTypes
    <2>4. InOrder' /\ LastSaid' = LastSaid /\ (LastSaid = "Off" <=> ~hash_chain) /\ hash_chain \in BOOLEAN
      BY <2>1 DEF Managed, Announced, InOrder, Before, LastSaid, ChainTypes
    <2>5. ~BeingHalted BY <2>1, <2>2 DEF BeingHalted, Busy
    <2>6. CASE hash_chain
      <3>1. Locked' BY <2>1, <2>2, <2>6 DEF Locked, Busy, Handler
      <3>2. BeingHalted' /\ watchdog BY <2>1, <2>6 DEF BeingHalted, Managed, Announced
      <3>3. Powered' /\ Announced' BY <2>1, <2>4, <2>6, <3>2 DEF Powered, Announced
      <3> QED BY <2>3, <3>1, <3>3 DEF Managed
    <2>7. CASE ~hash_chain
      <3>1. Locked' BY <2>1, <2>2, <2>7 DEF Locked, Busy, Handler
      <3>2. ~BeingHalted' /\ ~watchdog /\ ~voltage
        BY <2>1, <2>2, <2>5, <2>7 DEF BeingHalted, Managed, Announced, Powered, Busy
      <3>3. Powered' /\ Announced' BY <2>1, <2>4, <2>7, <3>2 DEF Powered, Announced
      <3> QED BY <2>3, <3>1, <3>3 DEF Managed
    <2> QED BY <2>4, <2>6, <2>7
  <1>3. CASE Terminated
    <2>1. /\ crashed = "no" /\ halt = "halting" /\ halt' = "done" /\ Halted
          /\ UNCHANGED <<hash_chain, pc, state, crashed>>
      BY <1>3 DEF Terminated
    <2>2. lock = {Handler} BY <2>1 DEF Managed, Locked
    <2>3. \A b \in Owner : pc'[b] \notin Busy BY <2>1, <2>2, OthersRest DEF Managed
    <2>4. pc' \in [Owner -> Places] /\ BeingHalted
      BY <2>1 DEF Managed, ChainTypes, Places, BeingHalted
    <2> QED BY <2>1, <2>2, <2>3, <2>4, HaltedManaged
  <1> QED BY <1>1, <1>2, <1>3

LEMMA MonitorManaged == ASSUME Managed, Heartbeat \/ Receive PROVE Managed'
  <1>1. UNCHANGED <<lock, hash_chain, pc, voltage, watchdog, halt, crashed>> /\ crashed = "no"
    BY DEF Heartbeat, Receive
  <1>2. Locked' /\ Powered' /\ BeingHalted' = BeingHalted
    BY <1>1 DEF Managed, Locked, Powered, BeingHalted
  <1>3. CASE Heartbeat
    <2>1. watchdog /\ Send("Running") /\ UNCHANGED state BY <1>3 DEF Heartbeat
    <2>2. LastSaid # "Off" /\ InOrder
      <3>1. CASE hash_chain BY <1>1, <3>1 DEF Managed, Announced
      <3>2. CASE BeingHalted
        <4>1. lock # {} BY <3>2, OthersRest DEF Managed, BeingHalted, Busy
        <4> QED BY <1>1, <4>1 DEF Managed, Announced
      <3> QED BY <1>1, <2>1, <3>1, <3>2 DEF Managed, Announced
    <2>3. LastSaid \in {"On", "Running"} BY <2>2, NotOff DEF Managed
    <2>4. Transition(LastSaid, "Running") # "Broken" BY <2>3 DEF Transition
    <2>5. InOrder' /\ LastSaid' = "Running" /\ messages' \in Seq(Message)
      BY <2>1, <2>2, <2>4, Said DEF Managed, ChainTypes, Message
    <2>6. ChainTypes' BY <1>1, <2>1, <2>5 DEF Managed, ChainTypes
    <2>7. Announced' BY <1>1, <1>2, <2>2, <2>5 DEF Managed, Announced
    <2> QED BY <1>2, <2>6, <2>7 DEF Managed
  <1>4. CASE Receive
    <2>1. /\ InOrder' /\ LastSaid' = LastSaid
          /\ messages' \in Seq(Message) /\ state' \in {"Off", "On", "Running"}
      BY <1>1, <1>4, Heard DEF Managed, Announced
    <2>2. ChainTypes' BY <1>1, <2>1 DEF Managed, ChainTypes
    <2>3. Announced' BY <1>1, <1>2, <2>1 DEF Managed, Announced
    <2> QED BY <1>2, <2>2, <2>3 DEF Managed
  <1> QED BY <1>3, <1>4

LEMMA NextManaged == ASSUME Managed, [ManagerNext]_manager_vars PROVE Managed'
  <1>1. ASSUME NEW a \in Owner, Acquire(a) PROVE Managed'
    <2>1. PICK to \in {"idle", "look"} : At(a, "idle", to) BY <1>1 DEF Acquire
    <2>2. UNCHANGED <<lock, hash_chain, voltage, watchdog, messages, state, halt>>
      BY <1>1 DEF Acquire
    <2> QED BY <2>1, <2>2, Elsewhere DEF Busy
  <1>2. ASSUME NEW a \in Owner, Look(a) PROVE Managed' BY <1>2, Elsewhere, Zenon DEF Look, Busy
  <1>3. ASSUME NEW a \in Owner, Drop(a) PROVE Managed' BY <1>3, Elsewhere DEF Drop, Busy
  <1>4. ASSUME NEW a \in Owner, Start(a) PROVE Managed' BY <1>4, Elsewhere DEF Start, Busy
  <1>5. ASSUME NEW a \in Owner, OwnerNext(a) PROVE Managed'
    BY <1>1, <1>2, <1>3, <1>4, <1>5, AttemptManaged, PowerUpManaged, InitDoneManaged,
       InitFailedManaged, ViewManaged, StopManaged, StoppedManaged DEF OwnerNext
  <1>6. CASE UNCHANGED manager_vars
    BY <1>6 DEF manager_vars, Managed, ChainTypes, Locked, Powered, Announced, BeingHalted,
       InOrder, Before, LastSaid
  <1> QED BY <1>5, <1>6, TerminateManaged, MonitorManaged DEF ManagerNext

\* The inductive invariant holds in every reachable state.
THEOREM ManagerInvariance == ManagerSpec => []Managed
  BY InitManaged, NextManaged, PTL DEF ManagerSpec

-----------------------------------------------------------------------------
(* The monitor.                                                            *)

\* The inductive invariant: what has gone silent was not so at the last tick.
SilentSinceTick ==
  Up => \A c \in Chain :
    /\ states[c] = "On" => started[c] < StartTimeout + since_tick
    /\ states[c] = "Running" => heartbeat[c] < RunUpdateTimeout + since_tick
Watched == TypeOK /\ SilentSinceTick /\ DangerStops

INSTANCE WellFoundedInduction

\* A set of natural numbers that is not empty has a least element.
LEMMA LeastNatural ==
  ASSUME NEW S \in SUBSET Nat, S # {}
  PROVE  \E n \in S : \A m \in S : n <= m
  <1>1. PICK n \in S : \A m \in S : ~(<<m, n>> \in OpToRel(<, Nat))
    BY WFMin, NatLessThanWellFounded, Zenon
  <1>2. \A m \in S : ~(m < n) BY <1>1, Zenon DEF OpToRel
  <1> QED BY <1>2

\* The hottest of n chains, of those that are known: the largest temperature exists.
LEMMA HottestExists ==
  ASSUME NEW n \in Nat, NEW t, \A c \in 1 .. n : t[c] \in Nat \cup {Unknown},
         NEW known, known # {},
         \A x : x \in known <=> x # Unknown /\ \E c \in 1 .. n : x = t[c]
  PROVE  \E x \in known : \A y \in known : x >= y
  <1> DEFINE S(k) == {t[c] : c \in 1 .. k} \ {Unknown}
             Lacks == {k \in 0 .. n : S(k) # {} /\ ~ \E x \in S(k) : \A y \in S(k) : x >= y}
  <1>1. SUFFICES Lacks = {}
    <2>1. n \in 0 .. n OBVIOUS
    <2>2. known = S(n) OBVIOUS
    <2> QED BY <1>1, <2>1, <2>2, Zenon
  <1>2. SUFFICES ASSUME Lacks # {} PROVE FALSE BY Zenon
  <1>3. Lacks \in SUBSET Nat OBVIOUS
  <1>4. PICK k \in Lacks : \A m \in Lacks : k <= m
    <2> HIDE DEF Lacks
    <2> QED BY <1>2, <1>3, LeastNatural
  <1>5. k \in 0 .. n /\ k # 0
    <2>1. 1 .. 0 = {} OBVIOUS
    <2>2. S(0) = {} BY <2>1
    <2> QED BY <1>4, <2>2
  <1>6. k - 1 \in 0 .. n /\ k - 1 \notin Lacks
    <2> HIDE DEF Lacks
    <2> QED BY <1>4, <1>5
  <1>7. \A c \in 1 .. k : c \in 1 .. k - 1 \/ c = k BY <1>5
  <1>8. k \in 1 .. k /\ 1 .. k - 1 \subseteq 1 .. k /\ k \in 1 .. n /\ 1 .. k \subseteq 1 .. n BY <1>5
  <1>9. S(k) = S(k - 1) \cup ({t[k]} \ {Unknown}) BY <1>7, <1>8
  <1>10. S(k - 1) \subseteq Nat BY <1>8
  <1>11. CASE t[k] = Unknown BY <1>4, <1>6, <1>9, <1>11
  <1>12. CASE t[k] # Unknown
    <2>1. t[k] \in Nat /\ S(k) = S(k - 1) \cup {t[k]} BY <1>8, <1>9, <1>12
    <2>2. CASE S(k - 1) = {}
      <3>1. t[k] \in S(k) /\ \A y \in S(k) : t[k] >= y
        <4> HIDE DEF S, Lacks
        <4>1. S(k) = {t[k]} /\ t[k] >= t[k] BY <2>1, <2>2
        <4> QED BY <4>1
      <3> QED BY <1>4, <3>1, Zenon
    <2>3. CASE S(k - 1) # {}
      <3>1. PICK x \in S(k - 1) : \A y \in S(k - 1) : x >= y BY <1>6, <2>3
      <3>2. x \in Nat BY <1>10
      <3>3. CASE x >= t[k]
        <4>1. x \in S(k) /\ \A y \in S(k) : x >= y
          <5> HIDE DEF S
          <5> QED BY <2>1, <3>1, <3>3
        <4> QED BY <1>4, <4>1
      <3>4. CASE ~(x >= t[k])
        <4>1. \A y \in S(k - 1) : t[k] >= y
          <5> HIDE DEF S
          <5> QED BY <1>10, <2>1, <3>1, <3>2, <3>4
        <4>2. t[k] \in S(k) /\ \A y \in S(k) : t[k] >= y
          <5> HIDE DEF S, Lacks
          <5>1. t[k] >= t[k] BY <2>1
          <5> QED BY <2>1, <4>1, <5>1
        <4> QED BY <1>4, <4>2, Zenon
      <3> QED BY <3>3, <3>4
    <2> QED BY <2>2, <2>3, Zenon
  <1> QED BY <1>11, <1>12

\* max of a set with a largest element.
LEMMA MaxIsLargest ==
  ASSUME NEW S, NEW x \in S, \A y \in S : x >= y
  PROVE  Max(S) \in S /\ \A y \in S : Max(S) >= y
  BY DEF Max

LEMMA OlderType ==
  ASSUME NEW age \in Age
  PROVE  Older(age) \in Age /\ Older(age) <= age + 1
  <1>1. age \in Nat /\ age + 1 \in Nat /\ MaxAge \in Nat BY TimeAssumption DEF Age
  <1>2. \E x \in {age + 1, MaxAge} : \A y \in {age + 1, MaxAge} : x <= y BY <1>1
  <1>3. /\ Older(age) \in {age + 1, MaxAge}
        /\ \A y \in {age + 1, MaxAge} : Older(age) <= y
    BY <1>2 DEF Older, Min
  <1> QED BY <1>1, <1>3 DEF Age

LEMMA Timeouts ==
  StartTimeout \in Nat /\ RunUpdateTimeout \in Nat /\ TickLength \in Nat /\ TickDelay \in Nat
  BY TimeAssumption

LEMMA NoTemperature == InvalidReading.remote = NoReading /\ InvalidReading.local = NoReading
  BY DEF InvalidReading

LEMMA Ages ==
  ASSUME TypeOK
  PROVE  /\ since_tick \in Nat /\ since_tick <= TickLength + TickDelay /\ 0 \in Age
         /\ \A c \in Chain : started[c] \in Nat /\ heartbeat[c] \in Nat
  <1>1. since_tick \in 0 .. TickLength + TickDelay BY Zenon DEF TypeOK
  <1>2. \A c \in Chain : started[c] \in Age /\ heartbeat[c] \in Age BY Zenon DEF TypeOK
  <1>3. 0 \in Age /\ Age \subseteq Nat BY TimeAssumption DEF Age
  <1>4. since_tick \in Nat /\ since_tick <= TickLength + TickDelay BY <1>1, TimeAssumption
  <1> QED BY <1>2, <1>3, <1>4, Zenon

LEMMA InitWatched == Init => Watched
  <1> SUFFICES ASSUME Init PROVE Watched OBVIOUS
  <1>1. 0 \in Age /\ TickLength \in 0 .. TickLength + TickDelay BY TimeAssumption DEF Age
  <1>2. TypeOK BY <1>1 DEF Init, TypeOK
  <1>3. SilentSinceTick /\ DangerStops BY DEF Init, SilentSinceTick, DangerStops, SeenByTick
  <1> QED BY <1>2, <1>3 DEF Watched

\* What a tick that lets the miner run on has seen of each chain.
LEMMA TickSees ==
  ASSUME TypeOK, NEW fans_running \in 0 .. MaxFans, Tick(fans_running), ended' = "no"
  PROVE  /\ UNCHANGED states
         /\ \A c \in Chain : ~TimedOut(c)
         /\ config.temps => \A c \in Chain : GetTemperature(c) \in Nat => GetTemperature(c) < DangerousTemp
  <1> DEFINE broken == {c \in Chain : TimedOut(c) \/ states[c] = "Broken"}
             temps == {GetTemperature(c) : c \in Chain}
             result == CalcResult(temps)
             decision == Decide(config, fans_running, result)
  <1>1. /\ states' = [c \in Chain |-> IF broken # {} /\ c = Min(broken) THEN "Broken" ELSE states[c]]
        /\ ended' = CASE broken # {} \/ decision = "shutdown" -> "shutdown"
                      [] broken = {} /\ decision = "panic" -> "panic"
                      [] OTHER -> "no"
    BY Zenon DEF Tick
  <1>2. broken = {} /\ decision # "shutdown"
    <2> HIDE DEF broken, decision
    <2> QED BY <1>1
  <1>3. UNCHANGED states BY <1>1, <1>2, Zenon DEF TypeOK
  <1>4. \A c \in Chain : ~TimedOut(c) BY <1>2
  <1>5. ASSUME config.temps, NEW c \in Chain, GetTemperature(c) \in Nat
        PROVE  GetTemperature(c) < DangerousTemp
    <2>1. ~Dangerous(config, result) BY <1>2 DEF Decide
    <2>2. result # Failed /\ (result \in Nat => result < DangerousTemp)
      <3> HIDE DEF result
      <3>1. result # Failed /\ (result \in Nat => ~(result >= DangerousTemp)) BY <1>5, <2>1 DEF Dangerous
      <3>2. DangerousTemp \in Nat BY TempAssumption
      <3> QED BY <3>1, <3>2
    <2>3. Failed \notin temps BY <2>2 DEF CalcResult
    <2>4. PICK t : t = [d \in Chain |-> GetTemperature(d)] BY ZenonT(40)
    <2>5. \A d \in Chain : t[d] \in Nat \cup {Unknown}
      <3> TAKE d \in Chain
      <3>1. t[d] \in temps BY <2>4
      <3>2. t[d] # Failed BY <2>3, <3>1
      <3>3. reading[d] \in Reading \cup {InvalidReading} BY ZenonT(40) DEF TypeOK
      <3>4. FromS9Sensor(reading[d]) \in Nat \cup {Unknown}
        BY <3>3, ReadingAssumption DEF FromS9Sensor, InvalidReading
      <3> QED BY <2>4, <3>2, <3>4, Zenon DEF GetTemperature, TypeOK
    <2>6. PICK known : known = temps \ {Unknown} BY Zenon
    <2>7. known = {t[d] : d \in Chain} \ {Unknown} BY <2>4, <2>6
    <2>8. GetTemperature(c) \in known BY <1>5, <2>6, ReadingAssumption
    <2>9. \E x \in known : \A y \in known : x >= y
      <3> HIDE DEF temps
      <3>1. Chain = 1 .. Chains /\ Chains \in Nat /\ known # {} BY <2>8, ChainAssumption DEF Chain
      <3>2. \A d \in 1 .. Chains : t[d] \in Nat \cup {Unknown} BY <2>5, <3>1
      <3>3. \A x : x \in known <=> x # Unknown /\ \E d \in 1 .. Chains : x = t[d] BY <2>7, <3>1
      <3> QED BY <3>1, <3>2, <3>3, HottestExists, Zenon
    <2>10. Max(known) \in known /\ Max(known) >= GetTemperature(c) BY <2>8, <2>9, MaxIsLargest
    <2>11. result = Max(known) BY <2>3, <2>6, <2>8 DEF CalcResult
    <2>12. Max(known) \in Nat BY <2>5, <2>7, <2>10
    <2>13. Max(known) < DangerousTemp BY <2>2, <2>11, <2>12
    <2> QED BY <1>5, <2>10, <2>12, <2>13, TempAssumption
  <1> QED BY <1>3, <1>4, <1>5

LEMMA TickTypes ==
  ASSUME TypeOK, NEW fans_running \in 0 .. MaxFans, Tick(fans_running)
  PROVE  TypeOK'
  <1> DEFINE broken == {c \in Chain : TimedOut(c) \/ states[c] = "Broken"}
             decision == Decide(config, fans_running, CalcResult({GetTemperature(c) : c \in Chain}))
             warming_up == config.warm_up /\ \E c \in Chain : IsWarmingUp(c)
  <1>1. /\ since_tick' = 0 /\ UNCHANGED <<config, started, heartbeat, reading>>
        /\ states' = [c \in Chain |-> IF broken # {} /\ c = Min(broken) THEN "Broken" ELSE states[c]]
        /\ ended' = CASE broken # {} \/ decision = "shutdown" -> "shutdown"
                      [] broken = {} /\ decision = "panic" -> "panic"
                      [] OTHER -> "no"
        /\ fan' = CASE ended' # "no" \/ decision = "nothing" -> fan
                    [] ended' = "no" /\ decision = "pid" /\ warming_up -> "pid warm"
                    [] OTHER -> decision
    BY Zenon DEF Tick
  <1>2. decision \in {"full", "fixed", "stopped", "pid", "panic", "shutdown", "nothing"}
    BY ConfigAssumption, Zenon DEF Decide, DecideFanControl, DecideFanControlNoTemp, TypeOK, FanModes
  <1> HIDE DEF broken, decision, warming_up
  <1>3. ended' \in {"no", "shutdown", "panic"} BY <1>1, Zenon
  <1>4. ended' = "no" => decision \notin {"shutdown", "panic"} BY <1>1, Zenon
  <1>5. fan' \in {"unset", "full", "fixed", "stopped", "pid", "pid warm"} BY <1>1, <1>2, <1>4, Zenon DEF TypeOK
  <1>6. states' \in [Chain -> {"Off", "On", "Running", "Broken"}] BY <1>1, Zenon DEF TypeOK
  <1>7. 0 \in 0 .. TickLength + TickDelay BY TimeAssumption
  <1> QED BY <1>1, <1>3, <1>5, <1>6, <1>7, Zenon DEF TypeOK

LEMMA NextWatched == Watched /\ [Next]_vars => Watched'
  <1> SUFFICES ASSUME Watched, [Next]_vars PROVE Watched' OBVIOUS
  <1>0. /\ TypeOK /\ SilentSinceTick /\ DangerStops
        /\ since_tick \in Nat /\ 0 \in Age
        /\ \A c \in Chain : started[c] \in Nat /\ heartbeat[c] \in Nat
    BY Ages DEF Watched
  <1>1. CASE Advance
    <2>1. /\ Up /\ since_tick < TickLength + TickDelay /\ since_tick' = since_tick + 1
          /\ UNCHANGED <<config, states, reading, fan, ended>>
      BY <1>1 DEF Advance, Up
    <2>2. started' = [c \in Chain |-> IF states[c] \in {"On", "Running"} THEN Older(started[c]) ELSE 0]
      BY <1>1 DEF Advance
    <2>3. heartbeat' = [c \in Chain |-> IF states[c] = "Running" THEN Older(heartbeat[c]) ELSE 0]
      BY <1>1 DEF Advance
    <2>4. \A c \in Chain : /\ Older(started[c]) \in Age /\ Older(started[c]) <= started[c] + 1
                           /\ Older(heartbeat[c]) \in Age /\ Older(heartbeat[c]) <= heartbeat[c] + 1
      BY <1>0, OlderType, ZenonT(40) DEF TypeOK
    <2>5. started' \in [Chain -> Age] /\ heartbeat' \in [Chain -> Age] BY <1>0, <2>2, <2>3, <2>4
    <2>6. since_tick' \in 0 .. TickLength + TickDelay BY <1>0, <2>1, TimeAssumption
    <2>7. TypeOK' BY <1>0, <2>1, <2>5, <2>6, ZenonT(40) DEF TypeOK
    <2>8. ASSUME NEW c \in Chain
          PROVE  /\ states[c] = "On" => started'[c] < StartTimeout + since_tick'
                 /\ states[c] = "Running" => heartbeat'[c] < RunUpdateTimeout + since_tick'
                 /\ states[c] = "Running" /\ heartbeat'[c] > since_tick' => heartbeat[c] > since_tick
      <3>0. started'[c] \in Nat /\ heartbeat'[c] \in Nat /\ started[c] \in Nat /\ heartbeat[c] \in Nat
        <4>1. started'[c] \in Age /\ heartbeat'[c] \in Age BY <2>5
        <4>2. Age \subseteq Nat BY DEF Age
        <4> QED BY <1>0, <4>1, <4>2, ZenonT(40)
      <3>1. /\ states[c] = "On" => started'[c] <= started[c] + 1
            /\ states[c] = "Running" => heartbeat'[c] <= heartbeat[c] + 1
        BY <2>2, <2>3, <2>4
      <3>2. /\ states[c] = "On" => started[c] < StartTimeout + since_tick
            /\ states[c] = "Running" => heartbeat[c] < RunUpdateTimeout + since_tick
        BY <1>0, <2>1 DEF SilentSinceTick
      <3>3. since_tick \in Nat /\ since_tick' = since_tick + 1 BY <1>0, <2>1
      <3>4. states[c] = "On" => started'[c] < StartTimeout + since_tick'
        BY Timeouts, <3>0, <3>1, <3>2, <3>3
      <3>5. states[c] = "Running" => heartbeat'[c] < RunUpdateTimeout + since_tick'
        BY Timeouts, <3>0, <3>1, <3>2, <3>3
      <3>6. states[c] = "Running" /\ heartbeat'[c] > since_tick' => heartbeat[c] > since_tick
        BY <3>0, <3>1, <3>3
      <3> QED BY <3>4, <3>5, <3>6
    <2>9. SilentSinceTick' BY <2>1, <2>8 DEF SilentSinceTick
    <2>10. DangerStops' BY <1>0, <2>1, <2>8 DEF DangerStops, SeenByTick, Up
    <2> QED BY <2>7, <2>9, <2>10 DEF Watched
  <1>2. ASSUME NEW c \in Chain, On(c) PROVE Watched'
    <2>1. /\ Up /\ UNCHANGED <<config, heartbeat, reading, since_tick, fan, ended>>
          /\ states' = [states EXCEPT ![c] = "On"] /\ started' = [started EXCEPT ![c] = 0]
      BY <1>2 DEF On, Up
    <2>2. TypeOK' BY <1>0, <2>1, Zenon DEF TypeOK
    <2>3. \A d \in Chain : d # c => states'[d] = states[d] /\ started'[d] = started[d] BY <1>0, <2>1, Zenon DEF TypeOK
    <2>4. states'[c] = "On" /\ started'[c] = 0 BY <1>0, <2>1, Zenon DEF TypeOK
    <2>5. 0 < StartTimeout + since_tick BY <1>0, TimeAssumption
    <2>6. SilentSinceTick' BY <1>0, <2>1, <2>3, <2>4, <2>5 DEF SilentSinceTick, Up
    <2>7. DangerStops' BY <1>0, <2>1, <2>3, <2>4 DEF DangerStops, SeenByTick, Up
    <2> QED BY <2>2, <2>6, <2>7 DEF Watched
  <1>3. ASSUME NEW c \in Chain, NEW r \in Reading, Running(c, r) PROVE Watched'
    <2>1. /\ Up /\ UNCHANGED <<config, started, since_tick, fan, ended>>
          /\ states' = [states EXCEPT ![c] = "Running"] /\ heartbeat' = [heartbeat EXCEPT ![c] = 0]
          /\ reading' = [reading EXCEPT ![c] = r]
      BY <1>3 DEF Running, Up
    <2>2. TypeOK' BY <1>0, <2>1, Zenon DEF TypeOK
    <2>3. \A d \in Chain : d # c => /\ states'[d] = states[d] /\ heartbeat'[d] = heartbeat[d]
                                    /\ reading'[d] = reading[d]
      BY <1>0, <2>1, Zenon DEF TypeOK
    <2>4. states'[c] = "Running" /\ heartbeat'[c] = 0 BY <1>0, <2>1, Zenon DEF TypeOK
    <2>5. 0 < RunUpdateTimeout + since_tick /\ ~(0 > since_tick) BY <1>0, TimeAssumption
    <2>6. SilentSinceTick' BY <1>0, <2>1, <2>3, <2>4, <2>5 DEF SilentSinceTick, Up
    <2>7. DangerStops' BY <1>0, <2>1, <2>3, <2>4, <2>5 DEF DangerStops, SeenByTick, Up
    <2> QED BY <2>2, <2>6, <2>7 DEF Watched
  <1>4. ASSUME NEW c \in Chain, Off(c) PROVE Watched'
    <2>1. /\ Up /\ UNCHANGED <<config, since_tick, fan, ended>>
          /\ states' = [states EXCEPT ![c] = "Off"]
          /\ started' = [started EXCEPT ![c] = 0] /\ heartbeat' = [heartbeat EXCEPT ![c] = 0]
          /\ reading' = [reading EXCEPT ![c] = InvalidReading]
      BY <1>4 DEF Off, Up
    <2>2. TypeOK' BY <1>0, <2>1, Zenon DEF TypeOK
    <2>3. \A d \in Chain : d # c => /\ states'[d] = states[d] /\ heartbeat'[d] = heartbeat[d]
                                    /\ started'[d] = started[d] /\ reading'[d] = reading[d]
      BY <1>0, <2>1, Zenon DEF TypeOK
    <2>4. states'[c] = "Off" BY <1>0, <2>1, Zenon DEF TypeOK
    <2>5. SilentSinceTick' BY <1>0, <2>1, <2>3, <2>4 DEF SilentSinceTick, Up
    <2>6. DangerStops' BY <1>0, <2>1, <2>3, <2>4 DEF DangerStops, SeenByTick, Up
    <2> QED BY <2>2, <2>5, <2>6 DEF Watched
  <1>5. ASSUME NEW fans_running \in 0 .. MaxFans, Tick(fans_running) PROVE Watched'
    <2>1. since_tick' = 0 /\ UNCHANGED <<config, started, heartbeat, reading>> BY <1>5, Zenon DEF Tick
    <2>2. TypeOK' BY <1>0, <1>5, TickTypes
    <2>3. CASE ended' # "no" BY <2>2, <2>3 DEF Watched, SilentSinceTick, DangerStops, Up
    <2>4. CASE ended' = "no"
      <3>1. /\ UNCHANGED states /\ \A c \in Chain : ~TimedOut(c)
            /\ config.temps => \A c \in Chain : GetTemperature(c) \in Nat => GetTemperature(c) < DangerousTemp
        BY <1>0, <1>5, <2>4, TickSees
      <3>2. \A c \in Chain : /\ states[c] = "On" => started[c] < StartTimeout + 0
                             /\ states[c] = "Running" => heartbeat[c] < RunUpdateTimeout + 0
        <4> TAKE c \in Chain
        <4>1. /\ states[c] = "On" => ~(started[c] >= StartTimeout)
              /\ states[c] = "Running" => ~(heartbeat[c] >= RunUpdateTimeout)
          BY <3>1 DEF TimedOut
        <4>2. started[c] \in Nat /\ heartbeat[c] \in Nat BY <1>0
        <4> QED BY <4>1, <4>2, Timeouts
      <3>3. SilentSinceTick' BY <2>1, <3>1, <3>2 DEF SilentSinceTick
      <3>4. ASSUME config.temps, NEW c \in Chain, states[c] = "Running"
            PROVE  /\ reading[c].remote # NoReading => reading[c].remote < DangerousTemp
                   /\ reading[c].remote = NoReading /\ reading[c].local # NoReading
                        => reading[c].local + 15 < DangerousTemp
        <4>1. GetTemperature(c) = FromS9Sensor(reading[c]) BY <3>4 DEF GetTemperature
        <4>2. reading[c] \in Reading \cup {InvalidReading} BY <1>0, ZenonT(40) DEF TypeOK
        <4>3. PICK remote, local \in Nat \cup {NoReading} : reading[c].remote = remote /\ reading[c].local = local
          <5>1. CASE reading[c] \in Reading BY <5>1, ReadingAssumption, Zenon
          <5>2. CASE reading[c] = InvalidReading
            <6>1. reading[c].remote = NoReading /\ reading[c].local = NoReading BY <5>2, NoTemperature
            <6> QED BY <6>1, Zenon
          <5> QED BY <4>2, <5>1, <5>2, Zenon
        <4>4. FromS9Sensor(reading[c]) \in Nat => FromS9Sensor(reading[c]) < DangerousTemp
          BY <3>1, <3>4, <4>1
        <4>5. CASE remote # NoReading BY <4>3, <4>4, <4>5 DEF FromS9Sensor
        <4>6. CASE remote = NoReading /\ local # NoReading
          <5>1. local + 15 \in Nat BY <4>6
          <5> QED BY <4>3, <4>4, <4>6, <5>1 DEF FromS9Sensor
        <4> QED BY <4>3, <4>5, <4>6
      <3>5. DangerStops' BY <2>1, <3>1, <3>4 DEF DangerStops, SeenByTick
      <3> QED BY <2>2, <3>3, <3>5 DEF Watched
    <2> QED BY <2>3, <2>4
  <1>6. CASE UNCHANGED vars
    BY <1>0, <1>6, Zenon DEF vars, Watched, TypeOK, SilentSinceTick, DangerStops, SeenByTick, Up
  <1> QED BY <1>1, <1>2, <1>3, <1>4, <1>5, <1>6 DEF Next

\* The monitor of the S9 (monitor.rs), for every number of chains, every configuration
\* and every timeout: while the miner is up, a chain that is silent or does not come up
\* has been so for less than its timeout and the time between two ticks, and none that
\* the last tick saw above DANGEROUS is left on.
THEOREM MonitorNotices == Spec => []DangersNoticed
  <1>1. Watched => DangersNoticed
    <2> SUFFICES ASSUME Watched PROVE DeadChainsNoticed BY DEF Watched, DangersNoticed
    <2>1. /\ since_tick \in Nat /\ since_tick <= TickLength + TickDelay
          /\ \A c \in Chain : started[c] \in Nat /\ heartbeat[c] \in Nat
      BY Ages DEF Watched
    <2>2. SilentSinceTick BY DEF Watched
    <2>3. ASSUME Up, NEW c \in Chain
          PROVE  /\ states[c] = "On" => started[c] < StartTimeout + TickLength + TickDelay
                 /\ states[c] = "Running" => heartbeat[c] < RunUpdateTimeout + TickLength + TickDelay
      <3>1. /\ states[c] = "On" => started[c] < StartTimeout + since_tick
            /\ states[c] = "Running" => heartbeat[c] < RunUpdateTimeout + since_tick
        BY <2>2, <2>3, Zenon DEF SilentSinceTick
      <3> QED BY Timeouts, <2>1, <3>1
    <2> QED BY <2>3 DEF DeadChainsNoticed
  <1> QED BY <1>1, InitWatched, NextWatched, PTL DEF Spec


-----------------------------------------------------------------------------
(* One instance drives the power of a chain.                              *)

INSTANCE FiniteSetTheorems

\* At most one owner or the handler is busy, and then no chain is left in the Manager.
LEMMA OneInstance == Managed => OneInstanceOwnsPower
  <1> SUFFICES ASSUME Managed PROVE OneInstanceOwnsPower OBVIOUS
  <1>1. voltage => \/ hash_chain \/ halt = "halting"
                   \/ \E a \in Owner : pc[a] \in {"power", "halting"}
    BY DEF Managed, Powered, BeingHalted
  <1> DEFINE busy == {a \in Owner : pc[a] \in {"init", "power", "halting"}}
  <1>2. CASE crashed # "no" BY <1>1, <1>2 DEF OneInstanceOwnsPower
  <1>3. CASE crashed = "no"
    <2>1. CASE lock = {}
      <3>1. busy = {} /\ halt # "halting" BY <2>1, OthersRest DEF Managed, Busy
      <3>2. Cardinality(busy) = 0 BY <3>1, FS_EmptySet
      <3> QED BY <1>1, <3>1, <3>2 DEF OneInstanceOwnsPower
    <2>2. CASE lock = {Handler}
      <3>1. busy = {} /\ ~hash_chain BY <1>3, <2>2, OthersRest DEF Managed, Busy, Announced
      <3>2. Cardinality(busy) = 0 BY <3>1, FS_EmptySet
      <3> QED BY <1>1, <3>1, <3>2 DEF OneInstanceOwnsPower
    <2>3. ASSUME NEW a \in Owner, lock = {a} PROVE OneInstanceOwnsPower
      <3>1. busy = {a} /\ halt # "halting" /\ ~hash_chain
        BY <1>3, <2>3, OthersRest DEF Managed, Busy, Announced
      <3>2. Cardinality(busy) = 1 BY <3>1, FS_Singleton
      <3> QED BY <1>1, <3>1, <3>2 DEF OneInstanceOwnsPower
    <2> QED BY <2>1, <2>2, <2>3 DEF Managed, Locked
  <1> QED BY <1>2, <1>3

\* However owners, retries, stops and the termination handler interleave, the
\* monitor hears of the chain in order, and no two instances drive its power.
THEOREM ManagerKeepsPromises == ManagerSpec => []ChainIsManaged
  <1>1. Managed => ChainIsManaged
    BY OneInstance DEF ChainIsManaged, FollowsProtocol, Managed, ChainTypes
  <1> QED BY <1>1, ManagerInvariance, PTL
===============================================================================
