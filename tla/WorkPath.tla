------------------------------- MODULE WorkPath -------------------------------
(***************************************************************************)
(* How work reaches the chips of one hash chain and how solutions find     *)
(* their way back to it: WorkRegistry (registry.rs), the transmit and      *)
(* receive tasks (lib.rs), the identifiers on the wire (io.rs,             *)
(* io/ext_work_id.rs) and the FPGA core (bm13xx_core.vhd), which truncates *)
(* an identifier for the chips and completes it again in a response.       *)
(*                                                                         *)
(* `serial' is a work's position in the order of storing; it is not in the *)
(* code and only says which work a solution really belongs to.             *)
(***************************************************************************)
EXTENDS Integers, Sequences, FiniteSets

CONSTANTS
  Midstates,  \* midstates per work, identifiers a work takes up
  ChipIds,    \* identifiers a chip can tell apart (2^7)
  ExtIds,     \* identifiers the core can tell apart (2^16)
  FifoWorks,  \* works the transmit FIFO holds
  RxFifo,     \* responses the receive FIFO holds
  ChipLag,    \* a chip answers while its work is among the last ChipLag sent
  InitWork,   \* open-core works sent at the start
  Nonce,
  MaxWork,    \* bound: works stored
  MaxResponses \* bound: responses of chips

ASSUME WidthAssumption ==
  /\ {Midstates, ChipIds, ExtIds} \subseteq Nat \ {0}
  /\ ChipIds % Midstates = 0 /\ ExtIds % ChipIds = 0
\* The chips forget a work before its truncated identifier comes round again,
\* and no work is still in them when its full identifier does.
ASSUME TimingAssumption ==
  /\ {FifoWorks, RxFifo, ChipLag, InitWork, MaxWork, MaxResponses} \subseteq Nat
  /\ ChipLag * Midstates <= ChipIds
  /\ FifoWorks + 1 + ChipLag <= ExtIds \div Midstates

registry_size == ExtIds \div Midstates   \* get_work_id_count
WorkId == 0 .. registry_size - 1

VARIABLES
  stored,        \* number of works stored
  next_work_id,
  pending,       \* pending_work_list: a set of at most one item per slot
  storing,       \* a work that is stored and not yet written: at most one
  work_tx_fifo,  \* work identifiers, with their serials
  work_id_tx,    \* the core's register: identifier of the last work sent
  chips,         \* works in the chips: serial and truncated identifier
  work_rx_fifo,  \* responses, with the serial and midstate they stem from
  sent,          \* what solution_rx_task sent to the frontend
  responses

vars == <<stored, next_work_id, pending, storing, work_tx_fifo, work_id_tx, chips,
          work_rx_fifo, sent, responses>>

Midstate == 0 .. Midstates - 1
Written == [serial : Nat, id : WorkId]
Item == [serial : Nat, initial_work : BOOLEAN, solutions : SUBSET Nonce]
Response == [serial : Nat, midstate : Midstate, nonce : Nonce, word : 0 .. ExtIds - 1]
Solution == [serial : Nat, midstate : Midstate, nonce : Nonce,
             work : Nat, midstate_idx : Midstate]

TypeOK ==
  /\ stored \in Nat
  /\ next_work_id \in WorkId
  /\ pending \in [WorkId -> SUBSET Item]
  /\ \A i \in WorkId : \A x, y \in pending[i] : x = y
  /\ storing \subseteq Written /\ \A x, y \in storing : x = y
  /\ work_tx_fifo \in Seq(Written) /\ Len(work_tx_fifo) <= FifoWorks
  /\ work_id_tx \in 0 .. ExtIds - 1
  /\ chips \subseteq [serial : Nat, id : 0 .. ChipIds - 1]
  /\ work_rx_fifo \in Seq(Response) /\ Len(work_rx_fifo) <= RxFifo
  /\ sent \in Seq(Solution)
  /\ responses \in Nat

Init ==
  /\ stored = 0 /\ next_work_id = 0
  /\ pending = [i \in WorkId |-> {}]
  /\ storing = {} /\ work_tx_fifo = <<>>
  /\ work_id_tx = 0
  /\ chips = {}
  /\ work_rx_fifo = <<>>
  /\ sent = <<>>
  /\ responses = 0

-----------------------------------------------------------------------------
\* store_work's retired slot: half the registry ahead.
RetireId(work_id) == (work_id + registry_size \div 2) % registry_size

NextId(work_id) == (work_id + 1) % registry_size

HasRoom == Len(work_tx_fifo) < FifoWorks

\* store_work, called by send_init_work before it waits for room and by
\* work_tx_task after.  The driver looks at a response before registry_size
\* more works are stored.
StoreWork ==
  /\ stored < MaxWork
  /\ storing = {}
  /\ stored >= InitWork => HasRoom
  /\ \A r \in 1 .. Len(work_rx_fifo) : stored - work_rx_fifo[r].serial < registry_size
  /\ stored' = stored + 1
  /\ next_work_id' = NextId(next_work_id)
  /\ pending' = [i \in WorkId |->
       IF i = next_work_id
         THEN {[serial |-> stored, initial_work |-> stored < InitWork, solutions |-> {}]}
       ELSE IF i = RetireId(next_work_id) THEN {} ELSE pending[i]]
  /\ storing' = {[serial |-> stored, id |-> next_work_id]}
  /\ UNCHANGED <<work_tx_fifo, work_id_tx, chips, work_rx_fifo, sent, responses>>

\* send_work.
WriteWork ==
  /\ HasRoom
  /\ \E w \in storing : work_tx_fifo' = Append(work_tx_fifo, w)
  /\ storing' = {}
  /\ UNCHANGED <<stored, next_work_id, pending, work_id_tx, chips, work_rx_fifo, sent, responses>>

\* The core sends a work to the chips: to_hw, then the low bits; the chips let
\* go of the works they held too long.
SendWork ==
  LET w == Head(work_tx_fifo) IN
  /\ work_tx_fifo # <<>>
  /\ work_tx_fifo' = Tail(work_tx_fifo)
  /\ work_id_tx' = w.id * Midstates
  /\ chips' = {c \in chips : w.serial - c.serial < ChipLag}
                \cup (IF ChipLag = 0 THEN {}
                      ELSE {[serial |-> w.serial, id |-> (w.id * Midstates) % ChipIds]})
  /\ UNCHANGED <<stored, next_work_id, pending, storing, work_rx_fifo, sent, responses>>

-----------------------------------------------------------------------------
\* p_work_id_calc: an identifier above the last one sent is from the round before.
\* (Mutant: the midstate bits are not masked in the comparison.)
ExtendUnmasked(id) ==
  LET round == (work_id_tx \div ChipIds) - (IF id > work_id_tx % ChipIds THEN 1 ELSE 0)
  IN (round % (ExtIds \div ChipIds)) * ChipIds + id
Extend(id) ==
  LET masked == id - (id % Midstates)
      round == (work_id_tx \div ChipIds) - (IF masked > work_id_tx % ChipIds THEN 1 ELSE 0)
  IN (round % (ExtIds \div ChipIds)) * ChipIds + id

\* A chip finds a nonce for one of the midstates; a response that finds the
\* FIFO full is dropped.
Respond(w, m, n) ==
  /\ responses < MaxResponses
  /\ responses' = responses + 1
  /\ work_rx_fifo' =
       IF Len(work_rx_fifo) = RxFifo THEN work_rx_fifo
       ELSE Append(work_rx_fifo, [serial |-> w.serial, midstate |-> m, nonce |-> n,
                                  word |-> Extend(w.id + m)])
  /\ UNCHANGED <<stored, next_work_id, pending, storing, work_tx_fifo, work_id_tx, chips, sent>>

\* solution_rx_task: from_hw, find_work, insert_solution.
\* (Mutant: a nonce that was seen before is sent again.)
ReceiveAgain ==
  LET r == Head(work_rx_fifo)
      work_id == r.word \div Midstates
      found == {item \in pending[work_id] : ~item.initial_work}
  IN /\ work_rx_fifo # <<>>
     /\ work_rx_fifo' = Tail(work_rx_fifo)
     /\ \/ /\ found = {}
           /\ UNCHANGED <<pending, sent>>
        \/ \E item \in found :
             /\ pending' = [pending EXCEPT ![work_id] =
                              {[item EXCEPT !.solutions = @ \cup {r.nonce}]}]
             /\ sent' = Append(sent, [serial |-> r.serial, midstate |-> r.midstate,
                  nonce |-> r.nonce, work |-> item.serial, midstate_idx |-> r.word % Midstates])
     /\ UNCHANGED <<stored, next_work_id, storing, work_tx_fifo, work_id_tx, chips, responses>>
ReceiveSolution ==
  LET r == Head(work_rx_fifo)
      work_id == r.word \div Midstates
      found == {item \in pending[work_id] : ~item.initial_work}
  IN /\ work_rx_fifo # <<>>
     /\ work_rx_fifo' = Tail(work_rx_fifo)
     /\ \/ /\ \A item \in found : r.nonce \in item.solutions
           /\ UNCHANGED <<pending, sent>>
        \/ \E item \in found :
             /\ r.nonce \notin item.solutions
             /\ pending' = [pending EXCEPT ![work_id] =
                              {[item EXCEPT !.solutions = @ \cup {r.nonce}]}]
             /\ sent' = Append(sent, [serial |-> r.serial, midstate |-> r.midstate,
                  nonce |-> r.nonce, work |-> item.serial, midstate_idx |-> r.word % Midstates])
     /\ UNCHANGED <<stored, next_work_id, storing, work_tx_fifo, work_id_tx, chips, responses>>

Next ==
  \/ StoreWork
  \/ WriteWork
  \/ SendWork
  \/ \E w \in chips, m \in Midstate, n \in Nonce : Respond(w, m, n)
  \/ ReceiveSolution

Spec == Init /\ [][Next]_vars

-----------------------------------------------------------------------------
\* "Registry is responsible for associating work with work_id": whatever was
\* truncated, completed, wrapped around and retired on the way, a solution is
\* paired with the very work and midstate the chip found it for.
RightWork ==
  \A i \in 1 .. Len(sent) :
    sent[i].work = sent[i].serial /\ sent[i].midstate_idx = sent[i].midstate

\* insert_solution: a nonce of a work is sent to the frontend once, however often
\* the chips report it, and solutions of open-core work never are.
SentOnce ==
  /\ \A i, j \in 1 .. Len(sent) :
       i # j => <<sent[i].work, sent[i].nonce>> # <<sent[j].work, sent[j].nonce>>
  /\ \A i \in 1 .. Len(sent) : sent[i].work >= InitWork

-----------------------------------------------------------------------------
(* The inductive invariant: at every place on the path the identifier is   *)
(* that of the serial, and the serials in one place are close together.    *)

transmitted == stored - Len(work_tx_fifo) - (IF storing = {} THEN 0 ELSE 1)
IdOf(serial) == serial % registry_size

RegistryInv ==
  /\ next_work_id = IdOf(stored)
  /\ \A i \in WorkId : \A item \in pending[i] :
       /\ item.serial < stored /\ stored - item.serial <= registry_size
       /\ i = IdOf(item.serial)
       /\ item.initial_work <=> item.serial < InitWork
FifoInv ==
  /\ transmitted \in Nat
  /\ \A w \in storing : w.serial = stored - 1 /\ w.id = IdOf(w.serial)
  /\ \A k \in 1 .. Len(work_tx_fifo) :
       /\ work_tx_fifo[k].serial = transmitted + k - 1
       /\ work_tx_fifo[k].id = IdOf(work_tx_fifo[k].serial)
ChipInv ==
  /\ transmitted > 0 => work_id_tx = IdOf(transmitted - 1) * Midstates
  /\ \A c \in chips :
       /\ c.serial < transmitted /\ transmitted - c.serial <= ChipLag
       /\ c.id = (IdOf(c.serial) * Midstates) % ChipIds
ResponseInv ==
  \A k \in 1 .. Len(work_rx_fifo) :
    LET r == work_rx_fifo[k] IN
    /\ r.serial < stored /\ stored - r.serial <= registry_size
    /\ r.word = IdOf(r.serial) * Midstates + r.midstate
SentInv ==
  \A k \in 1 .. Len(sent) :
    /\ sent[k].work < stored
    /\ \A i \in WorkId : \A item \in pending[i] :
         item.serial = sent[k].work => sent[k].nonce \in item.solutions

IInv == TypeOK /\ RegistryInv /\ FifoInv /\ ChipInv /\ ResponseInv /\ SentInv
          /\ RightWork /\ SentOnce
=============================================================================
