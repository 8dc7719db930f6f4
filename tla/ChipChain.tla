------------------------------ MODULE ChipChain ------------------------------
(***************************************************************************)
(* The chips of a hash board behind their command interface                *)
(* (bosminer-am1-s9/src/command.rs, bm1387.rs): how HashChain::init        *)
(* enumerates and sets them up, how an owner changes their frequencies,    *)
(* and how the temperature task reaches a sensor over the I2C controller   *)
(* inside one of the chips (bm1387/i2c.rs, sensor.rs).                     *)
(*                                                                         *)
(* A response carries a value but neither the chip nor the register it     *)
(* comes from.  Responses may be lost; a chip whose PLL is changed while   *)
(* it hashes may send garbage, which arrives before the command is flushed.*)
(***************************************************************************)
EXTENDS Naturals, Sequences, FiniteSets, SequencesExt

CONSTANTS
  Chips,                    \* chips on the board
  EXPECTED_CHIPS_ON_CHAIN,
  MAX_CHIPS_ON_CHAIN,
  Freqs,                    \* frequencies an owner may ask for
  Temps,                    \* temperatures the sensor may have
  Devices,                  \* I2C addresses that are probed, in order
  MAX_I2C_BUSY_WAIT_TRIES,
  MAX_I2C_FAIL_TRIES,
  MaxLost,                  \* bound: lost responses and transactions that fail
  MaxSets,                  \* bound: frequency changes
  MaxReadings               \* bound: temperatures reported

ASSUME ChainAssumption == Chips \in 1 .. MAX_CHIPS_ON_CHAIN - 1 /\ EXPECTED_CHIPS_ON_CHAIN <= Chips
ASSUME DeviceAssumption == Len(Devices) > 0

INIT_BAUD == 26        \* divisors of INIT_ and TARGET_CHIP_BAUD_RATE
TARGET_BAUD == 1
MASK == 63             \* TicketMaskReg of the chain's difficulty
TEMP_CHIP == Chips - 1
JUNK == 99
ID_REG == 254
CONFIG_REG == 3
TEMP_REG == 0
CONFIG_RANGE == 4
KNOWN_ID == 85

Chip == 1 .. Chips
All == [kind |-> "all", n |-> 0]
One(i) == [kind |-> "one", n |-> i]

VARIABLES
  chip,       \* each chip: addr, pll, baud, mask
  core_baud,  \* the IP core's divisor
  cmd_rx,         \* command RX FIFO
  i2c,        \* I2cControlReg of TEMP_CHIP, now and before its last transaction
  config,     \* the sensor's range setting
  heat,       \* the temperature in the sensor's register
  seen,       \* history: the temperatures it has had since the board's reset
  context,    \* holder of the command context's mutex
  main,       \* the task that starts the chain and then changes its frequencies
  temp,       \* the temperature task
  chip_count, frequency,
  reading,    \* the last temperature reported
  lost, sets, readings

chip_vars == <<chip, core_baud, i2c, config, heat, seen>>
count_vars == <<lost, sets, readings>>
chain_vars == <<chip_vars, cmd_rx, context, main, temp, chip_count, frequency, reading, count_vars>>

Reset == [addr |-> 0, pll |-> 0, baud |-> INIT_BAUD, mask |-> 0]
NoControl == [busy |-> FALSE, addr |-> 0, reg |-> 0, data |-> 0]
NoTemp == [pc |-> "off", device |-> 1, step |-> "busy", busy |-> 0, fails |-> 0, misc |-> 0]
Invalid == 1000

\* A new HashChain after the board's reset; `accept' is accept_less_chips.
Fresh ==
  /\ chip' = [i \in Chip |-> Reset] /\ core_baud' = INIT_BAUD /\ cmd_rx' = <<>>
  /\ i2c' = [now |-> NoControl, before |-> NoControl] /\ config' = 0
  /\ temp' = NoTemp /\ reading' = Invalid /\ chip_count' = 0 /\ frequency' = [i \in Chip |-> 0]
  /\ \E accept \in BOOLEAN :
       main' = [pc |-> "enumerate", new |-> [i \in Chip |-> 0], todo |-> <<>>, accept |-> accept]

ChainInit ==
  /\ chip = [i \in Chip |-> Reset] /\ core_baud = INIT_BAUD /\ cmd_rx = <<>>
  /\ i2c = [now |-> NoControl, before |-> NoControl] /\ config = 0
  /\ temp = NoTemp /\ chip_count = 0 /\ frequency = [i \in Chip |-> 0]
  /\ main = [pc |-> "failed", new |-> [i \in Chip |-> 0], todo |-> <<>>, accept |-> FALSE]
  /\ heat \in Temps /\ seen = {heat}
  /\ context = {} /\ reading = Invalid /\ lost = 0 /\ sets = 0 /\ readings = 0

-----------------------------------------------------------------------------
(* The chips.                                                              *)

Hears(to) ==
  {i \in Chip : chip[i].baud = core_baud /\ (to = All \/ to = One(chip[i].addr))}

Value(i, reg) ==
  CASE reg = "address" -> [reg |-> reg, val |-> chip[i].addr]
    [] reg = "misc"    -> [reg |-> reg, val |-> chip[i].baud]
    [] reg = "mask"    -> [reg |-> reg, val |-> chip[i].mask]
    [] reg = "i2c"     -> [reg |-> reg, val |-> i2c.now]

\* GetStatusCmd: the chips answer in their order, some in vain.
GetStatus(a) ==
  \E gone \in SUBSET Hears(a.to) :
    /\ lost + Cardinality(gone) <= MaxLost
    /\ lost' = lost + Cardinality(gone)
    /\ cmd_rx' = cmd_rx \o [k \in 1 .. Cardinality(Hears(a.to) \ gone) |->
                      Value(SetToSortSeq(Hears(a.to) \ gone, <)[k], a.reg)]
    /\ UNCHANGED chip_vars

\* SetConfigCmd.
SetConfig(a) ==
  /\ chip' = [i \in Chip |->
       IF i \notin Hears(a.to) THEN chip[i]
       ELSE CASE a.reg = "pll"  -> [chip[i] EXCEPT !.pll = a.val]
              [] a.reg = "misc" -> [chip[i] EXCEPT !.baud = a.val]
              [] a.reg = "mask" -> [chip[i] EXCEPT !.mask = a.val]
              [] OTHER          -> chip[i]]
  /\ i2c' = IF a.reg = "i2c" /\ Hears(a.to) # {}
            THEN [now |-> [a.val EXCEPT !.busy = TRUE], before |-> i2c.now] ELSE i2c
  /\ cmd_rx' \in {cmd_rx} \cup IF a.reg = "pll" /\ main.pc = "up"
                       THEN {Append(cmd_rx, [reg |-> "junk", val |-> JUNK])} ELSE {}
  /\ UNCHANGED <<core_baud, config, heat, seen, lost>>

\* A transaction of the controller in TEMP_CHIP with the sensor, which is at the
\* last of the probed addresses.
Transaction ==
  LET r == i2c.now
      sensor == Devices[Len(Devices)]
      data == IF r.addr # sensor THEN 255
              ELSE IF r.reg = ID_REG THEN KNOWN_ID
              ELSE IF r.reg = CONFIG_REG THEN config ELSE heat
  IN /\ r.busy
     /\ i2c' = [i2c EXCEPT !.now = [r EXCEPT !.busy = FALSE,
                                             !.data = IF r.addr % 2 = 1 THEN @ ELSE data]]
     /\ config' = IF r.addr = sensor + 1 /\ r.reg = CONFIG_REG THEN r.data ELSE config
     /\ UNCHANGED <<chip, core_baud, heat, seen, cmd_rx, context, main, temp, chip_count, frequency,
                    reading, count_vars>>

\* The controller ignores what it was told and shows its last transaction.
Ignored ==
  /\ i2c.now.busy /\ lost < MaxLost /\ lost' = lost + 1
  /\ i2c' = [i2c EXCEPT !.now = i2c.before]
  /\ UNCHANGED <<chip, core_baud, config, heat, seen, cmd_rx, context, main, temp, chip_count,
                 frequency, reading, sets, readings>>

Heat ==
  /\ heat' \in Temps \ {heat} /\ seen' = seen \cup {heat'}
  /\ UNCHANGED <<chip, core_baud, i2c, config, cmd_rx, context, main, temp, chip_count, frequency,
                 reading, count_vars>>

-----------------------------------------------------------------------------
(* The command context.  An access is made in two steps: the command, and  *)
(* the collection of its responses or the flush of the RX FIFO.            *)

Read(to, reg) == [op |-> "read", to |-> to, reg |-> reg, val |-> 0]
Write(to, reg, val) == [op |-> "write", to |-> to, reg |-> reg, val |-> val]

LockContext(t) == context = {} /\ context' = {t}

\* The access each task is about to make.
MainAccess ==
  CASE main.pc = "enumerate" -> Read(All, "address")
    [] main.pc \in {"pll", "up"} -> Head(main.todo)
    [] main.pc = "configure" -> Write(All, "misc", TARGET_BAUD)
    [] main.pc = "mask" -> Write(All, "mask", MASK)
    [] main.pc = "readback" -> Read(All, "mask")
MainReady == main.pc # "failed" /\ (main.pc \in {"pll", "up"} => main.todo # <<>>)

I2cControl(addr, reg, data) == [busy |-> FALSE, addr |-> addr, reg |-> reg, data |-> data]
\* The I2C operation of each place in try_to_initialize_sensor and the loop after it.
Operation ==
  LET d == Devices[temp.device]
  IN CASE temp.pc = "probe"  -> I2cControl(d, ID_REG, 0)
       [] temp.pc = "range"  -> I2cControl(d + 1, CONFIG_REG, CONFIG_RANGE)
       [] temp.pc = "verify" -> I2cControl(d, CONFIG_REG, 0)
       [] temp.pc = "measure" -> I2cControl(d, TEMP_REG, 0)
       [] OTHER -> NoControl
TempAccess ==
  CASE temp.pc \in {"misc", "back"} -> Read(One(TEMP_CHIP), "misc")
    [] temp.pc = "i2c" -> Write(One(TEMP_CHIP), "misc", temp.misc)
    [] OTHER -> IF temp.step = "command" THEN Write(One(TEMP_CHIP), "i2c", Operation)
                ELSE Read(One(TEMP_CHIP), "i2c")
TempReady == temp.pc \notin {"off", "none"} /\ readings < MaxReadings

Access(t) == IF t = "main" THEN MainAccess ELSE TempAccess

Command(t) ==
  /\ IF t = "main" THEN MainReady ELSE TempReady
  /\ LockContext(t)
  /\ IF Access(t).op = "read" THEN GetStatus(Access(t)) ELSE SetConfig(Access(t))
  /\ UNCHANGED <<main, temp, chip_count, frequency, reading, sets, readings>>

\* What read_register collects, and what it leaves.
Collected(a) == IF a.to = All \/ cmd_rx = <<>> THEN cmd_rx ELSE <<Head(cmd_rx)>>

\* write_register ends with flush_command_rx.  (Mutant: it does not.)
flush_nothing(a) == IF a.op = "write" THEN cmd_rx ELSE SubSeq(cmd_rx, Len(Collected(a)) + 1, Len(cmd_rx))
flush_command_rx(a) ==
  IF a.op = "write" THEN <<>> ELSE SubSeq(cmd_rx, Len(Collected(a)) + 1, Len(cmd_rx))

\* from_reg: the bits are read as the register that was asked for.
Reading(v, reg) ==
  IF v.reg = reg THEN v.val
  ELSE IF reg = "i2c" THEN I2cControl(JUNK, JUNK, JUNK) ELSE JUNK

-----------------------------------------------------------------------------
(* HashChain::reset_and_enumerate_and_init and set_pll.                    *)

Assign(n) == [i \in Chip |-> IF i <= n THEN [chip[i] EXCEPT !.addr = i - 1] ELSE chip[i]]

\* set_pll: one broadcast for equal frequencies; otherwise each chip whose
\* frequency differs is sent the one that is remembered of it.
Plls(new, count) ==
  IF \A i \in Chip : new[i] = new[1] THEN <<Write(All, "pll", new[1])>>
  ELSE LET changed == SelectSeq([i \in 1 .. count |-> i], LAMBDA i : frequency[i] # new[i])
       IN [k \in DOMAIN changed |-> Write(One(changed[k] - 1), "pll", frequency[changed[k]])]
Remember(new) == [i \in Chip |-> IF i <= chip_count THEN new[i] ELSE frequency[i]]

Fail == main' = [main EXCEPT !.pc = "failed"]
Go(pc) == main' = [main EXCEPT !.pc = pc]

Enumerated ==
  LET n == Len(cmd_rx)
  IN IF n = 0 \/ n >= MAX_CHIPS_ON_CHAIN \/ \E k \in 1 .. n : cmd_rx[k].reg # "address"
     THEN Fail /\ UNCHANGED <<chip, chip_count>>
     ELSE /\ chip' = Assign(n) /\ chip_count' = n
          /\ IF n < EXPECTED_CHIPS_ON_CHAIN /\ ~main.accept THEN Fail
             ELSE \E f \in Freqs :
                    LET new == [i \in Chip |-> f]
                    IN main' = [main EXCEPT !.pc = "pll", !.new = new, !.todo = Plls(new, n)]

MainDone ==
  LET a == MainAccess
      last == Len(main.todo) = 1
  IN /\ "main" \in context /\ context' = context \ {"main"}
     /\ cmd_rx' = flush_command_rx(a)
     /\ CASE main.pc = "enumerate" -> Enumerated /\ UNCHANGED <<core_baud, frequency, temp>>
          [] main.pc \in {"pll", "up"} ->
               /\ main' = [main EXCEPT !.todo = Tail(@),
                                       !.pc = IF @ = "pll" /\ last THEN "configure" ELSE @]
               /\ frequency' = IF last THEN Remember(main.new) ELSE frequency
               /\ UNCHANGED <<chip, chip_count, core_baud, temp>>
          [] main.pc = "configure" ->
               Go("mask") /\ core_baud' = TARGET_BAUD /\ UNCHANGED <<chip, chip_count, frequency, temp>>
          [] main.pc = "mask" ->
               Go("readback") /\ UNCHANGED <<chip, chip_count, core_baud, frequency, temp>>
          [] main.pc = "readback" ->
               /\ IF Len(cmd_rx) = chip_count /\ \A k \in 1 .. Len(cmd_rx) : Reading(cmd_rx[k], "mask") = MASK
                  THEN Go("up") /\ temp' = [temp EXCEPT !.pc = "misc"]
                  ELSE Fail /\ UNCHANGED temp
               /\ UNCHANGED <<chip, chip_count, core_baud, frequency>>
     /\ UNCHANGED <<i2c, config, heat, seen, reading, count_vars>>

\* The next attempt.
Restart ==
  /\ main.pc = "failed" /\ context = {} /\ Fresh
  /\ UNCHANGED <<heat, seen, context, count_vars>>

\* RunningChain::set_frequency.
SetFrequency(new) ==
  /\ main.pc = "up" /\ main.todo = <<>> /\ sets < MaxSets
  /\ Plls(new, chip_count) # <<>>
  /\ main' = [main EXCEPT !.new = new, !.todo = Plls(new, chip_count)]
  /\ sets' = sets + 1
  /\ UNCHANGED <<chip_vars, cmd_rx, context, temp, chip_count, frequency, reading, lost, readings>>

-----------------------------------------------------------------------------
(* The temperature task.                                                   *)

At(pc) == temp' = [temp EXCEPT !.pc = pc, !.step = "busy", !.busy = 0, !.fails = 0]

\* An operation of the bus fails: probing ends without a sensor, a measurement
\* without a temperature.
OperationFails ==
  IF temp.pc = "measure"
  THEN At("measure") /\ reading' = Invalid /\ readings' = readings + 1
  ELSE At("none") /\ UNCHANGED <<reading, readings>>

OperationDone(data) ==
  CASE temp.pc = "measure" -> At("measure") /\ reading' = data /\ readings' = readings + 1
    [] temp.pc = "probe" /\ data = KNOWN_ID -> At("range") /\ UNCHANGED <<reading, readings>>
    [] temp.pc = "probe" /\ data # KNOWN_ID ->
         /\ temp' = IF temp.device = Len(Devices) THEN [temp EXCEPT !.pc = "none"]
                    ELSE [temp EXCEPT !.device = @ + 1, !.step = "busy", !.busy = 0, !.fails = 0]
         /\ UNCHANGED <<reading, readings>>
    [] temp.pc = "range" -> At("verify") /\ UNCHANGED <<reading, readings>>
    [] OTHER -> At(IF data = CONFIG_RANGE THEN "measure" ELSE "none")
                /\ UNCHANGED <<reading, readings>>

\* read: the reply must be for the address and the register that were asked for.
\* (Mutant: any reply will do.)
AnyReply(r) == TRUE
Legit(r) ==
  Operation.addr % 2 = 1 \/ (r.addr = Operation.addr /\ r.reg = Operation.reg)

\* Bus::read, Bus::write and wait_busy, after an access to I2cControlReg.
BusDone(replies) ==
  IF temp.step = "command"
  THEN temp' = [temp EXCEPT !.step = "reply", !.busy = 0] /\ UNCHANGED <<reading, readings>>
  ELSE IF replies = <<>> THEN OperationFails
  ELSE LET r == Reading(replies[1], "i2c")
       IN IF r.busy
          THEN IF temp.busy + 1 = MAX_I2C_BUSY_WAIT_TRIES THEN OperationFails
               ELSE temp' = [temp EXCEPT !.busy = @ + 1] /\ UNCHANGED <<reading, readings>>
          ELSE IF temp.pc = "settle" THEN At("probe") /\ UNCHANGED <<reading, readings>>
          ELSE IF temp.step = "busy"
          THEN temp' = [temp EXCEPT !.step = "command"] /\ UNCHANGED <<reading, readings>>
          ELSE IF Legit(r) THEN OperationDone(r.data)
          ELSE IF temp.fails + 1 = MAX_I2C_FAIL_TRIES THEN OperationFails
          ELSE /\ temp' = [temp EXCEPT !.fails = @ + 1, !.step = "busy", !.busy = 0]
               /\ UNCHANGED <<reading, readings>>

TempDone ==
  LET a == TempAccess
      replies == Collected(a)
  IN /\ "temp" \in context /\ context' = context \ {"temp"}
     /\ cmd_rx' = flush_command_rx(a)
     /\ CASE temp.pc = "misc" ->
               /\ temp' = IF replies = <<>> THEN [temp EXCEPT !.pc = "none"]
                          ELSE [temp EXCEPT !.pc = "i2c", !.misc = Reading(replies[1], "misc")]
               /\ UNCHANGED <<reading, readings>>
          [] temp.pc = "i2c" -> At("back") /\ UNCHANGED <<reading, readings>>
          [] temp.pc = "back" ->
               /\ At(IF replies # <<>> /\ Reading(replies[1], "misc") = temp.misc
                     THEN "settle" ELSE "none")
               /\ UNCHANGED <<reading, readings>>
          [] OTHER -> BusDone(replies)
     /\ UNCHANGED <<chip_vars, main, chip_count, frequency, lost, sets>>

ChainNext ==
  \/ \E t \in {"main", "temp"} : Command(t)
  \/ MainDone \/ TempDone \/ Restart
  \/ \E new \in [Chip -> Freqs] : SetFrequency(new)
  \/ Transaction \/ Ignored \/ Heat

ChainSpec == ChainInit /\ [][ChainNext]_chain_vars

-----------------------------------------------------------------------------
(* Properties.                                                             *)

\* When a start succeeds with every chip counted, and ever after, whatever the
\* owner and the temperature task do to the registers and whatever a chip answers,
\* all chips listen at the IP core's speed, filter by the chain's difficulty and
\* have an address of their own.
ChipsReachable ==
  main.pc = "up" /\ chip_count = Chips
    => \A i \in Chip : /\ chip[i].baud = core_baud /\ chip[i].mask = MASK
                       /\ \A j \in Chip : chip[j].addr = chip[i].addr => i = j

\* A temperature that is reported is one that the sensor has measured, not a byte
\* of another register, of another device or of a response to somebody else; and
\* it was read in the range that the conversion to degrees assumes.
ReadingsAreReal == reading # Invalid => reading \in seen /\ config = CONFIG_RANGE

\* set_pll remembers what was set ("Remember what frequencies are set").
FrequencyRemembered ==
  main.pc = "up" /\ main.todo = <<>>
    => \A i \in 1 .. chip_count : chip[i].pll = frequency[i]
=============================================================================
