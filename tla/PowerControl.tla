----------------------------- MODULE PowerControl -----------------------------
(***************************************************************************)
(* The voltage controller of a hash board (bosminer-am1-s9/src/power.rs),  *)
(* a PIC that is driven one byte at a time.  A chain's start resets it,    *)
(* reads its flash, starts its application, reloads the firmware if it is  *)
(* not the expected one and sets the voltage; a heartbeat, an owner that   *)
(* changes the voltage and the handler of the chain's halt follow.  Each   *)
(* command holds the mutex `backend'.  A task that is dropped, or a miner  *)
(* that dies, may leave the controller in the middle of a command.         *)
(*                                                                         *)
(* Retries of a byte are part of its step: the controller did not take the *)
(* byte that it did not acknowledge.  Addresses are counted in blocks.     *)
(***************************************************************************)
EXTENDS Naturals, Sequences, FiniteSets

CONSTANTS
  Volts,       \* voltages an owner asks for, as PIC values
  BlockBytes,  \* FLASH_XFER_BLOCK_SIZE_BYTES, and the length of reset's filler
  Blocks,      \* blocks of the firmware
  MaxStarts,   \* bound: starts of the chain
  MaxChanges,  \* bound: voltage changes by the owner of one start
  Faults       \* whether a write may fail and the miner may die

ASSUME VoltsAssumption == Volts \subseteq 0 .. 255
ASSUME SizeAssumption == {BlockBytes, Blocks, MaxStarts, MaxChanges} \subseteq Nat
ASSUME FaultsAssumption == Faults \in BOOLEAN

OPEN_CORE_VOLTAGE == 6
PIC_COMMAND_1 == 85
PIC_COMMAND_2 == 170

\* Opcodes, with the number of bytes that follow in a command.
SET_PIC_FLASH_POINTER == 1
SEND_DATA_TO_IIC == 2
READ_DATA_FROM_IIC == 3
ERASE_IIC_FLASH == 4
WRITE_DATA_INTO_PIC == 5
JUMP_FROM_LOADER_TO_APP == 6
RESET_PIC == 7
GET_PIC_FLASH_POINTER == 8
SET_VOLTAGE == 16
ENABLE_VOLTAGE == 21
SEND_HEART_BEAT == 22
GET_PIC_SOFTWARE_VERSION == 23
Arguments(op) ==
  IF op = SEND_DATA_TO_IIC THEN BlockBytes
  ELSE IF op \in {SET_PIC_FLASH_POINTER, SET_VOLTAGE, ENABLE_VOLTAGE} THEN 1 ELSE 0

\* The flash: the program from 1 on, then BADCORE and FREQ, one block each.
PROGRAM_LOAD_ADDRESS == 1
PROGRAM_LOAD_END_ADDRESS == Blocks
BADCORE == Blocks + 1
FREQ == Blocks + 2
Firmware == [i \in 1 .. BlockBytes |-> PIC_COMMAND_1]
Erased == [i \in 1 .. BlockBytes |-> 0]
Factory == [i \in 1 .. BlockBytes |-> i]

Task == {"start", "beat", "owner", "handler"}

VARIABLES
  parse,     \* PIC: the command as far as it has been received
  image,      \* PIC: "loader" or "app"
  pointer,   \* PIC: the flash pointer
  buffer,    \* PIC: what SEND_DATA_TO_IIC brought
  flash,     \* PIC
  volt,      \* PIC: the voltage set
  on,        \* PIC: the voltage is enabled
  stage,     \* where HashChain::init and the life of the chain after it are
  commands,  \* the commands each task has yet to issue in its call
  bytes,     \* what is left of the command each task is writing
  backend,   \* holder of the mutex, {} or a singleton
  current_voltage,
  starts, changes,
  torn,      \* history: a command was abandoned after the last reset
  end        \* history: how the last start ended

pic_vars == <<parse, image, pointer, buffer, flash, volt, on>>
power_vars == <<pic_vars, stage, commands, bytes, backend, current_voltage, starts, changes,
                torn, end>>

Stages == {"down", "boot", "program", "reboot", "power", "toggle", "chips", "lower", "up",
           "halting", "halt"}
Beating == {"toggle", "chips", "lower", "up", "halting"}   \* the heartbeat task runs

PowerTypeOK ==
  /\ parse \in Seq(0 .. 255) /\ Len(parse) <= 3 + BlockBytes
  /\ image \in {"loader", "app"} /\ pointer \in 0 .. 255
  /\ Len(buffer) = BlockBytes /\ flash \in [1 .. FREQ -> {Firmware, Erased, Factory}]
  /\ volt \in 0 .. 255 /\ {on, torn} \subseteq BOOLEAN
  /\ stage \in Stages
  /\ \A t \in Task : Len(commands[t]) > 0 \/ bytes[t] = <<>>
  /\ backend \subseteq Task /\ Cardinality(backend) <= 1
  /\ current_voltage \subseteq 0 .. 255 /\ Cardinality(current_voltage) <= 1
  /\ starts \in 0 .. MaxStarts /\ changes \in 0 .. MaxChanges
  /\ end \in {"none", "failed", "halted", "died"}

PowerInit ==
  /\ parse = <<>> /\ image = "app" /\ pointer = 0 /\ buffer = Erased
  /\ \E old \in {Firmware, Erased} :
       flash = [a \in 1 .. FREQ |-> IF a < BADCORE THEN old ELSE Factory]
  /\ volt = 0 /\ on = FALSE
  /\ stage = "down" /\ commands = [t \in Task |-> <<>>] /\ bytes = [t \in Task |-> <<>>]
  /\ backend = {} /\ current_voltage = {}
  /\ starts = 0 /\ changes = 0 /\ torn = FALSE /\ end = "none"

-----------------------------------------------------------------------------
(* The controller.                                                         *)

\* Its parser, as the comment in Control::reset gives it: a byte that does not
\* match the magic is not tried as the first of a new one.
Received(p, byte) ==
  IF Len(p) >= 2 \/ byte = <<PIC_COMMAND_1, PIC_COMMAND_2>>[Len(p) + 1]
  THEN Append(p, byte) ELSE <<>>
Complete(p) == Len(p) >= 3 /\ Len(p) = 3 + Arguments(p[3])

Here(a) == pointer \in 1 .. FREQ /\ pointer = a

\* What it does on a complete command.  Flash commands are the loader's.
Execute(op, args) ==
  /\ image' = IF op = RESET_PIC THEN "loader"
             ELSE IF op = JUMP_FROM_LOADER_TO_APP THEN "app" ELSE image
  /\ pointer' = IF image = "app" THEN pointer
                ELSE IF op = SET_PIC_FLASH_POINTER THEN args[1]
                ELSE IF op \in {READ_DATA_FROM_IIC, ERASE_IIC_FLASH, WRITE_DATA_INTO_PIC}
                THEN (pointer + 1) % 256 ELSE pointer
  /\ buffer' = IF op = SEND_DATA_TO_IIC /\ image = "loader" THEN args ELSE buffer
  /\ flash' = [a \in 1 .. FREQ |->
       IF image = "loader" /\ Here(a) /\ op = ERASE_IIC_FLASH THEN Erased
       ELSE IF image = "loader" /\ Here(a) /\ op = WRITE_DATA_INTO_PIC THEN buffer ELSE flash[a]]
  /\ volt' = IF op = SET_VOLTAGE /\ image = "app" THEN args[1] ELSE volt
  /\ on' \in IF op = RESET_PIC THEN {on, FALSE}
             ELSE IF op = ENABLE_VOLTAGE /\ image = "app" THEN {args[1] = 1} ELSE {on}

Input(byte) ==
  LET p == Received(parse, byte)
  IN IF Complete(p)
     THEN /\ parse' = <<>> /\ Execute(p[3], SubSeq(p, 4, Len(p)))
          /\ torn' = (torn /\ p[3] # RESET_PIC)
     ELSE parse' = p /\ UNCHANGED <<image, pointer, buffer, flash, volt, on, torn>>

\* Its answers.  The version is the expected one when the firmware is complete.
Whole == \A a \in PROGRAM_LOAD_ADDRESS .. PROGRAM_LOAD_END_ADDRESS : flash[a] = Firmware

\* Without heartbeats it cuts the power.
CutOff ==
  /\ stage = "down" /\ on /\ on' = FALSE
  /\ UNCHANGED <<parse, image, pointer, buffer, flash, volt, stage, commands, bytes, backend,
                 current_voltage, starts, changes, torn, end>>

-----------------------------------------------------------------------------
(* The commands of Control's operations: what they write, and the flash    *)
(* pointer they must read back, if any.                                    *)

Put(data) == << [data |-> data, want |-> {}] >>
Check(a) == << [data |-> <<GET_PIC_FLASH_POINTER>>, want |-> {a}] >>
Times(n, c) == [i \in 1 .. n * Len(c) |-> c[((i - 1) % Len(c)) + 1]]

\* (Mutant: the filler comes after the reset.)
MutantReset == Put(<<RESET_PIC>>) \o Put(<<0>> \o [i \in 1 .. BlockBytes |-> 0])
\* The filler takes the parser out of any argument.
reset == Put(<<0>> \o [i \in 1 .. BlockBytes |-> 0]) \o Put(<<RESET_PIC>>)
set_flash_pointer_check(a) == Put(<<SET_PIC_FLASH_POINTER, a>>) \o Check(a)
read_flash(a) == set_flash_pointer_check(a) \o Put(<<READ_DATA_FROM_IIC>>)
erase_flash(a, n) == set_flash_pointer_check(a) \o Times(n, Put(<<ERASE_IIC_FLASH>>))
write_flash(a, n) ==
  set_flash_pointer_check(a)
    \o Times(n, Put(<<SEND_DATA_TO_IIC>> \o Firmware) \o Put(<<WRITE_DATA_INTO_PIC>>))

\* PicAddress::distance_to.
distance_to(a, b) == (b - a) + 1
prog_size == distance_to(PROGRAM_LOAD_ADDRESS, PROGRAM_LOAD_END_ADDRESS)

reset_and_start_app ==
  reset \o read_flash(BADCORE) \o read_flash(FREQ)
    \o Put(<<JUMP_FROM_LOADER_TO_APP>>) \o Put(<<GET_PIC_SOFTWARE_VERSION>>)
program_pic ==
  reset \o erase_flash(PROGRAM_LOAD_ADDRESS, prog_size)
    \o write_flash(PROGRAM_LOAD_ADDRESS, prog_size) \o Check(PROGRAM_LOAD_ADDRESS + prog_size)
enable_voltage == Put(<<ENABLE_VOLTAGE, 1>>)
disable_voltage == Put(<<ENABLE_VOLTAGE, 0>>)
send_heart_beat == Put(<<SEND_HEART_BEAT>>)

\* set_voltage writes only what is not the current voltage.
set_voltage(v) == IF current_voltage = {v} THEN <<>> ELSE Put(<<SET_VOLTAGE, v>>)

-----------------------------------------------------------------------------
(* Writing a command.                                                      *)

LockBackend(t) == backend = {} /\ backend' = {t}

Issue(t) ==
  /\ commands[t] # <<>> /\ bytes[t] = <<>>
  /\ LockBackend(t)
  /\ bytes' = [bytes EXCEPT ![t] = <<PIC_COMMAND_1, PIC_COMMAND_2>> \o Head(commands[t]).data]
  /\ UNCHANGED <<pic_vars, stage, commands, current_voltage, starts, changes, torn, end>>

WriteByte(t) ==
  /\ Len(bytes[t]) > 1
  /\ Input(Head(bytes[t]))
  /\ bytes' = [bytes EXCEPT ![t] = Tail(@)]
  /\ UNCHANGED <<stage, commands, backend, current_voltage, starts, changes, end>>

\* Control::init, then the toggling of reset_and_enumerate_and_init: what comes
\* after the commands of a stage.
NextStage ==
  CASE stage \in {"boot", "reboot"} /\ Whole ->
         <<"power", set_voltage(OPEN_CORE_VOLTAGE) \o enable_voltage>>
    [] stage = "boot" /\ ~Whole -> <<"program", program_pic>>
    [] stage = "reboot" /\ ~Whole -> <<"down", <<>> >>
    [] stage = "program" -> <<"reboot", reset_and_start_app>>
    [] stage = "power" -> <<"toggle", disable_voltage \o enable_voltage>>
    [] stage = "toggle" -> <<"chips", <<>> >>
    [] OTHER -> <<"up", <<>> >>

\* An error during the start: once the heartbeat runs, a halt is needed.
Fails ==
  /\ stage' = IF stage \in Beating THEN "halting" ELSE "down"
  /\ end' = IF stage \in Beating THEN end ELSE "failed"

\* The last byte, and the answer if there is one.
FinishCommand(t) ==
  LET command == Head(commands[t])
      todo == Tail(commands[t])
  IN /\ Len(bytes[t]) = 1
     /\ Input(Head(bytes[t]))
     /\ bytes' = [bytes EXCEPT ![t] = <<>>] /\ backend' = backend \ {t}
     /\ current_voltage' = IF command.data[1] = SET_VOLTAGE THEN {command.data[2]}
                           ELSE current_voltage
     /\ IF command.want \notin {{}, {pointer}}
        THEN Fails /\ commands' = [commands EXCEPT ![t] = <<>>]
        ELSE IF todo # <<>> \/ t \in {"beat", "owner"}
        THEN commands' = [commands EXCEPT ![t] = todo] /\ UNCHANGED <<stage, end>>
        ELSE IF t = "handler"
        THEN stage' = "down" /\ end' = "halted" /\ commands' = [commands EXCEPT ![t] = <<>>]
        ELSE /\ stage' = NextStage[1] /\ commands' = [commands EXCEPT ![t] = NextStage[2]]
             /\ end' = IF stage' = "down" THEN "failed" ELSE end
     /\ UNCHANGED <<starts, changes>>

\* A task stops in the middle of a command.
Partly(t) == bytes[t] # <<>> /\ Len(bytes[t]) < 2 + Len(Head(commands[t]).data)
Abandon(tasks) ==
  /\ commands' = [t \in Task |-> IF t \in tasks THEN <<>> ELSE commands[t]]
  /\ bytes' = [t \in Task |-> IF t \in tasks THEN <<>> ELSE bytes[t]]
  /\ backend' = backend \ tasks
  /\ torn' = (torn \/ \E t \in tasks : Partly(t))

\* The miner dies: an expect fails, or it is killed.
Dies ==
  /\ Abandon(Task) /\ stage' = "down" /\ end' = "died" /\ current_voltage' = {}

\* The retries of a byte are used up, or an answer cannot be read.
WriteFails(t) ==
  /\ Faults /\ bytes[t] # <<>>
  /\ CASE t = "start" /\ stage # "lower" ->
            Abandon({t}) /\ Fails /\ UNCHANGED current_voltage
       [] t = "owner" -> Abandon({t}) /\ UNCHANGED <<stage, end, current_voltage>>
       [] OTHER -> Dies
  /\ UNCHANGED <<pic_vars, starts, changes>>

-----------------------------------------------------------------------------
(* The life of a chain.                                                    *)

Tells(t, todo) == commands' = [commands EXCEPT ![t] = todo]

\* HashChain::new and init, with a Control that knows no voltage.
StartChain ==
  /\ stage = "down" /\ starts < MaxStarts
  /\ stage' = "boot" /\ Tells("start", reset_and_start_app)
  /\ current_voltage' = {} /\ starts' = starts + 1 /\ changes' = 0
  /\ UNCHANGED <<pic_vars, bytes, backend, torn, end>>

\* The chips are enumerated and set up, or not; then the voltage is lowered.
ChipsReady(v) ==
  /\ stage = "chips"
  /\ stage' = IF set_voltage(v) = <<>> THEN "up" ELSE "lower"
  /\ Tells("start", set_voltage(v))
  /\ UNCHANGED <<pic_vars, bytes, backend, current_voltage, starts, changes, torn, end>>

ChipsFail ==
  /\ stage = "chips" /\ stage' = "halting"
  /\ UNCHANGED <<pic_vars, commands, bytes, backend, current_voltage, starts, changes, torn, end>>

\* A period of the heartbeat task.
HeartBeat ==
  /\ stage \in Beating /\ commands["beat"] = <<>>
  /\ Tells("beat", send_heart_beat)
  /\ UNCHANGED <<pic_vars, stage, bytes, backend, current_voltage, starts, changes, torn, end>>

\* RunningChain::set_voltage, with the manager locked: no halt begins meanwhile.
ChangeVoltage(v) ==
  /\ stage = "up" /\ commands["owner"] = <<>> /\ changes < MaxChanges
  /\ Tells("owner", set_voltage(v))
  /\ changes' = changes + 1
  /\ UNCHANGED <<pic_vars, stage, bytes, backend, current_voltage, starts, torn, end>>

SendHalt ==
  /\ stage = "up" /\ commands["owner"] = <<>> /\ stage' = "halting"
  /\ UNCHANGED <<pic_vars, commands, bytes, backend, current_voltage, starts, changes, torn, end>>

\* The heartbeat's future is dropped wherever it waits; its client confirms and
\* the termination handler is told.
DropHeartBeat ==
  /\ stage = "halting" /\ stage' = "halt"
  /\ commands' = [commands EXCEPT !["beat"] = <<>>, !["handler"] = disable_voltage]
  /\ bytes' = [bytes EXCEPT !["beat"] = <<>>] /\ backend' = backend \ {"beat"}
  /\ torn' = (torn \/ Partly("beat"))
  /\ UNCHANGED <<pic_vars, current_voltage, starts, changes, end>>

Die == Faults /\ stage # "down" /\ Dies /\ UNCHANGED <<pic_vars, starts, changes>>

PowerNext ==
  \/ \E t \in Task : Issue(t) \/ WriteByte(t) \/ FinishCommand(t) \/ WriteFails(t)
  \/ \E v \in Volts : ChipsReady(v) \/ ChangeVoltage(v)
  \/ StartChain \/ ChipsFail \/ HeartBeat \/ SendHalt \/ DropHeartBeat \/ Die
  \/ CutOff

PowerSpec == PowerInit /\ [][PowerNext]_power_vars

-----------------------------------------------------------------------------
(* Properties.                                                             *)

\* The commands of a call that are yet to be executed include op.
Awaits(t, op) == \E i \in 1 .. Len(commands[t]) : commands[t][i].data[1] = op

\* Whatever command was cut short before, by a halt, an error or the death of the
\* miner, the reset that begins reset_and_start_app and program_pic is heard, so
\* that flash commands meet the loader; and wherever programming is cut short and
\* however often it is begun again, BADCORE and FREQ, which cannot be restored,
\* are not touched.
FlashIsSafe ==
  /\ stage \in {"boot", "program", "reboot"} /\ ~Awaits("start", RESET_PIC)
       /\ (stage = "program" \/ Awaits("start", JUMP_FROM_LOADER_TO_APP))
     => image = "loader" /\ ~torn
  /\ \A a \in {BADCORE, FREQ} : flash[a] = Factory

\* A chain that is up, with no command cut short since its start, has a controller
\* that runs the complete firmware, with the power on and at the voltage that
\* current_voltage remembers, although the heartbeat's commands, the start's and
\* the owner's are written byte by byte side by side.
UpMeansReady ==
  stage = "up" /\ ~torn /\ commands["owner"] = <<>>
    => image = "app" /\ Whole /\ on /\ current_voltage = {volt}

\* The handler of a halt disables the voltage ("Make a termination handler that
\* disables voltage when stopped").
DisableHeard == stage = "down" /\ end = "halted" /\ starts > 0 => ~on

\* The controller through starts, halts and deaths of the miner: its flash is safe,
\* and a chain that is up has it in the state the driver remembers.
ControllerIsSafe == FlashIsSafe /\ UpMeansReady
=============================================================================
