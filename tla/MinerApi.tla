------------------------------- MODULE MinerApi -------------------------------
(***************************************************************************)
(* The CGMiner API of the miner (cgminer-api/src/command.rs, lib.rs,       *)
(* bosminer/src/api/cgminer.rs): callers whose commands list, add, remove, *)
(* reorder, enable and disable pools.  Every caller has a task of its own, *)
(* on an executor with several threads: its steps between two awaits, or   *)
(* between two atomic operations, mix with those of the others.  How a     *)
(* client starts and stops is left to ClientLifecycle.                     *)
(***************************************************************************)
EXTENDS Integers, Sequences, FiniteSets, SequencesExt

CONSTANTS Handle,     \* client handles that exist, or can be made
          Configured, \* the groups of handles in the configuration
          Caller,     \* connections to the API
          Span,       \* 2^31: an i32 is in -Span .. Span - 1
          Solvers,    \* work solvers
          MaxCalls,   \* bound: calls in a behaviour
          MaxShares   \* bound: shares counted in a behaviour

ASSUME ConfiguredAssumption ==
  \A i \in 1 .. Len(Configured) : Configured[i] \in Seq(Handle) /\ IsInjective(Configured[i])

VARIABLES groups,   \* GroupRegistry.list and its scheduler_client_handles
          on,       \* Handle.enabled
          started,  \* the node was started and not stopped since
          counts,   \* accepted and rejected shares of each client
          calls,    \* the task of each caller
          made,     \* calls so far
          aborted   \* why the panic hook ended the process, or "no"

api_vars == <<groups, on, started, counts, calls, made, aborted>>

NoAnswer == [code |-> "none"]
Idle == [pc |-> "idle", todo |-> <<>>, multi |-> FALSE, parameter |-> [kind |-> "none"],
         left |-> 0,        \* groups that get_clients has still to visit
         held |-> <<>>,     \* the Arc<Handle>s the handler holds
         seen |-> {},       \* ghost: the pools at the index of the call since it began
         sums |-> [accepted |-> 0, rejected |-> 0],
         floor |-> 0,       \* ghost: what the pools had counted when they were collected
         next |-> 1, answer |-> NoAnswer]

ShareKinds == <<"accepted", "rejected">>
Counted(handles) ==
  FoldLeft(LAMBDA n, h : n + counts[h].accepted + counts[h].rejected, 0, handles)

ApiInit ==
  /\ groups \in {<<>>, Configured}
  /\ on = [h \in Handle |-> \E i \in 1 .. Len(groups) : Contains(groups[i], h)]
  /\ started = on
  /\ counts = [h \in Handle |-> [accepted |-> 0, rejected |-> 0]]
  /\ calls = [c \in Caller |-> Idle]
  /\ made = 0 /\ aborted = "no"

-----------------------------------------------------------------------------
(* Requests: commands joined by '+', and a parameter.  One that is not     *)
(* JSON, or that has no command, is answered with an error at once.        *)

NoParameter == [kind |-> "none"]
Number(n) == [kind |-> "number", value |-> n]
Digits(n) == [kind |-> "digits", value |-> n]
\* url, user and password, and whether the first two make sense.
Details(fields, valid) == [kind |-> "details", fields |-> fields, valid |-> valid]

PoolIdCommands == {"switchpool", "enablepool", "disablepool", "removepool"}
Indexed == PoolIdCommands \cup {"asc"}
WithParameter == PoolIdCommands \cup {"addpool", "asc", "check"}
WithoutParameter == {"pools", "summary", "config", "version"}

Indexes == {Number(0), Number(2 * Span + 1), Number(-1), Digits(1), Digits(Span)}
PoolDetails == {Details(2, TRUE), Details(3, TRUE), Details(3, FALSE), Details(4, TRUE)}
Requests ==
  [commands : {<<name>> : name \in Indexed},
   parameter : Indexes \cup {NoParameter}]
    \cup [commands : {<<"addpool">>, <<"check">>},
           parameter : PoolDetails \cup {NoParameter, Number(0)}]
    \cup [commands : {<<name>> : name \in WithoutParameter \cup {"unknown"}}
                       \cup {<<>>, <<"pools", "enablepool">>, <<"config", "summary">>},
           parameter : {NoParameter}]

\* ValueExt::to_i32: a number is cut to 32 bits, a string must be an i32.
IsI32(p) == p.kind = "number" \/ (p.kind = "digits" /\ p.value \in -Span .. Span - 1)
ToI32(p) == IF p.kind = "number" THEN ((p.value + Span) % (2 * Span)) - Span ELSE p.value

CheckPoolId(p) == IsI32(p)

\* check_add_pool splits off three parts at most, the last of which may hold more
\* delimiters.
ParameterError(name, p) ==
  CASE name \in PoolIdCommands /\ ~CheckPoolId(p) -> "MissingPoolParameter"
    [] name = "asc" /\ ~CheckPoolId(p)            -> "MissingAscParameter"
    [] name = "addpool" /\ p.kind = "none"        -> "MissingAddPoolDetails"
    [] name = "addpool" /\ (p.kind # "details" \/ p.fields < 3) -> "InvalidAddPoolDetails"
    [] name = "check" /\ p.kind = "none"          -> "MissingCheckCmd"
    [] OTHER -> "none"

-----------------------------------------------------------------------------
(* Tasks and what they hold.                                               *)

Running == aborted = "no"
At(c, label) == Running /\ calls[c].pc = label
Command(call) == Head(call.todo)

\* The pools that `pools' lists, and those of the default group.
Listed(gs) == FlattenSeq(gs)
DefaultGroup(gs) == IF gs = <<>> THEN <<>> ELSE gs[1]

MutantPick(handles, i) == IF i \in 1 .. Len(handles) THEN {handles[i]} ELSE {}

\* Vec::get: a negative index is a huge usize.
Pick(handles, i) == IF i \in 0 .. Len(handles) - 1 THEN {handles[i + 1]} ELSE {}

\* Ghost: which pool the call's index means now.
Meant(call, gs) ==
  IF Command(call) \notin PoolIdCommands \/ ~IsI32(call.parameter) THEN {}
  ELSE LET i == ToI32(call.parameter)
           pools == Listed(gs)
       IN IF i \in 0 .. Len(pools) - 1 THEN {pools[i + 1]} ELSE {}
Observed(cs, gs) ==
  [c \in Caller |-> IF cs[c].todo = <<>> THEN cs[c]
                    ELSE [cs[c] EXCEPT !.seen = @ \cup Meant(cs[c], gs)]]

\* Handle::drop: the node of a handle that nobody refers to any more is stopped.
MutantDropped(st, gs, cs) == st
Dropped(st, gs, cs) ==
  [h \in Handle |-> st[h] /\ \/ Contains(Listed(gs), h)
                             \/ \E c \in Caller : Contains(cs[c].held, h)]

\* The handler of a command returns; the next command of the request follows.
Finished(call, answer) ==
  IF Len(call.todo) = 1 THEN [Idle EXCEPT !.pc = "respond", !.seen = call.seen, !.answer = answer]
  ELSE [call EXCEPT !.pc = "dispatch", !.todo = Tail(@), !.held = <<>>, !.answer = answer]

\* c goes on with `call', the groups becoming gs and the started clients st.
Step(c, call, gs, st) ==
  /\ groups' = gs
  /\ calls' = IF gs = groups THEN [calls EXCEPT ![c] = call]
              ELSE Observed([calls EXCEPT ![c] = call], gs)
  /\ started' = Dropped(st, gs, calls')
Go(c, call) == Step(c, call, groups, started)
Answer(code, call) == Finished(call, [code |-> code])
AnswerPool(h, call) == Finished(call, [code |-> "ok", pool |-> h])

\* remove_client_at stops the client before it unlocks the default group.
Unlocked == \A c \in Caller : calls[c].pc = "stop" => Command(calls[c]) # "removepool"

-----------------------------------------------------------------------------
(* handle_connection_task, Receiver::handle and handle_single.             *)

\* Where the handler of a command begins.
Entry(name) ==
  CASE name \in {"pools", "summary", "config", "enablepool", "disablepool"} -> "collect"
    [] name \in {"removepool", "switchpool", "addpool"} -> name
    [] OTHER -> "builtin"

Refusal(call) ==
  LET name == Command(call)
  IN IF name \notin WithParameter \cup WithoutParameter THEN "InvalidCommand"
     ELSE IF call.multi /\ name \in WithParameter THEN "AccessDenied"
     ELSE ParameterError(name, call.parameter)

\* A handler begins by reading its parameter, and expects that it can.
Readable(name, p) ==
  /\ name \in Indexed => IsI32(p)
  /\ name = "addpool" => p.kind = "details"
ReadParameter(name, p) ==
  IF name \in Indexed THEN Number(ToI32(p)) ELSE IF name = "addpool" THEN p ELSE NoParameter

\* handle_single, up to where the handler first waits.
HandleSingle(c, call) ==
  LET name == Command(call)
  IN IF Refusal(call) # "none" THEN Go(c, Answer(Refusal(call), call)) /\ UNCHANGED aborted
     ELSE IF Readable(name, call.parameter)
     THEN /\ Go(c, [call EXCEPT !.pc = Entry(name), !.left = Len(groups), !.held = <<>>,
                                !.next = 1, !.sums = Idle.sums, !.seen = Meant(call, groups),
                                !.parameter = ReadParameter(name, @)])
          /\ UNCHANGED aborted
     ELSE aborted' = "parameter" /\ UNCHANGED <<groups, started, calls>>

Receive(c) ==
  /\ At(c, "idle") /\ made < MaxCalls
  /\ \E request \in Requests :
       LET call == [Idle EXCEPT !.todo = request.commands, !.parameter = request.parameter,
                                !.multi = Len(request.commands) > 1]
       IN IF request.commands = <<>>
          THEN /\ Go(c, [Idle EXCEPT !.pc = "respond", !.answer = [code |-> "InvalidCommand"]])
               /\ UNCHANGED aborted
          ELSE HandleSingle(c, call)
  /\ made' = made + 1
  /\ UNCHANGED <<on, counts>>

\* The next command of a request that has several.
Dispatch(c) ==
  /\ At(c, "dispatch")
  /\ HandleSingle(c, calls[c])
  /\ UNCHANGED <<on, counts, made>>

\* The response is sent, or lost with the connection, and the task ends.
Respond(c) ==
  /\ At(c, "respond")
  /\ Go(c, Idle)
  /\ UNCHANGED <<on, counts, made, aborted>>

\* version, check, and asc, whose index is that of a work solver.
BuiltIn(c) ==
  /\ At(c, "builtin")
  /\ Go(c, IF Command(calls[c]) = "asc" /\ ToI32(calls[c].parameter) \notin 0 .. Solvers - 1
           THEN Answer("InvalidAscId", calls[c]) ELSE Answer("ok", calls[c]))
  /\ UNCHANGED <<on, counts, made, aborted>>

-----------------------------------------------------------------------------
(* Handlers that collect the clients of all groups.                        *)

\* get_clients locks one group after the other.
GetClients(c) ==
  /\ At(c, "collect") /\ (calls[c].left = Len(groups) => Unlocked)
  /\ LET call == calls[c]
         g == Len(groups) - call.left + 1
         held == IF call.left = 0 THEN call.held ELSE call.held \o groups[g]
     IN Go(c, IF call.left > 1 THEN [call EXCEPT !.held = held, !.left = @ - 1]
              ELSE [call EXCEPT !.held = held, !.left = 0, !.pc = Command(call),
                                !.floor = Counted(held)])
  /\ UNCHANGED <<on, counts, made, aborted>>

\* get_pool_status: the state of a pool that is not enabled is of no interest.
PoolStatus(h, failing) ==
  IF ~on[h] THEN "Disabled" ELSE IF h \in failing THEN "Dead" ELSE "Alive"

ReportPools(c) ==
  /\ At(c, "pools")
  /\ \E failing \in SUBSET {h \in Handle : started[h]} :
       Go(c, Finished(calls[c], [code |-> "ok", report |->
              [i \in 1 .. Len(calls[c].held) |-> PoolStatus(calls[c].held[i], failing)]]))
  /\ UNCHANGED <<on, counts, made, aborted>>

ReportConfig(c) ==
  /\ At(c, "config")
  /\ Go(c, Finished(calls[c], [code |-> "ok", pools |-> Len(calls[c].held)]))
  /\ UNCHANGED <<on, counts, made, aborted>>

Percent(part, total) == IF total = 0 THEN 0 ELSE (100 * part) \div total

\* handle_summary takes a snapshot of one counter of one client at a time.
ReportSummary(c) ==
  /\ At(c, "summary")
  /\ LET call == calls[c]
         h == call.held[(call.next + 1) \div 2]
         kind == ShareKinds[((call.next - 1) % 2) + 1]
         total == call.sums.accepted + call.sums.rejected
     IN Go(c, IF call.next <= 2 * Len(call.held)
              THEN [call EXCEPT !.sums[kind] = @ + counts[h][kind], !.next = @ + 1]
              ELSE Finished(call, [code |-> "ok", total |-> total, floor |-> call.floor,
                                   ceiling |-> Counted(call.held),
                                   rejected_ratio |-> Percent(call.sums.rejected, total)]))
  /\ UNCHANGED <<on, counts, made, aborted>>

\* handle_enable_pool, handle_disable_pool: try_enable and try_disable swap the flag
\* and, when it has changed, start or stop the client.
SwapEnabled(c) ==
  /\ \E name \in {"enablepool", "disablepool"} : At(c, name)
  /\ LET call == calls[c]
         value == call.pc = "enablepool"
         found == Pick(call.held, ToI32(call.parameter))
     IN IF found = {} THEN Go(c, Answer("InvalidPoolId", call)) /\ UNCHANGED on
        ELSE \E h \in found :
               /\ on' = [on EXCEPT ![h] = value]
               /\ Go(c, IF on[h] = value THEN Answer("already", call)
                        ELSE [call EXCEPT !.pc = IF value THEN "start" ELSE "stop", !.held = <<h>>])
  /\ UNCHANGED <<counts, made, aborted>>

StartOrStop(c) ==
  /\ \E label \in {"start", "stop"} : At(c, label)
  /\ LET h == calls[c].held[1]
         st == [started EXCEPT ![h] = calls[c].pc = "start"]
         name == Command(calls[c])
     IN Step(c, IF name = "addpool" THEN [calls[c] EXCEPT !.pc = "position"]
                ELSE AnswerPool(h, calls[c]), groups, st)
  /\ UNCHANGED <<on, counts, made, aborted>>

-----------------------------------------------------------------------------
(* Handlers that change the default group, under its lock.                 *)

\* remove_client_at disables the client too.
RemovePool(c) ==
  /\ At(c, "removepool") /\ Unlocked
  /\ LET call == calls[c]
         found == Pick(DefaultGroup(groups), ToI32(call.parameter))
     IN IF found = {} THEN Go(c, Answer("InvalidPoolId", call)) /\ UNCHANGED on
        ELSE \E h \in found :
               /\ on' = [on EXCEPT ![h] = FALSE]
               /\ Step(c, IF on[h] THEN [call EXCEPT !.pc = "stop", !.held = <<h>>]
                          ELSE AnswerPool(h, call),
                       [groups EXCEPT ![1] = Remove(@, h)], started)
  /\ UNCHANGED <<counts, made, aborted>>

\* move_client_to(idx, 0).
SwitchPool(c) ==
  /\ At(c, "switchpool") /\ Unlocked
  /\ LET call == calls[c]
         found == Pick(DefaultGroup(groups), ToI32(call.parameter))
     IN IF found = {} THEN Go(c, Answer("InvalidPoolId", call))
        ELSE \E h \in found :
               Step(c, AnswerPool(h, call), [groups EXCEPT ![1] = <<h>> \o Remove(@, h)], started)
  /\ UNCHANGED <<on, counts, made, aborted>>

\* A new handle, which nobody has seen.
Fresh == {h \in Handle : /\ ~Contains(Listed(groups), h) /\ ~on[h] /\ counts[h] = Idle.sums
                         /\ \A c \in Caller : ~Contains(calls[c].held, h)}

\* get_client_descriptor asserts that there are three parts; push_client puts the
\* disabled client into the default group, which is made if there is no group.
AddPool(c) ==
  /\ At(c, "addpool") /\ (calls[c].parameter.fields = 3 => Unlocked)
  /\ LET call == calls[c]
     IN IF call.parameter.fields # 3
        THEN aborted' = "details" /\ UNCHANGED <<groups, started, calls>>
        ELSE /\ IF call.parameter.valid
                THEN \E h \in Fresh :
                       Step(c, [call EXCEPT !.pc = "enable", !.held = <<h>>],
                            IF groups = <<>> THEN << <<h>> >>
                            ELSE [groups EXCEPT ![1] = Append(@, h)], started)
                ELSE Go(c, Answer("InvalidAddPoolDetails", call))
             /\ UNCHANGED aborted
  /\ UNCHANGED <<on, counts, made>>

\* push_client enables the client after it has let go of the group, and expects
\* that nobody else has.
EnableAdded(c) ==
  /\ At(c, "enable")
  /\ LET h == calls[c].held[1]
     IN IF on[h] THEN aborted' = "enabled" /\ UNCHANGED <<on, groups, started, calls>>
        ELSE /\ on' = [on EXCEPT ![h] = TRUE]
             /\ Go(c, [calls[c] EXCEPT !.pc = "start"])
             /\ UNCHANGED aborted
  /\ UNCHANGED <<counts, made>>

\* The index in the answer, past the end if the pool has been removed meanwhile.
AnswerAdded(c) ==
  /\ At(c, "position") /\ Unlocked
  /\ LET h == calls[c].held[1]
         clients == DefaultGroup(groups)
         idx == IF Contains(clients, h) THEN SelectInSeq(clients, LAMBDA x : x = h) - 1
                ELSE Len(clients) + 1
     IN Go(c, Finished(calls[c], [code |-> "ok", idx |-> idx, pool |-> h]))
  /\ UNCHANGED <<on, counts, made, aborted>>

\* A pool answers a share of a client that runs.
CountShare(h) ==
  /\ Running /\ started[h]
  /\ Counted(SetToSeq(Handle)) < MaxShares
  /\ \E kind \in ToSet(ShareKinds) : counts' = [counts EXCEPT ![h][kind] = @ + 1]
  /\ UNCHANGED <<groups, on, started, calls, made, aborted>>

ApiNext ==
  \/ \E c \in Caller :
       \/ Receive(c) \/ Respond(c) \/ Dispatch(c) \/ BuiltIn(c) \/ GetClients(c)
       \/ ReportPools(c) \/ ReportConfig(c) \/ ReportSummary(c)
       \/ SwapEnabled(c) \/ StartOrStop(c)
       \/ RemovePool(c) \/ SwitchPool(c) \/ AddPool(c) \/ EnableAdded(c) \/ AnswerAdded(c)
  \/ \E h \in Handle : CountShare(h)

ApiSpec == ApiInit /\ [][ApiNext]_api_vars

-----------------------------------------------------------------------------
\* Handle::drop, remove_client_at: however adding, enabling, disabling and removing a
\* pool overlap, a client that has left the groups does not run on: it is stopped
\* when the last call that knows it returns.
RemovedAreStopped ==
  Running => \A h \in Handle : started[h] =>
    Contains(Listed(groups), h) \/ \E c \in Caller : Contains(calls[c].held, h)

\* The handlers: a command that changed a pool names one that had the command's index
\* in the list of pools at some moment of the call; the totals of a summary are the
\* pools' at some moment of the call or in between, and its ratio is one.  The checks
\* of the parameters spare the handlers their own: only details with a fourth part,
\* and a pool enabled by another call before the one that adds it does so, abort
\* the miner.
AnswersAreTrue ==
  /\ aborted \in {"no", "details", "enabled"}
  /\ \A c \in Caller :
       LET answer == calls[c].answer
       IN /\ "pool" \in DOMAIN answer /\ "idx" \notin DOMAIN answer =>
               answer.pool \in calls[c].seen
          /\ "total" \in DOMAIN answer =>
               /\ answer.floor <= answer.total /\ answer.total <= answer.ceiling
               /\ answer.rejected_ratio \in 0 .. 100
=============================================================================
