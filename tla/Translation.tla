------------------------------ MODULE Translation ------------------------------
(***************************************************************************)
(* V2ToV1Translation (stratum-proxy/src/translation.rs): a Stratum V2      *)
(* client downstream, a Stratum V1 pool upstream.  The pool is not in the  *)
(* repository; it answers requests in the order they come.                 *)
(*                                                                         *)
(* The translator's fields are one record `tr'.  A handler is an operator  *)
(* on [t, v2, v1, failed]: the fields, the two outgoing queues, and        *)
(* whether the last message could not be sent, since submit_message uses   *)
(* try_send, which fails when the queue is full.                           *)
(***************************************************************************)
EXTENDS V2Link, FiniteSets

CONSTANTS
  Capacity,      \* messages a channel holds (MAX_TRANSLATION_CHANNEL_SIZE)
  Difficulties,  \* difficulties the pool sets, in halves; all at least 1
  Diff1Target,   \* the target of difficulty 1
  Sizes,         \* extranonce 2 sizes
  MaxNotices,    \* bound: mining.notify messages
  MaxChanges     \* bound: difficulty and extranonce changes

ASSUME TranslationAssumption ==
  /\ {Capacity, MaxNotices, MaxChanges, Diff1Target} \subseteq Nat
  /\ \A d \in Difficulties : d \in Nat /\ d >= 2

VARIABLES
  tr,
  v1_up,      \* requests to the pool
  v1_dn,      \* answers and notifications of the pool
  notices,    \* mining.notify messages so far
  changes,    \* set_difficulty and set_extranonce messages so far
  subscribed, \* the pool has accepted a subscription
  v1_verdict  \* solutions the pool accepted and rejected

v1Vars == <<v1_up, v1_dn, notices, changes, subscribed, v1_verdict>>

NoTranslation ==
  [state |-> "Init", authorized |-> FALSE, extra_nonce1 |-> None, extra_nonce2_size |-> 0,
   deferred |-> None, conn_details |-> FALSE, channel_details |-> FALSE, target |-> None,
   job_id |-> 0, job_map |-> {}, req_id |-> 0, req_map |-> {}, panicked |-> FALSE,
   dropped |-> FALSE]   \* not in the code: a message to the client was dropped

TranslationInit ==
  /\ tr = NoTranslation
  /\ v1_up = <<>> /\ v1_dn = <<>>
  /\ notices = 0 /\ changes = 0 /\ subscribed = FALSE
  /\ v1_verdict = [accepted |-> {}, rejected |-> {}]

v1_force_future_jobs == TRUE

-----------------------------------------------------------------------------
(* submit_message.                                                         *)

Full(queue) == Len(queue) >= Capacity
TrySend(queue, msg) == IF Full(queue) THEN queue ELSE Append(queue, msg)
SendV2(r, msg) ==
  [r EXCEPT !.v2 = TrySend(@, msg), !.failed = Full(r.v2), !.t.dropped = @ \/ Full(r.v2)]

\* v1_method_into_message registers the request, whether or not it can be sent.
Request(r, method, data) ==
  [r EXCEPT !.v1 = TrySend(@, [id |-> r.t.req_id, method |-> method, data |-> data]),
            !.t.req_map = @ \cup {[id |-> r.t.req_id, method |-> method]},
            !.t.req_id = @ + 1,
            !.failed = Full(r.v1)]

-----------------------------------------------------------------------------
(* Jobs.                                                                   *)

\* calculate_merkle_root: the root is a function of the notification and of the
\* extranonces.
MerkleRoot(t, notify) ==
  [v1_job |-> notify.v1_job, extra_nonce1 |-> t.extra_nonce1, size |-> t.extra_nonce2_size]

\* The new job map.
Register(t, notify) ==
  (IF v1_force_future_jobs THEN {} ELSE t.job_map)
    \cup {[id |-> t.job_id, v1_job |-> notify.v1_job]}

\* perform_notify: the job, then the hash that activates it; a job that cannot be
\* sent is not activated.  (Mutant: the hash goes first.)
SendHashFirst(r, msg, hash) == SendV2(SendV2(r, hash), msg)
SendJob(r, msg, hash) == IF Full(r.v2) THEN SendV2(r, msg) ELSE SendV2(SendV2(r, msg), hash)
PerformNotify(r, notify) ==
  IF r.t.extra_nonce1 = None THEN [r EXCEPT !.failed = TRUE]
  ELSE SendJob([r EXCEPT !.t.job_map = Register(r.t, notify), !.t.job_id = @ + 1],
               NewMiningJob(r.t.job_id, v1_force_future_jobs, MerkleRoot(r.t, notify)),
               SetNewPrevHash(r.t.job_id, notify.prev))

VisitNotify(r, notify) ==
  IF r.t.state # "Operational" THEN [r EXCEPT !.t.deferred = notify]
  ELSE PerformNotify(r, notify)

-----------------------------------------------------------------------------
(* Opening the channel: subscription, authorization and a target, in any   *)
(* order.                                                                  *)

AbortOpenChannel(r) ==
  LET closed == [r EXCEPT !.t.state = "V1SubscribeOrAuthorizeFail", !.t.authorized = FALSE,
                          !.t.extra_nonce1 = None, !.t.extra_nonce2_size = 0,
                          !.t.channel_details = FALSE]
  IN IF r.t.channel_details THEN SendV2(closed, OpenStandardMiningChannelError) ELSE closed

FinalizeOpenChannel(r) ==
  LET opened == SendV2([r EXCEPT !.t.state = "Operational"],
                       OpenStandardMiningChannelSuccess(r.t.target))
  IN IF ~r.t.channel_details THEN [r EXCEPT !.failed = TRUE]
     ELSE IF opened.failed \/ r.t.deferred = None THEN opened
     ELSE PerformNotify([opened EXCEPT !.t.deferred = None], r.t.deferred)

Complete(t) == t.authorized /\ t.extra_nonce1 # None /\ t.target # None
OpenIfComplete(r) ==
  LET opened == FinalizeOpenChannel(r)
  IN IF ~Complete(r.t) THEN r ELSE IF opened.failed THEN AbortOpenChannel(opened) ELSE opened

\* handle_configure_result and handle_configure_error.
HandleConfigure(r, answer) ==
  IF answer.result = "ok"
    THEN SendV2([r EXCEPT !.t.state = "ConnectionSetup"], SetupConnectionSuccess)
    ELSE SendV2(r, SetupConnectionError)

HandleOpenError(r) ==
  IF r.t.state = "V1SubscribeOrAuthorizeFail" THEN r ELSE AbortOpenChannel(r)

HandleSubscribe(r, answer) ==
  IF answer.result = "ok"
    THEN OpenIfComplete([r EXCEPT !.t.extra_nonce1 = answer.data.extra_nonce1,
                                  !.t.extra_nonce2_size = answer.data.size])
    ELSE HandleOpenError(r)

HandleAuthorize(r, answer) ==
  CASE answer.result = "ok" -> OpenIfComplete([r EXCEPT !.t.authorized = TRUE])
    [] answer.result = "false" -> AbortOpenChannel([r EXCEPT !.t.authorized = FALSE])
    [] answer.result = "error" -> HandleOpenError(r)

\* handle_submit_result and handle_submit_error: the sequence number is always 0.
HandleSubmit(r, answer) ==
  IF answer.result # "error" /\ ~r.t.channel_details THEN [r EXCEPT !.t.panicked = TRUE]
  ELSE SendV2(r, IF answer.result = "ok" THEN SubmitSharesSuccess(0) ELSE SubmitSharesError(0))

\* visit_stratum_result_or_error: an answer without a request is ignored.
VisitAnswer(r, answer) ==
  LET request == {q \in r.t.req_map : q.id = answer.id}
      rest == [r EXCEPT !.t.req_map = @ \ request]
      methods == {q.method : q \in request}
  IN CASE "configure" \in methods -> HandleConfigure(rest, answer)
       [] "subscribe" \in methods -> HandleSubscribe(rest, answer)
       [] "authorize" \in methods -> HandleAuthorize(rest, answer)
       [] "submit" \in methods -> HandleSubmit(rest, answer)
       [] methods = {} -> r

\* The f32 is truncated; a difficulty below 1 would divide by zero.
TargetOf(value) == Diff1Target \div (value \div 2)
Targets == {TargetOf(d) : d \in Difficulties}

VisitSetDifficulty(r, value) ==
  LET target == TargetOf(value)
      t == [r.t EXCEPT !.target = target]
      changed == [r EXCEPT !.t = t]
  IN IF ~(t.authorized /\ t.extra_nonce1 # None) THEN changed
     ELSE IF t.state = "OpenStandardMiningChannelPending" THEN FinalizeOpenChannel(changed)
     ELSE SendV2(changed, SetTarget(target))

VisitSetExtranonce(r, extra_nonce1, size) ==
  [r EXCEPT !.t.extra_nonce1 = extra_nonce1, !.t.extra_nonce2_size = size]

-----------------------------------------------------------------------------
(* Messages of the V2 client.  One that is out of sequence is answered     *)
(* with an error and then handled like any other.                          *)

VisitSetupConnection(r) ==
  LET warned == IF r.t.state = "Init" THEN r ELSE SendV2(r, SetupConnectionError)
      asked == Request([warned EXCEPT !.t.conn_details = TRUE], "configure", None)
  IN IF warned.failed THEN warned
     ELSE IF asked.failed THEN asked
     ELSE [asked EXCEPT !.t.state = "V1Configure"]

VisitOpenStandardMiningChannel(r) ==
  LET inSequence == r.t.state \in {"ConnectionSetup", "V1SubscribeOrAuthorizeFail"}
      warned == IF inSequence THEN r ELSE SendV2(r, OpenStandardMiningChannelError)
      pending == [warned EXCEPT !.t.channel_details = TRUE,
                                !.t.state = "OpenStandardMiningChannelPending"]
      asked == Request(pending, "subscribe", None)
  IN IF warned.failed \/ ~r.t.conn_details THEN warned
     ELSE IF asked.failed THEN asked
     ELSE Request(asked, "authorize", None)

\* The extranonce 2 goes with the size of now.
SubmitData(t, template, share) ==
  [v1_job |-> template.v1_job, size |-> t.extra_nonce2_size, solution |-> share.solution]

\* (Mutant: whatever is in the map.)
AnyTemplate(t, share) == t.job_map
Templates(t, share) == {j \in t.job_map : j.id = share.job_id}

\* reject_shares when the job is not in the map.
VisitSubmitShares(r, share) ==
  LET templates == Templates(r.t, share)
  IN IF ~r.t.channel_details THEN [r EXCEPT !.t.panicked = TRUE]
     ELSE IF templates = {} THEN SendV2(r, SubmitSharesError(share.seq_num))
     ELSE Request(r, "submit", SubmitData(r.t, CHOOSE j \in templates : TRUE, share))

-----------------------------------------------------------------------------
(* TranslationHandler::run.                                                *)

Now == [t |-> tr, v2 |-> dn, v1 |-> v1_up, failed |-> FALSE]
Become(r) == tr' = r.t /\ dn' = r.v2 /\ v1_up' = r.v1

\* The solution of a share the translator itself turns down was rejected, too.
TurnedDown(share) == Templates(tr, share) = {}

HandleV2 ==
  LET msg == Head(up) IN
  /\ up # <<>> /\ ~tr.panicked
  /\ up' = Tail(up)
  /\ Become(CASE msg.type = "SetupConnection" -> VisitSetupConnection(Now)
              [] msg.type = "OpenStandardMiningChannel" -> VisitOpenStandardMiningChannel(Now)
              [] msg.type = "SubmitSharesStandard" -> VisitSubmitShares(Now, msg))
  /\ v1_verdict' = IF msg.type = "SubmitSharesStandard" /\ TurnedDown(msg)
                     THEN [v1_verdict EXCEPT !.rejected = @ \cup {msg.solution.uid}]
                     ELSE v1_verdict
  /\ UNCHANGED <<v1_dn, notices, changes, subscribed>>

HandleV1 ==
  LET msg == Head(v1_dn) IN
  /\ v1_dn # <<>> /\ ~tr.panicked
  /\ v1_dn' = Tail(v1_dn)
  /\ Become(CASE msg.type = "answer" -> VisitAnswer(Now, msg)
              [] msg.type = "notify" -> VisitNotify(Now, msg)
              [] msg.type = "set_difficulty" -> VisitSetDifficulty(Now, msg.value)
              [] msg.type = "set_extranonce" ->
                   VisitSetExtranonce(Now, msg.extra_nonce1, msg.size))
  /\ UNCHANGED <<up, notices, changes, subscribed, v1_verdict>>

-----------------------------------------------------------------------------
(* The Stratum V1 pool.                                                    *)

Results(method) == IF method = "subscribe" THEN {"ok", "error"} ELSE {"ok", "false", "error"}
Subscription(n, size) == [extra_nonce1 |-> n, size |-> size]

PoolAnswer(result, size) ==
  LET request == Head(v1_up)
      uid == IF request.method = "submit" THEN {request.data.solution.uid} ELSE {}
  IN /\ v1_up # <<>> /\ ~Full(v1_dn)
     /\ result \in Results(request.method)
     /\ v1_up' = Tail(v1_up)
     /\ v1_dn' = Append(v1_dn, [type |-> "answer", id |-> request.id, result |-> result,
                                data |-> Subscription(0, size)])
     /\ subscribed' = (subscribed \/ (request.method = "subscribe" /\ result = "ok"))
     /\ v1_verdict' = IF result = "ok" THEN [v1_verdict EXCEPT !.accepted = @ \cup uid]
                                       ELSE [v1_verdict EXCEPT !.rejected = @ \cup uid]
     /\ UNCHANGED <<up, dn, tr, notices, changes>>

\* A new block with every second job.
PoolNotify ==
  /\ subscribed /\ notices < MaxNotices /\ ~Full(v1_dn)
  /\ notices' = notices + 1
  /\ v1_dn' = Append(v1_dn, [type |-> "notify", v1_job |-> notices, prev |-> notices \div 2])
  /\ UNCHANGED <<up, dn, tr, v1_up, changes, subscribed, v1_verdict>>

PoolChange ==
  /\ subscribed /\ changes < MaxChanges /\ ~Full(v1_dn)
  /\ changes' = changes + 1
  /\ \/ \E d \in Difficulties :
          v1_dn' = Append(v1_dn, [type |-> "set_difficulty", value |-> d])
     \/ \E size \in Sizes :
          v1_dn' = Append(v1_dn, [type |-> "set_extranonce", extra_nonce1 |-> changes + 1,
                                  size |-> size])
  /\ UNCHANGED <<up, dn, tr, v1_up, notices, subscribed, v1_verdict>>

TranslationNext ==
  \/ HandleV2
  \/ HandleV1
  \/ \E result \in {"ok", "false", "error"}, size \in Sizes : PoolAnswer(result, size)
  \/ PoolNotify
  \/ PoolChange
=============================================================================
