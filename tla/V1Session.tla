------------------------------- MODULE V1Session -------------------------------
(***************************************************************************)
(* A mining session with a Stratum V1 pool (stratum_v2_channels.rs): the   *)
(* V2 client, a translator of its own for every connection, and the pool.  *)
(***************************************************************************)
EXTENDS StratumClient, Translation

translationVars == <<tr, v1Vars>>
vars == <<up, dn, clientVars, translationVars>>

Init == ClientInit /\ TranslationInit

\* TranslationHandler::new for the new connection.
NewTranslation ==
  /\ tr' = [NoTranslation EXCEPT !.dropped = tr.dropped]
  /\ v1_up' = <<>> /\ v1_dn' = <<>> /\ subscribed' = FALSE
  /\ UNCHANGED <<notices, changes, v1_verdict>>

\* The client of stratum_v2_channels.rs is a copy of the one of stratum_v2.rs whose
\* connection is a pair of queues to the translator: the same handlers, line by line.
V1Connect == Connect /\ NewTranslation
V1SetupReply == SetupReply /\ UNCHANGED translationVars
V1OpenReply == OpenReply /\ UNCHANGED translationVars
V1NewMiningJob == VisitNewMiningJob /\ UNCHANGED translationVars
V1SetNewPrevHash == VisitSetNewPrevHash /\ UNCHANGED translationVars
V1SetTarget == VisitSetTarget /\ UNCHANGED translationVars
V1SharesSuccess == VisitSubmitSharesSuccess /\ UNCHANGED translationVars
V1SharesError == VisitSubmitSharesError /\ UNCHANGED translationVars
V1Find == \E j \in Range(held) : Find(j) /\ UNCHANGED translationVars
V1Receive == Receive /\ UNCHANGED translationVars
V1ProcessSolution == ProcessSolution /\ UNCHANGED translationVars
V1EndSession == EndSession /\ UNCHANGED translationVars

Next ==
  \/ V1Connect \/ V1SetupReply \/ V1OpenReply
  \/ V1NewMiningJob \/ V1SetNewPrevHash \/ V1SetTarget \/ V1SharesSuccess \/ V1SharesError
  \/ V1Find \/ V1Receive \/ V1ProcessSolution
  \/ V1EndSession
  \/ phase # "connect" /\ TranslationNext /\ UNCHANGED clientVars

Spec == Init /\ [][Next]_vars

-----------------------------------------------------------------------------
States == {"Init", "V1Configure", "ConnectionSetup", "OpenStandardMiningChannelPending",
           "V1SubscribeOrAuthorizeFail", "Operational"}

TypeOK ==
  /\ tr.state \in States
  /\ tr.target \in Targets \cup {None}
  /\ tr.deferred = None \/ tr.deferred.v1_job \in 0 .. MaxNotices - 1
  /\ tr.job_map \subseteq [id : 0 .. MaxNotices, v1_job : 0 .. MaxNotices - 1]
  /\ \A p, q \in tr.req_map : p.id = q.id => p = q
  /\ \A p \in tr.req_map : p.id < tr.req_id
  /\ \A q \in {dn, v1_up, v1_dn} : Len(q) <= Capacity

\* The states of the translation: the client is told that its channel is open once,
\* after the pool has subscribed and authorized it and set a difficulty, and hears
\* of jobs and targets only then.
OpensOnce ==
  LET opened == {i \in 1 .. Len(dn) : dn[i].type = "OpenStandardMiningChannelSuccess"}
  IN /\ Cardinality(opened) <= (IF phase = "open" THEN 1 ELSE 0)
     /\ phase = "open" => \A i \in 1 .. Len(dn) :
          dn[i].type \in {"NewMiningJob", "SetNewPrevHash", "SetTarget"} =>
            \E k \in opened : k < i
     /\ \A i \in opened : dn[i].target \in Targets

\* perform_notify, visit_set_new_prev_hash: the client is never asked to mine a job
\* it has not received, even when messages are lost because its queue is full, and
\* the translator never misses its channel's details.
NobodyPanics == ~panicked /\ ~tr.panicked

\* V2ToV1Translation: a session opens in order and the client can follow all it is told.
OpensSafely == OpensOnce /\ NobodyPanics

\* v2_to_v1_job_map: a share of this session goes upstream under the V1 job that
\* was solved, however the jobs have changed since.
RightJobUpstream ==
  \A i \in 1 .. Len(v1_up) :
    LET request == v1_up[i] IN
    request.method = "submit" /\ request.data.solution.job.session = session =>
      request.data.v1_job = request.data.solution.job.root.v1_job

\* A solution that is counted as rejected was turned down, by the pool or by the
\* translator, and no solution is counted twice, unless an answer was dropped
\* because the client's queue was full.
RejectionsAreReal ==
  ~tr.dropped =>
  /\ rejected \subseteq v1_verdict.rejected
  /\ accepted \cap rejected = {}
  /\ (accepted \cup rejected) \cap (Queued \cup flushed) = {}

\* V2ToV1Translation: a share meets the pool as what it is, and so does the pool's
\* answer the client.
SharesAreTranslated == RightJobUpstream /\ RejectionsAreReal
=============================================================================
