---------------------------- MODULE HttpService ----------------------------
(***************************************************************************)
(* One worker of the HTTP application: the lifespan, and what happens to a *)
(* request from its headers to its answer.  A request passes the security  *)
(* boundary, the gateway chooses how it is executed (directly, durably, or *)
(* under its Idempotency-Key), and the result or the exception is turned   *)
(* into an answer.  What the keyed service does with its tables is in      *)
(* IdempotentExecution; here it takes and closes entries of the ledger.    *)
(***************************************************************************)
EXTENDS ApplicationLifecycle

CONSTANTS
  Requests,
  Users,       \* subjects of accepted tokens
  Keys,        \* Idempotency-Keys that are well-formed
  Inputs,      \* what each request may carry
  None

VARIABLES
  rows, call, result, raised, threads, started,  \* see DurableExecution
  input,    \* headers of each request
  stage,    \* how far a request has come
  path,     \* how the gateway executes it
  answer,   \* the code of the response
  holder,   \* the last request to claim each key, while a record of it is kept
  source    \* the request whose result a replay was given

Durable == INSTANCE DurableExecution

durableVars == <<rows, call, result, raised, threads, started>>
httpVars == <<input, stage, path, answer>>
ledgerVars == <<holder, source>>
vars == <<lifecycleVars, durableVars, httpVars, ledgerVars>>

Operations == {"v1.chat", "v1.qa"}

Roles == {"agent_user", "knowledge_user", "sales_user", "debug_viewer"}

Input ==
  [operation : Operations,
   token : {"absent", "malformed", "rejected", "accepted"},
   user : Users, roles : SUBSET Roles, enabled : BOOLEAN,
   key : Keys \cup {"absent", "malformed", "long"}]  \* long: over 255 bytes

ASSUME InputsAssumption ==
  /\ None \notin Requests
  /\ Keys \cap {"absent", "malformed", "long"} = {}
  /\ "local_api_user" \notin Users
  /\ Inputs \in [Requests -> SUBSET Input]

-----------------------------------------------------------------------------
(* The security boundary. *)

RolePermissions ==
  [agent_user |-> {"chat:invoke", "qa:invoke", "rag:read", "crm:read"},
   knowledge_user |-> {"qa:invoke", "rag:read"},
   sales_user |-> {"chat:invoke", "rag:read", "crm:read"},
   debug_viewer |-> {"raw_response:view"}]

Required(operation) ==
  IF operation = "v1.chat" THEN {"chat:invoke", "rag:read", "crm:read"}
                           ELSE {"qa:invoke", "rag:read"}

DemoPrincipal == [user |-> "local_api_user", roles |-> {"agent_user"}, enabled |-> TRUE]

\* A request without a token is the demo principal's, where that is allowed at all.
Principal(r) ==
  IF input[r].token = "absent"
  THEN DemoPrincipal
  ELSE [user |-> input[r].user, roles |-> input[r].roles, enabled |-> input[r].enabled]

Permissions(r) == UNION {RolePermissions[role] : role \in Principal(r).roles}

\* Mutant: a disabled principal keeps its permissions.
AuthorizedThoughDisabled(r) == Required(input[r].operation) \subseteq Permissions(r)

Authorized(r) ==
  /\ Principal(r).enabled
  /\ Required(input[r].operation) \subseteq Permissions(r)

-----------------------------------------------------------------------------
(* Answers. *)

Answer(r, what) ==
  /\ stage' = [stage EXCEPT ![r] = "ended"]
  /\ answer' = [answer EXCEPT ![r] = what]

\* Nothing but the answer.
Refuse(r, what) ==
  /\ Answer(r, what)
  /\ UNCHANGED <<lifecycleVars, durableVars, input, path, ledgerVars>>

Advance(r, next) ==
  /\ stage' = [stage EXCEPT ![r] = next]
  /\ UNCHANGED <<lifecycleVars, durableVars, input, path, answer, ledgerVars>>

\* The middleware.  Without a lifespan the application serves what it can.  FastAPI
\* reads the body first: one that is no JSON is refused whoever sent it.
Arrive(r) ==
  /\ stage[r] = "idle"
  /\ phase \in {"created", "serving"}
  /\ Advance(r, "securing") \/ Refuse(r, "request_validation_error")

\* BearerTokenParser, and what needs no verification.
Secure(r) ==
  /\ stage[r] = "securing"
  /\ CASE input[r].token = "malformed" -> Refuse(r, "invalid_request")
       [] input[r].token = "absent" ->
            IF config.runtime = "demo" THEN Advance(r, "authorizing")
                                       ELSE Refuse(r, "authentication_required")
       [] OTHER ->
            IF verifier THEN Advance(r, "verifying")
                        ELSE Refuse(r, "authentication_service_unavailable")

\* JWTVerifier.verify: the signing key, which may not be had, then the claims.
Verify(r) ==
  /\ stage[r] = "verifying"
  /\ \/ input[r].token = "accepted" /\ Advance(r, "authorizing")
     \/ input[r].token = "rejected" /\ Refuse(r, "invalid_access_token")
     \/ Refuse(r, "authentication_service_unavailable")

\* AuthorizationService; then FastAPI holds the body against its schema.
Authorize(r) ==
  /\ stage[r] = "authorizing"
  /\ IF Authorized(r)
     THEN Advance(r, "dispatching") \/ Refuse(r, "request_validation_error")
     ELSE Refuse(r, "authorization_denied")

-----------------------------------------------------------------------------
(* The gateway. *)

Keyed(r) == input[r].key # "absent"

\* Raw retrieval responses are not part of a replay.
RawRequested(r) == config.raw /\ "raw_response:view" \in Permissions(r)

\* Why the request is not executed, "none" if it is; the first reason counts.  A
\* long key that the parser lets through does not fit the RequestContext, which
\* raises what no handler expects.
Refusal(r) ==
  IF ~dependencies THEN "persistence_unavailable"
  ELSE IF input[r].key = "malformed" THEN "invalid_idempotency_key"
  ELSE IF input[r].key = "long"
    THEN IF config.longKeys THEN "internal_server_error" ELSE "idempotency_key_too_long"
  ELSE IF ~Keyed(r) /\ config.header = "required" THEN "missing_idempotency_key"
  ELSE IF Keyed(r) /\ RawRequested(r) THEN "idempotency_not_supported_for_raw_response"
  ELSE IF Keyed(r) /\ config.persistence = "null" THEN "idempotency_unavailable"
  ELSE "none"

\* Mutant: without persistent storage the key is ignored.
PathIgnoringTheKey(r) ==
  IF config.persistence = "null" THEN "direct" ELSE "durable"

Path(r) ==
  IF Keyed(r) THEN "keyed"
  ELSE IF config.persistence = "null" THEN "direct" ELSE "durable"

Dispatch(r) ==
  /\ stage[r] = "dispatching"
  /\ IF Refusal(r) # "none"
     THEN Refuse(r, Refusal(r))
     ELSE /\ stage' = [stage EXCEPT ![r] = "executing"]
          /\ path' = [path EXCEPT ![r] = Path(r)]
          /\ Durable!Begin(r)
          /\ UNCHANGED <<lifecycleVars, input, answer, ledgerVars>>

-----------------------------------------------------------------------------
(* Execution without storage: the result is not recorded anywhere. *)

Direct(r) ==
  /\ path[r] = "direct"
  /\ \/ /\ call[r] = "accepting"
        /\ Durable!StartThread(r)
        /\ UNCHANGED <<rows, result, raised>>
     \/ Durable!ThreadReturns(r)
     \/ /\ call[r] = "finalizing"
        /\ Durable!Return(r, IF result[r] = "failed" THEN "ApplicationExecutionError"
                                                     ELSE "ApplicationResult")
        /\ UNCHANGED <<rows, result, threads, started>>

Durably(r) ==
  /\ path[r] = "durable"
  /\ \/ Durable!AcceptRequest(r) \/ Durable!AcceptRequestFails(r)
     \/ Durable!ThreadReturns(r)
     \/ Durable!Finalize(r) \/ Durable!FinalizeFails(r)

-----------------------------------------------------------------------------
(* Execution under a key. *)

KeyScopes == (Users \cup {"local_api_user"}) \X Operations \X Keys

KeyScope(r) == <<Principal(r).user, input[r].operation, input[r].key>>

Holder(r) == holder[KeyScope(r)]

Holds(r) == Holder(r) = r /\ rows[r].status = "in_progress"

\* A claim replaces an owner that did not finish, and closes its request.
Claimed(r) ==
  /\ holder' = [holder EXCEPT ![KeyScope(r)] = r]
  /\ rows' = [q \in Requests |->
       IF q = r THEN Durable!AcceptedRow
       ELSE IF q = Holder(r) /\ rows[q].status = "in_progress"
            THEN Durable!FinalizedRow(rows[q], "failed")
            ELSE rows[q]]

Claim(r) ==
  /\ call[r] = "accepting"
  /\ Claimed(r)
  /\ Durable!StartThread(r)
  /\ UNCHANGED <<result, raised, source>>

ReplayedRow ==
  [status |-> "completed", run |-> "none", events |-> {"request_completed"}]

Replayed(r) ==
  /\ Holder(r) # None
  /\ rows[Holder(r)].status = "completed"
  /\ rows' = [rows EXCEPT ![r] = ReplayedRow]
  /\ source' = [source EXCEPT ![r] = Holder(r)]
  /\ UNCHANGED holder

Replay(r) ==
  /\ call[r] = "accepting"
  /\ Replayed(r)
  /\ Durable!Return(r, "REPLAYED")
  /\ UNCHANGED <<result, threads, started>>

\* What else a claim may end as, by the state of the key's holder.  A record that
\* is pruned under the claim leaves it without one.
Decisions(r) ==
  IF Holder(r) = None
  THEN {"InvalidIdempotencyStateError"}
  ELSE {"CONFLICT", "FingerprintVersionError", "InvalidIdempotencyStateError"} \cup
       CASE rows[Holder(r)].status = "in_progress" -> {"IN_PROGRESS"}
         [] rows[Holder(r)].status = "failed" -> {"PREVIOUS_FAILURE"}
         [] OTHER -> {"UnsupportedReplaySnapshotVersionError"}

DecideOtherwise(r) ==
  /\ call[r] = "accepting"
  /\ \E what \in Decisions(r) : Durable!Return(r, what)
  /\ UNCHANGED <<rows, result, threads, started, ledgerVars>>

\* Tx A raised something else than a decision, perhaps after its commit.
ClaimFails(r) ==
  /\ call[r] = "accepting"
  /\ \/ UNCHANGED <<rows, ledgerVars>>
     \/ Claimed(r) /\ UNCHANGED source
     \/ Replayed(r)
  /\ Durable!Return(r, "RequestInitializationError")
  /\ UNCHANGED <<result, threads, started>>

\* Mutant: the late owner of a key that was taken over finalizes all the same.
FencedNever(r) == TRUE

\* complete_fenced and fail_fenced.
Fenced(r) == Holds(r)

CloseEntry(r) ==
  /\ Fenced(r)
  /\ rows' = [rows EXCEPT ![r] = Durable!FinalizedRow(@, result[r])]

FinalizeKeyed(r) ==
  /\ call[r] = "finalizing"
  /\ \/ CloseEntry(r) /\ Durable!Return(r, Durable!Outcome(result[r]))
     \/ /\ CloseEntry(r) \/ UNCHANGED rows
        /\ Durable!Return(r, "PersistenceFinalizationError")
  /\ UNCHANGED <<result, threads, started, ledgerVars>>

UnderKey(r) ==
  /\ path[r] = "keyed"
  /\ \/ Claim(r) \/ Replay(r) \/ DecideOtherwise(r) \/ ClaimFails(r)
     \/ Durable!ThreadReturns(r) /\ UNCHANGED ledgerVars
     \/ FinalizeKeyed(r)

\* The pruner deletes a terminal idempotency record.
Forget(s) ==
  /\ holder[s] # None
  /\ rows[holder[s]].status \in Durable!Terminal
  /\ holder' = [holder EXCEPT ![s] = None]
  /\ UNCHANGED <<lifecycleVars, durableVars, httpVars, source>>

Execute(r) ==
  /\ stage[r] = "executing"
  /\ \/ Direct(r) /\ UNCHANGED ledgerVars
     \/ Durably(r) /\ UNCHANGED ledgerVars
     \/ UnderKey(r)
  /\ UNCHANGED <<lifecycleVars, httpVars>>

-----------------------------------------------------------------------------
(* From the result or the exception to the answer. *)

Exceptions ==
  {"RequestInitializationError", "PersistenceFinalizationError",
   "DurableApplicationExecutionError", "ApplicationExecutionError",
   "FingerprintVersionError", "InvalidIdempotencyStateError",
   "UnsupportedReplaySnapshotVersionError", "IN_PROGRESS", "CONFLICT",
   "PREVIOUS_FAILURE"}

\* Mutant: a failed finalization is answered as a failed execution.
HandlerOfFinalization(what) ==
  CASE what = "RequestInitializationError" -> "persistence_unavailable"
    [] what = "FingerprintVersionError" -> "idempotency_fingerprint_version_incompatible"
    [] what = "InvalidIdempotencyStateError" -> "invalid_idempotency_state"
    [] what = "UnsupportedReplaySnapshotVersionError" -> "replay_snapshot_version_unsupported"
    [] what = "IN_PROGRESS" -> "idempotency_request_in_progress"
    [] what = "CONFLICT" -> "idempotency_key_conflict"
    [] what = "PREVIOUS_FAILURE" -> "idempotency_previous_failure"
    [] OTHER -> "application_execution_error"

\* The exception handlers of the application, and the gateway's own errors.
Handler(what) ==
  CASE what \in {"RequestInitializationError", "PersistenceFinalizationError"} ->
         "persistence_unavailable"
    [] what = "FingerprintVersionError" -> "idempotency_fingerprint_version_incompatible"
    [] what = "InvalidIdempotencyStateError" -> "invalid_idempotency_state"
    [] what = "UnsupportedReplaySnapshotVersionError" -> "replay_snapshot_version_unsupported"
    [] what = "IN_PROGRESS" -> "idempotency_request_in_progress"
    [] what = "CONFLICT" -> "idempotency_key_conflict"
    [] what = "PREVIOUS_FAILURE" -> "idempotency_previous_failure"
    [] OTHER -> "application_execution_error"

\* The Idempotency-Status header, if any, stands for the answer 200.
Status(r) ==
  IF raised[r] = "REPLAYED" THEN "replayed"
  ELSE IF path[r] = "keyed" THEN "executed" ELSE "answered"

\* Mutant: the outcome of a replay is not looked at.
RespondUnlessReplayed(r) ==
  /\ stage[r] = "executing"
  /\ call[r] = "over"
  /\ raised[r] \notin {"CancelledError", "REPLAYED"}
  /\ IF raised[r] = "ApplicationResult"
     THEN Answer(r, Status(r)) \/ Answer(r, "response_projection_failed")
     ELSE Answer(r, Handler(raised[r]))
  /\ UNCHANGED <<lifecycleVars, durableVars, input, path, ledgerVars>>

\* The projection of a result may fail after it is recorded.
Respond(r) ==
  /\ stage[r] = "executing"
  /\ call[r] = "over"
  /\ raised[r] # "CancelledError"
  /\ IF raised[r] \in {"ApplicationResult", "REPLAYED"}
     THEN Answer(r, Status(r)) \/ Answer(r, "response_projection_failed")
     ELSE Answer(r, Handler(raised[r]))
  /\ UNCHANGED <<lifecycleVars, durableVars, input, path, ledgerVars>>

\* The client went away, or the server's time for draining is over.
CancelExecution(r) ==
  /\ stage[r] = "executing"
  /\ \/ /\ path[r] = "durable"
        /\ Durable!Cancel(r)
        /\ UNCHANGED ledgerVars
     \/ /\ path[r] = "direct" \/ call[r] = "running"
        /\ call[r] \in {"accepting", "running", "finalizing"}
        /\ Durable!Return(r, "CancelledError")
        /\ UNCHANGED <<rows, result, threads, started, ledgerVars>>
     \/ /\ path[r] = "keyed"
        /\ \/ call[r] = "accepting" /\ Claimed(r) /\ UNCHANGED source
           \/ call[r] = "accepting" /\ Replayed(r)
           \/ call[r] = "finalizing" /\ CloseEntry(r) /\ UNCHANGED ledgerVars
           \/ call[r] \in {"accepting", "finalizing"} /\ UNCHANGED <<rows, ledgerVars>>
        /\ Durable!Return(r, "CancelledError")
        /\ UNCHANGED <<result, threads, started>>
  /\ Answer(r, "cancelled")
  /\ UNCHANGED <<lifecycleVars, input, path>>

CancelEarly(r) ==
  /\ stage[r] \in {"securing", "verifying"}
  /\ Refuse(r, "cancelled")

AbandonedThread(r) ==
  /\ Durable!AbandonedThreadReturns(r)
  /\ UNCHANGED <<lifecycleVars, httpVars, ledgerVars>>

-----------------------------------------------------------------------------

Init ==
  /\ LifecycleInit
  /\ Durable!DurableInit
  /\ input \in {f \in [Requests -> UNION {Inputs[r] : r \in Requests}] :
                  \A r \in Requests : f[r] \in Inputs[r]}
  /\ stage = [r \in Requests |-> "idle"]
  /\ path = [r \in Requests |-> "none"]
  /\ answer = [r \in Requests |-> "none"]
  /\ holder = [s \in KeyScopes |-> None]
  /\ source = [r \in Requests |-> None]

InFlight(r) == stage[r] \notin {"idle", "ended"}

\* The server ends the lifespan when no request is in flight: each was answered
\* or, when the time for draining is over, cancelled.
Lifespan ==
  /\ LifecycleNext
  /\ phase = "serving" => \A r \in Requests : ~InFlight(r)
  /\ UNCHANGED <<durableVars, httpVars, ledgerVars>>

Handle(r) ==
  Secure(r) \/ Verify(r) \/ Authorize(r) \/ Dispatch(r) \/ Execute(r) \/ Respond(r)

Next ==
  \/ Lifespan
  \/ \E r \in Requests :
       \/ Arrive(r) \/ Handle(r) \/ CancelExecution(r) \/ CancelEarly(r)
       \/ AbandonedThread(r)
  \/ \E s \in KeyScopes : Forget(s)

Fairness ==
  /\ \A r \in Requests : WF_vars(Handle(r))
  /\ WF_vars(Lifespan /\ Release)

Spec == Init /\ [][Next]_vars /\ Fairness

-----------------------------------------------------------------------------
(* Properties. *)

\* The codes of the answers; the first three come with the status 200.
Codes ==
  {"answered", "executed", "replayed", "cancelled",
   "invalid_request", "authentication_required", "invalid_access_token",
   "authentication_service_unavailable", "authorization_denied",
   "request_validation_error", "invalid_idempotency_key", "idempotency_key_too_long",
   "missing_idempotency_key", "idempotency_not_supported_for_raw_response",
   "idempotency_unavailable", "persistence_unavailable",
   "idempotency_fingerprint_version_incompatible", "invalid_idempotency_state",
   "replay_snapshot_version_unsupported", "idempotency_request_in_progress",
   "idempotency_key_conflict", "idempotency_previous_failure",
   "application_execution_error", "response_projection_failed",
   "internal_server_error"}

(* Every variable has its type.                                                 *)
TypeOK ==
  /\ LifecycleTypeOK
  /\ rows \in [Requests ->
       [status : {"absent", "in_progress"} \cup Durable!Terminal,
        run : {"none"} \cup Durable!Results,
        events : SUBSET {"request_accepted", "request_completed", "policy_blocked",
                         "request_failed"}]]
  /\ call \in [Requests -> {"idle", "accepting", "running", "finalizing", "over"}]
  /\ result \in [Requests -> {"none"} \cup Durable!Results]
  /\ raised \in [Requests ->
       {"none", "ApplicationResult", "REPLAYED", "CancelledError"} \cup Exceptions]
  /\ threads \subseteq started
  /\ started \subseteq Requests
  /\ input \in [Requests -> Input]
  /\ stage \in [Requests -> {"idle", "securing", "verifying", "authorizing",
                              "dispatching", "executing", "ended"}]
  /\ path \in [Requests -> {"none", "direct", "durable", "keyed"}]
  /\ answer \in [Requests -> {"none"} \cup Codes]
  /\ holder \in [KeyScopes -> Requests \cup {None}]
  /\ source \in [Requests -> Requests \cup {None}]

Stored == config.persistence # "null"
Completed(r) == rows[r].status = "completed"

(* The coordinator runs only for a principal that is authenticated, enabled and *)
(* permitted the operation: a token that is malformed, refused or that nobody   *)
(* can verify is never taken for the demo principal, which exists in demo mode  *)
(* alone (api/security.py: secure).                                             *)
RunsAreAdmitted ==
  \A r \in started :
    /\ \/ input[r].token = "accepted"
       \/ input[r].token = "absent" /\ config.runtime = "demo"
    /\ Principal(r).enabled
    /\ Required(input[r].operation) \subseteq Permissions(r)

(* Nothing runs unrecorded where there is storage, and a key that was sent is   *)
(* never dropped: the coordinator of such a request runs under the key or not   *)
(* at all, whatever the configuration and the principal's permissions           *)
(* (application/execution_gateway.py).                                          *)
RunsAreRecorded ==
  \A r \in started :
    /\ Stored => rows[r].status # "absent"
    /\ config.header = "required" => Keyed(r)
    /\ Keyed(r) => path[r] = "keyed" /\ config.persistence # "null" /\ ~RawRequested(r)

AnswerAgrees(r) ==
  CASE answer[r] \in {"none", "persistence_unavailable", "cancelled"} -> TRUE
    [] answer[r] = "answered" -> r \in started /\ ~Keyed(r) /\ (Stored => Completed(r))
    [] answer[r] = "executed" -> r \in started /\ Keyed(r) /\ Completed(r)
    [] answer[r] = "replayed" ->
         r \notin started /\ Completed(r) /\ source[r] # None /\ Completed(source[r])
    [] answer[r] = "response_projection_failed" -> Stored => Completed(r)
    [] answer[r] = "application_execution_error" ->
         r \in started /\ (Stored => rows[r].status = "failed")
    [] OTHER -> r \notin started /\ rows[r].status = "absent"

(* What a client may conclude from an answer.  A result was recorded as         *)
(* completed, a replay copies a request that was, a failed projection hides a   *)
(* recorded result, a failed execution was recorded as failed, and every other  *)
(* refusal left no row and ran nothing.  Only "persistence_unavailable" and a   *)
(* cancellation leave the client in doubt, and only they leave a row in         *)
(* progress behind (api/app.py: exception handlers).                            *)
AnswersAgreeWithRows == \A r \in Requests : AnswerAgrees(r)

(* The rows that all paths share are a ledger: a key has one holder at a time,  *)
(* whoever is taken over is closed, a late owner closes nothing, and a request  *)
(* without a key is a scope of its own.                                         *)
LedgerScopes == KeyScopes \cup {<<r>> : r \in Requests}

LedgerScope(r) == IF input[r].key \in Keys THEN KeyScope(r) ELSE <<r>>

LedgerState(r) ==
  IF source[r] # None THEN "replayed"
  ELSE IF rows[r].status = "in_progress" THEN "open" ELSE rows[r].status

LedgerHolder(s) ==
  IF s \in KeyScopes THEN holder[s]
  ELSE LET r == CHOOSE q \in Requests : s = <<q>> IN
       IF input[r].key \notin Keys /\ rows[r].status # "absent" THEN r ELSE None

Ledger == INSTANCE RequestLedger WITH
  Calls <- Requests,
  Scopes <- LedgerScopes,
  scope <- [r \in Requests |-> LedgerScope(r)],
  state <- [r \in Requests |-> LedgerState(r)],
  holder <- [s \in LedgerScopes |-> LedgerHolder(s)]

ImplementsLedger == Ledger!Spec

(* Every request that arrives is answered, or cancelled.                        *)
EveryRequestIsAnswered ==
  \A r \in Requests : stage[r] = "securing" ~> stage[r] = "ended"

=============================================================================
