------------------------ MODULE IdempotentExecution ------------------------
(***************************************************************************)
(* The keyed request path: IdempotentDurableApplicationService.execute     *)
(* over the PostgreSQL repositories.  A call is one HTTP request with an   *)
(* Idempotency-Key.  It claims the key in one short transaction (Tx A),    *)
(* runs the coordinator on a worker thread outside any transaction, and    *)
(* finalizes in a second short transaction (Tx B) fenced by the claim.     *)
(*                                                                         *)
(* What one transaction does after it holds the row lock of its            *)
(* idempotency record is one step: every other transaction on that record  *)
(* waits for the lock.  What it did before it holds the lock is not: the   *)
(* database clock is read first, the INSERT that conflicts is a statement  *)
(* of its own, and other transactions run between them.                    *)
(***************************************************************************)
EXTENDS Naturals

CONSTANTS
  Calls,               \* HTTP requests; each has a request_id of its own
  Scopes,              \* (tenant, organization, user, operation, key hash)
  Fingerprints,        \* request fingerprints
  FingerprintVersion,  \* the version under which a fingerprint was computed
  Skews,               \* how far an instance's clock runs ahead of the database's
  Faulty,              \* the calls whose steps may fail, be cancelled or crash
  None,                \* no call, no fingerprint
  Lease,               \* lease_duration_seconds
  ReplayTtl,           \* replay_ttl_seconds
  FailureTtl,          \* failure_ttl_seconds
  PruneMargin,         \* safety_margin_seconds of the pruner
  MaxTime              \* bound on the database clock

ASSUME CallsAssumption == None \notin Calls /\ Faulty \subseteq Calls
ASSUME FingerprintsAssumption ==
  /\ None \notin Fingerprints
  /\ FingerprintVersion \in [Fingerprints -> Nat \ {0}]
\* IdempotencyPolicy and IdempotencyPruner refuse non-positive durations.
ASSUME DurationsAssumption ==
  /\ Lease \in Nat \ {0} /\ ReplayTtl \in Nat \ {0} /\ FailureTtl \in Nat \ {0}
  /\ PruneMargin \in Nat \ {0}
  /\ Skews \subseteq Nat /\ MaxTime \in Nat

VARIABLES
  now,          \* the database clock, clock_timestamp()
  input,        \* what each call asks for and which clock its instance has
  records,      \* table idempotency_records, by scope
  requests,     \* table agent_requests, by call
  runs,         \* table agent_runs, by original request: its status
  audits,       \* table audit_events, by request: the event types
  pc,           \* where each call is
  accepted_at,  \* the instance's clock when the call arrived
  claim_now,    \* db_now of the call's claim
  token,        \* the IdempotencyClaimToken the call was granted
  result,       \* what the coordinator made of the call
  completed_at, \* run_completed_at, on the instance's clock
  answer,       \* what the caller was told
  served,       \* the call whose result the caller was given
  threads,      \* calls whose coordinator thread is running
  replay_until  \* history: the expires_at its completed claim was given

tables == <<records, requests, runs, audits>>
vars == <<now, input, records, requests, runs, audits, pc, accepted_at, claim_now,
          token, result, completed_at, answer, served, threads, replay_until>>

-----------------------------------------------------------------------------
(* Rows. *)

Terminal == {"completed", "failed"}

AbsentRecord ==
  [id |-> None, status |-> "absent", fingerprint |-> None, version |-> 0,
   owner |-> None, claimed_at |-> 0, lease_expires_at |-> 0, expires_at |-> 0,
   run |-> None]

AbsentRequest ==
  [status |-> "absent", created_at |-> 0, completed_at |-> 0,
   replayed_from |-> None, failure_code |-> "none"]

NoToken == [id |-> None, version |-> 0, claimed_at |-> 0, lease_expires_at |-> 0]

Scope(c) == input[c].scope
Record(c) == records[Scope(c)]
AppNow(c) == now + input[c].skew

\* Mutant: a replaced owner starts again at version 1.
ActiveRecordAtVersionOne(c, id, version) ==
  [id |-> id, status |-> "in_progress", fingerprint |-> input[c].fingerprint,
   version |-> 1, owner |-> c, claimed_at |-> claim_now[c],
   lease_expires_at |-> claim_now[c] + Lease, expires_at |-> claim_now[c] + Lease,
   run |-> None]

\* The row an INSERT or _replace_active_owner writes for call c.  A row's id is
\* the call that inserted it: one call inserts at most one row.
ActiveRecord(c, id, version) ==
  [id |-> id, status |-> "in_progress", fingerprint |-> input[c].fingerprint,
   version |-> version, owner |-> c, claimed_at |-> claim_now[c],
   lease_expires_at |-> claim_now[c] + Lease, expires_at |-> claim_now[c] + Lease,
   run |-> None]

TokenOf(rec) ==
  [id |-> rec.id, version |-> rec.version, claimed_at |-> rec.claimed_at,
   lease_expires_at |-> rec.lease_expires_at]

OpenedRequest(c) ==
  [AbsentRequest EXCEPT !.status = "in_progress", !.created_at = accepted_at[c]]

\* Mutant: a failure code outside the approved FAILURE_CODES.
FailedRequestUnapproved(r, at, code) ==
  [r EXCEPT !.status = "failed", !.completed_at = at, !.failure_code = "lease_expired"]

\* Mutant: the reclaimed owner's request is left as it was.
FailedRequestForgotten(r, at, code) == r

FailedRequest(r, at, code) ==
  [r EXCEPT !.status = "failed", !.completed_at = at, !.failure_code = code]

CompletedRequest(r, at) == [r EXCEPT !.status = "completed", !.completed_at = at]

\* Mutant: a replay without its lineage.
ReplayRequestWithoutLineage(c, original) ==
  [AbsentRequest EXCEPT !.status = "completed", !.created_at = accepted_at[c],
                        !.completed_at = accepted_at[c]]

\* A replay's row is terminal from the start and has no run.
ReplayRequest(c, original) ==
  [AbsentRequest EXCEPT !.status = "completed", !.created_at = accepted_at[c],
                        !.completed_at = accepted_at[c], !.replayed_from = original]

-----------------------------------------------------------------------------
(* The rules of a claim. *)

\* Mutant: the validator takes the check of a failed claim for a completed one.
WellFormedSwapped(rec) ==
  /\ rec.status \in {"in_progress", "completed", "failed"}
  /\ rec.version >= 1
  /\ rec.owner # None
  /\ rec.status = "completed" => rec.run = None

\* IdempotencyStateValidator.validate.
WellFormed(rec) ==
  /\ rec.status \in {"in_progress", "completed", "failed"}
  /\ rec.version >= 1
  /\ rec.owner # None
  /\ rec.status = "completed" <=> rec.run # None

\* Mutant: a lease is taken for over one tick early.
LeaseLiveEarly(rec, t) == rec.status = "in_progress" /\ rec.lease_expires_at > t + 1

\* Mutant: an active claim is never taken for stale.
LeaseLiveForever(rec, t) == rec.status = "in_progress"

LeaseLive(rec, t) == rec.status = "in_progress" /\ rec.lease_expires_at > t

\* Mutant: a terminal record is reusable at once.
TerminalExpiredAtOnce(rec, t) == rec.status \in Terminal

TerminalExpired(rec, t) == rec.status \in Terminal /\ rec.expires_at <= t

SameVersion(c, rec) ==
  FingerprintVersion[rec.fingerprint] = FingerprintVersion[input[c].fingerprint]

SameFingerprint(c, rec) == rec.fingerprint = input[c].fingerprint

\* The owner, replay source or failed owner a decision needs is not as it must be.
Dangling(rec) ==
  \/ rec.status = "in_progress" /\ requests[rec.owner].status # "in_progress"
  \/ rec.status = "completed" /\ runs[rec.run] = "absent"
  \/ rec.status = "failed" /\ ( \/ requests[rec.owner].status # "failed"
                                \/ requests[rec.owner].failure_code = "none" )

\* The claim is decided by its owner request only where the record is in force.
InForce(c) ==
  /\ pc[c] = "locking"
  /\ WellFormed(Record(c))
  /\ ~TerminalExpired(Record(c), claim_now[c])

Matching(c) ==
  /\ InForce(c)
  /\ SameVersion(c, Record(c))
  /\ SameFingerprint(c, Record(c))

\* assert_current_owner, and the WHERE clause of complete_fenced and fail_fenced.
OwnsClaim(c) ==
  /\ Record(c).status = "in_progress"
  /\ Record(c).id = token[c].id
  /\ Record(c).owner = c
  /\ Record(c).version = token[c].version

\* Mutant: a row must be completed after, and not at, the time it was created.
ReclaimKeepsOrderStrictly(c) == accepted_at[c] > requests[Record(c).owner].created_at

\* ck completed_after_created on the row a reclaim finalizes.
ReclaimKeepsOrder(c) == accepted_at[c] >= requests[Record(c).owner].created_at

-----------------------------------------------------------------------------
(* Leaving the protocol: the coroutine's frame, its locals with it, is gone. *)

Leave(c, stage) ==
  /\ pc' = [pc EXCEPT ![c] = stage]
  /\ accepted_at' = [accepted_at EXCEPT ![c] = 0]
  /\ claim_now' = [claim_now EXCEPT ![c] = 0]
  /\ result' = [result EXCEPT ![c] = "none"]
  /\ completed_at' = [completed_at EXCEPT ![c] = 0]

Tell(c, what) ==
  /\ Leave(c, "answered")
  /\ answer' = [answer EXCEPT ![c] = what]

\* A transaction that writes nothing: rolled back, or nothing to write.
Refuse(c, what) ==
  /\ Tell(c, what)
  /\ UNCHANGED <<now, input, tables, token, served, threads, replay_until>>

-----------------------------------------------------------------------------
(* Tx A: claim the key and accept the request. *)

Accept(c) ==
  /\ pc[c] = "idle"
  /\ pc' = [pc EXCEPT ![c] = "accepted"]
  /\ accepted_at' = [accepted_at EXCEPT ![c] = AppNow(c)]
  /\ UNCHANGED <<now, input, tables, claim_now, token, result, completed_at,
                 answer, served, threads, replay_until>>

ReadDatabaseNow(c) ==
  /\ pc[c] = "accepted"
  /\ pc' = [pc EXCEPT ![c] = "inserting"]
  /\ claim_now' = [claim_now EXCEPT ![c] = now]
  /\ UNCHANGED <<now, input, tables, accepted_at, token, result, completed_at,
                 answer, served, threads, replay_until>>

\* INSERT ... ON CONFLICT DO NOTHING returned no row.
InsertConflicts(c) ==
  /\ pc[c] = "inserting"
  /\ Record(c).status # "absent"
  /\ pc' = [pc EXCEPT ![c] = "locking"]
  /\ UNCHANGED <<now, input, tables, accepted_at, claim_now, token, result,
                 completed_at, answer, served, threads, replay_until>>

\* After the commit the call holds the claim.  A commit that raises may have
\* been applied: the call then stops without running the coordinator.
Granted(c, rec) ==
  /\ records' = [records EXCEPT ![Scope(c)] = rec]
  /\ token' = [token EXCEPT ![c] = TokenOf(rec)]
  /\ \/ /\ pc' = [pc EXCEPT ![c] = "claimed"]
        /\ UNCHANGED <<accepted_at, claim_now, result, completed_at, answer>>
     \/ /\ c \in Faulty
        /\ Tell(c, "initialization_failed")
  /\ UNCHANGED <<now, input, served, threads, replay_until>>

\* The request row and its accepted audit.
OpenRequest(c) ==
  /\ requests' = [requests EXCEPT ![c] = OpenedRequest(c)]
  /\ audits' = [audits EXCEPT ![c] = @ \cup {"request_accepted"}]
  /\ UNCHANGED runs

Acquire(c) ==
  /\ pc[c] = "inserting"
  /\ Record(c).status = "absent"
  /\ Granted(c, ActiveRecord(c, c, 1))
  /\ OpenRequest(c)

\* _reacquire: an expired terminal record, whatever its fingerprint.
Reacquire(c) ==
  /\ pc[c] = "locking"
  /\ WellFormed(Record(c))
  /\ TerminalExpired(Record(c), claim_now[c])
  /\ Granted(c, ActiveRecord(c, Record(c).id, Record(c).version + 1))
  /\ OpenRequest(c)

\* _reclaim and _finalize_reclaimed_owner: the previous owner's request ends as
\* failed, with a run and an audit of its own, in the transaction that takes the
\* claim from it.
Reclaim(c) ==
  LET old == Record(c).owner IN
  /\ Matching(c)
  /\ Record(c).status = "in_progress"
  /\ ~LeaseLive(Record(c), claim_now[c])
  /\ ~Dangling(Record(c))
  /\ ReclaimKeepsOrder(c)
  /\ Granted(c, ActiveRecord(c, Record(c).id, Record(c).version + 1))
  /\ requests' = [requests EXCEPT
       ![c] = OpenedRequest(c),
       ![old] = FailedRequest(@, accepted_at[c], "idempotency_lease_reclaimed")]
  /\ runs' = [runs EXCEPT ![old] = "failed"]
  /\ audits' = [audits EXCEPT ![c] = @ \cup {"request_accepted"},
                              ![old] = @ \cup {"request_failed"}]

\* The same decision, refused by the CHECK on the old row: Tx A rolls back.
ReclaimRejected(c) ==
  /\ Matching(c)
  /\ Record(c).status = "in_progress"
  /\ ~LeaseLive(Record(c), claim_now[c])
  /\ ~Dangling(Record(c))
  /\ ~ReclaimKeepsOrder(c)
  /\ Refuse(c, "reclaim_rejected")

\* The snapshot is restored for the new request, which is recorded as completed.
Replay(c) ==
  LET original == Record(c).run IN
  /\ Matching(c)
  /\ Record(c).status = "completed"
  /\ ~Dangling(Record(c))
  /\ requests' = [requests EXCEPT ![c] = ReplayRequest(c, original)]
  /\ audits' = [audits EXCEPT ![c] = @ \cup {"request_completed"}]
  /\ \/ /\ Tell(c, "replayed")
        /\ served' = [served EXCEPT ![c] = original]
     \/ /\ c \in Faulty
        /\ Tell(c, "initialization_failed")
        /\ UNCHANGED served
  /\ UNCHANGED <<now, input, records, runs, token, threads, replay_until>>

RefuseVersion(c) ==
  /\ InForce(c)
  /\ ~SameVersion(c, Record(c))
  /\ Refuse(c, "fingerprint_version_incompatible")

RefuseConflict(c) ==
  /\ InForce(c)
  /\ SameVersion(c, Record(c))
  /\ ~SameFingerprint(c, Record(c))
  /\ Refuse(c, "conflict")

RefuseInProgress(c) ==
  /\ Matching(c)
  /\ LeaseLive(Record(c), claim_now[c])
  /\ Refuse(c, "in_progress")

RefusePreviousFailure(c) ==
  /\ Matching(c)
  /\ Record(c).status = "failed"
  /\ ~Dangling(Record(c))
  /\ Refuse(c, "previous_failure")

\* Mutant: the row may be gone between INSERT and SELECT, and nobody looks.
UnusableOnlyDangling(c) ==
  Matching(c) /\ ~LeaseLive(Record(c), claim_now[c]) /\ Dangling(Record(c))

\* InvalidIdempotencyStateError: the row the INSERT conflicted with is gone, or
\* it is not a state the program writes.
Unusable(c) ==
  \/ ~WellFormed(Record(c))
  \/ Matching(c) /\ ~LeaseLive(Record(c), claim_now[c]) /\ Dangling(Record(c))

RefuseInvalidState(c) ==
  /\ pc[c] = "locking"
  /\ Unusable(c)
  /\ Refuse(c, "invalid_idempotency_state")

\* Any statement of Tx A may fail, and so may its COMMIT: it rolls back.
InitializationFails(c) ==
  /\ c \in Faulty
  /\ pc[c] \in {"accepted", "inserting", "locking"}
  /\ Refuse(c, "initialization_failed")

-----------------------------------------------------------------------------
(* The coordinator, on a worker thread. *)

StartCoordinator(c) ==
  /\ pc[c] = "claimed"
  /\ pc' = [pc EXCEPT ![c] = "executing"]
  /\ threads' = threads \cup {c}
  /\ UNCHANGED <<now, input, tables, accepted_at, claim_now, token, result,
                 completed_at, answer, served, replay_until>>

\* "oversized" is a result whose replay snapshot the mapper refuses.
CoordinatorReturns(c) ==
  /\ pc[c] = "executing"
  /\ \E r \in {"completed", "blocked", "oversized", "raised"} :
       result' = [result EXCEPT ![c] = r]
  /\ pc' = [pc EXCEPT ![c] = "finalizing"]
  /\ threads' = threads \ {c}
  /\ completed_at' = [completed_at EXCEPT ![c] = AppNow(c)]
  /\ UNCHANGED <<now, input, tables, accepted_at, claim_now, token, answer,
                 served, replay_until>>

\* Cancellation is not an Exception: nothing is finalized, and the thread runs
\* on (abandon_on_cancel).  A crash of the process takes the thread with it.
Abandon(c) ==
  /\ c \in Faulty
  /\ pc[c] \in {"accepted", "inserting", "locking", "claimed", "executing", "finalizing"}
  /\ Leave(c, "abandoned")
  /\ threads' \in {threads, threads \ {c}}
  /\ UNCHANGED <<now, input, tables, token, answer, served, replay_until>>

AbandonedThreadEnds(c) ==
  /\ pc[c] = "abandoned"
  /\ c \in threads
  /\ threads' = threads \ {c}
  /\ UNCHANGED <<now, input, tables, pc, accepted_at, claim_now, token, result,
                 completed_at, answer, served, replay_until>>

-----------------------------------------------------------------------------
(* Tx B: finalize, fenced by the claim. *)

\* Mutant: Tx B does not look at the claim or at the request.
MayFinalizeUnfenced(c) == pc[c] = "finalizing"

\* What the call may still write: it owns the claim and its request is open.
MayFinalize(c) ==
  /\ pc[c] = "finalizing"
  /\ OwnsClaim(c)
  /\ requests[c].status = "in_progress"

\* The commit is acknowledged, or applied although it raised.
Finalized(c, what, whose) ==
  /\ \/ Tell(c, what) /\ served' = [served EXCEPT ![c] = whose]
     \/ c \in Faulty /\ Tell(c, "finalization_failed") /\ UNCHANGED served
  /\ UNCHANGED <<now, input, token, threads>>

\* Mutant: the run is not recorded with the result.
CompletedRecordWithoutRun(c) ==
  [Record(c) EXCEPT !.status = "completed", !.expires_at = now + ReplayTtl]

CompletedRecord(c) ==
  [Record(c) EXCEPT !.status = "completed", !.run = c, !.expires_at = now + ReplayTtl]

\* The run and the audit event an outcome is recorded with.
RunOf(r) == IF r = "raised" THEN "failed" ELSE r

AuditOf(r) ==
  CASE r = "completed" -> "request_completed"
    [] r = "blocked" -> "policy_blocked"
    [] r = "raised" -> "request_failed"

FinalizeResult(c) ==
  /\ MayFinalize(c)
  /\ result[c] \in {"completed", "blocked"}
  /\ runs' = [runs EXCEPT ![c] = RunOf(result[c])]
  /\ requests' = [requests EXCEPT ![c] = CompletedRequest(@, completed_at[c])]
  /\ audits' = [audits EXCEPT ![c] = @ \cup {AuditOf(result[c])}]
  /\ records' = [records EXCEPT ![Scope(c)] = CompletedRecord(c)]
  /\ replay_until' = [replay_until EXCEPT ![c] = now + ReplayTtl]
  /\ Finalized(c, "executed", c)

FailedRecord(c) ==
  [Record(c) EXCEPT !.status = "failed", !.run = None, !.expires_at = now + FailureTtl]

FinalizeFailed(c) ==
  /\ MayFinalize(c)
  /\ result[c] = "raised"
  /\ runs' = [runs EXCEPT ![c] = RunOf(result[c])]
  /\ requests' = [requests EXCEPT
       ![c] = FailedRequest(@, completed_at[c], "application_failed")]
  /\ audits' = [audits EXCEPT ![c] = @ \cup {AuditOf(result[c])}]
  /\ records' = [records EXCEPT ![Scope(c)] = FailedRecord(c)]
  /\ UNCHANGED replay_until
  /\ Finalized(c, "execution_failed", None)

\* Mutant: the failure of Tx B is swallowed.
FinalizationFailsSilently(c) ==
  /\ pc[c] = "finalizing"
  /\ ~MayFinalize(c) \/ result[c] = "oversized" \/ c \in Faulty
  /\ Refuse(c, "executed")

\* The claim is lost, the snapshot is refused, or a statement fails: Tx B rolls
\* back, and the request stays as it was.
FinalizationFails(c) ==
  /\ pc[c] = "finalizing"
  /\ ~MayFinalize(c) \/ result[c] = "oversized" \/ c \in Faulty
  /\ Refuse(c, "finalization_failed")

-----------------------------------------------------------------------------
(* Around the calls. *)

\* IdempotencyPruner deletes terminal rows that expired a margin ago.
Prune(s) ==
  /\ records[s].status \in Terminal
  /\ records[s].expires_at + PruneMargin <= now
  /\ records' = [records EXCEPT ![s] = AbsentRecord]
  /\ UNCHANGED <<now, input, requests, runs, audits, pc, accepted_at, claim_now,
                 token, result, completed_at, answer, served, threads, replay_until>>

Tick ==
  /\ now < MaxTime
  /\ now' = now + 1
  /\ UNCHANGED <<input, tables, pc, accepted_at, claim_now, token, result,
                 completed_at, answer, served, threads, replay_until>>

Init ==
  /\ now = 0
  /\ input \in [Calls -> [scope : Scopes, fingerprint : Fingerprints, skew : Skews]]
  /\ records = [s \in Scopes |-> AbsentRecord]
  /\ requests = [c \in Calls |-> AbsentRequest]
  /\ runs = [c \in Calls |-> "absent"]
  /\ audits = [c \in Calls |-> {}]
  /\ pc = [c \in Calls |-> "idle"]
  /\ accepted_at = [c \in Calls |-> 0]
  /\ claim_now = [c \in Calls |-> 0]
  /\ token = [c \in Calls |-> NoToken]
  /\ result = [c \in Calls |-> "none"]
  /\ completed_at = [c \in Calls |-> 0]
  /\ answer = [c \in Calls |-> "none"]
  /\ served = [c \in Calls |-> None]
  /\ threads = {}
  /\ replay_until = [c \in Calls |-> 0]

Claim(c) ==
  \/ ReadDatabaseNow(c) \/ InsertConflicts(c)
  \/ Acquire(c) \/ Reacquire(c) \/ Reclaim(c) \/ ReclaimRejected(c) \/ Replay(c)
  \/ RefuseVersion(c) \/ RefuseConflict(c) \/ RefuseInProgress(c)
  \/ RefusePreviousFailure(c) \/ RefuseInvalidState(c)

Execute(c) == StartCoordinator(c) \/ CoordinatorReturns(c)

Finalize(c) == FinalizeResult(c) \/ FinalizeFailed(c) \/ FinalizationFails(c)

Next ==
  \/ \E c \in Calls :
       \/ Accept(c) \/ Claim(c) \/ Execute(c) \/ Finalize(c)
       \/ InitializationFails(c) \/ Abandon(c) \/ AbandonedThreadEnds(c)
  \/ \E s \in Scopes : Prune(s)
  \/ Tick

Spec == Init /\ [][Next]_vars

-----------------------------------------------------------------------------
(* What the tables and the answers must satisfy. *)

RecordType ==
  [id : Calls \cup {None}, status : {"absent", "in_progress"} \cup Terminal,
   fingerprint : Fingerprints \cup {None}, version : Nat, owner : Calls \cup {None},
   claimed_at : Nat, lease_expires_at : Nat, expires_at : Nat, run : Calls \cup {None}]

RequestType ==
  [status : {"absent", "in_progress"} \cup Terminal, created_at : Nat,
   completed_at : Nat, replayed_from : Calls \cup {None},
   failure_code : {"none", "idempotency_lease_reclaimed", "application_failed"}]

TokenType ==
  [id : Calls \cup {None}, version : Nat, claimed_at : Nat, lease_expires_at : Nat]

RunStatuses == {"absent", "completed", "blocked", "failed"}
AuditEvents == {"request_accepted", "request_completed", "policy_blocked", "request_failed"}
Stages == {"idle", "accepted", "inserting", "locking", "claimed", "executing",
           "finalizing", "answered", "abandoned"}
Results == {"none", "completed", "blocked", "oversized", "raised"}
Answers == {"none", "executed", "replayed", "execution_failed", "in_progress",
            "conflict", "previous_failure", "fingerprint_version_incompatible",
            "invalid_idempotency_state", "reclaim_rejected", "initialization_failed",
            "finalization_failed"}

(* Every variable has its type. *)
TypeOK ==
  /\ now \in Nat
  /\ input \in [Calls -> [scope : Scopes, fingerprint : Fingerprints, skew : Skews]]
  /\ records \in [Scopes -> RecordType]
  /\ requests \in [Calls -> RequestType]
  /\ runs \in [Calls -> RunStatuses]
  /\ audits \in [Calls -> SUBSET AuditEvents]
  /\ pc \in [Calls -> Stages]
  /\ accepted_at \in [Calls -> Nat]
  /\ claim_now \in [Calls -> Nat]
  /\ token \in [Calls -> TokenType]
  /\ result \in [Calls -> Results]
  /\ completed_at \in [Calls -> Nat]
  /\ answer \in [Calls -> Answers]
  /\ served \in [Calls -> Calls \cup {None}]
  /\ threads \subseteq Calls
  /\ replay_until \in [Calls -> Nat]

Original(c) == requests[c].status # "absent" /\ requests[c].replayed_from = None

(* A keyed request row is in progress exactly while its call owns the active    *)
(* claim of its scope.  There is no sweeper: a row in progress that no claim    *)
(* points at would stay so for ever, whatever crashed, was cancelled, committed *)
(* without an acknowledgement or was pruned.                                    *)
OpenRequestHoldsClaim ==
  \A c \in Calls :
    requests[c].status = "in_progress" <=>
      Record(c).status = "in_progress" /\ Record(c).owner = c

\* PersistenceIntegrityChecker.check: the codes it reports, except those about
\* the contents of JSON columns.
IntegrityIssues ==
  LET rows == {c \in Calls : requests[c].status # "absent"}
      replays == {c \in rows : requests[c].replayed_from # None}
      ended == {c \in rows : requests[c].status \in Terminal}
      HasRun(c) == runs[c] # "absent"
      Issue(code, found) == IF found THEN {code} ELSE {}
  IN UNION
       {Issue("actual_request_run_cardinality", \E c \in ended \ replays : ~HasRun(c)),
        Issue("request_run_status_mismatch",
              \E c \in ended : HasRun(c) /\ (requests[c].status = "failed" <=> runs[c] # "failed")),
        Issue("replay_has_run", \E c \in replays : HasRun(c)),
        Issue("replay_lineage_invalid", \E c \in replays : requests[c].replayed_from \notin rows \ replays),
        Issue("active_owner_invalid",
              \E s \in Scopes : records[s].status = "in_progress"
                 /\ (records[s].version < 1 \/ requests[records[s].owner].status # "in_progress")),
        Issue("completed_idempotency_invalid",
              \E s \in Scopes : records[s].status = "completed"
                 /\ (records[s].run = None \/ ~HasRun(records[s].run) \/ records[s].expires_at = 0)),
        Issue("failed_idempotency_invalid",
              \E s \in Scopes : records[s].status = "failed" /\ records[s].expires_at = 0),
        Issue("request_accepted_audit_missing",
              \E c \in rows \ replays : "request_accepted" \notin audits[c]),
        Issue("terminal_audit_missing",
              \E c \in ended : audits[c] \cap {"request_completed", "request_failed", "policy_blocked"} = {})}

(* PersistenceIntegrityChecker finds nothing, and nothing is wrong that it does  *)
(* not look for: a terminal original has one run that agrees with it and one     *)
(* terminal audit event, an open one has neither, and a replay has no run and    *)
(* descends from an original of the same scope and fingerprint.                  *)
TablesAgree ==
  /\ IntegrityIssues = {}
  /\ \A c \in Calls :
       /\ runs[c] = CASE requests[c].status = "failed" -> "failed"
                      [] Original(c) /\ requests[c].status = "completed" ->
                           IF "policy_blocked" \in audits[c] THEN "blocked" ELSE "completed"
                      [] OTHER -> "absent"
       /\ Original(c) <=> "request_accepted" \in audits[c]
       /\ requests[c].status = "failed" <=> "request_failed" \in audits[c]
       /\ requests[c].status = "completed" <=>
            audits[c] \cap {"request_completed", "policy_blocked"} # {}
       /\ {"request_completed", "policy_blocked"} \subseteq audits[c] => FALSE
       /\ requests[c].replayed_from # None =>
            LET original == requests[c].replayed_from IN
            /\ Original(original)
            /\ requests[original].status = "completed"
            /\ input[original].scope = input[c].scope
            /\ input[original].fingerprint = input[c].fingerprint

(* A terminal claim still has what a later claim will look up: its owner ended  *)
(* the same way, a completed one names its owner's run, a failed one its code.  *)
(* So InvalidIdempotencyStateError can only mean that the row is gone.          *)
TerminalClaimResolves ==
  \A s \in Scopes :
    LET rec == records[s] IN
    rec.status # "absent" =>
      /\ WellFormed(rec)
      /\ ~Dangling(rec)
      /\ rec.status \in Terminal => requests[rec.owner].status = rec.status
      /\ rec.status = "completed" => rec.run = rec.owner

(* While the lease a call was granted runs, the call is the owner: a coordinator *)
(* thread, abandoned or not, never runs beside another one of its scope unless   *)
(* the lease of one of them is over.                                             *)
LiveLeaseIsExclusive ==
  \A c \in Calls :
    (pc[c] \in {"claimed", "executing", "finalizing"} \/ c \in threads)
      /\ token[c].lease_expires_at > now
      => OwnsClaim(c)

(* What a caller is told is in the tables: an executed result is its own, final  *)
(* and with a run; a replayed one is the committed result of a completed call of *)
(* the same scope and fingerprint; and a call that was told of a failure of its  *)
(* execution is recorded as failed.  A late owner is never told it succeeded.    *)
AnswersAreDurable ==
  \A c \in Calls :
    /\ answer[c] = "executed" =>
         /\ served[c] = c /\ requests[c].status = "completed"
         /\ runs[c] \in {"completed", "blocked"}
    /\ answer[c] = "replayed" =>
         /\ served[c] \in Calls \ {c}
         /\ requests[c].replayed_from = served[c]
         /\ runs[served[c]] \in {"completed", "blocked"}
         /\ answer[served[c]] \in {"none", "executed", "finalization_failed"}
         /\ input[served[c]].scope = Scope(c)
         /\ input[served[c]].fingerprint = input[c].fingerprint
    /\ answer[c] = "execution_failed" =>
         requests[c].failure_code = "application_failed"
    /\ answer[c] \notin {"executed", "replayed"} => served[c] = None

-----------------------------------------------------------------------------
(* What a step may never do. *)

(* The generations of a record advance one at a time: while a row lives its     *)
(* version never falls, a new owner comes with the next version and a claim     *)
(* time no earlier than the end of the lease it took over, and an owner does    *)
(* not come back.                                                               *)
GenerationsAdvance ==
  [][\A s \in Scopes :
       LET old == records[s]  new == records'[s] IN
       old.status # "absent" /\ new.status # "absent" =>
         /\ new.id = old.id
         /\ new.owner = old.owner => new.version = old.version
         /\ new.owner # old.owner =>
              /\ new.version = old.version + 1
              /\ new.claimed_at >= old.lease_expires_at \/ old.status \in Terminal
              /\ new.status = "in_progress"
              /\ \A c \in Calls \ {new.owner} : token'[c] = token[c]
    ]_vars

(* A key is not claimed again while a client may still be owed a replay: when   *)
(* a claim is granted, the replay window of every completed execution of that   *)
(* scope is over, the pruned ones included.                                     *)
NoClaimInReplayWindow ==
  [][\A c, d \in Calls :
       token[d] = NoToken /\ token'[d] # NoToken /\ Scope(c) = Scope(d)
         /\ runs[c] \in {"completed", "blocked"}
         => replay_until[c] <= now
    ]_vars

(* A terminal request, its run and its audit trail are history: no later        *)
(* transaction of any call changes them, and no event is ever removed.          *)
HistoryIsFinal ==
  [][\A c \in Calls :
       /\ audits[c] \subseteq audits'[c]
       /\ requests[c].status \in Terminal =>
            /\ requests'[c] = requests[c] /\ runs'[c] = runs[c] /\ audits'[c] = audits[c]
    ]_vars

(* A 409 has a cause: IN_PROGRESS another call that was granted a lease beyond   *)
(* the database time of the claim, CONFLICT one that was granted the key for     *)
(* another fingerprint, PREVIOUS_FAILURE a failed request of the same one.       *)
RefusalsHaveACause ==
  [][\A c \in Calls :
       LET others == {d \in Calls \ {c} : Scope(d) = Scope(c) /\ token[d] # NoToken}
           same == {d \in others : input[d].fingerprint = input[c].fingerprint} IN
       answer'[c] # answer[c] =>
         /\ answer'[c] = "in_progress" =>
              \E d \in same : token[d].lease_expires_at > claim_now[c]
         /\ answer'[c] = "conflict" => others \ same # {}
         /\ answer'[c] = "previous_failure" =>
              \E d \in same : requests[d].status = "failed"
    ]_vars

-----------------------------------------------------------------------------
(* The ledger these tables implement, and what fairness brings. *)

LedgerState(c) ==
  CASE requests[c].status = "in_progress" -> "open"
    [] requests[c].replayed_from # None -> "replayed"
    [] OTHER -> requests[c].status

Ledger == INSTANCE RequestLedger WITH
  scope  <- [c \in Calls |-> Scope(c)],
  state  <- [c \in Calls |-> LedgerState(c)],
  holder <- [s \in Scopes |-> records[s].owner],
  source <- [c \in Calls |-> requests[c].replayed_from]

(* Every step on the tables is a step of the ledger or leaves it alone: one     *)
(* holder per scope, a taken-over holder closed in the step that takes over, no *)
(* entry closed by anyone but its holder, replays only of completed holders.    *)
ImplementsLedger == Ledger!Spec

\* The event loop runs every coroutine that is ready, the database answers every
\* statement, and the coordinator is a bounded computation on a thread.  Nothing
\* makes a caller arrive, a step fail, the pruner run or time pass.
Fairness ==
  \A c \in Calls :
    WF_vars(Claim(c)) /\ WF_vars(Execute(c)) /\ WF_vars(Finalize(c))

FairSpec == Spec /\ Fairness

(* Every call ends: whatever the state of the record it meets, some decision    *)
(* applies, and no stage waits for another call.                                *)
EveryCallEnds ==
  \A c \in Calls : pc[c] = "accepted" ~> pc[c] \in {"answered", "abandoned"}

\* A reliable call of the same request has read the database clock.
Retries(d, c) ==
  /\ d # c /\ d \notin Faulty
  /\ pc[d] = "inserting"
  /\ Record(d).owner = c
  /\ SameFingerprint(d, Record(d))

(* Recovery is request driven: once the lease of an owner that stopped is over, *)
(* a retry that arrived after the owner leaves no request in progress behind.   *)
StaleClaimIsRecovered ==
  \A c, d \in Calls :
    (/\ Retries(d, c)
     /\ Record(d).status = "in_progress"
     /\ ~LeaseLive(Record(d), claim_now[d])
     /\ accepted_at[d] >= requests[c].created_at)
      ~> requests[c].status # "in_progress"

(* An acknowledgement that is lost does not lose the result: a retry made       *)
(* within the replay window is answered with it, or ends after the window.      *)
CommittedResultIsReplayed ==
  \A c, d \in Calls :
    (/\ Retries(d, c)
     /\ Record(d).status = "completed"
     /\ ~TerminalExpired(Record(d), claim_now[d]))
      ~> (served[d] = c \/ now >= replay_until[c])

-----------------------------------------------------------------------------
(* What the documents say and these steps do not keep. *)

(* docs/project-walkthrough.md:1295: a prune racing a claim of the same expired *)
(* record has one legitimate outcome, the claim skipped or the record new.      *)
PruneRaceHasALegitimateOutcome ==
  \A c \in Calls : answer[c] # "invalid_idempotency_state"

(* docs/project-walkthrough.md:897: the clocks of application instances do not  *)
(* decide who owns a key.  A reclaim would then be refused, if ever, only to a  *)
(* call that arrived before the claim it would take over.                       *)
InstanceClocksDoNotDecide ==
  [][\A c \in Calls :
       answer[c] = "none" /\ answer'[c] = "reclaim_rejected" =>
         accepted_at[c] < token[Record(c).owner].claimed_at + input[c].skew
    ]_vars

=============================================================================
