---------------------- MODULE IdempotentExecution_proof ----------------------
(* Theorems about IdempotentExecution, for every value of its constants. *)
EXTENDS IdempotentExecution, TLAPS

(* The constants the proofs use: the durations and skews are naturals.        *)
LEMMA ConstantsType ==
  /\ Lease \in Nat /\ ReplayTtl \in Nat /\ FailureTtl \in Nat /\ PruneMargin \in Nat
  /\ Skews \subseteq Nat
  /\ None \notin Calls
  BY CallsAssumption, DurationsAssumption

(* The rows that the transactions write have the types of their tables.       *)
LEMMA RowTypes ==
  ASSUME TypeOK, NEW c \in Calls
  PROVE  /\ Scope(c) \in Scopes
         /\ Record(c) \in RecordType
         /\ AppNow(c) \in Nat
         /\ \A id \in Calls \cup {None}, v \in Nat : ActiveRecord(c, id, v) \in RecordType
         /\ \A rec \in RecordType : TokenOf(rec) \in TokenType
         /\ OpenedRequest(c) \in RequestType
         /\ \A o \in Calls : ReplayRequest(c, o) \in RequestType
         /\ \A r \in RequestType, t \in Nat : CompletedRequest(r, t) \in RequestType
         /\ \A r \in RequestType, t \in Nat :
              /\ FailedRequest(r, t, "idempotency_lease_reclaimed") \in RequestType
              /\ FailedRequest(r, t, "application_failed") \in RequestType
         /\ CompletedRecord(c) \in RecordType
         /\ FailedRecord(c) \in RecordType
<1>1. Scope(c) \in Scopes /\ Record(c) \in RecordType /\ AppNow(c) \in Nat
  <2>1. input[c] \in [scope : Scopes, fingerprint : Fingerprints, skew : Skews]
    BY DEF TypeOK
  <2>2. Scope(c) \in Scopes /\ input[c].skew \in Nat
    BY <2>1, ConstantsType DEF Scope
  <2>3. Record(c) \in RecordType
    BY <2>2 DEF TypeOK, Record
  <2> QED BY <2>2, <2>3 DEF TypeOK, AppNow
<1>2. \A id \in Calls \cup {None}, v \in Nat : ActiveRecord(c, id, v) \in RecordType
  BY ConstantsType DEF TypeOK, ActiveRecord, RecordType, Terminal
<1>3. \A rec \in RecordType : TokenOf(rec) \in TokenType
  BY DEF TokenOf, RecordType, TokenType
<1>4. OpenedRequest(c) \in RequestType
  BY DEF TypeOK, OpenedRequest, AbsentRequest, RequestType, Terminal
<1>5. \A o \in Calls : ReplayRequest(c, o) \in RequestType
  BY DEF TypeOK, ReplayRequest, AbsentRequest, RequestType, Terminal
<1>6. \A r \in RequestType, t \in Nat :
        /\ CompletedRequest(r, t) \in RequestType
        /\ FailedRequest(r, t, "idempotency_lease_reclaimed") \in RequestType
        /\ FailedRequest(r, t, "application_failed") \in RequestType
  BY DEF CompletedRequest, FailedRequest, RequestType, Terminal
<1>7. CompletedRecord(c) \in RecordType /\ FailedRecord(c) \in RecordType
  <2>1. now + ReplayTtl \in Nat /\ now + FailureTtl \in Nat
    BY ConstantsType DEF TypeOK
  <2> QED BY <1>1, <2>1, ConstantsType DEF CompletedRecord, FailedRecord, RecordType, Terminal
<1> QED BY <1>1, <1>2, <1>3, <1>4, <1>5, <1>6, <1>7

-----------------------------------------------------------------------------
(* Type correctness. *)

(* The frame of a call that leaves is reset to values of its types.           *)
LEMMA LeaveType ==
  ASSUME TypeOK, NEW c \in Calls, NEW stage \in Stages, Leave(c, stage)
  PROVE  /\ pc' \in [Calls -> Stages] /\ accepted_at' \in [Calls -> Nat]
         /\ claim_now' \in [Calls -> Nat] /\ result' \in [Calls -> Results]
         /\ completed_at' \in [Calls -> Nat]
  BY DEF TypeOK, Leave, Results

LEMMA RefuseType ==
  ASSUME TypeOK, NEW c \in Calls, NEW what \in Answers, Refuse(c, what)
  PROVE  TypeOK'
  BY LeaveType DEF TypeOK, Refuse, Tell, Stages, tables

LEMMA GrantedType ==
  ASSUME TypeOK, NEW c \in Calls, NEW rec \in RecordType, Granted(c, rec),
         requests' \in [Calls -> RequestType], runs' \in [Calls -> RunStatuses],
         audits' \in [Calls -> SUBSET AuditEvents]
  PROVE  TypeOK'
<1>1. records' \in [Scopes -> RecordType] /\ token' \in [Calls -> TokenType]
  BY RowTypes DEF TypeOK, Granted
<1>2. /\ pc' \in [Calls -> Stages] /\ accepted_at' \in [Calls -> Nat]
      /\ claim_now' \in [Calls -> Nat] /\ result' \in [Calls -> Results]
      /\ completed_at' \in [Calls -> Nat] /\ answer' \in [Calls -> Answers]
  <2>1. CASE Tell(c, "initialization_failed")
    BY <2>1, LeaveType DEF TypeOK, Tell, Stages, Answers
  <2>2. CASE /\ pc' = [pc EXCEPT ![c] = "claimed"]
             /\ UNCHANGED <<accepted_at, claim_now, result, completed_at, answer>>
    BY <2>2 DEF TypeOK, Stages
  <2> QED BY <2>1, <2>2 DEF Granted
<1> QED BY <1>1, <1>2 DEF TypeOK, Granted

LEMMA OpenRequestType ==
  ASSUME TypeOK, NEW c \in Calls, OpenRequest(c)
  PROVE  /\ requests' \in [Calls -> RequestType] /\ runs' \in [Calls -> RunStatuses]
         /\ audits' \in [Calls -> SUBSET AuditEvents]
  BY RowTypes DEF TypeOK, OpenRequest, AuditEvents

LEMMA FinalizedType ==
  ASSUME TypeOK, NEW c \in Calls, NEW what \in Answers, NEW whose \in Calls \cup {None},
         Finalized(c, what, whose),
         records' \in [Scopes -> RecordType],
         requests' \in [Calls -> RequestType], runs' \in [Calls -> RunStatuses],
         audits' \in [Calls -> SUBSET AuditEvents], replay_until' \in [Calls -> Nat]
  PROVE  TypeOK'
<1>1. Leave(c, "answered") /\ answer' \in [Calls -> Answers]
  BY DEF TypeOK, Finalized, Tell, Answers
<1>2. served' \in [Calls -> Calls \cup {None}]
  BY DEF TypeOK, Finalized
<1> QED BY <1>1, <1>2, LeaveType DEF TypeOK, Finalized, Stages

(* Every step of the program keeps every variable in its type.                *)
LEMMA TypeStep == TypeOK /\ [Next]_vars => TypeOK'
<1> SUFFICES ASSUME TypeOK, [Next]_vars PROVE TypeOK'
  OBVIOUS
<1>1. ASSUME NEW c \in Calls, Accept(c) PROVE TypeOK'
  BY <1>1, RowTypes DEF Accept, TypeOK, Stages, tables
<1>2. ASSUME NEW c \in Calls, ReadDatabaseNow(c) PROVE TypeOK'
  BY <1>2 DEF ReadDatabaseNow, TypeOK, Stages, tables
<1>3. ASSUME NEW c \in Calls, InsertConflicts(c) PROVE TypeOK'
  BY <1>3 DEF InsertConflicts, TypeOK, Stages, tables
<1>4. ASSUME NEW c \in Calls, Acquire(c) PROVE TypeOK'
  <2>1. ActiveRecord(c, c, 1) \in RecordType
    BY RowTypes
  <2> QED BY <1>4, <2>1, OpenRequestType, GrantedType DEF Acquire
<1>5. ASSUME NEW c \in Calls, Reacquire(c) PROVE TypeOK'
  <2> Record(c) \in RecordType
    BY RowTypes
  <2>1. Record(c).version + 1 \in Nat /\ Record(c).id \in Calls \cup {None}
    BY DEF RecordType
  <2>2. ActiveRecord(c, Record(c).id, Record(c).version + 1) \in RecordType
    BY <2>1, RowTypes
  <2> QED BY <1>5, <2>2, OpenRequestType, GrantedType DEF Reacquire
<1>6. ASSUME NEW c \in Calls, Reclaim(c) PROVE TypeOK'
  <2> DEFINE old == Record(c).owner
  <2> Record(c) \in RecordType
    BY RowTypes
  <2>1. /\ Record(c).version + 1 \in Nat /\ Record(c).id \in Calls \cup {None}
        /\ old \in Calls
    BY <1>6 DEF RecordType, Reclaim, Matching, InForce, WellFormed
  <2>2. ActiveRecord(c, Record(c).id, Record(c).version + 1) \in RecordType
    BY <2>1, RowTypes
  <2>3. /\ requests[old] \in RequestType /\ accepted_at[c] \in Nat
        /\ OpenedRequest(c) \in RequestType
    BY <2>1, RowTypes DEF TypeOK
  <2>4. requests' \in [Calls -> RequestType]
    <3>1. \A r \in RequestType :
            FailedRequest(r, accepted_at[c], "idempotency_lease_reclaimed") \in RequestType
      BY <2>3, RowTypes
    <3> QED BY <1>6, <2>1, <2>3, <3>1 DEF Reclaim, TypeOK
  <2>5. runs' \in [Calls -> RunStatuses] /\ audits' \in [Calls -> SUBSET AuditEvents]
    BY <1>6 DEF Reclaim, TypeOK, RunStatuses, AuditEvents
  <2> QED BY <1>6, <2>2, <2>4, <2>5, GrantedType DEF Reclaim
<1>7. ASSUME NEW c \in Calls, Replay(c) PROVE TypeOK'
  <2>1. Record(c).run \in Calls
    BY <1>7, RowTypes DEF RecordType, Replay, Matching, InForce, WellFormed
  <2>2. requests' \in [Calls -> RequestType] /\ audits' \in [Calls -> SUBSET AuditEvents]
    BY <1>7, <2>1, RowTypes DEF Replay, TypeOK, AuditEvents
  <2>3. /\ Leave(c, "answered") /\ answer' \in [Calls -> Answers]
        /\ served' \in [Calls -> Calls \cup {None}]
    BY <1>7, <2>1 DEF Replay, TypeOK, Tell, Answers
  <2> QED BY <1>7, <2>2, <2>3, LeaveType DEF Replay, TypeOK, Stages
<1>8. ASSUME NEW c \in Calls,
             \/ ReclaimRejected(c) \/ RefuseVersion(c) \/ RefuseConflict(c)
             \/ RefuseInProgress(c) \/ RefusePreviousFailure(c)
             \/ RefuseInvalidState(c) \/ InitializationFails(c) \/ FinalizationFails(c)
      PROVE TypeOK'
  BY <1>8, RefuseType DEF ReclaimRejected, RefuseVersion, RefuseConflict,
     RefuseInProgress, RefusePreviousFailure, RefuseInvalidState,
     InitializationFails, FinalizationFails, Answers
<1>9. ASSUME NEW c \in Calls, StartCoordinator(c) PROVE TypeOK'
  BY <1>9 DEF StartCoordinator, TypeOK, Stages, tables
<1>10. ASSUME NEW c \in Calls, CoordinatorReturns(c) PROVE TypeOK'
  BY <1>10, RowTypes DEF CoordinatorReturns, TypeOK, Stages, Results, tables
<1>11. ASSUME NEW c \in Calls, Abandon(c) PROVE TypeOK'
  BY <1>11, LeaveType DEF Abandon, TypeOK, Stages, tables
<1>12. ASSUME NEW c \in Calls, AbandonedThreadEnds(c) PROVE TypeOK'
  BY <1>12 DEF AbandonedThreadEnds, TypeOK, tables
<1>13. ASSUME NEW c \in Calls, FinalizeResult(c) PROVE TypeOK'
  <2>1. completed_at[c] \in Nat /\ requests[c] \in RequestType /\ now + ReplayTtl \in Nat
    BY ConstantsType DEF TypeOK
  <2>2. CompletedRequest(requests[c], completed_at[c]) \in RequestType
    BY <2>1, RowTypes
  <2>3. records' \in [Scopes -> RecordType] /\ requests' \in [Calls -> RequestType]
    BY <1>13, <2>2, RowTypes DEF FinalizeResult, TypeOK
  <2>4. /\ runs' \in [Calls -> RunStatuses] /\ audits' \in [Calls -> SUBSET AuditEvents]
        /\ replay_until' \in [Calls -> Nat]
    BY <1>13, <2>1 DEF FinalizeResult, TypeOK, RunStatuses, AuditEvents, RunOf, AuditOf
  <2> QED BY <1>13, <2>3, <2>4, FinalizedType DEF FinalizeResult, Answers
<1>14. ASSUME NEW c \in Calls, FinalizeFailed(c) PROVE TypeOK'
  <2>1. completed_at[c] \in Nat /\ requests[c] \in RequestType
    BY DEF TypeOK
  <2>2. FailedRequest(requests[c], completed_at[c], "application_failed") \in RequestType
    BY <2>1, RowTypes
  <2>3. records' \in [Scopes -> RecordType] /\ requests' \in [Calls -> RequestType]
    BY <1>14, <2>2, RowTypes DEF FinalizeFailed, TypeOK
  <2>4. /\ runs' \in [Calls -> RunStatuses] /\ audits' \in [Calls -> SUBSET AuditEvents]
        /\ replay_until' \in [Calls -> Nat]
    BY <1>14 DEF FinalizeFailed, TypeOK, RunStatuses, AuditEvents, RunOf, AuditOf
  <2> QED BY <1>14, <2>3, <2>4, FinalizedType DEF FinalizeFailed, Answers
<1>15. ASSUME NEW s \in Scopes, Prune(s) PROVE TypeOK'
  BY <1>15 DEF Prune, TypeOK, AbsentRecord, RecordType
<1>16. ASSUME Tick PROVE TypeOK'
  BY <1>16 DEF Tick, TypeOK, tables
<1>17. ASSUME UNCHANGED vars PROVE TypeOK'
  BY <1>17 DEF vars, TypeOK
<1> QED
  BY <1>1, <1>2, <1>3, <1>4, <1>5, <1>6, <1>7, <1>8, <1>9, <1>10, <1>11, <1>12,
     <1>13, <1>14, <1>15, <1>16, <1>17 DEF Next, Claim, Execute, Finalize

LEMMA InitType == Init => TypeOK
  BY DEF Init, TypeOK, AbsentRecord, AbsentRequest, NoToken, RecordType, RequestType,
     TokenType, RunStatuses, AuditEvents, Stages, Results, Answers

(* The rows, the claim tokens and the stages of the calls stay what the code  *)
(* declares them to be, whatever the calls, scopes, durations and clocks.     *)
THEOREM TypeCorrect == Spec => []TypeOK
  BY InitType, TypeStep, PTL DEF Spec

-----------------------------------------------------------------------------
(* The inductive invariant behind the claim. *)

Unclaimed == {"idle", "accepted", "inserting", "locking"}

\* A call that has not claimed has written nothing and runs nothing.
FreshInv ==
  \A c \in Calls : pc[c] \in Unclaimed => requests[c] = AbsentRequest /\ c \notin threads

\* The record of scope s names an owner whose request is as the record is.
Resolves(s) ==
  LET rec == records[s] IN
  /\ rec.version >= 1
  /\ rec.owner \in Calls
  /\ Scope(rec.owner) = s
  /\ requests[rec.owner].status = rec.status
  /\ requests[rec.owner].replayed_from = None
  /\ rec.run = IF rec.status = "completed" THEN rec.owner ELSE None
  /\ rec.status = "completed" => runs[rec.owner] # "absent"
  /\ rec.status = "failed" => requests[rec.owner].failure_code # "none"

RecordInv ==
  \A s \in Scopes :
    IF records[s].status = "absent" THEN records[s].owner = None ELSE Resolves(s)

\* A request in progress owns the active claim of its scope.
OpenInv ==
  \A c \in Calls :
    requests[c].status = "in_progress" => Record(c).status = "in_progress" /\ Record(c).owner = c

\* The database time a claim was decided on is past.
ClockInv == \A c \in Calls : claim_now[c] <= now

\* Only a call that executes, or was abandoned while it did, has a thread.
ThreadInv == \A c \in Calls : c \in threads => pc[c] \in {"executing", "abandoned"}

Working(c) == pc[c] \in {"claimed", "executing", "finalizing"} \/ c \in threads

\* The lease in a working owner's token is the lease in the row.
LeaseInv ==
  \A c \in Calls :
    Working(c) /\ token[c].lease_expires_at > now
      => OwnsClaim(c) /\ Record(c).lease_expires_at = token[c].lease_expires_at

IInv ==
  /\ TypeOK /\ FreshInv /\ RecordInv /\ OpenInv /\ ClockInv /\ ThreadInv /\ LeaseInv

(* A step that leaves the tables and tokens alone and lets no call start work. *)
LEMMA QuietStep ==
  ASSUME IInv, TypeOK', UNCHANGED <<input, records, requests, runs, token>>,
         now' >= now,
         \A c \in Calls :
           /\ pc'[c] \in Unclaimed => pc[c] \in Unclaimed /\ (c \in threads' => c \in threads)
           /\ Working(c)' => Working(c)
           /\ c \in threads' => pc'[c] \in {"executing", "abandoned"}
           /\ claim_now'[c] <= now'
  PROVE  IInv'
<1>1. FreshInv' /\ ThreadInv' /\ ClockInv'
  BY DEF IInv, FreshInv, ThreadInv, ClockInv
<1>2. RecordInv' /\ OpenInv'
  BY DEF IInv, RecordInv, Resolves, OpenInv, Scope, Record
<1>3. LeaseInv'
  <2>1. now \in Nat /\ now' \in Nat
    BY DEF IInv, TypeOK
  <2>2. \A c \in Calls : token[c].lease_expires_at \in Nat
    BY DEF IInv, TypeOK, TokenType
  <2>3. \A c \in Calls : token[c].lease_expires_at > now' => token[c].lease_expires_at > now
    BY <2>1, <2>2
  <2>4. \A c \in Calls : OwnsClaim(c)' <=> OwnsClaim(c)
    BY DEF OwnsClaim, Record, Scope
  <2> QED BY <2>3, <2>4 DEF IInv, LeaseInv, Record, Scope
<1> QED BY <1>1, <1>2, <1>3 DEF IInv

(* A refused call has changed nothing but its own frame.                      *)
LEMMA RefuseStep ==
  ASSUME IInv, TypeOK', NEW c \in Calls, NEW what, Refuse(c, what),
         pc[c] \in {"accepted", "inserting", "locking", "finalizing"}
  PROVE  IInv'
<1>1. UNCHANGED <<now, input, records, requests, runs, token, threads>>
  BY DEF Refuse, tables
<1>2. pc' = [pc EXCEPT ![c] = "answered"] /\ claim_now' = [claim_now EXCEPT ![c] = 0]
  BY DEF Refuse, Tell, Leave
<1>3. now \in Nat /\ pc \in [Calls -> Stages] /\ claim_now \in [Calls -> Nat]
  BY DEF IInv, TypeOK
<1>4. c \notin threads
  BY DEF IInv, FreshInv, ThreadInv, Unclaimed
<1>5. \A d \in Calls :
        /\ pc'[d] \in Unclaimed => pc[d] \in Unclaimed /\ (d \in threads' => d \in threads)
        /\ Working(d)' => Working(d)
        /\ d \in threads' => pc'[d] \in {"executing", "abandoned"}
  BY <1>1, <1>2, <1>3, <1>4 DEF IInv, ThreadInv, Working, Unclaimed
<1>6. \A d \in Calls : claim_now'[d] <= now'
  BY <1>1, <1>2, <1>3 DEF IInv, ClockInv
<1> QED BY <1>1, <1>3, <1>5, <1>6, QuietStep

(* A call takes the claim of its scope: the record was absent or terminal, or *)
(* its lease is over and its owner is closed in the same step.                *)
LEMMA ClaimStep ==
  ASSUME IInv, TypeOK', NEW c \in Calls, pc[c] \in Unclaimed,
         NEW id, NEW v \in Nat, v >= 1,
         Granted(c, ActiveRecord(c, id, v)),
         requests'[c].status = "in_progress", requests'[c].replayed_from = None,
         Record(c).status = "in_progress" =>
           /\ Record(c).lease_expires_at <= claim_now[c]
           /\ requests'[Record(c).owner].status = "failed",
         \A d \in Calls \ {c} :
           /\ runs[d] # "absent" => runs'[d] # "absent"
           /\ \/ requests'[d] = requests[d]
              \/ Record(c).status = "in_progress" /\ d = Record(c).owner
  PROVE  IInv'
<1>1. /\ input' = input /\ now' = now /\ threads' = threads
      /\ records' = [records EXCEPT ![Scope(c)] = ActiveRecord(c, id, v)]
      /\ token' = [token EXCEPT ![c] = TokenOf(ActiveRecord(c, id, v))]
  BY DEF Granted
<1>2. /\ \A d \in Calls \ {c} : pc'[d] = pc[d] /\ claim_now'[d] = claim_now[d]
      /\ pc'[c] \in {"claimed", "answered"}
      /\ claim_now'[c] \in {0, claim_now[c]}
  BY DEF Granted, Tell, Leave, IInv, TypeOK
<1>3. now \in Nat /\ \A d \in Calls : claim_now[d] \in Nat /\ Scope(d) \in Scopes
  BY RowTypes DEF IInv, TypeOK
<1>4. /\ \A d \in Calls : Scope(d)' = Scope(d)
      /\ records'[Scope(c)] = ActiveRecord(c, id, v)
      /\ \A s \in Scopes \ {Scope(c)} : records'[s] = records[s]
      /\ token'[c] = TokenOf(ActiveRecord(c, id, v))
      /\ \A d \in Calls \ {c} : token'[d] = token[d]
  BY <1>1, <1>3 DEF Scope, IInv, TypeOK
<1>5. requests[c] = AbsentRequest /\ c \notin threads
  BY DEF IInv, FreshInv
<1>6. \A s \in Scopes : records[s].status # "absent" => records[s].owner # c
  BY <1>5 DEF IInv, RecordInv, Resolves, AbsentRequest
<1>7. FreshInv'
  <2> SUFFICES ASSUME NEW d \in Calls, pc'[d] \in Unclaimed
               PROVE  requests'[d] = AbsentRequest /\ d \notin threads'
    BY DEF FreshInv, Unclaimed
  <2>1. d # c /\ requests[d] = AbsentRequest /\ d \notin threads
    BY <1>2 DEF IInv, FreshInv, Unclaimed
  <2>2. ~(Record(c).status = "in_progress" /\ d = Record(c).owner)
    BY <1>3, <2>1 DEF IInv, RecordInv, Resolves, Record, AbsentRequest
  <2> QED BY <1>1, <2>1, <2>2
<1>8. ThreadInv' /\ ClockInv'
  BY <1>1, <1>2, <1>3, <1>5 DEF IInv, ThreadInv, ClockInv
<1>9. RecordInv'
  <2> SUFFICES ASSUME NEW s \in Scopes
               PROVE  IF records'[s].status = "absent" THEN records'[s].owner = None
                                                       ELSE Resolves(s)'
    BY DEF RecordInv
  <2>1. CASE s = Scope(c)
    BY <1>4, <2>1 DEF Resolves, ActiveRecord
  <2>2. CASE s # Scope(c)
    <3>0. records'[s] = records[s]
      BY <1>4, <2>2
    <3> SUFFICES ASSUME records[s].status # "absent" PROVE Resolves(s)'
      BY <3>0 DEF IInv, RecordInv
    <3>1. records[s].owner \in Calls \ {c} /\ Scope(records[s].owner) = s
      BY <1>6 DEF IInv, RecordInv, Resolves
    <3>2. requests'[records[s].owner] = requests[records[s].owner]
      BY <1>3, <2>2, <3>1 DEF IInv, RecordInv, Resolves, Record
    <3> QED BY <3>0, <1>4, <3>1, <3>2 DEF IInv, RecordInv, Resolves
  <2> QED BY <2>1, <2>2
<1>10. OpenInv'
  <2> SUFFICES ASSUME NEW d \in Calls, requests'[d].status = "in_progress"
               PROVE  records'[Scope(d)].status = "in_progress" /\ records'[Scope(d)].owner = d
    BY <1>4 DEF OpenInv, Record
  <2>1. CASE d = c
    BY <1>4, <2>1 DEF ActiveRecord
  <2>2. CASE d # c
    <3>1. requests'[d] = requests[d] /\ ~(Record(c).status = "in_progress" /\ d = Record(c).owner)
      BY <2>2
    <3>2. records[Scope(d)].status = "in_progress" /\ records[Scope(d)].owner = d
      BY <3>1 DEF IInv, OpenInv, Record
    <3>3. Scope(d) # Scope(c)
      BY <3>1, <3>2 DEF Record
    <3> QED BY <1>3, <1>4, <3>2, <3>3
  <2> QED BY <2>1, <2>2
<1>11. LeaseInv'
  <2> SUFFICES ASSUME NEW d \in Calls, Working(d)', token'[d].lease_expires_at > now'
               PROVE  OwnsClaim(d)' /\ records'[Scope(d)].lease_expires_at = token'[d].lease_expires_at
    BY <1>4 DEF LeaseInv, Record
  <2>1. CASE d = c
    BY <1>4, <2>1 DEF OwnsClaim, Record, ActiveRecord, TokenOf
  <2>2. CASE d # c
    <3>1. Working(d) /\ token[d].lease_expires_at > now
      BY <1>1, <1>2, <1>4, <2>2 DEF Working
    <3>2. OwnsClaim(d) /\ Record(d).lease_expires_at = token[d].lease_expires_at
      BY <3>1 DEF IInv, LeaseInv
    <3>3. Scope(d) # Scope(c)
      <4> SUFFICES ASSUME Scope(d) = Scope(c) PROVE FALSE
        OBVIOUS
      <4>1. Record(c).status = "in_progress" /\ Record(c).lease_expires_at > now
        BY <3>1, <3>2 DEF OwnsClaim, Record
      <4>2. Record(c).lease_expires_at \in Nat
        BY <1>3 DEF IInv, TypeOK, Record, RecordType
      <4> QED BY <1>3, <4>1, <4>2 DEF IInv, ClockInv
    <3> QED BY <1>3, <1>4, <2>2, <3>2, <3>3 DEF OwnsClaim, Record
  <2> QED BY <2>1, <2>2
<1> QED BY <1>7, <1>8, <1>9, <1>10, <1>11 DEF IInv

(* The owner of an open claim closes its record, its request and its run.     *)
LEMMA FinalizeStep ==
  ASSUME IInv, TypeOK', NEW c \in Calls, NEW what, NEW whose, NEW rec, NEW r,
         MayFinalize(c), Finalized(c, what, whose),
         records' = [records EXCEPT ![Scope(c)] = rec],
         requests' = [requests EXCEPT ![c] = r],
         \A d \in Calls \ {c} : runs'[d] = runs[d],
         rec.status \in Terminal, r.status = rec.status,
         r.replayed_from = requests[c].replayed_from,
         rec.version = Record(c).version, rec.owner = Record(c).owner,
         rec.run = IF rec.status = "completed" THEN c ELSE None,
         rec.status = "completed" => runs'[c] # "absent",
         rec.status = "failed" => r.failure_code # "none"
  PROVE  IInv'
<1>1. /\ input' = input /\ now' = now /\ threads' = threads /\ token' = token
      /\ pc' = [pc EXCEPT ![c] = "answered"] /\ claim_now' = [claim_now EXCEPT ![c] = 0]
  BY DEF Finalized, Tell, Leave
<1>2. /\ Record(c).status = "in_progress" /\ Record(c).owner = c
      /\ pc[c] = "finalizing" /\ requests[c].status = "in_progress" /\ c \notin threads
  BY DEF MayFinalize, OwnsClaim, IInv, ThreadInv
<1>3. /\ now \in Nat /\ \A d \in Calls : Scope(d) \in Scopes /\ Scope(d)' = Scope(d)
      /\ records'[Scope(c)] = rec /\ requests'[c] = r
      /\ \A s \in Scopes \ {Scope(c)} : records'[s] = records[s]
      /\ \A d \in Calls \ {c} : requests'[d] = requests[d] /\ pc'[d] = pc[d]
      /\ pc'[c] = "answered" /\ claim_now'[c] = 0
      /\ \A d \in Calls \ {c} : claim_now'[d] = claim_now[d]
  BY <1>1, RowTypes DEF IInv, TypeOK, Scope
<1>4. \A d \in Calls \ {c} :
        requests[d].status = "in_progress" \/ OwnsClaim(d) => Scope(d) # Scope(c)
  BY <1>2 DEF IInv, OpenInv, OwnsClaim, Record
<1>5. FreshInv' /\ ThreadInv' /\ ClockInv'
  BY <1>1, <1>2, <1>3 DEF IInv, FreshInv, ThreadInv, ClockInv, Unclaimed
<1>6. RecordInv'
  <2> SUFFICES ASSUME NEW s \in Scopes
               PROVE  IF records'[s].status = "absent" THEN records'[s].owner = None
                                                       ELSE Resolves(s)'
    BY DEF RecordInv
  <2>1. CASE s = Scope(c)
    <3>1. Resolves(Scope(c))
      BY <1>2, <1>3 DEF IInv, RecordInv, Record
    <3> QED BY <1>2, <1>3, <2>1, <3>1 DEF Resolves, Record, Terminal
  <2>2. CASE s # Scope(c)
    <3>0. records'[s] = records[s]
      BY <1>3, <2>2
    <3> SUFFICES ASSUME records[s].status # "absent" PROVE Resolves(s)'
      BY <3>0 DEF IInv, RecordInv
    <3>1. records'[s] = records[s] /\ Resolves(s)
      BY <3>0 DEF IInv, RecordInv
    <3>2. records[s].owner # c
      BY <2>2, <3>1 DEF Resolves
    <3> QED BY <1>3, <3>1, <3>2 DEF Resolves
  <2> QED BY <2>1, <2>2
<1>7. OpenInv'
  BY <1>2, <1>3, <1>4 DEF IInv, OpenInv, Record, Terminal
<1>8. LeaseInv'
  <2> SUFFICES ASSUME NEW d \in Calls, Working(d)', token'[d].lease_expires_at > now'
               PROVE  OwnsClaim(d)' /\ records'[Scope(d)].lease_expires_at = token'[d].lease_expires_at
    BY <1>3 DEF LeaseInv, Record
  <2>1. d # c /\ Working(d) /\ token[d].lease_expires_at > now
    BY <1>1, <1>2, <1>3 DEF Working
  <2>2. OwnsClaim(d) /\ Record(d).lease_expires_at = token[d].lease_expires_at
    BY <2>1 DEF IInv, LeaseInv
  <2> QED BY <1>1, <1>3, <1>4, <2>1, <2>2 DEF OwnsClaim, Record
<1> QED BY <1>5, <1>6, <1>7, <1>8 DEF IInv

(* A replay records its own request and nothing else.                         *)
LEMMA ReplayStep ==
  ASSUME IInv, TypeOK', NEW c \in Calls, Replay(c)
  PROVE  IInv'
<1>1. /\ UNCHANGED <<now, input, records, runs, token, threads>>
      /\ pc' = [pc EXCEPT ![c] = "answered"] /\ claim_now' = [claim_now EXCEPT ![c] = 0]
      /\ requests' = [requests EXCEPT ![c] = ReplayRequest(c, Record(c).run)]
      /\ pc[c] = "locking"
  BY DEF Replay, Matching, InForce, Tell, Leave
<1>2. requests[c] = AbsentRequest /\ c \notin threads
  BY <1>1 DEF IInv, FreshInv, Unclaimed
<1>3. /\ now \in Nat
      /\ requests'[c].status = "completed" /\ pc'[c] = "answered" /\ claim_now'[c] = 0
      /\ \A d \in Calls \ {c} :
           requests'[d] = requests[d] /\ pc'[d] = pc[d] /\ claim_now'[d] = claim_now[d]
  BY <1>1 DEF IInv, TypeOK, ReplayRequest, AbsentRequest
<1>4. \A s \in Scopes : records[s].status # "absent" => records[s].owner # c
  BY <1>2 DEF IInv, RecordInv, Resolves, AbsentRequest
<1>5. FreshInv' /\ ThreadInv' /\ ClockInv'
  BY <1>1, <1>2, <1>3 DEF IInv, FreshInv, ThreadInv, ClockInv, Unclaimed
<1>6. RecordInv'
  BY <1>1, <1>3, <1>4 DEF IInv, RecordInv, Resolves, Scope
<1>7. OpenInv'
  BY <1>1, <1>3 DEF IInv, OpenInv, Record, Scope
<1>8. LeaseInv'
  <2>1. \A d \in Calls : Working(d)' => Working(d)
    BY <1>1, <1>2, <1>3 DEF Working
  <2> QED BY <1>1, <2>1 DEF IInv, LeaseInv, OwnsClaim, Record, Scope
<1> QED BY <1>5, <1>6, <1>7, <1>8 DEF IInv

(* The pruner removes terminal rows only, on which no open request depends.   *)
LEMMA PruneStep ==
  ASSUME IInv, TypeOK', NEW s \in Scopes, Prune(s)
  PROVE  IInv'
<1>1. /\ UNCHANGED <<now, input, requests, runs, pc, claim_now, token, threads>>
      /\ records[s].status \in Terminal
      /\ records' = [records EXCEPT ![s] = AbsentRecord]
  BY DEF Prune
<1>2. /\ \A d \in Calls : Scope(d) \in Scopes /\ Scope(d)' = Scope(d)
      /\ records'[s].status = "absent"
      /\ \A u \in Scopes \ {s} : records'[u] = records[u]
  BY <1>1, RowTypes DEF IInv, TypeOK, Scope, AbsentRecord
<1>3. \A d \in Calls : requests[d].status = "in_progress" \/ OwnsClaim(d) => Scope(d) # s
  BY <1>1 DEF IInv, OpenInv, OwnsClaim, Record, Terminal
<1>4. FreshInv' /\ ThreadInv' /\ ClockInv'
  BY <1>1 DEF IInv, FreshInv, ThreadInv, ClockInv
<1>5. RecordInv'
  <2>1. ASSUME NEW u \in Scopes \ {s}, records[u].status # "absent" PROVE Resolves(u)'
    <3>1. Resolves(u)
      BY <2>1 DEF IInv, RecordInv
    <3> QED BY <1>1, <1>2, <3>1 DEF Resolves
  <2>2. records'[s].owner = None
    BY <1>1 DEF IInv, TypeOK, AbsentRecord
  <2> QED BY <1>2, <2>1, <2>2 DEF IInv, RecordInv
<1>6. OpenInv'
  BY <1>1, <1>2, <1>3 DEF IInv, OpenInv, Record
<1>7. LeaseInv'
  BY <1>1, <1>2, <1>3 DEF IInv, LeaseInv, OwnsClaim, Record, Working
<1> QED BY <1>4, <1>5, <1>6, <1>7 DEF IInv

-----------------------------------------------------------------------------
(* The invariant is inductive. *)

(* No table is written and no call starts to work in any of these steps.      *)
LEMMA QuietActions ==
  ASSUME IInv, TypeOK', NEW c \in Calls,
         \/ Accept(c) \/ ReadDatabaseNow(c) \/ InsertConflicts(c) \/ StartCoordinator(c)
         \/ CoordinatorReturns(c) \/ Abandon(c) \/ AbandonedThreadEnds(c)
  PROVE  IInv'
<1>1. UNCHANGED <<now, input, records, requests, runs, token>>
  BY DEF Accept, ReadDatabaseNow, InsertConflicts, StartCoordinator, CoordinatorReturns,
     Abandon, AbandonedThreadEnds, tables
<1>2. now \in Nat /\ pc \in [Calls -> Stages] /\ claim_now \in [Calls -> Nat]
  BY DEF IInv, TypeOK
<1>3. \A d \in Calls : claim_now[d] <= now /\ (d \in threads => pc[d] \in {"executing", "abandoned"})
  BY DEF IInv, ClockInv, ThreadInv
<1>4. \A d \in Calls : claim_now'[d] <= now'
  BY <1>1, <1>2, <1>3 DEF Accept, ReadDatabaseNow, InsertConflicts, StartCoordinator,
     CoordinatorReturns, Abandon, AbandonedThreadEnds, Leave
<1>5. \A d \in Calls :
        /\ pc'[d] \in Unclaimed => pc[d] \in Unclaimed /\ (d \in threads' => d \in threads)
        /\ Working(d)' => Working(d)
        /\ d \in threads' => pc'[d] \in {"executing", "abandoned"}
  BY <1>2, <1>3 DEF Accept, ReadDatabaseNow, InsertConflicts, StartCoordinator,
     CoordinatorReturns, Abandon, AbandonedThreadEnds, Leave, Unclaimed, Working
<1> QED BY <1>1, <1>2, <1>4, <1>5, QuietStep

LEMMA IInvStep == IInv /\ [Next]_vars => IInv'
<1> SUFFICES ASSUME IInv, [Next]_vars PROVE IInv'
  OBVIOUS
<1>0. TypeOK'
  BY TypeStep DEF IInv
<1>1. ASSUME NEW c \in Calls,
             \/ Accept(c) \/ ReadDatabaseNow(c) \/ InsertConflicts(c)
             \/ StartCoordinator(c) \/ CoordinatorReturns(c) \/ Abandon(c)
             \/ AbandonedThreadEnds(c)
      PROVE  IInv'
  BY <1>0, <1>1, QuietActions
<1>2. ASSUME NEW c \in Calls,
             \/ ReclaimRejected(c) \/ RefuseVersion(c) \/ RefuseConflict(c)
             \/ RefuseInProgress(c) \/ RefusePreviousFailure(c)
             \/ RefuseInvalidState(c) \/ InitializationFails(c) \/ FinalizationFails(c)
      PROVE  IInv'
  <2>1. pc[c] \in {"accepted", "inserting", "locking", "finalizing"}
    BY <1>2 DEF ReclaimRejected, RefuseVersion, RefuseConflict, RefuseInProgress,
       RefusePreviousFailure, RefuseInvalidState, InitializationFails, FinalizationFails,
       Matching, InForce
  <2>2. \E what \in Answers : Refuse(c, what)
    BY <1>2 DEF ReclaimRejected, RefuseVersion, RefuseConflict, RefuseInProgress,
       RefusePreviousFailure, RefuseInvalidState, InitializationFails, FinalizationFails,
       Answers
  <2> QED BY <1>0, <2>1, <2>2, RefuseStep
<1>3. ASSUME NEW c \in Calls, Acquire(c) PROVE IInv'
  <2>1. /\ pc[c] \in Unclaimed /\ Record(c).status = "absent"
        /\ Granted(c, ActiveRecord(c, c, 1))
        /\ requests' = [requests EXCEPT ![c] = OpenedRequest(c)] /\ runs' = runs
    BY <1>3 DEF Acquire, OpenRequest, Unclaimed
  <2>2. /\ requests'[c].status = "in_progress" /\ requests'[c].replayed_from = None
        /\ \A d \in Calls \ {c} : requests'[d] = requests[d]
    BY <2>1 DEF IInv, TypeOK, OpenedRequest, AbsentRequest
  <2> QED BY <1>0, <2>1, <2>2, ClaimStep
<1>4. ASSUME NEW c \in Calls, Reacquire(c) PROVE IInv'
  <2>1. /\ pc[c] \in Unclaimed /\ Record(c).status \in Terminal
        /\ Granted(c, ActiveRecord(c, Record(c).id, Record(c).version + 1))
        /\ requests' = [requests EXCEPT ![c] = OpenedRequest(c)] /\ runs' = runs
    BY <1>4 DEF Reacquire, OpenRequest, Unclaimed, TerminalExpired
  <2>2. /\ requests'[c].status = "in_progress" /\ requests'[c].replayed_from = None
        /\ \A d \in Calls \ {c} : requests'[d] = requests[d]
    BY <2>1 DEF IInv, TypeOK, OpenedRequest, AbsentRequest
  <2>3. Record(c) \in RecordType
    BY RowTypes DEF IInv
  <2>4. Record(c).version + 1 \in Nat /\ Record(c).version + 1 >= 1
    BY <2>3 DEF RecordType
  <2> QED BY <1>0, <2>1, <2>2, <2>4, ClaimStep DEF Terminal
<1>5. ASSUME NEW c \in Calls, Reclaim(c) PROVE IInv'
  <2> DEFINE old == Record(c).owner
  <2>1. /\ pc[c] \in Unclaimed /\ Record(c).status = "in_progress"
        /\ ~LeaseLive(Record(c), claim_now[c])
        /\ Granted(c, ActiveRecord(c, Record(c).id, Record(c).version + 1))
        /\ requests' = [requests EXCEPT
             ![c] = OpenedRequest(c),
             ![old] = FailedRequest(@, accepted_at[c], "idempotency_lease_reclaimed")]
        /\ runs' = [runs EXCEPT ![old] = "failed"]
    BY <1>5 DEF Reclaim, Matching, InForce, Unclaimed
  <2>2. old \in Calls /\ old # c
    BY <2>1, RowTypes DEF IInv, RecordInv, Resolves, FreshInv, Record, AbsentRequest
  <2>3. requests[old] \in RequestType
    BY <2>2 DEF IInv, TypeOK
  <2>4. FailedRequest(requests[old], accepted_at[c], "idempotency_lease_reclaimed").status = "failed"
    BY <2>3 DEF FailedRequest, RequestType
  <2>5. /\ requests'[c].status = "in_progress" /\ requests'[c].replayed_from = None
        /\ requests'[old].status = "failed"
        /\ \A d \in Calls \ {c, old} : requests'[d] = requests[d]
    BY <2>1, <2>2, <2>4 DEF IInv, TypeOK, OpenedRequest, AbsentRequest
  <2>6. Record(c) \in RecordType /\ claim_now[c] \in Nat
    BY RowTypes DEF IInv, TypeOK
  <2>7. /\ Record(c).version + 1 \in Nat /\ Record(c).version + 1 >= 1
        /\ Record(c).lease_expires_at <= claim_now[c]
    BY <2>1, <2>6 DEF RecordType, LeaseLive
  <2>8. \A d \in Calls : runs[d] # "absent" => runs'[d] # "absent"
    BY <2>1 DEF IInv, TypeOK
  <2> QED BY <1>0, <2>1, <2>5, <2>7, <2>8, ClaimStep
<1>6. ASSUME NEW c \in Calls, Replay(c) PROVE IInv'
  BY <1>0, <1>6, ReplayStep
<1>7. ASSUME NEW c \in Calls, FinalizeResult(c) PROVE IInv'
  <2> DEFINE r == CompletedRequest(requests[c], completed_at[c])
  <2>1. Record(c) \in RecordType /\ requests[c] \in RequestType
    BY RowTypes DEF IInv, TypeOK
  <2>2. /\ MayFinalize(c) /\ Finalized(c, "executed", c)
        /\ records' = [records EXCEPT ![Scope(c)] = CompletedRecord(c)]
        /\ requests' = [requests EXCEPT ![c] = r]
        /\ result[c] \in {"completed", "blocked"}
        /\ runs' = [runs EXCEPT ![c] = result[c]]
    BY <1>7 DEF FinalizeResult, RunOf, IInv, TypeOK
  <2>3. runs'[c] # "absent" /\ \A d \in Calls \ {c} : runs'[d] = runs[d]
    BY <2>2 DEF IInv, TypeOK
  <2>4. /\ CompletedRecord(c).status = "completed" /\ CompletedRecord(c).run = c
        /\ CompletedRecord(c).version = Record(c).version
        /\ CompletedRecord(c).owner = Record(c).owner
    BY <2>1 DEF CompletedRecord, RecordType
  <2>5. r.status = "completed" /\ r.replayed_from = requests[c].replayed_from
    BY <2>1 DEF CompletedRequest, RequestType
  <2> QED BY <1>0, <2>2, <2>3, <2>4, <2>5, FinalizeStep DEF Terminal
<1>8. ASSUME NEW c \in Calls, FinalizeFailed(c) PROVE IInv'
  <2> DEFINE r == FailedRequest(requests[c], completed_at[c], "application_failed")
  <2>1. Record(c) \in RecordType /\ requests[c] \in RequestType
    BY RowTypes DEF IInv, TypeOK
  <2>2. /\ MayFinalize(c) /\ Finalized(c, "execution_failed", None)
        /\ records' = [records EXCEPT ![Scope(c)] = FailedRecord(c)]
        /\ requests' = [requests EXCEPT ![c] = r]
        /\ runs' = [runs EXCEPT ![c] = "failed"]
    BY <1>8 DEF FinalizeFailed, RunOf, IInv, TypeOK
  <2>3. \A d \in Calls \ {c} : runs'[d] = runs[d]
    BY <2>2 DEF IInv, TypeOK
  <2>4. /\ FailedRecord(c).status = "failed" /\ FailedRecord(c).run = None
        /\ FailedRecord(c).version = Record(c).version
        /\ FailedRecord(c).owner = Record(c).owner
    BY <2>1 DEF FailedRecord, RecordType
  <2>5. /\ r.status = "failed" /\ r.failure_code = "application_failed"
        /\ r.replayed_from = requests[c].replayed_from
    BY <2>1 DEF FailedRequest, RequestType
  <2> QED BY <1>0, <2>2, <2>3, <2>4, <2>5, FinalizeStep DEF Terminal
<1>9. ASSUME NEW s \in Scopes, Prune(s) PROVE IInv'
  BY <1>0, <1>9, PruneStep
<1>10. ASSUME Tick \/ UNCHANGED vars PROVE IInv'
  <2>1. /\ UNCHANGED <<input, records, requests, runs, token, pc, threads, claim_now>>
        /\ now' \in {now, now + 1}
    BY <1>10 DEF Tick, vars, tables
  <2>2. now \in Nat /\ claim_now \in [Calls -> Nat]
    BY DEF IInv, TypeOK
  <2>3. now' >= now /\ \A d \in Calls : claim_now'[d] <= now'
    BY <2>1, <2>2 DEF IInv, ClockInv
  <2>4. \A d \in Calls : Working(d)' => Working(d)
    BY <2>1 DEF Working
  <2> QED BY <1>0, <2>1, <2>3, <2>4, QuietStep DEF IInv, ThreadInv
<1> QED
  BY <1>1, <1>2, <1>3, <1>4, <1>5, <1>6, <1>7, <1>8, <1>9, <1>10
     DEF Next, Claim, Execute, Finalize

LEMMA IInvInvariant == Spec => []IInv
<1>1. Init => IInv
  <2> SUFFICES ASSUME Init PROVE IInv
    OBVIOUS
  <2>1. TypeOK
    BY InitType
  <2>2. FreshInv /\ RecordInv /\ OpenInv /\ ThreadInv
    BY DEF Init, FreshInv, RecordInv, OpenInv, ThreadInv, AbsentRecord, AbsentRequest
  <2>3. ClockInv /\ LeaseInv
    BY DEF Init, ClockInv, LeaseInv, Working, NoToken
  <2> QED BY <2>1, <2>2, <2>3 DEF IInv
<1> QED BY <1>1, IInvStep, PTL DEF Spec

(* A request row is in progress exactly while its call owns the active claim: *)
(* no crash, cancellation, unacknowledged commit, reclaim or prune orphans it. *)
THEOREM OpenRequestsAreOwned == Spec => []OpenRequestHoldsClaim
<1>1. IInv => OpenRequestHoldsClaim
  BY RowTypes DEF IInv, OpenInv, RecordInv, Resolves, OpenRequestHoldsClaim, Record
<1> QED BY <1>1, IInvInvariant, PTL

(* A claim always finds the owner, run or failure code its record points at,  *)
(* so the only invalid state a claim meets is a row that is gone.             *)
THEOREM ClaimsResolve == Spec => []TerminalClaimResolves
<1>1. IInv => TerminalClaimResolves
  <2> SUFFICES ASSUME IInv, NEW s \in Scopes, records[s].status # "absent"
               PROVE  /\ WellFormed(records[s])
                      /\ ~Dangling(records[s])
                      /\ records[s].status \in Terminal =>
                           requests[records[s].owner].status = records[s].status
                      /\ records[s].status = "completed" => records[s].run = records[s].owner
    BY DEF TerminalClaimResolves
  <2>1. Resolves(s)
    BY DEF IInv, RecordInv
  <2>2. records[s].status \in {"in_progress", "completed", "failed"}
    BY DEF IInv, TypeOK, RecordType, Terminal
  <2> QED BY <2>1, <2>2, ConstantsType DEF Resolves, WellFormed, Dangling, Terminal
<1> QED BY <1>1, IInvInvariant, PTL

(* Two coordinators of one scope never run under live leases: a call whose    *)
(* lease runs owns the claim, and a claim has one owner.                      *)
THEOREM LiveLeasesAreExclusive == Spec => []LiveLeaseIsExclusive
<1>1. IInv => LiveLeaseIsExclusive
  BY DEF IInv, LeaseInv, Working, LiveLeaseIsExclusive
<1> QED BY <1>1, IInvInvariant, PTL

-----------------------------------------------------------------------------
(* What no step may do. *)

\* The steps that write no table.
Quiet(c) ==
  \/ Accept(c) \/ ReadDatabaseNow(c) \/ InsertConflicts(c) \/ StartCoordinator(c)
  \/ CoordinatorReturns(c) \/ Abandon(c) \/ AbandonedThreadEnds(c)
  \/ ReclaimRejected(c) \/ RefuseVersion(c) \/ RefuseConflict(c)
  \/ RefuseInProgress(c) \/ RefusePreviousFailure(c)
  \/ RefuseInvalidState(c) \/ InitializationFails(c) \/ FinalizationFails(c)

LEMMA QuietWritesNothing ==
  ASSUME NEW c \in Calls, Quiet(c)
  PROVE  UNCHANGED <<input, records, requests, runs, audits, token>>
  BY DEF Quiet, Accept, ReadDatabaseNow, InsertConflicts, StartCoordinator,
     CoordinatorReturns, Abandon, AbandonedThreadEnds, ReclaimRejected, RefuseVersion,
     RefuseConflict, RefuseInProgress, RefusePreviousFailure, RefuseInvalidState,
     InitializationFails, FinalizationFails, Refuse, tables

(* What each step that claims a key knows and does.                           *)
LEMMA Claims ==
  ASSUME IInv, NEW c \in Calls, Acquire(c) \/ Reacquire(c) \/ Reclaim(c)
  PROVE  /\ requests[c] = AbsentRequest
         /\ \A s \in Scopes : records[s].status # "absent" => records[s].owner # c
         /\ \A d \in Calls \ {c} : token'[d] = token[d]
         /\ \A s \in Scopes \ {Scope(c)} : records'[s] = records[s]
         /\ Record(c).status # "absent" =>
              /\ records'[Scope(c)] = ActiveRecord(c, Record(c).id, Record(c).version + 1)
              /\ \/ Record(c).status \in Terminal
                 \/ claim_now[c] >= Record(c).lease_expires_at
<1>1. pc[c] \in Unclaimed
  BY DEF Acquire, Reacquire, Reclaim, Matching, InForce, Unclaimed
<1>2. requests[c] = AbsentRequest
  BY <1>1 DEF IInv, FreshInv
<1>3. \A s \in Scopes : records[s].status # "absent" => records[s].owner # c
  BY <1>2 DEF IInv, RecordInv, Resolves, AbsentRequest
<1>4. /\ \A d \in Calls \ {c} : token'[d] = token[d]
      /\ \A s \in Scopes \ {Scope(c)} : records'[s] = records[s]
  BY DEF IInv, TypeOK, Acquire, Reacquire, Reclaim, Granted
<1>5. ASSUME Record(c).status # "absent"
      PROVE  records'[Scope(c)] = ActiveRecord(c, Record(c).id, Record(c).version + 1)
  BY <1>5, RowTypes DEF IInv, TypeOK, Acquire, Reacquire, Reclaim, Granted
<1>6. ASSUME Record(c).status # "absent"
      PROVE  \/ Record(c).status \in Terminal
             \/ claim_now[c] >= Record(c).lease_expires_at
  <2>1. Record(c) \in RecordType /\ claim_now[c] \in Nat
    BY RowTypes DEF IInv, TypeOK
  <2> QED BY <1>6, <2>1 DEF Acquire, Reacquire, Reclaim, TerminalExpired, LeaseLive, RecordType
<1> QED BY <1>2, <1>3, <1>4, <1>5, <1>6

(* The generations of a claim, for every lease, TTL and number of calls: the  *)
(* version rises by one with each new owner and never otherwise, and a new    *)
(* owner's claim time is at or after the end of the lease it took over.       *)
THEOREM GenerationsOnlyAdvance == Spec => GenerationsAdvance
<1> DEFINE Advance(s) ==
      LET old == records[s]  new == records'[s] IN
      old.status # "absent" /\ new.status # "absent" =>
        /\ new.id = old.id
        /\ new.owner = old.owner => new.version = old.version
        /\ new.owner # old.owner =>
             /\ new.version = old.version + 1
             /\ new.claimed_at >= old.lease_expires_at \/ old.status \in Terminal
             /\ new.status = "in_progress"
             /\ \A c \in Calls \ {new.owner} : token'[c] = token[c]
<1>1. ASSUME IInv, [Next]_vars, NEW s \in Scopes PROVE Advance(s)
  <2>1. ASSUME NEW c \in Calls, Acquire(c) \/ Reacquire(c) \/ Reclaim(c) PROVE Advance(s)
    <3>1. CASE s # Scope(c)
      BY <1>1, <2>1, <3>1, Claims
    <3>2. CASE s = Scope(c) /\ records[s].status # "absent"
      <4>1. /\ records'[s] = ActiveRecord(c, records[s].id, records[s].version + 1)
            /\ records[s].status \in Terminal \/ claim_now[c] >= records[s].lease_expires_at
            /\ records[s].owner # c
            /\ \A d \in Calls \ {c} : token'[d] = token[d]
        BY <1>1, <2>1, <3>2, Claims DEF Record
      <4> QED BY <4>1 DEF ActiveRecord
    <3> QED BY <3>1, <3>2
  <2>2. ASSUME NEW c \in Calls, FinalizeResult(c) \/ FinalizeFailed(c) PROVE Advance(s)
    <3>1. Record(c) \in RecordType /\ Scope(c) \in Scopes
      BY <1>1, RowTypes DEF IInv
    <3>2. \/ records' = [records EXCEPT ![Scope(c)] = CompletedRecord(c)]
          \/ records' = [records EXCEPT ![Scope(c)] = FailedRecord(c)]
      BY <2>2 DEF FinalizeResult, FinalizeFailed
    <3>3. CASE s # Scope(c)
      BY <1>1, <3>2, <3>3 DEF IInv, TypeOK
    <3>4. CASE s = Scope(c)
      <4>1. records'[s] \in {CompletedRecord(c), FailedRecord(c)} /\ records[s] = Record(c)
        BY <1>1, <3>1, <3>2, <3>4 DEF IInv, TypeOK, Record
      <4>2. \A rec \in {CompletedRecord(c), FailedRecord(c)} :
              rec.id = Record(c).id /\ rec.owner = Record(c).owner /\ rec.version = Record(c).version
        BY <3>1 DEF CompletedRecord, FailedRecord, RecordType
      <4> QED BY <4>1, <4>2
    <3> QED BY <3>3, <3>4
  <2>3. ASSUME NEW u \in Scopes, Prune(u) PROVE Advance(s)
    BY <1>1, <2>3 DEF Prune, AbsentRecord, IInv, TypeOK
  <2>4. CASE UNCHANGED <<records, token>>
    BY <2>4
  <2>5. ASSUME NEW c \in Calls, Quiet(c) \/ Replay(c) PROVE UNCHANGED <<records, token>>
    BY <2>5, QuietWritesNothing DEF Replay
  <2>6. Tick \/ UNCHANGED vars => UNCHANGED <<records, token>>
    BY DEF Tick, vars, tables
  <2> QED
    BY <1>1, <2>1, <2>2, <2>3, <2>4, <2>5, <2>6 DEF Next, Claim, Execute, Finalize, Quiet
<1>2. IInv /\ [Next]_vars => [\A s \in Scopes : Advance(s)]_vars
  BY <1>1
<1> QED BY <1>2, IInvInvariant, PTL DEF Spec, GenerationsAdvance

\* What a step leaves of the history of a call.
Final(c) ==
  /\ audits[c] \subseteq audits'[c]
  /\ requests[c].status \in Terminal =>
       /\ requests'[c] = requests[c] /\ runs'[c] = runs[c] /\ audits'[c] = audits[c]

LEMMA FinalStep ==
  ASSUME IInv, [Next]_vars
  PROVE  \A c \in Calls : Final(c)
<1> SUFFICES ASSUME NEW d \in Calls PROVE Final(d)
  OBVIOUS
<1> USE DEF Final
<1>0. /\ requests \in [Calls -> RequestType] /\ runs \in [Calls -> RunStatuses]
      /\ audits \in [Calls -> SUBSET AuditEvents]
  BY DEF IInv, TypeOK
<1>1. ASSUME NEW c \in Calls, Acquire(c) \/ Reacquire(c) PROVE Final(d)
  <2>1. requests[c].status \notin Terminal
    BY <1>1, Claims DEF AbsentRequest, Terminal
  <2> QED BY <1>0, <1>1, <2>1 DEF Acquire, Reacquire, OpenRequest
<1>2. ASSUME NEW c \in Calls, Reclaim(c) PROVE Final(d)
  <2>1. requests[c].status \notin Terminal
    BY <1>2, Claims DEF AbsentRequest, Terminal
  <2>2. requests[Record(c).owner].status \notin Terminal
    BY <1>2, RowTypes DEF IInv, RecordInv, Resolves, Reclaim, Record, Terminal
  <2> QED BY <1>0, <1>2, <2>1, <2>2 DEF Reclaim
<1>3. ASSUME NEW c \in Calls, Replay(c) PROVE Final(d)
  <2>1. requests[c].status \notin Terminal
    BY <1>3 DEF IInv, FreshInv, Replay, Matching, InForce, Unclaimed, AbsentRequest, Terminal
  <2> QED BY <1>0, <1>3, <2>1 DEF Replay
<1>4. ASSUME NEW c \in Calls, FinalizeResult(c) \/ FinalizeFailed(c) PROVE Final(d)
  <2>1. requests[c].status \notin Terminal
    BY <1>4 DEF FinalizeResult, FinalizeFailed, MayFinalize, Terminal
  <2> QED BY <1>0, <1>4, <2>1 DEF FinalizeResult, FinalizeFailed
<1>5. CASE UNCHANGED <<requests, runs, audits>>
  BY <1>5
<1>6. ASSUME NEW c \in Calls, Quiet(c) PROVE UNCHANGED <<requests, runs, audits>>
  BY <1>6, QuietWritesNothing
<1>7. ASSUME NEW u \in Scopes, Prune(u) PROVE UNCHANGED <<requests, runs, audits>>
  BY <1>7 DEF Prune
<1>8. Tick \/ UNCHANGED vars => UNCHANGED <<requests, runs, audits>>
  BY DEF Tick, vars, tables
<1> QED
  BY <1>1, <1>2, <1>3, <1>4, <1>5, <1>6, <1>7, <1>8
     DEF Next, Claim, Execute, Finalize, Quiet

(* A terminal request, its run and its audit trail are never changed again.   *)
THEOREM HistoryStaysFinal == Spec => HistoryIsFinal
<1>1. IInv /\ [Next]_vars => [\A c \in Calls : Final(c)]_vars
  BY FinalStep
<1> QED BY <1>1, IInvInvariant, PTL DEF Spec, HistoryIsFinal, Final

-----------------------------------------------------------------------------
(* The tables implement the ledger. *)

LEMMA LedgerStutters ==
  ASSUME UNCHANGED <<input, records, requests>>
  PROVE  UNCHANGED Ledger!vars
  BY DEF Ledger!vars, Scope, LedgerState

(* Claiming, by any of the three ways, opens an entry.                        *)
LEMMA ClaimOpens ==
  ASSUME IInv, NEW c \in Calls, Acquire(c) \/ Reacquire(c) \/ Reclaim(c)
  PROVE  Ledger!Open(c)
<1>0. requests \in [Calls -> RequestType] /\ Scope(c) \in Scopes
  BY RowTypes DEF IInv, TypeOK
<1>1. requests[c] = AbsentRequest
  BY Claims
<1>2. Record(c).owner # c
  BY <1>0, <1>1, ConstantsType DEF IInv, RecordInv, Resolves, Record, AbsentRequest
<1>3. /\ input' = input
      /\ [s \in Scopes |-> records[s].owner]'
           = [[s \in Scopes |-> records[s].owner] EXCEPT ![Scope(c)] = c]
  <2>1. PICK id, v :
          input' = input /\ records' = [records EXCEPT ![Scope(c)] = ActiveRecord(c, id, v)]
    BY DEF Acquire, Reacquire, Reclaim, Granted
  <2> QED BY <2>1 DEF IInv, TypeOK, ActiveRecord
<1>4. /\ LedgerState(c)' = "open" /\ requests'[c].replayed_from = None
      /\ \A d \in Calls \ {c} :
           /\ requests'[d].replayed_from = requests[d].replayed_from
           /\ LedgerState(d)' = IF d = Record(c).owner /\ LedgerState(d) = "open"
                                THEN "failed" ELSE LedgerState(d)
  <2>1. CASE Acquire(c) \/ Reacquire(c)
    <3>1. requests' = [requests EXCEPT ![c] = OpenedRequest(c)]
      BY <2>1 DEF Acquire, Reacquire, OpenRequest
    <3>2. \A d \in Calls : ~(d = Record(c).owner /\ LedgerState(d) = "open")
      BY <1>0, <2>1, ConstantsType
         DEF IInv, RecordInv, Resolves, Record, Acquire, Reacquire, TerminalExpired, Terminal,
             LedgerState
    <3> QED BY <1>0, <3>1, <3>2 DEF LedgerState, OpenedRequest, AbsentRequest
  <2>2. CASE Reclaim(c)
    <3> DEFINE old == Record(c).owner
    <3>1. /\ requests' = [requests EXCEPT
               ![c] = OpenedRequest(c),
               ![old] = FailedRequest(@, accepted_at[c], "idempotency_lease_reclaimed")]
          /\ Record(c).status = "in_progress"
      BY <2>2 DEF Reclaim
    <3>2. Resolves(Scope(c))
      BY <1>0, <3>1 DEF IInv, RecordInv, Record
    <3>3. /\ old \in Calls /\ requests[old] \in RequestType
          /\ requests[old].status = "in_progress" /\ requests[old].replayed_from = None
      BY <1>0, <3>1, <3>2 DEF Resolves, Record
    <3>4. /\ requests'[c] = OpenedRequest(c)
          /\ requests'[old] =
               FailedRequest(requests[old], accepted_at[c], "idempotency_lease_reclaimed")
          /\ \A d \in Calls \ {c, old} : requests'[d] = requests[d]
      BY <1>0, <1>2, <3>1, <3>3
    <3>5. requests'[old].status = "failed" /\ requests'[old].replayed_from = None
      BY <3>3, <3>4 DEF FailedRequest, RequestType
    <3> QED BY <3>3, <3>4, <3>5 DEF LedgerState, OpenedRequest, AbsentRequest
  <2> QED BY <2>1, <2>2
<1>5. LedgerState(c) = "absent" /\ requests[c].replayed_from = None
  BY <1>1 DEF LedgerState, AbsentRequest
<1> QED BY <1>0, <1>3, <1>4, <1>5 DEF Ledger!Open, Record, Scope

(* Finalizing, with a result or with a failure, closes the holder's entry.    *)
LEMMA FinalizeCloses ==
  ASSUME IInv, NEW c \in Calls, FinalizeResult(c) \/ FinalizeFailed(c)
  PROVE  Ledger!Close(c)
<1>0. /\ requests[c] \in RequestType /\ Record(c) \in RecordType
      /\ \A d \in Calls : Scope(d) \in Scopes
  BY RowTypes DEF IInv, TypeOK
<1>1. /\ Record(c).owner = c /\ requests[c].status = "in_progress" /\ input' = input
      /\ \/ /\ requests' = [requests EXCEPT ![c] = CompletedRequest(@, completed_at[c])]
            /\ records' = [records EXCEPT ![Scope(c)] = CompletedRecord(c)]
         \/ /\ requests' = [requests EXCEPT
                  ![c] = FailedRequest(@, completed_at[c], "application_failed")]
            /\ records' = [records EXCEPT ![Scope(c)] = FailedRecord(c)]
  BY DEF FinalizeResult, FinalizeFailed, MayFinalize, OwnsClaim, Finalized
<1>2. requests[c].replayed_from = None
  BY <1>0, <1>1 DEF IInv, OpenInv, RecordInv, Resolves, Record
<1>3. /\ requests'[c].status \in {"completed", "failed"} /\ requests'[c].replayed_from = None
      /\ \A d \in Calls \ {c} : requests'[d] = requests[d]
  <2> DEFINE Closed(r) == r.status \in {"completed", "failed"} /\ r.replayed_from = None
  <2>1. /\ Closed(CompletedRequest(requests[c], completed_at[c]))
        /\ Closed(FailedRequest(requests[c], completed_at[c], "application_failed"))
    BY <1>0, <1>2 DEF RequestType, CompletedRequest, FailedRequest
  <2>2. /\ requests'[c] \in {CompletedRequest(requests[c], completed_at[c]),
                             FailedRequest(requests[c], completed_at[c], "application_failed")}
        /\ \A d \in Calls \ {c} : requests'[d] = requests[d]
    BY <1>1 DEF IInv, TypeOK
  <2> QED BY <2>1, <2>2
<1>4. \A s \in Scopes : records'[s].owner = records[s].owner
  <2>1. \A rec \in {CompletedRecord(c), FailedRecord(c)} : rec.owner = Record(c).owner
    BY <1>0 DEF CompletedRecord, FailedRecord, RecordType
  <2>2. /\ records'[Scope(c)] \in {CompletedRecord(c), FailedRecord(c)}
        /\ \A s \in Scopes \ {Scope(c)} : records'[s] = records[s]
    BY <1>0, <1>1 DEF IInv, TypeOK
  <2> QED BY <2>1, <2>2 DEF Record
<1>5. LedgerState(c) = "open" /\ LedgerState(c)' \in {"completed", "failed"}
  BY <1>1, <1>2, <1>3 DEF LedgerState
<1>6. \A d \in Calls \ {c} : LedgerState(d)' = LedgerState(d)
  BY <1>3 DEF LedgerState
<1>7. [d \in Calls |-> LedgerState(d)]'
        \in {[[d \in Calls |-> LedgerState(d)] EXCEPT ![c] = "completed"],
             [[d \in Calls |-> LedgerState(d)] EXCEPT ![c] = "failed"]}
  BY <1>5, <1>6
<1>8. UNCHANGED <<[d \in Calls |-> Scope(d)], [s \in Scopes |-> records[s].owner],
                  [d \in Calls |-> requests[d].replayed_from]>>
  BY <1>1, <1>2, <1>3, <1>4 DEF Scope
<1> QED BY <1>0, <1>1, <1>5, <1>7, <1>8 DEF Ledger!Close, Record

(* A replay copies the entry of the completed holder.                         *)
LEMMA ReplayCopies ==
  ASSUME IInv, NEW c \in Calls, Replay(c)
  PROVE  Ledger!Replay(c)
<1>1. /\ requests' = [requests EXCEPT ![c] = ReplayRequest(c, Record(c).run)]
      /\ UNCHANGED <<input, records>> /\ Record(c).status = "completed" /\ pc[c] = "locking"
  BY DEF Replay, Matching, InForce
<1>2. /\ requests[c] = AbsentRequest /\ requests \in [Calls -> RequestType]
      /\ Scope(c) \in Scopes
  BY <1>1, RowTypes DEF IInv, TypeOK, FreshInv, Unclaimed
<1>3. Resolves(Scope(c))
  BY <1>1, <1>2 DEF IInv, RecordInv, Record
<1>4. /\ Record(c).run = Record(c).owner /\ Record(c).owner \in Calls
      /\ LedgerState(Record(c).owner) = "completed"
  BY <1>1, <1>3 DEF Resolves, Record, LedgerState
<1>5. /\ requests'[c].status = "completed" /\ requests'[c].replayed_from = Record(c).owner
      /\ \A d \in Calls \ {c} : requests'[d] = requests[d]
  BY <1>1, <1>2, <1>4 DEF ReplayRequest, AbsentRequest
<1>6. LedgerState(c) = "absent" /\ LedgerState(c)' = "replayed"
  BY <1>2, <1>4, <1>5, ConstantsType DEF LedgerState, AbsentRequest
<1>7. \A d \in Calls \ {c} : LedgerState(d)' = LedgerState(d)
  BY <1>5 DEF LedgerState
<1> QED BY <1>1, <1>2, <1>4, <1>5, <1>6, <1>7, ConstantsType
        DEF Ledger!Replay, Ledger!Held, Record, Scope

(* Pruning forgets the holder of a closed entry.                              *)
LEMMA PruneForgets ==
  ASSUME IInv, NEW s \in Scopes, Prune(s)
  PROVE  Ledger!Forget(s)
<1>1. /\ records[s].status \in Terminal /\ UNCHANGED <<input, requests>>
      /\ records' = [records EXCEPT ![s] = AbsentRecord]
  BY DEF Prune
<1>2. Resolves(s)
  BY <1>1 DEF IInv, RecordInv, Terminal
<1>3. records[s].owner \in Calls /\ LedgerState(records[s].owner) \in {"completed", "failed"}
  BY <1>1, <1>2 DEF Resolves, LedgerState, Terminal
<1>4. [u \in Scopes |-> records[u].owner]'
        = [[u \in Scopes |-> records[u].owner] EXCEPT ![s] = None]
  BY <1>1 DEF IInv, TypeOK, AbsentRecord
<1>5. UNCHANGED <<[d \in Calls |-> Scope(d)], [d \in Calls |-> LedgerState(d)],
                  [d \in Calls |-> requests[d].replayed_from]>>
  BY <1>1 DEF Scope, LedgerState
<1> QED BY <1>3, <1>4, <1>5, ConstantsType DEF Ledger!Forget, Ledger!Held

(* The tables, under leases, fencing, ambiguous commits and pruning, behave   *)
(* as the ledger: one holder per scope, closed once, by itself or by the call *)
(* that takes over, and replays copied from completed holders only.           *)
THEOREM LedgerRefined == Spec => ImplementsLedger
<1>1. Init => Ledger!Init
  <2> SUFFICES ASSUME Init PROVE Ledger!Init
    OBVIOUS
  <2>1. \A c \in Calls : Scope(c) \in Scopes
    BY RowTypes, InitType
  <2> QED BY <2>1 DEF Init, Ledger!Init, LedgerState, AbsentRecord, AbsentRequest
<1>2. IInv /\ [Next]_vars => [Ledger!Next]_(Ledger!vars)
  <2> SUFFICES ASSUME IInv, [Next]_vars PROVE [Ledger!Next]_(Ledger!vars)
    OBVIOUS
  <2>1. ASSUME NEW c \in Calls, Acquire(c) \/ Reacquire(c) \/ Reclaim(c) PROVE Ledger!Next
    BY <2>1, ClaimOpens DEF Ledger!Next
  <2>2. ASSUME NEW c \in Calls, FinalizeResult(c) \/ FinalizeFailed(c) PROVE Ledger!Next
    BY <2>2, FinalizeCloses DEF Ledger!Next
  <2>3. ASSUME NEW c \in Calls, Replay(c) PROVE Ledger!Next
    BY <2>3, ReplayCopies DEF Ledger!Next
  <2>4. ASSUME NEW s \in Scopes, Prune(s) PROVE Ledger!Next
    BY <2>4, PruneForgets DEF Ledger!Next
  <2>5. ASSUME NEW c \in Calls, Quiet(c) PROVE UNCHANGED Ledger!vars
    BY <2>5, QuietWritesNothing, LedgerStutters
  <2>6. ASSUME Tick \/ UNCHANGED vars PROVE UNCHANGED Ledger!vars
    BY <2>6, LedgerStutters DEF Tick, vars, tables
  <2> QED
    BY <2>1, <2>2, <2>3, <2>4, <2>5, <2>6 DEF Next, Claim, Execute, Finalize, Quiet
<1> QED BY <1>1, <1>2, IInvInvariant, PTL DEF Spec, ImplementsLedger, Ledger!Spec

-----------------------------------------------------------------------------
(* The inductive invariant behind the tables and the answers. *)

\* The rows of one call, from before it claims to the end of its story.
Unwritten(c) == requests[c] = AbsentRequest /\ runs[c] = "absent" /\ audits[c] = {}

IsOriginal(c, status) == requests[c].status = status /\ requests[c].replayed_from = None

Opened(c) ==
  /\ IsOriginal(c, "in_progress")
  /\ runs[c] = "absent" /\ audits[c] = {"request_accepted"}

Executed(c) ==
  /\ IsOriginal(c, "completed")
  /\ \/ runs[c] = "completed" /\ audits[c] = {"request_accepted", "request_completed"}
     \/ runs[c] = "blocked" /\ audits[c] = {"request_accepted", "policy_blocked"}

Failed(c) ==
  /\ IsOriginal(c, "failed")
  /\ runs[c] = "failed" /\ audits[c] = {"request_accepted", "request_failed"}

Replayed(c) ==
  LET original == requests[c].replayed_from IN
  /\ requests[c].status = "completed"
  /\ original \in Calls
  /\ runs[c] = "absent" /\ audits[c] = {"request_completed"}
  /\ IsOriginal(original, "completed")
  /\ Scope(original) = Scope(c)
  /\ input[original].fingerprint = input[c].fingerprint

RowState(c) == Unwritten(c) \/ Opened(c) \/ Executed(c) \/ Failed(c) \/ Replayed(c)

RowsInv == \A c \in Calls : RowState(c)

\* A record was written for its owner, whose token is the generation in the row.
OwnerState(s) ==
  LET rec == records[s] IN
  rec.status # "absent" =>
    /\ rec.fingerprint = input[rec.owner].fingerprint
    /\ token[rec.owner].version = rec.version
    /\ token[rec.owner].lease_expires_at = rec.lease_expires_at
    /\ rec.status \in Terminal => rec.expires_at > 0

OwnerInv == \A s \in Scopes : OwnerState(s)

\* A call is told something once, in the step in which it leaves, and what it is
\* told is in its rows by then.
AnswerState(c) ==
  /\ pc[c] # "answered" => answer[c] = "none"
  /\ answer[c] = "executed" => IsOriginal(c, "completed") /\ served[c] = c
  /\ answer[c] = "replayed" =>
       /\ requests[c].status = "completed"
       /\ served[c] \in Calls /\ requests[c].replayed_from = served[c]
  /\ answer[c] = "execution_failed" =>
       requests[c].status = "failed" /\ requests[c].failure_code = "application_failed"
  /\ answer[c] \notin {"executed", "replayed"} => served[c] = None
  /\ IsOriginal(c, "completed") => answer[c] \in {"executed", "finalization_failed"}

AnswerInv == \A c \in Calls : AnswerState(c)

\* The replay window of a completed execution is the one in its record, or over.
InWindow(c) == IsOriginal(c, "completed") /\ replay_until[c] > now

WindowInv ==
  \A c \in Calls :
    InWindow(c) =>
      /\ Record(c).status = "completed" /\ Record(c).owner = c
      /\ Record(c).expires_at = replay_until[c]

StoryInv == IInv /\ RowsInv /\ OwnerInv /\ AnswerInv /\ WindowInv

(* No step changes what a call asks for.                                      *)
LEMMA InputIsFixed == [Next]_vars => input' = input
<1> SUFFICES ASSUME [Next]_vars PROVE input' = input
  OBVIOUS
<1>1. ASSUME NEW c \in Calls, Quiet(c) PROVE input' = input
  BY <1>1, QuietWritesNothing
<1>2. ASSUME NEW c \in Calls, Acquire(c) \/ Reacquire(c) \/ Reclaim(c) PROVE input' = input
  BY <1>2 DEF Acquire, Reacquire, Reclaim, Granted
<1>3. ASSUME NEW c \in Calls, Replay(c) \/ FinalizeResult(c) \/ FinalizeFailed(c)
      PROVE input' = input
  BY <1>3 DEF Replay, FinalizeResult, FinalizeFailed, Finalized
<1>4. ASSUME (\E s \in Scopes : Prune(s)) \/ Tick \/ UNCHANGED vars PROVE input' = input
  BY <1>4 DEF Prune, Tick, vars
<1> QED BY <1>1, <1>2, <1>3, <1>4 DEF Next, Claim, Execute, Finalize, Quiet

(* A call whose rows a step leaves alone keeps its state, lineage included,   *)
(* because the original of a replay is history.                               *)
LEMMA RowsKept ==
  ASSUME IInv, [Next]_vars, NEW d \in Calls, RowState(d),
         requests'[d] = requests[d], runs'[d] = runs[d], audits'[d] = audits[d]
  PROVE  RowState(d)'
<1>1. input' = input
  BY InputIsFixed
<1>2. ASSUME Replayed(d) PROVE Replayed(d)'
  <2> DEFINE original == requests[d].replayed_from
  <2>1. original \in Calls /\ IsOriginal(original, "completed")
    BY <1>2 DEF Replayed
  <2>2. requests'[original] = requests[original]
    BY <2>1, FinalStep DEF Final, IsOriginal, Terminal
  <2> QED BY <1>1, <1>2, <2>2 DEF Replayed, IsOriginal, Scope
<1> QED BY <1>2 DEF RowState, Unwritten, Opened, Executed, Failed, IsOriginal

(* Claiming opens the rows of the call, and closes those of a lapsed owner.   *)
LEMMA ClaimRows ==
  ASSUME IInv, RowsInv, [Next]_vars,
         NEW c \in Calls, Acquire(c) \/ Reacquire(c) \/ Reclaim(c)
  PROVE  RowsInv'
<1>0. /\ requests \in [Calls -> RequestType] /\ runs \in [Calls -> RunStatuses]
      /\ audits \in [Calls -> SUBSET AuditEvents] /\ Scope(c) \in Scopes
  BY RowTypes DEF IInv, TypeOK
<1>1. Unwritten(c)
  BY Claims, ConstantsType
     DEF RowsInv, RowState, AbsentRequest, Opened, Executed, Failed, Replayed, IsOriginal
<1>2. CASE Acquire(c) \/ Reacquire(c)
  <2>1. /\ requests' = [requests EXCEPT ![c] = OpenedRequest(c)] /\ runs' = runs
        /\ audits' = [audits EXCEPT ![c] = @ \cup {"request_accepted"}]
    BY <1>2 DEF Acquire, Reacquire, OpenRequest
  <2>2. Opened(c)'
    BY <1>0, <1>1, <2>1 DEF Unwritten, Opened, IsOriginal, OpenedRequest, AbsentRequest
  <2>3. ASSUME NEW d \in Calls \ {c} PROVE RowState(d)'
    BY <1>0, <2>1, RowsKept DEF RowsInv, RowState
  <2> QED BY <2>2, <2>3 DEF RowsInv, RowState
<1>3. CASE Reclaim(c)
  <2>1. /\ Record(c).status = "in_progress"
        /\ requests' = [requests EXCEPT ![c] = OpenedRequest(c),
             ![Record(c).owner] =
               FailedRequest(@, accepted_at[c], "idempotency_lease_reclaimed")]
        /\ runs' = [runs EXCEPT ![Record(c).owner] = "failed"]
        /\ audits' = [audits EXCEPT ![c] = @ \cup {"request_accepted"},
                                    ![Record(c).owner] = @ \cup {"request_failed"}]
    BY <1>3 DEF Reclaim
  <2>2. PICK old \in Calls \ {c} : old = Record(c).owner /\ IsOriginal(old, "in_progress")
    BY <1>0, <1>1, <2>1 DEF IInv, RecordInv, Resolves, Record, IsOriginal, Unwritten, AbsentRequest
  <2>3. Opened(old)
    BY <2>2, ConstantsType
       DEF RowsInv, RowState, Unwritten, AbsentRequest, Executed, Failed, Replayed, IsOriginal
  <2>4. Opened(c)'
    <3>1. /\ requests'[c] = OpenedRequest(c) /\ runs'[c] = runs[c]
          /\ audits'[c] = audits[c] \cup {"request_accepted"}
      BY <1>0, <2>1, <2>2
    <3> QED BY <1>1, <3>1 DEF Unwritten, Opened, IsOriginal, OpenedRequest, AbsentRequest
  <2>5. Failed(old)'
    <3> DEFINE closed ==
          FailedRequest(requests[old], accepted_at[c], "idempotency_lease_reclaimed")
    <3>1. /\ requests'[old] = closed /\ runs'[old] = "failed"
          /\ audits'[old] = audits[old] \cup {"request_failed"}
      BY <1>0, <2>1, <2>2
    <3>2. closed.status = "failed" /\ closed.replayed_from = None
      BY <1>0, <2>2 DEF FailedRequest, RequestType, IsOriginal
    <3> QED BY <2>3, <3>1, <3>2 DEF Opened, Failed, IsOriginal
  <2>6. ASSUME NEW d \in Calls \ {c, old} PROVE RowState(d)'
    BY <1>0, <2>1, <2>2, RowsKept DEF RowsInv, RowState
  <2> QED BY <2>4, <2>5, <2>6 DEF RowsInv, RowState
<1> QED BY <1>2, <1>3

(* Finalizing ends the rows of the owner, with a result or with a failure.    *)
LEMMA FinalizeRows ==
  ASSUME IInv, RowsInv, [Next]_vars, NEW c \in Calls, FinalizeResult(c) \/ FinalizeFailed(c)
  PROVE  RowsInv' /\ IsOriginal(c, "in_progress")
<1>0. /\ requests \in [Calls -> RequestType] /\ runs \in [Calls -> RunStatuses]
      /\ audits \in [Calls -> SUBSET AuditEvents] /\ requests[c].status = "in_progress"
  BY DEF IInv, TypeOK, FinalizeResult, FinalizeFailed, MayFinalize
<1>1. Opened(c)
  BY <1>0 DEF RowsInv, RowState, Unwritten, AbsentRequest, Executed, Failed, Replayed, IsOriginal
<1>2. Executed(c)' \/ Failed(c)'
  <2>1. CASE FinalizeResult(c)
    <3>1. /\ requests'[c] = CompletedRequest(requests[c], completed_at[c])
          /\ result[c] \in {"completed", "blocked"} /\ runs'[c] = result[c]
          /\ audits'[c] = audits[c] \cup {AuditOf(result[c])}
      BY <1>0, <2>1 DEF FinalizeResult, RunOf
    <3>2. IsOriginal(c, "completed")'
      BY <1>0, <1>1, <3>1 DEF CompletedRequest, RequestType, Opened, IsOriginal
    <3>3. \/ result[c] = "completed" /\ AuditOf(result[c]) = "request_completed"
          \/ result[c] = "blocked" /\ AuditOf(result[c]) = "policy_blocked"
      BY <3>1 DEF AuditOf
    <3> QED BY <1>1, <3>1, <3>2, <3>3 DEF Opened, Executed
  <2>2. CASE FinalizeFailed(c)
    <3>1. /\ requests'[c] = FailedRequest(requests[c], completed_at[c], "application_failed")
          /\ runs'[c] = "failed" /\ audits'[c] = audits[c] \cup {"request_failed"}
      BY <1>0, <2>2 DEF FinalizeFailed, RunOf, AuditOf
    <3>2. IsOriginal(c, "failed")'
      BY <1>0, <1>1, <3>1 DEF FailedRequest, RequestType, Opened, IsOriginal
    <3> QED BY <1>1, <3>1, <3>2 DEF Opened, Failed
  <2> QED BY <2>1, <2>2
<1>3. ASSUME NEW d \in Calls \ {c} PROVE RowState(d)'
  BY <1>0, RowsKept DEF RowsInv, RowState, FinalizeResult, FinalizeFailed
<1> QED BY <1>1, <1>2, <1>3 DEF RowsInv, RowState, Opened

(* A replay descends from the completed owner of a record for the same scope  *)
(* and fingerprint.                                                           *)
LEMMA ReplayRows ==
  ASSUME IInv, RowsInv, OwnerInv, [Next]_vars, NEW c \in Calls, Replay(c)
  PROVE  /\ RowsInv'
         /\ Record(c).run \in Calls \ {c} /\ requests'[c].replayed_from = Record(c).run
         /\ requests'[c].status = "completed"
<1> DEFINE original == Record(c).run
<1>0. /\ requests \in [Calls -> RequestType] /\ audits \in [Calls -> SUBSET AuditEvents]
      /\ Scope(c) \in Scopes
  BY RowTypes DEF IInv, TypeOK
<1>1. /\ pc[c] = "locking" /\ Record(c).status = "completed"
      /\ Record(c).fingerprint = input[c].fingerprint
      /\ requests' = [requests EXCEPT ![c] = ReplayRequest(c, original)]
      /\ runs' = runs /\ input' = input
      /\ audits' = [audits EXCEPT ![c] = @ \cup {"request_completed"}]
  BY DEF Replay, Matching, InForce, SameFingerprint
<1>2. Unwritten(c)
  BY <1>1, ConstantsType
     DEF IInv, FreshInv, Unclaimed, RowsInv, RowState, AbsentRequest, Opened, Executed, Failed,
         Replayed, IsOriginal
<1>3. /\ original \in Calls /\ IsOriginal(original, "completed") /\ Scope(original) = Scope(c)
      /\ input[original].fingerprint = input[c].fingerprint
  BY <1>0, <1>1 DEF IInv, RecordInv, Resolves, OwnerInv, OwnerState, Record, IsOriginal
<1>4. original # c
  BY <1>2, <1>3 DEF Unwritten, AbsentRequest, IsOriginal
<1>5. PICK o \in Calls \ {c} : o = original
  BY <1>3, <1>4
<1>6. /\ requests'[c].status = "completed" /\ requests'[c].replayed_from = o
      /\ audits'[c] = audits[c] \cup {"request_completed"}
      /\ requests'[o] = requests[o]
  BY <1>0, <1>1, <1>5 DEF ReplayRequest, AbsentRequest
<1>7. Replayed(c)'
  BY <1>1, <1>2, <1>3, <1>5, <1>6 DEF Unwritten, Replayed, IsOriginal, Scope
<1>8. ASSUME NEW d \in Calls \ {c} PROVE RowState(d)'
  BY <1>0, <1>1, RowsKept DEF RowsInv, RowState
<1> QED BY <1>3, <1>4, <1>5, <1>6, <1>7, <1>8 DEF RowsInv, RowState

LEMMA RowsStep == IInv /\ RowsInv /\ OwnerInv /\ [Next]_vars => RowsInv'
<1> SUFFICES ASSUME IInv, RowsInv, OwnerInv, [Next]_vars PROVE RowsInv'
  OBVIOUS
<1>1. ASSUME NEW c \in Calls, Acquire(c) \/ Reacquire(c) \/ Reclaim(c) PROVE RowsInv'
  BY <1>1, ClaimRows
<1>2. ASSUME NEW c \in Calls, FinalizeResult(c) \/ FinalizeFailed(c) PROVE RowsInv'
  BY <1>2, FinalizeRows
<1>3. ASSUME NEW c \in Calls, Replay(c) PROVE RowsInv'
  BY <1>3, ReplayRows
<1>4. CASE UNCHANGED <<requests, runs, audits>>
  BY <1>4, RowsKept DEF RowsInv, RowState
<1>5. ASSUME NEW c \in Calls, Quiet(c) PROVE UNCHANGED <<requests, runs, audits>>
  BY <1>5, QuietWritesNothing
<1>6. ASSUME (\E s \in Scopes : Prune(s)) \/ Tick \/ UNCHANGED vars
      PROVE  UNCHANGED <<requests, runs, audits>>
  BY <1>6 DEF Prune, Tick, vars, tables
<1> QED
  BY <1>1, <1>2, <1>3, <1>4, <1>5, <1>6 DEF Next, Claim, Execute, Finalize, Quiet

-----------------------------------------------------------------------------
(* The generations in the rows and in the tokens. *)

(* What a claim writes, whichever of the three ways it is taken.              *)
LEMMA ClaimWrites ==
  ASSUME IInv, NEW c \in Calls, Acquire(c) \/ Reacquire(c) \/ Reclaim(c)
  PROVE  /\ \E id, v :
              /\ records' = [records EXCEPT ![Scope(c)] = ActiveRecord(c, id, v)]
              /\ token' = [token EXCEPT ![c] = TokenOf(ActiveRecord(c, id, v))]
         /\ UNCHANGED <<now, served, replay_until>>
         /\ requests'[c].status = "in_progress"
         /\ \A d \in Calls \ {c} :
              /\ pc'[d] = pc[d] /\ answer'[d] = answer[d]
              /\ requests'[d] = requests[d] \/ requests'[d].status = "failed"
         /\ \/ answer'[c] = answer[c]
            \/ answer'[c] = "initialization_failed" /\ pc'[c] = "answered"
<1>0. requests \in [Calls -> RequestType] /\ Scope(c) \in Scopes
  BY RowTypes DEF IInv, TypeOK
<1>1. PICK id, v : Granted(c, ActiveRecord(c, id, v))
  BY DEF Acquire, Reacquire, Reclaim
<1>2. /\ records' = [records EXCEPT ![Scope(c)] = ActiveRecord(c, id, v)]
      /\ token' = [token EXCEPT ![c] = TokenOf(ActiveRecord(c, id, v))]
      /\ UNCHANGED <<now, served, replay_until>>
  BY <1>1 DEF Granted
<1>3. /\ \A d \in Calls \ {c} : pc'[d] = pc[d] /\ answer'[d] = answer[d]
      /\ \/ answer'[c] = answer[c]
         \/ answer'[c] = "initialization_failed" /\ pc'[c] = "answered"
  <2>0. pc \in [Calls -> Stages] /\ answer \in [Calls -> Answers]
    BY DEF IInv, TypeOK
  <2>1. CASE Tell(c, "initialization_failed")
    BY <2>0, <2>1 DEF Tell, Leave
  <2>2. CASE pc' = [pc EXCEPT ![c] = "claimed"] /\ answer' = answer
    BY <2>0, <2>2
  <2> QED BY <1>1, <2>1, <2>2 DEF Granted
<1>4. /\ requests'[c].status = "in_progress"
      /\ \A d \in Calls \ {c} : requests'[d] = requests[d] \/ requests'[d].status = "failed"
  <2>1. CASE Acquire(c) \/ Reacquire(c)
    BY <1>0, <2>1 DEF Acquire, Reacquire, OpenRequest, OpenedRequest, AbsentRequest
  <2>2. CASE Reclaim(c)
    <3>1. /\ Record(c).status = "in_progress"
          /\ requests' = [requests EXCEPT ![c] = OpenedRequest(c),
               ![Record(c).owner] =
                 FailedRequest(@, accepted_at[c], "idempotency_lease_reclaimed")]
      BY <2>2 DEF Reclaim
    <3>2. PICK old \in Calls \ {c} : old = Record(c).owner
      BY <1>0, <2>2, <3>1, Claims DEF IInv, RecordInv, Resolves, Record
    <3>3. FailedRequest(requests[old], accepted_at[c], "idempotency_lease_reclaimed").status
            = "failed"
      BY <1>0 DEF FailedRequest, RequestType
    <3>4. OpenedRequest(c).status = "in_progress"
      BY DEF OpenedRequest, AbsentRequest
    <3> QED BY <1>0, <3>1, <3>2, <3>3, <3>4
  <2> QED BY <2>1, <2>2
<1> QED BY <1>2, <1>3, <1>4

(* What finalizing writes besides the rows of the call.                       *)
LEMMA FinalizeWrites ==
  ASSUME IInv, NEW c \in Calls, FinalizeResult(c) \/ FinalizeFailed(c)
  PROVE  /\ UNCHANGED <<now, token>>
         /\ Record(c).owner = c /\ Record(c).status = "in_progress"
         /\ \A s \in Scopes \ {Scope(c)} : records'[s] = records[s]
         /\ \A d \in Calls \ {c} :
              /\ pc'[d] = pc[d] /\ answer'[d] = answer[d] /\ served'[d] = served[d]
              /\ requests'[d] = requests[d] /\ replay_until'[d] = replay_until[d]
         /\ LET rec == records'[Scope(c)] IN
            /\ rec.owner = c /\ rec.status \in Terminal /\ rec.expires_at > 0
            /\ rec.fingerprint = Record(c).fingerprint /\ rec.version = Record(c).version
            /\ rec.lease_expires_at = Record(c).lease_expires_at
            /\ FinalizeResult(c) =>
                 rec.status = "completed" /\ rec.expires_at = replay_until'[c]
<1>0. /\ Scope(c) \in Scopes /\ Record(c) \in RecordType
      /\ now + ReplayTtl > 0 /\ now + FailureTtl > 0
  BY RowTypes, DurationsAssumption DEF IInv, TypeOK
<1>1. /\ UNCHANGED <<now, token>>
      /\ Record(c).owner = c /\ Record(c).status = "in_progress"
  BY DEF FinalizeResult, FinalizeFailed, MayFinalize, OwnsClaim, Finalized
<1>2. \/ FinalizeResult(c) /\ records' = [records EXCEPT ![Scope(c)] = CompletedRecord(c)]
      \/ ~FinalizeResult(c) /\ records' = [records EXCEPT ![Scope(c)] = FailedRecord(c)]
  BY DEF FinalizeResult, FinalizeFailed
<1>3. /\ \A s \in Scopes \ {Scope(c)} : records'[s] = records[s]
      /\ \/ FinalizeResult(c) /\ records'[Scope(c)] = CompletedRecord(c)
         \/ ~FinalizeResult(c) /\ records'[Scope(c)] = FailedRecord(c)
  BY <1>0, <1>2 DEF IInv, TypeOK
<1>4. \A d \in Calls \ {c} :
        /\ pc'[d] = pc[d] /\ answer'[d] = answer[d] /\ served'[d] = served[d]
        /\ requests'[d] = requests[d] /\ replay_until'[d] = replay_until[d]
  BY DEF FinalizeResult, FinalizeFailed, Finalized, Tell, Leave, IInv, TypeOK
<1>5. /\ FinalizeResult(c) => replay_until'[c] = now + ReplayTtl
      /\ \A rec \in {CompletedRecord(c), FailedRecord(c)} :
           /\ rec.owner = Record(c).owner /\ rec.fingerprint = Record(c).fingerprint
           /\ rec.version = Record(c).version
           /\ rec.lease_expires_at = Record(c).lease_expires_at
      /\ CompletedRecord(c).status = "completed" /\ FailedRecord(c).status = "failed"
      /\ CompletedRecord(c).expires_at = now + ReplayTtl
      /\ FailedRecord(c).expires_at = now + FailureTtl
  BY <1>0 DEF FinalizeResult, CompletedRecord, FailedRecord, RecordType, IInv, TypeOK
<1> QED BY <1>0, <1>1, <1>3, <1>4, <1>5 DEF Terminal

LEMMA OwnerStep == IInv /\ OwnerInv /\ [Next]_vars => OwnerInv'
<1> SUFFICES ASSUME IInv, OwnerInv, [Next]_vars PROVE OwnerInv'
  OBVIOUS
<1>0. input' = input
  BY InputIsFixed
<1>1. ASSUME NEW c \in Calls, Acquire(c) \/ Reacquire(c) \/ Reclaim(c), NEW s \in Scopes
      PROVE  OwnerState(s)'
  <2>1. PICK id, v :
          /\ records' = [records EXCEPT ![Scope(c)] = ActiveRecord(c, id, v)]
          /\ token' = [token EXCEPT ![c] = TokenOf(ActiveRecord(c, id, v))]
    BY <1>1, ClaimWrites
  <2>2. CASE s = Scope(c)
    <3>1. records'[s] = ActiveRecord(c, id, v) /\ token'[c] = TokenOf(ActiveRecord(c, id, v))
      BY <2>1, <2>2 DEF IInv, TypeOK
    <3> QED BY <1>0, <2>2, <3>1 DEF OwnerState, ActiveRecord, TokenOf, Terminal
  <2>3. CASE s # Scope(c)
    <3>1. records'[s] = records[s] /\ \A d \in Calls \ {c} : token'[d] = token[d]
      BY <2>1, <2>3 DEF IInv, TypeOK
    <3>2. records[s].status # "absent" => records[s].owner \in Calls \ {c}
      BY <1>1, Claims DEF IInv, RecordInv, Resolves
    <3> QED BY <1>0, <3>1, <3>2 DEF OwnerInv, OwnerState
  <2> QED BY <2>2, <2>3
<1>2. ASSUME NEW c \in Calls, FinalizeResult(c) \/ FinalizeFailed(c), NEW s \in Scopes
      PROVE  OwnerState(s)'
  BY <1>0, <1>2, FinalizeWrites DEF OwnerInv, OwnerState, Record
<1>3. ASSUME NEW u \in Scopes, Prune(u), NEW s \in Scopes PROVE OwnerState(s)'
  BY <1>0, <1>3 DEF Prune, AbsentRecord, OwnerInv, OwnerState, IInv, TypeOK
<1>4. CASE UNCHANGED <<records, token>>
  BY <1>0, <1>4 DEF OwnerInv, OwnerState
<1>5. ASSUME NEW c \in Calls, Quiet(c) \/ Replay(c) PROVE UNCHANGED <<records, token>>
  BY <1>5, QuietWritesNothing DEF Replay
<1>6. Tick \/ UNCHANGED vars => UNCHANGED <<records, token>>
  BY DEF Tick, vars, tables
<1> QED
  BY <1>1, <1>2, <1>3, <1>4, <1>5, <1>6
     DEF OwnerInv, OwnerState, Next, Claim, Execute, Finalize, Quiet

-----------------------------------------------------------------------------
(* What a call is told stays true. *)

(* A call that is told nothing in a step, and does not complete in it.        *)
LEMMA AnswerKept ==
  ASSUME IInv, [Next]_vars, NEW d \in Calls, AnswerState(d),
         answer'[d] = answer[d], served'[d] = served[d],
         pc'[d] # "answered" => pc[d] # "answered",
         IsOriginal(d, "completed")' => IsOriginal(d, "completed")
  PROVE  AnswerState(d)'
<1>1. requests[d].status \in Terminal => requests'[d] = requests[d]
  BY FinalStep DEF Final
<1> QED BY <1>1 DEF AnswerState, IsOriginal, Terminal

(* A call that leaves with neither a result nor a failure of its execution.   *)
LEMMA AnswerRefused ==
  ASSUME NEW c \in Calls, AnswerState(c),
         pc[c] # "answered", pc'[c] = "answered", served'[c] = served[c],
         answer'[c] \notin {"executed", "replayed", "execution_failed"},
         IsOriginal(c, "completed")' => IsOriginal(c, "completed")
  PROVE  AnswerState(c)'
BY DEF AnswerState

(* The steps that write no table tell a call nothing, or refuse it.           *)
LEMMA QuietAnswers ==
  ASSUME IInv, NEW c \in Calls, Quiet(c)
  PROVE  /\ served' = served
         /\ \A d \in Calls \ {c} : pc'[d] = pc[d] /\ answer'[d] = answer[d]
         /\ pc[c] # "answered"
         /\ \/ answer'[c] = answer[c] /\ pc'[c] # "answered"
            \/ /\ pc'[c] = "answered"
               /\ answer'[c] \notin {"executed", "replayed", "execution_failed"}
<1>0. pc \in [Calls -> Stages] /\ answer \in [Calls -> Answers]
  BY DEF IInv, TypeOK
<1>1. CASE \E what \in Answers \ {"executed", "replayed", "execution_failed"} :
             Refuse(c, what) /\ pc[c] # "answered"
  BY <1>0, <1>1 DEF Refuse, Tell, Leave
<1>2. CASE \/ Accept(c) \/ ReadDatabaseNow(c) \/ InsertConflicts(c) \/ StartCoordinator(c)
           \/ CoordinatorReturns(c) \/ Abandon(c) \/ AbandonedThreadEnds(c)
  BY <1>0, <1>2 DEF Accept, ReadDatabaseNow, InsertConflicts, StartCoordinator,
     CoordinatorReturns, Abandon, AbandonedThreadEnds, Leave
<1>3. CASE \/ ReclaimRejected(c) \/ RefuseVersion(c) \/ RefuseConflict(c)
           \/ RefuseInProgress(c) \/ RefusePreviousFailure(c)
           \/ RefuseInvalidState(c) \/ InitializationFails(c) \/ FinalizationFails(c)
  BY <1>1, <1>3 DEF ReclaimRejected, RefuseVersion, RefuseConflict, RefuseInProgress,
     RefusePreviousFailure, RefuseInvalidState, InitializationFails, FinalizationFails,
     Matching, InForce, Answers
<1> QED BY <1>2, <1>3 DEF Quiet

(* What finalizing tells its call.                                            *)
LEMMA FinalizeAnswers ==
  ASSUME IInv, RowsInv, OwnerInv, AnswerInv, [Next]_vars,
         NEW c \in Calls, FinalizeResult(c) \/ FinalizeFailed(c)
  PROVE  AnswerState(c)'
<1>0. /\ pc \in [Calls -> Stages] /\ answer \in [Calls -> Answers]
      /\ served \in [Calls -> Calls \cup {None}] /\ requests \in [Calls -> RequestType]
  BY DEF IInv, TypeOK
<1>1. pc[c] = "finalizing" /\ served[c] = None /\ IsOriginal(c, "in_progress")
  BY FinalizeRows DEF FinalizeResult, FinalizeFailed, MayFinalize, AnswerInv, AnswerState
<1>2. CASE FinalizeResult(c)
  <2>1. Finalized(c, "executed", c)
        /\ requests'[c] = CompletedRequest(requests[c], completed_at[c])
    BY <1>0, <1>2 DEF FinalizeResult
  <2>2. /\ pc'[c] = "answered"
        /\ \/ answer'[c] = "executed" /\ served'[c] = c
           \/ answer'[c] = "finalization_failed" /\ served'[c] = None
    BY <1>0, <1>1, <2>1 DEF Finalized, Tell, Leave
  <2>3. IsOriginal(c, "completed")'
    BY <1>0, <1>1, <2>1 DEF CompletedRequest, RequestType, IsOriginal
  <2> QED BY <2>2, <2>3 DEF AnswerState
<1>3. CASE FinalizeFailed(c)
  <2>1. Finalized(c, "execution_failed", None)
        /\ requests'[c] = FailedRequest(requests[c], completed_at[c], "application_failed")
    BY <1>0, <1>3 DEF FinalizeFailed
  <2>2. /\ pc'[c] = "answered" /\ served'[c] = None
        /\ answer'[c] \in {"execution_failed", "finalization_failed"}
    BY <1>0, <1>1, <2>1 DEF Finalized, Tell, Leave
  <2>3. requests'[c].status = "failed" /\ requests'[c].failure_code = "application_failed"
    BY <1>0, <2>1 DEF FailedRequest, RequestType
  <2> QED BY <2>2, <2>3 DEF AnswerState, IsOriginal
<1> QED BY <1>2, <1>3

(* What a replay tells its call.                                              *)
LEMMA ReplayAnswers ==
  ASSUME IInv, RowsInv, OwnerInv, AnswerInv, [Next]_vars, NEW c \in Calls, Replay(c)
  PROVE  AnswerState(c)'
<1>0. /\ pc \in [Calls -> Stages] /\ answer \in [Calls -> Answers]
      /\ served \in [Calls -> Calls \cup {None}]
  BY DEF IInv, TypeOK
<1>1. pc[c] = "locking" /\ served[c] = None
  BY DEF Replay, Matching, InForce, AnswerInv, AnswerState
<1>2. PICK original \in Calls \ {c} :
        original = Record(c).run /\ requests'[c].replayed_from = original
  BY ReplayRows
<1>3. /\ pc'[c] = "answered"
      /\ \/ answer'[c] = "replayed" /\ served'[c] = original
         \/ answer'[c] = "initialization_failed" /\ served'[c] = None
  BY <1>0, <1>1, <1>2 DEF Replay, Tell, Leave
<1>4. requests'[c].status = "completed" /\ ~IsOriginal(c, "completed")'
  BY <1>2, ReplayRows, ConstantsType DEF IsOriginal
<1> QED BY <1>2, <1>3, <1>4 DEF AnswerState

LEMMA AnswerStep == IInv /\ RowsInv /\ OwnerInv /\ AnswerInv /\ [Next]_vars => AnswerInv'
<1> SUFFICES ASSUME IInv, RowsInv, OwnerInv, AnswerInv, [Next]_vars, NEW d \in Calls
             PROVE  AnswerState(d)'
  BY DEF AnswerInv, AnswerState
<1>0. AnswerState(d)
  BY DEF AnswerInv, AnswerState
<1>1. ASSUME NEW c \in Calls, Acquire(c) \/ Reacquire(c) \/ Reclaim(c)
      PROVE  AnswerState(d)'
  <2>1. pc[c] # "answered" /\ served' = served
    BY <1>1, ClaimWrites DEF Acquire, Reacquire, Reclaim, Matching, InForce
  <2>2. IsOriginal(d, "completed")' => IsOriginal(d, "completed")
    BY <1>1, ClaimWrites DEF IsOriginal
  <2>3. /\ d # c => answer'[d] = answer[d] /\ pc'[d] = pc[d]
        /\ \/ answer'[c] = answer[c]
           \/ answer'[c] = "initialization_failed" /\ pc'[c] = "answered"
    BY <1>1, ClaimWrites
  <2> QED BY <1>0, <2>1, <2>2, <2>3, AnswerKept, AnswerRefused
<1>2. ASSUME NEW c \in Calls, FinalizeResult(c) \/ FinalizeFailed(c) PROVE AnswerState(d)'
  <2>1. CASE d = c
    BY <1>2, <2>1, FinalizeAnswers
  <2>2. CASE d # c
    BY <1>0, <1>2, <2>2, FinalizeWrites, AnswerKept DEF IsOriginal
  <2> QED BY <2>1, <2>2
<1>3. ASSUME NEW c \in Calls, Replay(c) PROVE AnswerState(d)'
  <2>1. CASE d = c
    BY <1>3, <2>1, ReplayAnswers
  <2>2. CASE d # c
    <3>1. /\ requests'[d] = requests[d] /\ pc'[d] = pc[d]
          /\ answer'[d] = answer[d] /\ served'[d] = served[d]
      BY <1>3, <2>2 DEF Replay, Tell, Leave, IInv, TypeOK
    <3> QED BY <1>0, <3>1, AnswerKept DEF IsOriginal
  <2> QED BY <2>1, <2>2
<1>4. ASSUME NEW c \in Calls, Quiet(c) PROVE AnswerState(d)'
  <2>1. requests' = requests /\ served' = served
    BY <1>4, QuietWritesNothing, QuietAnswers
  <2>2. CASE d = c
    BY <1>0, <1>4, <2>1, <2>2, QuietAnswers, AnswerKept, AnswerRefused DEF IsOriginal
  <2>3. CASE d # c
    BY <1>0, <1>4, <2>1, <2>3, QuietAnswers, AnswerKept DEF IsOriginal
  <2> QED BY <2>2, <2>3
<1>5. ASSUME (\E s \in Scopes : Prune(s)) \/ Tick \/ UNCHANGED vars PROVE AnswerState(d)'
  <2>1. UNCHANGED <<requests, pc, answer, served>>
    BY <1>5 DEF Prune, Tick, vars, tables
  <2> QED BY <1>0, <2>1, AnswerKept DEF IsOriginal
<1> QED
  BY <1>1, <1>2, <1>3, <1>4, <1>5 DEF Next, Claim, Execute, Finalize, Quiet

-----------------------------------------------------------------------------
(* The replay window. *)

(* No claim is taken of a scope in which a replay window is open.             *)
LEMMA WindowsBar ==
  ASSUME IInv, WindowInv, NEW c \in Calls, Acquire(c) \/ Reacquire(c) \/ Reclaim(c),
         NEW d \in Calls, InWindow(d)
  PROVE  Scope(d) # Scope(c)
<1> SUFFICES ASSUME Scope(d) = Scope(c) PROVE FALSE
  OBVIOUS
<1>1. Record(c).status = "completed" /\ Record(c).expires_at > now
  BY DEF WindowInv, InWindow, Record
<1>2. Record(c).expires_at <= claim_now[c]
  BY <1>1 DEF Acquire, Reacquire, Reclaim, TerminalExpired
<1>3. now \in Nat /\ claim_now[c] \in Nat /\ claim_now[c] <= now /\ Record(c).expires_at \in Nat
  BY RowTypes DEF IInv, TypeOK, ClockInv, RecordType
<1> QED BY <1>1, <1>2, <1>3

LEMMA WindowStep == IInv /\ RowsInv /\ OwnerInv /\ WindowInv /\ [Next]_vars => WindowInv'
<1> SUFFICES ASSUME IInv, RowsInv, OwnerInv, WindowInv, [Next]_vars,
                    NEW d \in Calls, InWindow(d)'
             PROVE  /\ Record(d)'.status = "completed" /\ Record(d)'.owner = d
                    /\ Record(d)'.expires_at = replay_until'[d]
  BY DEF WindowInv, InWindow
<1>0. /\ Record(d)' = records'[Scope(d)] /\ \A c \in Calls : Scope(c) \in Scopes
      /\ InWindow(d) => /\ records[Scope(d)].status = "completed"
                        /\ records[Scope(d)].owner = d
                        /\ records[Scope(d)].expires_at = replay_until[d]
  BY RowTypes, InputIsFixed DEF IInv, Record, Scope, WindowInv, InWindow
<1>1. ASSUME NEW c \in Calls, Acquire(c) \/ Reacquire(c) \/ Reclaim(c)
      PROVE  Record(d)' = Record(d) /\ InWindow(d) /\ replay_until' = replay_until
  <2>1. now' = now /\ replay_until' = replay_until /\ requests'[d] = requests[d]
    BY <1>1, ClaimWrites DEF InWindow, IsOriginal
  <2>2. InWindow(d)
    BY <2>1 DEF InWindow, IsOriginal
  <2>3. Scope(d) # Scope(c)
    BY <1>1, <2>2, WindowsBar
  <2> QED BY <1>0, <1>1, <2>1, <2>2, <2>3, Claims DEF Record
<1>2. ASSUME NEW c \in Calls \ {d}, FinalizeResult(c) \/ FinalizeFailed(c)
      PROVE  Record(d)' = Record(d) /\ InWindow(d) /\ replay_until'[d] = replay_until[d]
  <2>1. InWindow(d) /\ replay_until'[d] = replay_until[d]
    BY <1>2, FinalizeWrites DEF InWindow, IsOriginal
  <2>2. Scope(d) # Scope(c)
    BY <1>0, <1>2, <2>1, FinalizeWrites DEF Record
  <2> QED BY <1>0, <1>2, <2>1, <2>2, FinalizeWrites DEF Record
<1>3. ASSUME FinalizeFailed(d) PROVE FALSE
  <2>1. requests[d] \in RequestType
    BY DEF IInv, TypeOK
  <2>2. requests'[d] = FailedRequest(requests[d], completed_at[d], "application_failed")
    BY <1>3 DEF FinalizeFailed, IInv, TypeOK
  <2> QED BY <2>1, <2>2 DEF FailedRequest, RequestType, InWindow, IsOriginal
<1>4. ASSUME FinalizeResult(d)
      PROVE  /\ Record(d)'.status = "completed" /\ Record(d)'.owner = d
             /\ Record(d)'.expires_at = replay_until'[d]
  BY <1>0, <1>4, FinalizeWrites
<1>5. ASSUME NEW c \in Calls, Replay(c)
      PROVE  Record(d)' = Record(d) /\ InWindow(d) /\ replay_until' = replay_until
  <2>1. d # c
    BY <1>5, ReplayRows, ConstantsType DEF InWindow, IsOriginal
  <2>2. /\ requests'[d] = requests[d]
        /\ now' = now /\ records' = records /\ replay_until' = replay_until
    BY <1>5, <2>1 DEF Replay, IInv, TypeOK
  <2> QED BY <1>0, <2>2 DEF InWindow, IsOriginal, Record
<1>6. ASSUME NEW s \in Scopes, Prune(s)
      PROVE  Record(d)' = Record(d) /\ InWindow(d) /\ replay_until' = replay_until
  <2>1. InWindow(d) /\ replay_until' = replay_until
    BY <1>6 DEF Prune, InWindow, IsOriginal
  <2>2. now \in Nat /\ replay_until[d] \in Nat /\ PruneMargin \in Nat
    BY ConstantsType DEF IInv, TypeOK
  <2>3. Scope(d) # s
    BY <1>0, <1>6, <2>1, <2>2 DEF Prune, InWindow
  <2> QED BY <1>0, <1>6, <2>1, <2>3 DEF Prune, Record, IInv, TypeOK
<1>7. ASSUME UNCHANGED <<records, requests, replay_until>>, now' \in {now, now + 1}
      PROVE  Record(d)' = Record(d) /\ InWindow(d) /\ replay_until' = replay_until
  BY <1>0, <1>7 DEF InWindow, IsOriginal, Record, IInv, TypeOK
<1>8. ASSUME NEW c \in Calls, Quiet(c)
      PROVE  UNCHANGED <<now, records, requests, replay_until>>
  BY <1>8 DEF Quiet, Accept, ReadDatabaseNow, InsertConflicts, StartCoordinator,
     CoordinatorReturns, Abandon, AbandonedThreadEnds, ReclaimRejected, RefuseVersion,
     RefuseConflict, RefuseInProgress, RefusePreviousFailure, RefuseInvalidState,
     InitializationFails, FinalizationFails, Refuse, tables
<1>9. Tick \/ UNCHANGED vars =>
        UNCHANGED <<records, requests, replay_until>> /\ now' \in {now, now + 1}
  BY DEF Tick, vars, tables
<1> QED
  BY <1>0, <1>1, <1>2, <1>3, <1>4, <1>5, <1>6, <1>7, <1>8, <1>9
     DEF Record, Next, Claim, Execute, Finalize, Quiet

-----------------------------------------------------------------------------
(* The theorems about the tables, the answers and the refusals. *)

LEMMA StoryInvariant == Spec => []StoryInv
<1>1. Init => RowsInv /\ OwnerInv /\ AnswerInv /\ WindowInv
  BY DEF Init, RowsInv, RowState, Unwritten, OwnerInv, OwnerState, AbsentRecord,
     AbsentRequest, AnswerInv, AnswerState, WindowInv, InWindow, IsOriginal
<1>2. StoryInv /\ [Next]_vars => RowsInv' /\ OwnerInv' /\ AnswerInv' /\ WindowInv'
  BY RowsStep, OwnerStep, AnswerStep, WindowStep DEF StoryInv
<1> QED BY <1>1, <1>2, IInvInvariant, PTL DEF Spec, StoryInv

(* The four tables agree, with every crash, lost acknowledgement, reclaim and *)
(* prune: the integrity checker finds nothing, and a replay descends from a   *)
(* completed original of the same scope and fingerprint.                      *)
THEOREM TablesAlwaysAgree == Spec => []TablesAgree
<1>1. ASSUME StoryInv PROVE TablesAgree
  <2>0. /\ \A c \in Calls : RowState(c) /\ requests[c] \in RequestType
        /\ \A s \in Scopes : records[s].status # "absent" => Resolves(s)
        /\ None \notin Calls
    BY <1>1, ConstantsType DEF StoryInv, IInv, TypeOK, RowsInv, RowState, RecordInv
  <2>1. ASSUME NEW c \in Calls
        PROVE  /\ runs[c] = CASE requests[c].status = "failed" -> "failed"
                              [] Original(c) /\ requests[c].status = "completed" ->
                                   IF "policy_blocked" \in audits[c] THEN "blocked" ELSE "completed"
                              [] OTHER -> "absent"
               /\ Original(c) <=> "request_accepted" \in audits[c]
               /\ requests[c].status = "failed" <=> "request_failed" \in audits[c]
               /\ requests[c].status = "completed" <=>
                    audits[c] \cap {"request_completed", "policy_blocked"} # {}
               /\ {"request_completed", "policy_blocked"} \subseteq audits[c] => FALSE
    <3>1. CASE Unwritten(c)
      BY <3>1 DEF Unwritten, AbsentRequest, Original
    <3>2. CASE Opened(c)
      BY <3>2 DEF Opened, IsOriginal, Original
    <3>3. CASE Executed(c)
      BY <3>3 DEF Executed, IsOriginal, Original
    <3>4. CASE Failed(c)
      BY <3>4 DEF Failed, IsOriginal, Original
    <3>5. CASE Replayed(c)
      BY <2>0, <3>5 DEF Replayed, Original
    <3> QED BY <2>0, <3>1, <3>2, <3>3, <3>4, <3>5 DEF RowState
  <2>2. ASSUME NEW c \in Calls, requests[c].replayed_from # None
        PROVE  LET original == requests[c].replayed_from IN
               /\ original \in Calls /\ requests[c].status = "completed"
               /\ Original(original)
               /\ requests[original].status = "completed"
               /\ input[original].scope = input[c].scope
               /\ input[original].fingerprint = input[c].fingerprint
    <3>1. Replayed(c)
      BY <2>0, <2>2
         DEF RowState, Unwritten, AbsentRequest, Opened, Executed, Failed, IsOriginal
    <3> QED BY <3>1 DEF Replayed, IsOriginal, Original, Scope
  <2>3. IntegrityIssues = {}
    <3> DEFINE rows == {c \in Calls : requests[c].status # "absent"}
               replays == {c \in rows : requests[c].replayed_from # None}
               ended == {c \in rows : requests[c].status \in Terminal}
    <3>1. \A c \in ended \ replays : runs[c] # "absent"
      BY <2>1 DEF Original, Terminal
    <3>2. \A c \in ended :
            runs[c] # "absent" => (requests[c].status # "failed" <=> runs[c] # "failed")
      BY <2>1 DEF Original, Terminal
    <3>3. \A c \in replays : runs[c] = "absent" /\ requests[c].replayed_from \in rows \ replays
      BY <2>1, <2>2 DEF Original
    <3>4. \A s \in Scopes : records[s].status = "in_progress" =>
            ~(records[s].version < 1) /\ requests[records[s].owner].status = "in_progress"
      BY <1>1, <2>0 DEF Resolves, StoryInv, IInv, TypeOK, RecordType
    <3>5. \A s \in Scopes : records[s].status = "completed" =>
            /\ records[s].run # None /\ runs[records[s].run] # "absent"
            /\ records[s].expires_at # 0
      BY <1>1, <2>0 DEF Resolves, StoryInv, OwnerInv, OwnerState, Terminal
    <3>6. \A s \in Scopes : records[s].status = "failed" => records[s].expires_at # 0
      BY <1>1 DEF StoryInv, OwnerInv, OwnerState, Terminal
    <3>7. \A c \in rows \ replays : "request_accepted" \in audits[c]
      BY <2>1 DEF Original
    <3>8. \A c \in ended :
            audits[c] \cap {"request_completed", "request_failed", "policy_blocked"} # {}
      BY <2>1 DEF Terminal
    <3> SUFFICES ASSUME NEW code \in IntegrityIssues PROVE FALSE
      OBVIOUS
    <3> QED BY <3>1, <3>2, <3>3, <3>4, <3>5, <3>6, <3>7, <3>8 DEF IntegrityIssues
  <2> QED BY <2>1, <2>2, <2>3 DEF TablesAgree
<1> QED BY <1>1, StoryInvariant, PTL

(* What a caller was told is in the tables and stays there: its own recorded  *)
(* result, the committed result of an execution of the same request, or its   *)
(* recorded failure; a late owner is never told that it succeeded.            *)
THEOREM AnswersStayDurable == Spec => []AnswersAreDurable
<1>1. ASSUME StoryInv, NEW c \in Calls
      PROVE  /\ answer[c] = "executed" =>
                  /\ served[c] = c /\ requests[c].status = "completed"
                  /\ runs[c] \in {"completed", "blocked"}
             /\ answer[c] = "replayed" =>
                  /\ served[c] \in Calls \ {c}
                  /\ requests[c].replayed_from = served[c]
                  /\ runs[served[c]] \in {"completed", "blocked"}
                  /\ answer[served[c]] \in {"none", "executed", "finalization_failed"}
                  /\ input[served[c]].scope = Scope(c)
                  /\ input[served[c]].fingerprint = input[c].fingerprint
             /\ answer[c] = "execution_failed" =>
                  requests[c].failure_code = "application_failed"
             /\ answer[c] \notin {"executed", "replayed"} => served[c] = None
  <2>0. AnswerState(c) /\ RowState(c) /\ None \notin Calls
    BY <1>1, ConstantsType DEF StoryInv, AnswerInv, AnswerState, RowsInv, RowState
  <2>1. \A d \in Calls : IsOriginal(d, "completed") =>
          /\ runs[d] \in {"completed", "blocked"}
          /\ answer[d] \in {"executed", "finalization_failed"}
    <3> SUFFICES ASSUME NEW d \in Calls, IsOriginal(d, "completed")
                 PROVE  /\ runs[d] \in {"completed", "blocked"}
                        /\ answer[d] \in {"executed", "finalization_failed"}
      OBVIOUS
    <3>1. Executed(d)
      BY <1>1, ConstantsType DEF StoryInv, RowsInv, RowState, Unwritten, AbsentRequest,
         Opened, Failed, Replayed, IsOriginal
    <3> QED BY <1>1, <3>1 DEF StoryInv, AnswerInv, AnswerState, Executed
  <2>2. ASSUME answer[c] = "replayed"
        PROVE  /\ served[c] \in Calls \ {c} /\ requests[c].replayed_from = served[c]
               /\ IsOriginal(served[c], "completed")
               /\ input[served[c]].scope = Scope(c)
               /\ input[served[c]].fingerprint = input[c].fingerprint
    <3>1. /\ served[c] \in Calls /\ requests[c].replayed_from = served[c]
      BY <2>0, <2>2 DEF AnswerState
    <3>2. Replayed(c)
      BY <2>0, <3>1
         DEF RowState, Unwritten, AbsentRequest, Opened, Executed, Failed, IsOriginal
    <3> QED BY <2>0, <3>1, <3>2 DEF Replayed, IsOriginal, Scope
  <2> QED BY <2>0, <2>1, <2>2 DEF AnswerState, IsOriginal
<1>2. StoryInv => AnswersAreDurable
  BY <1>1 DEF AnswersAreDurable
<1> QED BY <1>2, StoryInvariant, PTL

(* A key is not granted again while a client may still be owed a replay.      *)
THEOREM ReplayWindowsHold == Spec => NoClaimInReplayWindow
<1>1. ASSUME StoryInv, [Next]_vars, NEW c \in Calls, NEW d \in Calls,
             token[d] = NoToken, token'[d] # NoToken, Scope(c) = Scope(d),
             runs[c] \in {"completed", "blocked"}
      PROVE  replay_until[c] <= now
  <2>1. Acquire(d) \/ Reacquire(d) \/ Reclaim(d)
    <3>1. ASSUME NEW b \in Calls \ {d}, Acquire(b) \/ Reacquire(b) \/ Reclaim(b)
          PROVE  token'[d] = token[d]
      BY <1>1, <3>1, Claims DEF StoryInv
    <3>2. ASSUME NEW b \in Calls, FinalizeResult(b) \/ FinalizeFailed(b)
          PROVE  token' = token
      BY <1>1, <3>2, FinalizeWrites DEF StoryInv
    <3>3. ASSUME NEW b \in Calls, Quiet(b) \/ Replay(b) PROVE token' = token
      BY <3>3, QuietWritesNothing DEF Replay
    <3>4. ASSUME (\E s \in Scopes : Prune(s)) \/ Tick \/ UNCHANGED vars PROVE token' = token
      BY <3>4 DEF Prune, Tick, vars
    <3> QED BY <1>1, <3>1, <3>2, <3>3, <3>4 DEF Next, Claim, Execute, Finalize, Quiet
  <2>2. ~InWindow(c)
    BY <1>1, <2>1, WindowsBar DEF StoryInv
  <2>3. IsOriginal(c, "completed")
    BY <1>1 DEF StoryInv, RowsInv, RowState, Unwritten, Opened, Executed, Failed, Replayed
  <2>4. now \in Nat /\ replay_until[c] \in Nat
    BY <1>1 DEF StoryInv, IInv, TypeOK
  <2> QED BY <2>2, <2>3, <2>4 DEF InWindow
<1>2. StoryInv /\ [Next]_vars =>
        [\A c, d \in Calls :
           token[d] = NoToken /\ token'[d] # NoToken /\ Scope(c) = Scope(d)
             /\ runs[c] \in {"completed", "blocked"}
             => replay_until[c] <= now]_vars
  BY <1>1
<1> QED BY <1>2, StoryInvariant, PTL DEF Spec, NoClaimInReplayWindow

(* A record in force was written for another call, which was granted it.      *)
LEMMA RecordHasAnotherOwner ==
  ASSUME StoryInv, NEW c \in Calls, InForce(c)
  PROVE  /\ Record(c).owner \in Calls \ {c}
         /\ Scope(Record(c).owner) = Scope(c)
         /\ token[Record(c).owner] # NoToken
         /\ token[Record(c).owner].lease_expires_at = Record(c).lease_expires_at
         /\ input[Record(c).owner].fingerprint = Record(c).fingerprint
         /\ requests[Record(c).owner].status = Record(c).status
<1>1. /\ Scope(c) \in Scopes /\ Record(c) = records[Scope(c)]
      /\ Record(c).status \in {"in_progress", "completed", "failed"}
  BY RowTypes DEF StoryInv, IInv, Record, InForce, WellFormed
<1>2. Resolves(Scope(c))
  BY <1>1 DEF StoryInv, IInv, RecordInv
<1>3. requests[c].status = "absent"
  BY DEF InForce, StoryInv, IInv, FreshInv, Unclaimed, AbsentRequest
<1>4. token[Record(c).owner].version >= 1
  BY <1>1, <1>2 DEF StoryInv, OwnerInv, OwnerState, Resolves
<1> QED BY <1>1, <1>2, <1>3, <1>4 DEF StoryInv, OwnerInv, OwnerState, Resolves, NoToken

(* Each 409 has the cause it names: a call under a longer lease, a call that  *)
(* was granted the key for another request, a recorded failure of this one.   *)
THEOREM RefusalsAreCaused == Spec => RefusalsHaveACause
<1> DEFINE Others(c) == {d \in Calls \ {c} : Scope(d) = Scope(c) /\ token[d] # NoToken}
           Same(c) == {d \in Others(c) : input[d].fingerprint = input[c].fingerprint}
           Caused(c) ==
             answer'[c] # answer[c] =>
               /\ answer'[c] = "in_progress" =>
                    \E d \in Same(c) : token[d].lease_expires_at > claim_now[c]
               /\ answer'[c] = "conflict" => Others(c) \ Same(c) # {}
               /\ answer'[c] = "previous_failure" =>
                    \E d \in Same(c) : requests[d].status = "failed"
<1>1. ASSUME StoryInv, [Next]_vars, NEW c \in Calls PROVE Caused(c)
  <2>0. IInv /\ answer \in [Calls -> Answers]
    BY <1>1 DEF StoryInv, IInv, TypeOK
  <2>1. ASSUME RefuseInProgress(c) PROVE Caused(c)
    <3>1. /\ InForce(c) /\ SameFingerprint(c, Record(c))
          /\ Record(c).lease_expires_at > claim_now[c]
      BY <2>1 DEF RefuseInProgress, Matching, LeaseLive
    <3>2. /\ Record(c).owner \in Same(c)
          /\ token[Record(c).owner].lease_expires_at > claim_now[c]
      BY <1>1, <3>1, RecordHasAnotherOwner DEF SameFingerprint
    <3>3. answer'[c] = "in_progress"
      BY <2>0, <2>1 DEF RefuseInProgress, Refuse, Tell
    <3> QED BY <3>2, <3>3
  <2>2. ASSUME RefuseConflict(c) PROVE Caused(c)
    <3>1. InForce(c) /\ ~SameFingerprint(c, Record(c))
      BY <2>2 DEF RefuseConflict
    <3>2. Record(c).owner \in Others(c) \ Same(c)
      BY <1>1, <3>1, RecordHasAnotherOwner DEF SameFingerprint
    <3>3. answer'[c] = "conflict"
      BY <2>0, <2>2 DEF RefuseConflict, Refuse, Tell
    <3> QED BY <3>2, <3>3
  <2>3. ASSUME RefusePreviousFailure(c) PROVE Caused(c)
    <3>1. InForce(c) /\ SameFingerprint(c, Record(c)) /\ Record(c).status = "failed"
      BY <2>3 DEF RefusePreviousFailure, Matching
    <3>2. Record(c).owner \in Same(c) /\ requests[Record(c).owner].status = "failed"
      BY <1>1, <3>1, RecordHasAnotherOwner DEF SameFingerprint
    <3>3. answer'[c] = "previous_failure"
      BY <2>0, <2>3 DEF RefusePreviousFailure, Refuse, Tell
    <3> QED BY <3>2, <3>3
  <2> DEFINE Unrelated ==
        answer'[c] = answer[c] \/ answer'[c] \notin {"in_progress", "conflict", "previous_failure"}
  <2>4. ASSUME \/ ReclaimRejected(c) \/ RefuseVersion(c) \/ RefuseInvalidState(c)
               \/ InitializationFails(c) \/ FinalizationFails(c)
        PROVE  Unrelated
    BY <2>0, <2>4 DEF ReclaimRejected, RefuseVersion, RefuseInvalidState,
       InitializationFails, FinalizationFails, Refuse, Tell
  <2>5. ASSUME \/ Accept(c) \/ ReadDatabaseNow(c) \/ InsertConflicts(c)
               \/ StartCoordinator(c) \/ CoordinatorReturns(c) \/ Abandon(c)
               \/ AbandonedThreadEnds(c)
        PROVE  Unrelated
    BY <2>5 DEF Accept, ReadDatabaseNow, InsertConflicts, StartCoordinator,
       CoordinatorReturns, Abandon, AbandonedThreadEnds
  <2>6. ASSUME NEW b \in Calls, Acquire(b) \/ Reacquire(b) \/ Reclaim(b) PROVE Unrelated
    BY <2>0, <2>6, ClaimWrites
  <2>7. ASSUME NEW b \in Calls, Replay(b) \/ FinalizeResult(b) \/ FinalizeFailed(b)
        PROVE  Unrelated
    BY <2>0, <2>7 DEF Replay, FinalizeResult, FinalizeFailed, Finalized, Tell
  <2>8. ASSUME NEW b \in Calls \ {c}, Quiet(b) PROVE Unrelated
    BY <2>0, <2>8, QuietAnswers
  <2>9. ASSUME (\E s \in Scopes : Prune(s)) \/ Tick \/ UNCHANGED vars PROVE Unrelated
    BY <2>9 DEF Prune, Tick, vars
  <2>10. ASSUME Quiet(c) PROVE Caused(c) \/ Unrelated
    BY <2>1, <2>2, <2>3, <2>4, <2>5, <2>10 DEF Quiet
  <2>11. Caused(c) \/ Unrelated
    BY <1>1, <2>6, <2>7, <2>8, <2>9, <2>10 DEF Next, Claim, Execute, Finalize, Quiet
  <2>12. Unrelated => Caused(c)
    OBVIOUS
  <2> QED BY <2>11, <2>12
<1>2. StoryInv /\ [Next]_vars => [\A c \in Calls : Caused(c)]_vars
  BY <1>1
<1> QED BY <1>2, StoryInvariant, PTL DEF Spec, RefusalsHaveACause

=============================================================================
