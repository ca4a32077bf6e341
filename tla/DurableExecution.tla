-------------------------- MODULE DurableExecution --------------------------
(***************************************************************************)
(* The request path without an Idempotency-Key:                            *)
(* DurableApplicationService.execute.  A request is recorded in one short  *)
(* transaction, its coordinator runs on a worker thread, and a second      *)
(* transaction records what came of it.  There is no claim, and nothing    *)
(* comes back for what a failure leaves in progress.                       *)
(***************************************************************************)
CONSTANTS Requests

VARIABLES
  rows,     \* agent_requests with its agent_runs and audit_events, by request
  call,     \* where the call that serves each request is
  result,   \* what its coordinator made of it
  raised,   \* what its call returned or raised
  threads,  \* requests whose coordinator runs
  started   \* history: requests whose coordinator was ever started

Results == {"completed", "blocked", "failed"}
Terminal == {"completed", "failed"}

AbsentRow == [status |-> "absent", run |-> "none", events |-> {}]

AcceptedRow ==
  [status |-> "in_progress", run |-> "none", events |-> {"request_accepted"}]

EventOf ==
  [completed |-> "request_completed", blocked |-> "policy_blocked",
   failed |-> "request_failed"]

\* Mutant: the request is given the status of its run.
FinalStatusOfRun(what) == what

FinalStatus(what) == IF what = "failed" THEN "failed" ELSE "completed"

\* The run, the request's status and the terminal event, in one transaction.
FinalizedRow(row, what) ==
  [status |-> FinalStatus(what), run |-> what, events |-> row.events \cup {EventOf[what]}]

DurableInit ==
  /\ rows = [r \in Requests |-> AbsentRow]
  /\ call = [r \in Requests |-> "idle"]
  /\ result = [r \in Requests |-> "none"]
  /\ raised = [r \in Requests |-> "none"]
  /\ threads = {}
  /\ started = {}

Return(r, what) ==
  /\ call' = [call EXCEPT ![r] = "over"]
  /\ raised' = [raised EXCEPT ![r] = what]

\* anyio.to_thread.run_sync
StartThread(r) ==
  /\ call' = [call EXCEPT ![r] = "running"]
  /\ threads' = threads \cup {r}
  /\ started' = started \cup {r}

\* Tx A.
AcceptRequest(r) ==
  /\ call[r] = "accepting"
  /\ rows' = [rows EXCEPT ![r] = AcceptedRow]
  /\ StartThread(r)
  /\ UNCHANGED <<result, raised>>

\* Tx A raised, perhaps after its commit was applied.
AcceptRequestFails(r) ==
  /\ call[r] = "accepting"
  /\ rows' \in {rows, [rows EXCEPT ![r] = AcceptedRow]}
  /\ Return(r, "RequestInitializationError")
  /\ UNCHANGED <<result, threads, started>>

\* The coordinator of a request whose call still waits for it.
ThreadReturns(r) ==
  /\ call[r] = "running"
  /\ call' = [call EXCEPT ![r] = "finalizing"]
  /\ \E what \in Results : result' = [result EXCEPT ![r] = what]
  /\ threads' = threads \ {r}
  /\ UNCHANGED <<rows, raised, started>>

\* abandon_on_cancel: nobody reads what it returns.
AbandonedThreadReturns(r) ==
  /\ r \in threads
  /\ call[r] # "running"
  /\ threads' = threads \ {r}
  /\ UNCHANGED <<rows, call, result, raised, started>>

Outcome(what) ==
  IF what = "failed" THEN "DurableApplicationExecutionError" ELSE "ApplicationResult"

\* Tx B.
Finalize(r) ==
  /\ call[r] = "finalizing"
  /\ rows' = [rows EXCEPT ![r] = FinalizedRow(@, result[r])]
  /\ Return(r, Outcome(result[r]))
  /\ UNCHANGED <<result, threads, started>>

FinalizeFails(r) ==
  /\ call[r] = "finalizing"
  /\ rows' \in {rows, [rows EXCEPT ![r] = FinalizedRow(@, result[r])]}
  /\ Return(r, "PersistenceFinalizationError")
  /\ UNCHANGED <<result, threads, started>>

\* CancelledError is not an Exception: no handler of execute runs.  A commit
\* under way may be applied.
Cancel(r) ==
  /\ \/ call[r] = "accepting" /\ rows' \in {rows, [rows EXCEPT ![r] = AcceptedRow]}
     \/ call[r] = "running" /\ UNCHANGED rows
     \/ /\ call[r] = "finalizing"
        /\ rows' \in {rows, [rows EXCEPT ![r] = FinalizedRow(@, result[r])]}
  /\ Return(r, "CancelledError")
  /\ UNCHANGED <<result, threads, started>>

Begin(r) ==
  /\ call[r] = "idle"
  /\ call' = [call EXCEPT ![r] = "accepting"]
  /\ UNCHANGED <<rows, result, raised, threads, started>>

=============================================================================
