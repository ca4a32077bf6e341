------------------------------ MODULE Operations ------------------------------
(***************************************************************************)
(* Operations: one run of an operations command of the command line.  The  *)
(* doctor, the integrity checker and the pruner start a database engine of *)
(* their own, work under a deadline and stop it again; the configuration   *)
(* audit needs none.  Other processes use the database at the same time.   *)
(***************************************************************************)
EXTENDS Integers, FiniteSets

CONSTANTS
  Commands,   \* the commands that may be given
  Rows,       \* terminal idempotency records
  BatchSize,
  MaxBatches

ASSUME BatchAssumption ==
  /\ BatchSize \in Nat \ {0} /\ MaxBatches \in Nat \ {0}
  /\ IsFiniteSet(Rows)

VARIABLES
  command,    \* the command, with the configuration it runs under
  progress,   \* the next step, or "exited"
  pool,       \* the connections of its engine
  failed,     \* the checks of the doctor that failed
  integrity,  \* what the integrity checker reported
  expired,    \* records that are over by more than the safety margin
  held,       \* records among them that another transaction has locked
  gone,       \* history: records the command deleted
  batches,    \* batches that are over
  verdict     \* exit code, whether it reports completeness, what it counted

opsVars ==
  <<command, progress, pool, failed, integrity, expired, held, gone, batches, verdict>>

-----------------------------------------------------------------------------
(* Configurations. *)

DatabaseConfigs ==
  [runtime : {"demo", "test", "production"}, enabled : BOOLEAN, url : BOOLEAN, remote : BOOLEAN,
   persistence_mode : {"unset", "null", "fake", "postgres"},
   header : {"unset", "optional", "required"}, auto_migrate : BOOLEAN, echo : BOOLEAN,
   tls : {"disable", "require"}]

PersistenceMode(c) ==
  IF c.persistence_mode # "unset" THEN c.persistence_mode
  ELSE IF c.enabled /\ c.url THEN "postgres" ELSE "null"

\* AppConfig refuses the others; production is taken to have its OIDC settings.
AcceptedConfig(c) ==
  /\ PersistenceMode(c) = "null" => c.header # "required"
  /\ PersistenceMode(c) = "postgres" => c.url
  /\ PersistenceMode(c) = "fake" => c.runtime = "test"
  /\ c.runtime = "production" =>
       /\ c.persistence_mode = "postgres" /\ c.header # "unset" /\ ~c.auto_migrate
       /\ c.remote => c.tls # "disable"

ASSUME CommandsAssumption ==
  \A c \in Commands :
    /\ c \in [name : {"audit", "doctor", "integrity", "prune"}, apply : BOOLEAN,
              database_confirmed : BOOLEAN, environment_confirmed : BOOLEAN,
              config : DatabaseConfigs]
    /\ AcceptedConfig(c.config)

\* The timeouts it looks at are never as low as it forbids.
AuditViolations(c) ==
  {v \in {"persistence_mode", "url", "header", "auto_migrate", "echo"} :
     \/ v = "persistence_mode" /\ PersistenceMode(c) # "postgres"
     \/ v = "url" /\ ~c.url
     \/ v = "header" /\ c.header = "unset"
     \/ v = "auto_migrate" /\ c.auto_migrate
     \/ v = "echo" /\ c.echo}

-----------------------------------------------------------------------------
(* Verdicts. *)

Verdict(code, complete, count) == [code |-> code, complete |-> complete, count |-> count]
NoVerdict == Verdict(-1, FALSE, 0)
Unavailable == Verdict(3, FALSE, 0)
Misused == Verdict(2, FALSE, 0)

Report(v) ==
  /\ verdict' = v
  /\ progress' = "stopping"

\* What is reported before it was looked at.
Reports(v) ==
  /\ Report(v)
  /\ UNCHANGED <<command, pool, failed, integrity, expired, held, gone, batches>>

Doing(name, step) == progress = step /\ command.name = name

OpsInit ==
  /\ command \in Commands
  /\ progress = "configured"
  /\ pool = "none"
  /\ failed = {} /\ integrity = "unknown"
  /\ expired \in SUBSET Rows /\ held = {} /\ gone = {}
  /\ batches = 0 /\ verdict = NoVerdict

Audit ==
  /\ Doing("audit", "configured")
  /\ verdict' = Verdict(IF AuditViolations(command.config) = {} THEN 0 ELSE 2, TRUE, 0)
  /\ progress' = "exited"
  /\ UNCHANGED <<command, pool, failed, integrity, expired, held, gone, batches>>

\* An engine needs a URL that can be parsed and certificates that can be read.
\* The pruner calls a ValueError a wrong use: for want of a URL, or for a client
\* key that others may read.
StartOperation ==
  /\ progress = "configured" /\ command.name # "audit"
  /\ \/ /\ command.config.url
        /\ pool' = "open" /\ progress' = "connected"
        /\ UNCHANGED verdict
     \/ /\ progress' = "exited"
        /\ \/ verdict' = Unavailable /\ (command.name = "prune" => command.config.url)
           \/ verdict' = Misused /\ command.name = "prune"
        /\ UNCHANGED pool
  /\ UNCHANGED <<command, failed, integrity, expired, held, gone, batches>>

\* The finally clause: a disposal that takes too long raises, and what the command
\* had to report is lost.
StopOperation ==
  /\ progress = "stopping"
  /\ \/ pool' = "closed" /\ UNCHANGED verdict
     \/ pool' = "abandoned" /\ verdict' = Unavailable
  /\ progress' = "exited"
  /\ UNCHANGED <<command, failed, integrity, expired, held, gone, batches>>

-----------------------------------------------------------------------------
(* The doctor and the integrity checker. *)

Checks == {"clock_drift_seconds", "revision", "business_tables", "timestamptz_columns",
           "metadata_diff_count", "tls"}

RefuseMode ==
  /\ Doing("doctor", "connected") /\ PersistenceMode(command.config) # "postgres"
  /\ Reports(Verdict(2, TRUE, 0))

RunChecks ==
  /\ Doing("doctor", "connected") /\ PersistenceMode(command.config) = "postgres"
  /\ failed' \in SUBSET {c \in Checks : c = "tls" => command.config.tls # "disable"}
  /\ progress' = "checked"
  /\ UNCHANGED <<command, pool, integrity, expired, held, gone, batches, verdict>>

\* Any exception, also a statement timeout or a missing permission.
ChecksRaise ==
  /\ Doing("doctor", "connected") /\ PersistenceMode(command.config) = "postgres"
  /\ Reports(Verdict(3, TRUE, 0))

\* asyncio.timeout around all of it.
DoctorDeadline ==
  /\ \/ Doing("doctor", "connected") /\ PersistenceMode(command.config) = "postgres"
     \/ Doing("doctor", "checked")
  /\ Reports(Verdict(5, FALSE, 0))

\* Mutant: an integrity report that is incomplete is not held against the database.
DoctorCodeDespiteIncomplete(checks, found) ==
  CASE "revision" \in checks -> 4
    [] "revision" \notin checks /\ "tls" \in checks -> 7
    [] checks # {} /\ checks \cap {"revision", "tls"} = {} -> 5
    [] checks = {} -> IF found = "unhealthy" THEN 5 ELSE 0

DoctorCode(checks, found) ==
  CASE "revision" \in checks -> 4
    [] "revision" \notin checks /\ "tls" \in checks -> 7
    [] checks # {} /\ checks \cap {"revision", "tls"} = {} -> 5
    [] checks = {} -> IF found = "healthy" THEN 0 ELSE 5

\* A cancelled statement leaves the report incomplete; another error raises.
CheckIntegrity ==
  /\ Doing("doctor", "checked") \/ Doing("integrity", "connected")
  /\ \/ /\ integrity' \in {"healthy", "unhealthy", "incomplete"}
        /\ Report(Verdict(IF command.name = "doctor" THEN DoctorCode(failed, integrity')
                          ELSE IF integrity' = "healthy" THEN 0 ELSE 5,
                          integrity' # "incomplete", 0))
     \/ Report(Unavailable) /\ UNCHANGED integrity
  /\ UNCHANGED <<command, pool, failed, expired, held, gone, batches>>

-----------------------------------------------------------------------------
(* The pruner. *)

DryRun ==
  /\ Doing("prune", "connected") /\ ~command.apply
  /\ \/ Reports(Verdict(0, TRUE, Cardinality(expired)))
     \/ Reports(Unavailable)

ConfirmPrune ==
  /\ Doing("prune", "connected") /\ command.apply
  /\ \/ /\ command.database_confirmed /\ command.environment_confirmed
        /\ progress' = "pruning"
        /\ UNCHANGED <<command, pool, failed, integrity, expired, held, gone, batches, verdict>>
     \/ /\ ~(command.database_confirmed /\ command.environment_confirmed)
        /\ Reports(Misused)
     \/ Reports(Unavailable)

\* FOR UPDATE SKIP LOCKED: a record that is locked is passed over.
Deletable == expired \ held
Batch == {b \in SUBSET Deletable : \/ Cardinality(b) = BatchSize
                                   \/ Cardinality(b) < BatchSize /\ b = Deletable}

Deletes(b) ==
  /\ gone' = gone \cup b
  /\ expired' = expired \ b

\* The last batch is the one that is not full.
PruneBatch ==
  /\ Doing("prune", "pruning") /\ batches < MaxBatches
  /\ \E b \in Batch :
       /\ Deletes(b)
       /\ IF Cardinality(b) < BatchSize
          THEN Report(Verdict(0, TRUE, Cardinality(gone')))
          ELSE UNCHANGED <<progress, verdict>>
  /\ batches' = batches + 1
  /\ UNCHANGED <<command, pool, failed, integrity, held>>

\* The deadline is looked at before a batch, the number of batches after it.
PruneEndsEarly ==
  /\ Doing("prune", "pruning")
  /\ Reports(Verdict(0, FALSE, Cardinality(gone)))

\* The batch may have been committed all the same.
PruneFails ==
  /\ Doing("prune", "pruning") /\ batches < MaxBatches
  /\ \/ \E b \in Batch : Deletes(b)
     \/ UNCHANGED <<gone, expired>>
  /\ Report(Unavailable)
  /\ UNCHANGED <<command, pool, failed, integrity, held, batches>>

\* Meanwhile keys are claimed again, records expire and others are locked.
OthersWork ==
  /\ progress = "pruning"
  /\ expired' \in SUBSET (Rows \ gone)
  /\ held' \in SUBSET expired'
  /\ UNCHANGED <<command, progress, pool, failed, integrity, gone, batches, verdict>>

OpsNext ==
  \/ Audit \/ StartOperation \/ StopOperation
  \/ RefuseMode \/ RunChecks \/ ChecksRaise \/ DoctorDeadline \/ CheckIntegrity
  \/ DryRun \/ ConfirmPrune \/ PruneBatch \/ PruneEndsEarly \/ PruneFails \/ OthersWork

OpsSpec == OpsInit /\ [][OpsNext]_opsVars

-----------------------------------------------------------------------------
(* Properties. *)

Confirmed == /\ command.name = "prune" /\ command.apply
             /\ command.database_confirmed /\ command.environment_confirmed

Exited(code, names) == progress = "exited" /\ verdict.code = code /\ command.name \in names

\* An exit code 0 is earned: the doctor ran every check and the integrity checker
\* finished and found nothing; what the audit lets pass the doctor does not call an
\* invalid configuration; and a prune counts what it deleted.  Records go only
\* when both confirmations match, none has gone when the pruner calls its use
\* wrong, the command leaves no connection open, and a prune that may have left
\* records behind on its own account does not call itself complete
\* (operations/persistence.py:371, cli/main.py:336, cli/main.py:424).
VerdictsAreEarned ==
  /\ gone # {} => Confirmed
  /\ progress = "exited" => pool # "open"
  /\ Exited(0, {"doctor", "integrity"}) =>
       failed = {} /\ integrity = "healthy" /\ verdict.complete
  /\ Exited(0, {"doctor"}) => PersistenceMode(command.config) = "postgres"
  /\ Exited(2, {"doctor"}) => AuditViolations(command.config) # {}
  /\ Exited(2, {"prune"}) => gone = {}
  /\ Exited(0, {"prune"}) /\ command.apply =>
       /\ verdict.count = Cardinality(gone)
       /\ verdict.complete => Cardinality(gone) < BatchSize * batches

=============================================================================
