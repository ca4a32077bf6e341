-------------------------- MODULE Operations_proof --------------------------
(***************************************************************************)
(* Theorems about Operations, for any commands, configurations, records    *)
(* and batches.                                                            *)
(***************************************************************************)
EXTENDS Operations, FiniteSetTheorems, TLAPS

-----------------------------------------------------------------------------
(* The inductive invariant. *)

OpsTypes ==
  /\ pool \in {"none", "open", "closed", "abandoned"}
  /\ gone \in SUBSET Rows /\ expired \in SUBSET Rows
  /\ batches \in Nat

Begun == progress \in {"configured", "connected", "checked"}

\* What a verdict says that has been given, or is still to be told.
Earned ==
  /\ verdict.code = 0 /\ command.name \in {"doctor", "integrity"} =>
       failed = {} /\ integrity = "healthy" /\ verdict.complete
  /\ verdict.code = 0 /\ command.name = "doctor" => PersistenceMode(command.config) = "postgres"
  /\ verdict.code = 2 /\ command.name = "doctor" => AuditViolations(command.config) # {}
  /\ verdict.code = 2 /\ command.name = "prune" => gone = {}
  /\ verdict.code = 0 /\ command.name = "prune" /\ command.apply =>
       /\ verdict.count = Cardinality(gone)
       /\ verdict.complete => Cardinality(gone) < BatchSize * batches

OpsInv ==
  /\ OpsTypes
  /\ gone # {} => Confirmed
  /\ Begun => gone = {} /\ batches = 0
  /\ progress = "configured" => pool = "none"
  /\ progress \in {"configured", "connected"} => failed = {}
  /\ progress # "none" => command.name = "doctor" \/ failed = {}
  /\ progress = "checked" =>
       command.name = "doctor" /\ PersistenceMode(command.config) = "postgres"
  /\ progress = "pruning" => Confirmed /\ Cardinality(gone) <= BatchSize * batches
  /\ progress \in {"stopping", "exited"} => Earned
  /\ progress = "exited" => pool # "open"

-----------------------------------------------------------------------------
(* Lemmas. *)

LEMMA OpsInitially == OpsInit => OpsInv
BY DEF OpsInit, OpsInv, OpsTypes, Begun

(* A verdict that is neither a success nor about the configuration is earned.   *)
LEMMA FailuresAreEarned ==
  ASSUME verdict'.code \notin {0, 2}
  PROVE  Earned'
BY DEF Earned

(* A configuration the doctor refuses is one the audit objects to.              *)
LEMMA DoctorAgreesWithAudit ==
  ASSUME NEW c, PersistenceMode(c) # "postgres"
  PROVE  AuditViolations(c) # {}
BY DEF AuditViolations

(* A healthy exit code of the doctor needs every check and a healthy database.  *)
LEMMA HealthyIsComplete ==
  ASSUME NEW checks, NEW found
  PROVE  /\ DoctorCode(checks, found) = 0 => checks = {} /\ found = "healthy"
         /\ DoctorCode(checks, found) # 2
<1>1. CASE checks = {}
  BY <1>1 DEF DoctorCode
<1>2. CASE "revision" \in checks
  BY <1>2 DEF DoctorCode
<1>3. CASE "revision" \notin checks /\ "tls" \in checks
  BY <1>3 DEF DoctorCode
<1>4. CASE checks # {} /\ "revision" \notin checks /\ "tls" \notin checks
  <2>1. checks \cap {"revision", "tls"} = {}
    BY <1>4
  <2>2. DoctorCode(checks, found) = 5
    BY <1>4, <2>1 DEF DoctorCode
  <2> QED
    BY <2>2
<1> QED
  BY <1>1, <1>2, <1>3, <1>4

(* A batch takes at most BatchSize records away.                                *)
LEMMA BatchBound ==
  ASSUME BatchAssumption, OpsTypes, NEW b \in Batch, Deletes(b)
  PROVE  /\ gone' \in SUBSET Rows /\ expired' \in SUBSET Rows
         /\ Cardinality(gone) \in Nat /\ Cardinality(gone') \in Nat /\ Cardinality(b) \in Nat
         /\ Cardinality(gone') <= Cardinality(gone) + Cardinality(b)
         /\ Cardinality(b) <= BatchSize
<1>1. b \in SUBSET Rows
  BY DEF OpsTypes, Batch, Deletable
<1>2. gone' = gone \cup b /\ expired' = expired \ b
  BY DEF Deletes
<1>3. IsFiniteSet(b) /\ IsFiniteSet(gone)
  BY <1>1, FS_Subset DEF BatchAssumption, OpsTypes
<1>4. /\ Cardinality(b) \in Nat /\ Cardinality(gone) \in Nat
      /\ Cardinality(gone \cap b) \in Nat /\ Cardinality(gone \cup b) \in Nat
  BY <1>3, FS_CardinalityType, FS_Union, FS_Intersection
<1>5. Cardinality(gone \cup b) = Cardinality(gone) + Cardinality(b) - Cardinality(gone \cap b)
  BY <1>3, FS_Union
<1>6. Cardinality(b) <= BatchSize
  BY <1>4 DEF Batch, BatchAssumption
<1> QED
  BY <1>1, <1>2, <1>4, <1>5, <1>6 DEF OpsTypes

(* One batch more is BatchSize records more.                                    *)
LEMMA NextBatch ==
  ASSUME NEW n \in Nat, NEW size \in Nat
  PROVE  size * (n + 1) = size * n + size /\ size * n \in Nat
OBVIOUS

-----------------------------------------------------------------------------
(* One lemma for each group of steps. *)

LEMMA AuditKeeps == ASSUME OpsInv, Audit PROVE OpsInv'
<1> USE DEF Audit, Doing, OpsInv
<1>1. Earned'
  BY DEF Earned
<1>2. Confirmed' = Confirmed
  BY DEF Confirmed
<1> QED
  BY <1>1, <1>2 DEF OpsTypes, Begun

LEMMA StartKeeps == ASSUME OpsInv, StartOperation PROVE OpsInv'
<1>1. progress' = "exited" => Earned'
  <2>1. CASE verdict' = Misused /\ command.name = "prune"
    <3>1. verdict'.code = 2 /\ gone' = {} /\ command'.name = "prune"
      BY <2>1 DEF StartOperation, OpsInv, Begun, Misused, Verdict
    <3> QED
      BY <3>1 DEF Earned
  <2>2. CASE verdict' = Unavailable
    BY <2>2, FailuresAreEarned DEF Unavailable, Verdict
  <2> QED
    BY <2>1, <2>2 DEF StartOperation
<1>2. Confirmed' = Confirmed
  BY DEF StartOperation, Confirmed
<1> QED
  BY <1>1, <1>2 DEF StartOperation, OpsInv, OpsTypes, Begun

LEMMA StopKeeps == ASSUME OpsInv, StopOperation PROVE OpsInv'
<1>1. CASE UNCHANGED verdict
  BY <1>1 DEF StopOperation, OpsInv, OpsTypes, Begun, Earned, Confirmed
<1>2. CASE verdict' = Unavailable
  <2>1. Earned'
    BY <1>2, FailuresAreEarned DEF Unavailable, Verdict
  <2> QED
    BY <2>1 DEF StopOperation, OpsInv, OpsTypes, Begun, Confirmed
<1> QED
  BY <1>1, <1>2 DEF StopOperation

(* A report that changes nothing but what is told has only to be earned.        *)
LEMMA ReportKeeps ==
  ASSUME OpsInv, NEW v, Reports(v), Earned', progress \in {"connected", "checked", "pruning"}
  PROVE  OpsInv'
<1> USE DEF Reports, Report, OpsInv
<1>1. Confirmed' = Confirmed
  BY DEF Confirmed
<1> QED
  BY <1>1 DEF OpsTypes, Begun

LEMMA DoctorKeeps ==
  ASSUME OpsInv, RefuseMode \/ RunChecks \/ ChecksRaise \/ DoctorDeadline
  PROVE  OpsInv'
<1>1. CASE RefuseMode
  <2>1. command.name = "doctor" /\ progress = "connected" /\ Reports(Verdict(2, TRUE, 0))
    BY <1>1 DEF RefuseMode, Doing
  <2>2. AuditViolations(command.config) # {}
    BY <1>1, DoctorAgreesWithAudit DEF RefuseMode
  <2>3. verdict'.code = 2 /\ command' = command
    BY <2>1 DEF Reports, Report, Verdict
  <2>4. Earned'
    BY <2>1, <2>2, <2>3 DEF Earned
  <2> QED
    BY <2>1, <2>4, ReportKeeps
<1>2. CASE RunChecks
  BY <1>2 DEF RunChecks, Doing, OpsInv, OpsTypes, Begun, Confirmed
<1>3. CASE ChecksRaise
  <2>1. progress = "connected" /\ Reports(Verdict(3, TRUE, 0))
    BY <1>3 DEF ChecksRaise, Doing
  <2>2. Earned'
    BY <2>1, FailuresAreEarned DEF Reports, Report, Verdict
  <2> QED
    BY <2>1, <2>2, ReportKeeps
<1>4. CASE DoctorDeadline
  <2>1. progress \in {"connected", "checked"} /\ Reports(Verdict(5, FALSE, 0))
    BY <1>4 DEF DoctorDeadline, Doing
  <2>2. Earned'
    BY <2>1, FailuresAreEarned DEF Reports, Report, Verdict
  <2> QED
    BY <2>1, <2>2, ReportKeeps
<1> QED
  BY <1>1, <1>2, <1>3, <1>4

LEMMA IntegrityKeeps == ASSUME OpsInv, CheckIntegrity PROVE OpsInv'
<1>1. /\ progress \in {"connected", "checked"} /\ progress' = "stopping"
      /\ UNCHANGED <<command, pool, failed, expired, held, gone, batches>>
      /\ (command.name = "doctor" /\ progress = "checked") \/ command.name = "integrity"
  BY DEF CheckIntegrity, Report, Doing
<1>2. Earned'
  <2>1. CASE Report(Unavailable)
    BY <2>1, FailuresAreEarned DEF Report, Unavailable, Verdict
  <2>2. ASSUME NEW code, integrity' \in {"healthy", "unhealthy", "incomplete"},
               code = IF command.name = "doctor" THEN DoctorCode(failed, integrity')
                      ELSE IF integrity' = "healthy" THEN 0 ELSE 5,
               Report(Verdict(code, integrity' # "incomplete", 0))
        PROVE  Earned'
    <3>1. verdict'.code = code /\ verdict'.complete = (integrity' # "incomplete")
      BY <2>2 DEF Report, Verdict
    <3>2. command.name = "integrity" => failed = {}
      BY <1>1 DEF OpsInv
    <3>3. CASE command.name = "doctor"
      <4>1. code = 0 => failed = {} /\ integrity' = "healthy"
        BY <2>2, <3>3, HealthyIsComplete
      <4>2. code # 2
        BY <2>2, <3>3, HealthyIsComplete
      <4>3. PersistenceMode(command.config) = "postgres"
        BY <1>1, <3>3 DEF OpsInv
      <4> QED
        BY <1>1, <3>1, <3>3, <4>1, <4>2, <4>3 DEF Earned
    <3>4. CASE command.name = "integrity"
      <4>1. code \in {0, 5} /\ (code = 0 => integrity' = "healthy")
        BY <2>2, <3>4
      <4>2. verdict'.code = 0 => failed' = {} /\ integrity' = "healthy" /\ verdict'.complete
        BY <1>1, <3>1, <3>2, <3>4, <4>1
      <4>3. command'.name = "integrity" /\ verdict'.code # 2
        BY <1>1, <3>1, <3>4, <4>1
      <4> QED
        BY <4>2, <4>3 DEF Earned
    <3> QED
      BY <1>1, <3>3, <3>4
  <2> QED
    BY <2>1, <2>2 DEF CheckIntegrity
<1> QED
  BY <1>1, <1>2 DEF OpsInv, OpsTypes, Begun, Confirmed

LEMMA ConfirmKeeps == ASSUME OpsInv, DryRun \/ ConfirmPrune PROVE OpsInv'
<1>1. progress = "connected" /\ command.name = "prune"
  BY DEF DryRun, ConfirmPrune, Doing
<1>2. CASE DryRun
  <2>1. PICK v \in {Verdict(0, TRUE, Cardinality(expired)), Unavailable} : Reports(v) /\ ~command.apply
    BY <1>2 DEF DryRun
  <2>a. verdict'.code \in {0, 3} /\ command' = command
    BY <2>1 DEF Reports, Report, Verdict, Unavailable
  <2>2. Earned'
    BY <1>1, <2>1, <2>a DEF Earned
  <2> QED
    BY <1>1, <2>1, <2>2, ReportKeeps
<1>3. CASE ConfirmPrune /\ progress' = "pruning"
  <2>1. /\ Confirmed /\ Confirmed' /\ gone = {} /\ gone' = {} /\ batches' = 0
        /\ UNCHANGED <<pool, failed, expired, command>>
    BY <1>1, <1>3 DEF ConfirmPrune, Reports, Report, Confirmed, OpsInv, Begun
  <2>2. Cardinality(gone') <= BatchSize * batches'
    <3>1. Cardinality(gone') = 0
      BY <2>1, FS_EmptySet
    <3>2. BatchSize * 0 = 0
      BY BatchAssumption DEF BatchAssumption
    <3> QED
      BY <2>1, <3>1, <3>2
  <2> QED
    BY <1>1, <1>3, <2>1, <2>2 DEF OpsInv, OpsTypes, Begun, Confirmed
<1>4. CASE ConfirmPrune /\ progress' # "pruning"
  <2>1. PICK v \in {Misused, Unavailable} : Reports(v)
    BY <1>4 DEF ConfirmPrune
  <2>2. verdict'.code \in {2, 3} /\ gone' = {} /\ command'.name = "prune"
    BY <1>1, <2>1 DEF Reports, Report, Verdict, Unavailable, Misused, OpsInv, Begun
  <2>3. Earned'
    BY <2>2 DEF Earned
  <2> QED
    BY <1>1, <2>1, <2>3, ReportKeeps
<1> QED
  BY <1>2, <1>3, <1>4

LEMMA PruneKeeps ==
  ASSUME OpsInv, PruneBatch \/ PruneEndsEarly \/ PruneFails \/ OthersWork
  PROVE  OpsInv'
<1> USE BatchAssumption
<1>1. progress = "pruning" /\ Confirmed /\ OpsTypes /\ Cardinality(gone) <= BatchSize * batches
  BY DEF PruneBatch, PruneEndsEarly, PruneFails, OthersWork, Doing, OpsInv
<1>2. command.name = "prune" /\ failed = {} /\ batches \in Nat /\ BatchSize \in Nat
  BY <1>1 DEF Confirmed, OpsInv, OpsTypes, BatchAssumption
<1>3. CASE PruneBatch
  <2>1. PICK b \in Batch :
          /\ Deletes(b)
          /\ IF Cardinality(b) < BatchSize THEN Report(Verdict(0, TRUE, Cardinality(gone')))
             ELSE UNCHANGED <<progress, verdict>>
    BY <1>3 DEF PruneBatch
  <2>2. batches' = batches + 1 /\ UNCHANGED <<command, pool, failed>>
    BY <1>3 DEF PruneBatch
  <2>3. /\ BatchSize * batches' = BatchSize * batches + BatchSize
        /\ BatchSize * batches \in Nat
    BY <1>2, <2>2, NextBatch
  <2>4. /\ gone' \in SUBSET Rows /\ expired' \in SUBSET Rows
        /\ Cardinality(gone) \in Nat /\ Cardinality(gone') \in Nat /\ Cardinality(b) \in Nat
        /\ Cardinality(gone') <= Cardinality(gone) + Cardinality(b)
        /\ Cardinality(b) <= BatchSize
    BY <1>1, <2>1, BatchBound
  <2>5. Cardinality(gone') <= BatchSize * batches'
    BY <1>1, <1>2, <2>3, <2>4
  <2>6. Confirmed' /\ OpsTypes'
    BY <1>1, <1>2, <2>2, <2>4 DEF Confirmed, OpsTypes
  <2>7. CASE Cardinality(b) < BatchSize
    <3>1. progress' = "stopping" /\ verdict' = Verdict(0, TRUE, Cardinality(gone'))
      BY <2>1, <2>7 DEF Report
    <3>2. Cardinality(gone') < BatchSize * batches'
      BY <1>1, <1>2, <2>3, <2>4, <2>7
    <3>3. Earned'
      BY <1>2, <2>2, <3>1, <3>2 DEF Earned, Verdict
    <3> QED
      BY <1>2, <2>2, <2>6, <3>1, <3>3 DEF OpsInv, Begun
  <2>8. CASE ~(Cardinality(b) < BatchSize)
    <3>1. UNCHANGED <<progress, verdict>>
      BY <2>1, <2>8
    <3> QED
      BY <1>1, <1>2, <2>2, <2>5, <2>6, <3>1 DEF OpsInv, Begun
  <2> QED
    BY <2>7, <2>8
<1>4. CASE PruneEndsEarly
  <2>1. Reports(Verdict(0, FALSE, Cardinality(gone)))
    BY <1>4 DEF PruneEndsEarly
  <2>2. Earned'
    BY <1>2, <2>1 DEF Earned, Reports, Report, Verdict
  <2> QED
    BY <1>1, <2>1, <2>2, ReportKeeps
<1>5. CASE PruneFails
  <2>1. Earned'
    BY <1>5, FailuresAreEarned DEF PruneFails, Report, Unavailable, Verdict
  <2>2. gone' \in SUBSET Rows /\ expired' \in SUBSET Rows
    BY <1>1, <1>5, BatchBound DEF PruneFails, OpsTypes
  <2>3. progress' = "stopping" /\ UNCHANGED <<command, pool, failed, batches>>
    BY <1>5 DEF PruneFails, Report
  <2> QED
    BY <1>1, <1>2, <2>1, <2>2, <2>3 DEF OpsInv, OpsTypes, Begun, Confirmed
<1>6. CASE OthersWork
  <2>1. /\ expired' \in SUBSET Rows
        /\ UNCHANGED <<command, progress, pool, failed, gone, batches>>
    BY <1>6 DEF OthersWork
  <2> QED
    BY <1>1, <1>2, <2>1 DEF OpsInv, OpsTypes, Begun, Confirmed
<1> QED
  BY <1>3, <1>4, <1>5, <1>6

LEMMA OpsStepKeeps == OpsInv /\ [OpsNext]_opsVars => OpsInv'
<1> SUFFICES ASSUME OpsInv, [OpsNext]_opsVars PROVE OpsInv'
  OBVIOUS
<1>1. CASE UNCHANGED opsVars
  BY <1>1 DEF opsVars, OpsInv, OpsTypes, Begun, Confirmed, Earned
<1>2. CASE OpsNext
  BY <1>2, AuditKeeps, StartKeeps, StopKeeps, DoctorKeeps, IntegrityKeeps, ConfirmKeeps, PruneKeeps
     DEF OpsNext
<1> QED
  BY <1>1, <1>2

LEMMA OpsInvEarns == OpsInv => VerdictsAreEarned
BY DEF OpsInv, Earned, Exited, VerdictsAreEarned

-----------------------------------------------------------------------------

(* What a command reports, it did: no exit code 0 without the checks behind it, *)
(* no deletion without both confirmations or behind a wrong use, no connection  *)
(* left open (operations/persistence.py:371, cli/main.py:336).                  *)
THEOREM CommandsEarnTheirVerdicts == OpsSpec => []VerdictsAreEarned
<1>1. OpsSpec => []OpsInv
  BY OpsInitially, OpsStepKeeps, PTL DEF OpsSpec
<1> QED
  BY <1>1, OpsInvEarns, PTL

=============================================================================
