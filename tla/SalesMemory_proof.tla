-------------------------- MODULE SalesMemory_proof --------------------------
(***************************************************************************)
(* The theorems about SalesMemory, for any number of customers, names and  *)
(* interactions.                                                           *)
(***************************************************************************)
EXTENDS SalesMemory, TLAPS

-----------------------------------------------------------------------------
(* The inductive invariant. *)

\* What the operation in progress carries from one step to the next.
OpInv ==
  /\ op.step \in {"saving", "copying", "writing", "syncing", "restoring"} => Whole(op.doc)
  /\ At("syncing") => Whole(profile[op.customer])
  /\ At("restoring") => op.doc = backup[op.customer]
  /\ At("unlinking") => trash[op.customer] = profile[op.customer]
  /\ At("writing") /\ faults = 0 /\ Exists(profile[op.customer])
       => backup[op.customer] = profile[op.customer]

\* A profile is cut only by a restore, and stays so only if that is interrupted.
TornInv ==
  \A c \in Customers :
    profile[c].state \in {"torn", "garbled"} =>
      faults >= 1 \/ (At("restoring") /\ op.customer = c)

\* A save that is about to replace the only readable copy has it in memory.
ReadableInv ==
  faults <= 1 =>
    \A c \in Customers :
      Exists(profile[c]) =>
        \/ Whole(profile[c])
        \/ Whole(backup[c])
        \/ op.customer = c /\ op.step \in {"saving", "copying", "writing"}

\* An alias leads to a profile, or to the one that is being deleted.
AliasInv ==
  faults = 0 =>
    \A n \in Names :
      aliases[n] # None =>
        Exists(profile[aliases[n]]) \/ (At("unmapping") /\ op.customer = aliases[n])

\* Every name and alias that can come back was claimed.
Claimed(file, c) ==
  Whole(file) => file.name \in Names /\ \A n \in NamesOf(file) : c \in claims[n]

ClaimInv ==
  /\ \A c \in Customers : Claimed(profile[c], c) /\ Claimed(backup[c], c)
  /\ \A n \in Names : aliases[n] # None => aliases[n] \in claims[n]
  /\ Whole(op.doc) => op.doc.name \in Names
  /\ At("syncing") => Claimed(op.doc, op.customer)

IInv ==
  TypeOK /\ OpInv /\ TornInv /\ ReadableInv /\ AliasInv /\ ClaimInv /\ IndexCatchesUp

-----------------------------------------------------------------------------
(* The steps, as the proofs split them. *)

StartsSave ==
  \E c \in Customers, doc \in FileType :
    Whole(doc) /\ doc.name \in Names /\ BeginSave(c, doc)

StoreStep ==
  \/ StartsSave
  \/ \E c \in Customers : BeginDelete(c)
  \/ \E c \in Customers : BeginRestore(c)
  \/ Proceed \/ CarriesOn \/ Interrupted

InteractionStep ==
  \/ \E c \in Customers, i \in Ids :
       Interactions!Remove(c, i) \/ \E d \in Dates : Interactions!Record(c, i, d)
  \/ Interactions!RefreshIndex
  \/ Interactions!IndexInterrupted

\* A store step keeps the types of the files.
LEMMA StoreTypeStep ==
  ASSUME StoreTypeOK, StoreStep
  PROVE  StoreTypeOK'
<1>1. CASE StartsSave
  BY <1>1, NoneAssumption
    DEF StartsSave, BeginSave, Bumped, At, StoreTypeOK, FileType, Steps, Whole,
        Exists
<1>2. ASSUME NEW c \in Customers, BeginDelete(c) PROVE StoreTypeOK'
  BY <1>2, NoneAssumption
    DEF BeginDelete, At, Idle, NoFile, TornFile, Exists, StoreTypeOK, FileType,
        Steps, Whole
<1>3. ASSUME NEW c \in Customers, BeginRestore(c) PROVE StoreTypeOK'
  BY <1>3, NoneAssumption
    DEF BeginRestore, BackupAfterRestore, At, NoFile, TornFile, Whole, StoreTypeOK,
        FileType, Steps, Exists
<1>4. CASE SkipBackup
  BY <1>4, NoneAssumption
    DEF SkipBackup, At, GoTo, Exists, StoreTypeOK, FileType, Steps, Whole
<1>5. CASE OpenBackup
  BY <1>5, NoneAssumption
    DEF OpenBackup, At, GoTo, Exists, TornFile, NoFile, StoreTypeOK, FileType,
        Steps, Whole
<1>6. CASE WriteBackup
  BY <1>6, NoneAssumption
    DEF WriteBackup, Copied, At, GoTo, StoreTypeOK, FileType, Steps, Whole, Exists
<1>7. CASE BackupFails
  BY <1>7, NoneAssumption
    DEF BackupFails, At, GoTo, Exists, StoreTypeOK, FileType, Steps, Whole
<1>8. CASE ReplaceProfile
  BY <1>8, NoneAssumption
    DEF ReplaceProfile, At, GoTo, NamesOf, StoreTypeOK, FileType, Steps, Whole,
        Exists
<1>9. CASE SyncAliases
  BY <1>9, NoneAssumption
    DEF SyncAliases, Synced, At, Idle, NoFile, NamesOf, StoreTypeOK, FileType,
        Steps, Whole, Exists
<1>10. CASE WriteTrash
  BY <1>10, NoneAssumption
    DEF WriteTrash, Copied, At, GoTo, StoreTypeOK, FileType, Steps, Whole, Exists
<1>11. CASE Unlink
  BY <1>11, NoneAssumption
    DEF Unlink, At, GoTo, NoFile, StoreTypeOK, FileType, Steps, Whole, Exists
<1>12. CASE RemoveAliases
  BY <1>12, NoneAssumption
    DEF RemoveAliases, Unmapped, At, Idle, NoFile, StoreTypeOK, FileType, Steps,
        Whole, Exists
<1>13. CASE FinishRestore
  BY <1>13, NoneAssumption
    DEF FinishRestore, At, Idle, NoFile, StoreTypeOK, FileType, Steps, Whole, Exists
<1>14. CASE Interrupted
  <2>1. GarbledFile \in FileType /\ NoFile \in FileType
    BY DEF GarbledFile, NoFile, FileType
  <2>2. profile' \in [Customers -> FileType]
    BY <1>14, <2>1 DEF Interrupted, StoreTypeOK
  <2>3. op' = [step |-> "idle", customer |-> None, doc |-> NoFile] /\ faults' = faults + 1
    BY <1>14 DEF Interrupted, Idle
  <2> QED
    BY <1>14, <2>1, <2>2, <2>3 DEF Interrupted, StoreTypeOK, Steps, At
<1>15. CASE SyncUnread
  BY <1>15, NoneAssumption
    DEF SyncUnread, Synced, NoAliases, At, Idle, NoFile, NamesOf, StoreTypeOK,
        FileType, Steps, Whole, Exists
<1>16. CASE RemoveUnread
  BY <1>16, NoneAssumption
    DEF RemoveUnread, NoAliases, At, Idle, NoFile, StoreTypeOK, FileType, Steps,
        Whole, Exists
<1> QED
  BY <1>1, <1>2, <1>3, <1>4, <1>5, <1>6, <1>7, <1>8, <1>9, <1>10, <1>11, <1>12,
     <1>13, <1>14, <1>15, <1>16
  DEF StoreStep, Proceed, CarriesOn

\* A store step keeps what the operation in progress relies on.
LEMMA OpStep ==
  ASSUME StoreTypeOK, StoreTypeOK', OpInv, StoreStep
  PROVE  OpInv'
<1>1. CASE StartsSave
  BY <1>1, NoneAssumption
    DEF StartsSave, BeginSave, Bumped, At, OpInv, StoreTypeOK, FileType, Steps,
        Whole, Exists
<1>2. ASSUME NEW c \in Customers, BeginDelete(c) PROVE OpInv'
  BY <1>2, NoneAssumption
    DEF BeginDelete, At, Idle, NoFile, TornFile, Exists, OpInv, StoreTypeOK,
        FileType, Steps, Whole
<1>3. ASSUME NEW c \in Customers, BeginRestore(c) PROVE OpInv'
  BY <1>3, NoneAssumption
    DEF BeginRestore, BackupAfterRestore, At, NoFile, TornFile, Whole, OpInv,
        StoreTypeOK, FileType, Steps, Exists
<1>4. CASE SkipBackup
  BY <1>4, NoneAssumption
    DEF SkipBackup, At, GoTo, Exists, OpInv, StoreTypeOK, FileType, Steps, Whole
<1>5. CASE OpenBackup
  BY <1>5, NoneAssumption
    DEF OpenBackup, At, GoTo, Exists, TornFile, NoFile, OpInv, StoreTypeOK,
        FileType, Steps, Whole
<1>6. CASE WriteBackup
  BY <1>6, NoneAssumption
    DEF WriteBackup, Copied, At, GoTo, OpInv, StoreTypeOK, FileType, Steps, Whole,
        Exists
<1>7. CASE BackupFails
  BY <1>7, NoneAssumption
    DEF BackupFails, At, GoTo, Exists, OpInv, StoreTypeOK, FileType, Steps, Whole
<1>8. CASE ReplaceProfile
  BY <1>8, NoneAssumption
    DEF ReplaceProfile, At, GoTo, NamesOf, OpInv, StoreTypeOK, FileType, Steps,
        Whole, Exists
<1>9. CASE SyncAliases
  BY <1>9, NoneAssumption
    DEF SyncAliases, Synced, At, Idle, NoFile, NamesOf, OpInv, StoreTypeOK,
        FileType, Steps, Whole, Exists
<1>10. CASE WriteTrash
  BY <1>10, NoneAssumption
    DEF WriteTrash, Copied, At, GoTo, OpInv, StoreTypeOK, FileType, Steps, Whole,
        Exists
<1>11. CASE Unlink
  BY <1>11, NoneAssumption
    DEF Unlink, At, GoTo, NoFile, OpInv, StoreTypeOK, FileType, Steps, Whole, Exists
<1>12. CASE RemoveAliases
  BY <1>12, NoneAssumption
    DEF RemoveAliases, Unmapped, At, Idle, NoFile, OpInv, StoreTypeOK, FileType,
        Steps, Whole, Exists
<1>13. CASE FinishRestore
  BY <1>13, NoneAssumption
    DEF FinishRestore, At, Idle, NoFile, OpInv, StoreTypeOK, FileType, Steps, Whole,
        Exists
<1>14. CASE Interrupted
  BY <1>14, NoneAssumption
    DEF Interrupted, GarbledFile, At, Idle, NoFile, OpInv, StoreTypeOK, FileType,
        Steps, Whole, Exists
<1>15. CASE SyncUnread
  BY <1>15, NoneAssumption
    DEF SyncUnread, Synced, NoAliases, At, Idle, NoFile, NamesOf, OpInv,
        StoreTypeOK, FileType, Steps, Whole, Exists
<1>16. CASE RemoveUnread
  BY <1>16, NoneAssumption
    DEF RemoveUnread, NoAliases, At, Idle, NoFile, OpInv, StoreTypeOK, FileType,
        Steps, Whole, Exists
<1> QED
  BY <1>1, <1>2, <1>3, <1>4, <1>5, <1>6, <1>7, <1>8, <1>9, <1>10, <1>11, <1>12,
     <1>13, <1>14, <1>15, <1>16
  DEF StoreStep, Proceed, CarriesOn

\* A store step tears a profile only in a restore.
LEMMA TornStep ==
  ASSUME StoreTypeOK, StoreTypeOK', OpInv, TornInv, StoreStep
  PROVE  TornInv'
<1>1. CASE StartsSave
  BY <1>1, NoneAssumption
    DEF StartsSave, BeginSave, Bumped, At, OpInv, TornInv, StoreTypeOK, FileType,
        Steps, Whole, Exists
<1>2. ASSUME NEW c \in Customers, BeginDelete(c) PROVE TornInv'
  BY <1>2, NoneAssumption
    DEF BeginDelete, At, Idle, NoFile, TornFile, Exists, OpInv, TornInv,
        StoreTypeOK, FileType, Steps, Whole
<1>3. ASSUME NEW c \in Customers, BeginRestore(c) PROVE TornInv'
  BY <1>3, NoneAssumption
    DEF BeginRestore, BackupAfterRestore, At, NoFile, TornFile, Whole, OpInv,
        TornInv, StoreTypeOK, FileType, Steps, Exists
<1>4. CASE SkipBackup
  BY <1>4, NoneAssumption
    DEF SkipBackup, At, GoTo, Exists, OpInv, TornInv, StoreTypeOK, FileType, Steps,
        Whole
<1>5. CASE OpenBackup
  BY <1>5, NoneAssumption
    DEF OpenBackup, At, GoTo, Exists, TornFile, NoFile, OpInv, TornInv, StoreTypeOK,
        FileType, Steps, Whole
<1>6. CASE WriteBackup
  BY <1>6, NoneAssumption
    DEF WriteBackup, Copied, At, GoTo, OpInv, TornInv, StoreTypeOK, FileType, Steps,
        Whole, Exists
<1>7. CASE BackupFails
  BY <1>7, NoneAssumption
    DEF BackupFails, At, GoTo, Exists, OpInv, TornInv, StoreTypeOK, FileType, Steps,
        Whole
<1>8. CASE ReplaceProfile
  BY <1>8, NoneAssumption
    DEF ReplaceProfile, At, GoTo, NamesOf, OpInv, TornInv, StoreTypeOK, FileType,
        Steps, Whole, Exists
<1>9. CASE SyncAliases
  BY <1>9, NoneAssumption
    DEF SyncAliases, Synced, At, Idle, NoFile, NamesOf, OpInv, TornInv, StoreTypeOK,
        FileType, Steps, Whole, Exists
<1>10. CASE WriteTrash
  BY <1>10, NoneAssumption
    DEF WriteTrash, Copied, At, GoTo, OpInv, TornInv, StoreTypeOK, FileType, Steps,
        Whole, Exists
<1>11. CASE Unlink
  BY <1>11, NoneAssumption
    DEF Unlink, At, GoTo, NoFile, OpInv, TornInv, StoreTypeOK, FileType, Steps,
        Whole, Exists
<1>12. CASE RemoveAliases
  BY <1>12, NoneAssumption
    DEF RemoveAliases, Unmapped, At, Idle, NoFile, OpInv, TornInv, StoreTypeOK,
        FileType, Steps, Whole, Exists
<1>13. CASE FinishRestore
  BY <1>13, NoneAssumption
    DEF FinishRestore, At, Idle, NoFile, OpInv, TornInv, StoreTypeOK, FileType,
        Steps, Whole, Exists
<1>14. CASE Interrupted
  BY <1>14, NoneAssumption
    DEF Interrupted, GarbledFile, At, Idle, NoFile, OpInv, TornInv, StoreTypeOK,
        FileType, Steps, Whole, Exists
<1>15. CASE SyncUnread
  BY <1>15, NoneAssumption
    DEF SyncUnread, Synced, NoAliases, At, Idle, NoFile, NamesOf, OpInv, TornInv,
        StoreTypeOK, FileType, Steps, Whole, Exists
<1>16. CASE RemoveUnread
  BY <1>16, NoneAssumption
    DEF RemoveUnread, NoAliases, At, Idle, NoFile, OpInv, TornInv, StoreTypeOK,
        FileType, Steps, Whole, Exists
<1> QED
  BY <1>1, <1>2, <1>3, <1>4, <1>5, <1>6, <1>7, <1>8, <1>9, <1>10, <1>11, <1>12,
     <1>13, <1>14, <1>15, <1>16
  DEF StoreStep, Proceed, CarriesOn

\* A store step leaves a readable copy.
LEMMA ReadableStep ==
  ASSUME StoreTypeOK, StoreTypeOK', OpInv, TornInv, ReadableInv, StoreStep
  PROVE  ReadableInv'
<1>1. CASE StartsSave
  BY <1>1, NoneAssumption
    DEF StartsSave, BeginSave, Bumped, At, OpInv, TornInv, ReadableInv, StoreTypeOK,
        FileType, Steps, Whole, Exists
<1>2. ASSUME NEW c \in Customers, BeginDelete(c) PROVE ReadableInv'
  BY <1>2, NoneAssumption
    DEF BeginDelete, At, Idle, NoFile, TornFile, Exists, OpInv, TornInv,
        ReadableInv, StoreTypeOK, FileType, Steps, Whole
<1>3. ASSUME NEW c \in Customers, BeginRestore(c) PROVE ReadableInv'
  BY <1>3, NoneAssumption
    DEF BeginRestore, BackupAfterRestore, At, NoFile, TornFile, Whole, OpInv,
        TornInv, ReadableInv, StoreTypeOK, FileType, Steps, Exists
<1>4. CASE SkipBackup
  BY <1>4, NoneAssumption
    DEF SkipBackup, At, GoTo, Exists, OpInv, TornInv, ReadableInv, StoreTypeOK,
        FileType, Steps, Whole
<1>5. CASE OpenBackup
  BY <1>5, NoneAssumption
    DEF OpenBackup, At, GoTo, Exists, TornFile, NoFile, OpInv, TornInv, ReadableInv,
        StoreTypeOK, FileType, Steps, Whole
<1>6. CASE WriteBackup
  BY <1>6, NoneAssumption
    DEF WriteBackup, Copied, At, GoTo, OpInv, TornInv, ReadableInv, StoreTypeOK,
        FileType, Steps, Whole, Exists
<1>7. CASE BackupFails
  BY <1>7, NoneAssumption
    DEF BackupFails, At, GoTo, Exists, OpInv, TornInv, ReadableInv, StoreTypeOK,
        FileType, Steps, Whole
<1>8. CASE ReplaceProfile
  BY <1>8, NoneAssumption
    DEF ReplaceProfile, At, GoTo, NamesOf, OpInv, TornInv, ReadableInv, StoreTypeOK,
        FileType, Steps, Whole, Exists
<1>9. CASE SyncAliases
  BY <1>9, NoneAssumption
    DEF SyncAliases, Synced, At, Idle, NoFile, NamesOf, OpInv, TornInv, ReadableInv,
        StoreTypeOK, FileType, Steps, Whole, Exists
<1>10. CASE WriteTrash
  BY <1>10, NoneAssumption
    DEF WriteTrash, Copied, At, GoTo, OpInv, TornInv, ReadableInv, StoreTypeOK,
        FileType, Steps, Whole, Exists
<1>11. CASE Unlink
  BY <1>11, NoneAssumption
    DEF Unlink, At, GoTo, NoFile, OpInv, TornInv, ReadableInv, StoreTypeOK,
        FileType, Steps, Whole, Exists
<1>12. CASE RemoveAliases
  BY <1>12, NoneAssumption
    DEF RemoveAliases, Unmapped, At, Idle, NoFile, OpInv, TornInv, ReadableInv,
        StoreTypeOK, FileType, Steps, Whole, Exists
<1>13. CASE FinishRestore
  BY <1>13, NoneAssumption
    DEF FinishRestore, At, Idle, NoFile, OpInv, TornInv, ReadableInv, StoreTypeOK,
        FileType, Steps, Whole, Exists
<1>14. CASE Interrupted
  BY <1>14, NoneAssumption
    DEF Interrupted, GarbledFile, At, Idle, NoFile, OpInv, TornInv, ReadableInv,
        StoreTypeOK, FileType, Steps, Whole, Exists
<1>15. CASE SyncUnread
  BY <1>15, NoneAssumption
    DEF SyncUnread, Synced, NoAliases, At, Idle, NoFile, NamesOf, OpInv, TornInv,
        ReadableInv, StoreTypeOK, FileType, Steps, Whole, Exists
<1>16. CASE RemoveUnread
  BY <1>16, NoneAssumption
    DEF RemoveUnread, NoAliases, At, Idle, NoFile, OpInv, TornInv, ReadableInv,
        StoreTypeOK, FileType, Steps, Whole, Exists
<1> QED
  BY <1>1, <1>2, <1>3, <1>4, <1>5, <1>6, <1>7, <1>8, <1>9, <1>10, <1>11, <1>12,
     <1>13, <1>14, <1>15, <1>16
  DEF StoreStep, Proceed, CarriesOn

\* A store step leaves no alias dangling unless something failed.
LEMMA AliasStep ==
  ASSUME StoreTypeOK, StoreTypeOK', OpInv, AliasInv, StoreStep
  PROVE  AliasInv'
<1>1. CASE StartsSave
  BY <1>1, NoneAssumption
    DEF StartsSave, BeginSave, Bumped, At, OpInv, AliasInv, StoreTypeOK, FileType,
        Steps, Whole, Exists
<1>2. ASSUME NEW c \in Customers, BeginDelete(c) PROVE AliasInv'
  BY <1>2, NoneAssumption
    DEF BeginDelete, At, Idle, NoFile, TornFile, Exists, OpInv, AliasInv,
        StoreTypeOK, FileType, Steps, Whole
<1>3. ASSUME NEW c \in Customers, BeginRestore(c) PROVE AliasInv'
  BY <1>3, NoneAssumption
    DEF BeginRestore, BackupAfterRestore, At, NoFile, TornFile, Whole, OpInv,
        AliasInv, StoreTypeOK, FileType, Steps, Exists
<1>4. CASE SkipBackup
  BY <1>4, NoneAssumption
    DEF SkipBackup, At, GoTo, Exists, OpInv, AliasInv, StoreTypeOK, FileType, Steps,
        Whole
<1>5. CASE OpenBackup
  BY <1>5, NoneAssumption
    DEF OpenBackup, At, GoTo, Exists, TornFile, NoFile, OpInv, AliasInv,
        StoreTypeOK, FileType, Steps, Whole
<1>6. CASE WriteBackup
  BY <1>6, NoneAssumption
    DEF WriteBackup, Copied, At, GoTo, OpInv, AliasInv, StoreTypeOK, FileType,
        Steps, Whole, Exists
<1>7. CASE BackupFails
  BY <1>7, NoneAssumption
    DEF BackupFails, At, GoTo, Exists, OpInv, AliasInv, StoreTypeOK, FileType,
        Steps, Whole
<1>8. CASE ReplaceProfile
  BY <1>8, NoneAssumption
    DEF ReplaceProfile, At, GoTo, NamesOf, OpInv, AliasInv, StoreTypeOK, FileType,
        Steps, Whole, Exists
<1>9. CASE SyncAliases
  BY <1>9, NoneAssumption
    DEF SyncAliases, Synced, At, Idle, NoFile, NamesOf, OpInv, AliasInv,
        StoreTypeOK, FileType, Steps, Whole, Exists
<1>10. CASE WriteTrash
  BY <1>10, NoneAssumption
    DEF WriteTrash, Copied, At, GoTo, OpInv, AliasInv, StoreTypeOK, FileType, Steps,
        Whole, Exists
<1>11. CASE Unlink
  BY <1>11, NoneAssumption
    DEF Unlink, At, GoTo, NoFile, OpInv, AliasInv, StoreTypeOK, FileType, Steps,
        Whole, Exists
<1>12. CASE RemoveAliases
  BY <1>12, NoneAssumption
    DEF RemoveAliases, Unmapped, At, Idle, NoFile, OpInv, AliasInv, StoreTypeOK,
        FileType, Steps, Whole, Exists
<1>13. CASE FinishRestore
  BY <1>13, NoneAssumption
    DEF FinishRestore, At, Idle, NoFile, OpInv, AliasInv, StoreTypeOK, FileType,
        Steps, Whole, Exists
<1>14. CASE Interrupted
  BY <1>14, NoneAssumption
    DEF Interrupted, GarbledFile, At, Idle, NoFile, OpInv, AliasInv, StoreTypeOK,
        FileType, Steps, Whole, Exists
<1>15. CASE SyncUnread
  BY <1>15, NoneAssumption
    DEF SyncUnread, Synced, NoAliases, At, Idle, NoFile, NamesOf, OpInv, AliasInv,
        StoreTypeOK, FileType, Steps, Whole, Exists
<1>16. CASE RemoveUnread
  BY <1>16, NoneAssumption
    DEF RemoveUnread, NoAliases, At, Idle, NoFile, OpInv, AliasInv, StoreTypeOK,
        FileType, Steps, Whole, Exists
<1> QED
  BY <1>1, <1>2, <1>3, <1>4, <1>5, <1>6, <1>7, <1>8, <1>9, <1>10, <1>11, <1>12,
     <1>13, <1>14, <1>15, <1>16
  DEF StoreStep, Proceed, CarriesOn

\* A store step brings back only names that were claimed.
LEMMA ClaimStep ==
  ASSUME StoreTypeOK, StoreTypeOK', OpInv, ClaimInv, StoreStep
  PROVE  ClaimInv'
<1>1. CASE StartsSave
  BY <1>1, NoneAssumption
    DEF StartsSave, BeginSave, Bumped, At, OpInv, ClaimInv, Claimed, StoreTypeOK,
        FileType, Steps, Whole, Exists, NamesOf
<1>2. ASSUME NEW c \in Customers, BeginDelete(c) PROVE ClaimInv'
  BY <1>2, NoneAssumption
    DEF BeginDelete, At, Idle, NoFile, TornFile, Exists, OpInv, ClaimInv, Claimed,
        StoreTypeOK, FileType, Steps, Whole, NamesOf
<1>3. ASSUME NEW c \in Customers, BeginRestore(c) PROVE ClaimInv'
  BY <1>3, NoneAssumption
    DEF BeginRestore, BackupAfterRestore, At, NoFile, TornFile, Whole, OpInv,
        ClaimInv, Claimed, StoreTypeOK, FileType, Steps, Exists, NamesOf
<1>4. CASE SkipBackup
  BY <1>4, NoneAssumption
    DEF SkipBackup, At, GoTo, Exists, OpInv, ClaimInv, Claimed, StoreTypeOK,
        FileType, Steps, Whole, NamesOf
<1>5. CASE OpenBackup
  BY <1>5, NoneAssumption
    DEF OpenBackup, At, GoTo, Exists, TornFile, NoFile, OpInv, ClaimInv, Claimed,
        StoreTypeOK, FileType, Steps, Whole, NamesOf
<1>6. CASE WriteBackup
  BY <1>6, NoneAssumption
    DEF WriteBackup, Copied, At, GoTo, OpInv, ClaimInv, Claimed, StoreTypeOK,
        FileType, Steps, Whole, Exists, NamesOf
<1>7. CASE BackupFails
  BY <1>7, NoneAssumption
    DEF BackupFails, At, GoTo, Exists, OpInv, ClaimInv, Claimed, StoreTypeOK,
        FileType, Steps, Whole, NamesOf
<1>8. CASE ReplaceProfile
  BY <1>8, NoneAssumption
    DEF ReplaceProfile, At, GoTo, NamesOf, OpInv, ClaimInv, Claimed, StoreTypeOK,
        FileType, Steps, Whole, Exists
<1>9. CASE SyncAliases
  BY <1>9, NoneAssumption
    DEF SyncAliases, Synced, At, Idle, NoFile, NamesOf, OpInv, ClaimInv, Claimed,
        StoreTypeOK, FileType, Steps, Whole, Exists
<1>10. CASE WriteTrash
  BY <1>10, NoneAssumption
    DEF WriteTrash, Copied, At, GoTo, OpInv, ClaimInv, Claimed, StoreTypeOK,
        FileType, Steps, Whole, Exists, NamesOf
<1>11. CASE Unlink
  BY <1>11, NoneAssumption
    DEF Unlink, At, GoTo, NoFile, OpInv, ClaimInv, Claimed, StoreTypeOK, FileType,
        Steps, Whole, Exists, NamesOf
<1>12. CASE RemoveAliases
  BY <1>12, NoneAssumption
    DEF RemoveAliases, Unmapped, At, Idle, NoFile, OpInv, ClaimInv, Claimed,
        StoreTypeOK, FileType, Steps, Whole, Exists, NamesOf
<1>13. CASE FinishRestore
  BY <1>13, NoneAssumption
    DEF FinishRestore, At, Idle, NoFile, OpInv, ClaimInv, Claimed, StoreTypeOK,
        FileType, Steps, Whole, Exists, NamesOf
<1>14. CASE Interrupted
  BY <1>14, NoneAssumption
    DEF Interrupted, GarbledFile, At, Idle, NoFile, OpInv, ClaimInv, Claimed,
        StoreTypeOK, FileType, Steps, Whole, Exists, NamesOf
<1>15. CASE SyncUnread
  BY <1>15, NoneAssumption
    DEF SyncUnread, Synced, NoAliases, At, Idle, NoFile, NamesOf, OpInv, ClaimInv,
        Claimed, StoreTypeOK, FileType, Steps, Whole, Exists
<1>16. CASE RemoveUnread
  BY <1>16, NoneAssumption
    DEF RemoveUnread, NoAliases, At, Idle, NoFile, OpInv, ClaimInv, Claimed,
        StoreTypeOK, FileType, Steps, Whole, Exists, NamesOf
<1> QED
  BY <1>1, <1>2, <1>3, <1>4, <1>5, <1>6, <1>7, <1>8, <1>9, <1>10, <1>11, <1>12,
     <1>13, <1>14, <1>15, <1>16
  DEF StoreStep, Proceed, CarriesOn

\* An interaction step keeps the types of the directories.
LEMMA InteractionTypeStep ==
  ASSUME Interactions!InteractionTypeOK, InteractionStep
  PROVE  Interactions!InteractionTypeOK'
<1>1. ASSUME NEW c \in Customers, NEW i \in Ids, Interactions!Remove(c, i)
      PROVE  Interactions!InteractionTypeOK'
  BY <1>1 DEF Interactions!Remove, Interactions!InteractionTypeOK
<1>2. ASSUME NEW c \in Customers, NEW i \in Ids, NEW d \in Dates,
             Interactions!Record(c, i, d)
      PROVE  Interactions!InteractionTypeOK'
  BY <1>2 DEF Interactions!Record, Interactions!InteractionTypeOK
<1>3. CASE Interactions!RefreshIndex
  BY <1>3 DEF Interactions!RefreshIndex, Interactions!InteractionTypeOK,
              Interactions!Summary
<1>4. CASE Interactions!IndexInterrupted
  BY <1>4 DEF Interactions!IndexInterrupted, Interactions!InteractionTypeOK
<1> QED
  BY <1>1, <1>2, <1>3, <1>4 DEF InteractionStep

\* The summary of a customer is a function of that customer's files.
LEMMA SummaryOfFiles ==
  ASSUME NEW c \in Customers, dates'[c] = dates[c]
  PROVE  Interactions!Summary(c)' = Interactions!Summary(c)
  BY DEF Interactions!Summary, Interactions!Listed, Interactions!Present

\* An interaction step keeps every index that does not lag up to date.
LEMMA IndexStep ==
  ASSUME Interactions!InteractionTypeOK, IndexCatchesUp, InteractionStep
  PROVE  IndexCatchesUp'
<1> SUFFICES ASSUME NEW c \in Customers, c \notin lagging', indexing' # c
             PROVE  index'[c] = Interactions!Summary(c)'
  BY DEF IndexCatchesUp, Interactions!IndexCatchesUp
<1> USE DEF IndexCatchesUp, Interactions!IndexCatchesUp
<1>1. ASSUME NEW d \in Customers, NEW i \in Ids, Interactions!Remove(d, i)
      PROVE  index'[c] = Interactions!Summary(c)'
  <2>1. d # c /\ index' = index /\ lagging' = lagging /\ indexing # c
    BY <1>1, NoneAssumption DEF Interactions!Remove
  <2>2. dates'[c] = dates[c]
    BY <1>1, <2>1 DEF Interactions!Remove, Interactions!InteractionTypeOK
  <2> QED
    BY <2>1, <2>2, SummaryOfFiles
<1>2. ASSUME NEW d \in Customers, NEW i \in Ids, NEW date \in Dates,
             Interactions!Record(d, i, date)
      PROVE  index'[c] = Interactions!Summary(c)'
  <2>1. d # c /\ index' = index /\ lagging' = lagging /\ indexing # c
    BY <1>2, NoneAssumption DEF Interactions!Record
  <2>2. dates'[c] = dates[c]
    BY <1>2, <2>1 DEF Interactions!Record, Interactions!InteractionTypeOK
  <2> QED
    BY <2>1, <2>2, SummaryOfFiles
<1>3. CASE Interactions!RefreshIndex
  <2>1. Interactions!Summary(c)' = Interactions!Summary(c)
    BY <1>3, SummaryOfFiles DEF Interactions!RefreshIndex
  <2>2. CASE c = indexing
    BY <1>3, <2>1, <2>2 DEF Interactions!RefreshIndex, Interactions!InteractionTypeOK
  <2>3. CASE c # indexing
    BY <1>3, <2>1, <2>3 DEF Interactions!RefreshIndex, Interactions!InteractionTypeOK
  <2> QED
    BY <2>2, <2>3
<1>4. CASE Interactions!IndexInterrupted
  <2>1. Interactions!Summary(c)' = Interactions!Summary(c)
    BY <1>4, SummaryOfFiles DEF Interactions!IndexInterrupted
  <2> QED
    BY <1>4, <2>1 DEF Interactions!IndexInterrupted
<1> QED
  BY <1>1, <1>2, <1>3, <1>4 DEF InteractionStep

-----------------------------------------------------------------------------
(* The operations of the process are steps of the stores. *)

\* The date a health score rests on is a date or 0.
LEMMA LastDateType ==
  ASSUME TypeOK, NEW c \in Customers
  PROVE  Interactions!LastInteractionDate(c) \in Nat
<1>1. CASE Interactions!Listed(c, 1) = {}
  BY <1>1 DEF Interactions!LastInteractionDate
<1>2. CASE Interactions!Listed(c, 1) # {}
  <2>1. PICK i \in Interactions!Listed(c, 1) :
          Interactions!LastInteractionDate(c) = dates[c][i]
    BY <1>2 DEF Interactions!LastInteractionDate
  <2>2. i \in Ids
    BY DEF Interactions!Listed, Interactions!Present
  <2>3. dates[c] \in [Ids -> Dates \cup {0}]
    BY DEF TypeOK, Interactions!InteractionTypeOK
  <2>4. dates[c][i] \in Dates \cup {0}
    BY <2>2, <2>3
  <2>5. ASSUME NEW date \in Dates \cup {0} PROVE date \in Nat
    BY InteractionsAssumption
  <2> QED
    BY <2>1, <2>4, <2>5
<1> QED
  BY <1>1, <1>2

\* A save begins with a profile that can be read and has a name.
LEMMA SavesAreProper ==
  ASSUME TypeOK, ClaimInv, NEW c \in Customers, Seed(c) \/ Update(c) \/ Score(c)
  PROVE  StartsSave
<1>0. profile[c] \in FileType
  BY DEF TypeOK, StoreTypeOK
<1>1. CASE Seed(c)
  <2>1. PICK n \in Names, others \in SUBSET Names : BeginSave(c, NewProfile(n, others))
    BY <1>1 DEF Seed
  <2>2. /\ NewProfile(n, others) \in FileType /\ Whole(NewProfile(n, others))
        /\ NewProfile(n, others).name \in Names
    BY DEF NewProfile, FileType, Whole
  <2> QED
    BY <2>1, <2>2 DEF StartsSave
<1>2. CASE Update(c)
  <2>1. PICK n \in Names, others \in SUBSET Names :
          BeginSave(c, [profile[c] EXCEPT !.name = n, !.aliases = others])
    BY <1>2 DEF Update
  <2> DEFINE doc == [profile[c] EXCEPT !.name = n, !.aliases = others]
  <2>2. doc \in FileType /\ Whole(doc) /\ doc.name \in Names
    BY <1>0, <1>2 DEF Update, FileType, Whole
  <2> QED
    BY <2>1, <2>2 DEF StartsSave
<1>3. CASE Score(c)
  <2>1. PICK date \in {profile[c].contact, Interactions!LastInteractionDate(c)} :
          BeginSave(c, [profile[c] EXCEPT !.contact = date])
    BY <1>3 DEF Score
  <2> DEFINE doc == [profile[c] EXCEPT !.contact = date]
  <2>2. date \in Nat
    BY <1>0, LastDateType DEF FileType
  <2>3. Whole(profile[c]) /\ profile[c].name \in Names
    BY <1>3 DEF Score, ClaimInv, Claimed
  <2>4. doc \in FileType /\ Whole(doc) /\ doc.name \in Names
    BY <1>0, <2>2, <2>3 DEF FileType, Whole
  <2> QED
    BY <2>1, <2>4 DEF StartsSave
<1> QED
  BY <1>1, <1>2, <1>3

\* A step is one of the customer store, of the interaction store, or of neither.
LEMMA StepCases ==
  ASSUME TypeOK, ClaimInv, [Next]_vars
  PROVE  \/ StoreStep /\ UNCHANGED interactionFiles
         \/ InteractionStep /\ UNCHANGED storeVars
         \/ UNCHANGED <<storeVars, interactionFiles>>
<1>1. CASE Begin
  <2>1. ASSUME NEW c \in Customers, Seed(c) \/ Update(c) \/ Score(c)
        PROVE  StoreStep
    BY <2>1, SavesAreProper DEF StoreStep
  <2>2. ASSUME NEW c \in Customers, BeginDelete(c) \/ BeginRestore(c)
        PROVE  StoreStep
    BY <2>2 DEF StoreStep
  <2> QED
    BY <1>1, <2>1, <2>2 DEF Begin, InteractionStep
<1>2. CASE Continue
  BY <1>2 DEF Continue, StoreStep, InteractionStep
<1>3. CASE UNCHANGED vars
  BY <1>3 DEF vars
<1> QED
  BY <1>1, <1>2, <1>3 DEF Next

\* One operation runs at a time, and they are counted.
LEMMA OneOperation ==
  ASSUME TypeOK, [Next]_vars
  PROVE  operations' \in 0..MaxOperations /\ (At("idle")' \/ indexing' = None)
<1>1. CASE Begin
  <2>1. operations' \in 0..MaxOperations
    BY <1>1, InteractionsAssumption DEF Begin, TypeOK
  <2>2. At("idle") /\ indexing = None
    BY <1>1 DEF Begin, Quiet
  <2>3. UNCHANGED interactionFiles \/ UNCHANGED storeVars
    BY <1>1 DEF Begin
  <2> QED
    BY <2>1, <2>2, <2>3 DEF interactionFiles, storeVars, At
<1>2. CASE Continue
  <2>1. operations' \in 0..MaxOperations
    BY <1>2 DEF Continue, TypeOK
  <2>2. CASE Proceed \/ CarriesOn \/ Interrupted
    <3>1. ~At("idle")
      BY <2>2 DEF Proceed, CarriesOn, BackupFails, SyncUnread, RemoveUnread,
                  Interrupted, SkipBackup, OpenBackup, WriteBackup,
                  ReplaceProfile, SyncAliases, WriteTrash, Unlink, RemoveAliases,
                  FinishRestore, At
    <3>2. indexing = None
      BY <3>1 DEF TypeOK
    <3>3. UNCHANGED interactionFiles
      BY <1>2, <3>2, NoneAssumption DEF Continue, Interactions!RefreshIndex,
           Interactions!IndexInterrupted
    <3> QED
      BY <2>1, <3>2, <3>3 DEF interactionFiles
  <2>3. CASE Interactions!RefreshIndex \/ Interactions!IndexInterrupted
    BY <2>1, <2>3 DEF Interactions!RefreshIndex, Interactions!IndexInterrupted
  <2> QED
    BY <1>2, <2>2, <2>3 DEF Continue
<1>3. CASE UNCHANGED vars
  BY <1>3 DEF vars, storeVars, interactionFiles, TypeOK, At
<1> QED
  BY <1>1, <1>2, <1>3 DEF Next

-----------------------------------------------------------------------------
(* The invariant. *)

LEMMA InvInit == Init => IInv
<1> SUFFICES ASSUME Init PROVE IInv
  OBVIOUS
<1> USE DEF Init, StoreInit, Interactions!InteractionInit
<1>1. StoreTypeOK
  BY NoneAssumption DEF StoreTypeOK, FileType, Steps, NoFile, Idle, At
<1>2. Interactions!InteractionTypeOK
  BY DEF Interactions!InteractionTypeOK
<1>3. TypeOK
  BY <1>1, <1>2, InteractionsAssumption DEF TypeOK
<1>4. OpInv /\ TornInv /\ ReadableInv /\ AliasInv
  BY DEF OpInv, TornInv, ReadableInv, AliasInv, At, Idle, NoFile, Exists, Whole
<1>5. ClaimInv
  BY DEF ClaimInv, Claimed, At, Idle, NoFile, Whole
<1>6. IndexCatchesUp
  <2> SUFFICES ASSUME NEW c \in Customers PROVE index[c] = Interactions!Summary(c)
    BY DEF IndexCatchesUp, Interactions!IndexCatchesUp
  <2> QED
    BY DEF Interactions!Summary, Interactions!Listed, Interactions!Present
<1> QED
  BY <1>3, <1>4, <1>5, <1>6 DEF IInv

LEMMA InvStep == IInv /\ [Next]_vars => IInv'
<1> SUFFICES ASSUME IInv, [Next]_vars PROVE IInv'
  OBVIOUS
<1>0. /\ TypeOK /\ StoreTypeOK /\ Interactions!InteractionTypeOK
      /\ OpInv /\ TornInv /\ ReadableInv /\ AliasInv /\ ClaimInv /\ IndexCatchesUp
  BY DEF IInv, TypeOK
<1>1. ASSUME UNCHANGED storeVars
      PROVE  /\ StoreTypeOK' /\ OpInv' /\ TornInv' /\ ReadableInv' /\ AliasInv'
             /\ ClaimInv'
  <2>1. StoreTypeOK'
    BY <1>0, <1>1 DEF storeVars, StoreTypeOK, At
  <2>2. OpInv' /\ TornInv' /\ ReadableInv' /\ AliasInv'
    BY <1>0, <1>1 DEF storeVars, OpInv, TornInv, ReadableInv, AliasInv, At
  <2>3. ClaimInv'
    BY <1>0, <1>1 DEF storeVars, ClaimInv, Claimed, At
  <2> QED
    BY <2>1, <2>2, <2>3
<1>2. ASSUME UNCHANGED interactionFiles
      PROVE  Interactions!InteractionTypeOK' /\ IndexCatchesUp'
  <2>1. Interactions!InteractionTypeOK'
    BY <1>0, <1>2 DEF interactionFiles, Interactions!InteractionTypeOK
  <2>2. IndexCatchesUp'
    BY <1>0, <1>2, SummaryOfFiles
    DEF interactionFiles, IndexCatchesUp, Interactions!IndexCatchesUp
  <2> QED
    BY <2>1, <2>2
<1>3. ASSUME StoreStep
      PROVE  /\ StoreTypeOK' /\ OpInv' /\ TornInv' /\ ReadableInv' /\ AliasInv'
             /\ ClaimInv'
  <2>1. StoreTypeOK'
    BY <1>0, <1>3, StoreTypeStep
  <2> QED
    BY <1>0, <1>3, <2>1, OpStep, TornStep, ReadableStep, AliasStep, ClaimStep
<1>4. ASSUME InteractionStep
      PROVE  Interactions!InteractionTypeOK' /\ IndexCatchesUp'
  BY <1>0, <1>4, InteractionTypeStep, IndexStep
<1>5. /\ StoreTypeOK' /\ OpInv' /\ TornInv' /\ ReadableInv' /\ AliasInv' /\ ClaimInv'
      /\ Interactions!InteractionTypeOK' /\ IndexCatchesUp'
  BY <1>0, <1>1, <1>2, <1>3, <1>4, StepCases
<1>6. TypeOK'
  BY <1>0, <1>5, OneOperation DEF TypeOK
<1> QED
  BY <1>5, <1>6 DEF IInv

THEOREM IInvInvariant == Spec => []IInv
  BY InvInit, InvStep, PTL DEF Spec

-----------------------------------------------------------------------------

(* Every variable keeps its type, and one operation runs at a time.             *)
THEOREM TypeCorrect == Spec => []TypeOK
<1>1. IInv => TypeOK
  BY DEF IInv
<1> QED
  BY <1>1, IInvInvariant, PTL

(* One fault in save, delete or restore, at any step, loses no customer.        *)
THEOREM OneFaultIsSurvived == Spec => []SurvivesOneFault
<1>1. IInv => SurvivesOneFault
  BY DEF IInv, ReadableInv, SurvivesOneFault, At
<1> QED
  BY <1>1, IInvInvariant, PTL

(* Without a fault no alias leads to a profile that is gone.                    *)
THEOREM AliasesLeadSomewhere == Spec => []DanglingAliasTakesAFault
<1>1. IInv => DanglingAliasTakesAFault
  BY DEF IInv, AliasInv, DanglingAliasTakesAFault, At
<1> QED
  BY <1>1, IInvInvariant, PTL

(* A name that only one customer ever had finds that customer, whatever failed: *)
(* by the alias file, or by the search unless a profile cannot be decoded.      *)
THEOREM SoleNamesLead == Spec => []SoleNamesAreFound
<1>1. ASSUME IInv PROVE SoleNamesAreFound
  <2> SUFFICES ASSUME NEW c \in Customers, Whole(profile[c]),
                      claims[profile[c].name] = {c},
                      ~(/\ aliases[profile[c].name] = None
                        /\ \E d \in Customers : Garbled(profile[d]))
               PROVE  Found(profile[c].name) = {c}
    BY DEF SoleNamesAreFound
  <2> DEFINE n == profile[c].name
  <2>1. n \in Names /\ claims[n] = {c}
    BY <1>1 DEF IInv, ClaimInv, Claimed
  <2>2. aliases[n] # None => aliases[n] = c
    BY <1>1, <2>1 DEF IInv, ClaimInv
  <2>3. CASE aliases[n] # None
    BY <2>2, <2>3 DEF Found
  <2>4. CASE aliases[n] = None
    <3>1. ASSUME NEW d \in Customers, Whole(profile[d]), profile[d].name = n
          PROVE  d = c
      BY <1>1, <2>1, <3>1 DEF IInv, ClaimInv, Claimed, NamesOf
    <3>2. ListAll = {d \in Customers : Whole(profile[d])}
      BY <2>4 DEF ListAll
    <3> QED
      BY <2>4, <3>1, <3>2 DEF Found
  <2> QED
    BY <2>3, <2>4
<1> QED
  BY <1>1, IInvInvariant, PTL

(* A profile is removed only with its contents in the trash file, and written   *)
(* over by a save only with its contents in the backup, unless a backup failed. *)
THEOREM ReplacedStaysKept == Spec => ReplacedIsKept
<1>1. ASSUME IInv, [Next]_vars
      PROVE  [\A c \in Customers :
                Exists(profile[c]) /\ profile'[c] # profile[c] =>
                  /\ ~Exists(profile'[c]) => trash'[c] = profile[c]
                  /\ At("writing") /\ faults = 0 => backup'[c] = profile[c]
             ]_storeVars
  <2>0. StoreTypeOK /\ StoreTypeOK' /\ OpInv /\ OpInv'
    BY <1>1, InvStep DEF IInv, TypeOK
  <2> SUFFICES ASSUME NEW c \in Customers, StoreStep,
                      Exists(profile[c]), profile'[c] # profile[c]
               PROVE  /\ ~Exists(profile'[c]) => trash'[c] = profile[c]
                      /\ At("writing") /\ faults = 0 => backup'[c] = profile[c]
    BY <1>1, StepCases DEF IInv, storeVars
  <2>1. \/ ReplaceProfile \/ Unlink \/ FinishRestore \/ Interrupted
        \/ \E d \in Customers : BeginRestore(d)
    BY <2>0 DEF StoreStep, StartsSave, BeginSave, BeginDelete, Proceed, SkipBackup,
         OpenBackup, WriteBackup, CarriesOn, BackupFails, SyncAliases, SyncUnread,
         WriteTrash, RemoveAliases, RemoveUnread
  <2>2. CASE ReplaceProfile
    BY <2>0, <2>2 DEF ReplaceProfile, At, GoTo, OpInv, StoreTypeOK, Exists, Whole
  <2>3. CASE Unlink
    BY <2>0, <2>3 DEF Unlink, At, GoTo, OpInv, StoreTypeOK
  <2>4. CASE FinishRestore
    BY <2>0, <2>4 DEF FinishRestore, At, OpInv, StoreTypeOK, Exists, Whole
  <2>5. CASE \E d \in Customers : BeginRestore(d)
    BY <2>0, <2>5 DEF BeginRestore, At, StoreTypeOK, Exists, TornFile, NoFile
  <2>6. CASE Interrupted
    BY <2>0, <2>6 DEF Interrupted, At, StoreTypeOK, Exists, GarbledFile, NoFile
  <2> QED
    BY <2>1, <2>2, <2>3, <2>4, <2>5, <2>6
<1> QED
  BY <1>1, IInvInvariant, PTL DEF Spec, ReplacedIsKept

(* The index of a customer whose last operation was not interrupted is exact.   *)
THEOREM IndexIsExact == Spec => []IndexCatchesUp
<1>1. IInv => IndexCatchesUp
  BY DEF IInv
<1> QED
  BY <1>1, IInvInvariant, PTL

=============================================================================
