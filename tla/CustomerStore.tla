---------------------------- MODULE CustomerStore ----------------------------
(***************************************************************************)
(* CustomerStore: one JSON file per customer, one backup and one trash     *)
(* file beside it, and one file that maps names and aliases to customers.  *)
(* One process writes; it may be killed, and a file operation may fail, at *)
(* any step.                                                               *)
(*                                                                         *)
(* A save writes a temporary file and renames it over the target.  The     *)
(* temporary file is truncated before each use and nothing reads it, so    *)
(* only the rename is a step: the profile and the alias file change at     *)
(* once.  shutil.copy2 and Path.write_text change a file in place: it is   *)
(* torn from the moment it is opened until the contents are written.  A    *)
(* profile that a write leaves cut inside a multibyte character is         *)
(* garbled: it cannot even be decoded.                                     *)
(***************************************************************************)
EXTENDS Naturals

CONSTANTS
  Customers,  \* customer ids
  Names,      \* customer names and aliases
  None        \* no customer, no name

ASSUME NoneAssumption == None \notin Customers /\ None \notin Names

VARIABLES
  profile,  \* customers/<id>.json
  backup,   \* backups/customers/<id>.bak
  trash,    \* backups/customers/<id>.deleted.bak
  aliases,  \* aliases.json; a file that is absent maps nothing
  op,       \* the operation the process is in, with its locals
  faults,   \* history: interrupted operations and failed file operations
  claims    \* history: the customers ever saved under a name or alias

storeVars == <<profile, backup, trash, aliases, op, faults, claims>>

-----------------------------------------------------------------------------
(* Files and profiles. *)

\* contact is the date of the interaction the stored health score rests on.
NoFile == [state |-> "absent", version |-> 0, name |-> None, aliases |-> {}, contact |-> 0]
TornFile == [NoFile EXCEPT !.state = "torn"]
GarbledFile == [NoFile EXCEPT !.state = "garbled"]

Exists(file) == file.state # "absent"
Whole(file) == file.state = "whole"
Garbled(file) == file.state = "garbled"

\* The names under which _sync_alias enters a profile.
NamesOf(file) == {file.name} \cup file.aliases

\* A profile before its first save; CustomerProfile.version defaults to 1.
NewProfile(name, others) ==
  [state |-> "whole", version |-> 1, name |-> name, aliases |-> others, contact |-> 0]

Bumped(doc) == [doc EXCEPT !.version = @ + 1]

Idle == [step |-> "idle", customer |-> None, doc |-> NoFile]

At(step) == op.step = step
GoTo(step) == op' = [op EXCEPT !.step = step]

-----------------------------------------------------------------------------
(* save. *)

BeginSave(c, doc) ==
  /\ At("idle")
  /\ op' = [step |-> "saving", customer |-> c, doc |-> Bumped(doc)]
  /\ UNCHANGED <<profile, backup, trash, aliases, faults, claims>>

\* Mutant: the backup is taken of the profile that is about to be written.
CopiedByNewProfile(c) == op.doc

\* What copy2 reads from the profile.
Copied(c) == profile[c]

SkipBackup ==
  /\ At("saving")
  /\ ~Exists(profile[op.customer])
  /\ GoTo("writing")
  /\ UNCHANGED <<profile, backup, trash, aliases, faults, claims>>

OpenBackup ==
  /\ At("saving")
  /\ Exists(profile[op.customer])
  /\ backup' = [backup EXCEPT ![op.customer] = TornFile]
  /\ GoTo("copying")
  /\ UNCHANGED <<profile, trash, aliases, faults, claims>>

\* There is one <id>.bak, so _rotate_backups finds nothing to remove.
WriteBackup ==
  /\ At("copying")
  /\ backup' = [backup EXCEPT ![op.customer] = Copied(op.customer)]
  /\ GoTo("writing")
  /\ UNCHANGED <<profile, trash, aliases, faults, claims>>

\* An OSError of the backup is logged, and the save goes on.
BackupFails ==
  /\ \/ At("copying")
     \/ At("saving") /\ Exists(profile[op.customer])
  /\ GoTo("writing")
  /\ faults' = faults + 1
  /\ UNCHANGED <<profile, backup, trash, aliases, claims>>

ReplaceProfile ==
  /\ At("writing")
  /\ profile' = [profile EXCEPT ![op.customer] = op.doc]
  /\ claims' = [n \in Names |->
       IF n \in NamesOf(op.doc) THEN claims[n] \cup {op.customer} ELSE claims[n]]
  /\ GoTo("syncing")
  /\ UNCHANGED <<backup, trash, aliases, faults>>

NoAliases == [n \in Names |-> None]

\* Names the customer had before, and no longer has, stay.
Synced(mapping) ==
  [n \in Names |-> IF n \in NamesOf(op.doc) THEN op.customer ELSE mapping[n]]

SyncAliases ==
  /\ At("syncing")
  /\ aliases' = Synced(aliases)
  /\ op' = Idle
  /\ UNCHANGED <<profile, backup, trash, faults, claims>>

\* An alias file that cannot be read is taken for an empty one, and replaced.
SyncUnread ==
  /\ At("syncing")
  /\ aliases' = Synced(NoAliases)
  /\ op' = Idle
  /\ faults' = faults + 1
  /\ UNCHANGED <<profile, backup, trash, claims>>

-----------------------------------------------------------------------------
(* delete. *)

BeginDelete(c) ==
  /\ At("idle")
  /\ Exists(profile[c])
  /\ trash' = [trash EXCEPT ![c] = TornFile]
  /\ op' = [Idle EXCEPT !.step = "trashing", !.customer = c]
  /\ UNCHANGED <<profile, backup, aliases, faults, claims>>

WriteTrash ==
  /\ At("trashing")
  /\ trash' = [trash EXCEPT ![op.customer] = Copied(op.customer)]
  /\ GoTo("unlinking")
  /\ UNCHANGED <<profile, backup, aliases, faults, claims>>

Unlink ==
  /\ At("unlinking")
  /\ profile' = [profile EXCEPT ![op.customer] = NoFile]
  /\ GoTo("unmapping")
  /\ UNCHANGED <<backup, trash, aliases, faults, claims>>

\* Mutant: only the customer's current name is removed.
UnmappedByTrash(c) ==
  [n \in Names |-> IF n = trash[c].name THEN None ELSE aliases[n]]

Unmapped(c) == [n \in Names |-> IF aliases[n] = c THEN None ELSE aliases[n]]

RemoveAliases ==
  /\ At("unmapping")
  /\ aliases' = Unmapped(op.customer)
  /\ op' = Idle
  /\ UNCHANGED <<profile, backup, trash, faults, claims>>

RemoveUnread ==
  /\ At("unmapping")
  /\ aliases' = NoAliases
  /\ op' = Idle
  /\ faults' = faults + 1
  /\ UNCHANGED <<profile, backup, trash, claims>>

-----------------------------------------------------------------------------
(* restore. *)

\* Mutant: the backup is moved, not copied, to the profile.
BackupAfterRestoreMoved(c) == NoFile

BackupAfterRestore(c) == backup[c]

\* The profile is overwritten in place; neither its version nor the aliases change.
BeginRestore(c) ==
  /\ At("idle")
  /\ Whole(backup[c])
  /\ profile' = [profile EXCEPT ![c] = TornFile]
  /\ backup' = [backup EXCEPT ![c] = BackupAfterRestore(c)]
  /\ op' = [step |-> "restoring", customer |-> c, doc |-> backup[c]]
  /\ UNCHANGED <<trash, aliases, faults, claims>>

FinishRestore ==
  /\ At("restoring")
  /\ profile' = [profile EXCEPT ![op.customer] = op.doc]
  /\ op' = Idle
  /\ UNCHANGED <<backup, trash, aliases, faults, claims>>

-----------------------------------------------------------------------------

\* The process is killed, or an OSError ends the operation: save re-raises it,
\* delete and restore give up, _save_aliases logs it.  A restore leaves any part
\* of the profile; a backup or trash file is the same to its reader however it
\* is cut, as restore catches every exception.
Interrupted ==
  /\ ~At("idle")
  /\ \/ profile' = profile
     \/ At("restoring") /\ profile' = [profile EXCEPT ![op.customer] = GarbledFile]
  /\ op' = Idle
  /\ faults' = faults + 1
  /\ UNCHANGED <<backup, trash, aliases, claims>>

\* A file operation that fails and does not end the operation it belongs to.
CarriesOn == BackupFails \/ SyncUnread \/ RemoveUnread

Proceed ==
  \/ SkipBackup \/ OpenBackup \/ WriteBackup \/ ReplaceProfile \/ SyncAliases
  \/ WriteTrash \/ Unlink \/ RemoveAliases \/ FinishRestore

StoreInit ==
  /\ profile = [c \in Customers |-> NoFile]
  /\ backup = [c \in Customers |-> NoFile]
  /\ trash = [c \in Customers |-> NoFile]
  /\ aliases = [n \in Names |-> None]
  /\ op = Idle
  /\ faults = 0
  /\ claims = [n \in Names |-> {}]

\* list_all: load reports a profile that does not parse as missing, but lets out
\* the UnicodeDecodeError of one that cannot be decoded: then nobody is listed.
ListAll ==
  IF \E c \in Customers : Garbled(profile[c]) THEN {} ELSE {c \in Customers : Whole(profile[c])}

\* Mutant: only the alias file is consulted.
FoundByAlias(n) == {c \in Customers : c = aliases[n] /\ Whole(profile[c])}

\* find_by_name: the customers it may return.  An entry of the alias file is
\* followed even where it leads nowhere; only a name without one is searched for.
\* Where it raises, it returns nobody.
Found(n) ==
  IF aliases[n] # None
  THEN {c \in {aliases[n]} : Whole(profile[c])}
  ELSE {c \in ListAll : profile[c].name = n}

-----------------------------------------------------------------------------
(* What the files must satisfy. *)

FileType ==
  [state : {"absent", "torn", "garbled", "whole"}, version : Nat, name : Names \cup {None},
   aliases : SUBSET Names, contact : Nat]

Steps == {"idle", "saving", "copying", "writing", "syncing", "trashing", "unlinking",
          "unmapping", "restoring"}

(* Every variable has its type. *)
StoreTypeOK ==
  /\ profile \in [Customers -> FileType]
  /\ backup \in [Customers -> FileType]
  /\ trash \in [Customers -> FileType]
  /\ aliases \in [Names -> Customers \cup {None}]
  /\ op \in [step : Steps, customer : Customers \cup {None}, doc : FileType]
  /\ ~At("idle") => op.customer \in Customers
  /\ faults \in Nat
  /\ claims \in [Names -> SUBSET Customers]

(* One interrupted operation or failed file operation, wherever it strikes,     *)
(* loses no customer: once the operation is over, the profile or its backup can *)
(* be read.                                                                     *)
SurvivesOneFault ==
  At("idle") /\ faults <= 1 =>
    \A c \in Customers : Exists(profile[c]) => Whole(profile[c]) \/ Whole(backup[c])

(* An alias that leads to no profile takes an interrupted delete.               *)
DanglingAliasTakesAFault ==
  At("idle") /\ faults = 0 =>
    \A n \in Names : aliases[n] # None => Exists(profile[aliases[n]])

(* A customer is found by its name after any interruptions and lost alias files, *)
(* as long as no other customer ever had that name: what the alias file misses  *)
(* is searched for (customer_store.py:188-197).  Only a profile that cannot be  *)
(* decoded stops the search, and a name in the alias file needs none.           *)
SoleNamesAreFound ==
  \A c \in Customers :
    LET name == profile[c].name IN
    Whole(profile[c]) /\ claims[name] = {c} =>
      \/ Found(name) = {c}
      \/ aliases[name] = None /\ \E d \in Customers : Garbled(profile[d])

(* What a delete removes is in the trash file, in full; and what a save writes  *)
(* over is in the backup, unless a backup failed.                               *)
ReplacedIsKept ==
  [][\A c \in Customers :
       Exists(profile[c]) /\ profile'[c] # profile[c] =>
         /\ ~Exists(profile'[c]) => trash'[c] = profile[c]
         /\ At("writing") /\ faults = 0 => backup'[c] = profile[c]
    ]_storeVars

-----------------------------------------------------------------------------
(* What a comment says and these steps do not keep. *)

(* memory/customer_store.py:189: find_by_name resolves a customer by name or    *)
(* alias.  Where nothing failed, a name that some profile carries would then    *)
(* lead to a profile that carries it.                                           *)
NamesLeadToCarriers ==
  At("idle") /\ faults = 0 =>
    \A n \in Names :
      LET carriers == {c \in Customers : Whole(profile[c]) /\ n \in NamesOf(profile[c])} IN
      carriers # {} => Found(n) # {} /\ Found(n) \subseteq carriers

(* memory/customer_store.py:142: list_all returns all customer profiles,        *)
(* skipping unreadable files.                                                   *)
UnreadableFilesAreSkipped == ListAll = {c \in Customers : Whole(profile[c])}

=============================================================================
