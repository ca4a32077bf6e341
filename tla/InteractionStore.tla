--------------------------- MODULE InteractionStore ---------------------------
(***************************************************************************)
(* InteractionStore: one directory per customer, with a JSON file per      *)
(* interaction and an index that is rebuilt after every write.  Files and  *)
(* index are replaced by a rename, so each changes at once.                *)
(***************************************************************************)
EXTENDS Naturals, FiniteSets

CONSTANTS
  Owners,      \* customer ids
  Ids,         \* interaction ids, numbered in the order of their file names
  Dates,       \* when an interaction took place
  IndexLimit,  \* how many interactions the index lists
  NoOwner      \* no customer

VARIABLES
  dates,     \* <customer>/<id>.json: the date in it, 0 where there is no file
  index,     \* <customer>/_index.json: the date of each id it lists, 0 if not listed
  indexing,  \* the customer whose index the process is about to rebuild
  lagging    \* history: customers whose last operation was interrupted

interactionVars == <<dates, index, indexing, lagging>>

Present(c) == {i \in Ids : dates[c][i] # 0}

\* list_for_customer: the limit is spent in the descending order of the file
\* names, and what was read within it is sorted by date.
Listed(c, limit) ==
  {i \in Present(c) : Cardinality({j \in Present(c) : j > i}) < limit}

Summary(c) == [i \in Ids |-> IF i \in Listed(c, IndexLimit) THEN dates[c][i] ELSE 0]

\* last_interaction_date: the first of list_for_customer(limit=1); 0 for None.
LastInteractionDate(c) ==
  IF Listed(c, 1) = {} THEN 0 ELSE dates[c][CHOOSE i \in Listed(c, 1) : TRUE]

Record(c, i, date) ==
  /\ indexing = NoOwner
  /\ dates' = [dates EXCEPT ![c][i] = date]
  /\ indexing' = c
  /\ UNCHANGED <<index, lagging>>

\* Mutant: the index is not rebuilt after a delete.
RemoveQuietly(c, i) ==
  /\ indexing = NoOwner
  /\ i \in Present(c)
  /\ dates' = [dates EXCEPT ![c][i] = 0]
  /\ UNCHANGED <<index, indexing, lagging>>

Remove(c, i) ==
  /\ indexing = NoOwner
  /\ i \in Present(c)
  /\ dates' = [dates EXCEPT ![c][i] = 0]
  /\ indexing' = c
  /\ UNCHANGED <<index, lagging>>

RefreshIndex ==
  /\ indexing # NoOwner
  /\ index' = [index EXCEPT ![indexing] = Summary(indexing)]
  /\ lagging' = lagging \ {indexing}
  /\ indexing' = NoOwner
  /\ UNCHANGED dates

\* The process is killed, or the OSError of the index is logged.
IndexInterrupted ==
  /\ indexing # NoOwner
  /\ lagging' = lagging \cup {indexing}
  /\ indexing' = NoOwner
  /\ UNCHANGED <<dates, index>>

InteractionInit ==
  /\ dates = [c \in Owners |-> [i \in Ids |-> 0]]
  /\ index = [c \in Owners |-> [i \in Ids |-> 0]]
  /\ indexing = NoOwner
  /\ lagging = {}

-----------------------------------------------------------------------------

(* Every variable has its type. *)
InteractionTypeOK ==
  /\ dates \in [Owners -> [Ids -> Dates \cup {0}]]
  /\ index \in [Owners -> [Ids -> Dates \cup {0}]]
  /\ indexing \in Owners \cup {NoOwner}
  /\ lagging \subseteq Owners

(* The index is what it summarizes, whatever happened before: one operation of  *)
(* the customer that is not interrupted makes up for those that were.           *)
IndexCatchesUp ==
  \A c \in Owners :
    c \notin lagging /\ indexing # c => index[c] = Summary(c)

-----------------------------------------------------------------------------
(* What a comment says and the code does not do. *)

(* memory/interaction_store.py:168: last_interaction_date returns the date of   *)
(* the most recent interaction.                                                 *)
LastInteractionIsMostRecent ==
  \A c \in Owners :
    \A i \in Present(c) : dates[c][i] <= LastInteractionDate(c)

=============================================================================
