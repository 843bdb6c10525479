---------------------------- MODULE StoreContract -----------------------------
(***************************************************************************)
(* What opening the private database promises, without processes, locks or *)
(* statements: one atomic step takes a whole store of an older schema      *)
(* version to the current one and keeps its rows; a store that is not      *)
(* DAM's, or is damaged, is never touched; only a current store is written *)
(* to.                                                                     *)
(*                                                                         *)
(* A table stands for the tables one version added, a trigger for the      *)
(* triggers one version added.  The rows are those of source_instances,    *)
(* the table a migration rebuilds, and the ITEMs that refer to them.       *)
(***************************************************************************)
EXTENDS Integers

CONSTANTS
  SourceRows,   \* source instances that may be registered
  GmailRows     \* those of a Gmail mailbox

VARIABLE store   \* what is committed in the database file

Versions == 0..5

(* PRAGMA user_version, sqlite_master and the rows.  `linked`: the         *)
(* observations have their ITEM column; `wide`: Gmail sources are admitted *)
(* by the CHECK of source_instances.                                       *)
Tables   == {"runs", "work", "teaching"}
Triggers == {"work", "observation", "teaching"}
Stores   == [version : Nat, tables : SUBSET (Tables \cup {"other"}), triggers : SUBSET Triggers,
             linked : BOOLEAN, wide : BOOLEAN, rows : SUBSET SourceRows, used : SUBSET SourceRows]

TablesOf(v)   == {t \in Tables : (t = "runs" /\ v >= 1) \/ (t = "work" /\ v >= 2) \/ (t = "teaching" /\ v >= 5)}
TriggersOf(v) == {t \in Triggers : (t = "work" /\ v >= 2) \/ (t = "observation" /\ v >= 4) \/ (t = "teaching" /\ v >= 5)}

(* A store of version v as the release of that version left it.            *)
StoreOf(v, rows, used) ==
  [version |-> v, tables |-> TablesOf(v), triggers |-> TriggersOf(v),
   linked |-> v >= 4, wide |-> v >= 3, rows |-> rows, used |-> used]

(* Neither foreign nor damaged.                                            *)
IsWhole(s) ==
  /\ s.version \in Versions
  /\ s = StoreOf(s.version, s.rows, s.used)
  /\ s.version < 2 => s.rows = {}
  /\ s.version < 3 => s.rows \cap GmailRows = {}
  /\ s.used \subseteq s.rows

IsCurrent(s) == IsWhole(s) /\ s.version = 5

------------------------------------------------------------------------------
StoreInit == store \in Stores

Upgrade ==
  /\ IsWhole(store) /\ store.version < 5
  /\ store' = StoreOf(5, store.rows, store.used)

Register(s) ==
  /\ IsCurrent(store)
  /\ store' = [store EXCEPT !.rows = @ \cup {s}]

Refer(s) ==
  /\ IsCurrent(store) /\ s \in store.rows
  /\ store' = [store EXCEPT !.used = @ \cup {s}]

StoreNext == Upgrade \/ \E s \in SourceRows : Register(s) \/ Refer(s)

StoreSpec == StoreInit /\ [][StoreNext]_store
==============================================================================
