-------------------------------- MODULE Schema --------------------------------
(***************************************************************************)
(* Storage.open: several processes open, create or migrate the database    *)
(* file.  Each reads the schema version, the tables and the triggers in    *)
(* statements of their own, outside the transaction that migrates, so what *)
(* it acts on may be stale: another process may have migrated the store in *)
(* between.  The scripts of a stale version run inside BEGIN IMMEDIATE     *)
(* and must then fail as a whole.  A process may die, meet an error or     *)
(* wait in vain for the lock at any step.                                  *)
(*                                                                         *)
(* One script is one step: its statements are seen by nobody else before   *)
(* COMMIT.  Paths, ownership and file modes are left out: their refusals   *)
(* are among the errors, before anything is opened.                        *)
(***************************************************************************)
EXTENDS Integers

CONSTANTS
  Procs,        \* processes
  SourceRows,   \* source instances that may be registered
  GmailRows     \* those of a Gmail mailbox

ASSUME GmailAreSources == GmailRows \subseteq SourceRows

VARIABLES
  db,       \* what is committed in the database file
  folder,   \* whether the private directory of the database exists
  conn      \* each process's Storage.open

schemaVars == <<db, folder, conn>>

Contract == INSTANCE StoreContract WITH store <- db

Usable(s) == Contract!IsWhole(s)

(* No file, or the empty file that O_CREAT | O_EXCL made: no tables.       *)
Empty == Contract!StoreOf(0, {}, {})

SchemaVersion == 5

(* _TABLES_V1, _TABLES_V4, _TABLES; _TRIGGERS_V2, _TRIGGERS_V4, _TRIGGERS_V5 *)
ExpectedTablesFaultNewest(v) ==
  {"runs"} \cup {t \in {"work"} : v # 1} \cup {t \in {"teaching"} : v >= 4}

ExpectedTables(v) ==
  {"runs"} \cup {t \in {"work"} : v # 1} \cup {t \in {"teaching"} : v = SchemaVersion}

ExpectedTriggers(v) ==
  {"work"} \cup {t \in {"observation"} : v >= 4} \cup {t \in {"teaching"} : v = SchemaVersion}

Steps == {"closed", "folder", "mkdir", "version", "tables", "triggers", "begin", "script",
          "commit", "open", "refused", "failed"}

(* `version` as read, `script` the next one, `fk` PRAGMA foreign_keys,     *)
(* `draft` what the transaction has written.                               *)
Connection == [at : Steps, version : Contract!Versions, script : 1..6, fk : BOOLEAN,
               draft : Contract!Stores]
Closed == [at |-> "closed", version |-> 0, script |-> 1, fk |-> FALSE, draft |-> Empty]

OpenAt(p, step) == conn[p].at = step
Moves(p, c)     == conn' = [conn EXCEPT ![p] = c]
Goes(p, step)   == Moves(p, [conn[p] EXCEPT !.at = step])

(* A StorageError: the connection is closed, a transaction rolled back.    *)
Refuses(p) == Moves(p, [Closed EXCEPT !.at = "refused"])
Fails(p)   == Moves(p, [Closed EXCEPT !.at = "failed"])

(* Who is past BEGIN IMMEDIATE and before COMMIT holds the write lock.     *)
Locked == \E q \in Procs : conn[q].at \in {"script", "commit"}

------------------------------------------------------------------------------
OpenStorage(p) ==
  /\ OpenAt(p, "closed")
  /\ Goes(p, "folder")
  /\ UNCHANGED <<db, folder>>

(* _private_path lists the missing directories and then makes them; one    *)
(* that another process made meanwhile is a FileExistsError.               *)
FindFolder(p) ==
  /\ OpenAt(p, "folder")
  /\ Goes(p, IF folder THEN "version" ELSE "mkdir")
  /\ UNCHANGED <<db, folder>>

MakeFolder(p) ==
  /\ OpenAt(p, "mkdir")
  /\ IF folder THEN Refuses(p) ELSE Goes(p, "version")
  /\ folder' = TRUE
  /\ UNCHANGED db

ReadVersion(p) ==
  /\ OpenAt(p, "version")
  /\ IF db.version \in Contract!Versions
     THEN Moves(p, [conn[p] EXCEPT !.at = "tables", !.version = db.version])
     ELSE Refuses(p)
  /\ UNCHANGED <<db, folder>>

ReadTables(p) ==
  LET v == conn[p].version IN
  /\ OpenAt(p, "tables")
  /\ \/ v = 0 /\ db.tables = {} /\ Goes(p, "begin")
     \/ v = 0 /\ db.tables # {} /\ Refuses(p)
     \/ v = 1 /\ db.tables = ExpectedTables(v) /\ Goes(p, "begin")
     \/ v > 1 /\ db.tables = ExpectedTables(v) /\ Goes(p, "triggers")
     \/ v > 0 /\ db.tables # ExpectedTables(v) /\ Refuses(p)
  /\ UNCHANGED <<db, folder>>

ReadTriggersFaultSkipped(p) ==
  /\ OpenAt(p, "triggers")
  /\ Goes(p, "begin")
  /\ UNCHANGED <<db, folder>>

ReadTriggers(p) ==
  /\ OpenAt(p, "triggers")
  /\ IF db.triggers = ExpectedTriggers(conn[p].version) THEN Goes(p, "begin") ELSE Refuses(p)
  /\ UNCHANGED <<db, folder>>

(* Foreign keys are off while a version before the current one is migrated.*)
BeginImmediate(p) ==
  /\ OpenAt(p, "begin") /\ ~Locked
  /\ Moves(p, [conn[p] EXCEPT !.at = "script", !.script = conn[p].version + 1,
                              !.fk = (conn[p].version = SchemaVersion), !.draft = db])
  /\ UNCHANGED <<db, folder>>

(* Whether the statements of script n can run: nothing they create exists, *)
(* what they rebuild does, and no trigger names the table that the third   *)
(* one drops and makes again under the same name.                          *)
CanRun(n, s) ==
  /\ n = 1 => "runs" \notin s.tables
  /\ n = 2 => "work" \notin s.tables
  /\ n = 3 => "work" \in s.tables /\ "observation" \notin s.triggers
  /\ n = 4 => "runs" \in s.tables /\ ~s.linked
  /\ n = 5 => "teaching" \notin s.tables

(* _SCHEMA ... _SCHEMA_V5; the first two set no version.  The third copies *)
(* the source instances into a table with the wider CHECK.                 *)
TablesAdded   == <<{"runs"}, {"work"}, {}, {}, {"teaching"}>>
TriggersAdded == <<{}, {"work"}, {}, {"observation"}, {"teaching"}>>

AfterScript(n, s) ==
  [s EXCEPT !.version  = IF n >= 3 THEN n ELSE @,
            !.tables   = @ \cup TablesAdded[n],
            !.triggers = @ \cup TriggersAdded[n],
            !.wide     = @ \/ n = 3,
            !.linked   = @ \/ n = 4]

RunScriptFaultAutocommit(p) ==
  LET n == conn[p].script IN
  /\ OpenAt(p, "script")
  /\ \/ n > SchemaVersion /\ Goes(p, "commit") /\ UNCHANGED db
     \/ /\ n <= SchemaVersion /\ CanRun(n, conn[p].draft)
        /\ db' = AfterScript(n, conn[p].draft)
        /\ Moves(p, [conn[p] EXCEPT !.script = n + 1, !.draft = db'])
     \/ n <= SchemaVersion /\ ~CanRun(n, conn[p].draft) /\ Refuses(p) /\ UNCHANGED db
  /\ UNCHANGED folder

RunScript(p) ==
  LET n == conn[p].script IN
  /\ OpenAt(p, "script")
  /\ \/ n > SchemaVersion /\ Goes(p, "commit")
     \/ /\ n <= SchemaVersion /\ CanRun(n, conn[p].draft)
        /\ Moves(p, [conn[p] EXCEPT !.script = n + 1, !.draft = AfterScript(n, @)])
     \/ n <= SchemaVersion /\ ~CanRun(n, conn[p].draft) /\ Refuses(p)
  /\ UNCHANGED <<db, folder>>

(* PRAGMA foreign_key_check, COMMIT, and foreign keys on again.            *)
Commit(p) ==
  /\ OpenAt(p, "commit")
  /\ \/ /\ conn[p].draft.used \subseteq conn[p].draft.rows
        /\ db' = conn[p].draft
        /\ Moves(p, [Closed EXCEPT !.at = "open", !.version = conn[p].version, !.fk = TRUE])
     \/ /\ ~(conn[p].draft.used \subseteq conn[p].draft.rows)
        /\ Refuses(p)
        /\ UNCHANGED db
  /\ UNCHANGED folder

(* An operating system or SQLite error, a lock waited for in vain.         *)
OpenFails(p) ==
  /\ conn[p].at \notin {"closed", "open", "refused", "failed"}
  /\ Fails(p)
  /\ UNCHANGED <<db, folder>>

(* The connection is closed, or the exception delivered.                   *)
CloseStorage(p) ==
  /\ conn[p].at \in {"open", "refused", "failed"}
  /\ Moves(p, Closed)
  /\ UNCHANGED <<db, folder>>

(* The process dies: SQLite rolls its journal back.                        *)
DropStorageFaultStaleLock(p) ==
  /\ ~OpenAt(p, "closed")
  /\ IF conn[p].at \in {"script", "commit"} THEN UNCHANGED conn ELSE Moves(p, Closed)
  /\ UNCHANGED <<db, folder>>

DropStorage(p) ==
  /\ ~OpenAt(p, "closed")
  /\ Moves(p, Closed)
  /\ UNCHANGED <<db, folder>>

(* Two of the transactions of an open store: register_source_instance and  *)
(* an ITEM that refers to the source.                                      *)
RegisterSource(p, s) ==
  /\ OpenAt(p, "open") /\ ~Locked
  /\ db' = [db EXCEPT !.rows = @ \cup {s}]
  /\ UNCHANGED <<folder, conn>>

ReferToSource(p, s) ==
  /\ OpenAt(p, "open") /\ ~Locked /\ s \in db.rows
  /\ db' = [db EXCEPT !.used = @ \cup {s}]
  /\ UNCHANGED <<folder, conn>>

------------------------------------------------------------------------------
(* What may be found: nothing, a store of any version, a newer or foreign  *)
(* file, or a store that lost tables, triggers or rows.  Columns and CHECKs, *)
(* which opening never looks at, and triggers before there were any, are   *)
(* as the version says.                                                    *)
Findable(s) ==
  /\ s.linked = (s.version >= 4) /\ s.wide = (s.version >= 3)
  /\ s.version < 2 => s.triggers = {}
  /\ s.rows \cup s.used # {} => s.version >= 2
  /\ s.rows \cap GmailRows # {} => s.wide

SchemaInit ==
  /\ db \in Contract!Stores /\ Findable(db)
  /\ folder \in BOOLEAN /\ (~folder => db = Empty)
  /\ conn = [p \in Procs |-> Closed]

OpeningStep(p) ==
  FindFolder(p) \/ MakeFolder(p) \/ ReadVersion(p) \/ ReadTables(p) \/ ReadTriggers(p)
    \/ BeginImmediate(p) \/ RunScript(p) \/ Commit(p)

SchemaNext == \E p \in Procs :
  \/ OpenStorage(p) \/ OpeningStep(p) \/ OpenFails(p) \/ CloseStorage(p) \/ DropStorage(p)
  \/ \E s \in SourceRows : RegisterSource(p, s) \/ ReferToSource(p, s)

SchemaSpec == SchemaInit /\ [][SchemaNext]_schemaVars

------------------------------------------------------------------------------
(* However processes that open the store interleave, wait and die, what is *)
(* committed changes as StoreContract says: a whole store of an older      *)
(* version becomes current in one step and keeps its rows, a foreign or    *)
(* damaged one is not touched, and only a current store is written to.     *)
ImplementsStore == Contract!StoreSpec

(* Storage.open returns only a current, whole store, with foreign keys     *)
(* enforced, and it stays so while it is open, whatever version this       *)
(* process read and whatever the others did since.                         *)
OpenedIsCurrent ==
  \A p \in Procs : OpenAt(p, "open") => conn[p].fk /\ Contract!IsCurrent(db)

(* Storage.open refuses only for a cause: the store is foreign or damaged, *)
(* or another process created the directory or moved the version between   *)
(* two of its steps.  A store that a release of DAM left is never refused  *)
(* to a process that is alone.                                             *)
RefusedForCause ==
  [][\A p \in Procs : conn'[p].at = "refused" /\ conn[p].at # "refused" =>
       \/ conn[p].at = "mkdir" /\ folder
       \/ conn[p].at \notin {"mkdir", "version"} /\ db.version # conn[p].version
       \/ ~Usable(db)]_schemaVars
==============================================================================
