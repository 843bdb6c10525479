----------------------------- MODULE SchemaProofs ------------------------------
(***************************************************************************)
(* Proofs about Schema, for any processes and any rows: what is committed  *)
(* in the file changes as StoreContract says, and an open store is current.*)
(***************************************************************************)
EXTENDS Schema, TLAPS

Current == Contract!IsCurrent(db)

(* s is as a store that the first k scripts were run on, from version v;   *)
(* and its rows are those of the file.                                     *)
Shaped(s, k, v) ==
  /\ s.version = IF k >= 3 THEN k ELSE v
  /\ s.tables = Contract!TablesOf(k) /\ s.triggers = Contract!TriggersOf(k)
  /\ (s.linked <=> k >= 4) /\ (s.wide <=> k >= 3)

Reached(s, k, v) == Shaped(s, k, v) /\ s.rows = db.rows /\ s.used = db.used

------------------------------------------------------------------------------
(* A store is determined by its shape and its rows, and the other way      *)
(* round.                                                                  *)
LEMMA ShapedIsStoreOf ==
  ASSUME NEW s \in Contract!Stores, NEW v \in Nat, Shaped(s, v, v)
  PROVE  s = Contract!StoreOf(v, s.rows, s.used)
<1>1. PICK linked, wide : linked = (v >= 4) /\ wide = (v >= 3)
  OBVIOUS
<1>2. s.linked = linked /\ s.wide = wide
  <2>1. s.linked \in BOOLEAN /\ s.wide \in BOOLEAN
    BY DEF Contract!Stores
  <2>2. QED
    BY <1>1, <2>1 DEF Shaped
<1>3. Contract!StoreOf(v, s.rows, s.used) =
       [version |-> v, tables |-> Contract!TablesOf(v), triggers |-> Contract!TriggersOf(v),
        linked |-> linked, wide |-> wide, rows |-> s.rows, used |-> s.used]
  BY <1>1 DEF Contract!StoreOf
<1>4. s.version = v
  BY DEF Shaped
<1>5. s = [version |-> s.version, tables |-> s.tables, triggers |-> s.triggers,
           linked |-> s.linked, wide |-> s.wide, rows |-> s.rows, used |-> s.used]
  BY DEF Contract!Stores
<1>6. QED
  BY <1>2, <1>3, <1>4, <1>5 DEF Shaped

LEMMA StoreOfIsShaped ==
  ASSUME NEW v \in Nat, NEW rows, NEW used, NEW s, s = Contract!StoreOf(v, rows, used)
  PROVE  Shaped(s, v, v) /\ s.rows = rows /\ s.used = used
<1>1. /\ s.version = v /\ s.rows = rows /\ s.used = used
      /\ s.tables = Contract!TablesOf(v) /\ s.triggers = Contract!TriggersOf(v)
  BY Zenon DEF Contract!StoreOf
<1>2. (s.linked <=> v >= 4) /\ (s.wide <=> v >= 3)
  <2>1. s.linked = (v >= 4) /\ s.wide = (v >= 3)
    BY Zenon DEF Contract!StoreOf
  <2>2. QED
    BY <2>1
<1>3. QED
  BY <1>1, <1>2 DEF Shaped

(* A current store, spelled out; a whole one is any that has its shape and *)
(* no row before its version admits it.                                    *)
LEMMA CurrentFields ==
  ASSUME NEW s \in Contract!Stores, Contract!IsCurrent(s)
  PROVE  /\ Shaped(s, 5, 5) /\ s.version = 5 /\ s.used \subseteq s.rows /\ Findable(s)
         /\ "runs" \in s.tables /\ "work" \in s.tables /\ "teaching" \in s.tables
         /\ "observation" \in s.triggers /\ s.linked
<1>1. s.version = 5 /\ s = Contract!StoreOf(5, s.rows, s.used) /\ s.used \subseteq s.rows
  BY DEF Contract!IsCurrent, Contract!IsWhole
<1>2. Shaped(s, 5, 5)
  BY <1>1, StoreOfIsShaped
<1>3. (s.linked <=> TRUE) /\ (s.wide <=> TRUE) /\ s.linked \in BOOLEAN /\ s.wide \in BOOLEAN
  BY <1>2 DEF Shaped, Contract!Stores
<1>4. Findable(s)
  <2>1. s.linked = TRUE /\ s.wide = TRUE
    BY <1>3
  <2>2. s.linked = (s.version >= 4) /\ s.wide = (s.version >= 3)
    <3>1. s.version >= 4 /\ s.version >= 3
      BY <1>1
    <3>2. QED
      BY <2>1, <3>1
  <2>3. ~(s.version < 2)
    BY <1>1
  <2>4. s.version >= 2 /\ s.wide
    BY <1>1, <2>1
  <2>5. QED
    BY <2>2, <2>3, <2>4, Zenon DEF Findable
<1>5. QED
  BY <1>1, <1>2, <1>3, <1>4
     DEF Shaped, Contract!TablesOf, Contract!TriggersOf, Contract!Tables, Contract!Triggers

LEMMA WholeWhenShaped ==
  ASSUME NEW s \in Contract!Stores, NEW v \in Contract!Versions, Shaped(s, v, v), Findable(s),
         s.used \subseteq s.rows
  PROVE  Contract!IsWhole(s)
<1>1. s = Contract!StoreOf(v, s.rows, s.used) /\ s.version = v
  BY ShapedIsStoreOf DEF Shaped, Contract!Versions
<1>2. (v < 2 => s.rows = {}) /\ (v < 3 => s.rows \cap GmailRows = {})
  BY <1>1 DEF Findable, Shaped, Contract!Versions
<1>3. QED
  BY <1>1, <1>2 DEF Contract!IsWhole

LEMMA WholeIsShaped ==
  ASSUME NEW s \in Contract!Stores, Contract!IsWhole(s)
  PROVE  Shaped(s, s.version, s.version)
BY StoreOfIsShaped DEF Contract!IsWhole, Contract!Versions

------------------------------------------------------------------------------
(* What each script creates.                                               *)
LEMMA Added ==
  ASSUME NEW n \in 1..5
  PROVE  /\ \A t : t \in TablesAdded[n] <=>
              (n = 1 /\ t = "runs") \/ (n = 2 /\ t = "work") \/ (n = 5 /\ t = "teaching")
         /\ \A t : t \in TriggersAdded[n] <=>
              (n = 2 /\ t = "work") \/ (n = 4 /\ t = "observation") \/ (n = 5 /\ t = "teaching")
<1>1. n = 1 \/ n = 2 \/ n = 3 \/ n = 4 \/ n = 5
  OBVIOUS
<1>2. /\ TablesAdded[1] = {"runs"} /\ TablesAdded[2] = {"work"} /\ TablesAdded[3] = {}
      /\ TablesAdded[4] = {} /\ TablesAdded[5] = {"teaching"}
  BY DEF TablesAdded
<1>3. /\ TriggersAdded[1] = {} /\ TriggersAdded[2] = {"work"} /\ TriggersAdded[3] = {}
      /\ TriggersAdded[4] = {"observation"} /\ TriggersAdded[5] = {"teaching"}
  BY DEF TriggersAdded
<1>4. QED
  BY <1>1, <1>2, <1>3

(* Each script takes a store one version further.                          *)
LEMMA AfterScriptReaches ==
  ASSUME NEW n \in 1..5, NEW s \in Contract!Stores, NEW v \in Nat, Shaped(s, n - 1, v)
  PROVE  /\ AfterScript(n, s) \in Contract!Stores /\ Shaped(AfterScript(n, s), n, v)
         /\ AfterScript(n, s).rows = s.rows /\ AfterScript(n, s).used = s.used
<1> DEFINE tables == s.tables \cup TablesAdded[n]
           triggers == s.triggers \cup TriggersAdded[n]
           version == IF n >= 3 THEN n ELSE s.version
<1>1. PICK linked, wide : linked = (s.linked \/ n = 4) /\ wide = (s.wide \/ n = 3)
  OBVIOUS
<1>2. AfterScript(n, s) = [s EXCEPT !.version = version, !.tables = tables, !.triggers = triggers,
                                    !.wide = wide, !.linked = linked]
  BY <1>1, Zenon DEF AfterScript
<1>3. linked \in BOOLEAN /\ wide \in BOOLEAN
  BY <1>1
<1>4. tables = Contract!TablesOf(n) /\ triggers = Contract!TriggersOf(n)
  <2>1. s.tables = Contract!TablesOf(n - 1) /\ s.triggers = Contract!TriggersOf(n - 1)
    BY DEF Shaped
  <2>2. \A t : t \in tables <=> t \in Contract!TablesOf(n)
    BY <2>1, Added DEF Contract!TablesOf, Contract!Tables
  <2>3. \A t : t \in triggers <=> t \in Contract!TriggersOf(n)
    BY <2>1, Added DEF Contract!TriggersOf, Contract!Triggers
  <2> HIDE DEF tables, triggers
  <2>4. QED
    BY <2>2, <2>3 DEF Contract!TablesOf, Contract!TriggersOf
<1>5. /\ version \in Nat /\ tables \in SUBSET (Contract!Tables \cup {"other"})
      /\ triggers \in SUBSET Contract!Triggers
  <2>1. version \in Nat
    BY DEF Contract!Stores
  <2>2. QED
    BY <1>4, <2>1 DEF Contract!TablesOf, Contract!TriggersOf
<1>6. (linked <=> n >= 4) /\ (wide <=> n >= 3) /\ version = IF n >= 3 THEN n ELSE v
  <2>1. (linked <=> s.linked \/ n = 4) /\ (wide <=> s.wide \/ n = 3)
    BY <1>1, Zenon
  <2>2. QED
    BY <2>1 DEF Shaped
<1> HIDE DEF tables, triggers, version
<1>7. PICK a : a = [s EXCEPT !.version = version, !.tables = tables, !.triggers = triggers,
                             !.wide = wide, !.linked = linked]
  OBVIOUS
<1>8. /\ a \in Contract!Stores
      /\ a.version = version /\ a.tables = tables /\ a.triggers = triggers
      /\ a.wide = wide /\ a.linked = linked /\ a.rows = s.rows /\ a.used = s.used
  BY <1>3, <1>5, <1>7 DEF Contract!Stores
<1>9. QED
  BY <1>2, <1>4, <1>6, <1>7, <1>8 DEF Shaped

------------------------------------------------------------------------------
(* What a connection may rely on at each step.  What it read is still so,  *)
(* or the store became current since; past BEGIN IMMEDIATE what it read is *)
(* so and its draft is as far as the scripts it ran, unless it is about to *)
(* run its first script on a store that became current.                    *)
ConnInv(c) ==
  /\ c.at = "tables" =>
       c.version \in Contract!Versions /\ (Current \/ db.version = c.version)
  /\ c.at = "triggers" =>
       /\ c.version \in 2..5
       /\ Current \/ (db.version = c.version /\ db.tables = Contract!TablesOf(c.version))
  /\ c.at = "begin" =>
       c.version \in Contract!Versions /\ (Current \/ Reached(db, c.version, c.version))
  /\ c.at = "script" =>
       /\ c.version \in Contract!Versions /\ c.draft \in Contract!Stores
       /\ \/ /\ c.script \in (c.version + 1)..6
             /\ Reached(c.draft, c.script - 1, c.version) /\ Reached(db, c.version, c.version)
          \/ /\ c.script = c.version + 1 /\ c.version < 5 /\ c.draft = db /\ Current
  /\ c.at = "commit" =>
       /\ c.version \in Contract!Versions /\ c.draft \in Contract!Stores
       /\ Reached(c.draft, 5, c.version) /\ Reached(db, c.version, c.version)
  /\ c.at = "open" => c.fk /\ Current

Locks(p) == conn[p].at \in {"script", "commit"}

SchemaInv ==
  /\ db \in Contract!Stores /\ Findable(db)
  /\ conn \in [Procs -> Connection]
  /\ \A p \in Procs : ConnInv(conn[p])
  /\ \A p, q \in Procs : Locks(p) /\ Locks(q) => p = q

(* A step of p that leaves the store alone keeps the invariant if p's new  *)
(* connection is right and takes the lock only when it is free.            *)
LEMMA StoreUnchanged ==
  ASSUME SchemaInv, NEW p \in Procs, NEW c \in Connection, UNCHANGED db, Moves(p, c),
         ConnInv(c), c.at \in {"script", "commit"} => Locks(p) \/ ~Locked
  PROVE  SchemaInv'
<1>1. conn' = [conn EXCEPT ![p] = c] /\ conn \in [Procs -> Connection]
  BY DEF Moves, SchemaInv
<1>2. conn' \in [Procs -> Connection] /\ conn'[p] = c /\ \A q \in Procs \ {p} : conn'[q] = conn[q]
  BY <1>1
<1>3. \A x : ConnInv(x)' <=> ConnInv(x)
  BY DEF ConnInv, Reached, Current
<1>4. (\A q \in Procs : ConnInv(conn[q]))'
  <2>1. \A q \in Procs : ConnInv(conn'[q])
    BY <1>2 DEF SchemaInv
  <2>2. QED
    BY <1>3, <2>1
<1>5. (\A q, r \in Procs : Locks(q) /\ Locks(r) => q = r)'
  BY <1>2 DEF SchemaInv, Locks, Locked
<1>6. QED
  BY <1>2, <1>4, <1>5 DEF SchemaInv

(* A step that makes the store current, or writes to a current one, keeps  *)
(* it if nobody else holds the lock and p ends up with the store open.     *)
LEMMA StoreRewritten ==
  ASSUME SchemaInv, NEW p \in Procs, NEW c \in Connection,
         db' \in Contract!Stores, Contract!IsCurrent(db'), Moves(p, c), c.at = "open", c.fk,
         \A q \in Procs \ {p} : ~Locks(q)
  PROVE  SchemaInv'
<1>1. conn' = [conn EXCEPT ![p] = c] /\ conn \in [Procs -> Connection]
  BY DEF Moves, SchemaInv
<1>2. conn' \in [Procs -> Connection] /\ conn'[p] = c /\ \A q \in Procs \ {p} : conn'[q] = conn[q]
  BY <1>1
<1>3. Current' /\ Findable(db)'
  BY CurrentFields DEF Current, Findable
<1>4. (\A q \in Procs : ConnInv(conn[q]))'
  <2> SUFFICES ASSUME NEW q \in Procs PROVE ConnInv(conn[q])'
    OBVIOUS
  <2>1. CASE q = p
    BY <1>2, <1>3, <2>1 DEF ConnInv
  <2>2. CASE q # p
    <3>1. conn'[q] = conn[q] /\ conn[q].at \notin {"script", "commit"} /\ ConnInv(conn[q])
      BY <1>2, <2>2 DEF SchemaInv, Locks
    <3>2. QED
      BY <1>3, <3>1 DEF ConnInv
  <2>3. QED
    BY <2>1, <2>2
<1>5. (\A q, r \in Procs : Locks(q) /\ Locks(r) => q = r)'
  BY <1>2 DEF Locks
<1>6. QED
  BY <1>2, <1>3, <1>4, <1>5 DEF SchemaInv

(* A connection that has nothing to rely on.                               *)
Idle == {"closed", "folder", "mkdir", "version", "refused", "failed"}

LEMMA ClosedIsConnection ==
  ASSUME NEW step \in Steps
  PROVE  [Closed EXCEPT !.at = step] \in Connection /\ Closed \in Connection
         /\ [Closed EXCEPT !.at = step].at = step /\ Closed.at = "closed"
<1>1. Empty \in Contract!Stores
  <2>1. PICK linked, wide : linked = (0 >= 4) /\ wide = (0 >= 3)
    OBVIOUS
  <2>2. linked \in BOOLEAN /\ wide \in BOOLEAN
    BY <2>1
  <2>3. Empty = [version |-> 0, tables |-> Contract!TablesOf(0), triggers |-> Contract!TriggersOf(0),
                 linked |-> linked, wide |-> wide, rows |-> {}, used |-> {}]
    BY <2>1 DEF Empty, Contract!StoreOf
  <2>4. QED
    BY <2>2, <2>3 DEF Contract!Stores, Contract!TablesOf, Contract!TriggersOf
<1>2. PICK e, off : e = Empty /\ off = FALSE
  OBVIOUS
<1>3. Closed = [at |-> "closed", version |-> 0, script |-> 1, fk |-> off, draft |-> e]
  BY <1>2, Zenon DEF Closed
<1>4. e \in Contract!Stores /\ off \in BOOLEAN
  BY <1>1, <1>2
<1>5. Closed \in Connection /\ Closed.at = "closed"
  BY <1>3, <1>4 DEF Connection, Steps, Contract!Versions
<1>6. PICK closed \in Connection : closed = Closed
  BY <1>5
<1>7. [closed EXCEPT !.at = step] \in Connection /\ [closed EXCEPT !.at = step].at = step
  BY DEF Connection
<1>8. QED
  BY <1>5, <1>6, <1>7

(* A step that only goes to such a connection keeps the invariant.         *)
LEMMA ToIdle ==
  ASSUME SchemaInv, NEW p \in Procs, NEW c \in Connection, UNCHANGED db, Moves(p, c),
         c.at \in Idle
  PROVE  SchemaInv'
<1>1. ConnInv(c)
  BY DEF ConnInv, Idle
<1>2. c.at \notin {"script", "commit"}
  BY DEF Idle
<1>3. QED
  BY <1>1, <1>2, StoreUnchanged

LEMMA GoesTo ==
  ASSUME NEW p \in Procs, NEW step \in Steps, conn \in [Procs -> Connection], Goes(p, step)
  PROVE  \E c \in Connection : /\ Moves(p, c) /\ c.at = step
                               /\ c.version = conn[p].version /\ c.script = conn[p].script
                               /\ c.fk = conn[p].fk /\ c.draft = conn[p].draft
<1>1. PICK c : c = [conn[p] EXCEPT !.at = step]
  OBVIOUS
<1>2. Moves(p, c)
  BY <1>1 DEF Goes
<1>3. QED
  BY <1>1, <1>2 DEF Connection

LEMMA EndsKeepInv ==
  ASSUME SchemaInv, NEW p \in Procs, UNCHANGED db,
         Refuses(p) \/ Fails(p) \/ Moves(p, Closed)
  PROVE  SchemaInv'
<1>1. \E c \in Connection : Moves(p, c) /\ c.at \in Idle
  <2>1. "refused" \in Steps /\ "failed" \in Steps /\ {"refused", "failed", "closed"} \subseteq Idle
    BY DEF Steps, Idle
  <2>2. CASE Refuses(p)
    BY <2>1, <2>2, ClosedIsConnection, Zenon DEF Refuses
  <2>3. CASE Fails(p)
    BY <2>1, <2>3, ClosedIsConnection, Zenon DEF Fails
  <2>4. CASE Moves(p, Closed)
    BY <2>1, <2>4, ClosedIsConnection
  <2>5. QED
    BY <2>2, <2>3, <2>4
<1>2. QED
  BY <1>1, ToIdle

(* No script runs on a current store; on one that it is meant for, each    *)
(* does.                                                                   *)
LEMMA CurrentCannotRun ==
  ASSUME NEW n \in 1..5, NEW s \in Contract!Stores, Contract!IsCurrent(s)
  PROVE  ~CanRun(n, s)
BY CurrentFields DEF CanRun

LEMMA ShapedCanRun ==
  ASSUME NEW n \in 1..5, NEW s, NEW v \in Contract!Versions, Shaped(s, n - 1, v)
  PROVE  CanRun(n, s)
BY DEF CanRun, Shaped, Contract!TablesOf, Contract!TriggersOf, Contract!Tables, Contract!Triggers

------------------------------------------------------------------------------
LEMMA ReadVersionInv ==
  ASSUME SchemaInv, NEW p \in Procs, ReadVersion(p)
  PROVE  SchemaInv'
<1>1. CASE Refuses(p)
  BY <1>1, EndsKeepInv DEF ReadVersion
<1>2. CASE ~Refuses(p)
  <2>1. PICK c : c = [conn[p] EXCEPT !.at = "tables", !.version = db.version]
    OBVIOUS
  <2>2. Moves(p, c) /\ db.version \in Contract!Versions /\ UNCHANGED db
    BY <1>2, <2>1, Zenon DEF ReadVersion
  <2>3. c \in Connection /\ c.at = "tables" /\ c.version = db.version
    BY <2>1, <2>2 DEF SchemaInv, Connection, Steps
  <2>4. ConnInv(c)
    BY <2>2, <2>3 DEF ConnInv
  <2>5. QED
    BY <2>2, <2>3, <2>4, StoreUnchanged
<1>3. QED
  BY <1>1, <1>2

LEMMA ReadTablesInv ==
  ASSUME SchemaInv, NEW p \in Procs, ReadTables(p)
  PROVE  SchemaInv'
<1> DEFINE v == conn[p].version
<1>1. /\ conn[p] \in Connection /\ UNCHANGED db /\ v \in Contract!Versions
      /\ Current \/ db.version = v
  BY DEF SchemaInv, ReadTables, OpenAt, ConnInv
<1>2. CASE Refuses(p)
  BY <1>1, <1>2, EndsKeepInv
<1>3. CASE Goes(p, "begin") /\ v \in {0, 1} /\ db.tables = Contract!TablesOf(v)
  <2>1. PICK c \in Connection : Moves(p, c) /\ c.at = "begin" /\ c.version = v
    BY <1>3, GoesTo DEF SchemaInv, Steps
  <2>2. Current \/ Reached(db, v, v)
    <3>1. Contract!TriggersOf(v) = {}
      BY <1>3 DEF Contract!TriggersOf
    <3>2. CASE db.version = v
      <4>1. (db.linked <=> v >= 4) /\ (db.wide <=> v >= 3)
        BY <3>2 DEF SchemaInv, Findable
      <4>2. db.version = (IF v >= 3 THEN v ELSE v) /\ db.triggers = {}
        BY <1>3, <3>2 DEF SchemaInv, Findable
      <4>3. QED
        BY <1>3, <3>1, <4>1, <4>2 DEF Reached, Shaped
    <3>3. QED
      BY <1>1, <3>2
  <2>3. ConnInv(c)
    BY <1>1, <2>1, <2>2 DEF ConnInv
  <2>4. QED
    BY <1>1, <2>1, <2>3, StoreUnchanged
<1>4. CASE Goes(p, "triggers") /\ v > 1 /\ db.tables = Contract!TablesOf(v)
  <2>1. PICK c \in Connection : Moves(p, c) /\ c.at = "triggers" /\ c.version = v
    BY <1>4, GoesTo DEF SchemaInv, Steps
  <2>2. ConnInv(c)
    BY <1>1, <1>4, <2>1 DEF ConnInv, Contract!Versions
  <2>3. QED
    BY <1>1, <2>1, <2>2, StoreUnchanged
<1>5. ExpectedTables(v) = Contract!TablesOf(v) \/ v = 0
  BY <1>1 DEF ExpectedTables, Contract!TablesOf, Contract!Tables, Contract!Versions, SchemaVersion
<1>6. Contract!TablesOf(0) = {}
  BY DEF Contract!TablesOf
<1>7. QED
  BY <1>2, <1>3, <1>4, <1>5, <1>6 DEF ReadTables

LEMMA ReadTriggersInv ==
  ASSUME SchemaInv, NEW p \in Procs, ReadTriggers(p)
  PROVE  SchemaInv'
<1> DEFINE v == conn[p].version
<1>1. /\ UNCHANGED db /\ v \in 2..5
      /\ Current \/ (db.version = v /\ db.tables = Contract!TablesOf(v))
  BY DEF SchemaInv, ReadTriggers, OpenAt, ConnInv
<1>2. CASE Refuses(p)
  BY <1>1, <1>2, EndsKeepInv
<1>3. CASE db.triggers = ExpectedTriggers(v) /\ Goes(p, "begin")
  <2>1. PICK c \in Connection : Moves(p, c) /\ c.at = "begin" /\ c.version = v
    BY <1>3, GoesTo DEF SchemaInv, Steps
  <2>2. ExpectedTriggers(v) = Contract!TriggersOf(v)
    BY <1>1 DEF ExpectedTriggers, Contract!TriggersOf, Contract!Triggers, SchemaVersion
  <2>3. Current \/ Reached(db, v, v)
    BY <1>1, <1>3, <2>2 DEF Reached, Shaped, SchemaInv, Findable
  <2>4. ConnInv(c)
    BY <1>1, <2>1, <2>3 DEF ConnInv, Contract!Versions
  <2>5. QED
    BY <1>1, <2>1, <2>4, StoreUnchanged
<1>4. QED
  BY <1>2, <1>3 DEF ReadTriggers

LEMMA BeginImmediateInv ==
  ASSUME SchemaInv, NEW p \in Procs, BeginImmediate(p)
  PROVE  SchemaInv'
<1> DEFINE v == conn[p].version
<1>1. /\ conn[p] \in Connection /\ UNCHANGED db /\ ~Locked /\ v \in Contract!Versions
      /\ db \in Contract!Stores /\ (Current \/ Reached(db, v, v))
  BY DEF SchemaInv, BeginImmediate, OpenAt, ConnInv
<1>2. PICK fk \in BOOLEAN : fk = (v = SchemaVersion)
  OBVIOUS
<1>3. PICK c : c = [conn[p] EXCEPT !.at = "script", !.script = v + 1, !.fk = fk, !.draft = db]
  OBVIOUS
<1>4. Moves(p, c)
  BY <1>2, <1>3, Zenon DEF BeginImmediate
<1>5. /\ c \in Connection /\ c.at = "script" /\ c.version = v /\ c.script = v + 1
      /\ c.draft = db
  <2>1. PICK old \in Connection : old = conn[p]
    BY <1>1
  <2>2. PICK script \in 1..6 : script = v + 1
    BY <1>1 DEF Contract!Versions
  <2>3. PICK draft \in Contract!Stores : draft = db
    BY <1>1
  <2>4. c = [old EXCEPT !.at = "script", !.script = script, !.fk = fk, !.draft = draft]
    BY <1>3, <2>1, <2>2, <2>3
  <2>5. QED
    BY <2>1, <2>2, <2>3, <2>4 DEF Connection, Steps
<1>6. v = 5 /\ Current => Reached(db, v, v)
  BY <1>1, CurrentFields DEF Reached, Current
<1>7. ConnInv(c)
  <2>1. CASE Reached(db, v, v)
    BY <1>1, <1>5, <2>1 DEF ConnInv, Contract!Versions
  <2>2. CASE Current /\ v < 5
    BY <1>1, <1>5, <2>2 DEF ConnInv, Contract!Versions
  <2>3. QED
    BY <1>1, <1>6, <2>1, <2>2 DEF Contract!Versions
<1>8. QED
  BY <1>1, <1>4, <1>5, <1>7, StoreUnchanged

(* A script that runs is one of a version the store still has.             *)
LEMMA RunScriptInv ==
  ASSUME SchemaInv, NEW p \in Procs, RunScript(p)
  PROVE  SchemaInv'
<1> DEFINE n == conn[p].script
           v == conn[p].version
           d == conn[p].draft
<1>1. /\ conn[p] \in Connection /\ UNCHANGED db /\ Locks(p) /\ ConnInv(conn[p])
      /\ conn[p].at = "script"
  BY DEF SchemaInv, RunScript, OpenAt, Locks
<1>2. /\ v \in Contract!Versions /\ d \in Contract!Stores
      /\ \/ n \in (v + 1)..6 /\ Reached(d, n - 1, v) /\ Reached(db, v, v)
         \/ n = v + 1 /\ v < 5 /\ d = db /\ Current
  BY <1>1 DEF ConnInv
<1>3. CASE Refuses(p)
  BY <1>1, <1>3, EndsKeepInv
<1>4. CASE n > SchemaVersion /\ Goes(p, "commit")
  <2>1. PICK c \in Connection : Moves(p, c) /\ c.at = "commit" /\ c.version = v /\ c.draft = d
    BY <1>4, GoesTo DEF SchemaInv, Steps
  <2>2. Reached(d, 5, v) /\ Reached(db, v, v)
    <3>1. n \in (v + 1)..6 /\ Reached(d, n - 1, v) /\ Reached(db, v, v)
      BY <1>2, <1>4 DEF SchemaVersion, Contract!Versions
    <3>2. n - 1 = 5
      BY <1>2, <1>4, <3>1 DEF SchemaVersion, Contract!Versions
    <3>3. QED
      BY <3>1, <3>2
  <2>3. ConnInv(c)
    BY <1>2, <2>1, <2>2 DEF ConnInv
  <2>4. QED
    BY <1>1, <2>1, <2>3, StoreUnchanged
<1>5. CASE n <= SchemaVersion /\ CanRun(n, d)
             /\ Moves(p, [conn[p] EXCEPT !.script = n + 1, !.draft = AfterScript(n, @)])
  <2>1. PICK c : c = [conn[p] EXCEPT !.script = n + 1, !.draft = AfterScript(n, d)]
    OBVIOUS
  <2>2. Moves(p, c)
    BY <1>5, <2>1
  <2>3. n \in 1..5
    BY <1>2, <1>5 DEF SchemaVersion, Contract!Versions
  <2>4. n \in (v + 1)..6 /\ Reached(d, n - 1, v) /\ Reached(db, v, v)
    BY <1>2, <1>5, <2>3, CurrentCannotRun DEF Current
  <2>5. /\ AfterScript(n, d) \in Contract!Stores /\ Shaped(AfterScript(n, d), n, v)
        /\ AfterScript(n, d).rows = d.rows /\ AfterScript(n, d).used = d.used
    BY <1>2, <2>3, <2>4, AfterScriptReaches DEF Reached, Contract!Versions
  <2>6. /\ c \in Connection /\ c.at = "script" /\ c.version = v /\ c.script = n + 1
        /\ c.draft = AfterScript(n, d)
    <3>1. PICK old \in Connection : old = conn[p]
      BY <1>1
    <3>2. PICK script \in 1..6 : script = n + 1
      BY <2>3
    <3>3. PICK draft \in Contract!Stores : draft = AfterScript(n, d)
      BY <2>5
    <3>4. c = [old EXCEPT !.script = script, !.draft = draft]
      BY <2>1, <3>1, <3>2, <3>3
    <3>5. QED
      BY <1>1, <3>1, <3>2, <3>3, <3>4 DEF Connection
  <2>7. Reached(c.draft, c.script - 1, v)
    <3>1. c.script - 1 = n
      BY <2>3, <2>6
    <3>2. QED
      BY <2>4, <2>5, <2>6, <3>1 DEF Reached
  <2>8. ConnInv(c)
    BY <1>2, <2>3, <2>4, <2>5, <2>6, <2>7 DEF ConnInv, Contract!Versions
  <2>9. QED
    BY <1>1, <2>2, <2>6, <2>8, StoreUnchanged
<1>6. QED
  BY <1>3, <1>4, <1>5 DEF RunScript

(* Commit makes a whole store current in one step, or writes what is there.*)
LEMMA CommitInv ==
  ASSUME SchemaInv, NEW p \in Procs, Commit(p)
  PROVE  SchemaInv' /\ [Contract!StoreNext]_db
<1> DEFINE v == conn[p].version
           d == conn[p].draft
<1>1. /\ v \in Contract!Versions /\ d \in Contract!Stores /\ Locks(p) /\ conn[p] \in Connection
      /\ Reached(d, 5, v) /\ Reached(db, v, v)
  BY DEF SchemaInv, Commit, OpenAt, Locks, ConnInv
<1>2. CASE Refuses(p) /\ UNCHANGED db
  BY <1>2, EndsKeepInv
<1>3. CASE d.used \subseteq d.rows /\ ~(Refuses(p) /\ UNCHANGED db)
  <2>1. PICK c : c = [Closed EXCEPT !.at = "open", !.version = v, !.fk = TRUE]
    OBVIOUS
  <2>2. Moves(p, c) /\ db' = d
    BY <1>3, <2>1, Zenon DEF Commit
  <2>3. c.at = "open" /\ c.fk /\ c \in Connection
    <3>1. PICK closed \in Connection : closed = Closed
      BY ClosedIsConnection DEF Steps
    <3>2. PICK on \in BOOLEAN : on = TRUE
      OBVIOUS
    <3>3. c = [closed EXCEPT !.at = "open", !.version = v, !.fk = on]
      BY <2>1, <3>1, <3>2
    <3>4. QED
      BY <1>1, <3>1, <3>2, <3>3 DEF Connection, Steps
  <2>4. d = Contract!StoreOf(5, db.rows, db.used)
    BY <1>1, ShapedIsStoreOf DEF Reached, Shaped
  <2>5. Contract!IsCurrent(d)
    BY <1>1, <1>3, <2>4 DEF Reached, Shaped, Contract!IsCurrent, Contract!IsWhole, Contract!Versions
  <2>6. SchemaInv'
    BY <1>1, <2>2, <2>3, <2>5, StoreRewritten DEF SchemaInv
  <2>7. [Contract!StoreNext]_db
    <3>1. db = Contract!StoreOf(v, db.rows, db.used) /\ db.version = v
      BY <1>1, ShapedIsStoreOf DEF Reached, Shaped, SchemaInv, Contract!Versions
    <3>2. CASE v = 5
      BY <2>2, <2>4, <3>1, <3>2
    <3>3. CASE v < 5
      <4>1. Contract!IsWhole(db)
        BY <1>1, <1>3, WholeWhenShaped DEF Reached, SchemaInv
      <4>2. QED
        BY <2>2, <2>4, <3>1, <3>3, <4>1 DEF Contract!StoreNext, Contract!Upgrade
    <3>4. QED
      BY <1>1, <3>2, <3>3 DEF Contract!Versions
  <2>8. QED
    BY <2>6, <2>7
<1>4. QED
  BY <1>2, <1>3 DEF Commit

(* More rows leave a current store current, if what refers to one exists.  *)
LEMMA MoreRows ==
  ASSUME NEW s \in Contract!Stores, Contract!IsCurrent(s), NEW t \in Contract!Stores,
         t.version = s.version, t.tables = s.tables, t.triggers = s.triggers,
         t.linked = s.linked, t.wide = s.wide, t.used \subseteq t.rows
  PROVE  Contract!IsCurrent(t)
<1>1. Shaped(s, 5, 5) /\ s.version = 5
  BY CurrentFields
<1>2. Shaped(t, 5, 5)
  <2>1. (t.linked <=> 5 >= 4) /\ (t.wide <=> 5 >= 3)
    BY <1>1, Zenon DEF Shaped
  <2>2. QED
    BY <1>1, <2>1 DEF Shaped
<1>3. t = Contract!StoreOf(5, t.rows, t.used)
  BY <1>2, ShapedIsStoreOf
<1>4. QED
  BY <1>1, <1>3 DEF Contract!IsCurrent, Contract!IsWhole, Contract!Versions

LEMMA WriteInv ==
  ASSUME SchemaInv, NEW p \in Procs, NEW s \in SourceRows,
         RegisterSource(p, s) \/ ReferToSource(p, s)
  PROVE  SchemaInv' /\ [Contract!StoreNext]_db
<1>1. /\ conn[p] \in Connection /\ conn[p].at = "open" /\ conn[p].fk /\ Current
      /\ db \in Contract!Stores /\ conn' = conn /\ ~Locked
      /\ conn \in [Procs -> Connection]
  BY DEF SchemaInv, RegisterSource, ReferToSource, OpenAt, ConnInv
<1>2. db' \in Contract!Stores /\ Contract!IsCurrent(db') /\ [Contract!StoreNext]_db
  <2>0. db.used \subseteq db.rows
    BY <1>1, CurrentFields DEF Current
  <2>1. CASE RegisterSource(p, s)
    <3>1. db' = [db EXCEPT !.rows = @ \cup {s}]
      BY <2>1 DEF RegisterSource
    <3>2. /\ db' \in Contract!Stores
          /\ db'.version = db.version /\ db'.tables = db.tables /\ db'.triggers = db.triggers
          /\ db'.linked = db.linked /\ db'.wide = db.wide /\ db'.used \subseteq db'.rows
      BY <1>1, <2>0, <3>1 DEF Contract!Stores
    <3>3. QED
      BY <1>1, <3>1, <3>2, MoreRows DEF Current, Contract!StoreNext, Contract!Register
  <2>2. CASE ReferToSource(p, s)
    <3>1. db' = [db EXCEPT !.used = @ \cup {s}] /\ s \in db.rows
      BY <2>2 DEF ReferToSource
    <3>2. /\ db' \in Contract!Stores
          /\ db'.version = db.version /\ db'.tables = db.tables /\ db'.triggers = db.triggers
          /\ db'.linked = db.linked /\ db'.wide = db.wide /\ db'.used \subseteq db'.rows
      BY <1>1, <2>0, <3>1 DEF Contract!Stores
    <3>3. QED
      BY <1>1, <3>1, <3>2, MoreRows DEF Current, Contract!StoreNext, Contract!Refer
  <2>3. QED
    BY <2>1, <2>2
<1>3. Moves(p, conn[p])
  BY <1>1 DEF Moves
<1>4. \A q \in Procs \ {p} : ~Locks(q)
  BY <1>1 DEF Locked, Locks
<1>5. SchemaInv'
  BY <1>1, <1>2, <1>3, <1>4, StoreRewritten
<1>6. QED
  BY <1>2, <1>5

------------------------------------------------------------------------------
LEMMA SchemaInitInv == SchemaInit => SchemaInv
<1> SUFFICES ASSUME SchemaInit PROVE SchemaInv
  OBVIOUS
<1>1. Closed \in Connection /\ Closed.at = "closed"
  BY ClosedIsConnection DEF Steps
<1>2. conn \in [Procs -> Connection] /\ \A p \in Procs : conn[p].at = "closed"
  BY <1>1 DEF SchemaInit
<1>3. \A p \in Procs : ConnInv(conn[p])
  BY <1>2 DEF ConnInv
<1>4. QED
  BY <1>2, <1>3 DEF SchemaInv, SchemaInit, Locks

(* Every step keeps the invariant and is one of the contract, or none.     *)
LEMMA SchemaStep ==
  ASSUME SchemaInv, [SchemaNext]_schemaVars
  PROVE  SchemaInv' /\ [Contract!StoreNext]_db
<1>1. CASE UNCHANGED schemaVars
  BY <1>1 DEF schemaVars, SchemaInv, ConnInv, Reached, Current, Locks
<1>2. CASE SchemaNext
  <2> SUFFICES ASSUME NEW p \in Procs,
                      \/ OpenStorage(p) \/ OpeningStep(p) \/ OpenFails(p) \/ CloseStorage(p)
                      \/ DropStorage(p)
                      \/ \E s \in SourceRows : RegisterSource(p, s) \/ ReferToSource(p, s)
               PROVE  SchemaInv' /\ [Contract!StoreNext]_db
    BY <1>2 DEF SchemaNext
  <2>1. CASE OpenStorage(p) \/ FindFolder(p)
    <3>1. PICK step \in Idle : Goes(p, step) /\ UNCHANGED db
      BY <2>1 DEF OpenStorage, FindFolder, Idle
    <3>2. step \in Steps
      BY DEF Idle, Steps
    <3>3. PICK c \in Connection : Moves(p, c) /\ c.at = step
      BY <3>1, <3>2, GoesTo DEF SchemaInv
    <3>4. QED
      BY <3>1, <3>3, ToIdle
  <2>2. CASE MakeFolder(p)
    <3>1. CASE Refuses(p)
      BY <2>2, <3>1, EndsKeepInv DEF MakeFolder
    <3>2. CASE Goes(p, "version")
      <4>1. PICK c \in Connection : Moves(p, c) /\ c.at = "version"
        BY <3>2, GoesTo DEF SchemaInv, Steps
      <4>2. QED
        BY <2>2, <4>1, ToIdle DEF MakeFolder, Idle
    <3>3. QED
      BY <2>2, <3>1, <3>2 DEF MakeFolder
  <2>3. CASE ReadVersion(p)
    BY <2>3, ReadVersionInv DEF ReadVersion
  <2>4. CASE ReadTables(p)
    BY <2>4, ReadTablesInv DEF ReadTables
  <2>5. CASE ReadTriggers(p)
    BY <2>5, ReadTriggersInv DEF ReadTriggers
  <2>6. CASE BeginImmediate(p)
    BY <2>6, BeginImmediateInv DEF BeginImmediate
  <2>7. CASE RunScript(p)
    BY <2>7, RunScriptInv DEF RunScript
  <2>8. CASE Commit(p)
    BY <2>8, CommitInv
  <2>9. CASE OpenFails(p) \/ CloseStorage(p) \/ DropStorage(p)
    BY <2>9, EndsKeepInv DEF OpenFails, CloseStorage, DropStorage
  <2>10. CASE \E s \in SourceRows : RegisterSource(p, s) \/ ReferToSource(p, s)
    BY <2>10, WriteInv
  <2>11. QED
    BY <2>1, <2>2, <2>3, <2>4, <2>5, <2>6, <2>7, <2>8, <2>9, <2>10 DEF OpeningStep
<1>3. QED
  BY <1>1, <1>2

(* What each process has read is still so, or the store became current     *)
(* since; a draft is as far as its scripts; one process migrates at a time.*)
THEOREM SchemaInvariant == SchemaSpec => []SchemaInv
<1>1. SchemaInv /\ [SchemaNext]_schemaVars => SchemaInv'
  BY SchemaStep
<1>2. QED
  BY <1>1, SchemaInitInv, PTL DEF SchemaSpec

(* Storage.open implements StoreContract: a migration is one atomic step,  *)
(* keeps the rows, and only whole or current stores are written to.        *)
THEOREM SchemaImplementsStore == SchemaSpec => ImplementsStore
<1>1. SchemaInit => Contract!StoreInit
  BY DEF SchemaInit, Contract!StoreInit
<1>2. SchemaInv /\ [SchemaNext]_schemaVars => [Contract!StoreNext]_db
  BY SchemaStep
<1>3. QED
  BY <1>1, <1>2, SchemaInvariant, PTL DEF SchemaSpec, ImplementsStore, Contract!StoreSpec

(* An open store is current and enforces foreign keys, and stays so.       *)
THEOREM OpenStoresAreCurrent == SchemaSpec => []OpenedIsCurrent
<1>1. SchemaInv => OpenedIsCurrent
  BY DEF SchemaInv, OpenedIsCurrent, OpenAt, ConnInv, Current
<1>2. QED
  BY <1>1, SchemaInvariant, PTL

------------------------------------------------------------------------------
(* Why each step refuses.                                                  *)
Cause(p) ==
  \/ conn[p].at = "mkdir" /\ folder
  \/ conn[p].at \notin {"mkdir", "version"} /\ db.version # conn[p].version
  \/ ~Usable(db)

LEMMA TablesRefusedForCause ==
  ASSUME SchemaInv, NEW p \in Procs, ReadTables(p) \/ ReadTriggers(p),
         conn'[p].at = "refused"
  PROVE  Cause(p)
<1> DEFINE v == conn[p].version
<1> SUFFICES ASSUME db.version = v, Usable(db) PROVE FALSE
  BY DEF Cause, ReadTables, ReadTriggers, OpenAt
<1>1. /\ v \in Contract!Versions /\ db.tables = Contract!TablesOf(v)
      /\ db.triggers = Contract!TriggersOf(v)
  BY WholeIsShaped DEF SchemaInv, Shaped, Usable, Contract!IsWhole
<1>2. conn \in [Procs -> Connection] /\ ~Goes(p, "begin") /\ ~Goes(p, "triggers")
  BY GoesTo DEF SchemaInv, Goes, Moves, Steps, Connection
<1>3. CASE ReadTables(p)
  <2>1. v = 0 => db.tables = {}
    BY <1>1 DEF Contract!TablesOf
  <2>2. v > 0 => db.tables = ExpectedTables(v)
    BY <1>1 DEF ExpectedTables, Contract!TablesOf, Contract!Tables, Contract!Versions, SchemaVersion
  <2>3. QED
    BY <1>1, <1>2, <1>3, <2>1, <2>2 DEF ReadTables, Contract!Versions
<1>4. CASE ReadTriggers(p)
  <2>1. v \in 2..5
    BY <1>4 DEF SchemaInv, ReadTriggers, OpenAt, ConnInv
  <2>2. db.triggers = ExpectedTriggers(v)
    BY <1>1, <2>1 DEF ExpectedTriggers, Contract!TriggersOf, Contract!Triggers, SchemaVersion
  <2>3. QED
    BY <1>2, <1>4, <2>2 DEF ReadTriggers
<1>5. QED
  BY <1>3, <1>4

LEMMA ScriptRefusedForCause ==
  ASSUME SchemaInv, NEW p \in Procs, RunScript(p), conn'[p].at = "refused"
  PROVE  Cause(p)
<1> DEFINE n == conn[p].script
           v == conn[p].version
           d == conn[p].draft
<1>1. /\ v \in Contract!Versions /\ d \in Contract!Stores /\ conn[p].at = "script"
      /\ \/ n \in (v + 1)..6 /\ Reached(d, n - 1, v) /\ Reached(db, v, v)
         \/ n = v + 1 /\ v < 5 /\ d = db /\ Current
  BY DEF SchemaInv, RunScript, OpenAt, ConnInv
<1>2. conn \in [Procs -> Connection] /\ conn[p].at = "script"
  BY <1>1 DEF SchemaInv
<1>3. n <= SchemaVersion /\ ~CanRun(n, d)
  <2>1. ~Goes(p, "commit")
    BY <1>2 DEF Goes, Moves, Connection
  <2>2. ~Moves(p, [conn[p] EXCEPT !.script = n + 1, !.draft = AfterScript(n, @)])
    BY <1>2 DEF Moves, Connection
  <2>3. QED
    BY <2>1, <2>2 DEF RunScript
<1>4. n \in 1..5
  BY <1>1, <1>3 DEF SchemaVersion, Contract!Versions
<1>5. n = v + 1 /\ v < 5 /\ Current
  BY <1>1, <1>3, <1>4, ShapedCanRun DEF Reached
<1>6. db.version = 5
  BY <1>5, CurrentFields DEF SchemaInv, Current
<1>7. QED
  BY <1>1, <1>5, <1>6 DEF Cause, Contract!Versions

LEMMA CommitRefusedForCause ==
  ASSUME SchemaInv, NEW p \in Procs, Commit(p), conn'[p].at = "refused"
  PROVE  Cause(p)
<1>1. Reached(conn[p].draft, 5, conn[p].version) /\ conn \in [Procs -> Connection]
  BY DEF SchemaInv, Commit, OpenAt, ConnInv
<1>2. ~Moves(p, [Closed EXCEPT !.at = "open", !.version = conn[p].version, !.fk = TRUE])
  <2>1. PICK closed \in Connection : closed = Closed
    BY ClosedIsConnection DEF Steps
  <2>2. PICK on \in BOOLEAN : on = TRUE
    OBVIOUS
  <2>3. PICK c : c = [closed EXCEPT !.at = "open", !.version = conn[p].version, !.fk = on]
    OBVIOUS
  <2>4. c.at = "open"
    BY <2>3 DEF Connection
  <2>5. ~Moves(p, c)
    BY <1>1, <2>4 DEF Moves
  <2>6. QED
    BY <2>1, <2>2, <2>3, <2>5
<1>3. ~(conn[p].draft.used \subseteq conn[p].draft.rows)
  BY <1>2 DEF Commit
<1>4. QED
  BY <1>1, <1>3 DEF Cause, Reached, Usable, Contract!IsWhole

(* Opening refuses only a store that is foreign or damaged, or because     *)
(* another process created the directory or moved the version meanwhile.   *)
THEOREM OpeningRefusesForCause == SchemaSpec => RefusedForCause
<1> DEFINE A == \A p \in Procs : conn'[p].at = "refused" /\ conn[p].at # "refused" => Cause(p)
<1>1. SchemaInv /\ [SchemaNext]_schemaVars => [A]_schemaVars
  <2> SUFFICES ASSUME SchemaInv, NEW q \in Procs, NEW p \in Procs,
                      conn'[p].at = "refused", conn[p].at # "refused",
                      \/ OpenStorage(q) \/ OpeningStep(q) \/ OpenFails(q) \/ CloseStorage(q)
                      \/ DropStorage(q)
                      \/ \E s \in SourceRows : RegisterSource(q, s) \/ ReferToSource(q, s)
               PROVE  Cause(p)
    BY DEF SchemaNext
  <2>1. conn \in [Procs -> Connection]
    BY DEF SchemaInv
  <2>2. p = q
    BY <2>1 DEF OpenStorage, OpeningStep, OpenFails, CloseStorage, DropStorage, RegisterSource,
                ReferToSource, FindFolder, MakeFolder, ReadVersion, ReadTables, ReadTriggers,
                BeginImmediate, RunScript, Commit, Goes, Refuses, Fails, Moves
  <2>3. CASE OpenStorage(p) \/ FindFolder(p)
    BY <2>1, <2>3 DEF OpenStorage, FindFolder, Goes, Moves, Connection
  <2>4. CASE MakeFolder(p)
    BY <2>1, <2>4 DEF MakeFolder, OpenAt, Goes, Moves, Connection, Cause
  <2>5. CASE ReadVersion(p)
    <3>1. db.version \notin Contract!Versions
      BY <2>1, <2>5 DEF ReadVersion, Moves, Connection
    <3>2. QED
      BY <3>1 DEF Cause, Usable, Contract!IsWhole
  <2>6. CASE ReadTables(p) \/ ReadTriggers(p)
    BY <2>6, TablesRefusedForCause
  <2>7. CASE BeginImmediate(p)
    BY <2>1, <2>7 DEF BeginImmediate, Moves, Connection
  <2>8. CASE RunScript(p)
    BY <2>8, ScriptRefusedForCause
  <2>9. CASE Commit(p)
    BY <2>9, CommitRefusedForCause
  <2>10. CASE OpenFails(p) \/ CloseStorage(p) \/ DropStorage(p)
    <3>1. PICK c \in Connection : Moves(p, c) /\ c.at \in {"failed", "closed"}
      <4>1. "failed" \in Steps
        BY DEF Steps
      <4>2. CASE Fails(p)
        BY <4>1, <4>2, ClosedIsConnection, Zenon DEF Fails
      <4>3. CASE Moves(p, Closed)
        BY <4>1, <4>3, ClosedIsConnection
      <4>4. QED
        BY <2>10, <4>2, <4>3 DEF OpenFails, CloseStorage, DropStorage
    <3>2. QED
      BY <2>1, <3>1 DEF Moves
  <2>11. CASE \E s \in SourceRows : RegisterSource(p, s) \/ ReferToSource(p, s)
    BY <2>11 DEF RegisterSource, ReferToSource
  <2>12. QED
    BY <2>2, <2>3, <2>4, <2>5, <2>6, <2>7, <2>8, <2>9, <2>10, <2>11 DEF OpeningStep
<1>2. [A]_schemaVars =>
        [\A p \in Procs : conn'[p].at = "refused" /\ conn[p].at # "refused" =>
           \/ conn[p].at = "mkdir" /\ folder
           \/ conn[p].at \notin {"mkdir", "version"} /\ db.version # conn[p].version
           \/ ~Usable(db)]_schemaVars
  BY DEF Cause
<1> HIDE DEF A
<1>3. QED
  BY <1>1, <1>2, SchemaInvariant, PTL DEF SchemaSpec, RefusedForCause

==============================================================================
