---------------------------- MODULE SchemaMigrations ----------------------------
(***************************************************************************)
(* init_database and the runner of the storage migrations, in processes    *)
(* that may be started twice and stopped anywhere.  SQLite's driver opens  *)
(* a transaction only before INSERT or UPDATE: every CREATE and ALTER of a *)
(* step is committed as it runs, and what a step has read is read before   *)
(* its transaction.  One legacy relation and one legacy event stand for    *)
(* the rows the steps rewrite.                                             *)
(***************************************************************************)
EXTENDS Integers, FiniteSets

CONSTANTS
  Procs,          \* processes that open the database
  StartVersions,  \* versions of the databases they find; 0: no schema_meta row
  MaxCrashes      \* bound on the processes that are stopped

Current == 11     \* STORAGE_SCHEMA_VERSION
NoRow   == 0

ASSUME StartAssumption == StartVersions \subseteq NoRow .. Current + 1

VARIABLES
  db,       \* schema_meta, tables, columns and the rows the steps rewrite
  ended,    \* the user has said that the relation ended
  crashes,
  pc, at,   \* where a process is, and the version its runner last read
  rows,     \* the rows a step has selected
  together  \* two processes were at it at once (history)

\* Between its start and the end of its migrations.
Migrating == {"tables", "meta", "check", "enter", "alter", "rows", "convert",
              "verify"}

local == <<pc, at, rows>>
vars  == <<db, ended, crashes, local, together>>

\* The table a step adds columns to, or the table it creates.
Table == [v \in 1 .. Current - 1 |->
  CASE v = 1 -> "events" [] v \in {2, 3} -> "states" [] v \in {4, 5} -> "relations"
    [] v = 6 -> "event_participants" [] v = 7 -> "entity_attributes"
    [] v = 8 -> "measurements" [] v = 9 -> "knowledge_corrections"
    [] v = 10 -> "principal_bindings"]
Tables == {Table[v] : v \in DOMAIN Table}
Columns == 1 .. 5                      \* the steps that add columns
Made(v) == {Table[w] : w \in {w \in DOMAIN Table : w \in Columns \/ w < v}}

\* What an older version of the program leaves behind: its relation ended,
\* with the end as its date or not, or it holds.  A new database has no event
\* whose participants could be missing.
Old(v) == [version : {v}, tables : {IF v = NoRow THEN {} ELSE Made(v)},
           columns : {{w \in Columns : v # NoRow /\ w < v}},
           current : {TRUE, FALSE}, validTo : BOOLEAN, dated : BOOLEAN,
           roles : {IF v = NoRow \/ v > 6 THEN {"actor", "subject"} ELSE {}}]

\* valid_to is how a relation ends before v5; is_current from then on.
Sound(d) ==
  /\ d.version < 5 => d.current
  /\ d.version >= 5 => (d.validTo => ~ d.current)
  /\ d.version = NoRow => ~ d.validTo
Over(d) == IF d.version < 5 THEN d.validTo ELSE ~ d.current

TypeOK ==
  /\ db.version \in NoRow .. Current + 1
  /\ db.tables \subseteq Tables /\ db.columns \subseteq Columns
  /\ db.roles \subseteq {"actor", "subject"}
  /\ {db.current, db.validTo, db.dated, ended} \subseteq BOOLEAN
  /\ crashes \in 0 .. MaxCrashes
  /\ pc \in [Procs -> Migrating \cup {"off", "up", "failed"}]
  /\ at \in [Procs -> NoRow .. Current + 1]
  /\ DOMAIN rows = Procs
  /\ together \in BOOLEAN

Init ==
  /\ \E v \in StartVersions : db \in {d \in Old(v) : Sound(d)}
  /\ ended = Over(db)
  /\ crashes = 0
  /\ pc = [p \in Procs |-> "off"]
  /\ at = [p \in Procs |-> NoRow]
  /\ rows = [p \in Procs |-> db]
  /\ together = FALSE

Goto(p, step) == pc' = [pc EXCEPT ![p] = step]

-----------------------------------------------------------------------------
(* Faulty variants of definitions below, for mutation runs.                *)

\* A step is registered as leading one version too far.
SkipsOne(v) == v + 2

\* The participants are left to be filled in by reads of the old columns.
WithoutBackfill(d, seen, v) ==
  CASE v = 4 -> [d EXCEPT !.current = ~ seen.validTo]
    [] v = 5 -> [d EXCEPT !.validTo = @ /\ (seen.current \/ ~ seen.dated)]
    [] OTHER -> d

\* Every relation is taken for a current one.
RowsAreDropped(d, seen, v) ==
  CASE v = 4 -> [d EXCEPT !.current = TRUE]
    [] v = 5 -> [d EXCEPT !.validTo = @ /\ (seen.current \/ ~ seen.dated)]
    [] v = 6 -> [d EXCEPT !.roles = @ \cup {"actor", "subject"}]
    [] OTHER -> d

-----------------------------------------------------------------------------
Start(p) ==
  /\ pc[p] = "off"
  /\ Goto(p, "tables")
  /\ together' = (together \/ \E q \in Procs : pc[q] \in Migrating)
  /\ UNCHANGED <<db, ended, crashes, at, rows>>

\* Base.metadata.create_all: the missing tables, one by one in
\* the metadata's order, are created in their latest shape.
CreateTable(p) ==
  /\ pc[p] = "tables"
  /\ IF db.tables = Tables
       THEN Goto(p, "meta") /\ UNCHANGED db
       ELSE LET x == CHOOSE x \in Tables : x \notin db.tables
            IN  /\ db' = [db EXCEPT !.tables = @ \cup {x},
                              !.columns = @ \cup {w \in Columns : Table[w] = x}]
                /\ UNCHANGED pc
  /\ UNCHANGED <<ended, crashes, at, rows, together>>

Unstamped(v) == v = NoRow

\* The triggers, and a row for schema_meta if it has none.
Stamp(p) ==
  /\ pc[p] = "meta"
  /\ db' = IF Unstamped(db.version) THEN [db EXCEPT !.version = Current] ELSE db
  /\ Goto(p, "check")
  /\ UNCHANGED <<ended, crashes, at, rows, together>>

\* Written by a later version of the program.
Newer(v) == v > Current

\* The runner's loop: UnsupportedSchemaVersion, or the next step, or done.
Check(p) ==
  /\ pc[p] = "check"
  /\ at' = [at EXCEPT ![p] = db.version]
  /\ Goto(p, IF Newer(db.version) THEN "failed"
             ELSE IF db.version = Current THEN "up" ELSE "enter")
  /\ UNCHANGED <<db, ended, crashes, rows, together>>

\* The versions a step takes for its own work done before.
Later(v) == IF v < 6 THEN v + 1 .. 7 ELSE {v + 1}

Enter(p) ==
  /\ pc[p] = "enter"
  /\ Goto(p, IF db.version = at[p] THEN "alter"
             ELSE IF db.version \in Later(at[p]) THEN "verify" ELSE "failed")
  /\ UNCHANGED <<db, ended, crashes, at, rows, together>>

\* ALTER TABLE for the columns that are not there, each committed at once.
\* CREATE TABLE IF NOT EXISTS finds the table CreateTable has made.
Alter(p) ==
  /\ pc[p] = "alter"
  /\ db' = [db EXCEPT !.columns = @ \cup ({at[p]} \cap Columns)]
  /\ Goto(p, "rows")
  /\ UNCHANGED <<ended, crashes, at, rows, together>>

SelectRows(p) ==
  /\ pc[p] = "rows"
  /\ rows' = [rows EXCEPT ![p] = db]
  /\ Goto(p, "convert")
  /\ UNCHANGED <<db, ended, crashes, at, together>>

\* What a step writes, from the rows it has seen: is_current from valid_to,
\* an end that was only the date of the record taken away, a participant
\* of an unspecified role for the event's actor and for its subject.
Converted(d, seen, v) ==
  CASE v = 4 -> [d EXCEPT !.current = ~ seen.validTo]
    [] v = 5 -> [d EXCEPT !.validTo = @ /\ (seen.current \/ ~ seen.dated)]
    [] v = 6 -> [d EXCEPT !.roles = @ \cup {"actor", "subject"}]
    [] OTHER -> d

\* Two processes that insert one participant: uq_event_participant_role.
Collides(p) == at[p] = 6 /\ db.roles \ rows[p].roles # {}

\* The rows and the version, in the one transaction of the step.
Convert(p) ==
  /\ pc[p] = "convert"
  /\ IF Collides(p)
       THEN Goto(p, "failed") /\ UNCHANGED db
       ELSE /\ db' = [Converted(db, rows[p], at[p]) EXCEPT !.version = at[p] + 1]
            /\ Goto(p, "verify")
  /\ UNCHANGED <<ended, crashes, at, rows, together>>

To(v) == v + 1

\* MigrationFailed unless the version is the step's.
Verify(p) ==
  /\ pc[p] = "verify"
  /\ Goto(p, IF db.version = To(at[p]) THEN "check" ELSE "failed")
  /\ UNCHANGED <<db, ended, crashes, at, rows, together>>

\* A turn of the running program: the user says that the relation ended,
\* and perhaps when.
EndRelation(p) ==
  /\ pc[p] = "up" /\ ~ ended /\ db.version = Current
  /\ \E known \in BOOLEAN : db' = [db EXCEPT !.current = FALSE, !.validTo = known]
  /\ ended' = TRUE
  /\ UNCHANGED <<crashes, local, together>>

\* The process is stopped, or a statement fails.
Crash(p) ==
  /\ pc[p] # "off" /\ crashes < MaxCrashes
  /\ crashes' = crashes + 1
  /\ Goto(p, "off")
  /\ UNCHANGED <<db, ended, at, rows, together>>

Step(p) ==
  \/ Start(p) \/ CreateTable(p) \/ Stamp(p) \/ Check(p) \/ Enter(p)
  \/ Alter(p) \/ SelectRows(p) \/ Convert(p) \/ Verify(p)

Next == \E p \in Procs : Step(p) \/ EndRelation(p) \/ Crash(p)

Spec == Init /\ [][Next]_vars

\* A process that was started, and is not stopped, goes on.
FairSpec == Spec /\ \A p \in Procs : WF_vars(Step(p))

-----------------------------------------------------------------------------
\* Whoever migrates and whoever is stopped, a version in schema_meta stands
\* for a schema that has all of that version: its tables, its columns, and
\* a participant for each role of the legacy event.
VersionIsBacked ==
  db.version # NoRow =>
    /\ Made(db.version) \subseteq db.tables
    /\ \A w \in Columns : w < db.version => w \in db.columns
    /\ db.version >= 7 => db.roles = {"actor", "subject"}

\* Unless two processes migrate at once, a relation the user has said ended is
\* not current again, through every rewriting of how an end is stored and
\* wherever the process is stopped.
EndedStaysEnded == (~ together /\ ended /\ db.version >= 5) => ~ db.current

\* A database that is not newer than the program is brought up to date,
\* however often the program is stopped on the way, unless two processes
\* migrate at once and both give up.
EventuallyUp ==
  (db.version <= Current) ~> (together \/ \E p \in Procs : pc[p] = "up")
===============================================================================
