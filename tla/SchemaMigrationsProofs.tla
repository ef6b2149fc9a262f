------------------------ MODULE SchemaMigrationsProofs ------------------------
(***************************************************************************)
(* Theorems about SchemaMigrations, for every set of processes, whatever   *)
(* versions they find and however often they are stopped: a version stands *)
(* for its schema, and a relation that ended stays ended.                  *)
(***************************************************************************)
EXTENDS SchemaMigrations, TLAPS

-----------------------------------------------------------------------------
(* Types.                                                                  *)

Roles     == {"actor", "subject"}
Versions  == NoRow .. Current + 1
Databases == [version : Versions, tables : SUBSET Tables, columns : SUBSET Columns,
              current : BOOLEAN, validTo : BOOLEAN, dated : BOOLEAN, roles : SUBSET Roles]
PcSteps   == Migrating \cup {"off", "up", "failed"}

\* A process is at work on a step of the registry.
Stepping(p) == pc[p] \in {"enter", "alter", "rows", "convert", "verify"}

TypeInv ==
  /\ db \in Databases /\ rows \in [Procs -> Databases]
  /\ ended \in BOOLEAN /\ together \in BOOLEAN /\ crashes \in Nat
  /\ pc \in [Procs -> PcSteps] /\ at \in [Procs -> Versions]
  /\ \A p \in Procs : Stepping(p) => at[p] < Current

LEMMA OldDatabases ==
  ASSUME NEW v \in StartVersions PROVE Old(v) \subseteq Databases
  <1>1. v \in Versions
    BY StartAssumption DEF Versions
  <1>2. Made(v) \subseteq Tables
    BY DEF Made, Tables
  <1>3. {w \in Columns : v # NoRow /\ w < v} \subseteq Columns
    OBVIOUS
  <1> DEFINE tables == IF v = NoRow THEN {} ELSE Made(v)
             columns == {w \in Columns : v # NoRow /\ w < v}
             roles == IF v = NoRow \/ v > 6 THEN {"actor", "subject"} ELSE {}
  <1>4. tables \in SUBSET Tables /\ columns \in SUBSET Columns /\ roles \in SUBSET Roles
    BY <1>2, <1>3 DEF Roles
  <1>a. {TRUE, FALSE} = BOOLEAN
    OBVIOUS
  <1>5. Old(v) = [version : {v}, tables : {tables}, columns : {columns},
                  current : BOOLEAN, validTo : BOOLEAN, dated : BOOLEAN, roles : {roles}]
    BY <1>a, Zenon DEF Old
  <1> HIDE DEF tables, columns, roles
  <1>6. ASSUME NEW d \in Old(v) PROVE d \in Databases
    <2>1. d \in [version : Versions, tables : SUBSET Tables, columns : SUBSET Columns,
                 current : BOOLEAN, validTo : BOOLEAN, dated : BOOLEAN, roles : SUBSET Roles]
      BY <1>1, <1>4, <1>5
    <2>2. QED
      BY <2>1 DEF Databases
  <1>7. QED
    BY <1>6

LEMMA InitTypeInv == Init => TypeInv
  <1> SUFFICES ASSUME Init PROVE TypeInv
    OBVIOUS
  <1>1. db \in Databases
    BY OldDatabases DEF Init
  <1>2. NoRow \in Versions /\ db.version \in Versions
    BY <1>1 DEF Versions, NoRow, Current, Databases
  <1>3. Over(db) \in BOOLEAN
    BY <1>1 DEF Over, Databases
  <1>4. /\ pc \in [Procs -> PcSteps] /\ \A p \in Procs : ~ Stepping(p)
        /\ at \in [Procs -> Versions] /\ rows \in [Procs -> Databases]
    BY <1>1, <1>2 DEF Init, PcSteps, Stepping
  <1>5. QED
    BY <1>1, <1>3, <1>4 DEF Init, TypeInv

\* What the statements of the program make of a database.
WithTable(d, x, cols) == [d EXCEPT !.tables = @ \cup {x}, !.columns = @ \cup cols]
Rewritten(d, seen, v) == [Converted(d, seen, v) EXCEPT !.version = v + 1]

LEMMA TableMade ==
  ASSUME NEW d \in Databases, NEW x \in Tables, NEW cols \in SUBSET Columns,
         NEW e, e = WithTable(d, x, cols)
  PROVE  /\ e \in Databases /\ e.version = d.version /\ e.roles = d.roles
         /\ e.tables = d.tables \cup {x} /\ e.columns = d.columns \cup cols
         /\ e.current = d.current /\ e.validTo = d.validTo
  BY DEF Databases, WithTable

LEMMA DatabaseStamped ==
  ASSUME NEW d \in Databases, NEW e, e = [d EXCEPT !.version = Current]
  PROVE  /\ e \in Databases /\ e.version = Current /\ e.roles = d.roles
         /\ e.tables = d.tables /\ e.columns = d.columns
         /\ e.current = d.current /\ e.validTo = d.validTo
  BY DEF Databases, Versions, Current, NoRow

LEMMA TableAltered ==
  ASSUME NEW d \in Databases, NEW v \in Versions,
         NEW e, e = [d EXCEPT !.columns = @ \cup ({v} \cap Columns)]
  PROVE  /\ e \in Databases /\ e.version = d.version /\ e.roles = d.roles
         /\ e.tables = d.tables /\ e.columns = d.columns \cup ({v} \cap Columns)
         /\ e.current = d.current /\ e.validTo = d.validTo
  BY DEF Databases

LEMMA RelationEnded ==
  ASSUME NEW d \in Databases, NEW known \in BOOLEAN,
         NEW e, e = [d EXCEPT !.current = FALSE, !.validTo = known]
  PROVE  /\ e \in Databases /\ e.version = d.version /\ e.roles = d.roles
         /\ e.tables = d.tables /\ e.columns = d.columns /\ ~ e.current
  BY DEF Databases

LEMMA AllConverted ==
  ASSUME NEW d \in Databases, NEW seen \in Databases, NEW v \in Nat, v + 1 \in Versions
  PROVE  /\ Rewritten(d, seen, v) \in Databases
         /\ Rewritten(d, seen, v).version = v + 1
         /\ Rewritten(d, seen, v).tables = d.tables
         /\ Rewritten(d, seen, v).columns = d.columns
         /\ v = 6 => Rewritten(d, seen, v).roles = Roles
         /\ v # 6 => Rewritten(d, seen, v).roles = d.roles
         /\ v = 4 => (Rewritten(d, seen, v).current <=> ~ seen.validTo)
         /\ v # 4 => Rewritten(d, seen, v).current = d.current
         /\ v < 5 => Rewritten(d, seen, v).validTo = d.validTo
  <1> DEFINE b == [d EXCEPT !.current = ~ seen.validTo]
             f == [d EXCEPT !.validTo = @ /\ (seen.current \/ ~ seen.dated)]
             p == [d EXCEPT !.roles = @ \cup {"actor", "subject"}]
             c == Converted(d, seen, v)
             e == Rewritten(d, seen, v)
  <1>2. /\ d.validTo \in BOOLEAN /\ seen.validTo \in BOOLEAN /\ seen.current \in BOOLEAN
        /\ seen.dated \in BOOLEAN /\ d.roles \subseteq Roles
    BY DEF Databases
  <1>3. b \in Databases /\ f \in Databases /\ p \in Databases
    BY <1>2 DEF Databases, Roles
  <1>4. /\ b.current = ~ seen.validTo /\ f.current = d.current /\ p.current = d.current
        /\ b.validTo = d.validTo /\ p.roles = Roles
        /\ \A x \in {b, f, p} : x.tables = d.tables /\ x.columns = d.columns
        /\ b.roles = d.roles /\ f.roles = d.roles
    BY <1>2 DEF Databases, Roles
  <1>5. /\ (v = 4 => c = b) /\ (v = 5 => c = f) /\ (v = 6 => c = p)
        /\ v \notin {4, 5, 6} => c = d
    BY DEF Converted
  <1> HIDE DEF b, f, p, c, e
  <1>6. c \in Databases /\ c.tables = d.tables /\ c.columns = d.columns
    BY <1>3, <1>4, <1>5
  <1>7. e = [c EXCEPT !.version = v + 1]
    BY DEF c, e, Rewritten
  <1>8. /\ e \in Databases /\ e.version = v + 1 /\ e.tables = c.tables /\ e.columns = c.columns
        /\ e.roles = c.roles /\ e.current = c.current /\ e.validTo = c.validTo
    BY <1>6, <1>7 DEF Databases
  <1>9. (v = 4 => (c.current <=> ~ seen.validTo)) /\ (v # 4 => c.current = d.current)
    <2>1. CASE v = 4
      BY <1>4, <1>5, <2>1
    <2>2. CASE v # 4
      BY <1>4, <1>5, <2>2
    <2>3. QED
      BY <2>1, <2>2
  <1>10. /\ v = 6 => c.roles = Roles
         /\ v # 6 => c.roles = d.roles
         /\ v < 5 => c.validTo = d.validTo
    BY <1>4, <1>5
  <1>11. QED
    BY <1>6, <1>8, <1>9, <1>10 DEF e

LEMMA RowsConverted ==
  ASSUME NEW d \in Databases, NEW seen \in Databases, NEW v \in Nat, v + 1 \in Versions
  PROVE  /\ Rewritten(d, seen, v) \in Databases
         /\ Rewritten(d, seen, v).version = v + 1
         /\ Rewritten(d, seen, v).tables = d.tables
         /\ Rewritten(d, seen, v).columns = d.columns
         /\ v = 6 => Rewritten(d, seen, v).roles = Roles
         /\ v # 6 => Rewritten(d, seen, v).roles = d.roles
  BY AllConverted

LEMMA EndConverted ==
  ASSUME NEW d \in Databases, NEW seen \in Databases, NEW v \in Nat, v + 1 \in Versions
  PROVE  /\ v = 4 => (Rewritten(d, seen, v).current <=> ~ seen.validTo)
         /\ v # 4 => Rewritten(d, seen, v).current = d.current
         /\ v < 5 => Rewritten(d, seen, v).validTo = d.validTo
  BY AllConverted

LEMMA StepVersion ==
  ASSUME TypeInv, NEW p \in Procs, Stepping(p)
  PROVE  at[p] \in Nat /\ at[p] + 1 \in Versions
  BY DEF TypeInv, Versions, NoRow, Current

LEMMA NextTypeInv == TypeInv /\ [Next]_vars => TypeInv'
  <1> SUFFICES ASSUME TypeInv, [Next]_vars PROVE TypeInv'
    OBVIOUS
  <1>0. /\ db \in Databases /\ db.version \in Versions
        /\ rows \in [Procs -> Databases] /\ at \in [Procs -> Versions]
        /\ pc \in [Procs -> PcSteps] /\ together \in BOOLEAN /\ ended \in BOOLEAN
        /\ crashes \in Nat
    BY DEF TypeInv, Databases
  \* A process that moves with the version it has is at a step as it was.
  <1>1. ASSUME NEW p \in Procs, NEW step \in PcSteps, pc' = [pc EXCEPT ![p] = step],
               at' = at, Stepping(p)' => Stepping(p)
        PROVE  /\ pc' \in [Procs -> PcSteps] /\ at' \in [Procs -> Versions]
               /\ \A q \in Procs : Stepping(q)' => at'[q] < Current
    BY <1>0, <1>1 DEF TypeInv, Stepping
  <1>2. ASSUME NEW p \in Procs, Start(p) PROVE TypeInv'
    <2>1. ~ Stepping(p)'
      BY <1>0, <1>2 DEF Start, Goto, Stepping
    <2>2. pc' = [pc EXCEPT ![p] = "tables"] /\ "tables" \in PcSteps
          /\ UNCHANGED <<db, ended, crashes, at, rows>> /\ together' \in BOOLEAN
      BY <1>0, <1>2 DEF Start, Goto, PcSteps, Migrating
    <2>3. QED
      BY <1>0, <1>1, <2>1, <2>2 DEF TypeInv
  <1>3. ASSUME NEW p \in Procs, CreateTable(p) PROVE TypeInv'
    <2>1. UNCHANGED <<ended, crashes, at, rows, together>>
      BY <1>3 DEF CreateTable
    <2>2. CASE db.tables = Tables
      <3>1. pc' = [pc EXCEPT ![p] = "meta"] /\ "meta" \in PcSteps /\ db' = db
        BY <1>3, <2>2 DEF CreateTable, Goto, PcSteps, Migrating
      <3>2. ~ Stepping(p)'
        BY <1>0, <3>1 DEF Stepping
      <3>3. QED
        BY <1>0, <1>1, <2>1, <3>1, <3>2 DEF TypeInv
    <2>3. CASE db.tables # Tables
      <3>1. PICK x \in Tables :
              db' = [db EXCEPT !.tables = @ \cup {x},
                               !.columns = @ \cup {w \in Columns : Table[w] = x}]
        <4>1. \E x \in Tables : x \notin db.tables
          BY <1>0, <2>3 DEF Databases
        <4>2. QED
          BY <1>3, <2>3, <4>1 DEF CreateTable
      <3>2. pc' = pc
        BY <1>3, <2>3 DEF CreateTable
      <3>3. db' \in Databases
        <4> DEFINE cols == {w \in Columns : Table[w] = x}
        <4>1. cols \in SUBSET Columns
          OBVIOUS
        <4>2. db' = WithTable(db, x, cols)
          BY <3>1 DEF WithTable
        <4> HIDE DEF cols
        <4>3. QED
          BY <1>0, <4>1, <4>2, TableMade
      <3>4. QED
        BY <1>0, <2>1, <3>2, <3>3 DEF TypeInv, Stepping
    <2>4. QED
      BY <2>2, <2>3
  <1>4. ASSUME NEW p \in Procs, Stamp(p) PROVE TypeInv'
    <2>1. db' \in Databases
      BY <1>0, <1>4, DatabaseStamped DEF Stamp
    <2>2. pc' = [pc EXCEPT ![p] = "check"] /\ "check" \in PcSteps
          /\ UNCHANGED <<ended, crashes, at, rows, together>>
      BY <1>4 DEF Stamp, Goto, PcSteps, Migrating
    <2>3. ~ Stepping(p)'
      BY <1>0, <2>2 DEF Stepping
    <2>4. QED
      BY <1>0, <1>1, <2>1, <2>2, <2>3 DEF TypeInv
  <1>5. ASSUME NEW p \in Procs, Check(p) PROVE TypeInv'
    <2>1. /\ at' = [at EXCEPT ![p] = db.version]
          /\ UNCHANGED <<db, ended, crashes, rows, together>>
          /\ \/ pc' \in {[pc EXCEPT ![p] = "failed"], [pc EXCEPT ![p] = "up"]}
             \/ /\ pc' = [pc EXCEPT ![p] = "enter"]
                /\ db.version <= Current /\ db.version # Current
      <3>1. /\ at' = [at EXCEPT ![p] = db.version]
            /\ UNCHANGED <<db, ended, crashes, rows, together>>
            /\ pc' = [pc EXCEPT ![p] = IF Newer(db.version) THEN "failed"
                                       ELSE IF db.version = Current THEN "up" ELSE "enter"]
        BY <1>5 DEF Check, Goto
      <3>2. ~ Newer(db.version) => db.version <= Current
        BY <1>0 DEF Newer, Versions, Current, NoRow
      <3>3. QED
        BY <3>1, <3>2
    <2>2. pc' \in [Procs -> PcSteps] /\ at' \in [Procs -> Versions]
      BY <1>0, <2>1 DEF PcSteps, Migrating
    <2>3. ASSUME NEW q \in Procs, Stepping(q)' PROVE at'[q] < Current
      <3>1. CASE q # p
        <4>1. at'[q] = at[q] /\ Stepping(q)
          BY <1>0, <2>1, <2>3, <3>1 DEF Stepping
        <4>2. QED
          BY <4>1 DEF TypeInv
      <3>2. CASE q = p
        <4>1. at'[p] = db.version /\ db.version <= Current /\ db.version # Current
          BY <1>0, <2>1, <2>3, <3>2 DEF Stepping
        <4>2. QED
          BY <1>0, <3>2, <4>1 DEF Versions, Current, NoRow
      <3>3. QED
        BY <3>1, <3>2
    <2>4. QED
      BY <1>0, <2>1, <2>2, <2>3 DEF TypeInv
  <1>6. ASSUME NEW p \in Procs, Enter(p) PROVE TypeInv'
    <2>1. PICK step \in {"alter", "verify", "failed"} : pc' = [pc EXCEPT ![p] = step]
      BY <1>6 DEF Enter, Goto
    <2>2. Stepping(p) /\ step \in PcSteps /\ UNCHANGED <<db, ended, crashes, at, rows, together>>
      BY <1>6 DEF Enter, Stepping, PcSteps, Migrating
    <2>3. QED
      BY <1>0, <1>1, <2>1, <2>2 DEF TypeInv
  <1>7. ASSUME NEW p \in Procs, Alter(p) PROVE TypeInv'
    <2>1. db' \in Databases
      BY <1>0, <1>7, TableAltered DEF Alter
    <2>2. pc' = [pc EXCEPT ![p] = "rows"] /\ "rows" \in PcSteps /\ Stepping(p)
          /\ UNCHANGED <<ended, crashes, at, rows, together>>
      BY <1>7 DEF Alter, Goto, PcSteps, Migrating, Stepping
    <2>3. QED
      BY <1>0, <1>1, <2>1, <2>2 DEF TypeInv
  <1>8. ASSUME NEW p \in Procs, SelectRows(p) PROVE TypeInv'
    <2>1. rows' \in [Procs -> Databases]
      BY <1>0, <1>8 DEF SelectRows
    <2>2. pc' = [pc EXCEPT ![p] = "convert"] /\ "convert" \in PcSteps /\ Stepping(p)
          /\ UNCHANGED <<db, ended, crashes, at, together>>
      BY <1>8 DEF SelectRows, Goto, PcSteps, Migrating, Stepping
    <2>3. QED
      BY <1>0, <1>1, <2>1, <2>2 DEF TypeInv
  <1>9. ASSUME NEW p \in Procs, Convert(p) PROVE TypeInv'
    <2>1. Stepping(p) /\ at[p] < Current /\ UNCHANGED <<ended, crashes, at, rows, together>>
      BY <1>9 DEF Convert, Stepping, TypeInv
    <2>2. /\ pc' \in {[pc EXCEPT ![p] = "failed"], [pc EXCEPT ![p] = "verify"]}
          /\ db' = db \/ db' = Rewritten(db, rows[p], at[p])
      BY <1>9 DEF Convert, Goto, Rewritten
    <2>3. db' \in Databases
      <3>1. db \in Databases /\ rows[p] \in Databases /\ at[p] \in Nat /\ at[p] + 1 \in Versions
        BY <1>0, <2>1, StepVersion
      <3>2. CASE db' = Rewritten(db, rows[p], at[p])
        BY <3>1, <3>2, RowsConverted
      <3>3. QED
        BY <1>0, <2>2, <3>2
    <2>4. "failed" \in PcSteps /\ "verify" \in PcSteps
      BY DEF PcSteps, Migrating
    <2>5. QED
      BY <1>0, <1>1, <2>1, <2>2, <2>3, <2>4 DEF TypeInv
  <1>10. ASSUME NEW p \in Procs, Verify(p) PROVE TypeInv'
    <2>1. PICK step \in {"check", "failed"} : pc' = [pc EXCEPT ![p] = step]
      BY <1>10 DEF Verify, Goto
    <2>2. Stepping(p) /\ step \in PcSteps /\ UNCHANGED <<db, ended, crashes, at, rows, together>>
      BY <1>10 DEF Verify, Stepping, PcSteps, Migrating
    <2>3. QED
      BY <1>0, <1>1, <2>1, <2>2 DEF TypeInv
  <1>11. ASSUME NEW p \in Procs, EndRelation(p) PROVE TypeInv'
    <2>1. db' \in Databases
      BY <1>0, <1>11, RelationEnded DEF EndRelation
    <2>2. ended' = TRUE /\ UNCHANGED <<crashes, local, together>>
      BY <1>11 DEF EndRelation
    <2>3. QED
      BY <1>0, <2>1, <2>2 DEF local, TypeInv, Stepping
  <1>12. ASSUME NEW p \in Procs, Crash(p) PROVE TypeInv'
    <2>1. pc' = [pc EXCEPT ![p] = "off"] /\ "off" \in PcSteps
          /\ crashes' \in Nat /\ UNCHANGED <<db, ended, at, rows, together>>
      BY <1>0, <1>12 DEF Crash, Goto, PcSteps
    <2>2. ~ Stepping(p)'
      BY <1>0, <2>1 DEF Stepping
    <2>3. QED
      BY <1>0, <1>1, <2>1, <2>2 DEF TypeInv
  <1>13. CASE UNCHANGED vars
    BY <1>13 DEF vars, local, TypeInv, Stepping
  <1>14. QED
    BY <1>2, <1>3, <1>4, <1>5, <1>6, <1>7, <1>8, <1>9, <1>10, <1>11, <1>12, <1>13
       DEF Next, Step

LEMMA AlwaysTypeInv == Spec => []TypeInv
  BY InitTypeInv, NextTypeInv, PTL DEF Spec

-----------------------------------------------------------------------------
(* A version stands for its schema.                                        *)

\* The schema has all of version v.
HasColumns(v) == \A w \in Columns : w < v => w \in db.columns
HasRoles(v)   == v >= 7 => db.roles = Roles

VersionInv ==
  db.version # NoRow =>
    Made(db.version) \subseteq db.tables /\ HasColumns(db.version) /\ HasRoles(db.version)

\* A database without a version is being made, in the latest shape.
NewInv ==
  db.version = NoRow =>
    /\ \A w \in Columns : Table[w] \in db.tables => w \in db.columns
    /\ db.roles = Roles

\* What a process has made or found made.
ProcInv(p) ==
  /\ pc[p] \in Migrating \ {"tables"} => Tables \subseteq db.tables
  /\ pc[p] = "check" => db.version # NoRow
  /\ Stepping(p) => HasColumns(at[p]) /\ HasRoles(at[p]) /\ at[p] # NoRow
  /\ pc[p] \in {"rows", "convert"} /\ at[p] \in Columns => at[p] \in db.columns

SchemaInv == VersionInv /\ NewInv /\ \A p \in Procs : ProcInv(p)

LEMMA InitSchemaInv == Init => SchemaInv
  <1> SUFFICES ASSUME Init PROVE SchemaInv
    OBVIOUS
  <1>1. PICK v \in StartVersions : db \in Old(v)
    BY DEF Init
  <1> DEFINE tables == IF v = NoRow THEN {} ELSE Made(v)
             columns == {w \in Columns : v # NoRow /\ w < v}
             roles == IF v = NoRow \/ v > 6 THEN {"actor", "subject"} ELSE {}
  <1>2. Old(v) = [version : {v}, tables : {tables}, columns : {columns},
                  current : {TRUE, FALSE}, validTo : BOOLEAN, dated : BOOLEAN, roles : {roles}]
    BY Zenon DEF Old
  <1> HIDE DEF tables, columns, roles
  <1>3. db.version = v /\ db.tables = tables /\ db.columns = columns /\ db.roles = roles
    BY <1>1, <1>2
  <1>4. v \in Nat
    BY StartAssumption DEF NoRow, Current
  <1>5. HasRoles(v) /\ (v = NoRow => db.roles = Roles)
    BY <1>3, <1>4 DEF HasRoles, Roles, roles
  <1>6. v # NoRow => Made(v) \subseteq db.tables /\ HasColumns(v)
    BY <1>3 DEF HasColumns, tables, columns
  <1>7. v = NoRow => \A w \in Columns : Table[w] \notin db.tables
    BY <1>3 DEF tables
  <1>8. \A p \in Procs : pc[p] = "off"
    BY DEF Init
  <1>9. QED
    BY <1>3, <1>5, <1>6, <1>7, <1>8 DEF SchemaInv, VersionInv, NewInv, ProcInv, Stepping, Migrating

\* A schema only grows, and once versioned it stays so.
Grown ==
  /\ db.tables \subseteq db'.tables /\ db.columns \subseteq db'.columns
  /\ db.roles = Roles => db'.roles = Roles
  /\ db.version # NoRow => db'.version # NoRow

LEMMA GrownProc ==
  ASSUME NEW p \in Procs, ProcInv(p), Grown, at'[p] = at[p],
         \/ pc'[p] = pc[p]
         \/ pc'[p] \in {"off", "up", "failed", "tables"}
         \/ Stepping(p) /\ pc'[p] \in {"alter", "verify"}
         \/ pc[p] = "rows" /\ pc'[p] = "convert"
  PROVE  ProcInv(p)'
  BY DEF ProcInv, Grown, Stepping, HasColumns, HasRoles, Migrating

\* The database stays, and the processes but one.
LEMMA GrownSchema ==
  ASSUME SchemaInv, Grown,
         db'.version # NoRow => db'.version = db.version,
         db'.version = NoRow => db' = db,
         \A p \in Procs : ProcInv(p)'
  PROVE  SchemaInv'
  BY DEF SchemaInv, VersionInv, NewInv, Grown, HasColumns, HasRoles, Made

LEMMA NextSchemaInv == TypeInv /\ SchemaInv /\ [Next]_vars => SchemaInv'
  <1> SUFFICES ASSUME TypeInv, SchemaInv, [Next]_vars PROVE SchemaInv'
    OBVIOUS
  <1>0. /\ db \in Databases /\ db.version \in Versions /\ db.columns \subseteq Columns
        /\ db.tables \subseteq Tables
        /\ rows \in [Procs -> Databases] /\ at \in [Procs -> Versions]
        /\ pc \in [Procs -> PcSteps]
    BY DEF TypeInv, Databases
  <1>a. \A w \in Columns : Table[w] \in Tables
    BY DEF Tables, Table, Columns, Current
  <1>1. ASSUME db' = db, \A p \in Procs : ProcInv(p)' PROVE SchemaInv'
    BY <1>1 DEF SchemaInv, VersionInv, NewInv, HasColumns, HasRoles
  <1>2. ASSUME NEW p \in Procs, db' = db, at' = at,
               NEW step \in PcSteps, pc' = [pc EXCEPT ![p] = step], ProcInv(p)'
        PROVE  SchemaInv'
    <2>1. \A q \in Procs \ {p} : pc'[q] = pc[q] /\ at'[q] = at[q]
      BY <1>0, <1>2
    <2>2. Grown
      BY <1>2 DEF Grown
    <2>3. \A q \in Procs \ {p} : ProcInv(q)'
      BY <2>1, <2>2, GrownProc DEF SchemaInv
    <2>4. QED
      BY <1>1, <1>2, <2>3
  <1>3. ASSUME NEW p \in Procs, Start(p) PROVE SchemaInv'
    <2>1. pc' = [pc EXCEPT ![p] = "tables"] /\ "tables" \in PcSteps /\ at' = at /\ db' = db
      BY <1>3 DEF Start, Goto, PcSteps, Migrating
    <2>2. pc'[p] = "tables" /\ Grown
      BY <1>0, <2>1 DEF Grown
    <2>3. ProcInv(p)'
      BY <2>1, <2>2, GrownProc DEF SchemaInv
    <2>4. QED
      BY <1>2, <2>1, <2>3
  <1>4. ASSUME NEW p \in Procs, CreateTable(p) PROVE SchemaInv'
    <2>1. CASE db.tables = Tables
      <3>1. /\ pc' = [pc EXCEPT ![p] = "meta"] /\ "meta" \in PcSteps /\ at' = at /\ db' = db
            /\ pc'[p] = "meta"
        BY <1>0, <1>4, <2>1 DEF CreateTable, Goto, PcSteps, Migrating
      <3>2. ProcInv(p)'
        BY <2>1, <3>1 DEF ProcInv, Stepping
      <3>3. QED
        BY <1>2, <3>1, <3>2
    <2>2. CASE db.tables # Tables
      <3>1. PICK x \in Tables :
              db' = [db EXCEPT !.tables = @ \cup {x},
                               !.columns = @ \cup {w \in Columns : Table[w] = x}]
        <4>1. \E x \in Tables : x \notin db.tables
          BY <1>0, <2>2
        <4>2. QED
          BY <1>4, <2>2, <4>1 DEF CreateTable
      <3> DEFINE cols == {w \in Columns : Table[w] = x}
      <3>2. cols \in SUBSET Columns /\ \A w \in Columns : Table[w] = x => w \in cols
        OBVIOUS
      <3>3. db' = WithTable(db, x, cols)
        BY <3>1 DEF WithTable
      <3> HIDE DEF cols
      <3>4. /\ db'.version = db.version /\ db'.roles = db.roles
            /\ db'.tables = db.tables \cup {x} /\ db'.columns = db.columns \cup cols
        <4>1. db \in Databases /\ cols \in SUBSET Columns
          BY <1>0, <3>2
        <4>2. QED
          BY <4>1, <3>3, TableMade
      <3>5. Grown
        BY <3>4 DEF Grown
      <3>6. pc' = pc /\ at' = at
        BY <1>4, <2>2 DEF CreateTable
      <3>7. \A q \in Procs : ProcInv(q)'
        BY <3>5, <3>6, GrownProc DEF SchemaInv
      <3>8. VersionInv'
        BY <3>4 DEF SchemaInv, VersionInv, HasColumns, HasRoles
      <3>9. NewInv'
        BY <3>2, <3>4 DEF SchemaInv, NewInv
      <3>10. QED
        BY <3>7, <3>8, <3>9 DEF SchemaInv
    <2>3. QED
      BY <2>1, <2>2
  <1>5. ASSUME NEW p \in Procs, Stamp(p) PROVE SchemaInv'
    <2>1. /\ pc' = [pc EXCEPT ![p] = "check"] /\ "check" \in PcSteps /\ at' = at
          /\ pc'[p] = "check" /\ pc[p] = "meta"
          /\ \A q \in Procs \ {p} : pc'[q] = pc[q] /\ at'[q] = at[q]
      BY <1>0, <1>5 DEF Stamp, Goto, PcSteps, Migrating
    <2>2. Tables \subseteq db.tables
      BY <2>1 DEF SchemaInv, ProcInv, Migrating
    <2>3. CASE Unstamped(db.version)
      <3>1. /\ db'.version = Current /\ db'.roles = db.roles
            /\ db'.tables = db.tables /\ db'.columns = db.columns
        BY <1>0, <1>5, <2>3, DatabaseStamped DEF Stamp
      <3>2. (\A w \in Columns : w \in db.columns) /\ db.roles = Roles
        BY <1>a, <2>2, <2>3 DEF SchemaInv, NewInv, Unstamped
      <3>3. Current # NoRow
        BY DEF Current, NoRow
      <3>4. Grown
        BY <3>1, <3>3 DEF Grown
      <3>5. \A q \in Procs \ {p} : ProcInv(q)'
        BY <2>1, <3>4, GrownProc DEF SchemaInv
      <3>6. ProcInv(p)'
        BY <2>1, <2>2, <3>1, <3>3 DEF ProcInv, Stepping
      <3>7. Made(Current) \subseteq Tables
        BY DEF Made, Tables
      <3>8. VersionInv' /\ NewInv'
        BY <2>2, <3>1, <3>2, <3>3, <3>7 DEF VersionInv, NewInv, HasColumns, HasRoles
      <3>9. QED
        BY <3>5, <3>6, <3>8 DEF SchemaInv
    <2>4. CASE ~ Unstamped(db.version)
      <3>1. db' = db /\ db.version # NoRow
        BY <1>5, <2>4 DEF Stamp, Unstamped
      <3>2. ProcInv(p)'
        BY <2>1, <2>2, <3>1 DEF ProcInv, Stepping
      <3>3. QED
        BY <1>2, <2>1, <3>1, <3>2
    <2>5. QED
      BY <2>3, <2>4
  <1>6. ASSUME NEW p \in Procs, Check(p) PROVE SchemaInv'
    <2>1. /\ pc[p] = "check" /\ pc'[p] \in {"failed", "up", "enter"} /\ at'[p] = db.version
          /\ db' = db /\ \A q \in Procs \ {p} : pc'[q] = pc[q] /\ at'[q] = at[q]
      BY <1>0, <1>6 DEF Check, Goto
    <2>2. Grown
      BY <2>1 DEF Grown
    <2>3. \A q \in Procs \ {p} : ProcInv(q)'
      BY <2>1, <2>2, GrownProc DEF SchemaInv
    <2>4. ProcInv(p)'
      BY <2>1 DEF SchemaInv, ProcInv, VersionInv, Stepping, HasColumns, HasRoles, Migrating
    <2>5. QED
      BY <1>1, <2>1, <2>3, <2>4
  <1>7. ASSUME NEW p \in Procs, Enter(p) PROVE SchemaInv'
    <2>1. PICK step \in {"alter", "verify", "failed"} : pc' = [pc EXCEPT ![p] = step]
      BY <1>7 DEF Enter, Goto
    <2>2. /\ Stepping(p) /\ step \in PcSteps /\ at' = at /\ db' = db /\ pc'[p] = step
      BY <1>0, <1>7, <2>1 DEF Enter, Stepping, PcSteps, Migrating
    <2>3. ProcInv(p)'
      BY <2>1, <2>2, GrownProc DEF SchemaInv, Grown
    <2>4. QED
      BY <1>2, <2>1, <2>2, <2>3
  <1>8. ASSUME NEW p \in Procs, Alter(p) PROVE SchemaInv'
    <2>1. /\ pc[p] = "alter" /\ pc'[p] = "rows" /\ at' = at
          /\ \A q \in Procs \ {p} : pc'[q] = pc[q] /\ at'[q] = at[q]
      BY <1>0, <1>8 DEF Alter, Goto
    <2>2. /\ db'.version = db.version /\ db'.roles = db.roles /\ db'.tables = db.tables
          /\ db'.columns = db.columns \cup ({at[p]} \cap Columns)
      BY <1>0, <1>8, TableAltered DEF Alter
    <2>3. Grown
      BY <2>2 DEF Grown
    <2>4. \A q \in Procs \ {p} : ProcInv(q)'
      BY <2>1, <2>3, GrownProc DEF SchemaInv
    <2>5. ProcInv(p)'
      BY <2>1, <2>2 DEF SchemaInv, ProcInv, Stepping, HasColumns, HasRoles, Migrating
    <2>6. VersionInv' /\ NewInv'
      BY <2>2 DEF SchemaInv, VersionInv, NewInv, HasColumns, HasRoles
    <2>7. QED
      BY <2>4, <2>5, <2>6 DEF SchemaInv
  <1>9. ASSUME NEW p \in Procs, SelectRows(p) PROVE SchemaInv'
    <2>1. /\ pc[p] = "rows" /\ pc' = [pc EXCEPT ![p] = "convert"] /\ "convert" \in PcSteps
          /\ at' = at /\ db' = db /\ pc'[p] = "convert"
      BY <1>0, <1>9 DEF SelectRows, Goto, PcSteps, Migrating
    <2>2. ProcInv(p)'
      BY <2>1, GrownProc DEF SchemaInv, Grown
    <2>3. QED
      BY <1>2, <2>1, <2>2
  <1>10. ASSUME NEW p \in Procs, Convert(p) PROVE SchemaInv'
    <2>1. pc[p] = "convert" /\ Stepping(p) /\ at' = at /\ at[p] \in Versions /\ at[p] < Current
      BY <1>0, <1>10 DEF Convert, Stepping, TypeInv
    <2>2. CASE Collides(p)
      <3>1. pc' = [pc EXCEPT ![p] = "failed"] /\ "failed" \in PcSteps /\ db' = db
        BY <1>10, <2>2 DEF Convert, Goto, PcSteps
      <3>2. ProcInv(p)'
        BY <1>0, <2>1, <3>1, GrownProc DEF SchemaInv, Grown
      <3>3. QED
        BY <1>2, <2>1, <3>1, <3>2
    <2>3. CASE ~ Collides(p)
      <3>1. /\ db' = Rewritten(db, rows[p], at[p])
            /\ pc'[p] = "verify" /\ \A q \in Procs \ {p} : pc'[q] = pc[q]
        BY <1>0, <1>10, <2>3 DEF Convert, Goto, Rewritten
      <3>2. /\ db'.version = at[p] + 1 /\ db'.tables = db.tables /\ db'.columns = db.columns
            /\ at[p] = 6 => db'.roles = Roles
            /\ at[p] # 6 => db'.roles = db.roles
        <4>1. db \in Databases /\ rows[p] \in Databases /\ at[p] \in Nat /\ at[p] + 1 \in Versions
          BY <1>0, <2>1, StepVersion
        <4>2. db' = Rewritten(db, rows[p], at[p])
          BY <3>1
        <4>3. QED
          BY <4>1, <4>2, RowsConverted
      <3>3. at[p] \in Nat /\ at[p] + 1 # NoRow
        BY <2>1 DEF Versions, NoRow, Current
      <3>4. Grown
        BY <3>2, <3>3 DEF Grown
      <3>5. \A q \in Procs : ProcInv(q)'
        BY <2>1, <3>1, <3>4, GrownProc DEF SchemaInv
      <3>6. Made(at[p] + 1) \subseteq db.tables
        BY <2>1 DEF SchemaInv, ProcInv, Migrating, Made, Tables
      <3>7. ASSUME NEW w \in Columns, w < at[p] + 1 PROVE w \in db.columns
        <4>1. HasColumns(at[p]) /\ (at[p] \in Columns => at[p] \in db.columns)
          BY <2>1 DEF SchemaInv, ProcInv
        <4>2. w < at[p] \/ w = at[p]
          BY <3>3, <3>7 DEF Columns
        <4>3. QED
          BY <4>1, <4>2 DEF HasColumns
      <3>8. at[p] + 1 >= 7 => db'.roles = Roles
        BY <2>1, <3>2, <3>3 DEF SchemaInv, ProcInv, HasRoles
      <3>9. VersionInv' /\ NewInv'
        BY <3>2, <3>3, <3>6, <3>7, <3>8 DEF VersionInv, NewInv, HasColumns, HasRoles
      <3>10. QED
        BY <3>5, <3>9 DEF SchemaInv
    <2>4. QED
      BY <2>2, <2>3
  <1>11. ASSUME NEW p \in Procs, Verify(p) PROVE SchemaInv'
    <2>1. PICK step \in {"check", "failed"} : pc' = [pc EXCEPT ![p] = step]
      BY <1>11 DEF Verify, Goto
    <2>2. /\ pc[p] = "verify" /\ Stepping(p) /\ step \in PcSteps /\ at' = at /\ db' = db
          /\ pc'[p] = step /\ (step = "check" => db.version = at[p] + 1)
      BY <1>0, <1>11, <2>1 DEF Verify, Goto, To, Stepping, PcSteps, Migrating
    <2>3. step = "check" => db.version # NoRow
      BY <1>0, <2>2 DEF Versions, NoRow, Current
    <2>4. ProcInv(p)'
      BY <2>1, <2>2, <2>3 DEF SchemaInv, ProcInv, Stepping, Migrating
    <2>5. QED
      BY <1>2, <2>1, <2>2, <2>4
  <1>12. ASSUME NEW p \in Procs, EndRelation(p) PROVE SchemaInv'
    <2>1. UNCHANGED <<pc, at>>
      BY <1>12 DEF EndRelation, local
    <2>2. /\ db'.version = db.version /\ db'.roles = db.roles
          /\ db'.tables = db.tables /\ db'.columns = db.columns
      BY <1>0, <1>12, RelationEnded DEF EndRelation
    <2>3. \A q \in Procs : ProcInv(q)'
      BY <2>1, <2>2, GrownProc DEF SchemaInv, Grown
    <2>4. QED
      BY <2>2, <2>3 DEF SchemaInv, VersionInv, NewInv, HasColumns, HasRoles
  <1>13. ASSUME NEW p \in Procs, Crash(p) PROVE SchemaInv'
    <2>1. pc' = [pc EXCEPT ![p] = "off"] /\ "off" \in PcSteps /\ at' = at /\ db' = db
      BY <1>13 DEF Crash, Goto, PcSteps
    <2>2. ProcInv(p)'
      BY <1>0, <2>1, GrownProc DEF SchemaInv, Grown
    <2>3. QED
      BY <1>2, <2>1, <2>2
  <1>14. CASE UNCHANGED vars
    BY <1>14 DEF vars, local, SchemaInv, VersionInv, NewInv, ProcInv, HasColumns, HasRoles,
                 Stepping
  <1>15. QED
    BY <1>3, <1>4, <1>5, <1>6, <1>7, <1>8, <1>9, <1>10, <1>11, <1>12, <1>13, <1>14
       DEF Next, Step

\* Whoever migrates and whoever is stopped, a version in schema_meta stands for
\* a schema that has all of that version.
THEOREM Backed == Spec => []VersionIsBacked
  <1>1. SchemaInv => VersionIsBacked
    BY DEF SchemaInv, VersionInv, VersionIsBacked, HasColumns, HasRoles, Roles
  <1>2. QED
    BY <1>1, InitSchemaInv, NextSchemaInv, AlwaysTypeInv, PTL DEF Spec

-----------------------------------------------------------------------------
(* A relation that ended stays ended.                                      *)

\* How an end is stored, by the version of the database.
EndStored ==
  ended =>
    /\ db.version # NoRow
    /\ db.version < 5 => db.validTo
    /\ db.version >= 5 => ~ db.current

\* A process that migrates alone is at the database's version, which is not the
\* one the running program writes to, and converts the rows that are there.
AtVersion(p) ==
  /\ pc[p] \in {"enter", "alter", "rows", "convert"} => at[p] = db.version
  /\ pc[p] = "convert" => rows[p] = db

MigratesAlone ==
  \A p, q \in Procs : pc[p] \in Migrating /\ pc[q] \in Migrating => p = q

EndInv == ~ together => EndStored /\ MigratesAlone /\ \A p \in Procs : AtVersion(p)

LEMMA InitEndInv == Init => EndInv
  <1> SUFFICES ASSUME Init PROVE EndInv
    OBVIOUS
  <1>1. /\ db \in Databases /\ Sound(db) /\ ended = Over(db)
        /\ \A p \in Procs : pc[p] = "off"
    BY OldDatabases DEF Init
  <1>2. db.version \in Nat
    BY <1>1 DEF Databases, Versions, NoRow, Current
  <1>3. EndStored
    <2>1. db.current \in BOOLEAN /\ db.validTo \in BOOLEAN
      BY <1>1 DEF Databases
    <2>2. CASE db.version < 5
      BY <1>1, <1>2, <2>1, <2>2 DEF EndStored, Sound, Over, NoRow
    <2>3. CASE db.version >= 5
      <3>1. ~ (db.version < 5) /\ db.version # NoRow
        BY <1>2, <2>3 DEF NoRow
      <3>2. ended => ~ db.current
        BY <1>1, <3>1, Zenon DEF Over
      <3>3. QED
        BY <3>1, <3>2 DEF EndStored
    <2>4. QED
      BY <1>2, <2>2, <2>3
  <1>4. QED
    BY <1>1, <1>3 DEF EndInv, MigratesAlone, AtVersion, Migrating

LEMMA NextEndInv == TypeInv /\ SchemaInv /\ EndInv /\ [Next]_vars => EndInv'
  <1> SUFFICES ASSUME TypeInv, SchemaInv, EndInv, [Next]_vars, ~ together'
               PROVE  (EndStored /\ MigratesAlone /\ \A p \in Procs : AtVersion(p))'
    BY DEF EndInv
  <1>0. /\ db \in Databases /\ db.version \in Nat
        /\ rows \in [Procs -> Databases] /\ at \in [Procs -> Versions]
        /\ pc \in [Procs -> PcSteps]
    BY DEF TypeInv, Databases, Versions, NoRow, Current
  <1> DEFINE Goal == EndStored /\ MigratesAlone /\ \A p \in Procs : AtVersion(p)
  \* A process that migrates goes on, or one that does not stays so.
  <1>1. ASSUME ~ together, NEW p \in Procs,
               pc'[p] \in Migrating => pc[p] \in Migrating,
               \A q \in Procs \ {p} : pc'[q] = pc[q] /\ at'[q] = at[q] /\ rows'[q] = rows[q],
               db' = db \/ pc[p] \in Migrating,
               EndStored', AtVersion(p)'
        PROVE  Goal'
    <2>1. EndStored /\ MigratesAlone /\ \A q \in Procs : AtVersion(q)
      BY <1>1 DEF EndInv
    <2>2. MigratesAlone'
      BY <1>1, <2>1 DEF MigratesAlone
    <2>3. ASSUME NEW q \in Procs \ {p} PROVE AtVersion(q)'
      <3>1. CASE pc[q] \in Migrating
        BY <1>1, <2>1, <3>1 DEF MigratesAlone, AtVersion
      <3>2. CASE pc[q] \notin Migrating
        BY <1>1, <3>2 DEF AtVersion, Migrating
      <3>3. QED
        BY <3>1, <3>2
    <2>4. QED
      BY <1>1, <2>2, <2>3
  <1>2. ASSUME NEW p \in Procs, Start(p) PROVE Goal'
    <2>1. /\ ~ together /\ \A q \in Procs : pc[q] \notin Migrating
          /\ UNCHANGED <<db, ended, at, rows>>
          /\ pc'[p] = "tables" /\ \A q \in Procs \ {p} : pc'[q] = pc[q]
      BY <1>0, <1>2 DEF Start, Goto
    <2>2. MigratesAlone'
      BY <2>1 DEF MigratesAlone
    <2>3. EndStored'
      BY <2>1 DEF EndInv, EndStored
    <2>4. ASSUME NEW q \in Procs PROVE AtVersion(q)'
      BY <2>1 DEF AtVersion, Migrating
    <2>5. QED
      BY <2>2, <2>3, <2>4
  <1>3. ASSUME NEW p \in Procs, CreateTable(p) PROVE Goal'
    <2>1. ~ together /\ pc[p] = "tables" /\ pc'[p] \in {"tables", "meta"}
          /\ UNCHANGED <<ended, at, rows>> /\ \A q \in Procs \ {p} : pc'[q] = pc[q]
      BY <1>0, <1>3 DEF CreateTable, Goto
    <2>2. db'.version = db.version /\ db'.current = db.current /\ db'.validTo = db.validTo
      <3>1. CASE db.tables = Tables
        BY <1>3, <3>1 DEF CreateTable
      <3>2. CASE db.tables # Tables
        <4>1. PICK x \in Tables :
                db' = [db EXCEPT !.tables = @ \cup {x},
                                 !.columns = @ \cup {w \in Columns : Table[w] = x}]
          <5>1. \E x \in Tables : x \notin db.tables
            BY <1>0, <3>2 DEF Databases
          <5>2. QED
            BY <1>3, <3>2, <5>1 DEF CreateTable
        <4> DEFINE cols == {w \in Columns : Table[w] = x}
        <4>2. cols \in SUBSET Columns
          OBVIOUS
        <4>3. db' = WithTable(db, x, cols)
          BY <4>1 DEF WithTable
        <4> HIDE DEF cols
        <4>4. db \in Databases
          BY <1>0
        <4>5. QED
          BY <4>2, <4>3, <4>4, TableMade
      <3>3. QED
        BY <3>1, <3>2
    <2>3. EndStored'
      BY <2>1, <2>2 DEF EndInv, EndStored
    <2>4. AtVersion(p)' /\ pc[p] \in Migrating
      BY <2>1 DEF AtVersion, Migrating
    <2>5. QED
      BY <1>1, <2>1, <2>3, <2>4
  <1>4. ASSUME NEW p \in Procs, Stamp(p) PROVE Goal'
    <2>1. ~ together /\ pc[p] = "meta" /\ pc'[p] = "check"
          /\ UNCHANGED <<ended, at, rows>> /\ \A q \in Procs \ {p} : pc'[q] = pc[q]
      BY <1>0, <1>4 DEF Stamp, Goto
    <2>2. EndStored'
      <3>1. CASE db.version = NoRow
        BY <2>1, <3>1 DEF EndInv, EndStored
      <3>2. CASE db.version # NoRow
        BY <1>4, <2>1, <3>2 DEF Stamp, Unstamped, EndInv, EndStored
      <3>3. QED
        BY <3>1, <3>2
    <2>3. AtVersion(p)' /\ pc[p] \in Migrating
      BY <2>1 DEF AtVersion, Migrating
    <2>4. QED
      BY <1>1, <2>1, <2>2, <2>3
  <1>5. ASSUME NEW p \in Procs, Check(p) PROVE Goal'
    <2>1. /\ ~ together /\ pc[p] = "check" /\ pc'[p] \in {"failed", "up", "enter"}
          /\ UNCHANGED <<db, ended, rows>> /\ at'[p] = db.version
          /\ \A q \in Procs \ {p} : pc'[q] = pc[q] /\ at'[q] = at[q]
      BY <1>0, <1>5 DEF Check, Goto
    <2>2. EndStored'
      BY <2>1 DEF EndInv, EndStored
    <2>3. AtVersion(p)' /\ pc[p] \in Migrating
      BY <2>1 DEF AtVersion, Migrating
    <2>4. QED
      BY <1>1, <2>1, <2>2, <2>3
  <1>6. ASSUME NEW p \in Procs, Enter(p) \/ Verify(p) PROVE Goal'
    <2>1. /\ ~ together /\ pc[p] \in {"enter", "verify"}
          /\ pc'[p] \in {"alter", "verify", "failed", "check"}
          /\ (pc'[p] = "alter" => pc[p] = "enter")
          /\ UNCHANGED <<db, ended, at, rows>> /\ \A q \in Procs \ {p} : pc'[q] = pc[q]
      BY <1>0, <1>6 DEF Enter, Verify, Goto
    <2>2. EndStored' /\ AtVersion(p)
      BY <2>1 DEF EndInv, EndStored
    <2>3. AtVersion(p)' /\ pc[p] \in Migrating
      BY <2>1, <2>2 DEF AtVersion, Migrating
    <2>4. QED
      BY <1>1, <2>1, <2>2, <2>3
  <1>7. ASSUME NEW p \in Procs, Alter(p) PROVE Goal'
    <2>1. /\ ~ together /\ pc[p] = "alter" /\ pc'[p] = "rows"
          /\ UNCHANGED <<ended, at, rows>> /\ \A q \in Procs \ {p} : pc'[q] = pc[q]
      BY <1>0, <1>7 DEF Alter, Goto
    <2>2. db'.version = db.version /\ db'.current = db.current /\ db'.validTo = db.validTo
      <3>1. db \in Databases /\ at[p] \in Versions
        BY <1>0
      <3>2. QED
        BY <1>7, <3>1, TableAltered DEF Alter
    <2>3. EndStored' /\ AtVersion(p)
      BY <2>1, <2>2 DEF EndInv, EndStored
    <2>4. AtVersion(p)' /\ pc[p] \in Migrating
      BY <2>1, <2>2, <2>3 DEF AtVersion, Migrating
    <2>5. QED
      BY <1>1, <2>1, <2>3, <2>4
  <1>8. ASSUME NEW p \in Procs, SelectRows(p) PROVE Goal'
    <2>1. /\ ~ together /\ pc[p] = "rows" /\ pc'[p] = "convert" /\ rows'[p] = db
          /\ UNCHANGED <<db, ended, at>>
          /\ \A q \in Procs \ {p} : pc'[q] = pc[q] /\ rows'[q] = rows[q]
      BY <1>0, <1>8 DEF SelectRows, Goto
    <2>2. EndStored' /\ AtVersion(p)
      BY <2>1 DEF EndInv, EndStored
    <2>3. AtVersion(p)' /\ pc[p] \in Migrating
      BY <2>1, <2>2 DEF AtVersion, Migrating
    <2>4. QED
      BY <1>1, <2>1, <2>2, <2>3
  <1>9. ASSUME NEW p \in Procs, Convert(p) PROVE Goal'
    <2>1. /\ ~ together /\ pc[p] = "convert" /\ pc'[p] \in {"failed", "verify"}
          /\ UNCHANGED <<ended, at, rows>> /\ \A q \in Procs \ {p} : pc'[q] = pc[q]
          /\ db' = db \/ db' = Rewritten(db, rows[p], at[p])
      BY <1>0, <1>9 DEF Convert, Goto, Rewritten
    <2>2. EndStored /\ rows[p] = db /\ at[p] = db.version
      BY <2>1 DEF EndInv, AtVersion
    <2>3. CASE db' = db
      BY <1>1, <2>1, <2>2, <2>3 DEF EndStored, AtVersion, Migrating
    <2>4. CASE db' # db
      <3>1. db \in Databases /\ rows[p] \in Databases /\ at[p] \in Nat /\ at[p] + 1 \in Versions
        BY <1>0, <2>1, StepVersion DEF Stepping
      <3>2. /\ db'.version = at[p] + 1
            /\ at[p] = 4 => (db'.current <=> ~ rows[p].validTo)
            /\ at[p] # 4 => db'.current = db.current
            /\ at[p] < 5 => db'.validTo = db.validTo
        <4>1. db' = Rewritten(db, rows[p], at[p])
          BY <2>1, <2>4
        <4>2. db'.version = at[p] + 1
          BY <3>1, <4>1, RowsConverted
        <4>3. QED
          BY <3>1, <4>1, <4>2, EndConverted
      <3>3. at[p] \in Nat
        BY <1>0, <2>2
      <3>4. EndStored'
        <4>1. db.validTo \in BOOLEAN
          BY <3>1 DEF Databases
        <4>2. SUFFICES ASSUME ended
                       PROVE  /\ db'.version # NoRow
                              /\ db'.version < 5 => db'.validTo
                              /\ db'.version >= 5 => ~ db'.current
          BY <2>1 DEF EndStored
        <4>3. CASE at[p] < 4
          BY <2>2, <3>2, <3>3, <4>2, <4>3 DEF EndStored, NoRow
        <4>4. CASE at[p] = 4
          BY <2>2, <3>2, <4>1, <4>2, <4>4 DEF EndStored, NoRow
        <4>5. CASE at[p] > 4
          BY <2>2, <3>2, <3>3, <4>2, <4>5 DEF EndStored, NoRow
        <4>6. QED
          BY <3>3, <4>3, <4>4, <4>5
      <3>5. AtVersion(p)' /\ pc[p] \in Migrating
        BY <2>1 DEF AtVersion, Migrating
      <3>6. QED
        BY <1>1, <2>1, <3>4, <3>5
    <2>5. QED
      BY <2>3, <2>4
  <1>10. ASSUME NEW p \in Procs, EndRelation(p) PROVE Goal'
    <2>1. /\ ~ together /\ ended' = TRUE /\ UNCHANGED <<pc, at, rows>> /\ db.version = Current
      BY <1>10 DEF EndRelation, local
    <2>2. PICK known \in BOOLEAN : db' = [db EXCEPT !.current = FALSE, !.validTo = known]
      BY <1>10 DEF EndRelation
    <2>3. db'.version = Current /\ ~ db'.current
      <3>1. db \in Databases
        BY <1>0
      <3>2. QED
        BY <2>1, <2>2, <3>1, RelationEnded
    <2>4. EndStored'
      BY <2>1, <2>3 DEF EndStored, Current, NoRow
    <2>5. MigratesAlone'
      BY <2>1 DEF EndInv, MigratesAlone
    <2>6. ASSUME NEW q \in Procs PROVE AtVersion(q)'
      <3>1. AtVersion(q) /\ (Stepping(q) => at[q] < Current) /\ at[q] \in Versions
        BY <1>0, <2>1 DEF EndInv, TypeInv
      <3>2. pc[q] \notin {"enter", "alter", "rows", "convert"}
        BY <2>1, <3>1 DEF AtVersion, Stepping, Current, Versions, NoRow
      <3>3. QED
        BY <2>1, <3>2 DEF AtVersion
    <2>7. QED
      BY <2>4, <2>5, <2>6
  <1>11. ASSUME NEW p \in Procs, Crash(p) PROVE Goal'
    <2>1. /\ ~ together /\ pc'[p] = "off" /\ \A q \in Procs \ {p} : pc'[q] = pc[q]
          /\ UNCHANGED <<db, ended, at, rows>>
      BY <1>0, <1>11 DEF Crash, Goto
    <2>2. EndStored' /\ AtVersion(p)'
      BY <2>1 DEF EndInv, EndStored, AtVersion
    <2>3. QED
      BY <1>1, <2>1, <2>2 DEF Migrating
  <1>12. CASE UNCHANGED vars
    BY <1>12 DEF vars, local, EndInv, EndStored, MigratesAlone, AtVersion
  <1>13. QED
    BY <1>2, <1>3, <1>4, <1>5, <1>6, <1>7, <1>8, <1>9, <1>10, <1>11, <1>12 DEF Next, Step

\* Unless two processes migrate at once, a relation the user has said ended is
\* not current again, through every rewriting of how an end is stored.
THEOREM StaysEnded == Spec => []EndedStaysEnded
  <1>1. EndInv => EndedStaysEnded
    BY DEF EndInv, EndStored, EndedStaysEnded
  <1>2. QED
    BY <1>1, InitEndInv, InitSchemaInv, NextEndInv, NextSchemaInv, AlwaysTypeInv, PTL DEF Spec
===============================================================================
