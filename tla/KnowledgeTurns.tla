----------------------------- MODULE KnowledgeTurns -----------------------------
(***************************************************************************)
(* Turns that write one user's knowledge and readers that load it, on      *)
(* SQLite without explicit transactions: a SELECT before the first INSERT  *)
(* of a unit of work is outside any transaction, the first INSERT takes    *)
(* the write lock, and commit or rollback gives it back.  So a writer      *)
(* chooses the target of a correction, or the fact to amend, before it     *)
(* holds the lock, and a reader's SELECTs see different commits.           *)
(***************************************************************************)
EXTENDS KnowledgeRows

CONSTANTS
  Writers,     \* threads in IngestService
  Readers,     \* threads in SqliteKnowledgeReadStore.load_user_graph
  None,
  MaxRows,     \* bound on the assertions told
  MaxClaims    \* bound on the claims of one sentence; a replacement may have one more

ASSUME NoneAssumption == None \notin Writers

VARIABLES
  db,       \* what is committed
  draft,    \* what the unit of work that holds the lock sees
  writer,   \* who holds the write lock
  pc, op,
  claims,   \* what is left to materialize
  picked,   \* the rows that match the description of a correction's target
  target,   \* the row to correct or the fact to amend
  made,     \* the last id of the MaterializationResult
  reading,  \* where each reader is
  view      \* what each reader has loaded

turn   == <<pc, op, claims, picked, target, made>>
reader == <<reading, view>>
vars   == <<db, draft, writer, turn, reader>>

Corrections == [target : 1 .. MaxRows, replacement : 0 .. MaxRows, fresh : BOOLEAN]
NothingRead == [ids |-> {}, corrections |-> {}]

TypeOK ==
  /\ \A d \in {db, draft} :
       /\ d.rows \in Seq([topic : Topics, current : BOOLEAN,
                          supersedes : 0 .. MaxRows])
       /\ Len(d.rows) <= MaxRows
       /\ d.corrections \subseteq Corrections
  /\ writer \in Writers \cup {None}
  /\ pc \in [Writers -> {"idle", "resolve", "write", "claims", "correct", "commit"}]
  /\ op \in [Writers -> {"tell", "amend", "retract", "replace"}]
  /\ claims \in [Writers -> SUBSET Claims]
  /\ picked \in [Writers -> SUBSET (1 .. MaxRows)]
  /\ target \in [Writers -> 0 .. MaxRows]
  /\ made \in [Writers -> 0 .. MaxRows]
  /\ reading \in [Readers -> {"start", "rest", "corrections", "done"}]
  /\ view \in [Readers -> [ids : SUBSET (1 .. MaxRows),
                           corrections : SUBSET Corrections]]

Init ==
  /\ db = EmptyDb /\ draft = EmptyDb /\ writer = None
  /\ pc = [t \in Writers |-> "idle"]
  /\ op = [t \in Writers |-> "tell"]
  /\ claims = [t \in Writers |-> {}]
  /\ picked = [t \in Writers |-> {}]
  /\ target = [t \in Writers |-> NoRow]
  /\ made = [t \in Writers |-> NoRow]
  /\ reading = [r \in Readers |-> "start"]
  /\ view = [r \in Readers |-> NothingRead]

Goto(t, step) == pc' = [pc EXCEPT ![t] = step]

Begin(t, o, step, cs, ids, id) ==
  /\ pc[t] = "idle"
  /\ Goto(t, step)
  /\ op' = [op EXCEPT ![t] = o]
  /\ claims' = [claims EXCEPT ![t] = cs]
  /\ picked' = [picked EXCEPT ![t] = ids]
  /\ target' = [target EXCEPT ![t] = id]
  /\ made' = [made EXCEPT ![t] = NoRow]
  /\ UNCHANGED <<db, draft, writer, reader>>

\* The turn and its unit of work, if it has one, are gone.
End(t) ==
  /\ Goto(t, "idle")
  /\ writer' = IF writer = t THEN None ELSE writer
  /\ draft' = IF writer = t THEN EmptyDb ELSE draft
  /\ op' = [op EXCEPT ![t] = "tell"]
  /\ claims' = [claims EXCEPT ![t] = {}]
  /\ picked' = [picked EXCEPT ![t] = {}]
  /\ target' = [target EXCEPT ![t] = NoRow]
  /\ made' = [made EXCEPT ![t] = NoRow]
  /\ UNCHANGED reader

\* uow.rollback(), or leaving the unit of work without a commit.
Rollback(t) == End(t) /\ UNCHANGED db

-----------------------------------------------------------------------------
(* Faulty variants of actions below, for mutation runs.                    *)

\* A correction that is refused leaves its replacement as an assertion.
RefusedCorrectionCommits(t) ==
  /\ pc[t] = "correct"
  /\ Goto(t, "commit")
  /\ draft' = IF Correctable(draft, target[t], made[t])
                THEN RecordCorrection(draft, target[t], made[t],
                                      made[t] > Len(db.rows))
                ELSE draft
  /\ UNCHANGED <<db, writer, op, claims, picked, target, made, reader>>

\* The states and attributes are loaded after the corrections.
LedgerBeforeRest(r) ==
  /\ \/ /\ reading[r] = "rest"
        /\ reading' = [reading EXCEPT ![r] = "corrections"]
        /\ UNCHANGED view
     \/ /\ reading[r] = "done"
        /\ view' = [view EXCEPT ![r].ids =
                      @ \cup UNION {About(db, topic) : topic \in Dimensions}]
        /\ UNCHANGED reading
  /\ UNCHANGED <<db, draft, writer, turn>>

-----------------------------------------------------------------------------
(* Before the lock.                                                        *)

\* An ordinary sentence, of one claim for each of several topics.
Tell(t, cs) ==
  /\ \A a, b \in cs : a[1] = b[1] => a = b
  /\ Begin(t, "tell", "write", cs, {}, NoRow)

\* A legacy correction of an event's amount.  Its id comes from the session,
\* which may remember one that was amended since.
Amend(t, id) ==
  /\ db.rows[id].topic \in Amounts
  /\ Begin(t, "amend", "write", {}, {}, id)

\* A correction names its target by a description or by an id.  Every row the
\* description fits is collected, corrected or not.  A relation is collected
\* once for each of its ends, so no description of one is unambiguous.
CorrectDescribed(t, o, cs, topic) ==
  /\ topic \in Dimensions \cup Observations
  /\ Begin(t, o, "resolve", cs, About(db, topic), NoRow)

CorrectById(t, o, cs, id) ==
  /\ db.rows[id].topic \notin Amounts
  /\ Begin(t, o, "resolve", cs, {id}, NoRow)

\* CorrectionTargetResolver.resolve reads the ledger after the candidates.
\* An ambiguous or unresolved target ends the turn.
Resolve(t) ==
  LET eligible == {i \in picked[t] : Effective(db, i)}
  IN  /\ pc[t] = "resolve"
      /\ Cardinality(eligible) = 1
      /\ Goto(t, "write")
      /\ target' = [target EXCEPT ![t] = Max(eligible)]
      /\ picked' = [picked EXCEPT ![t] = {}]
      /\ UNCHANGED <<db, draft, writer, op, claims, made, reader>>

-----------------------------------------------------------------------------
(* The unit of work.                                                       *)

\* Where the unit of work goes with some claims left.
Step(t, left) ==
  IF left # {} \/ op[t] = "amend" THEN "claims"
  ELSE IF op[t] = "tell" THEN "commit" ELSE "correct"

\* raw_inputs.add: the first INSERT.
Lock(t) ==
  /\ pc[t] = "write"
  /\ writer = None
  /\ Goto(t, Step(t, claims[t]))
  /\ writer' = t
  /\ draft' = db
  /\ UNCHANGED <<db, op, claims, picked, target, made, reader>>

\* _replacement_ref_from_mat: the last id of the kind that was told, so that an
\* ownership written beside an attribute is not what replaces the target.
Reference(t, topic, id) ==
  IF /\ op[t] = "replace" /\ topic \in Triples
     /\ made[t] # NoRow /\ draft.rows[made[t]].topic \notin Triples
    THEN made[t]
    ELSE id

\* A replacement without an id is rolled back: Fail.
MaterializeClaim(t) ==
  /\ pc[t] = "claims"
  /\ Len(draft.rows) < MaxRows
  /\ \E c \in claims[t] :
       /\ Goto(t, Step(t, claims[t] \ {c}))
       /\ c[1] \in Amounts => About(draft, c[1]) = {}   \* an event is told once
       /\ claims' = [claims EXCEPT ![t] = @ \ {c}]
       /\ \E out \in Materialized(draft, c[1], c[2]) :
            /\ op[t] = "replace" => out.id # NoRow
            /\ draft' = out.db
            /\ made' = [made EXCEPT ![t] = Reference(t, c[1], out.id)]
  /\ UNCHANGED <<db, writer, op, picked, target, reader>>

AmendFact(t) ==
  /\ pc[t] = "claims" /\ op[t] = "amend"
  /\ Len(draft.rows) < MaxRows
  /\ NoSuccessor(draft, target[t])
  /\ Goto(t, "commit")
  /\ LET out == Amended(draft, draft.rows[target[t]].topic, target[t])
     IN  /\ draft' = out.db
         /\ made' = [made EXCEPT ![t] = out.id]
  /\ UNCHANGED <<db, writer, op, claims, picked, target, reader>>

AddCorrection(t) ==
  /\ pc[t] = "correct"
  /\ IF Correctable(draft, target[t], made[t])
       THEN /\ Goto(t, "commit")
            /\ draft' = RecordCorrection(draft, target[t], made[t],
                                         made[t] > Len(db.rows))
            /\ UNCHANGED <<db, writer, op, claims, picked, target, made, reader>>
       ELSE Rollback(t)

Commit(t) ==
  /\ pc[t] = "commit"
  /\ db' = draft
  /\ End(t)

\* A clarification or a refusal before the lock, an exception or a busy
\* database at any point, or the end of the process.
Fail(t) == pc[t] # "idle" /\ Rollback(t)

-----------------------------------------------------------------------------
(* load_user_graph: one SELECT per table, the ledger last.                 *)

ReadTables(r, from, to, topics) ==
  /\ reading[r] = from
  /\ reading' = [reading EXCEPT ![r] = to]
  /\ view' = [view EXCEPT ![r].ids =
                @ \cup UNION {About(db, topic) : topic \in topics}]
  /\ UNCHANGED <<db, draft, writer, turn>>

\* events, facts, relations
ReadFirst(r) == ReadTables(r, "start", "rest", Topics \ Dimensions)
\* states, attributes
ReadRest(r)  == ReadTables(r, "rest", "corrections", Dimensions)

ReadCorrections(r) ==
  /\ reading[r] = "corrections"
  /\ reading' = [reading EXCEPT ![r] = "done"]
  /\ view' = [view EXCEPT ![r].corrections = @ \cup db.corrections]
  /\ UNCHANGED <<db, draft, writer, turn>>

CloseSession(r) ==
  /\ reading[r] = "done"
  /\ reading' = [reading EXCEPT ![r] = "start"]
  /\ view' = [view EXCEPT ![r] = NothingRead]
  /\ UNCHANGED <<db, draft, writer, turn>>

-----------------------------------------------------------------------------
\* What _scrub_replacement_ir leaves of the sentence: one claim, and beside what
\* is asserted the attributes that were resolved with it and the ownership of the
\* things it is about.
Payloads(o) ==
  LET told == {c \in Claims : c[1] \notin Amounts}
  IN  IF o = "retract" THEN {{}}
      ELSE {{c} : c \in told}
           \cup (kSubset(MaxClaims + 1, {c \in told : c[2] = "assert"}) \ {{}})

Begins(t) ==
  \/ \E k \in 1 .. MaxClaims : \E cs \in kSubset(k, Claims) : Tell(t, cs)
  \/ \E id \in Ids(db) : Amend(t, id)
  \/ \E o \in {"retract", "replace"} : \E cs \in Payloads(o) :
       \/ \E topic \in Topics : CorrectDescribed(t, o, cs, topic)
       \/ \E id \in Ids(db) : CorrectById(t, o, cs, id)

Write(t) ==
  \/ Begins(t)
  \/ Resolve(t)
  \/ Lock(t)
  \/ MaterializeClaim(t)
  \/ AmendFact(t)
  \/ AddCorrection(t)
  \/ Commit(t)
  \/ Fail(t)

Read(r) == ReadFirst(r) \/ ReadRest(r) \/ ReadCorrections(r) \/ CloseSession(r)

Next == (\E t \in Writers : Write(t)) \/ (\E r \in Readers : Read(r))

Spec == Init /\ [][Next]_vars

-----------------------------------------------------------------------------
(* Properties.                                                             *)

\* However the turns overlap, one assertion is corrected once (ADR 0045:
\* CAN_TWO_COMMITTED_CORRECTIONS_TARGET_THE_SAME_ASSERTION? NO).
OneCorrectionPerTarget ==
  \A c, d \in db.corrections : c.target = d.target => c = d

\* At most one state per dimension and one instance per relation is current,
\* which is what resolve_current and the relation resolver rely on; and
\* supersession is a chain: the row before is closed, about the same topic, and
\* has no other successor, although the fact to amend is chosen unlocked.
SupersessionIsAChain ==
  /\ \A topic \in Dimensions \cup Triples : Cardinality(Current(db, topic)) <= 1
  /\ \A i \in Ids(db) :
       LET previous == db.rows[i].supersedes
       IN  previous # NoRow =>
             /\ previous < i
             /\ db.rows[previous].topic = db.rows[i].topic
             /\ ~db.rows[previous].current
             /\ \A j \in Ids(db) : db.rows[j].supersedes = previous => j = i

\* A REPLACE commits its replacement and its correction together or nothing:
\* it never ends as an ordinary assertion, nor as a RETRACT.
ReplaceIsAtomic ==
  [][\A t \in Writers :
       op[t] \in {"retract", "replace"} /\ pc[t] # "idle" /\ pc'[t] = "idle"
         /\ db' # db
       => \E c \in db'.corrections \ db.corrections :
            /\ c.target = target[t]
            /\ c.replacement = made[t]
            /\ (c.replacement = NoRow) <=> (op[t] = "retract")]_vars

\* No reader takes for effective both an assertion and the one that was
\* inserted to replace it, because the ledger is loaded last.
NeverBothEffective ==
  \A r \in Readers, c \in db.corrections :
    reading[r] = "done" /\ c.fresh /\ {c.target, c.replacement} \subseteq view[r].ids
      => c \in view[r].corrections
===============================================================================
