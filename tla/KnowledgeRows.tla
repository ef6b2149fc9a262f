----------------------------- MODULE KnowledgeRows -----------------------------
(***************************************************************************)
(* The assertion rows and the correction ledger of one user, and what      *)
(* KnowledgeMaterializer, CorrectionService and the repositories do to     *)
(* them inside one unit of work.  A row's id is its position.  What a row  *)
(* says is abstracted to its topic:                                        *)
(*   Dimensions    one entity's state or singleton attribute dimension,    *)
(*   Triples       one (from, type, to) of a relation,                     *)
(*   Amounts       the amount fact of one event,                           *)
(*   Observations  events, measurements, non-singleton attributes.         *)
(***************************************************************************)
EXTENDS Integers, Sequences, FiniteSetsExt

CONSTANTS Dimensions, Triples, Amounts, Observations

ASSUME TopicsAssumption == Amounts \cap (Dimensions \cup Triples) = {}

Topics == Dimensions \cup Triples \cup Amounts \cup Observations

\* What one claim of a sentence can be.  "past" covers HISTORICAL and an
\* ASSERT of something that happened or is planned.
Claims == (Topics \X {"assert"}) \cup ((Dimensions \cup Triples) \X {"past"})
            \cup (Triples \X {"terminate", "deny"})

NoRow == 0
EmptyDb == [rows |-> << >>, corrections |-> {}]

Ids(db)            == DOMAIN db.rows
About(db, topic)   == {i \in Ids(db) : db.rows[i].topic = topic}
Current(db, topic) == {i \in About(db, topic) : db.rows[i].current}
Newest(ids)        == IF ids = {} THEN NoRow ELSE Max(ids)

Corrected(db)      == {c.target : c \in db.corrections}
Effective(db, i)   == i \notin Corrected(db)

-----------------------------------------------------------------------------
(* Faulty variants of operators below, for mutation runs.                  *)

\* Neither the service nor the repository asks for an earlier correction.
AnyTargetCorrectable(db, target, replacement) == target # replacement

\* The fact is amended without asking for an earlier successor.
SuccessorIgnored(db, previous) == TRUE

-----------------------------------------------------------------------------
(* Rows.  An outcome is the database after the claim and the id the claim  *)
(* adds to the MaterializationResult, or NoRow.                            *)

Close(rows, ids) ==
  [i \in DOMAIN rows |-> IF i \in ids THEN [rows[i] EXCEPT !.current = FALSE]
                                      ELSE rows[i]]

Insert(db, closed, topic, current, supersedes) ==
  LET row == [topic |-> topic, current |-> current, supersedes |-> supersedes]
  IN  [db |-> [db EXCEPT !.rows = Append(Close(@, closed), row)],
       id |-> Len(db.rows) + 1]

Add(db, topic, current) == Insert(db, {}, topic, current, NoRow)

\* _state, _attribute_record: what is current is closed and superseded.
Supersede(db, topic) ==
  Insert(db, Current(db, topic), topic, TRUE, Newest(Current(db, topic)))

\* _relation_record with ASSERT: a current instance is only refreshed.
AssertTriple(db, topic) ==
  IF Current(db, topic) # {}
    THEN [db |-> db, id |-> Newest(Current(db, topic))]
    ELSE Add(db, topic, TRUE)

\* TERMINATE and DENY_CURRENT: the instance stops being current.  Which of
\* several past instances was observed last is left open.
EndTriple(db, candidates) ==
  IF candidates = {}
    THEN {[db |-> db, id |-> NoRow]}
    ELSE {[db |-> [db EXCEPT !.rows = Close(@, {i})], id |-> i] : i \in candidates}

Terminable(db, topic) ==
  IF Current(db, topic) # {} THEN Current(db, topic) ELSE About(db, topic)

Materialized(db, topic, mode) ==
  CASE mode = "past"      -> {Add(db, topic, FALSE)}
    [] mode = "terminate" -> EndTriple(db, Terminable(db, topic))
    [] mode = "deny"      -> EndTriple(db, Current(db, topic))
    [] OTHER ->
         CASE topic \in Dimensions -> {Supersede(db, topic)}
           [] topic \in Triples    -> {AssertTriple(db, topic)}
           [] OTHER                -> {Add(db, topic, TRUE)}

\* SqlFactRepository._assert_supersession: a fact has one successor.
NoSuccessor(db, previous) ==
  \A i \in Ids(db) : db.rows[i].supersedes # previous

Amended(db, topic, previous) == Insert(db, {previous}, topic, TRUE, previous)

-----------------------------------------------------------------------------
(* The ledger.                                                             *)

\* CorrectionService.replace and _assert_effective, the repository's own
\* check and the unique index.  A retraction has no replacement.
Correctable(db, target, replacement) ==
  target # replacement /\ Effective(db, target)

\* "fresh" remembers whether the replacement was inserted with the correction.
RecordCorrection(db, target, replacement, fresh) ==
  [db EXCEPT !.corrections =
     @ \cup {[target |-> target, replacement |-> replacement, fresh |-> fresh]}]
===============================================================================
