------------------------------ MODULE QueryAnswers ------------------------------
(***************************************************************************)
(* From a question to what AskApplicationService returns: the spec that    *)
(* QueryBuilder makes of it, the one table that QueryEngine.execute looks  *)
(* into, the resolver of that table, and the status of the answer.         *)
(*   question  ask: what is asked; of: the entity it is asked of; and, as  *)
(*             far as it goes, dim, value, thing (the other end), class    *)
(*             and the date that is asked about                            *)
(***************************************************************************)
EXTENDS StoredKnowledge

Nothing == "nothing"

\* No value and no entity is worded as an answer, because _relation_answer takes
\* a single item that is for one; and no dimension of an attribute has the name
\* of another table.
ASSUME WordsAssumption == (Values \cup Entities) \cap {Nothing, "yes", "no", "unknown"} = {}
ASSUME DimensionsAssumption ==
  (Singleton \cup Plural) \cap {"owns", "state", "measurement", "name", "any"} = {}

Question(ask, of, dim, value, thing, class, at) ==
  [ask |-> ask, of |-> of, dim |-> dim, value |-> value, thing |-> thing, class |-> class,
   at |-> at]

\* The questions that QueryBuilder has a spec for, as far as they differ here.
Questions ==
  LET Plain(ask, of, dim)         == Question(ask, of, dim, Nothing, Nothing, Nothing, Undated)
      OfValue(ask, of, dim, v)    == Question(ask, of, dim, v, Nothing, Nothing, Undated)
      OfThing(ask, thing, at)     == Question(ask, Principal, "owns", Nothing, thing, Nothing, at)
      Dims                        == Singleton \cup Plural
  IN {Plain("list", Principal, "owns")}
     \cup {Question("list", Principal, "owns", Nothing, Nothing, kind, Undated) : kind \in Kinds}
     \cup {Plain("owner", thing, "owns") : thing \in Things}
     \cup {OfThing(ask, thing, Undated) : ask \in {"holds", "ever_held"}, thing \in Things}
     \cup {OfThing("held_during", thing, at) : thing \in Things, at \in Dates \ {Undated}}
     \cup {Plain(ask, of, dim) : ask \in {"value", "previous", "first"}, of \in Described, dim \in Dims}
     \cup {OfValue(ask, of, dim, v) : ask \in {"is", "ever_was"}, of \in Described,
                                      dim \in Dims, v \in Values}
     \cup {Plain("value", of, "name") : of \in Described}
     \cup {Plain("snapshot", of, "any") : of \in Described}
     \cup {Plain(dim, of, dim) : dim \in {"measurement", "state"}, of \in Described}
     \cup {OfValue("measured", of, "measurement", v) : of \in Described, v \in Values}

\* QueryResult, of which an executor fills in its part.
NoResult ==
  [relation |-> Nothing, related |-> {}, matched |-> 0, status |-> Nothing,
   proposition |-> Nothing, values |-> {}, state |-> Nothing, kind |-> Nothing, dim |-> Nothing]

Known == {"known_single", "known_multiple", "ambiguous", "temporally_unknown"}

Single(values) == Cardinality(values) = 1
StatusOf(values, several) == IF Single(values) THEN "known_single" ELSE several

-----------------------------------------------------------------------------
\* sort_key and the ids: dated rows by date, then in the order of writing.
Newest(ks) ==
  CHOOSE k \in ks : \A j \in ks : rows[j].date < rows[k].date \/ (rows[j].date = rows[k].date /\ j <= k)
Oldest(ks) ==
  CHOOSE k \in ks : \A j \in ks : rows[k].date < rows[j].date \/ (rows[j].date = rows[k].date /\ k <= j)
Dated(ks)  == {k \in ks : rows[k].date # Undated}

-----------------------------------------------------------------------------
\* _rank_matches: the newest of the dated rows, and all of the undated ones.
RankMatches(ks) ==
  IF Dated(ks) = {} THEN ks ELSE {Newest(Dated(ks))} \cup (ks \ Dated(ks))

\* filter_relations, of the triple that _execute_relation reads off the spec:
\* an inverse question (_swap_relation_query_endpoints) gives the object.
Triples(q, currentOnly) ==
  {k \in DOMAIN rows :
     /\ rows[k].table = "relation"
     /\ currentOnly => rows[k].current
     /\ IF q.ask = "owner" THEN rows[k].value = q.of ELSE rows[k].of = q.of
     /\ q.thing # Nothing => rows[k].value = q.thing}

\* Faulty variant of the next definition, for mutation runs: any row will do.
HoldsOnceHeld(q) ==
  LET matches == Triples(q, FALSE) IN
  [NoResult EXCEPT !.related = matches, !.relation = IF matches = {} THEN "no" ELSE "yes"]

\* resolve_relation_query with both ends, and resolve_historical_existence.
Holds(q) ==
  LET matches == Triples(q, q.ask = "holds") IN
  [NoResult EXCEPT !.related = RankMatches(matches),
     !.relation = CASE matches = {} -> "no"
                    [] q.ask = "holds" /\ Cardinality(RankMatches(matches)) > 1 -> "unknown"
                    [] OTHER -> "yes"]

\* ...without, and the filter by object_entity_type_ids in _execute_relation.
ListOf(q) ==
  LET ranked == RankMatches(Triples(q, TRUE))
      typed  == {k \in ranked : q.class = Nothing \/ KindOf(rows[k].value) = q.class}
  IN [NoResult EXCEPT !.related = typed,
        !.relation = CASE q.class = Nothing -> Nothing
                       [] q.class # Nothing /\ typed # {} -> "yes"
                       [] OTHER -> "no"]

\* resolve_held_during, of the first row.  A relation that is not current is
\* not known to have ended at a date.
HeldDuring(q) ==
  LET matches == Triples(q, FALSE)
      first   == CHOOSE k \in matches : \A j \in matches : k <= j
      since   == rows[first].date
  IN IF matches = {} THEN [NoResult EXCEPT !.relation = "no"]
     ELSE [NoResult EXCEPT !.related = {first},
             !.relation = CASE since # Undated /\ q.at < since -> "no"
                            [] since # Undated /\ since <= q.at /\ rows[first].current -> "yes"
                            [] OTHER -> "unknown"]

ExecuteRelation(q) ==
  LET result == CASE q.ask \in {"holds", "ever_held"} -> Holds(q)
                  [] q.ask = "held_during"            -> HeldDuring(q)
                  [] q.ask \in {"list", "owner"}      -> ListOf(q)
  IN [result EXCEPT !.kind = "relation", !.matched = Cardinality(result.related)]

-----------------------------------------------------------------------------
\* _value_lookup
ValueLookup(q, pool) ==
  LET values == {rows[k].value : k \in {j \in pool : rows[j].current}} IN
  IF pool = {} THEN [NoResult EXCEPT !.status = "unknown"]
  ELSE IF values = {} THEN [NoResult EXCEPT !.status = "temporally_unknown"]
  ELSE [NoResult EXCEPT !.status = StatusOf(values, "ambiguous"), !.values = values]

\* _historical_value_lookup, of one: sort_key has the undated last, so that in
\* reverse they come first.
PastValue(q, pool) ==
  LET closed  == {k \in pool : ~ rows[k].current}
      undated == closed \ Dated(closed)
      chosen  == IF q.ask = "first"
                   THEN Oldest(IF Dated(closed) # {} THEN Dated(closed) ELSE closed)
                   ELSE Newest(IF undated # {} THEN undated ELSE closed)
  IN IF closed = {} THEN [NoResult EXCEPT !.status = "unknown"]
     ELSE [NoResult EXCEPT !.status = "known_single", !.values = {rows[chosen].value}]

\* _proposition, of a lookup: another value does not refute it.
Proposition(q, pool) ==
  LET lookup == ValueLookup(q, pool) IN
  [lookup EXCEPT !.proposition =
     IF lookup.status \in {"unknown", "temporally_unknown"} THEN lookup.status
     ELSE IF q.value \notin lookup.values THEN "unknown"
     ELSE IF lookup.status = "ambiguous" THEN "ambiguous" ELSE "yes"]

\* _historical_existence, without a range.
HistoricalExistence(q, pool) ==
  IF \E k \in pool : rows[k].value = q.value
    THEN [NoResult EXCEPT !.status = "known_single", !.values = {q.value}, !.proposition = "yes"]
  ELSE [NoResult EXCEPT !.status = "unknown", !.proposition = "unknown"]

\* try_intrinsic_attribute_result: the name of a thing is that of its entity.
IntrinsicName(q) == [NoResult EXCEPT !.status = "known_single", !.values = {q.of}]

\* resolve_attribute_query, and _execute_attribute around it.
ExecuteAttribute(q) ==
  LET pool == {k \in DOMAIN rows : /\ rows[k].table = "attribute" /\ rows[k].of = q.of
                                   /\ rows[k].dim = q.dim}
      result == IF q.dim = "name" THEN IntrinsicName(q)
                ELSE CASE q.ask = "value"    -> ValueLookup(q, pool)
                       [] q.ask \in {"previous", "first"} -> PastValue(q, pool)
                       [] q.ask = "is"       -> Proposition(q, pool)
                       [] q.ask = "ever_was" -> HistoricalExistence(q, pool)
  IN [result EXCEPT !.kind = "attribute", !.dim = q.dim, !.matched = Cardinality(result.values)]

\* _execute_attribute_snapshot: the values of every dimension, in one list.
ExecuteSnapshot(q) ==
  LET values == UNION {ValueLookup(q, {k \in DOMAIN rows :
                         rows[k].table = "attribute" /\ rows[k].of = q.of /\ rows[k].dim = dim}).values
                       : dim \in Singleton \cup Plural}
  IN [NoResult EXCEPT !.kind = "attribute", !.values = values, !.matched = Cardinality(values),
        !.status = IF values = {} THEN "unknown" ELSE StatusOf(values, "known_multiple")]

\* _latest of the measurements, and observable_value_groups.
LatestMeasurement(pool) ==
  LET undated == pool \ Dated(pool)
      last    == {k \in pool : \A j \in pool : rows[j].date <= rows[k].date}
      ValuesOf(ks) == {rows[k].value : k \in ks}
  IN CASE pool = {}        -> [NoResult EXCEPT !.status = "unknown"]
       [] pool # {} /\ undated = pool
                           -> [NoResult EXCEPT !.status = "temporally_unknown", !.values = ValuesOf(pool)]
       [] undated # {} /\ undated # pool
                           -> [NoResult EXCEPT !.status = "ambiguous", !.values = ValuesOf(pool)]
       [] OTHER            -> [NoResult EXCEPT !.status = StatusOf(ValuesOf(last), "ambiguous"),
                                               !.values = ValuesOf(last)]

\* _proposition of the measurements, without a range.
MeasuredValue(q, pool) ==
  IF \A k \in pool : rows[k].value # q.value
    THEN [NoResult EXCEPT !.status = "unknown", !.proposition = "unknown"]
  ELSE [NoResult EXCEPT !.status = "known_single", !.values = {q.value}, !.proposition = "yes"]

ExecuteMeasurement(q) ==
  LET pool == {k \in DOMAIN rows : rows[k].table = "measurement" /\ rows[k].of = q.of}
      result == IF q.ask = "measurement" THEN LatestMeasurement(pool) ELSE MeasuredValue(q, pool)
  IN [result EXCEPT !.kind = "measurement", !.dim = q.dim, !.matched = Cardinality(result.values)]

\* resolve_current and _execute_state: with undated rows alone, the only one.
\* A value asked about leaves only the rows that have it.
ExecuteState(q) ==
  LET pool == {k \in DOMAIN rows : /\ rows[k].table = "state" /\ rows[k].of = q.of
                                   /\ rows[k].current /\ q.value \in {Nothing, rows[k].value}}
      chosen == IF Dated(pool) # {} THEN {Newest(Dated(pool))}
                ELSE IF Cardinality(pool) = 1 THEN pool ELSE {}
  IN [NoResult EXCEPT !.kind = "state", !.dim = q.dim, !.matched = Cardinality(chosen),
        !.state = IF chosen = {} THEN Nothing ELSE rows[CHOOSE k \in chosen : TRUE].value]

\* QueryEngine.execute
Execute(q) ==
  CASE q.ask = "snapshot"              -> ExecuteSnapshot(q)
    [] q.ask \in {"measurement", "measured"} -> ExecuteMeasurement(q)
    [] q.ask \in {"value", "previous", "first", "is", "ever_was"} -> ExecuteAttribute(q)
    [] q.dim = "owns"                  -> ExecuteRelation(q)
    [] q.ask = "state"                 -> ExecuteState(q)

-----------------------------------------------------------------------------
\* _is_empty
IsEmpty(q, result) ==
  CASE q.ask = "snapshot" -> result.values = {} /\ result.matched = 0
    [] result.kind \in {"attribute", "measurement"} /\ q.ask # "snapshot" ->
         result.proposition = Nothing /\ result.status \notin Known
    [] OTHER -> result.matched = 0

\* ask: interpretation and building may fail before the engine is asked.
\* Of an entity there is only something to say once it has been resolved.
AskResult(status, entity, result) == [status |-> status, entity |-> entity, result |-> result]

Answered(q) ==
  LET result == Execute(q)
  IN AskResult(IF IsEmpty(q, result) THEN "no_results" ELSE "answered", q.of, result)

\* _from_build_error: what cannot be built for the question.
BuildErrors == {"entity.ambiguous", "entity.unresolved", "time.insufficient", "other"}

NotBuilt(error) ==
  AskResult(CASE error \in {"entity.ambiguous", "time.insufficient"} -> "needs_clarification"
              [] error = "entity.unresolved" -> "no_results"
              [] OTHER -> "rejected",
            Nothing, NoResult)
===============================================================================
