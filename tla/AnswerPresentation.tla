---------------------------- MODULE AnswerPresentation ----------------------------
(***************************************************************************)
(* From what the engine returns for a turn to what the user reads:         *)
(* result_projection and presenter of the product make the data of the     *)
(* response, the contract of jamesCore makes the input of its presenter,   *)
(* and that lets a model phrase it, checks the text and falls back.        *)
(* A text is what it says, and the names and values that it gives.         *)
(***************************************************************************)
EXTENDS QueryProposals

\* What presenter and projection give: an entity is named by its entity_label,
\* which for the user is the name of the principal.
Data(status, kind) ==
  [status |-> status, kind |-> kind, relation |-> Nothing, names |-> {}, items |-> {},
   value |-> Nothing, dim |-> Nothing, entity |-> Nothing, candidates |-> {}]

Text(says, values) == [says |-> says, values |-> values]

Only(values) == IF Single(values) THEN CHOOSE v \in values : TRUE ELSE Nothing

-----------------------------------------------------------------------------
(* Faulty variants of definitions below, for mutation runs.                *)

\* An absence need not be admitted.
AcceptsAnyAbsence(text, in) ==
  /\ text.form = "ok" /\ ~ text.term
  /\ in.status = "error" => "failure" \in text.says
  /\ text.invented < 3

-----------------------------------------------------------------------------
(* result_projection                                                       *)

ProjectRelationAnswer(result, entity) ==
  [Data(IF result.relation = "unknown" THEN "unknown" ELSE "answered", "relation") EXCEPT
     !.relation = result.relation, !.names = {rows[k].value : k \in result.related},
     !.items = {result.relation}, !.entity = entity]

\* The other end of each is its object, also for an inverse question.
ProjectRelationList(result, entity) ==
  LET names == {rows[k].value : k \in result.related} IN
  [Data("answered", "relation") EXCEPT !.names = names, !.items = names, !.entity = entity]

ProjectAttributeProposition(result) ==
  [Data(CASE result.proposition \in {"unknown", "temporally_unknown"} -> "unknown"
          [] result.proposition = "ambiguous" -> "needs_clarification"
          [] OTHER -> "answered", "attribute_proposition") EXCEPT
     !.relation = result.proposition, !.items = {result.proposition}, !.dim = result.dim]

ProjectAttributeValues(result, entity) ==
  [Data("answered", "attribute") EXCEPT !.items = result.values, !.value = Only(result.values),
     !.dim = result.dim, !.entity = entity, !.names = {entity}]

ProjectMeasurement(result, entity) ==
  [Data("answered", "measurement") EXCEPT !.items = result.values, !.value = Only(result.values),
     !.dim = result.dim, !.entity = entity]

ProjectMeasurementProposition(result) ==
  [Data(CASE result.proposition = "yes" -> "answered"
          [] result.proposition = "ambiguous" -> "needs_clarification"
          [] OTHER -> "unknown", "measurement_proposition") EXCEPT
     !.relation = result.proposition, !.dim = result.dim]

ProjectState(result, entity) ==
  [Data("answered", "state") EXCEPT !.items = {result.state}, !.value = result.state,
     !.dim = result.dim, !.entity = entity]

\* project_query_result: the first that applies.
ProjectQueryResult(result, entity) ==
  CASE result.relation # Nothing -> ProjectRelationAnswer(result, entity)
    [] result.relation = Nothing /\ result.related # {} -> ProjectRelationList(result, entity)
    [] result.kind = "attribute" /\ result.proposition # Nothing -> ProjectAttributeProposition(result)
    [] result.kind = "attribute" /\ result.proposition = Nothing /\ result.values # {} ->
         ProjectAttributeValues(result, entity)
    [] result.kind = "measurement"
       /\ (result.values # {} \/ (result.status \in Known /\ result.proposition = Nothing)) ->
         ProjectMeasurement(result, entity)
    [] result.kind = "measurement" /\ result.values = {} /\ result.proposition # Nothing ->
         ProjectMeasurementProposition(result)
    [] result.state # Nothing -> ProjectState(result, entity)
    [] result.kind = "attribute" /\ result.values = {} /\ result.status \in Known
       /\ result.proposition = Nothing ->
         [Data("answered", "attribute") EXCEPT !.dim = result.dim, !.entity = entity]
    [] OTHER -> Data("no_results", "absence")

\* _absence, and project_ask with _answered_without_absence.
Absence(result, entity) ==
  [Data("no_results", "absence") EXCEPT !.entity = entity,
     !.dim = IF result.kind = "relation" THEN Nothing ELSE result.dim]

\* ...and a faulty variant, for mutation runs: without a value it is an absence.
ProjectValuesAlone(ask) ==
  IF ask.result.values = {} /\ ask.result.related = {} /\ ask.result.state = Nothing
    THEN Absence(ask.result, ask.entity)
  ELSE ProjectQueryResult(ask.result, ask.entity)

ProjectAsk(ask) ==
  LET entity == ask.entity
      data   == ProjectQueryResult(ask.result, entity)
  IN IF ask.status = "no_results" THEN Absence(ask.result, entity)
     ELSE IF data.status = "no_results"
       THEN [Data("answered", ask.result.kind) EXCEPT !.dim = ask.result.dim, !.entity = entity]
     ELSE data

\* What the product itself says of it.
ProjectionText(data) ==
  CASE data.status = "no_results" -> Text("unknown", {})
    [] data.relation = "yes" -> Text("yes", {})
    [] data.relation = "no"  -> Text("no", {})
    [] data.relation \notin {"yes", "no", Nothing} -> Text("unsure", {})
    [] OTHER -> Text("value", data.items)

-----------------------------------------------------------------------------
(* present_turn: what a turn of the product ends with.                     *)

\* An envelope: its type, the kind of operation, the data and the text.
Response(type, operation, data, text) ==
  [type |-> type, operation |-> operation, data |-> data, text |-> text]

\* _present_ask
PresentAsk(ask, candidates) ==
  CASE ask.status \in {"answered", "no_results"} ->
         LET data == ProjectAsk(ask)
         IN Response("answer", "knowledge_query", data, ProjectionText(data))
    [] ask.status = "needs_clarification" ->
         Response("clarification", "clarification",
                  [Data("needs_clarification", "clarification") EXCEPT !.candidates = candidates],
                  IF Cardinality(candidates) >= 2 THEN Text("which", candidates) ELSE Text("detail", {}))
    [] OTHER -> Response("unsupported", "knowledge_query", Data("unsupported", "query"),
                         Text("cannot", {}))

\* ingest_status_from_tally
Tallies == [reported : BOOLEAN, committed : 0 .. 1, deferred : 0 .. 1, rejected : 0 .. 1]

IngestStatus(tally) ==
  CASE ~ tally.reported -> "committed"
    [] tally.reported /\ tally.committed > 0 /\ tally.deferred = 0 -> "committed"
    [] tally.reported /\ tally.committed > 0 /\ tally.deferred > 0 -> "partial"
    [] tally.reported /\ tally.committed = 0 /\ tally.deferred > 0 -> "deferred"
    [] OTHER -> "unsupported"

\* _present_ingest of a write that was tallied.
PresentWrite(tally) ==
  LET status == IngestStatus(tally) IN
  Response(IF status = "unsupported" THEN "unsupported" ELSE "acknowledgement", "knowledge_write",
           Data(status, IF status = "unsupported" THEN "write" ELSE "acknowledgement"),
           Text(CASE status = "committed" -> "stored"
                  [] status = "partial"   -> "partly"
                  [] OTHER                -> "not_stored", {}))

\* ...and of a correction, or a write, that was not done.
PresentRefusal(refusal) ==
  IF refusal = "unclear"
    THEN Response("clarification", "clarification",
                  Data("needs_clarification", "clarification"), Text("detail", {}))
  ELSE Response("unsupported", IF refusal = "correction" THEN "knowledge_correction"
                               ELSE "knowledge_write",
                Data("unsupported", refusal), Text("cannot", {}))

\* present_turn of a turn that was not interpreted.
PresentUninterpreted ==
  Response("unsupported", "none", Data("unsupported", "interpretation"), Text("cannot", {}))

\* _map_pke_result: no response, or one that is an error, has no data.
MapFailure == Response("error", Nothing, Data(Nothing, Nothing), Text("failure", {}))

-----------------------------------------------------------------------------
(* The presenter of jamesCore.                                             *)

\* _item_values: what is the answer of a relation is no value.
ItemValues(data) == data.items \ {"yes", "no", "unknown"}

\* _relation_answer, of the answer or else of the only item.
RelationAnswer(data) == IF data.relation # Nothing THEN data.relation
                        ELSE IF Only(data.items) \in {"yes", "no", "unknown"} THEN Only(data.items)
                        ELSE Nothing

\* _matched_names, with the name of the entity before them.
FirstName(in) == IF in.entity # Nothing THEN in.entity ELSE CHOOSE name \in in.names : TRUE

\* _primary_value
PrimaryValue(in) ==
  CASE in.kind # "measurement" /\ in.value # Nothing /\ in.kind \notin {"relation", "absence"} -> in.value
    [] in.kind = "measurement" /\ in.value # Nothing -> in.value
    [] in.kind = "measurement" /\ in.value = Nothing /\ in.values # {} -> CHOOSE v \in in.values : TRUE
    [] OTHER -> IF in.names # {} THEN FirstName(in)
                ELSE IF in.values # {} THEN CHOOSE v \in in.values : TRUE
                ELSE in.relation

\* _has_knowledge_payload of an absence.
HasKnowledge(in) == in.relation \in {"yes", "no"} \/ in.values # {} \/ in.value # Nothing

\* from_capability_envelope
PresenterInput(response) ==
  LET data  == response.data
      in    == [status |-> IF response.type = "error" THEN "error" ELSE data.status,
                operation |-> response.operation, kind |-> data.kind,
                relation |-> RelationAnswer(data),
                names |-> (data.names \cup {data.entity}) \ {Nothing},
                values |-> ItemValues(data), value |-> data.value, dim |-> data.dim,
                entity |-> data.entity, candidates |-> data.candidates, main |-> Nothing]
      known == [in EXCEPT !.status = IF in.status = "no_results" /\ HasKnowledge(in)
                                     THEN "answered" ELSE in.status]
  IN [known EXCEPT !.main = PrimaryValue(known)]

\* structured_fallback, and the text of the response where it has none.  A
\* measurement is said of the dimensions that it takes for measured ones.
Fallback(in, text) ==
  CASE in.status = "error"     -> Text("failure", {})
    [] in.status = "committed" -> Text("stored", {})
    [] in.status = "partial"   -> Text("partly", {})
    [] in.status \in {"deferred", "unsupported"} /\ in.operation = "knowledge_write" ->
         Text("not_stored", {})
    [] in.status = "no_results" -> Text("unknown", {})
    [] in.status = "needs_clarification" /\ in.candidates # {} -> Text("which", in.candidates)
    [] in.status = "unsupported" /\ in.operation # "knowledge_write" -> Text("cannot", {})
    [] in.status \in {"answered", "unknown"} /\ in.relation = "yes" -> Text("yes", {})
    [] in.status \in {"answered", "unknown"} /\ in.relation = "no"  -> Text("no", {})
    [] OTHER ->
         IF in.kind = "measurement" \/ in.dim = "measurement"
           THEN IF in.main = Nothing THEN text
                ELSE Text("value", {IF in.values # {} /\ in.main \in in.names
                                    THEN CHOOSE v \in in.values : TRUE ELSE in.main})
         ELSE IF in.main # Nothing /\ (in.kind \in {"attribute", "state"} \/ in.status = "answered")
           THEN Text("value", {in.main})
         ELSE text

\* required_values
Required(in) ==
  CASE in.status \in {"no_results", "unknown", "error", "unsupported", "insufficient"} -> {}
    [] in.status = "needs_clarification" -> in.candidates
    [] OTHER -> IF in.kind \in {"measurement", "attribute", "state"} THEN in.names \cup in.values
                ELSE IF in.names # {} THEN in.names ELSE in.values

\* A text of the model: what it is like, which of the phrases that are looked
\* for it has, whether it gives all required values, how many words it has
\* that nothing attests, and whether it has a long number or a term of the
\* implementation.  validate_presenter_text
Accepts(text, in) ==
  /\ text.form = "ok" /\ ~ text.term
  /\ Required(in) = {} \/ text.complete
  /\ in.status = "no_results" =>
       /\ "bare_no" \notin text.says
       /\ {"unknown", "not_yet_known"} \cap text.says # {}
  /\ in.status = "answered" /\ in.relation = "no" =>
       /\ {"unknown", "not_yet_known"} \cap text.says # {} =>
            {"no", "bare_no"} \cap text.says # {}
       /\ "not_yet_known" \notin text.says
  /\ in.status = "error" => "failure" \in text.says
  /\ in.status \in {"answered", "committed", "no_results", "needs_clarification"} => text.invented < 3
  /\ in.status = "answered" => ~ text.number
===============================================================================
