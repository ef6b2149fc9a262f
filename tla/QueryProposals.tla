----------------------------- MODULE QueryProposals -----------------------------
(***************************************************************************)
(* From a proposal of the interpreter that asks something to the question  *)
(* that QueryBuilder makes a spec of: proposal_to_query_ir, and the swap   *)
(* of the ends of an inverse relation.  A proposal is the primitive it is  *)
(* routed to and the slots that are read of it:                            *)
(*   concept    what resolve_concepts makes of its words                   *)
(*   of         its subject; inverse: the relation runs towards it         *)
(*   object, class      the other end, named, or a class of them           *)
(*   dim, value         resolved dimension and value, as far as they are   *)
(*   selection, cue     which of several values, and how it is worded      *)
(* The times of a question, and measurements asked for in a period or now, *)
(* are left out here: TemporalAnswers has their answers.                   *)
(***************************************************************************)
EXTENDS QueryAnswers

Untyped == "untyped"   \* a class whose entity type is not known

Proposal(primitive, of) ==
  [primitive |-> primitive, concept |-> "resolved", of |-> of, inverse |-> FALSE,
   object |-> Nothing, class |-> Nothing, dim |-> Nothing, value |-> Nothing,
   selection |-> "none", cue |-> "none"]

NoProposal == Proposal(Nothing, Nothing)

\* A slot that the interpreter leaves empty is Nothing.
Maybe(set) == set \cup {Nothing}

OfRelation(of, object, inverse) ==
  [Proposal("relation", of) EXCEPT !.object = object, !.inverse = inverse]
OfClass(of, class) == [Proposal("relation", of) EXCEPT !.class = class]
OfAttribute(of, dim, value, selection, cue) ==
  [Proposal("attribute", of) EXCEPT !.dim = dim, !.value = value, !.selection = selection,
                                    !.cue = cue]
OfMeasurement(of, dim, value, cue) ==
  [Proposal("measurement", of) EXCEPT !.dim = dim, !.value = value, !.cue = cue]
OfState(of, value) == [Proposal("state", of) EXCEPT !.dim = "state", !.value = value]
OfConcept(primitive, concept) == [Proposal(primitive, Principal) EXCEPT !.concept = concept]

RelationProposals ==
  {OfRelation(of, object, inverse) :
     of \in Maybe(Entities), object \in Maybe(Entities), inverse \in BOOLEAN}
ClassProposals == {OfClass(of, class) : of \in Entities, class \in Kinds \cup {Untyped}}
AskedDims  == Maybe(Singleton \cup Plural) \cup {"any"}
Selections == {"none", "first", "previous", "last", "before"}
AttributeProposals ==
  {OfAttribute(of, dim, value, selection, cue) :
     of \in Maybe(Described), dim \in AskedDims, value \in Maybe(Values),
     selection \in Selections, cue \in {"none", "already"}}
MeasurementProposals ==
  {OfMeasurement(of, dim, value, cue) :
     of \in Maybe(Described), dim \in {"measurement", Nothing}, value \in Maybe(Values),
     cue \in {"none", "was", "latest"}}
StateProposals == {OfState(of, value) : of \in Described, value \in Maybe(Values)}
ConceptProposals ==
  {OfConcept(primitive, concept) :
     primitive \in {"relation", "type", "unknown"},
     concept \in {"blocked", "ambiguous_pass", "ontology_gap", "resolved"}}

QueryProposals == RelationProposals \cup ClassProposals \cup AttributeProposals
                  \cup MeasurementProposals \cup StateProposals \cup ConceptProposals

-----------------------------------------------------------------------------
\* The RELATION branch of resolve_query_proposal: named ends and a class ask
\* about the present, whatever the time of the sentence.
RelationQuestion(p) ==
  LET ends == IF p.inverse THEN <<p.object, p.of>> ELSE <<p.of, p.object>>
  IN IF p.object # Nothing
       THEN Question("holds", ends[1], "owns", Nothing, ends[2], Nothing, Undated)
     ELSE Question(IF p.inverse THEN "owner" ELSE "list", p.of, "owns", Nothing, Nothing,
                   p.class, Undated)

\* _attribute_query_mode and _attribute_history_fields: a selection goes
\* before the wording, and the last value asked for is the last but one.
AttributeAsk(p) ==
  CASE p.selection = "first" -> "first"
    [] p.selection \in {"previous", "last", "before"} -> "previous"
    [] p.selection = "none" /\ p.cue = "already" -> "ever_was"
    [] OTHER -> IF p.value # Nothing THEN "is" ELSE "value"

\* _resolve_attribute_query: a value is passed on where it is asked about.
AttributeQuestion(p) ==
  LET ask == AttributeAsk(p)
  IN IF p.dim = "any"
       THEN Question("snapshot", p.of, "any", Nothing, Nothing, Nothing, Undated)
     ELSE Question(ask, p.of, p.dim, IF ask \in {"is", "ever_was"} THEN p.value ELSE Nothing,
                   Nothing, Nothing, Undated)

\* _measurement_query_mode, of what is asked without a time: a value makes it
\* a proposition if the words do.
MeasurementQuestion(p) ==
  LET valued == p.value # Nothing /\ p.cue = "was"
  IN Question(IF valued THEN "measured" ELSE "measurement", p.of, "measurement",
              IF valued THEN p.value ELSE Nothing, Nothing, Nothing, Undated)

StateQuestion(p) == Question("state", p.of, "state", p.value, Nothing, Nothing, Undated)

\* _blocked_query, and the slots each primitive insists on.
Resolved(p) ==
  /\ p.concept = "resolved"
  /\ p.of # Nothing
  /\ CASE p.primitive = "relation" -> p.class # Untyped
       [] p.primitive \in {"attribute", "measurement"} -> p.dim # Nothing
       [] p.primitive = "state" -> p.value # Nothing
       [] OTHER -> FALSE

QuestionOf(p) ==
  CASE p.primitive = "relation"    -> RelationQuestion(p)
    [] p.primitive = "attribute"   -> AttributeQuestion(p)
    [] p.primitive = "measurement" -> MeasurementQuestion(p)
    [] p.primitive = "state"       -> StateQuestion(p)
===============================================================================
