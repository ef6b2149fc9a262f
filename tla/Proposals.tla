------------------------------- MODULE Proposals -------------------------------
(***************************************************************************)
(* What the engine makes of a proposal of the language model: the kind of  *)
(* knowledge it is routed to, the concept its words resolve to, whether    *)
(* that much may be persisted, and what is done when it may not: ask the   *)
(* user for one slot, decline, or abstain.  A proposal is what the model   *)
(* returned for one utterance; the tables of aliases and senses, and the   *)
(* lists of words, are reduced to the outcome of looking in them.          *)
(***************************************************************************)
EXTENDS Naturals, Sequences, FiniteSets, SequencesExt

CONSTANT Gadgets    \* texts that name an instrument

NoMention == [text |-> "", ref |-> "none"]
NoValue   == [dim |-> "", val |-> ""]
NoTarget  == [kind |-> "", of |-> "", to |-> "", dim |-> "", val |-> "", row |-> 0]

(***************************************************************************)
(* A proposal with nothing in it; an utterance is this record with what    *)
(* the user said.  alias: what the table of aliases gave ("one", "tie",    *)
(* "blocked", "gated" when a gate refused every match, or "none").  sense: *)
(* a recognised meaning with no canonical concept ("gap", "elsewhere",     *)
(* "idea", "pass", or "none").  reports: it has no action or one of reading *)
(* a display.  attr: the attribute its words resolve to; beside: those that *)
(* are resolved beside it, as a model beside a brand.  cutShort: the       *)
(* sentence stops before the value.  wording: what the words show of a     *)
(* correction.                                                             *)
(***************************************************************************)
Unsaid ==
  [utterance |-> "assert", hint |-> "unknown", cues |-> {}, exprs |-> {},
   aspect |-> "none", life |-> "none",
   subject |-> NoMention, object |-> NoMention, context |-> NoMention, others |-> <<>>,
   reports |-> TRUE, alias |-> "none", sense |-> "none",
   state |-> "", rel |-> "", attr |-> NoValue, beside |-> <<>>, cutShort |-> FALSE,
   meas |-> NoValue, time |-> "vague", claims |-> <<>>, op |-> "none", target |-> NoTarget, wording |-> {}]

\* The kinds of knowledge that can be corrected.
Kinds == {"event", "measurement", "relation", "state", "attribute"}

\* A mention without a text is none.
Mention == {NoMention} \cup
  [text : STRING \ {""}, ref : {"named", "possessive", "contextual", "class", "self"}]

Value == [dim : STRING, val : STRING]

Claim ==
  [kind : {"entity", "class", "relation", "attribute", "intrinsic", "measurement", "state", "event"},
   subject : Mention, object : Mention, dim : STRING, val : STRING,
   origin : {"explicit", "assumed", "derived"}]

Proposal ==
  [utterance : {"assert", "query", "correct"}, hint : STRING, cues : SUBSET STRING,
   exprs : SUBSET STRING, aspect : STRING, life : {"none", "start", "end", "deny"},
   subject : Mention, object : Mention, context : Mention, others : Seq(Mention),
   reports : BOOLEAN, alias : STRING, sense : STRING, state : STRING, rel : STRING,
   attr : Value, beside : Seq(Value), cutShort : BOOLEAN, meas : Value, time : STRING, claims : Seq(Claim),
   op : {"none", "replace", "retract"}, wording : SUBSET STRING,
   target : [kind : Kinds \cup {""}, of : STRING, to : STRING, dim : STRING, val : STRING,
             row : Nat]]

\* The result of the first rule whose condition holds.
FirstOf(rules) ==
  rules[CHOOSE k \in DOMAIN rules : rules[k][1] /\ \A j \in 1 .. k - 1 : ~ rules[j][1]][2]

Says(p, e)   == e \in p.exprs
Has(p, cue)  == cue \in p.cues
Acts(p)      == p.exprs \cap {"action", "event"} # {}
LinkOnly(p)  == Has(p, "link") /\ Says(p, "relation") /\ ~ Acts(p) /\ ~ Has(p, "change")
Bounded(p)   == p.life \in {"start", "end"}
Somebody(p)  == {p.subject, p.object} \cup Range(p.others) # {NoMention}

-----------------------------------------------------------------------------
(* Routing.                                                                *)

Measured(p) == \/ Has(p, "measure")
               \/ p.hint = "measurement" /\ (Says(p, "measurement") \/ p.meas # NoValue)

\* An instrument that shows a reading, as against somebody who did something.
ReadingReport(p) ==
  /\ ~ Has(p, "change") /\ ~ Bounded(p) /\ Measured(p)
  /\ p.subject.text \in Gadgets
  /\ \/ p.reports /\ p.object = NoMention
     \/ p.hint = "measurement" /\ ~ Says(p, "event")

Occurred(p) == /\ ~ ReadingReport(p)
               /\ Has(p, "change") \/ Acts(p) \/ (Bounded(p) /\ ~ LinkOnly(p))

DescribesAttribute(p) ==
  Has(p, "stable") \/ (Says(p, "attribute") /\ ~ Has(p, "condition"))

RouteQuery(p) == FirstOf(<<
  <<Has(p, "link") \/ Says(p, "relation"),        "relation">>,
  <<Has(p, "class"),                              "type">>,
  <<Measured(p),                                  "measurement">>,
  <<DescribesAttribute(p),                        "attribute">>,
  <<\E k \in DOMAIN p.claims : p.claims[k].kind = "attribute"
                               /\ p.claims[k].origin = "explicit", "attribute">>,
  <<Has(p, "condition") \/ Says(p, "state"),      "state">>,
  <<TRUE,                                         "event">> >>)

RouteAssertion(p) == FirstOf(<<
  <<Occurred(p) /\ Measured(p),                       "event">>,
  <<(Has(p, "change") \/ Bounded(p)) /\ LinkOnly(p),  "relation">>,
  <<Has(p, "change") \/ Bounded(p),                   "event">>,
  <<p.aspect = "happened" /\ Acts(p) /\ ~ ReadingReport(p), "event">>,
  <<Has(p, "link") \/ Says(p, "relation"),            "relation">>,
  <<Has(p, "class"),                                  "type">>,
  <<Has(p, "stable") \/ (DescribesAttribute(p) /\ ~ Measured(p)), "attribute">>,
  <<Measured(p),                                      "measurement">>,
  <<(Has(p, "condition") \/ p.aspect = "ongoing") /\ Says(p, "attribute")
      /\ ~ Says(p, "state"),                          "attribute">>,
  <<Has(p, "condition") \/ p.aspect = "ongoing",      "state">>,
  <<Acts(p) /\ ~ ReadingReport(p),                    "event">>,
  <<Says(p, "state"),                                 "state">>,
  <<TRUE,                                             p.hint>> >>)

Route(p) == IF p.utterance = "query" THEN RouteQuery(p) ELSE RouteAssertion(p)

\* collect_assertions: a quantity is kept beside whatever it was said with.
Assertions(p, primary) == {primary} \cup
  (IF p.utterance # "query" /\ Measured(p) THEN {"measurement"} ELSE {})

IsCorrection(p) == p.utterance = "correct" \/ Has(p, "correction") \/ p.op # "none"

\* assess_semantic_proposal: what is refused before anything is resolved.
Conflicting(p) ==
  \/ {"link", "condition"} \subseteq p.cues /\ {"relation", "state"} \subseteq p.exprs
  \/ p.hint = "attribute" /\ Has(p, "change") /\ ~ Has(p, "stable")
  \/ {"class", "condition"} \subseteq p.cues

Actionable(p, kind) ==
  /\ p.exprs \cup p.cues # {}
  /\ ~ Conflicting(p)
  /\ \/ kind # "unknown"
     \/ Has(p, "correction") /\ p.utterance = "correct" /\ p.op = "retract"

-----------------------------------------------------------------------------
(* The concept of the primary part, which is of the kind it was routed to. *)
(* key: a canonical concept was found.                                     *)

Concept(kind, status) ==
  [kind |-> kind, status |-> status, key |-> status = "resolved", gap |-> FALSE,
   abstains |-> status \notin {"resolved", "unresolved"}]

BySense(p, kind) ==
  CASE p.sense = "gap"       -> [Concept(kind, "ontology_gap") EXCEPT !.gap = TRUE]
    [] p.sense = "elsewhere" -> [Concept(kind, "unresolved") EXCEPT !.abstains = TRUE]
    [] p.sense = "idea"      -> Concept(kind, "blocked")
    [] p.sense = "pass"      -> Concept(kind, "ambiguous")
    [] OTHER                 -> Concept(kind, "unresolved")

\* A quantity is complete when its dimension is no unit of measure and it has a number.
MeasuredValue(p) ==
  IF p.meas.dim \notin {"", "unit"} /\ p.meas.val # "" THEN p.meas ELSE NoValue

MeasuredEntity(p) == IF p.subject # NoMention THEN p.subject ELSE p.object

ResolveConcept(p, kind) == FirstOf(<<
  <<kind = "type",                           Concept(kind, "safe_partial")>>,
  <<kind = "attribute" /\ p.sense # "none",  BySense(p, kind)>>,
  <<kind = "attribute" /\ p.attr # NoValue,  Concept(kind, "resolved")>>,
  <<kind = "attribute",                      [Concept(kind, "unresolved") EXCEPT !.abstains = TRUE]>>,
  <<kind = "measurement" /\ MeasuredValue(p) # NoValue, Concept(kind, "resolved")>>,
  <<kind = "measurement",                    Concept(kind, "safe_partial")>>,
  <<p.alias = "blocked",                     Concept(kind, "blocked")>>,
  <<p.alias = "one",                         Concept(kind, "resolved")>>,
  <<p.alias = "tie",                         Concept(kind, "ambiguous")>>,
  <<p.sense # "none",                        BySense(p, kind)>>,
  <<kind = "relation" /\ Says(p, "relation")
      /\ p.subject # NoMention /\ p.object # NoMention, Concept(kind, "resolved")>>,  \* a learned key
  <<TRUE, [Concept(kind, "unresolved") EXCEPT !.abstains = p.alias = "gated"]>> >>)

-----------------------------------------------------------------------------
(* Whether a part of the proposal may be persisted, and if not what is     *)
(* missing: a set of reasons, empty when it may.                           *)

StructuredAttribute(p) ==
  \E k \in DOMAIN p.claims : /\ p.claims[k].kind = "attribute"
                             /\ p.claims[k].origin = "explicit"
                             /\ p.claims[k].val # ""

StateGaps(p, c) ==
  FirstOf(<< <<c.key, {}>>,
             <<Says(p, "state"), {"state_value_canonical_unresolved"}>>,
             <<TRUE, {"missing_state_value"}>> >>)

RelationGaps(p, c) ==
  LET endpoints == (IF p.object = NoMention THEN {"missing_relation_object"} ELSE {})
                   \cup (IF p.subject = NoMention THEN {"missing_relation_subject"} ELSE {})
  IN FirstOf(<< <<endpoints # {}, endpoints>>,
                <<c.key, {}>>,
                <<Says(p, "relation"), {"relation_type_canonical_unresolved"}>>,
                <<TRUE, {"missing_relation_identity"}>> >>)

EventGaps(p, c) ==
  LET anonymous == ~ Somebody(p) /\ p.context = NoMention
      nobody(reason) == IF anonymous THEN {reason, "missing_entity"} ELSE {reason}
  IN FirstOf(<< <<~ Occurred(p), nobody("event_occurrence_required")>>,
                <<c.key, {}>>,
                <<~ Somebody(p) /\ ~ Acts(p), nobody("event_semantic_anchor_required")>>,
                <<c.abstains, nobody("safe_abstention_without_anchor")>>,
                <<Somebody(p) /\ Acts(p), {"canonical_type_unresolved_safe_partial"}>>,
                <<TRUE, nobody("event_identity_incomplete")>> >>)

AttributeGaps(p, c) ==
  FirstOf(<< <<c.key \/ StructuredAttribute(p), {}>>,
             <<p.cutShort, {"missing_attribute_value"}>>,
             <<c.abstains \/ Says(p, "attribute"), {"unsupported_attribute_dimension"}>>,
             <<TRUE, {"missing_attribute_dimension"}>> >>)

MeasurementGaps(p) ==
  FirstOf(<< <<MeasuredValue(p) = NoValue,
               {"missing_measurement_dimension", "missing_measurement_value"}>>,
             <<MeasuredEntity(p) = NoMention, {"missing_entity"}>>,
             <<TRUE, {}>> >>)

\* assess_primitive_readiness: every part is judged by the concept of the primary one.
Gaps(p, c, kind) ==
  FirstOf(<< <<kind = "unknown", {"unknown_primitive"}>>,
             <<c.status \in {"blocked", "ambiguous"}, {"blocked_or_ambiguous"}>>,
             <<c.gap, {"ontology_gap"}>>,
             <<kind = "state",       StateGaps(p, c)>>,
             <<kind = "relation",    RelationGaps(p, c)>>,
             <<kind = "event",       EventGaps(p, c)>>,
             <<kind = "attribute",   AttributeGaps(p, c)>>,
             <<kind = "measurement", MeasurementGaps(p)>>,
             <<TRUE, {"classification_not_materializable"}>> >>)

\* Whether the primary part may be persisted.
Allowed(p, c) == Gaps(p, c, c.kind) = {}

PartStatus(p, c, kind) ==
  LET gaps == Gaps(p, c, kind)
  IN FirstOf(<< <<gaps = {}, "ready">>,
                <<"canonical_type_unresolved_safe_partial" \in gaps, "partial">>,
                <<"blocked_or_ambiguous" \in gaps, "rejected">>,
                <<kind = "type", "partial">>,
                <<TRUE, "incomplete">> >>)

\* assess_execution_readiness
Readiness(p, c) ==
  LET parts == {PartStatus(p, c, kind) : kind \in Assertions(p, c.kind)}
  IN FirstOf(<< <<"ready" \in parts /\ parts \cap {"partial", "incomplete"} = {}, "executable">>,
                <<"ready" \in parts, "partially_executable">>,
                <<parts = {"rejected"}, "invalid">>,
                <<TRUE, "incomplete">> >>)

-----------------------------------------------------------------------------
(* What is done about it.                                                  *)

\* _SLOT_FOR_REASON, in the order the questions are preferred.
Askable == << <<"missing_attribute_value",       "attribute_value">>,
              <<"missing_entity",                "measured_entity">>,
              <<"missing_measurement_dimension", "measurement_dimension">>,
              <<"missing_measurement_value",     "measurement_value">>,
              <<"missing_relation_object",       "relation_object">>,
              <<"missing_relation_subject",      "relation_subject">>,
              <<"missing_attribute_dimension",   "attribute_dimension">>,
              <<"missing_state_value",           "state_value">> >>

IncompleteGaps(p, c) ==
  UNION {Gaps(p, c, kind) : kind \in {x \in Assertions(p, c.kind) :
                                        PartStatus(p, c, x) = "incomplete"}}

\* _select_clarification: the slot to ask for, or "none".
Question(p, c) ==
  LET asks(a) == a[1] \in IncompleteGaps(p, c)
      k == SelectInSeq(Askable, asks)
  IN IF k = 0 THEN "none" ELSE Askable[k][2]

\* decide_capability: what an utterance comes to.  An unsupported part and an abstention are
\* answered alike.
Capability(p, c) == FirstOf(<<
  <<Readiness(p, c) = "invalid",              "invalid">>,
  <<Readiness(p, c) = "executable",           "execute">>,
  <<Readiness(p, c) = "partially_executable", "execute_part">>,
  <<Question(p, c) # "none",                  "clarify">>,
  <<TRUE,                                     "unsupported">> >>)

-----------------------------------------------------------------------------
(* The answer to a question.                                               *)

EntitySlots == {"measured_entity", "relation_subject", "relation_object"}

\* PendingSemanticOperation.is_supported: the slots an answer can fill.
AnswerableSlots == EntitySlots \cup {"measurement_dimension", "attribute_dimension", "state_value"}

\* What a wrong apply_clarification_evidence would do: fill both ends with the answer.
FilledAtBothEnds(p, slot, a) ==
  [p EXCEPT !.subject = [text |-> a.text, ref |-> "named"], !.object = [text |-> a.text, ref |-> "named"]]

\* apply_clarification_evidence: the answer fills the slot that was asked for.
Filled(p, slot, a) ==
  LET mention == [text |-> a.text, ref |-> "named"] IN
  CASE slot \in {"measured_entity", "relation_subject"} -> [p EXCEPT !.subject = mention]
    [] slot = "relation_object"       -> [p EXCEPT !.object = mention]
    [] slot = "measurement_dimension" -> [p EXCEPT !.meas.dim = a.text]
    [] slot = "attribute_dimension"   ->
         [p EXCEPT !.exprs = @ \cup {"attribute"},
                   !.attr = [dim |-> a.text, val |-> a.val]]
    [] slot = "state_value"           ->
         [p EXCEPT !.exprs = @ \cup {"state"}, !.state = a.text, !.alias = "one"]

\* evaluate_correction_acceptance
Guard(wording, prior) ==
  LET shows(w) == w \in wording
      told     == shows("meta") \/ shows("self_contained")
      strong   == told \/ (shows("perceptual") /\ prior)
  IN FirstOf(<<
    <<shows("question"),                                         "reject">>,
    <<~ strong /\ wording \cap {"termination", "repetition", "observation"} # {}, "reject">>,
    <<~ strong /\ shows("evolution") /\ ~ shows("weak"),         "reject">>,
    <<told,                                                      "accept">>,
    <<shows("perceptual") /\ ~ prior,                            "clarify">>,
    <<shows("perceptual"),                                       "accept">>,
    <<prior /\ shows("short"),                                   "accept">>,
    <<shows("weak") /\ prior /\ shows("pronoun"),                "clarify">>,
    <<shows("weak") /\ prior,                                    "accept">>,
    <<TRUE,                                                      "reject">> >>)

===============================================================================
