----------------------------- MODULE ProposalWire ------------------------------
(***************************************************************************)
(* From a proposal to the facts that are written.  The primary part gives  *)
(* at most one fact, the attributes resolved beside an attribute, and a    *)
(* quantity; then the claims of the proposal are laid over it, one by one, *)
(* and what the user owns is added.  A fact is told about the thing "of",  *)
(* and has what its kind needs of: a dimension, a value, the other thing   *)
(* "to", and a mode.                                                       *)
(***************************************************************************)
EXTENDS Proposals

Fact(kind, of, to, dim, val, mode) ==
  [kind |-> kind, of |-> of, to |-> to, dim |-> dim, val |-> val, mode |-> mode]

Self == [text |-> "self", ref |-> "self"]

Mentions(p) == ({p.subject, p.object, p.context} \cup Range(p.others)) \ {NoMention}

NoReport == [received |-> 0, assumed |-> 0, deferred |-> 0, bound |-> 0]

NoWire == [facts |-> <<>>, mentions |-> {}, report |-> NoReport, op |-> "none", target |-> NoTarget]

-----------------------------------------------------------------------------
(* The primary part.                                                       *)

\* _measurement_wire
MeasurementFacts(p) ==
  IF MeasuredValue(p) = NoValue \/ MeasuredEntity(p) = NoMention THEN <<>>
  ELSE <<Fact("measurement", MeasuredEntity(p), p.context, p.meas.dim, p.meas.val, "assert")>>

RelationMode(p) == CASE p.life = "end"  -> "terminate"
                     [] p.life = "deny" -> "deny_current"
                     [] OTHER           -> "assert"

PrimaryFact(p, c, mode) ==
  CASE c.kind = "event"     -> Fact("event", MeasuredEntity(p), NoMention, "", "", "assert")
    [] c.kind = "state"     -> Fact("state", p.subject, NoMention, "", p.state, "assert")
    [] c.kind = "relation"  -> Fact("relation", p.subject, p.object, p.rel, "", mode)
    [] c.kind = "attribute" ->
         Fact("attribute", p.subject, NoMention, p.attr.dim, p.attr.val, "assert")

\* _primary_resolution_to_wire: whether there is a wire at all before the claims.
HasPrimary(p, c) ==
  CASE c.kind \in {"state", "relation"} -> Allowed(p, c)
    [] c.kind = "attribute"             -> Allowed(p, c) /\ c.key /\ p.subject # NoMention
    [] c.kind = "event"                 -> Allowed(p, c) \/ MeasurementFacts(p) # <<>>
    [] c.kind = "measurement"           -> MeasurementFacts(p) # <<>>
    [] OTHER                            -> FALSE

PrimaryFacts(p, c) ==
  IF c.kind = "measurement" \/ ~ HasPrimary(p, c) \/ ~ Allowed(p, c) THEN <<>>
  ELSE <<PrimaryFact(p, c, RelationMode(p))>>

\* _wire_attribute_from_concepts: what is resolved beside an attribute is of the same thing.
Companions(p) ==
  [k \in DOMAIN p.beside |->
     Fact("attribute", p.subject, NoMention, p.beside[k].dim, p.beside[k].val, "beside")]

BesideFacts(p, c) == IF c.kind = "attribute" /\ HasPrimary(p, c) THEN Companions(p) ELSE <<>>

-----------------------------------------------------------------------------
(* Claims.                                                                 *)

Explicit(p) == {k \in DOMAIN p.claims : p.claims[k].origin = "explicit"}

\* _is_value_only: it is the value of something and nothing is said of it.
ValueOnly(p, m) ==
  /\ m.ref \notin {"possessive", "self"}
  /\ \E k \in Explicit(p) : p.claims[k].kind \in {"attribute", "class", "intrinsic"}
                            /\ p.claims[k].val = m.text
  /\ \A k \in Explicit(p) : p.claims[k].subject.text # m.text
                            /\ (p.claims[k].kind = "relation" => p.claims[k].object.text # m.text)

\* identity_mentions: the mentions that stand for things to be stored.
IdentityMentions(p) ==
  IF Explicit(p) = {} THEN Mentions(p)
  ELSE LET named == {p.claims[k].subject : k \in Explicit(p)}
                    \cup {p.claims[k].object : k \in {j \in Explicit(p) :
                                                      p.claims[j].kind = "relation"}}
           owned == {m \in Mentions(p) : m.ref = "possessive"}
       IN {m \in (named \cup owned) \ {NoMention} : ~ ValueOnly(p, m)}

Owned(p) == {m \in IdentityMentions(p) : m.ref = "possessive"}

IsIdentity(p, m) == m.ref = "self" \/ \E x \in IdentityMentions(p) : x.text = m.text

FirstOwned(p) == IF Owned(p) = {} THEN NoMention ELSE CHOOSE m \in Owned(p) : TRUE

OrMention(m, other) == IF m # NoMention THEN m ELSE other

\* Who a claim is about when it does not say: the thing owned, then the subject or the object.
ClaimSubject(p, c) ==
  OrMention(c.subject,
            OrMention(IF c.kind = "relation" THEN NoMention ELSE FirstOwned(p), p.subject))

ClaimObject(p, c) == OrMention(c.object, OrMention(FirstOwned(p), p.object))

\* _attribute_from_claim, _relation_from_claim, _measurement_from_claim: whether a fact is built.
Buildable(p, c) ==
  /\ c.dim # "" /\ ClaimSubject(p, c) # NoMention
  /\ CASE c.kind = "relation" -> c.dim # "name" /\ ClaimObject(p, c) # NoMention
       [] OTHER               -> c.val # ""

ClaimFact(p, c) ==
  IF c.kind = "relation"
  THEN Fact("relation", ClaimSubject(p, c), ClaimObject(p, c), c.dim, "", "assert")
  ELSE Fact(c.kind, ClaimSubject(p, c), NoMention, c.dim, c.val, "assert")

\* _attr_dup, _meas_dup and _rel_dup: the value is not compared.
Repeats(facts, f) ==
  \E k \in DOMAIN facts : /\ facts[k].kind = f.kind /\ facts[k].dim = f.dim
                          /\ facts[k].of.text = f.of.text
                          /\ f.kind = "relation" => facts[k].to.text = f.to.text

HasAttribute(facts) ==
  \E k \in DOMAIN facts : facts[k].kind = "attribute" /\ facts[k].mode # "beside"

\* An attribute is compared with others only when the wire has one of its own; until then it
\* becomes that one, which is written before those beside it.
Overlaid(facts, f) ==
  IF ~ Repeats(facts, f) THEN Append(facts, f)
  ELSE IF f.kind = "attribute" /\ ~ HasAttribute(facts) THEN <<f>> \o facts
  ELSE facts

Deferred(w) == [w EXCEPT !.report.deferred = @ + 1]

\* What a wrong _apply_claim would do: not look at where a claim comes from.
ApplyOfAnyOrigin(p, w, c) ==
  IF c.kind \in {"attribute", "relation", "measurement"} /\ Buildable(p, c)
  THEN [w EXCEPT !.facts = Overlaid(@, ClaimFact(p, c)), !.mentions = @ \cup {ClaimSubject(p, c)}]
  ELSE w

\* _apply_claim
ApplyClaim(p, w, c) ==
  LET named == c.kind = "intrinsic" \/ (c.kind = "attribute" /\ Buildable(p, c))
      f     == ClaimFact(p, c)
  IN IF c.origin = "assumed" THEN [w EXCEPT !.report.assumed = @ + 1]
     ELSE IF c.origin = "derived" THEN Deferred(w)
     ELSE IF c.kind \in {"entity", "class"}
          THEN [w EXCEPT !.report.bound = @ + 1, !.mentions = @ \cup {c.subject}]
     ELSE IF c.kind \in {"state", "event"} THEN w
     ELSE IF named /\ c.dim = "name" THEN [w EXCEPT !.mentions = @ \cup {ClaimSubject(p, c)}]
     ELSE IF c.kind = "intrinsic" \/ ~ Buildable(p, c) THEN Deferred(w)
     ELSE [w EXCEPT !.facts = Overlaid(@, f), !.mentions = @ \cup ({f.of, f.to} \ {NoMention})]

\* _apply_claim for one claim after the other
Applied(p, bare) ==
  LET after[k \in 0 .. Len(p.claims)] ==
        IF k = 0 THEN bare ELSE ApplyClaim(p, after[k - 1], p.claims[k])
  IN after[Len(p.claims)]

Owns(m) == Fact("relation", Self, m, "owns", "", "assert")

\* _ensure_possessive_owns
WithOwned(p, w) ==
  LET untold == {m \in Owned(p) : ~ Repeats(w.facts, Owns(m))}
  IN [w EXCEPT !.facts = @ \o SetToSeq({Owns(m) : m \in untold}),
               !.mentions = @ \cup UNION {{Self, m} : m \in Owned(p)}]

\* With claims, a primary relation to what is no thing and an attribute of what is no thing
\* are dropped; what was resolved beside an attribute is not.
Stands(p, f) == \/ p.claims = <<>>
                \/ f.kind = "relation"  /\ IsIdentity(p, f.to)
                \/ f.kind = "attribute" /\ IsIdentity(p, f.of)
                \/ f.kind \notin {"relation", "attribute"}

BareFacts(p, c) ==
  (IF \E f \in Range(PrimaryFacts(p, c)) : ~ Stands(p, f) THEN <<>> ELSE PrimaryFacts(p, c))
  \o BesideFacts(p, c)
  \o (IF HasPrimary(p, c) \/ p.claims # <<>> THEN MeasurementFacts(p) ELSE <<>>)

\* collect_mentions: the subject of the attributes beside another is bound with that one only.
WithSubjects(w) ==
  IF HasAttribute(w.facts)
  THEN [w EXCEPT !.mentions = @ \cup {f.of : f \in {g \in Range(w.facts) : g.mode = "beside"}}]
  ELSE w

\* overlay_semantic_claims on the primary wire
Overlay(p, c) ==
  LET facts == BareFacts(p, c)
      ends  == UNION {{f.of, f.to} : f \in {g \in Range(facts) : g.mode # "beside"}}
      said  == IdentityMentions(p) \cup ends
  IN WithSubjects(WithOwned(p, Applied(p,
       [NoWire EXCEPT !.facts = facts, !.mentions = said \ {NoMention},
                      !.report.received = Len(p.claims)])))

-----------------------------------------------------------------------------
(* Corrections.                                                            *)

Operation(p) ==
  FirstOf(<< <<p.op # "none", p.op>>,
             <<p.exprs \ {"action"} # {} \/ p.cues \cap {"measure", "stable", "condition"} # {},
               "replace">>,
             <<TRUE, "retract">> >>)

\* A pronoun, a possessive or a class names no stored thing.
NameOf(m) == IF m.ref \in {"contextual", "possessive", "class"} THEN "" ELSE m.text

FirstSaid(a, b) == IF a # "" THEN a ELSE b

TargetOf(p, c) ==
  LET resolved(x, kind) == IF c.key /\ c.kind = kind THEN x ELSE ""
  IN [kind |-> FirstSaid(p.target.kind, IF c.kind \in Kinds THEN c.kind ELSE ""),
      of   |-> FirstSaid(p.target.of, NameOf(p.subject)),
      to   |-> FirstSaid(p.target.to, NameOf(p.object)),
      dim  |-> FirstSaid(p.target.dim, FirstSaid(resolved(p.attr.dim, "attribute"),
                 FirstSaid(p.meas.dim, resolved(p.rel, "relation")))),
      val  |-> FirstSaid(p.target.val, resolved(p.state, "state")),
      row  |-> p.target.row]

\* What replaces the target: of the target's kind, or of the first that is complete.
Replacement(p, c, target) ==
  LET concept(kind) == c.key /\ c.kind = kind /\ p.subject # NoMention
      ready(kind) == CASE kind = "measurement" -> MeasurementFacts(p) # <<>>
                       [] kind = "relation"    -> concept(kind) /\ p.object # NoMention
                       [] kind = "event"       -> c.key /\ c.kind = kind
                       [] OTHER                -> concept(kind)
      order  == <<"measurement", "attribute", "state", "relation", "event">>
      first  == SelectInSeq(order, ready)
      chosen == IF target.kind # "" THEN target.kind ELSE IF first = 0 THEN "" ELSE order[first]
  IN IF Operation(p) # "replace" \/ chosen = "" \/ ~ ready(chosen) THEN <<>>
     ELSE IF chosen = "measurement" THEN MeasurementFacts(p)
     ELSE <<PrimaryFact(p, c, "assert")>>
          \o (IF chosen = "attribute" THEN Companions(p) ELSE <<>>)

CorrectionWire(p, c) ==
  LET target == TargetOf(p, c)
  IN [NoWire EXCEPT !.facts = Replacement(p, c, target), !.mentions = Mentions(p),
                    !.op = Operation(p), !.target = target]

\* resolution_to_wire_ingest: nothing comes of a proposal with no primary part and no claims.
Executes(p, c) == IsCorrection(p) \/ HasPrimary(p, c) \/ p.claims # <<>>

\* A quantity beside what is no event and no measurement: overlay_semantic_claims takes its
\* subject, which is a mention of the wire by then, for one of the proposal, and raises.
Breaks(p, c) == /\ ~ IsCorrection(p) /\ c.kind \notin {"event", "measurement"}
                /\ Executes(p, c) /\ MeasurementFacts(p) # <<>>

Wire(p, c) == IF IsCorrection(p) THEN CorrectionWire(p, c) ELSE Overlay(p, c)

===============================================================================
