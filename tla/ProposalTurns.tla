----------------------------- MODULE ProposalTurns -----------------------------
(***************************************************************************)
(* A user's turns, each with what the language model proposes of it: the   *)
(* proposal is refused, asked about, declined, blocked or stored, or it    *)
(* corrects what was stored before; an answer completes the utterance it   *)
(* was asked about.  How a mention is resolved among the things the user   *)
(* knows is the business of EntityTurns: here a text names one thing.      *)
(***************************************************************************)
EXTENDS ProposalWire

CONSTANTS
  Utterances,   \* the proposals of the utterances the user may say
  AnswersGiven, \* what the user may answer: [text, val, names, ambiguous]
  Namesakes,    \* texts that name more than one thing
  Vehicles,     \* texts that name a vehicle
  Singleton,    \* dimensions with one current value
  MaxTurns

ASSUME UtterancesAssumption == Utterances \subseteq Proposal

ASSUME AnswersAssumption ==
  AnswersGiven \subseteq [text : STRING \ {""}, val : STRING, names : SUBSET STRING,
                         ambiguous : BOOLEAN]

ASSUME VehiclesAssumption == "" \notin Vehicles

VARIABLES
  rows,       \* the knowledge stored, in order
  focus,      \* the thing talked about last, or ""
  pending,    \* the question that is open: [slot, of, rounds, status], of a reading
  heard,      \* the last turn: [of, status, wrote, answering], of a reading
  turns

proposalVars == <<rows, focus, pending, heard, turns>>

-----------------------------------------------------------------------------
(* Interpretation, which knows nothing of what is stored.                  *)

\* proposal_to_canonical_ir: what is settled of an utterance, c being its primary concept.
Read(p, c) ==
  [said |-> p, actionable |-> Actionable(p, c.kind), corrects |-> IsCorrection(p),
   kinds |-> Assertions(p, c.kind), capability |-> Capability(p, c), question |-> Question(p, c),
   executes |-> Executes(p, c), breaks |-> Breaks(p, c), wire |-> Wire(p, c)]

Reading(p) == Read(p, ResolveConcept(p, Route(p)))

Silence == [said |-> Unsaid, kinds |-> {}, corrects |-> FALSE]

Readings == {Reading(p) : p \in Utterances}

NoQuestion == [slot |-> "none", of |-> Silence, rounds |-> 0, status |-> "none"]

ProposalInit ==
  /\ rows = <<>> /\ focus = "" /\ pending = NoQuestion /\ turns = 0
  /\ heard = [of |-> Silence, status |-> "none", wrote |-> {}, answering |-> FALSE]

-----------------------------------------------------------------------------
(* Binding and validation.                                                 *)

\* The thing a mention stands for, or "": a class stands for none.
Thing(m) == CASE m.ref \in {"class", "none"} -> ""
              [] m.ref = "contextual"        -> focus
              [] OTHER                       -> m.text

\* KnowledgeValidator._entities
Bound(w) == \A m \in w.mentions : /\ m.text \notin Namesakes
                                  /\ m.ref = "contextual" => focus # ""

\* _times and KnowledgeValidator._time: only these kinds need a time that can be placed.
Timed(w) == \E k \in DOMAIN w.facts : w.facts[k].kind \in {"event", "state", "relation"}

Verdict(s) ==
  FirstOf(<< <<Timed(s.wire) /\ s.said.time = "insufficient", "clarify">>,
             <<Timed(s.wire) /\ s.said.time \in {"bad", "vague"}, "rejected">>,
             <<~ Bound(s.wire), "rejected">>,
             <<TRUE, "persistable">> >>)

-----------------------------------------------------------------------------
(* Materialization.  m.ids are the rows that were written, one for each    *)
(* write; m.denied says that the unit of work is rolled back.              *)

Same(r, kind, of, dim) == r.kind = kind /\ r.of = of /\ r.dim = dim

Added(m, f, of, to) ==
  [m EXCEPT !.rows = Append(@, [kind |-> f.kind, of |-> of, to |-> to, dim |-> f.dim,
                                val |-> f.val, turn |-> turns + 1,
                                current |-> TRUE, effective |-> TRUE]),
            !.ids = Append(@, Len(m.rows) + 1)]

Changed(m, k, current) ==
  [m EXCEPT !.rows[k].current = current, !.ids = Append(@, k)]

\* The old value of the same thing is closed.
Closing(m, f, of) ==
  [m EXCEPT !.rows = [k \in DOMAIN @ |->
     IF Same(@[k], f.kind, of, f.dim) THEN [@[k] EXCEPT !.current = FALSE] ELSE @[k]]]

\* find_instance, the newest first
Instance(m, dim, of, to, current) ==
  LET found == {k \in DOMAIN m.rows : Same(m.rows[k], "relation", of, dim)
                                      /\ m.rows[k].to = to
                                      /\ (current => m.rows[k].current)}
  IN IF found = {} THEN 0 ELSE CHOOSE k \in found : \A j \in found : j <= k

\* _relation_record
WriteRelation(m, f, of, to) ==
  LET now == Instance(m, f.dim, of, to, TRUE)
      any == IF now # 0 THEN now ELSE Instance(m, f.dim, of, to, FALSE)
      old == IF f.mode = "terminate" THEN any ELSE now
  IN IF of = "" \/ to = "" THEN [m EXCEPT !.denied = TRUE]
     ELSE IF f.mode = "assert" /\ now = 0 THEN Added(m, f, of, to)
     ELSE IF old # 0 THEN Changed(m, old, f.mode = "assert") ELSE m

\* _subject_id: the first thing of the sentence, which need not be the one the fact is about.
FirstThing(p, w) ==
  LET said == p.others \o <<p.subject, p.object>>
      things == {k \in DOMAIN said : said[k] \in w.mentions /\ Thing(said[k]) # ""}
  IN IF things = {} THEN ""
     ELSE Thing(said[CHOOSE k \in things : \A j \in things : k <= j])

Write(m, f, p, w) ==
  LET of == IF f.of \in w.mentions THEN Thing(f.of) ELSE ""
      to == Thing(f.to)
      holder == IF f.kind # "state" /\ of # "" THEN of ELSE FirstThing(p, w)
      event  == \E k \in DOMAIN w.facts : w.facts[k].kind = "event"
      placed == of # "" /\ (f.to = NoMention \/ to # "" \/ event)
  IN IF f.kind = "event" THEN Added(m, f, of, "")
     ELSE IF f.kind = "relation" THEN WriteRelation(m, f, of, to)
     ELSE IF f.kind = "measurement" /\ placed THEN Added(m, f, of, to)
     ELSE IF f.kind = "measurement" THEN (IF event THEN m ELSE [m EXCEPT !.denied = TRUE])
     ELSE IF f.dim = "name" /\ of \notin {"", "self"} THEN m     \* a name is no attribute
     ELSE IF holder = "" THEN [m EXCEPT !.denied = TRUE]
     ELSE IF f.kind = "state" \/ f.dim \in Singleton
          THEN Added(Closing(m, f, holder), f, holder, "")
     ELSE Added(m, f, holder, "")

\* _ensure_principal_ownership: what is called one's own, and any vehicle, is owned.
Own(m, w) ==
  LET told == {Thing(x) : x \in {y \in w.mentions :
                 /\ y.ref = "possessive" \/ Thing(y) \in Vehicles
                 /\ \E k \in DOMAIN w.facts :
                      \/ w.facts[k].kind = "attribute" /\ w.facts[k].of = y
                      \/ w.facts[k].kind = "relation" /\ w.facts[k].to = y}}
      new  == SetToSeq({x \in told \ {"self"} : Instance(m, "owns", "self", x, TRUE) = 0})
      row(x) == [kind |-> "relation", of |-> "self", to |-> x, dim |-> "owns", val |-> "",
                 turn |-> turns + 1, current |-> TRUE, effective |-> TRUE]
  IN [m EXCEPT !.rows = @ \o [k \in DOMAIN new |-> row(new[k])],
               !.ids  = @ \o [k \in DOMAIN new |-> Len(m.rows) + k]]

\* The facts are written one after the other.
Materialized(p, w) ==
  LET after[k \in 0 .. Len(w.facts)] ==
        IF k = 0 THEN [rows |-> rows, ids |-> <<>>, denied |-> FALSE]
        ELSE Write(after[k - 1], w.facts[k], p, w)
  IN Own(after[Len(w.facts)], w)

\* What a wrong status would be: that of the rows that were written.
StatusOfWrites(w, m) == IF w.report.received = 0 \/ m.ids # <<>> THEN "committed" ELSE "unsupported"

\* _claim_tally and ingest_status_from_tally
Status(w, m) ==
  LET known     == {r.of : r \in Range(rows)} \cup {r.to : r \in Range(rows)}
      created   == {Thing(x) : x \in w.mentions} \ (known \cup {"", "self"})
      committed == Len(m.ids) + w.report.bound + (IF w.facts = <<>> THEN Cardinality(created) ELSE 0)
  IN FirstOf(<< <<w.report.received = 0, "committed">>,
                <<committed > 0 /\ w.report.deferred = 0, "committed">>,
                <<committed > 0, "partial">>,
                <<w.report.deferred > 0, "deferred">>,
                <<TRUE, "unsupported">> >>)

\* ingest_from_ir: what a proposal that executes comes to.
Ingested(s) ==
  LET m == Materialized(s.said, s.wire)  refused == [rows |-> rows, ids |-> <<>>]
  IN IF Verdict(s) # "persistable" THEN [status |-> Verdict(s), to |-> refused]
     ELSE IF m.denied THEN [status |-> "rejected", to |-> refused]
     ELSE [status |-> Status(s.wire, m), to |-> [rows |-> m.rows, ids |-> m.ids]]

\* The thing talked about is the first the turn wrote of.
FocusAfter(r) ==
  IF r.to.ids = <<>> \/ r.to.rows[r.to.ids[1]].of = "" THEN focus ELSE r.to.rows[r.to.ids[1]].of

-----------------------------------------------------------------------------
(* A turn.                                                                 *)

Turn(s, status) ==
  /\ turns' = turns + 1
  /\ heard' = [of |-> s, status |-> status, wrote |-> {}, answering |-> FALSE]

Stored(s, r, answering) ==
  /\ turns' = turns + 1
  /\ rows' = r.to.rows /\ focus' = FocusAfter(r)
  /\ heard' = [of |-> s, status |-> r.status, wrote |-> Range(r.to.ids), answering |-> answering]

\* The session's recent utterances are those of earlier turns.
Prior == turns > 0

Accepted(s) == s.actionable /\ (s.corrects => Guard(s.said.wording, Prior) = "accept")

Refuse(s) == /\ turns < MaxTurns /\ ~ Accepted(s)
             /\ Turn(s, "rejected")
             /\ UNCHANGED <<rows, focus, pending>>

\* ingest_result_from_interpretation_error
AskBack(s) ==
  /\ turns < MaxTurns /\ Accepted(s) /\ ~ s.executes /\ s.capability = "clarify"
  /\ Turn(s, "clarify")
  /\ pending' = [slot |-> s.question, of |-> s, rounds |-> 0, status |-> "pending"]
  /\ UNCHANGED <<rows, focus>>

Decline(s) ==
  /\ turns < MaxTurns /\ Accepted(s) /\ ~ s.executes /\ s.capability # "clarify"
  /\ Turn(s, IF s.capability = "unsupported" THEN "unsupported" ELSE "rejected")
  /\ UNCHANGED <<rows, focus, pending>>

\* The exception is caught by nobody in the engine, and nothing was opened yet.
Break(s) ==
  /\ turns < MaxTurns /\ Accepted(s) /\ s.breaks
  /\ Turn(s, "failed")
  /\ UNCHANGED <<rows, focus, pending>>

Tell(s) ==
  /\ turns < MaxTurns /\ Accepted(s) /\ ~ s.corrects /\ s.executes /\ ~ s.breaks
  /\ Stored(s, Ingested(s), FALSE)
  /\ UNCHANGED pending

-----------------------------------------------------------------------------
(* Corrections.                                                            *)

\* CorrectionTargetResolver._matches
Matches(r, d) ==
  /\ r.kind = d.kind
  /\ d.of # "" => d.of \in {r.of} \cup (IF r.kind = "relation" THEN {r.to} ELSE {})
  /\ d.to # "" => r.kind = "relation" /\ r.to = d.to
  /\ d.dim # "" => r.dim = d.dim
  /\ d.val # "" => r.val \in {"", d.val}

\* _collect_candidates goes through the things: a relation is found at both of its ends.
Found(k) == IF rows[k].kind = "relation" /\ rows[k].of # rows[k].to THEN 2 ELSE 1

Candidates(d) == {k \in DOMAIN rows : rows[k].effective /\ Matches(rows[k], d)}

\* What a wrong choice would be: the newest of several candidates.
NewestTarget(d) == IF Candidates(d) = {} THEN 0
                   ELSE CHOOSE k \in Candidates(d) : \A j \in Candidates(d) : j <= k

\* The row a correction is of, or 0.
Target(d) ==
  IF d.row # 0 THEN (IF d.row \in DOMAIN rows /\ d.kind # "" /\ rows[d.row].effective
                        /\ rows[d.row].kind = d.kind THEN d.row ELSE 0)
  ELSE IF \E k \in Candidates(d) : Candidates(d) = {k} /\ Found(k) = 1
       THEN CHOOSE k \in Candidates(d) : TRUE
       ELSE 0

Corrects(s, op) == turns < MaxTurns /\ Accepted(s) /\ s.corrects /\ s.wire.op = op

Replaceable(s) == s.wire.facts # <<>> /\ Verdict(s) = "persistable"

Miss(s) ==
  /\ Corrects(s, s.wire.op)
  /\ Target(s.wire.target) = 0 \/ (s.wire.op = "replace" /\ ~ Replaceable(s))
  /\ Turn(s, "clarify")
  /\ UNCHANGED <<rows, focus, pending>>

Retract(s) ==
  LET k == Target(s.wire.target) IN
  /\ Corrects(s, "retract") /\ k # 0
  /\ Turn(s, "committed")
  /\ rows' = [rows EXCEPT ![k].effective = FALSE]
  /\ UNCHANGED <<focus, pending>>

\* _replacement_ref_from_mat: of several rows that were written, the last one of the kind that
\* was told, or the last one, is what the target is replaced by.
Replacing(m, kind) ==
  LET told == {i \in DOMAIN m.ids : m.rows[m.ids[i]].kind = kind}
      last == CHOOSE i \in told : \A j \in told : j <= i
  IN m.ids[IF told = {} THEN Len(m.ids) ELSE last]

\* The replacement is written, and then the target corrected, in one unit of work; when nothing
\* was written, or a row is its own replacement, nothing of it stays.
Replaced(m, kind, k) == IF m.denied THEN "failed" ELSE IF m.ids = <<>> THEN "clarify"
                        ELSE IF Replacing(m, kind) = k THEN "rejected" ELSE "committed"

Replace(s) ==
  LET m == Materialized(s.said, s.wire)  k == Target(s.wire.target)
      status == Replaced(m, s.wire.facts[1].kind, k) IN
  /\ Corrects(s, "replace") /\ k # 0 /\ Replaceable(s)
  /\ IF status = "committed"
     THEN Stored(s, [status |-> "committed",
                     to |-> [rows |-> [m.rows EXCEPT ![k].effective = FALSE], ids |-> m.ids]],
                 FALSE)
     ELSE Turn(s, status) /\ UNCHANGED <<rows, focus>>
  /\ UNCHANGED pending

-----------------------------------------------------------------------------
(* Answers: ClarificationRecoveryService.recover.                          *)

Round(status) == [pending EXCEPT !.rounds = @ + 1, !.status = status]

\* A dimension that was said, were it a unit of measure, counts as given already.
Open == /\ turns < MaxTurns
        /\ pending.status = "pending" /\ pending.rounds = 0 /\ pending.slot \in AnswerableSlots
        /\ pending.slot = "measurement_dimension" => pending.of.said.meas.dim = ""

\* An answer that names nothing, or several things, is not counted; one that is no value of
\* the slot uses the only round up.
Unhelpful(a) ==
  /\ Open
  /\ pending.slot \notin a.names \/ a.ambiguous
  /\ Turn(pending.of, "clarify")
  /\ pending' = IF pending.slot \in EntitySlots THEN pending ELSE Round("failed")
  /\ UNCHANGED <<rows, focus>>

\* _finalize: the filled utterance may not say anything of a kind it did not say before.
Coherent(s) == s.kinds \subseteq pending.of.kinds

Unlocked(s) == Coherent(s) /\ s.capability \in {"execute", "execute_part"} /\ s.executes /\ ~ s.corrects

Completed(s) ==
  IF Unlocked(s) /\ s.breaks
  THEN Turn(s, "failed") /\ UNCHANGED <<rows, focus, pending>>
  ELSE IF Unlocked(s)
  THEN /\ Stored(s, Ingested(s), TRUE)
       /\ pending' = Round(IF heard'.status = "committed" THEN "resolved" ELSE "failed")
  ELSE
     /\ Turn(s, "clarify")
     /\ pending' = IF Coherent(s) THEN Round("failed") ELSE pending
     /\ UNCHANGED <<rows, focus>>

Answer(a) == /\ Open /\ pending.slot \in a.names /\ ~ a.ambiguous
             /\ \E s \in {Reading(Filled(pending.of.said, pending.slot, a))} : Completed(s)

ProposalNext ==
  \/ \E s \in Readings : \/ Refuse(s) \/ AskBack(s) \/ Decline(s) \/ Break(s) \/ Tell(s)
                          \/ Miss(s) \/ Retract(s) \/ Replace(s)
  \/ \E a \in AnswersGiven : Unhelpful(a) \/ Answer(a)

ProposalSpec == ProposalInit /\ [][ProposalNext]_proposalVars

-----------------------------------------------------------------------------
(* Properties.                                                             *)

\* What the user mentioned, in the utterance or in its explicit claims.
SaidMentions(p) ==
  Mentions(p) \cup UNION {{p.claims[k].subject, p.claims[k].object} : k \in Explicit(p)}

\* x may be what the mention stands for: a pronoun stands for the thing talked about, and what
\* is told of a class may come to rest on a thing.
MayBe(p, m, x) == \E n \in SaidMentions(p) \cup {Self} :
                    n.text = m.text /\ (n.ref \in {"contextual", "class"} \/ n.text = x)

\* What the utterance says beside a claim: the claims before it, its attributes, its quantity.
Besides(p, k) ==
  {ClaimFact(p, p.claims[j]) : j \in {i \in Explicit(p) : i < k}}
  \cup {Fact("attribute", p.subject, NoMention, v.dim, v.val, "assert") : v \in {p.attr} \cup Range(p.beside)}
  \cup {Fact("measurement", MeasuredEntity(p), NoMention, p.meas.dim, p.meas.val, "assert")}

\* A row was written of what the claim f is about, with its value or one that was told before it.
Wrote(p, k, f) ==
  \E r \in {rows[i] : i \in heard.wrote} :
    /\ r.kind = f.kind /\ r.dim = f.dim /\ MayBe(p, f.of, r.of)
    /\ IF f.kind = "relation" THEN MayBe(p, f.to, r.to)
       ELSE r.val \in {f.val} \cup {g.val : g \in {h \in Besides(p, k) : Repeats(<<h>>, f)}}

\* The user is told "committed" only when every explicit claim the overlay supports was written
\* in that turn, of the thing it is about; one that gives the same thing another value than an
\* earlier claim, the utterance's attributes or its quantity may have left that value instead.
\* The code drops without a word a relation that the utterance itself ends or denies, and the
\* quantity of a class told with an event.  The tally of claims (claims.py) and the status drawn
\* from it (results.py) are computed apart from the writes they count.
KeptOrTold ==
  LET p == heard.of.said
      undone(f)  == /\ p.life \in {"end", "deny"}
                    /\ Repeats(<<Fact("relation", p.subject, p.object, p.rel, "", "assert")>>, f)
      classOf(f) == /\ f.kind = "measurement" /\ "event" \in heard.of.kinds
                    /\ \E m \in SaidMentions(p) : m.text = f.of.text /\ m.ref = "class"
  IN heard.status = "committed" /\ ~ heard.of.corrects =>
       \A k \in Explicit(p) :
         LET f == ClaimFact(p, p.claims[k]) IN
         f.kind \in {"attribute", "measurement", "relation"} /\ f.dim # "name"
           /\ ~ undone(f) /\ ~ classOf(f) => Wrote(p, k, f)

\* The ownership of a thing the utterance calls one's own, or of a vehicle it is about.
Owning(p, r) == r.dim = "owns" /\ r.of = "self"
                /\ \E m \in SaidMentions(p) :
                     \/ m.ref = "possessive" /\ m.text = r.to
                     \/ r.to \in Vehicles /\ (m.ref = "contextual" \/ m.text = r.to)

\* Nothing is stored that the user did not say: a row written in a turn is the primary fact of
\* the utterance (an event that occurred, or that a correction was taken for), an attribute
\* resolved beside it, a quantity in it, an explicit claim, or the ownership of a vehicle or a
\* thing called one's own; and what it is about was mentioned.  Assumed and derived claims leave
\* no row.
OnlyWhatWasSaid ==
  LET p == heard.of.said
      primary(r) == \/ r.kind = "event" /\ (Occurred(p) \/ (heard.of.corrects /\ Route(p) = "event"))
                    \/ r.kind = "state" /\ r.val = p.state
                    \/ r.kind = "relation" /\ r.dim = p.rel
                    \/ r.kind = "attribute"
                       /\ [dim |-> r.dim, val |-> r.val] \in {p.attr} \cup Range(p.beside)
                    \/ r.kind = "measurement" /\ [dim |-> r.dim, val |-> r.val] = p.meas
      claimed(r) == \E k \in Explicit(p) : /\ p.claims[k].kind = r.kind /\ p.claims[k].dim = r.dim
                                           /\ (r.kind = "relation" \/ p.claims[k].val = r.val)
      known(x)   == x \in {"", "self"} \/ \E m \in SaidMentions(p) : m.ref = "contextual" \/ m.text = x
  IN \A k \in heard.wrote : /\ (primary(rows[k]) \/ claimed(rows[k]) \/ Owning(p, rows[k]))
                             /\ known(rows[k].of) /\ known(rows[k].to)

\* A row stops being effective only by an accepted correction whose description fits it and no
\* other effective row, unless the correction names the row; never by a question, nor by words
\* of an ending, a repetition or a new observation alone; and what is put in its place is
\* another row, which is effective then unless it is an older one, retired before, that was
\* told again (correction_guard.py, correction_target.py, correction_ingest.py and the reuse of
\* relations in materializer.py).
CorrectionsAreAimed ==
  [][\A k \in DOMAIN rows :
       rows[k].effective /\ ~ rows'[k].effective =>
         LET d == heard'.of.wire.target  wording == heard'.of.said.wording IN
         /\ heard'.of.corrects /\ "question" \notin wording
         /\ wording \cap {"termination", "repetition", "observation"} # {} =>
              wording \cap {"meta", "self_contained", "perceptual"} # {}
         /\ heard'.of.wire.op = "replace" =>
              \E j \in heard'.wrote \ {k} :
                rows'[j].effective \/ (j \in DOMAIN rows /\ ~ rows[j].effective)
         /\ (d.row = k \/ \A j \in DOMAIN rows : rows[j].effective /\ Matches(rows[j], d) => j = k)]_proposalVars

\* An answer completes the utterance that was asked about and changes nothing else of it: what
\* is then stored, the slot apart, is what the user said before the question, or owns by it or,
\* when a vehicle completes it, by the answer; and an answer that names a thing never takes the
\* place of one that was mentioned (apply_clarification_evidence and _finalize,
\* clarification_recovery.py).
AnswerKeepsTheRest ==
  LET p == pending.of.said  s == pending.slot
      \* x is the mention's thing or, where none was mentioned, the answer may name it.
      about(m, x) == \/ m.ref = "contextual" \/ m.text = x
                     \/ m = NoMention /\ s \in EntitySlots
      primary(r) ==
        CASE r.kind = "measurement" ->
               /\ r.val = p.meas.val
               /\ s = "measurement_dimension" \/ r.dim = p.meas.dim
               /\ about(p.subject, r.of) \/ (p.subject = NoMention /\ about(p.object, r.of))
          [] r.kind = "relation" ->
               /\ "relation" \in pending.of.kinds /\ r.dim = p.rel
               /\ about(p.object, r.to) /\ about(p.subject, r.of)
          [] r.kind = "state"     -> "state" \in pending.of.kinds
                                     /\ (s = "state_value" \/ r.val = p.state)
          [] r.kind = "attribute" -> "attribute" \in pending.of.kinds
                                     /\ \/ s = "attribute_dimension"
                                        \/ [dim |-> r.dim, val |-> r.val] \in {p.attr} \cup Range(p.beside)
          [] OTHER                -> "event" \in pending.of.kinds
      owning(r) == r.kind = "relation" /\ r.dim = "owns" /\ r.of = "self" /\ r.to \in Vehicles
                   /\ (about(p.subject, r.to) \/ about(p.object, r.to))
  IN heard.answering =>
       \A k \in heard.wrote : primary(rows[k]) \/ Owning(p, rows[k]) \/ owning(rows[k])

===============================================================================
