------------------------------- MODULE AnswerTurns -------------------------------
(***************************************************************************)
(* Turns of a user who tells and asks, all the way: the rows that are      *)
(* stored, the answer of the engine, the response of the product, the      *)
(* input of the presenter of jamesCore, and the reply, which is a text of  *)
(* the presenter's model, if one comes and is accepted, or the fallback.   *)
(***************************************************************************)
EXTENDS AnswerPresentation

CONSTANT Texts  \* what the presenter's model may return

VARIABLES
  turn,         \* what the engine made of the turn
  response,     \* how the product presents it
  reply         \* what the user reads, and by whom it is said

vars == <<rows, turn, response, reply>>

NoQuestion == Question(Nothing, Nothing, Nothing, Nothing, Nothing, Nothing, Undated)
NoTally    == [reported |-> FALSE, committed |-> 0, deferred |-> 0, rejected |-> 0]

Turn(kind, status) == [kind |-> kind, status |-> status, question |-> NoQuestion,
                       proposal |-> NoProposal, result |-> NoResult, tally |-> NoTally]

NoTurn     == Turn("none", Nothing)
NoResponse == Response("none", Nothing, Data(Nothing, Nothing), Text(Nothing, {}))
NoReply    == [by |-> "nobody", text |-> Text(Nothing, {})]

TypeOK ==
  /\ \A k \in DOMAIN rows : rows[k] \in RowType
  /\ reply.by \in {"nobody", "model", "fallback"}
  /\ turn.kind \in {"none", "query", "write", "refused", "failed"} /\ turn.tally \in Tallies
  /\ turn.proposal \in QueryProposals \cup {NoProposal}
  /\ response.type \in {"none", "answer", "acknowledgement", "clarification", "unsupported", "error"}
  /\ turn = NoTurn <=> response = NoResponse
  /\ turn = NoTurn => reply.by = "nobody"

Init == rows = <<>> /\ turn = NoTurn /\ response = NoResponse /\ reply = NoReply

\* What is told is stored between the questions.
TellTurn == turn = NoTurn /\ Tell /\ UNCHANGED <<turn, response, reply>>

Begin == turn = NoTurn /\ UNCHANGED <<rows, reply>>

\* AskApplicationService.ask
Ask(p, q) ==
  LET ask == Answered(q) IN
  /\ turn' = [Turn("query", ask.status) EXCEPT !.proposal = p, !.question = q,
                                               !.result = ask.result]
  /\ response' = PresentAsk(ask, {})

\* ...of a question the interpreter has put in canonical form itself.
AskTurn == Begin /\ \E q \in Questions : Ask(NoProposal, q)

\* ...and of a proposal, which may come to no question.
ProposedTurn ==
  /\ Begin
  /\ \E p \in QueryProposals :
       IF Resolved(p) THEN Ask(p, QuestionOf(p))
       ELSE turn' = Turn("refused", Nothing) /\ response' = PresentUninterpreted

\* ...of which no spec is built.
UnbuiltTurn ==
  /\ Begin
  /\ \E error \in BuildErrors :
       LET ask == NotBuilt(error) IN
       /\ turn' = Turn("query", ask.status)
       /\ response' = PresentAsk(ask, IF error = "entity.ambiguous" THEN Things ELSE {})

\* A write, as its claims were counted.
WriteTurn ==
  /\ Begin
  /\ \E tally \in Tallies :
       /\ turn' = [Turn("write", IngestStatus(tally)) EXCEPT !.tally = tally]
       /\ response' = PresentWrite(tally)

\* A write or a correction that is refused, and a turn that is not understood.
RefusedTurn ==
  /\ Begin
  /\ turn' = Turn("refused", Nothing)
  /\ response' \in {PresentRefusal(refusal) : refusal \in {"unclear", "correction", "write"}}
                   \cup {PresentUninterpreted}

\* The engine fails, or the core does not get an answer of it.
FailedTurn ==
  /\ Begin
  /\ turn' = Turn("failed", Nothing)
  /\ response' = MapFailure

-----------------------------------------------------------------------------
Input == PresenterInput(response)

Reply(by, text) ==
  /\ turn # NoTurn /\ reply.by = "nobody"
  /\ reply' = [by |-> by, text |-> text]
  /\ UNCHANGED <<rows, turn, response>>

\* ResponsePresenter.present: the model's text is taken if it is accepted.
ReplyByModel == \E text \in Texts : Accepts(text, Input) /\ Reply("model", text)

\* No provider, a timeout, an error, or a text that is not accepted.
ReplyByFallback == Reply("fallback", Fallback(Input, response.text))

NextTurn ==
  /\ reply.by # "nobody"
  /\ turn' = NoTurn /\ response' = NoResponse /\ reply' = NoReply
  /\ UNCHANGED rows

Next == \/ TellTurn \/ AskTurn \/ ProposedTurn \/ UnbuiltTurn \/ WriteTurn \/ RefusedTurn \/ FailedTurn
        \/ ReplyByModel \/ ReplyByFallback \/ NextTurn

Spec == Init /\ [][Next]_vars

-----------------------------------------------------------------------------
(* Properties.                                                             *)

Asked    == turn.kind = "query" /\ turn.question # NoQuestion
ByModel  == reply.by = "model"

\* Through projection, response, envelope and presenter's input, an absence is
\* what the engine did not find, and nothing that it found becomes one; and a
\* reply that is not the model's own says that something is not known only then.
AbsenceIsTheEngines ==
  turn # NoTurn =>
    /\ Input.status = "no_results" <=> turn.status = "no_results"
    /\ reply.by = "fallback" /\ reply.text.says = "unknown" => turn.status = "no_results"

\* In a text of the model that is accepted, what was not found is no no, a no is
\* not turned into not knowing, and a failure is called one.  The fallback keeps
\* these too, and says that it was stored only if nothing of it was put off and,
\* as far as it was counted, something was materialized; of a model's text
\* validate.py does not ask that: the prompt alone forbids it.
ReplyKeepsTheStatus ==
  /\ ByModel /\ turn.status = "no_results" =>
       /\ reply.text.says # {"no"} /\ "bare_no" \notin reply.text.says
       /\ {"unknown", "not_yet_known"} \cap reply.text.says # {}
  /\ ByModel /\ Asked /\ Input.relation = "no" =>
       reply.text.says \notin {{"unknown"}, {"not_yet_known"}}
  /\ ByModel /\ turn.kind = "failed" => "failure" \in reply.text.says
  /\ reply.by = "fallback" =>
       /\ reply.text.says = "failure" <=> turn.kind = "failed"
       /\ reply.text.says = "no" => Asked /\ turn.result.relation = "no"
       /\ turn.kind = "write" =>
            /\ reply.text.says = "stored" /\ turn.tally.reported =>
                 turn.tally.deferred = 0 /\ turn.tally.committed > 0
            /\ reply.text.says = "not_stored" =>
                 turn.tally.reported /\ turn.tally.committed = 0

\* A yes to the user rests on a row that says so, of all that the proposal
\* named, current where the question is about the present; and a no on a
\* relation that began after the time asked of.
YesAndNoAreBacked ==
  Asked =>
    LET q == turn.question
        p == turn.proposal
        ends == IF p.inverse THEN <<p.object, p.of>> ELSE <<p.of, p.object>>
        backing == {k \in DOMAIN rows :
                      /\ ends[1] \in {Nothing, rows[k].of} /\ ends[2] \in {Nothing, rows[k].value}
                      /\ p.value \in {Nothing, rows[k].value}
                      /\ p.class \in {Nothing, KindOf(rows[k].value)}
                      /\ q.dim = rows[k].dim /\ q.value \in {Nothing, rows[k].value}
                      /\ q.thing \in {Nothing, rows[k].value}
                      /\ q.class = Nothing \/ q.class = KindOf(rows[k].value)
                      /\ q.ask \in {"holds", "is", "list"} => rows[k].current}
    IN /\ Input.relation = "yes" => backing # {}
       /\ Input.relation = "no" => \E k \in backing : q.at < rows[k].date

\* What is given as the one value of something, with one value at a time, is
\* what was told last.
LastToldIsCurrent ==
  Asked /\ turn.question.ask \in {"value", "state"} /\ Input.value # Nothing
  /\ turn.question.dim \in Singleton \cup {"state"} =>
    LET q == turn.question
        told == {k \in DOMAIN rows : rows[k].dim = q.dim /\ rows[k].of = q.of /\ rows[k].current}
    IN Input.value = rows[CHOOSE k \in told : \A j \in told : j <= k].value
===============================================================================
