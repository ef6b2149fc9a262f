# James: a verification project

James is a personal assistant that keeps what a user tells it. `core/` (jamesCore) speaks to
the user and holds the conversation; `pke/` (Personal Knowledge Engine) interprets each
sentence, stores it as assertions in SQLite, and answers questions from them. Both are FastAPI
services with synchronous handlers, so each request runs on a thread of a pool. This directory
holds TLA+ models of the parts of both where order, overlap and failure decide whether the
program is right, TLC configurations that check them, and proofs about those at its core.

Paths below are relative to `src/`; `P/` stands for `pke/src/pke/` and `C/` for
`core/src/jamescore/`.

## 1. The system

| Component | State it keeps | Operations | Works with |
|---|---|---|---|
| Product turns, `P/product/conversation/orchestrator.py` | none of its own; the product database | `send_message`, `answer_clarification` | recovery, store, gateway |
| Product recovery, `recovery.py` | `idempotency` rows | claim, replay, reconcile a stale row, complete, fail | store |
| Product store, `store.py` | `users`, `auth_sessions`, `conversations`, `messages`, `idempotency`, `clarifications`, `engine_sessions` | one connection and one commit per method | everything above |
| Engine gateway, `engine_gateway.py` | one interpretation cache and one `last_raw_content` for the process | `process` chooses between telling and asking | interpreter, ingest, ask |
| Clarification answers, `P/application/clarification_recovery.py` | the pending operation inside a clarification row | `recover` | ingest |
| Knowledge ingestion, `P/application/ingest.py`, `materializer.py` | entities, states, relations, attributes, measurements, events, facts | one unit of work per sentence | persistence, resolution |
| Corrections, `correction_ingest.py`, `correction_service.py` | the correction ledger | retract, replace, amend | persistence |
| Knowledge persistence, `P/persist/sqlite` | the knowledge database | units of work, snapshots | all of the engine |
| Storage migrations, `P/persist/migrations`, `engine.py` | `schema_meta` and the schema | `init_database`, ten steps | process start |
| Entity resolution, `P/resolution`, `principal.py` | entities, principal bindings, the session's personal context | resolve a mention, create, bind | ingest |
| Temporal knowledge, `P/temporal`, `P/resolution/temporal.py` | none | membership of a time in a range | queries |
| Queries, `P/query` | none; a snapshot per question | relations, measurements, attributes, states, events | read store |
| Discourse, reasoning, statuses, presentation | the session; otherwise none | follow-ups, validation, the path of a status to the response | turns |
| Semantic interpretation, `P/interpretation`, `P/llm` | learned ontology entries | text to claims, through an external provider | gateway |
| Authentication, `P/product/auth.py` | `auth_sessions` | log in, check, revoke | HTTP surface |
| jamesCore orchestrator, `C/application` | `conversations`, `messages` | `send_message`, `answer_clarification` | PKE over HTTP |
| jamesCore presentation, identity, tooling | none | wording, an assertion per call | orchestrator |

What is hard, and where:

* **Overlap.** Handlers run on several threads and share the product database, the knowledge
  database and the gateway's cache, without a lock of their own. The driver of SQLite starts a
  transaction only before the first INSERT, UPDATE or DELETE, so whatever was read before was
  read outside of it.
* **Two databases.** A turn commits to Knowledge in one transaction and to the product database
  in several others. Between any two of them the process may stop.
* **Retries.** A client repeats a request under its `client_request_id`, at once or much later;
  jamesCore repeats nothing, but its HTTP call may time out while the engine goes on.
* **Chains of legal steps.** Assertions are superseded, retracted, replaced and told again.
* **Knowledge about time.** A time may be an instant, a day, a month, a recurrence or nothing,
  and an answer may be yes, no or unknown.

`PROJECT.json` lists the hazards one by one, each with the line where it bites.

## 2. The modules

| Module | Models |
|---|---|
| `IdempotencyStore` | the SQL of the `idempotency` table, one operator per transaction |
| `ProductRecovery` | claim, replay, stale reconciliation; actions shared by the two entry points |
| `ProductTurns` | `send_message` under a request id, on threads, with faults; EXTENDS `ProductRecovery` |
| `ResultRegister` | what a client is promised: a write-once result per key (abstract) |
| `ProductTurnsProofs` | the theorems about `ProductTurns` |
| `ClarificationTurns` | `answer_clarification`; EXTENDS `ProductRecovery` |
| `ProductSessions` | accounts, bearer sessions, expiry and logout |
| `DiscourseFocus` | the discourse state of a conversation and the functions that change it (no state of its own) |
| `Conversations` | several users' turns in their conversations; EXTENDS `ProductSessions`, `DiscourseFocus` |
| `ConversationsProofs` | the theorems about `Conversations` |
| `ProviderReplies` | what one call of the language model comes to, and which errors are tried again (no state) |
| `TurnInterpretation` | the gateway's cache and provider retries; EXTENDS `ProviderReplies` |
| `Proposals` | the routing of a proposal, the gates, the slot that is asked for (no state) |
| `ProposalWire` | the facts, claims and tally that a proposal gives; EXTENDS `Proposals` (no state) |
| `ProposalTurns` | turns that are refused, asked about, stored or correct something; EXTENDS `ProposalWire` |
| `UtterancesProofs` | the theorems about `ClarificationTurns` and `ProposalTurns` |
| `KnowledgeRows` | assertion rows and ledger, and what one claim or correction does to them |
| `KnowledgeTurns` | writers and readers of one user's knowledge on SQLite; EXTENDS `KnowledgeRows` |
| `KnowledgeTurnsProofs` | the theorems about `KnowledgeTurns` |
| `EntityResolution` | what a mention refers to |
| `EntityTurns` | turns that resolve, bind and create; EXTENDS `EntityResolution` |
| `EntityTurnsProofs` | the theorems about `EntityTurns` |
| `StoredKnowledge` | the rows of relations, attributes, states and measurements that a user tells |
| `QueryAnswers` | question, spec, resolver and status; EXTENDS `StoredKnowledge` |
| `QueryProposals` | from a proposal that asks to the question; EXTENDS `QueryAnswers` |
| `AnswerPresentation` | result, response, presenter's input, accepted or fallback text; EXTENDS `QueryProposals` |
| `AnswerTurns` | a user who tells and asks, all the way to the reply; EXTENDS `AnswerPresentation` |
| `TemporalMembership` | forms of time and their membership in a range (no state) |
| `RelationAnswers` | one relation in the world, as told, as stored and as answered |
| `ObservationAnswers` | measurements and events, and what is answered about a range |
| `TemporalAnswers` | the two together |
| `AnswersProofs` | the theorems about `TurnInterpretation`, `TemporalAnswers` and `AnswerTurns` |
| `CoreTurns` | jamesCore, its store, the HTTP call, and the engine at the other end |
| `CoreTurnsProofs` | the theorems about `CoreTurns` |
| `SchemaMigrations` | `init_database` in processes that overlap or are stopped |
| `SchemaMigrationsProofs` | the theorems about `SchemaMigrations` |

How they fit together. A message goes through `CoreTurns` (the core's side), `ProductTurns` (the
protocol around the engine), `Conversations` (whose turn it is and what it is about),
`TurnInterpretation` (from text to a proposal), and then either `ProposalTurns`, `EntityTurns` and
`KnowledgeTurns` (telling) or `AnswerTurns` and `TemporalAnswers` (asking). Each takes as an
arbitrary input what another one models: the engine of `ProductTurns` may do anything that the
later modules do, an interpretation of `Conversations` is any that a provider may give, and a
mention of `ProposalTurns` names what `EntityTurns` resolves.

Every `MC*` module only fixes model values, symmetry and constraints; `TemporalAnswers` needs none
and is run as it is. `map` in `PROJECT.json` gives the lines
each definition stands for.

Conventions. A variable is a table, an attribute or what a thread holds in local variables; `pc`
is where the thread stands. An action is what the code does between two points at which another
thread can see or change something: a store method with its own commit, a unit of work's commit,
a read or write of a shared attribute. Definitions under "Faulty variants" are used by no
specification; each replaces the definition it varies in one mutation run, which must then
violate a property.

**Product turns.** `Arrive` is a request with a key and a fingerprint; the steps after it are
`claim`, the user's row, the engine, the saved session, `complete_idempotent`, the assistant's
row. `faults` counts how often each kind of fault has happened, `MaxFaults` of them together:
`crash` stops every thread at once and leaves the tables; `engine` is an exception before the
Knowledge commit; `discourse` is one after it, inside the same engine call, which goes on to read
Knowledge for the discourse focus without a guard (`P/application/ingest.py:192`, `225`); `store`
is an exception of the product store or of presentation, including the ones after that commit.
The time of a row is reduced to whether recovery would call it stale,
and a row of a slow request may be called stale like that of a dead one, because the code cannot
tell them apart. Creation of the conversation is part of the step that stores the user's row.

**Clarification answers.** The same protocol around a recovery that reads the clarification
once, commits and closes it afterwards; the faults are the same. `NoKey` is a request without a `client_request_id`.
Two results of `recover`, its idempotent replay and the refusal of a closed operation, cannot be
reached from this entry point and are left out.

**Conversations.** The bearer is resolved, the conversation found or created, the row added, the
session loaded, the engine run, the session saved whole, and the reply stored; a request may
fail and be sent again. An interpretation may name any entity that the discourse state offers.
The update of the session may fail behind the commit (`heard`), and a replacement has none.
Salience is the number of turns it lasts. The clock may be set back; ids of messages are drawn
from it, so that it also decides the order of rows.

**Interpretation.** An interpretation is known by the text and the user it was made from.
The two fields of the cache and `last_raw_content` are read and written one at a time. A call of
the provider fails in one of eleven ways or returns content of one of eight forms, with a body
that the pipeline takes or refuses; what is tried again is what `RetryPolicy.classify` says.

**Proposals.** A proposal is a record of what the model returned: cues, expressions, mentions,
slots, claims. The tables of aliases and senses, and the lists of words, are reduced to the
outcome of looking in them. The order in which the code looks is kept: routing, resolution,
gates, completeness, the primary fact, its companions (the attributes that are resolved beside an
attribute, as the brand beside the model of a car, and a quantity), the claims laid over them, the
ownership of what is called one's own, validation, writing, the ownership of any vehicle that an
attribute or a relation is about (`Vehicles`), the status. An utterance on which the overlay raises
writes nothing (`Break`). A correction is guarded, finds its target by description, and is written
with its replacement in one step: `KnowledgeTurns` has what happens between.

**Knowledge.** A row is known by its topic and whether it is current; the ledger holds a
correction per target. A writer chooses the target of a correction before it holds the write
lock, as the code does; `Fail` is any exception, a busy database or the end of the process, and
rolls back. A replacement of several rows (an attribute with its companions) retires its target for
the last row of the kind that was told (`Reference`). A reader loads the tables with a SELECT each.

**Entities.** Entities have an owner, a name and a type from a small hierarchy. Turns hydrate
the session, ensure the principal, resolve, write, commit and save the session. Aliases are
resolved like names and are left out; mentions by an event's or a fact's id are left out.

**jamesCore.** The engine's side is a set of requests in flight, carried out or not, answered or
not, whatever the caller still waits for. The clarification route stores nothing in the core's
transcript and is modelled so.

**Migrations.** Each CREATE, ALTER or selection of rows is a step and the rewriting of rows
together with the version is one, since only that is a transaction. One legacy relation and one
legacy event stand for the rows.

**From a question to a reply.** `AnswerTurns` keeps every stage that a reader could compare: the
proposal that asks, its question, the engine's result, the response, the presenter's input, and
the reply. A text is what it says ("no", "unknown", "failure") and the values it gives; what the
presenter's model returns is any of a set of texts, and is accepted or replaced by the fallback.

**Answers about time.** In `RelationAnswers` the world goes on beside the program: the relation begins and
ends, and the user tells the truth about it in some form before time passes. `ObservationAnswers`
keeps the true instant of each row beside what is stored; no answer looks at it. Days begin at
the user's midnight, `ZoneOffset` later than in UTC, which is what the lifecycle of relations
uses. One zone is assumed for a user, and that ISO strings sort as the instants they denote. An
amount is a natural number of one unit, and a sum is how many units there are (`SumOf`).

**History variables.** Some variables are in no line of the code and no guard reads them; they
only let a property say under which condition it holds, or remember what it compares: `faults`
(which faults have happened), `raced` (clarifications that two answers read as pending at once),
`overlapped` and `mixed` (turns, users or conversations of which two turns overlapped),
`together` (two processes have migrated at once), `ended`, `posts` and the `heard` of an event in
`Conversations`, and
`turn`, `response` and `heard`, the last turn's stages.

## 3. The runs

| Run | Bounds | Shows |
|---|---|---|
| `turns` | 2 threads, 1 key, 2 fingerprints, 2 faults of any kinds | one executor per key, one durable result that messages and answers agree with, one commit unless the store fails, no engine run after a result, `ProductTurns` implements `ResultRegister`, no key stays in progress for ever |
| `turns_double_commit` (violated) | 1 thread, 1 `store` fault | a retry after an exception behind the commit writes twice |
| `clarifications` | 2 threads, 1 clarification, a key or none, 1 fault | closed clarifications take no answer; one write unless answers race or a fault comes between; the register |
| `conversations` | 2 threads, 2 users, 2 conversations, 2 turns, 1 retry, a clock set back once | a session that ended stays refused and is its holder's, what a conversation is about is its owner's and stored, the saved session keeps up with what it was told, an interpreter is given the history before the message |
| `interpretation` | 2 threads, 2 texts, 2 users, 2 attempts, every failure and every content | a turn that overlaps no other executes its own interpretation, made once, and asks back with its own proposal |
| `pipeline` | 4 turns out of 48 utterances and 5 answers about a dog, a cat and two cars | what is called committed was kept, of the thing it is about; nothing is stored that was not said, the ownership of a vehicle apart; an answer changes the slot that was asked for and nothing else, a correction retires the row it describes and leaves its replacement |
| `knowledge` | 2 writers, 1 reader, 3 rows of 4 kinds, 1 claim a sentence, 2 in a replacement | one correction per target, chains of supersession, whole replacements, no reader that takes a row and its replacement both for effective |
| `entities` | 2 threads, 2 users, 3 entities, every kind of mention, type and session | knowledge stays with its user, one self, one entity per name |
| `answers` | 2 rows about 2 things of 2 kinds, every question, every proposal that asks, good and bad texts | an absence is the engine's, the reply keeps apart absence, no and failure, the fallback calls stored what was stored, a yes or a no is backed by a row of what was asked, the value given is the last told |
| `queries` | 2 episodes and 4 tellings of a relation, or 2 rows in 8 forms of time, every range of 6 instants | whether it holds now, when it ended, whether it held during a range; values, propositions, counts, sums and the latest are true |
| `core` | 2 threads, 2 principals, 2 conversations, a timeout at any point | a turn is carried out once, the transcript is backed, one history |
| `migrations` | 2 processes, 4 start versions, 1 stop | a version stands for its schema, an ended relation stays ended, the database is brought up |

Constraints. Some instances keep apart what meets in no operation, by a CONSTRAINT defined in
the MC module. `Mixes` (`knowledge`) lets either a second writer or a reader join the first
writer, mixes kinds of rows two at a time, since the kinds meet in the ledger alone, and has nobody
beside a writer that replaces one row by several.
`Bounded` (`entities`) lets two turns overlap while at most one claim is stored, and lets users
meet over at most two entities; `SharedKinds` says which mentions overlapping turns have.
`OneTheme` (`conversations`) makes a behaviour be about accounts and clocks, or about turns, and
about turns that overlap, or fail. `OneTable` (`answers`) keeps the rows of a behaviour in one
table, because no question looks into two. `TemporalAnswers` itself tells of a relation or of
observations while there is nothing of the other, for the same reason.

Why the bounds are enough to be of interest. Two threads let a claimant and a reconciler, or a
retry, be under way at once, and a third request follows on either; two fingerprints let one of
them conflict; two faults let a crash hit the recovery of an earlier exception. Three rows are
the least in which a replacement is itself corrected. Two writers and one reader are the parties
of each race over SQLite. Two users, with one entity each, are the least in which knowledge can
stray; three entities let a name be found twice. Four turns let a fact be told, asked about,
answered and corrected. Two rows are a value and its successor, or two members of a list. The
start versions 0, 3 and 6 are those at which steps overlap in a different way, and 12 is newer
than the program. Days of two instants and windows of two days have an inside and two
boundaries, and an offset of one makes the user's midnight differ from that of UTC. Deadlock is
not checked where a run stops at its bounds (`CHECK_DEADLOCK FALSE` in its cfg); it is checked
in the others, whose bounds leave threads able to go on.

Fairness. `ProductTurns`: weak fairness of each thread's next step, which the thread pool gives,
and of the ageing of a row, which is the clock; that clients retry is a premise of the property
(`[]<><<Retry(k)>>_vars`), and faults are under no fairness and bounded. `SchemaMigrations`: weak
fairness of a started process's next step; stops are bounded. The other modules state safety
only: what they wait for is a user or a provider, and nothing makes either answer.

### Where the code departs from what it says

The violated run stands for the finding in `PROJECT.json`, with the sentence of the repository
that the code departs from. The models reach the following as well, or were written around
it. No run repeats them; the property named excludes them by its condition, and holds otherwise.

Turns, retries and sessions:

* A reconciler that found a row stale writes `recovery_required` over the completion of a slow
  request: a retry is told so although the turn succeeded (`P/product/conversation/recovery.py:194`).
* The engine reads Knowledge for the discourse focus after its commit, unguarded
  (`P/application/ingest.py:225`): an exception there marks the key `failed` like one of the product
  store, and the retry commits again (`OneCommitUnlessRaisedAfter` excludes both; the violated run
  shows it with the store's).
* Two answers to one clarification both recover it, and a stop between the Knowledge commit and
  the closing makes an answer without a key be written twice; an exception after that commit does so
  with a key too (`OneWrite`; `orchestrator.py:359`, `377`, `ingest.py:225`).
* "One interpretation per turn" (`engine_gateway.py:1`), but all threads share one
  `TurnCachedInterpreter`, which compares the text and reads the result afterwards: overlapping
  turns may execute one another's interpretation, also another user's of the same text, and ask
  back with one another's proposal (`OwnUnlessOverlapped`; `engine_gateway.py:33`, `72`).
* `session.py:18` speaks of prior turns; the row that a failed request left is prior to its retry.
* Rejected, unsupported, failed and clarifying turns do not count as idle turns, so that the
  focus outlives them (ADR 0091 A); `binding_allowed` accepts any entity when nothing is offered,
  and the path of corrections never asks it (ADR 0091 B; `P/application/discourse.py:243`).
* `_touch_context` swallows its exceptions behind the commit, and an event that replaces another is
  not told to the session: "the last one" is then an earlier event, be it one that was corrected
  (`P/application/ingest.py:466`, `correction_ingest.py:433`). `SessionKeepsUp` is about the events
  that a turn's session was told of (`heard`).
* A pending attribute question takes over any later question that names no attribute
  (`discourse.py:213`; ADR 0092:75, ADR 0091:94). No property says otherwise, for it would not hold.

Providers:

* ADR 0053 calls an empty response, invalid JSON and schema-invalid output retryable. Content
  that is JSON but no object, that has no envelope, or that quotes a code fence (which is taken out
  before the JSON is read) is classified as unknown and not tried again
  (`P/interpretation/retry.py`, `proposal_normalizer.py`).
* The normaliser says "exactly one top-level JSON object", but takes the first of several.

Writing and correcting:

* Claims of states and events, which the overlay does not support, are neither written nor counted
  as deferred: they can be lost under "committed" (`KeptOrTold` is about the claims it supports;
  `claims.py:459`; ADR 0086, ADR 0089:98). So can a relation that the utterance itself ends or
  denies, and the quantity of a class that is told with an event (`KeptOrTold` excludes the two).
* Claims are compared by their kind, dimension and things, not by their value: of two that differ
  in their value alone the second is lost, and an attribute in a claim to a companion of the
  primary one (`claims.py:565`). `KeptOrTold` asks for a row of the same thing with the value that
  was told, or one that the utterance told before it.
* A quantity beside a state, a relation or an attribute makes the overlay raise: it takes a
  subject that is a mention of the wire already for one of the proposal (`claims.py:144`). The turn
  fails (`Break`).
* When the claims make the overlay drop a primary attribute, its companions stay; their subject is
  then bound to nothing, and they are stored of the first thing of the sentence (`FirstThing`;
  `claims.py:135`, `materializer.py:899`).
* A replacement with companions is recorded as the last of its rows, so that the corrected attribute
  has a companion for its replacement; and a relation that is corrected by one to a new vehicle has
  that vehicle's ownership, which is written last (`Replacing`; `correction_ingest.py:98`, `106`,
  `materializer.py:586`).
* A proposal whose primary part cannot be wired is rejected although its companion measurement
  could be (`router.py:74`); a blocked primary part with claims is executed.
* A relation is found from both of its ends by a correction, so that its description is always
  ambiguous (`correction_target.py:209`); a correction of a state or a relation looks for the
  new value in the old row.
* A denial inside a replacement raises out of the handler and fails the turn (`correction_ingest.py`).
* A state is stored of the first mention that was bound; an attribute of a class of things falls
  back to another entity (`materializer.py:899`).
* To end or deny what is not stored writes nothing and is called committed; the mode is lost
  when the relation comes from a claim.
* A measurement without a value, and the slots `attribute_value` and `measurement_value`, are
  asked for but no answer completes them; a round whose answer was stored in part is treated as
  failed (`clarification_recovery.py:422`).
* A missing time of an event is rejected by the validator before completeness can ask for it.
* A replacement, or a retelling, that finds a retracted row still current refreshes that row and
  stays ineffective, although ADR 0045 has a return to an earlier value be a new assertion
  (`materializer.py:806`); a chain of replacements that returns to its first row leaves none
  effective (`correction_ingest.py:407`).
* A snapshot may hold a correction without its replacement, since it reads a table at a time
  (`NeverBothEffective` says the other half; `P/persist/sqlite/read_store.py:97`).
* Two overlapping first turns of a user create two principals, and two that name the same new
  thing create it twice (`SelfIsOne`, `NameIsTheKey`; `principal.py:45`, `ingest.py:234`).
* "O carro" of a user who owns no vehicle becomes a new entity that is named by that very word
  (`materializer.py:237`), each time it is mentioned and nothing makes it owned: several entities
  of one name, between which what is said is split, although `P/resolution/entities.py:160` has the
  name be the identity.
  `NameIsTheKey` is about all other names, and says that none is added once a vehicle is owned.

Asking:

* A question about a class of owned things keeps the newest dated relation only
  (`P/query/relation_resolver.py:163`; ADR 0082:43), and the fallback text names the first entity,
  the user's own, as the value (`C/presentation/contract.py:209`; ADR 0088:45).
* Questions about relations and states ignore the time of the sentence; a state is refused
  without a value; the "last" value of an attribute is the last closed one; the class in an
  inverse relation constrains the wrong end (`query_resolution.py:311`).
* The presenter's prompt forbids to say of a deferred write that it was learned
  (`C/presentation/prompts.py:48`), but the check of the model's text knows no rule for deferred,
  partial and unsupported (`C/presentation/validate.py:132`): such a text is accepted. The model's
  texts of the `answers` run say so too; `ReplyKeepsTheStatus` asks it of the fallback alone.
* Held-during is answered from the first stored row, so a second episode is denied, and an end
  told as a month is stored as an exact end on its last day (`HeldIsThroughout`;
  `relation_resolver.py:277`, `P/domain/relation_lifecycle.py:22`).
* An observation known by its day is ordered as if made at midnight (`LatestIsCertain`;
  `P/query/measurement_resolver.py:72`).

Start-up:

* Two processes that migrate at once may lower the version and bring an ended relation back
  (`EndedStaysEnded`; `runner.py:137`); a stop between two ALTERs leaves part of a step's
  columns, which the next start completes.

## 4. What is proved

TLAPS checks the theorems below for all sets of threads, processes, users, names, types, keys,
principals, clarifications, topics, amounts and instants and for all values of the bounds, from the
assumptions on constants that the modules state. Each is the last line of a chain: an inductive
invariant, the initial states satisfy it, every step keeps it (one proof step per action), it
implies the property, and a temporal step puts these together. Each property is
also checked by a run, which shows on a small instance what the theorem says of all.

### `ProductTurnsProofs`

* `TypeCorrect`: `Spec => []TypeOK`.
* `Safety`: one executor per key (`SingleExecutor`).
* `RowsAgree`: assistant rows and pending clarifications are those of the durable result
  (`RowsMatchResult`).
* `NoRerun`: no engine run for a key once it has a result.
* `OneCommit`: at most one Knowledge commit per key as long as neither the product store nor the
  engine's discourse update has raised (`OneCommitUnlessRaisedAfter`).
* `Refinement`: `ProductTurns` implements `ResultRegister`.

`SingleExecutor` is not inductive: a thread that owns a key could meet a row that says otherwise.
`SafeInv` adds that whoever is between claim and completion finds its key `in_progress`
(`OwnerHoldsRow`), that a key that is neither completed nor in doubt has no result
(`UnsettledHasNoResult`), that a result a thread holds is the row's (`HeldIsResult`), and that
assistant rows and deliveries match it. An `in_progress` row is claimed by nobody; only completion
or failure, both by the owner, or the reconciler of a row without a result changes it. `OneCommit`
adds `CommitInv`: a key that has committed is in the hands of its owner behind the engine, or is
settled, or in doubt, and none of these is given to a new executor; the `store` and `discourse`
faults are exactly what breaks it, which is why the property is conditional on them.

### `AnswersProofs`

The way from a text to its answer, in three parts that share no variable.

**`TurnInterpretation`**: `TypeCorrect`; `OwnTurn` (`OwnUnlessOverlapped`); `Once`
(`OneInterpretation`). Both properties are about threads that ran beside no other. `LoneInv` says
what the shared cache holds while such a thread runs: nobody else is running (`LoneIsAlone`),
after its own writes the cached text and result are its own or cleared (`CacheOf`), and what it
has in hands is its own (`HandsOf`). `CallsFit` ties the count of provider calls to the stage.
`NoneAssumption`: the absence of a cached text is no text.

**`TemporalAnswers`**: `RelationTrue` (`RelationIsTrue`), `HeldTrue` (`HeldIsThroughout`),
`RangesAnswered` (`RangesAreTrue`), `LatestAnswered` (`LatestIsCertain`), of specification
`AnswersSpec`. The theorems about observations rest on one lemma about each time alone,
`MembershipIsTrue`: if a time was told of an instant, its membership in a range is not `match`
when the instant is outside and not `no_match` when it is inside, for every length of the day,
every zone and every window. `ObservedTruly` (each row was told of its instant) is all that the
runs need to keep. What is answered for a range then lies between the rows that match and those
that match or may (`RangeIsTrue`), and so do their number and their sum (`TotalsInRange`).

The theorems about the relation relate its rows to a world that the rows do not see. `WorldInv`
and `FirstEpisode` say when it has held. `CurrentsInv`: one row is current while the relation
holds and was told, or has ended and was not, and else none, through every retelling and denial;
this is `CurrentIsTrue`, and why the row that a telling of an end closes is the right one.
`EndsInv`: the end of a row was told of an end that the relation has had, in an episode before
the one that runs (`IsEnd`), so that a new beginning does not undo it. `EpisodesInv` and
`OnlyRowInv`: each told episode has left a row, hence a row that is the only one is of the first
episode, from its beginning to its end; which makes the answer from the first row alone right
there, and only there, as `OneExactRow` says.

`ZoneAssumption` and `WindowAssumption`: days and windows have a length, and the zone is within a
day. `RelationFormsAssumption`, `ToldFormsAssumption` and `ValuesAssumption`: what is told has one
of the forms that `TemporalMembership` knows, and an amount is not 0.
`BeginningsAssumption` leaves out beginnings that are told with a month or a year, without
a date, or as planned (see section 5): the code does not store these as current, and
`CurrentIsTrue` would be false of them.

**`AnswerTurns`**: `AbsenceTrue` (`AbsenceIsTheEngines`), `StatusKept` (`ReplyKeepsTheStatus`),
`BackedAnswers` (`YesAndNoAreBacked`), `LastToldGiven` (`LastToldIsCurrent`). `TurnsInv` has four
parts. `KnowledgeInv`: one row of a thing is current for a dimension with one value
(`OneCurrent`), so that a value which was superseded is not among what is answered. `Agree`: the response of a turn, put through the
presenter's input and the fallback, is absent, failed, negative or stored only when the engine's
answer was; of a model's text `StatusKept` says nothing about stored, as the code does not. `AskInv`: the presenter's yes, no and value rest on rows. `ReplyInv`: the reply is a
text that was accepted, or the fallback. The proof follows the stages. `WellAnswered`, from one
lemma per executor, says that a result holds a yes or a no only over a row that supports it
(`Found`, `Supports`), for every question that can be asked (`WellAsked`); `ProposalsAsked`, that
each question a proposal becomes keeps what the proposal named, wherever yes or no may be the
answer (`Keeps`); `ResultSaid` and `AskSaid`, that the projection and the presenter's input say
of a result what it holds. `Chosen`, that a finite set has a first element in a total order,
replaces an induction over rows, as in `ConversationsProofs`.

`WordsAssumption`: no value and no name is one of the words `yes`, `no` and `unknown`. It is
needed: the core takes a single item that is worded so for the answer of a relation
(`_relation_answer`, `presentation/contract.py:160`), so that a thing whose stored name is "no"
would be answered with a no. `DimensionsAssumption`: the dimensions of attributes are none of
the names that the model gives to the other tables. `DescribedAssumption` and
`KindAssumption`: the principal is not a thing that is owned, and a thing has a kind.

### `KnowledgeTurnsProofs`

* `OneCorrection` (`OneCorrectionPerTarget`), `Chain` (`SupersessionIsAChain`), `Atomic`
  (`ReplaceIsAtomic`), `NeverBoth` (`NeverBothEffective`).

First the operations on rows: `InsertSound` and `ClosedSound` say when appending and closing rows
keeps one current row per topic and chains of predecessors, and `MaterializedSound` and
`AmendedSound` that everything a claim can do is such a case. Then the lock: whoever is in its
unit of work is the one writer, and its draft is ahead of what is committed (`LockInv`). Every
step is then one of four for the database: nothing, taking the lock, working on the draft,
releasing it. `AmendInv` is why a target chosen before the lock may be used behind it: rows keep
their topic and their place, and whether it has a successor is asked again behind the lock.
`LedgerInv` adds that a replacement has made its row before it records its correction (`OpInv`)
and that a fresh replacement has an id no committed row has (`FreshInv`); hence a reader that has
seen it read after the commit, and the ledger, which it reads last, has the correction
(`ReaderInv`). `TopicsAssumption`: an amount is no dimension and no relation.

### `CoreTurnsProofs`

* `AtMostOnce` (`AtMostOncePerTurn`), `Backed` (`TranscriptIsBacked`), `History` (`OneHistory`).

`OnceInv`: a turn that is yet to be sent is neither on its way nor carried out, and of one turn
there is one request, on its way or carried out. `LinkInv` follows a conversation's owner from the
engine through requests, replies, records and bindings: a request id is drawn once, so the reply
a thread takes is to its own request, and what it binds or logs is of a conversation the engine
made for the same subject. `LogInv` says it of every row; a social turn's rows are the thread's
own, and a reply's row comes after the message's. `HistoryInv` is for conversations in which no
two turns overlapped: one thread is in them (`Alone`), the binding it read is still the table's,
or there was none (`Agrees`), and the engine answers in the conversation it was asked in
(`Answered`). An unbound conversation is bound by the thread whose turn made the engine's.

### `UtterancesProofs`

**`ClarificationTurns`**: `TypeCorrect`, `LateConflict` (`LateAnswersConflict`), `Refinement`
(`ImplementsRegister`), `WrittenOnce` (`OneWrite`).

`TypeInv` adds to `TypeOK` that a request without a key is at no step that touches the table.
`LateInv`: a closed clarification stays closed, so that a request that came late cannot read it as
pending. `RowsInv` has for keys what `SafeInv` has in `ProductTurnsProofs` (owner, row, evidence
and result), for a protocol in which a request may also have no key. `WriteInv` splits `OneWrite`
into its two halves: while nothing has raised behind the commit, what was written under a key was written
once, and its row is no longer free for another claim (`KeyInv`); and while nothing crashed
either, a clarification that two answers have not raced for has one worker, which has written
nothing before its recovery ends, and is closed or still in hands afterwards (`ClarInv`).
`NoKeyAssumption` and `NoFingerprintAssumption`: the absence of a key or fingerprint is none.
`AboutAssumption`: a fingerprint is that of an answer to one clarification.

**`ProposalTurns`**: `ProposalInvariant`, `OnlySaid` (`OnlyWhatWasSaid`), `ClaimsKept`
(`KeptOrTold`), `AnswersKeep` (`AnswerKeepsTheRest`), `Aiming` (`CorrectionsAreAimed`), for every
set of utterances and of answers, not only the 48 and five of the run.

The state between turns is simple and the turn is not, so the invariant is short: the rows are
rows (`FactsInv`), the positions written in the last turn are positions of rows, and an open
question is about an utterance whose reading did not execute and asked for that slot (`Asked`).
The argument is about what one turn does:

* *From proposal to facts.* Every fact is the primary one, an attribute beside it or its quantity
  (`ToldFirst`, from `CompanionShape` and `BesideShape`), that of an explicit claim, or an
  ownership (`Told`), of things that were mentioned; `BareShape`, `ApplyLays` and `OverlayWoven`
  carry this (`Woven`) through the claims, `CorrectionWoven` says it of a correction.
* *From facts to rows.* `Final`: a row that is written tells one of the facts (`RowTells`) or the
  ownership of what is called one's own or of a vehicle (`OwnRow`, `Taken`), and, unless the unit of work is rolled back, each fact that the
  materializer does not skip (`Due`) has left a row (`Left`). No write changes what an older row
  tells, nor that it is effective (`Further`).
* *Turns.* `Turned`: every step of the specification leaves the rows alone, retracts one, stores
  what a proposal comes to, or replaces one; a turn of the first kind never says "committed",
  and one of the second or the fourth is a correction. `Candidates` and `Target` give `Aiming`.
* *`ClaimsKept`* needs the claims one by one. Facts and mentions only grow and the tally of what
  was put off never falls while claims are laid (`Grows`), so a tally of zero in the end, which
  is what "committed" means where claims were received (`StatusMeans`), says of each claim that
  it was laid when its turn came, or found one like it that was told before (`Alike`). One like it
  is an earlier claim, the attribute or one beside it, the quantity or the relation of the
  utterance: `Backs` says that it gives the claim's value or one that was told of the same before,
  `Grounded` that what it is about will be bound, and so `LikeDue` and `LikeKeeps` that the row it
  leaves keeps the claim, unless the utterance ends or denies that relation or tells the
  quantity of a class with an event.
* *`AnswersKeep`*. `Supplies`: the utterance that is completed has what the one asked about had,
  but for the open slot, and no claims, because a proposal with claims is executed and not asked
  about (`AskedBare`). So each row it leads to is of what was said.

The loops over claims and writes are recursive functions on positions. `FirstPosition` (a
nonempty set of positions has a first one) stands in for induction: from it, `StepsTaken` gives
the states between the steps of a loop, and `UpTo` what holds of all of them.
`UtterancesAssumption` and `AnswersAssumption`: proposals and answers have the fields that the
schema of the model's reply and the parser of answers give them. `VehiclesAssumption`: what has no
name is no vehicle.

### `ConversationsProofs`

* `TypeCorrect`, `OwnSessions` (`SessionsAreOwn`), `KnownFocus` (`FocusIsKnown`), `KeepsUp`
  (`SessionKeepsUp`), `PriorIsGiven` (`PriorIsHistory`).

`TypeInv` says besides types that a turn is in a stored conversation of its user. `SessionsInv`: a
session that ended is revoked, so that no clock brings it back, and an account changes its
password never, because the insertion of a taken name raises. `FocusInv` carries `FocusIsKnown`
to the working copies of sessions: what a thread may bind is an entity of its user, whatever the
interpretation says.

`SessionKeepsUp` needs two invariants. `LastInv`: in a conversation that no two turns shared and
of which no session was lost, the saved copy has the last event that was told to a session unless a turn has told one and is
about to save it, and then that turn's copy has it. `QueryInv` is about pending queries, which are
known by the turn that asked: a query that has not been saved is in its own thread's hands only
(`TurnThread`, with `Unsaved`), a turn that failed has left nothing (`FailedInv`), of a turn to
come nobody knows anything (`ComingInv`), no query waits in two conversations (`WaitingInv`), and
in a conversation without overlap no completed query is in the saved copy or in a turn's
(`CompletedInv`). `WaitingInv` is what makes completion in one conversation harmless to another.

`PriorIsHistory` says that a list that is ordered by instants, and at random within one, yields
the order of posting. `OrderInv`: rows are sorted by instant; the rows of users are those of the
posted turns, in the order of posting (`Enumerates`); and no user's row is as young as the clock
unless its turn is still reading, since the engine takes an instant, or the failed request did.
So the next message of the conversation is younger than every other, and its row comes behind
those of all users; a reply may come before or behind what has its instant and changes nothing.
That `Enumerates` determines the list of texts needs that a finite set of positions has one
increasing enumeration (`OrderExists`, `OrderIsUnique`, `InOrderFacts`). This is an induction on
sets; it is done without an induction theorem for formulas, by taking a smallest set of a family
(`Smallest`, from the well-foundedness of the strict subsets of a finite set).

`StartsAssumption`: the server starts on accounts, sessions and entities of which each session
was given to the one who knew the password of its account, which is what `login` leaves behind.
`PeopleAssumption`: nobody is called None. `RecentAssumption`, `DiscourseAssumption` and
`SessionAssumption` are the ranges of the constants of the code.

### `EntityTurnsProofs`

* `StaysHome` (`KnowledgeStaysHome`), `OneSelf` (`SelfIsOne`), `NameIsKey` (`NameIsTheKey`: of
  every name but the word of a contextual vehicle, see section 3).

`ResolveFacts` says what a mention of any kind can come to: an entity of the lookup, or the
creation of what the lookup does not have. `HomeInv`: claims, ownership, bindings and sessions are
of their user's entities, in the database and in the draft of the unit of work; what a turn
found before the lock is still there behind it, as entities are only added and the draft is ahead
of the database (`LockInv`, `Grown`). `KeyInv` is for users of whom no two turns overlapped: what
such a turn would create is not there (`Fresh`), in its view and under the lock, because what
others write meanwhile is not visible to its user (`DraftAlike`). It also finds every anonymous
possession among what the principal owns. `TypesAssumption`: the types the code
names are types, and the names it makes up are no user's names. `ThreadsAssumption`: None is no
thread. `EntitiesAssumption`: the bound is a number.

### `SchemaMigrationsProofs`

* `Backed` (`VersionIsBacked`), `StaysEnded` (`EndedStaysEnded`).

`VersionInv`: a version stands over its tables, columns and roles. It is inductive with `NewInv`
(a database without a version is being made, in the latest shape) and `ProcInv` (what a process
at a step has made or found made), because a second process may stamp or convert in between.
`EndInv` is for databases that no two processes migrated at once: an end is stored by the column
that the version at hand reads (`EndStored`), and the one process that migrates is at the
database's version and converts the rows that are there (`AtVersion`). `StartAssumption`: the
versions found are none, those that the program ever wrote, or the next.

### What is only model-checked

Liveness (`NothingStuckInProgress`, `EventuallyUp`): fairness and ENABLED are beyond the prover.

`TypeOK` of `EntityTurns` and of `SchemaMigrations` adds to the `TypeInv` that is proved the bounds
a run explores. It is documentation: the runs list the properties that rest on it instead.

## 5. Not modelled, and why

* The recognition of meaning in words: prompts, lexicons, semantic repair and attribute
  resolution (`P/interpretation/semantic`, about half of it), the phrases by which the presenter's
  text is judged, and the calendar arithmetic of relative days, weekdays and months. These are
  functions of a string, without state; their outcome is an input of the models.
* `mappers.py` and most of `repositories.py`: rows to objects and back, field by field.
* The inspector, the debug and design tools: projections of one snapshot for developers, which
  nothing in the service reads back. While reading it we saw that the node budget of the
  inspector's `_walk` counts only the type of the entity at hand, so that a graph may exceed it.
* Events, facts and contexts as rows of their own in ingestion and queries; obligations; the
  matching of an event by its participants; currencies in sums.
* Relations told as begun in a month or a year, some time ago, or as planned: the code stores
  them as not current, so `RelationAnswers` leaves these forms of beginning out
  (`BeginningsAssumption`).
* Learned ontology entries, which threads share; titles, paging, settings, the log of auth
  events, password hashing and the rate limit; the core's signed assertion; HTTP routing, wording,
  catalog, web pages.

## 6. Plan

1. Done: product turns, clarifications, conversations and sessions, provider replies and
   interpretation, proposals from routing to storage and correction, knowledge, entities,
   questions and replies, queries about time, jamesCore, migrations; proofs of every safety
   property that a run checks.
2. Events with facts and their versions; obligations; learned ontology entries.
3. `CalendarResolution`: weekdays, relative days and months against a reference calendar.
