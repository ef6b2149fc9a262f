----------------------------- MODULE DiscourseFocus -----------------------------
(***************************************************************************)
(* The discourse state of one conversation and the pure functions that a   *)
(* turn changes it with: what the conversation is about, the entities it   *)
(* was about lately, and a query that waits for its subject.  A salience   *)
(* is modelled by the number of fades that it survives (0.85 a turn, until *)
(* it is below 0.2): Fresh for 1.0 and 0.9, Former for 0.6.                *)
(***************************************************************************)
EXTENDS Integers, Sequences, FiniteSets

CONSTANTS
  MaxReferents,  \* MAX_RECENT_REFERENTS
  MaxIdle,       \* MAX_IDLE_TURNS
  Fresh, Former  \* fades that a salience survives
ASSUME DiscourseAssumption ==
  /\ MaxReferents \in Nat \ {0} /\ MaxIdle \in Nat
  /\ Former \in Nat /\ Fresh \in Nat /\ Former <= Fresh

Principal == 0          \* the entity that stands for the user
Nothing == [turn |-> 0, candidates |-> {}]  \* no pending query

NewState == [focus |-> {}, referents |-> <<>>, pending |-> Nothing, idle |-> 0]

ReferentIds(refs) == {refs[i].id : i \in DOMAIN refs}

\* The entity ids that the interpreter is offered, and may copy.
Allowed(state) ==
  state.focus \cup ReferentIds(state.referents) \cup state.pending.candidates

\* An id that was not offered is refused, if any was.
BindingAllowed(state, id) == Allowed(state) = {} \/ id \in Allowed(state)

\* The elements of a sequence at some of its positions, in the order they have.
InOrder(K) == CHOOSE s \in [1 .. Cardinality(K) -> K] : \A i, j \in DOMAIN s :
                i < j => s[i] < s[j]
Kept(list, K) == [i \in 1 .. Cardinality(K) |-> list[InOrder(K)[i]]]

Fade(refs) ==
  LET kept == Kept(refs, {i \in DOMAIN refs : refs[i].left > 0})
  IN [i \in DOMAIN kept |-> [kept[i] EXCEPT !.left = @ - 1]]

\* The ids of a focus in some order, each put in front of the one before.
UpsertAll(refs, ids, left) ==
  LET order == CHOOSE s \in [1 .. Cardinality(ids) -> ids] : \A i, j \in DOMAIN s :
                 i # j => s[i] # s[j]
  IN [i \in DOMAIN order |-> [id |-> order[i], left |-> left]]
     \o Kept(refs, {i \in DOMAIN refs : refs[i].id \notin ids})

Capped(refs) == SubSeq(refs, 1, IF Len(refs) < MaxReferents THEN Len(refs) ELSE MaxReferents)

CommitFocus(state, ids, clearPending) ==
  LET faded  == Fade(state.referents)
      before == UpsertAll(faded, state.focus \ ids, Former)
  IN [focus     |-> ids,
      referents |-> Capped(UpsertAll(before, ids, Fresh)),
      pending   |-> IF clearPending THEN Nothing ELSE state.pending,
      idle      |-> 0]

\* A turn without a referent.  The count grows for ever; it is capped here
\* at the first value over the limit, from which on it has the same effect.
Idle(state) ==
  IF state.idle < MaxIdle THEN [state EXCEPT !.idle = @ + 1]
  ELSE [state EXCEPT !.focus = {}, !.referents = Fade(@), !.idle = MaxIdle]

\* A new focus, or none to be had from the result.
Refocus(state, ids, clearPending) ==
  IF ids \ {Principal} = {} THEN Idle(state)
  ELSE CommitFocus(state, ids \ {Principal}, clearPending)

\* An attribute query whose subject is ambiguous waits for it.
StorePending(state, turn, candidates) ==
  [state EXCEPT
     !.pending = [turn |-> turn, candidates |-> candidates],
     !.referents = Capped(UpsertAll(@, candidates, Fresh))]

\* A query, after a pending one has filled what it lacks.  about is the turn
\* whose question it is; subject says whether it names an entity.  Only an
\* attribute query that names its subject is left alone: one that does not
\* gets the pending query's mention, and every other query becomes the
\* pending one.
Filled(query, pending) ==
  IF pending = Nothing \/ (query.kind = "attribute" /\ query.subject) THEN query
  ELSE IF query.kind = "attribute" THEN [query EXCEPT !.subject = TRUE]
  ELSE [kind |-> "attribute", about |-> pending.turn, subject |-> TRUE]
=============================================================================
