------------------------------- MODULE EntityTurns -------------------------------
(***************************************************************************)
(* Turns that resolve the mention of a sentence to an entity, creating the *)
(* user's principal entity or the entity mentioned when there is none.     *)
(* The entities and the principal binding are read before the unit of work *)
(* has SQLite's write lock, so two first turns can both find nothing.      *)
(***************************************************************************)
EXTENDS EntityResolution

CONSTANTS
  Threads,
  None,
  MaxEntities,  \* bound on the entities created
  Kinds,        \* bound on the kinds of mention the sentences make
  SharedKinds   \* and on those of turns that overlap, or of a second user

ASSUME ThreadsAssumption == None \notin Threads

ASSUME EntitiesAssumption == MaxEntities \in Nat

VARIABLES
  db,       \* what is committed: entities, principal bindings, relation.owns, claims
  draft,    \* what the unit of work that holds the lock sees
  holder,   \* who holds the write lock
  session,  \* the stored personal context of each user's conversation
  pc, user, mention, owning,
  seen,     \* the ids of the InMemoryEntityLookup
  ctx,      \* the ResolutionContext
  found,    \* the EntityResolution
  mixed     \* users that two turns were run for at once (history)

turn == <<pc, user, mention, owning, seen, ctx, found>>
vars == <<db, draft, holder, session, turn, mixed>>

Ids    == 1 .. MaxEntities
NoCtx  == [principal |-> 0, owned |-> {}, recent |-> <<>>]
NoOne  == Mention("self", Self, NoType, 0)
EmptyDb == [entities |-> <<>>, bound |-> [u \in Users |-> 0], owns |-> {}, claims |-> {}]
Recents == {s \in UNION {[1 .. n -> Ids] : n \in 0 .. MaxEntities} :
              \A i, j \in 1 .. Len(s) : s[i] = s[j] => i = j}

TypeOK ==
  /\ \A d \in {db, draft} :
       /\ d.entities \in Seq(Entities) /\ Len(d.entities) <= MaxEntities
       /\ d.bound \in [Users -> 0 .. Len(d.entities)]
       /\ d.owns \subseteq (1 .. Len(d.entities)) \X (1 .. Len(d.entities))
       /\ d.claims \subseteq [user : Users, about : 1 .. Len(d.entities), self : BOOLEAN]
  /\ holder \in Threads \cup {None}
  /\ \A u \in Users : session[u] \in Recents
  /\ pc \in [Threads -> {"idle", "hydrate", "ensure", "create", "reload",
                         "resolve", "write", "commit", "save"}]
  /\ \A t \in Threads :
       /\ user[t] \in Users \cup {None}
       /\ mention[t] \in Mentions(Ids)
       /\ seen[t] \subseteq Ids
       /\ ctx[t].principal \in 0 .. MaxEntities
       /\ ctx[t].owned \subseteq Ids /\ ctx[t].recent \in Recents
       /\ found[t].status \in {"resolved", "create", "ambiguous", "unresolved"}
  /\ mixed \subseteq Users

Init ==
  /\ db = EmptyDb /\ draft = EmptyDb /\ holder = None
  /\ session = [u \in Users |-> <<>>]
  /\ pc = [t \in Threads |-> "idle"]
  /\ user = [t \in Threads |-> None]
  /\ mention = [t \in Threads |-> NoOne]
  /\ owning = [t \in Threads |-> FALSE]
  /\ seen = [t \in Threads |-> {}]
  /\ ctx = [t \in Threads |-> NoCtx]
  /\ found = [t \in Threads |-> Unresolved]
  /\ mixed = {}

Goto(t, step) == pc' = [pc EXCEPT ![t] = step]

\* What a SELECT of the thread's sees.
View(t) == IF holder = t THEN draft ELSE db

\* The unit of work is closed: an uncommitted draft is lost.
Release(t) ==
  /\ holder' = IF holder = t THEN None ELSE holder
  /\ draft' = IF holder = t THEN EmptyDb ELSE draft

Forget(t) ==
  /\ Goto(t, "idle")
  /\ user' = [user EXCEPT ![t] = None]
  /\ mention' = [mention EXCEPT ![t] = NoOne]
  /\ owning' = [owning EXCEPT ![t] = FALSE]
  /\ seen' = [seen EXCEPT ![t] = {}]
  /\ ctx' = [ctx EXCEPT ![t] = NoCtx]
  /\ found' = [found EXCEPT ![t] = Unresolved]

-----------------------------------------------------------------------------
(* Faulty variants of definitions below, for mutation runs.                *)

\* all_for_user forgets whose entities are asked for.
VisibleToAll(d, u) == 1 .. Len(d.entities)

\* A first turn creates the principal without looking for a binding.
AlwaysCreates(d, u) == FALSE

-----------------------------------------------------------------------------
\* SqlEntityRepository.all_for_user
Visible(d, u) == {i \in 1 .. Len(d.entities) : d.entities[i].owner = u}

\* Sentences that overlap, and those of a second user, are plain.
Plain(m) == m.kind \in SharedKinds /\ m.type = NoType

Sayable(u, m) ==
  LET busy   == {s \in Threads : pc[s] # "idle"}
      shared == busy # {} \/ mixed # {} \/ \E i \in 1 .. Len(db.entities) : db.entities[i].owner # u
  IN  /\ m.kind \in Kinds
      /\ shared => Plain(m) /\ \A s \in busy : Plain(mention[s])

\* _run_engine loads the session; the interpreter has made of the text one
\* mention, and perhaps the claim that the speaker owns it.
Begin(t, u, m, o) ==
  /\ pc[t] = "idle" /\ Sayable(u, m)
  /\ m.kind = "possessive" => o
  /\ m.kind = "self" => ~ o
  /\ Goto(t, "hydrate")
  /\ user' = [user EXCEPT ![t] = u]
  /\ mention' = [mention EXCEPT ![t] = m]
  /\ owning' = [owning EXCEPT ![t] = o]
  /\ ctx' = [ctx EXCEPT ![t].recent = session[u]]
  /\ mixed' = IF \E s \in Threads : user[s] = u THEN mixed \cup {u} ELSE mixed
  /\ UNCHANGED <<db, draft, holder, session, seen, found>>

\* The speaker is a mention of the sentence, or the kind asks for the binding.
NeedsPrincipal(t) ==
  \/ owning[t]
  \/ mention[t].kind \in {"self", "possessive"}
  \/ mention[t].kind = "contextual" /\ mention[t].type = Vehicle

Hydrate(t) ==
  /\ pc[t] = "hydrate"
  /\ seen' = [seen EXCEPT ![t] = Visible(View(t), user[t])]
  /\ Goto(t, IF NeedsPrincipal(t) THEN "ensure" ELSE "resolve")
  /\ UNCHANGED <<db, draft, holder, session, user, mention, owning, ctx, found, mixed>>

Bound(d, u) == d.bound[u] # 0

\* ensure_principal_entity: is there a binding?
Ensure(t) ==
  /\ pc[t] = "ensure"
  /\ IF Bound(View(t), user[t])
       THEN /\ ctx' = [ctx EXCEPT ![t].principal = View(t).bound[user[t]]]
            /\ Goto(t, "reload")
       ELSE Goto(t, "create") /\ UNCHANGED ctx
  /\ UNCHANGED <<db, draft, holder, session, user, mention, owning, seen, found, mixed>>

\* entities.add and principal_bindings.put, which overwrites a binding it finds.
WithPrincipal(d, u) ==
  [d EXCEPT !.entities = Append(@, [owner |-> u, name |-> Self, type |-> Person]),
            !.bound[u] = Len(d.entities) + 1]

CreatePrincipal(t) ==
  /\ pc[t] = "create" /\ holder = None
  /\ Len(db.entities) < MaxEntities
  /\ holder' = t
  /\ draft' = WithPrincipal(db, user[t])
  /\ ctx' = [ctx EXCEPT ![t].principal = draft'.bound[user[t]]]
  /\ Goto(t, "reload")
  /\ UNCHANGED <<db, session, user, mention, owning, seen, found, mixed>>

\* The entities again, and what the principal owns.
Reload(t) ==
  /\ pc[t] = "reload"
  /\ seen' = [seen EXCEPT ![t] = @ \cup Visible(View(t), user[t])]
  /\ ctx' = [ctx EXCEPT ![t].owned =
               {i \in Ids : <<ctx[t].principal, i>> \in View(t).owns}]
  /\ Goto(t, "resolve")
  /\ UNCHANGED <<db, draft, holder, session, user, mention, owning, found, mixed>>

\* EntityResolver.resolve and the assessment; what is not persistable closes
\* the unit of work.
ResolveMention(t) ==
  /\ pc[t] = "resolve"
  /\ LET res == Resolve([i \in seen[t] |-> View(t).entities[i]], ctx[t], mention[t])
     IN  /\ found' = [found EXCEPT ![t] = res]
         /\ IF Persistable(mention[t], res)
              THEN Goto(t, "write") /\ UNCHANGED <<draft, holder>>
              ELSE Goto(t, "save") /\ Release(t)
  /\ UNCHANGED <<db, session, user, mention, owning, seen, ctx, mixed>>

\* KnowledgeMaterializer._entities
Created(d, u, m, res) ==
  IF res.status = "create"
    THEN [d EXCEPT !.entities = Append(@, NewEntity(u, m, res))]
    ELSE d

\* materialize: the entity, the relation.owns and the claim of the sentence.
\* A vehicle that an attribute or a relation is told of is owned as well,
\* whatever the sentence says of owning: this is among what Begin allows.
Write(t) ==
  /\ pc[t] = "write" /\ holder \in {t, None}
  /\ found[t].status = "create" => Len(View(t).entities) < MaxEntities
  /\ holder' = t
  /\ LET d     == Created(View(t), user[t], mention[t], found[t])
         about == IF found[t].status = "create" THEN Len(d.entities) ELSE found[t].id
         claim == [user |-> user[t], about |-> about, self |-> mention[t].kind = "self"]
     IN  /\ draft' = [d EXCEPT
              !.claims = @ \cup {claim},
              !.owns = @ \cup IF owning[t] THEN {<<ctx[t].principal, about>>} ELSE {}]
         /\ found' = [found EXCEPT ![t] = Resolved(about)]
  /\ Goto(t, "commit")
  /\ UNCHANGED <<db, session, user, mention, owning, seen, ctx, mixed>>

\* commit and _touch_context
Commit(t) ==
  /\ pc[t] = "commit"
  /\ db' = draft
  /\ Release(t)
  /\ ctx' = [ctx EXCEPT ![t].recent =
       IF owning[t] THEN Touched(Touched(@, found[t].id), ctx[t].principal)
                    ELSE Touched(@, found[t].id)]
  /\ Goto(t, "save")
  /\ UNCHANGED <<session, user, mention, owning, seen, found, mixed>>

\* save_engine_session: the whole session as this turn knows it.
Save(t) ==
  /\ pc[t] = "save"
  /\ session' = [session EXCEPT ![user[t]] = ctx[t].recent]
  /\ Forget(t)
  /\ UNCHANGED <<db, draft, holder, mixed>>

\* An exception, SQLITE_BUSY, or the end of the process.
Fail(t) ==
  /\ pc[t] # "idle"
  /\ Forget(t)
  /\ Release(t)
  /\ UNCHANGED <<db, session, mixed>>

Next ==
  \/ \E t \in Threads, u \in Users, o \in BOOLEAN :
       \E m \in Mentions({session[u][k] : k \in 1 .. Len(session[u])}) : Begin(t, u, m, o)
  \/ \E t \in Threads :
       \/ Hydrate(t) \/ Ensure(t) \/ CreatePrincipal(t) \/ Reload(t)
       \/ ResolveMention(t) \/ Write(t) \/ Commit(t) \/ Save(t) \/ Fail(t)

Spec == Init /\ [][Next]_vars

-----------------------------------------------------------------------------
\* No turn of one user, through the lookup, the binding, what is owned or a
\* stored session, says anything about another user's entity; and, whatever
\* turns run at once, a user's principal binding points to an entity that is
\* there, is the user's own and is a principal: the error "principal binding
\* points to missing entity" is never raised.
KnowledgeStaysHome ==
  /\ \A d \in {db, draft} :
       /\ \A c \in d.claims : d.entities[c.about].owner = c.user
       /\ \A o \in d.owns : d.entities[o[1]].owner = d.entities[o[2]].owner
       /\ \A u \in Users : d.bound[u] # 0 =>
            /\ d.bound[u] <= Len(d.entities)
            /\ d.entities[d.bound[u]] = [owner |-> u, name |-> Self, type |-> Person]
  /\ \A u \in Users : \A k \in 1 .. Len(session[u]) :
       db.entities[session[u][k]].owner = u

\* Unless two turns of the user overlap, everything a user has said of himself
\* is said of the bound entity, where the questions of later turns look for it:
\* ensure_principal_entity is idempotent.
SelfIsOne ==
  \A c \in db.claims :
    c.self /\ c.user \notin mixed => c.about = db.bound[c.user]

\* Name is the identity key, with one exception: unless two turns of the user
\* overlap, a user has no two entities of one name, and no two anonymous
\* possessions of one type, that no later sentence can tell apart.  The exception
\* is "o carro" of a user who owns no vehicle: it is made under that word each
\* time it is mentioned, until one of them is owned; then no further one is.
\* And a type hint ranks, it does not filter: what a bare name refers to, the
\* name with any hint refers to.
NameIsTheKey ==
  /\ \A i, j \in 1 .. Len(db.entities) :
       LET a == db.entities[i] b == db.entities[j]
       IN  (i # j /\ a.owner = b.owner /\ a.owner \notin mixed
              /\ a.name = b.name /\ a.name # Car) =>
             a.name = Anonymous /\ a.type # b.type
  /\ \A u \in Users, n \in Names, y \in Types :
       LET known == [i \in Visible(db, u) |-> db.entities[i]]
           bare  == Resolve(known, NoCtx, Mention("named", n, NoType, 0))
           hint  == Resolve(known, NoCtx, Mention("named", n, y, 0))
       IN  /\ bare.status = "resolved" => hint = bare
           /\ bare.status = "ambiguous" => hint.status # "create"
  /\ \A u \in Users :
       LET known == [i \in Visible(db, u) |-> db.entities[i]]
           owned == {i \in Visible(db, u) : <<db.bound[u], i>> \in db.owns}
           mine  == [principal |-> db.bound[u], owned |-> owned, recent |-> session[u]]
           car   == Resolve(known, mine, Mention("contextual", Car, Vehicle, 0))
       IN  (\E i \in owned : db.entities[i].type = Vehicle) => car.status # "create"
===============================================================================
