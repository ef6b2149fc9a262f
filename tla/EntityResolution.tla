---------------------------- MODULE EntityResolution ----------------------------
(***************************************************************************)
(* EntityResolver.resolve: what a mention in a sentence refers to, given   *)
(* the entities the turn has loaded and the context of the user's session. *)
(* An entity is told apart by owner, canonical name and type; aliases are  *)
(* left out, being looked up as names are; a type is Root, the vehicle     *)
(* type or another child of Root.                                          *)
(***************************************************************************)
EXTENDS Integers, Sequences, FiniteSets

CONSTANTS
  Users,
  Names,     \* canonical names a mention can use
  Types,
  Root,      \* the type every other descends from
  Vehicle,
  NoType,    \* a mention without a hint that resolves to a type
  Person,    \* entity.person
  Self,      \* PRINCIPAL_CANONICAL_NAME
  Anonymous, \* anonymous_owned_name with its random suffix
  Car        \* a word of _VEHICLE_CONTEXT_LEXEMES

ASSUME TypesAssumption ==
  /\ {Root, Vehicle, Person} \subseteq Types /\ NoType \notin Types
  /\ {Self, Anonymous, Car} \cap Names = {}
  /\ Self # Anonymous /\ Self # Car /\ Anonymous # Car

Entities == [owner : Users, name : Names \cup {Self, Anonymous, Car}, type : Types]

Mention(kind, name, type, id) == [kind |-> kind, name |-> name, type |-> type, id |-> id]

\* is_self_entity_mention, a name, "meu X", "o X", and an id from the discourse.
Mentions(ids) ==
  {Mention("self", Self, NoType, 0)}
  \cup {Mention("named", n, y, 0) : n \in Names, y \in Types \cup {NoType}}
  \cup {Mention("possessive", Anonymous, y, 0) : y \in Types \cup {NoType}}
  \cup {Mention("contextual", n, y, 0) : n \in {Anonymous, Car}, y \in Types \cup {NoType}}
  \cup {Mention("id", Anonymous, NoType, i) : i \in ids}

Resolved(i)    == [status |-> "resolved", id |-> i, type |-> NoType]
Create(type)   == [status |-> "create", id |-> 0, type |-> type]
Ambiguous      == [status |-> "ambiguous", id |-> 0, type |-> NoType]
Unresolved     == [status |-> "unresolved", id |-> 0, type |-> NoType]

\* The one member of a set of candidates, or what to do when it is not one.
TheOne(ids, none) ==
  IF Cardinality(ids) = 1 THEN Resolved(CHOOSE i \in ids : TRUE)
  ELSE IF ids = {} THEN none ELSE Ambiguous

\* _type_evidence: the type itself or a descendant.
TypeMatch(type, hint) == hint # NoType /\ (type = hint \/ hint = Root)

\* Faulty variant of FromNamed: the hint filters the candidates.
HintFilters(seen, ctx, m) ==
  LET named == {i \in DOMAIN seen : seen[i].name = m.name /\
                                    (m.type = NoType \/ TypeMatch(seen[i].type, m.type))}
  IN  TheOne(named, IF m.type = NoType THEN Unresolved ELSE Create(m.type))

\* The name is the identity; among several, the hint may single one out.
FromNamed(seen, ctx, m) ==
  LET named == {i \in DOMAIN seen : seen[i].name = m.name}
      typed == {i \in named : TypeMatch(seen[i].type, m.type)}
  IN  IF Cardinality(named) > 1 /\ Cardinality(typed) = 1 THEN TheOne(typed, Ambiguous)
      ELSE TheOne(named, IF m.type = NoType THEN Unresolved ELSE Create(m.type))

FromPrincipal(seen, ctx, m) ==
  IF ctx.principal \in DOMAIN seen THEN Resolved(ctx.principal) ELSE Unresolved

\* possessive(type=T): what the principal owns of that type.
FromPossessive(seen, ctx, m) ==
  IF m.type = NoType THEN Unresolved
  ELSE TheOne({i \in ctx.owned \cap DOMAIN seen : TypeMatch(seen[i].type, m.type)},
              Create(m.type))

\* The last mention of an entity of exactly this type: last_by_type_id.
LastOfType(seen, recent, type) ==
  {recent[k] : k \in {k \in 1 .. Len(recent) :
     /\ recent[k] \in DOMAIN seen /\ seen[recent[k]].type = type
     /\ \A j \in k + 1 .. Len(recent) :
          recent[j] \in DOMAIN seen => seen[recent[j]].type # type}}

\* "o carro": one of the principal's vehicles, the recent one of several.
FromOwnedVehicle(seen, ctx, m) ==
  LET owned  == {i \in ctx.owned \cap DOMAIN seen :
                   seen[i].type = Vehicle /\ TypeMatch(seen[i].type, m.type)}
      last   == LastOfType(seen, ctx.recent, m.type) \cap owned
      recent == {ctx.recent[k] : k \in 1 .. Len(ctx.recent)} \cap owned
  IN  IF Cardinality(owned) <= 1 THEN TheOne(owned, Create(m.type))
      ELSE IF last # {} THEN TheOne(last, Ambiguous)
      ELSE IF Cardinality(recent) = 1 THEN TheOne(recent, Ambiguous)
      ELSE Ambiguous

FromContext(seen, ctx, m) ==
  IF m.name = Car /\ m.type = Vehicle THEN FromOwnedVehicle(seen, ctx, m)
  ELSE IF m.type = NoType THEN Unresolved
  ELSE TheOne({i \in {ctx.recent[k] : k \in 1 .. Len(ctx.recent)} \cap DOMAIN seen :
                 TypeMatch(seen[i].type, m.type)}, Unresolved)

\* An id the user cannot see raises ForeignEntityError: the turn fails.
Resolve(seen, ctx, m) ==
  CASE m.kind = "id"         -> IF m.id \in DOMAIN seen THEN Resolved(m.id) ELSE Unresolved
    [] m.kind = "self"       -> FromPrincipal(seen, ctx, m)
    [] m.kind = "possessive" -> FromPossessive(seen, ctx, m)
    [] m.kind = "contextual" -> FromContext(seen, ctx, m)
    [] m.kind = "named"      -> FromNamed(seen, ctx, m)

\* ValidationResult of the bindings: what is created from a context must be
\* owned or a vehicle; what is ambiguous or unresolved is not persistable.
Persistable(m, res) ==
  \/ res.status = "resolved"
  \/ /\ res.status = "create"
     /\ m.kind = "contextual" => res.type = Vehicle

\* Materialized: the name of what a create_candidate becomes.
NewEntity(user, m, res) == [owner |-> user, name |-> m.name, type |-> res.type]

\* PersonalContext.record_mention, as far as it is read: the order of the last
\* mentions. What was mentioned before, at one place, becomes the last.
Touched(recent, i) ==
  IF \E k \in 1 .. Len(recent) : recent[k] = i
    THEN LET k == CHOOSE k \in 1 .. Len(recent) : recent[k] = i
         IN  Append(SubSeq(recent, 1, k - 1) \o SubSeq(recent, k + 1, Len(recent)), i)
    ELSE Append(recent, i)
===============================================================================
