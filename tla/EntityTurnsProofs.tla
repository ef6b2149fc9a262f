------------------------- MODULE EntityTurnsProofs -------------------------
(***************************************************************************)
(* Theorems about EntityTurns for every set of threads, users, names and   *)
(* types and every number of entities.                                     *)
(***************************************************************************)
EXTENDS EntityTurns, FiniteSetTheorems, SequenceTheorems, TLAPS

-----------------------------------------------------------------------------
(* What a mention resolves to.                                             *)

\* What a sentence can mention, whatever the session it is said in remembers.
Sentences ==
  {m \in [kind : {"self", "named", "possessive", "contextual", "id"},
          name : Names \cup {Self, Anonymous, Car}, type : Types \cup {NoType}, id : Nat] :
     /\ m.kind = "self" => m.name = Self
     /\ m.kind = "named" => m.name \in Names
     /\ m.kind = "possessive" => m.name = Anonymous
     /\ m.kind = "contextual" => m.name \in {Anonymous, Car}}

Contexts == [principal : Nat, owned : SUBSET Nat, recent : Seq(Nat)]

Outcomes == [status : {"resolved", "create", "ambiguous", "unresolved"},
             id : Nat, type : Types \cup {NoType}]

LEMMA MentionsAreSentences == ASSUME NEW ids \in SUBSET Nat PROVE Mentions(ids) \subseteq Sentences
  BY TypesAssumption DEF Mentions, Mention, Sentences

\* The one candidate, what to do without candidates, or a question.
LEMMA TheOneFacts ==
  ASSUME NEW ids, NEW none
  PROVE  \/ ids = {} /\ TheOne(ids, none) = none
         \/ ids # {} /\ TheOne(ids, none) = Ambiguous
         \/ \E i \in ids : TheOne(ids, none) = Resolved(i)
  <1>1. Cardinality({}) = 0
    BY FS_EmptySet
  <1>2. CASE ids = {}
    BY <1>1, <1>2 DEF TheOne
  <1>3. CASE ids # {} /\ Cardinality(ids) = 1
    <2>1. (CHOOSE i \in ids : TRUE) \in ids
      BY <1>3
    <2>2. QED
      BY <1>3, <2>1 DEF TheOne
  <1>4. CASE ids # {} /\ Cardinality(ids) # 1
    BY <1>4 DEF TheOne
  <1>5. QED
    BY <1>2, <1>3, <1>4

\* The four outcomes, told apart by their status.
LEMMA OutcomeFacts ==
  /\ \A i \in Nat : /\ Resolved(i) \in Outcomes
                    /\ Resolved(i).status = "resolved" /\ Resolved(i).id = i
  /\ \A y \in Types : /\ Create(y) \in Outcomes
                       /\ Create(y).status = "create" /\ Create(y).type = y
  /\ Ambiguous \in Outcomes /\ Ambiguous.status = "ambiguous"
  /\ Unresolved \in Outcomes /\ Unresolved.status = "unresolved"
  BY DEF Outcomes, Resolved, Create, Ambiguous, Unresolved

\* The entities of a turn's lookup.
Lookup(S, e) == [i \in S |-> e[i]]

\* What the five ways of mentioning something can come to. A mention resolves
\* to an entity the lookup has; what is created was not found.
Meant(res, S, e, c, m) ==
  /\ res \in Outcomes
  /\ res.status = "resolved" => res.id \in S
  /\ res.status = "create" =>
       /\ res.type = m.type /\ res.type \in Types
       /\ m.kind \in {"named", "possessive", "contextual"}
       /\ m.kind = "named" => \A i \in S : e[i].name # m.name
       /\ m.kind = "possessive" => \A i \in c.owned \cap S : e[i].type # m.type
       /\ m.kind = "contextual" => m.name = Car
  /\ res.status = "resolved" /\ m.kind = "self" => res.id = c.principal

LEMMA ResolveFacts ==
  ASSUME NEW S \in SUBSET Nat, NEW e, NEW c \in Contexts, NEW m \in Sentences
  PROVE  Meant(Resolve(Lookup(S, e), c, m), S, e, c, m)
  <1> DEFINE res == Resolve(Lookup(S, e), c, m)
  <1> DEFINE known == Lookup(S, e)
  <1>0. /\ DOMAIN known = S /\ \A i \in S : known[i] = e[i]
        /\ m.type \in Types \cup {NoType} /\ NoType \notin Types
    BY TypesAssumption DEF Sentences, Lookup
  <1>1. CASE m.kind = "id"
    <2>1. res = IF m.id \in S THEN Resolved(m.id) ELSE Unresolved
      BY <1>0, <1>1 DEF Resolve
    <2>2. QED
      <3>1. res = Unresolved \/ (m.id \in S /\ res = Resolved(m.id))
        BY <2>1
      <3>2. QED
        BY <3>1, <1>1, OutcomeFacts DEF Meant
  <1>2. CASE m.kind = "self"
    <2>1. res = IF c.principal \in S THEN Resolved(c.principal) ELSE Unresolved
      BY <1>0, <1>2 DEF Resolve, FromPrincipal
    <2>2. QED
      <3>1. res = Unresolved \/ (c.principal \in S /\ res = Resolved(c.principal))
        BY <2>1
      <3>2. QED
        BY <3>1, <1>2, OutcomeFacts DEF Meant
  <1>3. CASE m.kind = "named"
    <2> DEFINE named == {i \in DOMAIN known : known[i].name = m.name}
               typed == {i \in named : TypeMatch(known[i].type, m.type)}
               none == IF m.type = NoType THEN Unresolved ELSE Create(m.type)
    <2>1. res = TheOne(named, none) \/ res = TheOne(typed, Ambiguous)
      BY <1>3 DEF Resolve, FromNamed
    <2>2. named \subseteq S /\ typed \subseteq S
      BY <1>0
    <2>3. \/ res \in {Ambiguous, none}
          \/ \E i \in S : res = Resolved(i)
      <3> HIDE DEF named, typed, none
      <3> QED BY <2>1, <2>2, TheOneFacts
    <2>4. res = none /\ none # Unresolved => named = {}
      <3>1. CASE res = TheOne(named, none)
        <4>1. none # Ambiguous /\ \A i \in named : none # Resolved(i)
          BY DEF Ambiguous, Resolved, Unresolved, Create
        <4>2. \/ named = {} /\ res = none
              \/ named # {} /\ res = Ambiguous
              \/ \E i \in named : res = Resolved(i)
          <5> HIDE DEF named, none
          <5> QED BY <3>1, TheOneFacts
        <4> HIDE DEF named, typed, none
        <4> QED BY <4>1, <4>2
      <3>2. CASE res = TheOne(typed, Ambiguous)
        <4>1. none # Ambiguous /\ \A i \in typed : none # Resolved(i)
          BY DEF Ambiguous, Resolved, Unresolved, Create
        <4>2. res = Ambiguous \/ \E i \in typed : res = Resolved(i)
          <5> HIDE DEF typed
          <5> QED BY <3>2, TheOneFacts
        <4> HIDE DEF named, typed, none
        <4> QED BY <4>1, <4>2
      <3>3. QED
        BY <2>1, <3>1, <3>2
    <2>5. named = {} => \A i \in S : e[i].name # m.name
      BY <1>0
    <2>6. QED
      <3>1. CASE res = Ambiguous \/ \E i \in S : res = Resolved(i)
        BY <3>1, <1>3, OutcomeFacts DEF Meant
      <3>2. CASE res = none /\ none # Unresolved
        <4>1. m.type \in Types /\ res = Create(m.type)
          BY <3>2, <1>0
        <4>2. \A i \in S : e[i].name # m.name
          <5> HIDE DEF named, none
          <5> QED BY <3>2, <2>4, <2>5
        <4>3. QED
          BY <4>1, <4>2, <1>3, OutcomeFacts DEF Meant
      <3>3. CASE res = Unresolved
        BY <3>3, OutcomeFacts DEF Meant
      <3> HIDE DEF none
      <3> QED BY <2>3, <3>1, <3>2, <3>3
  <1>4. CASE m.kind = "possessive"
    <2> DEFINE owned == {i \in c.owned \cap DOMAIN known : TypeMatch(known[i].type, m.type)}
    <2>1. res = IF m.type = NoType THEN Unresolved ELSE TheOne(owned, Create(m.type))
      BY <1>4 DEF Resolve, FromPossessive
    <2>2. owned \subseteq S /\ (owned = {} /\ m.type # NoType =>
                                  \A i \in c.owned \cap S : e[i].type # m.type)
      BY <1>0 DEF TypeMatch
    <2>3. \/ res \in {Ambiguous, Unresolved}
          \/ m.type # NoType /\ owned = {} /\ res = Create(m.type)
          \/ \E i \in S : res = Resolved(i)
      <3> HIDE DEF owned
      <3> QED BY <2>1, <2>2, TheOneFacts
    <2>4. QED
      <3> HIDE DEF owned
      <3>1. CASE res \in {Ambiguous, Unresolved} \/ \E i \in S : res = Resolved(i)
        BY <3>1, <1>4, OutcomeFacts DEF Meant
      <3>2. CASE m.type # NoType /\ owned = {} /\ res = Create(m.type)
        BY <3>2, <2>2, <1>0, <1>4, OutcomeFacts DEF Meant
      <3>3. QED
        BY <2>3, <3>1, <3>2
  <1>5. CASE m.kind = "contextual"
    <2>1. res = FromContext(known, c, m)
      BY <1>5 DEF Resolve
    <2>2. \/ res \in {Ambiguous, Unresolved}
          \/ m.name = Car /\ m.type \in Types /\ res = Create(m.type)
          \/ \E i \in S : res = Resolved(i)
      <3>1. CASE m.name = Car /\ m.type = Vehicle
        <4> DEFINE owned == {i \in c.owned \cap DOMAIN known :
                               known[i].type = Vehicle /\ TypeMatch(known[i].type, m.type)}
                   last == LastOfType(known, c.recent, m.type) \cap owned
                   recent == {c.recent[k] : k \in 1 .. Len(c.recent)} \cap owned
        <4>1. res \in {TheOne(owned, Create(m.type)), TheOne(last, Ambiguous),
                       TheOne(recent, Ambiguous), Ambiguous}
          BY <2>1, <3>1 DEF FromContext, FromOwnedVehicle
        <4>2. owned \subseteq S /\ last \subseteq owned /\ recent \subseteq owned
          BY <1>0
        <4>3. m.type \in Types
          BY <3>1, TypesAssumption
        <4> HIDE DEF owned, last, recent
        <4> QED BY <3>1, <4>1, <4>2, <4>3, TheOneFacts
      <3>2. CASE ~(m.name = Car /\ m.type = Vehicle)
        <4> DEFINE near == {i \in {c.recent[k] : k \in 1 .. Len(c.recent)} \cap DOMAIN known :
                              TypeMatch(known[i].type, m.type)}
        <4>1. res \in {Unresolved, TheOne(near, Unresolved)}
          BY <2>1, <3>2 DEF FromContext
        <4>2. near \subseteq S
          BY <1>0
        <4> HIDE DEF near
        <4> QED BY <4>1, <4>2, TheOneFacts
      <3>3. QED
        BY <3>1, <3>2
    <2>3. QED
      BY <2>2, <1>5, OutcomeFacts DEF Meant
  <1>6. QED
    BY <1>1, <1>2, <1>3, <1>4, <1>5 DEF Sentences

\* What was mentioned before or is mentioned now.
LEMMA TouchedFacts ==
  ASSUME NEW s \in Seq(Nat), NEW i \in Nat
  PROVE  /\ Touched(s, i) \in Seq(Nat)
         /\ \A k \in 1 .. Len(Touched(s, i)) :
              \/ Touched(s, i)[k] = i
              \/ \E j \in 1 .. Len(s) : Touched(s, i)[k] = s[j]
  <1>1. CASE \E k \in 1 .. Len(s) : s[k] = i
    <2> DEFINE p == CHOOSE k \in 1 .. Len(s) : s[k] = i
               a == SubSeq(s, 1, p - 1)
               b == SubSeq(s, p + 1, Len(s))
    <2>1. Touched(s, i) = Append(a \o b, i)
      BY <1>1 DEF Touched
    <2>2. p \in 1 .. Len(s) /\ Len(s) \in Nat
      BY <1>1
    <2> HIDE DEF p
    <2>3. /\ a \in Seq(Nat) /\ Len(a) = p - 1
          /\ \A k \in 1 .. Len(a) : a[k] = s[k]
      BY <2>2, SubSeqProperties
    <2>4. /\ b \in Seq(Nat) /\ Len(b) = Len(s) - p
          /\ \A k \in 1 .. Len(b) : b[k] = s[p + k]
      BY <2>2, SubSeqProperties
    <2> HIDE DEF a, b
    <2>5. /\ a \o b \in Seq(Nat)
          /\ \A k \in 1 .. Len(a \o b) : \E j \in 1 .. Len(s) : (a \o b)[k] = s[j]
      <3>1. /\ a \o b \in Seq(Nat) /\ Len(a \o b) = Len(a) + Len(b)
            /\ \A k \in 1 .. Len(a) + Len(b) :
                 (a \o b)[k] = IF k <= Len(a) THEN a[k] ELSE b[k - Len(a)]
        BY <2>3, <2>4, ConcatProperties
      <3>2. ASSUME NEW k \in 1 .. Len(a \o b)
            PROVE  \E j \in 1 .. Len(s) : (a \o b)[k] = s[j]
        <4>1. CASE k <= Len(a)
          <5>1. (a \o b)[k] = s[k] /\ k \in 1 .. Len(s)
            BY <3>1, <4>1, <2>2, <2>3, <2>4
          <5>2. QED
            BY <5>1
        <4>2. CASE ~ k <= Len(a)
          <5>1. Len(a) \in Nat /\ Len(b) \in Nat /\ k \in Nat
            BY <3>1, <2>2, <2>3, <2>4
          <5>2. k \in 1 .. Len(a) + Len(b)
            BY <3>1
          <5>3. (a \o b)[k] = b[k - Len(a)]
            BY <3>1, <4>2, <5>2
          <5>4. k - Len(a) \in 1 .. Len(b)
            BY <5>1, <5>2, <4>2
          <5>5. PICK n \in 1 .. Len(b) : n = k - Len(a)
            BY <5>4
          <5>6. b[n] = s[p + n] /\ p + n \in 1 .. Len(s)
            BY <2>2, <2>4
          <5>7. QED
            BY <5>3, <5>5, <5>6
        <4>3. QED
          BY <4>1, <4>2
      <3>3. QED
        BY <3>1, <3>2
    <2>6. QED
      BY <2>1, <2>5
  <1>2. CASE ~ \E k \in 1 .. Len(s) : s[k] = i
    BY <1>2 DEF Touched
  <1>3. QED
    BY <1>1, <1>2

-----------------------------------------------------------------------------
(* The database.                                                           *)

Dbs == [entities : Seq(Entities), bound : [Users -> Nat],
        owns : SUBSET (Nat \X Nat), claims : SUBSET [user : Users, about : Nat, self : BOOLEAN]]

Principal(u) == [owner |-> u, name |-> Self, type |-> Person]

\* The entity i is there and is u's.
Home(d, u, i) == i \in 1 .. Len(d.entities) /\ d.entities[i].owner = u

\* A claim is about the speaker's entity, an owner and what he owns belong to
\* one user, and a binding points to the user's principal.
HomeDb(d) ==
  /\ \A c \in d.claims : Home(d, c.user, c.about)
  /\ \A o \in d.owns : \E u \in Users : Home(d, u, o[1]) /\ Home(d, u, o[2])
  /\ \A u \in Users : d.bound[u] # 0 =>
       Home(d, u, d.bound[u]) /\ d.entities[d.bound[u]] = Principal(u)

\* Entities are only added.
Grown(d, e) ==
  /\ Len(d.entities) <= Len(e.entities)
  /\ \A i \in 1 .. Len(d.entities) : e.entities[i] = d.entities[i]

\* What a turn writes beside the entity: a claim and a relation.owns.
Told(d, claim, pairs) == [d EXCEPT !.claims = @ \cup {claim}, !.owns = @ \cup pairs]

\* entities.add
WithEntity(d, x) == [d EXCEPT !.entities = Append(@, x)]

LEMMA HomeGrows ==
  ASSUME NEW d \in Dbs, NEW e \in Dbs, Grown(d, e), NEW u, NEW i, Home(d, u, i)
  PROVE  Home(e, u, i)
  <1>1. Len(d.entities) \in Nat /\ Len(e.entities) \in Nat
    BY DEF Dbs
  <1>2. QED
    BY <1>1 DEF Grown, Home

LEMMA GrownFacts ==
  /\ \A d \in Dbs : Grown(d, d) /\ Grown(EmptyDb, d)
  /\ \A d, e, f \in Dbs : Grown(d, e) /\ Grown(e, f) => Grown(d, f)
  <1>1. \A d \in Dbs : Len(d.entities) \in Nat
    BY DEF Dbs
  <1>2. EmptyDb.entities = <<>>
    BY DEF EmptyDb
  <1>3. ASSUME NEW d \in Dbs PROVE Grown(d, d) /\ Grown(EmptyDb, d)
    BY <1>1, <1>2 DEF Grown
  <1>4. ASSUME NEW d \in Dbs, NEW e \in Dbs, NEW f \in Dbs, Grown(d, e), Grown(e, f)
        PROVE  Grown(d, f)
    BY <1>1, <1>4 DEF Grown
  <1>5. QED
    BY <1>3, <1>4

LEMMA EmptyDbFacts == EmptyDb \in Dbs /\ Len(EmptyDb.entities) = 0 /\ HomeDb(EmptyDb)
  BY DEF EmptyDb, Dbs, HomeDb

LEMMA EntityFacts ==
  ASSUME NEW d \in Dbs, NEW x \in Entities
  PROVE  /\ WithEntity(d, x) \in Dbs
         /\ WithEntity(d, x).entities = Append(d.entities, x)
         /\ WithEntity(d, x).bound = d.bound
         /\ WithEntity(d, x).owns = d.owns
         /\ WithEntity(d, x).claims = d.claims
         /\ Len(WithEntity(d, x).entities) = Len(d.entities) + 1
         /\ WithEntity(d, x).entities[Len(d.entities) + 1] = x
         /\ Grown(d, WithEntity(d, x))
  <1>1. /\ WithEntity(d, x).entities = Append(d.entities, x)
        /\ WithEntity(d, x).bound = d.bound
        /\ WithEntity(d, x).owns = d.owns
        /\ WithEntity(d, x).claims = d.claims
    BY DEF WithEntity, Dbs
  <1>2. WithEntity(d, x) \in Dbs
    <2>1. Append(d.entities, x) \in Seq(Entities)
      BY DEF Dbs
    <2> DEFINE a == Append(d.entities, x)
    <2> HIDE DEF a
    <2>2. WithEntity(d, x) = [d EXCEPT !.entities = a]
      BY DEF WithEntity, a
    <2>3. a \in Seq(Entities)
      BY <2>1 DEF a
    <2>4. QED
      BY <2>2, <2>3 DEF Dbs
  <1>3. d.entities \in Seq(Entities)
    BY DEF Dbs
  <1>4. /\ Len(Append(d.entities, x)) = Len(d.entities) + 1
        /\ Append(d.entities, x)[Len(d.entities) + 1] = x
        /\ \A i \in 1 .. Len(d.entities) : Append(d.entities, x)[i] = d.entities[i]
    BY <1>3
  <1>5. QED
    BY <1>1, <1>2, <1>3, <1>4 DEF Grown

LEMMA PrincipalFacts ==
  ASSUME NEW d \in Dbs, NEW u \in Users
  PROVE  /\ Principal(u) \in Entities
         /\ WithPrincipal(d, u) \in Dbs
         /\ Len(WithPrincipal(d, u).entities) = Len(d.entities) + 1
         /\ WithPrincipal(d, u).entities = WithEntity(d, Principal(u)).entities
         /\ WithPrincipal(d, u).bound = [d.bound EXCEPT ![u] = Len(d.entities) + 1]
         /\ WithPrincipal(d, u).owns = d.owns
         /\ WithPrincipal(d, u).claims = d.claims
         /\ Grown(d, WithPrincipal(d, u))
  <1>1. Principal(u) \in Entities
    BY TypesAssumption DEF Principal, Entities
  <1>2. /\ WithPrincipal(d, u).entities = Append(d.entities, Principal(u))
        /\ WithPrincipal(d, u).bound = [d.bound EXCEPT ![u] = Len(d.entities) + 1]
        /\ WithPrincipal(d, u).owns = d.owns
        /\ WithPrincipal(d, u).claims = d.claims
    BY DEF WithPrincipal, Principal, Dbs
  <1>3. WithPrincipal(d, u) \in Dbs
    <2>1. /\ Append(d.entities, Principal(u)) \in Seq(Entities)
          /\ [d.bound EXCEPT ![u] = Len(d.entities) + 1] \in [Users -> Nat]
      BY <1>1 DEF Dbs
    <2> DEFINE a == Append(d.entities, Principal(u))
               b == [d.bound EXCEPT ![u] = Len(d.entities) + 1]
    <2> HIDE DEF a, b
    <2>2. WithPrincipal(d, u) = [d EXCEPT !.entities = a, !.bound = b]
      BY DEF WithPrincipal, Principal, Dbs, a, b
    <2>3. a \in Seq(Entities) /\ b \in [Users -> Nat]
      BY <2>1 DEF a, b
    <2>4. QED
      BY <2>2, <2>3 DEF Dbs
  <1>4. /\ Grown(d, WithEntity(d, Principal(u)))
        /\ WithEntity(d, Principal(u)).entities = Append(d.entities, Principal(u))
        /\ Len(WithEntity(d, Principal(u)).entities) = Len(d.entities) + 1
    BY <1>1, EntityFacts
  <1>5. QED
    BY <1>1, <1>2, <1>3, <1>4 DEF Grown

LEMMA ToldFacts ==
  ASSUME NEW d \in Dbs, NEW claim \in [user : Users, about : Nat, self : BOOLEAN],
         NEW pairs \in SUBSET (Nat \X Nat)
  PROVE  /\ Told(d, claim, pairs) \in Dbs
         /\ Told(d, claim, pairs).entities = d.entities
         /\ Told(d, claim, pairs).bound = d.bound
         /\ Told(d, claim, pairs).owns = d.owns \cup pairs
         /\ Told(d, claim, pairs).claims = d.claims \cup {claim}
         /\ Grown(d, Told(d, claim, pairs))
  <1>1. /\ Told(d, claim, pairs).entities = d.entities
        /\ Told(d, claim, pairs).bound = d.bound
        /\ Told(d, claim, pairs).owns = d.owns \cup pairs
        /\ Told(d, claim, pairs).claims = d.claims \cup {claim}
    BY DEF Told, Dbs
  <1>2. Told(d, claim, pairs) \in Dbs
    BY DEF Told, Dbs
  <1>3. QED
    BY <1>1, <1>2 DEF Grown, Dbs

\* A database that grows without new claims, pairs or bindings stays home.
LEMMA HomeDbGrows ==
  ASSUME NEW d \in Dbs, NEW e \in Dbs, Grown(d, e), HomeDb(d),
         \A c \in e.claims : c \in d.claims \/ Home(e, c.user, c.about),
         \A o \in e.owns : o \in d.owns \/ \E u \in Users : Home(e, u, o[1]) /\ Home(e, u, o[2]),
         \A u \in Users : \/ e.bound[u] = d.bound[u]
                          \/ Home(e, u, e.bound[u]) /\ e.entities[e.bound[u]] = Principal(u)
  PROVE  HomeDb(e)
  <1>1. ASSUME NEW c \in e.claims PROVE Home(e, c.user, c.about)
    BY HomeGrows DEF HomeDb
  <1>2. ASSUME NEW o \in e.owns
        PROVE  \E u \in Users : Home(e, u, o[1]) /\ Home(e, u, o[2])
    BY HomeGrows DEF HomeDb
  <1>3. ASSUME NEW u \in Users, e.bound[u] # 0
        PROVE  Home(e, u, e.bound[u]) /\ e.entities[e.bound[u]] = Principal(u)
    <2>1. CASE e.bound[u] = d.bound[u]
      <3>1. Home(d, u, d.bound[u]) /\ d.entities[d.bound[u]] = Principal(u)
        BY <1>3, <2>1 DEF HomeDb
      <3>2. Home(e, u, d.bound[u])
        BY <3>1, HomeGrows
      <3>3. e.entities[d.bound[u]] = d.entities[d.bound[u]]
        BY <3>1 DEF Home, Grown
      <3>4. QED
        BY <2>1, <3>1, <3>2, <3>3
    <2>2. QED
      BY <2>1
  <1>4. QED
    BY <1>1, <1>2, <1>3 DEF HomeDb

-----------------------------------------------------------------------------
(* Type correctness.                                                       *)

Steps == {"idle", "hydrate", "ensure", "create", "reload", "resolve", "write", "commit", "save"}

\* What the thread is about to write was resolved, or may be created.
Writable(t) ==
  \/ found[t].status = "resolved"
  \/ found[t].status = "create" /\ found[t].type \in Types

DbTypes ==
  /\ db \in Dbs /\ Len(db.entities) <= MaxEntities
  /\ draft \in Dbs /\ Len(draft.entities) <= MaxEntities
  /\ holder \in Threads \cup {None}

TurnTypes ==
  /\ session \in [Users -> Seq(Nat)]
  /\ pc \in [Threads -> Steps]
  /\ user \in [Threads -> Users \cup {None}]
  /\ mention \in [Threads -> Sentences]
  /\ owning \in [Threads -> BOOLEAN]
  /\ seen \in [Threads -> SUBSET Nat]
  /\ ctx \in [Threads -> Contexts]
  /\ found \in [Threads -> Outcomes]
  /\ \A t \in Threads : /\ pc[t] # "idle" => user[t] \in Users
                        /\ pc[t] = "write" => Writable(t)

TypeInv == DbTypes /\ TurnTypes

\* What the unit of work of t holds after it has written.
Base(t)  == Created(View(t), user[t], mention[t], found[t])
About(t) == IF found[t].status = "create" THEN Len(Base(t).entities) ELSE found[t].id
Claim(t) == [user |-> user[t], about |-> About(t), self |-> mention[t].kind = "self"]
Pairs(t) == IF owning[t] THEN {<<ctx[t].principal, About(t)>>} ELSE {}

LEMMA ViewFacts == ASSUME DbTypes, NEW t \in Threads
                   PROVE View(t) \in Dbs /\ Len(View(t).entities) <= MaxEntities
  BY DEF DbTypes, View

LEMMA NothingFacts == NoOne \in Sentences /\ NoCtx \in Contexts /\ Unresolved \in Outcomes
  BY DEF NoOne, NoCtx, Unresolved, Sentences, Contexts, Outcomes, Mention

LEMMA ResolvedFacts ==
  ASSUME TypeInv, NEW t \in Threads
  PROVE  Meant(Resolve(Lookup(seen[t], View(t).entities), ctx[t], mention[t]),
               seen[t], View(t).entities, ctx[t], mention[t])
  <1>1. seen[t] \in SUBSET Nat /\ ctx[t] \in Contexts /\ mention[t] \in Sentences
    BY DEF TypeInv, TurnTypes
  <1>2. QED
    BY <1>1, ResolveFacts

LEMMA WriteFacts ==
  ASSUME TypeInv, NEW t \in Threads, Write(t)
  PROVE  /\ View(t) \in Dbs /\ Base(t) \in Dbs /\ Grown(View(t), Base(t))
         /\ \/ found[t].status = "resolved" /\ Base(t) = View(t) /\ About(t) = found[t].id
            \/ /\ found[t].status = "create"
               /\ NewEntity(user[t], mention[t], found[t]) \in Entities
               /\ Base(t) = WithEntity(View(t), NewEntity(user[t], mention[t], found[t]))
               /\ About(t) = Len(View(t).entities) + 1
         /\ About(t) \in Nat
         /\ Claim(t) \in [user : Users, about : Nat, self : BOOLEAN]
         /\ Pairs(t) \in SUBSET (Nat \X Nat)
         /\ draft' = Told(Base(t), Claim(t), Pairs(t))
         /\ draft' \in Dbs /\ Len(draft'.entities) <= MaxEntities
         /\ found' = [found EXCEPT ![t] = Resolved(About(t))]
  <1>1. /\ View(t) \in Dbs /\ Len(View(t).entities) \in Nat /\ Len(View(t).entities) <= MaxEntities
        /\ user[t] \in Users /\ mention[t] \in Sentences /\ found[t] \in Outcomes
        /\ ctx[t] \in Contexts /\ Writable(t)
        /\ found[t].status = "create" => Len(View(t).entities) < MaxEntities
    <2>1. View(t) \in Dbs /\ Len(View(t).entities) <= MaxEntities
      BY ViewFacts DEF TypeInv
    <2>2. Len(View(t).entities) \in Nat
      BY <2>1 DEF Dbs
    <2>3. QED
      BY <2>1, <2>2 DEF TypeInv, TurnTypes, Write
  <1>2. \/ found[t].status = "resolved" /\ Base(t) = View(t) /\ About(t) = found[t].id
        \/ /\ found[t].status = "create"
           /\ NewEntity(user[t], mention[t], found[t]) \in Entities
           /\ Base(t) = WithEntity(View(t), NewEntity(user[t], mention[t], found[t]))
           /\ About(t) = Len(View(t).entities) + 1
    <2>1. CASE found[t].status = "resolved"
      BY <2>1 DEF Base, Created, About
    <2>2. CASE found[t].status = "create" /\ found[t].type \in Types
      <3>1. NewEntity(user[t], mention[t], found[t]) \in Entities
        BY <1>1, <2>2 DEF NewEntity, Entities, Sentences
      <3>2. Base(t) = WithEntity(View(t), NewEntity(user[t], mention[t], found[t]))
        BY <2>2 DEF Base, Created, WithEntity
      <3>3. Len(Base(t).entities) = Len(View(t).entities) + 1
        BY <3>1, <3>2, <1>1, EntityFacts
      <3>4. QED
        BY <2>2, <3>1, <3>2, <3>3 DEF About
    <2>3. QED
      BY <1>1, <2>1, <2>2 DEF Writable
  <1>3. Base(t) \in Dbs /\ Grown(View(t), Base(t)) /\ Len(Base(t).entities) <= MaxEntities
    <2>1. CASE Base(t) = View(t)
      BY <1>1, <2>1, GrownFacts
    <2>2. CASE found[t].status # "resolved"
      <3>1. /\ Base(t) \in Dbs /\ Grown(View(t), Base(t))
            /\ Len(Base(t).entities) = Len(View(t).entities) + 1
        BY <1>1, <1>2, <2>2, EntityFacts
      <3>2. QED
        BY <1>1, <1>2, <2>2, <3>1, EntitiesAssumption
    <2>3. QED
      BY <1>2, <2>1, <2>2
  <1>4. About(t) \in Nat
    BY <1>1, <1>2 DEF Outcomes
  <1>5. Claim(t) \in [user : Users, about : Nat, self : BOOLEAN]
    BY <1>1, <1>4 DEF Claim
  <1>6. Pairs(t) \in SUBSET (Nat \X Nat)
    BY <1>1, <1>4 DEF Pairs, Contexts
  <1>7. draft' = Told(Base(t), Claim(t), Pairs(t)) /\ found' = [found EXCEPT ![t] = Resolved(About(t))]
    BY DEF Write, Told, Base, About, Claim, Pairs
  <1>8. draft' \in Dbs /\ draft'.entities = Base(t).entities
    BY <1>3, <1>5, <1>6, <1>7, ToldFacts
  <1>9. QED
    BY <1>1, <1>2, <1>3, <1>4, <1>5, <1>6, <1>7, <1>8

LEMMA InitTypeInv == Init => TypeInv
  <1> SUFFICES ASSUME Init PROVE TypeInv
    OBVIOUS
  <1>1. DbTypes
    BY EmptyDbFacts, EntitiesAssumption DEF Init, DbTypes
  <1>2. TurnTypes
    BY NothingFacts DEF Init, TurnTypes, Steps
  <1>3. QED
    BY <1>1, <1>2 DEF TypeInv

\* A thread that is through, and one that fails, forgets its turn.
LEMMA ForgetFacts ==
  ASSUME TurnTypes, NEW t \in Threads, Forget(t), session' \in [Users -> Seq(Nat)]
  PROVE  TurnTypes'
  <1>1. /\ pc' \in [Threads -> Steps] /\ user' \in [Threads -> Users \cup {None}]
        /\ mention' \in [Threads -> Sentences] /\ seen' \in [Threads -> SUBSET Nat]
        /\ ctx' \in [Threads -> Contexts] /\ found' \in [Threads -> Outcomes]
    BY NothingFacts DEF TurnTypes, Forget, Goto, Steps
  <1>2. owning' \in [Threads -> BOOLEAN]
    BY DEF TurnTypes, Forget
  <1>3. \A s \in Threads : /\ pc'[s] # "idle" => user'[s] \in Users
                           /\ pc'[s] = "write" => Writable(s)'
    BY DEF TurnTypes, Forget, Goto, Writable
  <1>4. QED
    BY <1>1, <1>2, <1>3 DEF TurnTypes

\* The unit of work is closed.
LEMMA ReleaseFacts ==
  ASSUME DbTypes, NEW t \in Threads, Release(t)
  PROVE  /\ holder' \in Threads \cup {None} /\ holder' # t
         /\ draft' \in Dbs /\ Len(draft'.entities) <= MaxEntities
         /\ \/ holder = t /\ holder' = None /\ draft' = EmptyDb
            \/ holder # t /\ holder' = holder /\ draft' = draft
  BY EmptyDbFacts, EntitiesAssumption, ThreadsAssumption DEF DbTypes, Release

LEMMA NextDbTypes ==
  ASSUME TypeInv, [Next]_vars PROVE DbTypes'
  <1> USE DEF TypeInv
  <1>1. ASSUME NEW t \in Threads, CreatePrincipal(t) PROVE DbTypes'
    <2>1. user[t] \in Users /\ db \in Dbs /\ Len(db.entities) \in Nat /\ Len(db.entities) < MaxEntities
      BY <1>1 DEF CreatePrincipal, DbTypes, TurnTypes, Dbs
    <2>2. draft' = WithPrincipal(db, user[t]) /\ holder' = t /\ db' = db
      BY <1>1 DEF CreatePrincipal
    <2>3. draft' \in Dbs /\ Len(draft'.entities) = Len(db.entities) + 1
      BY <2>1, <2>2, PrincipalFacts, EntityFacts
    <2>4. QED
      BY <2>1, <2>2, <2>3, EntitiesAssumption DEF DbTypes
  <1>2. ASSUME NEW t \in Threads, Write(t) PROVE DbTypes'
    BY <1>2, WriteFacts DEF DbTypes, Write
  <1>3. ASSUME NEW t \in Threads, Commit(t) PROVE DbTypes'
    BY <1>3, ReleaseFacts DEF DbTypes, Commit
  <1>4. ASSUME NEW t \in Threads, ResolveMention(t) PROVE DbTypes'
    BY <1>4, ReleaseFacts DEF DbTypes, ResolveMention
  <1>5. ASSUME NEW t \in Threads, Fail(t) PROVE DbTypes'
    BY <1>5, ReleaseFacts DEF DbTypes, Fail
  <1>6. ASSUME NEW t \in Threads, Hydrate(t) \/ Ensure(t) \/ Reload(t) \/ Save(t) PROVE DbTypes'
    BY <1>6 DEF DbTypes, Hydrate, Ensure, Reload, Save
  <1>7. ASSUME NEW t \in Threads, NEW u \in Users, NEW m, NEW o \in BOOLEAN, Begin(t, u, m, o)
        PROVE  DbTypes'
    BY <1>7 DEF DbTypes, Begin
  <1>8. CASE UNCHANGED vars
    BY <1>8 DEF DbTypes, vars
  <1>9. QED
    BY <1>1, <1>2, <1>3, <1>4, <1>5, <1>6, <1>7, <1>8 DEF Next

LEMMA NextTurnTypes ==
  ASSUME TypeInv, [Next]_vars PROVE TurnTypes'
  <1> USE DEF TypeInv
  <1>1. ASSUME NEW t \in Threads, NEW u \in Users, NEW o \in BOOLEAN,
               NEW m \in Mentions({session[u][k] : k \in 1 .. Len(session[u])}),
               Begin(t, u, m, o)
        PROVE  TurnTypes'
    <2>1. {session[u][k] : k \in 1 .. Len(session[u])} \in SUBSET Nat
      BY DEF TurnTypes
    <2>2. m \in Sentences
      BY <2>1, MentionsAreSentences
    <2>3. ctx' \in [Threads -> Contexts]
      BY <1>1 DEF Begin, TurnTypes, Contexts
    <2>4. owning' \in [Threads -> BOOLEAN]
      BY <1>1 DEF Begin, TurnTypes
    <2>5. /\ pc' \in [Threads -> Steps] /\ user' \in [Threads -> Users \cup {None}]
          /\ mention' \in [Threads -> Sentences]
          /\ UNCHANGED <<session, seen, found>>
      BY <1>1, <2>2 DEF Begin, Goto, TurnTypes, Steps
    <2>6. \A s \in Threads : /\ pc'[s] # "idle" => user'[s] \in Users
                             /\ pc'[s] = "write" => Writable(s)'
      BY <1>1 DEF Begin, Goto, TurnTypes, Writable
    <2>7. QED
      BY <2>3, <2>4, <2>5, <2>6 DEF TurnTypes
  <1>2. ASSUME NEW t \in Threads, Hydrate(t) PROVE TurnTypes'
    <2>1. Visible(View(t), user[t]) \in SUBSET Nat
      BY ViewFacts DEF Visible, Dbs
    <2>2. QED
      BY <1>2, <2>1 DEF Hydrate, Goto, TurnTypes, Steps, Writable
  <1>3. ASSUME NEW t \in Threads, Ensure(t) PROVE TurnTypes'
    <2>1. View(t).bound[user[t]] \in Nat
      BY <1>3, ViewFacts DEF Dbs, Ensure, TurnTypes
    <2>2. ctx' \in [Threads -> Contexts]
      <3>1. ctx' = ctx \/ ctx' = [ctx EXCEPT ![t].principal = View(t).bound[user[t]]]
        BY <1>3 DEF Ensure
      <3>2. QED
        <4>1. CASE ctx' = ctx
          BY <4>1 DEF TurnTypes
        <4>2. CASE ctx' = [ctx EXCEPT ![t].principal = View(t).bound[user[t]]]
          BY <2>1, <4>2 DEF TurnTypes, Contexts
        <4>3. QED
          BY <3>1, <4>1, <4>2
    <2>3. QED
      BY <1>3, <2>2 DEF Ensure, Goto, TurnTypes, Steps, Writable
  <1>4. ASSUME NEW t \in Threads, CreatePrincipal(t) PROVE TurnTypes'
    <2>1. draft' \in Dbs /\ user[t] \in Users
      BY <1>4, PrincipalFacts DEF CreatePrincipal, DbTypes, TurnTypes
    <2>2. draft'.bound[user[t]] \in Nat
      BY <2>1 DEF Dbs
    <2>3. ctx' \in [Threads -> Contexts]
      BY <1>4, <2>2 DEF CreatePrincipal, TurnTypes, Contexts
    <2>4. QED
      BY <1>4, <2>3 DEF CreatePrincipal, Goto, TurnTypes, Steps, Writable
  <1>5. ASSUME NEW t \in Threads, Reload(t) PROVE TurnTypes'
    <2>1. Visible(View(t), user[t]) \in SUBSET Nat
      BY ViewFacts DEF Visible, Dbs
    <2>2. ctx' \in [Threads -> Contexts]
      <3> DEFINE S == {i \in Ids : <<ctx[t].principal, i>> \in View(t).owns}
      <3>1. ctx' = [ctx EXCEPT ![t].owned = S]
        BY <1>5 DEF Reload
      <3>2. S \in SUBSET Nat
        BY EntitiesAssumption DEF Ids
      <3> HIDE DEF S
      <3>3. QED
        BY <3>1, <3>2 DEF TurnTypes, Contexts
    <2>3. QED
      BY <1>5, <2>1, <2>2 DEF Reload, Goto, TurnTypes, Steps, Writable
  <1>6. ASSUME NEW t \in Threads, ResolveMention(t) PROVE TurnTypes'
    <2> DEFINE res == Resolve(Lookup(seen[t], View(t).entities), ctx[t], mention[t])
    <2>1. Meant(res, seen[t], View(t).entities, ctx[t], mention[t])
      BY ResolvedFacts
    <2>2. /\ found' = [found EXCEPT ![t] = res]
          /\ \/ Persistable(mention[t], res) /\ Goto(t, "write")
             \/ Goto(t, "save")
      BY <1>6 DEF ResolveMention, Lookup
    <2>3. pc[t] = "resolve" /\ UNCHANGED <<session, user, mention, owning, seen, ctx>>
      BY <1>6 DEF ResolveMention
    <2> HIDE DEF res
    <2>4. res \in Outcomes
      BY <2>1 DEF Meant
    <2>5. pc'[t] = "write" => Writable(t)'
      BY <2>1, <2>2 DEF Meant, Persistable, Goto, TurnTypes, Writable
    <2>6. \A s \in Threads : pc'[s] = "write" => Writable(s)'
      BY <2>2, <2>5 DEF Goto, TurnTypes, Writable
    <2>7. QED
      BY <2>2, <2>3, <2>4, <2>6 DEF Goto, TurnTypes, Steps
  <1>7. ASSUME NEW t \in Threads, Write(t) PROVE TurnTypes'
    <2>1. About(t) \in Nat /\ found' = [found EXCEPT ![t] = Resolved(About(t))]
      BY <1>7, WriteFacts
    <2>2. Resolved(About(t)) \in Outcomes
      BY <2>1, OutcomeFacts
    <2>3. QED
      BY <1>7, <2>1, <2>2 DEF Write, Goto, TurnTypes, Steps, Writable
  <1>8. ASSUME NEW t \in Threads, Commit(t) PROVE TurnTypes'
    <2>1. found[t].id \in Nat /\ ctx[t].principal \in Nat /\ ctx[t].recent \in Seq(Nat)
      BY DEF TurnTypes, Outcomes, Contexts
    <2>2. /\ Touched(ctx[t].recent, found[t].id) \in Seq(Nat)
          /\ Touched(Touched(ctx[t].recent, found[t].id), ctx[t].principal) \in Seq(Nat)
      BY <2>1, TouchedFacts
    <2>3. ctx' \in [Threads -> Contexts]
      BY <1>8, <2>2 DEF Commit, TurnTypes, Contexts
    <2>4. QED
      BY <1>8, <2>3 DEF Commit, Goto, TurnTypes, Steps, Writable
  <1>9. ASSUME NEW t \in Threads, Save(t) PROVE TurnTypes'
    <2>1. session' \in [Users -> Seq(Nat)]
      BY <1>9 DEF Save, TurnTypes, Contexts
    <2>2. QED
      BY <1>9, <2>1, ForgetFacts DEF Save
  <1>10. ASSUME NEW t \in Threads, Fail(t) PROVE TurnTypes'
    <2>1. session' = session /\ Forget(t)
      BY <1>10 DEF Fail
    <2>2. QED
      BY <2>1, ForgetFacts DEF TurnTypes
  <1>11. CASE UNCHANGED vars
    BY <1>11 DEF TurnTypes, vars, turn, Writable
  <1>12. QED
    BY <1>1, <1>2, <1>3, <1>4, <1>5, <1>6, <1>7, <1>8, <1>9, <1>10, <1>11 DEF Next

\* The types are kept.
LEMMA TypeCorrect == Spec => []TypeInv
  <1>1. TypeInv /\ [Next]_vars => TypeInv'
    BY NextDbTypes, NextTurnTypes DEF TypeInv
  <1>2. QED
    BY <1>1, InitTypeInv, PTL DEF Spec

-----------------------------------------------------------------------------
(* One thread moves at a time.                                             *)

\* The step is t's: the turns of the others are as they were, and the database
\* changes under the lock, which nobody else holds then.
Moves(t) ==
  /\ \/ holder' = holder /\ draft' = draft
     \/ holder \in {t, None} /\ holder' \in {t, None}
  /\ db' = db \/ (holder = t /\ db' = draft)
  /\ \A s \in Threads \ {t} :
       /\ pc'[s] = pc[s] /\ user'[s] = user[s] /\ mention'[s] = mention[s]
       /\ owning'[s] = owning[s] /\ seen'[s] = seen[s] /\ ctx'[s] = ctx[s]
       /\ found'[s] = found[s]

\* Who commits holds the lock.
HoldsLock == \A t \in Threads : pc[t] = "commit" => holder = t

LEMMA ForgetMoves ==
  ASSUME TurnTypes, NEW t \in Threads, Forget(t), NEW s \in Threads \ {t}
  PROVE  /\ pc'[s] = pc[s] /\ user'[s] = user[s] /\ mention'[s] = mention[s]
         /\ owning'[s] = owning[s] /\ seen'[s] = seen[s] /\ ctx'[s] = ctx[s]
         /\ found'[s] = found[s]
  BY DEF TurnTypes, Forget, Goto

LEMMA BeginMoves ==
  ASSUME TypeInv, NEW t \in Threads, NEW u \in Users, NEW o \in BOOLEAN, NEW m, Begin(t, u, m, o)
  PROVE  Moves(t)
  BY DEF TypeInv, TurnTypes, Begin, Goto, Moves

\* Begin aside, the steps of t.
ThreadStep(t) ==
  \/ Hydrate(t) \/ Ensure(t) \/ CreatePrincipal(t) \/ Reload(t)
  \/ ResolveMention(t) \/ Write(t) \/ Commit(t) \/ Save(t) \/ Fail(t)

LEMMA StepMoves ==
  ASSUME TypeInv, HoldsLock, NEW t \in Threads, ThreadStep(t)
  PROVE  Moves(t)
  <1> USE DEF TypeInv
  <1>0. Release(t) => \/ holder' = holder /\ draft' = draft
                      \/ holder \in {t, None} /\ holder' \in {t, None}
    BY DEF Release
  <1>1. CASE Hydrate(t) \/ Ensure(t) \/ Reload(t)
    BY <1>1 DEF TurnTypes, Hydrate, Ensure, Reload, Goto, Moves
  <1>2. CASE CreatePrincipal(t)
    BY <1>2 DEF TurnTypes, CreatePrincipal, Goto, Moves
  <1>3. CASE ResolveMention(t)
    <2>1. Release(t) \/ (holder' = holder /\ draft' = draft)
      BY <1>3 DEF ResolveMention
    <2>2. \E res : found' = [found EXCEPT ![t] = res]
      BY <1>3 DEF ResolveMention
    <2>3. Goto(t, "write") \/ Goto(t, "save")
      BY <1>3 DEF ResolveMention
    <2>4. UNCHANGED <<db, user, mention, owning, seen, ctx>>
      BY <1>3 DEF ResolveMention
    <2>5. QED
      BY <1>0, <2>1, <2>2, <2>3, <2>4 DEF TurnTypes, Goto, Moves
  <1>4. CASE Write(t)
    BY <1>4 DEF TurnTypes, Write, Goto, Moves
  <1>5. CASE Commit(t)
    BY <1>0, <1>5 DEF TurnTypes, Commit, Goto, Moves, HoldsLock
  <1>6. CASE Save(t)
    BY <1>6, ForgetMoves DEF Save, Moves
  <1>7. CASE Fail(t)
    BY <1>0, <1>7, ForgetMoves DEF Fail, Moves
  <1>8. QED
    BY <1>1, <1>2, <1>3, <1>4, <1>5, <1>6, <1>7 DEF ThreadStep

-----------------------------------------------------------------------------
(* Knowledge stays home.                                                   *)

\* What a turn has gathered is its user's, in the database it looks at.
HomeThread(t) ==
  /\ pc[t] # "idle" =>
       \A k \in 1 .. Len(ctx[t].recent) : Home(db, user[t], ctx[t].recent[k])
  /\ pc[t] \in {"ensure", "create", "reload", "resolve"} =>
       \A i \in seen[t] : Home(View(t), user[t], i)
  /\ pc[t] \in {"reload", "resolve", "write", "commit"} /\ NeedsPrincipal(t) =>
       Home(View(t), user[t], ctx[t].principal)
  /\ pc[t] = "write" /\ found[t].status = "resolved" => Home(View(t), user[t], found[t].id)
  /\ pc[t] = "commit" => Home(View(t), user[t], found[t].id)

\* The lock is held from the first write to the end of the unit of work.
LockInv ==
  /\ HoldsLock
  /\ \A t \in Threads : holder = t => pc[t] \in {"reload", "resolve", "write", "commit"}
  /\ holder # None => Grown(db, draft)

SessionsHome == \A u \in Users : \A k \in 1 .. Len(session[u]) : Home(db, u, session[u][k])

HomeInv ==
  /\ HomeDb(db) /\ HomeDb(draft)
  /\ LockInv
  /\ SessionsHome
  /\ \A t \in Threads : HomeThread(t)

\* What the others see only grows.
LEMMA ViewsGrow ==
  ASSUME TypeInv, TypeInv', LockInv, NEW t \in Threads, Moves(t), NEW s \in Threads \ {t}
  PROVE  /\ Grown(db, db') /\ Grown(View(s), View(s)')
         /\ holder' = s <=> holder = s
         /\ View(s)' = View(s) \/ (View(s) = db /\ View(s)' = db' /\ holder = t)
  <1> USE DEF TypeInv, DbTypes
  <1>1. Grown(db, db)
    BY GrownFacts
  <1>2. Grown(db, db')
    BY <1>1, ThreadsAssumption DEF Moves, LockInv
  <1>3. holder' = s <=> holder = s
    BY ThreadsAssumption DEF Moves
  <1>4. View(s)' = View(s) \/ (View(s) = db /\ View(s)' = db' /\ holder = t)
    BY <1>3, ThreadsAssumption DEF Moves, View
  <1>5. Grown(View(s), View(s)')
    BY <1>2, <1>4, ViewFacts, GrownFacts
  <1>6. QED
    BY <1>2, <1>3, <1>4, <1>5

LEMMA OthersStayHome ==
  ASSUME TypeInv, TypeInv', LockInv, NEW t \in Threads, Moves(t),
         NEW s \in Threads \ {t}, HomeThread(s)
  PROVE  HomeThread(s)'
  <1>1. /\ db \in Dbs /\ db' \in Dbs /\ Grown(db, db')
        /\ View(s) \in Dbs /\ View(s)' \in Dbs /\ Grown(View(s), View(s)')
    BY ViewsGrow, ViewFacts DEF TypeInv, DbTypes, View
  <1>2. /\ pc'[s] = pc[s] /\ user'[s] = user[s] /\ mention'[s] = mention[s]
        /\ owning'[s] = owning[s] /\ seen'[s] = seen[s] /\ ctx'[s] = ctx[s]
        /\ found'[s] = found[s]
    BY DEF Moves
  <1>3. NeedsPrincipal(s)' = NeedsPrincipal(s)
    BY <1>2 DEF NeedsPrincipal
  <1>4. \A i : /\ Home(db, user[s], i) => Home(db', user[s], i)
               /\ Home(View(s), user[s], i) => Home(View(s)', user[s], i)
    BY <1>1, HomeGrows
  <1>5. QED
    BY <1>2, <1>3, <1>4 DEF HomeThread

\* The lock, for the step of t.
LEMMA LockMoves ==
  ASSUME TypeInv, TypeInv', LockInv, NEW t \in Threads, Moves(t),
         pc'[t] = "commit" => holder' = t,
         holder' = t => pc'[t] \in {"reload", "resolve", "write", "commit"},
         holder' # None => Grown(db', draft')
  PROVE  LockInv'
  <1>1. \A s \in Threads \ {t} : (holder' = s <=> holder = s) /\ pc'[s] = pc[s]
    BY ViewsGrow DEF Moves
  <1>2. QED
    BY <1>1 DEF LockInv, HoldsLock

LEMMA NextLockInv ==
  ASSUME TypeInv, TypeInv', LockInv, [Next]_vars PROVE LockInv'
  <1> USE DEF TypeInv
  <1>1. ASSUME NEW t \in Threads, NEW u \in Users, NEW o \in BOOLEAN, NEW m, Begin(t, u, m, o)
        PROVE  LockInv'
    <2>1. Moves(t)
      BY <1>1, BeginMoves
    <2>2. pc[t] = "idle" /\ pc'[t] = "hydrate" /\ UNCHANGED <<db, draft, holder>>
      BY <1>1 DEF Begin, Goto, TurnTypes
    <2>3. holder # t /\ (holder # None => Grown(db, draft))
      BY <2>2 DEF LockInv
    <2>4. QED
      BY <2>1, <2>2, <2>3, LockMoves
  <1>2. ASSUME NEW t \in Threads, ThreadStep(t) PROVE LockInv'
    <2>1. Moves(t)
      BY <1>2, StepMoves DEF LockInv
    <2>2. ASSUME UNCHANGED <<db, draft, holder>>,
                 holder = t => pc'[t] \in {"reload", "resolve", "write"},
                 pc'[t] # "commit"
          PROVE  LockInv'
      BY <2>1, <2>2, LockMoves DEF LockInv
    <2>3. holder = t => pc[t] \in {"reload", "resolve", "write", "commit"}
      BY DEF LockInv
    <2>4. CASE Hydrate(t) \/ Ensure(t)
      <3>1. pc[t] \in {"hydrate", "ensure"} /\ pc'[t] \in {"ensure", "resolve", "reload", "create"}
        BY <2>4 DEF Hydrate, Ensure, Goto, TurnTypes
      <3>2. UNCHANGED <<db, draft, holder>>
        BY <2>4 DEF Hydrate, Ensure
      <3>3. QED
        BY <2>2, <2>3, <3>1, <3>2
    <2>5. CASE CreatePrincipal(t)
      <3>1. holder' = t /\ db' = db /\ draft' = WithPrincipal(db, user[t]) /\ pc'[t] = "reload"
        BY <2>5 DEF CreatePrincipal, Goto, TurnTypes
      <3>2. user[t] \in Users /\ db \in Dbs
        BY <2>5 DEF CreatePrincipal, TurnTypes, DbTypes
      <3>3. QED
        BY <2>1, <3>1, <3>2, PrincipalFacts, LockMoves
    <2>6. CASE Reload(t)
      <3>1. pc'[t] = "resolve" /\ UNCHANGED <<db, draft, holder>>
        BY <2>6 DEF Reload, Goto, TurnTypes
      <3>2. QED
        BY <2>2, <3>1
    <2>7. CASE ResolveMention(t)
      <3>1. CASE pc'[t] = "write" /\ UNCHANGED <<db, draft, holder>>
        BY <2>2, <3>1
      <3>2. CASE pc'[t] = "save" /\ Release(t) /\ db' = db
        <4>1. \/ holder' = None
              \/ holder # t /\ holder' = holder /\ draft' = draft
          BY <3>2 DEF Release
        <4>2. QED
          BY <2>1, <3>2, <4>1, LockMoves, ThreadsAssumption DEF LockInv
      <3>3. QED
        BY <2>7, <3>1, <3>2 DEF ResolveMention, Goto, TurnTypes
    <2>8. CASE Write(t)
      <3>1. /\ Grown(View(t), Base(t)) /\ draft' = Told(Base(t), Claim(t), Pairs(t))
            /\ View(t) \in Dbs /\ Base(t) \in Dbs /\ draft' \in Dbs
            /\ Claim(t) \in [user : Users, about : Nat, self : BOOLEAN]
            /\ Pairs(t) \in SUBSET (Nat \X Nat)
        BY <2>8, WriteFacts
      <3>2. holder' = t /\ db' = db /\ pc'[t] = "commit" /\ holder \in {t, None}
        BY <2>8 DEF Write, Goto, TurnTypes
      <3>3. Grown(db, View(t)) /\ db \in Dbs
        BY <3>2, GrownFacts, ThreadsAssumption DEF View, LockInv, DbTypes
      <3>4. Grown(Base(t), draft')
        BY <3>1, ToldFacts
      <3>5. Grown(db, draft')
        BY <3>1, <3>3, <3>4, GrownFacts
      <3>6. QED
        BY <2>1, <3>2, <3>5, LockMoves
    <2>9. CASE Commit(t)
      <3>1. holder' = None /\ pc'[t] = "save"
        BY <2>9, ThreadsAssumption DEF Commit, Release, Goto, TurnTypes, LockInv, HoldsLock
      <3>2. QED
        BY <2>1, <3>1, LockMoves, ThreadsAssumption
    <2>10. CASE Save(t)
      <3>1. pc[t] = "save" /\ pc'[t] = "idle" /\ UNCHANGED <<db, draft, holder>>
        BY <2>10 DEF Save, Forget, Goto, TurnTypes
      <3>2. QED
        BY <2>2, <2>3, <3>1
    <2>11. CASE Fail(t)
      <3>1. pc'[t] = "idle" /\ Release(t) /\ db' = db
        BY <2>11 DEF Fail, Forget, Goto, TurnTypes
      <3>2. \/ holder' = None
            \/ holder # t /\ holder' = holder /\ draft' = draft
        BY <3>1 DEF Release
      <3>3. QED
        BY <2>1, <3>1, <3>2, LockMoves, ThreadsAssumption DEF LockInv
    <2>12. QED
      BY <1>2, <2>4, <2>5, <2>6, <2>7, <2>8, <2>9, <2>10, <2>11 DEF ThreadStep
  <1>3. CASE UNCHANGED vars
    BY <1>3 DEF vars, turn, LockInv, HoldsLock
  <1>4. QED
    BY <1>1, <1>2, <1>3 DEF Next, ThreadStep

\* The databases, for the step of t.
LEMMA CreateHome ==
  ASSUME TypeInv, HomeInv, NEW t \in Threads, CreatePrincipal(t)
  PROVE  /\ HomeDb(draft') /\ draft' \in Dbs /\ Grown(db, draft')
         /\ Home(draft', user[t], draft'.bound[user[t]])
  <1> DEFINE u == user[t]
  <1>1. u \in Users /\ db \in Dbs /\ draft' = WithPrincipal(db, u)
    BY DEF CreatePrincipal, TypeInv, DbTypes, TurnTypes
  <1> HIDE DEF u
  <1>2. /\ draft' \in Dbs /\ Grown(db, draft') /\ draft'.owns = db.owns
        /\ draft'.claims = db.claims
        /\ draft'.bound = [db.bound EXCEPT ![u] = Len(db.entities) + 1]
        /\ draft'.entities = WithEntity(db, Principal(u)).entities
        /\ Len(draft'.entities) = Len(db.entities) + 1
    BY <1>1, PrincipalFacts
  <1>3. draft'.entities[Len(db.entities) + 1] = Principal(u)
    <2>1. Principal(u) \in Entities
      BY <1>1, PrincipalFacts
    <2>2. WithEntity(db, Principal(u)).entities[Len(db.entities) + 1] = Principal(u)
      BY <1>1, <2>1, EntityFacts
    <2>3. QED
      BY <1>2, <2>2
  <1>4. Home(draft', u, Len(db.entities) + 1)
    BY <1>1, <1>2, <1>3 DEF Home, Principal, Dbs
  <1>5. /\ draft'.bound[u] = Len(db.entities) + 1
        /\ \A v \in Users \ {u} : draft'.bound[v] = db.bound[v]
    BY <1>1, <1>2 DEF Dbs
  <1>6. \A v \in Users : \/ draft'.bound[v] = db.bound[v]
                         \/ Home(draft', v, draft'.bound[v])
                            /\ draft'.entities[draft'.bound[v]] = Principal(v)
    BY <1>3, <1>4, <1>5
  <1>7. HomeDb(draft')
    BY <1>1, <1>2, <1>6, HomeDbGrows DEF HomeInv
  <1>8. QED
    BY <1>2, <1>4, <1>5, <1>7 DEF u

LEMMA WriteHome ==
  ASSUME TypeInv, HomeInv, NEW t \in Threads, Write(t)
  PROVE  /\ HomeDb(draft') /\ Home(draft', user[t], About(t))
         /\ owning[t] => Home(draft', user[t], ctx[t].principal)
         /\ Grown(View(t), draft')
  <1>1. /\ View(t) \in Dbs /\ Base(t) \in Dbs /\ Grown(View(t), Base(t))
        /\ \/ found[t].status = "resolved" /\ Base(t) = View(t) /\ About(t) = found[t].id
           \/ /\ found[t].status = "create"
              /\ NewEntity(user[t], mention[t], found[t]) \in Entities
              /\ Base(t) = WithEntity(View(t), NewEntity(user[t], mention[t], found[t]))
              /\ About(t) = Len(View(t).entities) + 1
        /\ Claim(t) \in [user : Users, about : Nat, self : BOOLEAN]
        /\ Pairs(t) \in SUBSET (Nat \X Nat)
        /\ draft' = Told(Base(t), Claim(t), Pairs(t))
        /\ draft' \in Dbs
    BY WriteFacts
  <1>2. /\ HomeDb(View(t)) /\ user[t] \in Users
        /\ found[t].status = "resolved" => Home(View(t), user[t], found[t].id)
        /\ owning[t] => Home(View(t), user[t], ctx[t].principal)
    <2>1. HomeDb(View(t)) /\ HomeThread(t)
      BY DEF HomeInv, View
    <2>2. pc[t] = "write" /\ user[t] \in Users
      BY DEF Write, TypeInv, TurnTypes
    <2>3. QED
      BY <2>1, <2>2 DEF HomeThread, NeedsPrincipal
  <1>3. Base(t).bound = View(t).bound /\ Base(t).owns = View(t).owns /\ Base(t).claims = View(t).claims
    BY <1>1, EntityFacts
  <1>4. Home(Base(t), user[t], About(t))
    <2>1. CASE found[t].status = "resolved"
      BY <1>1, <1>2, <2>1
    <2>2. CASE found[t].status = "create"
      <3> DEFINE x == NewEntity(user[t], mention[t], found[t])
      <3>1. x \in Entities /\ x.owner = user[t]
        BY <1>1, <2>2 DEF NewEntity
      <3>2. Base(t) = WithEntity(View(t), x) /\ About(t) = Len(View(t).entities) + 1
        BY <1>1, <2>2
      <3> HIDE DEF x
      <3>3. /\ Len(Base(t).entities) = Len(View(t).entities) + 1
            /\ Base(t).entities[Len(View(t).entities) + 1] = x
        BY <1>1, <3>1, <3>2, EntityFacts
      <3>4. Len(View(t).entities) \in Nat
        BY <1>1 DEF Dbs
      <3>5. QED
        BY <3>1, <3>2, <3>3, <3>4 DEF Home
    <2>3. QED
      BY <1>1, <2>1, <2>2
  <1>5. HomeDb(Base(t))
    BY <1>1, <1>2, <1>3, HomeDbGrows
  <1>6. /\ draft'.entities = Base(t).entities /\ draft'.bound = Base(t).bound
        /\ draft'.owns = Base(t).owns \cup Pairs(t)
        /\ draft'.claims = Base(t).claims \cup {Claim(t)}
        /\ Grown(Base(t), draft')
    BY <1>1, ToldFacts
  <1>7. Home(draft', user[t], About(t))
    BY <1>1, <1>4, <1>6, HomeGrows
  <1>8. Grown(View(t), draft')
    BY <1>1, <1>6, GrownFacts
  <1>9. owning[t] => Home(draft', user[t], ctx[t].principal)
    BY <1>1, <1>2, <1>8, HomeGrows
  <1>10. \A c \in draft'.claims : c \in Base(t).claims \/ Home(draft', c.user, c.about)
    <2>1. Claim(t).user = user[t] /\ Claim(t).about = About(t)
      BY DEF Claim
    <2>2. QED
      BY <2>1, <1>6, <1>7
  <1>11. \A o \in draft'.owns :
           o \in Base(t).owns \/ \E u \in Users : Home(draft', u, o[1]) /\ Home(draft', u, o[2])
    <2>1. ASSUME NEW o \in Pairs(t)
          PROVE  \E u \in Users : Home(draft', u, o[1]) /\ Home(draft', u, o[2])
      <3>1. o = <<ctx[t].principal, About(t)>> /\ owning[t]
        BY <2>1 DEF Pairs
      <3>2. o[1] = ctx[t].principal /\ o[2] = About(t)
        BY <3>1
      <3>3. Home(draft', user[t], o[1]) /\ Home(draft', user[t], o[2])
        BY <3>1, <3>2, <1>7, <1>9
      <3>4. QED
        BY <3>3, <1>2
    <2>2. QED
      BY <2>1, <1>6
  <1>12. HomeDb(draft')
    BY <1>1, <1>5, <1>6, <1>10, <1>11, HomeDbGrows
  <1>13. QED
    BY <1>7, <1>8, <1>9, <1>12

LEMMA NextHomeDb ==
  ASSUME TypeInv, HomeInv, [Next]_vars PROVE HomeDb(db)' /\ HomeDb(draft)'
  <1>0. HomeDb(db) /\ HomeDb(draft) /\ HomeDb(EmptyDb)
    BY EmptyDbFacts DEF HomeInv
  <1>1. ASSUME NEW t \in Threads, CreatePrincipal(t) PROVE HomeDb(db)' /\ HomeDb(draft)'
    BY <1>0, <1>1, CreateHome DEF CreatePrincipal
  <1>2. ASSUME NEW t \in Threads, Write(t) PROVE HomeDb(db)' /\ HomeDb(draft)'
    BY <1>0, <1>2, WriteHome DEF Write
  <1>3. ASSUME NEW t \in Threads, Commit(t) PROVE HomeDb(db)' /\ HomeDb(draft)'
    BY <1>0, <1>3 DEF Commit, Release
  <1>4. ASSUME NEW t \in Threads, ResolveMention(t) PROVE HomeDb(db)' /\ HomeDb(draft)'
    <2>1. db' = db /\ (draft' = draft \/ draft' = EmptyDb)
      BY <1>4 DEF ResolveMention, Release
    <2>2. QED
      BY <1>0, <2>1
  <1>5. ASSUME NEW t \in Threads, Fail(t) PROVE HomeDb(db)' /\ HomeDb(draft)'
    BY <1>0, <1>5 DEF Fail, Release
  <1>6. ASSUME UNCHANGED <<db, draft>> PROVE HomeDb(db)' /\ HomeDb(draft)'
    BY <1>0, <1>6
  <1>7. QED
    BY <1>1, <1>2, <1>3, <1>4, <1>5, <1>6
       DEF Next, vars, turn, Begin, Hydrate, Ensure, Reload, Save

\* What the session remembers, and what the turn has gathered, for the step of t.
LEMMA OwnHome ==
  ASSUME TypeInv, TypeInv', HomeInv, NEW t \in Threads, ThreadStep(t)
  PROVE  HomeThread(t)' /\ SessionsHome'
  <1> USE DEF TypeInv
  <1>0. /\ HomeThread(t) /\ LockInv /\ SessionsHome /\ HomeDb(View(t))
        /\ pc[t] # "idle" /\ user[t] \in Users /\ View(t) \in Dbs
    <2>1. pc[t] # "idle"
      BY DEF ThreadStep, Hydrate, Ensure, CreatePrincipal, Reload, ResolveMention, Write,
             Commit, Save, Fail
    <2>2. QED
      BY <2>1, ViewFacts DEF HomeInv, View, TurnTypes
  <1>1. \A k \in 1 .. Len(ctx[t].recent) : Home(db, user[t], ctx[t].recent[k])
    BY <1>0 DEF HomeThread
  <1>2. Visible(View(t), user[t]) = {i \in Nat : Home(View(t), user[t], i)}
    <2>1. Len(View(t).entities) \in Nat
      BY <1>0 DEF Dbs
    <2>2. QED
      BY <2>1 DEF Visible, Home
  <1>3. UNCHANGED <<db, session>> => SessionsHome'
    BY <1>0 DEF SessionsHome
  <1>4. CASE Hydrate(t)
    <2>1. /\ UNCHANGED <<db, draft, holder, session, user, mention, owning, ctx>>
          /\ seen'[t] = Visible(View(t), user[t]) /\ pc'[t] \in {"ensure", "resolve"}
          /\ pc'[t] = "resolve" => ~NeedsPrincipal(t)
      BY <1>4 DEF Hydrate, Goto, TurnTypes
    <2>2. View(t)' = View(t) /\ NeedsPrincipal(t)' = NeedsPrincipal(t)
      BY <2>1 DEF View, NeedsPrincipal
    <2>3. QED
      BY <1>1, <1>2, <1>3, <2>1, <2>2 DEF HomeThread
  <1>5. CASE Ensure(t)
    <2>1. /\ UNCHANGED <<db, draft, holder, session, user, mention, owning, seen>>
          /\ pc[t] = "ensure" /\ pc'[t] \in {"create", "reload"}
          /\ ctx'[t].recent = ctx[t].recent
          /\ pc'[t] = "reload" => /\ ctx'[t].principal = View(t).bound[user[t]]
                                  /\ View(t).bound[user[t]] # 0
      <3>1. \/ /\ View(t).bound[user[t]] # 0
               /\ ctx' = [ctx EXCEPT ![t].principal = View(t).bound[user[t]]]
               /\ Goto(t, "reload")
            \/ Goto(t, "create") /\ ctx' = ctx
        BY <1>5 DEF Ensure, Bound
      <3>2. pc[t] = "ensure" /\ UNCHANGED <<db, draft, holder, session, user, mention, owning, seen>>
        BY <1>5 DEF Ensure
      <3>3. QED
        BY <3>1, <3>2 DEF Goto, TurnTypes, Contexts
    <2>2. View(t)' = View(t)
      BY <2>1 DEF View
    <2>3. pc'[t] = "reload" => Home(View(t), user[t], ctx'[t].principal)
      BY <1>0, <2>1 DEF HomeDb
    <2>4. \A i \in seen[t] : Home(View(t), user[t], i)
      BY <1>0, <2>1 DEF HomeThread
    <2>5. QED
      BY <1>1, <1>3, <2>1, <2>2, <2>3, <2>4 DEF HomeThread
  <1>6. CASE CreatePrincipal(t)
    <2>1. /\ UNCHANGED <<db, session, user, mention, owning, seen>>
          /\ holder = None /\ holder' = t /\ pc[t] = "create" /\ pc'[t] = "reload"
          /\ ctx'[t].recent = ctx[t].recent
          /\ ctx'[t].principal = draft'.bound[user[t]]
      BY <1>6 DEF CreatePrincipal, Goto, TurnTypes, Contexts
    <2>2. View(t) = db /\ View(t)' = draft'
      BY <2>1, ThreadsAssumption DEF View
    <2>3. /\ draft' \in Dbs /\ Grown(db, draft') /\ db \in Dbs
          /\ Home(draft', user[t], draft'.bound[user[t]])
      BY <1>6, CreateHome DEF DbTypes
    <2>4. \A i \in seen[t] : Home(draft', user[t], i)
      BY <1>0, <2>1, <2>2, <2>3, HomeGrows DEF HomeThread
    <2>5. QED
      BY <1>1, <1>3, <2>1, <2>2, <2>3, <2>4 DEF HomeThread
  <1>7. CASE Reload(t)
    <2>1. /\ UNCHANGED <<db, draft, holder, session, user, mention, owning>>
          /\ pc[t] = "reload" /\ pc'[t] = "resolve"
          /\ seen'[t] = seen[t] \cup Visible(View(t), user[t])
          /\ ctx'[t].recent = ctx[t].recent /\ ctx'[t].principal = ctx[t].principal
      BY <1>7 DEF Reload, Goto, TurnTypes, Contexts
    <2>2. View(t)' = View(t) /\ NeedsPrincipal(t)' = NeedsPrincipal(t)
      BY <2>1 DEF View, NeedsPrincipal
    <2>3. QED
      BY <1>0, <1>1, <1>2, <1>3, <2>1, <2>2 DEF HomeThread
  <1>8. CASE ResolveMention(t)
    <2> DEFINE res == Resolve(Lookup(seen[t], View(t).entities), ctx[t], mention[t])
    <2>1. Meant(res, seen[t], View(t).entities, ctx[t], mention[t])
      BY ResolvedFacts
    <2>2. /\ pc[t] = "resolve" /\ UNCHANGED <<db, session, user, mention, owning, ctx>>
          /\ found'[t] = res
          /\ \/ pc'[t] = "write" /\ UNCHANGED <<draft, holder>>
             \/ pc'[t] = "save"
      BY <1>8 DEF ResolveMention, Lookup, Goto, TurnTypes
    <2> HIDE DEF res
    <2>3. CASE pc'[t] = "save"
      BY <1>1, <1>3, <2>2, <2>3 DEF HomeThread
    <2>4. CASE pc'[t] = "write" /\ UNCHANGED <<draft, holder>>
      <3>1. View(t)' = View(t) /\ NeedsPrincipal(t)' = NeedsPrincipal(t)
        BY <2>2, <2>4 DEF View, NeedsPrincipal
      <3>2. found'[t].status = "resolved" => Home(View(t), user[t], found'[t].id)
        BY <1>0, <2>1, <2>2 DEF Meant, HomeThread
      <3>3. NeedsPrincipal(t) => Home(View(t), user[t], ctx[t].principal)
        BY <1>0, <2>2 DEF HomeThread
      <3>4. QED
        BY <1>1, <1>3, <2>2, <2>4, <3>1, <3>2, <3>3 DEF HomeThread
    <2>5. QED
      BY <2>2, <2>3, <2>4
  <1>9. CASE Write(t)
    <2>1. /\ HomeDb(draft') /\ Home(draft', user[t], About(t)) /\ Grown(View(t), draft')
          /\ found' = [found EXCEPT ![t] = Resolved(About(t))] /\ About(t) \in Nat
      BY <1>9, WriteHome, WriteFacts
    <2>2. /\ UNCHANGED <<db, session, user, mention, owning, ctx>>
          /\ pc[t] = "write" /\ pc'[t] = "commit" /\ holder' = t
      BY <1>9 DEF Write, Goto, TurnTypes
    <2>3. found'[t].id = About(t)
      BY <2>1, OutcomeFacts DEF TurnTypes
    <2>4. View(t)' = draft' /\ NeedsPrincipal(t)' = NeedsPrincipal(t) /\ draft' \in Dbs
      BY <2>2 DEF View, NeedsPrincipal, DbTypes
    <2>5. NeedsPrincipal(t) => Home(draft', user[t], ctx[t].principal)
      BY <1>0, <2>1, <2>2, <2>4, HomeGrows DEF HomeThread
    <2>6. QED
      BY <1>1, <1>3, <2>1, <2>2, <2>3, <2>4, <2>5 DEF HomeThread
  <1>10. CASE Commit(t)
    <2>1. /\ pc[t] = "commit" /\ pc'[t] = "save" /\ db' = draft
          /\ UNCHANGED <<session, user>>
          /\ ctx'[t].recent = IF owning[t]
               THEN Touched(Touched(ctx[t].recent, found[t].id), ctx[t].principal)
               ELSE Touched(ctx[t].recent, found[t].id)
      BY <1>10 DEF Commit, Goto, TurnTypes, Contexts
    <2>2. holder = t /\ View(t) = draft /\ Grown(db, draft) /\ db \in Dbs /\ draft \in Dbs
      BY <1>0, <2>1, ThreadsAssumption DEF LockInv, HoldsLock, View, DbTypes
    <2>3. /\ Home(draft, user[t], found[t].id)
          /\ owning[t] => Home(draft, user[t], ctx[t].principal)
      BY <1>0, <2>1, <2>2 DEF HomeThread, NeedsPrincipal
    <2>4. \A k \in 1 .. Len(ctx[t].recent) : Home(draft, user[t], ctx[t].recent[k])
      BY <1>1, <2>2, HomeGrows
    <2>5. found[t].id \in Nat /\ ctx[t].principal \in Nat /\ ctx[t].recent \in Seq(Nat)
      BY DEF TurnTypes, Outcomes, Contexts
    <2> DEFINE one == Touched(ctx[t].recent, found[t].id)
               two == Touched(one, ctx[t].principal)
    <2>6. one \in Seq(Nat) /\ \A k \in 1 .. Len(one) : Home(draft, user[t], one[k])
      <3>1. /\ one \in Seq(Nat)
            /\ \A k \in 1 .. Len(one) : \/ one[k] = found[t].id
                                        \/ \E j \in 1 .. Len(ctx[t].recent) : one[k] = ctx[t].recent[j]
        BY <2>5, TouchedFacts
      <3>2. QED
        BY <2>3, <2>4, <3>1
    <2>7. owning[t] => \A k \in 1 .. Len(two) : Home(draft, user[t], two[k])
      <3> HIDE DEF one
      <3>1. \A k \in 1 .. Len(two) : \/ two[k] = ctx[t].principal
                                     \/ \E j \in 1 .. Len(one) : two[k] = one[j]
        BY <2>5, <2>6, TouchedFacts
      <3>2. QED
        BY <2>3, <2>6, <3>1
    <2>8. \A k \in 1 .. Len(ctx'[t].recent) : Home(draft, user[t], ctx'[t].recent[k])
      BY <2>1, <2>6, <2>7
    <2>9. SessionsHome'
      BY <1>0, <2>1, <2>2, HomeGrows DEF SessionsHome
    <2>10. QED
      BY <2>1, <2>8, <2>9 DEF HomeThread
  <1>11. CASE Save(t)
    <2>1. /\ session' = [session EXCEPT ![user[t]] = ctx[t].recent] /\ db' = db
          /\ pc'[t] = "idle"
      BY <1>11 DEF Save, Forget, Goto, TurnTypes
    <2>2. SessionsHome'
      BY <1>0, <1>1, <2>1 DEF SessionsHome, TurnTypes
    <2>3. QED
      BY <2>1, <2>2 DEF HomeThread
  <1>12. CASE Fail(t)
    <2>1. pc'[t] = "idle" /\ UNCHANGED <<db, session>>
      BY <1>12 DEF Fail, Forget, Goto, TurnTypes
    <2>2. QED
      BY <1>3, <2>1 DEF HomeThread
  <1>13. QED
    BY <1>4, <1>5, <1>6, <1>7, <1>8, <1>9, <1>10, <1>11, <1>12 DEF ThreadStep

LEMMA InitHomeInv == Init => HomeInv
  <1> SUFFICES ASSUME Init PROVE HomeInv
    OBVIOUS
  <1>1. HomeDb(db) /\ HomeDb(draft)
    BY EmptyDbFacts DEF Init
  <1>2. LockInv
    BY ThreadsAssumption DEF Init, LockInv, HoldsLock
  <1>3. SessionsHome
    BY DEF Init, SessionsHome
  <1>4. \A t \in Threads : HomeThread(t)
    BY DEF Init, HomeThread
  <1>5. QED
    BY <1>1, <1>2, <1>3, <1>4 DEF HomeInv

LEMMA NextHomeInv ==
  ASSUME TypeInv, TypeInv', HomeInv, [Next]_vars PROVE HomeInv'
  <1>1. HomeDb(db)' /\ HomeDb(draft)'
    BY NextHomeDb
  <1>2. LockInv'
    BY NextLockInv DEF HomeInv
  <1>3. SessionsHome' /\ \A t \in Threads : HomeThread(t)'
    <2>1. ASSUME NEW t \in Threads, NEW u \in Users, NEW o \in BOOLEAN, NEW m, Begin(t, u, m, o)
          PROVE  SessionsHome' /\ \A s \in Threads : HomeThread(s)'
      <3>1. Moves(t)
        BY <2>1, BeginMoves
      <3>2. /\ UNCHANGED <<db, session>> /\ pc'[t] = "hydrate"
            /\ user'[t] = u /\ ctx'[t].recent = session[u]
        BY <2>1 DEF Begin, Goto, TypeInv, TurnTypes, Contexts
      <3>3. SessionsHome' /\ HomeThread(t)'
        BY <3>2 DEF HomeInv, SessionsHome, HomeThread
      <3>4. \A s \in Threads \ {t} : HomeThread(s)'
        BY <3>1, OthersStayHome DEF HomeInv
      <3>5. QED
        BY <3>3, <3>4
    <2>2. ASSUME NEW t \in Threads, ThreadStep(t)
          PROVE  SessionsHome' /\ \A s \in Threads : HomeThread(s)'
      <3>1. Moves(t)
        BY <2>2, StepMoves DEF HomeInv, LockInv
      <3>2. SessionsHome' /\ HomeThread(t)'
        BY <2>2, OwnHome
      <3>3. \A s \in Threads \ {t} : HomeThread(s)'
        BY <3>1, OthersStayHome DEF HomeInv
      <3>4. QED
        BY <3>2, <3>3
    <2>3. CASE UNCHANGED vars
      BY <2>3 DEF vars, turn, HomeInv, SessionsHome, HomeThread, View, NeedsPrincipal
    <2>4. QED
      BY <2>1, <2>2, <2>3 DEF Next, ThreadStep
  <1>4. QED
    BY <1>1, <1>2, <1>3 DEF HomeInv

LEMMA HomeCorrect == Spec => [](TypeInv /\ HomeInv)
  <1>1. TypeInv /\ HomeInv /\ [Next]_vars => TypeInv' /\ HomeInv'
    BY NextDbTypes, NextTurnTypes, NextHomeInv DEF TypeInv
  <1>2. QED
    BY <1>1, InitTypeInv, InitHomeInv, PTL DEF Spec

\* No turn of one user, whatever runs beside it, comes by another's entity: no
\* claim, relation.owns, principal binding or stored session names one, and a
\* binding points to the user's own principal.
THEOREM StaysHome == Spec => []KnowledgeStaysHome
  <1>1. TypeInv /\ HomeInv => KnowledgeStaysHome
    <2> SUFFICES ASSUME TypeInv, HomeInv PROVE KnowledgeStaysHome
      OBVIOUS
    <2>1. ASSUME NEW d \in {db, draft}
          PROVE  /\ \A c \in d.claims : d.entities[c.about].owner = c.user
                 /\ \A o \in d.owns : d.entities[o[1]].owner = d.entities[o[2]].owner
                 /\ \A u \in Users : d.bound[u] # 0 =>
                      /\ d.bound[u] <= Len(d.entities)
                      /\ d.entities[d.bound[u]] = [owner |-> u, name |-> Self, type |-> Person]
      <3>1. HomeDb(d)
        BY <2>1 DEF HomeInv
      <3>2. Len(d.entities) \in Nat
        BY <2>1 DEF TypeInv, DbTypes, Dbs
      <3>3. QED
        BY <3>1, <3>2 DEF HomeDb, Home, Principal
    <2>2. \A u \in Users : \A k \in 1 .. Len(session[u]) : db.entities[session[u][k]].owner = u
      BY DEF HomeInv, SessionsHome, Home
    <2>3. QED
      BY <2>1, <2>2 DEF KnowledgeStaysHome
  <1>2. QED
    BY <1>1, HomeCorrect, PTL

-----------------------------------------------------------------------------
(* The name is the key, and a user has one self.                           *)

\* Among u's entities of d the name is the key, and what u has said of himself
\* is said of the bound one.
KeyDb(d, u) ==
  /\ \A c \in d.claims : c.user = u /\ c.self => c.about = d.bound[u]
  /\ \A i \in Visible(d, u) :
       /\ d.entities[i].name = Self => i = d.bound[u]
       /\ d.entities[i].name = Anonymous => <<d.bound[u], i>> \in d.owns
  /\ \A i, j \in Visible(d, u) :
       i # j /\ d.entities[i].name = d.entities[j].name /\ d.entities[i].name # Car =>
         d.entities[i].name = Anonymous /\ d.entities[i].type # d.entities[j].type

\* u finds the same in e as in d.
Alike(d, e, u) == e.bound[u] = d.bound[u] /\ Visible(e, u) = Visible(d, u)

\* What the mention m would create as a y is not there.
Fresh(d, u, m, y) ==
  /\ m.kind \in {"named", "possessive", "contextual"}
  /\ m.kind = "named" => \A i \in Visible(d, u) : d.entities[i].name # m.name
  /\ m.kind = "possessive" =>
       \A i \in Visible(d, u) : d.entities[i].name = Anonymous => d.entities[i].type # y
  /\ m.kind = "contextual" => m.name = Car

\* What a turn has gathered is all there is, as long as no turn of the same
\* user runs beside it.
KeyThread(t) ==
  /\ mention[t].kind = "possessive" => owning[t]
  /\ pc[t] = "create" => View(t).bound[user[t]] = 0
  /\ pc[t] \in {"reload", "resolve", "write"} /\ NeedsPrincipal(t) =>
       ctx[t].principal = View(t).bound[user[t]]
  /\ pc[t] = "resolve" => Visible(View(t), user[t]) \subseteq seen[t]
  /\ pc[t] = "resolve" /\ NeedsPrincipal(t) =>
       \A i \in Visible(View(t), user[t]) :
         View(t).entities[i].name = Anonymous => i \in ctx[t].owned
  /\ pc[t] = "write" =>
       /\ found[t].status = "create" => Fresh(View(t), user[t], mention[t], found[t].type)
       /\ mention[t].kind = "self" =>
            found[t].status = "resolved" /\ found[t].id = View(t).bound[user[t]]

Alone ==
  \A s, t \in Threads :
    pc[s] # "idle" /\ pc[t] # "idle" /\ user[s] = user[t] /\ user[s] \notin mixed => s = t

DraftAlike ==
  holder # None => \A u \in Users : u # user[holder] => Alike(db, draft, u)

KeyInv ==
  /\ \A u \in Users \ mixed : KeyDb(db, u) /\ KeyDb(draft, u)
  /\ Alone
  /\ DraftAlike
  /\ \A t \in Threads : pc[t] # "idle" /\ user[t] \notin mixed => KeyThread(t)

LEMMA EmptyKeyDb == \A u \in Users : KeyDb(EmptyDb, u)
  <1>1. EmptyDb.entities = <<>> /\ EmptyDb.claims = {}
    BY DEF EmptyDb
  <1>2. \A u : Visible(EmptyDb, u) = {}
    BY <1>1 DEF Visible
  <1>3. QED
    BY <1>1, <1>2 DEF KeyDb

\* Visible entities stay visible, and as they are.
LEMMA VisibleGrows ==
  ASSUME NEW d \in Dbs, NEW e \in Dbs, Grown(d, e), NEW u
  PROVE  /\ Visible(d, u) \subseteq Visible(e, u)
         /\ \A i \in Visible(d, u) : e.entities[i] = d.entities[i]
  <1>1. Len(d.entities) \in Nat /\ Len(e.entities) \in Nat
    BY DEF Dbs
  <1>2. QED
    BY <1>1 DEF Visible, Grown

\* What one user writes leaves the key of another.
LEMMA KeyDbAlike ==
  ASSUME NEW d \in Dbs, NEW e \in Dbs, Grown(d, e), NEW u \in Users, Alike(d, e, u),
         d.owns \subseteq e.owns, \A c \in e.claims : c.user = u => c \in d.claims, KeyDb(d, u)
  PROVE  KeyDb(e, u)
  <1>1. \A i \in Visible(d, u) : e.entities[i] = d.entities[i]
    BY VisibleGrows
  <1>2. QED
    BY <1>1 DEF KeyDb, Alike

LEMMA AlikeFacts ==
  /\ \A d, u : Alike(d, d, u)
  /\ \A d, e, f, u : Alike(d, e, u) /\ Alike(e, f, u) => Alike(d, f, u)
  BY DEF Alike

\* One more entity.
LEMMA VisibleEntity ==
  ASSUME NEW d \in Dbs, NEW x \in Entities, NEW u
  PROVE  Visible(WithEntity(d, x), u) =
           Visible(d, u) \cup IF x.owner = u THEN {Len(d.entities) + 1} ELSE {}
  <1> DEFINE e == WithEntity(d, x)
  <1>1. /\ Len(d.entities) \in Nat /\ Len(e.entities) = Len(d.entities) + 1
        /\ e.entities[Len(d.entities) + 1] = x
        /\ \A i \in 1 .. Len(d.entities) : e.entities[i] = d.entities[i]
    BY EntityFacts DEF Dbs, Grown
  <1> HIDE DEF e
  <1>2. Visible(e, u) = Visible(d, u) \cup IF x.owner = u THEN {Len(d.entities) + 1} ELSE {}
    BY <1>1 DEF Visible
  <1>3. QED
    BY <1>2 DEF e

\* The first principal of a user: nothing was said of the user, nothing owned.
LEMMA CreateKey ==
  ASSUME TypeInv, HomeInv, KeyInv, NEW t \in Threads, CreatePrincipal(t)
  PROVE  /\ \A u \in Users \ mixed : KeyDb(draft', u)
         /\ \A u \in Users : u # user[t] => Alike(db, draft', u)
  <1> DEFINE w == user[t]
             n == Len(db.entities) + 1
  <1>1. /\ w \in Users /\ db \in Dbs /\ draft' = WithPrincipal(db, w)
        /\ holder = None /\ pc[t] = "create" /\ n \in Nat
    BY DEF CreatePrincipal, TypeInv, DbTypes, TurnTypes, Dbs
  <1> HIDE DEF w
  <1>2. /\ draft' \in Dbs /\ Grown(db, draft') /\ draft'.owns = db.owns
        /\ draft'.claims = db.claims /\ Principal(w) \in Entities
        /\ draft'.bound = [db.bound EXCEPT ![w] = n]
        /\ draft'.entities = WithEntity(db, Principal(w)).entities
    BY <1>1, PrincipalFacts
  <1>3. /\ draft'.bound[w] = n
        /\ \A u \in Users : u # w => draft'.bound[u] = db.bound[u]
    BY <1>1, <1>2 DEF Dbs
  <1>4. \A u : Visible(draft', u) = Visible(db, u) \cup IF u = w THEN {n} ELSE {}
    <2>1. \A u : Visible(draft', u) = Visible(WithEntity(db, Principal(w)), u)
      BY <1>2 DEF Visible
    <2>2. Principal(w).owner = w
      BY DEF Principal
    <2>3. ASSUME NEW u PROVE Visible(WithEntity(db, Principal(w)), u) =
                               Visible(db, u) \cup IF w = u THEN {n} ELSE {}
      BY <1>1, <1>2, <2>2, VisibleEntity
    <2>4. QED
      BY <2>1, <2>3
  <1>5. ASSUME NEW u \in Users, u # w PROVE Alike(db, draft', u)
    BY <1>3, <1>4, <1>5 DEF Alike
  <1>6. ASSUME NEW u \in Users \ mixed, u # w PROVE KeyDb(draft', u)
    <2>1. KeyDb(db, u)
      BY DEF KeyInv
    <2>2. Alike(db, draft', u)
      BY <1>5, <1>6
    <2>3. QED
      BY <1>1, <1>2, <2>1, <2>2, KeyDbAlike
  <1>7. ASSUME w \notin mixed PROVE KeyDb(draft', w)
    <2>1. KeyDb(db, w) /\ HomeDb(db) /\ db.bound[w] = 0
      <3>1. View(t) = db
        BY <1>1, ThreadsAssumption DEF View
      <3>2. KeyThread(t)
        BY <1>1, <1>7 DEF KeyInv, w
      <3>3. QED
        BY <1>1, <1>7, <3>1, <3>2 DEF KeyInv, KeyThread, HomeInv, w
    <2>2. \A c \in db.claims : ~(c.user = w /\ c.self)
      BY <1>1, <2>1 DEF KeyDb, HomeDb, Home
    <2>3. \A i \in Visible(db, w) :
            db.entities[i].name # Self /\ db.entities[i].name # Anonymous /\ i # n
      <3>1. ASSUME NEW i \in Visible(db, w) PROVE i \in 1 .. Len(db.entities)
        BY DEF Visible
      <3>2. \A o \in db.owns : o[1] # 0
        BY <2>1 DEF HomeDb, Home
      <3>3. \A i : <<0, i>> \notin db.owns
        BY <3>2
      <3>4. ASSUME NEW i \in Visible(db, w)
            PROVE  /\ db.entities[i].name = Self => i = 0
                   /\ db.entities[i].name = Anonymous => <<0, i>> \in db.owns
        BY <2>1 DEF KeyDb
      <3>5. Len(db.entities) \in Nat
        BY <1>1 DEF Dbs
      <3>6. \A i \in Visible(db, w) : i # 0 /\ i # n
        BY <3>1, <3>5
      <3> HIDE DEF n
      <3>7. QED
        BY <3>3, <3>4, <3>6
    <2>4. draft'.entities[n] = Principal(w)
      BY <1>1, <1>2, EntityFacts
    <2>5. \A i \in Visible(db, w) : draft'.entities[i] = db.entities[i]
      BY <1>1, <1>2, VisibleGrows
    <2>6. Principal(w).name = Self /\ Self # Anonymous
      BY TypesAssumption DEF Principal
    <2>7. \A c \in draft'.claims : c.user = w /\ c.self => c.about = draft'.bound[w]
      BY <1>2, <2>2
    <2>8. \A i \in Visible(draft', w) :
            /\ draft'.entities[i].name = Self => i = draft'.bound[w]
            /\ draft'.entities[i].name = Anonymous => <<draft'.bound[w], i>> \in draft'.owns
      BY <1>3, <1>4, <2>3, <2>4, <2>5, <2>6
    <2>9. \A i, j \in Visible(draft', w) :
            i # j /\ draft'.entities[i].name = draft'.entities[j].name
                  /\ draft'.entities[i].name # Car =>
              draft'.entities[i].name = Anonymous /\ draft'.entities[i].type # draft'.entities[j].type
      BY <1>4, <2>1, <2>3, <2>4, <2>5, <2>6 DEF KeyDb
    <2>10. QED
      BY <2>7, <2>8, <2>9 DEF KeyDb
  <1>8. QED
    BY <1>5, <1>6, <1>7 DEF w

\* What a turn writes, about what it found or about what is new.
LEMMA WriteKey ==
  ASSUME TypeInv, HomeInv, KeyInv, NEW t \in Threads, Write(t)
  PROVE  /\ \A u \in Users \ mixed : KeyDb(draft', u)
         /\ \A u \in Users : u # user[t] => Alike(db, draft', u)
  <1> DEFINE w == user[t]
             v == View(t)
             x == NewEntity(user[t], mention[t], found[t])
             n == Len(v.entities) + 1
  <1>1. /\ v \in Dbs /\ Base(t) \in Dbs /\ Grown(v, Base(t))
        /\ \/ found[t].status = "resolved" /\ Base(t) = v /\ About(t) = found[t].id
           \/ /\ found[t].status = "create" /\ x \in Entities
              /\ Base(t) = WithEntity(v, x) /\ About(t) = n
        /\ Claim(t) \in [user : Users, about : Nat, self : BOOLEAN]
        /\ Pairs(t) \in SUBSET (Nat \X Nat)
        /\ draft' = Told(Base(t), Claim(t), Pairs(t)) /\ draft' \in Dbs
    BY WriteFacts
  <1>2. /\ w \in Users /\ mention[t] \in Sentences /\ n \in Nat
        /\ pc[t] = "write" /\ holder \in {t, None} /\ db \in Dbs
    <2>1. n \in Nat
      BY <1>1 DEF Dbs
    <2>2. QED
      BY <2>1 DEF Write, TypeInv, TurnTypes, DbTypes
  <1>3. /\ draft'.entities = Base(t).entities /\ draft'.bound = v.bound
        /\ draft'.owns = v.owns \cup Pairs(t) /\ draft'.claims = v.claims \cup {Claim(t)}
        /\ Grown(v, draft')
    <2>1. /\ draft'.entities = Base(t).entities /\ draft'.bound = Base(t).bound
          /\ draft'.owns = Base(t).owns \cup Pairs(t)
          /\ draft'.claims = Base(t).claims \cup {Claim(t)} /\ Grown(Base(t), draft')
      BY <1>1, ToldFacts
    <2>2. Base(t).bound = v.bound /\ Base(t).owns = v.owns /\ Base(t).claims = v.claims
      BY <1>1, EntityFacts
    <2>3. QED
      BY <1>1, <2>1, <2>2, GrownFacts
  <1>4. x.owner = w /\ x.name = mention[t].name /\ x.type = found[t].type
    BY DEF NewEntity
  <1>5. \A u : \/ Visible(draft', u) = Visible(v, u)
               \/ /\ u = w /\ found[t].status = "create" /\ About(t) = n
                  /\ Visible(draft', u) = Visible(v, u) \cup {n}
                  /\ draft'.entities[n] = x
    <2>1. ASSUME NEW u PROVE Visible(draft', u) = Visible(Base(t), u)
      BY <1>3 DEF Visible
    <2>2. CASE Base(t) = v
      BY <2>1, <2>2
    <2>3. CASE found[t].status = "create" /\ x \in Entities /\ Base(t) = WithEntity(v, x) /\ About(t) = n
      <3> HIDE DEF x, v
      <3>1. \A u : Visible(Base(t), u) = Visible(v, u) \cup IF x.owner = u THEN {n} ELSE {}
        BY <1>1, <2>3, VisibleEntity
      <3>2. draft'.entities[n] = x
        BY <1>1, <1>3, <2>3, EntityFacts
      <3>3. ASSUME NEW u, u = x.owner PROVE Visible(draft', u) = Visible(v, u) \cup {n}
        BY <2>1, <3>1, <3>3
      <3>4. ASSUME NEW u, u # x.owner PROVE Visible(draft', u) = Visible(v, u)
        BY <2>1, <3>1, <3>4
      <3>5. x.owner = w
        BY <1>4
      <3> HIDE DEF w, n
      <3>6. QED
        BY <2>3, <3>2, <3>3, <3>4, <3>5
    <2>4. QED
      BY <1>1, <2>2, <2>3
  <1>6. ASSUME NEW u \in Users, u # w PROVE Alike(v, draft', u) /\ Alike(db, v, u)
    <2>1. Alike(v, draft', u)
      BY <1>3, <1>5, <1>6 DEF Alike
    <2>2. CASE holder = t
      <3>1. holder # None /\ u # user[holder] /\ v = draft
        BY <1>6, <2>2, ThreadsAssumption DEF View
      <3>2. DraftAlike
        BY DEF KeyInv
      <3>3. Alike(db, draft, u)
        BY <3>1, <3>2 DEF DraftAlike
      <3>4. QED
        BY <2>1, <3>1, <3>3
    <2>3. CASE holder = None
      <3>1. v = db
        BY <2>3, ThreadsAssumption DEF View
      <3> HIDE DEF v
      <3>2. QED
        BY <2>1, <3>1, AlikeFacts
    <2>4. QED
      BY <1>2, <2>1, <2>2, <2>3
  <1>7. \A u \in Users \ mixed : KeyDb(v, u)
    BY DEF KeyInv, View
  <1>8. ASSUME NEW u \in Users \ mixed, u # w PROVE KeyDb(draft', u)
    <2>1. Alike(v, draft', u) /\ KeyDb(v, u)
      BY <1>6, <1>7, <1>8
    <2>2. \A c \in draft'.claims : c.user = u => c \in v.claims
      BY <1>3, <1>8 DEF Claim
    <2>3. v.owns \subseteq draft'.owns
      BY <1>3
    <2> HIDE DEF v, w
    <2>4. QED
      BY <1>1, <1>3, <2>1, <2>2, <2>3, KeyDbAlike
  <1>9. ASSUME w \notin mixed PROVE KeyDb(draft', w)
    <2>1. KeyThread(t) /\ KeyDb(v, w)
      BY <1>2, <1>7, <1>9 DEF KeyInv
    <2>2. /\ found[t].status = "create" => Fresh(v, w, mention[t], found[t].type)
          /\ mention[t].kind = "self" =>
               found[t].status = "resolved" /\ found[t].id = v.bound[w]
          /\ NeedsPrincipal(t) => ctx[t].principal = v.bound[w]
          /\ mention[t].kind = "possessive" => owning[t]
      BY <1>2, <2>1 DEF KeyThread
    <2>3. /\ \A c \in v.claims : c.user = w /\ c.self => c.about = v.bound[w]
          /\ \A i \in Visible(v, w) :
               /\ v.entities[i].name = Self => i = v.bound[w]
               /\ v.entities[i].name = Anonymous => <<v.bound[w], i>> \in v.owns
          /\ \A i, j \in Visible(v, w) :
               i # j /\ v.entities[i].name = v.entities[j].name /\ v.entities[i].name # Car =>
                 v.entities[i].name = Anonymous /\ v.entities[i].type # v.entities[j].type
      BY <2>1 DEF KeyDb
    <2>4. \A i \in Visible(v, w) : draft'.entities[i] = v.entities[i]
      <3> HIDE DEF v, w
      <3> QED BY <1>1, <1>3, VisibleGrows
    <2>5. \A c \in draft'.claims : c.user = w /\ c.self => c.about = draft'.bound[w]
      <3>1. Claim(t).self => Claim(t).about = v.bound[w]
        <4>1. Claim(t).self => mention[t].kind = "self"
          BY DEF Claim
        <4>2. Claim(t).about = About(t)
          BY DEF Claim
        <4>3. mention[t].kind = "self" => About(t) = v.bound[w]
          BY <2>2 DEF About
        <4>4. QED
          BY <4>1, <4>2, <4>3
      <3>2. QED
        BY <1>3, <2>3, <3>1
    <2>6. CASE Visible(draft', w) = Visible(v, w)
      <3>1. \A i \in Visible(draft', w) :
              /\ draft'.entities[i].name = Self => i = draft'.bound[w]
              /\ draft'.entities[i].name = Anonymous => <<draft'.bound[w], i>> \in draft'.owns
        BY <1>3, <2>3, <2>4, <2>6
      <3>2. \A i, j \in Visible(draft', w) :
              i # j /\ draft'.entities[i].name = draft'.entities[j].name
                    /\ draft'.entities[i].name # Car =>
                draft'.entities[i].name = Anonymous
                /\ draft'.entities[i].type # draft'.entities[j].type
        BY <2>3, <2>4, <2>6
      <3>3. QED
        BY <2>5, <3>1, <3>2 DEF KeyDb
    <2>7. CASE /\ found[t].status = "create" /\ About(t) = n
               /\ Visible(draft', w) = Visible(v, w) \cup {n} /\ draft'.entities[n] = x
      <3>1. Fresh(v, w, mention[t], found[t].type)
        BY <2>2, <2>7
      <3>2. /\ x.name # Self
            /\ x.name = Anonymous => mention[t].kind = "possessive"
        BY <1>2, <1>4, <3>1, TypesAssumption DEF Fresh, Sentences
      <3>3. x.name = Anonymous => <<v.bound[w], n>> \in draft'.owns
        <4>1. SUFFICES ASSUME x.name = Anonymous PROVE <<v.bound[w], n>> \in draft'.owns
          OBVIOUS
        <4>2. owning[t] /\ NeedsPrincipal(t)
          BY <2>2, <3>2, <4>1 DEF NeedsPrincipal
        <4>3. Pairs(t) = {<<v.bound[w], n>>}
          BY <2>2, <2>7, <4>2 DEF Pairs
        <4>4. QED
          BY <1>3, <4>3
      <3>4. ASSUME NEW i \in Visible(v, w), v.entities[i].name = x.name, x.name # Car
            PROVE  x.name = Anonymous /\ v.entities[i].type # x.type
        BY <1>2, <1>4, <3>1, <3>4 DEF Fresh, Sentences
      <3> HIDE DEF x, v, n, w
      <3>5. \A i \in Visible(draft', w) :
              /\ draft'.entities[i].name = Self => i = draft'.bound[w]
              /\ draft'.entities[i].name = Anonymous => <<draft'.bound[w], i>> \in draft'.owns
        BY <1>3, <2>3, <2>4, <2>7, <3>2, <3>3
      <3>6. \A i, j \in Visible(draft', w) :
              i # j /\ draft'.entities[i].name = draft'.entities[j].name
                    /\ draft'.entities[i].name # Car =>
                draft'.entities[i].name = Anonymous
                /\ draft'.entities[i].type # draft'.entities[j].type
        BY <2>3, <2>4, <2>7, <3>4
      <3>7. QED
        BY <2>5, <3>5, <3>6 DEF KeyDb
    <2>8. QED
      BY <1>5, <2>6, <2>7
  <1>10. \A u \in Users : u # w => Alike(db, draft', u)
    BY <1>6, AlikeFacts
  <1>11. QED
    BY <1>8, <1>9, <1>10

\* What the others have gathered.
LEMMA OthersKeepKey ==
  ASSUME TypeInv, TypeInv', HomeInv, KeyInv, NEW t \in Threads, Moves(t),
         mixed \subseteq mixed', NEW s \in Threads \ {t},
         pc'[s] # "idle", user'[s] \notin mixed'
  PROVE  KeyThread(s)'
  <1>1. /\ pc'[s] = pc[s] /\ user'[s] = user[s] /\ mention'[s] = mention[s]
        /\ owning'[s] = owning[s] /\ seen'[s] = seen[s] /\ ctx'[s] = ctx[s]
        /\ found'[s] = found[s]
    BY DEF Moves
  <1>2. NeedsPrincipal(s)' = NeedsPrincipal(s)
    BY <1>1 DEF NeedsPrincipal
  <1>3. KeyThread(s) /\ user[s] \in Users
    BY <1>1 DEF KeyInv, TypeInv, TurnTypes
  <1>4. /\ Grown(View(s), View(s)') /\ View(s) \in Dbs /\ View(s)' \in Dbs
        /\ View(s)' = View(s) \/ (View(s) = db /\ View(s)' = db' /\ holder = t)
    BY ViewsGrow, ViewFacts DEF HomeInv, TypeInv, DbTypes, View
  <1>5. Alike(View(s), View(s)', user[s])
    <2>1. CASE View(s)' = View(s)
      BY <2>1, AlikeFacts
    <2>2. CASE View(s) = db /\ View(s)' = db' /\ holder = t
      <3>1. pc[t] # "idle"
        BY <2>2 DEF HomeInv, LockInv
      <3>2. user[s] # user[t]
        BY <1>1, <3>1 DEF KeyInv, Alone
      <3>3. Alike(db, draft, user[s])
        BY <1>3, <2>2, <3>2, ThreadsAssumption DEF KeyInv, DraftAlike
      <3>4. db' = db \/ db' = draft
        BY DEF Moves
      <3>5. QED
        BY <2>2, <3>3, <3>4, AlikeFacts
    <2>3. QED
      BY <1>4, <2>1, <2>2
  <1>6. /\ Visible(View(s)', user[s]) = Visible(View(s), user[s])
        /\ View(s)'.bound[user[s]] = View(s).bound[user[s]]
        /\ \A i \in Visible(View(s), user[s]) : View(s)'.entities[i] = View(s).entities[i]
    BY <1>4, <1>5, VisibleGrows DEF Alike
  <1>7. \A m, y : Fresh(View(s), user[s], m, y) => Fresh(View(s)', user[s], m, y)
    BY <1>6 DEF Fresh
  <1>8. QED
    BY <1>1, <1>2, <1>3, <1>6, <1>7 DEF KeyThread

\* What the turn itself gathers.
LEMMA OwnKey ==
  ASSUME TypeInv, TypeInv', HomeInv, KeyInv, NEW t \in Threads, ThreadStep(t),
         pc'[t] # "idle", user[t] \notin mixed
  PROVE  KeyThread(t)'
  <1> USE DEF TypeInv
  <1> DEFINE u == user[t]
             v == View(t)
  <1>1. pc[t] # "idle"
    BY DEF ThreadStep, Hydrate, Ensure, CreatePrincipal, Reload, ResolveMention, Write,
           Commit, Save, Fail
  <1>2. /\ KeyThread(t) /\ u \in Users /\ v \in Dbs /\ Len(v.entities) <= MaxEntities
        /\ KeyDb(v, u)
    BY <1>1, ViewFacts DEF KeyInv, View, TurnTypes
  <1>3. CASE Hydrate(t)
    <2>1. /\ UNCHANGED <<db, draft, holder, user, mention, owning, ctx>>
          /\ seen'[t] = Visible(v, u) /\ pc'[t] \in {"ensure", "resolve"}
          /\ pc'[t] = "resolve" => ~NeedsPrincipal(t)
      BY <1>3 DEF Hydrate, Goto, TurnTypes
    <2>2. View(t)' = v /\ NeedsPrincipal(t)' = NeedsPrincipal(t)
      BY <2>1 DEF View, NeedsPrincipal
    <2>3. QED
      BY <1>2, <2>1, <2>2 DEF KeyThread
  <1>4. CASE Ensure(t)
    <2>1. /\ UNCHANGED <<db, draft, holder, user, mention, owning, seen>>
          /\ pc'[t] = "reload" => ctx'[t].principal = v.bound[u]
          /\ pc'[t] = "create" => v.bound[u] = 0
          /\ pc'[t] \in {"create", "reload"}
      <3>1. \/ /\ ctx' = [ctx EXCEPT ![t].principal = v.bound[u]]
               /\ Goto(t, "reload")
            \/ Goto(t, "create") /\ v.bound[u] = 0
        BY <1>4 DEF Ensure, Bound
      <3>2. UNCHANGED <<db, draft, holder, user, mention, owning, seen>>
        BY <1>4 DEF Ensure
      <3>3. QED
        BY <3>1, <3>2 DEF Goto, TurnTypes, Contexts
    <2>2. View(t)' = v
      BY <2>1 DEF View
    <2>3. QED
      BY <1>2, <2>1, <2>2 DEF KeyThread
  <1>5. CASE CreatePrincipal(t)
    <2>1. /\ UNCHANGED <<user, mention, owning>> /\ holder' = t /\ pc'[t] = "reload"
          /\ ctx'[t].principal = draft'.bound[u]
      BY <1>5 DEF CreatePrincipal, Goto, TurnTypes, Contexts
    <2>2. View(t)' = draft'
      BY <2>1 DEF View
    <2>3. QED
      BY <1>2, <2>1, <2>2 DEF KeyThread
  <1>6. CASE Reload(t)
    <2>1. /\ UNCHANGED <<db, draft, holder, user, mention, owning>>
          /\ pc[t] = "reload" /\ pc'[t] = "resolve"
          /\ seen'[t] = seen[t] \cup Visible(v, u)
          /\ ctx'[t].principal = ctx[t].principal
          /\ ctx'[t].owned = {i \in Ids : <<ctx[t].principal, i>> \in v.owns}
      BY <1>6 DEF Reload, Goto, TurnTypes, Contexts
    <2>2. View(t)' = v /\ NeedsPrincipal(t)' = NeedsPrincipal(t)
      BY <2>1 DEF View, NeedsPrincipal
    <2>3. NeedsPrincipal(t) => ctx[t].principal = v.bound[u]
      BY <1>2, <2>1 DEF KeyThread
    <2>4. Visible(v, u) \subseteq Ids
      <3>1. Len(v.entities) \in Nat
        BY <1>2 DEF Dbs
      <3>2. QED
        BY <1>2, <3>1, EntitiesAssumption DEF Visible, Ids
    <2>5. NeedsPrincipal(t) =>
            \A i \in Visible(v, u) : v.entities[i].name = Anonymous => i \in ctx'[t].owned
      BY <1>2, <2>1, <2>3, <2>4 DEF KeyDb
    <2>6. QED
      BY <1>2, <2>1, <2>2, <2>3, <2>5 DEF KeyThread
  <1>7. CASE ResolveMention(t)
    <2> DEFINE res == Resolve(Lookup(seen[t], v.entities), ctx[t], mention[t])
               m == mention[t]
    <2>1. Meant(res, seen[t], v.entities, ctx[t], m)
      BY ResolvedFacts
    <2>2. /\ pc[t] = "resolve" /\ UNCHANGED <<db, user, mention, owning, ctx>>
          /\ found'[t] = res
          /\ \/ pc'[t] = "write" /\ UNCHANGED <<draft, holder>> /\ Persistable(m, res)
             \/ pc'[t] = "save"
      BY <1>7 DEF ResolveMention, Lookup, Goto, TurnTypes
    <2>3. m.kind = "possessive" => owning[t]
      BY <1>2 DEF KeyThread
    <2> HIDE DEF res
    <2>4. CASE pc'[t] = "save"
      BY <2>2, <2>3, <2>4 DEF KeyThread
    <2>5. CASE pc'[t] = "write" /\ UNCHANGED <<draft, holder>> /\ Persistable(m, res)
      <3>1. View(t)' = v /\ NeedsPrincipal(t)' = NeedsPrincipal(t)
        BY <2>2, <2>5 DEF View, NeedsPrincipal
      <3>2. /\ NeedsPrincipal(t) => ctx[t].principal = v.bound[u]
            /\ Visible(v, u) \subseteq seen[t]
            /\ NeedsPrincipal(t) =>
                 \A i \in Visible(v, u) : v.entities[i].name = Anonymous => i \in ctx[t].owned
        BY <1>2, <2>2 DEF KeyThread
      <3>3. res.status = "create" => Fresh(v, u, m, res.type)
        <4>1. SUFFICES ASSUME res.status = "create" PROVE Fresh(v, u, m, res.type)
          OBVIOUS
        <4>2. /\ res.type = m.type
              /\ m.kind \in {"named", "possessive", "contextual"}
              /\ m.kind = "named" => \A i \in seen[t] : v.entities[i].name # m.name
              /\ m.kind = "possessive" =>
                   \A i \in ctx[t].owned \cap seen[t] : v.entities[i].type # m.type
              /\ m.kind = "contextual" => m.name = Car
          BY <2>1, <4>1 DEF Meant
        <4>3. m.kind = "possessive" => NeedsPrincipal(t)
          BY DEF NeedsPrincipal
        <4> HIDE DEF v, u, m
        <4>4. QED
          BY <3>2, <4>2, <4>3 DEF Fresh
      <3>4. m.kind = "self" => res.status = "resolved" /\ res.id = v.bound[u]
        <4>1. m.kind = "self" => NeedsPrincipal(t)
          BY DEF NeedsPrincipal
        <4>2. m.kind = "self" => res.status = "resolved"
          BY <2>1, <2>5 DEF Meant, Persistable
        <4>3. QED
          BY <2>1, <3>2, <4>1, <4>2 DEF Meant
      <3>5. QED
        BY <2>2, <2>3, <2>5, <3>1, <3>2, <3>3, <3>4 DEF KeyThread
    <2>6. QED
      BY <2>2, <2>4, <2>5
  <1>8. CASE Write(t) \/ Commit(t)
    <2>1. UNCHANGED <<mention, owning>> /\ pc'[t] \in {"commit", "save"}
      BY <1>8 DEF Write, Commit, Goto, TurnTypes
    <2>2. QED
      BY <1>2, <2>1 DEF KeyThread
  <1>9. CASE Save(t) \/ Fail(t)
    BY <1>9 DEF Save, Fail, Forget, Goto, TurnTypes
  <1>10. QED
    BY <1>3, <1>4, <1>5, <1>6, <1>7, <1>8, <1>9 DEF ThreadStep

LEMMA InitKeyInv == Init => KeyInv
  <1> SUFFICES ASSUME Init PROVE KeyInv
    OBVIOUS
  <1>1. \A u \in Users : KeyDb(db, u) /\ KeyDb(draft, u)
    BY EmptyKeyDb DEF Init
  <1>2. QED
    BY <1>1 DEF Init, KeyInv, Alone, DraftAlike

\* The databases, for any step.
LEMMA NextKeyDb ==
  ASSUME TypeInv, HomeInv, KeyInv, [Next]_vars, mixed \subseteq mixed',
         NEW u \in Users \ mixed'
  PROVE  KeyDb(db, u)' /\ KeyDb(draft, u)'
  <1>0. u \in Users \ mixed /\ KeyDb(db, u) /\ KeyDb(draft, u) /\ KeyDb(EmptyDb, u)
    BY EmptyKeyDb DEF KeyInv
  <1>1. ASSUME NEW t \in Threads, CreatePrincipal(t) PROVE KeyDb(db', u) /\ KeyDb(draft', u)
    <2>1. db' = db
      BY <1>1 DEF CreatePrincipal
    <2>2. QED
      BY <1>0, <1>1, <2>1, CreateKey
  <1>2. ASSUME NEW t \in Threads, Write(t) PROVE KeyDb(db', u) /\ KeyDb(draft', u)
    <2>1. db' = db
      BY <1>2 DEF Write
    <2>2. QED
      BY <1>0, <1>2, <2>1, WriteKey
  <1>3. ASSUME db' \in {db, draft}, draft' \in {draft, EmptyDb}
        PROVE  KeyDb(db', u) /\ KeyDb(draft', u)
    BY <1>0, <1>3
  <1>4. ASSUME NEW t \in Threads, ResolveMention(t) \/ Commit(t) \/ Fail(t)
        PROVE  db' \in {db, draft} /\ draft' \in {draft, EmptyDb}
    BY <1>4 DEF ResolveMention, Commit, Fail, Release
  <1>5. QED
    BY <1>1, <1>2, <1>3, <1>4 DEF Next, vars, turn, Begin, Hydrate, Ensure, Reload, Save

\* What the lock's holder has not committed is about the holder's user.
LEMMA NextDraftAlike ==
  ASSUME TypeInv, HomeInv, KeyInv, NEW t \in Threads, Moves(t),
         \/ ThreadStep(t)
         \/ UNCHANGED <<db, draft, holder>> /\ pc[t] = "idle"
  PROVE  DraftAlike'
  <1>1. CASE UNCHANGED <<db, draft, holder>> /\ (holder = t => user'[t] = user[t])
    <2>1. ASSUME holder # None PROVE user'[holder] = user[holder]
      BY <1>1, <2>1 DEF Moves, TypeInv, DbTypes
    <2>2. QED
      BY <1>1, <2>1 DEF KeyInv, DraftAlike
  <1>2. CASE holder' = None
    BY <1>2 DEF DraftAlike
  <1>3. CASE CreatePrincipal(t) \/ Write(t)
    <2>1. holder' = t /\ db' = db /\ user' = user
      BY <1>3 DEF CreatePrincipal, Write
    <2>2. \A u \in Users : u # user[t] => Alike(db, draft', u)
      BY <1>3, CreateKey, WriteKey
    <2>3. QED
      BY <2>1, <2>2 DEF DraftAlike
  <1>4. CASE Hydrate(t) \/ Ensure(t) \/ Reload(t)
    <2>1. UNCHANGED <<db, draft, holder, user>>
      BY <1>4 DEF Hydrate, Ensure, Reload
    <2>2. QED
      BY <1>1, <2>1
  <1>5. CASE pc[t] = "idle" /\ UNCHANGED <<db, draft, holder>>
    <2>1. holder # t
      BY <1>5 DEF HomeInv, LockInv
    <2>2. QED
      BY <1>1, <1>5, <2>1
  <1>6. CASE Save(t)
    <2>1. UNCHANGED <<db, draft, holder>> /\ pc[t] = "save"
      BY <1>6 DEF Save
    <2>2. holder # t
      BY <2>1 DEF HomeInv, LockInv
    <2>3. QED
      BY <1>1, <2>1, <2>2
  <1>7. CASE ResolveMention(t)
    <2>1. user' = user /\ db' = db /\ (UNCHANGED <<draft, holder>> \/ Release(t))
      BY <1>7 DEF ResolveMention
    <2>2. holder' = None \/ UNCHANGED <<draft, holder>>
      BY <2>1 DEF Release
    <2>3. QED
      BY <1>1, <1>2, <2>1, <2>2
  <1>8. CASE Commit(t)
    <2>1. holder = t
      BY <1>8 DEF HomeInv, LockInv, HoldsLock, Commit
    <2>2. QED
      BY <1>2, <1>8, <2>1 DEF Commit, Release
  <1>9. CASE Fail(t)
    <2>1. db' = db /\ (holder' = None \/ (UNCHANGED <<draft, holder>> /\ holder # t))
      BY <1>9 DEF Fail, Release
    <2>2. QED
      BY <1>1, <1>2, <2>1
  <1>10. QED
    BY <1>3, <1>4, <1>5, <1>6, <1>7, <1>8, <1>9 DEF ThreadStep

\* A thread that is still at work after its step is at the same turn.
LEMMA StepKeepsTurn ==
  ASSUME TypeInv, NEW t \in Threads, ThreadStep(t)
  PROVE  mixed' = mixed /\ pc[t] # "idle" /\ (pc'[t] # "idle" => user'[t] = user[t])
  BY DEF TypeInv, TurnTypes, ThreadStep, Hydrate, Ensure, CreatePrincipal, Reload,
         ResolveMention, Write, Commit, Save, Fail, Forget, Goto

LEMMA NextKeyInv ==
  ASSUME TypeInv, TypeInv', HomeInv, KeyInv, [Next]_vars PROVE KeyInv'
  <1>1. ASSUME NEW t \in Threads, NEW w \in Users, NEW o \in BOOLEAN, NEW m, Begin(t, w, m, o)
        PROVE  KeyInv'
    <2>1. Moves(t)
      BY <1>1, BeginMoves
    <2>2. /\ UNCHANGED <<db, draft, holder>> /\ pc[t] = "idle" /\ pc'[t] = "hydrate"
          /\ user'[t] = w /\ mention'[t] = m /\ owning'[t] = o
          /\ m.kind = "possessive" => o
          /\ mixed' = IF \E s \in Threads : user[s] = w THEN mixed \cup {w} ELSE mixed
      BY <1>1 DEF Begin, Goto, TypeInv, TurnTypes
    <2>3. mixed \subseteq mixed'
      BY <2>2
    <2>4. \A u \in Users \ mixed' : KeyDb(db, u)' /\ KeyDb(draft, u)'
      BY <2>3, NextKeyDb
    <2>5. DraftAlike'
      BY <2>1, <2>2, NextDraftAlike
    <2>6. Alone'
      <3>1. \A s \in Threads \ {t} : pc'[s] = pc[s] /\ user'[s] = user[s]
        BY <2>1 DEF Moves
      <3>2. ASSUME NEW s \in Threads \ {t}, user'[s] = w PROVE w \in mixed'
        BY <2>2, <3>1, <3>2
      <3>3. QED
        BY <2>2, <2>3, <3>1, <3>2 DEF KeyInv, Alone
    <2>7. KeyThread(t)'
      BY <2>2 DEF KeyThread
    <2>8. \A s \in Threads : pc'[s] # "idle" /\ user'[s] \notin mixed' => KeyThread(s)'
      BY <2>1, <2>3, <2>7, OthersKeepKey
    <2>9. QED
      BY <2>4, <2>5, <2>6, <2>8 DEF KeyInv
  <1>2. ASSUME NEW t \in Threads, ThreadStep(t) PROVE KeyInv'
    <2>1. Moves(t)
      BY <1>2, StepMoves DEF HomeInv, LockInv
    <2>2. mixed' = mixed /\ pc[t] # "idle" /\ (pc'[t] # "idle" => user'[t] = user[t])
      BY <1>2, StepKeepsTurn
    <2>3. \A u \in Users \ mixed' : KeyDb(db, u)' /\ KeyDb(draft, u)'
      BY <2>2, NextKeyDb
    <2>4. DraftAlike'
      BY <1>2, <2>1, NextDraftAlike
    <2>5. Alone'
      <3>1. \A s \in Threads : pc'[s] # "idle" => pc[s] # "idle" /\ user'[s] = user[s]
        BY <2>1, <2>2 DEF Moves
      <3>2. QED
        BY <2>2, <3>1 DEF KeyInv, Alone
    <2>6. ASSUME pc'[t] # "idle", user'[t] \notin mixed' PROVE KeyThread(t)'
      BY <1>2, <2>2, <2>6, OwnKey
    <2>7. \A s \in Threads : pc'[s] # "idle" /\ user'[s] \notin mixed' => KeyThread(s)'
      BY <2>1, <2>2, <2>6, OthersKeepKey
    <2>8. QED
      BY <2>3, <2>4, <2>5, <2>7 DEF KeyInv
  <1>3. CASE UNCHANGED vars
    BY <1>3 DEF vars, turn, KeyInv, Alone, DraftAlike, KeyThread, View, NeedsPrincipal
  <1>4. QED
    BY <1>1, <1>2, <1>3 DEF Next, ThreadStep

LEMMA KeyCorrect == Spec => [](TypeInv /\ HomeInv /\ KeyInv)
  <1>1. TypeInv /\ HomeInv /\ KeyInv /\ [Next]_vars => TypeInv' /\ HomeInv' /\ KeyInv'
    BY NextDbTypes, NextTurnTypes, NextHomeInv, NextKeyInv DEF TypeInv
  <1>2. QED
    BY <1>1, InitTypeInv, InitHomeInv, InitKeyInv, PTL DEF Spec

\* As long as no two turns of a user overlap, what the user says of himself is
\* said of one entity, the bound one, although the binding was looked for
\* before the lock was taken.
THEOREM OneSelf == Spec => []SelfIsOne
  <1>1. TypeInv /\ KeyInv => SelfIsOne
    BY DEF TypeInv, DbTypes, Dbs, KeyInv, KeyDb, SelfIsOne
  <1>2. QED
    BY <1>1, KeyCorrect, PTL

\* FromNamed: a hint ranks what has the name and hides nothing.
LEMMA HintRanks ==
  ASSUME NEW known, NEW n \in Names, NEW y \in Types
  PROVE  LET bare == Resolve(known, NoCtx, Mention("named", n, NoType, 0))
             hint == Resolve(known, NoCtx, Mention("named", n, y, 0))
         IN  /\ bare.status = "resolved" => hint = bare
             /\ bare.status = "ambiguous" => hint.status # "create"
  <1> DEFINE bare == Resolve(known, NoCtx, Mention("named", n, NoType, 0))
             hint == Resolve(known, NoCtx, Mention("named", n, y, 0))
             named == {i \in DOMAIN known : known[i].name = n}
             typed == {i \in named : TypeMatch(known[i].type, y)}
             untyped == {i \in named : TypeMatch(known[i].type, NoType)}
  <1>1. untyped = {} /\ Cardinality(untyped) # 1 /\ NoType # y
    BY FS_EmptySet, TypesAssumption DEF TypeMatch
  <1>2. bare = TheOne(named, Unresolved)
    BY <1>1 DEF Resolve, Mention, FromNamed
  <1>3. \/ hint = TheOne(named, Create(y)) /\ ~(Cardinality(named) > 1 /\ Cardinality(typed) = 1)
        \/ hint = TheOne(typed, Ambiguous) /\ Cardinality(named) > 1
    BY <1>1 DEF Resolve, Mention, FromNamed
  <1> HIDE DEF bare, hint, named, typed
  <1>4. CASE Cardinality(named) = 1
    <2>1. bare = Resolved(CHOOSE i \in named : TRUE) /\ hint = bare
      BY <1>2, <1>3, <1>4 DEF TheOne
    <2>2. QED
      BY <2>1 DEF Resolved, bare, hint
  <1>5. CASE named = {}
    <2>1. bare = Unresolved
      BY <1>2, <1>5, TheOneFacts
    <2>2. QED
      BY <2>1 DEF Unresolved, bare, hint
  <1>6. CASE named # {} /\ Cardinality(named) # 1
    <2>1. bare = Ambiguous
      BY <1>2, <1>6 DEF TheOne
    <2>2. hint = Ambiguous \/ \E i : hint = Resolved(i)
      <3>1. CASE hint = TheOne(named, Create(y))
        BY <1>6, <3>1 DEF TheOne
      <3>2. CASE hint = TheOne(typed, Ambiguous)
        BY <3>2, TheOneFacts
      <3>3. QED
        BY <1>3, <3>1, <3>2
    <2>3. bare.status = "ambiguous" /\ hint.status # "create"
      BY <2>1, <2>2 DEF Ambiguous, Resolved
    <2>4. QED
      BY <2>3 DEF bare, hint
  <1>7. QED
    BY <1>4, <1>5, <1>6

\* FromOwnedVehicle: "o carro" of who owns a vehicle is never a new one.
LEMMA CarIsOwned ==
  ASSUME NEW S, NEW e, NEW mine, NEW i \in mine.owned \cap S, e[i].type = Vehicle
  PROVE  Resolve(Lookup(S, e), mine, Mention("contextual", Car, Vehicle, 0)).status # "create"
  <1> DEFINE m == Mention("contextual", Car, Vehicle, 0)
             known == Lookup(S, e)
             owned == {j \in mine.owned \cap DOMAIN known :
                         known[j].type = Vehicle /\ TypeMatch(known[j].type, m.type)}
             res == Resolve(known, mine, m)
  <1>1. m.kind = "contextual" /\ m.name = Car /\ m.type = Vehicle /\ Vehicle # NoType
    BY TypesAssumption DEF Mention
  <1>2. res = FromOwnedVehicle(known, mine, m)
    BY <1>1 DEF Resolve, FromContext
  <1>3. i \in owned
    BY <1>1 DEF TypeMatch, Lookup
  <1>4. \/ res = TheOne(owned, Create(m.type))
        \/ \E ids : res = TheOne(ids, Ambiguous)
        \/ res = Ambiguous
    BY <1>2, Zenon DEF FromOwnedVehicle
  <1> HIDE DEF m, known, owned, res
  <1>5. res = Ambiguous \/ \E j : res = Resolved(j)
    BY <1>3, <1>4, TheOneFacts
  <1>6. res.status # "create"
    BY <1>5 DEF Ambiguous, Resolved
  <1>7. QED
    BY <1>6 DEF res, known, m

\* As long as no two turns of a user overlap, a user has no two entities of one
\* name, but for the vehicles that "o carro" makes while the user owns none, and
\* no two anonymous possessions of one type; who owns a vehicle is given no new
\* one for "o carro"; and a type hint ranks those of a name and hides none.
THEOREM NameIsKey == Spec => []NameIsTheKey
  <1>1. TypeInv /\ KeyInv => NameIsTheKey
    <2> SUFFICES ASSUME TypeInv, KeyInv PROVE NameIsTheKey
      OBVIOUS
    <2>1. ASSUME NEW i \in 1 .. Len(db.entities), NEW j \in 1 .. Len(db.entities), i # j,
                 db.entities[i].owner = db.entities[j].owner,
                 db.entities[i].owner \notin mixed,
                 db.entities[i].name = db.entities[j].name, db.entities[i].name # Car
          PROVE  db.entities[i].name = Anonymous /\ db.entities[i].type # db.entities[j].type
      <3> DEFINE u == db.entities[i].owner
      <3>1. u \in Users
        <4>1. db.entities[i] \in Entities
          BY DEF TypeInv, DbTypes, Dbs
        <4>2. QED
          BY <4>1 DEF Entities
      <3>2. i \in Visible(db, u) /\ j \in Visible(db, u)
        BY <2>1 DEF Visible
      <3>3. KeyDb(db, u)
        BY <2>1, <3>1 DEF KeyInv
      <3> HIDE DEF u
      <3>4. QED
        BY <2>1, <3>2, <3>3 DEF KeyDb
    <2>2. ASSUME NEW u \in Users,
                 NEW i \in {j \in Visible(db, u) : <<db.bound[u], j>> \in db.owns},
                 db.entities[i].type = Vehicle
          PROVE  LET mine == [principal |-> db.bound[u],
                             owned |-> {j \in Visible(db, u) : <<db.bound[u], j>> \in db.owns},
                             recent |-> session[u]]
                 IN  Resolve([j \in Visible(db, u) |-> db.entities[j]], mine,
                             Mention("contextual", Car, Vehicle, 0)).status # "create"
      <3> DEFINE own == {j \in Visible(db, u) : <<db.bound[u], j>> \in db.owns}
                 mine == [principal |-> db.bound[u], owned |-> own, recent |-> session[u]]
                 S == Visible(db, u)
      <3>1. i \in mine.owned \cap S
        BY <2>2
      <3>2. Lookup(S, db.entities) = [j \in Visible(db, u) |-> db.entities[j]]
        BY DEF Lookup
      <3> HIDE DEF mine, S
      <3>3. Resolve(Lookup(S, db.entities), mine, Mention("contextual", Car, Vehicle, 0)).status
              # "create"
        BY <2>2, <3>1, CarIsOwned
      <3>4. QED
        BY <3>2, <3>3 DEF mine, S
    <2>3. QED
      BY <2>1, <2>2, HintRanks DEF NameIsTheKey
  <1>2. QED
    BY <1>1, KeyCorrect, PTL
===============================================================================
