--------------------------- MODULE ConversationsProofs ---------------------------
(***************************************************************************)
(* Proofs about Conversations, for every number of users, threads, turns   *)
(* and entities.  The induction over sets that the positions of a sequence *)
(* need is that of Smallest, which is about a family of sets and not about *)
(* a formula.                                                              *)
(***************************************************************************)
EXTENDS Conversations, FiniteSetTheorems, FunctionTheorems, SequenceTheorems,
        WellFoundedInduction, TLAPS

-----------------------------------------------------------------------------
(* Types.                                                                  *)

TokenRows  == [user : Names, holder : Clients, expires : Nat, revoked : BOOLEAN]
Referents  == Seq([id : Nat, left : Nat])
Ids        == {ids \in SUBSET Nat : IsFiniteSet(ids)}
Discourses == [focus : Ids, referents : Referents,
               pending : [turn : Nat, candidates : SUBSET Nat], idle : Nat]
Copies     == [discourse : Discourses, last : Nat]
Messages   == Seq([turn : Nat, user : Names, role : {"user", "assistant"}, at : Nat])
Requests   == [user : Names \cup {None}, turn : Nat, wanted : Nat, conv : Nat, dirty : BOOLEAN]
Askings    == [query : [kind : {"none", "attribute", "other", "subject_only"},
                        about : Nat, subject : BOOLEAN],
               about : Nat, completes : Nat]
Working    == {"post", "load", "utterances", "engine", "save"}  \* where a turn may fail
Steps      == Working \cup {"idle", "reply"}

\* An event: where it was told, and whether the session was told of it.
Told(cs) == [conv : DOMAIN cs, heard : BOOLEAN]

SessionTypes ==
  /\ now \in Nat /\ setBacks \in Nat
  /\ accounts \in [Names -> Clients \cup {None}]
  /\ registering \in [Clients -> Names \cup {None}]
  /\ tokens \in Seq(TokenRows)
  /\ ended \subseteq Nat

StoreTypes ==
  /\ convs \in Seq([owner : Names, session : Copies])
  /\ rows \in Seq(Messages) /\ Len(rows) = Len(convs)
  /\ posts \in Seq(Seq(Nat)) /\ Len(posts) = Len(convs)
  /\ entities \in Seq(Names)
  /\ events \in Seq(Told(convs))

TurnTypes ==
  /\ turns \in Nat /\ retries \in Nat
  /\ failed \subseteq [turn : 1 .. turns, user : Names, wanted : Nat]
  /\ pc \in [Threads -> Steps]
  /\ req \in [Threads -> Requests]
  /\ sess \in [Threads -> Copies]
  /\ prior \in [Threads -> Seq(Nat)]
  /\ asked \in [Threads -> Askings]
  /\ mixed \subseteq Nat /\ lost \subseteq Nat /\ completed \subseteq Nat \ {0}

\* A turn is in a conversation of its user.
PlaceThread(t) ==
  IF pc[t] = "idle" THEN req[t] = NoRequest /\ sess[t] = NewSession /\ asked[t] = NotAsked
  ELSE /\ req[t].conv \in DOMAIN convs
       /\ req[t].user \in Names /\ convs[req[t].conv].owner = req[t].user
       /\ req[t].turn \in 1 .. turns

TypeInv == SessionTypes /\ StoreTypes /\ TurnTypes /\ \A t \in Threads : PlaceThread(t)

-----------------------------------------------------------------------------
(* Accounts and their sessions.                                            *)

SessionsInv ==
  /\ \A i \in ended : i \in DOMAIN tokens /\ tokens[i].revoked
  /\ \A i \in DOMAIN tokens : accounts[tokens[i].user] = tokens[i].holder

-----------------------------------------------------------------------------
(* What conversations and turns are about.                                 *)

FocusThread(t) == Allowed(sess[t].discourse) \subseteq Home(req[t].user)
FocusConv(c)   == Allowed(convs[c].session.discourse) \subseteq Home(convs[c].owner)
RowsConv(c)    == \A j \in DOMAIN rows[c] : rows[c][j].user = convs[c].owner

FocusInv ==
  /\ \A t \in Threads : FocusThread(t)
  /\ \A c \in DOMAIN convs : FocusConv(c) /\ RowsConv(c)

-----------------------------------------------------------------------------
(* Turns and the queries that wait for a subject.                          *)

PendingOf(copy) == copy.discourse.pending.turn

\* The turns whose query a thread has in hands.
InHands(t) == {PendingOf(sess[t]), asked[t].completes} \ {0}

\* Queries of a conversation: the saved one, and those of the turns in it.
Waiting(c) == ({PendingOf(convs[c].session)} \ {0})
              \cup UNION {InHands(t) : t \in {s \in Threads : req[s].conv = c}}

\* The query of a turn that has not been saved is in the hands of own at most.
Unsaved(n, own) ==
  /\ n \notin completed
  /\ \A c \in DOMAIN convs : PendingOf(convs[c].session) # n
  /\ \A s \in Threads \ own : n \notin InHands(s)

TurnThread(t) ==
  /\ pc[t] \in Working =>
       /\ Unsaved(req[t].turn, {t})
       /\ asked[t].completes # req[t].turn
       /\ pc[t] # "save" => req[t].turn \notin InHands(t) /\ asked[t].completes = 0
  /\ asked[t].completes # 0 => PendingOf(sess[t]) = 0
  /\ pc[t] = "load" \/ pc[t] = "post" => sess[t] = NewSession
  /\ \A s \in Threads : s # t /\ pc[t] # "idle" /\ pc[s] # "idle" => req[s].turn # req[t].turn
  /\ \A r \in failed : pc[t] # "idle" => r.turn # req[t].turn

FailedInv ==
  \A r \in failed :
    /\ Unsaved(r.turn, {})
    /\ \A q \in failed : q.turn = r.turn => q = r

\* Nothing is known of turns to come.
ComingInv ==
  /\ \A n \in completed : n <= turns
  /\ \A c \in DOMAIN convs : \A n \in Waiting(c) : n <= turns

WaitingInv == \A b, c \in DOMAIN convs : b # c => Waiting(b) \cap Waiting(c) = {}

\* Turns that do not overlap.
Alone == \A s, t \in Threads :
           req[s].conv = req[t].conv /\ req[t].conv \notin mixed /\ req[t].conv # NoConv => s = t

CompletedInv ==
  \A c \in DOMAIN convs \ mixed :
    /\ PendingOf(convs[c].session) \notin completed
    /\ \A t \in Threads : req[t].conv = c /\ pc[t] \in Working
                            => PendingOf(sess[t]) \notin completed

QueryInv == /\ \A t \in Threads : TurnThread(t)
            /\ FailedInv /\ ComingInv /\ WaitingInv /\ Alone /\ CompletedInv

-----------------------------------------------------------------------------
(* The last event of a conversation.                                       *)

Here(c) == {e \in DOMAIN events : events[e].conv = c /\ events[e].heard}
IsLast(n, c) == \/ Here(c) = {} /\ n = 0
                \/ n \in Here(c) /\ \A f \in Here(c) : f <= n

\* No turn of the conversation has told what it has not saved.
AllSaved(c) == \A t \in Threads : req[t].conv = c => ~ (pc[t] = "save" /\ req[t].dirty)

LastConv(c) ==
  /\ AllSaved(c) => IsLast(convs[c].session.last, c)
  /\ \A t \in Threads : req[t].conv = c /\ pc[t] \in {"utterances", "engine", "save"}
                          => IsLast(sess[t].last, c)

LastInv ==
  /\ \A t \in Threads : req[t].dirty => pc[t] \in {"save", "reply"}
  /\ \A c \in DOMAIN convs \ (mixed \cup lost) : LastConv(c)

-----------------------------------------------------------------------------
(* The order of messages.                                                  *)

UserRows(list) == {i \in DOMAIN list : list[i].role = "user"}

\* The rows of users are those of the turns that were posted, in this order.
Enumerates(list, posted) ==
  \E e \in [1 .. Len(posted) -> UserRows(list)] :
    /\ \A i, j \in 1 .. Len(posted) : i < j => e[i] < e[j]
    /\ \A k \in UserRows(list) : \E i \in 1 .. Len(posted) : e[i] = k
    /\ \A i \in 1 .. Len(posted) : list[e[i]].turn = posted[i]

Reading == {"load", "utterances", "engine"}

\* No turn of the conversation has just added its message.
AllRead(c) == \A t \in Threads : req[t].conv = c => pc[t] \notin Reading

OrderConv(c) ==
  /\ Enumerates(rows[c], posts[c])
  /\ \A j \in DOMAIN rows[c] : rows[c][j].at <= now
  /\ AllRead(c) => \A j \in UserRows(rows[c]) : rows[c][j].at < now
  /\ \A t \in Threads : req[t].conv = c /\ pc[t] \in Reading =>
       /\ posts[c] # <<>> /\ posts[c][Len(posts[c])] = req[t].turn
       /\ pc[t] = "engine" => prior[t] = LastOf(SubSeq(posts[c], 1, Len(posts[c]) - 1))

SortedRows(list) == \A i, j \in DOMAIN list : i <= j => list[i].at <= list[j].at

OrderInv ==
  /\ \A c \in DOMAIN convs : SortedRows(rows[c])
  /\ setBacks = 0 => \A c \in DOMAIN convs \ mixed : OrderConv(c)

-----------------------------------------------------------------------------
(* Positions of a sequence in order.                                       *)

\* A family of sets of positions has a smallest one; induction in first order.
LEMMA Smallest ==
  ASSUME NEW n \in Nat, NEW F \in SUBSET SUBSET (1 .. n), F # {}
  PROVE  \E K \in F : \A L \in F : L \subseteq K => L = K
<1>1. IsFiniteSet(1 .. n)
  BY FS_Interval
<1>2. IsWellFoundedOn(StrictSubsetOrdering(1 .. n), FiniteSubsetsOf(1 .. n))
  BY FS_StrictSubsetOrderingWellFounded
<1>3. F \subseteq FiniteSubsetsOf(1 .. n)
  BY <1>1, FS_Subset DEF FiniteSubsetsOf
<1>4. PICK K \in F : \A L \in F : ~ (<<L, K>> \in StrictSubsetOrdering(1 .. n))
  BY <1>2, <1>3, WFMin
<1> QED
  BY <1>4 DEF StrictSubsetOrdering

\* A set of positions has a last and a first one.
LEMMA Last ==
  ASSUME NEW n \in Nat, NEW K \in SUBSET (1 .. n), K # {}
  PROVE  \E m \in K : \A k \in K : k <= m
<1> DEFINE From(m) == {k \in K : m <= k}
           F == {From(m) : m \in K}
<1>1. K \in SUBSET Nat
  OBVIOUS
<1>2. F \in SUBSET SUBSET (1 .. n)
  OBVIOUS
<1>3. F # {}
  OBVIOUS
<1>4. \A k \in K : From(k) \in F
  OBVIOUS
<1>5. \A S \in F : \E m \in K : S = From(m)
  OBVIOUS
<1> HIDE DEF F
<1>6. \A G \in SUBSET SUBSET (1 .. n) :
        G # {} => \E S \in G : \A L \in G : L \subseteq S => L = S
  BY Smallest
<1>7. PICK S \in F : \A L \in F : L \subseteq S => L = S
  BY <1>2, <1>3, <1>6
<1>8. PICK m \in K : S = From(m)
  BY <1>5
<1>9. ASSUME NEW k \in K, ~ (k <= m)
      PROVE  FALSE
  <2>1. k \in Nat /\ m \in Nat
    OBVIOUS
  <2>2. \A x \in From(k) : x \in From(m)
    BY <1>1, <1>9, <2>1
  <2>3. m \in From(m) /\ m \notin From(k)
    BY <1>9, <2>1
  <2> HIDE DEF From
  <2> QED
    BY <2>2, <2>3, <1>4, <1>7, <1>8
<1> QED
  BY <1>9

LEMMA First ==
  ASSUME NEW n \in Nat, NEW K \in SUBSET (1 .. n), K # {}
  PROVE  \E m \in K : \A k \in K : m <= k
<1> DEFINE Upto(m) == {k \in K : k <= m}
           F == {Upto(m) : m \in K}
<1>1. K \in SUBSET Nat
  OBVIOUS
<1>2. F \in SUBSET SUBSET (1 .. n)
  OBVIOUS
<1>3. F # {}
  OBVIOUS
<1>4. \A k \in K : Upto(k) \in F
  OBVIOUS
<1>5. \A S \in F : \E m \in K : S = Upto(m)
  OBVIOUS
<1> HIDE DEF F
<1>6. \A G \in SUBSET SUBSET (1 .. n) :
        G # {} => \E S \in G : \A L \in G : L \subseteq S => L = S
  BY Smallest
<1>7. PICK S \in F : \A L \in F : L \subseteq S => L = S
  BY <1>2, <1>3, <1>6
<1>8. PICK m \in K : S = Upto(m)
  BY <1>5
<1>9. ASSUME NEW k \in K, ~ (m <= k)
      PROVE  FALSE
  <2>1. k \in Nat /\ m \in Nat
    OBVIOUS
  <2>2. \A x \in Upto(k) : x \in Upto(m)
    BY <1>1, <1>9, <2>1
  <2>3. m \in Upto(m) /\ m \notin Upto(k)
    BY <1>9, <2>1
  <2> HIDE DEF Upto
  <2> QED
    BY <2>2, <2>3, <1>4, <1>7, <1>8
<1> QED
  BY <1>9

Increasing(s, c) == \A i, j \in 1 .. c : i < j => s[i] < s[j]

\* An order of a set that lacks one of its later positions.
LEMMA Extended ==
  ASSUME NEW K, NEW m \in K, K \in SUBSET Nat, \A k \in K : k <= m,
         NEW c \in Nat, NEW s \in [1 .. c -> K \ {m}], Increasing(s, c)
  PROVE  \E r \in [1 .. c + 1 -> K] : Increasing(r, c + 1)
<1> DEFINE r == [i \in 1 .. c + 1 |-> IF i = c + 1 THEN m ELSE s[i]]
<1>1. \A i \in 1 .. c + 1 : i # c + 1 => i \in 1 .. c
  OBVIOUS
<1>2. r \in [1 .. c + 1 -> K]
  BY <1>1
<1>3. \A i \in 1 .. c : s[i] \in K /\ s[i] # m
  OBVIOUS
<1>4. ASSUME NEW i \in 1 .. c + 1, NEW j \in 1 .. c + 1, i < j
      PROVE  r[i] < r[j]
  <2>1. i \in 1 .. c
    BY <1>4
  <2>2. s[i] \in K /\ s[i] # m /\ s[i] \in Nat /\ m \in Nat /\ s[i] <= m
    BY <2>1, <1>3
  <2>3. CASE j = c + 1
    BY <2>1, <2>2, <2>3
  <2>4. CASE j # c + 1
    BY <2>1, <2>2, <2>4, <1>1, <1>4 DEF Increasing
  <2> QED
    BY <2>3, <2>4
<1> HIDE DEF r
<1> QED
  BY <1>2, <1>4 DEF Increasing

\* Every set of positions has an order.
LEMMA OrderExists ==
  ASSUME NEW n \in Nat, NEW K \in SUBSET (1 .. n)
  PROVE  \E s \in [1 .. Cardinality(K) -> K] : Increasing(s, Cardinality(K))
<1> DEFINE HasOrder(L) == \E s \in [1 .. Cardinality(L) -> L] : Increasing(s, Cardinality(L))
           F == {L \in SUBSET (1 .. n) : ~ HasOrder(L)}
<1> SUFFICES ASSUME F # {} PROVE FALSE
  OBVIOUS
<1>1. F \in SUBSET SUBSET (1 .. n)
  OBVIOUS
<1>2. \A L \in SUBSET (1 .. n) : L \in F <=> ~ HasOrder(L)
  OBVIOUS
<1> HIDE DEF F
<1>3. PICK L \in F : \A M \in F : M \subseteq L => M = L
  BY <1>1, Smallest
<1>4. IsFiniteSet(1 .. n) /\ L \in SUBSET (1 .. n)
  BY <1>1, FS_Interval
<1>5. IsFiniteSet(L)
  BY <1>4, FS_Subset
<1>6. CASE L = {}
  <2>1. Cardinality(L) = 0
    BY <1>6, FS_EmptySet
  <2>2. [i \in 1 .. 0 |-> 0] \in [1 .. Cardinality(L) -> L]
    BY <2>1
  <2>3. Increasing([i \in 1 .. 0 |-> 0], Cardinality(L))
    BY <2>1 DEF Increasing
  <2> QED
    BY <2>2, <2>3, <1>2, <1>4
<1>7. CASE L # {}
  <2>1. PICK m \in L : \A k \in L : k <= m
    BY <1>7, <1>4, Last
  <2> DEFINE c == Cardinality(L \ {m})
  <2>2. IsFiniteSet(L \ {m}) /\ c = Cardinality(L) - 1
    BY <1>5, FS_RemoveElement
  <2>3. c \in Nat /\ Cardinality(L) \in Nat
    BY <1>5, <2>2, FS_CardinalityType
  <2>4. Cardinality(L) = c + 1
    BY <2>2, <2>3
  <2>5. HasOrder(L \ {m})
    <3>1. L \ {m} \subseteq L /\ L \ {m} # L /\ L \ {m} \in SUBSET (1 .. n)
      BY <1>4
    <3> QED
      BY <1>3, <1>2, <3>1
  <2>6. PICK s \in [1 .. c -> L \ {m}] : Increasing(s, c)
    BY <2>5
  <2> HIDE DEF c
  <2>7. \E r \in [1 .. c + 1 -> L] : Increasing(r, c + 1)
    <3>1. L \in SUBSET Nat
      BY <1>4
    <3> QED
      BY <2>1, <2>3, <2>6, <3>1, Extended
  <2> QED
    BY <2>4, <2>7, <1>2, <1>4
<1> QED
  BY <1>6, <1>7

LEMMA IncreasingIsInjective ==
  ASSUME NEW K \in SUBSET Nat, NEW c \in Nat, NEW s \in [1 .. c -> K], Increasing(s, c)
  PROVE  s \in Injection(1 .. c, K)
<1>1. ASSUME NEW i \in 1 .. c, NEW j \in 1 .. c, i # j
      PROVE  s[i] # s[j]
  <2>1. s[i] \in Nat /\ s[j] \in Nat
    OBVIOUS
  <2> QED
    BY <1>1, <2>1 DEF Increasing
<1> QED
  BY <1>1, Fun_IsInj

\* An order of K has as many positions as K, and reaches each of them.
LEMMA OrderIsOnto ==
  ASSUME NEW n \in Nat, NEW K \in SUBSET (1 .. n),
         NEW s \in [1 .. Cardinality(K) -> K], Increasing(s, Cardinality(K))
  PROVE  /\ Cardinality(K) \in Nat
         /\ \A k \in K : \E i \in 1 .. Cardinality(K) : s[i] = k
<1> DEFINE c == Cardinality(K)
<1>1. IsFiniteSet(K) /\ K \in SUBSET Nat
  <2>1. IsFiniteSet(1 .. n)
    BY FS_Interval
  <2>2. IsFiniteSet(K)
    BY <2>1, FS_Subset
  <2> QED
    BY <2>2
<1>2. c \in Nat
  BY <1>1, FS_CardinalityType
<1>3. s \in Injection(1 .. c, K)
  BY <1>1, <1>2, IncreasingIsInjective
<1>4. IsFiniteSet(1 .. c) /\ Cardinality(1 .. c) = c
  BY <1>2, FS_Interval
<1> HIDE DEF c
<1>5. s \in Surjection(1 .. c, K)
  BY <1>1, <1>3, <1>4, FS_Injection DEF c
<1> QED
  BY <1>2, <1>5 DEF Surjection, c

LEMMA InOrderFacts ==
  ASSUME NEW n \in Nat, NEW K \in SUBSET (1 .. n)
  PROVE  /\ Cardinality(K) \in Nat
         /\ InOrder(K) \in [1 .. Cardinality(K) -> K]
         /\ Increasing(InOrder(K), Cardinality(K))
         /\ \A k \in K : \E i \in 1 .. Cardinality(K) : InOrder(K)[i] = k
<1> DEFINE c == Cardinality(K)
<1>1. PICK s \in [1 .. c -> K] : Increasing(s, c)
  BY OrderExists
<1>2. \A i, j \in DOMAIN s : i < j => s[i] < s[j]
  BY <1>1 DEF Increasing
<1>3. /\ InOrder(K) \in [1 .. c -> K]
      /\ \A i, j \in DOMAIN InOrder(K) : i < j => InOrder(K)[i] < InOrder(K)[j]
  BY <1>1, <1>2 DEF InOrder
<1> HIDE DEF c
<1>4. Increasing(InOrder(K), c)
  BY <1>3 DEF Increasing
<1> QED
  BY <1>3, <1>4, OrderIsOnto DEF c

\* There is one order of a set.
LEMMA OrderIsUnique ==
  ASSUME NEW n \in Nat, NEW K \in SUBSET (1 .. n), NEW c \in Nat,
         NEW s \in [1 .. c -> K], Increasing(s, c), \A k \in K : \E i \in 1 .. c : s[i] = k,
         NEW r \in [1 .. c -> K], Increasing(r, c), \A k \in K : \E i \in 1 .. c : r[i] = k
  PROVE  s = r
<1> DEFINE D == {i \in 1 .. c : s[i] # r[i]}
<1> SUFFICES ASSUME D # {} PROVE FALSE
  OBVIOUS
<1>1. D \in SUBSET (1 .. c)
  OBVIOUS
<1>2. \A i \in 1 .. c : i \in D <=> s[i] # r[i]
  OBVIOUS
<1> HIDE DEF D
<1>3. PICK i \in D : \A k \in D : i <= k
  BY <1>1, First
<1>4. i \in 1 .. c /\ s[i] # r[i] /\ \A j \in 1 .. c : j < i => s[j] = r[j]
  BY <1>1, <1>2, <1>3
<1>5. s[i] \in K /\ r[i] \in K /\ s[i] \in Nat /\ r[i] \in Nat
  <2>1. s[i] \in K /\ r[i] \in K
    BY <1>4
  <2>2. K \in SUBSET Nat
    OBVIOUS
  <2> QED
    BY <2>1, <2>2
<1>6. PICK j \in 1 .. c : r[j] = s[i]
  BY <1>5
<1>7. PICK k \in 1 .. c : s[k] = r[i]
  BY <1>5
<1>8. r[i] < s[i]
  <2>1. ~ (j < i)
    <3>1. ASSUME j < i PROVE FALSE
      <4>1. s[j] = s[i] /\ s[j] < s[i]
        BY <1>4, <1>6, <3>1 DEF Increasing
      <4> QED
        BY <4>1, <1>5
    <3> QED
      BY <3>1
  <2>2. j # i
    BY <1>4, <1>6
  <2>3. i < j
    BY <2>1, <2>2, <1>4
  <2> QED
    BY <2>3, <1>4, <1>6 DEF Increasing
<1>9. s[i] < r[i]
  <2>1. ~ (k < i)
    <3>1. ASSUME k < i PROVE FALSE
      <4>1. r[k] = r[i] /\ r[k] < r[i]
        BY <1>4, <1>7, <3>1 DEF Increasing
      <4> QED
        BY <4>1, <1>5
    <3> QED
      BY <3>1
  <2>2. k # i
    BY <1>4, <1>7
  <2>3. i < k
    BY <2>1, <2>2, <1>4
  <2> QED
    BY <2>3, <1>4, <1>7 DEF Increasing
<1> QED
  BY <1>5, <1>8, <1>9

\* What is kept of a sequence.
LEMMA KeptFacts ==
  ASSUME NEW S, NEW list \in Seq(S), NEW K \in SUBSET DOMAIN list
  PROVE  /\ Kept(list, K) \in Seq(S)
         /\ \A i \in DOMAIN Kept(list, K) : \E k \in K : Kept(list, K)[i] = list[k]
<1>1. Len(list) \in Nat /\ K \in SUBSET (1 .. Len(list)) /\ DOMAIN list = 1 .. Len(list)
  BY LenProperties
<1> DEFINE c == Cardinality(K)
           s == InOrder(K)
<1>2. c \in Nat /\ s \in [1 .. c -> K]
  BY <1>1, InOrderFacts
<1>3. \A i \in 1 .. c : s[i] \in K /\ list[s[i]] \in S
  BY <1>1, <1>2, ElementOfSeq
<1>4. Kept(list, K) = [i \in 1 .. c |-> list[s[i]]]
  BY DEF Kept
<1> HIDE DEF c, s
<1>5. [i \in 1 .. c |-> list[s[i]]] \in Seq(S)
  BY <1>2, <1>3
<1> QED
  BY <1>3, <1>4, <1>5

-----------------------------------------------------------------------------
(* What the functions on the discourse state leave in it.                  *)

Referent == [id : Nat, left : Nat]

LEMMA KeptReferents ==
  ASSUME NEW refs \in Referents
  PROVE  \A K \in SUBSET DOMAIN refs :
           /\ Kept(refs, K) \in Referents
           /\ \A i \in DOMAIN Kept(refs, K) : \E k \in K : Kept(refs, K)[i] = refs[k]
<1> TAKE K \in SUBSET DOMAIN refs
<1>1. refs \in Seq(Referent)
  BY DEF Referents, Referent
<1> QED
  BY <1>1, KeptFacts DEF Referents, Referent

LEMMA ReferentFacts ==
  ASSUME NEW refs \in Referents
  PROVE  /\ Len(refs) \in Nat /\ DOMAIN refs = 1 .. Len(refs)
         /\ \A i \in DOMAIN refs : refs[i] \in Referent
<1>1. refs \in Seq(Referent)
  BY DEF Referents, Referent
<1> QED
  BY <1>1, LenProperties, ElementOfSeq

\* A function on the first positions is a sequence.
LEMMA IsSequence ==
  ASSUME NEW S, NEW n \in Nat, NEW f \in [1 .. n -> S]
  PROVE  f \in Seq(S) /\ Len(f) = n
BY SeqDef

LEMMA FadeFacts ==
  ASSUME NEW refs \in Referents
  PROVE  Fade(refs) \in Referents /\ ReferentIds(Fade(refs)) \subseteq ReferentIds(refs)
<1> DEFINE K == {i \in DOMAIN refs : refs[i].left > 0}
           kept == Kept(refs, K)
           faded == [i \in DOMAIN kept |-> [kept[i] EXCEPT !.left = @ - 1]]
<1>1. kept \in Referents /\ \A i \in DOMAIN kept : \E k \in K : kept[i] = refs[k]
  <2>1. K \in SUBSET DOMAIN refs
    OBVIOUS
  <2> HIDE DEF K
  <2> QED
    BY <2>1, KeptReferents
<1>2. \A k \in K : refs[k] \in [id : Nat, left : Nat] /\ refs[k].left > 0 /\ k \in DOMAIN refs
  BY ReferentFacts DEF Referent
<1>3. Fade(refs) = faded
  BY DEF Fade
<1> HIDE DEF K, kept
<1>4. \A i \in DOMAIN kept : /\ faded[i] \in [id : Nat, left : Nat]
                             /\ \E k \in DOMAIN refs : faded[i].id = refs[k].id
  <2> TAKE i \in DOMAIN kept
  <2>1. PICK k \in K : kept[i] = refs[k]
    BY <1>1
  <2>2. refs[k].left - 1 \in Nat
    BY <1>2
  <2>3. faded[i] = [refs[k] EXCEPT !.left = @ - 1]
    BY <2>1
  <2> QED
    BY <2>2, <2>3, <1>2
<1>5. Len(kept) \in Nat /\ DOMAIN kept = 1 .. Len(kept)
  BY <1>1 DEF Referents
<1>6. DOMAIN faded = 1 .. Len(kept)
  BY <1>5
<1> HIDE DEF faded
<1>7. faded \in Referents
  <2>1. faded \in [1 .. Len(kept) -> [id : Nat, left : Nat]]
    <3>1. faded = [i \in 1 .. Len(kept) |-> faded[i]]
      BY <1>5 DEF faded
    <3> QED
      BY <1>4, <1>5, <3>1
  <2> QED
    BY <2>1, <1>5, IsSequence DEF Referents
<1> QED
  BY <1>3, <1>4, <1>5, <1>6, <1>7 DEF ReferentIds

LEMMA UpsertFacts ==
  ASSUME NEW refs \in Referents, NEW ids \in Ids, NEW left \in Nat
  PROVE  /\ UpsertAll(refs, ids, left) \in Referents
         /\ ReferentIds(UpsertAll(refs, ids, left)) \subseteq ids \cup ReferentIds(refs)
<1> DEFINE K == {i \in DOMAIN refs : refs[i].id \notin ids}
           kept == Kept(refs, K)
           order == CHOOSE s \in [1 .. Cardinality(ids) -> ids] : \A i, j \in DOMAIN s :
                      i # j => s[i] # s[j]
           front == [i \in DOMAIN order |-> [id |-> order[i], left |-> left]]
<1>1. kept \in Referents /\ \A i \in DOMAIN kept : \E k \in K : kept[i] = refs[k]
  <2>1. K \in SUBSET DOMAIN refs
    OBVIOUS
  <2> HIDE DEF K
  <2> QED
    BY <2>1, KeptReferents
<1>2. Cardinality(ids) \in Nat /\ ExistsBijection(1 .. Cardinality(ids), ids)
  BY FS_CardinalityType DEF Ids
<1>3. order \in [1 .. Cardinality(ids) -> ids]
  <2>1. PICK s : s \in Bijection(1 .. Cardinality(ids), ids)
    BY <1>2 DEF ExistsBijection
  <2>2. s \in [1 .. Cardinality(ids) -> ids] /\ \A i, j \in DOMAIN s : i # j => s[i] # s[j]
    BY <2>1 DEF Bijection, Injection, IsInjective
  <2> QED
    BY <2>2
<1>4. UpsertAll(refs, ids, left) = front \o kept
  BY DEF UpsertAll
<1> HIDE DEF order, kept
<1>5. front \in [1 .. Cardinality(ids) -> [id : Nat, left : Nat]]
  BY <1>3 DEF Ids
<1>6. front \in Referents /\ Len(front) = Cardinality(ids)
  <2> HIDE DEF front
  <2> QED
    BY <1>5, <1>2, IsSequence DEF Referents
<1>7. \A i \in 1 .. Len(front) : front[i].id \in ids
  BY <1>3, <1>6
<1> HIDE DEF front
<1>8. \A i \in 1 .. Len(kept) : \E k \in DOMAIN refs : kept[i].id = refs[k].id
  BY <1>1, LenProperties DEF Referents
<1>9. /\ front \o kept \in Referents
      /\ Len(front \o kept) = Len(front) + Len(kept)
      /\ \A i \in 1 .. Len(front) + Len(kept) :
           (front \o kept)[i] = IF i <= Len(front) THEN front[i] ELSE kept[i - Len(front)]
  <2>1. front \in Seq(Referent) /\ kept \in Seq(Referent)
    BY <1>1, <1>6 DEF Referents, Referent
  <2>2. front \o kept \in Seq(Referent)
    BY <2>1
  <2> QED
    BY <2>1, <2>2, ConcatProperties DEF Referents, Referent
<1>10. Len(front) \in Nat /\ Len(kept) \in Nat
  BY <1>1, <1>6 DEF Referents
<1> DEFINE all == front \o kept
<1>11. DOMAIN all = 1 .. Len(front) + Len(kept)
  BY <1>9 DEF Referents
<1>12. ASSUME NEW i \in DOMAIN all
       PROVE  all[i].id \in ids \cup ReferentIds(refs)
  <2>1. CASE i <= Len(front)
    BY <2>1, <1>7, <1>9, <1>10, <1>11
  <2>2. CASE ~ (i <= Len(front))
    <3>1. i - Len(front) \in 1 .. Len(kept) /\ all[i] = kept[i - Len(front)]
      BY <2>2, <1>9, <1>10, <1>11
    <3> QED
      BY <3>1, <1>8 DEF ReferentIds
  <2> QED
    BY <2>1, <2>2
<1> HIDE DEF all
<1>13. ReferentIds(all) \subseteq ids \cup ReferentIds(refs)
  BY <1>12 DEF ReferentIds
<1> QED
  BY <1>4, <1>9, <1>13 DEF all

LEMMA CappedFacts ==
  ASSUME NEW refs \in Referents
  PROVE  Capped(refs) \in Referents /\ ReferentIds(Capped(refs)) \subseteq ReferentIds(refs)
<1> DEFINE n == IF Len(refs) < MaxReferents THEN Len(refs) ELSE MaxReferents
<1>1. n \in Nat /\ n <= Len(refs)
  BY DiscourseAssumption DEF Referents
<1>2. Capped(refs) = SubSeq(refs, 1, n)
  BY DEF Capped
<1> HIDE DEF n
<1>3. SubSeq(refs, 1, n) \in Referents
  <2>1. refs \in Seq(Referent)
    BY DEF Referents, Referent
  <2>2. \A i \in 1 .. n : refs[i] \in Referent
    BY <2>1, <1>1, ElementOfSeq
  <2>3. SubSeq(refs, 1, n) \in Seq(Referent)
    BY <2>2, <1>1, SubSeqProperties
  <2> QED
    BY <2>3 DEF Referents, Referent
<1>4. DOMAIN SubSeq(refs, 1, n) = 1 .. n /\ \A i \in 1 .. n : SubSeq(refs, 1, n)[i] = refs[i]
  BY <1>1 DEF Referents
<1>5. \A i \in 1 .. n : i \in DOMAIN refs
  BY <1>1 DEF Referents
<1> QED
  BY <1>2, <1>3, <1>4, <1>5 DEF ReferentIds

Pendings == [turn : Nat, candidates : SUBSET Nat]

LEMMA AllowedIds ==
  ASSUME NEW state \in Discourses
  PROVE  /\ state.focus \in Ids /\ state.referents \in Referents
         /\ state.pending \in Pendings /\ state.idle \in Nat
         /\ Allowed(state)
              = state.focus \cup ReferentIds(state.referents) \cup state.pending.candidates
BY DEF Discourses, Pendings, Allowed

LEMMA IdleFacts ==
  ASSUME NEW state \in Discourses
  PROVE  /\ Idle(state) \in Discourses
         /\ Allowed(Idle(state)) \subseteq Allowed(state)
         /\ Idle(state).pending = state.pending
<1>1. /\ Fade(state.referents) \in Referents
      /\ ReferentIds(Fade(state.referents)) \subseteq ReferentIds(state.referents)
  BY AllowedIds, FadeFacts
<1>2. {} \in Ids
  BY FS_EmptySet DEF Ids
<1>3. CASE state.idle < MaxIdle
  <2>1. Idle(state) = [state EXCEPT !.idle = @ + 1]
    BY <1>3 DEF Idle
  <2> QED
    BY <2>1 DEF Discourses, Allowed
<1>4. CASE ~ (state.idle < MaxIdle)
  <2>1. Idle(state) = [state EXCEPT !.focus = {}, !.referents = Fade(@), !.idle = MaxIdle]
    BY <1>4 DEF Idle
  <2> QED
    BY <2>1, <1>1, <1>2, DiscourseAssumption DEF Discourses, Allowed
<1> QED
  BY <1>3, <1>4

LEMMA CommitFacts ==
  ASSUME NEW state \in Discourses, NEW ids \in Ids, NEW clear \in BOOLEAN
  PROVE  /\ CommitFocus(state, ids, clear) \in Discourses
         /\ Allowed(CommitFocus(state, ids, clear)) \subseteq Allowed(state) \cup ids
         /\ CommitFocus(state, ids, clear).pending = IF clear THEN Nothing ELSE state.pending
<1> DEFINE faded  == Fade(state.referents)
           before == UpsertAll(faded, state.focus \ ids, Former)
           after  == UpsertAll(before, ids, Fresh)
<1>1. faded \in Referents /\ ReferentIds(faded) \subseteq ReferentIds(state.referents)
  BY AllowedIds, FadeFacts
<1>2. state.focus \ ids \in Ids
  <2>1. IsFiniteSet(state.focus) /\ state.focus \in SUBSET Nat
    BY AllowedIds DEF Ids
  <2>2. IsFiniteSet(state.focus \ ids)
    BY <2>1, FS_Difference
  <2> QED
    BY <2>1, <2>2 DEF Ids
<1>3. Former \in Nat /\ Fresh \in Nat
  BY DiscourseAssumption
<1> HIDE DEF faded
<1>4. before \in Referents
      /\ ReferentIds(before) \subseteq (state.focus \ ids) \cup ReferentIds(faded)
  BY <1>1, <1>2, <1>3, UpsertFacts
<1> HIDE DEF before
<1>5. after \in Referents /\ ReferentIds(after) \subseteq ids \cup ReferentIds(before)
  BY <1>4, <1>3, UpsertFacts
<1> HIDE DEF after
<1>6. Capped(after) \in Referents /\ ReferentIds(Capped(after)) \subseteq ReferentIds(after)
  BY <1>5, CappedFacts
<1>7. CommitFocus(state, ids, clear)
        = [focus |-> ids, referents |-> Capped(after),
           pending |-> IF clear THEN Nothing ELSE state.pending, idle |-> 0]
  BY DEF CommitFocus, after, before, faded
<1>8. Nothing \in Pendings /\ Nothing.candidates = {}
  BY DEF Nothing, Pendings
<1> QED
  BY <1>1, <1>4, <1>5, <1>6, <1>7, <1>8, AllowedIds DEF Discourses, Pendings, Allowed

LEMMA RefocusFacts ==
  ASSUME NEW state \in Discourses, NEW ids \in Ids, NEW clear \in BOOLEAN
  PROVE  /\ Refocus(state, ids, clear) \in Discourses
         /\ Allowed(Refocus(state, ids, clear)) \subseteq Allowed(state) \cup (ids \ {Principal})
         /\ Refocus(state, ids, clear).pending \in {Nothing, state.pending}
         /\ clear /\ ids \ {Principal} # {} => Refocus(state, ids, clear).pending = Nothing
<1>1. ids \ {Principal} \in Ids
  <2>1. IsFiniteSet(ids \ {Principal})
    BY FS_Difference DEF Ids
  <2> QED
    BY <2>1 DEF Ids
<1>2. CASE ids \ {Principal} = {}
  BY <1>2, IdleFacts DEF Refocus
<1>3. CASE ids \ {Principal} # {}
  <2> DEFINE named == ids \ {Principal}
  <2>1. Refocus(state, ids, clear) = CommitFocus(state, named, clear)
    BY <1>3 DEF Refocus
  <2>2. named \in Ids
    BY <1>1
  <2> HIDE DEF named
  <2>3. /\ CommitFocus(state, named, clear) \in Discourses
        /\ Allowed(CommitFocus(state, named, clear)) \subseteq Allowed(state) \cup named
        /\ CommitFocus(state, named, clear).pending = IF clear THEN Nothing ELSE state.pending
    BY <2>2, CommitFacts
  <2> QED
    BY <2>1, <2>3 DEF named
<1> QED
  BY <1>2, <1>3

LEMMA StorePendingFacts ==
  ASSUME NEW state \in Discourses, NEW turn \in Nat, NEW ids \in Ids
  PROVE  /\ StorePending(state, turn, ids) \in Discourses
         /\ Allowed(StorePending(state, turn, ids)) \subseteq Allowed(state) \cup ids
         /\ StorePending(state, turn, ids).pending.turn = turn
<1> DEFINE refs == UpsertAll(state.referents, ids, Fresh)
<1>1. Fresh \in Nat
  BY DiscourseAssumption
<1>2. refs \in Referents /\ ReferentIds(refs) \subseteq ids \cup ReferentIds(state.referents)
  BY <1>1, AllowedIds, UpsertFacts
<1> HIDE DEF refs
<1>3. Capped(refs) \in Referents /\ ReferentIds(Capped(refs)) \subseteq ReferentIds(refs)
  BY <1>2, CappedFacts
<1>4. StorePending(state, turn, ids)
        = [state EXCEPT !.pending = [turn |-> turn, candidates |-> ids],
                        !.referents = Capped(refs)]
  BY DEF StorePending, refs
<1>5. ids \in SUBSET Nat
  BY DEF Ids
<1> DEFINE stored == StorePending(state, turn, ids)
           waits  == [turn |-> turn, candidates |-> ids]
<1>6. waits \in Pendings
  BY <1>5 DEF Pendings
<1>7. /\ stored.focus = state.focus /\ stored.referents = Capped(refs)
      /\ stored.pending = waits /\ stored.idle = state.idle
      /\ stored = [focus |-> state.focus, referents |-> Capped(refs),
                   pending |-> waits, idle |-> state.idle]
  BY <1>4 DEF Discourses
<1> HIDE DEF stored
<1>8. stored \in Discourses
  BY <1>3, <1>6, <1>7, AllowedIds DEF Discourses, Pendings
<1>9. Allowed(stored) = state.focus \cup ReferentIds(Capped(refs)) \cup ids
  BY <1>7 DEF Allowed
<1>10. Allowed(stored) \subseteq Allowed(state) \cup ids
  BY <1>2, <1>3, <1>9 DEF Allowed
<1> QED
  BY <1>7, <1>8, <1>10 DEF stored

-----------------------------------------------------------------------------
(* Steps.                                                                  *)

\* A message between the others of a list.
Inserted(list, row, p) == SubSeq(list, 1, p) \o <<row>> \o SubSeq(list, p + 1, Len(list))

LEMMA InsertFacts ==
  ASSUME NEW S, NEW list \in Seq(S), NEW row \in S, NEW p \in 0 .. Len(list)
  PROVE  /\ Inserted(list, row, p) \in Seq(S) /\ Len(Inserted(list, row, p)) = Len(list) + 1
         /\ \A i \in 1 .. Len(list) + 1 :
              Inserted(list, row, p)[i]
                = IF i <= p THEN list[i] ELSE IF i = p + 1 THEN row ELSE list[i - 1]
<1> DEFINE a == SubSeq(list, 1, p)
           b == <<row>>
           c == SubSeq(list, p + 1, Len(list))
<1>1. Len(list) \in Nat /\ p \in Nat /\ p <= Len(list) /\ \A i \in 1 .. Len(list) : list[i] \in S
  BY LenProperties, ElementOfSeq
<1>2. a \in Seq(S) /\ Len(a) = p /\ \A i \in 1 .. p : a[i] = list[i]
  <2>1. \A i \in 1 .. p : list[i] \in S
    BY <1>1
  <2> QED
    BY <2>1, <1>1, SubSeqProperties
<1>3. b \in Seq(S) /\ Len(b) = 1 /\ b[1] = row
  OBVIOUS
<1>4. /\ c \in Seq(S) /\ Len(c) = Len(list) - p
      /\ \A i \in 1 .. Len(list) - p : c[i] = list[p + i]
  <2>1. \A i \in p + 1 .. Len(list) : list[i] \in S
    BY <1>1
  <2> QED
    BY <2>1, <1>1, SubSeqProperties
<1> HIDE DEF a, b, c
<1>5. /\ a \o b \in Seq(S) /\ Len(a \o b) = p + 1
      /\ \A i \in 1 .. p + 1 : (a \o b)[i] = IF i <= p THEN a[i] ELSE b[i - p]
  <2>1. /\ a \o b \in Seq(S) /\ Len(a \o b) = Len(a) + Len(b)
        /\ \A i \in 1 .. Len(a) + Len(b) :
             (a \o b)[i] = IF i <= Len(a) THEN a[i] ELSE b[i - Len(a)]
    BY <1>2, <1>3, ConcatProperties
  <2> QED
    BY <2>1, <1>2, <1>3
<1> DEFINE ab == a \o b
<1>6. \A i \in 1 .. p + 1 : ab[i] = IF i <= p THEN list[i] ELSE row
  BY <1>1, <1>2, <1>3, <1>5
<1>7. ab \in Seq(S) /\ Len(ab) = p + 1
  BY <1>5
<1> HIDE DEF ab
<1>8. /\ ab \o c \in Seq(S) /\ Len(ab \o c) = p + 1 + (Len(list) - p)
      /\ \A i \in 1 .. p + 1 + (Len(list) - p) :
           (ab \o c)[i] = IF i <= p + 1 THEN ab[i] ELSE c[i - (p + 1)]
  <2>1. /\ ab \o c \in Seq(S) /\ Len(ab \o c) = Len(ab) + Len(c)
        /\ \A i \in 1 .. Len(ab) + Len(c) :
             (ab \o c)[i] = IF i <= Len(ab) THEN ab[i] ELSE c[i - Len(ab)]
    BY <1>4, <1>7, ConcatProperties
  <2> QED
    BY <2>1, <1>4, <1>7
<1> DEFINE new == ab \o c
<1>9. ASSUME NEW i \in 1 .. Len(list) + 1
      PROVE  new[i] = IF i <= p THEN list[i] ELSE IF i = p + 1 THEN row ELSE list[i - 1]
  <2>1. i \in 1 .. p + 1 + (Len(list) - p)
    BY <1>1
  <2>2. CASE i <= p + 1
    BY <2>1, <2>2, <1>1, <1>6, <1>8
  <2>3. CASE ~ (i <= p + 1)
    <3>1. i - (p + 1) \in 1 .. Len(list) - p /\ p + (i - (p + 1)) = i - 1
      BY <2>3, <1>1
    <3>2. c[i - (p + 1)] = list[i - 1]
      BY <3>1, <1>4
    <3> QED
      BY <2>1, <2>3, <3>2, <1>8, <1>1
  <2> QED
    BY <2>2, <2>3
<1>10. new \in Seq(S) /\ Len(new) = Len(list) + 1
  BY <1>1, <1>8
<1> QED
  BY <1>9, <1>10 DEF ab, a, b, c, Inserted

LEMMA TypeFacts ==
  ASSUME TypeInv
  PROVE  /\ Len(convs) \in Nat /\ DOMAIN convs = 1 .. Len(convs)
         /\ DOMAIN rows = DOMAIN convs /\ DOMAIN posts = DOMAIN convs
         /\ \A c \in DOMAIN convs :
              /\ convs[c] \in [owner : Names, session : Copies]
              /\ convs[c].session.discourse \in Discourses
              /\ rows[c] \in Messages /\ posts[c] \in Seq(Nat)
         /\ Len(entities) \in Nat /\ DOMAIN entities = 1 .. Len(entities)
         /\ Len(events) \in Nat /\ DOMAIN events = 1 .. Len(events)
         /\ \A e \in DOMAIN events : events[e] \in Told(convs)
         /\ \A t \in Threads : /\ pc[t] \in Steps /\ req[t] \in Requests /\ sess[t] \in Copies
                               /\ asked[t] \in Askings /\ sess[t].discourse \in Discourses
         /\ \A r \in failed : r.turn \in 1 .. turns /\ r.user \in Names /\ r.wanted \in Nat
<1>1. convs \in Seq([owner : Names, session : Copies]) /\ rows \in Seq(Messages)
      /\ posts \in Seq(Seq(Nat)) /\ Len(rows) = Len(convs) /\ Len(posts) = Len(convs)
      /\ entities \in Seq(Names) /\ events \in Seq(Told(convs))
  BY DEF TypeInv, StoreTypes
<1>2. Len(convs) \in Nat /\ DOMAIN convs = 1 .. Len(convs)
      /\ \A c \in DOMAIN convs : convs[c] \in [owner : Names, session : Copies]
  BY <1>1, LenProperties, ElementOfSeq
<1>3. DOMAIN rows = DOMAIN convs /\ \A c \in DOMAIN convs : rows[c] \in Messages
  BY <1>1, <1>2, LenProperties, ElementOfSeq
<1>4. DOMAIN posts = DOMAIN convs /\ \A c \in DOMAIN convs : posts[c] \in Seq(Nat)
  BY <1>1, <1>2, LenProperties, ElementOfSeq
<1>5. Len(entities) \in Nat /\ DOMAIN entities = 1 .. Len(entities)
  BY <1>1, LenProperties
<1>6. /\ Len(events) \in Nat /\ DOMAIN events = 1 .. Len(events)
      /\ \A e \in DOMAIN events : events[e] \in Told(convs)
  BY <1>1, LenProperties, ElementOfSeq
<1>7. \A t \in Threads : /\ pc[t] \in Steps /\ req[t] \in Requests /\ sess[t] \in Copies
                         /\ asked[t] \in Askings /\ sess[t].discourse \in Discourses
  BY DEF TypeInv, TurnTypes, Copies
<1>8. \A r \in failed : r.turn \in 1 .. turns /\ r.user \in Names /\ r.wanted \in Nat
  BY DEF TypeInv, TurnTypes
<1>9. \A c \in DOMAIN convs : convs[c].session.discourse \in Discourses
  BY <1>2 DEF Copies
<1> QED
  BY <1>2, <1>3, <1>4, <1>5, <1>6, <1>7, <1>8, <1>9

LEMMA NewFacts ==
  /\ NewState \in Discourses /\ NewSession \in Copies /\ Allowed(NewState) = {}
  /\ PendingOf(NewSession) = 0 /\ NewSession.discourse = NewState /\ NewSession.last = 0
  /\ NoRequest \in Requests /\ NotAsked \in Askings /\ NotAsked.completes = 0
<1>1. {} \in Ids
  BY FS_EmptySet DEF Ids
<1>2. NewState \in Discourses
  BY <1>1 DEF NewState, Discourses, Nothing, Referents
<1>3. NewSession \in Copies
  BY <1>2 DEF NewSession, Copies
<1>4. ReferentIds(<<>>) = {}
  BY DEF ReferentIds
<1>5. Allowed(NewState) = {}
  BY <1>4 DEF NewState, Nothing, Allowed
<1>6. PendingOf(NewSession) = 0 /\ NewSession.discourse = NewState /\ NewSession.last = 0
  BY DEF PendingOf, NewSession, NewState, Nothing
<1>7. NoRequest \in Requests
  BY DEF NoRequest, Request, NoConv, Requests
<1>8. NotAsked \in Askings /\ NotAsked.completes = 0
  BY DEF NotAsked, Askings, Own
<1> QED
  BY <1>2, <1>3, <1>5, <1>6, <1>7, <1>8

LEMMA HomeFacts ==
  ASSUME TypeInv, NEW u
  PROVE  /\ Home(u) \subseteq DOMAIN entities
         /\ \A ids : ids \subseteq Home(u) \cup {Principal} => ids \in Ids
<1>1. Len(entities) \in Nat /\ DOMAIN entities = 1 .. Len(entities)
  BY TypeFacts
<1>2. Home(u) \subseteq DOMAIN entities
  BY DEF Home
<1>3. IsFiniteSet(0 .. Len(entities))
  BY <1>1, FS_Interval
<1>4. ASSUME NEW ids, ids \subseteq Home(u) \cup {Principal}
      PROVE  ids \in Ids
  <2>1. ids \in SUBSET (0 .. Len(entities))
    BY <1>1, <1>2, <1>4 DEF Principal
  <2>2. IsFiniteSet(ids)
    BY <2>1, <1>3, FS_Subset
  <2>3. ids \in SUBSET Nat
    BY <2>1
  <2> QED
    BY <2>2, <2>3 DEF Ids
<1> QED
  BY <1>2, <1>4

\* What the engine leaves behind: a copy s of the session and an answer a.
EngineStep(t) ==
  /\ pc[t] = "engine" /\ pc' = [pc EXCEPT ![t] = "save"] /\ now' = now + 1
  /\ UNCHANGED <<setBacks, accounts, registering, tokens, ended, store, turns, retries,
                 failed, prior, posts, mixed, lost, completed>>

\* The copy s knows the events that it was told of.
Events(t, s, dirty) ==
  \/ events' = events /\ s.last = sess[t].last
  \/ \E heard \in BOOLEAN :
       /\ events' = Append(events, [conv |-> req[t].conv, heard |-> heard])
       /\ IF heard THEN s.last = Len(events) + 1 /\ dirty ELSE s.last = sess[t].last

EngineResult(t, s, a, dirty) ==
  /\ s \in Copies /\ a \in Askings /\ dirty \in BOOLEAN
  /\ sess' = [sess EXCEPT ![t] = s] /\ asked' = [asked EXCEPT ![t] = a]
  /\ req' = [req EXCEPT ![t].dirty = dirty]
  /\ Allowed(s.discourse) \subseteq Allowed(sess[t].discourse)
                                      \cup {e \in DOMAIN entities' : entities'[e] = req[t].user}
  /\ PendingOf(s) \in {0, PendingOf(sess[t]), req[t].turn}
  /\ a.completes \in {0, asked[t].completes, PendingOf(sess[t])}
  /\ a.completes \notin {0, asked[t].completes} /\ PendingOf(sess[t]) # req[t].turn
       => PendingOf(s) = 0
  /\ entities' \in Seq(Names) /\ Len(entities) <= Len(entities')
  /\ \A e \in DOMAIN entities : e \in DOMAIN entities' /\ entities'[e] = entities[e]
  /\ Events(t, s, dirty)
  /\ req[t].dirty => dirty

LEMMA FilledFacts ==
  ASSUME NEW turn \in Nat \ {0}, NEW query \in Queries(turn), NEW pending \in Pendings
  PROVE  LET q == Filled(query, pending) IN
         /\ q.about \in {0, turn, pending.turn} /\ q.subject \in BOOLEAN
         /\ q.kind \in {"attribute", "other", "subject_only"}
         /\ q.about = pending.turn /\ q.about # 0 /\ pending.turn # turn
              => q.subject /\ q.kind = "attribute"
<1>1. /\ query.about \in {0, turn} /\ query.subject \in BOOLEAN
      /\ query.kind \in {"attribute", "other", "subject_only"}
      /\ query = [kind |-> query.kind, about |-> query.about, subject |-> query.subject]
  <2>1. CASE query = [kind |-> "subject_only", about |-> 0, subject |-> TRUE]
    BY <2>1
  <2>2. CASE \E kind \in {"attribute", "other"}, subject \in BOOLEAN :
               query = [kind |-> kind, about |-> turn, subject |-> subject]
    BY <2>2
  <2> QED
    BY <2>1, <2>2 DEF Queries, Own
<1>2. CASE pending = Nothing \/ (query.kind = "attribute" /\ query.subject)
  BY <1>1, <1>2 DEF Filled, Nothing
<1>3. CASE ~ (pending = Nothing \/ (query.kind = "attribute" /\ query.subject))
           /\ query.kind = "attribute"
  <2>1. Filled(query, pending) = [kind |-> query.kind, about |-> query.about, subject |-> TRUE]
    BY <1>1, <1>3 DEF Filled
  <2> QED
    BY <2>1, <1>1
<1>4. CASE ~ (pending = Nothing \/ (query.kind = "attribute" /\ query.subject))
           /\ query.kind # "attribute"
  <2>1. Filled(query, pending) = [kind |-> "attribute", about |-> pending.turn, subject |-> TRUE]
    BY <1>4 DEF Filled
  <2> QED
    BY <2>1
<1> QED
  BY <1>2, <1>3, <1>4

LEMMA EngineFacts ==
  ASSUME TypeInv, NEW t \in Threads, Engine(t)
  PROVE  EngineStep(t) /\ \E s, a, dirty : EngineResult(t, s, a, dirty)
<1> DEFINE u    == req[t].user
           turn == req[t].turn
           d    == sess[t].discourse
<1>1. /\ req[t] \in Requests /\ sess[t] \in Copies /\ asked[t] \in Askings /\ d \in Discourses
      /\ sess \in [Threads -> Copies] /\ asked \in [Threads -> Askings]
      /\ req \in [Threads -> Requests] /\ entities \in Seq(Names)
  BY TypeFacts DEF TypeInv, TurnTypes, StoreTypes
<1>2. ASSUME EngineReturns(t), UNCHANGED completed
      PROVE  /\ EngineStep(t) /\ pc[t] # "idle" /\ turn \in Nat \ {0} /\ u \in Names
  <2>1. pc[t] = "engine"
    BY <1>2 DEF EngineReturns
  <2>2. PlaceThread(t)
    BY DEF TypeInv
  <2>3. turn \in 1 .. turns /\ turns \in Nat /\ u \in Names
    BY <2>1, <2>2 DEF PlaceThread, TypeInv, TurnTypes
  <2> QED
    BY <1>2, <2>1, <2>3 DEF EngineReturns, EngineStep, Goto
<1>3. d.pending \in Pendings /\ PendingOf(sess[t]) = d.pending.turn
  BY <1>1, AllowedIds DEF PendingOf
<1>4. req = [req EXCEPT ![t].dirty = req[t].dirty] /\ req[t].dirty \in BOOLEAN
  BY <1>1 DEF Requests
<1>5. sess = [sess EXCEPT ![t] = sess[t]] /\ asked = [asked EXCEPT ![t] = asked[t]]
  BY <1>1
<1>6. CASE Unheard(t)
  <2>1. EngineReturns(t) /\ UNCHANGED <<knowledge, req, sess, asked, completed>>
    BY <1>6 DEF Unheard
  <2>2. EngineResult(t, sess[t], asked[t], req[t].dirty)
    BY <2>1, <1>1, <1>4, <1>5 DEF EngineResult, Events, knowledge
  <2> QED
    BY <1>2, <2>1, <2>2
<1>7. ASSUME NEW query \in Queries(turn), NEW ids, Answer(t, query, ids)
      PROVE  EngineStep(t) /\ \E s, a, dirty : EngineResult(t, s, a, dirty)
  <2> DEFINE q == Filled(query, d.pending)
             r == Refocus(d, ids, TRUE)
             s == [sess[t] EXCEPT !.discourse = r]
             n == IF q.about = d.pending.turn /\ ids # {Principal} THEN q.about ELSE 0
             a == [query |-> query, about |-> q.about, completes |-> n]
  <2>1. /\ EngineReturns(t) /\ UNCHANGED <<knowledge, req, completed>>
        /\ q.subject => ids # {}
        /\ ids \subseteq Home(u) \cup {Principal}
        /\ sess' = [sess EXCEPT ![t].discourse = r]
        /\ asked' = [asked EXCEPT ![t] = a]
    BY <1>7 DEF Answer
  <2>2. EngineStep(t) /\ turn \in Nat \ {0} /\ u \in Names
    BY <2>1, <1>2
  <2>3. /\ q.about \in {0, turn, d.pending.turn}
        /\ q.about = d.pending.turn /\ q.about # 0 /\ d.pending.turn # turn => q.subject
    BY <2>2, <1>3, FilledFacts
  <2>4. ids \in Ids
    BY <2>1, HomeFacts
  <2>5. /\ r \in Discourses /\ Allowed(r) \subseteq Allowed(d) \cup (ids \ {Principal})
        /\ r.pending \in {Nothing, d.pending}
        /\ ids \ {Principal} # {} => r.pending = Nothing
    BY <2>4, <1>1, RefocusFacts
  <2> HIDE DEF q, r
  <2>6. s \in Copies /\ s.discourse = r /\ s.last = sess[t].last
        /\ sess' = [sess EXCEPT ![t] = s]
    BY <1>1, <2>1, <2>5 DEF Copies
  <2>7. query \in [kind : {"none", "attribute", "other", "subject_only"},
                   about : Nat, subject : BOOLEAN]
    <3>1. CASE query = [kind |-> "subject_only", about |-> 0, subject |-> TRUE]
      BY <3>1
    <3>2. CASE \E kind \in {"attribute", "other"}, subject \in BOOLEAN :
                 query = [kind |-> kind, about |-> turn, subject |-> subject]
      BY <3>2, <2>2
    <3> QED
      BY <3>1, <3>2 DEF Queries, Own
  <2>8. d.pending.turn \in Nat /\ Nothing.turn = 0
    BY <1>3 DEF Pendings, Nothing
  <2>9. a \in Askings /\ n \in {0, d.pending.turn}
    BY <2>2, <2>3, <2>7, <2>8 DEF Askings
  <2>10. n # 0 /\ d.pending.turn # turn => r.pending.turn = 0
    <3>1. ASSUME n # 0, d.pending.turn # turn
          PROVE  r.pending.turn = 0
      <4>1. q.about = d.pending.turn /\ ids # {Principal} /\ q.about # 0
        BY <3>1
      <4>2. ids # {}
        BY <4>1, <3>1, <2>3, <2>1
      <4>3. ids \ {Principal} # {}
        BY <4>1, <4>2
      <4> QED
        BY <4>3, <2>5, <2>8
    <3> QED
      BY <3>1
  <2>11. PendingOf(s) = r.pending.turn /\ r.pending.turn \in {0, d.pending.turn}
    BY <2>5, <2>6, <2>8 DEF PendingOf
  <2>12. entities' = entities /\ events' = events /\ req' = req
    BY <2>1 DEF knowledge
  <2>14. Allowed(s.discourse) \subseteq Allowed(d)
                                          \cup {e \in DOMAIN entities' : entities'[e] = u}
    BY <2>1, <2>5, <2>6, <2>12 DEF Home
  <2>15. PendingOf(s) \in {0, PendingOf(sess[t]), turn}
         /\ (n \notin {0, asked[t].completes} /\ PendingOf(sess[t]) # turn => PendingOf(s) = 0)
         /\ n \in {0, asked[t].completes, PendingOf(sess[t])} /\ a.completes = n
    BY <2>9, <2>10, <2>11, <1>3
  <2>16. asked' = [asked EXCEPT ![t] = a] /\ a \in Askings
    BY <2>1, <2>9
  <2> HIDE DEF s, n, a
  <2>17. /\ entities' \in Seq(Names) /\ Len(entities) <= Len(entities')
         /\ \A e \in DOMAIN entities : e \in DOMAIN entities' /\ entities'[e] = entities[e]
    BY <2>12, <1>1
  <2>13. EngineResult(t, s, a, req[t].dirty)
    BY <2>6, <2>12, <2>14, <2>15, <2>16, <2>17, <1>1, <1>4 DEF EngineResult, Events
  <2> QED
    BY <2>2, <2>13
<1>8. ASSUME NEW query \in Queries(turn), NEW ids, Ambiguous(t, query, ids)
      PROVE  EngineStep(t) /\ \E s, a, dirty : EngineResult(t, s, a, dirty)
  <2> DEFINE q == Filled(query, d.pending)
             r == StorePending(d, q.about, ids)
             s == [sess[t] EXCEPT !.discourse = r]
  <2>1. /\ EngineReturns(t) /\ UNCHANGED <<knowledge, req, asked, completed>>
        /\ ids \subseteq Home(u)
        /\ sess' = [sess EXCEPT ![t].discourse = r]
    BY <1>8 DEF Ambiguous, Candidates
  <2>2. EngineStep(t) /\ turn \in Nat \ {0} /\ u \in Names
    BY <2>1, <1>2
  <2>3. q.about \in {0, turn, d.pending.turn}
    BY <2>2, <1>3, FilledFacts
  <2>4. ids \in Ids
    BY <2>1, HomeFacts
  <2>5. d.pending.turn \in Nat
    BY <1>3 DEF Pendings
  <2>6. q.about \in Nat
    BY <2>2, <2>3, <2>5
  <2> HIDE DEF q
  <2>7. /\ r \in Discourses /\ Allowed(r) \subseteq Allowed(d) \cup ids
        /\ r.pending.turn = q.about
    BY <2>4, <2>6, <1>1, StorePendingFacts
  <2> HIDE DEF r
  <2>8. s \in Copies /\ s.discourse = r /\ s.last = sess[t].last
        /\ sess' = [sess EXCEPT ![t] = s]
    BY <1>1, <2>1, <2>7 DEF Copies
  <2>9. PendingOf(s) \in {0, PendingOf(sess[t]), turn}
    BY <2>3, <2>7, <2>8, <1>3 DEF PendingOf
  <2>12. entities' = entities /\ events' = events /\ req' = req /\ asked' = asked
    BY <2>1 DEF knowledge
  <2>10. Allowed(s.discourse) \subseteq Allowed(d)
                                          \cup {e \in DOMAIN entities' : entities'[e] = u}
    BY <2>1, <2>7, <2>8, <2>12 DEF Home
  <2> HIDE DEF s
  <2>11. EngineResult(t, s, asked[t], req[t].dirty)
    BY <2>8, <2>9, <2>10, <2>12, <1>1, <1>4, <1>5 DEF EngineResult, Events
  <2> QED
    BY <2>2, <2>11
<1>10. ASSUME NEW id \in 0 .. MaxEntities, NEW isEvent \in BOOLEAN,
              NEW heard \in BOOLEAN, Committed(t, id, isEvent, heard), u \in Names
       PROVE  LET home == {e \in DOMAIN entities' : entities'[e] = u} IN
              /\ id \in Nat
              /\ entities' \in Seq(Names) /\ Len(entities) <= Len(entities')
              /\ \A e \in DOMAIN entities : e \in DOMAIN entities' /\ entities'[e] = entities[e]
              /\ id # Principal => id \in home
  <2> DEFINE home == {e \in DOMAIN entities' : entities'[e] = u}
  <2>1. \/ id = Len(entities) + 1 /\ entities' = Append(entities, u)
        \/ id \in Home(u) /\ UNCHANGED entities
        \/ id = Principal /\ UNCHANGED entities
    BY <1>10 DEF Committed
  <2>2. Len(entities) \in Nat /\ DOMAIN entities = 1 .. Len(entities)
    BY TypeFacts
  <2>3. id \in Nat
    BY <2>1, <2>2, HomeFacts DEF Principal
  <2>4. CASE id = Len(entities) + 1 /\ entities' = Append(entities, u)
    <3>1. /\ entities' \in Seq(Names) /\ Len(entities') = Len(entities) + 1
          /\ \A e \in 1 .. Len(entities) : entities'[e] = entities[e]
          /\ entities'[id] = u
      BY <2>4, <1>10, <1>1, AppendProperties
    <3>2. DOMAIN entities' = 1 .. Len(entities) + 1
      BY <3>1, LenProperties
    <3> QED
      BY <3>1, <3>2, <2>2, <2>3, <2>4
  <2>5. CASE id \in Home(u) /\ UNCHANGED entities
    BY <2>2, <2>3, <2>5, <1>1 DEF Home
  <2>6. CASE id = Principal /\ UNCHANGED entities
    BY <2>2, <2>3, <2>6, <1>1
  <2> QED
    BY <2>1, <2>4, <2>5, <2>6
<1>9. ASSUME NEW id \in 0 .. MaxEntities, NEW offered, NEW isEvent \in BOOLEAN,
             NEW continues \in BOOLEAN, NEW heard \in BOOLEAN,
             Tell(t, id, offered, isEvent, continues, heard)
      PROVE  EngineStep(t) /\ \E s, a, dirty : EngineResult(t, s, a, dirty)
  <2> DEFINE r == Refocus(d, {id}, ~ continues)
             s == [discourse |-> r,
                   last |-> IF isEvent /\ heard THEN Len(events) + 1 ELSE sess[t].last]
             home == {e \in DOMAIN entities' : entities'[e] = u}
  <2>1. /\ EngineReturns(t) /\ UNCHANGED <<asked, completed>>
        /\ Committed(t, id, isEvent, heard)
        /\ events' = IF isEvent THEN Append(events, [conv |-> req[t].conv, heard |-> heard])
                     ELSE events
        /\ sess' = [sess EXCEPT ![t] = s]
        /\ req' = [req EXCEPT ![t].dirty = TRUE]
    BY <1>9, <1>1 DEF Tell, Committed
  <2>2. EngineStep(t) /\ turn \in Nat \ {0} /\ u \in Names
    BY <2>1, <1>2
  <2>3. Len(entities) \in Nat /\ DOMAIN entities = 1 .. Len(entities) /\ Len(events) \in Nat
    BY TypeFacts
  <2>4. id \in Nat
    BY <2>1, <2>2, <1>10
  <2>5. {id} \in Ids
    BY <2>4, FS_Singleton DEF Ids
  <2>6. /\ r \in Discourses /\ Allowed(r) \subseteq Allowed(d) \cup ({id} \ {Principal})
        /\ r.pending \in {Nothing, d.pending}
    BY <2>5, <1>1, RefocusFacts
  <2> HIDE DEF r
  <2>7. s \in Copies /\ s.discourse = r
    BY <2>3, <2>6, <1>1 DEF Copies
  <2>8. /\ entities' \in Seq(Names) /\ Len(entities) <= Len(entities')
        /\ \A e \in DOMAIN entities : e \in DOMAIN entities' /\ entities'[e] = entities[e]
        /\ id # Principal => id \in home
    BY <2>1, <2>2, <1>10
  <2>9. PendingOf(s) \in {0, PendingOf(sess[t]), turn}
    BY <2>6, <2>7, <1>3 DEF PendingOf, Nothing
  <2>10. Allowed(s.discourse) \subseteq Allowed(d) \cup home
    BY <2>6, <2>7, <2>8
  <2>11. Events(t, s, TRUE)
    BY <2>1 DEF Events
  <2> HIDE DEF s
  <2>12. EngineResult(t, s, asked[t], TRUE)
    BY <2>1, <2>7, <2>8, <2>9, <2>10, <2>11, <1>1, <1>5 DEF EngineResult
  <2> QED
    BY <2>2, <2>12
<1>11. ASSUME NEW id \in 0 .. MaxEntities, NEW isEvent \in BOOLEAN, Replace(t, id, isEvent)
       PROVE  EngineStep(t) /\ \E s, a, dirty : EngineResult(t, s, a, dirty)
  <2>1. /\ EngineReturns(t) /\ UNCHANGED <<req, sess, asked, completed>>
        /\ Committed(t, id, isEvent, FALSE)
    BY <1>11 DEF Replace
  <2>2. EngineStep(t) /\ u \in Names
    BY <2>1, <1>2
  <2>3. /\ entities' \in Seq(Names) /\ Len(entities) <= Len(entities')
        /\ \A e \in DOMAIN entities : e \in DOMAIN entities' /\ entities'[e] = entities[e]
    BY <2>1, <2>2, <1>10
  <2>4. Events(t, sess[t], req[t].dirty)
    BY <2>1 DEF Committed, Events
  <2>5. EngineResult(t, sess[t], asked[t], req[t].dirty)
    BY <2>1, <2>3, <2>4, <1>1, <1>4, <1>5 DEF EngineResult
  <2> QED
    BY <2>2, <2>5
<1> QED
  BY <1>6, <1>7, <1>8, <1>9, <1>11 DEF Engine

\* A turn enters a conversation that is there, or a new one.
Enters(t, u, conv) ==
  /\ conv \in DOMAIN convs /\ convs[conv].owner = u
  /\ mixed' = IF \E s \in Threads : req[s].conv = conv THEN mixed \cup {conv} ELSE mixed
  /\ UNCHANGED <<store, posts>>
Opens(t, u, conv) ==
  /\ conv = Len(convs) + 1
  /\ convs' = Append(convs, [owner |-> u, session |-> NewSession])
  /\ rows' = Append(rows, <<>>) /\ posts' = Append(posts, <<>>)
  /\ UNCHANGED mixed

PostResult(t, u, turn, wanted, conv) ==
  /\ pc[t] = "idle" /\ pc' = [pc EXCEPT ![t] = "post"]
  /\ u \in Names /\ turn \in Nat /\ wanted \in Nat /\ turns' \in Nat /\ retries' \in Nat
  /\ req' = [req EXCEPT ![t] = Request(u, turn, wanted, conv)]
  /\ \/ turn = turns + 1 /\ turns' = turn /\ failed' = failed
     \/ /\ turns' = turns /\ turn \in 1 .. turns
        /\ \E r \in failed : r.turn = turn /\ failed' = failed \ {r}
  /\ Enters(t, u, conv) \/ Opens(t, u, conv)
  /\ UNCHANGED <<sessionVars, knowledge, sess, prior, asked, lost, completed>>

LEMMA PostFacts ==
  ASSUME TypeInv, NEW t \in Threads, NEW i, NEW turn, NEW c, Post(t, i, turn, c)
  PROVE  \E u, wanted, conv : PostResult(t, u, turn, wanted, conv)
<1> DEFINE u == tokens[i].user
           r == [turn |-> turn, user |-> u, wanted |-> c]
<1>1. /\ pc[t] = "idle" /\ pc' = [pc EXCEPT ![t] = "post"] /\ i \in DOMAIN tokens
      /\ UNCHANGED <<sessionVars, knowledge, sess, prior, asked, lost, completed>>
  BY DEF Post, Goto, Admitted
<1>2. u \in Names
  <2>1. tokens \in Seq(TokenRows)
    BY DEF TypeInv, SessionTypes
  <2>2. tokens[i] \in TokenRows
    BY <1>1, <2>1, ElementOfSeq, LenProperties
  <2> QED
    BY <2>2 DEF TokenRows
<1>3. turns \in Nat /\ retries \in Nat /\ Len(convs) \in Nat /\ DOMAIN convs = 1 .. Len(convs)
  BY TypeFacts DEF TypeInv, TurnTypes
<1>4. /\ turn \in Nat /\ turns' \in Nat /\ retries' \in Nat
      /\ \/ turn = turns + 1 /\ turns' = turn /\ failed' = failed
         \/ /\ turns' = turns /\ turn \in 1 .. turns
            /\ \E q \in failed : q.turn = turn /\ failed' = failed \ {q}
  <2>1. CASE turn = turns + 1 /\ turns' = turn /\ UNCHANGED <<retries, failed>>
    BY <2>1, <1>3
  <2>2. CASE r \in failed /\ failed' = failed \ {r} /\ retries' = retries + 1 /\ UNCHANGED turns
    <3>1. r.turn \in 1 .. turns
      BY <2>2, TypeFacts
    <3> QED
      BY <2>2, <3>1, <1>3
  <2> QED
    BY <2>1, <2>2 DEF Post
<1>5. CASE /\ Found(u, c)
           /\ req' = [req EXCEPT ![t] = Request(u, turn, c, c)]
           /\ mixed' = IF \E s \in Threads : req[s].conv = c THEN mixed \cup {c} ELSE mixed
           /\ UNCHANGED <<store, posts>>
  <2>1. c \in DOMAIN convs /\ convs[c].owner = u
    BY <1>5 DEF Found
  <2>2. c \in Nat
    BY <2>1, <1>3
  <2>4. PostResult(t, u, turn, c, c)
    BY <1>1, <1>2, <1>4, <1>5, <2>1, <2>2 DEF PostResult, Enters
  <2> QED
    BY <2>4
<1>6. CASE /\ c = NoConv
           /\ convs' = Append(convs, [owner |-> u, session |-> NewSession])
           /\ rows' = Append(rows, <<>>)
           /\ posts' = Append(posts, <<>>)
           /\ req' = [req EXCEPT ![t] = Request(u, turn, NoConv, Len(convs) + 1)]
           /\ UNCHANGED mixed
  <2>1. PostResult(t, u, turn, NoConv, Len(convs) + 1)
    BY <1>1, <1>2, <1>4, <1>6 DEF PostResult, Opens, NoConv
  <2> QED
    BY <2>1
<1> QED
  BY <1>5, <1>6 DEF Post

Message(t, role) ==
  [turn |-> req[t].turn, user |-> req[t].user, role |-> role, at |-> now]

\* A message of a turn, at p behind others of its conversation.
MessageAdded(t, role, p) ==
  LET c == req[t].conv  row == Message(t, role) IN
  /\ p \in 0 .. Len(rows[c]) /\ Sorted(row, p, rows[c])
  /\ rows' \in Seq(Messages) /\ Len(rows') = Len(rows)
  /\ \A b \in DOMAIN convs : b # c => rows'[b] = rows[b]
  /\ rows'[c] \in Messages /\ Len(rows'[c]) = Len(rows[c]) + 1
  /\ \A i \in 1 .. Len(rows[c]) + 1 :
       rows'[c][i] = IF i <= p THEN rows[c][i] ELSE IF i = p + 1 THEN row ELSE rows[c][i - 1]

LEMMA AddRowFacts ==
  ASSUME TypeInv, NEW t \in Threads, pc[t] # "idle",
         NEW role \in {"user", "assistant"}, AddRow(t, role)
  PROVE  \E p : MessageAdded(t, role, p)
<1> DEFINE c   == req[t].conv
           row == Message(t, role)
           M   == [turn : Nat, user : Names, role : {"user", "assistant"}, at : Nat]
           new(p) == Inserted(rows[c], row, p)
<1>1. /\ PlaceThread(t) /\ req[t] \in Requests /\ turns \in Nat /\ now \in Nat
      /\ rows \in Seq(Messages)
  BY TypeFacts DEF TypeInv, TurnTypes, SessionTypes, StoreTypes
<1>2. c \in DOMAIN convs /\ req[t].user \in Names /\ req[t].turn \in Nat
  BY <1>1 DEF PlaceThread
<1>3. row \in M
  BY <1>1, <1>2 DEF Message
<1>4. rows[c] \in Seq(M) /\ DOMAIN rows = DOMAIN convs /\ Messages = Seq(M)
  BY <1>2, TypeFacts DEF Messages
<1>5. PICK p \in 0 .. Len(rows[c]) :
        Sorted(row, p, rows[c]) /\ rows' = [rows EXCEPT ![c] = new(p)]
  BY DEF AddRow, Message, Inserted
<1> HIDE DEF row, M
<1>6. /\ new(p) \in Seq(M) /\ Len(new(p)) = Len(rows[c]) + 1
      /\ \A i \in 1 .. Len(rows[c]) + 1 :
           new(p)[i] = IF i <= p THEN rows[c][i] ELSE IF i = p + 1 THEN row ELSE rows[c][i - 1]
  <2> DEFINE list == rows[c]
  <2>1. list \in Seq(M) /\ p \in 0 .. Len(list)
    BY <1>4, <1>5
  <2> HIDE DEF list
  <2>2. /\ Inserted(list, row, p) \in Seq(M) /\ Len(Inserted(list, row, p)) = Len(list) + 1
        /\ \A i \in 1 .. Len(list) + 1 :
             Inserted(list, row, p)[i]
               = IF i <= p THEN list[i] ELSE IF i = p + 1 THEN row ELSE list[i - 1]
    BY <2>1, <1>3, InsertFacts
  <2> QED
    BY <2>2 DEF list
<1> HIDE DEF new
<1>7. c \in 1 .. Len(rows)
  BY <1>1, <1>2, <1>4, LenProperties
<1>8. rows' \in Seq(Messages) /\ Len(rows') = Len(rows)
  BY <1>1, <1>4, <1>5, <1>6, <1>7, ExceptSeq
<1>9. rows'[c] = new(p) /\ \A b \in DOMAIN convs : b # c => rows'[b] = rows[b]
  BY <1>2, <1>4, <1>5
<1>10. MessageAdded(t, role, p)
  BY <1>4, <1>5, <1>6, <1>8, <1>9 DEF MessageAdded, row
<1> QED
  BY <1>10

-----------------------------------------------------------------------------
(* Type correctness.                                                       *)

LEMMA RevokedFacts ==
  ASSUME SessionTypes, NEW i \in DOMAIN tokens
  PROVE  /\ Revoked(i) \in Seq(TokenRows) /\ DOMAIN Revoked(i) = DOMAIN tokens
         /\ Revoked(i)[i].revoked /\ i \in Nat
         /\ \A j \in DOMAIN tokens : /\ Revoked(i)[j].user = tokens[j].user
                                     /\ Revoked(i)[j].holder = tokens[j].holder
                                     /\ tokens[j].revoked => Revoked(i)[j].revoked
<1> DEFINE row == [tokens[i] EXCEPT !.revoked = TRUE]
<1>1. tokens \in Seq(TokenRows)
  BY DEF SessionTypes
<1>2. DOMAIN tokens = 1 .. Len(tokens) /\ Len(tokens) \in Nat /\ tokens[i] \in TokenRows
  BY <1>1, LenProperties, ElementOfSeq
<1>3. row \in TokenRows /\ row.revoked /\ row.user = tokens[i].user
      /\ row.holder = tokens[i].holder
  BY <1>2 DEF TokenRows
<1>4. Revoked(i) = [tokens EXCEPT ![i] = row]
  BY DEF Revoked
<1> HIDE DEF row
<1>5. [tokens EXCEPT ![i] = row] \in Seq(TokenRows)
      /\ Len([tokens EXCEPT ![i] = row]) = Len(tokens)
  BY <1>1, <1>2, <1>3, ExceptSeq
<1> QED
  BY <1>2, <1>3, <1>4, <1>5

LEMMA SessionSteps ==
  ASSUME SessionTypes, Sessions
  PROVE  SessionTypes'
<1>1. ASSUME NEW c \in Clients, NEW n \in Names, BeginRegister(c, n)
      PROVE  SessionTypes'
  BY <1>1 DEF BeginRegister, SessionTypes
<1>2. ASSUME NEW c \in Clients, FinishRegister(c)
      PROVE  SessionTypes'
  <2>1. registering[c] \in Names
    BY <1>2 DEF FinishRegister, SessionTypes
  <2> QED
    BY <1>2, <2>1 DEF FinishRegister, SessionTypes
<1>3. ASSUME NEW c \in Clients, NEW n \in Names, Login(c, n)
      PROVE  SessionTypes'
  <2> DEFINE row == [user |-> n, holder |-> c, expires |-> now + Ttl, revoked |-> FALSE]
  <2>1. row \in TokenRows
    BY SessionAssumption DEF SessionTypes, TokenRows
  <2>2. tokens' = Append(tokens, row) /\ UNCHANGED <<now, setBacks, accounts, registering, ended>>
    BY <1>3 DEF Login
  <2> HIDE DEF row
  <2>3. tokens' \in Seq(TokenRows)
    BY <2>1, <2>2, AppendProperties DEF SessionTypes
  <2> QED
    BY <2>2, <2>3 DEF SessionTypes
<1>4. ASSUME NEW i, Logout(i) \/ RefuseExpired(i)
      PROVE  SessionTypes'
  <2>1. i \in DOMAIN tokens /\ tokens' = Revoked(i) /\ ended' = ended \cup {i}
        /\ UNCHANGED <<now, setBacks, accounts, registering>>
    BY <1>4 DEF Logout, RefuseExpired, Expired
  <2> QED
    BY <2>1, RevokedFacts DEF SessionTypes
<1>5. CASE Tick
  BY <1>5 DEF Tick, SessionTypes
<1>6. ASSUME NEW n \in 0 .. MaxTime, SetBack(n)
      PROVE  SessionTypes'
  BY <1>6, SessionAssumption DEF SetBack, SessionTypes
<1> QED
  BY <1>1, <1>2, <1>3, <1>4, <1>5, <1>6 DEF Sessions

LEMMA TypeInit == Init => TypeInv
<1> SUFFICES ASSUME Init PROVE TypeInv
  OBVIOUS
<1>1. PICK start \in Starts : SessionsInit(start) /\ entities = start.entities
  BY DEF Init
<1>2. SessionTypes
  BY <1>1, StartsAssumption DEF SessionsInit, SessionTypes, TokenRows
<1>3. <<>> \in Seq([owner : Names, session : Copies]) /\ Len(<<>>) = 0
      /\ <<>> \in Seq(Messages) /\ <<>> \in Seq(Seq(Nat)) /\ <<>> \in Seq(Nat)
      /\ \A S : <<>> \in Seq(S)
  BY EmptySeq
<1>4. StoreTypes
  BY <1>1, <1>3, StartsAssumption DEF Init, StoreTypes
<1>5. TurnTypes /\ \A t \in Threads : PlaceThread(t)
  BY <1>3, NewFacts DEF Init, TurnTypes, PlaceThread, Steps
<1> QED
  BY <1>2, <1>4, <1>5 DEF TypeInv

LEMMA OpensFacts ==
  ASSUME TypeInv, NEW t, NEW u \in Names, NEW conv, Opens(t, u, conv)
  PROVE  /\ convs' \in Seq([owner : Names, session : Copies]) /\ rows' \in Seq(Messages)
         /\ posts' \in Seq(Seq(Nat)) /\ Len(rows') = Len(convs') /\ Len(posts') = Len(convs')
         /\ Len(convs') = Len(convs) + 1 /\ DOMAIN convs' = DOMAIN convs \cup {conv}
         /\ conv \notin DOMAIN convs /\ conv \in Nat \ {0}
         /\ \A c \in DOMAIN convs : convs'[c] = convs[c] /\ rows'[c] = rows[c]
                                    /\ posts'[c] = posts[c]
         /\ convs'[conv] = [owner |-> u, session |-> NewSession]
         /\ rows'[conv] = <<>> /\ posts'[conv] = <<>>
<1> DEFINE row == [owner |-> u, session |-> NewSession]
<1>1. /\ convs \in Seq([owner : Names, session : Copies]) /\ rows \in Seq(Messages)
      /\ posts \in Seq(Seq(Nat)) /\ Len(rows) = Len(convs) /\ Len(posts) = Len(convs)
      /\ Len(convs) \in Nat /\ DOMAIN convs = 1 .. Len(convs)
  BY TypeFacts DEF TypeInv, StoreTypes
<1>2. /\ conv = Len(convs) + 1 /\ convs' = Append(convs, row)
      /\ rows' = Append(rows, <<>>) /\ posts' = Append(posts, <<>>)
  BY DEF Opens
<1>3. row \in [owner : Names, session : Copies]
  BY NewFacts
<1> HIDE DEF row
<1>4. /\ convs' \in Seq([owner : Names, session : Copies]) /\ Len(convs') = Len(convs) + 1
      /\ \A c \in 1 .. Len(convs) : convs'[c] = convs[c]
      /\ convs'[Len(convs) + 1] = row
  BY <1>1, <1>2, <1>3, AppendProperties
<1>5. <<>> \in Messages /\ <<>> \in Seq(Nat)
  BY EmptySeq DEF Messages
<1>6. /\ rows' \in Seq(Messages) /\ Len(rows') = Len(rows) + 1
      /\ \A c \in 1 .. Len(rows) : rows'[c] = rows[c]
      /\ rows'[Len(rows) + 1] = <<>>
  BY <1>1, <1>2, <1>5, AppendProperties
<1>7. /\ posts' \in Seq(Seq(Nat)) /\ Len(posts') = Len(posts) + 1
      /\ \A c \in 1 .. Len(posts) : posts'[c] = posts[c]
      /\ posts'[Len(posts) + 1] = <<>>
  BY <1>1, <1>2, <1>5, AppendProperties
<1>8. DOMAIN convs' = 1 .. Len(convs) + 1
  BY <1>4, LenProperties
<1> QED
  BY <1>1, <1>2, <1>4, <1>6, <1>7, <1>8 DEF row

LEMMA PostTypes ==
  ASSUME TypeInv, NEW t \in Threads, NEW u, NEW turn, NEW wanted, NEW conv,
         PostResult(t, u, turn, wanted, conv)
  PROVE  TypeInv'
<1> DEFINE new == Request(u, turn, wanted, conv)
<1>1. /\ pc[t] = "idle" /\ pc' = [pc EXCEPT ![t] = "post"]
      /\ u \in Names /\ turn \in Nat /\ wanted \in Nat /\ turns' \in Nat /\ retries' \in Nat
      /\ req' = [req EXCEPT ![t] = new]
      /\ UNCHANGED <<sessionVars, knowledge, sess, prior, asked, lost, completed>>
  BY DEF PostResult
<1>2. SessionTypes'
  BY <1>1 DEF sessionVars, TypeInv, SessionTypes
<1>3. /\ StoreTypes' /\ DOMAIN convs \subseteq DOMAIN convs' /\ conv \in DOMAIN convs'
      /\ \A c \in DOMAIN convs : convs'[c].owner = convs[c].owner
      /\ convs'[conv].owner = u /\ conv \in Nat
  <2>1. CASE Enters(t, u, conv)
    BY <1>1, <2>1, TypeFacts DEF Enters, store, knowledge, TypeInv, StoreTypes
  <2>2. CASE Opens(t, u, conv)
    <3>1. events \in Seq(Told(convs)) /\ DOMAIN convs \subseteq DOMAIN convs'
      BY <1>1, <2>2, OpensFacts DEF TypeInv, StoreTypes
    <3>2. events \in Seq(Told(convs'))
      <4>1. \A i \in 1 .. Len(events) : events[i] \in Told(convs')
        BY <3>1, TypeFacts DEF Told
      <4>2. Len(events) \in Nat /\ events = [i \in 1 .. Len(events) |-> events[i]]
        BY <3>1, TypeFacts
      <4> QED
        BY <4>1, <4>2, IsSequence
    <3>3. StoreTypes'
      BY <1>1, <2>2, <3>2, OpensFacts DEF knowledge, TypeInv, StoreTypes
    <3>4. DOMAIN convs' = DOMAIN convs \cup {conv} /\ conv \in Nat \ {0}
      BY <1>1, <2>2, OpensFacts
    <3>5. \A c \in DOMAIN convs : convs'[c] = convs[c]
      BY <1>1, <2>2, OpensFacts
    <3>6. convs'[conv] = [owner |-> u, session |-> NewSession]
      BY <1>1, <2>2, OpensFacts
    <3> QED
      BY <3>3, <3>4, <3>5, <3>6
  <2> QED
    BY <2>1, <2>2 DEF PostResult
<1>4. new \in Requests /\ new.conv = conv /\ new.user = u /\ new.turn = turn
  BY <1>1, <1>3 DEF Request, Requests
<1>5. turns \in Nat /\ turns <= turns' /\ turn \in 1 .. turns' /\ failed' \subseteq failed
  BY <1>1 DEF PostResult, TypeInv, TurnTypes
<1> HIDE DEF new
<1>6. failed' \subseteq [turn : 1 .. turns', user : Names, wanted : Nat]
  BY <1>5, <1>1 DEF TypeInv, TurnTypes
<1>7. mixed' \subseteq Nat
  <2>1. mixed' \in {mixed, mixed \cup {conv}}
    BY DEF PostResult, Enters, Opens
  <2> QED
    BY <2>1, <1>3 DEF TypeInv, TurnTypes
<1>8. req' \in [Threads -> Requests] /\ pc' \in [Threads -> Steps]
  BY <1>1, <1>4 DEF TypeInv, TurnTypes, Steps, Working
<1>9. TurnTypes'
  BY <1>1, <1>6, <1>7, <1>8 DEF TypeInv, TurnTypes
<1>10. ASSUME NEW s \in Threads
       PROVE  PlaceThread(s)'
  <2>1. CASE s = t
    <3>1. pc'[s] = "post" /\ req'[s] = new
      BY <1>1, <2>1 DEF TypeInv, TurnTypes
    <3> QED
      BY <3>1, <1>1, <1>3, <1>4, <1>5 DEF PlaceThread
  <2>2. CASE s # t
    <3>1. pc'[s] = pc[s] /\ req'[s] = req[s] /\ PlaceThread(s) /\ req[s] \in Requests
      BY <1>1, <2>2 DEF TypeInv, TurnTypes
    <3> QED
      BY <3>1, <1>1, <1>3, <1>5 DEF PlaceThread, Requests
  <2> QED
    BY <2>1, <2>2
<1> QED
  BY <1>2, <1>3, <1>9, <1>10 DEF TypeInv

LEMMA EngineTypes ==
  ASSUME TypeInv, NEW t \in Threads, Engine(t)
  PROVE  TypeInv'
<1>1. PICK s, a, dirty : EngineResult(t, s, a, dirty)
  BY EngineFacts
<1>2. /\ pc[t] = "engine" /\ pc' = [pc EXCEPT ![t] = "save"] /\ now' = now + 1
      /\ UNCHANGED <<setBacks, accounts, registering, tokens, ended, store, turns, retries,
                     failed, prior, posts, mixed, lost, completed>>
  BY EngineFacts DEF EngineStep
<1>3. /\ s \in Copies /\ a \in Askings /\ dirty \in BOOLEAN
      /\ sess' = [sess EXCEPT ![t] = s] /\ asked' = [asked EXCEPT ![t] = a]
      /\ req' = [req EXCEPT ![t].dirty = dirty]
      /\ entities' \in Seq(Names)
      /\ \/ events' = events
         \/ \E heard \in BOOLEAN :
              events' = Append(events, [conv |-> req[t].conv, heard |-> heard])
  BY <1>1 DEF EngineResult, Events
<1>4. SessionTypes'
  BY <1>2 DEF TypeInv, SessionTypes
<1>5. PlaceThread(t) /\ req[t].conv \in DOMAIN convs
  BY <1>2 DEF TypeInv, PlaceThread
<1>6. events' \in Seq(Told(convs))
  <2> DEFINE D == Told(convs)
  <2>1. events \in Seq(D)
    BY DEF TypeInv, StoreTypes
  <2>2. \A heard \in BOOLEAN : [conv |-> req[t].conv, heard |-> heard] \in D
    BY <1>5 DEF Told
  <2> HIDE DEF D
  <2>3. \A e \in D : Append(events, e) \in Seq(D)
    BY <2>1, AppendProperties
  <2>4. events' \in Seq(D)
    BY <1>3, <2>1, <2>2, <2>3
  <2> QED
    BY <2>4 DEF D
<1>7. StoreTypes'
  BY <1>2, <1>3, <1>6 DEF store, TypeInv, StoreTypes
<1>8. req' \in [Threads -> Requests] /\ pc' \in [Threads -> Steps]
  BY <1>2, <1>3 DEF TypeInv, TurnTypes, Requests, Steps, Working
<1>9. TurnTypes'
  BY <1>2, <1>3, <1>8 DEF TypeInv, TurnTypes
<1>10. ASSUME NEW p \in Threads
       PROVE  PlaceThread(p)'
  <2>1. PlaceThread(p) /\ req[p] \in Requests
    BY DEF TypeInv, TurnTypes
  <2>2. CASE p = t
    <3>1. pc'[p] = "save" /\ req'[p].conv = req[p].conv /\ req'[p].user = req[p].user
          /\ req'[p].turn = req[p].turn
      BY <1>2, <1>3, <2>1, <2>2 DEF TypeInv, TurnTypes, Requests
    <3> QED
      BY <3>1, <1>2, <2>1, <2>2 DEF PlaceThread, store
  <2>3. CASE p # t
    <3>1. pc'[p] = pc[p] /\ req'[p] = req[p] /\ sess'[p] = sess[p] /\ asked'[p] = asked[p]
      BY <1>2, <1>3, <2>3 DEF TypeInv, TurnTypes
    <3> QED
      BY <3>1, <1>2, <2>1 DEF PlaceThread, store
  <2> QED
    BY <2>2, <2>3
<1> QED
  BY <1>4, <1>7, <1>9, <1>10 DEF TypeInv

\* A thread that has returned.
LEMMA ReturnFacts ==
  ASSUME TypeInv, NEW t \in Threads, Return(t)
  PROVE  /\ pc' \in [Threads -> Steps] /\ req' \in [Threads -> Requests]
         /\ sess' \in [Threads -> Copies] /\ prior' \in [Threads -> Seq(Nat)]
         /\ asked' \in [Threads -> Askings]
         /\ pc'[t] = "idle" /\ req'[t] = NoRequest /\ sess'[t] = NewSession
         /\ asked'[t] = NotAsked
         /\ \A s \in Threads \ {t} : /\ pc'[s] = pc[s] /\ req'[s] = req[s] /\ sess'[s] = sess[s]
                                     /\ prior'[s] = prior[s] /\ asked'[s] = asked[s]
<1>1. <<>> \in Seq(Nat)
  BY EmptySeq
<1> QED
  BY <1>1, NewFacts DEF TypeInv, TurnTypes, Return, Goto, Steps

LEMMA FailTypes ==
  ASSUME TypeInv, NEW t \in Threads, Fail(t)
  PROVE  TypeInv'
<1> DEFINE r == [turn |-> req[t].turn, user |-> req[t].user, wanted |-> req[t].wanted]
<1>1. /\ pc[t] \in {"post", "load", "utterances", "engine", "save"} /\ now' = now + 1
      /\ failed' = failed \cup {r} /\ Return(t)
      /\ lost' \in {lost, lost \cup {req[t].conv}}
      /\ UNCHANGED <<setBacks, accounts, registering, tokens, ended, store, knowledge, turns,
                     retries, posts, mixed, completed>>
  BY DEF Fail
<1>2. SessionTypes' /\ StoreTypes'
  BY <1>1 DEF store, knowledge, TypeInv, SessionTypes, StoreTypes
<1>3. PlaceThread(t) /\ req[t] \in Requests
  BY DEF TypeInv, TurnTypes
<1>4. r \in [turn : 1 .. turns, user : Names, wanted : Nat] /\ req[t].conv \in Nat
  BY <1>1, <1>3 DEF PlaceThread, Requests
<1> HIDE DEF r
<1>5. TurnTypes'
  BY <1>1, <1>4, ReturnFacts DEF TypeInv, TurnTypes
<1>6. ASSUME NEW s \in Threads
      PROVE  PlaceThread(s)'
  <2>1. PlaceThread(s)
    BY DEF TypeInv
  <2> QED
    BY <1>1, <2>1, ReturnFacts DEF PlaceThread, store
<1> QED
  BY <1>2, <1>5, <1>6 DEF TypeInv

LEMMA PersistTypes ==
  ASSUME TypeInv, NEW t \in Threads, PersistAssistant(t)
  PROVE  TypeInv'
<1>1. /\ pc[t] = "reply" /\ AddRow(t, "assistant") /\ Return(t)
      /\ UNCHANGED <<sessionVars, convs, knowledge, turns, retries, failed, history>>
  BY DEF PersistAssistant
<1>2. PICK p : MessageAdded(t, "assistant", p)
  BY <1>1, AddRowFacts
<1>3. SessionTypes'
  BY <1>1 DEF sessionVars, TypeInv, SessionTypes
<1>4. StoreTypes'
  BY <1>1, <1>2 DEF MessageAdded, knowledge, history, TypeInv, StoreTypes
<1>5. TurnTypes'
  BY <1>1, ReturnFacts DEF history, TypeInv, TurnTypes
<1>6. ASSUME NEW s \in Threads
      PROVE  PlaceThread(s)'
  <2>1. PlaceThread(s)
    BY DEF TypeInv
  <2> QED
    BY <1>1, <2>1, ReturnFacts DEF PlaceThread
<1> QED
  BY <1>3, <1>4, <1>5, <1>6 DEF TypeInv

LEMMA AddUserTypes ==
  ASSUME TypeInv, NEW t \in Threads, AddUserMessage(t)
  PROVE  /\ TypeInv' /\ pc[t] = "post" /\ pc' = [pc EXCEPT ![t] = "load"]
         /\ \E p : MessageAdded(t, "user", p)
         /\ posts'[req[t].conv] = Append(posts[req[t].conv], req[t].turn)
         /\ \A c \in DOMAIN convs : c # req[t].conv => posts'[c] = posts[c]
<1> DEFINE c == req[t].conv
<1>1. /\ pc[t] = "post" /\ AddRow(t, "user") /\ pc' = [pc EXCEPT ![t] = "load"]
      /\ posts' = [posts EXCEPT ![c] = Append(posts[c], req[t].turn)]
      /\ UNCHANGED <<sessionVars, convs, knowledge, turns, retries, failed, req, sess, prior,
                     asked, mixed, lost, completed>>
  BY DEF AddUserMessage, Goto
<1>2. PICK p : MessageAdded(t, "user", p)
  BY <1>1, AddRowFacts
<1>3. PlaceThread(t) /\ req[t] \in Requests
  BY DEF TypeInv, TurnTypes
<1>4. c \in DOMAIN convs /\ req[t].turn \in Nat
  BY <1>1, <1>3 DEF PlaceThread, Requests
<1>5. Append(posts[c], req[t].turn) \in Seq(Nat)
  BY <1>4, TypeFacts, AppendProperties
<1>6. posts \in Seq(Seq(Nat)) /\ DOMAIN posts = DOMAIN convs /\ DOMAIN convs = 1 .. Len(convs)
      /\ Len(posts) = Len(convs)
  BY TypeFacts DEF TypeInv, StoreTypes
<1>7. posts' \in Seq(Seq(Nat)) /\ Len(posts') = Len(posts)
  BY <1>1, <1>4, <1>5, <1>6, ExceptSeq
<1>8. SessionTypes'
  BY <1>1 DEF sessionVars, TypeInv, SessionTypes
<1>9. StoreTypes'
  BY <1>1, <1>2, <1>7 DEF MessageAdded, knowledge, TypeInv, StoreTypes
<1>10. TurnTypes'
  BY <1>1 DEF TypeInv, TurnTypes, Steps, Working
<1>11. ASSUME NEW s \in Threads
       PROVE  PlaceThread(s)'
  <2>1. PlaceThread(s)
    BY DEF TypeInv
  <2>2. pc'[s] = pc[s] \/ (pc[s] = "post" /\ pc'[s] = "load")
    <3>1. pc \in [Threads -> Steps]
      BY DEF TypeInv, TurnTypes
    <3>2. CASE s = t
      BY <1>1, <3>1, <3>2
    <3>3. CASE s # t
      BY <1>1, <3>1, <3>3
    <3> QED
      BY <3>2, <3>3
  <2> QED
    BY <1>1, <2>1, <2>2 DEF PlaceThread
<1>12. TypeInv'
  BY <1>8, <1>9, <1>10, <1>11 DEF TypeInv
<1> QED
  BY <1>1, <1>2, <1>4, <1>6, <1>12

\* The turns of the user rows of a list, in its order.
Texts(list) == [i \in DOMAIN Kept(list, UserRows(list)) |-> Kept(list, UserRows(list))[i].turn]

LEMMA TextFacts ==
  ASSUME NEW list \in Messages
  PROVE  /\ UserRows(list) \in SUBSET (1 .. Len(list)) /\ Len(list) \in Nat
         /\ Texts(list) \in Seq(Nat) /\ Len(Texts(list)) = Cardinality(UserRows(list))
         /\ \A i \in 1 .. Cardinality(UserRows(list)) :
              Texts(list)[i] = list[InOrder(UserRows(list))[i]].turn
<1> DEFINE K == UserRows(list)
           M == [turn : Nat, user : Names, role : {"user", "assistant"}, at : Nat]
           c == Cardinality(K)
           s == InOrder(K)
           kept == Kept(list, K)
<1>1. Messages = Seq(M) /\ Len(list) \in Nat /\ DOMAIN list = 1 .. Len(list)
      /\ \A i \in 1 .. Len(list) : list[i] \in M
  <2> HIDE DEF M
  <2>1. Messages = Seq(M)
    BY DEF Messages, M
  <2> QED
    BY <2>1, LenProperties, ElementOfSeq
<1>2. K \in SUBSET (1 .. Len(list))
  BY <1>1 DEF UserRows
<1> HIDE DEF K
<1>3. c \in Nat /\ s \in [1 .. c -> K]
  BY <1>1, <1>2, InOrderFacts
<1>4. kept = [i \in 1 .. c |-> list[s[i]]]
  BY DEF Kept
<1> HIDE DEF c, s
<1>5. \A i \in 1 .. c : list[s[i]].turn \in Nat
  BY <1>1, <1>2, <1>3
<1>6. Texts(list) = [i \in 1 .. c |-> list[s[i]].turn]
  BY <1>4 DEF Texts, K
<1>7. Texts(list) \in Seq(Nat) /\ Len(Texts(list)) = c
  BY <1>3, <1>5, <1>6, IsSequence
<1> QED
  BY <1>1, <1>2, <1>6, <1>7 DEF K, c, s

LEMMA LastTextFacts ==
  ASSUME NEW texts \in Seq(Nat), NEW turn
  PROVE  /\ WithoutCurrent(texts, turn) \in Seq(Nat) /\ LastOf(texts) \in Seq(Nat)
<1>1. Len(texts) \in Nat /\ \A i \in 1 .. Len(texts) : texts[i] \in Nat
  BY LenProperties, ElementOfSeq
<1>2. WithoutCurrent(texts, turn) \in Seq(Nat)
  <2>1. CASE texts # <<>> /\ texts[Len(texts)] = turn
    <3>1. Len(texts) # 0
      BY <2>1, EmptySeq
    <3>2. SubSeq(texts, 1, Len(texts) - 1) \in Seq(Nat)
      BY <1>1, <3>1, SubSeqProperties
    <3> QED
      BY <2>1, <3>2 DEF WithoutCurrent
  <2>2. CASE ~ (texts # <<>> /\ texts[Len(texts)] = turn)
    BY <2>2 DEF WithoutCurrent
  <2> QED
    BY <2>1, <2>2
<1>3. LastOf(texts) \in Seq(Nat)
  <2> DEFINE m == (IF Len(texts) > Recent THEN Len(texts) - Recent ELSE 0) + 1
  <2>1. m \in 1 .. Len(texts) + 1
    BY <1>1, RecentAssumption
  <2>2. LastOf(texts) = SubSeq(texts, m, Len(texts))
    BY DEF LastOf
  <2> HIDE DEF m
  <2>3. SubSeq(texts, m, Len(texts)) \in Seq(Nat)
    BY <1>1, <2>1, SubSeqProperties
  <2> QED
    BY <2>2, <2>3
<1> QED
  BY <1>2, <1>3

LEMMA PriorFacts ==
  ASSUME TypeInv, NEW t \in Threads, PriorUserUtterances(t)
  PROVE  /\ pc[t] = "utterances" /\ pc' = [pc EXCEPT ![t] = "engine"]
         /\ prior' \in [Threads -> Seq(Nat)]
         /\ \A s \in Threads \ {t} : prior'[s] = prior[s]
         /\ prior'[t] = LastOf(WithoutCurrent(Texts(rows[req[t].conv]), req[t].turn))
         /\ UNCHANGED <<sessionVars, store, knowledge, turns, retries, failed, req, sess, asked,
                        history>>
<1> DEFINE c == req[t].conv
           list == rows[c]
           read == LastOf(WithoutCurrent(Texts(list), req[t].turn))
<1>1. /\ pc[t] = "utterances" /\ pc' = [pc EXCEPT ![t] = "engine"]
      /\ prior' = [prior EXCEPT ![t] = read]
      /\ UNCHANGED <<sessionVars, store, knowledge, turns, retries, failed, req, sess, asked,
                     history>>
  BY DEF PriorUserUtterances, Goto, Texts, UserRows
<1>2. PlaceThread(t) /\ c \in DOMAIN convs
  BY <1>1 DEF TypeInv, PlaceThread
<1>3. list \in Messages
  BY <1>2, TypeFacts
<1> HIDE DEF list
<1>4. Texts(list) \in Seq(Nat)
  BY <1>3, TextFacts
<1>5. WithoutCurrent(Texts(list), req[t].turn) \in Seq(Nat)
  BY <1>4, LastTextFacts
<1>6. read \in Seq(Nat)
  BY <1>5, LastTextFacts
<1>7. prior \in [Threads -> Seq(Nat)]
  BY DEF TypeInv, TurnTypes
<1> HIDE DEF read
<1>8. prior' \in [Threads -> Seq(Nat)] /\ prior'[t] = read
      /\ \A s \in Threads \ {t} : prior'[s] = prior[s]
  BY <1>1, <1>6, <1>7
<1> QED
  BY <1>1, <1>8 DEF read, list

LEMMA ReadTypes ==
  ASSUME TypeInv, NEW t \in Threads,
         LoadSession(t) \/ PriorUserUtterances(t) \/ SaveSession(t)
  PROVE  TypeInv'
<1>1. /\ \/ pc[t] = "load" /\ pc' = [pc EXCEPT ![t] = "utterances"]
         \/ pc[t] = "utterances" /\ pc' = [pc EXCEPT ![t] = "engine"]
         \/ pc[t] = "save" /\ pc' = [pc EXCEPT ![t] = "reply"]
      /\ UNCHANGED <<sessionVars, rows, knowledge, turns, retries, failed, req, asked, posts,
                     mixed, lost>>
  BY PriorFacts DEF LoadSession, SaveSession, Goto, store, history
<1>2. PlaceThread(t) /\ pc[t] # "idle"
  BY <1>1 DEF TypeInv
<1>3. req[t].conv \in DOMAIN convs /\ sess[t] \in Copies /\ asked[t] \in Askings
  BY <1>2, TypeFacts DEF PlaceThread
<1>4. convs[req[t].conv].session \in Copies
  BY <1>3, TypeFacts
<1>5. sess' \in [Threads -> Copies] /\ \A s \in Threads : pc[s] = "idle" => sess'[s] = sess[s]
  BY <1>2, <1>4 DEF LoadSession, PriorUserUtterances, SaveSession, TypeInv, TurnTypes
<1>6. prior' \in [Threads -> Seq(Nat)]
  BY PriorFacts DEF LoadSession, SaveSession, TypeInv, TurnTypes
<1>7. completed' \subseteq Nat \ {0}
  BY <1>3 DEF LoadSession, PriorUserUtterances, SaveSession, TypeInv, TurnTypes, history,
              Askings
<1>8. /\ convs' \in Seq([owner : Names, session : Copies]) /\ Len(convs') = Len(convs)
      /\ \A c \in DOMAIN convs : convs'[c].owner = convs[c].owner
  <2>1. CASE convs' = convs
    BY <2>1 DEF TypeInv, StoreTypes
  <2>2. CASE convs' = Saved(t)
    <3> DEFINE c   == req[t].conv
               row == [owner |-> convs[c].owner, session |-> sess[t]]
               old == [owner : Names, session : Copies]
    <3>1. convs \in Seq(old) /\ convs[c] \in old
      BY <1>3, TypeFacts DEF TypeInv, StoreTypes
    <3>2. row \in old /\ row.owner = convs[c].owner
      BY <1>3, <3>1
    <3>3. convs' = [convs EXCEPT ![c] = row]
      <4>1. [convs[c] EXCEPT !.session = sess[t]] = row
        BY <3>1
      <4>2. Saved(t) = [convs EXCEPT ![c] = [convs[c] EXCEPT !.session = sess[t]]]
        BY DEF Saved
      <4> QED
        BY <2>2, <4>1, <4>2
    <3> HIDE DEF row, old
    <3>4. convs' \in Seq(old) /\ Len(convs') = Len(convs)
      BY <1>3, <3>1, <3>2, <3>3, TypeFacts, ExceptSeq
    <3>5. \A b \in DOMAIN convs : convs'[b].owner = convs[b].owner
      BY <3>2, <3>3
    <3> QED
      BY <3>4, <3>5 DEF old
  <2> QED
    BY <2>1, <2>2 DEF LoadSession, PriorUserUtterances, SaveSession, store
<1>9. DOMAIN convs' = DOMAIN convs
  BY <1>8, TypeFacts, LenProperties
<1>10. SessionTypes' /\ StoreTypes'
  BY <1>1, <1>8, <1>9 DEF sessionVars, knowledge, TypeInv, SessionTypes, StoreTypes, Told
<1>11. pc' \in [Threads -> Steps]
  BY <1>1 DEF TypeInv, TurnTypes, Steps, Working
<1>12. TurnTypes'
  BY <1>1, <1>5, <1>6, <1>7, <1>11 DEF TypeInv, TurnTypes
<1>13. ASSUME NEW s \in Threads
       PROVE  PlaceThread(s)'
  <2>1. PlaceThread(s)
    BY DEF TypeInv
  <2>2. pc'[s] = pc[s] \/ (pc[s] # "idle" /\ pc'[s] # "idle")
    <3>1. pc \in [Threads -> Steps]
      BY DEF TypeInv, TurnTypes
    <3>2. CASE s = t
      BY <1>1, <3>1, <3>2
    <3>3. CASE s # t
      BY <1>1, <3>1, <3>3
    <3> QED
      BY <3>2, <3>3
  <2> QED
    BY <1>1, <1>5, <1>8, <1>9, <2>1, <2>2 DEF PlaceThread
<1> QED
  BY <1>10, <1>12, <1>13 DEF TypeInv

LEMMA TypeStep == TypeInv /\ [Next]_vars => TypeInv'
<1> SUFFICES ASSUME TypeInv, [Next]_vars PROVE TypeInv'
  OBVIOUS
<1>1. CASE Sessions
  <2>1. SessionTypes'
    BY <1>1, SessionSteps DEF TypeInv
  <2> QED
    BY <1>1, <2>1 DEF Sessions, store, knowledge, thread, history,
                      TypeInv, StoreTypes, TurnTypes, PlaceThread
<1>2. ASSUME NEW t \in Threads, NEW i, NEW turn, NEW c, Post(t, i, turn, c)
      PROVE  TypeInv'
  BY <1>2, PostFacts, PostTypes
<1>3. ASSUME NEW t \in Threads, AddUserMessage(t)
      PROVE  TypeInv'
  BY <1>3, AddUserTypes
<1>4. ASSUME NEW t \in Threads, LoadSession(t) \/ PriorUserUtterances(t) \/ SaveSession(t)
      PROVE  TypeInv'
  BY <1>4, ReadTypes
<1>5. ASSUME NEW t \in Threads, Engine(t)
      PROVE  TypeInv'
  BY <1>5, EngineTypes
<1>6. ASSUME NEW t \in Threads, PersistAssistant(t)
      PROVE  TypeInv'
  BY <1>6, PersistTypes
<1>7. ASSUME NEW t \in Threads, Fail(t)
      PROVE  TypeInv'
  BY <1>7, FailTypes
<1>8. CASE UNCHANGED vars
  BY <1>8 DEF vars, sessionVars, store, knowledge, thread, history,
              TypeInv, SessionTypes, StoreTypes, TurnTypes, PlaceThread
<1> QED
  BY <1>1, <1>2, <1>3, <1>4, <1>5, <1>6, <1>7, <1>8 DEF Next

\* Conversations, messages, the discourse states and last events that are
\* saved or in hands, and what the knowledge holds keep their types, and a
\* turn works in a stored conversation of its user.
THEOREM TypeCorrect == Spec => []TypeInv
<1> QED
  BY TypeInit, TypeStep, PTL DEF Spec

-----------------------------------------------------------------------------
(* Whose a session is.                                                     *)

LEMMA SessionsStep == TypeInv /\ SessionsInv /\ [Next]_vars => SessionsInv'
<1> SUFFICES ASSUME TypeInv, SessionsInv, [Next]_vars PROVE SessionsInv'
  OBVIOUS
<1>1. /\ SessionTypes /\ accounts \in [Names -> Clients \cup {None}] /\ tokens \in Seq(TokenRows)
      /\ registering \in [Clients -> Names \cup {None}]
  BY DEF TypeInv, SessionTypes
<1>2. /\ Len(tokens) \in Nat /\ DOMAIN tokens = 1 .. Len(tokens)
      /\ \A i \in DOMAIN tokens : tokens[i].user \in Names /\ tokens[i].holder \in Clients
  <2>1. \A i \in 1 .. Len(tokens) : tokens[i] \in TokenRows
    BY <1>1, ElementOfSeq
  <2> QED
    BY <1>1, <2>1, LenProperties DEF TokenRows
<1>3. /\ \A i \in ended : i \in DOMAIN tokens /\ tokens[i].revoked
      /\ \A i \in DOMAIN tokens : accounts[tokens[i].user] = tokens[i].holder
  BY DEF SessionsInv
<1>4. CASE UNCHANGED <<tokens, ended, accounts>>
  BY <1>3, <1>4 DEF SessionsInv
<1>5. ASSUME NEW c \in Clients, FinishRegister(c)
      PROVE  SessionsInv'
  <2>1. /\ UNCHANGED <<tokens, ended>>
        /\ accounts' = accounts \/ (/\ accounts[registering[c]] = None
                                    /\ accounts' = [accounts EXCEPT ![registering[c]] = c])
    BY <1>5 DEF FinishRegister, Insertable
  <2>2. \A n \in Names : accounts[n] # None => accounts'[n] = accounts[n]
    BY <2>1, <1>1
  <2>3. \A i \in DOMAIN tokens : accounts[tokens[i].user] # None
    BY <1>2, <1>3, PeopleAssumption
  <2> QED
    BY <2>1, <2>2, <2>3, <1>2, <1>3 DEF SessionsInv
<1>6. ASSUME NEW c \in Clients, NEW n \in Names, Login(c, n)
      PROVE  SessionsInv'
  <2> DEFINE row == [user |-> n, holder |-> c, expires |-> now + Ttl, revoked |-> FALSE]
  <2>1. row \in TokenRows /\ row.user = n /\ row.holder = c
    BY SessionAssumption DEF TypeInv, SessionTypes, TokenRows
  <2>2. tokens' = Append(tokens, row) /\ UNCHANGED <<accounts, ended>> /\ accounts[n] = c
    BY <1>6 DEF Login
  <2> HIDE DEF row
  <2>3. /\ tokens' \in Seq(TokenRows) /\ Len(tokens') = Len(tokens) + 1
        /\ \A i \in 1 .. Len(tokens) : tokens'[i] = tokens[i]
        /\ tokens'[Len(tokens) + 1] = row
    BY <1>1, <2>1, <2>2, AppendProperties
  <2>4. DOMAIN tokens' = 1 .. Len(tokens) + 1
    BY <2>3, LenProperties
  <2>5. ASSUME NEW i \in DOMAIN tokens'
        PROVE  accounts'[tokens'[i].user] = tokens'[i].holder
    <3>1. CASE i = Len(tokens) + 1
      BY <3>1, <2>1, <2>2, <2>3
    <3>2. CASE i # Len(tokens) + 1
      <4>1. i \in DOMAIN tokens
        BY <3>2, <2>4, <1>2
      <4> QED
        BY <4>1, <2>2, <2>3, <1>2, <1>3
    <3> QED
      BY <3>1, <3>2
  <2> QED
    BY <2>2, <2>3, <2>4, <2>5, <1>2, <1>3 DEF SessionsInv
<1>7. ASSUME NEW i, Logout(i) \/ RefuseExpired(i)
      PROVE  SessionsInv'
  <2>1. /\ i \in DOMAIN tokens /\ tokens' = Revoked(i) /\ ended' = ended \cup {i}
        /\ UNCHANGED accounts
    BY <1>7 DEF Logout, RefuseExpired, Expired
  <2>2. /\ DOMAIN Revoked(i) = DOMAIN tokens /\ Revoked(i)[i].revoked
        /\ \A j \in DOMAIN tokens : /\ Revoked(i)[j].user = tokens[j].user
                                    /\ Revoked(i)[j].holder = tokens[j].holder
                                    /\ tokens[j].revoked => Revoked(i)[j].revoked
    BY <1>1, <2>1, RevokedFacts
  <2> QED
    BY <2>1, <2>2, <1>3 DEF SessionsInv
<1>8. CASE Sessions
  <2>1. \/ UNCHANGED <<tokens, ended, accounts>>
        \/ \E c \in Clients, n \in Names : Login(c, n)
        \/ \E c \in Clients : FinishRegister(c)
        \/ \E i : Logout(i) \/ RefuseExpired(i)
    BY <1>8 DEF Sessions, BeginRegister, Tick, SetBack
  <2> QED
    BY <2>1, <1>4, <1>5, <1>6, <1>7
<1>9. CASE ~ Sessions
  <2>1. UNCHANGED <<tokens, ended, accounts>>
    <3>1. ASSUME NEW t \in Threads, Engine(t)
          PROVE  UNCHANGED <<tokens, ended, accounts>>
      BY <3>1, EngineFacts DEF EngineStep
    <3>2. ASSUME NEW t \in Threads, NEW i, NEW turn, NEW c, Post(t, i, turn, c)
          PROVE  UNCHANGED <<tokens, ended, accounts>>
      BY <3>2 DEF Post, sessionVars
    <3>3. ASSUME NEW t \in Threads, AddUserMessage(t) \/ LoadSession(t)
                   \/ PriorUserUtterances(t) \/ SaveSession(t)
          PROVE  UNCHANGED <<tokens, ended, accounts>>
      BY <3>3 DEF AddUserMessage, LoadSession, PriorUserUtterances, SaveSession, sessionVars
    <3>4. ASSUME NEW t \in Threads, PersistAssistant(t) \/ Fail(t)
          PROVE  UNCHANGED <<tokens, ended, accounts>>
      BY <3>4 DEF PersistAssistant, Fail, sessionVars
    <3>5. CASE UNCHANGED vars
      BY <3>5 DEF vars, sessionVars
    <3> QED
      BY <1>9, <3>1, <3>2, <3>3, <3>4, <3>5 DEF Next
  <2> QED
    BY <2>1, <1>4
<1> QED
  BY <1>8, <1>9

\* SessionsAreOwn of Conversations: a bearer session that has ended is never
\* admitted again, and one that is admitted is its account's.
THEOREM OwnSessions == Spec => []SessionsAreOwn
<1>1. Init => SessionsInv
  BY StartsAssumption DEF Init, SessionsInit, SessionsInv
<1>2. TypeInv /\ SessionsInv => SessionsAreOwn
  BY DEF SessionsInv, SessionsAreOwn, Admitted
<1> QED
  BY <1>1, <1>2, SessionsStep, TypeCorrect, PTL DEF Spec

-----------------------------------------------------------------------------
(* What conversations are about is known.                                  *)

\* A step that leaves the knowledge, and all but one thread, alone.
LEMMA FocusStays ==
  ASSUME TypeInv, FocusInv, NEW t, UNCHANGED entities,
         \A s \in Threads \ {t} : sess'[s] = sess[s] /\ req'[s] = req[s]
  PROVE  \A s \in Threads \ {t} : FocusThread(s)'
<1>1. \A u : Home(u)' = Home(u)
  BY DEF Home
<1> QED
  BY <1>1 DEF FocusInv, FocusThread

LEMMA RowsOwned ==
  ASSUME TypeInv, FocusInv, NEW t \in Threads, pc[t] # "idle", UNCHANGED convs,
         NEW role, NEW p, MessageAdded(t, role, p)
  PROVE  \A c \in DOMAIN convs : RowsConv(c)'
<1> DEFINE c == req[t].conv
<1>1. c \in DOMAIN convs /\ convs[c].owner = req[t].user /\ rows[c] \in Messages
  BY TypeFacts DEF TypeInv, PlaceThread
<1>2. \A b \in DOMAIN convs : RowsConv(b)
  BY DEF FocusInv
<1>3. Len(rows[c]) \in Nat /\ DOMAIN rows[c] = 1 .. Len(rows[c])
  <2> DEFINE M == [turn : Nat, user : Names, role : {"user", "assistant"}, at : Nat]
  <2> HIDE DEF M
  <2>1. rows[c] \in Seq(M)
    BY <1>1 DEF Messages, M
  <2> QED
    BY <2>1, LenProperties
<1>4. DOMAIN rows'[c] = 1 .. Len(rows[c]) + 1
  <2> DEFINE M == [turn : Nat, user : Names, role : {"user", "assistant"}, at : Nat]
  <2> HIDE DEF M
  <2>1. rows'[c] \in Seq(M) /\ Len(rows'[c]) = Len(rows[c]) + 1
    BY DEF MessageAdded, Messages, M
  <2> QED
    BY <2>1, LenProperties
<1>5. /\ p \in 0 .. Len(rows[c])
      /\ \A b \in DOMAIN convs : b # c => rows'[b] = rows[b]
      /\ \A i \in 1 .. Len(rows[c]) + 1 :
           rows'[c][i] = IF i <= p THEN rows[c][i]
                         ELSE IF i = p + 1 THEN Message(t, role) ELSE rows[c][i - 1]
  BY DEF MessageAdded
<1>6. Message(t, role).user = req[t].user
  BY DEF Message
<1>7. ASSUME NEW i \in 1 .. Len(rows[c]) + 1
      PROVE  rows'[c][i].user = convs[c].owner
  <2>1. CASE i <= p
    <3>1. i \in DOMAIN rows[c] /\ rows'[c][i] = rows[c][i]
      BY <2>1, <1>3, <1>5
    <3> QED
      BY <3>1, <1>1, <1>2 DEF RowsConv
  <2>2. CASE i = p + 1
    <3>1. rows'[c][i] = Message(t, role)
      BY <2>2, <1>3, <1>5
    <3> QED
      BY <3>1, <1>1, <1>6
  <2>3. CASE ~ (i <= p) /\ i # p + 1
    <3>1. i - 1 \in DOMAIN rows[c] /\ rows'[c][i] = rows[c][i - 1]
      BY <2>3, <1>3, <1>5
    <3> QED
      BY <3>1, <1>1, <1>2 DEF RowsConv
  <2> QED
    BY <2>1, <2>2, <2>3
<1> QED
  BY <1>2, <1>4, <1>5, <1>7 DEF RowsConv

LEMMA FocusStep == TypeInv /\ FocusInv /\ [Next]_vars => FocusInv'
<1> SUFFICES ASSUME TypeInv, FocusInv, [Next]_vars PROVE FocusInv'
  OBVIOUS
<1>1. /\ \A t \in Threads : FocusThread(t)
      /\ \A c \in DOMAIN convs : FocusConv(c) /\ RowsConv(c)
  BY DEF FocusInv
<1>2. /\ \A t \in Threads : PlaceThread(t)
      /\ req \in [Threads -> Requests] /\ sess \in [Threads -> Copies]
  BY DEF TypeInv, TurnTypes
<1>3. ASSUME UNCHANGED <<entities, convs, rows, sess, req>>
      PROVE  FocusInv'
  BY <1>1, <1>3 DEF FocusInv, FocusThread, FocusConv, RowsConv, Home
<1>4. ASSUME UNCHANGED <<entities, convs>>
      PROVE  \A c \in DOMAIN convs : FocusConv(c)'
  BY <1>1, <1>4 DEF FocusConv, Home
<1>5. ASSUME NEW t \in Threads, NEW u, NEW turn, NEW wanted, NEW conv,
             PostResult(t, u, turn, wanted, conv)
      PROVE  FocusInv'
  <2>1. /\ UNCHANGED <<entities, sess>> /\ pc[t] = "idle" /\ u \in Names
        /\ \A s \in Threads \ {t} : req'[s] = req[s]
    BY <1>2, <1>5 DEF PostResult, knowledge
  <2>2. \A s \in Threads \ {t} : FocusThread(s)'
    BY <2>1, FocusStays
  <2>3. FocusThread(t)'
    BY <2>1, <1>2, NewFacts DEF FocusThread, PlaceThread
  <2>4. CASE Enters(t, u, conv)
    <3>1. UNCHANGED <<convs, rows>>
      BY <2>4 DEF Enters, store
    <3>2. \A c \in DOMAIN convs : RowsConv(c)'
      BY <3>1, <1>1 DEF RowsConv
    <3> QED
      BY <2>1, <2>2, <2>3, <3>1, <3>2, <1>4 DEF FocusInv
  <2>5. CASE Opens(t, u, conv)
    <3>1. DOMAIN convs' = DOMAIN convs \cup {conv} /\ rows'[conv] = <<>>
      BY <2>1, <2>5, OpensFacts
    <3>2. convs'[conv] = [owner |-> u, session |-> NewSession]
      BY <2>1, <2>5, OpensFacts
    <3>3. \A c \in DOMAIN convs : convs'[c] = convs[c] /\ rows'[c] = rows[c]
      BY <2>1, <2>5, OpensFacts
    <3>4. \A c \in DOMAIN convs : FocusConv(c)' /\ RowsConv(c)'
      BY <2>1, <3>3, <1>1 DEF FocusConv, RowsConv, Home
    <3>5. FocusConv(conv)' /\ RowsConv(conv)'
      <4>1. convs'[conv].session.discourse = NewState
        BY <3>2, NewFacts
      <4>2. RowsConv(conv)'
        BY <3>1 DEF RowsConv
      <4> QED
        BY <4>1, <4>2, NewFacts DEF FocusConv
    <3> QED
      BY <2>2, <2>3, <3>1, <3>4, <3>5 DEF FocusInv
  <2> QED
    BY <2>4, <2>5, <1>5 DEF PostResult
<1>6. ASSUME NEW t \in Threads, AddUserMessage(t)
      PROVE  FocusInv'
  <2>1. UNCHANGED <<convs, entities, sess, req>> /\ pc[t] = "post"
    BY <1>6 DEF AddUserMessage, knowledge
  <2>2. PICK p : MessageAdded(t, "user", p)
    BY <1>6, AddUserTypes
  <2>3. \A c \in DOMAIN convs : RowsConv(c)'
    BY <2>1, <2>2, RowsOwned
  <2>4. \A s \in Threads : FocusThread(s)'
    BY <2>1, <1>1 DEF FocusThread, Home
  <2> QED
    BY <2>1, <2>3, <2>4, <1>4 DEF FocusInv
<1>7. ASSUME NEW t \in Threads, LoadSession(t)
      PROVE  FocusInv'
  <2>1. /\ pc[t] = "load" /\ sess' = [sess EXCEPT ![t] = convs[req[t].conv].session]
        /\ UNCHANGED <<entities, convs, rows, req>>
    BY <1>7 DEF LoadSession, store, knowledge
  <2>2. req[t].conv \in DOMAIN convs /\ convs[req[t].conv].owner = req[t].user
    BY <2>1, <1>2 DEF PlaceThread
  <2>3. sess'[t] = convs[req[t].conv].session
        /\ \A s \in Threads \ {t} : sess'[s] = sess[s] /\ req'[s] = req[s]
    BY <2>1, <1>2
  <2>4. FocusThread(t)'
    BY <2>1, <2>2, <2>3, <1>1 DEF FocusThread, FocusConv, Home
  <2>5. \A s \in Threads \ {t} : FocusThread(s)'
    BY <2>1, <2>3, FocusStays
  <2>6. \A c \in DOMAIN convs : RowsConv(c)'
    BY <2>1, <1>1 DEF RowsConv
  <2> QED
    BY <2>1, <2>4, <2>5, <2>6, <1>4 DEF FocusInv
<1>8. ASSUME NEW t \in Threads, Engine(t)
      PROVE  FocusInv'
  <2>1. PICK s, a, dirty : EngineResult(t, s, a, dirty)
    BY <1>8, EngineFacts
  <2>2. UNCHANGED <<convs, rows>>
    BY <1>8, EngineFacts DEF EngineStep, store
  <2>3. \A u : Home(u) \subseteq Home(u)'
    BY <2>1 DEF EngineResult, Home
  <2>4. /\ sess'[t] = s /\ req'[t].user = req[t].user
        /\ \A q \in Threads \ {t} : sess'[q] = sess[q] /\ req'[q] = req[q]
    <3>1. sess' = [sess EXCEPT ![t] = s] /\ req' = [req EXCEPT ![t].dirty = dirty]
      BY <2>1 DEF EngineResult
    <3> QED
      BY <3>1, <1>2 DEF Requests
  <2>5. Allowed(s.discourse) \subseteq Allowed(sess[t].discourse) \cup Home(req[t].user)'
    <3>1. Allowed(s.discourse) \subseteq Allowed(sess[t].discourse)
                                   \cup {e \in DOMAIN entities' : entities'[e] = req[t].user}
      BY <2>1 DEF EngineResult
    <3> QED
      BY <3>1, <2>4 DEF Home
  <2>6. FocusThread(t)'
    BY <2>3, <2>4, <2>5, <1>1 DEF FocusThread
  <2>7. \A q \in Threads \ {t} : FocusThread(q)'
    BY <2>3, <2>4, <1>1 DEF FocusThread
  <2>8. \A c \in DOMAIN convs : FocusConv(c)' /\ RowsConv(c)'
    BY <2>2, <2>3, <1>1 DEF FocusConv, RowsConv
  <2> QED
    BY <2>2, <2>6, <2>7, <2>8 DEF FocusInv
<1>9. ASSUME NEW t \in Threads, SaveSession(t)
      PROVE  FocusInv'
  <2> DEFINE c == req[t].conv
  <2>1. pc[t] = "save" /\ convs' = Saved(t) /\ UNCHANGED <<rows, entities, req, sess>>
    BY <1>9 DEF SaveSession, knowledge
  <2>2. c \in DOMAIN convs /\ convs[c].owner = req[t].user
        /\ convs[c] \in [owner : Names, session : Copies]
    BY <2>1, <1>2, TypeFacts DEF PlaceThread
  <2>3. DOMAIN convs' = DOMAIN convs /\ convs'[c].session = sess[t]
        /\ convs'[c].owner = convs[c].owner
        /\ \A b \in DOMAIN convs : b # c => convs'[b] = convs[b]
    BY <2>1, <2>2 DEF Saved
  <2>4. FocusConv(c)'
    BY <2>1, <2>2, <2>3, <1>1 DEF FocusThread, FocusConv, Home
  <2>5. \A b \in DOMAIN convs : b # c => FocusConv(b)'
    BY <2>1, <2>3, <1>1 DEF FocusConv, Home
  <2>6. \A b \in DOMAIN convs : RowsConv(b)'
    BY <2>1, <2>3, <1>1 DEF RowsConv
  <2>7. \A s \in Threads : FocusThread(s)'
    BY <2>1, <1>1 DEF FocusThread, Home
  <2>8. \A b \in DOMAIN convs : FocusConv(b)'
    BY <2>1, <2>4, <2>5 DEF FocusConv
  <2>9. DOMAIN convs' = DOMAIN convs
    BY <2>3
  <2> QED
    BY <2>6, <2>7, <2>8, <2>9 DEF FocusInv
<1>10. ASSUME NEW t \in Threads, PersistAssistant(t) \/ Fail(t)
       PROVE  FocusInv'
  <2>1. Return(t) /\ UNCHANGED <<convs, entities>> /\ pc[t] # "idle"
    BY <1>10 DEF PersistAssistant, Fail, store, knowledge
  <2>2. \A s \in Threads \ {t} : FocusThread(s)'
    BY <2>1, ReturnFacts, FocusStays
  <2>3. FocusThread(t)'
    BY <2>1, ReturnFacts, NewFacts DEF FocusThread
  <2>4. \A c \in DOMAIN convs : RowsConv(c)'
    <3>1. CASE Fail(t)
      BY <3>1, <1>1 DEF Fail, store, RowsConv
    <3>2. CASE PersistAssistant(t)
      <4>1. PICK p : MessageAdded(t, "assistant", p)
        BY <3>2, <2>1, AddRowFacts DEF PersistAssistant
      <4> QED
        BY <4>1, <2>1, RowsOwned
    <3> QED
      BY <3>1, <3>2, <1>10
  <2> QED
    BY <2>1, <2>2, <2>3, <2>4, <1>4 DEF FocusInv
<1>11. CASE Sessions \/ UNCHANGED vars \/ \E t \in Threads : PriorUserUtterances(t)
  <2>1. UNCHANGED <<entities, convs, rows, sess, req>>
    BY <1>11 DEF Sessions, PriorUserUtterances, vars, thread, store, knowledge
  <2> QED
    BY <2>1, <1>3
<1>12. ASSUME NEW t \in Threads, NEW i, NEW turn, NEW c, Post(t, i, turn, c)
       PROVE  FocusInv'
  BY <1>5, <1>12, PostFacts
<1> QED
  BY <1>6, <1>7, <1>8, <1>9, <1>10, <1>11, <1>12 DEF Next

\* FocusIsKnown of Conversations: all that a conversation holds was written by
\* its owner, and all that it is about or may ask about is the owner's.
THEOREM KnownFocus == Spec => []FocusIsKnown
<1>1. Init => FocusInv
  BY NewFacts DEF Init, FocusInv, FocusThread
<1>2. FocusInv => FocusIsKnown
  BY DEF FocusInv, FocusConv, RowsConv, FocusIsKnown
<1> QED
  BY <1>1, <1>2, FocusStep, TypeCorrect, PTL DEF Spec

-----------------------------------------------------------------------------
(* Queries that wait.                                                      *)

\* A step of thread t that takes queries from its hands, from its session
\* and from new, and leaves them in its hands, its session and completed.
Handed(t, new) ==
  /\ \A s \in Threads \ {t} : /\ pc'[s] = pc[s] /\ req'[s] = req[s]
                              /\ sess'[s] = sess[s] /\ asked'[s] = asked[s]
  /\ req'[t].conv \in {req[t].conv, NoConv} /\ DOMAIN convs' = DOMAIN convs
  /\ turns' = turns /\ mixed' = mixed
  /\ \A c \in DOMAIN convs :
       \/ PendingOf(convs'[c].session) = PendingOf(convs[c].session)
       \/ c = req[t].conv /\ PendingOf(convs'[c].session) \in {0} \cup InHands(t)
  /\ InHands(t)' \subseteq InHands(t) \cup {PendingOf(convs[req[t].conv].session)} \cup new
  /\ completed' \subseteq completed \cup InHands(t)

LEMMA HandsOther ==
  ASSUME NEW t, NEW new, NEW s \in Threads \ {t}, Handed(t, new)
  PROVE  InHands(s)' = InHands(s)
BY DEF Handed, InHands, PendingOf

LEMMA UnsavedStays ==
  ASSUME TypeInv, NEW t \in Threads, req[t].conv \in DOMAIN convs, NEW new, Handed(t, new),
         NEW n \in Nat \ {0}, n \notin new, NEW own, t \notin own, Unsaved(n, own)
  PROVE  Unsaved(n, own)'
<1>1. /\ n \notin completed /\ n \notin InHands(t)
      /\ \A c \in DOMAIN convs : PendingOf(convs[c].session) # n
      /\ \A s \in Threads \ own : n \notin InHands(s)
  BY DEF Unsaved
<1>2. n \notin completed'
  BY <1>1 DEF Handed
<1>3. \A c \in DOMAIN convs' : PendingOf(convs'[c].session) # n
  BY <1>1 DEF Handed
<1>4. n \notin InHands(t)'
  BY <1>1 DEF Handed
<1>5. ASSUME NEW s \in Threads \ own PROVE n \notin InHands(s)'
  <2>1. CASE s = t
    BY <2>1, <1>4
  <2>2. CASE s # t
    <3>1. InHands(s)' = InHands(s)
      BY <2>2, HandsOther
    <3> QED
      BY <3>1, <1>1, <1>5
  <2> QED
    BY <2>1, <2>2
<1>6. \A c \in DOMAIN convs' : PendingOf(convs[c].session)' # n
  BY <1>3 DEF PendingOf
<1> QED
  BY <1>2, <1>5, <1>6 DEF Unsaved

LEMMA WaitingFacts ==
  /\ \A c, n : n \in Waiting(c) <=> \/ n = PendingOf(convs[c].session) /\ n # 0
                                    \/ \E t \in Threads : req[t].conv = c /\ n \in InHands(t)
  /\ \A t, n : n \in InHands(t) <=> n # 0 /\ n \in {PendingOf(sess[t]), asked[t].completes}
BY DEF Waiting, InHands

LEMMA HandedFacts ==
  ASSUME TypeInv, QueryInv, NEW t \in Threads, pc[t] # "idle",
         NEW new \in SUBSET {req[t].turn}, new # {} => pc[t] \in Working, Handed(t, new),
         pc'[t] # "idle" => req'[t].turn = req[t].turn,
         \A r \in failed' : r \in failed \/ r.turn = req[t].turn
  PROVE  /\ \A s \in Threads \ {t} : TurnThread(s)'
         /\ ComingInv' /\ WaitingInv' /\ Alone'
<1> DEFINE c == req[t].conv
           n == req[t].turn
<1>1. /\ c \in DOMAIN convs /\ DOMAIN convs = 1 .. Len(convs) /\ Len(convs) \in Nat
      /\ n \in 1 .. turns /\ turns \in Nat
  BY TypeFacts DEF TypeInv, PlaceThread, TurnTypes
<1>2. ASSUME NEW s \in Threads \ {t}
      PROVE  TurnThread(s)'
  <2>1. /\ pc'[s] = pc[s] /\ req'[s] = req[s] /\ sess'[s] = sess[s] /\ asked'[s] = asked[s]
    BY DEF Handed
  <2>2. TurnThread(s) /\ TurnThread(t) /\ PlaceThread(s)
    BY DEF QueryInv, TypeInv
  <2>3. pc[s] # "idle" => req[s].turn # n /\ req[s].turn \in Nat \ {0}
    BY <2>2, <1>1 DEF TurnThread, PlaceThread
  <2>4. pc[s] \in Working => Unsaved(req[s].turn, {s})'
    <3>1. ASSUME pc[s] \in Working PROVE Unsaved(req[s].turn, {s})'
      <4>1. PICK m : m = req[s].turn
        OBVIOUS
      <4>2. Unsaved(m, {s}) /\ m \in Nat \ {0} /\ m \notin new /\ t \notin {s}
        BY <2>2, <2>3, <3>1, <4>1 DEF TurnThread, Working
      <4>3. Unsaved(m, {s})'
        BY <4>2, <1>1, UnsavedStays
      <4> QED
        BY <4>1, <4>3, <2>1 DEF Unsaved
    <3> QED
      BY <3>1
  <2>5. InHands(s)' = InHands(s) /\ PendingOf(sess[s])' = PendingOf(sess[s])
    BY <2>1, HandsOther DEF PendingOf
  <2>6. \A q \in Threads : q # s /\ pc'[s] # "idle" /\ pc'[q] # "idle"
                             => req'[q].turn # req'[s].turn
    BY <2>1, <2>2, <2>3 DEF TurnThread, Handed
  <2>7. \A r \in failed' : pc'[s] # "idle" => r.turn # req'[s].turn
    BY <2>1, <2>2, <2>3 DEF TurnThread
  <2> QED
    BY <2>1, <2>2, <2>4, <2>5, <2>6, <2>7 DEF TurnThread
<1>3. \A b \in DOMAIN convs : Waiting(b)' \subseteq Waiting(b) \cup (IF b = c THEN new ELSE {})
  <2> TAKE b \in DOMAIN convs
  <2> SUFFICES ASSUME NEW m \in Waiting(b)'
               PROVE  m \in Waiting(b) \/ (b = c /\ m \in new)
    OBVIOUS
  <2>1. /\ m \in Waiting(b)' => \/ m = PendingOf(convs'[b].session) /\ m # 0
                                \/ \E s \in Threads : req'[s].conv = b /\ m \in InHands(s)'
    BY DEF Waiting, PendingOf
  <2>2. CASE m = PendingOf(convs'[b].session) /\ m # 0
    BY <2>2, WaitingFacts DEF Handed
  <2>3. ASSUME NEW s \in Threads, req'[s].conv = b, m \in InHands(s)'
        PROVE  m \in Waiting(b) \/ (b = c /\ m \in new)
    <3>1. CASE s = t
      <4>1. b = c
        BY <2>3, <3>1, <1>1 DEF Handed, NoConv
      <4>2. m \in InHands(t) \cup {PendingOf(convs[c].session)} \cup new /\ m # 0
        BY <2>3, <3>1 DEF Handed, InHands
      <4> QED
        BY <4>1, <4>2, WaitingFacts
    <3>2. CASE s # t
      <4>0. InHands(s)' = InHands(s)
        BY <3>2, HandsOther
      <4>1. req[s].conv = b /\ m \in InHands(s)
        BY <2>3, <3>2, <4>0 DEF Handed
      <4> QED
        BY <4>1, WaitingFacts
    <3> QED
      BY <3>1, <3>2
  <2> QED
    BY <2>1, <2>2, <2>3
<1>4. \A b \in DOMAIN convs : b # c => Waiting(b) \cap new = {}
  <2>1. ASSUME NEW b \in DOMAIN convs, b # c, n \in Waiting(b), pc[t] \in Working
        PROVE  FALSE
    <3>1. Unsaved(n, {t})
      BY <2>1 DEF QueryInv, TurnThread
    <3> QED
      BY <2>1, <3>1, WaitingFacts DEF Unsaved
  <2> QED
    BY <2>1
<1>5. InHands(t) \subseteq Waiting(c)
  BY WaitingFacts
<1>6. ComingInv'
  <2>1. \A m \in completed' : m <= turns
    BY <1>1, <1>5 DEF QueryInv, ComingInv, Handed
  <2>2. \A b \in DOMAIN convs : \A m \in Waiting(b)' : m <= turns
    BY <1>1, <1>3 DEF QueryInv, ComingInv
  <2>3. turns' = turns /\ DOMAIN convs' = DOMAIN convs
    BY DEF Handed
  <2> QED
    BY <2>1, <2>2, <2>3 DEF ComingInv
<1>7. WaitingInv'
  <2>1. DOMAIN convs' = DOMAIN convs
    BY DEF Handed
  <2>2. \A a, b \in DOMAIN convs : a # b => Waiting(a) \cap Waiting(b) = {}
    BY DEF QueryInv, WaitingInv
  <2>3. \A a, b \in DOMAIN convs : a # b => Waiting(a)' \cap Waiting(b)' = {}
    BY <2>2, <1>3, <1>4
  <2> QED
    BY <2>1, <2>3 DEF WaitingInv
<1>8. Alone'
  BY <1>1 DEF QueryInv, Alone, Handed, NoConv
<1> QED
  BY <1>2, <1>6, <1>7, <1>8

\* What is left to show of the completed queries: those of the turn itself.
LEMMA CompletedStays ==
  ASSUME TypeInv, QueryInv, NEW t \in Threads, pc[t] # "idle", NEW new, Handed(t, new),
         req[t].conv \notin mixed =>
           /\ PendingOf(convs'[req[t].conv].session) \notin completed'
           /\ req'[t].conv = req[t].conv /\ pc'[t] \in Working
                => PendingOf(sess'[t]) \notin completed'
  PROVE  CompletedInv'
<1> DEFINE c == req[t].conv
<1>1. c \in DOMAIN convs /\ DOMAIN convs = 1 .. Len(convs) /\ Len(convs) \in Nat
  BY TypeFacts DEF TypeInv, PlaceThread
<1>2. DOMAIN convs' = DOMAIN convs /\ mixed' = mixed
  BY DEF Handed
<1>3. InHands(t) \subseteq Waiting(c)
  BY WaitingFacts
<1>4. 0 \notin completed' /\ 0 \notin InHands(t)
  BY DEF Handed, InHands, TypeInv, TurnTypes
<1>5. ASSUME NEW b \in DOMAIN convs, b \notin mixed, b # c
      PROVE  /\ PendingOf(convs'[b].session) \notin completed'
             /\ \A s \in Threads : req'[s].conv = b /\ pc'[s] \in Working
                                     => PendingOf(sess'[s]) \notin completed'
  <2>1. \A n \in Waiting(b) : n \notin InHands(t)
    BY <1>1, <1>3, <1>5 DEF QueryInv, WaitingInv
  <2>2. /\ PendingOf(convs[b].session) \notin completed
        /\ \A s \in Threads : req[s].conv = b /\ pc[s] \in Working
                                => PendingOf(sess[s]) \notin completed
    BY <1>5 DEF QueryInv, CompletedInv
  <2>3. PendingOf(convs'[b].session) \notin completed'
    <3>1. PendingOf(convs'[b].session) = PendingOf(convs[b].session)
      BY <1>5 DEF Handed
    <3>2. PendingOf(convs[b].session) \notin InHands(t)
      BY <2>1, <1>4, WaitingFacts
    <3> QED
      BY <3>1, <3>2, <2>2 DEF Handed
  <2>4. ASSUME NEW s \in Threads, req'[s].conv = b, pc'[s] \in Working
        PROVE  PendingOf(sess'[s]) \notin completed'
    <3>1. s # t
      BY <2>4, <1>1, <1>5 DEF Handed, NoConv
    <3>2. req[s].conv = b /\ pc[s] \in Working /\ sess'[s] = sess[s]
      BY <2>4, <3>1 DEF Handed
    <3>3. PendingOf(sess[s]) \notin InHands(t)
      BY <3>2, <2>1, <1>4, WaitingFacts
    <3> QED
      BY <3>2, <3>3, <2>2 DEF Handed
  <2> QED
    BY <2>3, <2>4
<1>6. ASSUME c \notin mixed
      PROVE  /\ PendingOf(convs'[c].session) \notin completed'
             /\ \A s \in Threads : req'[s].conv = c /\ pc'[s] \in Working
                                     => PendingOf(sess'[s]) \notin completed'
  <2>1. ASSUME NEW s \in Threads, req'[s].conv = c, s # t
        PROVE  FALSE
    <3>1. req[s].conv = c
      BY <2>1 DEF Handed
    <3> QED
      BY <3>1, <2>1, <1>1, <1>6 DEF QueryInv, Alone, NoConv
  <2> QED
    BY <2>1, <1>6
<1>7. \A b \in DOMAIN convs' \ mixed' :
        /\ PendingOf(convs'[b].session) \notin completed'
        /\ \A s \in Threads : req'[s].conv = b /\ pc'[s] \in Working
                                => PendingOf(sess'[s]) \notin completed'
  BY <1>2, <1>5, <1>6
<1> QED
  BY <1>7 DEF CompletedInv, PendingOf

LEMMA FailedStays ==
  ASSUME TypeInv, QueryInv, NEW t \in Threads, pc[t] # "idle",
         NEW new \in SUBSET {req[t].turn}, Handed(t, new)
  PROVE  \A r \in failed : Unsaved(r.turn, {})'
<1> TAKE r \in failed
<1>1. TurnThread(t) /\ Unsaved(r.turn, {})
  BY DEF QueryInv, FailedInv
<1>2. r.turn \in Nat \ {0}
  BY TypeFacts DEF TypeInv, TurnTypes
<1>3. r.turn # req[t].turn
  BY <1>1 DEF TurnThread
<1>4. req[t].conv \in DOMAIN convs
  BY DEF TypeInv, PlaceThread
<1>5. PICK n : n = r.turn
  OBVIOUS
<1>6. n \in Nat \ {0} /\ n \notin new /\ Unsaved(n, {}) /\ t \notin {}
  BY <1>1, <1>2, <1>3, <1>5
<1>7. Unsaved(n, {})'
  BY <1>4, <1>6, UnsavedStays
<1> QED
  BY <1>5, <1>7

\* A step of a turn keeps QueryInv if it keeps it for the turn.
LEMMA QueryHanded ==
  ASSUME TypeInv, QueryInv, NEW t \in Threads, pc[t] # "idle",
         NEW new \in SUBSET {req[t].turn}, new # {} => pc[t] \in Working, Handed(t, new),
         pc'[t] # "idle" => req'[t].turn = req[t].turn, failed' = failed,
         TurnThread(t)',
         req[t].conv \notin mixed =>
           /\ PendingOf(convs'[req[t].conv].session) \notin completed'
           /\ req'[t].conv = req[t].conv /\ pc'[t] \in Working
                => PendingOf(sess'[t]) \notin completed'
  PROVE  QueryInv'
<1>1. /\ \A s \in Threads \ {t} : TurnThread(s)'
      /\ ComingInv' /\ WaitingInv' /\ Alone'
  BY HandedFacts
<1>2. CompletedInv'
  BY CompletedStays
<1>3. FailedInv'
  <2>1. \A r \in failed : Unsaved(r.turn, {})'
    BY FailedStays
  <2>2. \A r, q \in failed : q.turn = r.turn => q = r
    BY DEF QueryInv, FailedInv
  <2> QED
    BY <2>1, <2>2 DEF FailedInv
<1>4. \A s \in Threads : TurnThread(s)'
  BY <1>1
<1> QED
  BY <1>1, <1>2, <1>3, <1>4 DEF QueryInv

\* The step of a working turn that goes on to the next step of its work.
LEMMA TurnGoesOn ==
  ASSUME TypeInv, QueryInv, NEW t \in Threads, pc[t] \in Working \ {"save"}, NEW new, Handed(t, new),
         pc'[t] \in Working, req'[t].turn = req[t].turn, failed' = failed,
         asked'[t].completes # req[t].turn,
         asked'[t].completes # 0 => PendingOf(sess'[t]) = 0,
         pc'[t] # "save" => PendingOf(sess'[t]) # req[t].turn /\ asked'[t].completes = 0,
         pc'[t] \in {"load", "post"} => sess'[t] = NewSession
  PROVE  TurnThread(t)'
<1> DEFINE n == req[t].turn
<1>1. TurnThread(t) /\ PlaceThread(t) /\ pc[t] # "idle" /\ turns \in Nat
  BY DEF QueryInv, TypeInv, TurnTypes, Working
<1>2. n \in Nat \ {0} /\ req[t].conv \in DOMAIN convs
  BY <1>1 DEF PlaceThread
<1>3. Unsaved(n, {t})
  BY <1>1 DEF TurnThread
<1>4. /\ n \notin completed /\ n \notin InHands(t)
      /\ \A c \in DOMAIN convs : PendingOf(convs[c].session) # n
      /\ \A s \in Threads \ {t} : n \notin InHands(s)
  BY <1>1, <1>3 DEF TurnThread, Unsaved
<1>5. n \notin completed' /\ \A c \in DOMAIN convs' : PendingOf(convs'[c].session) # n
  BY <1>2, <1>4 DEF Handed
<1>6. ASSUME NEW s \in Threads \ {t} PROVE n \notin InHands(s)'
  <2>1. InHands(s)' = InHands(s)
    BY HandsOther
  <2> QED
    BY <2>1, <1>4
<1>7. Unsaved(req[t].turn, {t})'
  BY <1>5, <1>6 DEF Unsaved, PendingOf
<1>8. pc'[t] # "save" => n \notin InHands(t)'
  BY <1>2 DEF InHands, PendingOf
<1>9. \A s \in Threads : s # t /\ pc'[s] # "idle" => req'[s].turn # n
  BY <1>1 DEF TurnThread, Handed
<1>10. \A r \in failed : r.turn # n
  BY <1>1 DEF TurnThread
<1> QED
  BY <1>7, <1>8, <1>9, <1>10 DEF TurnThread, PendingOf

LEMMA QueryReads ==
  ASSUME TypeInv, QueryInv, NEW t \in Threads,
         AddUserMessage(t) \/ LoadSession(t) \/ PriorUserUtterances(t)
  PROVE  QueryInv'
<1> DEFINE c == req[t].conv
           n == req[t].turn
<1>1. /\ \/ pc[t] = "post" /\ pc' = [pc EXCEPT ![t] = "load"] /\ sess' = sess
         \/ /\ pc[t] = "load" /\ pc' = [pc EXCEPT ![t] = "utterances"]
            /\ sess' = [sess EXCEPT ![t] = convs[c].session]
         \/ pc[t] = "utterances" /\ pc' = [pc EXCEPT ![t] = "engine"] /\ sess' = sess
      /\ UNCHANGED <<convs, turns, failed, req, asked, mixed, completed>>
  BY PriorFacts DEF AddUserMessage, LoadSession, Goto, store, history
<1>2. /\ TurnThread(t) /\ PlaceThread(t) /\ pc \in [Threads -> Steps]
      /\ sess \in [Threads -> Copies] /\ pc[t] # "idle"
  BY <1>1 DEF QueryInv, TypeInv, TurnTypes
<1>3. c \in DOMAIN convs /\ n # 0
  BY <1>2 DEF PlaceThread, TypeInv, TurnTypes
<1>4. /\ pc'[t] \in Working \ {"save", "post"} /\ pc[t] \in Working \ {"save"}
      /\ pc'[t] = "load" => sess'[t] = sess[t] /\ pc[t] = "post"
      /\ sess'[t] = sess[t] \/ sess'[t] = convs[c].session
      /\ \A s \in Threads \ {t} : pc'[s] = pc[s] /\ sess'[s] = sess[s]
  BY <1>1, <1>2 DEF Working
<1>5. Unsaved(n, {t}) /\ n \notin InHands(t) /\ asked[t].completes = 0
  BY <1>2, <1>4 DEF TurnThread
<1>6. PendingOf(sess[t]) # n /\ PendingOf(convs[c].session) # n
  BY <1>3, <1>5 DEF Unsaved, InHands
<1>7. Handed(t, {})
  <2>1. InHands(t)' \subseteq InHands(t) \cup {PendingOf(convs[c].session)}
    BY <1>1, <1>4 DEF InHands, PendingOf
  <2> QED
    BY <1>1, <1>4, <2>1 DEF Handed
<1>8. TurnThread(t)'
  <2>1. pc'[t] \in {"load", "post"} => sess'[t] = NewSession
    BY <1>2, <1>4 DEF TurnThread
  <2>2. PendingOf(sess'[t]) # n /\ asked'[t].completes = 0 /\ req'[t].turn = n
    BY <1>1, <1>4, <1>5, <1>6
  <2>3. pc'[t] \in Working /\ failed' = failed /\ n # 0
    BY <1>1, <1>3, <1>4
  <2> QED
    BY <2>1, <2>2, <2>3, <1>4, <1>7, TurnGoesOn
<1>9. c \notin mixed => /\ PendingOf(convs[c].session) \notin completed
                        /\ PendingOf(sess[t]) \notin completed
  BY <1>3, <1>4 DEF QueryInv, CompletedInv
<1>10. c \notin mixed => /\ PendingOf(convs'[c].session) \notin completed'
                         /\ PendingOf(sess'[t]) \notin completed'
  BY <1>1, <1>4, <1>9
<1>11. failed' = failed /\ req'[t].turn = req[t].turn
  BY <1>1
<1> QED
  BY <1>2, <1>7, <1>8, <1>10, <1>11, QueryHanded

LEMMA QueryEngine ==
  ASSUME TypeInv, QueryInv, NEW t \in Threads, Engine(t)
  PROVE  QueryInv'
<1> DEFINE c == req[t].conv
           n == req[t].turn
<1>1. PICK s, a, dirty : EngineResult(t, s, a, dirty)
  BY EngineFacts
<1>2. /\ pc[t] = "engine" /\ pc' = [pc EXCEPT ![t] = "save"]
      /\ UNCHANGED <<convs, turns, failed, mixed, completed>>
  BY EngineFacts DEF EngineStep, store
<1>3. /\ TurnThread(t) /\ PlaceThread(t) /\ pc \in [Threads -> Steps]
      /\ sess \in [Threads -> Copies] /\ asked \in [Threads -> Askings]
      /\ req \in [Threads -> Requests] /\ pc[t] # "idle" /\ pc[t] \in Working
  BY <1>2 DEF QueryInv, TypeInv, TurnTypes, Working
<1>4. c \in DOMAIN convs /\ n # 0
  BY <1>3 DEF PlaceThread, TypeInv, TurnTypes
<1>5. /\ sess' = [sess EXCEPT ![t] = s] /\ asked' = [asked EXCEPT ![t] = a]
      /\ req' = [req EXCEPT ![t].dirty = dirty]
      /\ PendingOf(s) \in {0, PendingOf(sess[t]), n}
      /\ a.completes \in {0, asked[t].completes, PendingOf(sess[t])}
      /\ a.completes \notin {0, asked[t].completes} /\ PendingOf(sess[t]) # n
           => PendingOf(s) = 0
  BY <1>1 DEF EngineResult
<1>6. /\ pc'[t] = "save" /\ sess'[t] = s /\ asked'[t] = a
      /\ req'[t].conv = c /\ req'[t].turn = n
      /\ \A q \in Threads \ {t} : /\ pc'[q] = pc[q] /\ req'[q] = req[q]
                                  /\ sess'[q] = sess[q] /\ asked'[q] = asked[q]
  BY <1>2, <1>3, <1>5 DEF Requests
<1>7. Unsaved(n, {t}) /\ n \notin InHands(t) /\ asked[t].completes = 0
  BY <1>2, <1>3 DEF TurnThread, Working
<1>8. PendingOf(sess[t]) # n
  BY <1>4, <1>7 DEF InHands
<1>9. Handed(t, {n})
  <2>1. InHands(t)' = {PendingOf(s), a.completes} \ {0}
    BY <1>6 DEF InHands, PendingOf
  <2>2. InHands(t)' \subseteq InHands(t) \cup {PendingOf(convs[c].session)} \cup {n}
    BY <2>1, <1>5, <1>7 DEF InHands
  <2> QED
    BY <1>2, <1>6, <2>2 DEF Handed
<1>10. TurnThread(t)'
  <2>1. a.completes # n /\ (a.completes # 0 => PendingOf(s) = 0)
    BY <1>4, <1>5, <1>7, <1>8
  <2>2. /\ asked'[t].completes # n
        /\ asked'[t].completes # 0 => PendingOf(sess'[t]) = 0
    BY <2>1, <1>6
  <2>3. pc'[t] \in Working /\ failed' = failed /\ pc[t] \in Working \ {"save"}
    BY <1>2, <1>6 DEF Working
  <2> QED
    BY <2>2, <2>3, <1>6, <1>9, TurnGoesOn
<1>11. c \notin mixed => /\ PendingOf(convs[c].session) \notin completed
                         /\ PendingOf(s) \notin completed
  <2>1. n \notin completed /\ 0 \notin completed
    BY <1>7 DEF Unsaved, TypeInv, TurnTypes
  <2>2. c \notin mixed => /\ PendingOf(convs[c].session) \notin completed
                          /\ PendingOf(sess[t]) \notin completed
    BY <1>3, <1>4 DEF QueryInv, CompletedInv
  <2> QED
    BY <2>1, <2>2, <1>5
<1>12. c \notin mixed => /\ PendingOf(convs'[c].session) \notin completed'
                         /\ PendingOf(sess'[t]) \notin completed'
  BY <1>2, <1>6, <1>11
<1>13. failed' = failed /\ req'[t].turn = req[t].turn /\ {n} \in SUBSET {req[t].turn}
  BY <1>2, <1>6
<1> QED
  BY <1>3, <1>9, <1>10, <1>12, <1>13, QueryHanded

LEMMA QuerySave ==
  ASSUME TypeInv, QueryInv, NEW t \in Threads, SaveSession(t)
  PROVE  QueryInv'
<1> DEFINE c == req[t].conv
           n == req[t].turn
<1>1. /\ pc[t] = "save" /\ pc' = [pc EXCEPT ![t] = "reply"] /\ convs' = Saved(t)
      /\ completed' = completed \cup ({asked[t].completes} \ {0})
      /\ UNCHANGED <<turns, failed, req, sess, asked, mixed>>
  BY DEF SaveSession, Goto
<1>2. /\ TurnThread(t) /\ PlaceThread(t) /\ pc \in [Threads -> Steps]
      /\ sess \in [Threads -> Copies] /\ pc[t] # "idle" /\ pc[t] \in Working
  BY <1>1 DEF QueryInv, TypeInv, TurnTypes, Working
<1>3. c \in DOMAIN convs /\ convs[c] \in [owner : Names, session : Copies]
  BY <1>2, TypeFacts DEF PlaceThread
<1>4. /\ DOMAIN convs' = DOMAIN convs /\ convs'[c].session = sess[t]
      /\ \A b \in DOMAIN convs : b # c => convs'[b] = convs[b]
  BY <1>1, <1>3 DEF Saved
<1>5. pc'[t] = "reply" /\ \A s \in Threads \ {t} : pc'[s] = pc[s]
  BY <1>1, <1>2
<1>6. Handed(t, {})
  <2>1. PendingOf(sess[t]) \in {0} \cup InHands(t)
    BY DEF InHands
  <2>2. InHands(t)' = InHands(t) /\ completed' \subseteq completed \cup InHands(t)
    BY <1>1 DEF InHands, PendingOf
  <2>3. \A b \in DOMAIN convs :
          \/ PendingOf(convs'[b].session) = PendingOf(convs[b].session)
          \/ b = c /\ PendingOf(convs'[b].session) \in {0} \cup InHands(t)
    BY <2>1, <1>4
  <2> QED
    BY <1>1, <1>4, <1>5, <2>2, <2>3 DEF Handed
<1>7. TurnThread(t)'
  <2>1. \A s \in Threads : s # t /\ pc'[s] # "idle" => req'[s].turn # req'[t].turn
    BY <1>1, <1>2, <1>5 DEF TurnThread
  <2> QED
    BY <1>1, <1>2, <1>5, <2>1 DEF TurnThread, Working, PendingOf
<1>8. c \notin mixed => PendingOf(convs'[c].session) \notin completed'
  <2>1. c \notin mixed => PendingOf(sess[t]) \notin completed
    BY <1>2, <1>3 DEF QueryInv, CompletedInv
  <2>2. asked[t].completes # 0 => PendingOf(sess[t]) = 0
    BY <1>2 DEF TurnThread
  <2>3. 0 \notin completed
    BY DEF TypeInv, TurnTypes
  <2> QED
    BY <1>1, <1>4, <2>1, <2>2, <2>3
<1>9. failed' = failed /\ req'[t].turn = req[t].turn /\ pc'[t] \notin Working
  BY <1>1, <1>5 DEF Working
<1> QED
  BY <1>2, <1>6, <1>7, <1>8, <1>9, QueryHanded

LEMMA HandedBack ==
  ASSUME TypeInv, NEW t \in Threads, Return(t),
         UNCHANGED <<convs, turns, mixed, completed>>
  PROVE  Handed(t, {}) /\ InHands(t)' = {}
<1>1. InHands(t)' = {}
  BY ReturnFacts, NewFacts DEF InHands, PendingOf
<1> QED
  BY <1>1, ReturnFacts DEF Handed, NoRequest, Request

LEMMA QueryReturn ==
  ASSUME TypeInv, QueryInv, NEW t \in Threads, PersistAssistant(t) \/ Fail(t)
  PROVE  QueryInv'
<1> DEFINE c == req[t].conv
           r == [turn |-> req[t].turn, user |-> req[t].user, wanted |-> req[t].wanted]
<1>1. /\ Return(t) /\ pc[t] # "idle" /\ UNCHANGED <<convs, turns, mixed, completed>>
      /\ failed' = failed \/ (pc[t] \in Working /\ failed' = failed \cup {r})
  BY DEF PersistAssistant, Fail, store, history, Working
<1>2. Handed(t, {}) /\ InHands(t)' = {}
  BY <1>1, HandedBack
<1>3. TurnThread(t) /\ PlaceThread(t)
  BY DEF QueryInv, TypeInv
<1>4. c \in DOMAIN convs
  BY <1>1, <1>3 DEF PlaceThread
<1>5. TurnThread(t)'
  BY <1>1, ReturnFacts, NewFacts DEF TurnThread, Working
<1>6. /\ \A s \in Threads \ {t} : TurnThread(s)'
      /\ ComingInv' /\ WaitingInv' /\ Alone'
  <2>1. pc'[t] = "idle" /\ \A q \in failed' : q \in failed \/ q.turn = req[t].turn
    BY <1>1, ReturnFacts
  <2> QED
    BY <1>1, <1>2, <2>1, HandedFacts
<1>7. CompletedInv'
  <2>1. c \notin mixed => PendingOf(convs'[c].session) \notin completed'
    BY <1>1, <1>4 DEF QueryInv, CompletedInv
  <2>2. pc'[t] \notin Working
    BY <1>1, ReturnFacts DEF Working
  <2> QED
    BY <1>1, <1>2, <2>1, <2>2, CompletedStays
<1>8. FailedInv'
  <2>1. \A q \in failed : Unsaved(q.turn, {})'
    BY <1>1, <1>2, FailedStays
  <2>2. \A p, q \in failed : p.turn = q.turn => p = q
    BY DEF QueryInv, FailedInv
  <2>3. CASE failed' = failed
    BY <2>1, <2>2, <2>3 DEF FailedInv
  <2>4. CASE pc[t] \in Working /\ failed' = failed \cup {r}
    <3>1. PICK n : n = req[t].turn
      OBVIOUS
    <3>2. Unsaved(n, {t}) /\ \A q \in failed : q.turn # n
      BY <1>1, <1>3, <2>4, <3>1 DEF TurnThread
    <3>3. /\ n \notin completed' /\ \A b \in DOMAIN convs' : PendingOf(convs'[b].session) # n
      BY <1>1, <3>2 DEF Unsaved
    <3>4. ASSUME NEW s \in Threads PROVE n \notin InHands(s)'
      <4>1. CASE s = t
        BY <4>1, <1>2
      <4>2. CASE s # t
        <5>1. InHands(s)' = InHands(s)
          BY <4>2, <1>2, HandsOther
        <5> QED
          BY <5>1, <4>2, <3>2 DEF Unsaved
      <4> QED
        BY <4>1, <4>2
    <3>5. Unsaved(n, {})'
      BY <3>3, <3>4 DEF Unsaved, PendingOf
    <3>6. r.turn = n
      BY <3>1
    <3>7. \A q \in failed' : Unsaved(q.turn, {})'
      BY <2>1, <2>4, <3>5, <3>6
    <3>8. \A p, q \in failed' : q.turn = p.turn => q = p
      BY <2>2, <2>4, <3>2, <3>6
    <3> QED
      BY <3>7, <3>8 DEF FailedInv
  <2> QED
    BY <2>3, <2>4, <1>1
<1>9. \A s \in Threads : TurnThread(s)'
  BY <1>5, <1>6
<1> QED
  BY <1>6, <1>7, <1>8, <1>9 DEF QueryInv

\* What a turn that comes leaves of the conversations and of the others.
LEMMA PostLeaves ==
  ASSUME TypeInv, NEW t \in Threads, NEW u, NEW turn, NEW wanted, NEW conv,
         PostResult(t, u, turn, wanted, conv)
  PROVE  /\ pc[t] = "idle" /\ pc'[t] = "post" /\ req'[t] = Request(u, turn, wanted, conv)
         /\ sess[t] = NewSession /\ asked[t] = NotAsked
         /\ UNCHANGED <<events, sess, asked, lost, completed, now, setBacks>>
         /\ \A s \in Threads \ {t} : pc'[s] = pc[s] /\ req'[s] = req[s]
         /\ \A s \in Threads : InHands(s)' = InHands(s)
         /\ InHands(t) = {} /\ conv \in Nat \ {0}
         /\ DOMAIN convs' = DOMAIN convs \cup {conv}
         /\ \A c \in DOMAIN convs : /\ convs'[c] = convs[c] /\ rows'[c] = rows[c]
                                    /\ posts'[c] = posts[c]
         /\ conv \notin DOMAIN convs =>
              convs'[conv].session = NewSession /\ rows'[conv] = <<>> /\ posts'[conv] = <<>>
         /\ \A s \in Threads : req[s].conv # NoConv => req[s].conv \in DOMAIN convs
         /\ mixed \subseteq mixed'
         /\ \A s \in Threads : req[s].conv = conv => conv \in mixed'
<1>1. /\ pc[t] = "idle" /\ pc' = [pc EXCEPT ![t] = "post"] /\ u \in Names
      /\ req' = [req EXCEPT ![t] = Request(u, turn, wanted, conv)]
      /\ UNCHANGED <<sessionVars, knowledge, sess, prior, asked, lost, completed>>
      /\ Enters(t, u, conv) \/ Opens(t, u, conv)
  BY DEF PostResult
<1>2. /\ PlaceThread(t) /\ pc \in [Threads -> Steps] /\ req \in [Threads -> Requests]
      /\ \A s \in Threads : PlaceThread(s)
  BY DEF TypeInv, TurnTypes
<1>3. /\ pc'[t] = "post" /\ req'[t] = Request(u, turn, wanted, conv)
      /\ \A s \in Threads \ {t} : pc'[s] = pc[s] /\ req'[s] = req[s]
  BY <1>1, <1>2
<1>4. sess[t] = NewSession /\ asked[t] = NotAsked
  BY <1>1, <1>2 DEF PlaceThread
<1>5. InHands(t) = {}
  BY <1>4, NewFacts DEF InHands
<1>6. UNCHANGED <<events, sess, asked, lost, completed, now, setBacks>>
  BY <1>1 DEF knowledge, sessionVars
<1>7. \A s \in Threads : InHands(s)' = InHands(s)
  BY <1>6 DEF InHands, PendingOf
<1>8. DOMAIN convs = 1 .. Len(convs) /\ Len(convs) \in Nat
  BY TypeFacts
<1>9. \A s \in Threads : req[s].conv # NoConv => req[s].conv \in DOMAIN convs
  BY <1>2 DEF PlaceThread, NoRequest, Request
<1>10. CASE Enters(t, u, conv)
  <2>1. conv \in DOMAIN convs /\ UNCHANGED <<convs, rows, posts>>
    BY <1>10 DEF Enters, store
  <2>2. mixed \subseteq mixed' /\ \A s \in Threads : req[s].conv = conv => conv \in mixed'
    BY <1>10 DEF Enters
  <2> QED
    BY <1>1, <1>3, <1>4, <1>5, <1>6, <1>7, <1>8, <1>9, <2>1, <2>2
<1>11. CASE Opens(t, u, conv)
  <2>1. DOMAIN convs' = DOMAIN convs \cup {conv} /\ conv \notin DOMAIN convs
        /\ conv \in Nat \ {0}
    BY <1>1, <1>11, OpensFacts
  <2>2. convs'[conv] = [owner |-> u, session |-> NewSession]
    BY <1>1, <1>11, OpensFacts
  <2>3. rows'[conv] = <<>> /\ posts'[conv] = <<>>
    BY <1>1, <1>11, OpensFacts
  <2>4. \A c \in DOMAIN convs : /\ convs'[c] = convs[c] /\ rows'[c] = rows[c]
                                /\ posts'[c] = posts[c]
    BY <1>1, <1>11, OpensFacts
  <2>5. mixed' = mixed /\ \A s \in Threads : req[s].conv # conv
    BY <1>9, <1>11, <2>1 DEF Opens, NoConv
  <2>6. convs'[conv].session = NewSession
    BY <2>2
  <2> QED
    BY <1>1, <1>3, <1>4, <1>5, <1>6, <1>7, <1>9, <2>1, <2>3, <2>4, <2>5, <2>6
<1> QED
  BY <1>1, <1>10, <1>11

LEMMA QueryPost ==
  ASSUME TypeInv, QueryInv, NEW t \in Threads, NEW u, NEW turn, NEW wanted, NEW conv,
         PostResult(t, u, turn, wanted, conv)
  PROVE  QueryInv'
<1>1. /\ pc[t] = "idle" /\ pc'[t] = "post" /\ req'[t] = Request(u, turn, wanted, conv)
      /\ sess[t] = NewSession /\ asked[t] = NotAsked
      /\ UNCHANGED <<sess, asked, completed>>
      /\ \A s \in Threads \ {t} : pc'[s] = pc[s] /\ req'[s] = req[s]
      /\ \A s \in Threads : InHands(s)' = InHands(s)
      /\ InHands(t) = {} /\ conv \in Nat \ {0}
  <2>1. pc[t] = "idle" /\ pc'[t] = "post"
    BY PostLeaves
  <2>5. req'[t] = Request(u, turn, wanted, conv)
    BY DEF PostResult, TypeInv, TurnTypes
  <2>6. sess[t] = NewSession /\ asked[t] = NotAsked
    BY PostLeaves
  <2>7. UNCHANGED <<events, sess, asked, lost, completed, now, setBacks>>
    BY PostLeaves
  <2>2. \A s \in Threads \ {t} : pc'[s] = pc[s] /\ req'[s] = req[s]
    BY PostLeaves
  <2>3. \A s \in Threads : InHands(s)' = InHands(s)
    BY PostLeaves
  <2>4. InHands(t) = {} /\ conv \in Nat \ {0}
    BY PostLeaves
  <2> QED
    BY <2>1, <2>2, <2>3, <2>4, <2>5, <2>6, <2>7
<1>2. /\ DOMAIN convs' = DOMAIN convs \cup {conv}
      /\ \A c \in DOMAIN convs : convs'[c] = convs[c]
      /\ conv \notin DOMAIN convs => convs'[conv].session = NewSession
  BY PostLeaves
<1>3. /\ \A s \in Threads : req[s].conv # NoConv => req[s].conv \in DOMAIN convs
      /\ mixed \subseteq mixed'
      /\ \A s \in Threads : req[s].conv = conv => conv \in mixed'
  BY PostLeaves
<1>4. req'[t].turn = turn /\ req'[t].conv = conv
  BY <1>1 DEF Request
<1>5. turns \in Nat /\ turn \in Nat \ {0} /\ turns <= turns' /\ turns' \in Nat /\ failed' \subseteq failed
      /\ turn <= turns'
  BY DEF PostResult, TypeInv, TurnTypes
<1>6. \A c \in DOMAIN convs : \A n \in Waiting(c) : n <= turns
  BY DEF QueryInv, ComingInv
<1>7. \A s \in Threads : pc[s] = "idle" => InHands(s) = {}
  <2>1. \A s \in Threads : pc[s] = "idle" => sess[s] = NewSession /\ asked[s] = NotAsked
    BY DEF TypeInv, PlaceThread
  <2> QED
    BY <2>1, NewFacts DEF InHands
<1>8. \A s \in Threads : \A n \in InHands(s) : n <= turns
  <2>1. ASSUME NEW s \in Threads, NEW n \in InHands(s) PROVE n <= turns
    <3>1. pc[s] # "idle"
      BY <2>1, <1>7
    <3>2. req[s].conv \in DOMAIN convs
      BY <3>1 DEF TypeInv, PlaceThread
    <3> QED
      BY <2>1, <3>2, <1>6, WaitingFacts
  <2> QED
    BY <2>1
<1>9. Unsaved(turn, {})
  <2>1. CASE turn = turns + 1
    <3>1. \A c \in DOMAIN convs : PendingOf(convs[c].session) # turn
      <4>1. \A c \in DOMAIN convs : PendingOf(convs[c].session) = 0
                                    \/ PendingOf(convs[c].session) <= turns
        BY <1>6, WaitingFacts
      <4> QED
        BY <2>1, <4>1, <1>5
    <3>2. turn \notin completed
      BY <2>1, <1>5 DEF QueryInv, ComingInv
    <3>3. \A s \in Threads : turn \notin InHands(s)
      BY <2>1, <1>5, <1>8
    <3> QED
      BY <3>1, <3>2, <3>3 DEF Unsaved
  <2>2. CASE \E r \in failed : r.turn = turn
    BY <2>2 DEF QueryInv, FailedInv
  <2> QED
    BY <2>1, <2>2 DEF PostResult
<1>10. \A s \in Threads : pc[s] # "idle" => req[s].turn # turn
  <2>1. CASE turn = turns + 1
    <3>1. \A s \in Threads : pc[s] # "idle" => req[s].turn <= turns
      BY <1>5 DEF TypeInv, PlaceThread
    <3> QED
      BY <2>1, <3>1, <1>5
  <2>2. CASE \E r \in failed : r.turn = turn
    BY <2>2 DEF QueryInv, TurnThread
  <2> QED
    BY <2>1, <2>2 DEF PostResult
<1>11. \A r \in failed' : r.turn # turn
  <2>1. CASE turn = turns + 1 /\ failed' = failed
    <3>1. \A r \in failed : r.turn <= turns
      BY <1>5, TypeFacts
    <3> QED
      BY <2>1, <3>1, <1>5
  <2>2. CASE \E r \in failed : r.turn = turn /\ failed' = failed \ {r}
    BY <2>2 DEF QueryInv, FailedInv
  <2> QED
    BY <2>1, <2>2 DEF PostResult
<1>12. ASSUME NEW n \in Nat \ {0}, NEW own, Unsaved(n, own)
       PROVE  Unsaved(n, own)'
  <2>1. \A c \in DOMAIN convs' : PendingOf(convs'[c].session) # n
    BY <1>2, <1>12, NewFacts DEF Unsaved
  <2> QED
    BY <2>1, <1>1, <1>12 DEF Unsaved, PendingOf
<1>13. TurnThread(t)'
  <2>1. Unsaved(turn, {})'
    BY <1>5, <1>9, <1>12
  <2>2. Unsaved(req[t].turn, {t})'
    BY <2>1, <1>4 DEF Unsaved
  <2>3. asked'[t].completes = 0 /\ sess'[t] = NewSession /\ InHands(t)' = {}
    BY <1>1, NewFacts
  <2>4. \A s \in Threads : s # t /\ pc'[s] # "idle" => req'[s].turn # req'[t].turn
    BY <1>1, <1>4, <1>10
  <2> QED
    BY <2>2, <2>3, <2>4, <1>1, <1>4, <1>5, <1>11 DEF TurnThread
<1>14. ASSUME NEW s \in Threads, s # t
       PROVE  TurnThread(s)'
  <2>1. TurnThread(s) /\ PlaceThread(s)
    BY DEF QueryInv, TypeInv
  <2>2. pc'[s] = pc[s] /\ req'[s] = req[s] /\ sess'[s] = sess[s] /\ asked'[s] = asked[s]
    BY <1>1, <1>14
  <2>3. pc[s] \in Working => Unsaved(req[s].turn, {s})'
    <3>1. ASSUME pc[s] \in Working PROVE Unsaved(req[s].turn, {s})'
      <4>1. PICK n : n = req[s].turn
        OBVIOUS
      <4>2. Unsaved(n, {s}) /\ n \in Nat \ {0}
        BY <2>1, <3>1, <4>1, <1>5 DEF TurnThread, PlaceThread, Working
      <4>3. Unsaved(n, {s})'
        BY <4>2, <1>12
      <4> QED
        BY <4>1, <4>3, <2>2 DEF Unsaved
    <3> QED
      BY <3>1
  <2>4. \A q \in Threads : q # s /\ pc'[s] # "idle" /\ pc'[q] # "idle"
                             => req'[q].turn # req'[s].turn
    BY <1>1, <1>4, <1>10, <2>1, <2>2 DEF TurnThread
  <2>5. InHands(s)' = InHands(s) /\ PendingOf(sess[s])' = PendingOf(sess[s])
    BY <1>1 DEF PendingOf
  <2> QED
    BY <2>1, <2>2, <2>3, <2>4, <2>5, <1>5 DEF TurnThread
<1>15. FailedInv'
  <2>1. \A r \in failed : Unsaved(r.turn, {}) /\ r.turn \in Nat \ {0}
        /\ \A q \in failed : q.turn = r.turn => q = r
    BY TypeFacts DEF QueryInv, FailedInv, TypeInv, TurnTypes
  <2>2. \A r \in failed : Unsaved(r.turn, {})'
    <3> TAKE r \in failed
    <3>1. PICK n : n = r.turn
      OBVIOUS
    <3>2. Unsaved(n, {})'
      BY <2>1, <3>1, <1>12
    <3> QED
      BY <3>1, <3>2
  <2> QED
    BY <2>1, <2>2, <1>5 DEF FailedInv
<1>16. \A b \in DOMAIN convs' : \A n \in Waiting(b)' : b \in DOMAIN convs /\ n \in Waiting(b)
  <2> TAKE b \in DOMAIN convs'
  <2> TAKE n \in Waiting(b)'
  <2>1. \/ n = PendingOf(convs'[b].session) /\ n # 0
        \/ \E s \in Threads : req'[s].conv = b /\ n \in InHands(s)'
    BY DEF Waiting, PendingOf
  <2>2. CASE n = PendingOf(convs'[b].session) /\ n # 0
    <3>1. b \in DOMAIN convs
      BY <2>2, <1>2, NewFacts
    <3> QED
      BY <2>2, <3>1, <1>2, WaitingFacts
  <2>3. ASSUME NEW s \in Threads, req'[s].conv = b, n \in InHands(s)'
        PROVE  b \in DOMAIN convs /\ n \in Waiting(b)
    <3>1. s # t /\ n \in InHands(s) /\ req[s].conv = b
      BY <2>3, <1>1
    <3>2. b # NoConv
      BY <1>1, <1>2, TypeFacts DEF NoConv
    <3> QED
      BY <3>1, <3>2, <1>3, WaitingFacts
  <2> QED
    BY <2>1, <2>2, <2>3
<1>17. ComingInv' /\ WaitingInv'
  <2>1. \A n \in completed' : n <= turns
    BY <1>1 DEF QueryInv, ComingInv
  <2>2. \A n \in completed' : n <= turns'
    <3>1. completed' = completed /\ completed \in SUBSET Nat
      BY <1>1 DEF TypeInv, TurnTypes
    <3> QED
      BY <2>1, <3>1, <1>5
  <2>3. \A b \in DOMAIN convs' : \A n \in Waiting(b)' : n <= turns'
    <3> TAKE b \in DOMAIN convs'
    <3> TAKE n \in Waiting(b)'
    <3>1. n \in Waiting(b) /\ b \in DOMAIN convs
      BY <1>16
    <3>2. n <= turns /\ n \in Nat
      <4>1. Waiting(b) \subseteq Nat
        BY <3>1, TypeFacts DEF Waiting, InHands, PendingOf, Discourses, Copies, Askings
      <4> QED
        BY <3>1, <4>1, <1>6
    <3> QED
      BY <3>2, <1>5
  <2>4. \A b, c \in DOMAIN convs' : b # c => Waiting(b)' \cap Waiting(c)' = {}
    BY <1>16 DEF QueryInv, WaitingInv
  <2> QED
    BY <2>2, <2>3, <2>4 DEF ComingInv, WaitingInv
<1>18. Alone'
  <2>1. \A s, q \in Threads : req[s].conv = req[q].conv /\ req[q].conv \notin mixed
                                /\ req[q].conv # NoConv => s = q
    BY DEF QueryInv, Alone
  <2>2. ASSUME NEW s \in Threads, NEW q \in Threads, req'[s].conv = req'[q].conv,
               req'[q].conv \notin mixed', req'[q].conv # NoConv
        PROVE  s = q
    <3>1. CASE s = t \/ q = t
      BY <2>2, <3>1, <1>1, <1>3, <1>4
    <3>2. CASE s # t /\ q # t
      BY <2>1, <2>2, <3>2, <1>1, <1>3
    <3> QED
      BY <3>1, <3>2
  <2> QED
    BY <2>2 DEF Alone
<1>19. CompletedInv'
  <2>1. ASSUME NEW b \in DOMAIN convs' \ mixed'
        PROVE  /\ PendingOf(convs'[b].session) \notin completed'
               /\ \A s \in Threads : req'[s].conv = b /\ pc'[s] \in Working
                                       => PendingOf(sess'[s]) \notin completed'
    <3>1. 0 \notin completed
      BY DEF TypeInv, TurnTypes
    <3>2. PendingOf(convs'[b].session) \notin completed'
      BY <3>1, <1>1, <1>2, <1>3, NewFacts DEF QueryInv, CompletedInv
    <3>3. ASSUME NEW s \in Threads, req'[s].conv = b, pc'[s] \in Working
          PROVE  PendingOf(sess'[s]) \notin completed'
      <4>1. CASE s = t
        BY <4>1, <3>1, <1>1, NewFacts
      <4>2. CASE s # t
        <5>1. req[s].conv = b /\ pc[s] \in Working /\ b # NoConv
          BY <3>3, <4>2, <1>1, <1>2, TypeFacts DEF NoConv
        <5> QED
          BY <5>1, <1>1, <1>3 DEF QueryInv, CompletedInv
      <4> QED
        BY <4>1, <4>2
    <3> QED
      BY <3>2, <3>3
  <2> QED
    BY <2>1 DEF CompletedInv, PendingOf
<1>20. \A s \in Threads : TurnThread(s)'
  BY <1>13, <1>14
<1> QED
  BY <1>15, <1>17, <1>18, <1>19, <1>20 DEF QueryInv

LEMMA QueryStep == TypeInv /\ QueryInv /\ [Next]_vars => QueryInv'
<1> SUFFICES ASSUME TypeInv, QueryInv, [Next]_vars PROVE QueryInv'
  OBVIOUS
<1>1. CASE Sessions \/ UNCHANGED vars
  <2>1. UNCHANGED <<convs, turns, failed, pc, req, sess, asked, mixed, completed>>
    BY <1>1 DEF Sessions, vars, thread, store, history
  <2>2. /\ \A s : InHands(s)' = InHands(s)
        /\ \A c : PendingOf(convs'[c].session) = PendingOf(convs[c].session)
        /\ \A s : PendingOf(sess'[s]) = PendingOf(sess[s])
    BY <2>1 DEF InHands, PendingOf
  <2>3. \A c : Waiting(c)' = Waiting(c)
    BY <2>1, <2>2 DEF Waiting, PendingOf
  <2>4. \A n, own : Unsaved(n, own)' <=> Unsaved(n, own)
    BY <2>1, <2>2 DEF Unsaved, PendingOf
  <2>5. \A t \in Threads : TurnThread(t)'
    <3> TAKE t \in Threads
    <3>1. PICK n : n = req[t].turn
      OBVIOUS
    <3>2. TurnThread(t) /\ (Unsaved(n, {t})' <=> Unsaved(n, {t}))
      BY <2>4 DEF QueryInv
    <3> QED
      BY <2>1, <2>2, <3>1, <3>2 DEF TurnThread, Unsaved, PendingOf
  <2>6. FailedInv' /\ ComingInv' /\ WaitingInv' /\ Alone'
    BY <2>1, <2>3, <2>4 DEF QueryInv, FailedInv, ComingInv, WaitingInv, Alone
  <2>7. CompletedInv'
    BY <2>1, <2>2 DEF QueryInv, CompletedInv, PendingOf
  <2> QED
    BY <2>5, <2>6, <2>7 DEF QueryInv
<1>2. ASSUME NEW t \in Threads, NEW i, NEW turn, NEW c, Post(t, i, turn, c)
      PROVE  QueryInv'
  BY <1>2, PostFacts, QueryPost
<1>3. ASSUME NEW t \in Threads, AddUserMessage(t) \/ LoadSession(t) \/ PriorUserUtterances(t)
      PROVE  QueryInv'
  BY <1>3, QueryReads
<1>4. ASSUME NEW t \in Threads, Engine(t)
      PROVE  QueryInv'
  BY <1>4, QueryEngine
<1>5. ASSUME NEW t \in Threads, SaveSession(t)
      PROVE  QueryInv'
  BY <1>5, QuerySave
<1>6. ASSUME NEW t \in Threads, PersistAssistant(t) \/ Fail(t)
      PROVE  QueryInv'
  BY <1>6, QueryReturn
<1> QED
  BY <1>1, <1>2, <1>3, <1>4, <1>5, <1>6 DEF Next

-----------------------------------------------------------------------------
(* The last event of a conversation.                                       *)

LEMMA LastStays ==
  ASSUME NEW c, LastConv(c), UNCHANGED events,
         convs'[c].session = convs[c].session, AllSaved(c)' => AllSaved(c),
         \A s \in Threads : req'[s].conv = c /\ pc'[s] \in {"utterances", "engine", "save"} =>
           /\ req[s].conv = c /\ pc[s] \in {"utterances", "engine", "save"}
           /\ sess'[s] = sess[s]
  PROVE  LastConv(c)'
<1>1. AllSaved(c)' => IsLast(convs[c].session.last, c)'
  BY DEF LastConv, IsLast, Here
<1>2. \A s \in Threads : req'[s].conv = c /\ pc'[s] \in {"utterances", "engine", "save"}
                           => IsLast(sess[s].last, c)'
  BY DEF LastConv, IsLast, Here
<1> QED
  BY <1>1, <1>2 DEF LastConv

\* A turn alone in its conversation has all of it saved until its engine ran.
LEMMA SavedAlone ==
  ASSUME TypeInv, QueryInv, NEW t \in Threads, pc[t] # "idle", req[t].conv \notin mixed
  PROVE  /\ \A s \in Threads : req[s].conv = req[t].conv => s = t
         /\ ~ (pc[t] = "save" /\ req[t].dirty) => AllSaved(req[t].conv)
<1>1. req[t].conv # NoConv
  BY TypeFacts DEF TypeInv, PlaceThread, NoConv
<1> QED
  BY <1>1 DEF QueryInv, Alone, AllSaved

LEMMA LastPost ==
  ASSUME TypeInv, QueryInv, LastInv, NEW t \in Threads, NEW u, NEW turn, NEW wanted, NEW conv,
         PostResult(t, u, turn, wanted, conv)
  PROVE  LastInv'
<1>1. /\ pc[t] = "idle" /\ pc'[t] = "post"
      /\ UNCHANGED <<events, sess, asked, lost, completed, now, setBacks>>
  BY PostLeaves
<1>2. /\ \A s \in Threads \ {t} : pc'[s] = pc[s] /\ req'[s] = req[s]
      /\ DOMAIN convs' = DOMAIN convs \cup {conv}
      /\ \A c \in DOMAIN convs : convs'[c] = convs[c]
      /\ conv \notin DOMAIN convs => convs'[conv].session = NewSession
  BY PostLeaves
<1>3. /\ \A s \in Threads : req[s].conv # NoConv => req[s].conv \in DOMAIN convs
      /\ mixed \subseteq mixed' /\ conv \in Nat \ {0}
  BY PostLeaves
<1>4. req'[t].dirty = FALSE /\ req'[t].conv = conv
  BY DEF PostResult, TypeInv, TurnTypes, Request
<1>5. \A s \in Threads : req'[s].dirty => pc'[s] \in {"save", "reply"}
  BY <1>1, <1>2, <1>4 DEF LastInv
<1>6. ASSUME NEW c \in DOMAIN convs, c \notin mixed \cup lost
      PROVE  LastConv(c)'
  <2>1. LastConv(c) /\ convs'[c].session = convs[c].session
    BY <1>2, <1>6 DEF LastInv
  <2>2. AllSaved(c)' => AllSaved(c)
    BY <1>1, <1>2 DEF AllSaved
  <2> QED
    BY <2>1, <2>2, <1>1, <1>2, LastStays
<1>7. ASSUME conv \notin DOMAIN convs
      PROVE  LastConv(conv)'
  <2>1. Here(conv) = {} /\ Here(conv)' = {}
    BY <1>1, <1>7, TypeFacts DEF Here, Told
  <2>2. convs'[conv].session.last = 0
    BY <1>2, <1>7, NewFacts
  <2>3. \A s \in Threads : req'[s].conv = conv => pc'[s] = "post"
    BY <1>1, <1>2, <1>3, <1>7, TypeFacts DEF NoConv
  <2> QED
    BY <2>1, <2>2, <2>3 DEF LastConv, IsLast
<1>8. \A c \in DOMAIN convs' \ (mixed' \cup lost') : LastConv(c)'
  BY <1>1, <1>2, <1>3, <1>6, <1>7
<1> QED
  BY <1>5, <1>8 DEF LastInv

LEMMA LastReads ==
  ASSUME TypeInv, QueryInv, LastInv, NEW t \in Threads,
         AddUserMessage(t) \/ LoadSession(t) \/ PriorUserUtterances(t)
  PROVE  LastInv'
<1> DEFINE k == req[t].conv
<1>1. /\ \/ pc[t] = "post" /\ pc' = [pc EXCEPT ![t] = "load"] /\ sess' = sess
         \/ /\ pc[t] = "load" /\ pc' = [pc EXCEPT ![t] = "utterances"]
            /\ sess' = [sess EXCEPT ![t] = convs[k].session]
         \/ pc[t] = "utterances" /\ pc' = [pc EXCEPT ![t] = "engine"] /\ sess' = sess
      /\ UNCHANGED <<convs, events, req, mixed, lost>>
  BY PriorFacts DEF AddUserMessage, LoadSession, Goto, store, knowledge, history
<1>2. /\ pc \in [Threads -> Steps] /\ sess \in [Threads -> Copies]
      /\ pc[t] \in {"post", "load", "utterances"} /\ pc[t] # "idle"
  BY <1>1 DEF TypeInv, TurnTypes
<1>3. /\ pc'[t] \in {"load", "utterances", "engine"} /\ pc'[t] = "engine" => pc[t] = "utterances"
      /\ \A s \in Threads \ {t} : pc'[s] = pc[s] /\ sess'[s] = sess[s]
  BY <1>1, <1>2
<1>4. \A s \in Threads : req'[s].dirty => pc'[s] \in {"save", "reply"}
  BY <1>1, <1>2, <1>3 DEF LastInv
<1>5. ASSUME NEW c \in DOMAIN convs, c \notin mixed \cup lost
      PROVE  LastConv(c)'
  <2>1. LastConv(c) /\ convs'[c].session = convs[c].session
    BY <1>1, <1>5 DEF LastInv
  <2>2. AllSaved(c)' => AllSaved(c)
    BY <1>1, <1>2, <1>3 DEF AllSaved
  <2>3. CASE k # c \/ pc[t] # "load"
    <3>1. \A s \in Threads :
            req'[s].conv = c /\ pc'[s] \in {"utterances", "engine", "save"} =>
              /\ req[s].conv = c /\ pc[s] \in {"utterances", "engine", "save"}
              /\ sess'[s] = sess[s]
      BY <1>1, <1>2, <1>3, <2>3
    <3> QED
      BY <2>1, <2>2, <3>1, <1>1, LastStays
  <2>4. CASE k = c /\ pc[t] = "load"
    <3>1. sess'[t] = convs[c].session /\ pc'[t] = "utterances"
      BY <1>1, <1>2, <2>4
    <3>2. \A s \in Threads : req[s].conv = c => s = t
      BY <1>2, <1>5, <2>4, SavedAlone
    <3>3. AllSaved(c)
      BY <2>4, <3>2 DEF AllSaved
    <3>4. IsLast(convs[c].session.last, c)
      BY <2>1, <3>3 DEF LastConv
    <3> QED
      BY <1>1, <3>1, <3>2, <3>4 DEF LastConv, IsLast, Here
  <2> QED
    BY <2>3, <2>4
<1>6. \A c \in DOMAIN convs' \ (mixed' \cup lost') : LastConv(c)'
  BY <1>1, <1>5
<1> QED
  BY <1>4, <1>6 DEF LastInv

LEMMA LastEngine ==
  ASSUME TypeInv, QueryInv, LastInv, NEW t \in Threads, Engine(t)
  PROVE  LastInv'
<1> DEFINE k == req[t].conv
<1>1. PICK s, a, dirty : EngineResult(t, s, a, dirty)
  BY EngineFacts
<1>2. /\ pc[t] = "engine" /\ pc' = [pc EXCEPT ![t] = "save"]
      /\ UNCHANGED <<convs, mixed, lost>>
  BY EngineFacts DEF EngineStep, store
<1>3. /\ sess' = [sess EXCEPT ![t] = s] /\ req' = [req EXCEPT ![t].dirty = dirty]
      /\ Events(t, s, dirty)
  BY <1>1 DEF EngineResult
<1>4. /\ pc \in [Threads -> Steps] /\ sess \in [Threads -> Copies]
      /\ req \in [Threads -> Requests] /\ k \in DOMAIN convs
  BY <1>2 DEF TypeInv, TurnTypes, PlaceThread
<1>5. /\ pc'[t] = "save" /\ sess'[t] = s /\ req'[t].conv = k /\ req'[t].dirty = dirty
      /\ \A q \in Threads \ {t} : pc'[q] = pc[q] /\ req'[q] = req[q] /\ sess'[q] = sess[q]
  BY <1>2, <1>3, <1>4 DEF Requests
<1>6. \A q \in Threads : req'[q].dirty => pc'[q] \in {"save", "reply"}
  BY <1>5 DEF LastInv
<1>7. /\ Len(events) \in Nat /\ DOMAIN events = 1 .. Len(events)
      /\ events \in Seq(Told(convs))
  BY TypeFacts DEF TypeInv, StoreTypes
<1>8. ASSUME NEW heard \in BOOLEAN, events' = Append(events, [conv |-> k, heard |-> heard])
      PROVE  /\ Here(k)' = Here(k) \cup (IF heard THEN {Len(events) + 1} ELSE {})
             /\ \A c : c # k => Here(c)' = Here(c)
  <2> DEFINE D == Told(convs)
             e0 == [conv |-> k, heard |-> heard]
  <2>1. events \in Seq(D) /\ e0 \in D /\ e0.conv = k /\ e0.heard = heard
    BY <1>4, <1>7 DEF Told
  <2> HIDE DEF D, e0
  <2>2. PICK b : b = k
    OBVIOUS
  <2>3. /\ events' \in Seq(D) /\ Len(events') = Len(events) + 1
        /\ \A e \in 1 .. Len(events) : events'[e] = events[e]
        /\ events'[Len(events) + 1] = e0
    BY <1>8, <2>1, AppendProperties DEF e0
  <2>4. DOMAIN events' = 1 .. Len(events) + 1
    BY <2>3, LenProperties
  <2>5. \A c, e : e \in Here(c)' <=> e \in DOMAIN events' /\ events'[e].conv = c /\ events'[e].heard
    BY DEF Here
  <2>6. \A c, e : e \in Here(c) <=> e \in DOMAIN events /\ events[e].conv = c /\ events[e].heard
    BY DEF Here
  <2>7. \A c : Here(c)' = Here(c) \cup (IF c = b /\ heard THEN {Len(events) + 1} ELSE {})
    BY <2>1, <2>2, <2>3, <2>4, <2>5, <2>6, <1>7
  <2>8. Here(b)' = {e \in DOMAIN events' : events'[e].conv = b /\ events'[e].heard}
    BY DEF Here
  <2>9. Here(k)' = {e \in DOMAIN events' : events'[e].conv = req'[t].conv /\ events'[e].heard}
    BY DEF Here
  <2> QED
    BY <2>2, <2>7, <2>8, <2>9, <1>5
<1>9. ASSUME NEW c \in DOMAIN convs, c \notin mixed \cup lost, c # k
      PROVE  LastConv(c)'
  <2>1. LastConv(c)
    BY <1>9 DEF LastInv
  <2>2. Here(c)' = Here(c)
    BY <1>3, <1>8, <1>9 DEF Here, Events
  <2>3. AllSaved(c)' => AllSaved(c)
    BY <1>5, <1>9 DEF AllSaved
  <2> QED
    BY <2>1, <2>2, <2>3, <1>2, <1>5, <1>9 DEF LastConv, IsLast
<1>10. ASSUME NEW c, c = k, c \notin mixed \cup lost
       PROVE  LastConv(c)'
  <2>1. LastConv(c) /\ \A q \in Threads : req[q].conv = c => q = t
    BY <1>2, <1>4, <1>10, SavedAlone DEF LastInv
  <2>2. IsLast(sess[t].last, c)
    BY <2>1, <1>2, <1>10 DEF LastConv
  <2>3. \A q \in Threads : req'[q].conv = c => q = t
    BY <2>1, <1>5
  <2>4. CASE Here(c)' = Here(c) /\ s.last = sess[t].last
    <3>1. IsLast(convs[c].session.last, c)
      BY <2>1, <1>2, <1>10 DEF LastConv, AllSaved
    <3> QED
      BY <2>2, <2>3, <2>4, <3>1, <1>2, <1>5 DEF LastConv, IsLast
  <2>5. CASE /\ events' = Append(events, [conv |-> k, heard |-> TRUE])
             /\ s.last = Len(events) + 1 /\ dirty
    <3>1. Here(c)' = Here(c) \cup {Len(events) + 1} /\ Here(c) \in SUBSET (1 .. Len(events))
      <4>1. Here(c)' = Here(k)' /\ Here(c) = Here(k)
        BY <1>5, <1>10 DEF Here
      <4>2. Here(k) \in SUBSET (1 .. Len(events))
        BY <1>7 DEF Here
      <4> QED
        BY <4>1, <4>2, <2>5, <1>8
    <3>2. ~ AllSaved(c)'
      BY <2>5, <1>5, <1>10 DEF AllSaved
    <3>3. \A f \in Here(c)' : f <= Len(events) + 1
      BY <3>1, <1>7
    <3> QED
      BY <2>3, <2>5, <3>1, <3>2, <3>3, <1>5 DEF LastConv, IsLast
  <2>6. CASE events' = events /\ s.last = sess[t].last
    <3>1. Here(c)' = Here(c)
      BY <2>6 DEF Here
    <3> QED
      BY <2>4, <2>6, <3>1
  <2>7. CASE /\ events' = Append(events, [conv |-> k, heard |-> FALSE])
             /\ s.last = sess[t].last
    <3>1. Here(k)' = Here(k)
      BY <2>7, <1>8
    <3>2. Here(c)' = Here(k)' /\ Here(c) = Here(k)
      BY <1>5, <1>10 DEF Here
    <3> QED
      BY <2>4, <2>7, <3>1, <3>2
  <2>8. \/ events' = events /\ s.last = sess[t].last
        \/ /\ events' = Append(events, [conv |-> k, heard |-> TRUE])
           /\ s.last = Len(events) + 1 /\ dirty
        \/ /\ events' = Append(events, [conv |-> k, heard |-> FALSE])
           /\ s.last = sess[t].last
    BY <1>3 DEF Events
  <2> QED
    BY <2>5, <2>6, <2>7, <2>8
<1>11. \A c \in DOMAIN convs' \ (mixed' \cup lost') : LastConv(c)'
  BY <1>2, <1>9, <1>10
<1> QED
  BY <1>6, <1>11 DEF LastInv

LEMMA LastSave ==
  ASSUME TypeInv, QueryInv, LastInv, NEW t \in Threads, SaveSession(t)
  PROVE  LastInv'
<1> DEFINE k == req[t].conv
<1>1. /\ pc[t] = "save" /\ pc' = [pc EXCEPT ![t] = "reply"] /\ convs' = Saved(t)
      /\ UNCHANGED <<req, sess, events, mixed, lost>>
  BY DEF SaveSession, Goto, knowledge
<1>2. pc \in [Threads -> Steps] /\ PlaceThread(t) /\ pc[t] # "idle"
  BY <1>1 DEF TypeInv, TurnTypes
<1>3. k \in DOMAIN convs /\ convs[k] \in [owner : Names, session : Copies]
  BY <1>2, TypeFacts DEF PlaceThread
<1>4. /\ DOMAIN convs' = DOMAIN convs /\ convs'[k].session = sess[t]
      /\ \A b \in DOMAIN convs : b # k => convs'[b] = convs[b]
  BY <1>1, <1>3 DEF Saved
<1>5. pc'[t] = "reply" /\ \A s \in Threads \ {t} : pc'[s] = pc[s]
  BY <1>1, <1>2
<1>6. \A s \in Threads : req'[s].dirty => pc'[s] \in {"save", "reply"}
  BY <1>1, <1>5 DEF LastInv
<1>7. ASSUME NEW c \in DOMAIN convs, c \notin mixed \cup lost
      PROVE  LastConv(c)'
  <2>1. LastConv(c)
    BY <1>7 DEF LastInv
  <2>2. CASE c # k
    <3>1. convs'[c].session = convs[c].session
      BY <2>2, <1>4
    <3>2. AllSaved(c)' => AllSaved(c)
      BY <2>2, <1>1, <1>5 DEF AllSaved
    <3> QED
      BY <2>1, <2>2, <3>1, <3>2, <1>1, <1>5, LastStays
  <2>3. CASE c = k
    <3>1. \A s \in Threads : req[s].conv = c => s = t
      BY <2>3, <1>2, <1>7, SavedAlone
    <3>2. IsLast(sess[t].last, c)
      BY <2>1, <2>3, <1>1 DEF LastConv
    <3> QED
      BY <2>3, <3>1, <3>2, <1>1, <1>4, <1>5 DEF LastConv, IsLast, Here
  <2> QED
    BY <2>2, <2>3
<1>8. \A c \in DOMAIN convs' \ (mixed' \cup lost') : LastConv(c)'
  BY <1>1, <1>4, <1>7
<1> QED
  BY <1>6, <1>8 DEF LastInv

LEMMA LastReturn ==
  ASSUME TypeInv, QueryInv, LastInv, NEW t \in Threads, PersistAssistant(t) \/ Fail(t)
  PROVE  LastInv'
<1> DEFINE k == req[t].conv
<1>1. /\ Return(t) /\ pc[t] # "idle" /\ UNCHANGED <<convs, events, mixed>>
      /\ lost \subseteq lost'
      /\ k \notin lost' => ~ (pc[t] = "save" /\ req[t].dirty)
  BY DEF PersistAssistant, Fail, store, knowledge, history
<1>2. /\ pc'[t] = "idle" /\ req'[t] = NoRequest
      /\ \A s \in Threads \ {t} : pc'[s] = pc[s] /\ req'[s] = req[s] /\ sess'[s] = sess[s]
  BY <1>1, ReturnFacts
<1>3. req'[t].dirty = FALSE /\ req'[t].conv = NoConv
  BY <1>2 DEF NoRequest, Request
<1>4. \A s \in Threads : req'[s].dirty => pc'[s] \in {"save", "reply"}
  BY <1>2, <1>3 DEF LastInv
<1>5. ASSUME NEW c \in DOMAIN convs, c \notin mixed \cup lost'
      PROVE  LastConv(c)'
  <2>1. LastConv(c) /\ convs'[c].session = convs[c].session
    BY <1>1, <1>5 DEF LastInv
  <2>2. AllSaved(c)' => AllSaved(c)
    BY <1>1, <1>2, <1>5 DEF AllSaved
  <2>3. c # NoConv
    BY TypeFacts DEF NoConv
  <2> QED
    BY <2>1, <2>2, <2>3, <1>1, <1>2, <1>3, LastStays
<1>6. \A c \in DOMAIN convs' \ (mixed' \cup lost') : LastConv(c)'
  BY <1>1, <1>5
<1> QED
  BY <1>4, <1>6 DEF LastInv

LEMMA LastStep == TypeInv /\ QueryInv /\ LastInv /\ [Next]_vars => LastInv'
<1> SUFFICES ASSUME TypeInv, QueryInv, LastInv, [Next]_vars PROVE LastInv'
  OBVIOUS
<1>1. CASE Sessions \/ UNCHANGED vars
  <2>1. UNCHANGED <<convs, events, pc, req, sess, mixed, lost>>
    BY <1>1 DEF Sessions, vars, thread, store, knowledge, history
  <2>2. \A c \in DOMAIN convs \ (mixed \cup lost) : LastConv(c)'
    BY <2>1 DEF LastInv, LastConv, AllSaved, IsLast, Here
  <2> QED
    BY <2>1, <2>2 DEF LastInv
<1>2. ASSUME NEW t \in Threads, NEW i, NEW turn, NEW c, Post(t, i, turn, c)
      PROVE  LastInv'
  BY <1>2, PostFacts, LastPost
<1>3. ASSUME NEW t \in Threads, AddUserMessage(t) \/ LoadSession(t) \/ PriorUserUtterances(t)
      PROVE  LastInv'
  BY <1>3, LastReads
<1>4. ASSUME NEW t \in Threads, Engine(t)
      PROVE  LastInv'
  BY <1>4, LastEngine
<1>5. ASSUME NEW t \in Threads, SaveSession(t)
      PROVE  LastInv'
  BY <1>5, LastSave
<1>6. ASSUME NEW t \in Threads, PersistAssistant(t) \/ Fail(t)
      PROVE  LastInv'
  BY <1>6, LastReturn
<1> QED
  BY <1>1, <1>2, <1>3, <1>4, <1>5, <1>6 DEF Next

LEMMA QueryInit == Init => QueryInv /\ LastInv
<1> SUFFICES ASSUME Init PROVE QueryInv /\ LastInv
  OBVIOUS
<1>1. /\ convs = <<>> /\ failed = {} /\ completed = {}
      /\ \A t \in Threads : /\ pc[t] = "idle" /\ req[t] = NoRequest
                            /\ sess[t] = NewSession /\ asked[t] = NotAsked
  BY DEF Init
<1>2. DOMAIN convs = {}
  BY <1>1
<1>3. \A t \in Threads : TurnThread(t)
  BY <1>1, NewFacts DEF TurnThread, Working
<1>4. FailedInv /\ ComingInv /\ WaitingInv /\ CompletedInv
  BY <1>1, <1>2 DEF FailedInv, ComingInv, WaitingInv, CompletedInv
<1>5. Alone
  BY <1>1 DEF Alone, NoRequest, Request
<1>6. LastInv
  BY <1>1, <1>2 DEF LastInv, NoRequest, Request
<1> QED
  BY <1>3, <1>4, <1>5, <1>6 DEF QueryInv

\* SessionKeepsUp of Conversations: the saved session of a conversation that
\* no turn is in knows the last of the events that its session was told of and
\* no completed query, unless turns overlapped in it or one failed after it had
\* told something.  A replacing event, and one whose _touch_context raised, are
\* told to no session.
THEOREM KeepsUp == Spec => []SessionKeepsUp
<1>1. TypeInv /\ QueryInv /\ LastInv => SessionKeepsUp
  <2> SUFFICES ASSUME TypeInv, QueryInv, LastInv, NEW c \in DOMAIN convs, Quiet(c)
               PROVE  /\ convs[c].session.last
                           = IF Here(c) = {} THEN 0
                             ELSE CHOOSE e \in Here(c) : \A f \in Here(c) : f <= e
                      /\ convs[c].session.discourse.pending.turn \notin completed
    BY DEF SessionKeepsUp, Here
  <2> DEFINE n == convs[c].session.last
  <2>1. c \notin mixed \cup lost /\ AllSaved(c)
    BY DEF Quiet, AllSaved
  <2>2. IsLast(n, c)
    BY <2>1 DEF LastInv, LastConv
  <2>3. n = IF Here(c) = {} THEN 0 ELSE CHOOSE e \in Here(c) : \A f \in Here(c) : f <= e
    <3> HIDE DEF n
    <3>1. CASE Here(c) = {}
      BY <3>1, <2>2 DEF IsLast
    <3>2. CASE Here(c) # {}
      <4>1. Here(c) \in SUBSET Nat
        BY TypeFacts DEF Here
      <4>2. n \in Here(c) /\ \A f \in Here(c) : f <= n
        BY <2>2, <3>2 DEF IsLast
      <4>3. \A e \in Here(c) : (\A f \in Here(c) : f <= e) => e = n
        BY <4>1, <4>2
      <4>4. n = CHOOSE e \in Here(c) : \A f \in Here(c) : f <= e
        BY <4>2, <4>3
      <4> QED
        BY <3>2, <4>4
    <3> QED
      BY <3>1, <3>2
  <2>4. convs[c].session.discourse.pending.turn \notin completed
    BY <2>1 DEF QueryInv, CompletedInv, PendingOf
  <2> QED
    BY <2>3, <2>4
<1> QED
  BY <1>1, QueryInit, QueryStep, LastStep, TypeCorrect, PTL DEF Spec

-----------------------------------------------------------------------------
(* The order of messages and what an interpreter is given of them.         *)

OneMessage == [turn : Nat, user : Names, role : {"user", "assistant"}, at : Nat]

\* new is list with a row behind its first p.
Between(new, list, row, p) ==
  /\ new \in Messages /\ Len(new) = Len(list) + 1 /\ p \in 0 .. Len(list)
  /\ \A i \in 1 .. Len(list) + 1 :
       new[i] = IF i <= p THEN list[i] ELSE IF i = p + 1 THEN row ELSE list[i - 1]

LEMMA MessageFacts ==
  ASSUME NEW list \in Messages
  PROVE  /\ Len(list) \in Nat /\ DOMAIN list = 1 .. Len(list)
         /\ \A i \in DOMAIN list : list[i] \in OneMessage /\ list[i].at \in Nat
                                   /\ list[i].turn \in Nat
         /\ UserRows(list) \in SUBSET (1 .. Len(list))
<1>1. list \in Seq(OneMessage)
  BY DEF Messages, OneMessage
<1>2. Len(list) \in Nat /\ DOMAIN list = 1 .. Len(list)
  BY <1>1, LenProperties
<1>3. \A i \in DOMAIN list : list[i] \in OneMessage
  BY <1>1, <1>2, ElementOfSeq
<1>4. UserRows(list) \in SUBSET (1 .. Len(list))
  BY <1>2 DEF UserRows
<1> QED
  BY <1>2, <1>3, <1>4 DEF OneMessage

LEMMA SortedBetween ==
  ASSUME NEW list \in Messages, NEW new, NEW row \in OneMessage, NEW p,
         Between(new, list, row, p), Sorted(row, p, list), SortedRows(list)
  PROVE  SortedRows(new)
<1>1. /\ Len(list) \in Nat /\ DOMAIN list = 1 .. Len(list) /\ row.at \in Nat
      /\ \A i \in DOMAIN list : list[i].at \in Nat
      /\ \A i, j \in DOMAIN list : i <= j => list[i].at <= list[j].at
  BY MessageFacts DEF SortedRows, OneMessage
<1>2. /\ DOMAIN new = 1 .. Len(list) + 1 /\ p \in 0 .. Len(list)
      /\ \A i \in 1 .. Len(list) + 1 :
           new[i] = IF i <= p THEN list[i] ELSE IF i = p + 1 THEN row ELSE list[i - 1]
  BY MessageFacts DEF Between
<1>3. \A i \in DOMAIN list : (i <= p => list[i].at <= row.at)
                             /\ (p < i => row.at <= list[i].at)
  <2> TAKE i \in DOMAIN list
  <2>1. ASSUME i <= p PROVE list[i].at <= row.at
    <3>1. p \in DOMAIN list /\ list[i].at <= list[p].at /\ list[p].at <= row.at
      BY <2>1, <1>1, <1>2 DEF Sorted
    <3> QED
      BY <3>1, <1>1
  <2>2. ASSUME p < i PROVE row.at <= list[i].at
    <3>1. p + 1 \in DOMAIN list /\ p + 1 <= i /\ p < Len(list)
      BY <2>2, <1>1, <1>2
    <3>2. list[p + 1].at <= list[i].at
      BY <3>1, <1>1
    <3>3. row.at <= list[p + 1].at
      BY <3>1 DEF Sorted
    <3> QED
      BY <3>1, <3>2, <3>3, <1>1
  <2> QED
    BY <2>1, <2>2
<1>4. ASSUME NEW i \in DOMAIN new, NEW j \in DOMAIN new, i <= j
      PROVE  new[i].at <= new[j].at
  <2>1. \A k \in 1 .. Len(list) + 1 :
          /\ k <= p => k \in DOMAIN list /\ new[k] = list[k]
          /\ k = p + 1 => new[k] = row
          /\ p + 1 < k => k - 1 \in DOMAIN list /\ new[k] = list[k - 1] /\ p < k - 1
    BY <1>1, <1>2
  <2>2. CASE j <= p
    BY <2>1, <2>2, <1>1, <1>2, <1>4
  <2>3. CASE j = p + 1
    <3>1. CASE i <= p
      BY <2>1, <2>3, <3>1, <1>2, <1>3
    <3>2. CASE ~ (i <= p)
      <4>1. i = j
        BY <2>3, <3>2, <1>2, <1>4
      <4> QED
        BY <4>1, <2>1, <2>3, <1>1, <1>2
    <3> QED
      BY <3>1, <3>2
  <2>4. CASE p + 1 < j
    <3>1. j - 1 \in DOMAIN list /\ new[j] = list[j - 1] /\ p < j - 1
      BY <2>1, <2>4, <1>2
    <3>2. CASE i <= p
      <4>1. i \in DOMAIN list /\ new[i] = list[i] /\ i <= j - 1
        BY <2>1, <2>4, <3>2, <1>1, <1>2
      <4> QED
        BY <3>1, <4>1, <1>1
    <3>3. CASE i = p + 1
      BY <2>1, <3>1, <3>3, <1>2, <1>3
    <3>4. CASE p + 1 < i
      <4>1. i - 1 \in DOMAIN list /\ new[i] = list[i - 1] /\ i - 1 <= j - 1
        BY <2>1, <3>4, <1>1, <1>2, <1>4
      <4> QED
        BY <3>1, <4>1, <1>1
    <3> QED
      BY <3>2, <3>3, <3>4, <1>2
  <2> QED
    BY <2>2, <2>3, <2>4, <1>1, <1>2
<1> QED
  BY <1>4 DEF SortedRows

\* A message of a user behind those of users that are there.
LEMMA EnumerateUser ==
  ASSUME NEW list \in Messages, NEW new, NEW row \in OneMessage, NEW p,
         Between(new, list, row, p), row.role = "user",
         \A j \in UserRows(list) : j <= p,
         NEW posted \in Seq(Nat), Enumerates(list, posted)
  PROVE  Enumerates(new, Append(posted, row.turn))
<1> DEFINE n == Len(posted)
           longer == Append(posted, row.turn)
           K == UserRows(list)
           L == UserRows(new)
<1>1. n \in Nat /\ row.turn \in Nat
  BY LenProperties DEF OneMessage
<1>2. /\ Len(longer) = n + 1 /\ longer[n + 1] = row.turn
      /\ \A i \in 1 .. n : longer[i] = posted[i]
  BY <1>1, AppendProperties
<1> HIDE DEF n, longer
<1>3. PICK e \in [1 .. n -> K] :
        /\ \A i, j \in 1 .. n : i < j => e[i] < e[j]
        /\ \A k \in K : \E i \in 1 .. n : e[i] = k
        /\ \A i \in 1 .. n : list[e[i]].turn = posted[i]
  BY DEF Enumerates, n
<1>4. /\ Len(list) \in Nat /\ DOMAIN list = 1 .. Len(list) /\ K \in SUBSET (1 .. Len(list))
      /\ DOMAIN new = 1 .. Len(list) + 1 /\ p \in 0 .. Len(list)
      /\ \A i \in 1 .. Len(list) + 1 :
           new[i] = IF i <= p THEN list[i] ELSE IF i = p + 1 THEN row ELSE list[i - 1]
  BY MessageFacts DEF Between
<1>5. \A k \in K : k \in 1 .. p
  BY <1>4
<1>6. L = K \cup {p + 1}
  <2>1. ASSUME NEW k \in 1 .. Len(list) + 1
        PROVE  k \in L <=> k \in K \/ k = p + 1
    <3>1. CASE k <= p
      <4>1. new[k] = list[k] /\ k \in DOMAIN list /\ k # p + 1
        BY <3>1, <1>4
      <4> QED
        BY <4>1, <1>4 DEF UserRows
    <3>2. CASE k = p + 1
      <4>1. new[k] = row
        BY <3>2, <1>4
      <4> QED
        BY <3>2, <4>1, <1>4 DEF UserRows
    <3>3. CASE p + 1 < k
      <4>1. new[k] = list[k - 1] /\ k - 1 \in DOMAIN list /\ ~ (k - 1 <= p) /\ ~ (k <= p)
        BY <3>3, <1>4
      <4>2. k - 1 \notin K /\ k \notin K
        BY <4>1, <1>5
      <4> QED
        BY <3>3, <4>1, <4>2, <1>4 DEF UserRows
    <3> QED
      BY <3>1, <3>2, <3>3, <1>4
  <2>2. L \subseteq 1 .. Len(list) + 1 /\ p + 1 \in 1 .. Len(list) + 1
        /\ K \subseteq 1 .. Len(list) + 1
    BY <1>4 DEF UserRows
  <2> QED
    BY <2>1, <2>2
<1> HIDE DEF K, L
<1> DEFINE d == [i \in 1 .. n + 1 |-> IF i = n + 1 THEN p + 1 ELSE e[i]]
<1>7. \A i \in 1 .. n + 1 : i # n + 1 => i \in 1 .. n /\ d[i] = e[i] /\ e[i] \in K
  BY <1>1, <1>3
<1>8. d[n + 1] = p + 1
  BY <1>1
<1>9. d \in [1 .. n + 1 -> L]
  BY <1>6, <1>7
<1> HIDE DEF d
<1>10. ASSUME NEW i \in 1 .. n + 1, NEW j \in 1 .. n + 1, i < j
       PROVE  d[i] < d[j]
  <2>1. i \in 1 .. n /\ d[i] = e[i] /\ e[i] \in 1 .. p
    BY <1>1, <1>5, <1>7, <1>10
  <2>2. CASE j = n + 1
    BY <2>1, <2>2, <1>4, <1>8
  <2>3. CASE j # n + 1
    BY <2>1, <2>3, <1>3, <1>7, <1>10
  <2> QED
    BY <2>2, <2>3
<1>11. ASSUME NEW k \in L
       PROVE  \E i \in 1 .. n + 1 : d[i] = k
  <2>1. CASE k = p + 1
    BY <2>1, <1>1, <1>8
  <2>2. CASE k \in K
    <3>1. PICK i \in 1 .. n : e[i] = k
      BY <2>2, <1>3
    <3>2. i \in 1 .. n + 1 /\ i # n + 1
      BY <1>1
    <3> QED
      BY <3>1, <3>2, <1>7
  <2> QED
    BY <2>1, <2>2, <1>6
<1>12. ASSUME NEW i \in 1 .. n + 1
       PROVE  new[d[i]].turn = longer[i]
  <2>1. CASE i = n + 1
    <3>1. new[p + 1] = row
      BY <1>4
    <3> QED
      BY <2>1, <3>1, <1>2, <1>8
  <2>2. CASE i # n + 1
    <3>1. i \in 1 .. n /\ d[i] = e[i] /\ e[i] \in 1 .. p
      BY <2>2, <1>5, <1>7
    <3>2. new[e[i]] = list[e[i]]
      BY <3>1, <1>4
    <3> QED
      BY <3>1, <3>2, <1>2, <1>3
  <2> QED
    BY <2>1, <2>2
<1>13. \A i, j \in 1 .. n + 1 : i < j => d[i] < d[j]
  BY <1>10
<1>14. 1 .. n + 1 = 1 .. Len(longer)
  BY <1>2
<1>15. Enumerates(new, longer)
  <2>1. d \in [1 .. Len(longer) -> L]
    BY <1>9, <1>14
  <2>2. \A i, j \in 1 .. Len(longer) : i < j => d[i] < d[j]
    BY <1>13, <1>14
  <2>3. \A k \in L : \E i \in 1 .. Len(longer) : d[i] = k
    BY <1>11, <1>14
  <2>4. \A i \in 1 .. Len(longer) : new[d[i]].turn = longer[i]
    BY <1>12, <1>14
  <2> QED
    BY <2>1, <2>2, <2>3, <2>4 DEF Enumerates, L
<1> QED
  BY <1>15 DEF longer

\* A message of the assistant anywhere.
LEMMA EnumerateAssistant ==
  ASSUME NEW list \in Messages, NEW new, NEW row \in OneMessage, NEW p,
         Between(new, list, row, p), row.role = "assistant",
         NEW posted \in Seq(Nat), Enumerates(list, posted)
  PROVE  Enumerates(new, posted)
<1> DEFINE n == Len(posted)
           K == UserRows(list)
           L == UserRows(new)
<1>1. n \in Nat
  BY LenProperties
<1> HIDE DEF n
<1>2. PICK e \in [1 .. n -> K] :
        /\ \A i, j \in 1 .. n : i < j => e[i] < e[j]
        /\ \A k \in K : \E i \in 1 .. n : e[i] = k
        /\ \A i \in 1 .. n : list[e[i]].turn = posted[i]
  BY DEF Enumerates, n
<1>3. /\ Len(list) \in Nat /\ DOMAIN list = 1 .. Len(list) /\ K \in SUBSET (1 .. Len(list))
      /\ DOMAIN new = 1 .. Len(list) + 1 /\ p \in 0 .. Len(list)
      /\ \A i \in 1 .. Len(list) + 1 :
           new[i] = IF i <= p THEN list[i] ELSE IF i = p + 1 THEN row ELSE list[i - 1]
  BY MessageFacts DEF Between
<1> DEFINE Moved(k) == IF k <= p THEN k ELSE k + 1
<1>4. \A k \in DOMAIN list : Moved(k) \in DOMAIN new /\ new[Moved(k)] = list[k]
  <2> TAKE k \in DOMAIN list
  <2>1. CASE k <= p
    BY <2>1, <1>3
  <2>2. CASE ~ (k <= p)
    <3>1. k + 1 \in 1 .. Len(list) + 1 /\ ~ (k + 1 <= p) /\ k + 1 # p + 1 /\ (k + 1) - 1 = k
      BY <2>2, <1>3
    <3> QED
      BY <2>2, <3>1, <1>3
  <2> QED
    BY <2>1, <2>2
<1>5. \A k \in K : Moved(k) \in L
  BY <1>3, <1>4 DEF UserRows
<1>6. ASSUME NEW l \in L
      PROVE  \E k \in K : Moved(k) = l
  <2>1. l \in 1 .. Len(list) + 1 /\ new[l].role = "user"
    BY <1>3 DEF UserRows
  <2>2. CASE l <= p
    <3>1. l \in DOMAIN list /\ list[l].role = "user" /\ Moved(l) = l
      BY <2>1, <2>2, <1>3
    <3> QED
      BY <3>1 DEF UserRows
  <2>3. CASE l = p + 1
    <3>1. new[l] = row
      BY <2>3, <1>3
    <3> QED
      BY <3>1, <2>1
  <2>4. CASE p + 1 < l
    <3>1. l - 1 \in DOMAIN list /\ new[l] = list[l - 1] /\ Moved(l - 1) = l
      BY <2>1, <2>4, <1>3
    <3> QED
      BY <3>1, <2>1 DEF UserRows
  <2> QED
    BY <2>1, <2>2, <2>3, <2>4, <1>3
<1>7. \A j, k \in K : j < k => Moved(j) < Moved(k)
  BY <1>3
<1>8. \A k \in K : new[Moved(k)] = list[k]
  BY <1>3, <1>4
<1> HIDE DEF K, L, Moved
<1> DEFINE d == [i \in 1 .. n |-> Moved(e[i])]
<1>9. \A i \in 1 .. n : d[i] = Moved(e[i]) /\ e[i] \in K
  OBVIOUS
<1>10. d \in [1 .. n -> L]
  BY <1>5
<1> HIDE DEF d
<1>11. \A i, j \in 1 .. n : i < j => d[i] < d[j]
  BY <1>2, <1>7, <1>9
<1>12. \A l \in L : \E i \in 1 .. n : d[i] = l
  <2> TAKE l \in L
  <2>1. PICK k \in K : Moved(k) = l
    BY <1>6
  <2>2. PICK i \in 1 .. n : e[i] = k
    BY <1>2
  <2> QED
    BY <2>1, <2>2, <1>9
<1>13. \A i \in 1 .. n : new[d[i]].turn = posted[i]
  BY <1>2, <1>8, <1>9
<1>14. \E f \in [1 .. n -> L] :
         /\ \A i, j \in 1 .. n : i < j => f[i] < f[j]
         /\ \A k \in L : \E i \in 1 .. n : f[i] = k
         /\ \A i \in 1 .. n : new[f[i]].turn = posted[i]
  BY <1>10, <1>11, <1>12, <1>13
<1> QED
  BY <1>14 DEF Enumerates, L, n

\* What is read of a list is what its user rows enumerate.
LEMMA TextsArePosted ==
  ASSUME NEW list \in Messages, NEW posted \in Seq(Nat), Enumerates(list, posted)
  PROVE  Texts(list) = posted
<1> DEFINE n == Len(posted)
           K == UserRows(list)
           m == Len(list)
<1>1. n \in Nat /\ m \in Nat /\ K \in SUBSET (1 .. m)
  BY LenProperties, MessageFacts
<1> HIDE DEF n
<1>2. PICK e \in [1 .. n -> K] :
        /\ \A i, j \in 1 .. n : i < j => e[i] < e[j]
        /\ \A k \in K : \E i \in 1 .. n : e[i] = k
        /\ \A i \in 1 .. n : list[e[i]].turn = posted[i]
  BY DEF Enumerates, n
<1>3. /\ Len(Texts(list)) = Cardinality(K) /\ Texts(list) \in Seq(Nat)
      /\ \A i \in 1 .. Cardinality(K) : Texts(list)[i] = list[InOrder(K)[i]].turn
  BY TextFacts
<1> HIDE DEF K, m
<1>4. Increasing(e, n)
  BY <1>2 DEF Increasing
<1>5. Cardinality(K) = n
  <2>1. K \in SUBSET Nat
    BY <1>1
  <2>2. e \in Injection(1 .. n, K)
    BY <2>1, <1>1, <1>4, IncreasingIsInjective
  <2>3. e \in Surjection(1 .. n, K)
    BY <1>2 DEF Surjection
  <2>4. e \in Bijection(1 .. n, K)
    BY <2>2, <2>3 DEF Bijection
  <2>5. ExistsBijection(1 .. n, K)
    BY <2>4 DEF ExistsBijection
  <2>6. IsFiniteSet(1 .. n) /\ Cardinality(1 .. n) = n
    BY <1>1, FS_Interval
  <2> QED
    BY <2>5, <2>6, FS_Bijection
<1> DEFINE r == InOrder(K)
<1>6. /\ r \in [1 .. n -> K] /\ Increasing(r, n)
      /\ \A k \in K : \E i \in 1 .. n : r[i] = k
  <2>1. /\ InOrder(K) \in [1 .. Cardinality(K) -> K]
        /\ Increasing(InOrder(K), Cardinality(K))
        /\ \A k \in K : \E i \in 1 .. Cardinality(K) : InOrder(K)[i] = k
    BY <1>1, InOrderFacts
  <2> QED
    BY <2>1, <1>5
<1> HIDE DEF r
<1>7. r = e
  BY <1>1, <1>2, <1>4, <1>6, OrderIsUnique
<1>8. \A i \in 1 .. n : Texts(list)[i] = posted[i]
  BY <1>2, <1>3, <1>5, <1>7 DEF r
<1>9. Len(Texts(list)) = n /\ Len(posted) = n
  BY <1>3, <1>5 DEF n
<1> QED
  BY <1>3, <1>8, <1>9, SeqEqual

\* A step that adds no message to a conversation, and gives none to read.
LEMMA OrderStays ==
  ASSUME NEW c, OrderConv(c), rows[c] \in Messages,
         rows'[c] = rows[c], posts'[c] = posts[c],
         now \in Nat, now' \in Nat, now <= now', AllRead(c)' => AllRead(c) \/ now < now',
         \A s \in Threads : req'[s].conv = c /\ pc'[s] \in Reading =>
           /\ req[s].conv = c /\ pc[s] \in Reading /\ req'[s].turn = req[s].turn
           /\ pc'[s] = "engine" => pc[s] = "engine" /\ prior'[s] = prior[s]
  PROVE  OrderConv(c)'
<1> DEFINE list == rows[c]
<1>1. \A j \in DOMAIN list : list[j].at \in Nat
  BY MessageFacts
<1>2. \A j \in DOMAIN list : list[j].at <= now
  BY DEF OrderConv
<1>3. Enumerates(rows[c], posts[c])'
  BY DEF OrderConv, Enumerates, UserRows
<1>4. \A j \in DOMAIN list : list[j].at <= now'
  BY <1>1, <1>2
<1>5. AllRead(c)' => \A j \in UserRows(list) : list[j].at < now'
  <2>1. AllRead(c) => \A j \in UserRows(list) : list[j].at < now
    BY DEF OrderConv
  <2>2. UserRows(list) \subseteq DOMAIN list
    BY DEF UserRows
  <2> QED
    BY <1>1, <1>2, <2>1, <2>2
<1>6. \A t \in Threads : req'[t].conv = c /\ pc'[t] \in Reading =>
       /\ posts'[c] # <<>> /\ posts'[c][Len(posts'[c])] = req'[t].turn
       /\ pc'[t] = "engine" => prior'[t] = LastOf(SubSeq(posts'[c], 1, Len(posts'[c]) - 1))
  BY DEF OrderConv
<1>7. /\ \A j \in DOMAIN rows'[c] : rows'[c][j].at <= now'
      /\ AllRead(c)' => \A j \in UserRows(rows'[c]) : rows'[c][j].at < now'
  BY <1>4, <1>5
<1>8. \A t \in Threads : (req[t].conv = c /\ pc[t] \in Reading =>
       /\ posts[c] # <<>> /\ posts[c][Len(posts[c])] = req[t].turn
       /\ pc[t] = "engine" => prior[t] = LastOf(SubSeq(posts[c], 1, Len(posts[c]) - 1)))'
  BY <1>6 DEF LastOf
<1>9. /\ (\A j \in DOMAIN rows[c] : rows[c][j].at <= now)'
      /\ (AllRead(c) => \A j \in UserRows(rows[c]) : rows[c][j].at < now)'
  BY <1>7 DEF UserRows
<1> QED
  BY <1>3, <1>8, <1>9 DEF OrderConv

LEMMA BetweenFacts ==
  ASSUME TypeInv, NEW t \in Threads, pc[t] # "idle",
         NEW role \in {"user", "assistant"}, NEW p, MessageAdded(t, role, p)
  PROVE  /\ Between(rows'[req[t].conv], rows[req[t].conv], Message(t, role), p)
         /\ Message(t, role) \in OneMessage /\ Sorted(Message(t, role), p, rows[req[t].conv])
         /\ Message(t, role).role = role /\ Message(t, role).at = now
         /\ Message(t, role).turn = req[t].turn
         /\ rows[req[t].conv] \in Messages /\ req[t].conv \in DOMAIN convs
<1>1. /\ req[t].conv \in DOMAIN convs /\ req[t].user \in Names /\ req[t].turn \in Nat
      /\ now \in Nat
  BY DEF TypeInv, PlaceThread, SessionTypes, TurnTypes
<1>2. Message(t, role) \in OneMessage /\ Message(t, role).role = role
      /\ Message(t, role).at = now /\ Message(t, role).turn = req[t].turn
  BY <1>1 DEF Message, OneMessage
<1>3. rows[req[t].conv] \in Messages
  BY <1>1, TypeFacts
<1>4. /\ Between(rows'[req[t].conv], rows[req[t].conv], Message(t, role), p)
      /\ Sorted(Message(t, role), p, rows[req[t].conv])
  BY DEF MessageAdded, Between
<1> QED
  BY <1>1, <1>2, <1>3, <1>4

\* The rows of a conversation are never later than now, nor those of a list
\* to which a message of now was added.
LEMMA BetweenTimes ==
  ASSUME NEW list \in Messages, NEW new, NEW row \in OneMessage, NEW p,
         Between(new, list, row, p), NEW n \in Nat, row.at = n,
         \A j \in DOMAIN list : list[j].at <= n
  PROVE  \A j \in DOMAIN new : new[j].at <= n
<1>1. /\ Len(list) \in Nat /\ DOMAIN list = 1 .. Len(list) /\ p \in 0 .. Len(list)
      /\ DOMAIN new = 1 .. Len(list) + 1
      /\ \A i \in 1 .. Len(list) + 1 :
           new[i] = IF i <= p THEN list[i] ELSE IF i = p + 1 THEN row ELSE list[i - 1]
  BY MessageFacts DEF Between
<1> TAKE j \in DOMAIN new
<1>2. CASE j <= p
  BY <1>1, <1>2
<1>3. CASE j = p + 1
  <2>1. new[j] = row
    BY <1>1, <1>3
  <2> QED
    BY <2>1
<1>4. CASE p + 1 < j
  <2>1. j - 1 \in DOMAIN list /\ new[j] = list[j - 1]
    BY <1>1, <1>4
  <2> QED
    BY <2>1
<1> QED
  BY <1>1, <1>2, <1>3, <1>4

LEMMA SortedStays ==
  ASSUME TypeInv, \A c \in DOMAIN convs : SortedRows(rows[c]),
         NEW t \in Threads, pc[t] # "idle", UNCHANGED convs,
         NEW role \in {"user", "assistant"}, NEW p, MessageAdded(t, role, p)
  PROVE  \A c \in DOMAIN convs' : SortedRows(rows'[c])
<1> DEFINE k == req[t].conv
<1>1. /\ Between(rows'[k], rows[k], Message(t, role), p)
      /\ Message(t, role) \in OneMessage /\ Sorted(Message(t, role), p, rows[k])
      /\ rows[k] \in Messages /\ k \in DOMAIN convs
  BY BetweenFacts
<1>2. SortedRows(rows'[k])
  BY <1>1, SortedBetween
<1>3. \A c \in DOMAIN convs : c # k => rows'[c] = rows[c]
  BY DEF MessageAdded
<1> QED
  BY <1>2, <1>3

LEMMA OrderUser ==
  ASSUME TypeInv, QueryInv, OrderInv, NEW t \in Threads, AddUserMessage(t)
  PROVE  OrderInv'
<1> DEFINE k == req[t].conv
<1>1. /\ pc[t] = "post" /\ pc' = [pc EXCEPT ![t] = "load"]
      /\ posts'[k] = Append(posts[k], req[t].turn)
      /\ \A c \in DOMAIN convs : c # k => posts'[c] = posts[c]
  BY AddUserTypes
<1>2. PICK p : MessageAdded(t, "user", p)
  BY AddUserTypes
<1>3. UNCHANGED <<now, setBacks, convs, req, mixed>>
  BY DEF AddUserMessage, sessionVars
<1>4. /\ Between(rows'[k], rows[k], Message(t, "user"), p)
      /\ Message(t, "user") \in OneMessage /\ Sorted(Message(t, "user"), p, rows[k])
      /\ Message(t, "user").role = "user" /\ Message(t, "user").at = now
      /\ Message(t, "user").turn = req[t].turn
      /\ rows[k] \in Messages /\ k \in DOMAIN convs
  BY <1>1, <1>2, BetweenFacts
<1>5. \A c \in DOMAIN convs : c # k => rows'[c] = rows[c]
  BY <1>2 DEF MessageAdded
<1>6. \A c \in DOMAIN convs' : SortedRows(rows'[c])
  BY <1>1, <1>2, <1>3, SortedStays DEF OrderInv
<1>7. pc'[t] = "load" /\ \A s \in Threads \ {t} : pc'[s] = pc[s]
  BY <1>1 DEF TypeInv, TurnTypes
<1>8. now \in Nat
  BY DEF TypeInv, SessionTypes
<1>9. ASSUME setBacks = 0, NEW c \in DOMAIN convs, c \notin mixed, c # k
      PROVE  OrderConv(c)'
  <2>1. OrderConv(c) /\ rows[c] \in Messages
    BY <1>9, TypeFacts DEF OrderInv
  <2>2. AllRead(c)' => AllRead(c)
    BY <1>3, <1>7, <1>9 DEF AllRead
  <2>3. \A s \in Threads : req'[s].conv = c /\ pc'[s] \in Reading =>
          /\ req[s].conv = c /\ pc[s] \in Reading /\ req'[s].turn = req[s].turn
          /\ pc'[s] = "engine" => pc[s] = "engine" /\ prior'[s] = prior[s]
    BY <1>3, <1>7, <1>9 DEF AddUserMessage
  <2> QED
    BY <2>1, <2>2, <2>3, <1>1, <1>3, <1>5, <1>8, <1>9, OrderStays
<1>10. ASSUME setBacks = 0, k \notin mixed
       PROVE  \A c : c = k => OrderConv(c)'
  <2> DEFINE list   == rows[k]
             posted == posts[k]
             row    == Message(t, "user")
  <2>1. OrderConv(k) /\ posted \in Seq(Nat)
    BY <1>4, <1>10, TypeFacts DEF OrderInv
  <2>2. \A s \in Threads : req[s].conv = k => s = t
    BY <1>1, <1>10, SavedAlone
  <2>3. AllRead(k)
    BY <2>2, <1>1 DEF AllRead, Reading
  <2>4. \A j \in UserRows(list) : j <= p
    <3>1. ASSUME NEW j \in UserRows(list), ~ (j <= p)
          PROVE  FALSE
      <4>1. /\ Len(list) \in Nat /\ j \in DOMAIN list /\ DOMAIN list = 1 .. Len(list)
            /\ p \in 0 .. Len(list)
        BY <3>1, <1>4, MessageFacts DEF UserRows, Between
      <4>2. p + 1 \in DOMAIN list /\ p + 1 <= j /\ p < Len(list)
        BY <3>1, <4>1
      <4>3. list[p + 1].at <= list[j].at
        BY <4>1, <4>2, <1>4 DEF OrderInv, SortedRows
      <4>4. row.at <= list[p + 1].at
        BY <4>2, <1>4 DEF Sorted
      <4>5. list[j].at < now
        BY <2>1, <2>3, <3>1 DEF OrderConv
      <4>6. list[j].at \in Nat /\ list[p + 1].at \in Nat
        BY <4>1, <4>2, <1>4, MessageFacts
      <4> QED
        BY <4>3, <4>4, <4>5, <4>6, <1>4, <1>8
    <3> QED
      BY <3>1
  <2>5. Enumerates(list, posted)
    BY <2>1 DEF OrderConv
  <2> HIDE DEF row
  <2>6. Enumerates(rows'[k], Append(posted, row.turn))
    BY <1>4, <2>1, <2>4, <2>5, EnumerateUser DEF row
  <2>7. \A j \in DOMAIN rows'[k] : rows'[k][j].at <= now
    <3>1. \A j \in DOMAIN list : list[j].at <= now
      BY <2>1 DEF OrderConv
    <3> QED
      BY <3>1, <1>4, <1>8, BetweenTimes
  <2>8. Len(posted) \in Nat /\ Len(posts'[k]) = Len(posted) + 1
        /\ posts'[k][Len(posts'[k])] = req[t].turn
    BY <2>1, <1>1
  <2>9. posts'[k] # <<>>
    BY <2>8
  <2>10. ASSUME NEW c, c = k
         PROVE  OrderConv(c)'
    <3>1. Enumerates(rows'[c], posts'[c])
      BY <2>6, <2>10, <1>1, <1>4 DEF row
    <3>2. Enumerates(rows[c], posts[c])'
      BY <3>1 DEF Enumerates, UserRows
    <3>3. ~ AllRead(c)'
      BY <2>10, <1>3, <1>7 DEF AllRead, Reading
    <3>4. \A j \in DOMAIN rows'[c] : rows'[c][j].at <= now'
      BY <2>7, <2>10, <1>3
    <3>5. \A s \in Threads : req'[s].conv = c /\ pc'[s] \in Reading =>
            /\ posts'[c] # <<>> /\ posts'[c][Len(posts'[c])] = req'[s].turn
            /\ pc'[s] # "engine"
      BY <2>2, <2>8, <2>9, <2>10, <1>3, <1>7
    <3> QED
      BY <3>2, <3>3, <3>4, <3>5 DEF OrderConv
  <2> QED
    BY <2>10
<1>11. setBacks' = 0 => \A c \in DOMAIN convs' \ mixed' : OrderConv(c)'
  BY <1>3, <1>9, <1>10
<1> QED
  BY <1>6, <1>11 DEF OrderInv

LEMMA OrderAssistant ==
  ASSUME TypeInv, QueryInv, OrderInv, NEW t \in Threads, PersistAssistant(t)
  PROVE  OrderInv'
<1> DEFINE k == req[t].conv
<1>1. /\ pc[t] = "reply" /\ AddRow(t, "assistant") /\ Return(t)
      /\ UNCHANGED <<now, setBacks, convs, posts, mixed>>
  BY DEF PersistAssistant, sessionVars, history
<1>2. PICK p : MessageAdded(t, "assistant", p)
  BY <1>1, AddRowFacts
<1>3. /\ pc'[t] = "idle" /\ req'[t].conv = NoConv
      /\ \A s \in Threads \ {t} : pc'[s] = pc[s] /\ req'[s] = req[s] /\ prior'[s] = prior[s]
  BY <1>1, ReturnFacts DEF NoRequest, Request
<1>4. /\ Between(rows'[k], rows[k], Message(t, "assistant"), p)
      /\ Message(t, "assistant") \in OneMessage
      /\ Message(t, "assistant").role = "assistant" /\ Message(t, "assistant").at = now
      /\ rows[k] \in Messages /\ k \in DOMAIN convs
  BY <1>1, <1>2, BetweenFacts
<1>5. \A c \in DOMAIN convs : c # k => rows'[c] = rows[c]
  BY <1>2 DEF MessageAdded
<1>6. \A c \in DOMAIN convs' : SortedRows(rows'[c])
  BY <1>1, <1>2, SortedStays DEF OrderInv
<1>7. now \in Nat
  BY DEF TypeInv, SessionTypes
<1>8. ASSUME setBacks = 0, NEW c \in DOMAIN convs, c \notin mixed
      PROVE  OrderConv(c)'
  <2>1. OrderConv(c) /\ rows[c] \in Messages /\ c # NoConv /\ posts[c] \in Seq(Nat)
    BY <1>8, TypeFacts DEF OrderInv, NoConv
  <2>2. AllRead(c)' => AllRead(c)
    BY <1>1, <1>3 DEF AllRead, Reading
  <2>3. \A s \in Threads : req'[s].conv = c /\ pc'[s] \in Reading =>
          /\ req[s].conv = c /\ pc[s] \in Reading /\ req'[s].turn = req[s].turn
          /\ pc'[s] = "engine" => pc[s] = "engine" /\ prior'[s] = prior[s]
    BY <2>1, <1>3
  <2>4. CASE c # k
    <3>1. rows'[c] = rows[c] /\ posts'[c] = posts[c]
      BY <2>4, <1>1, <1>5
    <3> QED
      BY <2>1, <2>2, <2>3, <3>1, <1>1, <1>7, OrderStays
  <2>5. CASE c = k
    <3>1. \A s \in Threads : req[s].conv = c => s = t
      BY <2>5, <1>1, <1>8, SavedAlone
    <3>2. \A s \in Threads : req'[s].conv # c
      BY <2>1, <3>1, <1>3
    <3>3. AllRead(c)
      BY <3>1, <1>1 DEF AllRead, Reading
    <3> DEFINE list == rows[c]
               new  == rows'[c]
               row  == Message(t, "assistant")
    <3>4. /\ Between(new, list, row, p) /\ row \in OneMessage /\ row.role = "assistant"
          /\ row.at = now /\ list \in Messages /\ new = rows'[k]
      BY <2>5, <1>4
    <3>5. Enumerates(list, posts[c])
      BY <2>1 DEF OrderConv
    <3>6. Enumerates(new, posts[c])
      BY <2>1, <3>4, <3>5, EnumerateAssistant
    <3>7. \A j \in DOMAIN new : new[j].at <= now
      <4>1. \A j \in DOMAIN list : list[j].at <= now
        BY <2>1 DEF OrderConv
      <4> QED
        BY <3>4, <4>1, <1>7, BetweenTimes
    <3>8. \A j \in UserRows(new) : new[j].at < now
      <4> TAKE j \in UserRows(new)
      <4> HIDE DEF row
      <4>1. /\ Len(list) \in Nat /\ DOMAIN list = 1 .. Len(list) /\ p \in 0 .. Len(list)
            /\ DOMAIN new = 1 .. Len(list) + 1
            /\ \A i \in 1 .. Len(list) + 1 :
                 new[i] = IF i <= p THEN list[i] ELSE IF i = p + 1 THEN row ELSE list[i - 1]
        BY <3>4, MessageFacts DEF Between
      <4>2. j \in 1 .. Len(list) + 1 /\ new[j].role = "user"
        BY <4>1 DEF UserRows
      <4>3. \A i \in UserRows(list) : list[i].at < now
        BY <2>1, <3>3 DEF OrderConv
      <4>4. CASE j <= p
        <5>1. j \in DOMAIN list /\ new[j] = list[j]
          BY <4>1, <4>2, <4>4
        <5> QED
          BY <4>2, <4>3, <5>1 DEF UserRows
      <4>5. CASE j = p + 1
        <5>1. new[j] = row
          BY <4>1, <4>2, <4>5
        <5> QED
          BY <4>2, <5>1, <3>4
      <4>6. CASE p + 1 < j
        <5>1. j - 1 \in DOMAIN list /\ new[j] = list[j - 1]
          BY <4>1, <4>2, <4>6
        <5> QED
          BY <4>2, <4>3, <5>1 DEF UserRows
      <4> QED
        BY <4>1, <4>2, <4>4, <4>5, <4>6
    <3> HIDE DEF list, new, row
    <3>9. Enumerates(rows'[c], posts'[c])
      BY <3>6, <1>1 DEF new
    <3>10. Enumerates(rows[c], posts[c])'
      BY <3>9 DEF Enumerates, UserRows
    <3>11. /\ \A j \in DOMAIN rows'[c] : rows'[c][j].at <= now'
           /\ \A j \in UserRows(rows'[c]) : rows'[c][j].at < now'
      BY <3>7, <3>8, <1>1 DEF new
    <3>12. \A j \in UserRows(rows[c])' : rows'[c][j].at < now'
      BY <3>11 DEF UserRows
    <3> QED
      BY <3>2, <3>10, <3>11, <3>12 DEF OrderConv
  <2> QED
    BY <2>4, <2>5
<1>9. setBacks' = 0 => \A c \in DOMAIN convs' \ mixed' : OrderConv(c)'
  BY <1>1, <1>8
<1> QED
  BY <1>6, <1>9 DEF OrderInv

\* What is left of a text list when the current one is dropped.
LEMMA DroppedCurrent ==
  ASSUME NEW posted \in Seq(Nat), NEW turn, posted # <<>>, posted[Len(posted)] = turn
  PROVE  WithoutCurrent(posted, turn) = SubSeq(posted, 1, Len(posted) - 1)
BY DEF WithoutCurrent

LEMMA OrderPrior ==
  ASSUME TypeInv, QueryInv, OrderInv, NEW t \in Threads, PriorUserUtterances(t)
  PROVE  OrderInv'
<1> DEFINE k == req[t].conv
<1>1. /\ pc[t] = "utterances" /\ pc' = [pc EXCEPT ![t] = "engine"]
      /\ \A s \in Threads \ {t} : prior'[s] = prior[s]
      /\ UNCHANGED <<sessionVars, store, knowledge, turns, retries, failed, req, sess, asked,
                     history>>
  BY PriorFacts
<1>2. UNCHANGED <<now, setBacks, convs, rows, req, posts, mixed>>
  BY <1>1 DEF sessionVars, store, history
<1>3. prior'[t] = LastOf(WithoutCurrent(Texts(rows[k]), req[t].turn))
  BY PriorFacts
<1>4. pc'[t] = "engine" /\ \A s \in Threads \ {t} : pc'[s] = pc[s]
  BY <1>1 DEF TypeInv, TurnTypes
<1>5. /\ now \in Nat /\ k \in DOMAIN convs
  BY <1>1 DEF TypeInv, SessionTypes, PlaceThread
<1>6. ASSUME setBacks = 0, NEW c \in DOMAIN convs, c \notin mixed
      PROVE  OrderConv(c)'
  <2>1. OrderConv(c) /\ rows[c] \in Messages /\ posts[c] \in Seq(Nat)
    BY <1>6, TypeFacts DEF OrderInv
  <2>2. AllRead(c)' => AllRead(c)
    BY <1>1, <1>2, <1>4 DEF AllRead, Reading
  <2>3. CASE c # k
    <3>1. \A s \in Threads : req'[s].conv = c /\ pc'[s] \in Reading =>
            /\ req[s].conv = c /\ pc[s] \in Reading /\ req'[s].turn = req[s].turn
            /\ pc'[s] = "engine" => pc[s] = "engine" /\ prior'[s] = prior[s]
      BY <2>3, <1>1, <1>2, <1>4
    <3> QED
      BY <2>1, <2>2, <3>1, <1>2, <1>5, OrderStays
  <2>4. CASE c = k
    <3>1. \A s \in Threads : req[s].conv = c => s = t
      BY <2>4, <1>1, <1>6, SavedAlone
    <3>2. posts[c] # <<>> /\ posts[c][Len(posts[c])] = req[t].turn
      BY <2>1, <2>4, <1>1 DEF OrderConv, Reading
    <3>3. Texts(rows[c]) = posts[c]
      BY <2>1, TextsArePosted DEF OrderConv
    <3>4. WithoutCurrent(posts[c], req[t].turn) = SubSeq(posts[c], 1, Len(posts[c]) - 1)
      BY <2>1, <3>2, DroppedCurrent
    <3>5. prior'[t] = LastOf(SubSeq(posts[c], 1, Len(posts[c]) - 1))
      BY <2>4, <3>3, <3>4, <1>3
    <3>6. Enumerates(rows[c], posts[c])'
      BY <2>1, <1>2 DEF OrderConv, Enumerates, UserRows
    <3>7. ~ AllRead(c)'
      BY <2>4, <1>2, <1>4 DEF AllRead, Reading
    <3>8. \A j \in DOMAIN rows'[c] : rows'[c][j].at <= now'
      BY <2>1, <1>2 DEF OrderConv
    <3>9. \A s \in Threads : req'[s].conv = c /\ pc'[s] \in Reading =>
            /\ posts'[c] # <<>> /\ posts'[c][Len(posts'[c])] = req'[s].turn
            /\ prior'[s] = LastOf(SubSeq(posts'[c], 1, Len(posts'[c]) - 1))
      BY <3>1, <3>2, <3>5, <1>2
    <3> QED
      BY <3>6, <3>7, <3>8, <3>9 DEF OrderConv, LastOf
  <2> QED
    BY <2>3, <2>4
<1>7. setBacks' = 0 => \A c \in DOMAIN convs' \ mixed' : OrderConv(c)'
  BY <1>2, <1>6
<1>8. \A c \in DOMAIN convs' : SortedRows(rows'[c])
  BY <1>2 DEF OrderInv
<1> QED
  BY <1>7, <1>8 DEF OrderInv

\* The steps that add no message and read none.
LEMMA OrderOthers ==
  ASSUME TypeInv, OrderInv, NEW t,
         UNCHANGED <<rows, posts, mixed>>, DOMAIN convs' = DOMAIN convs,
         now' \in Nat, setBacks \in Nat, setBacks' = 0 => setBacks = 0 /\ now <= now',
         \A s \in Threads \ {t} : pc'[s] = pc[s] /\ req'[s] = req[s] /\ prior'[s] = prior[s],
         t \in Threads /\ (pc'[t] # pc[t] \/ req'[t] # req[t] \/ prior'[t] # prior[t]) =>
           \/ pc[t] \in Reading /\ pc'[t] = "utterances" /\ req'[t] = req[t]
           \/ pc[t] \in Reading /\ pc'[t] \notin Reading /\ now' = now + 1
           \/ pc[t] \notin Reading /\ pc'[t] \notin Reading
  PROVE  OrderInv'
<1>1. now \in Nat
  BY DEF TypeInv, SessionTypes
<1>2. ASSUME setBacks' = 0, NEW c \in DOMAIN convs, c \notin mixed
      PROVE  OrderConv(c)'
  <2>1. OrderConv(c) /\ rows[c] \in Messages /\ now <= now'
    BY <1>2, TypeFacts DEF OrderInv
  <2>2. AllRead(c)' => AllRead(c) \/ now < now'
    <3>1. ASSUME AllRead(c)', ~ (now < now'), NEW s \in Threads, req[s].conv = c,
                 pc[s] \in Reading
          PROVE  FALSE
      <4>1. req'[s].conv = c => pc'[s] \notin Reading
        BY <3>1 DEF AllRead
      <4>2. s = t
        BY <3>1, <4>1
      <4>3. now' # now + 1
        BY <3>1, <1>1
      <4> QED
        BY <3>1, <4>1, <4>2, <4>3 DEF Reading
    <3> QED
      BY <3>1 DEF AllRead
  <2>3. \A s \in Threads : req'[s].conv = c /\ pc'[s] \in Reading =>
          /\ req[s].conv = c /\ pc[s] \in Reading /\ req'[s].turn = req[s].turn
          /\ pc'[s] = "engine" => pc[s] = "engine" /\ prior'[s] = prior[s]
    <3> TAKE s \in Threads
    <3>1. CASE s # t
      BY <3>1
    <3>2. CASE s = t
      BY <3>2 DEF Reading
    <3> QED
      BY <3>1, <3>2
  <2> QED
    BY <2>1, <2>2, <2>3, <1>1, OrderStays
<1>3. setBacks' = 0 => \A c \in DOMAIN convs' \ mixed' : OrderConv(c)'
  BY <1>2
<1>4. \A c \in DOMAIN convs' : SortedRows(rows'[c])
  BY DEF OrderInv
<1> QED
  BY <1>3, <1>4 DEF OrderInv

LEMMA OrderSessions ==
  ASSUME TypeInv, OrderInv, Sessions \/ UNCHANGED vars
  PROVE  OrderInv'
<1>1. UNCHANGED <<convs, rows, posts, mixed, pc, req, prior>>
  BY DEF Sessions, vars, thread, store, history
<1>2. now \in Nat /\ setBacks \in Nat /\ SessionTypes
  BY DEF TypeInv, SessionTypes
<1>3. now' \in Nat /\ setBacks' = 0 => setBacks = 0 /\ now <= now'
  <2>1. CASE UNCHANGED <<now, setBacks>>
    BY <2>1, <1>2
  <2>2. CASE now' = now + 1 /\ setBacks' = setBacks
    BY <2>2, <1>2
  <2>3. CASE setBacks' = setBacks + 1 /\ now' \in Nat
    BY <2>3, <1>2
  <2>4. ASSUME NEW n \in 0 .. MaxTime, SetBack(n)
        PROVE  setBacks' = setBacks + 1 /\ now' \in Nat
    BY <2>4, SessionAssumption DEF SetBack
  <2> QED
    BY <2>1, <2>2, <2>3, <2>4 DEF Sessions, vars, sessionVars, BeginRegister, FinishRegister,
       Login, Logout, RefuseExpired, Tick
<1>4. now' \in Nat
  <2>1. CASE UNCHANGED vars
    BY <2>1, <1>2 DEF vars, sessionVars
  <2>2. CASE Sessions
    BY <2>2, <1>2, SessionSteps DEF SessionTypes
  <2> QED
    BY <2>1, <2>2
<1>5. ASSUME NEW t
      PROVE  OrderInv'
  BY <1>1, <1>2, <1>3, <1>4, OrderOthers
<1> QED
  BY <1>5

\* What a turn does after its message was added: reading, the engine, the end.
LEMMA OrderWorks ==
  ASSUME TypeInv, OrderInv, NEW t \in Threads,
         LoadSession(t) \/ Engine(t) \/ SaveSession(t) \/ Fail(t)
  PROVE  OrderInv'
<1>1. /\ now \in Nat /\ setBacks \in Nat /\ pc \in [Threads -> Steps]
      /\ req \in [Threads -> Requests]
  BY DEF TypeInv, SessionTypes, TurnTypes
<1>2. CASE LoadSession(t)
  <2>1. /\ pc[t] = "load" /\ pc' = [pc EXCEPT ![t] = "utterances"]
        /\ UNCHANGED <<now, setBacks, convs, rows, posts, mixed, req, prior>>
    BY <1>2 DEF LoadSession, Goto, sessionVars, store, history
  <2>2. pc'[t] = "utterances" /\ \A s \in Threads \ {t} : pc'[s] = pc[s]
    BY <2>1, <1>1
  <2>3. pc[t] \in Reading /\ DOMAIN convs' = DOMAIN convs
    BY <2>1 DEF Reading
  <2> QED
    BY <2>1, <2>2, <2>3, <1>1, OrderOthers
<1>3. CASE Engine(t)
  <2>1. EngineStep(t) /\ \E s, a, dirty : EngineResult(t, s, a, dirty)
    BY <1>3, EngineFacts
  <2>2. PICK dirty : req' = [req EXCEPT ![t].dirty = dirty]
    BY <2>1 DEF EngineResult
  <2>3. /\ pc[t] = "engine" /\ pc' = [pc EXCEPT ![t] = "save"] /\ now' = now + 1
        /\ UNCHANGED <<setBacks, convs, rows, posts, mixed, prior>>
    BY <2>1 DEF EngineStep, store
  <2>4. /\ pc'[t] = "save" /\ \A s \in Threads \ {t} : pc'[s] = pc[s]
    BY <2>3, <1>1
  <2>5. \A s \in Threads \ {t} : req'[s] = req[s]
    BY <2>2, <1>1
  <2>6. /\ pc[t] \in Reading /\ pc'[t] \notin Reading /\ DOMAIN convs' = DOMAIN convs
        /\ now' \in Nat /\ now <= now'
    BY <2>3, <2>4, <1>1 DEF Reading
  <2> QED
    BY <2>3, <2>4, <2>5, <2>6, <1>1, OrderOthers
<1>4. CASE SaveSession(t)
  <2>1. /\ pc[t] = "save" /\ pc' = [pc EXCEPT ![t] = "reply"] /\ convs' = Saved(t)
        /\ UNCHANGED <<now, setBacks, rows, posts, mixed, req, prior>>
    BY <1>4 DEF SaveSession, Goto, sessionVars
  <2>2. pc'[t] = "reply" /\ \A s \in Threads \ {t} : pc'[s] = pc[s]
    BY <2>1, <1>1
  <2>3. pc[t] \notin Reading /\ pc'[t] \notin Reading
    BY <2>1, <2>2 DEF Reading
  <2>4. DOMAIN convs' = DOMAIN convs
    BY <2>1 DEF Saved
  <2> QED
    BY <2>1, <2>2, <2>3, <2>4, <1>1, OrderOthers
<1>5. CASE Fail(t)
  <2>1. /\ Return(t) /\ now' = now + 1 /\ pc[t] # "idle"
        /\ UNCHANGED <<setBacks, convs, rows, posts, mixed>>
    BY <1>5 DEF Fail, store
  <2>2. /\ pc'[t] = "idle"
        /\ \A s \in Threads \ {t} : pc'[s] = pc[s] /\ req'[s] = req[s] /\ prior'[s] = prior[s]
    BY <2>1, ReturnFacts
  <2>3. pc'[t] \notin Reading /\ DOMAIN convs' = DOMAIN convs /\ now' \in Nat /\ now <= now'
    BY <2>1, <2>2, <1>1 DEF Reading
  <2> QED
    BY <2>1, <2>2, <2>3, <1>1, OrderOthers
<1> QED
  BY <1>2, <1>3, <1>4, <1>5

LEMMA OrderPost ==
  ASSUME TypeInv, OrderInv, NEW t \in Threads, NEW u, NEW turn, NEW wanted, NEW conv,
         PostResult(t, u, turn, wanted, conv)
  PROVE  OrderInv'
<1>1. /\ pc[t] = "idle" /\ pc'[t] = "post"
      /\ UNCHANGED <<events, sess, asked, lost, completed, now, setBacks>>
  BY PostLeaves
<1>2. \A s \in Threads \ {t} : pc'[s] = pc[s] /\ req'[s] = req[s]
  BY PostLeaves
<1>3. /\ DOMAIN convs' = DOMAIN convs \cup {conv}
      /\ \A c \in DOMAIN convs : rows'[c] = rows[c] /\ posts'[c] = posts[c]
  BY PostLeaves
<1>4. conv \notin DOMAIN convs => rows'[conv] = <<>> /\ posts'[conv] = <<>>
  BY PostLeaves
<1>5. /\ \A s \in Threads : req[s].conv # NoConv => req[s].conv \in DOMAIN convs
      /\ mixed \subseteq mixed' /\ conv \in Nat \ {0}
  BY PostLeaves
<1>6. prior' = prior /\ now \in Nat
  BY DEF PostResult, TypeInv, SessionTypes
<1>7. \A s \in Threads : pc'[s] \in Reading =>
        pc[s] \in Reading /\ req'[s] = req[s] /\ prior'[s] = prior[s] /\ pc'[s] = pc[s]
  BY <1>1, <1>2, <1>6 DEF Reading
<1>8. \A s \in Threads : pc[s] \in Reading => s # t
  BY <1>1 DEF Reading
<1>9. ASSUME setBacks = 0, NEW c \in DOMAIN convs, c \notin mixed
      PROVE  OrderConv(c)'
  <2>1. OrderConv(c) /\ rows[c] \in Messages
    BY <1>9, TypeFacts DEF OrderInv
  <2>2. AllRead(c)' => AllRead(c)
    BY <1>2, <1>8 DEF AllRead
  <2> QED
    BY <2>1, <2>2, <1>1, <1>3, <1>6, <1>7, OrderStays
<1>10. ASSUME conv \notin DOMAIN convs
       PROVE  \A c : c = conv => OrderConv(c)' /\ SortedRows(rows'[c])
  <2> TAKE c
  <2> SUFFICES ASSUME c = conv PROVE OrderConv(c)' /\ SortedRows(rows'[c])
    OBVIOUS
  <2>1. rows'[c] = <<>> /\ posts'[c] = <<>>
    BY <1>4, <1>10
  <2>2. \A s \in Threads : req'[s].conv = c => pc'[s] \notin Reading
    BY <1>2, <1>5, <1>7, <1>10 DEF NoConv
  <2>3. Enumerates(<<>>, <<>>)
    <3>1. UserRows(<<>>) = {} /\ Len(<<>>) = 0
      BY DEF UserRows
    <3>2. <<>> \in [1 .. Len(<<>>) -> UserRows(<<>>)]
      BY <3>1
    <3> QED
      BY <3>1, <3>2 DEF Enumerates
  <2>4. Enumerates(rows'[c], posts'[c])
    BY <2>1, <2>3
  <2>5. Enumerates(rows[c], posts[c])'
    BY <2>4 DEF Enumerates, UserRows
  <2>6. DOMAIN rows'[c] = {}
    BY <2>1
  <2>7. UserRows(rows[c])' = {}
    BY <2>6 DEF UserRows
  <2>8. SortedRows(rows'[c])
    BY <2>6 DEF SortedRows
  <2> QED
    BY <2>2, <2>5, <2>6, <2>7, <2>8 DEF OrderConv
<1>11. setBacks' = 0 => \A c \in DOMAIN convs' \ mixed' : OrderConv(c)'
  BY <1>1, <1>3, <1>5, <1>9, <1>10
<1>12. \A c \in DOMAIN convs' : SortedRows(rows'[c])
  BY <1>3, <1>10 DEF OrderInv
<1> QED
  BY <1>11, <1>12 DEF OrderInv

LEMMA OrderStep == TypeInv /\ QueryInv /\ OrderInv /\ [Next]_vars => OrderInv'
<1> SUFFICES ASSUME TypeInv, QueryInv, OrderInv, [Next]_vars PROVE OrderInv'
  OBVIOUS
<1>1. CASE Sessions \/ UNCHANGED vars
  BY <1>1, OrderSessions
<1>2. ASSUME NEW t \in Threads, NEW i, NEW turn, NEW c, Post(t, i, turn, c)
      PROVE  OrderInv'
  BY <1>2, PostFacts, OrderPost
<1>3. ASSUME NEW t \in Threads, AddUserMessage(t)
      PROVE  OrderInv'
  BY <1>3, OrderUser
<1>4. ASSUME NEW t \in Threads, PriorUserUtterances(t)
      PROVE  OrderInv'
  BY <1>4, OrderPrior
<1>5. ASSUME NEW t \in Threads, PersistAssistant(t)
      PROVE  OrderInv'
  BY <1>5, OrderAssistant
<1>6. ASSUME NEW t \in Threads, LoadSession(t) \/ Engine(t) \/ SaveSession(t) \/ Fail(t)
      PROVE  OrderInv'
  BY <1>6, OrderWorks
<1> QED
  BY <1>1, <1>2, <1>3, <1>4, <1>5, <1>6 DEF Next

\* PriorIsHistory of Conversations: an interpreter is given the last of what
\* was posted to the conversation before the current message, in the order it
\* was posted, unless turns overlapped in it or the clock was set back.
THEOREM PriorIsGiven == Spec => []PriorIsHistory
<1>1. Init => OrderInv
  <2> SUFFICES ASSUME Init PROVE OrderInv
    OBVIOUS
  <2>1. DOMAIN convs = {}
    BY DEF Init
  <2> QED
    BY <2>1 DEF OrderInv
<1>2. TypeInv /\ OrderInv => PriorIsHistory
  <2> SUFFICES ASSUME TypeInv, OrderInv, NEW t \in Threads, pc[t] = "engine",
                      req[t].conv \notin mixed, setBacks = 0
               PROVE  prior[t] = LastOf(SubSeq(posts[req[t].conv], 1,
                                               Len(posts[req[t].conv]) - 1))
    BY DEF PriorIsHistory
  <2>1. PlaceThread(t)
    BY DEF TypeInv
  <2>2. req[t].conv \in DOMAIN convs
    BY <2>1 DEF PlaceThread
  <2>3. OrderConv(req[t].conv)
    BY <2>2 DEF OrderInv
  <2> QED
    BY <2>3 DEF OrderConv, Reading
<1> QED
  BY <1>1, <1>2, QueryInit, QueryStep, OrderStep, TypeCorrect, PTL DEF Spec
===============================================================================
