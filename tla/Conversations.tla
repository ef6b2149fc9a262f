----------------------------- MODULE Conversations ------------------------------
(***************************************************************************)
(* Turns of several users in their conversations: the bearer is resolved,  *)
(* the conversation found or created, the user's row added, the engine     *)
(* session and the earlier utterances read, the engine run, the session    *)
(* saved whole, and the reply stored.  A session is a discourse state and  *)
(* the last event of the conversation; an interpretation is any that an    *)
(* external provider may give.                                             *)
(***************************************************************************)
EXTENDS ProductSessions, DiscourseFocus

CONSTANTS
  Threads,
  Recent,       \* earlier utterances an interpreter is given (8)
  MaxTurns,     \* bound on the messages that users write
  MaxConvs,     \* bound on conversations
  MaxEntities,  \* bound on entities
  MaxRetries,   \* bound on requests that are sent again
  Starts        \* accounts, sessions and entities that are there at the start

ASSUME RecentAssumption == Recent \in Nat \ {0}

\* Every session was given to one who knew the password of its account.
ASSUME StartsAssumption ==
  \A start \in Starts :
    /\ start.accounts \in [Names -> Clients \cup {None}]
    /\ start.tokens \in Seq([user : Names, holder : Clients, expires : Nat, revoked : BOOLEAN])
    /\ \A i \in DOMAIN start.tokens :
         start.accounts[start.tokens[i].user] = start.tokens[i].holder
    /\ start.entities \in Seq(Names)

VARIABLES
  convs,     \* conversations: owner and engine session
  rows,      \* conversation -> its messages, as list_messages orders them
  entities,  \* knowledge: the owner of each entity
  events,    \* knowledge: the conversation that each event was told in, and
             \* whether the session of the turn was told of it (history)
  turns, retries, failed,  \* messages written, sent again, and the failed ones
  pc, req, sess, prior, asked,  \* the threads
  posts,     \* conversation -> the turns posted to it, in order (history)
  mixed,     \* conversations that two turns were in at once (history)
  lost,      \* conversations whose session was not saved after a commit (history)
  completed  \* turns whose pending query a later turn completed (history)

store     == <<convs, rows>>
knowledge == <<entities, events>>
thread    == <<pc, req, sess, prior, asked>>
history   == <<posts, mixed, lost, completed>>
vars == <<sessionVars, store, knowledge, turns, retries, failed, thread, history>>

NoConv    == 0
Request(user, turn, wanted, conv) ==
  [user |-> user, turn |-> turn, wanted |-> wanted, conv |-> conv, dirty |-> FALSE]
NoRequest == Request(None, 0, NoConv, NoConv)
NewSession == [discourse |-> NewState, last |-> 0]
Own(turn, kind, subject) == [kind |-> kind, about |-> turn, subject |-> subject]
NotAsked  == [query |-> Own(0, "none", FALSE), about |-> 0, completes |-> 0]

Home(u) == {e \in DOMAIN entities : entities[e] = u}

Init ==
  /\ \E start \in Starts : SessionsInit(start) /\ entities = start.entities
  /\ convs = <<>> /\ rows = <<>> /\ events = <<>>
  /\ turns = 0 /\ retries = 0 /\ failed = {}
  /\ pc = [t \in Threads |-> "idle"]
  /\ req = [t \in Threads |-> NoRequest]
  /\ sess = [t \in Threads |-> NewSession]
  /\ prior = [t \in Threads |-> <<>>]
  /\ asked = [t \in Threads |-> NotAsked]
  /\ posts = <<>> /\ mixed = {} /\ lost = {} /\ completed = {}

Goto(t, step) == pc' = [pc EXCEPT ![t] = step]

Return(t) ==
  /\ Goto(t, "idle")
  /\ req' = [req EXCEPT ![t] = NoRequest]
  /\ sess' = [sess EXCEPT ![t] = NewSession]
  /\ prior' = [prior EXCEPT ![t] = <<>>]
  /\ asked' = [asked EXCEPT ![t] = NotAsked]

-----------------------------------------------------------------------------
(* Faulty variants of definitions below, for mutation runs.                *)

\* A conversation is found by its id alone.
FoundByIdAlone(u, c) == c \in DOMAIN convs

\* The session that is saved is the one that was loaded.
SavesLoaded(t) == convs

\* The candidates of an ambiguous mention are not those of one user.
EveryCandidate(u) == DOMAIN entities

\* The current utterance is kept among the earlier ones.
KeepsCurrent(texts, turn) == texts

-----------------------------------------------------------------------------
\* get_conversation: by id and user.
Found(u, c) == c \in DOMAIN convs /\ convs[c].owner = u

\* The message list is ordered by instant, and at random within one.
Sorted(row, p, list) ==
  /\ p \in 0 .. Len(list)
  /\ p > 0 => list[p].at <= row.at
  /\ p < Len(list) => row.at <= list[p + 1].at

AddRow(t, role) ==
  LET c   == req[t].conv
      row == [turn |-> req[t].turn, user |-> req[t].user, role |-> role, at |-> now]
  IN \E p \in 0 .. Len(rows[c]) :
       /\ Sorted(row, p, rows[c])
       /\ rows' = [rows EXCEPT ![c] = SubSeq(@, 1, p) \o <<row>> \o SubSeq(@, p + 1, Len(@))]

\* get_auth, then send_message up to _require_or_create: a new message, or a
\* failed one with the request id and the conversation it had.
Post(t, i, turn, c) ==
  /\ pc[t] = "idle"
  /\ Admitted(i)
  /\ LET u == tokens[i].user IN
     /\ \/ turn = turns + 1 /\ turns < MaxTurns
           /\ turns' = turn /\ UNCHANGED <<retries, failed>>
        \/ [turn |-> turn, user |-> u, wanted |-> c] \in failed /\ retries < MaxRetries
           /\ failed' = failed \ {[turn |-> turn, user |-> u, wanted |-> c]}
           /\ retries' = retries + 1 /\ UNCHANGED turns
     /\ \/ /\ Found(u, c)
           /\ req' = [req EXCEPT ![t] = Request(u, turn, c, c)]
           /\ mixed' = IF \E s \in Threads : req[s].conv = c THEN mixed \cup {c} ELSE mixed
           /\ UNCHANGED <<store, posts>>
        \/ /\ c = NoConv /\ Len(convs) < MaxConvs
           /\ convs' = Append(convs, [owner |-> u, session |-> NewSession])
           /\ rows' = Append(rows, <<>>)
           /\ posts' = Append(posts, <<>>)
           /\ req' = [req EXCEPT ![t] = Request(u, turn, NoConv, Len(convs) + 1)]
           /\ UNCHANGED mixed
  /\ Goto(t, "post")
  /\ UNCHANGED <<sessionVars, knowledge, sess, prior, asked, lost, completed>>

AddUserMessage(t) ==
  /\ pc[t] = "post"
  /\ AddRow(t, "user")
  /\ posts' = [posts EXCEPT ![req[t].conv] = Append(@, req[t].turn)]
  /\ Goto(t, "load")
  /\ UNCHANGED <<sessionVars, convs, knowledge, turns, retries, failed, req, sess, prior,
                 asked, mixed, lost, completed>>

LoadSession(t) ==
  /\ pc[t] = "load"
  /\ sess' = [sess EXCEPT ![t] = convs[req[t].conv].session]
  /\ Goto(t, "utterances")
  /\ UNCHANGED <<sessionVars, store, knowledge, turns, retries, failed, req, prior, asked,
                 history>>

\* The last text is dropped if it is the current one.
WithoutCurrent(texts, turn) ==
  IF texts # <<>> /\ texts[Len(texts)] = turn THEN SubSeq(texts, 1, Len(texts) - 1) ELSE texts

LastOf(texts) == SubSeq(texts, (IF Len(texts) > Recent THEN Len(texts) - Recent ELSE 0) + 1,
                        Len(texts))

PriorUserUtterances(t) ==
  /\ pc[t] = "utterances"
  /\ LET list  == rows[req[t].conv]
         mine  == Kept(list, {i \in DOMAIN list : list[i].role = "user"})
         texts == [i \in DOMAIN mine |-> mine[i].turn]
     IN prior' = [prior EXCEPT ![t] = LastOf(WithoutCurrent(texts, req[t].turn))]
  /\ Goto(t, "engine")
  /\ UNCHANGED <<sessionVars, store, knowledge, turns, retries, failed, req, sess, asked,
                 history>>

\* The engine takes time; what it leaves in the working copy of the session.
EngineReturns(t) ==
  /\ pc[t] = "engine" /\ now < MaxTime
  /\ now' = now + 1
  /\ Goto(t, "save")
  /\ UNCHANGED <<setBacks, accounts, registering, tokens, ended, store, turns, retries,
                 failed, prior, posts, mixed, lost>>

\* Rejected, unsupported, unresolved, ambiguous, or the provider failed: the
\* services return before they touch the session.
Unheard(t) ==
  /\ EngineReturns(t)
  /\ UNCHANGED <<knowledge, req, sess, asked, completed>>

\* The entities a name may be resolved to, or be ambiguous between.
Candidates(u) == Home(u)

Queries(turn) ==
  {Own(turn, kind, subject) : kind \in {"attribute", "other"}, subject \in BOOLEAN}
  \cup {[kind |-> "subject_only", about |-> 0, subject |-> TRUE]}

\* AskService.ask for a query that is executed: the focus is what was found.
Answer(t, query, ids) ==
  LET q == Filled(query, sess[t].discourse.pending)
      d == sess[t].discourse IN
  /\ query \in Queries(req[t].turn)
  /\ q.kind = "attribute" => q.subject
  /\ q.subject => ids # {}
  /\ ids \subseteq Home(req[t].user) \cup {Principal}
  /\ EngineReturns(t)
  /\ sess' = [sess EXCEPT ![t].discourse = Refocus(d, ids, TRUE)]
  /\ asked' = [asked EXCEPT ![t] =
       [query |-> query, about |-> q.about,
        completes |-> IF q.about = d.pending.turn /\ ids # {Principal} THEN q.about ELSE 0]]
  /\ UNCHANGED <<knowledge, req, completed>>

\* AskService.ask when the builder finds several subjects.
Ambiguous(t, query, ids) ==
  LET q == Filled(query, sess[t].discourse.pending)
      d == sess[t].discourse IN
  /\ query \in Queries(req[t].turn)
  /\ q.kind = "attribute" /\ q.subject
  /\ ids \subseteq Candidates(req[t].user) /\ Cardinality(ids) > 1
  /\ EngineReturns(t)
  /\ sess' = [sess EXCEPT ![t].discourse = StorePending(d, q.about, ids)]
  /\ UNCHANGED <<knowledge, req, asked, completed>>

\* What is committed is about an entity that is new or that was found, and is
\* an event or not.
Committed(t, id, isEvent, heard) ==
  /\ \/ /\ id = Len(entities) + 1 /\ id <= MaxEntities
        /\ entities' = Append(entities, req[t].user)
     \/ id \in Home(req[t].user) \cup {Principal} /\ UNCHANGED entities
  /\ events' = IF isEvent THEN Append(events, [conv |-> req[t].conv, heard |-> heard])
               ELSE events

\* IngestService.ingest for a claim that is committed; an id that the
\* interpreter names was offered.  _touch_context swallows its exceptions: the
\* turn then goes on with the last event that the session had.
Tell(t, id, offered, isEvent, continues, heard) ==
  LET d == Refocus(sess[t].discourse, {id}, ~ continues) IN
  /\ Committed(t, id, isEvent, heard)
  /\ offered /\ id \in Home(req[t].user) => BindingAllowed(sess[t].discourse, id)
  /\ EngineReturns(t)
  /\ sess' = [sess EXCEPT ![t] =
       [discourse |-> d, last |-> IF isEvent /\ heard THEN Len(events) + 1 ELSE @.last]]
  /\ req' = [req EXCEPT ![t].dirty = TRUE]
  /\ UNCHANGED <<asked, completed>>

\* A REPLACE that is committed, whatever it replaces: nothing of the session
\* is touched, also if what takes the place is an event.
Replace(t, id, isEvent) ==
  /\ Committed(t, id, isEvent, FALSE)
  /\ EngineReturns(t)
  /\ UNCHANGED <<req, sess, asked, completed>>

\* save_engine_session writes the working copy over whatever is there.
Saved(t) == [convs EXCEPT ![req[t].conv].session = sess[t]]

SaveSession(t) ==
  /\ pc[t] = "save"
  /\ convs' = Saved(t)
  /\ completed' = completed \cup ({asked[t].completes} \ {0})
  /\ Goto(t, "reply")
  /\ UNCHANGED <<sessionVars, rows, knowledge, turns, retries, failed, req, sess, prior,
                 asked, posts, mixed, lost>>

PersistAssistant(t) ==
  /\ pc[t] = "reply"
  /\ AddRow(t, "assistant")
  /\ Return(t)
  /\ UNCHANGED <<sessionVars, convs, knowledge, turns, retries, failed, history>>

\* An exception before the key is completed: of the store, or of the engine,
\* which raises for an id of another user's entity, or after its commit when
\* it reads what the discourse needs.  The key becomes failed.
\* A request that fails has taken an instant at least, as one that does not.
Fail(t) ==
  /\ pc[t] \in {"post", "load", "utterances", "engine", "save"}
  /\ now < MaxTime /\ now' = now + 1
  /\ failed' = failed \cup {[turn |-> req[t].turn, user |-> req[t].user,
                             wanted |-> req[t].wanted]}
  /\ lost' = IF req[t].dirty THEN lost \cup {req[t].conv} ELSE lost
  /\ Return(t)
  /\ UNCHANGED <<setBacks, accounts, registering, tokens, ended, store, knowledge, turns,
                 retries, posts, mixed, completed>>

Sessions ==
  /\ \/ \E c \in Clients, n \in Names : BeginRegister(c, n) \/ Login(c, n)
     \/ \E c \in Clients : FinishRegister(c)
     \/ \E i \in 1 .. MaxTokens : Logout(i) \/ RefuseExpired(i)
     \/ Tick
     \/ \E n \in 0 .. MaxTime : SetBack(n)
  /\ UNCHANGED <<store, knowledge, turns, retries, failed, thread, history>>

Engine(t) ==
  \/ Unheard(t)
  \/ \E query \in Queries(req[t].turn), ids \in SUBSET (DOMAIN entities \cup {Principal}) :
       Answer(t, query, ids) \/ Ambiguous(t, query, ids)
  \/ \E id \in 0 .. MaxEntities, isEvent, continues \in BOOLEAN :
       \/ \E offered, heard \in BOOLEAN : Tell(t, id, offered, isEvent, continues, heard)
       \/ Replace(t, id, isEvent)

Next ==
  \/ Sessions
  \/ \E t \in Threads :
       \/ \E i \in 1 .. MaxTokens, turn \in 1 .. MaxTurns, c \in 0 .. MaxConvs :
            Post(t, i, turn, c)
       \/ AddUserMessage(t) \/ LoadSession(t) \/ PriorUserUtterances(t)
       \/ Engine(t) \/ SaveSession(t) \/ PersistAssistant(t) \/ Fail(t)

Spec == Init /\ [][Next]_vars

-----------------------------------------------------------------------------
\* A session that was refused as expired, or logged out, is not admitted
\* again, even if the clock is set back below its expiry; and one that is
\* admitted is that of an account whose password its holder knows, also when
\* two people register one username at once.
SessionsAreOwn ==
  /\ \A i \in ended : ~ Admitted(i)
  /\ \A i \in DOMAIN tokens : accounts[tokens[i].user] = tokens[i].holder

\* Whatever is in a conversation was written by a turn of its owner; and what
\* it is about, was about, or may be asked about are stored entities of the
\* owner, and never the user: no id of a rolled back write, of another
\* conversation's owner, or of the principal is offered.
FocusIsKnown ==
  \A c \in DOMAIN convs :
    /\ \A j \in DOMAIN rows[c] : rows[c][j].user = convs[c].owner
    /\ Allowed(convs[c].session.discourse) \subseteq Home(convs[c].owner)

Quiet(c) == c \notin mixed \cup lost /\ \A t \in Threads : req[t].conv # c

\* Between the turns of a conversation its saved session knows the last of the
\* events that a turn of it was told of, which is what "the last one" will
\* correct, and no query that was completed waits still: the update of a turn
\* is lost only to another turn of the conversation that overlaps it, or to a
\* failure before the save.  An event is not told to the turn's own session if
\* it replaces another, or if _touch_context raised: "the last one" is then an
\* earlier event, also one that was corrected since.
SessionKeepsUp ==
  \A c \in DOMAIN convs : Quiet(c) =>
    LET s == convs[c].session
        here == {e \in DOMAIN events : events[e].conv = c /\ events[e].heard} IN
    /\ s.last = IF here = {} THEN 0 ELSE CHOOSE e \in here : \A f \in here : f <= e
    /\ s.discourse.pending.turn \notin completed

\* An interpreter is given, as earlier utterances, what was posted to the
\* conversation before the current message, in the order it was posted, as
\* long as turns do not overlap and the clock is not set back.
PriorIsHistory ==
  \A t \in Threads :
    pc[t] = "engine" /\ req[t].conv \notin mixed /\ setBacks = 0 =>
      LET before == posts[req[t].conv]
      IN prior[t] = LastOf(SubSeq(before, 1, Len(before) - 1))
=============================================================================
