---------------------------- MODULE MCConversations -----------------------------
(* Bounded instances of Conversations for TLC.                             *)
EXTENDS Conversations, TLC

CONSTANTS c1, c2, n1, n2

Symmetric == Permutations(Threads)

Token(n, c) == [user |-> n, holder |-> c, expires |-> Ttl, revoked |-> FALSE]

\* A new installation; a user with two things of one kind; two users.
MCStarts ==
  {[accounts |-> [n \in Names |-> None], tokens |-> <<>>, entities |-> <<>>],
   [accounts |-> [n \in Names |-> IF n = n1 THEN c1 ELSE None],
    tokens |-> <<Token(n1, c1)>>, entities |-> <<n1, n1>>],
   [accounts |-> (n1 :> c1 @@ n2 :> c2),
    tokens |-> <<Token(n1, c1), Token(n2, c2)>>, entities |-> <<n1>>]}

\* A behaviour is about accounts and clocks, or about turns; what takes time
\* in the second is the turns.  Turns of a conversation overlap, or fail.
OneTheme ==
  turns > 0 =>
    /\ setBacks = 0 /\ ended = {} /\ \A c \in Clients : registering[c] = None
    /\ now < turns + retries + 1
    /\ mixed = {} \/ (failed = {} /\ retries = 0 /\ events = <<>>)
    /\ Cardinality({t \in Threads : pc[t] # "idle"}) > 1 => mixed # {}
    /\ \E start \in Starts : accounts = start.accounts /\ tokens = start.tokens
=============================================================================
