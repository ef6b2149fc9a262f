---------------------------- MODULE ProductSessions -----------------------------
(***************************************************************************)
(* Accounts and bearer sessions of the product API: register, login,       *)
(* logout, and the check of a token, against a clock that can be set back. *)
(* A password is what a client knows; a token is the row of its session.   *)
(***************************************************************************)
EXTENDS Integers, Sequences, FiniteSets

CONSTANTS
  Clients,     \* people, each with a password of their own
  Names,       \* usernames; an account is its username
  None,
  Ttl,         \* life of a session in instants
  MaxTime,     \* bound on the clock
  MaxTokens,   \* bound on the sessions issued
  MaxSetBacks  \* bound on how often the clock is set back
ASSUME SessionAssumption == Ttl \in Nat \ {0} /\ MaxTime \in Nat
ASSUME PeopleAssumption  == None \notin Clients \cup Names

VARIABLES
  now,         \* the clock
  setBacks,    \* how often it was set back
  accounts,    \* username -> whose password it has, or None
  registering, \* client -> the username it found free, or None
  tokens,      \* sessions table: user, whom the token was given to, expiry, revoked
  ended        \* tokens that were refused as expired, or logged out (history)

sessionVars == <<now, setBacks, accounts, registering, tokens, ended>>

\* The server starts on accounts and sessions that were made before.
SessionsInit(start) ==
  /\ now = 0 /\ setBacks = 0
  /\ accounts = start.accounts
  /\ registering = [c \in Clients |-> None]
  /\ tokens = start.tokens /\ ended = {}

-----------------------------------------------------------------------------
(* Faulty variants of definitions below, for mutation runs.                *)

\* The refusal of an expired session leaves its row as it was.
ExpiredStays(i) == tokens

-----------------------------------------------------------------------------
\* register looks the username up, and hashes the password; then it inserts.
BeginRegister(c, n) ==
  /\ registering[c] = None /\ accounts[n] = None
  /\ registering' = [registering EXCEPT ![c] = n]
  /\ UNCHANGED <<now, setBacks, accounts, tokens, ended>>

\* users.username is UNIQUE: the insert raises if the name has been taken.
Insertable(n) == accounts[n] = None

FinishRegister(c) ==
  /\ registering[c] # None
  /\ accounts' = IF Insertable(registering[c])
                   THEN [accounts EXCEPT ![registering[c]] = c] ELSE accounts
  /\ registering' = [registering EXCEPT ![c] = None]
  /\ UNCHANGED <<now, setBacks, tokens, ended>>

\* login: the password must be the account's.  Registration ends with one.
Login(c, n) ==
  /\ accounts[n] = c
  /\ Len(tokens) < MaxTokens
  /\ tokens' = Append(tokens, [user |-> n, holder |-> c,
                               expires |-> now + Ttl, revoked |-> FALSE])
  /\ UNCHANGED <<now, setBacks, accounts, registering, ended>>

\* revoke_session: a revoked row is left as it is.
Revoked(i) == [tokens EXCEPT ![i].revoked = TRUE]

\* logout asks for the row only: an expired token may be logged out.
Logout(i) ==
  /\ i \in DOMAIN tokens
  /\ tokens' = Revoked(i)
  /\ ended' = ended \cup {i}
  /\ UNCHANGED <<now, setBacks, accounts, registering>>

\* resolve_bearer: a session ends at its expiry instant.
Admitted(i) ==
  /\ i \in DOMAIN tokens
  /\ ~ tokens[i].revoked
  /\ now < tokens[i].expires

\* A request with an expired session: its row is revoked.
Expired(i) == Revoked(i)

RefuseExpired(i) ==
  /\ i \in DOMAIN tokens
  /\ ~ tokens[i].revoked
  /\ tokens[i].expires <= now
  /\ tokens' = Expired(i)
  /\ ended' = ended \cup {i}
  /\ UNCHANGED <<now, setBacks, accounts, registering>>

\* Time passes; an operator, or NTP, sets the clock back.
Tick ==
  /\ now < MaxTime
  /\ now' = now + 1
  /\ UNCHANGED <<setBacks, accounts, registering, tokens, ended>>

SetBack(n) ==
  /\ n < now /\ setBacks < MaxSetBacks
  /\ now' = n
  /\ setBacks' = setBacks + 1
  /\ UNCHANGED <<accounts, registering, tokens, ended>>
=============================================================================
