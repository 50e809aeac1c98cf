------------------------------- MODULE Sessions -------------------------------
(***************************************************************************)
(* Accounts, the tokens that log a user in, password resets and invites:   *)
(* routes_auth.py, routes_invites.py, routes_users.py and get_current_user *)
(* of deps.py.  A request that writes reads first and writes what it made  *)
(* of it later; other requests come in between, for no row is locked.  The *)
(* flush and the commit are one step: an UPDATE of the same row waits for  *)
(* the commit and then overwrites its columns.                             *)
(*                                                                         *)
(* Time does not appear: to a JWT, a reset token or an invite that has     *)
(* expired every handler answers with an error and writes nothing, as if   *)
(* nobody had presented it.  No handler changes is_active or deletes an    *)
(* account.                                                                *)
(***************************************************************************)
EXTENDS Integers, Sequences

CONSTANTS
  Email,       \* the unique key of users
  Admin,       \* the account the tenant starts with
  Language,    \* stands for what users change of their own profile
  Password,
  Worker,      \* threads that serve requests
  MaxLogouts,  \* bounds: logouts, resets asked for and invites sent in a behaviour
  MaxResets,
  MaxInvites

ASSUME SessionsAssumption ==
  /\ Admin \in Email
  /\ MaxLogouts \in Nat /\ MaxResets \in Nat /\ MaxInvites \in Nat
  /\ Language # {} /\ Password # {}
  /\ Email \cap Nat = {}

VARIABLES
  account,  \* users: [Email -> account]
  tokens,   \* JWTs issued
  resets,   \* password_reset_tokens, with the number of times each was used
  invites,  \* user_invites
  tx,       \* [Worker -> the request it serves and what that has read]
  logouts,  \* logouts begun
  ended,    \* history: the token versions in force when a logout was committed
  missed,   \* history: accounts logged out and resets used since a worker's request began
  raced     \* history: accounts and resets of which two uses have overlapped

vars == <<account, tokens, resets, invites, tx, logouts, ended, missed, raced>>

NoAccount == [origin |-> <<"none">>]
Account(origin, password, lang) ==
  [origin |-> origin, version |-> 0, password |-> password, lang |-> lang]
Invited(i) == <<"invite", i>>
Origin == {<<"setup">>, <<"created">>} \cup {Invited(i) : i \in 1 .. MaxInvites}

Idle == [kind |-> "none"]
Exists(e) == account[e] # NoAccount
Token == [typ : {"access", "refresh"}, user : Email, version : 0 .. MaxLogouts]

\* The check of get_current_user and of refresh on a token that decodes.
Accepted(t) == t \in tokens /\ t.version = account[t.user].version
LoggedIn(e) == \E t \in tokens : Accepted(t) /\ t.typ = "access" /\ t.user = e

Issued(e) ==
  {[typ |-> typ, user |-> e, version |-> account[e].version] : typ \in {"access", "refresh"}}

-----------------------------------------------------------------------------
(* A request begins with its reads and ends with its commit *)

Begin(w, request) ==
  /\ tx[w] = Idle
  /\ tx' = [tx EXCEPT ![w] = request]
  /\ UNCHANGED <<account, tokens, ended, raced, missed>>

End(w) ==
  /\ tx' = [tx EXCEPT ![w] = Idle]
  /\ UNCHANGED <<tokens, logouts>>

\* History: w has used x, an account's version or a reset token.
Used(w, x) ==
  /\ raced' = raced \cup (missed[w] \cap {x})
  /\ missed' = [v \in Worker |-> IF v = w THEN {}
                                 ELSE IF tx[v] = Idle THEN missed[v] ELSE missed[v] \cup {x}]

UsedNothing(w) ==
  missed' = [missed EXCEPT ![w] = {}] /\ UNCHANGED <<raced, ended>>

\* The request fails, or its process does: nothing is committed.
Abort(w) ==
  /\ tx[w] # Idle
  /\ End(w) /\ UsedNothing(w)
  /\ UNCHANGED <<account, resets, invites>>

-----------------------------------------------------------------------------
(* Tokens *)

Login(e, password) ==
  /\ Exists(e) /\ account[e].password = password
  /\ tokens' = tokens \cup Issued(e)
  /\ UNCHANGED <<account, resets, invites, tx, logouts, ended, missed, raced>>

Refresh(t) ==
  /\ Accepted(t) /\ t.typ = "refresh"
  /\ tokens' = tokens \cup Issued(t.user)
  /\ UNCHANGED <<account, resets, invites, tx, logouts, ended, missed, raced>>

BeginLogout(w, e) ==
  /\ LoggedIn(e)
  /\ logouts < MaxLogouts
  /\ logouts' = logouts + 1
  /\ Begin(w, [kind |-> "logout", user |-> e, saw |-> account[e]])
  /\ UNCHANGED <<resets, invites>>

CommitLogout(w) ==
  LET e == tx[w].user
  IN  /\ tx[w].kind = "logout"
      /\ account' = [account EXCEPT ![e].version = tx[w].saw.version + 1]
      /\ ended' = [ended EXCEPT ![e] = @ \cup {account[e].version}]
      /\ Used(w, e)
      /\ End(w)
      /\ UNCHANGED <<resets, invites>>

BeginUpdateMe(w, e, lang) ==
  /\ LoggedIn(e)
  /\ Begin(w, [kind |-> "update_me", user |-> e, lang |-> lang, saw |-> account[e]])
  /\ UNCHANGED <<resets, invites, logouts>>

\* Mutant: every column of the row is written as it was read.
CommitUpdateMe_WholeRow(w) ==
  LET e == tx[w].user
  IN  /\ tx[w].kind = "update_me"
      /\ account' = [account EXCEPT ![e] = [tx[w].saw EXCEPT !.lang = tx[w].lang]]
      /\ End(w) /\ UsedNothing(w)
      /\ UNCHANGED <<resets, invites>>

CommitUpdateMe(w) ==
  LET e == tx[w].user
  IN  /\ tx[w].kind = "update_me"
      /\ account' = [account EXCEPT ![e].lang = tx[w].lang]
      /\ End(w) /\ UsedNothing(w)
      /\ UNCHANGED <<resets, invites>>

-----------------------------------------------------------------------------
(* Password resets *)

ForgotPassword(e) ==
  /\ Exists(e)
  /\ Len(resets) < MaxResets
  /\ resets' = Append(resets, [user |-> e, used |-> FALSE, uses |-> 0])
  /\ UNCHANGED <<account, tokens, invites, tx, logouts, ended, missed, raced>>

BeginReset(w, n, password) ==
  /\ n \in DOMAIN resets /\ ~resets[n].used
  /\ Begin(w, [kind |-> "reset", reset |-> n, password |-> password])
  /\ UNCHANGED <<resets, invites, logouts>>

\* Mutant: the token is not marked.
CommitReset_Unmarked(w) ==
  LET n == tx[w].reset
  IN  /\ tx[w].kind = "reset"
      /\ account' = [account EXCEPT ![resets[n].user].password = tx[w].password]
      /\ resets' = [resets EXCEPT ![n].uses = @ + 1]
      /\ Used(w, n)
      /\ End(w)
      /\ UNCHANGED <<invites, ended>>

CommitReset(w) ==
  LET n == tx[w].reset
  IN  /\ tx[w].kind = "reset"
      /\ account' = [account EXCEPT ![resets[n].user].password = tx[w].password]
      /\ resets' = [resets EXCEPT ![n].used = TRUE, ![n].uses = @ + 1]
      /\ Used(w, n)
      /\ End(w)
      /\ UNCHANGED <<invites, ended>>

-----------------------------------------------------------------------------
(* Invites and new accounts *)

InviteUser(e) ==
  /\ LoggedIn(Admin)
  /\ Len(invites) < MaxInvites
  /\ invites' = Append(invites, [email |-> e, accepted |-> FALSE])
  /\ UNCHANGED <<account, tokens, resets, tx, logouts, ended, missed, raced>>

BeginAcceptInvite(w, i, password) ==
  /\ i \in DOMAIN invites /\ ~invites[i].accepted
  /\ ~Exists(invites[i].email)
  /\ \E lang \in Language :
       Begin(w, [kind |-> "accept", invite |-> i,
                 new |-> Account(Invited(i), password, lang)])
  /\ UNCHANGED <<resets, invites, logouts>>

\* Mutant: the invite is marked in a transaction of its own.
CommitAcceptInvite_MarkedApart(w) ==
  LET i == tx[w].invite
      e == invites[i].email
  IN  /\ tx[w].kind = "accept"
      /\ account' = [account EXCEPT ![e] = IF Exists(e) THEN @ ELSE tx[w].new]
      /\ invites' = [invites EXCEPT ![i].accepted = TRUE]
      /\ End(w) /\ UsedNothing(w)
      /\ UNCHANGED resets

\* The unique key on email lets only one of several requests add the account;
\* the others raise and roll back (Abort).
CommitAcceptInvite(w) ==
  LET i == tx[w].invite
      e == invites[i].email
  IN  /\ tx[w].kind = "accept"
      /\ ~Exists(e)
      /\ account' = [account EXCEPT ![e] = tx[w].new]
      /\ invites' = [invites EXCEPT ![i].accepted = TRUE]
      /\ End(w) /\ UsedNothing(w)
      /\ UNCHANGED resets

\* create_user does not look for the e-mail; the flush does.
CreateUser(e, password, lang) ==
  /\ LoggedIn(Admin)
  /\ ~Exists(e)
  /\ account' = [account EXCEPT ![e] = Account(<<"created">>, password, lang)]
  /\ UNCHANGED <<tokens, resets, invites, tx, logouts, ended, missed, raced>>

-----------------------------------------------------------------------------

Init ==
  /\ \E password \in Password, lang \in Language :
       account = [e \in Email |-> IF e = Admin THEN Account(<<"setup">>, password, lang)
                                  ELSE NoAccount]
  /\ tokens = {}
  /\ resets = <<>>
  /\ invites = <<>>
  /\ tx = [w \in Worker |-> Idle]
  /\ logouts = 0
  /\ ended = [e \in Email |-> {}]
  /\ missed = [w \in Worker |-> {}]
  /\ raced = {}

Next ==
  \/ \E e \in Email, password \in Password : Login(e, password)
  \/ \E t \in tokens : Refresh(t)
  \/ \E e \in Email : ForgotPassword(e) \/ InviteUser(e)
  \/ \E e \in Email, password \in Password, lang \in Language : CreateUser(e, password, lang)
  \/ \E w \in Worker :
       \/ \E e \in Email : BeginLogout(w, e)
       \/ \E e \in Email, lang \in Language : BeginUpdateMe(w, e, lang)
       \/ \E n \in DOMAIN resets, password \in Password : BeginReset(w, n, password)
       \/ \E i \in DOMAIN invites, password \in Password : BeginAcceptInvite(w, i, password)
       \/ CommitLogout(w)
       \/ CommitUpdateMe(w)
       \/ CommitReset(w)
       \/ CommitAcceptInvite(w)
       \/ Abort(w)

Spec == Init /\ [][Next]_vars

-----------------------------------------------------------------------------
(* Properties *)

\* Accounts, tokens, resets and invites have their types, and a token version
\* counts no more than the logouts.
SessionsTypeOK ==
  /\ \A e \in Email : Exists(e) =>
       account[e] \in [origin : Origin, version : 0 .. logouts,
                       password : Password, lang : Language]
  /\ tokens \subseteq Token
  /\ resets \in Seq([user : Email, used : BOOLEAN, uses : Nat])
  /\ invites \in Seq([email : Email, accepted : BOOLEAN])

\* "Increment token_version to invalidate existing access+refresh tokens":
\* a version in force when a logout is committed is never in force again,
\* unless logouts of that account have overlapped.  Those read one version
\* and write the same successor, and a third one may put an older one back.
LogoutsLast ==
  \A e \in Email \ raced : Exists(e) => account[e].version \notin ended[e]

\* And nothing else logs anybody out: a token that is not accepted any more was
\* in force when a logout of its account was committed, also where logouts
\* overlap, or a profile or a password read before a logout is written after it.
SessionsEndOnlyByLogout ==
  \A t \in tokens : Accepted(t) \/ t.version \in ended[t.user]

\* A reset token sets one password, though the request is repeated, fails or is
\* overtaken, unless two requests with it overlapped.
ResetTokenUsedOnce ==
  \A n \in DOMAIN resets : resets[n].uses <= 1 \/ n \in raced

\* An invite counts as accepted just when the account of its e-mail is the
\* one it made, though two invites for one e-mail are accepted at once or an
\* administrator creates the account meanwhile.
InviteMakesItsAccount ==
  \A i \in DOMAIN invites :
    invites[i].accepted <=> account[invites[i].email].origin = Invited(i)

=============================================================================
