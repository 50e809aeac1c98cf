---------------------------- MODULE SessionsProofs ----------------------------
(***************************************************************************)
(* Proofs about Sessions, for any accounts, workers and bounds: accounts   *)
(* are well formed, logouts last and nothing else ends a session, a reset  *)
(* token sets one password and an invite makes the account it is for.      *)
(*                                                                         *)
(* What a request has read may be out of date when it commits.  Each of    *)
(* the invariants therefore says what is still true of it: it is what the  *)
(* database holds unless another use was committed since, and then missed  *)
(* records that.                                                           *)
(***************************************************************************)
EXTENDS Sessions, SequenceTheorems, TLAPS

Origins == {<<"setup">>, <<"created">>} \cup {Invited(i) : i \in DOMAIN invites}

\* An account that exists, of any version.
Real(a, origins, n) ==
  /\ a.origin \in origins
  /\ a.version \in 0 .. n
  /\ a \in [origin : origins, version : Nat, password : Password, lang : Language]

AccountsInv ==
  /\ account = [e \in Email |-> account[e]]
  /\ \A e \in Email : account[e] = NoAccount \/ Real(account[e], Origins, logouts)
  /\ tokens \subseteq Token
  /\ \A t \in tokens : Exists(t.user)

RowsInv ==
  /\ logouts \in 0 .. MaxLogouts
  /\ resets \in Seq([user : Email, used : BOOLEAN, uses : Nat])
  /\ \A n \in DOMAIN resets : Exists(resets[n].user)
  /\ invites \in Seq([email : Email, accepted : BOOLEAN])
  /\ Len(invites) <= MaxInvites

\* What a request holds of the rows it has read.
RequestOf(w) ==
  /\ tx[w].kind = "logout" =>
       /\ tx[w].user \in Email /\ Exists(tx[w].user)
       /\ tx[w].saw.version \in Nat /\ tx[w].saw.version < logouts
  /\ tx[w].kind = "update_me" =>
       /\ tx[w].user \in Email /\ Exists(tx[w].user)
       /\ tx[w].lang \in Language
  /\ tx[w].kind = "reset" =>
       tx[w].reset \in DOMAIN resets /\ tx[w].password \in Password
  /\ tx[w].kind = "accept" =>
       /\ tx[w].invite \in DOMAIN invites
       /\ \E password \in Password, lang \in Language :
            tx[w].new = Account(Invited(tx[w].invite), password, lang)

RequestsInv ==
  /\ tx = [w \in Worker |-> tx[w]]
  /\ missed = [w \in Worker |-> missed[w]]
  /\ \A w \in Worker : RequestOf(w)

Types == AccountsInv /\ RowsInv /\ RequestsInv

\* The versions ended lie below the one in force, and a logout under way has
\* seen that one unless another logout has come between.
EndedInv ==
  /\ ended = [e \in Email |-> ended[e]]
  /\ \A e \in Email :
       /\ ended[e] \subseteq Nat
       /\ ~Exists(e) => ended[e] = {}
       /\ e \notin raced => \A v \in ended[e] : v < account[e].version
  /\ \A w \in Worker :
       tx[w].kind = "logout" /\ tx[w].user \notin missed[w]
         => tx[w].saw.version = account[tx[w].user].version

\* A token is unused until its first use, and a request that still sets a
\* password with it has missed no use.
UsesInv ==
  /\ \A n \in DOMAIN resets :
       /\ ~resets[n].used => resets[n].uses = 0
       /\ n \notin raced => resets[n].uses <= 1
  /\ \A w \in Worker :
       tx[w].kind = "reset" /\ tx[w].reset \notin missed[w] => ~resets[tx[w].reset].used

-----------------------------------------------------------------------------
(* Operators *)

LEMMA OriginsAreReal == \A o \in Origins : o # <<"none">>
<1>1. \A i : Invited(i)[1] = "invite"
  BY DEF Invited
<1> QED
  BY <1>1 DEF Origins

LEMMA RealExists == ASSUME NEW a, NEW n, Real(a, Origins, n) PROVE a # NoAccount
BY OriginsAreReal DEF Real, NoAccount

LEMMA InvitedDiffer == \A i, j : Invited(i) = Invited(j) => i = j
<1> SUFFICES ASSUME NEW i, NEW j, Invited(i) = Invited(j) PROVE i = j
  OBVIOUS
<1>1. Invited(i)[2] = i /\ Invited(j)[2] = j
  BY DEF Invited
<1> QED
  BY <1>1

LEMMA NewAccount ==
  ASSUME NEW origin, NEW password, NEW lang
  PROVE  LET a == Account(origin, password, lang)
         IN  /\ a.origin = origin /\ a.version = 0
             /\ a.password = password /\ a.lang = lang
BY DEF Account

LEMMA Appended ==
  ASSUME NEW S, NEW s \in Seq(S), NEW x \in S
  PROVE  /\ Append(s, x) \in Seq(S)
         /\ Len(Append(s, x)) = Len(s) + 1
         /\ DOMAIN s \subseteq DOMAIN Append(s, x)
         /\ DOMAIN Append(s, x) = DOMAIN s \cup {Len(s) + 1}
         /\ Len(s) + 1 \notin DOMAIN s
         /\ \A k \in DOMAIN s : Append(s, x)[k] = s[k]
         /\ Append(s, x)[Len(s) + 1] = x
BY AppendProperties, LenProperties

LEMMA Replaced ==
  ASSUME NEW S, NEW s \in Seq(S), NEW k \in DOMAIN s, NEW x \in S
  PROVE  LET new == [s EXCEPT ![k] = x]
         IN  /\ new \in Seq(S) /\ Len(new) = Len(s) /\ DOMAIN new = DOMAIN s
             /\ new[k] = x /\ \A j \in DOMAIN s : j # k => new[j] = s[j]
<1>1. DOMAIN s = 1 .. Len(s) /\ Len(s) \in Nat
  BY LenProperties
<1> QED
  BY <1>1, ExceptSeq, LenProperties

-----------------------------------------------------------------------------
(* Types *)

LEMMA AccountAfter ==
  ASSUME Types, NEW e \in Email, NEW a, Real(a, Origins, logouts),
         account' = [account EXCEPT ![e] = a],
         UNCHANGED <<tokens, logouts>>, DOMAIN invites' = DOMAIN invites
  PROVE  AccountsInv' /\ \A d \in Email : Exists(d) => Exists(d)'
<1>1. Origins' = Origins
  BY DEF Origins, Invited
<1>2. account' = [d \in Email |-> account'[d]]
  BY DEF Types, AccountsInv
<1>3. \A d \in Email : account'[d] = IF d = e THEN a ELSE account[d]
  BY DEF Types, AccountsInv
<1>4. \A d \in Email : account'[d] = NoAccount \/ Real(account'[d], Origins', logouts')
  BY <1>1, <1>3 DEF Types, AccountsInv
<1>5. a # NoAccount
  BY RealExists
<1>6. \A d \in Email : Exists(d) => Exists(d)'
  BY <1>3, <1>5 DEF Exists
<1>7. \A t \in tokens : t.user \in Email
  BY DEF Types, AccountsInv, Token
<1>8. tokens' \subseteq Token /\ \A t \in tokens' : Exists(t.user)'
  BY <1>6, <1>7 DEF Types, AccountsInv
<1> QED
  BY <1>2, <1>4, <1>6, <1>8 DEF AccountsInv

LEMMA AccountsKept ==
  ASSUME Types, NEW e \in Email, Exists(e), account' = account,
         tokens' \subseteq tokens \cup Issued(e),
         logouts' \in Nat, logouts <= logouts', DOMAIN invites \subseteq DOMAIN invites'
  PROVE  AccountsInv'
<1>1. Origins \subseteq Origins'
  BY DEF Origins, Invited
<1>2. logouts \in 0 .. MaxLogouts
  BY DEF Types, RowsInv
<1>3. \A d \in Email : Real(account[d], Origins, logouts) => Real(account[d], Origins', logouts')
  BY <1>1, <1>2, SessionsAssumption DEF Real
<1>4. Real(account[e], Origins, logouts)
  BY DEF Types, AccountsInv, Exists
<1>5. account[e].version \in 0 .. MaxLogouts
  BY <1>2, <1>4, SessionsAssumption DEF Real
<1>6. Issued(e) \subseteq Token /\ \A t \in Issued(e) : t.user = e
  BY <1>5 DEF Issued, Token
<1>7. account' = [d \in Email |-> account'[d]]
  BY DEF Types, AccountsInv
<1>8. tokens' \subseteq Token /\ \A t \in tokens' : Exists(t.user)'
  BY <1>6 DEF Types, AccountsInv, Exists
<1> QED
  BY <1>3, <1>7, <1>8 DEF Types, AccountsInv

LEMMA RequestsAfter ==
  ASSUME Types, NEW w \in Worker, tx' = [tx EXCEPT ![w] = tx'[w]], RequestOf(w)',
         missed' = [v \in Worker |-> missed'[v]],
         \A d \in Email : Exists(d) => Exists(d)',
         logouts' \in Nat, logouts <= logouts',
         DOMAIN resets \subseteq DOMAIN resets', DOMAIN invites \subseteq DOMAIN invites'
  PROVE  RequestsInv'
<1>1. logouts \in Nat
  BY SessionsAssumption DEF Types, RowsInv
<1>2. ASSUME NEW v \in Worker, v # w PROVE RequestOf(v)'
  <2>1. tx'[v] = tx[v] /\ RequestOf(v)
    BY <1>2 DEF Types, RequestsInv
  <2> QED
    BY <1>1, <2>1 DEF RequestOf
<1>3. tx' = [v \in Worker |-> tx'[v]]
  BY DEF Types, RequestsInv
<1> QED
  BY <1>2, <1>3 DEF RequestsInv

LEMMA RequestsKept ==
  ASSUME Types, tx' = tx, missed' = missed, account' = account, logouts' = logouts,
         DOMAIN resets \subseteq DOMAIN resets', DOMAIN invites \subseteq DOMAIN invites'
  PROVE  RequestsInv'
BY DEF Types, RequestsInv, RequestOf, Exists, Invited

LEMMA RequestEnds ==
  ASSUME Types, NEW w \in Worker, End(w), missed' = [v \in Worker |-> missed'[v]],
         \A d \in Email : Exists(d) => Exists(d)',
         DOMAIN resets \subseteq DOMAIN resets', DOMAIN invites \subseteq DOMAIN invites'
  PROVE  RequestsInv'
<1>1. tx' = [tx EXCEPT ![w] = tx'[w]] /\ tx'[w] = Idle
  BY DEF End, Types, RequestsInv
<1>2. RequestOf(w)'
  BY <1>1 DEF RequestOf, Idle
<1>3. logouts' = logouts /\ logouts \in Nat
  BY SessionsAssumption DEF End, Types, RowsInv
<1> QED
  BY <1>1, <1>2, <1>3, RequestsAfter

LEMMA RequestBegins ==
  ASSUME Types, NEW w \in Worker, NEW r, Begin(w, r), UNCHANGED <<resets, invites>>,
         logouts' \in Nat, logouts <= logouts', RequestOf(w)'
  PROVE  RequestsInv'
<1>1. tx' = [tx EXCEPT ![w] = tx'[w]]
  BY DEF Begin, Types, RequestsInv
<1>2. missed' = [v \in Worker |-> missed'[v]]
  BY DEF Begin, Types, RequestsInv
<1>3. \A d \in Email : Exists(d) => Exists(d)'
  BY DEF Begin, Exists
<1> QED
  BY <1>1, <1>2, <1>3, RequestsAfter

LEMMA TokensAreOfAccounts ==
  ASSUME Types
  PROVE  /\ \A t \in tokens : t.user \in Email /\ Exists(t.user)
         /\ \A e \in Email : LoggedIn(e) => Exists(e)
BY DEF Types, AccountsInv, Token, LoggedIn, Accepted

LEMMA AccountHas ==
  ASSUME Types, NEW e \in Email, Exists(e)
  PROVE  /\ Real(account[e], Origins, logouts)
         /\ account[e].version \in Nat /\ account[e].version <= logouts
<1>1. Real(account[e], Origins, logouts)
  BY DEF Types, AccountsInv, Exists
<1>2. account[e].version \in 0 .. logouts /\ logouts \in 0 .. MaxLogouts
  BY <1>1 DEF Real, Types, RowsInv
<1> QED
  BY <1>1, <1>2, SessionsAssumption

LEMMA RowsAre ==
  ASSUME Types
  PROVE  /\ \A n \in DOMAIN resets : /\ resets[n] \in [user : Email, used : BOOLEAN, uses : Nat]
                                     /\ resets[n].user \in Email /\ Exists(resets[n].user)
         /\ \A i \in DOMAIN invites : /\ invites[i] \in [email : Email, accepted : BOOLEAN]
                                      /\ invites[i].email \in Email
<1>1. \A n \in DOMAIN resets : resets[n] \in [user : Email, used : BOOLEAN, uses : Nat]
  BY ElementOfSeq, LenProperties DEF Types, RowsInv
<1>2. \A i \in DOMAIN invites : invites[i] \in [email : Email, accepted : BOOLEAN]
  BY ElementOfSeq, LenProperties DEF Types, RowsInv
<1> QED
  BY <1>1, <1>2 DEF Types, RowsInv

LEMMA RowsAfter ==
  ASSUME Types, UNCHANGED logouts, \A d \in Email : Exists(d) => Exists(d)',
         resets' \in Seq([user : Email, used : BOOLEAN, uses : Nat]),
         DOMAIN resets' = DOMAIN resets,
         \A n \in DOMAIN resets : resets'[n].user = resets[n].user,
         invites' \in Seq([email : Email, accepted : BOOLEAN]), Len(invites') = Len(invites)
  PROVE  RowsInv'
BY RowsAre DEF Types, RowsInv

LEMMA NextTypes == Types /\ [Next]_vars => Types'
<1> SUFFICES ASSUME Types, [Next]_vars PROVE Types'
  OBVIOUS
<1> USE SessionsAssumption
<1>0. UNCHANGED <<resets, invites>> /\ logouts' \in 0 .. MaxLogouts /\ UNCHANGED account => RowsInv'
  BY DEF Types, RowsInv, Exists
<1>a. UNCHANGED <<account, tokens, logouts, invites>> => AccountsInv'
  BY DEF Types, AccountsInv, Exists, Origins, Invited
<1>1. ASSUME NEW e \in Email, NEW password \in Password, Login(e, password) PROVE Types'
  <2>1. AccountsInv'
    BY <1>1, AccountsKept DEF Login, Types, RowsInv
  <2> QED
    BY <1>1, <1>0, <2>1, RequestsKept DEF Login, Types, RowsInv
<1>2. ASSUME NEW t \in tokens, Refresh(t) PROVE Types'
  <2>1. t.user \in Email /\ Exists(t.user)
    BY TokensAreOfAccounts
  <2>2. AccountsInv'
    BY <1>2, <2>1, AccountsKept DEF Refresh, Types, RowsInv
  <2> QED
    BY <1>2, <1>0, <2>2, RequestsKept DEF Refresh, Types, RowsInv
<1>3. ASSUME NEW e \in Email, ForgotPassword(e) PROVE Types'
  <2> DEFINE x == [user |-> e, used |-> FALSE, uses |-> 0]
  <2>1. x \in [user : Email, used : BOOLEAN, uses : Nat] /\ resets' = Append(resets, x)
    BY <1>3 DEF ForgotPassword
  <2>2. /\ resets' \in Seq([user : Email, used : BOOLEAN, uses : Nat])
        /\ DOMAIN resets \subseteq DOMAIN resets'
        /\ \A n \in DOMAIN resets' : resets'[n] = x \/ (n \in DOMAIN resets /\ resets'[n] = resets[n])
    BY <2>1, Appended DEF Types, RowsInv
  <2>3. AccountsInv'
    BY <1>3, <1>a DEF ForgotPassword
  <2>4. RowsInv'
    BY <1>3, <2>2 DEF ForgotPassword, Types, RowsInv, Exists
  <2> QED
    BY <1>3, <2>2, <2>3, <2>4, RequestsKept DEF ForgotPassword, Types
<1>4. ASSUME NEW e \in Email, InviteUser(e) PROVE Types'
  <2> DEFINE x == [email |-> e, accepted |-> FALSE]
  <2>1. x \in [email : Email, accepted : BOOLEAN] /\ invites' = Append(invites, x)
    BY <1>4 DEF InviteUser
  <2>2. /\ invites' \in Seq([email : Email, accepted : BOOLEAN])
        /\ DOMAIN invites \subseteq DOMAIN invites'
        /\ Len(invites') = Len(invites) + 1 /\ Len(invites) \in Nat
    BY <2>1, Appended, LenProperties DEF Types, RowsInv
  <2>3. Exists(Admin) /\ Admin \in Email
    BY <1>4, TokensAreOfAccounts DEF InviteUser
  <2>4. AccountsInv'
    BY <1>4, <2>2, <2>3, AccountsKept DEF InviteUser, Types, RowsInv
  <2>5. RowsInv'
    BY <1>4, <2>2 DEF InviteUser, Types, RowsInv, Exists
  <2> QED
    BY <1>4, <2>2, <2>4, <2>5, RequestsKept DEF InviteUser, Types
<1>5. ASSUME NEW e \in Email, NEW password \in Password, NEW lang \in Language,
             CreateUser(e, password, lang)
      PROVE  Types'
  <2> DEFINE a == Account(<<"created">>, password, lang)
  <2>1. Real(a, Origins, logouts)
    BY DEF Real, Account, Origins, Types, RowsInv
  <2>2. AccountsInv' /\ \A d \in Email : Exists(d) => Exists(d)'
    BY <1>5, <2>1, AccountAfter DEF CreateUser
  <2>3. RowsInv'
    BY <1>5, <2>2, RowsAfter DEF CreateUser, Types, RowsInv
  <2>4. RequestsInv'
    BY <1>5, <2>2 DEF CreateUser, Types, RequestsInv, RequestOf, Invited
  <2> QED
    BY <2>2, <2>3, <2>4 DEF Types
<1>6. ASSUME NEW w \in Worker, NEW e \in Email, BeginLogout(w, e) PROVE Types'
  <2>1. Exists(e)
    BY <1>6, TokensAreOfAccounts DEF BeginLogout
  <2>2. logouts' = logouts + 1 /\ logouts' \in 0 .. MaxLogouts /\ logouts \in Nat
    BY <1>6 DEF BeginLogout, Types, RowsInv
  <2>3. AccountsInv'
    BY <1>6, <2>1, <2>2, AccountsKept DEF BeginLogout, Begin
  <2>4. RowsInv'
    BY <1>6, <2>2, <1>0 DEF BeginLogout, Begin
  <2>5. tx'[w] = [kind |-> "logout", user |-> e, saw |-> account[e]]
    BY <1>6 DEF BeginLogout, Begin, Types, RequestsInv
  <2>6. RequestOf(w)'
    BY <1>6, <2>1, <2>2, <2>5, AccountHas DEF RequestOf, BeginLogout, Begin, Exists
  <2>7. RequestsInv'
    BY <1>6, <2>2, <2>6, RequestBegins DEF BeginLogout
  <2> QED
    BY <2>3, <2>4, <2>7 DEF Types
<1>7. ASSUME NEW w \in Worker, NEW e \in Email, NEW lang \in Language, BeginUpdateMe(w, e, lang)
      PROVE  Types'
  <2>1. Exists(e)
    BY <1>7, TokensAreOfAccounts DEF BeginUpdateMe
  <2>2. tx'[w] = [kind |-> "update_me", user |-> e, lang |-> lang, saw |-> account[e]]
    BY <1>7 DEF BeginUpdateMe, Begin, Types, RequestsInv
  <2>3. RequestOf(w)'
    BY <1>7, <2>1, <2>2 DEF RequestOf, BeginUpdateMe, Begin, Exists
  <2>4. RequestsInv'
    BY <1>7, <2>3, RequestBegins DEF BeginUpdateMe, Types, RowsInv
  <2>5. AccountsInv' /\ RowsInv'
    BY <1>7, <2>1, <1>a, <1>0 DEF BeginUpdateMe, Begin, Types, RowsInv
  <2> QED
    BY <2>4, <2>5 DEF Types
<1>8. ASSUME NEW w \in Worker, NEW n \in DOMAIN resets, NEW password \in Password,
             BeginReset(w, n, password)
      PROVE  Types'
  <2>1. resets[n].user \in Email /\ Exists(resets[n].user)
    BY RowsAre
  <2>2. tx'[w] = [kind |-> "reset", reset |-> n, password |-> password]
    BY <1>8 DEF BeginReset, Begin, Types, RequestsInv
  <2>3. RequestOf(w)'
    BY <1>8, <2>2 DEF RequestOf, BeginReset, Begin
  <2>4. RequestsInv'
    BY <1>8, <2>3, RequestBegins DEF BeginReset, Types, RowsInv
  <2>5. AccountsInv' /\ RowsInv'
    BY <1>8, <2>1, <1>a, <1>0 DEF BeginReset, Begin, Types, RowsInv
  <2> QED
    BY <2>4, <2>5 DEF Types
<1>9. ASSUME NEW w \in Worker, CommitLogout(w) PROVE Types'
  <2> DEFINE e == tx[w].user
             a == [account[e] EXCEPT !.version = tx[w].saw.version + 1]
  <2>1. RequestOf(w) /\ tx[w].kind = "logout"
    BY <1>9 DEF CommitLogout, Types, RequestsInv
  <2>2. e \in Email /\ Exists(e) /\ tx[w].saw.version + 1 \in 0 .. logouts
    BY <2>1 DEF RequestOf, Types, RowsInv
  <2>3. Real(a, Origins, logouts)
    BY <2>2, AccountHas DEF Real
  <2>4. account' = [account EXCEPT ![e] = a] /\ UNCHANGED <<tokens, logouts, resets, invites>>
    BY <1>9, <2>2 DEF CommitLogout, End, Types, AccountsInv
  <2>5. AccountsInv' /\ \A d \in Email : Exists(d) => Exists(d)'
    BY <2>2, <2>3, <2>4, AccountAfter
  <2>6. RowsInv'
    BY <2>4, <2>5, RowsAfter DEF Types, RowsInv
  <2>7. RequestsInv'
    BY <1>9, <2>4, <2>5, RequestEnds DEF CommitLogout, Used
  <2> QED
    BY <2>5, <2>6, <2>7 DEF Types
<1>10. ASSUME NEW w \in Worker, CommitUpdateMe(w) PROVE Types'
  <2> DEFINE e == tx[w].user
             a == [account[e] EXCEPT !.lang = tx[w].lang]
  <2>1. RequestOf(w) /\ tx[w].kind = "update_me"
    BY <1>10 DEF CommitUpdateMe, Types, RequestsInv
  <2>2. e \in Email /\ Exists(e) /\ tx[w].lang \in Language
    BY <2>1 DEF RequestOf
  <2>3. Real(a, Origins, logouts)
    BY <2>2, AccountHas DEF Real
  <2>4. account' = [account EXCEPT ![e] = a] /\ UNCHANGED <<tokens, logouts, resets, invites>>
    BY <1>10, <2>2 DEF CommitUpdateMe, End, Types, AccountsInv
  <2>5. AccountsInv' /\ \A d \in Email : Exists(d) => Exists(d)'
    BY <2>2, <2>3, <2>4, AccountAfter
  <2>6. RowsInv'
    BY <2>4, <2>5, RowsAfter DEF Types, RowsInv
  <2>7. missed' = [v \in Worker |-> missed'[v]]
    BY <1>10 DEF CommitUpdateMe, UsedNothing, Types, RequestsInv
  <2>8. RequestsInv'
    BY <1>10, <2>4, <2>5, <2>7, RequestEnds DEF CommitUpdateMe
  <2> QED
    BY <2>5, <2>6, <2>8 DEF Types
<1>11. ASSUME NEW w \in Worker, CommitReset(w) PROVE Types'
  <2> DEFINE n == tx[w].reset
             e == resets[n].user
             a == [account[e] EXCEPT !.password = tx[w].password]
             x == [resets[n] EXCEPT !.used = TRUE, !.uses = @ + 1]
  <2>1. RequestOf(w) /\ tx[w].kind = "reset"
    BY <1>11 DEF CommitReset, Types, RequestsInv
  <2>2. n \in DOMAIN resets /\ tx[w].password \in Password
    BY <2>1 DEF RequestOf
  <2>3. /\ e \in Email /\ Exists(e)
        /\ resets[n] \in [user : Email, used : BOOLEAN, uses : Nat]
    BY <2>2, RowsAre
  <2>4. Real(a, Origins, logouts)
    BY <2>2, <2>3, AccountHas DEF Real
  <2>5. account' = [account EXCEPT ![e] = a] /\ UNCHANGED <<tokens, logouts, invites>>
    BY <1>11, <2>3 DEF CommitReset, End, Types, AccountsInv
  <2>6. AccountsInv' /\ \A d \in Email : Exists(d) => Exists(d)'
    BY <2>3, <2>4, <2>5, AccountAfter
  <2>7. resets' = [resets EXCEPT ![n] = x]
    BY <1>11, <2>2 DEF CommitReset, Types, RowsInv
  <2>8. x \in [user : Email, used : BOOLEAN, uses : Nat] /\ x.user = e
    <3>1. resets[n].uses + 1 \in Nat
      BY <2>3
    <3> QED
      BY <2>3, <3>1
  <2>9. /\ resets' \in Seq([user : Email, used : BOOLEAN, uses : Nat])
        /\ DOMAIN resets' = DOMAIN resets
        /\ \A k \in DOMAIN resets : resets'[k].user = resets[k].user
    BY <2>2, <2>7, <2>8, Replaced DEF Types, RowsInv
  <2>10. RowsInv'
    BY <2>5, <2>6, <2>9, RowsAfter DEF Types, RowsInv
  <2>11. RequestsInv'
    BY <1>11, <2>5, <2>6, <2>9, RequestEnds DEF CommitReset, Used
  <2> QED
    BY <2>6, <2>10, <2>11 DEF Types
<1>12. ASSUME NEW w \in Worker, CommitAcceptInvite(w) PROVE Types'
  <2> DEFINE i == tx[w].invite
             e == invites[i].email
             a == tx[w].new
             x == [invites[i] EXCEPT !.accepted = TRUE]
  <2>1. RequestOf(w) /\ tx[w].kind = "accept"
    BY <1>12 DEF CommitAcceptInvite, Types, RequestsInv
  <2>2. i \in DOMAIN invites
    BY <2>1 DEF RequestOf
  <2>3. e \in Email /\ invites[i] \in [email : Email, accepted : BOOLEAN]
    BY <2>2, RowsAre
  <2>4. PICK password \in Password, lang \in Language : a = Account(Invited(i), password, lang)
    BY <2>1 DEF RequestOf
  <2>5. Real(a, Origins, logouts)
    BY <2>2, <2>4 DEF Real, Account, Origins, Types, RowsInv
  <2>6. invites' = [invites EXCEPT ![i] = x]
    BY <1>12, <2>2 DEF CommitAcceptInvite, Types, RowsInv
  <2>7. /\ invites' \in Seq([email : Email, accepted : BOOLEAN])
        /\ Len(invites') = Len(invites) /\ DOMAIN invites' = DOMAIN invites
    <3>1. x \in [email : Email, accepted : BOOLEAN]
      BY <2>3
    <3> HIDE DEF x
    <3> QED
      BY <2>2, <2>6, <3>1, Replaced DEF Types, RowsInv
  <2>8. account' = [account EXCEPT ![e] = a] /\ UNCHANGED <<tokens, logouts, resets>>
    BY <1>12 DEF CommitAcceptInvite, End
  <2>9. AccountsInv' /\ \A d \in Email : Exists(d) => Exists(d)'
    BY <2>3, <2>5, <2>7, <2>8, AccountAfter
  <2>10. RowsInv'
    BY <2>7, <2>8, <2>9, RowsAfter DEF Types, RowsInv
  <2>11. missed' = [v \in Worker |-> missed'[v]]
    BY <1>12 DEF CommitAcceptInvite, UsedNothing, Types, RequestsInv
  <2>12. RequestsInv'
    BY <1>12, <2>7, <2>8, <2>9, <2>11, RequestEnds DEF CommitAcceptInvite
  <2> QED
    BY <2>9, <2>10, <2>12 DEF Types
<1>13. ASSUME NEW w \in Worker, Abort(w) PROVE Types'
  <2>1. missed' = [v \in Worker |-> missed'[v]]
    BY <1>13 DEF Abort, UsedNothing, Types, RequestsInv
  <2>2. RequestsInv'
    BY <1>13, <2>1, RequestEnds DEF Abort, Exists
  <2>3. AccountsInv' /\ RowsInv'
    BY <1>13 DEF Abort, End, Types, AccountsInv, RowsInv, Exists, Origins, Invited
  <2> QED
    BY <2>2, <2>3 DEF Types
<1>14. ASSUME UNCHANGED vars PROVE Types'
  <2>1. AccountsInv' /\ RowsInv'
    BY <1>14 DEF vars, Types, AccountsInv, RowsInv, Exists, Origins, Invited
  <2> QED
    BY <1>14, <2>1, RequestsKept DEF vars, Types
<1>15. ASSUME NEW w \in Worker, NEW i \in DOMAIN invites, NEW password \in Password,
              BeginAcceptInvite(w, i, password)
       PROVE  Types'
  <2>1. PICK lang \in Language :
          Begin(w, [kind |-> "accept", invite |-> i, new |-> Account(Invited(i), password, lang)])
    BY <1>15 DEF BeginAcceptInvite
  <2> DEFINE r == [kind |-> "accept", invite |-> i, new |-> Account(Invited(i), password, lang)]
  <2>2. tx'[w] = r /\ UNCHANGED <<resets, invites, logouts>>
    BY <1>15, <2>1 DEF BeginAcceptInvite, Begin, Types, RequestsInv
  <2>3. RequestOf(w)'
    BY <2>2 DEF RequestOf, Invited, Account
  <2>4. RequestsInv'
    BY <2>1, <2>2, <2>3, RequestBegins DEF Types, RowsInv
  <2>5. AccountsInv' /\ RowsInv'
    BY <2>1, <2>2, <1>a, <1>0 DEF Begin, Types, RowsInv
  <2> QED
    BY <2>4, <2>5 DEF Types
<1> QED
  BY <1>1, <1>2, <1>3, <1>4, <1>5, <1>6, <1>7, <1>8, <1>9, <1>10, <1>11, <1>12, <1>13, <1>14, <1>15
  DEF Next

LEMMA InitTypes == Init => Types
<1> SUFFICES ASSUME Init PROVE Types
  OBVIOUS
<1> USE SessionsAssumption
<1>1. PICK password \in Password, lang \in Language :
        account = [e \in Email |-> IF e = Admin THEN Account(<<"setup">>, password, lang)
                                   ELSE NoAccount]
  BY DEF Init
<1>2. Real(Account(<<"setup">>, password, lang), Origins, logouts)
  BY DEF Init, Real, Account, Origins
<1>3. AccountsInv
  BY <1>1, <1>2 DEF Init, AccountsInv
<1>4. RowsInv
  BY EmptySeq DEF Init, RowsInv
<1>5. RequestsInv
  BY DEF Init, RequestsInv, RequestOf, Idle
<1> QED
  BY <1>3, <1>4, <1>5 DEF Types

LEMMA TypesGiveTypeOK == Types => SessionsTypeOK
<1> SUFFICES ASSUME Types PROVE SessionsTypeOK
  OBVIOUS
<1>1. Origins \subseteq Origin
  <2>1. DOMAIN invites = 1 .. Len(invites) /\ Len(invites) \in Nat /\ Len(invites) <= MaxInvites
    BY LenProperties DEF Types, RowsInv
  <2> QED
    BY <2>1, SessionsAssumption DEF Origins, Origin
<1>2. ASSUME NEW e \in Email, Exists(e)
      PROVE  account[e] \in [origin : Origin, version : 0 .. logouts,
                             password : Password, lang : Language]
  BY <1>1, <1>2, AccountHas DEF Real
<1> QED
  BY <1>2 DEF SessionsTypeOK, Types, AccountsInv, RowsInv

\* Accounts exist with the columns users has, their versions count no more
\* than the logouts, and every table keeps its type: for any accounts, workers
\* and bounds.
THEOREM SessionsTypeCorrect == Spec => []SessionsTypeOK
<1>1. Spec => []Types
  BY InitTypes, NextTypes, PTL DEF Spec
<1> QED
  BY <1>1, TypesGiveTypeOK, PTL

-----------------------------------------------------------------------------
(* Logouts *)

\* Steps that commit no logout.
LEMMA EndedKept ==
  ASSUME Types, EndedInv, ended' = ended, raced \subseteq raced',
         \A e \in Email : Exists(e) => Exists(e)' /\ account'[e].version = account[e].version,
         \A w \in Worker : tx'[w].kind = "logout" =>
           \/ tx'[w].saw.version = account'[tx'[w].user].version
           \/ tx'[w] = tx[w] /\ missed[w] \subseteq missed'[w]
  PROVE  EndedInv'
<1>1. ended' = [e \in Email |-> ended'[e]]
  BY DEF EndedInv
<1>2. ASSUME NEW e \in Email
      PROVE  /\ ended'[e] \subseteq Nat
             /\ ~Exists(e)' => ended'[e] = {}
             /\ e \notin raced' => \A v \in ended'[e] : v < account'[e].version
  BY <1>2 DEF EndedInv
<1>3. ASSUME NEW w \in Worker, tx'[w].kind = "logout", tx'[w].user \notin missed'[w]
      PROVE  tx'[w].saw.version = account'[tx'[w].user].version
  <2>1. CASE tx'[w] = tx[w] /\ missed[w] \subseteq missed'[w]
    <3>1. tx[w].user \in Email /\ Exists(tx[w].user)
      BY <1>3, <2>1 DEF Types, RequestsInv, RequestOf
    <3> QED
      BY <1>3, <2>1, <3>1 DEF EndedInv
  <2> QED
    BY <1>3, <2>1
<1> QED
  BY <1>1, <1>2, <1>3 DEF EndedInv

\* Language and password are columns of their own.
LEMMA ColumnsKeep ==
  ASSUME Types, NEW w \in Worker,
         \/ CommitUpdateMe(w)
         \/ CommitReset(w)
  PROVE  \A d \in Email : Exists(d) => /\ Exists(d)' /\ account'[d].version = account[d].version
                                       /\ account'[d].origin = account[d].origin
<1> SUFFICES ASSUME NEW d \in Email, Exists(d)
             PROVE  /\ Exists(d)' /\ account'[d].version = account[d].version
                    /\ account'[d].origin = account[d].origin
  OBVIOUS
<1>1. Real(account[d], Origins, logouts)
  BY AccountHas
<1>2. \/ account'[d] = account[d]
      \/ \E lang : account'[d] = [account[d] EXCEPT !.lang = lang]
      \/ \E password : account'[d] = [account[d] EXCEPT !.password = password]
  <2>1. CASE CommitUpdateMe(w)
    <3>1. account' = [account EXCEPT ![tx[w].user].lang = tx[w].lang]
      BY <2>1 DEF CommitUpdateMe
    <3> QED
      BY <3>1 DEF Types, AccountsInv
  <2>2. CASE CommitReset(w)
    <3>1. account' = [account EXCEPT ![resets[tx[w].reset].user].password = tx[w].password]
      BY <2>2 DEF CommitReset
    <3> QED
      BY <3>1 DEF Types, AccountsInv
  <2> QED
    BY <2>1, <2>2
<1>3. account'[d].version = account[d].version /\ account'[d].origin = account[d].origin
  BY <1>1, <1>2 DEF Real
<1>4. account'[d] # NoAccount
  BY <1>1, <1>3, OriginsAreReal DEF Real, NoAccount
<1> QED
  BY <1>3, <1>4 DEF Exists

LEMMA NextEnded == Types /\ EndedInv /\ [Next]_vars => EndedInv'
<1> SUFFICES ASSUME Types, EndedInv, [Next]_vars PROVE EndedInv'
  OBVIOUS
<1> USE SessionsAssumption
<1>0. tx = [w \in Worker |-> tx[w]] /\ missed = [w \in Worker |-> missed[w]]
  BY DEF Types, RequestsInv
<1>1. ASSUME UNCHANGED <<account, tx, ended, missed, raced>> PROVE EndedInv'
  BY <1>1, EndedKept DEF Exists
<1>2. ASSUME NEW w \in Worker, NEW r, Begin(w, r),
             r.kind = "logout" => r.saw = account[r.user]
      PROVE  EndedInv'
  <2>1. \A v \in Worker : tx'[v] = r \/ tx'[v] = tx[v]
    BY <1>0, <1>2 DEF Begin
  <2> QED
    BY <1>2, <2>1, EndedKept DEF Begin, Exists
<1>3. ASSUME NEW w \in Worker, End(w), UsedNothing(w),
             \A e \in Email : Exists(e) => Exists(e)' /\ account'[e].version = account[e].version
      PROVE  EndedInv'
  <2>1. tx'[w] = Idle /\ \A v \in Worker \ {w} : tx'[v] = tx[v] /\ missed'[v] = missed[v]
    BY <1>0, <1>3 DEF End, UsedNothing
  <2> QED
    BY <1>3, <2>1, EndedKept DEF UsedNothing, Idle
<1>4. ASSUME NEW e \in Email, NEW password \in Password, NEW lang \in Language,
             CreateUser(e, password, lang)
      PROVE  EndedInv'
  <2>1. \A d \in Email : Exists(d) => Exists(d)' /\ account'[d].version = account[d].version
    BY <1>4 DEF CreateUser, Exists, Types, AccountsInv
  <2> QED
    BY <1>4, <2>1, EndedKept DEF CreateUser
<1>5. ASSUME NEW w \in Worker, CommitLogout(w) PROVE EndedInv'
  <2> DEFINE e == tx[w].user
             old == account[e].version
             new == tx[w].saw.version + 1
  <2>1. e \in Email /\ Exists(e) /\ new \in Nat
    BY <1>5 DEF CommitLogout, Types, RequestsInv, RequestOf
  <2>2. old \in Nat
    BY <2>1, AccountHas
  <2>3. /\ account'[e].version = new /\ account'[e] # NoAccount
        /\ \A d \in Email \ {e} : account'[d] = account[d]
    <3>1. Real(account[e], Origins, logouts)
      BY <2>1, AccountHas
    <3>2. account'[e] = [account[e] EXCEPT !.version = new]
      BY <1>5, <2>1 DEF CommitLogout, Types, AccountsInv
    <3>3. account'[e].version = new /\ account'[e].origin = account[e].origin
      BY <3>1, <3>2 DEF Real
    <3>4. account'[e] # NoAccount
      <4>1. account[e].origin # <<"none">>
        BY <3>1, OriginsAreReal DEF Real
      <4> QED
        BY <3>3, <4>1 DEF NoAccount
    <3> QED
      BY <1>5, <2>1, <3>3, <3>4 DEF CommitLogout, Types, AccountsInv, Exists
  <2>4. /\ ended' = [d \in Email |-> ended'[d]]
        /\ ended'[e] = ended[e] \cup {old}
        /\ \A d \in Email \ {e} : ended'[d] = ended[d]
    BY <1>5, <2>1 DEF CommitLogout, EndedInv
  <2>5. raced' = raced \cup (missed[w] \cap {e})
    BY <1>5 DEF CommitLogout, Used
  <2>6. ASSUME NEW d \in Email
        PROVE  /\ ended'[d] \subseteq Nat
               /\ ~Exists(d)' => ended'[d] = {}
               /\ d \notin raced' => \A v \in ended'[d] : v < account'[d].version
    <3>1. CASE d # e
      BY <2>3, <2>4, <2>5, <3>1 DEF EndedInv, Exists
    <3>2. CASE d = e
      <4>1. d \notin raced' => new = old + 1
        BY <1>5, <2>1, <2>5, <3>2 DEF CommitLogout, EndedInv
      <4>2. ended'[d] \subseteq Nat
        BY <2>1, <2>2, <2>4, <3>2 DEF EndedInv
      <4>3. ASSUME d \notin raced', NEW v \in ended'[d] PROVE v < new
        <5>1. v \in ended[e] => v < old
          BY <2>1, <2>5, <3>2, <4>3 DEF EndedInv
        <5>2. v \in Nat
          BY <4>2
        <5> QED
          BY <2>2, <2>4, <3>2, <4>1, <4>3, <5>1, <5>2
      <4> QED
        BY <2>3, <3>2, <4>2, <4>3 DEF Exists
    <3> QED
      BY <3>1, <3>2
  <2>7. tx'[w] = Idle /\ \A u \in Worker \ {w} : tx'[u] = tx[u]
    BY <1>0, <1>5 DEF CommitLogout, End
  <2>8. \A u \in Worker \ {w} : tx[u] # Idle => missed'[u] = missed[u] \cup {e}
    BY <1>5 DEF CommitLogout, Used
  <2>9. ASSUME NEW u \in Worker, tx'[u].kind = "logout", tx'[u].user \notin missed'[u]
        PROVE  tx'[u].saw.version = account'[tx'[u].user].version
    <3>1. u # w /\ tx'[u] = tx[u]
      BY <2>7, <2>9 DEF Idle
    <3>2. missed'[u] = missed[u] \cup {e}
      BY <2>8, <2>9, <3>1 DEF Idle
    <3>3. tx[u].user \in Email /\ tx[u].user # e
      BY <2>9, <3>1, <3>2 DEF Types, RequestsInv, RequestOf
    <3> QED
      BY <2>3, <2>9, <3>1, <3>2, <3>3 DEF EndedInv
  <2> QED
    BY <2>4, <2>6, <2>9 DEF EndedInv
<1>6. ASSUME NEW w \in Worker, CommitUpdateMe(w) PROVE EndedInv'
  <2>1. \A d \in Email : Exists(d) => Exists(d)' /\ account'[d].version = account[d].version
    BY <1>6, ColumnsKeep DEF CommitUpdateMe
  <2> QED
    BY <1>3, <1>6, <2>1 DEF CommitUpdateMe
<1>7. ASSUME NEW w \in Worker, CommitReset(w) PROVE EndedInv'
  <2>1. \A d \in Email : Exists(d) => Exists(d)' /\ account'[d].version = account[d].version
    BY <1>7, ColumnsKeep DEF CommitReset
  <2>2. tx'[w] = Idle /\ \A u \in Worker \ {w} : tx'[u] = tx[u]
    BY <1>0, <1>7 DEF CommitReset, End
  <2>3. \A u \in Worker \ {w} : missed[u] \subseteq missed'[u]
    BY <1>7 DEF CommitReset, Used
  <2>4. raced \subseteq raced' /\ ended' = ended
    BY <1>7 DEF CommitReset, Used
  <2>5. \A v \in Worker : tx'[v].kind = "logout" => tx'[v] = tx[v] /\ missed[v] \subseteq missed'[v]
    BY <2>2, <2>3 DEF Idle
  <2> QED
    BY <2>1, <2>4, <2>5, EndedKept
<1>8. ASSUME NEW w \in Worker, CommitAcceptInvite(w) PROVE EndedInv'
  <2>1. \A d \in Email : Exists(d) => Exists(d)' /\ account'[d].version = account[d].version
    BY <1>8 DEF CommitAcceptInvite, Exists, Types, AccountsInv
  <2> QED
    BY <1>3, <1>8, <2>1 DEF CommitAcceptInvite
<1>9. ASSUME NEW w \in Worker, Abort(w) PROVE EndedInv'
  BY <1>3, <1>9 DEF Abort, Exists
<1>10. ASSUME NEW w \in Worker, NEW e \in Email, BeginLogout(w, e) PROVE EndedInv'
  BY <1>2, <1>10 DEF BeginLogout
<1>11. ASSUME NEW w \in Worker, NEW e \in Email, NEW lang \in Language, BeginUpdateMe(w, e, lang)
       PROVE  EndedInv'
  BY <1>2, <1>11 DEF BeginUpdateMe
<1>12. ASSUME NEW w \in Worker, NEW n \in DOMAIN resets, NEW password \in Password,
              BeginReset(w, n, password)
       PROVE  EndedInv'
  BY <1>2, <1>12 DEF BeginReset
<1>13. ASSUME NEW w \in Worker, NEW i \in DOMAIN invites, NEW password \in Password,
              BeginAcceptInvite(w, i, password)
       PROVE  EndedInv'
  BY <1>2, <1>13 DEF BeginAcceptInvite
<1> QED
  <2>1. CASE UNCHANGED vars
    BY <1>1, <2>1 DEF vars
  <2>2. CASE \E e \in Email, password \in Password : Login(e, password)
    BY <1>1, <2>2 DEF Login
  <2>3. CASE \E t \in tokens : Refresh(t)
    BY <1>1, <2>3 DEF Refresh
  <2>4. CASE \E e \in Email : ForgotPassword(e) \/ InviteUser(e)
    BY <1>1, <2>4 DEF ForgotPassword, InviteUser
  <2> QED
    BY <1>4, <1>5, <1>6, <1>7, <1>8, <1>9, <1>10, <1>11, <1>12, <1>13,
       <2>1, <2>2, <2>3, <2>4 DEF Next

LEMMA InitEnded == Init => EndedInv
<1> SUFFICES ASSUME Init PROVE EndedInv
  OBVIOUS
<1>1. \A w \in Worker : tx[w].kind # "logout"
  BY DEF Init, Idle
<1>2. \A e \in Email : ended[e] = {}
  BY DEF Init
<1> QED
  BY <1>1, <1>2 DEF Init, EndedInv

\* A logout ends the versions it finds for good, for any number of accounts
\* and requests, unless logouts of that account have overlapped.
THEOREM LogoutsAlwaysLast == Spec => []LogoutsLast
<1>1. Spec => []Types
  BY InitTypes, NextTypes, PTL DEF Spec
<1>2. Types /\ EndedInv => LogoutsLast
  <2> SUFFICES ASSUME Types, EndedInv, NEW e \in Email, e \notin raced, Exists(e)
               PROVE  account[e].version \notin ended[e]
    BY DEF LogoutsLast
  <2>1. account[e].version \in Nat
    BY AccountHas
  <2> QED
    BY <2>1 DEF EndedInv
<1> QED
  BY <1>1, <1>2, InitEnded, NextEnded, PTL DEF Spec

\* A token that was issued is accepted until a logout ends its version.
LEMMA NextSessions ==
  Types /\ EndedInv /\ SessionsEndOnlyByLogout /\ [Next]_vars => SessionsEndOnlyByLogout'
<1> SUFFICES ASSUME Types, EndedInv, SessionsEndOnlyByLogout, [Next]_vars
             PROVE  SessionsEndOnlyByLogout'
  OBVIOUS
<1>0. \A t \in tokens : /\ t.user \in Email /\ Exists(t.user)
                        /\ t.version = account[t.user].version \/ t.version \in ended[t.user]
  BY TokensAreOfAccounts DEF SessionsEndOnlyByLogout, Accepted
<1>1. ASSUME tokens' = tokens, ended' = ended,
             \A e \in Email : Exists(e) => account'[e].version = account[e].version
      PROVE  SessionsEndOnlyByLogout'
  BY <1>0, <1>1 DEF SessionsEndOnlyByLogout, Accepted
<1>2. ASSUME NEW e \in Email, tokens' = tokens \cup Issued(e),
             UNCHANGED <<account, ended>>
      PROVE  SessionsEndOnlyByLogout'
  <2>1. \A t \in Issued(e) : t.user = e /\ t.version = account[e].version
    BY DEF Issued
  <2> QED BY <1>0, <1>2, <2>1 DEF SessionsEndOnlyByLogout, Accepted
<1>3. ASSUME NEW w \in Worker, CommitLogout(w) PROVE SessionsEndOnlyByLogout'
  <2> DEFINE e == tx[w].user
  <2>1. e \in Email
    BY <1>3 DEF CommitLogout, Types, RequestsInv, RequestOf
  <2>2. \A d \in Email \ {e} : account'[d] = account[d] /\ ended'[d] = ended[d]
    BY <1>3, <2>1 DEF CommitLogout, Types, AccountsInv, EndedInv
  <2>3. ended'[e] = ended[e] \cup {account[e].version}
    BY <1>3, <2>1 DEF CommitLogout, EndedInv
  <2>4. tokens' = tokens
    BY <1>3 DEF CommitLogout, End
  <2> QED BY <1>0, <2>1, <2>2, <2>3, <2>4 DEF SessionsEndOnlyByLogout, Accepted
<1>4. ASSUME NEW w \in Worker, CommitUpdateMe(w) \/ CommitReset(w)
      PROVE  SessionsEndOnlyByLogout'
  <2>1. tokens' = tokens /\ ended' = ended
    BY <1>4 DEF CommitUpdateMe, CommitReset, End, UsedNothing
  <2> QED BY <1>1, <1>4, <2>1, ColumnsKeep
<1>5. ASSUME NEW w \in Worker, CommitAcceptInvite(w) PROVE SessionsEndOnlyByLogout'
  <2>1. \A d \in Email : Exists(d) => account'[d].version = account[d].version
    BY <1>5 DEF CommitAcceptInvite, Exists, Types, AccountsInv
  <2> QED BY <1>1, <1>5, <2>1 DEF CommitAcceptInvite, End, UsedNothing
<1>6. ASSUME NEW e \in Email, NEW password \in Password, NEW lang \in Language,
             CreateUser(e, password, lang)
      PROVE  SessionsEndOnlyByLogout'
  <2>1. \A d \in Email : Exists(d) => account'[d].version = account[d].version
    BY <1>6 DEF CreateUser, Exists, Types, AccountsInv
  <2> QED BY <1>1, <1>6, <2>1 DEF CreateUser
<1>7. ASSUME NEW w \in Worker, Abort(w) PROVE SessionsEndOnlyByLogout'
  BY <1>1, <1>7 DEF Abort, End, UsedNothing
<1>8. ASSUME NEW w \in Worker, NEW r, Begin(w, r) PROVE SessionsEndOnlyByLogout'
  BY <1>1, <1>8 DEF Begin
<1>9. ASSUME NEW w \in Worker,
             \/ \E e \in Email : BeginLogout(w, e)
             \/ \E e \in Email, lang \in Language : BeginUpdateMe(w, e, lang)
             \/ \E n \in DOMAIN resets, password \in Password : BeginReset(w, n, password)
             \/ \E i \in DOMAIN invites, password \in Password : BeginAcceptInvite(w, i, password)
      PROVE  SessionsEndOnlyByLogout'
  BY <1>8, <1>9 DEF BeginLogout, BeginUpdateMe, BeginReset, BeginAcceptInvite
<1> QED
  <2>1. CASE UNCHANGED vars
    BY <1>1, <2>1 DEF vars
  <2>2. ASSUME NEW e \in Email, NEW password \in Password, Login(e, password)
        PROVE  SessionsEndOnlyByLogout'
    BY <1>2, <2>2 DEF Login
  <2>3. ASSUME NEW t \in tokens, Refresh(t) PROVE SessionsEndOnlyByLogout'
    <3>1. t.user \in Email
      BY <1>0
    <3> QED BY <1>2, <2>3, <3>1 DEF Refresh
  <2>4. CASE \E e \in Email : ForgotPassword(e) \/ InviteUser(e)
    BY <1>1, <2>4 DEF ForgotPassword, InviteUser
  <2> QED
    BY <1>3, <1>4, <1>5, <1>6, <1>7, <1>9, <2>1, <2>2, <2>3, <2>4 DEF Next

\* For any number of accounts and requests, nothing but a logout of the account
\* ends a session: no profile update, reset or invite that commits late does.
THEOREM OnlyLogoutsEndSessions == Spec => []SessionsEndOnlyByLogout
<1>1. Spec => []Types
  BY InitTypes, NextTypes, PTL DEF Spec
<1>2. Spec => []EndedInv
  BY <1>1, InitEnded, NextEnded, PTL DEF Spec
<1>3. Init => SessionsEndOnlyByLogout
  BY DEF Init, SessionsEndOnlyByLogout
<1> QED
  BY <1>1, <1>2, <1>3, NextSessions, PTL DEF Spec

-----------------------------------------------------------------------------
(* Resets *)

\* Steps that use no reset token.
LEMMA UsesKept ==
  ASSUME Types, UsesInv, resets' = resets, raced \subseteq raced',
         \A w \in Worker : tx'[w].kind = "reset" =>
           \/ ~resets[tx'[w].reset].used
           \/ tx'[w] = tx[w] /\ missed[w] \subseteq missed'[w]
  PROVE  UsesInv'
BY DEF UsesInv

LEMMA NextUses == Types /\ UsesInv /\ [Next]_vars => UsesInv'
<1> SUFFICES ASSUME Types, UsesInv, [Next]_vars PROVE UsesInv'
  OBVIOUS
<1>0. tx = [w \in Worker |-> tx[w]] /\ missed = [w \in Worker |-> missed[w]]
  BY DEF Types, RequestsInv
<1>1. ASSUME UNCHANGED <<resets, tx, missed, raced>> PROVE UsesInv'
  BY <1>1, UsesKept
<1>2. ASSUME NEW w \in Worker, NEW r, Begin(w, r), UNCHANGED resets,
             r.kind = "reset" => ~resets[r.reset].used
      PROVE  UsesInv'
  <2>1. \A v \in Worker : tx'[v] = r \/ tx'[v] = tx[v]
    BY <1>0, <1>2 DEF Begin
  <2> QED
    BY <1>2, <2>1, UsesKept DEF Begin
<1>3. ASSUME NEW w \in Worker, End(w), UsedNothing(w), UNCHANGED resets PROVE UsesInv'
  <2>1. tx'[w] = Idle /\ \A v \in Worker \ {w} : tx'[v] = tx[v] /\ missed'[v] = missed[v]
    BY <1>0, <1>3 DEF End, UsedNothing
  <2> QED
    BY <1>3, <2>1, UsesKept DEF UsedNothing, Idle
<1>4. ASSUME NEW e \in Email, ForgotPassword(e) PROVE UsesInv'
  <2> DEFINE x == [user |-> e, used |-> FALSE, uses |-> 0]
  <2>1. x \in [user : Email, used : BOOLEAN, uses : Nat] /\ resets' = Append(resets, x)
    BY <1>4 DEF ForgotPassword
  <2>2. /\ DOMAIN resets' = DOMAIN resets \cup {Len(resets) + 1}
        /\ \A n \in DOMAIN resets : resets'[n] = resets[n]
        /\ resets'[Len(resets) + 1] = x
    BY <2>1, Appended DEF Types, RowsInv
  <2>3. \A n \in DOMAIN resets' : resets'[n] = x \/ (n \in DOMAIN resets /\ resets'[n] = resets[n])
    BY <2>2
  <2>4. \A w \in Worker : tx[w].kind = "reset" => tx[w].reset \in DOMAIN resets
    BY DEF Types, RequestsInv, RequestOf
  <2>5. UNCHANGED <<tx, missed, raced>>
    BY <1>4 DEF ForgotPassword
  <2> QED
    BY <2>2, <2>3, <2>4, <2>5 DEF UsesInv
<1>5. ASSUME NEW w \in Worker, CommitReset(w) PROVE UsesInv'
  <2> DEFINE n == tx[w].reset
  <2>1. n \in DOMAIN resets /\ resets[n] \in [user : Email, used : BOOLEAN, uses : Nat]
    BY <1>5, RowsAre DEF CommitReset, Types, RequestsInv, RequestOf
  <2>2. /\ DOMAIN resets' = DOMAIN resets
        /\ resets'[n].used = TRUE /\ resets'[n].uses = resets[n].uses + 1
        /\ \A k \in DOMAIN resets \ {n} : resets'[k] = resets[k]
    BY <1>5, <2>1 DEF CommitReset, Types, RowsInv
  <2>3. raced' = raced \cup (missed[w] \cap {n})
    BY <1>5 DEF CommitReset, Used
  <2>4. n \notin raced' => resets[n].uses = 0
    BY <1>5, <2>1, <2>3 DEF CommitReset, UsesInv
  <2>5. \A k \in DOMAIN resets' : /\ ~resets'[k].used => resets'[k].uses = 0
                                  /\ k \notin raced' => resets'[k].uses <= 1
    BY <2>1, <2>2, <2>3, <2>4 DEF UsesInv
  <2>6. tx'[w] = Idle /\ \A u \in Worker \ {w} : tx'[u] = tx[u]
    BY <1>0, <1>5 DEF CommitReset, End
  <2>7. \A u \in Worker \ {w} : tx[u] # Idle => missed'[u] = missed[u] \cup {n}
    BY <1>5 DEF CommitReset, Used
  <2>8. ASSUME NEW u \in Worker, tx'[u].kind = "reset", tx'[u].reset \notin missed'[u]
        PROVE  ~resets'[tx'[u].reset].used
    <3>1. u # w /\ tx'[u] = tx[u] /\ tx[u] # Idle
      BY <2>6, <2>8 DEF Idle
    <3>2. tx[u].reset \in DOMAIN resets \ {n} /\ tx[u].reset \notin missed[u]
      BY <2>7, <2>8, <3>1 DEF Types, RequestsInv, RequestOf
    <3> QED
      BY <2>2, <2>8, <3>1, <3>2 DEF UsesInv
  <2> QED
    BY <2>5, <2>8 DEF UsesInv
<1>6. ASSUME NEW w \in Worker, CommitLogout(w) PROVE UsesInv'
  <2>1. tx'[w] = Idle /\ \A u \in Worker \ {w} : tx'[u] = tx[u]
    BY <1>0, <1>6 DEF CommitLogout, End
  <2>2. \A u \in Worker \ {w} : missed[u] \subseteq missed'[u]
    BY <1>6 DEF CommitLogout, Used
  <2>3. raced \subseteq raced' /\ resets' = resets
    BY <1>6 DEF CommitLogout, Used
  <2> QED
    BY <2>1, <2>2, <2>3, UsesKept DEF Idle
<1>7. ASSUME NEW w \in Worker, CommitUpdateMe(w) \/ CommitAcceptInvite(w) \/ Abort(w)
      PROVE  UsesInv'
  BY <1>3, <1>7 DEF CommitUpdateMe, CommitAcceptInvite, Abort
<1>8. ASSUME NEW w \in Worker, NEW e \in Email, NEW lang \in Language, BeginUpdateMe(w, e, lang)
      PROVE  UsesInv'
  BY <1>2, <1>8 DEF BeginUpdateMe
<1>9. ASSUME NEW w \in Worker, NEW n \in DOMAIN resets, NEW password \in Password,
             BeginReset(w, n, password)
      PROVE  UsesInv'
  BY <1>2, <1>9 DEF BeginReset
<1>10. ASSUME NEW w \in Worker, NEW i \in DOMAIN invites, NEW password \in Password,
              BeginAcceptInvite(w, i, password)
       PROVE  UsesInv'
  BY <1>2, <1>10 DEF BeginAcceptInvite
<1>11. ASSUME NEW e \in Email, NEW password \in Password, NEW lang \in Language,
              CreateUser(e, password, lang)
       PROVE  UsesInv'
  BY <1>1, <1>11 DEF CreateUser
<1>12. ASSUME NEW w \in Worker, NEW e \in Email, BeginLogout(w, e) PROVE UsesInv'
  BY <1>2, <1>12 DEF BeginLogout
<1>13. ASSUME NEW e \in Email, InviteUser(e) PROVE UsesInv'
  BY <1>1, <1>13 DEF InviteUser
<1>14. ASSUME NEW t \in tokens, Refresh(t) PROVE UsesInv'
  BY <1>1, <1>14 DEF Refresh
<1>15. ASSUME UNCHANGED vars PROVE UsesInv'
  BY <1>1, <1>15 DEF vars
<1>16. ASSUME NEW e \in Email, NEW password \in Password, Login(e, password) PROVE UsesInv'
  BY <1>1, <1>16 DEF Login
<1> QED
  BY <1>4, <1>5, <1>6, <1>7, <1>8, <1>9, <1>10, <1>11, <1>12, <1>13, <1>14, <1>15, <1>16 DEF Next

\* A reset token sets one password, for any number of tokens and requests,
\* unless two requests with it overlapped.
THEOREM ResetTokensWorkOnce == Spec => []ResetTokenUsedOnce
<1>1. Spec => []Types
  BY InitTypes, NextTypes, PTL DEF Spec
<1>2. Init => UsesInv
  BY DEF Init, UsesInv, Idle
<1>3. UsesInv => ResetTokenUsedOnce
  BY DEF UsesInv, ResetTokenUsedOnce
<1> QED
  BY <1>1, <1>2, <1>3, NextUses, PTL DEF Spec

-----------------------------------------------------------------------------
(* Invites *)

LEMMA OriginOfInvite ==
  ASSUME Types, NEW e \in Email, NEW i, account[e].origin = Invited(i)
  PROVE  Exists(e) /\ i \in DOMAIN invites
<1>1. Exists(e)
  <2>1. Invited(i)[1] = "invite"
    BY DEF Invited
  <2>2. Invited(i) # <<"none">>
    BY <2>1
  <2> QED
    BY <2>2 DEF Exists, NoAccount
<1>2. Invited(i) \in Origins
  BY <1>1, AccountHas DEF Real
<1>3. Invited(i)[1] = "invite"
  BY DEF Invited
<1>4. \E k \in DOMAIN invites : Invited(i) = Invited(k)
  BY <1>2, <1>3 DEF Origins
<1> QED
  BY <1>1, <1>4, InvitedDiffer

\* Steps that touch neither the invites nor the origin of an account.
LEMMA InvitesKept ==
  ASSUME Types, InviteMakesItsAccount, invites' = invites,
         \A e \in Email : account'[e].origin = account[e].origin
  PROVE  InviteMakesItsAccount'
BY RowsAre DEF InviteMakesItsAccount, Invited

\* No handler assigns the origin of an account that exists.
LEMMA OriginsStay ==
  ASSUME Types, NEW w \in Worker, CommitUpdateMe(w) \/ CommitReset(w) \/ CommitLogout(w)
  PROVE  \A i \in DOMAIN invites :
           account'[invites[i].email].origin = account[invites[i].email].origin
<1> SUFFICES ASSUME NEW d \in Email PROVE account'[d].origin = account[d].origin
  BY RowsAre
<1>1. PICK e \in Email : /\ Exists(e) /\ \A x \in Email \ {e} : account'[x] = account[x]
                         /\ \/ \E lang : account'[e] = [account[e] EXCEPT !.lang = lang]
                            \/ \E password : account'[e] = [account[e] EXCEPT !.password = password]
                            \/ \E version : account'[e] = [account[e] EXCEPT !.version = version]
  <2>1. CASE CommitUpdateMe(w)
    <3>1. tx[w].user \in Email /\ Exists(tx[w].user)
      BY <2>1 DEF CommitUpdateMe, Types, RequestsInv, RequestOf
    <3>2. account' = [account EXCEPT ![tx[w].user].lang = tx[w].lang]
      BY <2>1 DEF CommitUpdateMe
    <3> QED
      BY <3>1, <3>2 DEF Types, AccountsInv
  <2>2. CASE CommitReset(w)
    <3>1. resets[tx[w].reset].user \in Email /\ Exists(resets[tx[w].reset].user)
      BY <2>2, RowsAre DEF CommitReset, Types, RequestsInv, RequestOf
    <3>2. account' = [account EXCEPT ![resets[tx[w].reset].user].password = tx[w].password]
      BY <2>2 DEF CommitReset
    <3> QED
      BY <3>1, <3>2 DEF Types, AccountsInv
  <2>3. CASE CommitLogout(w)
    <3>1. tx[w].user \in Email /\ Exists(tx[w].user)
      BY <2>3 DEF CommitLogout, Types, RequestsInv, RequestOf
    <3>2. account' = [account EXCEPT ![tx[w].user].version = tx[w].saw.version + 1]
      BY <2>3 DEF CommitLogout
    <3> QED
      BY <3>1, <3>2 DEF Types, AccountsInv
  <2> QED
    BY <2>1, <2>2, <2>3
<1>2. Real(account[e], Origins, logouts)
  BY <1>1, AccountHas
<1>3. account'[e].origin = account[e].origin
  BY <1>1, <1>2 DEF Real
<1> QED
  BY <1>1, <1>3

LEMMA NextInvites == Types /\ InviteMakesItsAccount /\ [Next]_vars => InviteMakesItsAccount'
<1> SUFFICES ASSUME Types, InviteMakesItsAccount, [Next]_vars PROVE InviteMakesItsAccount'
  OBVIOUS
<1>1. ASSUME UNCHANGED <<account, invites>> PROVE InviteMakesItsAccount'
  BY <1>1, InvitesKept
<1>2. ASSUME NEW e \in Email, InviteUser(e) PROVE InviteMakesItsAccount'
  <2> DEFINE k == Len(invites) + 1
             x == [email |-> e, accepted |-> FALSE]
  <2>1. x \in [email : Email, accepted : BOOLEAN] /\ invites' = Append(invites, x)
    BY <1>2 DEF InviteUser
  <2>2. /\ DOMAIN invites' = DOMAIN invites \cup {k} /\ k \notin DOMAIN invites
        /\ \A i \in DOMAIN invites : invites'[i] = invites[i]
        /\ invites'[k] = x
    BY <2>1, Appended DEF Types, RowsInv
  <2>3. account[e].origin # Invited(k)
    BY <2>2, OriginOfInvite
  <2>4. account' = account
    BY <1>2 DEF InviteUser
  <2>5. ASSUME NEW i \in DOMAIN invites'
        PROVE  invites'[i].accepted <=> account'[invites'[i].email].origin = Invited(i)
    <3>1. CASE i = k
      BY <2>2, <2>3, <2>4, <3>1
    <3>2. CASE i \in DOMAIN invites
      BY <2>2, <2>4, <3>2 DEF InviteMakesItsAccount
    <3> QED
      BY <2>2, <3>1, <3>2
  <2> QED
    BY <2>5 DEF InviteMakesItsAccount, Invited
<1>3. ASSUME NEW e \in Email, NEW password \in Password, NEW lang \in Language,
             CreateUser(e, password, lang)
      PROVE  InviteMakesItsAccount'
  <2> DEFINE a == Account(<<"created">>, password, lang)
  <2>1. invites' = invites /\ ~Exists(e)
    BY <1>3 DEF CreateUser
  <2>2. \A d \in Email : account'[d] = IF d = e THEN a ELSE account[d]
    BY <1>3 DEF CreateUser, Types, AccountsInv
  <2>3. a.origin = <<"created">>
    BY NewAccount
  <2>4. ASSUME NEW i \in DOMAIN invites
        PROVE  invites[i].accepted <=> account'[invites[i].email].origin = Invited(i)
    <3>1. invites[i].email \in Email
      BY RowsAre
    <3>2. CASE invites[i].email = e
      <4>1. a.origin # Invited(i)
        <5>1. Invited(i)[1] = "invite"
          BY DEF Invited
        <5> QED
          BY <2>3, <5>1
      <4>2. account[e].origin # Invited(i)
        BY <2>1, OriginOfInvite
      <4> QED
        BY <2>2, <3>2, <4>1, <4>2 DEF InviteMakesItsAccount
    <3>3. CASE invites[i].email # e
      BY <2>2, <3>1, <3>3 DEF InviteMakesItsAccount
    <3> QED
      BY <3>2, <3>3
  <2> QED
    BY <2>1, <2>4 DEF InviteMakesItsAccount, Invited
<1>4. ASSUME NEW w \in Worker, CommitAcceptInvite(w) PROVE InviteMakesItsAccount'
  <2> DEFINE k == tx[w].invite
             e == invites[k].email
             a == tx[w].new
  <2>1. RequestOf(w) /\ tx[w].kind = "accept" /\ ~Exists(e)
    BY <1>4 DEF CommitAcceptInvite, Types, RequestsInv
  <2>2. k \in DOMAIN invites /\ e \in Email
    BY <2>1, RowsAre DEF RequestOf
  <2>3. a.origin = Invited(k)
    BY <2>1, NewAccount DEF RequestOf
  <2>4. \A d \in Email : account'[d] = IF d = e THEN a ELSE account[d]
    BY <1>4 DEF CommitAcceptInvite, Types, AccountsInv
  <2>5. /\ DOMAIN invites' = DOMAIN invites
        /\ \A i \in DOMAIN invites : /\ invites'[i].email = invites[i].email
                                     /\ i # k => invites'[i].accepted = invites[i].accepted
        /\ invites'[k].accepted = TRUE
    <3>1. invites' = [invites EXCEPT ![k].accepted = TRUE]
      BY <1>4 DEF CommitAcceptInvite
    <3>2. invites[k] \in [email : Email, accepted : BOOLEAN]
      BY <2>2, RowsAre
    <3>3. DOMAIN invites' = DOMAIN invites /\ \A i \in DOMAIN invites : i # k => invites'[i] = invites[i]
      BY <2>2, <3>1 DEF Types, RowsInv
    <3>4. invites'[k] = [invites[k] EXCEPT !.accepted = TRUE]
      BY <2>2, <3>1 DEF Types, RowsInv
    <3> QED
      BY <3>2, <3>3, <3>4
  <2>6. ASSUME NEW i \in DOMAIN invites'
        PROVE  invites'[i].accepted <=> account'[invites'[i].email].origin = Invited(i)
    <3>1. invites[i].email \in Email /\ invites'[i].email = invites[i].email
      BY <2>5, RowsAre
    <3>2. CASE i = k
      BY <2>2, <2>3, <2>4, <2>5, <3>1, <3>2
    <3>3. CASE i # k /\ invites[i].email = e
      <4>1. account[e].origin # Invited(i)
        BY <2>1, <2>2, OriginOfInvite
      <4>2. ~invites'[i].accepted
        BY <2>5, <3>3, <4>1 DEF InviteMakesItsAccount
      <4>3. a.origin # Invited(i)
        BY <2>3, <3>3, InvitedDiffer
      <4> QED
        BY <2>2, <2>4, <3>1, <3>3, <4>2, <4>3
    <3>4. CASE i # k /\ invites[i].email # e
      BY <2>4, <2>5, <3>1, <3>4 DEF InviteMakesItsAccount
    <3> QED
      BY <3>2, <3>3, <3>4
  <2> QED
    BY <2>6 DEF InviteMakesItsAccount, Invited
<1>5. ASSUME NEW w \in Worker, CommitUpdateMe(w) \/ CommitReset(w) PROVE InviteMakesItsAccount'
  <2>1. \A i \in DOMAIN invites :
          account'[invites[i].email].origin = account[invites[i].email].origin
    BY <1>5, OriginsStay
  <2>2. invites' = invites
    BY <1>5 DEF CommitUpdateMe, CommitReset
  <2> QED
    BY <2>1, <2>2 DEF InviteMakesItsAccount, Invited
<1>6. ASSUME NEW w \in Worker, CommitLogout(w) PROVE InviteMakesItsAccount'
  <2>1. \A i \in DOMAIN invites :
          account'[invites[i].email].origin = account[invites[i].email].origin
    BY <1>6, OriginsStay
  <2>2. invites' = invites
    BY <1>6 DEF CommitLogout
  <2> QED
    BY <2>1, <2>2 DEF InviteMakesItsAccount, Invited
<1>7. ASSUME NEW w \in Worker, NEW r, Begin(w, r), UNCHANGED invites PROVE InviteMakesItsAccount'
  BY <1>1, <1>7 DEF Begin
<1>8. ASSUME NEW w \in Worker, NEW e \in Email, NEW lang \in Language, BeginUpdateMe(w, e, lang)
      PROVE  InviteMakesItsAccount'
  BY <1>7, <1>8 DEF BeginUpdateMe
<1>9. ASSUME NEW w \in Worker, NEW e \in Email, BeginLogout(w, e) PROVE InviteMakesItsAccount'
  BY <1>7, <1>9 DEF BeginLogout
<1>10. ASSUME NEW w \in Worker, NEW n \in DOMAIN resets, NEW password \in Password,
              BeginReset(w, n, password)
       PROVE  InviteMakesItsAccount'
  BY <1>7, <1>10 DEF BeginReset
<1>11. ASSUME NEW w \in Worker, NEW i \in DOMAIN invites, NEW password \in Password,
              BeginAcceptInvite(w, i, password)
       PROVE  InviteMakesItsAccount'
  BY <1>7, <1>11 DEF BeginAcceptInvite
<1>12. ASSUME NEW e \in Email, NEW password \in Password, Login(e, password)
       PROVE  InviteMakesItsAccount'
  BY <1>1, <1>12 DEF Login
<1>13. ASSUME NEW e \in Email, ForgotPassword(e) PROVE InviteMakesItsAccount'
  BY <1>1, <1>13 DEF ForgotPassword
<1>14. ASSUME NEW t \in tokens, Refresh(t) PROVE InviteMakesItsAccount'
  BY <1>1, <1>14 DEF Refresh
<1>15. ASSUME NEW w \in Worker, Abort(w) PROVE InviteMakesItsAccount'
  BY <1>1, <1>15 DEF Abort
<1>16. ASSUME UNCHANGED vars PROVE InviteMakesItsAccount'
  BY <1>1, <1>16 DEF vars
<1> QED
  BY <1>2, <1>3, <1>4, <1>5, <1>6, <1>8, <1>9, <1>10, <1>11, <1>12, <1>13, <1>14, <1>15, <1>16
  DEF Next

\* An invite is accepted just when the account of its e-mail is the one it
\* made, for any number of invites and requests.
THEOREM InvitesMakeTheirAccounts == Spec => []InviteMakesItsAccount
<1>1. Spec => []Types
  BY InitTypes, NextTypes, PTL DEF Spec
<1>2. Init => InviteMakesItsAccount
  BY DEF Init, InviteMakesItsAccount
<1> QED
  BY <1>1, <1>2, NextInvites, PTL DEF Spec
=============================================================================
