------------------------------ MODULE UserAccounts ------------------------------
(***************************************************************************)
(* The users of the system and their accounts at Cognito: the guard that   *)
(* finds or makes the user of a token (cognito-jwt.guard.ts), and a person *)
(* who registers with an invitation (tenant.service.ts,                    *)
(* cognito.service.ts).                                                    *)
(*                                                                         *)
(* A person has one address, which is written in more than one way; the    *)
(* users table tells the spellings apart, Cognito and the invitations do   *)
(* not.  An account is an entry at Cognito with a sub of its own: one made *)
(* with a password, others that come with a sign-in through another        *)
(* provider.                                                               *)
(***************************************************************************)
EXTENDS Naturals, FiniteSets

CONSTANTS
  Persons,
  Spellings,   \* how an address is written; "lower" is one of them
  Logins,      \* the ways of signing in; "password" is one of them
  InFlight,    \* how many requests may be handled at once
  Faults       \* a call to Cognito or to the database may fail

VARIABLES
  user,      \* users: the row of every address as it is written
  account,   \* the logins every person has at Cognito
  code,      \* whether a person's invitation is waiting to be accepted
  requests   \* the requests being handled

vars == <<user, account, code, requests>>

Emails == [of : Persons, as : Spellings]
Subs   == [of : Persons, by : Logins]
NoSub  == [of |-> "nobody", by |-> "nothing"]
Absent == [exists |-> FALSE, sub |-> NoSub]
Kinds  == {"signIn", "invite", "register"}
\* `email`: the address of the token, of the invitation or of the form, in lower case when
\* its spelling no longer matters; `row`: that of the row that has been read.
Request == [kind : Kinds, sub : Subs \cup {NoSub}, token : BOOLEAN, email : Emails, row : Emails,
            pc : {"sub", "email", "link", "create", "password", "write"}]

Exists(e)    == user[e].exists
RowsWith(s)  == {e \in Emails : Exists(e) /\ user[e].sub = s}
Lower(e)     == [e EXCEPT !.as = "lower"]
Begin(q)     == Cardinality(requests) < InFlight /\ requests' = requests \cup {q}
Done(q)      == requests' = requests \ {q}
Goto(q, r)   == requests' = (requests \ {q}) \cup {r}
At(q, kind, pc) == q.kind = kind /\ q.pc = pc
\* The database refuses a second row with a sub.
SetSub(e, s) ==
  user' = IF RowsWith(s) \subseteq {e} THEN [user EXCEPT ![e] = [exists |-> TRUE, sub |-> s]]
                                       ELSE user

-----------------------------------------------------------------------------
\* canActivate: a verified access token, and perhaps what should be the identity token,
\* which is decoded and no more: its address may be anybody's.  Without it the address
\* remains unknown.
CanActivate(s, e, token) ==
  /\ s.by \in account[s.of]
  /\ token \/ e = [of |-> s.of, as |-> "lower"]
  /\ Begin([kind |-> "signIn", sub |-> s, token |-> token, email |-> e, row |-> e, pc |-> "sub"])
  /\ UNCHANGED <<user, account, code>>

\* getOrCreateUser: by the sub, then by the address, which only the identity token has.
FindBySub(q) ==
  /\ At(q, "signIn", "sub")
  /\ IF RowsWith(q.sub) = {} /\ q.token THEN Goto(q, [q EXCEPT !.pc = "email"]) ELSE Done(q)
  /\ UNCHANGED <<user, account, code>>

FindByEmail(q) ==
  /\ At(q, "signIn", "email")
  /\ Goto(q, [q EXCEPT !.pc = IF Exists(q.email) THEN "link" ELSE "create"])
  /\ UNCHANGED <<user, account, code>>

\* Whatever sub the row had before.
LinkUser(q) ==
  /\ At(q, "signIn", "link")
  /\ SetSub(q.email, q.sub) /\ Done(q)
  /\ UNCHANGED <<account, code>>

\* The database refuses a second row with the address, and the request is refused with it.
CreateUser(q) ==
  /\ At(q, "signIn", "create")
  /\ IF Exists(q.email) THEN UNCHANGED user ELSE SetSub(q.email, q.sub)
  /\ Done(q)
  /\ UNCHANGED <<account, code>>

-----------------------------------------------------------------------------
\* inviteUserToTenant looks for the address in lower case, and makes a user without a sub.
InviteRead(e) ==
  /\ Begin([kind |-> "invite", sub |-> NoSub, token |-> FALSE, email |-> Lower(e), row |-> Lower(e),
            pc |-> IF Exists(Lower(e)) THEN "write" ELSE "create"])
  /\ UNCHANGED <<user, account, code>>

InviteWrite(q) ==
  /\ q.kind = "invite"
  /\ IF q.pc = "create" /\ Exists(q.row) THEN UNCHANGED <<user, code>>
     ELSE /\ user' = [user EXCEPT ![q.row].exists = TRUE]
          /\ code' = [code EXCEPT ![q.row.of] = TRUE]
  /\ Done(q)
  /\ UNCHANGED account

\* Mutated form: whoever has the code may register with an address of his own.
RegisterReadAny(e, form) ==
  /\ code[e.of] /\ Exists(e) /\ user[e].sub = NoSub
  /\ Begin([kind |-> "register", sub |-> NoSub, token |-> FALSE, email |-> Lower(form), row |-> e,
            pc |-> "create"])
  /\ UNCHANGED <<user, account, code>>

\* registerAndAcceptInvitation: the form has the address of the invitation, in any
\* spelling, and its user has no account.
RegisterRead(e, form) ==
  /\ code[e.of] /\ Exists(e) /\ user[e].sub = NoSub
  /\ Lower(form) = Lower(e)
  /\ Begin([kind |-> "register", sub |-> NoSub, token |-> FALSE, email |-> Lower(form), row |-> e,
            pc |-> "create"])
  /\ UNCHANGED <<user, account, code>>

\* createUser makes the account, handleExistingUser finds the one there is; then either
\* sets the password, which may fail, and the account stays.
CreateAccount(q) ==
  /\ At(q, "register", "create")
  /\ account' = [account EXCEPT ![q.email.of] = @ \cup {"password"}]
  /\ Goto(q, [q EXCEPT !.pc = "password", !.sub = [of |-> q.email.of, by |-> "password"]])
  /\ UNCHANGED <<user, code>>

SetPassword(q) ==
  /\ At(q, "register", "password")
  /\ Goto(q, [q EXCEPT !.pc = "write"])
  /\ UNCHANGED <<user, account, code>>

\* One transaction: the row gets the sub and the invitation is used up, or neither.
RegisterWrite(q) ==
  /\ At(q, "register", "write")
  /\ SetSub(q.row, q.sub)
  /\ code' = IF RowsWith(q.sub) \subseteq {q.row} THEN [code EXCEPT ![q.row.of] = FALSE] ELSE code
  /\ Done(q)
  /\ UNCHANGED account

\* acceptInvitation: by whoever has an account, with the code.
AcceptInvitation(e) ==
  /\ code[e.of] /\ user[e].sub # NoSub
  /\ code' = [code EXCEPT ![e.of] = FALSE]
  /\ UNCHANGED <<user, account, requests>>

\* Cognito or the database does not answer; what has been done stays.
Fails(q) == Faults /\ Done(q) /\ UNCHANGED <<user, account, code>>

\* Not in this program: a person signs in at Cognito for the first time in some way.
SignUp(s) ==
  /\ account' = [account EXCEPT ![s.of] = @ \cup {s.by}]
  /\ UNCHANGED <<user, code, requests>>

-----------------------------------------------------------------------------
Init ==
  /\ user = [e \in Emails |-> Absent]
  /\ account = [p \in Persons |-> {}]
  /\ code = [p \in Persons |-> FALSE]
  /\ requests = {}

SignInStep(q)   == FindBySub(q) \/ FindByEmail(q) \/ LinkUser(q) \/ CreateUser(q)
RegisterStep(q) == CreateAccount(q) \/ SetPassword(q) \/ RegisterWrite(q)

Next ==
  \/ \E s \in Subs : SignUp(s)
  \/ \E s \in Subs, e \in Emails, token \in BOOLEAN : CanActivate(s, e, token)
  \/ \E e \in Emails : InviteRead(e) \/ AcceptInvitation(e)
  \/ \E e, form \in Emails : RegisterRead(e, form)
  \/ \E q \in requests : SignInStep(q) \/ InviteWrite(q) \/ RegisterStep(q) \/ Fails(q)

Spec == Init /\ [][Next]_vars

-----------------------------------------------------------------------------
\* A request has an account only when it is somebody's.
TypeOK ==
  /\ user \in [Emails -> [exists : BOOLEAN, sub : Subs \cup {NoSub}]]
  /\ account \in [Persons -> SUBSET Logins]
  /\ code \in [Persons -> BOOLEAN]
  /\ requests \subseteq Request

\* Who may give the user of the address e the account s: a request of that account that has
\* named the address, or a registration of the person whose address it is.
Gives(q, e, s) ==
  \/ q.kind = "signIn" /\ q.email = e /\ q.sub = s
  \/ q.kind = "register" /\ q.row = e /\ s.of = e.of

\* cognito-jwt.guard.ts, registerAndAcceptInvitation: whatever interleaves and fails, a user
\* comes to an account in one step with the request it is given by, which is a sign-in with
\* that account and that address or a registration of the person; the account is there at
\* Cognito, and no other user has it.
Claimed(e, s) ==
  /\ \E q \in requests \ requests' : Gives(q, e, s)
  /\ s.by \in account'[s.of]
  /\ \A f \in Emails \ {e} : user'[f].sub # s
AsClaimed == \A e \in Emails : user'[e].sub # user[e].sub => Claimed(e, user'[e].sub)
AccountsAsClaimed == [][AsClaimed]_vars

-----------------------------------------------------------------------------
(* What does not hold (README, "Counterexamples"). *)

\* Somebody signs in with the address of another in the token nobody verifies: a user belongs
\* to an account of the person whose address it has.
AccountsAreOnesOwn ==
  \A e \in Emails : user[e].sub # NoSub => user[e].sub.of = e.of

\* Two first requests of a person, one of which is refused: the address is there when the
\* guard comes to make the user.
FirstRequestsServed ==
  \A q \in requests : At(q, "signIn", "create") => ~ Exists(q.email)

\* A person who signs in with another spelling of the address is a second user.
OneUserPerPerson ==
  \A p \in Persons : Cardinality({e \in Emails : e.of = p /\ user[e].exists /\ user[e].sub # NoSub}) <= 1

\* "If user exists by email but has no cognitoSub, link them": the account of a user stays.
AccountStays ==
  [][\A e \in Emails : user[e].sub # NoSub => user'[e].sub = user[e].sub]_vars
=============================================================================
