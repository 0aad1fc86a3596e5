-------------------------- MODULE AdministrationProofs --------------------------
(***************************************************************************)
(* For any number of users, numbers, roles, parts, buyers and requests:    *)
(* what the components of Administration keep.  Every component has its    *)
(* inductive invariant, which its steps keep and which those of the others *)
(* leave alone; the theorems are at the end.                               *)
(***************************************************************************)
EXTENDS Administration, FiniteSetTheorems, TLAPS

\* What is proved of the members alone, in a module of its own.
MembershipProofs == INSTANCE TenantMembershipProofs

\* Of a set without two elements, one with less than one is empty.
LEMMA LessThanOne ==
  ASSUME NEW S, \A p, q \in S : p = q, Cardinality(S) < 1
  PROVE  S = {}
<1> SUFFICES ASSUME S # {} PROVE FALSE
  OBVIOUS
<1>1. PICK x \in S : S = {x}
  OBVIOUS
<1> QED
  BY <1>1, FS_Singleton

-----------------------------------------------------------------------------
(* The users and their accounts *)

\* s is the sub of an account that there is.
Real(s, accounts) == s \in Accounts!Subs /\ s.by \in accounts[s.of]

\* A request has a real account, a registration one of the person whose address it has.
VisitReal(q, accounts) ==
  /\ q.kind = "signIn" => Real(q.sub, accounts)
  /\ q.kind = "register" =>
       q.email.of = q.row.of /\ (q.pc # "create" => Real(q.sub, accounts) /\ q.sub.of = q.row.of)

UserRow == [exists : BOOLEAN, sub : Accounts!Subs \cup {Accounts!NoSub}]

RowReal(r, accounts) == r.sub # Accounts!NoSub => r.exists /\ Real(r.sub, accounts)

\* No account has two rows.
OneRowEach(users) ==
  \A e, f \in Accounts!Emails : users[e].sub # Accounts!NoSub /\ users[e].sub = users[f].sub => e = f

AccountsInv ==
  /\ user \in [Accounts!Emails -> UserRow]
  /\ account \in [Persons -> SUBSET Logins]
  /\ code \in [Persons -> BOOLEAN]
  /\ visits \subseteq Accounts!Request
  /\ \A e \in Accounts!Emails : RowReal(user[e], account)
  /\ OneRowEach(user)
  /\ \A q \in visits : VisitReal(q, account)

LEMMA NoSubIsNobodys == Accounts!NoSub \notin Accounts!Subs
BY PersonsAssumption DEF Accounts!NoSub, Accounts!Subs

LEMMA AccountsTypes == AccountsInv => Accounts!TypeOK
BY DEF AccountsInv, Accounts!TypeOK, UserRow

LEMMA AccountsInit == Accounts!Init => AccountsInv
BY DEF AccountsInv, Accounts!Init, Accounts!Absent, UserRow, RowReal, OneRowEach

LEMMA AccountsStay ==
  ASSUME AccountsInv, UNCHANGED accountVars
  PROVE  AccountsInv'
BY DEF AccountsInv, accountVars

\* A request goes on, ends or comes, and accounts are only added.
LEMMA AccountsGrow ==
  ASSUME AccountsInv, UNCHANGED user, code' \in [Persons -> BOOLEAN],
         account' \in [Persons -> SUBSET Logins], \A p \in Persons : account[p] \subseteq account'[p],
         \A q \in visits' \ visits : q \in Accounts!Request /\ VisitReal(q, account')
  PROVE  AccountsInv'
<1>1. \A s : Real(s, account) => Real(s, account')
  BY DEF Real, Accounts!Subs
<1>2. \A q \in visits : VisitReal(q, account) => VisitReal(q, account')
  BY <1>1 DEF AccountsInv, VisitReal, Accounts!Request
<1>3. visits' \subseteq Accounts!Request /\ \A q \in visits' : VisitReal(q, account')
  BY <1>2 DEF AccountsInv
<1>4. \A e \in Accounts!Emails : RowReal(user[e], account')
  BY <1>1 DEF AccountsInv, RowReal
<1> QED
  BY <1>3, <1>4 DEF AccountsInv

\* A row is written whose account, if it has one, is real and nobody else's.
LEMMA AccountsWritten ==
  ASSUME AccountsInv, UNCHANGED account, code' \in [Persons -> BOOLEAN], visits' \subseteq visits,
         NEW e \in Accounts!Emails, NEW r \in UserRow, user' = [user EXCEPT ![e] = r],
         RowReal(r, account),
         r.sub # Accounts!NoSub => \A f \in Accounts!Emails \ {e} : user[f].sub # r.sub
  PROVE  AccountsInv'
<1>1. user' \in [Accounts!Emails -> UserRow]
  BY DEF AccountsInv
<1>2. \A f \in Accounts!Emails : user'[f] = IF f = e THEN r ELSE user[f]
  BY DEF AccountsInv
<1>3. \A f \in Accounts!Emails : RowReal(user'[f], account)
  BY <1>2 DEF AccountsInv
<1>4. OneRowEach(user')
  BY <1>2 DEF AccountsInv, OneRowEach
<1> QED
  BY <1>1, <1>3, <1>4 DEF AccountsInv

\* SetSub refuses the account of another row.
LEMMA AccountsSet ==
  ASSUME AccountsInv, UNCHANGED account, code' \in [Persons -> BOOLEAN], visits' \subseteq visits,
         NEW e \in Accounts!Emails, NEW s, Real(s, account), Accounts!SetSub(e, s)
  PROVE  AccountsInv'
<1>1. CASE UNCHANGED user
  BY <1>1, AccountsGrow DEF AccountsInv
<1>2. CASE Accounts!RowsWith(s) \subseteq {e} /\ user' = [user EXCEPT ![e] = [exists |-> TRUE, sub |-> s]]
  <2> DEFINE r == [exists |-> TRUE, sub |-> s]
  <2>1. r \in UserRow /\ RowReal(r, account) /\ r.sub = s /\ s # Accounts!NoSub
    BY NoSubIsNobodys DEF UserRow, RowReal, Real
  <2>2. \A f \in Accounts!Emails \ {e} : user[f].sub # s
    BY <1>2, <2>1 DEF AccountsInv, RowReal, Accounts!RowsWith, Accounts!Exists
  <2>3. user' = [user EXCEPT ![e] = r]
    BY <1>2
  <2> HIDE DEF r
  <2> QED
    BY <2>1, <2>2, <2>3, AccountsWritten
<1> QED
  BY <1>1, <1>2 DEF Accounts!SetSub

LEMMA AccountsStep ==
  ASSUME AccountsInv, Accounts!Next
  PROVE  AccountsInv'
<1>types. /\ user \in [Accounts!Emails -> UserRow] /\ account \in [Persons -> SUBSET Logins]
          /\ code \in [Persons -> BOOLEAN] /\ visits \subseteq Accounts!Request
          /\ \A q \in visits : VisitReal(q, account)
  BY DEF AccountsInv
<1>1. ASSUME NEW s \in Accounts!Subs, Accounts!SignUp(s)
      PROVE  AccountsInv'
  BY <1>types, <1>1, AccountsGrow DEF Accounts!SignUp, Accounts!Subs
<1>2. ASSUME NEW s \in Accounts!Subs, NEW e \in Accounts!Emails, NEW token \in BOOLEAN,
             Accounts!CanActivate(s, e, token)
      PROVE  AccountsInv'
  <2> DEFINE q == [kind |-> "signIn", sub |-> s, token |-> token, email |-> e, row |-> e, pc |-> "sub"]
  <2>1. q \in Accounts!Request /\ VisitReal(q, account)
    BY <1>2 DEF Accounts!CanActivate, Accounts!Request, Accounts!Kinds, VisitReal, Real
  <2>2. visits' = visits \cup {q}
    BY <1>2 DEF Accounts!CanActivate, Accounts!Begin
  <2> HIDE DEF q
  <2> QED
    BY <1>types, <1>2, <2>1, <2>2, AccountsGrow DEF Accounts!CanActivate
<1>3. ASSUME NEW e \in Accounts!Emails, Accounts!InviteRead(e)
      PROVE  AccountsInv'
  <2> DEFINE q == [kind |-> "invite", sub |-> Accounts!NoSub, token |-> FALSE, email |-> Accounts!Lower(e),
                   row |-> Accounts!Lower(e),
                   pc |-> IF Accounts!Exists(Accounts!Lower(e)) THEN "write" ELSE "create"]
  <2>1. Accounts!Lower(e) \in Accounts!Emails
    BY PersonsAssumption DEF Accounts!Lower, Accounts!Emails
  <2>2. q \in Accounts!Request /\ VisitReal(q, account)
    BY <2>1 DEF Accounts!Request, Accounts!Kinds, VisitReal
  <2>3. visits' = visits \cup {q}
    BY <1>3 DEF Accounts!InviteRead, Accounts!Begin
  <2> HIDE DEF q
  <2> QED
    BY <1>types, <1>3, <2>2, <2>3, AccountsGrow DEF Accounts!InviteRead
<1>4. ASSUME NEW e \in Accounts!Emails, Accounts!AcceptInvitation(e)
      PROVE  AccountsInv'
  BY <1>types, <1>4, AccountsGrow DEF Accounts!AcceptInvitation
<1>5. ASSUME NEW e \in Accounts!Emails, NEW form \in Accounts!Emails, Accounts!RegisterRead(e, form)
      PROVE  AccountsInv'
  <2> DEFINE q == [kind |-> "register", sub |-> Accounts!NoSub, token |-> FALSE,
                   email |-> Accounts!Lower(form), row |-> e, pc |-> "create"]
  <2>1. Accounts!Lower(form) \in Accounts!Emails /\ Accounts!Lower(form).of = e.of
    BY <1>5, PersonsAssumption DEF Accounts!RegisterRead, Accounts!Lower, Accounts!Emails
  <2>2. q \in Accounts!Request /\ VisitReal(q, account)
    BY <2>1 DEF Accounts!Request, Accounts!Kinds, VisitReal
  <2>3. visits' = visits \cup {q}
    BY <1>5 DEF Accounts!RegisterRead, Accounts!Begin
  <2> HIDE DEF q
  <2> QED
    BY <1>types, <1>5, <2>2, <2>3, AccountsGrow DEF Accounts!RegisterRead
<1>6. ASSUME NEW q \in visits, Accounts!FindBySub(q) \/ Accounts!FindByEmail(q) \/ Accounts!SetPassword(q)
      PROVE  AccountsInv'
  <2> DEFINE to(pc) == [q EXCEPT !.pc = pc]
  <2>1. ASSUME NEW pc \in {"email", "link", "create", "write"}, q.kind = "signIn" \/ q.pc # "create"
        PROVE  to(pc) \in Accounts!Request /\ VisitReal(to(pc), account)
    BY <1>types, <2>1 DEF Accounts!Request, VisitReal
  <2>2. q.kind = "signIn" \/ q.pc # "create"
    BY <1>6 DEF Accounts!FindBySub, Accounts!FindByEmail, Accounts!SetPassword, Accounts!At
  <2>3. \/ visits' \subseteq visits
        \/ \E pc \in {"email", "link", "create", "write"} : visits' = (visits \ {q}) \cup {to(pc)}
    BY <1>6 DEF Accounts!FindBySub, Accounts!FindByEmail, Accounts!SetPassword, Accounts!Goto, Accounts!Done
  <2>4. UNCHANGED <<user, account, code>>
    BY <1>6 DEF Accounts!FindBySub, Accounts!FindByEmail, Accounts!SetPassword
  <2> HIDE DEF to
  <2> QED
    BY <1>types, <2>1, <2>2, <2>3, <2>4, AccountsGrow
<1>7. ASSUME NEW q \in visits, Accounts!LinkUser(q) \/ Accounts!CreateUser(q)
      PROVE  AccountsInv'
  <2>1. q.email \in Accounts!Emails /\ Real(q.sub, account)
    BY <1>types, <1>7 DEF Accounts!LinkUser, Accounts!CreateUser, Accounts!At, Accounts!Request, VisitReal
  <2>2. UNCHANGED <<account, code>> /\ visits' \subseteq visits
    BY <1>7 DEF Accounts!LinkUser, Accounts!CreateUser, Accounts!Done
  <2>3. UNCHANGED user \/ Accounts!SetSub(q.email, q.sub)
    BY <1>7 DEF Accounts!LinkUser, Accounts!CreateUser
  <2> QED
    BY <1>types, <2>1, <2>2, <2>3, AccountsGrow, AccountsSet
<1>8. ASSUME NEW q \in visits, Accounts!InviteWrite(q)
      PROVE  AccountsInv'
  <2>1. UNCHANGED account /\ visits' \subseteq visits
    BY <1>8 DEF Accounts!InviteWrite, Accounts!Done
  <2>2. CASE UNCHANGED <<user, code>>
    BY <1>types, <2>1, <2>2, AccountsGrow
  <2>3. CASE /\ user' = [user EXCEPT ![q.row].exists = TRUE]
             /\ code' = [code EXCEPT ![q.row.of] = TRUE]
    <3>1. q.row \in Accounts!Emails
      BY <1>types DEF Accounts!Request
    <3> DEFINE r == [user[q.row] EXCEPT !.exists = TRUE]
    <3>2. r \in UserRow /\ r.sub = user[q.row].sub
      BY <1>types, <3>1 DEF UserRow
    <3>3. RowReal(r, account)
      BY <3>1, <3>2 DEF AccountsInv, RowReal, UserRow
    <3>4. r.sub # Accounts!NoSub => \A f \in Accounts!Emails \ {q.row} : user[f].sub # r.sub
      BY <3>1, <3>2 DEF AccountsInv, OneRowEach
    <3>5. code' \in [Persons -> BOOLEAN] /\ user' = [user EXCEPT ![q.row] = r]
      BY <1>types, <2>3
    <3> HIDE DEF r
    <3> QED
      BY <2>1, <3>1, <3>2, <3>3, <3>4, <3>5, AccountsWritten
  <2> QED
    BY <1>8, <2>2, <2>3 DEF Accounts!InviteWrite
<1>9. ASSUME NEW q \in visits, Accounts!CreateAccount(q)
      PROVE  AccountsInv'
  <2> DEFINE p == q.email.of
             s == [of |-> p, by |-> "password"]
             r == [q EXCEPT !.pc = "password", !.sub = s]
  <2>1. p \in Persons /\ p = q.row.of /\ q.row \in Accounts!Emails /\ q.kind = "register"
    BY <1>types, <1>9 DEF Accounts!CreateAccount, Accounts!At, Accounts!Request, VisitReal, Accounts!Emails
  <2>2. /\ account' = [account EXCEPT ![p] = @ \cup {"password"}]
        /\ visits' = (visits \ {q}) \cup {r} /\ UNCHANGED <<user, code>>
    BY <1>9 DEF Accounts!CreateAccount, Accounts!Goto
  <2>3. /\ account' \in [Persons -> SUBSET Logins] /\ \A o \in Persons : account[o] \subseteq account'[o]
        /\ "password" \in account'[p]
    BY <1>types, <2>1, <2>2, PersonsAssumption
  <2>4. s \in Accounts!Subs
    BY <2>1, PersonsAssumption DEF Accounts!Subs
  <2>5. r \in Accounts!Request /\ r.kind = "register" /\ r.sub = s /\ r.email = q.email /\ r.row = q.row
    BY <1>types, <2>1, <2>4 DEF Accounts!Request
  <2>6. VisitReal(r, account')
    BY <2>1, <2>3, <2>4, <2>5 DEF VisitReal, Real
  <2> HIDE DEF r
  <2> QED
    BY <1>types, <2>2, <2>3, <2>5, <2>6, AccountsGrow
<1>10. ASSUME NEW q \in visits, Accounts!RegisterWrite(q)
       PROVE  AccountsInv'
  <2>1. q.row \in Accounts!Emails /\ q.row.of \in Persons /\ Real(q.sub, account)
    BY <1>types, <1>10 DEF Accounts!RegisterWrite, Accounts!At, Accounts!Request, VisitReal, Accounts!Emails
  <2>2. UNCHANGED account /\ visits' \subseteq visits /\ Accounts!SetSub(q.row, q.sub)
        /\ code' \in [Persons -> BOOLEAN]
    BY <1>types, <1>10, <2>1 DEF Accounts!RegisterWrite, Accounts!Done
  <2> QED
    BY <2>1, <2>2, AccountsSet
<1>11. ASSUME NEW q \in visits, Accounts!Fails(q)
       PROVE  AccountsInv'
  BY <1>types, <1>11, AccountsGrow DEF Accounts!Fails, Accounts!Done
<1> QED
  BY <1>1, <1>2, <1>3, <1>4, <1>5, <1>6, <1>7, <1>8, <1>9, <1>10, <1>11
  DEF Accounts!Next, Accounts!SignInStep, Accounts!RegisterStep


\* A request that writes the sub it has into the row of an address, and ends.
LEMMA SubClaimed ==
  ASSUME AccountsInv, NEW q \in visits, q \notin visits', NEW e \in Accounts!Emails,
         Accounts!SetSub(e, q.sub), Real(q.sub, account), UNCHANGED account,
         Accounts!Gives(q, e, q.sub)
  PROVE  Accounts!AsClaimed
<1>types. user \in [Accounts!Emails -> UserRow] /\ q.sub # Accounts!NoSub
  BY NoSubIsNobodys DEF AccountsInv, Real
<1>1. CASE UNCHANGED user
  BY <1>1 DEF Accounts!AsClaimed
<1>2. CASE Accounts!RowsWith(q.sub) \subseteq {e} /\ user' = [user EXCEPT ![e] = [exists |-> TRUE, sub |-> q.sub]]
  <2>1. \A f \in Accounts!Emails : user'[f].sub = IF f = e THEN q.sub ELSE user[f].sub
    BY <1>types, <1>2
  <2>2. \A f \in Accounts!Emails \ {e} : user'[f].sub # q.sub
    BY <1>types, <1>2, <2>1 DEF AccountsInv, RowReal, Accounts!RowsWith, Accounts!Exists
  <2>3. q.sub.by \in account'[q.sub.of]
    BY DEF Real
  <2>4. Accounts!Claimed(e, q.sub)
    BY <2>2, <2>3 DEF Accounts!Claimed
  <2> QED
    BY <2>1, <2>4 DEF Accounts!AsClaimed
<1> QED
  BY <1>1, <1>2 DEF Accounts!SetSub

LEMMA AccountsClaim ==
  ASSUME AccountsInv, Accounts!Next
  PROVE  Accounts!AsClaimed
<1>types. /\ user \in [Accounts!Emails -> UserRow] /\ visits \subseteq Accounts!Request
          /\ \A q \in visits : VisitReal(q, account)
  BY DEF AccountsInv
<1>1. CASE \A e \in Accounts!Emails : user'[e].sub = user[e].sub
  BY <1>1 DEF Accounts!AsClaimed
<1>2. ASSUME NEW q \in visits, Accounts!LinkUser(q) \/ Accounts!CreateUser(q)
      PROVE  Accounts!AsClaimed
  <2>1. q.kind = "signIn" /\ q.email \in Accounts!Emails /\ Real(q.sub, account)
    BY <1>types, <1>2 DEF Accounts!LinkUser, Accounts!CreateUser, Accounts!At, Accounts!Request, VisitReal
  <2>2. q \notin visits' /\ UNCHANGED account /\ (UNCHANGED user \/ Accounts!SetSub(q.email, q.sub))
    BY <1>2 DEF Accounts!LinkUser, Accounts!CreateUser, Accounts!Done
  <2> QED
    BY <1>1, <2>1, <2>2, SubClaimed DEF Accounts!Gives
<1>3. ASSUME NEW q \in visits, Accounts!RegisterWrite(q)
      PROVE  Accounts!AsClaimed
  <2>1. q.kind = "register" /\ q.row \in Accounts!Emails /\ Real(q.sub, account) /\ q.sub.of = q.row.of
    BY <1>types, <1>3 DEF Accounts!RegisterWrite, Accounts!At, Accounts!Request, VisitReal
  <2>2. q \notin visits' /\ UNCHANGED account /\ Accounts!SetSub(q.row, q.sub)
    BY <1>3 DEF Accounts!RegisterWrite, Accounts!Done
  <2> QED
    BY <2>1, <2>2, SubClaimed DEF Accounts!Gives
<1>4. ASSUME NEW q \in visits, Accounts!InviteWrite(q)
      PROVE  Accounts!AsClaimed
  <2>1. q.row \in Accounts!Emails
    BY <1>types DEF Accounts!Request
  <2>2. \A e \in Accounts!Emails : user'[e].sub = user[e].sub
    BY <1>types, <1>4, <2>1 DEF Accounts!InviteWrite, UserRow
  <2> QED
    BY <1>1, <2>2
<1>5. CASE UNCHANGED user
  BY <1>1, <1>5
<1> QED
  BY <1>2, <1>3, <1>4, <1>5
  DEF Accounts!Next, Accounts!SignInStep, Accounts!RegisterStep, Accounts!SignUp, Accounts!CanActivate,
      Accounts!InviteRead, Accounts!AcceptInvitation, Accounts!RegisterRead, Accounts!FindBySub,
      Accounts!FindByEmail, Accounts!SetPassword, Accounts!CreateAccount, Accounts!Fails

-----------------------------------------------------------------------------
(* The call flows *)

FlowStep == [id : Nat, type : STRING, text : STRING, audio : STRING, list : Nat]
Texts    == UNION {{d[i].text : i \in DOMAIN d} : d \in Drafts}

\* Steps that a user has sent, perhaps with audio that was generated.
Sent(steps) == \A i \in DOMAIN steps : steps[i] \in FlowStep /\ steps[i].text \in Texts

Playable(steps) == CallTrees!Accepted(steps) /\ \A i \in DOMAIN steps : ~ CallTrees!Mute(steps[i])

\* A request has validated its steps.
SaveOfSent(s) ==
  /\ s.place \in 1 .. InFlight /\ s.flow \in FlowIds /\ s.pc \in {"lookup", "generate", "cache"}
  /\ s.todo \subseteq DOMAIN s.steps
  /\ Sent(s.steps) /\ CallTrees!Accepted(s.steps)

FlowsInv ==
  /\ content = [f \in FlowIds |-> content[f]]
  /\ \A f \in FlowIds : content[f] # CallTrees!NoFlow => Sent(content[f]) /\ Playable(content[f])
  /\ speech \subseteq Texts
  /\ \A s \in saves : SaveOfSent(s)

LEMMA DraftsSent == \A steps \in Drafts : Sent(steps)
<1> SUFFICES ASSUME NEW d \in Drafts, NEW i \in DOMAIN d
             PROVE  d[i] \in FlowStep /\ d[i].text \in Texts
  BY DEF Sent
<1>1. d \in Seq(FlowStep)
  BY DraftsAssumption DEF FlowStep
<1>2. d[i] \in FlowStep
  BY <1>1
<1>3. {d[j].text : j \in DOMAIN d} \in {{e[j].text : j \in DOMAIN e} : e \in Drafts}
  OBVIOUS
<1>4. d[i].text \in {d[j].text : j \in DOMAIN d}
  OBVIOUS
<1> QED
  BY <1>2, <1>3, <1>4 DEF Texts

LEMMA FlowsTypes == FlowsInv => CallTrees!TypeOK /\ CallTrees!StoredIsPlayable
<1> SUFFICES ASSUME FlowsInv PROVE CallTrees!TypeOK /\ CallTrees!StoredIsPlayable
  OBVIOUS
<1>1. speech \subseteq UNION {{d[i].text : i \in DOMAIN d} : d \in Drafts}
  BY DEF FlowsInv, Texts
<1>2. CallTrees!TypeOK
  BY <1>1 DEF FlowsInv, SaveOfSent, CallTrees!TypeOK
<1>3. CallTrees!StoredIsPlayable
  BY DEF FlowsInv, Playable, CallTrees!StoredIsPlayable
<1> QED
  BY <1>2, <1>3

LEMMA FlowsInit == CallTrees!Init => FlowsInv
BY DEF FlowsInv, CallTrees!Init

LEMMA FlowsStay ==
  ASSUME FlowsInv, UNCHANGED flowsVars
  PROVE  FlowsInv'
BY DEF FlowsInv, flowsVars

\* A message with audio is not mute, and nothing else of a step changes.
LEMMA VoicedPlayable ==
  ASSUME NEW steps, Sent(steps), CallTrees!Accepted(steps)
  PROVE  Sent(CallTrees!Voiced(steps)) /\ Playable(CallTrees!Voiced(steps))
<1> DEFINE v == CallTrees!Voiced(steps)
<1>1. /\ DOMAIN v = DOMAIN steps
      /\ \A i \in DOMAIN steps :
           /\ v[i] \in FlowStep
           /\ v[i].text = steps[i].text /\ v[i].id = steps[i].id
           /\ v[i].type = steps[i].type /\ v[i].list = steps[i].list
           /\ v[i].text = CallTrees!Silent \/ v[i].audio # CallTrees!Silent
  BY DEF CallTrees!Voiced, CallTrees!Mute, Sent, FlowStep
<1> HIDE DEF v
<1>2. Sent(v)
  BY <1>1 DEF Sent
<1>3. CallTrees!Accepted(v)
  BY <1>1 DEF CallTrees!Accepted, CallTrees!UniqueIds, CallTrees!TerminalsLast
<1>4. \A i \in DOMAIN v : ~ CallTrees!Mute(v[i])
  BY <1>1 DEF CallTrees!Mute
<1> QED
  BY <1>2, <1>3, <1>4 DEF Playable, v

\* A request comes, goes on or ends, and no flow is written.
LEMMA FlowsGo ==
  ASSUME FlowsInv, UNCHANGED content, speech' \subseteq Texts,
         \A s \in saves' \ saves : SaveOfSent(s)
  PROVE  FlowsInv'
BY DEF FlowsInv

LEMMA FlowsBegin ==
  ASSUME FlowsInv, NEW f \in FlowIds, NEW steps, Sent(steps), CallTrees!Begin(f, steps)
  PROVE  FlowsInv'
<1>1. PICK place \in 1 .. InFlight :
        saves' = saves \cup {[place |-> place, flow |-> f, steps |-> steps,
                              todo |-> CallTrees!Missing(steps), pc |-> "lookup"]}
  BY DEF CallTrees!Begin
<1> DEFINE s == [place |-> place, flow |-> f, steps |-> steps,
                 todo |-> CallTrees!Missing(steps), pc |-> "lookup"]
<1>2. SaveOfSent(s)
  BY DEF SaveOfSent, CallTrees!Begin, CallTrees!Missing
<1>3. saves' = saves \cup {s} /\ UNCHANGED content /\ speech' \subseteq Texts
  BY <1>1 DEF CallTrees!Begin, FlowsInv
<1> HIDE DEF s
<1> QED
  BY <1>2, <1>3, FlowsGo

LEMMA FlowsStep ==
  ASSUME FlowsInv, CallTrees!Next
  PROVE  FlowsInv'
<1>types. speech \subseteq Texts /\ \A s \in saves : SaveOfSent(s)
  BY DEF FlowsInv
<1>1. ASSUME NEW f \in FlowIds, NEW steps \in Drafts, CallTrees!Save(f, steps)
      PROVE  FlowsInv'
  BY <1>1, DraftsSent, FlowsBegin DEF CallTrees!Save
<1>2. ASSUME NEW f \in FlowIds, NEW g \in FlowIds, CallTrees!Duplicate(f, g)
      PROVE  FlowsInv'
  BY <1>2, FlowsBegin DEF CallTrees!Duplicate, FlowsInv
<1>3. ASSUME NEW s \in saves, CallTrees!Generate(s)
      PROVE  FlowsInv'
  <2> DEFINE t == [s EXCEPT !.pc = "cache"]
  <2>1. SaveOfSent(t)
    BY <1>types DEF SaveOfSent
  <2>2. saves' = saves \ {s} \/ saves' = (saves \ {s}) \cup {t}
    BY <1>3 DEF CallTrees!Generate, CallTrees!Goto, CallTrees!Done
  <2> HIDE DEF t
  <2> QED
    BY <1>types, <1>3, <2>1, <2>2, FlowsGo DEF CallTrees!Generate
<1>4. ASSUME NEW s \in saves, NEW i \in s.todo, CallTrees!Lookup(s, i) \/ CallTrees!Cache(s, i)
      PROVE  FlowsInv'
  <2> DEFINE t == [s EXCEPT !.pc = "generate"]
             u == [s EXCEPT !.pc = "lookup", !.todo = @ \ {i}]
  <2>1. SaveOfSent(t) /\ SaveOfSent(u)
    BY <1>types DEF SaveOfSent
  <2>2. s.steps[i].text \in Texts
    BY <1>types DEF SaveOfSent, Sent
  <2>3. saves' = saves \ {s} \/ saves' = (saves \ {s}) \cup {t} \/ saves' = (saves \ {s}) \cup {u}
    BY <1>4 DEF CallTrees!Lookup, CallTrees!Cache, CallTrees!Goto, CallTrees!Spoken, CallTrees!Done
  <2>4. UNCHANGED content /\ speech' \subseteq Texts
    BY <1>4, <1>types, <2>2 DEF CallTrees!Lookup, CallTrees!Cache
  <2> HIDE DEF t, u
  <2> QED
    BY <2>1, <2>3, <2>4, FlowsGo
<1>5. ASSUME NEW s \in saves, CallTrees!Write(s)
      PROVE  FlowsInv'
  <2> DEFINE v == CallTrees!Voiced(s.steps)
  <2>1. Sent(v) /\ Playable(v)
    BY <1>types, VoicedPlayable DEF SaveOfSent
  <2>2. content' = [content EXCEPT ![s.flow] = v] /\ saves' = saves \ {s} /\ UNCHANGED speech
    BY <1>5 DEF CallTrees!Write, CallTrees!Done
  <2> HIDE DEF v
  <2> QED
    BY <2>1, <2>2 DEF FlowsInv
<1> QED
  BY <1>1, <1>2, <1>3, <1>4, <1>5 DEF CallTrees!Next


-----------------------------------------------------------------------------
(* The catalog of parts *)

CNone   == Catalog!None
CShared == Catalog!Shared

\* What refers to an entry refers to one that is there.
ReferTo(entries, parts) ==
  /\ \A i \in Catalog!Ids : entries[i].parent # CNone => entries[entries[i].parent].of # CNone
  /\ \A p \in Parts : parts[p].category # CNone => entries[parts[p].category].of # CNone

Graded(entries, parts) ==
  \A p \in Parts : parts[p].of # CNone =>
    parts[p].condition # CNone /\ entries[parts[p].condition].of \in {parts[p].of, CShared}

\* No two entries of a tenant that are of one kind have one name.
NamedApart(entries) ==
  \A i, j \in Catalog!Ids :
    i # j /\ (i \in Conditions <=> j \in Conditions)
    /\ entries[i].of \in Tenants /\ entries[i].of = entries[j].of => entries[i].slug # entries[j].slug

\* What a request carries, checked when it came: a condition that was seen is still its
\* tenant's or everybody's, or gone.
OrderOf(q, entries) ==
  /\ q.kind \in {"create", "update", "remove"} => q.id \in Catalog!Ids
  /\ q.kind = "create" => q.entry.of = q.by
  /\ q.kind \in {"create", "update"} => q.entry.slug # CNone
  /\ q.kind \in {"part", "regrade"} =>
       /\ q.id \in Parts /\ q.part.of \in Tenants /\ q.part.condition \in Conditions
       /\ entries[q.part.condition].of \in {CNone, CShared, q.part.of}

\* An id that is being given is nobody else's.
GivesAlone(q, r, entries) ==
  q.kind = "create" =>
    /\ entries[q.id].of = CNone /\ r.part.condition # q.id
    /\ r.kind = "create" /\ r.id = q.id => r = q

CatalogInv ==
  /\ entry \in [Catalog!Ids -> Catalog!Entry] /\ part \in [Parts -> Catalog!Part]
  /\ orders \subseteq Catalog!Request
  /\ ReferTo(entry, part) /\ Graded(entry, part) /\ NamedApart(entry)
  /\ \A q \in orders : OrderOf(q, entry)
  /\ \A q, r \in orders : GivesAlone(q, r, entry)

LEMMA CatalogNone ==
  /\ CNone = "none" /\ CShared = "all" /\ CNone # CShared
  /\ CNone \notin Conditions \cup Categories \cup Tenants /\ CShared \notin Tenants
  /\ Conditions \cap Categories = {} /\ Catalog!Ids = Conditions \cup Categories
BY CatalogAssumption DEF CNone, CShared, Catalog!None, Catalog!Shared, Catalog!Ids

LEMMA CatalogTypes == CatalogInv => Catalog!TypeOK /\ Catalog!PartsAreGraded
<1> SUFFICES ASSUME CatalogInv PROVE Catalog!TypeOK /\ Catalog!PartsAreGraded
  OBVIOUS
<1>1. Catalog!TypeOK
  BY DEF CatalogInv, ReferTo, CNone, Catalog!TypeOK, Catalog!Exists
<1>2. ASSUME NEW p \in Parts, part[p].of # CNone
      PROVE  part[p].condition # CNone /\ Catalog!Visible(part[p].of, part[p].condition)
  BY <1>2, CatalogNone DEF CatalogInv, Graded, Catalog!Visible, Catalog!Exists, CNone, CShared, Catalog!Part
<1>3. ASSUME NEW i \in Catalog!Ids, entry[i].of # CNone, entry[i].of # CShared
      PROVE  ~ Catalog!SlugTaken(i, entry[i].of, entry[i].slug)
  <2>1. entry[i].of \in Tenants
    BY <1>3 DEF CatalogInv, Catalog!Entry, CNone, CShared
  <2> QED
    BY <2>1, CatalogNone DEF CatalogInv, NamedApart, Catalog!SlugTaken, Catalog!Kind
<1> QED
  BY <1>1, <1>2, <1>3 DEF Catalog!PartsAreGraded, Catalog!Exists, CNone, CShared

LEMMA CatalogInit == Catalog!Init => CatalogInv
<1> SUFFICES ASSUME Catalog!Init PROVE CatalogInv
  OBVIOUS
<1>1. PICK shared \in Conditions :
        entry = [i \in Catalog!Ids |->
                   IF i = shared THEN [of |-> CShared, slug |-> CHOOSE s \in {"x"} : TRUE, parent |-> CNone]
                   ELSE Catalog!NoEntry]
  BY DEF Catalog!Init, CNone, CShared
<1>2. /\ [of |-> CShared, slug |-> CHOOSE s \in {"x"} : TRUE, parent |-> CNone] \in Catalog!Entry
      /\ Catalog!NoEntry \in Catalog!Entry /\ Catalog!NoPart \in Catalog!Part
  BY DEF Catalog!Entry, Catalog!NoEntry, Catalog!Part, Catalog!NoPart, CShared, CNone
<1>3. \A i \in Catalog!Ids : entry[i].parent = CNone /\ entry[i].of \in {CShared, CNone}
  BY <1>1 DEF Catalog!NoEntry, CNone
<1>4. part = [p \in Parts |-> Catalog!NoPart] /\ orders = {}
  BY DEF Catalog!Init
<1>5. ReferTo(entry, part) /\ Graded(entry, part) /\ NamedApart(entry)
  BY <1>3, <1>4, CatalogNone DEF ReferTo, Graded, NamedApart, Catalog!NoPart, CNone
<1> QED
  BY <1>1, <1>2, <1>4, <1>5 DEF CatalogInv

LEMMA CatalogStays ==
  ASSUME CatalogInv, UNCHANGED catalogVars
  PROVE  CatalogInv'
BY DEF CatalogInv, catalogVars

\* A request comes that gives no id, or one that nobody speaks of.
LEMMA CatalogComes ==
  ASSUME CatalogInv, NEW kind, NEW t, NEW i, NEW e, NEW p,
         Catalog!Begin(kind, t, i, e, p),
         [kind |-> kind, by |-> t, id |-> i, entry |-> e, part |-> p] \in Catalog!Request,
         OrderOf([kind |-> kind, by |-> t, id |-> i, entry |-> e, part |-> p], entry),
         kind = "create" => entry[i].of = CNone /\ Catalog!Fresh(i) /\ p.condition # i,
         p.condition = CNone \/ entry[p.condition].of # CNone
  PROVE  CatalogInv'
<1> DEFINE q == [kind |-> kind, by |-> t, id |-> i, entry |-> e, part |-> p]
<1>1. orders' = orders \cup {q} /\ UNCHANGED <<entry, part>>
  BY DEF Catalog!Begin
<1>2. /\ q \in Catalog!Request /\ OrderOf(q, entry)
      /\ q.kind = kind /\ q.id = i /\ q.part = p
  OBVIOUS
<1> HIDE DEF q
<1>3. ASSUME NEW r \in orders
      PROVE  GivesAlone(q, r, entry) /\ GivesAlone(r, q, entry)
  <2>1. GivesAlone(q, r, entry)
    BY <1>2 DEF GivesAlone, Catalog!Fresh
  <2>2. r.kind = "create" => entry[r.id].of = CNone /\ r.id # CNone
    BY CatalogNone DEF CatalogInv, GivesAlone, OrderOf
  <2>3. GivesAlone(r, q, entry)
    BY <1>2, <2>2 DEF GivesAlone, Catalog!Fresh
  <2> QED
    BY <2>1, <2>3
<1>4. GivesAlone(q, q, entry)
  BY <1>2 DEF GivesAlone
<1> QED
  BY <1>1, <1>2, <1>3, <1>4 DEF CatalogInv

\* A request writes and ends: entries keep their tenants, or go, or one comes that no
\* request speaks of.
LEMMA CatalogWritten ==
  ASSUME CatalogInv, NEW q \in orders, orders' = orders \ {q},
         entry' \in [Catalog!Ids -> Catalog!Entry], part' \in [Parts -> Catalog!Part],
         ReferTo(entry', part'), Graded(entry', part'), NamedApart(entry'),
         \A i \in Catalog!Ids : \/ entry'[i].of \in {entry[i].of, CNone}
                                \/ q.kind = "create" /\ i = q.id
  PROVE  CatalogInv'
<1>1. ASSUME NEW r \in orders'
      PROVE  OrderOf(r, entry')
  <2>1. CASE r.kind \in {"part", "regrade"}
    <3>1. r \in orders /\ OrderOf(r, entry) /\ GivesAlone(q, r, entry)
      BY <1>1 DEF CatalogInv
    <3>2. r.part.condition \in Catalog!Ids /\ (q.kind = "create" => r.part.condition # q.id)
      BY <2>1, <3>1, CatalogNone DEF OrderOf, GivesAlone
    <3> QED
      BY <2>1, <3>1, <3>2 DEF OrderOf
  <2>2. CASE r.kind \notin {"part", "regrade"}
    BY <1>1, <2>2 DEF CatalogInv, OrderOf
  <2> QED
    BY <2>1, <2>2
<1>2. ASSUME NEW r \in orders', NEW s \in orders'
      PROVE  GivesAlone(r, s, entry')
  <2>1. r \in orders /\ s \in orders /\ r # q
    BY <1>2
  <2>2. GivesAlone(r, s, entry) /\ GivesAlone(q, r, entry) /\ OrderOf(r, entry)
    BY <2>1 DEF CatalogInv
  <2>3. r.kind = "create" => r.id \in Catalog!Ids /\ (q.kind = "create" => r.id # q.id)
    BY <2>1, <2>2 DEF GivesAlone, OrderOf
  <2> QED
    BY <2>2, <2>3 DEF GivesAlone
<1> QED
  BY <1>1, <1>2 DEF CatalogInv

LEMMA CatalogStep ==
  ASSUME CatalogInv, Catalog!Next
  PROVE  CatalogInv'
<1>types. /\ entry \in [Catalog!Ids -> Catalog!Entry] /\ part \in [Parts -> Catalog!Part]
          /\ orders \subseteq Catalog!Request
          /\ ReferTo(entry, part) /\ Graded(entry, part) /\ NamedApart(entry)
          /\ \A q \in orders : OrderOf(q, entry)
  BY DEF CatalogInv
<1>none. /\ Catalog!NoEntry \in Catalog!Entry /\ Catalog!NoPart \in Catalog!Part
         /\ Catalog!NoEntry.of = CNone /\ Catalog!NoPart.condition = CNone
         /\ Catalog!NoEntry.parent = CNone /\ Catalog!NoPart.category = CNone
         /\ Catalog!NoPart.of = CNone
  BY DEF Catalog!Entry, Catalog!NoEntry, Catalog!Part, Catalog!NoPart, CNone
<1>1. ASSUME NEW t \in Tenants, NEW i \in Catalog!Ids, NEW slug \in {"x"}, NEW parent \in Categories \cup {CNone},
             \/ Catalog!CreateConditionCheck(t, i, slug) \/ Catalog!CreateCategoryCheck(t, i, slug, parent)
      PROVE  CatalogInv'
  <2>1. PICK p \in Categories \cup {CNone} :
          Catalog!Begin("create", t, i, [of |-> t, slug |-> slug, parent |-> p], Catalog!NoPart)
    BY <1>1 DEF Catalog!CreateConditionCheck, Catalog!CreateCategoryCheck, CNone
  <2>2. entry[i].of = CNone /\ Catalog!Fresh(i)
    BY <1>1 DEF Catalog!CreateConditionCheck, Catalog!CreateCategoryCheck, Catalog!Exists, CNone
  <2> DEFINE e == [of |-> t, slug |-> slug, parent |-> p]
  <2>3. e \in Catalog!Entry /\ e.of = t /\ e.slug = "x"
    BY DEF Catalog!Entry, CNone
  <2>4. Catalog!Begin("create", t, i, e, Catalog!NoPart)
    BY <2>1
  <2> HIDE DEF e
  <2>5. LET q == [kind |-> "create", by |-> t, id |-> i, entry |-> e, part |-> Catalog!NoPart]
        IN  q \in Catalog!Request /\ OrderOf(q, entry)
    BY <1>none, <2>3, CatalogNone DEF Catalog!Request, OrderOf
  <2> QED
    BY <1>none, <2>2, <2>4, <2>5, CatalogNone, CatalogComes
<1>2. ASSUME NEW t \in Tenants, NEW i \in Catalog!Ids, NEW slug \in {"x"}, NEW parent \in Categories \cup {CNone},
             \/ Catalog!UpdateConditionCheck(t, i, slug) \/ Catalog!UpdateCategoryCheck(t, i, slug, parent)
      PROVE  CatalogInv'
  <2> DEFINE e1 == [entry[i] EXCEPT !.slug = slug]
             e2 == [entry[i] EXCEPT !.slug = slug, !.parent = parent]
  <2>1. PICK e \in {e1, e2} : Catalog!Begin("update", t, i, e, Catalog!NoPart)
    BY <1>2 DEF Catalog!UpdateConditionCheck, Catalog!UpdateCategoryCheck
  <2>2. e1 \in Catalog!Entry /\ e2 \in Catalog!Entry /\ e1.slug = "x" /\ e2.slug = "x"
    BY <1>types DEF Catalog!Entry, CNone
  <2>3. e \in Catalog!Entry /\ e.slug = "x"
    BY <2>1, <2>2
  <2> HIDE DEF e1, e2
  <2>4. LET q == [kind |-> "update", by |-> t, id |-> i, entry |-> e, part |-> Catalog!NoPart]
        IN  q \in Catalog!Request /\ OrderOf(q, entry)
    BY <1>none, <2>3, CatalogNone DEF Catalog!Request, OrderOf
  <2> QED
    BY <1>none, <2>1, <2>4, CatalogComes
<1>3. ASSUME NEW t \in Tenants, NEW i \in Catalog!Ids, Catalog!RemoveCheck(t, i)
      PROVE  CatalogInv'
  <2>1. LET q == [kind |-> "remove", by |-> t, id |-> i, entry |-> Catalog!NoEntry, part |-> Catalog!NoPart]
        IN  q \in Catalog!Request /\ OrderOf(q, entry)
    BY <1>none DEF Catalog!Request, OrderOf
  <2> QED
    BY <1>3, <1>none, <2>1, CatalogComes DEF Catalog!RemoveCheck
<1>4. ASSUME NEW t \in Tenants, NEW p \in Parts, NEW condition \in Conditions,
             NEW category \in Categories \cup {CNone},
             \/ Catalog!PartCheck(t, p, condition, category)
             \/ Catalog!PartUpdateCheck(t, p, condition, category)
      PROVE  CatalogInv'
  <2> DEFINE made == [of |-> t, condition |-> condition, category |-> category]
  <2>1. PICK kind \in {"part", "regrade"} : Catalog!Begin(kind, t, p, Catalog!NoEntry, made)
    BY <1>4 DEF Catalog!PartCheck, Catalog!PartUpdateCheck
  <2>2. made \in Catalog!Part /\ made.of = t /\ made.condition = condition
    BY DEF Catalog!Part, CNone
  <2>3. entry[condition].of # CNone /\ entry[condition].of \in {t, CShared}
    BY <1>4 DEF Catalog!PartCheck, Catalog!PartUpdateCheck, Catalog!Visible, Catalog!Exists, CNone, CShared
  <2> HIDE DEF made
  <2>4. LET q == [kind |-> kind, by |-> t, id |-> p, entry |-> Catalog!NoEntry, part |-> made]
        IN  q \in Catalog!Request /\ OrderOf(q, entry)
    BY <1>none, <2>2, <2>3 DEF Catalog!Request, OrderOf
  <2> QED
    BY <2>1, <2>2, <2>3, <2>4, CatalogComes
<1>5. ASSUME NEW t \in Tenants, NEW p \in Parts, Catalog!PartRemove(t, p)
      PROVE  CatalogInv'
  <2>1. part' = [part EXCEPT ![p] = Catalog!NoPart] /\ UNCHANGED <<entry, orders>>
    BY <1>5 DEF Catalog!PartRemove
  <2>2. ReferTo(entry, part') /\ Graded(entry, part') /\ part' \in [Parts -> Catalog!Part]
    BY <1>types, <1>none, <2>1 DEF ReferTo, Graded
  <2> QED
    BY <2>1, <2>2 DEF CatalogInv
<1>6. ASSUME NEW q \in orders, Catalog!CreateWrite(q)
      PROVE  CatalogInv'
  <2>0. orders' = orders \ {q} /\ UNCHANGED part
    BY <1>6 DEF Catalog!CreateWrite, Catalog!Done
  <2>1. CASE UNCHANGED entry
    BY <1>types, <2>0, <2>1, CatalogWritten
  <2>2. CASE /\ entry[q.id].of = CNone /\ ~ Catalog!SlugTaken(q.id, q.by, q.entry.slug)
             /\ q.entry.parent # CNone => entry[q.entry.parent].of # CNone
             /\ entry' = [entry EXCEPT ![q.id] = q.entry]
    <3>1. /\ q.id \in Catalog!Ids /\ q.entry.of = q.by /\ q.by \in Tenants /\ q.entry \in Catalog!Entry
          /\ q.kind = "create"
      BY <1>types, <1>6 DEF OrderOf, Catalog!Request, Catalog!CreateWrite
    <3>2. /\ entry' \in [Catalog!Ids -> Catalog!Entry]
          /\ \A i \in Catalog!Ids : entry'[i] = IF i = q.id THEN q.entry ELSE entry[i]
      BY <1>types, <2>2, <3>1
    <3>3. \A i \in Catalog!Ids : entry[i].of # CNone => entry'[i] = entry[i]
      BY <2>2, <3>2
    <3>4. q.entry.parent # CNone => q.entry.parent \in Catalog!Ids
      BY <3>1, CatalogNone DEF Catalog!Entry, CNone
    <3>5. \A i \in Catalog!Ids : entry[i].parent # CNone => entry[i].parent \in Catalog!Ids
      BY <1>types, CatalogNone DEF Catalog!Entry, CNone
    <3>6. \A p \in Parts : /\ part[p].category # CNone => part[p].category \in Catalog!Ids
                           /\ part[p].condition # CNone => part[p].condition \in Catalog!Ids
                           /\ part[p].of # CNone => part[p].of \in Tenants
      BY <1>types, CatalogNone DEF Catalog!Part, CNone
    <3>7. ReferTo(entry', part)
      BY <1>types, <2>2, <3>2, <3>3, <3>4, <3>5, <3>6 DEF ReferTo
    <3>8. Graded(entry', part)
      BY <1>types, <3>3, <3>6, CatalogNone DEF Graded
    <3>9. NamedApart(entry')
      BY <1>types, <2>2, <3>1, <3>2, CatalogNone DEF NamedApart, Catalog!SlugTaken, Catalog!Kind
    <3> QED
      BY <1>types, <2>0, <3>1, <3>2, <3>7, <3>8, <3>9, CatalogWritten
  <2> QED
    BY <1>6, <2>1, <2>2 DEF Catalog!CreateWrite, Catalog!Exists, CNone
<1>7. ASSUME NEW q \in orders, Catalog!UpdateWrite(q)
      PROVE  CatalogInv'
  <2>0. orders' = orders \ {q} /\ UNCHANGED part
    BY <1>7 DEF Catalog!UpdateWrite, Catalog!Done
  <2>1. CASE UNCHANGED entry
    BY <1>types, <2>0, <2>1, CatalogWritten
  <2>2. CASE /\ entry[q.id].of # CShared => ~ Catalog!SlugTaken(q.id, entry[q.id].of, q.entry.slug)
             /\ q.entry.parent # CNone => entry[q.entry.parent].of # CNone
             /\ entry' = [entry EXCEPT ![q.id].slug = q.entry.slug, ![q.id].parent = q.entry.parent]
    <3> DEFINE u == [entry[q.id] EXCEPT !.slug = q.entry.slug, !.parent = q.entry.parent]
    <3>1. q.id \in Catalog!Ids /\ q.entry \in Catalog!Entry
      BY <1>types, <1>7 DEF OrderOf, Catalog!Request, Catalog!UpdateWrite
    <3>2. entry' = [entry EXCEPT ![q.id] = u]
      BY <1>types, <2>2, <3>1
    <3>3. /\ u \in Catalog!Entry /\ u.of = entry[q.id].of /\ u.slug = q.entry.slug
          /\ u.parent = q.entry.parent
      BY <1>types, <3>1 DEF Catalog!Entry
    <3> HIDE DEF u
    <3>4. /\ entry' \in [Catalog!Ids -> Catalog!Entry]
          /\ \A i \in Catalog!Ids : entry'[i] = IF i = q.id THEN u ELSE entry[i]
          /\ \A i \in Catalog!Ids : entry'[i].of = entry[i].of
      BY <1>types, <3>1, <3>2, <3>3
    <3>5. q.entry.parent # CNone => q.entry.parent \in Catalog!Ids
      BY <3>1, CatalogNone DEF Catalog!Entry, CNone
    <3>6. \A i \in Catalog!Ids : entry[i].parent # CNone => entry[i].parent \in Catalog!Ids
      BY <1>types, CatalogNone DEF Catalog!Entry, CNone
    <3>7. \A p \in Parts : /\ part[p].category # CNone => part[p].category \in Catalog!Ids
                           /\ part[p].condition # CNone => part[p].condition \in Catalog!Ids
      BY <1>types, CatalogNone DEF Catalog!Part, CNone
    <3>8. ReferTo(entry', part)
      BY <1>types, <2>2, <3>3, <3>4, <3>5, <3>6, <3>7 DEF ReferTo
    <3>9. Graded(entry', part)
      BY <1>types, <3>4, <3>7 DEF Graded
    <3>10. NamedApart(entry')
      BY <1>types, <2>2, <3>1, <3>3, <3>4, CatalogNone DEF NamedApart, Catalog!SlugTaken, Catalog!Kind
    <3> QED
      BY <1>types, <2>0, <3>4, <3>8, <3>9, <3>10, CatalogWritten
  <2> QED
    BY <1>7, <2>1, <2>2 DEF Catalog!UpdateWrite, Catalog!Exists, CNone, CShared
<1>8. ASSUME NEW q \in orders, Catalog!RemoveCondition(q)
      PROVE  CatalogInv'
  <2>0. orders' = orders \ {q} /\ UNCHANGED part
    BY <1>8 DEF Catalog!RemoveCondition, Catalog!Done
  <2>1. CASE UNCHANGED entry
    BY <1>types, <2>0, <2>1, CatalogWritten
  <2>2. CASE Catalog!UsedBy(q.id) = {} /\ entry' = [entry EXCEPT ![q.id] = Catalog!NoEntry]
    <3>1. q.id \in Conditions /\ q.id \in Catalog!Ids
      BY <1>8, CatalogNone DEF Catalog!RemoveCondition
    <3>2. /\ entry' \in [Catalog!Ids -> Catalog!Entry]
          /\ \A i \in Catalog!Ids : entry'[i] = IF i = q.id THEN Catalog!NoEntry ELSE entry[i]
      BY <1>types, <1>none, <2>2, <3>1
    <3>3. \A i \in Catalog!Ids : entry[i].parent # CNone => entry[i].parent \in Catalog!Ids \ {q.id}
      BY <1>types, <3>1, CatalogNone DEF Catalog!Entry, CNone
    <3>4. \A p \in Parts : /\ part[p].category # CNone => part[p].category \in Catalog!Ids \ {q.id}
                           /\ part[p].condition # CNone => part[p].condition \in Catalog!Ids \ {q.id}
      BY <1>types, <2>2, <3>1, CatalogNone DEF Catalog!Part, CNone, Catalog!UsedBy
    <3>5. ReferTo(entry', part)
      BY <1>types, <1>none, <3>2, <3>3, <3>4 DEF ReferTo
    <3>6. Graded(entry', part)
      BY <1>types, <3>2, <3>4 DEF Graded
    <3>7. NamedApart(entry')
      BY <1>types, <1>none, <3>2, CatalogNone DEF NamedApart
    <3> QED
      BY <1>types, <1>none, <2>0, <3>2, <3>5, <3>6, <3>7, CatalogWritten
  <2> QED
    BY <1>8, <2>1, <2>2 DEF Catalog!RemoveCondition
<1>9. ASSUME NEW q \in orders, Catalog!RemoveCategory(q)
      PROVE  CatalogInv'
  <2> DEFINE e(i) == IF i = q.id THEN Catalog!NoEntry
                     ELSE IF entry[i].parent = q.id THEN [entry[i] EXCEPT !.parent = CNone] ELSE entry[i]
             f(p) == IF part[p].category = q.id THEN [part[p] EXCEPT !.category = CNone] ELSE part[p]
  <2>0. /\ orders' = orders \ {q} /\ q.id \in Categories
        /\ entry' = [i \in Catalog!Ids |-> e(i)] /\ part' = [p \in Parts |-> f(p)]
    BY <1>9 DEF Catalog!RemoveCategory, Catalog!Done, CNone
  <2>1. ASSUME NEW i \in Catalog!Ids
        PROVE  /\ e(i) \in Catalog!Entry /\ (i # q.id => e(i).of = entry[i].of /\ e(i).slug = entry[i].slug)
               /\ i = q.id => e(i) = Catalog!NoEntry
               /\ e(i).parent # CNone => e(i).parent = entry[i].parent /\ entry[i].parent # q.id
    BY <1>types, <1>none DEF Catalog!Entry, CNone
  <2>2. ASSUME NEW p \in Parts
        PROVE  /\ f(p) \in Catalog!Part /\ f(p).of = part[p].of /\ f(p).condition = part[p].condition
               /\ f(p).category # CNone => f(p).category = part[p].category /\ part[p].category # q.id
    BY <1>types, <1>none DEF Catalog!Part, CNone
  <2> HIDE DEF e, f
  <2>3. entry' \in [Catalog!Ids -> Catalog!Entry] /\ part' \in [Parts -> Catalog!Part]
    BY <2>0, <2>1, <2>2
  <2>4. \A i \in Catalog!Ids :
          /\ entry'[i].of \in {entry[i].of, CNone}
          /\ i # q.id => entry'[i].of = entry[i].of /\ entry'[i].slug = entry[i].slug
          /\ i = q.id => entry'[i].of = CNone /\ entry'[i].parent = CNone
          /\ entry'[i].parent # CNone => entry'[i].parent = entry[i].parent /\ entry[i].parent # q.id
    BY <1>none, <2>0, <2>1
  <2>5. \A p \in Parts :
          /\ part'[p].of = part[p].of /\ part'[p].condition = part[p].condition
          /\ part'[p].category # CNone => part'[p].category = part[p].category /\ part[p].category # q.id
    BY <2>0, <2>2
  <2>6. \A i \in Catalog!Ids : entry[i].parent # CNone => entry[i].parent \in Catalog!Ids
    BY <1>types, CatalogNone DEF Catalog!Entry, CNone
  <2>7. \A p \in Parts : /\ part[p].category # CNone => part[p].category \in Catalog!Ids
                         /\ part[p].condition # CNone => part[p].condition \in Catalog!Ids \ {q.id}
    BY <1>types, <2>0, CatalogNone DEF Catalog!Part, CNone
  <2>8. ReferTo(entry', part')
    BY <1>types, <2>4, <2>5, <2>6, <2>7 DEF ReferTo
  <2>9. Graded(entry', part')
    BY <1>types, <2>4, <2>5, <2>7 DEF Graded
  <2>10. NamedApart(entry')
    BY <1>types, <2>4, CatalogNone DEF NamedApart
  <2> QED
    BY <2>0, <2>3, <2>4, <2>8, <2>9, <2>10, CatalogWritten
<1>10. ASSUME NEW q \in orders, Catalog!PartWrite(q)
       PROVE  CatalogInv'
  <2>0. orders' = orders \ {q} /\ UNCHANGED entry
    BY <1>10 DEF Catalog!PartWrite, Catalog!Done
  <2>1. CASE UNCHANGED part
    BY <1>types, <2>0, <2>1, CatalogWritten
  <2>2. CASE /\ entry[q.part.condition].of # CNone
             /\ q.part.category # CNone => entry[q.part.category].of # CNone
             /\ part' = [part EXCEPT ![q.id] = q.part]
    <3>1. /\ q.id \in Parts /\ q.part.of \in Tenants /\ q.part.condition \in Conditions
          /\ entry[q.part.condition].of \in {CShared, q.part.of} /\ q.part \in Catalog!Part
      BY <1>types, <1>10, <2>2 DEF OrderOf, Catalog!PartWrite, Catalog!Request
    <3>2. ReferTo(entry, part') /\ Graded(entry, part') /\ part' \in [Parts -> Catalog!Part]
      BY <1>types, <2>2, <3>1, CatalogNone DEF ReferTo, Graded
    <3> QED
      BY <1>types, <2>0, <3>2, CatalogWritten
  <2> QED
    BY <1>10, <2>1, <2>2 DEF Catalog!PartWrite, Catalog!Exists, CNone
<1> QED
  BY <1>1, <1>2, <1>3, <1>4, <1>5, <1>6, <1>7, <1>8, <1>9, <1>10 DEF Catalog!Next, Catalog!Write, CNone


-----------------------------------------------------------------------------
(* The roles *)

RoleRow == [exists : BOOLEAN, slug : Slugs \cup {"none"}, granted : SUBSET Known]

\* An update is of a role of the tenant, and one that clears permissions has been given new ones.
Updating(q) == q.kind = "update" => q.role \in Roles /\ (q.pc # "write" => ~ q.keep)

RolesInv ==
  /\ role \in [Roles -> RoleRow]
  /\ holder \in [Users -> Roles \cup RoleTable!Global]
  /\ asked \in [Roles -> SUBSET Known]
  /\ torn \subseteq Roles
  /\ grants \subseteq RoleTable!Request
  /\ \A q \in grants : Updating(q)
  /\ \A u \in Users : holder[u] \in Roles => role[holder[u]].exists

LEMMA RolesTypes == RolesInv => RoleTable!TypeOK
BY DEF RolesInv, RoleTable!TypeOK, RoleTable!Exists, RoleRow

\* RoleTable!Exists speaks of the roles of the tenant.
LEMMA OwnRoleExists ==
  ASSUME NEW r \in Roles \cup RoleTable!Global
  PROVE  RoleTable!Exists(r) <=> (r \in Roles => role[r].exists)
BY RolesAssumption DEF RoleTable!Exists, RoleTable!Global

LEMMA RolesInit == RoleTable!Init => RolesInv
BY RolesAssumption DEF RolesInv, RoleTable!Init, RoleTable!NoRole, RoleRow, RoleTable!Global

LEMMA RolesStay ==
  ASSUME RolesInv, UNCHANGED rolesVars
  PROVE  RolesInv'
BY DEF RolesInv, rolesVars

\* A request before it has its place.
Unplaced == [place : {0}, kind : RoleTable!Kinds, role : Roles \cup RoleTable!Global,
             slug : Slugs \cup {"none"}, user : Users \cup {"none"},
             set : SUBSET Known, keep : BOOLEAN, pc : {"clear", "write"}]

LEMMA GrantBegins ==
  ASSUME NEW q \in Unplaced, RoleTable!Begin(q), Updating(q)
  PROVE  \E x \in RoleTable!Request :
           grants' = grants \cup {x} /\ Updating(x) /\ x.pc # "fill"
<1>0. PICK place \in 1 .. InFlight : grants' = grants \cup {[q EXCEPT !.place = place]}
  BY DEF RoleTable!Begin
<1> DEFINE x == [q EXCEPT !.place = place]
<1>1. /\ x \in RoleTable!Request /\ x.kind = q.kind /\ x.role = q.role /\ x.keep = q.keep
      /\ x.pc = q.pc /\ q.pc # "fill"
  BY DEF Unplaced, RoleTable!Request
<1>2. grants' = grants \cup {x}
  BY <1>0
<1> HIDE DEF x
<1> QED
  BY <1>1, <1>2 DEF Updating

\* A request to create or update a role, or to remove or assign one, comes.
LEMMA RolesComes ==
  ASSUME RolesInv, NEW u \in Users, NEW r \in Roles, NEW slug \in Slugs, NEW set \in SUBSET Named,
         NEW keep \in BOOLEAN, RoleTable!CreateRead(u, r, slug, set) \/ RoleTable!UpdateRead(u, r, slug, set, keep)
  PROVE  /\ UNCHANGED <<role, holder, asked, torn>>
         /\ \E x \in RoleTable!Request : grants' = grants \cup {x} /\ Updating(x) /\ x.pc # "fill"
<1>1. CASE RoleTable!CreateRead(u, r, slug, set)
  <2> DEFINE q == [RoleTable!Blank("create", r) EXCEPT !.slug = slug, !.set = set]
  <2>1. q \in Unplaced /\ q.kind = "create"
    BY <1>1 DEF RoleTable!CreateRead, RoleTable!Blank, Unplaced, RoleTable!Kinds
  <2>2. RoleTable!Begin(q) /\ UNCHANGED <<role, holder, asked, torn>>
    BY <1>1 DEF RoleTable!CreateRead
  <2> HIDE DEF q
  <2> QED
    BY <2>1, <2>2, GrantBegins DEF Updating
<1>2. CASE RoleTable!UpdateRead(u, r, slug, set, keep)
  <2> DEFINE q == [RoleTable!Blank("update", r) EXCEPT
                     !.slug = slug, !.set = IF keep THEN {} ELSE set \cap Known, !.keep = keep,
                     !.pc = IF keep THEN "write" ELSE "clear"]
  <2>1. q \in Unplaced /\ q.role = r /\ (q.pc # "write" => ~ q.keep)
    BY DEF RoleTable!Blank, Unplaced, RoleTable!Kinds
  <2>2. RoleTable!Begin(q) /\ UNCHANGED <<role, holder, asked, torn>>
    BY <1>2 DEF RoleTable!UpdateRead
  <2> HIDE DEF q
  <2> QED
    BY <2>1, <2>2, GrantBegins DEF Updating
<1> QED
  BY <1>1, <1>2

LEMMA RolesComesToo ==
  ASSUME RolesInv, NEW u \in Users, NEW r \in Roles \cup RoleTable!Global,
         (r \in Roles /\ RoleTable!RemoveRead(u, r)) \/ RoleTable!AssignRead(u, r)
  PROVE  /\ UNCHANGED <<role, holder, asked, torn>>
         /\ \E x \in RoleTable!Request : grants' = grants \cup {x} /\ Updating(x) /\ x.pc # "fill"
<1>1. CASE r \in Roles /\ RoleTable!RemoveRead(u, r)
  <2> DEFINE q == RoleTable!Blank("remove", r)
  <2>1. q \in Unplaced /\ q.kind = "remove"
    BY DEF RoleTable!Blank, Unplaced, RoleTable!Kinds
  <2>2. RoleTable!Begin(q) /\ UNCHANGED <<role, holder, asked, torn>>
    BY <1>1 DEF RoleTable!RemoveRead
  <2> HIDE DEF q
  <2> QED
    BY <2>1, <2>2, GrantBegins DEF Updating
<1>2. CASE RoleTable!AssignRead(u, r)
  <2> DEFINE q == [RoleTable!Blank("assign", r) EXCEPT !.user = u]
  <2>1. q \in Unplaced /\ q.kind = "assign"
    BY DEF RoleTable!Blank, Unplaced, RoleTable!Kinds
  <2>2. RoleTable!Begin(q) /\ UNCHANGED <<role, holder, asked, torn>>
    BY <1>2 DEF RoleTable!AssignRead
  <2> HIDE DEF q
  <2> QED
    BY <2>1, <2>2, GrantBegins DEF Updating
<1> QED
  BY <1>1, <1>2

\* What an update goes on with.
LEMMA RolesGoto ==
  ASSUME RolesInv, NEW q \in grants, NEW pc \in {"clear", "fill", "write"}, RoleTable!Goto(q, pc),
         q.kind = "update" /\ q.pc # "write"
  PROVE  \E x \in RoleTable!Request :
           grants' = (grants \ {q}) \cup {x} /\ x.kind = "update" /\ x.pc = pc /\ x.role = q.role /\ Updating(x)
<1> DEFINE x == [q EXCEPT !.pc = pc]
<1>1. x \in RoleTable!Request /\ x.kind = "update" /\ x.pc = pc /\ x.role = q.role /\ x.keep = q.keep
  BY DEF RolesInv, RoleTable!Request
<1>2. grants' = (grants \ {q}) \cup {x}
  BY DEF RoleTable!Goto
<1>3. Updating(q)
  BY DEF RolesInv
<1> HIDE DEF x
<1> QED
  BY <1>1, <1>2, <1>3 DEF Updating

\* A row is written and still exists if it did.
LEMMA RoleWritten ==
  ASSUME RolesInv, NEW r, NEW row1 \in RoleRow, r \in Roles => (role[r].exists => row1.exists),
         role' = [role EXCEPT ![r] = row1], UNCHANGED holder,
         asked' \in [Roles -> SUBSET Known], grants' \subseteq RoleTable!Request,
         torn' \subseteq Roles, \A q \in grants' : Updating(q)
  PROVE  RolesInv'
<1>1. role' \in [Roles -> RoleRow] /\ \A s \in Roles : role'[s] = IF s = r THEN row1 ELSE role[s]
  BY DEF RolesInv
<1> QED
  BY <1>1 DEF RolesInv

LEMMA RolesStep ==
  ASSUME RolesInv, RoleTable!Next
  PROVE  RolesInv'
<1>types. /\ role \in [Roles -> RoleRow] /\ holder \in [Users -> Roles \cup RoleTable!Global]
          /\ asked \in [Roles -> SUBSET Known] /\ torn \subseteq Roles
          /\ grants \subseteq RoleTable!Request /\ \A q \in grants : Updating(q)
          /\ \A u \in Users : holder[u] \in Roles => role[holder[u]].exists
  BY DEF RolesInv
<1>1. ASSUME NEW u \in Users, NEW r \in Roles, NEW slug \in Slugs, NEW set \in SUBSET Named, NEW keep \in BOOLEAN,
             RoleTable!CreateRead(u, r, slug, set) \/ RoleTable!UpdateRead(u, r, slug, set, keep)
      PROVE  RolesInv'
  <2>1. UNCHANGED <<role, holder, asked, torn>>
    BY <1>1, RolesComes
  <2>2. PICK q \in RoleTable!Request : grants' = grants \cup {q} /\ Updating(q)
    BY <1>1, RolesComes
  <2> QED
    BY <1>types, <2>1, <2>2 DEF RolesInv
<1>2. ASSUME NEW u \in Users, NEW r \in Roles \cup RoleTable!Global,
             (r \in Roles /\ RoleTable!RemoveRead(u, r)) \/ RoleTable!AssignRead(u, r)
      PROVE  RolesInv'
  <2>1. UNCHANGED <<role, holder, asked, torn>>
    BY <1>2, RolesComesToo
  <2>2. PICK q \in RoleTable!Request : grants' = grants \cup {q} /\ Updating(q)
    BY <1>2, RolesComesToo
  <2> QED
    BY <1>types, <2>1, <2>2 DEF RolesInv
<1>3. ASSUME NEW q \in grants, RoleTable!CreateWrite(q)
      PROVE  RolesInv'
  <2>1. /\ UNCHANGED holder /\ grants' \subseteq grants
        /\ grants' \subseteq RoleTable!Request /\ \A p \in grants' : Updating(p)
    BY <1>types, <1>3 DEF RoleTable!CreateWrite, RoleTable!Done
  <2>2. CASE UNCHANGED <<role, asked, torn>>
    BY <1>types, <2>1, <2>2 DEF RolesInv
  <2>3. CASE /\ role' = [role EXCEPT ![q.role] = [exists |-> TRUE, slug |-> q.slug, granted |-> q.set]]
             /\ asked' = [asked EXCEPT ![q.role] = q.set] /\ torn' = torn \ {q.role}
    <3>1. [exists |-> TRUE, slug |-> q.slug, granted |-> q.set] \in RoleRow /\ q.set \in SUBSET Known
      BY <1>types DEF RoleRow, RoleTable!Request
    <3>2. asked' \in [Roles -> SUBSET Known] /\ torn' \subseteq Roles
      BY <1>types, <2>3, <3>1
    <3> QED
      BY <2>1, <2>3, <3>1, <3>2, RoleWritten
  <2> QED
    BY <1>3, <2>2, <2>3 DEF RoleTable!CreateWrite
<1>4. ASSUME NEW q \in grants, RoleTable!UpdateClear(q)
      PROVE  RolesInv'
  <2> DEFINE u == [role[q.role] EXCEPT !.granted = {}]
  <2>1. /\ q.kind = "update" /\ q.pc = "clear" /\ q.role \in Roles /\ RoleTable!Goto(q, "fill")
        /\ UNCHANGED <<holder, asked, torn>>
    BY <1>types, <1>4 DEF RoleTable!UpdateClear, RoleTable!At, Updating
  <2>2. PICK x \in RoleTable!Request : grants' = (grants \ {q}) \cup {x} /\ Updating(x)
    BY <2>1, RolesGoto
  <2>3. role' = [role EXCEPT ![q.role] = u]
    BY <1>4 DEF RoleTable!UpdateClear
  <2>4. u \in RoleRow /\ u.exists = role[q.role].exists
    BY <1>types, <2>1 DEF RoleRow
  <2> HIDE DEF u
  <2>5. grants' \subseteq RoleTable!Request /\ \A p \in grants' : Updating(p)
    BY <1>types, <2>2
  <2>6. asked' \in [Roles -> SUBSET Known] /\ torn' \subseteq Roles
    BY <1>types, <2>1
  <2> QED
    BY <2>1, <2>3, <2>4, <2>5, <2>6, RoleWritten
<1>5. ASSUME NEW q \in grants, RoleTable!UpdateFill(q)
      PROVE  RolesInv'
  <2> DEFINE u == [role[q.role] EXCEPT !.granted = @ \cup q.set]
  <2>1. /\ UNCHANGED holder /\ q.set \in SUBSET Known /\ q.role \in Roles
        /\ q.kind = "update" /\ q.pc = "fill"
    BY <1>types, <1>5 DEF RoleTable!UpdateFill, RoleTable!Request, RoleTable!At, Updating
  <2>2. CASE RoleTable!Done(q) /\ UNCHANGED <<role, asked, torn>>
    BY <1>types, <2>1, <2>2 DEF RolesInv, RoleTable!Done
  <2>3. CASE /\ role' = [role EXCEPT ![q.role].granted = @ \cup q.set]
             /\ asked' = IF q.keep THEN asked ELSE [asked EXCEPT ![q.role] = q.set]
             /\ torn' = IF role[q.role].granted = {} THEN torn \ {q.role} ELSE torn \cup {q.role}
             /\ RoleTable!Goto(q, "write")
    <3>1. PICK x \in RoleTable!Request : grants' = (grants \ {q}) \cup {x} /\ Updating(x)
      BY <2>1, <2>3, RolesGoto
    <3>2. asked' \in [Roles -> SUBSET Known] /\ torn' \subseteq Roles
      BY <1>types, <2>1, <2>3
    <3>3. role' = [role EXCEPT ![q.role] = u]
      BY <2>3
    <3>4. u \in RoleRow /\ u.exists = role[q.role].exists
      BY <1>types, <2>1 DEF RoleRow
    <3> HIDE DEF u
    <3>5. grants' \subseteq RoleTable!Request /\ \A p \in grants' : Updating(p)
      BY <1>types, <3>1
    <3> QED
      BY <2>1, <3>2, <3>3, <3>4, <3>5, RoleWritten
  <2> QED
    BY <1>5, <2>2, <2>3 DEF RoleTable!UpdateFill
<1>6. ASSUME NEW q \in grants, RoleTable!UpdateWrite(q)
      PROVE  RolesInv'
  <2> DEFINE u == [role[q.role] EXCEPT !.slug = q.slug]
  <2>1. /\ role' = role \/ role' = [role EXCEPT ![q.role] = u]
        /\ UNCHANGED <<holder, asked, torn>> /\ grants' \subseteq grants
        /\ q.role \in Roles /\ q.slug \in Slugs \cup {"none"}
    BY <1>types, <1>6 DEF RoleTable!UpdateWrite, RoleTable!Done, RoleTable!At, Updating, RoleTable!Request
  <2>2. CASE role' = role
    BY <1>types, <2>1, <2>2 DEF RolesInv
  <2>3. CASE role' = [role EXCEPT ![q.role] = u]
    <3>1. u \in RoleRow /\ u.exists = role[q.role].exists
      BY <1>types, <2>1 DEF RoleRow
    <3> HIDE DEF u
    <3>2. /\ asked' \in [Roles -> SUBSET Known] /\ torn' \subseteq Roles
          /\ grants' \subseteq RoleTable!Request /\ \A p \in grants' : Updating(p)
      BY <1>types, <2>1
    <3> QED
      BY <2>1, <2>3, <3>1, <3>2, RoleWritten
  <2> QED
    BY <2>1, <2>2, <2>3
<1>7. ASSUME NEW q \in grants, RoleTable!RemoveWrite(q)
      PROVE  RolesInv'
  <2>1. UNCHANGED <<holder, torn>> /\ grants' \subseteq grants
    BY <1>types, <1>7 DEF RoleTable!RemoveWrite, RoleTable!Done
  <2>2. CASE UNCHANGED <<role, asked>>
    BY <1>types, <2>1, <2>2 DEF RolesInv
  <2>3. CASE /\ RoleTable!MembersOf(q.role) = {}
             /\ role' = [role EXCEPT ![q.role] = RoleTable!NoRole] /\ asked' = [asked EXCEPT ![q.role] = {}]
    <3>1. RoleTable!NoRole \in RoleRow
      BY DEF RoleTable!NoRole, RoleRow
    <3>2. role' \in [Roles -> RoleRow] /\ asked' \in [Roles -> SUBSET Known]
      BY <1>types, <2>3, <3>1
    <3>3. \A u \in Users : holder[u] # q.role
      BY <2>3 DEF RoleTable!MembersOf
    <3> QED
      BY <1>types, <2>1, <2>3, <3>2, <3>3 DEF RolesInv
  <2> QED
    BY <1>7, <2>2, <2>3 DEF RoleTable!RemoveWrite
<1>8. ASSUME NEW q \in grants, RoleTable!AssignWrite(q)
      PROVE  RolesInv'
  <2>1. q.role \in Roles \cup RoleTable!Global
    BY <1>types DEF RoleTable!Request
  <2>2. UNCHANGED <<role, asked, torn>> /\ grants' \subseteq grants
    BY <1>types, <1>8 DEF RoleTable!AssignWrite, RoleTable!Done
  <2>3. \/ holder' = holder
        \/ (q.role \in Roles => role[q.role].exists) /\ holder' = [holder EXCEPT ![q.user] = q.role]
    BY <1>8, <2>1, OwnRoleExists DEF RoleTable!AssignWrite
  <2>4. /\ holder' \in [Users -> Roles \cup RoleTable!Global]
        /\ \A u \in Users : holder'[u] = holder[u]
             \/ (holder'[u] = q.role /\ (q.role \in Roles => role[q.role].exists))
    BY <1>types, <2>1, <2>3
  <2> QED
    BY <1>types, <2>1, <2>2, <2>4 DEF RolesInv
<1>9. ASSUME NEW q \in grants, RoleTable!Crash(q)
      PROVE  RolesInv'
  <2>1. torn' \subseteq Roles
    BY <1>types, <1>9 DEF RoleTable!Crash, RoleTable!At, Updating
  <2> QED
    BY <1>9, <2>1 DEF RoleTable!Crash, RoleTable!Done, RolesInv
<1> QED
  BY <1>1, <1>2, <1>3, <1>4, <1>5, <1>6, <1>7, <1>8, <1>9
  DEF RoleTable!Next, RoleTable!Step

Filling(r, reqs) == \E q \in reqs : q.role = r /\ q.kind = "update" /\ q.pc = "fill"

\* A role is as it was last told to be, or waits to be filled; one that there is not has been
\* told nothing.
GrantedAsAsked(r, reqs, roles, told, broken) ==
  /\ r \notin broken => roles[r].granted = told[r] \/ (roles[r].granted = {} /\ Filling(r, reqs))
  /\ ~ roles[r].exists => roles[r].granted = {} /\ told[r] = {}

GrantsInv == \A r \in Roles : GrantedAsAsked(r, grants, role, asked, torn)

LEMMA GrantsTypes == GrantsInv => RoleTable!GrantsAsAsked
BY DEF GrantsInv, GrantedAsAsked, Filling, RoleTable!GrantsAsAsked, RoleTable!At

LEMMA GrantsInit == RoleTable!Init => GrantsInv
BY DEF GrantsInv, GrantedAsAsked, RoleTable!Init, RoleTable!NoRole

LEMMA GrantsStay ==
  ASSUME GrantsInv, UNCHANGED rolesVars
  PROVE  GrantsInv'
BY DEF GrantsInv, rolesVars

\* What exists is as before, and who fills still does.
LEMMA GrantsSame ==
  ASSUME GrantsInv, UNCHANGED <<asked, torn>>,
         \A q \in grants : q.kind = "update" /\ q.pc = "fill" => q \in grants',
         \A r \in Roles : role'[r].exists = role[r].exists /\ role'[r].granted = role[r].granted
  PROVE  GrantsInv'
<1>1. \A r \in Roles : Filling(r, grants) => Filling(r, grants')
  BY DEF Filling
<1> QED
  BY <1>1 DEF GrantsInv, GrantedAsAsked

\* One role is written, and who fills another still does.
LEMMA GrantsWritten ==
  ASSUME GrantsInv, NEW s \in Roles,
         \A r \in Roles \ {s} : /\ role'[r] = role[r] /\ asked'[r] = asked[r]
                                /\ r \notin torn' => r \notin torn,
         \A q \in grants : q.kind = "update" /\ q.pc = "fill" /\ q.role # s => q \in grants',
         GrantedAsAsked(s, grants', role', asked', torn')
  PROVE  GrantsInv'
<1>1. \A r \in Roles \ {s} : Filling(r, grants) => Filling(r, grants')
  BY DEF Filling
<1> QED
  BY <1>1 DEF GrantsInv, GrantedAsAsked

LEMMA GrantsStep ==
  ASSUME RolesInv, GrantsInv, RoleTable!Next
  PROVE  GrantsInv'
<1>types. /\ role \in [Roles -> RoleRow] /\ asked \in [Roles -> SUBSET Known] /\ torn \subseteq Roles
          /\ grants \subseteq RoleTable!Request /\ \A q \in grants : Updating(q)
          /\ \A r \in Roles : GrantedAsAsked(r, grants, role, asked, torn)
  BY DEF RolesInv, GrantsInv
<1>1. ASSUME NEW u \in Users, NEW r \in Roles, NEW slug \in Slugs, NEW set \in SUBSET Named, NEW keep \in BOOLEAN,
             RoleTable!CreateRead(u, r, slug, set) \/ RoleTable!UpdateRead(u, r, slug, set, keep)
      PROVE  GrantsInv'
  <2>1. UNCHANGED <<role, asked, torn>> /\ grants \subseteq grants'
    BY <1>1, RolesComes
  <2> QED
    BY <2>1, GrantsSame
<1>2. ASSUME NEW u \in Users, NEW r \in Roles \cup RoleTable!Global,
             (r \in Roles /\ RoleTable!RemoveRead(u, r)) \/ RoleTable!AssignRead(u, r)
      PROVE  GrantsInv'
  <2>1. UNCHANGED <<role, asked, torn>> /\ grants \subseteq grants'
    BY <1>2, RolesComesToo
  <2> QED
    BY <2>1, GrantsSame
<1>3. ASSUME NEW q \in grants, RoleTable!CreateWrite(q)
      PROVE  GrantsInv'
  <2>1. grants' = grants \ {q} /\ q.kind = "create"
    BY <1>3 DEF RoleTable!CreateWrite, RoleTable!At, RoleTable!Done
  <2>2. CASE UNCHANGED <<role, asked, torn>>
    BY <2>1, <2>2, GrantsSame
  <2>3. CASE /\ role' = [role EXCEPT ![q.role] = [exists |-> TRUE, slug |-> q.slug, granted |-> q.set]]
             /\ asked' = [asked EXCEPT ![q.role] = q.set] /\ torn' = torn \ {q.role}
    <3>1. CASE q.role \in Roles
      <4>1. \A r \in Roles \ {q.role} :
              role'[r] = role[r] /\ asked'[r] = asked[r] /\ (r \notin torn' => r \notin torn)
        BY <1>types, <2>3
      <4>2. role'[q.role].exists /\ role'[q.role].granted = asked'[q.role]
        BY <1>types, <2>3, <3>1
      <4> QED
        BY <2>1, <3>1, <4>1, <4>2, GrantsWritten DEF GrantedAsAsked
    <3>2. CASE q.role \notin Roles
      <4>1. UNCHANGED <<role, asked, torn>>
        BY <1>types, <2>3, <3>2
      <4> QED
        BY <2>1, <4>1, GrantsSame
    <3> QED
      BY <3>1, <3>2
  <2> QED
    BY <1>3, <2>2, <2>3 DEF RoleTable!CreateWrite
<1>4. ASSUME NEW q \in grants, RoleTable!UpdateClear(q)
      PROVE  GrantsInv'
  <2>1. /\ q.kind = "update" /\ q.pc = "clear" /\ q.role \in Roles /\ RoleTable!Goto(q, "fill")
        /\ UNCHANGED <<asked, torn>> /\ role' = [role EXCEPT ![q.role].granted = {}]
    BY <1>types, <1>4 DEF RoleTable!UpdateClear, RoleTable!At, Updating
  <2>2. PICK x \in RoleTable!Request :
          grants' = (grants \ {q}) \cup {x} /\ x.kind = "update" /\ x.pc = "fill" /\ x.role = q.role
    BY <2>1, RolesGoto
  <2>3. /\ \A r \in Roles \ {q.role} : role'[r] = role[r]
        /\ role'[q.role].exists = role[q.role].exists /\ role'[q.role].granted = {}
    BY <1>types, <2>1 DEF RoleRow
  <2>4. Filling(q.role, grants')
    BY <2>2 DEF Filling
  <2>5. GrantedAsAsked(q.role, grants', role', asked', torn')
    BY <1>types, <2>1, <2>3, <2>4 DEF GrantedAsAsked
  <2> QED
    BY <2>1, <2>2, <2>3, <2>5, GrantsWritten
<1>5. ASSUME NEW q \in grants, RoleTable!UpdateFill(q)
      PROVE  GrantsInv'
  <2>1. q.kind = "update" /\ q.pc = "fill" /\ q.role \in Roles /\ ~ q.keep
    BY <1>types, <1>5 DEF RoleTable!UpdateFill, RoleTable!At, Updating
  <2>2. CASE role[q.role].exists /\ q.set \cap role[q.role].granted = {}
    <3>1. /\ role' = [role EXCEPT ![q.role].granted = @ \cup q.set]
          /\ asked' = [asked EXCEPT ![q.role] = q.set]
          /\ torn' = IF role[q.role].granted = {} THEN torn \ {q.role} ELSE torn \cup {q.role}
          /\ RoleTable!Goto(q, "write")
      BY <1>5, <2>1, <2>2 DEF RoleTable!UpdateFill
    <3>2. PICK x \in RoleTable!Request : grants' = (grants \ {q}) \cup {x}
      BY <2>1, <3>1, RolesGoto
    <3>3. \A r \in Roles \ {q.role} :
            role'[r] = role[r] /\ asked'[r] = asked[r] /\ (r \notin torn' => r \notin torn)
      BY <1>types, <3>1
    <3>4. /\ role'[q.role].exists /\ asked'[q.role] = q.set
          /\ role'[q.role].granted = role[q.role].granted \cup q.set
      BY <1>types, <2>1, <2>2, <3>1 DEF RoleRow
    <3>5. GrantedAsAsked(q.role, grants', role', asked', torn')
      BY <3>1, <3>4 DEF GrantedAsAsked
    <3> QED
      BY <2>1, <3>2, <3>3, <3>5, GrantsWritten
  <2>3. CASE ~ (role[q.role].exists /\ q.set \cap role[q.role].granted = {})
    <3>1. grants' = grants \ {q} /\ UNCHANGED <<role, asked, torn>>
      BY <1>5, <2>3 DEF RoleTable!UpdateFill, RoleTable!Done
    <3>2. GrantedAsAsked(q.role, grants', role', asked', torn')
      <4>1. GrantedAsAsked(q.role, grants, role, asked, torn)
        BY <1>types, <2>1
      <4>2. q.role \notin torn => role[q.role].granted = asked[q.role]
        BY <2>3, <4>1 DEF GrantedAsAsked
      <4> QED
        BY <3>1, <4>1, <4>2 DEF GrantedAsAsked
    <3> QED
      BY <2>1, <3>1, <3>2, GrantsWritten
  <2> QED
    BY <2>2, <2>3
<1>6. ASSUME NEW q \in grants, RoleTable!UpdateWrite(q)
      PROVE  GrantsInv'
  <2>1. /\ grants' = grants \ {q} /\ q.pc = "write" /\ UNCHANGED <<asked, torn>>
        /\ role' = role \/ role' = [role EXCEPT ![q.role].slug = q.slug]
    BY <1>6 DEF RoleTable!UpdateWrite, RoleTable!At, RoleTable!Done
  <2>2. \A r \in Roles : role'[r].exists = role[r].exists /\ role'[r].granted = role[r].granted
    BY <1>types, <2>1 DEF RoleRow
  <2> QED
    BY <2>1, <2>2, GrantsSame
<1>7. ASSUME NEW q \in grants, RoleTable!RemoveWrite(q)
      PROVE  GrantsInv'
  <2>1. grants' = grants \ {q} /\ q.kind = "remove" /\ UNCHANGED torn
    BY <1>7 DEF RoleTable!RemoveWrite, RoleTable!At, RoleTable!Done
  <2>2. CASE UNCHANGED <<role, asked>>
    BY <2>1, <2>2, GrantsSame
  <2>3. CASE /\ role' = [role EXCEPT ![q.role] = RoleTable!NoRole] /\ asked' = [asked EXCEPT ![q.role] = {}]
    <3>1. CASE q.role \in Roles
      <4>1. /\ \A r \in Roles \ {q.role} : role'[r] = role[r] /\ asked'[r] = asked[r]
            /\ role'[q.role].granted = {} /\ asked'[q.role] = {}
        BY <1>types, <2>3, <3>1 DEF RoleTable!NoRole
      <4>2. GrantedAsAsked(q.role, grants', role', asked', torn')
        BY <4>1 DEF GrantedAsAsked
      <4> QED
        BY <2>1, <3>1, <4>1, <4>2, GrantsWritten
    <3>2. CASE q.role \notin Roles
      <4>1. UNCHANGED <<role, asked>>
        BY <1>types, <2>3, <3>2
      <4> QED
        BY <2>1, <4>1, GrantsSame
    <3> QED
      BY <3>1, <3>2
  <2> QED
    BY <1>7, <2>2, <2>3 DEF RoleTable!RemoveWrite
<1>8. ASSUME NEW q \in grants, RoleTable!AssignWrite(q)
      PROVE  GrantsInv'
  <2>1. grants' = grants \ {q} /\ q.kind = "assign" /\ UNCHANGED <<role, asked, torn>>
    BY <1>8 DEF RoleTable!AssignWrite, RoleTable!At, RoleTable!Done
  <2> QED
    BY <2>1, GrantsSame
<1>9. ASSUME NEW q \in grants, RoleTable!Crash(q)
      PROVE  GrantsInv'
  <2>1. grants' = grants \ {q} /\ UNCHANGED <<role, asked>>
    BY <1>9 DEF RoleTable!Crash, RoleTable!Done
  <2>2. CASE q.kind = "update" /\ q.pc = "fill"
    <3>1. torn' = torn \cup {q.role} /\ q.role \in Roles
      BY <1>types, <1>9, <2>2 DEF RoleTable!Crash, RoleTable!At, Updating
    <3>2. GrantedAsAsked(q.role, grants', role', asked', torn')
      BY <1>types, <2>1, <3>1 DEF GrantedAsAsked
    <3> QED
      BY <2>1, <3>1, <3>2, GrantsWritten
  <2>3. CASE ~ (q.kind = "update" /\ q.pc = "fill")
    <3>1. UNCHANGED torn
      BY <1>9, <2>3 DEF RoleTable!Crash, RoleTable!At
    <3> QED
      BY <2>1, <2>3, <3>1, GrantsSame
  <2> QED
    BY <2>2, <2>3
<1> QED
  BY <1>1, <1>2, <1>3, <1>4, <1>5, <1>6, <1>7, <1>8, <1>9
  DEF RoleTable!Next, RoleTable!Step


-----------------------------------------------------------------------------
(* The phone numbers *)

PRow  == [number : Numbers, tenant : {First}, sid : Phones!Ids, isPrimary : BOOLEAN, flow : Flows \cup {0}]
PNone == Phones!NoRow
Held  == [sid : Phones!Ids \cup {0}, hook : Phones!Ids \cup {0}]

\* A request is about a row, or a number, that there is or was.
CallOf(r, last) ==
  /\ r \in Phones!Request
  /\ r.kind \in {"purchase", "update", "delete", "assign"} => r.id \in Phones!Ids
  /\ r.kind = "purchase" => r.number \in Numbers /\ r.id <= last

\* The id of a purchase under way is in no row, and in the webhooks of its number at most.
Purchasing(r, held, table) ==
  r.kind = "purchase" =>
    /\ table[r.id] = PNone
    /\ \A n \in Numbers : held[n].hook = r.id => r.pc # "twilio" /\ n = r.number

CallsInv(calling, held, table, last) ==
  /\ \A r \in calling : CallOf(r, last) /\ Purchasing(r, held, table)
  /\ \A r, s \in calling : r.kind = "purchase" /\ s.kind = "purchase" /\ r.id = s.id => r = s

\* A number is held with the SID and the webhooks of one purchase, which no other has.
HeldInv(held, last) ==
  /\ \A n \in Numbers : held[n].sid = held[n].hook /\ held[n].hook <= last
  /\ \A n, m \in Numbers : held[n].hook = held[m].hook /\ held[n].hook # 0 => n = m

\* A row has the SID of its purchase, and the number whose webhooks name it.
TableInv(table, held, last) ==
  \A i \in Phones!Ids : table[i] # PNone =>
    /\ table[i].sid = i /\ i <= last
    /\ \A n \in Numbers : held[n].hook = i => table[i].number = n

AssignedInv(table, trees) ==
  \A i \in Phones!Ids : table[i].flow # 0 => trees[table[i].flow] = table[i].tenant

NumbersInv ==
  /\ bought \in [Numbers -> Held]
  /\ numbers \in [Phones!Ids -> PRow \cup {PNone}]
  /\ flows \in [Flows -> {First, "new", "deleted"}]
  /\ apps \in Nat /\ ids \in 0 .. MaxIds
  /\ CallsInv(calls, bought, numbers, ids)
  /\ HeldInv(bought, ids) /\ TableInv(numbers, bought, ids) /\ AssignedInv(numbers, flows)

LEMMA RowOrNone ==
  /\ PNone \notin PRow /\ PNone.flow = 0 /\ PNone.number = "none" /\ Phones!Ids = 1 .. MaxIds /\ MaxIds \in Nat
  /\ \A x \in PRow : x.number \in Numbers /\ x.number # "none" /\ x.tenant = First
BY NumbersAssumption, BoundsAssumption DEF PNone, PRow, Phones!NoRow, Phones!Ids

LEMMA NumbersTyped == NumbersInv /\ half \subseteq Phones!Ids => Phones!TypeOK
BY DEF NumbersInv, CallsInv, CallOf, AssignedInv, Held, PRow, PNone, Phones!TypeOK, Phones!Row

LEMMA NumbersInit == Phones!Init => NumbersInv
<1> SUFFICES ASSUME Phones!Init PROVE NumbersInv
  OBVIOUS
<1>1. /\ \A n \in Numbers : bought[n].sid = 0 /\ bought[n].hook = 0
      /\ \A i \in Phones!Ids : numbers[i] = PNone
      /\ apps = 0 /\ ids = 0 /\ calls = {}
      /\ bought \in [Numbers -> Held] /\ numbers \in [Phones!Ids -> PRow \cup {PNone}]
      /\ flows \in [Flows -> {First, "new", "deleted"}]
  BY DEF Phones!Init, Phones!Free, Held, PNone
<1> QED
  BY <1>1, RowOrNone DEF NumbersInv, CallsInv, HeldInv, TableInv, AssignedInv

LEMMA NumbersStay ==
  ASSUME NumbersInv, UNCHANGED numbersVars
  PROVE  NumbersInv'
BY DEF NumbersInv, numbersVars

\* A request goes on or ends.
LEMMA CallsGo ==
  ASSUME NEW calling, NEW held, NEW table, NEW last, CallsInv(calling, held, table, last),
         NEW r \in calling, NEW pc \in Phones!Points,
         r.kind = "purchase" => pc # "twilio"
  PROVE  /\ CallsInv(calling \ {r}, held, table, last)
         /\ CallsInv((calling \ {r}) \cup {[r EXCEPT !.pc = pc]}, held, table, last)
<1> DEFINE s == [r EXCEPT !.pc = pc]
<1>1. CallsInv(calling \ {r}, held, table, last)
  BY DEF CallsInv
<1>2. r \in Phones!Request /\ CallOf(r, last) /\ Purchasing(r, held, table)
  BY DEF CallsInv, CallOf
<1>3. s \in Phones!Request /\ s.kind = r.kind /\ s.id = r.id /\ s.number = r.number /\ s.pc = pc
  BY <1>2 DEF Phones!Request
<1> HIDE DEF s
<1>4. CallOf(s, last) /\ Purchasing(s, held, table)
  BY <1>2, <1>3 DEF CallOf, Purchasing
<1> QED
  BY <1>1, <1>3, <1>4 DEF CallsInv, s

\* A request comes, and a purchase with an id that nobody has.
LEMMA NumbersBegin ==
  ASSUME NumbersInv, NEW r, Phones!Begin(r), UNCHANGED <<bought, numbers, flows, apps>>,
         ids' \in ids .. MaxIds,
         \A place \in 1 .. InFlight : [r EXCEPT !.place = place] \in Phones!Request,
         \A place : [r EXCEPT !.place = place].kind = r.kind /\ [r EXCEPT !.place = place].id = r.id
                    /\ [r EXCEPT !.place = place].number = r.number,
         r.kind \in {"purchase", "update", "delete", "assign"} => r.id \in Phones!Ids,
         r.kind = "purchase" => r.number \in Numbers /\ r.id = ids + 1 /\ ids' = ids + 1
  PROVE  NumbersInv'
<1>1. PICK place \in 1 .. InFlight : calls' = calls \cup {[r EXCEPT !.place = place]}
  BY DEF Phones!Begin
<1> DEFINE s == [r EXCEPT !.place = place]
<1>2. s \in Phones!Request /\ s.kind = r.kind /\ s.id = r.id /\ s.number = r.number
  BY <1>1
<1>3. calls' = calls \cup {s}
  BY <1>1
<1> HIDE DEF s
<1>4. ids \in 0 .. MaxIds /\ ids' \in 0 .. MaxIds /\ ids <= ids' /\ Phones!Ids = 1 .. MaxIds /\ MaxIds \in Nat
  BY RowOrNone DEF NumbersInv
<1>5. CallOf(s, ids')
  BY <1>2, <1>4 DEF CallOf
<1>6. s.kind = "purchase" => numbers[s.id] = PNone /\ \A n \in Numbers : bought[n].hook # s.id
  BY <1>2, <1>4 DEF NumbersInv, HeldInv, TableInv, Held
<1>7. Purchasing(s, bought, numbers)
  BY <1>6 DEF Purchasing
<1>8. \A q \in calls : q.kind = "purchase" /\ s.kind = "purchase" => q.id # s.id
  BY <1>2, <1>4 DEF NumbersInv, CallsInv, CallOf
<1>9. \A q \in calls : CallOf(q, ids')
  BY <1>4 DEF NumbersInv, CallsInv, CallOf
<1>10. CallsInv(calls', bought, numbers, ids')
  BY <1>3, <1>5, <1>7, <1>8, <1>9 DEF NumbersInv, CallsInv
<1>11. HeldInv(bought, ids') /\ TableInv(numbers, bought, ids')
  BY <1>4 DEF NumbersInv, HeldInv, TableInv, Held
<1> QED
  BY <1>4, <1>10, <1>11 DEF NumbersInv

\* A row keeps its number and its SID, or goes; a flow of a row is of the row's tenant.
LEMMA NumbersWritten ==
  ASSUME NumbersInv, UNCHANGED <<bought, apps, ids>>, flows' \in [Flows -> {First, "new", "deleted"}],
         CallsInv(calls', bought, numbers, ids),
         numbers' \in [Phones!Ids -> PRow \cup {PNone}],
         \A i \in Phones!Ids : numbers'[i] # PNone =>
           numbers[i] # PNone /\ numbers'[i].number = numbers[i].number /\ numbers'[i].sid = numbers[i].sid,
         AssignedInv(numbers', flows')
  PROVE  NumbersInv'
<1>1. TableInv(numbers', bought, ids)
  BY DEF NumbersInv, TableInv
<1>2. \A r \in calls' : Purchasing(r, bought, numbers')
  BY DEF CallsInv, CallOf, Purchasing
<1>3. CallsInv(calls', bought, numbers', ids)
  BY <1>2 DEF CallsInv
<1> QED
  BY <1>1, <1>3 DEF NumbersInv

\* Only what is held changes: a number is bought by the purchase r, or released.
LEMMA NumbersHeld ==
  ASSUME NumbersInv, UNCHANGED <<numbers, flows, apps, ids>>, bought' \in [Numbers -> Held],
         CallsInv(calls', bought', numbers, ids), HeldInv(bought', ids), TableInv(numbers, bought', ids)
  PROVE  NumbersInv'
BY DEF NumbersInv

LEMMA NumbersStep ==
  ASSUME NumbersInv, Phones!Next
  PROVE  NumbersInv'
<1>types. /\ bought \in [Numbers -> Held] /\ numbers \in [Phones!Ids -> PRow \cup {PNone}]
          /\ flows \in [Flows -> {First, "new", "deleted"}]
          /\ apps \in Nat /\ ids \in 0 .. MaxIds
          /\ CallsInv(calls, bought, numbers, ids)
          /\ HeldInv(bought, ids) /\ TableInv(numbers, bought, ids) /\ AssignedInv(numbers, flows)
          /\ \A r \in calls : r \in Phones!Request /\ CallOf(r, ids) /\ Purchasing(r, bought, numbers)
          /\ Phones!Ids = 1 .. MaxIds /\ MaxIds \in Nat
  BY RowOrNone DEF NumbersInv, CallsInv, CallOf
<1>rows. \A i \in Phones!Ids : Phones!IsRow(i) => numbers[i] \in PRow
  BY <1>types DEF Phones!IsRow, PNone
<1>done. \A r \in calls : CallsInv(calls \ {r}, bought, numbers, ids)
  BY <1>types DEF CallsInv
<1>1. ASSUME NEW n \in Numbers, NEW primary \in BOOLEAN, Phones!Purchase(First, n, primary)
      PROVE  NumbersInv'
  <2> DEFINE r == [Phones!Blank("purchase", "twilio", First) EXCEPT
                     !.number = n, !.id = ids + 1, !.isPrimary = primary]
  <2>1. /\ ids < MaxIds /\ ids' = ids + 1 /\ Phones!Begin(r) /\ UNCHANGED <<bought, numbers, flows, apps>>
    BY <1>1 DEF Phones!Purchase
  <2>2. ids + 1 \in Phones!Ids /\ ids' \in ids .. MaxIds
    BY <1>types, <2>1
  <2>3. r.kind = "purchase" /\ r.id = ids + 1 /\ r.number = n
    BY DEF Phones!Blank
  <2>4. \A place : LET s == [r EXCEPT !.place = place]
                   IN s.kind = r.kind /\ s.id = r.id /\ s.number = r.number
    BY DEF Phones!Blank
  <2>5. \A place \in 1 .. InFlight : [r EXCEPT !.place = place] \in Phones!Request
    BY <2>2 DEF Phones!Blank, Phones!Request, Phones!Kinds, Phones!Points
  <2> HIDE DEF r
  <2> QED
    BY <2>1, <2>2, <2>3, <2>4, <2>5, NumbersBegin
<1>2. ASSUME NEW i \in Phones!Ids, NEW primary \in BOOLEAN, Phones!Update(i, primary)
      PROVE  NumbersInv'
  <2>1. PICK pc \in {"twilio", "unset"} :
          Phones!Begin([Phones!Blank("update", pc, numbers[i].tenant) EXCEPT
                          !.id = i, !.sid = numbers[i].sid, !.isPrimary = primary])
    BY <1>2 DEF Phones!Update
  <2> DEFINE r == [Phones!Blank("update", pc, numbers[i].tenant) EXCEPT
                     !.id = i, !.sid = numbers[i].sid, !.isPrimary = primary]
  <2>2. numbers[i] \in PRow
    BY <1>2, <1>rows DEF Phones!Update
  <2>3. r.kind = "update" /\ r.id = i
    BY DEF Phones!Blank
  <2>4. \A place : LET s == [r EXCEPT !.place = place]
                   IN s.kind = r.kind /\ s.id = r.id /\ s.number = r.number
    BY DEF Phones!Blank
  <2>5. \A place \in 1 .. InFlight : [r EXCEPT !.place = place] \in Phones!Request
    BY <2>2 DEF Phones!Blank, Phones!Request, Phones!Kinds, Phones!Points, PRow
  <2>6. Phones!Begin(r) /\ UNCHANGED <<bought, numbers, flows, apps, ids>> /\ ids' \in ids .. MaxIds
    BY <1>types, <1>2, <2>1 DEF Phones!Update
  <2> HIDE DEF r
  <2> QED
    BY <2>3, <2>4, <2>5, <2>6, NumbersBegin
<1>3. ASSUME NEW i \in Phones!Ids, Phones!Delete(i)
      PROVE  NumbersInv'
  <2> DEFINE r == [Phones!Blank("delete", "twilio", numbers[i].tenant) EXCEPT
                     !.id = i, !.number = numbers[i].number, !.sid = numbers[i].sid]
  <2>2. numbers[i] \in PRow
    BY <1>3, <1>rows DEF Phones!Delete
  <2>3. r.kind = "delete" /\ r.id = i
    BY DEF Phones!Blank
  <2>4. \A place : LET s == [r EXCEPT !.place = place]
                   IN s.kind = r.kind /\ s.id = r.id /\ s.number = r.number
    BY DEF Phones!Blank
  <2>5. \A place \in 1 .. InFlight : [r EXCEPT !.place = place] \in Phones!Request
    BY <2>2 DEF Phones!Blank, Phones!Request, Phones!Kinds, Phones!Points, PRow
  <2>6. Phones!Begin(r) /\ UNCHANGED <<bought, numbers, flows, apps, ids>> /\ ids' \in ids .. MaxIds
    BY <1>types, <1>3 DEF Phones!Delete
  <2> HIDE DEF r
  <2> QED
    BY <2>3, <2>4, <2>5, <2>6, NumbersBegin
<1>4. ASSUME NEW f \in Flows, Phones!CreateFlow(First, f)
      PROVE  NumbersInv'
  <2>1. /\ flows[f] = "new" /\ flows' = [flows EXCEPT ![f] = First]
        /\ UNCHANGED <<bought, numbers, apps, ids, calls>>
    BY <1>4 DEF Phones!CreateFlow
  <2>2. \A i \in Phones!Ids : numbers[i].flow # 0 => numbers[i].tenant = First /\ numbers[i].flow \in Flows
    BY <1>types, RowOrNone DEF PRow
  <2>3. AssignedInv(numbers, flows') /\ flows' \in [Flows -> {First, "new", "deleted"}]
    BY <1>types, <2>1, <2>2 DEF AssignedInv
  <2> QED
    BY <1>types, <2>1, <2>3, NumbersWritten
<1>5. ASSUME NEW f \in Flows, Phones!DeleteFlow(f)
      PROVE  NumbersInv'
  <2> DEFINE r == [Phones!Blank("unflow", "save", flows[f]) EXCEPT !.flow = f]
  <2>2. flows[f] = First
    BY <1>5 DEF Phones!DeleteFlow
  <2>3. r.kind = "unflow"
    BY DEF Phones!Blank
  <2>4. \A place : LET s == [r EXCEPT !.place = place]
                   IN s.kind = r.kind /\ s.id = r.id /\ s.number = r.number
    BY DEF Phones!Blank
  <2>5. \A place \in 1 .. InFlight : [r EXCEPT !.place = place] \in Phones!Request
    BY <2>2 DEF Phones!Blank, Phones!Request, Phones!Kinds, Phones!Points
  <2>6. Phones!Begin(r) /\ UNCHANGED <<bought, numbers, flows, apps, ids>> /\ ids' \in ids .. MaxIds
    BY <1>types, <1>5 DEF Phones!DeleteFlow
  <2> HIDE DEF r
  <2> QED
    BY <2>3, <2>4, <2>5, <2>6, NumbersBegin
<1>6. ASSUME NEW i \in Phones!Ids, NEW f \in Flows \cup {0}, Phones!Assign(First, i, f)
      PROVE  NumbersInv'
  <2> DEFINE r == [Phones!Blank("assign", "save", First) EXCEPT !.id = i, !.flow = f]
  <2>3. r.kind = "assign" /\ r.id = i
    BY DEF Phones!Blank
  <2>4. \A place : LET s == [r EXCEPT !.place = place]
                   IN s.kind = r.kind /\ s.id = r.id /\ s.number = r.number
    BY DEF Phones!Blank
  <2>5. \A place \in 1 .. InFlight : [r EXCEPT !.place = place] \in Phones!Request
    BY DEF Phones!Blank, Phones!Request, Phones!Kinds, Phones!Points
  <2>6. Phones!Begin(r) /\ UNCHANGED <<bought, numbers, flows, apps, ids>> /\ ids' \in ids .. MaxIds
    BY <1>types, <1>6 DEF Phones!Assign
  <2> HIDE DEF r
  <2> QED
    BY <2>3, <2>4, <2>5, <2>6, NumbersBegin
<1>7. ASSUME Phones!AppRead(First)
      PROVE  NumbersInv'
  <2> DEFINE r == Phones!Blank("app", "save", First)
  <2>1. CASE UNCHANGED calls
    BY <1>7, <2>1, NumbersStay DEF Phones!AppRead, numbersVars
  <2>2. CASE Phones!Begin(r)
    <3>3. r.kind = "app"
      BY DEF Phones!Blank
    <3>4. \A place : LET s == [r EXCEPT !.place = place]
                     IN s.kind = r.kind /\ s.id = r.id /\ s.number = r.number
      BY DEF Phones!Blank
    <3>5. \A place \in 1 .. InFlight : [r EXCEPT !.place = place] \in Phones!Request
      BY DEF Phones!Blank, Phones!Request, Phones!Kinds, Phones!Points
    <3>6. UNCHANGED <<bought, numbers, flows, apps, ids>> /\ ids' \in ids .. MaxIds
      BY <1>types, <1>7 DEF Phones!AppRead
    <3> HIDE DEF r
    <3> QED
      BY <2>2, <3>3, <3>4, <3>5, <3>6, NumbersBegin
  <2> QED
    BY <1>7, <2>1, <2>2 DEF Phones!AppRead
<1>8. ASSUME NEW r \in calls, Phones!Buy(r)
      PROVE  NumbersInv'
  <2>1. r.kind = "purchase" /\ r.pc = "twilio" /\ UNCHANGED <<numbers, flows, apps, ids>>
    BY <1>8 DEF Phones!Buy, Phones!At
  <2>2. CASE calls' = calls \ {r} /\ UNCHANGED bought
    BY <1>types, <1>done, <2>1, <2>2, NumbersHeld
  <2>3. CASE /\ bought[r.number] = Phones!Free
             /\ bought' = [bought EXCEPT ![r.number] = [sid |-> r.id, hook |-> r.id]]
             /\ calls' = (calls \ {r}) \cup {[r EXCEPT !.pc = "unset"]}
    <3> DEFINE s == [r EXCEPT !.pc = "unset"]
    <3>1. /\ r.id \in Phones!Ids /\ r.id <= ids /\ r.number \in Numbers
          /\ numbers[r.id] = PNone /\ \A n \in Numbers : bought[n].hook # r.id
      BY <1>types, <2>1 DEF CallOf, Purchasing
    <3>2. /\ \A n \in Numbers : n # r.number => bought'[n] = bought[n]
          /\ bought'[r.number].sid = r.id /\ bought'[r.number].hook = r.id
          /\ bought' \in [Numbers -> Held]
      BY <1>types, <2>3, <3>1 DEF Held
    <3>3. HeldInv(bought', ids)
      BY <1>types, <3>1, <3>2 DEF HeldInv
    <3>4. TableInv(numbers, bought', ids)
      BY <1>types, <3>1, <3>2 DEF TableInv
    <3>5. s \in Phones!Request /\ s.kind = "purchase" /\ s.id = r.id /\ s.number = r.number /\ s.pc = "unset"
      BY <1>types, <2>1 DEF Phones!Request, Phones!Points
    <3> HIDE DEF s
    <3>6. CallOf(s, ids) /\ Purchasing(s, bought', numbers)
      BY <3>1, <3>2, <3>5 DEF CallOf, Purchasing
    <3>7. ASSUME NEW q \in calls, q # r, q.kind = "purchase"
          PROVE  q.id # r.id /\ Purchasing(q, bought', numbers)
      BY <1>types, <2>1, <3>2, <3>7 DEF CallsInv, Purchasing
    <3>8. \A q \in calls : q.kind # "purchase" => Purchasing(q, bought', numbers)
      BY DEF Purchasing
    <3>9. CallsInv((calls \ {r}) \cup {s}, bought', numbers, ids)
      BY <1>types, <3>5, <3>6, <3>7, <3>8 DEF CallsInv
    <3>10. calls' = (calls \ {r}) \cup {s}
      BY <2>3 DEF s
    <3> QED
      BY <2>1, <3>2, <3>3, <3>4, <3>9, <3>10, NumbersHeld
  <2> QED
    BY <1>8, <2>2, <2>3 DEF Phones!Buy, Phones!Available, Phones!Goto, Phones!Done
<1>9. ASSUME NEW r \in calls, Phones!Rename(r)
      PROVE  NumbersInv'
  <2>1. r.kind = "update" /\ "unset" \in Phones!Points
    BY <1>9 DEF Phones!Rename, Phones!At, Phones!Points
  <2>2. CallsInv((calls \ {r}) \cup {[r EXCEPT !.pc = "unset"]}, bought, numbers, ids)
    BY <1>types, <2>1, CallsGo
  <2>3. CallsInv(calls', bought, numbers, ids) /\ UNCHANGED <<bought, numbers, flows, apps, ids>>
    BY <1>9, <1>done, <2>2 DEF Phones!Rename, Phones!Goto, Phones!Done
  <2> QED
    BY <1>types, <2>3, NumbersHeld
<1>10. ASSUME NEW r \in calls, Phones!Unset(r)
       PROVE  NumbersInv'
  <2>1. "save" \in Phones!Points /\ UNCHANGED <<bought, flows, apps, ids>>
    BY <1>10 DEF Phones!Unset, Phones!Points
  <2>2. CallsInv(calls', bought, numbers, ids)
    BY <1>types, <1>10, <2>1, CallsGo DEF Phones!Unset, Phones!Goto
  <2>3. CASE UNCHANGED numbers
    BY <1>types, <2>1, <2>2, <2>3, NumbersHeld
  <2>4. CASE numbers' = Phones!Clear(r.tenant, r.id)
    <3> DEFINE c(k) == [numbers[k] EXCEPT !.isPrimary = FALSE]
    <3>1. numbers' = [k \in Phones!Ids |-> IF k \in Phones!RowsOf(r.tenant) \ {r.id} THEN c(k) ELSE numbers[k]]
      BY <2>4 DEF Phones!Clear
    <3>0. \A k \in Phones!RowsOf(r.tenant) \ {r.id} : numbers[k] \in PRow
      BY <1>rows DEF Phones!RowsOf
    <3>2. \A k \in Phones!Ids : numbers[k] \in PRow =>
            /\ c(k) \in PRow /\ c(k).number = numbers[k].number /\ c(k).sid = numbers[k].sid
            /\ c(k).flow = numbers[k].flow /\ c(k).tenant = numbers[k].tenant
      BY DEF PRow
    <3> HIDE DEF c
    <3>3. \A k \in Phones!Ids :
            /\ numbers'[k] \in PRow \cup {PNone}
            /\ numbers'[k] # PNone => numbers[k] # PNone /\ numbers'[k].number = numbers[k].number
                                      /\ numbers'[k].sid = numbers[k].sid
            /\ numbers'[k].flow = numbers[k].flow /\ numbers'[k].tenant = numbers[k].tenant
      BY <1>types, <3>0, <3>1, <3>2, RowOrNone
    <3>4. numbers' \in [Phones!Ids -> PRow \cup {PNone}] /\ AssignedInv(numbers', flows)
      BY <1>types, <3>1, <3>3 DEF AssignedInv
    <3> QED
      BY <1>types, <2>1, <2>2, <3>3, <3>4, NumbersWritten
  <2> QED
    BY <1>10, <2>3, <2>4 DEF Phones!Unset
<1>11. ASSUME NEW r \in calls, Phones!SaveNumber(r)
       PROVE  NumbersInv'
  <2>1. r.kind = "purchase" /\ r.pc = "save" /\ calls' = calls \ {r} /\ UNCHANGED <<bought, flows, apps, ids>>
    BY <1>11 DEF Phones!SaveNumber, Phones!At, Phones!Done
  <2>2. CASE UNCHANGED numbers
    BY <1>types, <1>done, <2>1, <2>2, NumbersHeld
  <2> DEFINE u == [number |-> r.number, tenant |-> r.tenant, sid |-> r.id,
                   isPrimary |-> r.isPrimary, flow |-> 0]
  <2>3. CASE numbers' = [numbers EXCEPT ![r.id] = u]
    <3>1. /\ r.id \in Phones!Ids /\ r.id <= ids /\ r.number \in Numbers
          /\ \A n \in Numbers : bought[n].hook = r.id => n = r.number
      BY <1>types, <2>1 DEF CallOf, Purchasing
    <3>2. u \in PRow /\ u.sid = r.id /\ u.number = r.number /\ u.flow = 0
      BY <1>types, <3>1 DEF PRow, Phones!Request
    <3> HIDE DEF u
    <3>3. /\ numbers' \in [Phones!Ids -> PRow \cup {PNone}]
          /\ \A i \in Phones!Ids : numbers'[i] = IF i = r.id THEN u ELSE numbers[i]
      BY <1>types, <2>3, <3>1, <3>2
    <3>4. TableInv(numbers', bought, ids) /\ AssignedInv(numbers', flows)
      BY <1>types, <3>1, <3>2, <3>3 DEF TableInv, AssignedInv
    <3>5. ASSUME NEW q \in calls \ {r}
          PROVE  Purchasing(q, bought, numbers')
      <4>1. q.kind = "purchase" => q.id # r.id /\ q.id \in Phones!Ids
        BY <1>types, <2>1 DEF CallsInv, CallOf
      <4> QED
        BY <1>types, <3>3, <4>1 DEF Purchasing
    <3>6. CallsInv(calls', bought, numbers', ids)
      BY <1>types, <2>1, <3>5 DEF CallsInv
    <3> QED
      BY <1>types, <2>1, <3>3, <3>4, <3>6 DEF NumbersInv
  <2> QED
    BY <1>11, <2>2, <2>3 DEF Phones!SaveNumber
<1>12. ASSUME NEW r \in calls, Phones!UpdateSave(r)
       PROVE  NumbersInv'
  <2>1. r.kind = "update" /\ calls' = calls \ {r} /\ UNCHANGED <<bought, flows, apps, ids>>
    BY <1>12 DEF Phones!UpdateSave, Phones!At, Phones!Done
  <2>2. CASE UNCHANGED numbers
    BY <1>types, <1>done, <2>1, <2>2, NumbersHeld
  <2> DEFINE u == [number |-> numbers[r.id].number, tenant |-> numbers[r.id].tenant,
                   sid |-> numbers[r.id].sid, isPrimary |-> r.isPrimary, flow |-> numbers[r.id].flow]
  <2>3. CASE Phones!IsRow(r.id) /\ numbers' = [numbers EXCEPT ![r.id] = u]
    <3>1. r.id \in Phones!Ids /\ numbers[r.id] \in PRow
      BY <1>types, <1>rows, <2>1, <2>3 DEF CallOf
    <3>2. /\ u \in PRow /\ u.sid = numbers[r.id].sid /\ u.number = numbers[r.id].number
          /\ u.flow = numbers[r.id].flow /\ u.tenant = numbers[r.id].tenant
      BY <1>types, <3>1 DEF PRow, Phones!Request
    <3> HIDE DEF u
    <3>3. /\ numbers' \in [Phones!Ids -> PRow \cup {PNone}]
          /\ \A i \in Phones!Ids : numbers'[i] = IF i = r.id THEN u ELSE numbers[i]
      BY <1>types, <2>3, <3>1, <3>2
    <3>4. AssignedInv(numbers', flows)
      BY <1>types, <3>2, <3>3 DEF AssignedInv
    <3> QED
      BY <1>types, <1>done, <2>1, <3>1, <3>2, <3>3, <3>4, RowOrNone, NumbersWritten
  <2> QED
    BY <1>12, <2>2, <2>3 DEF Phones!UpdateSave
<1>13. ASSUME NEW r \in calls, Phones!Release(r)
       PROVE  NumbersInv'
  <2>1. r.kind = "delete" /\ "save" \in Phones!Points /\ UNCHANGED <<numbers, flows, apps, ids>>
    BY <1>13 DEF Phones!Release, Phones!At, Phones!Points
  <2>2. CASE calls' = calls \ {r} /\ UNCHANGED bought
    BY <1>types, <1>done, <2>1, <2>2, NumbersHeld
  <2>3. CASE /\ bought' = [bought EXCEPT ![r.number] = Phones!Free]
             /\ calls' = (calls \ {r}) \cup {[r EXCEPT !.pc = "save"]}
    <3>1. CallsInv(calls', bought, numbers, ids)
      BY <1>types, <2>1, <2>3, CallsGo
    <3>2. Phones!Free \in Held /\ Phones!Free.sid = 0 /\ Phones!Free.hook = 0
      BY DEF Phones!Free, Held
    <3>3. /\ bought' \in [Numbers -> Held]
          /\ \A n \in Numbers : bought'[n] = bought[n] \/ (bought'[n].sid = 0 /\ bought'[n].hook = 0)
      BY <1>types, <2>3, <3>2
    <3>4. HeldInv(bought', ids)
      BY <1>types, <3>3 DEF HeldInv
    <3>5. TableInv(numbers, bought', ids)
      BY <1>types, <3>3 DEF TableInv
    <3>6. \A q \in calls' : Purchasing(q, bought', numbers)
      BY <1>types, <3>1, <3>3 DEF CallsInv, CallOf, Purchasing
    <3>7. CallsInv(calls', bought', numbers, ids)
      BY <3>1, <3>6 DEF CallsInv
    <3> QED
      BY <2>1, <3>3, <3>4, <3>5, <3>7, NumbersHeld
  <2> QED
    BY <1>13, <2>2, <2>3 DEF Phones!Release, Phones!Goto, Phones!Done
<1>14. ASSUME NEW r \in calls, Phones!Erase(r)
       PROVE  NumbersInv'
  <2>1. /\ numbers' = [numbers EXCEPT ![r.id] = PNone] /\ calls' = calls \ {r}
        /\ UNCHANGED <<bought, flows, apps, ids>>
    BY <1>14 DEF Phones!Erase, Phones!Done, PNone
  <2>2. /\ numbers' \in [Phones!Ids -> PRow \cup {PNone}]
        /\ \A i \in Phones!Ids : numbers'[i] \in {numbers[i], PNone}
    BY <1>types, <2>1
  <2>3. AssignedInv(numbers', flows)
    BY <1>types, <2>2, RowOrNone DEF AssignedInv
  <2> QED
    BY <1>types, <1>done, <2>1, <2>2, <2>3, NumbersWritten
<1>15. ASSUME NEW r \in calls, Phones!EraseFlow(r)
       PROVE  NumbersInv'
  <2> DEFINE c(k) == [numbers[k] EXCEPT !.flow = 0]
  <2>1. /\ flows' = [flows EXCEPT ![r.flow] = "deleted"] /\ calls' = calls \ {r}
        /\ UNCHANGED <<bought, apps, ids>>
        /\ numbers' = [k \in Phones!Ids |-> IF numbers[k].flow = r.flow /\ Phones!IsRow(k) THEN c(k) ELSE numbers[k]]
    BY <1>15 DEF Phones!EraseFlow, Phones!Done
  <2>2. \A k \in Phones!Ids : numbers[k] \in PRow =>
          /\ c(k) \in PRow /\ c(k).number = numbers[k].number /\ c(k).sid = numbers[k].sid
          /\ c(k).flow = 0
    BY DEF PRow
  <2> HIDE DEF c
  <2>3. \A k \in Phones!Ids :
          /\ numbers'[k] \in PRow \cup {PNone}
          /\ numbers'[k] # PNone => numbers[k] # PNone /\ numbers'[k].number = numbers[k].number
                                    /\ numbers'[k].sid = numbers[k].sid
          /\ numbers'[k].flow # 0 => numbers'[k] = numbers[k] /\ numbers[k].flow # r.flow
    BY <1>types, <1>rows, <2>1, <2>2, RowOrNone DEF Phones!IsRow, PNone
  <2>4. flows' \in [Flows -> {First, "new", "deleted"}] /\ \A f \in Flows : f # r.flow => flows'[f] = flows[f]
    BY <1>types, <2>1
  <2>5. \A k \in Phones!Ids : numbers[k].flow # 0 => numbers[k].flow \in Flows
    BY <1>types, RowOrNone DEF PRow
  <2>6. AssignedInv(numbers', flows')
    BY <1>types, <2>3, <2>4, <2>5 DEF AssignedInv
  <2>7. numbers' \in [Phones!Ids -> PRow \cup {PNone}]
    BY <2>1, <2>3
  <2> QED
    BY <1>types, <1>done, <2>1, <2>3, <2>4, <2>6, <2>7, NumbersWritten
<1>16. ASSUME NEW r \in calls, Phones!AssignSave(r)
       PROVE  NumbersInv'
  <2>1. r.kind = "assign" /\ calls' = calls \ {r} /\ UNCHANGED <<bought, flows, apps, ids>>
    BY <1>16 DEF Phones!AssignSave, Phones!At, Phones!Done
  <2>2. CASE UNCHANGED numbers
    BY <1>types, <1>done, <2>1, <2>2, NumbersHeld
  <2>3. CASE /\ Phones!IsRow(r.id) /\ (r.flow # 0 => flows[r.flow] = First)
             /\ numbers' = [numbers EXCEPT ![r.id].flow = r.flow]
    <3> DEFINE u == [numbers[r.id] EXCEPT !.flow = r.flow]
    <3>1. r.id \in Phones!Ids /\ Phones!IsRow(r.id) /\ numbers[r.id] \in PRow
      BY <1>types, <1>rows, <2>1, <2>3 DEF CallOf
    <3>2. /\ u \in PRow /\ u.sid = numbers[r.id].sid /\ u.number = numbers[r.id].number
          /\ u.flow = r.flow /\ u.tenant = First
      BY <1>types, <3>1 DEF PRow, Phones!Request
    <3>3. numbers' = [numbers EXCEPT ![r.id] = u] /\ (r.flow # 0 => flows[r.flow] = First)
      BY <2>3, <3>1
    <3> HIDE DEF u
    <3>4. /\ numbers' \in [Phones!Ids -> PRow \cup {PNone}]
          /\ \A i \in Phones!Ids : numbers'[i] = IF i = r.id THEN u ELSE numbers[i]
      BY <1>types, <3>1, <3>2, <3>3
    <3>5. AssignedInv(numbers', flows)
      BY <1>types, <3>2, <3>3, <3>4 DEF AssignedInv
    <3> QED
      BY <1>types, <1>done, <2>1, <3>1, <3>2, <3>4, <3>5, RowOrNone, NumbersWritten
  <2> QED
    BY <1>16, <2>2, <2>3 DEF Phones!AssignSave
<1>17. ASSUME NEW r \in calls, Phones!AppCreate(r) \/ Phones!Fail(r)
       PROVE  NumbersInv'
  <2>1. calls' = calls \ {r} /\ UNCHANGED <<bought, numbers, flows, ids>> /\ apps' \in Nat
    BY <1>types, <1>17 DEF Phones!AppCreate, Phones!Fail, Phones!Done
  <2> QED
    BY <1>types, <1>done, <2>1 DEF NumbersInv
<1> QED
  BY <1>1, <1>2, <1>3, <1>4, <1>5, <1>6, <1>7, <1>8, <1>9, <1>10, <1>11, <1>12, <1>13, <1>14, <1>15, <1>16, <1>17
  DEF Phones!Next, Phones!Step

(* Which number is paid for, and which row it has *)

\* Twilio has the number of a purchase that goes on; a deletion is about a row that was bought, and
\* once it has released the number nothing is held for that row.
CallAccounted(r, held, last) ==
  /\ Phones!Purchased(r) => held[r.number].hook = r.id
  /\ r.kind = "delete" => /\ r.number \in Numbers /\ r.sid = r.id /\ r.id <= last
                         /\ r.pc \in {"twilio", "save"}
  /\ Phones!Released(r) => \A n \in Numbers : held[n].hook # r.id

\* No row is deleted before it is there.
Apart(calling) ==
  \A r, s \in calling : r.kind = "delete" /\ s.kind = "purchase" => r.id # s.id

HeldAccounted(held, table, calling, lost) ==
  \A n \in Numbers : held[n].hook # 0 =>
    \/ table[held[n].hook] # PNone
    \/ held[n].hook \in lost
    \/ \E r \in calling : Phones!Purchased(r) /\ r.id = held[n].hook

RowsAccounted(held, table, calling, lost) ==
  \A i \in Phones!Ids : table[i] # PNone =>
    \/ held[table[i].number].hook = i
    \/ i \in lost
    \/ \E r \in calling : Phones!Released(r) /\ r.id = i

AccountedInv ==
  /\ half \subseteq Phones!Ids
  /\ \A r \in calls : CallAccounted(r, bought, ids)
  /\ Apart(calls)
  /\ HeldAccounted(bought, numbers, calls, half)
  /\ RowsAccounted(bought, numbers, calls, half)

LEMMA NumbersTypes == NumbersInv /\ AccountedInv => Phones!TypeOK /\ Phones!NumbersAccounted
<1> SUFFICES ASSUME NumbersInv, AccountedInv PROVE Phones!TypeOK /\ Phones!NumbersAccounted
  OBVIOUS
<1>1. Phones!TypeOK
  BY NumbersTyped DEF AccountedInv
<1>2. /\ bought \in [Numbers -> Held] /\ HeldInv(bought, ids) /\ TableInv(numbers, bought, ids)
      /\ HeldAccounted(bought, numbers, calls, half) /\ RowsAccounted(bought, numbers, calls, half)
  BY DEF NumbersInv, AccountedInv
<1>3. ASSUME NEW n \in Numbers, bought[n] # Phones!Free
      PROVE  LET i == bought[n].hook IN
             /\ bought[n].sid = i
             /\ IF Phones!IsRow(i) THEN numbers[i].number = n /\ numbers[i].sid = i
                ELSE i \in half \/ \E r \in calls : Phones!Purchased(r) /\ r.id = i
  <2>1. bought[n].hook # 0 /\ bought[n].hook \in Phones!Ids /\ bought[n].sid = bought[n].hook
    BY <1>2, <1>3 DEF HeldInv, Held, Phones!Free
  <2>2. CASE Phones!IsRow(bought[n].hook)
    BY <1>2, <2>1, <2>2 DEF TableInv, Phones!IsRow, PNone
  <2>3. CASE ~ Phones!IsRow(bought[n].hook)
    BY <1>2, <2>1, <2>3 DEF HeldAccounted, Phones!IsRow, PNone
  <2> QED
    BY <2>1, <2>2, <2>3
<1>4. ASSUME NEW i \in Phones!Ids, Phones!IsRow(i)
      PROVE  \/ bought[numbers[i].number].sid = numbers[i].sid
             \/ i \in half
             \/ \E r \in calls : Phones!Released(r) /\ r.id = i
  <2>1. numbers[i] # PNone /\ numbers[i].sid = i /\ numbers[i].number \in Numbers
    BY <1>2, <1>4, RowOrNone DEF TableInv, Phones!IsRow, PNone, NumbersInv
  <2>2. bought[numbers[i].number].sid = bought[numbers[i].number].hook
    BY <1>2, <2>1 DEF HeldInv
  <2> QED
    BY <1>2, <2>1, <2>2 DEF RowsAccounted
<1> QED
  BY <1>1, <1>3, <1>4 DEF Phones!NumbersAccounted

LEMMA AccountedInit == Phones!Init => AccountedInv
<1> SUFFICES ASSUME Phones!Init PROVE AccountedInv
  OBVIOUS
<1>1. /\ \A n \in Numbers : bought[n].hook = 0
      /\ \A i \in Phones!Ids : numbers[i] = PNone
      /\ calls = {} /\ half = {}
  BY DEF Phones!Init, Phones!Free, PNone
<1> QED
  BY <1>1 DEF AccountedInv, Apart, HeldAccounted, RowsAccounted

LEMMA AccountedStays ==
  ASSUME AccountedInv, UNCHANGED numbersVars
  PROVE  AccountedInv'
BY DEF AccountedInv, numbersVars

\* Numbers and rows stay, and whoever accounts for one goes on or has failed.
LEMMA AccountedQuiet ==
  ASSUME NumbersInv, AccountedInv, UNCHANGED bought, half \subseteq half', half' \subseteq Phones!Ids,
         \A i \in Phones!Ids :
           /\ numbers'[i] # PNone <=> numbers[i] # PNone
           /\ numbers'[i] # PNone => numbers'[i].number = numbers[i].number,
         \A r \in calls' : CallAccounted(r, bought, ids'), Apart(calls'),
         \A r \in calls : Phones!Purchased(r) \/ Phones!Released(r) =>
           \/ r.id \in half'
           \/ \E s \in calls' : /\ s.id = r.id
                                /\ Phones!Purchased(r) => Phones!Purchased(s)
                                /\ Phones!Released(r) => Phones!Released(s)
  PROVE  AccountedInv'
<1>1. \A n \in Numbers : bought[n].hook # 0 => bought[n].hook \in Phones!Ids
  BY DEF NumbersInv, Held
<1>2. HeldAccounted(bought, numbers', calls', half')
  BY <1>1 DEF AccountedInv, HeldAccounted
<1>3. RowsAccounted(bought, numbers', calls', half')
  BY DEF AccountedInv, RowsAccounted
<1> QED
  BY <1>2, <1>3 DEF AccountedInv

\* A request ends; if it accounts for a number or a row, it has failed.
LEMMA AccountedEnds ==
  ASSUME NumbersInv, AccountedInv, UNCHANGED <<bought, ids>>,
         NEW r \in calls, calls' = calls \ {r},
         half \subseteq half', half' \subseteq Phones!Ids,
         Phones!Purchased(r) \/ Phones!Released(r) => r.id \in half',
         \A i \in Phones!Ids :
           /\ numbers'[i] # PNone <=> numbers[i] # PNone
           /\ numbers'[i] # PNone => numbers'[i].number = numbers[i].number
  PROVE  AccountedInv'
<1>1. \A s \in calls' : CallAccounted(s, bought, ids')
  BY DEF AccountedInv
<1>2. Apart(calls')
  BY DEF AccountedInv, Apart
<1> QED
  BY <1>1, <1>2, AccountedQuiet

\* A request goes on to a point at which it accounts for as much as before.
LEMMA AccountedGoes ==
  ASSUME NumbersInv, AccountedInv, UNCHANGED <<bought, ids, half>>,
         NEW r \in calls, NEW pc \in Phones!Points \ {"twilio"},
         calls' = (calls \ {r}) \cup {[r EXCEPT !.pc = pc]}, r.kind # "delete",
         r.kind = "purchase" => r.pc # "twilio",
         \A i \in Phones!Ids :
           /\ numbers'[i] # PNone <=> numbers[i] # PNone
           /\ numbers'[i] # PNone => numbers'[i].number = numbers[i].number
  PROVE  AccountedInv'
<1> DEFINE s == [r EXCEPT !.pc = pc]
<1>1. r \in Phones!Request
  BY DEF NumbersInv, CallsInv, CallOf
<1>2. s.kind = r.kind /\ s.id = r.id /\ s.number = r.number /\ s.pc = pc
  BY <1>1 DEF Phones!Request
<1>3. calls' = (calls \ {r}) \cup {s}
  OBVIOUS
<1> HIDE DEF s
<1>4. CallAccounted(s, bought, ids)
  BY <1>2 DEF AccountedInv, CallAccounted, Phones!Purchased, Phones!Released, Phones!At
<1>5. \A q \in calls' : CallAccounted(q, bought, ids')
  BY <1>3, <1>4 DEF AccountedInv
<1>6. Apart(calls')
  BY <1>2, <1>3 DEF AccountedInv, Apart
<1>7. ~ Phones!Released(r)
  BY DEF Phones!Released, Phones!At
<1>8. ASSUME NEW q \in calls, Phones!Purchased(q) \/ Phones!Released(q)
      PROVE  \E x \in calls' : /\ x.id = q.id
                               /\ Phones!Purchased(q) => Phones!Purchased(x)
                               /\ Phones!Released(q) => Phones!Released(x)
  <2>1. CASE q # r
    BY <1>3, <2>1
  <2>2. CASE q = r
    <3>1. Phones!Purchased(s)
      <4>1. r.kind = "purchase"
        BY <1>7, <1>8, <2>2 DEF Phones!Purchased
      <4> QED
        BY <1>2, <4>1 DEF Phones!Purchased
    <3> QED
      BY <1>2, <1>3, <1>7, <2>2, <3>1
  <2> QED
    BY <2>1, <2>2
<1>9. half \subseteq Phones!Ids
  BY DEF AccountedInv
<1> QED
  BY <1>5, <1>6, <1>8, <1>9, AccountedQuiet

\* A request comes that has done nothing yet.
LEMMA AccountedBegin ==
  ASSUME NumbersInv, AccountedInv, UNCHANGED <<bought, numbers, half>>, NEW r, Phones!Begin(r),
         ids' \in ids .. MaxIds,
         \A place : LET s == [r EXCEPT !.place = place]
                    IN s.kind = r.kind /\ s.id = r.id /\ s.number = r.number /\ s.pc = r.pc /\ s.sid = r.sid,
         r.kind = "purchase" => r.pc = "twilio" /\ r.id = ids + 1,
         r.kind = "delete" => /\ r.pc = "twilio" /\ r.number \in Numbers /\ r.sid = r.id
                              /\ r.id \in Phones!Ids /\ numbers[r.id] # PNone
  PROVE  AccountedInv'
<1>1. PICK place \in 1 .. InFlight : calls' = calls \cup {[r EXCEPT !.place = place]}
  BY DEF Phones!Begin
<1> DEFINE s == [r EXCEPT !.place = place]
<1>2. s.kind = r.kind /\ s.id = r.id /\ s.number = r.number /\ s.pc = r.pc /\ s.sid = r.sid
  OBVIOUS
<1>3. calls' = calls \cup {s}
  BY <1>1
<1> HIDE DEF s
<1>4. ids \in 0 .. MaxIds /\ ids' \in 0 .. MaxIds /\ ids <= ids' /\ Phones!Ids = 1 .. MaxIds /\ MaxIds \in Nat
  BY RowOrNone DEF NumbersInv
<1>5. s.kind = "delete" => s.id <= ids
  BY <1>2 DEF NumbersInv, TableInv
<1>6. CallAccounted(s, bought, ids')
  BY <1>2, <1>4, <1>5 DEF CallAccounted, Phones!Purchased, Phones!Released, Phones!At
<1>7. ASSUME NEW q \in calls
      PROVE  CallAccounted(q, bought, ids')
  <2>1. CallAccounted(q, bought, ids) /\ (q.kind = "delete" => q.id \in Phones!Ids)
    BY DEF AccountedInv, NumbersInv, CallsInv, CallOf
  <2> QED
    BY <1>4, <2>1 DEF CallAccounted
<1>8. ASSUME NEW q \in calls, q.kind = "delete", s.kind = "purchase"
      PROVE  q.id # s.id
  BY <1>2, <1>4, <1>8 DEF AccountedInv, CallAccounted, NumbersInv, CallsInv, CallOf
<1>9. ASSUME NEW q \in calls, q.kind = "purchase", s.kind = "delete"
      PROVE  q.id # s.id
  BY <1>2, <1>9 DEF NumbersInv, CallsInv, Purchasing
<1>10. Apart(calls')
  BY <1>3, <1>8, <1>9 DEF AccountedInv, Apart
<1>11. half \subseteq Phones!Ids
  BY DEF AccountedInv
<1> QED
  BY <1>3, <1>6, <1>7, <1>10, <1>11, AccountedQuiet

LEMMA AccountedStep ==
  ASSUME NumbersInv, AccountedInv, Phones!Next
  PROVE  AccountedInv'
<1>types. /\ bought \in [Numbers -> Held] /\ numbers \in [Phones!Ids -> PRow \cup {PNone}]
          /\ ids \in 0 .. MaxIds
          /\ CallsInv(calls, bought, numbers, ids)
          /\ HeldInv(bought, ids) /\ TableInv(numbers, bought, ids)
          /\ \A r \in calls : r \in Phones!Request /\ CallOf(r, ids) /\ Purchasing(r, bought, numbers)
          /\ half \subseteq Phones!Ids
          /\ \A r \in calls : CallAccounted(r, bought, ids)
          /\ Apart(calls) /\ HeldAccounted(bought, numbers, calls, half)
          /\ RowsAccounted(bought, numbers, calls, half)
          /\ Phones!Ids = 1 .. MaxIds /\ MaxIds \in Nat
  BY RowOrNone DEF NumbersInv, AccountedInv, CallsInv, CallOf
<1>rows. \A i \in Phones!Ids : Phones!IsRow(i) => numbers[i] \in PRow
  BY <1>types DEF Phones!IsRow, PNone
<1>1. ASSUME NEW n \in Numbers, NEW primary \in BOOLEAN, Phones!Purchase(First, n, primary)
      PROVE  AccountedInv'
  <2> DEFINE r == [Phones!Blank("purchase", "twilio", First) EXCEPT
                     !.number = n, !.id = ids + 1, !.isPrimary = primary]
  <2>1. /\ ids < MaxIds /\ ids' = ids + 1 /\ Phones!Begin(r) /\ UNCHANGED <<bought, numbers, half>>
    BY <1>1 DEF Phones!Purchase
  <2>2. ids' \in ids .. MaxIds
    BY <1>types, <2>1
  <2>3. r.kind = "purchase" /\ r.id = ids + 1 /\ r.pc = "twilio"
    BY DEF Phones!Blank
  <2>4. \A place : LET s == [r EXCEPT !.place = place]
                   IN s.kind = r.kind /\ s.id = r.id /\ s.number = r.number /\ s.pc = r.pc /\ s.sid = r.sid
    BY DEF Phones!Blank
  <2> HIDE DEF r
  <2> QED
    BY <2>1, <2>2, <2>3, <2>4, AccountedBegin
\* The other requests account for nothing when they come.
<1>2. ASSUME NEW r, r.kind \notin {"purchase", "delete"}, Phones!Begin(r),
             UNCHANGED <<bought, numbers, half, ids>>,
             \A place : LET s == [r EXCEPT !.place = place]
                        IN s.kind = r.kind /\ s.id = r.id /\ s.number = r.number /\ s.pc = r.pc /\ s.sid = r.sid
      PROVE  AccountedInv'
  <2>1. ids' \in ids .. MaxIds
    BY <1>types, <1>2
  <2> QED
    BY <1>2, <2>1, AccountedBegin
<1>3. ASSUME NEW i \in Phones!Ids, Phones!Delete(i)
      PROVE  AccountedInv'
  <2> DEFINE r == [Phones!Blank("delete", "twilio", numbers[i].tenant) EXCEPT
                     !.id = i, !.number = numbers[i].number, !.sid = numbers[i].sid]
  <2>1. /\ Phones!Begin(r) /\ UNCHANGED <<bought, numbers, half>> /\ ids' \in ids .. MaxIds
        /\ numbers[i] # PNone
    BY <1>types, <1>3 DEF Phones!Delete, Phones!IsRow, PNone
  <2>2. numbers[i].number \in Numbers /\ numbers[i].sid = i
    BY <1>types, <2>1, RowOrNone DEF TableInv
  <2>3. /\ r.kind = "delete" /\ r.id = i /\ r.pc = "twilio" /\ r.number = numbers[i].number
        /\ r.sid = numbers[i].sid
    BY DEF Phones!Blank
  <2>4. \A place : LET s == [r EXCEPT !.place = place]
                   IN s.kind = r.kind /\ s.id = r.id /\ s.number = r.number /\ s.pc = r.pc /\ s.sid = r.sid
    BY DEF Phones!Blank
  <2> HIDE DEF r
  <2> QED
    BY <2>1, <2>2, <2>3, <2>4, AccountedBegin
<1>4. ASSUME NEW i \in Phones!Ids, NEW primary \in BOOLEAN, Phones!Update(i, primary)
      PROVE  AccountedInv'
  <2>1. PICK pc \in {"twilio", "unset"} :
          Phones!Begin([Phones!Blank("update", pc, numbers[i].tenant) EXCEPT
                          !.id = i, !.sid = numbers[i].sid, !.isPrimary = primary])
    BY <1>4 DEF Phones!Update
  <2> DEFINE r == [Phones!Blank("update", pc, numbers[i].tenant) EXCEPT
                     !.id = i, !.sid = numbers[i].sid, !.isPrimary = primary]
  <2>2. /\ r.kind = "update"
        /\ \A place : LET s == [r EXCEPT !.place = place]
                      IN s.kind = r.kind /\ s.id = r.id /\ s.number = r.number /\ s.pc = r.pc /\ s.sid = r.sid
    BY DEF Phones!Blank
  <2>3. Phones!Begin(r) /\ UNCHANGED <<bought, numbers, half, ids>>
    BY <1>4, <2>1 DEF Phones!Update
  <2> HIDE DEF r
  <2> QED
    BY <1>2, <2>2, <2>3
<1>5. ASSUME NEW f \in Flows, Phones!DeleteFlow(f)
      PROVE  AccountedInv'
  <2> DEFINE r == [Phones!Blank("unflow", "save", flows[f]) EXCEPT !.flow = f]
  <2>2. /\ r.kind = "unflow"
        /\ \A place : LET s == [r EXCEPT !.place = place]
                      IN s.kind = r.kind /\ s.id = r.id /\ s.number = r.number /\ s.pc = r.pc /\ s.sid = r.sid
    BY DEF Phones!Blank
  <2>3. Phones!Begin(r) /\ UNCHANGED <<bought, numbers, half, ids>>
    BY <1>5 DEF Phones!DeleteFlow
  <2> HIDE DEF r
  <2> QED
    BY <1>2, <2>2, <2>3
<1>6. ASSUME NEW i \in Phones!Ids, NEW f \in Flows \cup {0}, Phones!Assign(First, i, f)
      PROVE  AccountedInv'
  <2> DEFINE r == [Phones!Blank("assign", "save", First) EXCEPT !.id = i, !.flow = f]
  <2>2. /\ r.kind = "assign"
        /\ \A place : LET s == [r EXCEPT !.place = place]
                      IN s.kind = r.kind /\ s.id = r.id /\ s.number = r.number /\ s.pc = r.pc /\ s.sid = r.sid
    BY DEF Phones!Blank
  <2>3. Phones!Begin(r) /\ UNCHANGED <<bought, numbers, half, ids>>
    BY <1>6 DEF Phones!Assign
  <2> HIDE DEF r
  <2> QED
    BY <1>2, <2>2, <2>3
<1>7. ASSUME Phones!AppRead(First)
      PROVE  AccountedInv'
  <2> DEFINE r == Phones!Blank("app", "save", First)
  <2>2. /\ r.kind = "app"
        /\ \A place : LET s == [r EXCEPT !.place = place]
                      IN s.kind = r.kind /\ s.id = r.id /\ s.number = r.number /\ s.pc = r.pc /\ s.sid = r.sid
    BY DEF Phones!Blank
  <2>3. (Phones!Begin(r) \/ UNCHANGED calls) /\ UNCHANGED <<bought, numbers, half, ids>>
    BY <1>7 DEF Phones!AppRead
  <2> HIDE DEF r
  <2> QED
    BY <1>2, <1>7, <2>2, <2>3, AccountedStays DEF numbersVars, Phones!AppRead
<1>8. ASSUME NEW f \in Flows, Phones!CreateFlow(First, f)
      PROVE  AccountedInv'
  BY <1>types, <1>8, AccountedQuiet DEF Phones!CreateFlow
<1>9. ASSUME NEW r \in calls, Phones!Buy(r)
      PROVE  AccountedInv'
  <2>1. r.kind = "purchase" /\ r.pc = "twilio" /\ UNCHANGED <<numbers, ids, half>>
    BY <1>9 DEF Phones!Buy, Phones!At
  <2>2. CASE calls' = calls \ {r} /\ UNCHANGED bought
    BY <1>types, <2>1, <2>2, AccountedEnds DEF Phones!Purchased, Phones!Released, Phones!At
  <2>3. CASE /\ bought[r.number] = Phones!Free
             /\ bought' = [bought EXCEPT ![r.number] = [sid |-> r.id, hook |-> r.id]]
             /\ calls' = (calls \ {r}) \cup {[r EXCEPT !.pc = "unset"]}
    <3> DEFINE s == [r EXCEPT !.pc = "unset"]
    <3>1. /\ r.id \in Phones!Ids /\ r.number \in Numbers /\ numbers[r.id] = PNone
          /\ bought[r.number].hook = 0
      BY <1>types, <2>1, <2>3 DEF CallOf, Purchasing, Phones!Free
    <3>2. /\ \A n \in Numbers : n # r.number => bought'[n] = bought[n]
          /\ bought'[r.number].hook = r.id
      BY <1>types, <2>3, <3>1
    <3>3. s.kind = "purchase" /\ s.id = r.id /\ s.number = r.number /\ s.pc = "unset"
      BY <1>types, <2>1 DEF Phones!Request
    <3>4. calls' = (calls \ {r}) \cup {s}
      BY <2>3
    <3> HIDE DEF s
    <3>5. Phones!Purchased(s) /\ ~ Phones!Purchased(r) /\ ~ Phones!Released(r) /\ ~ Phones!Released(s)
      BY <2>1, <3>3 DEF Phones!Purchased, Phones!Released, Phones!At
    <3>6. ASSUME NEW q \in calls, q # r
          PROVE  CallAccounted(q, bought', ids)
      <4>1. CallAccounted(q, bought, ids) /\ (q.kind = "delete" => q.id # r.id)
        BY <1>types, <2>1 DEF Apart
      <4>2. q.kind \in {"purchase", "delete"} => q.id \in Phones!Ids /\ q.id # 0
        BY <1>types DEF CallOf
      <4>3. Phones!Purchased(q) => q.number # r.number /\ q.number \in Numbers
        BY <1>types, <3>1, <4>1, <4>2 DEF CallAccounted, CallOf, Phones!Purchased
      <4> QED
        BY <3>2, <4>1, <4>3 DEF CallAccounted, Phones!Released, Phones!At
    <3>7. CallAccounted(s, bought', ids)
      BY <3>2, <3>3, <3>5 DEF CallAccounted
    <3>8. Apart(calls')
      BY <1>types, <2>1, <3>3, <3>4 DEF Apart
    <3>9. HeldAccounted(bought', numbers, calls', half)
      BY <1>types, <3>2, <3>3, <3>4, <3>5 DEF HeldAccounted
    <3>10. \A i \in Phones!Ids : numbers[i] # PNone => numbers[i].number \in Numbers /\ i # 0
      BY <1>types, RowOrNone
    <3>11. RowsAccounted(bought', numbers, calls', half)
      BY <1>types, <3>1, <3>2, <3>4, <3>5, <3>10 DEF RowsAccounted
    <3> QED
      BY <1>types, <2>1, <3>4, <3>6, <3>7, <3>8, <3>9, <3>11 DEF AccountedInv
  <2> QED
    BY <1>9, <2>2, <2>3 DEF Phones!Buy, Phones!Available, Phones!Goto, Phones!Done
<1>10. ASSUME NEW r \in calls, Phones!Rename(r)
       PROVE  AccountedInv'
  <2>1. r.kind = "update" /\ "unset" \in Phones!Points \ {"twilio"} /\ UNCHANGED <<bought, numbers, ids, half>>
    BY <1>10 DEF Phones!Rename, Phones!At, Phones!Points
  <2>2. CASE calls' = calls \ {r}
    BY <1>types, <2>1, <2>2, AccountedEnds DEF Phones!Purchased, Phones!Released, Phones!At
  <2>3. CASE calls' = (calls \ {r}) \cup {[r EXCEPT !.pc = "unset"]}
    BY <2>1, <2>3, AccountedGoes
  <2> QED
    BY <1>10, <2>2, <2>3 DEF Phones!Rename, Phones!Goto, Phones!Done
<1>11. ASSUME NEW r \in calls, Phones!Unset(r)
       PROVE  AccountedInv'
  <2>1. "save" \in Phones!Points \ {"twilio"} /\ UNCHANGED <<bought, ids, half>>
    BY <1>11 DEF Phones!Unset, Phones!Points
  <2>2. r.kind # "delete"
    BY <1>types, <1>11 DEF Phones!Unset, CallAccounted
  <2>3. \A k \in Phones!Ids :
          /\ numbers'[k] # PNone <=> numbers[k] # PNone
          /\ numbers'[k] # PNone => numbers'[k].number = numbers[k].number
    <3>1. CASE UNCHANGED numbers
      BY <3>1
    <3>2. CASE numbers' = Phones!Clear(r.tenant, r.id)
      <4> DEFINE c(k) == [numbers[k] EXCEPT !.isPrimary = FALSE]
      <4>1. \A k \in Phones!Ids : numbers'[k] = IF k \in Phones!RowsOf(r.tenant) \ {r.id} THEN c(k) ELSE numbers[k]
        BY <3>2 DEF Phones!Clear
      <4>2. \A k \in Phones!RowsOf(r.tenant) \ {r.id} : numbers[k] \in PRow
        BY <1>rows DEF Phones!RowsOf
      <4>3. \A k \in Phones!Ids : numbers[k] \in PRow =>
              c(k) \in PRow /\ c(k).number = numbers[k].number
        BY DEF PRow
      <4> HIDE DEF c
      <4> QED
        BY <4>1, <4>2, <4>3, RowOrNone
    <3> QED
      BY <1>11, <3>1, <3>2 DEF Phones!Unset
  <2> QED
    BY <1>11, <2>1, <2>2, <2>3, AccountedGoes DEF Phones!Unset, Phones!Goto
<1>12. ASSUME NEW r \in calls, Phones!SaveNumber(r)
       PROVE  AccountedInv'
  <2>1. /\ r.kind = "purchase" /\ r.pc = "save" /\ calls' = calls \ {r} /\ UNCHANGED <<bought, ids>>
        /\ r.id \in Phones!Ids /\ r.number \in Numbers
    BY <1>types, <1>12 DEF Phones!SaveNumber, Phones!At, Phones!Done, CallOf
  <2>2. CASE half' = half \cup {r.id} /\ UNCHANGED numbers
    BY <1>types, <2>1, <2>2, AccountedEnds
  <2> DEFINE u == [number |-> r.number, tenant |-> r.tenant, sid |-> r.id,
                   isPrimary |-> r.isPrimary, flow |-> 0]
  <2>3. CASE numbers' = [numbers EXCEPT ![r.id] = u] /\ UNCHANGED half
    <3>1. u \in PRow /\ u.number = r.number
      BY <1>types, <2>1 DEF PRow, Phones!Request
    <3> HIDE DEF u
    <3>2. /\ \A i \in Phones!Ids : numbers'[i] = IF i = r.id THEN u ELSE numbers[i]
          /\ u # PNone
      BY <1>types, <2>1, <2>3, <3>1, RowOrNone
    <3>3. bought[r.number].hook = r.id
      BY <1>types, <2>1 DEF CallAccounted, Phones!Purchased
    <3>4. ~ Phones!Released(r)
      BY <2>1 DEF Phones!Released, Phones!At
    <3>5. \A n \in Numbers : bought[n].hook # 0 => bought[n].hook \in Phones!Ids
      BY <1>types DEF Held
    <3>6. HeldAccounted(bought, numbers', calls', half)
      BY <1>types, <2>1, <3>2, <3>5 DEF HeldAccounted
    <3>7. RowsAccounted(bought, numbers', calls', half)
      BY <1>types, <2>1, <3>1, <3>2, <3>3, <3>4 DEF RowsAccounted
    <3>8. Apart(calls') /\ \A q \in calls' : CallAccounted(q, bought, ids)
      BY <1>types, <2>1 DEF Apart
    <3> QED
      BY <1>types, <2>1, <2>3, <3>6, <3>7, <3>8 DEF AccountedInv
  <2> QED
    BY <1>12, <2>2, <2>3 DEF Phones!SaveNumber
<1>13. ASSUME NEW r \in calls, Phones!UpdateSave(r)
       PROVE  AccountedInv'
  <2>1. r.kind = "update" /\ calls' = calls \ {r} /\ UNCHANGED <<bought, ids, half>>
    BY <1>13 DEF Phones!UpdateSave, Phones!At, Phones!Done
  <2> DEFINE u == [number |-> numbers[r.id].number, tenant |-> numbers[r.id].tenant,
                   sid |-> numbers[r.id].sid, isPrimary |-> r.isPrimary, flow |-> numbers[r.id].flow]
  <2>2. \A k \in Phones!Ids :
          /\ numbers'[k] # PNone <=> numbers[k] # PNone
          /\ numbers'[k] # PNone => numbers'[k].number = numbers[k].number
    <3>1. CASE UNCHANGED numbers
      BY <3>1
    <3>2. CASE Phones!IsRow(r.id) /\ numbers' = [numbers EXCEPT ![r.id] = u]
      <4>1. r.id \in Phones!Ids /\ numbers[r.id] \in PRow
        BY <1>types, <1>rows, <2>1, <3>2 DEF CallOf
      <4>2. u \in PRow /\ u.number = numbers[r.id].number
        BY <1>types, <4>1 DEF PRow, Phones!Request
      <4> HIDE DEF u
      <4> QED
        BY <1>types, <3>2, <4>1, <4>2, RowOrNone
    <3> QED
      BY <1>13, <3>1, <3>2 DEF Phones!UpdateSave
  <2> QED
    BY <1>types, <2>1, <2>2, AccountedEnds DEF Phones!Purchased, Phones!Released, Phones!At
<1>14. ASSUME NEW r \in calls, Phones!Release(r)
       PROVE  AccountedInv'
  <2>1. r.kind = "delete" /\ r.pc = "twilio" /\ UNCHANGED <<numbers, ids, half>>
    BY <1>14 DEF Phones!Release, Phones!At
  <2>2. CASE calls' = calls \ {r} /\ UNCHANGED bought
    BY <1>types, <2>1, <2>2, AccountedEnds DEF Phones!Purchased, Phones!Released, Phones!At
  <2>3. CASE /\ bought[r.number].sid = r.sid
             /\ bought' = [bought EXCEPT ![r.number] = Phones!Free]
             /\ calls' = (calls \ {r}) \cup {[r EXCEPT !.pc = "save"]}
    <3> DEFINE s == [r EXCEPT !.pc = "save"]
    <3>1. /\ r.number \in Numbers /\ r.sid = r.id /\ r.id <= ids /\ r.id \in Phones!Ids /\ r.id # 0
      BY <1>types, <2>1 DEF CallOf, CallAccounted
    <3>2. bought[r.number].hook = r.id /\ \A n \in Numbers : n # r.number => bought[n].hook # r.id
      BY <1>types, <2>3, <3>1 DEF HeldInv
    <3>3. /\ \A n \in Numbers : n # r.number => bought'[n] = bought[n]
          /\ bought'[r.number].hook = 0
      BY <1>types, <2>3, <3>1 DEF Phones!Free
    <3>4. s.kind = "delete" /\ s.id = r.id /\ s.number = r.number /\ s.sid = r.sid /\ s.pc = "save"
      BY <1>types, <2>1 DEF Phones!Request
    <3>5. calls' = (calls \ {r}) \cup {s}
      BY <2>3
    <3> HIDE DEF s
    <3>6. Phones!Released(s) /\ ~ Phones!Purchased(s) /\ ~ Phones!Purchased(r) /\ ~ Phones!Released(r)
      BY <2>1, <3>4 DEF Phones!Purchased, Phones!Released, Phones!At
    <3>7. \A n \in Numbers : bought'[n].hook # r.id
      BY <3>1, <3>2, <3>3
    <3>8. CallAccounted(s, bought', ids)
      BY <3>1, <3>4, <3>6, <3>7 DEF CallAccounted
    <3>9. ASSUME NEW q \in calls, q # r
          PROVE  CallAccounted(q, bought', ids)
      <4>1. CallAccounted(q, bought, ids) /\ (q.kind = "purchase" => q.id # r.id /\ q.number \in Numbers)
        BY <1>types, <2>1 DEF Apart, CallOf
      <4>2. Phones!Purchased(q) => q.number # r.number
        BY <3>2, <4>1 DEF CallAccounted, Phones!Purchased
      <4>3. Phones!Released(q) => q.id # 0
        BY <1>types DEF CallOf, Phones!Released, Phones!At
      <4> QED
        BY <3>3, <4>1, <4>2, <4>3 DEF CallAccounted, Phones!Purchased
    <3>10. Apart(calls')
      BY <1>types, <2>1, <3>4, <3>5 DEF Apart
    <3>11. HeldAccounted(bought', numbers, calls', half)
      BY <1>types, <3>3, <3>5, <3>6 DEF HeldAccounted
    <3>12. ASSUME NEW i \in Phones!Ids, numbers[i] # PNone
           PROVE  \/ bought'[numbers[i].number].hook = i \/ i \in half
                  \/ \E q \in calls' : Phones!Released(q) /\ q.id = i
      <4>1. numbers[i].number \in Numbers
        BY <1>types, <3>12, RowOrNone
      <4>2. CASE i = r.id
        BY <3>4, <3>5, <3>6, <4>2
      <4>3. CASE i # r.id
        BY <1>types, <3>2, <3>3, <3>5, <3>6, <3>12, <4>1, <4>3 DEF RowsAccounted
      <4> QED
        BY <4>2, <4>3
    <3>13. RowsAccounted(bought', numbers, calls', half)
      BY <3>12 DEF RowsAccounted
    <3> QED
      BY <1>types, <2>1, <3>5, <3>8, <3>9, <3>10, <3>11, <3>13 DEF AccountedInv
  <2> QED
    BY <1>14, <2>2, <2>3 DEF Phones!Release, Phones!Goto, Phones!Done
<1>15. ASSUME NEW r \in calls, Phones!Erase(r)
       PROVE  AccountedInv'
  <2>1. /\ numbers' = [numbers EXCEPT ![r.id] = PNone] /\ calls' = calls \ {r}
        /\ UNCHANGED <<bought, ids, half>> /\ Phones!Released(r) /\ r.kind = "delete"
    BY <1>15 DEF Phones!Erase, Phones!Done, PNone, Phones!Released, Phones!At
  <2>2. \A n \in Numbers : bought[n].hook # r.id
    BY <1>types, <2>1 DEF CallAccounted
  <2>3. \A i \in Phones!Ids : numbers'[i] = IF i = r.id THEN PNone ELSE numbers[i]
    BY <1>types, <2>1
  <2>4. \A n \in Numbers : bought[n].hook # 0 => bought[n].hook \in Phones!Ids
    BY <1>types DEF Held
  <2>5. HeldAccounted(bought, numbers', calls', half)
    BY <1>types, <2>1, <2>2, <2>3, <2>4 DEF HeldAccounted, Phones!Purchased
  <2>6. RowsAccounted(bought, numbers', calls', half)
    BY <1>types, <2>1, <2>3 DEF RowsAccounted
  <2>7. Apart(calls') /\ \A q \in calls' : CallAccounted(q, bought, ids)
    BY <1>types, <2>1 DEF Apart
  <2> QED
    BY <1>types, <2>1, <2>5, <2>6, <2>7 DEF AccountedInv
<1>16. ASSUME NEW r \in calls, Phones!EraseFlow(r)
       PROVE  AccountedInv'
  <2> DEFINE c(k) == [numbers[k] EXCEPT !.flow = 0]
  <2>1. /\ calls' = calls \ {r} /\ UNCHANGED <<bought, ids, half>> /\ r.kind = "unflow"
        /\ \A k \in Phones!Ids :
             numbers'[k] = IF numbers[k].flow = r.flow /\ Phones!IsRow(k) THEN c(k) ELSE numbers[k]
    BY <1>16 DEF Phones!EraseFlow, Phones!Done, Phones!At
  <2>2. \A k \in Phones!Ids : numbers[k] \in PRow => c(k) \in PRow /\ c(k).number = numbers[k].number
    BY DEF PRow
  <2> HIDE DEF c
  <2>3. \A k \in Phones!Ids :
          /\ numbers'[k] # PNone <=> numbers[k] # PNone
          /\ numbers'[k] # PNone => numbers'[k].number = numbers[k].number
    BY <1>rows, <2>1, <2>2, RowOrNone
  <2> QED
    BY <1>types, <2>1, <2>3, AccountedEnds DEF Phones!Purchased, Phones!Released, Phones!At
<1>17. ASSUME NEW r \in calls, Phones!AssignSave(r)
       PROVE  AccountedInv'
  <2>1. r.kind = "assign" /\ calls' = calls \ {r} /\ UNCHANGED <<bought, ids, half>>
    BY <1>17 DEF Phones!AssignSave, Phones!At, Phones!Done
  <2>2. \A k \in Phones!Ids :
          /\ numbers'[k] # PNone <=> numbers[k] # PNone
          /\ numbers'[k] # PNone => numbers'[k].number = numbers[k].number
    <3>1. CASE UNCHANGED numbers
      BY <3>1
    <3>2. CASE /\ Phones!IsRow(r.id) /\ (r.flow # 0 => flows[r.flow] \in {First})
               /\ numbers' = [numbers EXCEPT ![r.id].flow = r.flow]
      <4> DEFINE u == [numbers[r.id] EXCEPT !.flow = r.flow]
      <4>1. r.id \in Phones!Ids /\ numbers[r.id] \in PRow
        BY <1>types, <1>rows, <2>1, <3>2 DEF CallOf
      <4>2. u \in PRow /\ u.number = numbers[r.id].number
        BY <1>types, <4>1 DEF PRow, Phones!Request
      <4>3. numbers' = [numbers EXCEPT ![r.id] = u]
        BY <3>2, <4>1
      <4> HIDE DEF u
      <4> QED
        BY <1>types, <4>1, <4>2, <4>3, RowOrNone
    <3> QED
      BY <1>17, <3>1, <3>2 DEF Phones!AssignSave
  <2> QED
    BY <1>types, <2>1, <2>2, AccountedEnds DEF Phones!Purchased, Phones!Released, Phones!At
<1>18. ASSUME NEW r \in calls, Phones!AppCreate(r)
       PROVE  AccountedInv'
  <2>1. r.kind = "app" /\ calls' = calls \ {r} /\ UNCHANGED <<bought, numbers, ids, half>>
    BY <1>18 DEF Phones!AppCreate, Phones!At, Phones!Done
  <2> QED
    BY <1>types, <2>1, AccountedEnds DEF Phones!Purchased, Phones!Released, Phones!At
<1>19. ASSUME NEW r \in calls, Phones!Fail(r)
       PROVE  AccountedInv'
  <2>1. /\ calls' = calls \ {r} /\ UNCHANGED <<bought, numbers, ids>>
        /\ half' = IF Phones!Purchased(r) \/ Phones!Released(r) THEN half \cup {r.id} ELSE half
    BY <1>19 DEF Phones!Fail, Phones!Done
  <2>2. Phones!Purchased(r) \/ Phones!Released(r) => r.id \in Phones!Ids
    BY <1>types DEF CallOf, Phones!Purchased, Phones!Released, Phones!At
  <2>3. half' \subseteq Phones!Ids
    BY <1>types, <2>1, <2>2
  <2> QED
    BY <1>types, <2>1, <2>3, AccountedEnds
<1> QED
  BY <1>1, <1>3, <1>4, <1>5, <1>6, <1>7, <1>8, <1>9, <1>10, <1>11, <1>12, <1>13, <1>14, <1>15, <1>16, <1>17, <1>18, <1>19
  DEF Phones!Next, Phones!Step



-----------------------------------------------------------------------------
(* The profile of a tenant *)

MemberIn(r) == r.name # "absent"

\* A tenant that is gone has left nothing behind.
NothingLeft(tenants, members) ==
  \A t \in Tenants : ~ tenants[t].exists =>
    tenants[t] = Profile!Gone /\ \A u \in Users : ~ MemberIn(members[t][u])

ProfileInv ==
  /\ tenant \in [Tenants -> Profile!Tenant]
  /\ row \in [Tenants -> [Users -> Profile!Row]]
  /\ strays \subseteq Tenants \X Users
  /\ edits \subseteq Profile!Request
  /\ NothingLeft(tenant, row)

LEMMA ProfileTypes == ProfileInv => Profile!TypeOK
BY DEF ProfileInv, NothingLeft, MemberIn, Profile!TypeOK, Profile!Members, Profile!Member

LEMMA GoneAndAbsent ==
  /\ Profile!Gone \in Profile!Tenant /\ Profile!Absent \in Profile!Row
  /\ ~ Profile!Gone.exists /\ Profile!Absent.name = "absent"
BY DEF Profile!Gone, Profile!Tenant, Profile!Absent, Profile!Row, Profile!NoDomain, Profile!NoName

\* What there is in the beginning: a tenant with a subdomain and an owner with a username,
\* or one from before there were such.
FirstTenant(sub, old) ==
  [Profile!Gone EXCEPT !.exists = TRUE, !.isActive = TRUE,
                       !.subdomain = IF old THEN Profile!NoDomain ELSE sub]
FirstRow(t, u, sub, name, old) ==
  IF t # First \/ (u # Creator /\ ~ (old /\ u \in Legacy)) THEN Profile!Absent
  ELSE IF old THEN [name |-> Profile!NoName, owner |-> u = Creator, local |-> Profile!NoName,
                    domain |-> Profile!NoDomain]
  ELSE [name |-> name, owner |-> TRUE, local |-> name, domain |-> sub]

LEMMA FirstTypes ==
  ASSUME NEW sub \in Subdomains, NEW name \in Names, NEW old \in BOOLEAN
  PROVE  /\ FirstTenant(sub, old) \in Profile!Tenant /\ FirstTenant(sub, old).exists
         /\ FirstTenant(sub, old).subdomain = IF old THEN Profile!NoDomain ELSE sub
         /\ \A t \in Tenants, u \in Users : FirstRow(t, u, sub, name, old) \in Profile!Row
<1>1. /\ FirstTenant(sub, old) \in Profile!Tenant /\ FirstTenant(sub, old).exists
      /\ FirstTenant(sub, old).subdomain = IF old THEN Profile!NoDomain ELSE sub
  BY DEF FirstTenant, Profile!Gone, Profile!Tenant, Profile!NoDomain
<1>2. ASSUME NEW t \in Tenants, NEW u \in Users
      PROVE  FirstRow(t, u, sub, name, old) \in Profile!Row
  BY GoneAndAbsent DEF FirstRow, Profile!Row, Profile!NoDomain, Profile!NoName
<1> QED
  BY <1>1, <1>2

LEMMA ProfileStart ==
  ASSUME Profile!Init
  PROVE  /\ edits = {} /\ strays = {}
         /\ \E sub \in Subdomains, name \in Names, old \in BOOLEAN :
              /\ tenant = [t \in Tenants |-> IF t = First THEN FirstTenant(sub, old) ELSE Profile!Gone]
              /\ row = [t \in Tenants |-> [u \in Users |-> FirstRow(t, u, sub, name, old)]]
BY DEF Profile!Init, FirstTenant, FirstRow

LEMMA ProfileInit == Profile!Init => ProfileInv
<1> SUFFICES ASSUME Profile!Init PROVE ProfileInv
  OBVIOUS
<1>1. PICK sub \in Subdomains, name \in Names, old \in BOOLEAN :
        /\ tenant = [t \in Tenants |-> IF t = First THEN FirstTenant(sub, old) ELSE Profile!Gone]
        /\ row = [t \in Tenants |-> [u \in Users |-> FirstRow(t, u, sub, name, old)]]
  BY ProfileStart
<1>2. tenant \in [Tenants -> Profile!Tenant] /\ row \in [Tenants -> [Users -> Profile!Row]]
  BY <1>1, FirstTypes, GoneAndAbsent
<1>3. NothingLeft(tenant, row)
  BY <1>1, FirstTypes, GoneAndAbsent DEF NothingLeft, MemberIn, FirstRow
<1> QED
  BY <1>2, <1>3, ProfileStart DEF ProfileInv

LEMMA ProfileStays ==
  ASSUME ProfileInv, UNCHANGED profileVars
  PROVE  ProfileInv'
BY DEF ProfileInv, profileVars

\* The requests: each reads, and writes afterwards.
EditComes ==
  /\ UNCHANGED <<tenant, row, strays>>
  /\ \E x \in Profile!Request : edits' = edits \cup {x}

\* A request before it has its place.
UnplacedEdit ==
  [place : {0}, kind : Profile!Kinds, t : Tenants, u : Users, name : Names \cup {Profile!NoName},
   sub : Subdomains \cup {Profile!NoDomain}, pc : {"write"}, keys : SUBSET Options,
   todo : {{}}]

LEMMA BlankEdit ==
  ASSUME NEW kind \in Profile!Kinds, NEW t \in Tenants, NEW u \in Users
  PROVE  Profile!Blank(kind, t, u) \in UnplacedEdit
BY DEF UnplacedEdit, Profile!Blank

LEMMA EditBegins ==
  ASSUME NEW r \in UnplacedEdit, Profile!Begin(r)
  PROVE  EditComes
<1>1. PICK place \in 1 .. InFlight : edits' = edits \cup {[r EXCEPT !.place = place]}
  BY DEF Profile!Begin
<1>2. [r EXCEPT !.place = place] \in Profile!Request
  BY DEF UnplacedEdit, Profile!Request
<1> QED
  BY <1>1, <1>2 DEF EditComes, Profile!Begin

\* A request to create a tenant, to add a member or to change a username.
LEMMA ReadsName ==
  ASSUME NEW t \in Tenants, NEW u \in Users, NEW name \in Names,
         tenant \in [Tenants -> Profile!Tenant],
         \/ \E sub \in Subdomains : Profile!CreateCheck(t, u, name, sub)
         \/ Profile!AddRead(t, u, name) \/ Profile!RenameRead(t, u, name)
  PROVE  EditComes
<1>1. ASSUME NEW kind \in Profile!Kinds, NEW sub \in Subdomains \cup {Profile!NoDomain},
             Profile!Begin([Profile!Blank(kind, t, u) EXCEPT !.name = name, !.sub = sub])
      PROVE  EditComes
  <2> DEFINE b == Profile!Blank(kind, t, u)
             r == [b EXCEPT !.name = name, !.sub = sub]
  <2>b. b \in UnplacedEdit
    BY BlankEdit
  <2>r. Profile!Begin(r)
    BY <1>1
  <2> HIDE DEF b
  <2>1. r \in UnplacedEdit
    BY <2>b DEF UnplacedEdit
  <2> HIDE DEF r
  <2> QED
    BY <2>r, <2>1, EditBegins
<1>2. ASSUME NEW sub \in Subdomains, Profile!CreateCheck(t, u, name, sub)
      PROVE  EditComes
  <2>1. Profile!Begin([Profile!Blank("create", t, u) EXCEPT !.name = name, !.sub = sub])
    BY <1>2 DEF Profile!CreateCheck
  <2> QED
    BY <1>1, <2>1 DEF Profile!Kinds
<1>3. CASE Profile!AddRead(t, u, name) \/ Profile!RenameRead(t, u, name)
  <2>1. PICK kind \in {"add", "rename"} :
          Profile!Begin([Profile!Blank(kind, t, u) EXCEPT !.name = name, !.sub = tenant[t].subdomain])
    BY <1>3 DEF Profile!AddRead, Profile!RenameRead
  <2>2. tenant[t].subdomain \in Subdomains \cup {Profile!NoDomain}
    BY DEF Profile!Tenant
  <2> QED
    BY <1>1, <2>1, <2>2 DEF Profile!Kinds
<1> QED
  BY <1>2, <1>3

\* A request to change the subdomain, to merge settings or to remove the tenant.
LEMMA ReadsTenant ==
  ASSUME NEW t \in Tenants, tenant \in [Tenants -> Profile!Tenant],
         \/ \E sub \in Subdomains : Profile!UpdateCheck(t, sub)
         \/ \E key \in Options : Profile!SettingsRead(t, {key})
         \/ \E u \in Users : Profile!RemoveCheck(t, u)
  PROVE  EditComes
<1>1. ASSUME NEW sub \in Subdomains, Profile!UpdateCheck(t, sub)
      PROVE  EditComes
  <2> DEFINE r == [Profile!Blank("update", t, Creator) EXCEPT !.sub = sub]
  <2>1. r \in UnplacedEdit
    BY BlankEdit, UsersAssumption DEF UnplacedEdit, Profile!Kinds
  <2>2. Profile!Begin(r)
    BY <1>1 DEF Profile!UpdateCheck
  <2> QED
    BY <2>1, <2>2, EditBegins
<1>2. ASSUME NEW key \in Options, Profile!SettingsRead(t, {key})
      PROVE  EditComes
  <2> DEFINE r == [Profile!Blank("settings", t, Creator) EXCEPT !.keys = tenant[t].settings \cup {key}]
  <2>1. tenant[t].settings \cup {key} \in SUBSET Options
    BY DEF Profile!Tenant
  <2>2. r \in UnplacedEdit
    BY <2>1, BlankEdit, UsersAssumption DEF UnplacedEdit, Profile!Kinds
  <2>3. Profile!Begin(r)
    BY <1>2 DEF Profile!SettingsRead
  <2> QED
    BY <2>2, <2>3, EditBegins
<1>3. ASSUME NEW u \in Users, Profile!RemoveCheck(t, u)
      PROVE  EditComes
  BY <1>3, BlankEdit, EditBegins DEF Profile!RemoveCheck, Profile!Kinds
<1> QED
  BY <1>1, <1>2, <1>3

LEMMA RowSet ==
  ASSUME ProfileInv, NEW t \in Tenants, NEW u \in Users, NEW x \in Profile!Row,
         row' = [row EXCEPT ![t][u] = x]
  PROVE  /\ row' \in [Tenants -> [Users -> Profile!Row]]
         /\ \A s \in Tenants, v \in Users : row'[s][v] = IF s = t /\ v = u THEN x ELSE row[s][v]
BY DEF ProfileInv

LEMMA RowsSet ==
  ASSUME ProfileInv, NEW t \in Tenants, NEW u, NEW x \in Profile!Row,
         row' = [row EXCEPT ![t] = [v \in Users |-> IF v # u THEN Profile!Absent ELSE x]]
  PROVE  /\ row' \in [Tenants -> [Users -> Profile!Row]]
         /\ \A s \in Tenants, v \in Users : row'[s][v] =
              IF s = t THEN IF v # u THEN Profile!Absent ELSE x ELSE row[s][v]
BY GoneAndAbsent DEF ProfileInv

LEMMA TenantSet ==
  ASSUME ProfileInv, NEW t \in Tenants, NEW x \in Profile!Tenant, tenant' = [tenant EXCEPT ![t] = x]
  PROVE  /\ tenant' \in [Tenants -> Profile!Tenant]
         /\ \A s \in Tenants : tenant'[s] = IF s = t THEN x ELSE tenant[s]
BY DEF ProfileInv

\* What the writes of a request do.
LEMMA CreateWrites ==
  ASSUME ProfileInv, NEW r \in edits, Profile!CreateWrite(r)
  PROVE  /\ edits' = edits \ {r} /\ r.kind = "create"
         /\ \/ UNCHANGED <<tenant, row, strays>>
            \/ \E x \in Profile!Tenant, y \in Profile!Row :
                 /\ x.exists /\ x.subdomain = r.sub
                 /\ y.domain = r.sub /\ y.local = y.name
                 /\ tenant' = [tenant EXCEPT ![r.t] = x]
                 /\ row' = [row EXCEPT ![r.t] = [v \in Users |-> IF v # r.u THEN Profile!Absent ELSE y]]
                 /\ strays' = Profile!Elsewhere(r.t)
<1>1. edits' = edits \ {r} /\ r.kind = "create" /\ r \in Profile!Request
  BY DEF Profile!CreateWrite, Profile!At, Profile!Done, ProfileInv
<1> DEFINE x == [Profile!Gone EXCEPT !.exists = TRUE, !.subdomain = r.sub, !.isActive = TRUE]
           y == [name |-> r.name, owner |-> TRUE, local |-> r.name, domain |-> r.sub]
<1>2. x \in Profile!Tenant /\ x.exists /\ x.subdomain = r.sub
  BY <1>1 DEF Profile!Gone, Profile!Tenant, Profile!Request
<1>3. y \in Profile!Row /\ y.domain = r.sub /\ y.local = y.name
  BY <1>1 DEF Profile!Row, Profile!Request
<1>4. \/ UNCHANGED <<tenant, row, strays>>
      \/ /\ tenant' = [tenant EXCEPT ![r.t] = x]
         /\ row' = [row EXCEPT ![r.t] = [v \in Users |-> IF v # r.u THEN Profile!Absent ELSE y]]
         /\ strays' = Profile!Elsewhere(r.t)
  BY DEF Profile!CreateWrite
<1> HIDE DEF x, y
<1> QED
  BY <1>1, <1>2, <1>3, <1>4

LEMMA UpdateWrites ==
  ASSUME ProfileInv, NEW r \in edits, Profile!UpdateWrite(r)
  PROVE  /\ r.kind = "update" /\ r.pc = "write" /\ UNCHANGED <<row, strays>>
         /\ \/ edits' = edits \ {r} /\ UNCHANGED tenant
            \/ /\ tenant[r.t].exists
               /\ \E x \in Profile!Tenant, s \in Profile!Request :
                    /\ x.exists /\ x.subdomain = r.sub /\ tenant' = [tenant EXCEPT ![r.t] = x]
                    /\ s.kind = "update" /\ s.t = r.t /\ s.sub = r.sub /\ s.pc = "find"
                    /\ edits' = (edits \ {r}) \cup {s}
<1>1. /\ r.kind = "update" /\ r.pc = "write" /\ UNCHANGED <<row, strays>> /\ r \in Profile!Request
      /\ r.t \in Tenants /\ tenant[r.t] \in Profile!Tenant
  BY DEF Profile!UpdateWrite, Profile!At, ProfileInv, Profile!Request
<1> DEFINE x == [tenant[r.t] EXCEPT !.subdomain = r.sub]
           s == [r EXCEPT !.pc = "find"]
<1>2. x \in Profile!Tenant /\ x.exists = tenant[r.t].exists /\ x.subdomain = r.sub
  BY <1>1 DEF Profile!Tenant, Profile!Request
<1>3. s \in Profile!Request /\ s.kind = "update" /\ s.t = r.t /\ s.sub = r.sub /\ s.pc = "find"
  BY <1>1 DEF Profile!Request
<1>4. \/ edits' = edits \ {r} /\ UNCHANGED tenant
      \/ /\ tenant[r.t].exists
         /\ tenant' = [tenant EXCEPT ![r.t] = x] /\ edits' = (edits \ {r}) \cup {s}
  BY <1>1 DEF Profile!UpdateWrite, Profile!Now, Profile!Done
<1> HIDE DEF x, s
<1> QED
  BY <1>1, <1>2, <1>3, <1>4

LEMMA MembersFound ==
  ASSUME ProfileInv, NEW r \in edits, Profile!FindMembers(r)
  PROVE  /\ r.kind = "update" /\ r.pc = "find" /\ UNCHANGED <<tenant, row, strays>>
         /\ \E s \in Profile!Request :
              /\ s.kind = "update" /\ s.t = r.t /\ s.sub = r.sub /\ s.pc = "mails"
              /\ s.todo = {<<u, row[r.t][u].name>> : u \in Profile!Members(r.t)}
              /\ edits' = (edits \ {r}) \cup {s}
<1>1. /\ r.kind = "update" /\ r.pc = "find" /\ UNCHANGED <<tenant, row, strays>>
      /\ r \in Profile!Request /\ r.t \in Tenants
  BY DEF Profile!FindMembers, Profile!At, ProfileInv, Profile!Request
<1> DEFINE todo == {<<u, row[r.t][u].name>> : u \in Profile!Members(r.t)}
           s == [r EXCEPT !.pc = "mails", !.todo = todo]
<1>2. \A u \in Profile!Members(r.t) : u \in Users /\ row[r.t][u].name \in Names \cup {Profile!NoName}
  BY <1>1 DEF ProfileInv, Profile!Members, Profile!Member, Profile!Row
<1>3. todo \in SUBSET (Users \X (Names \cup {Profile!NoName}))
  BY <1>2
<1>4. edits' = (edits \ {r}) \cup {s}
  BY DEF Profile!FindMembers, Profile!Now
<1> HIDE DEF todo
<1>5. /\ s \in Profile!Request /\ s.kind = "update" /\ s.t = r.t /\ s.sub = r.sub /\ s.pc = "mails"
      /\ s.todo = todo
  BY <1>1, <1>3 DEF Profile!Request
<1> HIDE DEF s
<1> QED
  BY <1>1, <1>4, <1>5 DEF todo

\* A round writes one member's address, or finds one that is taken and ends the loop.
Rewritten(r, who) ==
  /\ who[1] \in Users /\ MemberIn(row[r.t][who[1]])
  /\ \E y \in Profile!Row, s \in Profile!Request :
       /\ y.name = row[r.t][who[1]].name /\ y.local = who[2] /\ y.domain = r.sub
       /\ row' = [row EXCEPT ![r.t][who[1]] = y]
       /\ strays' = Profile!Traced(r.t, who[1], who[2] = row[r.t][who[1]].name /\ r.sub = tenant[r.t].subdomain)
       /\ s.kind = "update" /\ s.t = r.t /\ s.sub = r.sub /\ s.pc = "mails"
       /\ s.todo = r.todo \ {who} /\ edits' = (edits \ {r}) \cup {s}

GivesUp(r) == edits' = edits \ {r} /\ strays' = strays \cup Profile!GivenUp(r) /\ UNCHANGED <<tenant, row>>

LEMMA MailRewritten ==
  ASSUME ProfileInv, NEW r \in edits, Profile!RewriteMail(r)
  PROVE  /\ r.kind = "update" /\ r.pc = "mails" /\ UNCHANGED tenant
         /\ \/ r.todo = {} /\ edits' = edits \ {r} /\ UNCHANGED <<row, strays>>
            \/ \E who \in r.todo : Rewritten(r, who)
            \/ GivesUp(r)
<1>1. /\ r.kind = "update" /\ r.pc = "mails" /\ UNCHANGED tenant /\ r \in Profile!Request /\ r.t \in Tenants
      /\ r.todo \in SUBSET (Users \X (Names \cup {Profile!NoName})) /\ r.sub \in Subdomains \cup {Profile!NoDomain}
  BY DEF Profile!RewriteMail, Profile!At, ProfileInv, Profile!Request
<1>2. CASE r.todo = {} /\ Profile!Done(r) /\ UNCHANGED <<row, strays>>
  BY <1>1, <1>2 DEF Profile!Done
<1>3. ASSUME NEW who \in r.todo,
             Profile!Member(r.t, who[1]) /\ ~ Profile!MailTaken(r.t, who[1], who[2], r.sub),
             row' = [row EXCEPT ![r.t][who[1]] =
                       [row[r.t][who[1]] EXCEPT !.local = who[2], !.domain = r.sub]],
             strays' = Profile!Traced(r.t, who[1],
                         who[2] = row[r.t][who[1]].name /\ r.sub = tenant[r.t].subdomain),
             Profile!Now(r, [r EXCEPT !.todo = @ \ {who}])
      PROVE  Rewritten(r, who)
  <2>1. who[1] \in Users /\ who[2] \in Names \cup {Profile!NoName}
    BY <1>1
  <2>2. row[r.t][who[1]] \in Profile!Row
    BY <1>1, <2>1 DEF ProfileInv
  <2> DEFINE y == [row[r.t][who[1]] EXCEPT !.local = who[2], !.domain = r.sub]
             s == [r EXCEPT !.todo = @ \ {who}]
  <2>3. y \in Profile!Row /\ y.name = row[r.t][who[1]].name /\ y.local = who[2] /\ y.domain = r.sub
    BY <1>1, <2>1, <2>2 DEF Profile!Row
  <2>4. /\ s \in Profile!Request /\ s.kind = "update" /\ s.t = r.t /\ s.sub = r.sub /\ s.pc = "mails"
        /\ s.todo = r.todo \ {who}
    BY <1>1 DEF Profile!Request
  <2>5. row' = [row EXCEPT ![r.t][who[1]] = y] /\ edits' = (edits \ {r}) \cup {s}
    BY <1>3 DEF Profile!Now
  <2>6. MemberIn(row[r.t][who[1]])
    BY <1>3 DEF Profile!Member, MemberIn
  <2> HIDE DEF y, s
  <2> QED
    BY <1>3, <2>1, <2>3, <2>4, <2>5, <2>6 DEF Rewritten
<1>4. CASE Profile!Done(r) /\ strays' = strays \cup Profile!GivenUp(r) /\ UNCHANGED row
  BY <1>1, <1>4 DEF Profile!Done, GivesUp
<1>5. \/ r.todo = {} /\ Profile!Done(r) /\ UNCHANGED <<row, strays>>
      \/ \E who \in r.todo :
           /\ Profile!Member(r.t, who[1]) /\ ~ Profile!MailTaken(r.t, who[1], who[2], r.sub)
           /\ row' = [row EXCEPT ![r.t][who[1]] =
                        [row[r.t][who[1]] EXCEPT !.local = who[2], !.domain = r.sub]]
           /\ strays' = Profile!Traced(r.t, who[1],
                          who[2] = row[r.t][who[1]].name /\ r.sub = tenant[r.t].subdomain)
           /\ Profile!Now(r, [r EXCEPT !.todo = @ \ {who}])
      \/ Profile!Done(r) /\ strays' = strays \cup Profile!GivenUp(r) /\ UNCHANGED row
  BY Zenon DEF Profile!RewriteMail
<1> QED
  BY <1>1, <1>2, <1>3, <1>4, <1>5

LEMMA SettingsWritten ==
  ASSUME ProfileInv, NEW r \in edits, Profile!SettingsWrite(r)
  PROVE  /\ edits' = edits \ {r} /\ r.kind = "settings" /\ UNCHANGED <<row, strays>>
         /\ \/ UNCHANGED tenant
            \/ \E x \in Profile!Tenant :
                 /\ tenant[r.t].exists /\ x.exists /\ x.subdomain = tenant[r.t].subdomain
                 /\ tenant' = [tenant EXCEPT ![r.t] = x]
<1>1. r \in Profile!Request /\ r.t \in Tenants /\ tenant[r.t] \in Profile!Tenant
  BY DEF ProfileInv, Profile!Request
<1> DEFINE x == [tenant[r.t] EXCEPT !.settings = r.keys]
<1>2. x \in Profile!Tenant /\ x.exists = tenant[r.t].exists /\ x.subdomain = tenant[r.t].subdomain
  BY <1>1 DEF Profile!Tenant, Profile!Request
<1>3. UNCHANGED tenant \/ (tenant[r.t].exists /\ tenant' = [tenant EXCEPT ![r.t] = x])
  BY DEF Profile!SettingsWrite
<1> HIDE DEF x
<1> QED
  BY <1>2, <1>3 DEF Profile!SettingsWrite, Profile!At, Profile!Done

LEMMA FlagSet ==
  ASSUME ProfileInv, NEW t \in Tenants, NEW flag \in BOOLEAN, Profile!SetActive(t, flag) \/ Profile!Trade(t, flag)
  PROVE  /\ UNCHANGED <<row, strays, edits>>
         /\ \E x \in Profile!Tenant :
              /\ tenant[t].exists /\ x.exists /\ x.subdomain = tenant[t].subdomain
              /\ tenant' = [tenant EXCEPT ![t] = x]
<1> DEFINE x == [tenant[t] EXCEPT !.isActive = flag]
           y == [tenant[t] EXCEPT !.trades = flag]
<1>1. tenant[t] \in Profile!Tenant
  BY DEF ProfileInv
<1>2. /\ x \in Profile!Tenant /\ x.exists = tenant[t].exists /\ x.subdomain = tenant[t].subdomain
      /\ y \in Profile!Tenant /\ y.exists = tenant[t].exists /\ y.subdomain = tenant[t].subdomain
  BY <1>1 DEF Profile!Tenant
<1>3. /\ tenant[t].exists /\ UNCHANGED <<row, strays, edits>>
      /\ tenant' = [tenant EXCEPT ![t] = x] \/ tenant' = [tenant EXCEPT ![t] = y]
  BY DEF Profile!SetActive, Profile!Trade
<1> HIDE DEF x, y
<1> QED
  BY <1>2, <1>3

\* A tenant keeps its subdomain when its settings or flags are written.
LEMMA SameSubdomain ==
  ASSUME ProfileInv, NEW t \in Tenants, NEW x \in Profile!Tenant, tenant[t].exists, x.exists,
         x.subdomain = tenant[t].subdomain, tenant' = [tenant EXCEPT ![t] = x]
  PROVE  /\ tenant' \in [Tenants -> Profile!Tenant]
         /\ \A s \in Tenants : tenant'[s].subdomain = tenant[s].subdomain
         /\ NothingLeft(tenant', row)
<1>1. /\ tenant' \in [Tenants -> Profile!Tenant]
      /\ \A s \in Tenants : tenant'[s] = IF s = t THEN x ELSE tenant[s]
  BY TenantSet
<1> QED
  BY <1>1 DEF ProfileInv, NothingLeft

LEMMA NameWrites ==
  ASSUME ProfileInv, NEW r \in edits, Profile!NameWrite(r)
  PROVE  /\ edits' = edits \ {r} /\ r.kind \in {"add", "rename"} /\ UNCHANGED tenant
         /\ \/ UNCHANGED <<row, strays>>
            \/ \E y \in Profile!Row :
                 /\ tenant[r.t].exists /\ y.local = y.name /\ y.domain = r.sub
                 /\ row' = [row EXCEPT ![r.t][r.u] = y]
                 /\ strays' = Profile!Traced(r.t, r.u, r.sub = tenant[r.t].subdomain)
<1>1. r \in Profile!Request /\ r.t \in Tenants /\ r.u \in Users
  BY DEF ProfileInv, Profile!Request
<1> DEFINE y == [name |-> r.name, owner |-> row[r.t][r.u].owner, local |-> r.name, domain |-> r.sub]
<1>2. y \in Profile!Row /\ y.local = y.name /\ y.domain = r.sub
  BY <1>1 DEF ProfileInv, Profile!Row, Profile!Request
<1>3. \/ UNCHANGED <<row, strays>>
      \/ /\ tenant[r.t].exists
         /\ row' = [row EXCEPT ![r.t][r.u] = y]
         /\ strays' = Profile!Traced(r.t, r.u, r.sub = tenant[r.t].subdomain)
  BY DEF Profile!NameWrite
<1> HIDE DEF y
<1> QED
  BY <1>2, <1>3 DEF Profile!NameWrite, Profile!Done

\* Removing a tenant leaves neither it nor its rows.
LEMMA TenantRemoved ==
  ASSUME ProfileInv, NEW r \in edits, Profile!RemoveWrite(r)
  PROVE  /\ edits' = edits \ {r} /\ r.kind = "remove"
         /\ \/ UNCHANGED <<tenant, row, strays>>
            \/ /\ tenant' = [tenant EXCEPT ![r.t] = Profile!Gone]
               /\ row' \in [Tenants -> [Users -> Profile!Row]]
               /\ \A s \in Tenants, v \in Users : row'[s][v] = IF s = r.t THEN Profile!Absent ELSE row[s][v]
               /\ strays' = Profile!Elsewhere(r.t)
BY GoneAndAbsent DEF ProfileInv, Profile!RemoveWrite, Profile!At, Profile!Done

LEMMA StraysTyped ==
  ASSUME ProfileInv, NEW r \in edits
  PROVE  /\ Profile!Elsewhere(r.t) \subseteq Tenants \X Users
         /\ strays \cup Profile!GivenUp(r) \subseteq Tenants \X Users
<1>1. r.t \in Tenants /\ strays \subseteq Tenants \X Users
  BY DEF ProfileInv, Profile!Request
<1>2. Profile!Elsewhere(r.t) \subseteq Tenants \X Users
  BY <1>1 DEF Profile!Elsewhere
<1>3. strays \cup Profile!GivenUp(r) \subseteq Tenants \X Users
  BY <1>1 DEF Profile!GivenUp, Profile!Members
<1> QED
  BY <1>2, <1>3

LEMMA ProfileStep ==
  ASSUME ProfileInv, Profile!Next
  PROVE  ProfileInv'
<1>types. /\ tenant \in [Tenants -> Profile!Tenant] /\ row \in [Tenants -> [Users -> Profile!Row]]
          /\ strays \subseteq Tenants \X Users
          /\ edits \subseteq Profile!Request /\ NothingLeft(tenant, row)
          /\ \A r \in edits : r.t \in Tenants /\ r.u \in Users
  BY DEF ProfileInv, Profile!Request
<1>1. ASSUME EditComes
      PROVE  ProfileInv'
  BY <1>types, <1>1 DEF ProfileInv, EditComes
<1>2. ASSUME NEW t \in Tenants, NEW flag \in BOOLEAN, Profile!SetActive(t, flag) \/ Profile!Trade(t, flag)
      PROVE  ProfileInv'
  <2>1. UNCHANGED <<row, strays, edits>>
    BY <1>2, FlagSet
  <2>2. tenant' \in [Tenants -> Profile!Tenant] /\ NothingLeft(tenant', row)
    BY <1>2, FlagSet, SameSubdomain
  <2> QED
    BY <1>types, <2>1, <2>2 DEF ProfileInv
<1>3. ASSUME NEW r \in edits, Profile!CreateWrite(r)
      PROVE  ProfileInv'
  <2>1. edits' = edits \ {r}
    BY <1>3, CreateWrites
  <2>2. CASE UNCHANGED <<tenant, row, strays>>
    BY <1>types, <2>1, <2>2 DEF ProfileInv
  <2>3. ASSUME NEW x \in Profile!Tenant, NEW y \in Profile!Row, x.exists,
               tenant' = [tenant EXCEPT ![r.t] = x], strays' = Profile!Elsewhere(r.t),
               row' = [row EXCEPT ![r.t] = [v \in Users |-> IF v # r.u THEN Profile!Absent ELSE y]]
        PROVE  ProfileInv'
    <3>1. /\ tenant' \in [Tenants -> Profile!Tenant]
          /\ \A s \in Tenants : tenant'[s] = IF s = r.t THEN x ELSE tenant[s]
      BY <1>types, <2>3, TenantSet
    <3>2. /\ row' \in [Tenants -> [Users -> Profile!Row]]
          /\ \A s \in Tenants, v \in Users : row'[s][v] =
               IF s = r.t THEN IF v # r.u THEN Profile!Absent ELSE y ELSE row[s][v]
      <4>1. r.t \in Tenants
        BY <1>types
      <4> QED
        BY <2>3, <4>1, GoneAndAbsent DEF ProfileInv
    <3>3. NothingLeft(tenant', row')
      BY <1>types, <2>3, <3>1, <3>2 DEF NothingLeft
    <3> QED
      BY <1>types, <2>1, <2>3, <3>1, <3>2, <3>3, StraysTyped DEF ProfileInv
  <2> QED
    BY <1>3, <2>2, <2>3, CreateWrites
<1>4. ASSUME NEW r \in edits, Profile!UpdateWrite(r)
      PROVE  ProfileInv'
  <2>1. UNCHANGED <<row, strays>>
    BY <1>4, UpdateWrites
  <2>2. CASE edits' = edits \ {r} /\ UNCHANGED tenant
    BY <1>types, <2>1, <2>2 DEF ProfileInv
  <2>3. ASSUME NEW x \in Profile!Tenant, NEW s \in Profile!Request, x.exists, tenant[r.t].exists,
               tenant' = [tenant EXCEPT ![r.t] = x], edits' = (edits \ {r}) \cup {s}
        PROVE  ProfileInv'
    <3>1. NothingLeft(tenant', row)
      BY <1>types, <2>3, TenantSet DEF NothingLeft
    <3> QED
      BY <1>types, <2>1, <2>3, <3>1, TenantSet DEF ProfileInv
  <2> QED
    BY <1>4, <2>2, <2>3, UpdateWrites
<1>5. ASSUME NEW r \in edits, Profile!FindMembers(r)
      PROVE  ProfileInv'
  <2>1. PICK s \in Profile!Request : edits' = (edits \ {r}) \cup {s}
    BY <1>5, MembersFound
  <2>2. UNCHANGED <<tenant, row, strays>>
    BY <1>5, MembersFound
  <2> QED
    BY <1>types, <2>1, <2>2 DEF ProfileInv
<1>6. ASSUME NEW r \in edits, GivesUp(r)
      PROVE  ProfileInv'
  BY <1>types, <1>6, StraysTyped DEF ProfileInv, GivesUp
<1>7. ASSUME NEW r \in edits, Profile!RewriteMail(r)
      PROVE  ProfileInv'
  <2>1. UNCHANGED tenant
    BY <1>7, MailRewritten
  <2>2. CASE edits' = edits \ {r} /\ UNCHANGED <<row, strays>>
    BY <1>types, <2>1, <2>2 DEF ProfileInv
  <2>3. ASSUME NEW u \in Users, NEW y \in Profile!Row, NEW s \in Profile!Request,
               row' = [row EXCEPT ![r.t][u] = y], MemberIn(row[r.t][u]), edits' = (edits \ {r}) \cup {s},
               strays' \subseteq strays \cup {<<r.t, u>>}
        PROVE  ProfileInv'
    <3>1. /\ row' \in [Tenants -> [Users -> Profile!Row]]
          /\ \A t \in Tenants, v \in Users : row'[t][v] = IF t = r.t /\ v = u THEN y ELSE row[t][v]
      BY <1>types, <2>3, RowSet
    <3>2. NothingLeft(tenant, row')
      BY <1>types, <2>3, <3>1 DEF NothingLeft
    <3> QED
      BY <1>types, <2>1, <2>3, <3>1, <3>2 DEF ProfileInv
  <2>4. ASSUME NEW who \in r.todo, Rewritten(r, who)
        PROVE  ProfileInv'
    <3>1. strays' \subseteq strays \cup {<<r.t, who[1]>>}
      BY <2>4 DEF Rewritten, Profile!Traced
    <3> QED
      BY <2>3, <2>4, <3>1 DEF Rewritten
  <2> QED
    BY <1>6, <1>7, <2>2, <2>4, MailRewritten
<1>8. ASSUME NEW r \in edits, Profile!SettingsWrite(r)
      PROVE  ProfileInv'
  <2>1. UNCHANGED <<row, strays>> /\ edits' = edits \ {r}
    BY <1>8, SettingsWritten
  <2>2. CASE UNCHANGED tenant
    BY <1>types, <2>1, <2>2 DEF ProfileInv
  <2>3. CASE \E x \in Profile!Tenant :
               /\ tenant[r.t].exists /\ x.exists /\ x.subdomain = tenant[r.t].subdomain
               /\ tenant' = [tenant EXCEPT ![r.t] = x]
    <3>1. tenant' \in [Tenants -> Profile!Tenant] /\ NothingLeft(tenant', row)
      BY <1>types, <2>3, SameSubdomain
    <3> QED
      BY <1>types, <2>1, <3>1 DEF ProfileInv
  <2> QED
    BY <1>8, <2>2, <2>3, SettingsWritten
<1>9. ASSUME NEW r \in edits, Profile!RemoveWrite(r)
      PROVE  ProfileInv'
  <2>1. edits' = edits \ {r}
    BY <1>9, TenantRemoved
  <2>2. CASE UNCHANGED <<tenant, row, strays>>
    BY <1>types, <2>1, <2>2 DEF ProfileInv
  <2>3. CASE /\ tenant' = [tenant EXCEPT ![r.t] = Profile!Gone]
             /\ row' \in [Tenants -> [Users -> Profile!Row]]
             /\ \A s \in Tenants, v \in Users : row'[s][v] = IF s = r.t THEN Profile!Absent ELSE row[s][v]
             /\ strays' = Profile!Elsewhere(r.t)
    <3>1. NothingLeft(tenant', row')
      BY <1>types, <2>3, GoneAndAbsent DEF NothingLeft, MemberIn
    <3> QED
      BY <1>types, <2>1, <2>3, <3>1, GoneAndAbsent, StraysTyped DEF ProfileInv
  <2> QED
    BY <1>9, <2>2, <2>3, TenantRemoved
<1>10. ASSUME NEW r \in edits, Profile!NameWrite(r)
       PROVE  ProfileInv'
  <2>1. UNCHANGED tenant /\ edits' = edits \ {r}
    BY <1>10, NameWrites
  <2>2. CASE UNCHANGED <<row, strays>>
    BY <1>types, <2>1, <2>2 DEF ProfileInv
  <2>3. ASSUME NEW y \in Profile!Row, tenant[r.t].exists, row' = [row EXCEPT ![r.t][r.u] = y],
               strays' = Profile!Traced(r.t, r.u, r.sub = tenant[r.t].subdomain)
        PROVE  ProfileInv'
    <3>1. /\ row' \in [Tenants -> [Users -> Profile!Row]]
          /\ \A s \in Tenants, v \in Users : row'[s][v] = IF s = r.t /\ v = r.u THEN y ELSE row[s][v]
      BY <1>types, <2>3, RowSet
    <3>2. NothingLeft(tenant, row')
      BY <1>types, <2>3, <3>1 DEF NothingLeft
    <3>3. strays' \subseteq Tenants \X Users
      BY <1>types, <2>3 DEF Profile!Traced
    <3> QED
      BY <1>types, <2>1, <3>1, <3>2, <3>3 DEF ProfileInv
  <2> QED
    BY <1>10, <2>2, <2>3, NameWrites
<1>11. ASSUME NEW r \in edits, Profile!Crash(r)
       PROVE  ProfileInv'
  BY <1>6, <1>11 DEF Profile!Crash, Profile!Done, GivesUp
<1>12. ASSUME NEW t \in Tenants, NEW u \in Users, NEW name \in Names,
              \/ \E sub \in Subdomains : Profile!CreateCheck(t, u, name, sub)
              \/ Profile!AddRead(t, u, name) \/ Profile!RenameRead(t, u, name)
       PROVE  ProfileInv'
  BY <1>types, <1>1, <1>12, ReadsName
<1>13. ASSUME NEW t \in Tenants,
              \/ \E sub \in Subdomains : Profile!UpdateCheck(t, sub)
              \/ \E key \in Options : Profile!SettingsRead(t, {key})
              \/ \E u \in Users : Profile!RemoveCheck(t, u)
       PROVE  ProfileInv'
  BY <1>types, <1>1, <1>13, ReadsTenant
<1> QED
  BY <1>2, <1>3, <1>4, <1>5, <1>7, <1>8, <1>9, <1>10, <1>11, <1>12, <1>13
  DEF Profile!Next, Profile!Step

FollowsIn(x, sub) == x.local = x.name /\ x.domain = sub

\* An update of the tenant goes on to write the member's address, at the subdomain there is.
Covered(t, u, tenants, reqs) ==
  \E r \in reqs : r.t = t /\ r.sub = tenants[t].subdomain /\ Profile!Rewrites(r, u)

AddressOf(t, u, tenants, members, lost, reqs) ==
  MemberIn(members[t][u]) =>
    <<t, u>> \in lost \/ FollowsIn(members[t][u], tenants[t].subdomain) \/ Covered(t, u, tenants, reqs)

FollowInv == \A t \in Tenants, u \in Users : AddressOf(t, u, tenant, row, strays, edits)

LEMMA FollowTypes == FollowInv => Profile!EmailsFollow
BY DEF FollowInv, AddressOf, Covered, FollowsIn, MemberIn, Profile!EmailsFollow, Profile!Members,
       Profile!Member, Profile!Follows

LEMMA FollowInit == Profile!Init => FollowInv
<1> SUFFICES ASSUME Profile!Init PROVE FollowInv
  OBVIOUS
<1>1. PICK sub \in Subdomains, name \in Names, old \in BOOLEAN :
        /\ tenant = [t \in Tenants |-> IF t = First THEN FirstTenant(sub, old) ELSE Profile!Gone]
        /\ row = [t \in Tenants |-> [u \in Users |-> FirstRow(t, u, sub, name, old)]]
  BY ProfileStart
<1>2. ASSUME NEW t \in Tenants, NEW u \in Users, MemberIn(row[t][u])
      PROVE  FollowsIn(row[t][u], tenant[t].subdomain)
  <2>1. row[t][u] = FirstRow(t, u, sub, name, old)
    BY <1>1
  <2>2. t = First
    BY <1>2, <2>1, GoneAndAbsent DEF FirstRow, MemberIn
  <2>3. tenant[t].subdomain = IF old THEN Profile!NoDomain ELSE sub
    BY <1>1, <2>2, FirstTypes
  <2>4. /\ row[t][u].local = row[t][u].name
        /\ row[t][u].domain = IF old THEN Profile!NoDomain ELSE sub
    BY <1>2, <2>1, GoneAndAbsent DEF FirstRow, MemberIn
  <2> QED
    BY <2>3, <2>4 DEF FollowsIn
<1> QED
  BY <1>2 DEF FollowInv, AddressOf

LEMMA FollowStays ==
  ASSUME FollowInv, UNCHANGED profileVars
  PROVE  FollowInv'
BY DEF FollowInv, profileVars

\* No address and no subdomain changes, and no request ends that was to write an address.
LEMMA FollowSame ==
  ASSUME FollowInv, UNCHANGED <<row, strays>>,
         \A t \in Tenants : tenant'[t].subdomain = tenant[t].subdomain,
         \A r \in edits, u \in Users : Profile!Rewrites(r, u) => r \in edits'
  PROVE  FollowInv'
<1>1. \A t \in Tenants, u \in Users : Covered(t, u, tenant, edits) => Covered(t, u, tenant', edits')
  BY DEF Covered
<1> QED
  BY <1>1 DEF FollowInv, AddressOf

\* Where nothing changes for a member, its address is as it has to be.
LEMMA FollowElse ==
  ASSUME FollowInv, NEW t \in Tenants, NEW u \in Users,
         row'[t][u] = row[t][u], tenant'[t].subdomain = tenant[t].subdomain,
         <<t, u>> \in strays => <<t, u>> \in strays',
         Covered(t, u, tenant, edits) => Covered(t, u, tenant', edits')
  PROVE  AddressOf(t, u, tenant', row', strays', edits')
BY DEF FollowInv, AddressOf

LEMMA GivenUpEnds ==
  ASSUME ProfileInv, FollowInv, NEW r \in edits, GivesUp(r)
  PROVE  FollowInv'
<1>1. ASSUME NEW t \in Tenants, NEW u \in Users
      PROVE  AddressOf(t, u, tenant', row', strays', edits')
  <2> SUFFICES ASSUME MemberIn(row[t][u]), Covered(t, u, tenant, edits), ~ Covered(t, u, tenant, edits'),
                      ~ FollowsIn(row[t][u], tenant[t].subdomain)
               PROVE  <<t, u>> \in strays'
    BY DEF FollowInv, AddressOf, GivesUp
  <2>1. t = r.t /\ Profile!Rewrites(r, u)
    BY DEF Covered, GivesUp
  <2>2. u \in Profile!Members(r.t) /\ ~ Profile!Follows(r.t, u)
    BY <2>1 DEF Profile!Members, Profile!Member, MemberIn, Profile!Follows, FollowsIn
  <2>3. <<t, u>> \in Profile!GivenUp(r)
    BY <2>1, <2>2 DEF Profile!GivenUp
  <2> QED
    BY <2>3 DEF GivesUp
<1> QED
  BY <1>1 DEF FollowInv

LEMMA FollowStep ==
  ASSUME ProfileInv, FollowInv, Profile!Next
  PROVE  FollowInv'
<1>types. /\ tenant \in [Tenants -> Profile!Tenant] /\ row \in [Tenants -> [Users -> Profile!Row]]
          /\ edits \subseteq Profile!Request
          /\ \A r \in edits : r.t \in Tenants /\ r.u \in Users
  BY DEF ProfileInv, Profile!Request
<1>idle. \A r, u : r.kind # "update" \/ r.pc = "write" => ~ Profile!Rewrites(r, u)
  BY DEF Profile!Rewrites
<1>1. ASSUME EditComes
      PROVE  FollowInv'
  <2>1. UNCHANGED <<tenant, row, strays>> /\ edits \subseteq edits'
    BY <1>1 DEF EditComes
  <2> QED
    BY <2>1, FollowSame
<1>2. ASSUME NEW t \in Tenants, NEW flag \in BOOLEAN, Profile!SetActive(t, flag) \/ Profile!Trade(t, flag)
      PROVE  FollowInv'
  <2>1. UNCHANGED <<row, strays, edits>>
    BY <1>2, FlagSet
  <2>2. \A s \in Tenants : tenant'[s].subdomain = tenant[s].subdomain
    BY <1>2, FlagSet, SameSubdomain
  <2> QED
    BY <2>1, <2>2, FollowSame
<1>3. ASSUME NEW r \in edits, Profile!CreateWrite(r)
      PROVE  FollowInv'
  <2>1. edits' = edits \ {r} /\ \A u : ~ Profile!Rewrites(r, u)
    BY <1>3, <1>idle, CreateWrites
  <2>2. CASE UNCHANGED <<tenant, row, strays>>
    BY <2>1, <2>2, FollowSame
  <2>3. ASSUME NEW x \in Profile!Tenant, NEW y \in Profile!Row,
               x.subdomain = r.sub, y.domain = r.sub, y.local = y.name,
               tenant' = [tenant EXCEPT ![r.t] = x], strays' = Profile!Elsewhere(r.t),
               row' = [row EXCEPT ![r.t] = [v \in Users |-> IF v # r.u THEN Profile!Absent ELSE y]]
        PROVE  FollowInv'
    <3>1. \A s \in Tenants : tenant'[s] = IF s = r.t THEN x ELSE tenant[s]
      BY <1>types, <2>3, TenantSet
    <3>2. \A s \in Tenants, v \in Users : row'[s][v] =
            IF s = r.t THEN IF v # r.u THEN Profile!Absent ELSE y ELSE row[s][v]
      BY <1>types, <2>3, RowsSet
    <3>3. ASSUME NEW t \in Tenants, NEW u \in Users
          PROVE  AddressOf(t, u, tenant', row', strays', edits')
      <4>1. CASE t = r.t
        BY <2>3, <3>1, <3>2, <4>1, GoneAndAbsent DEF AddressOf, MemberIn, FollowsIn
      <4>2. CASE t # r.t
        <5>1. row'[t][u] = row[t][u] /\ tenant'[t] = tenant[t]
          BY <3>1, <3>2, <4>2
        <5>2. <<t, u>> \in strays => <<t, u>> \in strays'
          BY <2>3, <4>2 DEF Profile!Elsewhere
        <5>3. Covered(t, u, tenant, edits) => Covered(t, u, tenant', edits')
          BY <2>1, <5>1 DEF Covered
        <5> QED
          BY <5>1, <5>2, <5>3, FollowElse
      <4> QED
        BY <4>1, <4>2
    <3> QED
      BY <3>3 DEF FollowInv
  <2> QED
    BY <1>3, <2>2, <2>3, CreateWrites
<1>4. ASSUME NEW r \in edits, Profile!UpdateWrite(r)
      PROVE  FollowInv'
  <2>1. UNCHANGED <<row, strays>> /\ \A u : ~ Profile!Rewrites(r, u)
    BY <1>4, <1>idle, UpdateWrites
  <2>2. CASE edits' = edits \ {r} /\ UNCHANGED tenant
    BY <2>1, <2>2, FollowSame
  <2>3. ASSUME NEW x \in Profile!Tenant, NEW s \in Profile!Request, x.subdomain = r.sub,
               tenant' = [tenant EXCEPT ![r.t] = x], edits' = (edits \ {r}) \cup {s},
               s.kind = "update", s.t = r.t, s.sub = r.sub, s.pc = "find"
        PROVE  FollowInv'
    <3>1. \A t \in Tenants : tenant'[t] = IF t = r.t THEN x ELSE tenant[t]
      BY <1>types, <2>3, TenantSet
    <3>2. ASSUME NEW t \in Tenants, NEW u \in Users
          PROVE  AddressOf(t, u, tenant', row', strays', edits')
      <4>1. CASE t = r.t
        <5>1. Profile!Rewrites(s, u) /\ s \in edits' /\ s.sub = tenant'[t].subdomain
          BY <2>3, <3>1, <4>1 DEF Profile!Rewrites
        <5> QED
          BY <2>3, <4>1, <5>1 DEF AddressOf, Covered
      <4>2. CASE t # r.t
        <5>1. Covered(t, u, tenant, edits) => Covered(t, u, tenant', edits')
          BY <2>3, <3>1, <4>2 DEF Covered
        <5> QED
          BY <2>1, <3>1, <4>2, <5>1, FollowElse
      <4> QED
        BY <4>1, <4>2
    <3> QED
      BY <3>2 DEF FollowInv
  <2> QED
    BY <1>4, <2>2, <2>3, UpdateWrites
<1>5. ASSUME NEW r \in edits, Profile!FindMembers(r)
      PROVE  FollowInv'
  <2>1. UNCHANGED <<tenant, row, strays>>
    BY <1>5, MembersFound
  <2>2. PICK s \in Profile!Request :
          /\ s.kind = "update" /\ s.t = r.t /\ s.sub = r.sub /\ s.pc = "mails"
          /\ s.todo = {<<u, row[r.t][u].name>> : u \in Profile!Members(r.t)}
          /\ edits' = (edits \ {r}) \cup {s}
    BY <1>5, MembersFound
  <2>3. ASSUME NEW u \in Users, MemberIn(row[r.t][u])
        PROVE  Profile!Rewrites(s, u)
    <3>1. <<u, row[r.t][u].name>> \in s.todo
      BY <2>2, <2>3 DEF Profile!Members, Profile!Member, MemberIn
    <3>2. <<u, row[r.t][u].name>>[1] = u
      OBVIOUS
    <3> QED
      BY <2>2, <3>1, <3>2 DEF Profile!Rewrites
  <2>4. ASSUME NEW t \in Tenants, NEW u \in Users, MemberIn(row[t][u]), Covered(t, u, tenant, edits)
        PROVE  Covered(t, u, tenant, edits')
    BY <2>2, <2>3, <2>4 DEF Covered
  <2> QED
    BY <2>1, <2>4 DEF FollowInv, AddressOf
<1>6. ASSUME NEW r \in edits, Profile!RewriteMail(r)
      PROVE  FollowInv'
  <2>1. UNCHANGED tenant /\ r.kind = "update" /\ r.pc = "mails"
    BY <1>6, MailRewritten
  <2>2. CASE r.todo = {} /\ edits' = edits \ {r} /\ UNCHANGED <<row, strays>>
    <3>1. \A u : ~ Profile!Rewrites(r, u)
      BY <2>1, <2>2 DEF Profile!Rewrites
    <3> QED
      BY <2>1, <2>2, <3>1, FollowSame
  <2>3. ASSUME NEW who \in r.todo, Rewritten(r, who)
        PROVE  FollowInv'
    <3> DEFINE u == who[1]
    <3>1. /\ u \in Users
          /\ strays' = Profile!Traced(r.t, u, who[2] = row[r.t][u].name /\ r.sub = tenant[r.t].subdomain)
      BY <2>3 DEF Rewritten
    <3>2. PICK y \in Profile!Row, s \in Profile!Request :
            /\ y.name = row[r.t][u].name /\ y.local = who[2] /\ y.domain = r.sub
            /\ row' = [row EXCEPT ![r.t][u] = y]
            /\ s.kind = "update" /\ s.t = r.t /\ s.sub = r.sub /\ s.pc = "mails"
            /\ s.todo = r.todo \ {who} /\ edits' = (edits \ {r}) \cup {s}
      BY <2>3 DEF Rewritten
    <3>3. \A t \in Tenants, v \in Users : row'[t][v] = IF t = r.t /\ v = u THEN y ELSE row[t][v]
      BY <1>types, <3>1, <3>2, RowSet
    <3>4. ASSUME NEW t \in Tenants, NEW v \in Users
          PROVE  AddressOf(t, v, tenant', row', strays', edits')
      <4>1. CASE t = r.t /\ v = u
        <5>1. CASE who[2] = row[r.t][u].name /\ r.sub = tenant[r.t].subdomain
          BY <2>1, <3>2, <3>3, <4>1, <5>1 DEF AddressOf, FollowsIn
        <5>2. CASE ~ (who[2] = row[r.t][u].name /\ r.sub = tenant[r.t].subdomain)
          BY <3>1, <4>1, <5>2 DEF AddressOf, Profile!Traced
        <5> QED
          BY <5>1, <5>2
      <4>2. CASE ~ (t = r.t /\ v = u)
        <5>1. <<t, v>> \in strays => <<t, v>> \in strays'
          BY <3>1, <4>2 DEF Profile!Traced
        <5>2. Covered(t, v, tenant, edits) => Covered(t, v, tenant, edits')
          <6> SUFFICES ASSUME Covered(t, v, tenant, {r}) PROVE Covered(t, v, tenant, edits')
            BY <3>2 DEF Covered
          <6>1. t = r.t /\ r.sub = tenant[t].subdomain /\ v # u /\ Profile!Rewrites(r, v)
            BY <4>2 DEF Covered
          <6>2. Profile!Rewrites(s, v)
            BY <2>1, <3>2, <6>1 DEF Profile!Rewrites
          <6> QED
            BY <3>2, <6>1, <6>2 DEF Covered
        <5> QED
          BY <2>1, <3>3, <4>2, <5>1, <5>2, FollowElse
      <4> QED
        BY <4>1, <4>2
    <3> QED
      BY <3>4 DEF FollowInv
  <2> QED
    BY <1>6, <2>2, <2>3, MailRewritten, GivenUpEnds
<1>7. ASSUME NEW r \in edits, Profile!SettingsWrite(r)
      PROVE  FollowInv'
  <2>1. UNCHANGED <<row, strays>> /\ edits' = edits \ {r} /\ \A u : ~ Profile!Rewrites(r, u)
    BY <1>7, <1>idle, SettingsWritten
  <2>2. \A s \in Tenants : tenant'[s].subdomain = tenant[s].subdomain
    BY <1>7, <1>types, SettingsWritten, SameSubdomain
  <2> QED
    BY <2>1, <2>2, FollowSame
<1>8. ASSUME NEW r \in edits, Profile!RemoveWrite(r)
      PROVE  FollowInv'
  <2>1. edits' = edits \ {r} /\ \A u : ~ Profile!Rewrites(r, u)
    BY <1>8, <1>idle, TenantRemoved
  <2>2. CASE UNCHANGED <<tenant, row, strays>>
    BY <2>1, <2>2, FollowSame
  <2>3. CASE /\ tenant' = [tenant EXCEPT ![r.t] = Profile!Gone]
             /\ \A s \in Tenants, v \in Users : row'[s][v] = IF s = r.t THEN Profile!Absent ELSE row[s][v]
             /\ strays' = Profile!Elsewhere(r.t)
    <3>1. ASSUME NEW t \in Tenants, NEW u \in Users
          PROVE  AddressOf(t, u, tenant', row', strays', edits')
      <4>1. CASE t = r.t
        BY <2>3, <4>1, GoneAndAbsent DEF AddressOf, MemberIn
      <4>2. CASE t # r.t
        <5>1. row'[t][u] = row[t][u] /\ tenant'[t] = tenant[t]
          BY <1>types, <2>3, <4>2
        <5>2. <<t, u>> \in strays => <<t, u>> \in strays'
          BY <2>3, <4>2 DEF Profile!Elsewhere
        <5>3. Covered(t, u, tenant, edits) => Covered(t, u, tenant', edits')
          BY <2>1, <5>1 DEF Covered
        <5> QED
          BY <5>1, <5>2, <5>3, FollowElse
      <4> QED
        BY <4>1, <4>2
    <3> QED
      BY <3>1 DEF FollowInv
  <2> QED
    BY <1>8, <2>2, <2>3, TenantRemoved
<1>9. ASSUME NEW r \in edits, Profile!NameWrite(r)
      PROVE  FollowInv'
  <2>1. UNCHANGED tenant /\ edits' = edits \ {r} /\ \A u : ~ Profile!Rewrites(r, u)
    BY <1>9, <1>idle, NameWrites
  <2>2. CASE UNCHANGED <<row, strays>>
    BY <2>1, <2>2, FollowSame
  <2>3. ASSUME NEW y \in Profile!Row, y.local = y.name, y.domain = r.sub,
               row' = [row EXCEPT ![r.t][r.u] = y],
               strays' = Profile!Traced(r.t, r.u, r.sub = tenant[r.t].subdomain)
        PROVE  FollowInv'
    <3>1. \A t \in Tenants, v \in Users : row'[t][v] = IF t = r.t /\ v = r.u THEN y ELSE row[t][v]
      BY <1>types, <2>3, RowSet
    <3>2. ASSUME NEW t \in Tenants, NEW v \in Users
          PROVE  AddressOf(t, v, tenant', row', strays', edits')
      <4>1. CASE t = r.t /\ v = r.u
        <5>1. CASE r.sub = tenant[r.t].subdomain
          BY <2>1, <2>3, <3>1, <4>1, <5>1 DEF AddressOf, FollowsIn
        <5>2. CASE ~ (r.sub = tenant[r.t].subdomain)
          BY <2>3, <4>1, <5>2 DEF AddressOf, Profile!Traced
        <5> QED
          BY <5>1, <5>2
      <4>2. CASE ~ (t = r.t /\ v = r.u)
        <5>1. <<t, v>> \in strays => <<t, v>> \in strays'
          BY <2>3, <4>2 DEF Profile!Traced
        <5>2. Covered(t, v, tenant, edits) => Covered(t, v, tenant, edits')
          BY <2>1 DEF Covered
        <5> QED
          BY <2>1, <3>1, <4>2, <5>1, <5>2, FollowElse
      <4> QED
        BY <4>1, <4>2
    <3> QED
      BY <3>2 DEF FollowInv
  <2> QED
    BY <1>9, <2>2, <2>3, NameWrites
<1>10. ASSUME NEW r \in edits, Profile!Crash(r)
       PROVE  FollowInv'
  <2>1. GivesUp(r)
    BY <1>10 DEF Profile!Crash, Profile!Done, GivesUp
  <2> QED
    BY <2>1, GivenUpEnds
<1>11. ASSUME NEW t \in Tenants, NEW u \in Users, NEW name \in Names,
              \/ \E sub \in Subdomains : Profile!CreateCheck(t, u, name, sub)
              \/ Profile!AddRead(t, u, name) \/ Profile!RenameRead(t, u, name)
       PROVE  FollowInv'
  BY <1>types, <1>1, <1>11, ReadsName
<1>12. ASSUME NEW t \in Tenants,
              \/ \E sub \in Subdomains : Profile!UpdateCheck(t, sub)
              \/ \E key \in Options : Profile!SettingsRead(t, {key})
              \/ \E u \in Users : Profile!RemoveCheck(t, u)
       PROVE  FollowInv'
  BY <1>types, <1>1, <1>12, ReadsTenant
<1> QED
  BY <1>2, <1>3, <1>4, <1>5, <1>6, <1>7, <1>8, <1>9, <1>10, <1>11, <1>12 DEF Profile!Next, Profile!Step


-----------------------------------------------------------------------------
(* The buyers and what is done about them *)

Nobody == Records!None

\* Tasks are about buyers there are and for members of their tenant.
TasksInv(todo, people, clients) ==
  \A k \in Tasks :
    /\ todo[k].buyer # Nobody => clients[todo[k].buyer].of # Nobody
    /\ todo[k].of # Nobody => todo[k].for \in Staff /\ people[todo[k].for].of = todo[k].of

NotesInv(noted, clients) ==
  \A n \in Notes : noted[n].buyer # Nobody => clients[noted[n].buyer].of # Nobody

MailsInv(sent, clients) ==
  \A e \in Mails : sent[e].of # Nobody =>
    sent[e].buyer # Nobody /\ clients[sent[e].buyer].of = sent[e].of

\* A request still tells the truth about what it has read: the member is one of its
\* tenant; a task to be created is not there, one to be updated is its tenant's or gone; the
\* buyer is of its tenant or gone.
JobOf(q, todo, people, clients) ==
  /\ q.kind \in {"task", "retask"} => q.id \in Tasks /\ (q.who # Nobody => people[q.who].of = q.t)
  /\ q.kind = "task" => q.who # Nobody /\ q.status \in Records!Progress /\ todo[q.id].of = Nobody
  /\ q.kind = "retask" => todo[q.id].of \in {Nobody, q.t}
  /\ q.kind \in {"mail", "open", "click"} => q.id \in Mails
  /\ q.kind \in {"open", "click"} => q.count = 0
  /\ q.kind = "mail" => q.buyer # Nobody /\ clients[q.buyer].of \in {Nobody, q.t}

\* Nothing else is asked about a task that is being created.
Asks(p, k)  == p.kind \in {"task", "retask"} /\ p.id = k
JobsApart(some) == \A p, q \in some : p.kind = "task" /\ Asks(q, p.id) => p = q

RecordsInv ==
  /\ staff \in [Staff -> Records!Member] /\ buyer \in [Buyers -> Records!Buyer]
  /\ task \in [Tasks -> Records!Task] /\ note \in [Notes -> Records!Note]
  /\ mail \in [Mails -> Records!Mail]
  /\ jobs \subseteq Records!Request /\ JobsApart(jobs)
  /\ TasksInv(task, staff, buyer) /\ NotesInv(note, buyer) /\ MailsInv(mail, buyer)
  /\ \A q \in jobs : JobOf(q, task, staff, buyer)

LEMMA RecordsTypes ==
  RecordsInv => Records!TypeOK /\ Records!RecordsStayHome
BY DEF RecordsInv, TasksInv, NotesInv, MailsInv, Nobody, Records!TypeOK, Records!Exists,
       Records!RecordsStayHome

LEMMA RecordsInit == Records!Init => RecordsInv
<1> SUFFICES ASSUME Records!Init PROVE RecordsInv
  OBVIOUS
<1>1. staff \in [Staff -> Records!Member]
  BY DEF Records!Init, Records!Member
<1>2. /\ buyer \in [Buyers -> Records!Buyer] /\ task \in [Tasks -> Records!Task]
      /\ note \in [Notes -> Records!Note] /\ mail \in [Mails -> Records!Mail]
  BY DEF Records!Init, Records!NoBuyer, Records!NoTask, Records!NoNote, Records!NoMail, Records!Buyer,
         Records!Task, Records!Note, Records!Mail, Records!Progress
<1>3. jobs = {} /\ TasksInv(task, staff, buyer)
  BY DEF Records!Init, Records!NoTask, TasksInv, Nobody
<1>4. NotesInv(note, buyer) /\ MailsInv(mail, buyer)
  BY DEF Records!Init, Records!NoNote, Records!NoMail, NotesInv, MailsInv, Nobody
<1> QED
  BY <1>1, <1>2, <1>3, <1>4 DEF RecordsInv, JobsApart

LEMMA RecordsStay == RecordsInv /\ UNCHANGED <<staff, buyer, task, note, mail, jobs>> => RecordsInv'
BY DEF RecordsInv

LEMMA Nobodies ==
  /\ Nobody \notin Tenants /\ Nobody \notin Staff /\ Nobody \notin Buyers
  /\ Records!None = Nobody
BY RecordsAssumption, CatalogAssumption DEF Nobody, Records!None

\* The request that has begun may write what it is about.
LEMMA JobBegun ==
  ASSUME RecordsInv, NEW q \in Records!Request, JobOf(q, task, staff, buyer), jobs' = jobs \cup {q},
         \A p \in jobs : p.kind = "task" \/ q.kind = "task" => ~ (Asks(p, q.id) /\ Asks(q, p.id)),
         UNCHANGED <<staff, buyer, task, note, mail>>
  PROVE  RecordsInv'
<1>1. JobsApart(jobs')
  BY DEF RecordsInv, JobsApart, Asks
<1>2. \A p \in jobs' : JobOf(p, task, staff, buyer)
  BY DEF RecordsInv
<1> QED
  BY <1>1, <1>2 DEF RecordsInv

\* A request ends.
LEMMA JobEnds ==
  ASSUME RecordsInv, NEW q \in jobs, Records!Done(q)
  PROVE  jobs' = jobs \ {q} /\ JobsApart(jobs')
BY DEF RecordsInv, Records!Done, JobsApart

LEMMA BuyersStep ==
  ASSUME RecordsInv, NEW t \in Tenants, NEW b \in Buyers, NEW s \in Staff \cup {Nobody},
         Records!CreateBuyer(t, b, s) \/ Records!UpdateBuyer(t, b, s)
  PROVE  RecordsInv'
<1>types. /\ staff \in [Staff -> Records!Member] /\ buyer \in [Buyers -> Records!Buyer]
          /\ task \in [Tasks -> Records!Task] /\ note \in [Notes -> Records!Note]
          /\ mail \in [Mails -> Records!Mail]
          /\ jobs \subseteq Records!Request /\ JobsApart(jobs)
          /\ \A c \in Buyers : buyer[c].of \in Tenants \cup {Nobody}
  BY DEF RecordsInv, Records!Buyer, Nobody
<1>1. CASE Records!CreateBuyer(t, b, s)
  <2> DEFINE x == [of |-> t, seller |-> s]
  <2>1. x \in Records!Buyer /\ x.of = t /\ t # Nobody
    BY Nobodies DEF Records!Buyer
  <2>2. buyer' = [buyer EXCEPT ![b] = x] /\ UNCHANGED <<staff, task, note, mail, jobs>>
    BY <1>1 DEF Records!CreateBuyer
  <2>3. buyer[b].of = Nobody /\ \A q \in jobs : q.buyer # b
    BY <1>1, Nobodies DEF Records!CreateBuyer, Records!Exists, Records!Fresh
  <2> HIDE DEF x
  <2>4. buyer' \in [Buyers -> Records!Buyer] /\ \A c \in Buyers : buyer'[c].of = IF c = b THEN t ELSE buyer[c].of
    BY <1>types, <2>1, <2>2
  <2>5. TasksInv(task, staff, buyer')
    BY <1>types, <2>1, <2>4 DEF RecordsInv, TasksInv, Records!Task, Nobody
  <2>6. NotesInv(note, buyer')
    BY <1>types, <2>1, <2>4 DEF RecordsInv, NotesInv, Records!Note, Nobody
  <2>7. MailsInv(mail, buyer')
    BY <1>types, <2>3, <2>4 DEF RecordsInv, MailsInv, Records!Mail, Nobody
  <2>8. \A q \in jobs : JobOf(q, task, staff, buyer')
    BY <1>types, <2>3, <2>4 DEF RecordsInv, JobOf, Records!Request, Nobody
  <2> QED
    BY <1>types, <2>2, <2>4, <2>5, <2>6, <2>7, <2>8 DEF RecordsInv
<1>2. CASE Records!UpdateBuyer(t, b, s)
  <2>1. buyer' = [buyer EXCEPT ![b].seller = s] /\ UNCHANGED <<staff, task, note, mail, jobs>>
    BY <1>2 DEF Records!UpdateBuyer
  <2>2. buyer' \in [Buyers -> Records!Buyer] /\ \A c \in Buyers : buyer'[c].of = buyer[c].of
    BY <1>types, <2>1 DEF Records!Buyer, Nobody
  <2>3. TasksInv(task, staff, buyer')
    BY <1>types, <2>2 DEF RecordsInv, TasksInv, Records!Task, Nobody
  <2>4. NotesInv(note, buyer')
    BY <1>types, <2>2 DEF RecordsInv, NotesInv, Records!Note, Nobody
  <2>5. MailsInv(mail, buyer')
    BY <1>types, <2>2 DEF RecordsInv, MailsInv, Records!Mail, Nobody
  <2>6. \A q \in jobs : JobOf(q, task, staff, buyer')
    BY <1>types, <2>2 DEF RecordsInv, JobOf, Records!Request, Nobody
  <2> QED
    BY <1>types, <2>1, <2>2, <2>3, <2>4, <2>5, <2>6 DEF RecordsInv
<1> QED
  BY <1>1, <1>2

LEMMA BuyerRemoved ==
  ASSUME RecordsInv, NEW t \in Tenants, NEW b \in Buyers,
         Records!RemoveBuyer(t, b)
  PROVE  RecordsInv'
<1>types. /\ staff \in [Staff -> Records!Member] /\ buyer \in [Buyers -> Records!Buyer]
          /\ task \in [Tasks -> Records!Task] /\ note \in [Notes -> Records!Note]
          /\ mail \in [Mails -> Records!Mail]
          /\ jobs \subseteq Records!Request /\ JobsApart(jobs)
          /\ \A c \in Buyers : buyer[c].of \in Tenants \cup {Nobody}
  BY DEF RecordsInv, Records!Buyer, Nobody
<1>1. UNCHANGED <<staff, jobs>> /\ b # Nobody
  BY Nobodies DEF Records!RemoveBuyer
<1>2. /\ buyer' \in [Buyers -> Records!Buyer]
      /\ \A c \in Buyers : buyer'[c].of = IF c = b THEN Nobody ELSE buyer[c].of
  BY <1>types DEF Records!RemoveBuyer, Records!NoBuyer, Records!Buyer, Nobody
<1>3. task' = [k \in Tasks |-> IF task[k].buyer = b THEN [task[k] EXCEPT !.buyer = Nobody] ELSE task[k]]
  BY DEF Records!RemoveBuyer, Nobody
<1>4. /\ task' \in [Tasks -> Records!Task]
      /\ \A k \in Tasks : /\ task'[k].buyer = IF task[k].buyer = b THEN Nobody ELSE task[k].buyer
                          /\ task'[k].of = task[k].of /\ task'[k].for = task[k].for
                          /\ task'[k].status = task[k].status /\ task'[k].completedAt = task[k].completedAt
  <2> SUFFICES ASSUME NEW k \in Tasks
               PROVE  /\ task'[k] \in Records!Task
                      /\ task'[k].buyer = IF task[k].buyer = b THEN Nobody ELSE task[k].buyer
                      /\ task'[k].of = task[k].of /\ task'[k].for = task[k].for
                      /\ task'[k].status = task[k].status /\ task'[k].completedAt = task[k].completedAt
    BY <1>3
  <2> QED
    BY <1>types, <1>3 DEF Records!Task, Nobody
<1>5. note' = [n \in Notes |-> IF note[n].buyer = b THEN [note[n] EXCEPT !.buyer = Nobody] ELSE note[n]]
  BY DEF Records!RemoveBuyer, Nobody
<1>6. /\ note' \in [Notes -> Records!Note]
      /\ \A n \in Notes : note'[n].buyer = IF note[n].buyer = b THEN Nobody ELSE note[n].buyer
  BY <1>types, <1>5 DEF Records!Note, Nobody
<1>7. mail' = [e \in Mails |-> IF mail[e].buyer = b THEN Records!NoMail ELSE mail[e]]
  BY DEF Records!RemoveBuyer
<1>8. /\ mail' \in [Mails -> Records!Mail]
      /\ \A e \in Mails : IF mail[e].buyer = b THEN mail'[e].of = Nobody ELSE mail'[e] = mail[e]
  BY <1>types, <1>7 DEF Records!NoMail, Records!Mail, Nobody
<1>9. TasksInv(task', staff, buyer')
  BY <1>types, <1>2, <1>4 DEF RecordsInv, TasksInv, Records!Task, Nobody
<1>10. NotesInv(note', buyer')
  BY <1>types, <1>2, <1>6 DEF RecordsInv, NotesInv, Records!Note, Nobody
<1>11. MailsInv(mail', buyer')
  BY <1>types, <1>2, <1>8 DEF RecordsInv, MailsInv, Records!Mail, Nobody
<1>12. \A q \in jobs : JobOf(q, task', staff, buyer')
  BY <1>types, <1>2, <1>4 DEF RecordsInv, JobOf, Records!Request, Nobody
<1> QED
  BY <1>types, <1>1, <1>2, <1>4, <1>6, <1>8, <1>9, <1>10, <1>11, <1>12 DEF RecordsInv

\* A request before it has its place.
Asked == [place : {0}, kind : {"task", "retask", "mail", "open", "click"},
          t : Tenants, id : Tasks \cup Mails, who : Staff \cup {Nobody},
          buyer : Buyers \cup {Nobody}, status : Records!Progress \cup {Nobody}, was : BOOLEAN,
          count : 0 .. 1]

LEMMA BlankAsked ==
  ASSUME NEW kind \in {"task", "retask", "mail", "open", "click"}, NEW t \in Tenants,
         NEW i \in Tasks \cup Mails
  PROVE  LET b == Records!Blank(kind, t, i)
         IN  b \in Asked /\ b.kind = kind /\ b.t = t /\ b.id = i
BY DEF Asked, Records!Blank, Records!Progress, Nobody

LEMMA Placed ==
  ASSUME NEW q \in Asked, NEW p \in 1 .. InFlight
  PROVE  LET x == [q EXCEPT !.place = p]
         IN  /\ x \in Records!Request /\ x.kind = q.kind /\ x.t = q.t /\ x.id = q.id
             /\ x.who = q.who /\ x.buyer = q.buyer /\ x.status = q.status /\ x.was = q.was /\ x.count = q.count
BY DEF Asked, Records!Request, Nobody

LEMMA AskedBegins ==
  ASSUME RecordsInv, NEW q \in Asked, Records!Begin(q), JobOf(q, task, staff, buyer),
         \A p \in jobs : p.kind = "task" \/ q.kind = "task" => ~ (Asks(p, q.id) /\ Asks(q, p.id))
  PROVE  RecordsInv'
<1>0. PICK place \in 1 .. InFlight : jobs' = jobs \cup {[q EXCEPT !.place = place]}
  BY DEF Records!Begin
<1> DEFINE x == [q EXCEPT !.place = place]
<1>1. /\ x \in Records!Request /\ x.kind = q.kind /\ x.t = q.t /\ x.id = q.id
      /\ x.who = q.who /\ x.buyer = q.buyer /\ x.status = q.status /\ x.was = q.was /\ x.count = q.count
  BY Placed
<1>2. jobs' = jobs \cup {x} /\ UNCHANGED <<staff, buyer, task, note, mail>>
  BY <1>0 DEF Records!Begin
<1> HIDE DEF x
<1>3. JobOf(x, task, staff, buyer)
  BY <1>1 DEF JobOf
<1>4. \A p \in jobs : p.kind = "task" \/ x.kind = "task" => ~ (Asks(p, x.id) /\ Asks(x, p.id))
  BY <1>1 DEF Asks
<1> QED
  BY <1>1, <1>2, <1>3, <1>4, JobBegun

LEMMA TaskBegins ==
  ASSUME RecordsInv, NEW t \in Tenants, NEW k \in Tasks, NEW s \in Staff, NEW b \in Buyers \cup {Nobody},
         NEW status \in Records!Progress,
         Records!CreateTaskCheck(t, k, s, b, status)
  PROVE  RecordsInv'
<1> DEFINE o == Records!Blank("task", t, k)
           q == [o EXCEPT !.who = s, !.buyer = b, !.status = status]
<1>1. /\ Records!Begin(q) /\ staff[s].of = t /\ task[k].of = Nobody
      /\ \A p \in jobs : p.id # k
  BY DEF Records!CreateTaskCheck, Records!Active, Records!Fresh, Nobody
<1>2. o \in Asked /\ o.kind = "task" /\ o.t = t /\ o.id = k
  BY BlankAsked
<1> HIDE DEF o
<1>3. q \in Asked /\ q.kind = "task" /\ q.t = t /\ q.id = k /\ q.who = s /\ q.status = status
  BY <1>2 DEF Asked, Nobody
<1> HIDE DEF q
<1>4. JobOf(q, task, staff, buyer)
  BY <1>1, <1>3, Nobodies DEF JobOf
<1>5. \A p \in jobs : ~ Asks(p, q.id)
  BY <1>1, <1>3 DEF Asks
<1> QED
  BY <1>1, <1>3, <1>4, <1>5, AskedBegins

LEMMA RetaskBegins ==
  ASSUME RecordsInv, NEW t \in Tenants, NEW k \in Tasks, NEW s \in Staff \cup {Nobody},
         NEW status \in Records!Progress \cup {Nobody},
         Records!UpdateTaskRead(t, k, s, status)
  PROVE  RecordsInv'
<1> DEFINE o == Records!Blank("retask", t, k)
           done == task[k].status = "completed"
           q == [o EXCEPT !.who = s, !.status = status, !.was = done]
<1>1. Records!Begin(q) /\ task[k].of = t /\ (s # Nobody => staff[s].of = t)
  BY Nobodies DEF Records!UpdateTaskRead, Records!Active
<1>2. o \in Asked /\ o.kind = "retask" /\ o.t = t /\ o.id = k
  BY BlankAsked
<1> HIDE DEF o
<1>3. q \in Asked /\ q.kind = "retask" /\ q.t = t /\ q.id = k /\ q.who = s /\ q.was = done
  BY <1>2 DEF Asked, Nobody
<1> HIDE DEF q
<1>4. JobOf(q, task, staff, buyer)
  BY <1>1, <1>3, Nobodies DEF JobOf
<1>5. \A p \in jobs : p.kind = "task" => ~ Asks(p, q.id)
  BY <1>1, <1>3, Nobodies DEF Asks, RecordsInv, JobOf
<1> QED
  BY <1>1, <1>3, <1>4, <1>5, AskedBegins

LEMMA MailBegins ==
  ASSUME RecordsInv, NEW t \in Tenants, NEW e \in Mails, NEW b \in Buyers,
         Records!CreateMailCheck(t, e, b)
  PROVE  RecordsInv'
<1> DEFINE o == Records!Blank("mail", t, e)
           q == [o EXCEPT !.buyer = b]
<1>1. Records!Begin(q) /\ buyer[b].of = t /\ b # Nobody
  BY Nobodies DEF Records!CreateMailCheck
<1>2. o \in Asked /\ o.kind = "mail" /\ o.t = t /\ o.id = e
  BY BlankAsked
<1> HIDE DEF o
<1>3. q \in Asked /\ q.kind = "mail" /\ q.t = t /\ q.id = e /\ q.buyer = b
  BY <1>2 DEF Asked, Nobody
<1> HIDE DEF q
<1>4. JobOf(q, task, staff, buyer)
  BY <1>1, <1>3, Nobodies DEF JobOf
<1>5. \A p \in jobs : ~ Asks(q, p.id) /\ q.kind # "task"
  BY <1>3 DEF Asks
<1> QED
  BY <1>1, <1>3, <1>4, <1>5, AskedBegins

LEMMA ReadBegins ==
  ASSUME RecordsInv, NEW t \in Tenants, NEW e \in Mails,
         Records!OpenRead(t, e) \/ Records!ClickRead(t, e)
  PROVE  RecordsInv'
<1>types. /\ staff \in [Staff -> Records!Member] /\ buyer \in [Buyers -> Records!Buyer]
          /\ task \in [Tasks -> Records!Task] /\ note \in [Notes -> Records!Note]
          /\ mail \in [Mails -> Records!Mail]
          /\ jobs \subseteq Records!Request /\ JobsApart(jobs)
  BY DEF RecordsInv
<1>1. CASE Records!OpenRead(t, e)
  <2> DEFINE o == Records!Blank("open", t, e)
             q == [o EXCEPT !.count = mail[e].opens]
  <2>1. Records!Begin(q) /\ mail[e].opens = 0
    BY <1>types, <1>1 DEF Records!OpenRead, Records!Mail
  <2>2. o \in Asked /\ o.kind = "open" /\ o.t = t /\ o.id = e
    BY BlankAsked
  <2> HIDE DEF o
  <2>3. q \in Asked /\ q.kind = "open" /\ q.t = t /\ q.id = e /\ q.count = 0
    BY <2>1, <2>2 DEF Asked, Nobody
  <2> HIDE DEF q
  <2>4. JobOf(q, task, staff, buyer)
    BY <1>1, <2>1, <2>3, Nobodies DEF JobOf
  <2>5. \A p \in jobs : ~ Asks(q, p.id) /\ q.kind # "task"
    BY <2>3 DEF Asks
  <2> QED
    BY <2>1, <2>3, <2>4, <2>5, AskedBegins
<1>2. CASE Records!ClickRead(t, e)
  <2> DEFINE o == Records!Blank("click", t, e)
             q == [o EXCEPT !.count = mail[e].clicks]
  <2>1. Records!Begin(q) /\ mail[e].clicks = 0
    BY <1>types, <1>2 DEF Records!ClickRead, Records!Mail
  <2>2. o \in Asked /\ o.kind = "click" /\ o.t = t /\ o.id = e
    BY BlankAsked
  <2> HIDE DEF o
  <2>3. q \in Asked /\ q.kind = "click" /\ q.t = t /\ q.id = e /\ q.count = 0
    BY <2>1, <2>2 DEF Asked, Nobody
  <2> HIDE DEF q
  <2>4. JobOf(q, task, staff, buyer)
    BY <1>2, <2>1, <2>3, Nobodies DEF JobOf
  <2>5. \A p \in jobs : ~ Asks(q, p.id) /\ q.kind # "task"
    BY <2>3 DEF Asks
  <2> QED
    BY <2>1, <2>3, <2>4, <2>5, AskedBegins
<1> QED
  BY <1>1, <1>2

LEMMA TaskRemoved ==
  ASSUME RecordsInv, NEW t \in Tenants, NEW k \in Tasks,
         Records!RemoveTask(t, k)
  PROVE  RecordsInv'
<1>types. /\ staff \in [Staff -> Records!Member] /\ buyer \in [Buyers -> Records!Buyer]
          /\ task \in [Tasks -> Records!Task] /\ note \in [Notes -> Records!Note]
          /\ mail \in [Mails -> Records!Mail]
          /\ jobs \subseteq Records!Request /\ JobsApart(jobs)
  BY DEF RecordsInv
<1>1. /\ task' \in [Tasks -> Records!Task]
      /\ \A j \in Tasks : task'[j] = IF j = k THEN Records!NoTask ELSE task[j]
      /\ UNCHANGED <<staff, buyer, note, mail, jobs>>
  BY <1>types DEF Records!RemoveTask, Records!NoTask, Records!Task, Records!Progress
<1>2. TasksInv(task', staff, buyer)
  BY <1>types, <1>1 DEF RecordsInv, TasksInv, Records!NoTask, Nobody
<1>3. \A q \in jobs : JobOf(q, task', staff, buyer)
  BY <1>types, <1>1 DEF RecordsInv, JobOf, Records!NoTask, Nobody
<1> QED
  BY <1>types, <1>1, <1>2, <1>3 DEF RecordsInv

LEMMA NotesStep ==
  ASSUME RecordsInv, NEW t \in Tenants, NEW n \in Notes, NEW b \in Buyers \cup {Nobody},
         Records!CreateNote(t, n, b) \/ Records!RemoveNote(t, n)
  PROVE  RecordsInv'
<1>types. /\ staff \in [Staff -> Records!Member] /\ buyer \in [Buyers -> Records!Buyer]
          /\ task \in [Tasks -> Records!Task] /\ note \in [Notes -> Records!Note]
          /\ mail \in [Mails -> Records!Mail]
          /\ jobs \subseteq Records!Request /\ JobsApart(jobs)
  BY DEF RecordsInv
<1>1. CASE Records!CreateNote(t, n, b)
  <2> DEFINE x == [of |-> t, buyer |-> b]
  <2>1. x \in Records!Note /\ x.buyer = b
    BY DEF Records!Note, Nobody
  <2>2. /\ b # Nobody => buyer[b].of # Nobody
        /\ note' = [note EXCEPT ![n] = x] /\ UNCHANGED <<staff, buyer, task, mail, jobs>>
    BY <1>1 DEF Records!CreateNote, Records!Exists, Nobody
  <2> HIDE DEF x
  <2>3. note' \in [Notes -> Records!Note] /\ \A m \in Notes : note'[m] = IF m = n THEN x ELSE note[m]
    BY <1>types, <2>1, <2>2
  <2>4. NotesInv(note', buyer)
    BY <2>1, <2>2, <2>3 DEF RecordsInv, NotesInv
  <2> QED
    BY <1>types, <2>2, <2>3, <2>4 DEF RecordsInv
<1>2. CASE Records!RemoveNote(t, n)
  <2>1. /\ note' \in [Notes -> Records!Note]
        /\ \A m \in Notes : note'[m] = IF m = n THEN Records!NoNote ELSE note[m]
        /\ UNCHANGED <<staff, buyer, task, mail, jobs>>
    BY <1>types, <1>2 DEF Records!RemoveNote, Records!NoNote, Records!Note
  <2>2. NotesInv(note', buyer)
    BY <2>1 DEF RecordsInv, NotesInv, Records!NoNote, Nobody
  <2> QED
    BY <1>types, <2>1, <2>2 DEF RecordsInv
<1> QED
  BY <1>1, <1>2

LEMMA MailsStep ==
  ASSUME RecordsInv, NEW t \in Tenants, NEW e \in Mails, NEW status \in {"sent", "opened", "clicked"},
         Records!UpdateMail(t, e, status) \/ Records!RemoveMail(t, e)
  PROVE  RecordsInv'
<1>types. /\ staff \in [Staff -> Records!Member] /\ buyer \in [Buyers -> Records!Buyer]
          /\ task \in [Tasks -> Records!Task] /\ note \in [Notes -> Records!Note]
          /\ mail \in [Mails -> Records!Mail]
          /\ jobs \subseteq Records!Request /\ JobsApart(jobs)
  BY DEF RecordsInv
<1>1. CASE Records!UpdateMail(t, e, status)
  <2>1. /\ mail' \in [Mails -> Records!Mail]
        /\ \A f \in Mails : mail'[f].of = mail[f].of /\ mail'[f].buyer = mail[f].buyer
        /\ UNCHANGED <<staff, buyer, task, note, jobs>>
    BY <1>types, <1>1 DEF Records!UpdateMail, Records!Mail
  <2>2. MailsInv(mail', buyer)
    BY <2>1 DEF RecordsInv, MailsInv
  <2> QED
    BY <1>types, <2>1, <2>2 DEF RecordsInv
<1>2. CASE Records!RemoveMail(t, e)
  <2>1. /\ mail' \in [Mails -> Records!Mail]
        /\ \A f \in Mails : mail'[f] = IF f = e THEN Records!NoMail ELSE mail[f]
        /\ UNCHANGED <<staff, buyer, task, note, jobs>>
    BY <1>types, <1>2 DEF Records!RemoveMail, Records!NoMail, Records!Mail
  <2>2. MailsInv(mail', buyer)
    BY <2>1 DEF RecordsInv, MailsInv, Records!NoMail, Nobody
  <2> QED
    BY <1>types, <2>1, <2>2 DEF RecordsInv
<1> QED
  BY <1>1, <1>2

LEMMA Restaffed ==
  ASSUME RecordsInv, NEW s \in Staff, NEW state \in {"active", "away"},
         Records!Restaff(s, state)
  PROVE  RecordsInv'
<1>types. /\ staff \in [Staff -> Records!Member] /\ buyer \in [Buyers -> Records!Buyer]
          /\ task \in [Tasks -> Records!Task] /\ note \in [Notes -> Records!Note]
          /\ mail \in [Mails -> Records!Mail]
          /\ jobs \subseteq Records!Request /\ JobsApart(jobs)
  BY DEF RecordsInv
<1>1. /\ staff' \in [Staff -> Records!Member] /\ \A p \in Staff : staff'[p].of = staff[p].of
      /\ UNCHANGED <<buyer, task, note, mail, jobs>>
  BY <1>types DEF Records!Restaff, Records!Member
<1>2. TasksInv(task, staff', buyer)
  BY <1>1 DEF RecordsInv, TasksInv
<1>3. \A q \in jobs : JobOf(q, task, staff', buyer)
  BY <1>types, <1>1 DEF RecordsInv, JobOf, Records!Request, Nobody
<1> QED
  BY <1>types, <1>1, <1>2, <1>3 DEF RecordsInv

LEMMA TaskChanged ==
  ASSUME NEW z \in Records!Task, NEW s \in Staff, NEW status \in Records!Progress, NEW done \in BOOLEAN
  PROVE  [z EXCEPT !.for = s, !.status = status, !.completedAt = done] \in Records!Task
BY DEF Records!Task

LEMMA TaskWrites ==
  ASSUME RecordsInv, NEW q \in jobs, Records!CreateTaskWrite(q) \/ Records!UpdateTaskWrite(q)
  PROVE  RecordsInv'
<1>types. /\ staff \in [Staff -> Records!Member] /\ buyer \in [Buyers -> Records!Buyer]
          /\ task \in [Tasks -> Records!Task] /\ q \in Records!Request
          /\ UNCHANGED <<staff, buyer, note, mail>> /\ jobs' = jobs \ {q} /\ JobsApart(jobs')
          /\ q.kind \in {"task", "retask"} /\ q.id \in Tasks /\ JobOf(q, task, staff, buyer)
  BY JobEnds DEF RecordsInv, JobOf, Records!CreateTaskWrite, Records!UpdateTaskWrite
<1>0. CASE UNCHANGED task
  BY <1>types, <1>0 DEF RecordsInv
<1>1. ASSUME NEW x \in Records!Task, task' = [task EXCEPT ![q.id] = x],
             x.buyer # Nobody => buyer[x.buyer].of # Nobody,
             x.of # Nobody => x.for \in Staff /\ staff[x.for].of = x.of,
             \A p \in jobs \ {q} : p.kind = "retask" /\ p.id = q.id => x.of \in {Nobody, p.t}
      PROVE  RecordsInv'
  <2>1. task' \in [Tasks -> Records!Task] /\ \A k \in Tasks : task'[k] = IF k = q.id THEN x ELSE task[k]
    BY <1>types, <1>1
  <2>2. TasksInv(task', staff, buyer)
    BY <1>1, <2>1 DEF RecordsInv, TasksInv
  <2>3. ASSUME NEW p \in jobs \ {q} PROVE JobOf(p, task', staff, buyer)
    <3>1. JobOf(p, task, staff, buyer) /\ (p.kind = "task" => p.id # q.id)
      BY <1>types DEF RecordsInv, JobsApart, Asks
    <3> QED
      BY <1>1, <2>1, <3>1 DEF JobOf
  <2> QED
    BY <1>types, <2>1, <2>2, <2>3 DEF RecordsInv
<1>2. CASE Records!CreateTaskWrite(q) /\ Records!Exists(q.buyer)
  <2> DEFINE x == [of |-> q.t, for |-> q.who, buyer |-> q.buyer, status |-> q.status, completedAt |-> FALSE]
  <2>1. task' = [task EXCEPT ![q.id] = x] /\ q.kind = "task"
    BY <1>2 DEF Records!CreateTaskWrite
  <2>2. /\ q.who \in Staff /\ staff[q.who].of = q.t /\ q.status \in Records!Progress
        /\ q.buyer # Nobody => buyer[q.buyer].of # Nobody
    BY <1>types, <1>2, <2>1 DEF JobOf, Records!Request, Records!Exists, Nobody
  <2>3. /\ x \in Records!Task /\ x.of = q.t /\ x.for = q.who /\ x.buyer = q.buyer
    BY <1>types, <2>2 DEF Records!Request, Records!Task
  <2> HIDE DEF x
  <2>4. \A p \in jobs \ {q} : ~ (p.kind = "retask" /\ p.id = q.id)
    BY <2>1 DEF RecordsInv, JobsApart, Asks
  <2> QED
    BY <1>1, <2>1, <2>2, <2>3, <2>4
<1>3. CASE Records!CreateTaskWrite(q) /\ ~ Records!Exists(q.buyer)
  BY <1>0, <1>3 DEF Records!CreateTaskWrite
<1>4. CASE Records!UpdateTaskWrite(q) /\ task[q.id].of # Nobody
  <2> DEFINE for1    == IF q.who = Nobody THEN task[q.id].for ELSE q.who
             status1 == IF q.status = Nobody THEN task[q.id].status ELSE q.status
             done1   == q.status = "completed" \/ (task[q.id].completedAt /\ ~ (q.was /\ q.status # Nobody))
  <2>1. q.kind = "retask"
    BY <1>4 DEF Records!UpdateTaskWrite
  <2>a. task' = [task EXCEPT ![q.id] =
                   [task[q.id] EXCEPT !.for = for1, !.status = status1, !.completedAt = done1]]
    BY <1>types, <1>4 DEF Records!UpdateTaskWrite, Nobody
  <2>2. /\ task[q.id] \in Records!Task /\ task[q.id].of = q.t
        /\ task[q.id].for \in Staff /\ staff[task[q.id].for].of = q.t
        /\ task[q.id].buyer # Nobody => buyer[task[q.id].buyer].of # Nobody
        /\ q.who # Nobody => q.who \in Staff /\ staff[q.who].of = q.t
    BY <1>types, <1>4, <2>1 DEF RecordsInv, TasksInv, JobOf, Records!Request, Nobody
  <2>3. for1 \in Staff /\ staff[for1].of = q.t
    BY <2>2
  <2>4. status1 \in Records!Progress /\ done1 \in BOOLEAN
    BY <1>types, <2>2 DEF Records!Request, Records!Task, Nobody
  <2>5. \A p \in jobs : p.kind = "retask" /\ p.id = q.id => task[q.id].of \in {Nobody, p.t}
    BY DEF RecordsInv, JobOf
  <2> HIDE DEF for1, status1, done1
  <2> DEFINE x == [task[q.id] EXCEPT !.for = for1, !.status = status1, !.completedAt = done1]
  <2>6. x \in Records!Task
    BY <2>2, <2>3, <2>4, TaskChanged, Zenon
  <2>7. /\ x.of = task[q.id].of /\ x.for = for1 /\ x.buyer = task[q.id].buyer
        /\ x.status = status1 /\ x.completedAt = done1
    BY <2>2 DEF Records!Task
  <2>8. task' = [task EXCEPT ![q.id] = x]
    BY <2>a
  <2> HIDE DEF x
  <2>9. /\ x.buyer # Nobody => buyer[x.buyer].of # Nobody
        /\ x.of # Nobody => x.for \in Staff /\ staff[x.for].of = x.of
        /\ \A p \in jobs \ {q} : p.kind = "retask" /\ p.id = q.id => x.of \in {Nobody, p.t}
    BY <2>2, <2>3, <2>5, <2>7
  <2> QED
    BY <1>1, <2>6, <2>8, <2>9
<1>5. CASE Records!UpdateTaskWrite(q) /\ task[q.id].of = Nobody
  BY <1>0, <1>5 DEF Records!UpdateTaskWrite, Nobody
<1> QED
  BY <1>2, <1>3, <1>4, <1>5

LEMMA MailCounted ==
  ASSUME NEW z \in Records!Mail, NEW status \in {"sent", "opened", "clicked"}, NEW n \in 0 .. 1
  PROVE  /\ [z EXCEPT !.status = status, !.opens = n] \in Records!Mail
         /\ [z EXCEPT !.status = status, !.clicks = n] \in Records!Mail
<1>1. [z EXCEPT !.status = status, !.opens = n] \in Records!Mail
  BY DEF Records!Mail
<1>2. [z EXCEPT !.status = status, !.clicks = n] \in Records!Mail
  BY DEF Records!Mail
<1> QED
  BY <1>1, <1>2

LEMMA MailMade ==
  ASSUME NEW z \in Records!Mail, NEW t \in Tenants, NEW b \in Buyers
  PROVE  [z EXCEPT !.of = t, !.buyer = b] \in Records!Mail
BY DEF Records!Mail

LEMMA MailWrites ==
  ASSUME RecordsInv, NEW q \in jobs,
         Records!CreateMailWrite(q) \/ Records!OpenWrite(q) \/ Records!ClickWrite(q)
  PROVE  RecordsInv'
<1>types. /\ buyer \in [Buyers -> Records!Buyer] /\ mail \in [Mails -> Records!Mail]
          /\ q \in Records!Request /\ UNCHANGED <<staff, buyer, task, note>>
          /\ jobs' = jobs \ {q} /\ JobsApart(jobs')
          /\ q.id \in Mails /\ JobOf(q, task, staff, buyer) /\ q.t \in Tenants
  BY JobEnds DEF RecordsInv, JobOf, Records!CreateMailWrite, Records!OpenWrite, Records!ClickWrite,
                 Records!Request
<1>0. CASE UNCHANGED mail
  BY <1>types, <1>0 DEF RecordsInv
<1>1. ASSUME NEW x \in Records!Mail, mail' = [mail EXCEPT ![q.id] = x],
             x.of # Nobody => x.buyer # Nobody /\ buyer[x.buyer].of = x.of
      PROVE  RecordsInv'
  <2>1. mail' \in [Mails -> Records!Mail] /\ \A e \in Mails : mail'[e] = IF e = q.id THEN x ELSE mail[e]
    BY <1>types, <1>1
  <2>2. MailsInv(mail', buyer)
    BY <1>1, <2>1 DEF RecordsInv, MailsInv
  <2> QED
    BY <1>types, <2>1, <2>2 DEF RecordsInv
<1>2. CASE Records!CreateMailWrite(q) /\ Records!Exists(q.buyer)
  <2> DEFINE x == [Records!NoMail EXCEPT !.of = q.t, !.buyer = q.buyer]
  <2>1. mail' = [mail EXCEPT ![q.id] = x]
    BY <1>2 DEF Records!CreateMailWrite
  <2>2. q.buyer \in Buyers /\ q.buyer # Nobody /\ buyer[q.buyer].of = q.t
    BY <1>types, <1>2 DEF JobOf, Records!Request, Records!Exists, Records!CreateMailWrite, Nobody
  <2>3. Records!NoMail \in Records!Mail
    BY DEF Records!NoMail, Records!Mail
  <2>4. x \in Records!Mail
    BY <1>types, <2>2, <2>3, MailMade, Zenon
  <2>5. x.of = q.t /\ x.buyer = q.buyer
    BY DEF Records!NoMail
  <2> HIDE DEF x
  <2> QED
    BY <1>1, <2>1, <2>2, <2>4, <2>5
<1>3. CASE Records!CreateMailWrite(q) /\ ~ Records!Exists(q.buyer)
  BY <1>0, <1>3 DEF Records!CreateMailWrite
<1>4. CASE Records!OpenWrite(q) /\ mail[q.id].of # Nobody
  <2> DEFINE x == [mail[q.id] EXCEPT !.status = "opened", !.opens = q.count + 1]
  <2>1. q.kind = "open" /\ q.count + 1 \in 0 .. 1
    BY <1>types, <1>4 DEF Records!OpenWrite, JobOf
  <2>2. mail' = [mail EXCEPT ![q.id] = x]
    BY <1>4 DEF Records!OpenWrite, Nobody
  <2>3. mail[q.id] \in Records!Mail /\ "opened" \in {"sent", "opened", "clicked"}
    BY <1>types
  <2>4. x \in Records!Mail
    BY <2>1, <2>3, MailCounted, Zenon
  <2>5. x.of = mail[q.id].of /\ x.buyer = mail[q.id].buyer
    BY <2>3 DEF Records!Mail
  <2> HIDE DEF x
  <2> QED
    BY <1>1, <1>types, <2>2, <2>4, <2>5 DEF RecordsInv, MailsInv
<1>5. CASE Records!ClickWrite(q) /\ mail[q.id].of # Nobody
  <2> DEFINE x == [mail[q.id] EXCEPT !.status = "clicked", !.clicks = q.count + 1]
  <2>1. q.kind = "click" /\ q.count + 1 \in 0 .. 1
    BY <1>types, <1>5 DEF Records!ClickWrite, JobOf
  <2>2. mail' = [mail EXCEPT ![q.id] = x]
    BY <1>5 DEF Records!ClickWrite, Nobody
  <2>3. mail[q.id] \in Records!Mail /\ "clicked" \in {"sent", "opened", "clicked"}
    BY <1>types
  <2>4. x \in Records!Mail
    BY <2>1, <2>3, MailCounted, Zenon
  <2>5. x.of = mail[q.id].of /\ x.buyer = mail[q.id].buyer
    BY <2>3 DEF Records!Mail
  <2> HIDE DEF x
  <2> QED
    BY <1>1, <1>types, <2>2, <2>4, <2>5 DEF RecordsInv, MailsInv
<1>6. CASE (Records!OpenWrite(q) \/ Records!ClickWrite(q)) /\ mail[q.id].of = Nobody
  BY <1>0, <1>6 DEF Records!OpenWrite, Records!ClickWrite, Nobody
<1> QED
  BY <1>2, <1>3, <1>4, <1>5, <1>6

LEMMA RecordsStep ==
  ASSUME RecordsInv, Records!Next
  PROVE  RecordsInv'
<1>1. ASSUME NEW t \in Tenants, NEW b \in Buyers, NEW s \in Staff \cup {Nobody},
             Records!CreateBuyer(t, b, s) \/ Records!UpdateBuyer(t, b, s)
      PROVE  RecordsInv'
  BY <1>1, BuyersStep
<1>11. ASSUME NEW t \in Tenants, NEW b \in Buyers, Records!RemoveBuyer(t, b)
       PROVE  RecordsInv'
  BY <1>11, BuyerRemoved
<1>2. ASSUME NEW t \in Tenants, NEW k \in Tasks, NEW s \in Staff, NEW b \in Buyers \cup {Nobody},
             NEW status \in Records!Progress, Records!CreateTaskCheck(t, k, s, b, status)
      PROVE  RecordsInv'
  BY <1>2, TaskBegins
<1>3. ASSUME NEW t \in Tenants, NEW k \in Tasks, NEW s \in Staff \cup {Nobody},
             NEW status \in Records!Progress \cup {Nobody}, Records!UpdateTaskRead(t, k, s, status)
      PROVE  RecordsInv'
  BY <1>3, RetaskBegins
<1>4. ASSUME NEW t \in Tenants, NEW k \in Tasks, Records!RemoveTask(t, k)
      PROVE  RecordsInv'
  BY <1>4, TaskRemoved
<1>5. ASSUME NEW t \in Tenants, NEW n \in Notes, NEW b \in Buyers \cup {Nobody},
             Records!CreateNote(t, n, b) \/ Records!RemoveNote(t, n)
      PROVE  RecordsInv'
  BY <1>5, NotesStep
<1>6. ASSUME NEW t \in Tenants, NEW e \in Mails, NEW b \in Buyers, Records!CreateMailCheck(t, e, b)
      PROVE  RecordsInv'
  BY <1>6, MailBegins
<1>7. ASSUME NEW t \in Tenants, NEW e \in Mails, NEW status \in {"sent", "opened", "clicked"},
             Records!UpdateMail(t, e, status) \/ Records!RemoveMail(t, e)
      PROVE  RecordsInv'
  BY <1>7, MailsStep
<1>8. ASSUME NEW t \in Tenants, NEW e \in Mails, Records!OpenRead(t, e) \/ Records!ClickRead(t, e)
      PROVE  RecordsInv'
  BY <1>8, ReadBegins
<1>9. ASSUME NEW s \in Staff, NEW status \in {"active", "away"}, Records!Restaff(s, status)
      PROVE  RecordsInv'
  BY <1>9, Restaffed
<1>10. ASSUME NEW q \in jobs, Records!Write(q)
       PROVE  RecordsInv'
  BY <1>10, TaskWrites, MailWrites DEF Records!Write
<1> QED
  BY <1>1, <1>2, <1>3, <1>4, <1>5, <1>6, <1>7, <1>8, <1>9, <1>10, <1>11 DEF Records!Next, Nobody

\* An update that finds the status it has read leaves an open task without a time of completion.
LEMMA UpdateReopens ==
  ASSUME RecordsInv, NEW q \in jobs, Records!UpdateTaskWrite(q), Records!Current(q)
  PROVE  Records!Dated(q.id)' => Records!Dated(q.id)
<1> DEFINE old     == task[q.id]
           for1    == IF q.who = Nobody THEN old.for ELSE q.who
           status1 == IF q.status = Nobody THEN old.status ELSE q.status
           done1   == q.status = "completed" \/ (old.completedAt /\ ~ (q.was /\ q.status # Nobody))
<1>1. /\ q.id \in Tasks /\ old \in Records!Task /\ task \in [Tasks -> Records!Task]
      /\ q.was <=> old.status = "completed"
  BY DEF RecordsInv, JobOf, Records!Current
<1>2. CASE task' = task
  BY <1>2 DEF Records!Dated
<1>3. CASE task' = [task EXCEPT ![q.id] =
                      [old EXCEPT !.for = for1, !.status = status1, !.completedAt = done1]]
  <2>1. task'[q.id].status = status1 /\ task'[q.id].completedAt = done1
    BY <1>1, <1>3 DEF Records!Task
  <2>2. done1 /\ status1 # "completed" => old.completedAt /\ old.status # "completed"
    BY <1>1 DEF Nobody, Records!None
  <2> QED
    BY <2>1, <2>2 DEF Records!Dated
<1> QED
  BY <1>1, <1>2, <1>3 DEF Records!UpdateTaskWrite, Nobody

LEMMA RecordsReopen ==
  ASSUME RecordsInv, Records!Next
  PROVE  Records!Reopens
<1> SUFFICES ASSUME NEW k \in Tasks, Records!Dated(k)', ~ Records!Dated(k)
             PROVE  \E q \in jobs \ jobs' : q.kind = "retask" /\ q.id = k /\ ~ Records!Current(q)
  BY DEF Records!Reopens
<1>types. task \in [Tasks -> Records!Task] /\ \A q \in jobs : q.kind \in {"task", "retask"} => q.id \in Tasks
  BY DEF RecordsInv, JobOf
<1>1. CASE UNCHANGED task
  BY <1>1 DEF Records!Dated
<1>2. ASSUME NEW t \in Tenants, NEW b \in Buyers, Records!RemoveBuyer(t, b) PROVE FALSE
  <2>1. task'[k] = IF task[k].buyer = b THEN [task[k] EXCEPT !.buyer = Nobody] ELSE task[k]
    BY <1>2 DEF Records!RemoveBuyer, Nobody
  <2>2. task'[k].completedAt = task[k].completedAt /\ task'[k].status = task[k].status
    BY <1>types, <2>1 DEF Records!Task
  <2> QED
    BY <2>2 DEF Records!Dated
<1>3. ASSUME NEW t \in Tenants, NEW j \in Tasks, Records!RemoveTask(t, j) PROVE FALSE
  BY <1>types, <1>3 DEF Records!RemoveTask, Records!NoTask, Records!Dated
<1>4. ASSUME NEW q \in jobs, Records!CreateTaskWrite(q) PROVE FALSE
  <2>1. \/ UNCHANGED task
        \/ task' = [task EXCEPT ![q.id] = [of |-> q.t, for |-> q.who, buyer |-> q.buyer,
                                           status |-> q.status, completedAt |-> FALSE]]
    BY <1>4 DEF Records!CreateTaskWrite
  <2> QED
    BY <1>types, <2>1 DEF Records!Dated
<1>5. ASSUME NEW q \in jobs, Records!UpdateTaskWrite(q)
      PROVE  \E p \in jobs \ jobs' : p.kind = "retask" /\ p.id = k /\ ~ Records!Current(p)
  <2>1. q.kind = "retask" /\ q \notin jobs' /\ (task' = task \/ \E x : task' = [task EXCEPT ![q.id] = x])
    BY <1>5 DEF Records!UpdateTaskWrite, Records!Done
  <2>2. q.id = k
    BY <1>types, <2>1 DEF Records!Dated
  <2> QED
    BY <1>5, <2>1, <2>2, UpdateReopens
<1>6. Records!Next => \/ UNCHANGED task
                      \/ \E t \in Tenants, b \in Buyers : Records!RemoveBuyer(t, b)
                      \/ \E t \in Tenants, j \in Tasks : Records!RemoveTask(t, j)
                      \/ \E q \in jobs : Records!CreateTaskWrite(q) \/ Records!UpdateTaskWrite(q)
  BY DEF Records!Next, Records!CreateBuyer, Records!UpdateBuyer, Records!CreateTaskCheck,
         Records!UpdateTaskRead, Records!Begin, Records!CreateNote, Records!RemoveNote,
         Records!CreateMailCheck, Records!UpdateMail, Records!RemoveMail, Records!OpenRead,
         Records!ClickRead, Records!Restaff, Records!Write, Records!CreateMailWrite,
         Records!OpenWrite, Records!ClickWrite
<1> QED
  BY <1>1, <1>2, <1>3, <1>4, <1>5, <1>6


-----------------------------------------------------------------------------
(* The log of what was changed *)

NoValue == Audit!None

\* What the entries, and the requests whose entry is still to be written, lead to and from.
IntoOf(log, r, v)  == {i \in DOMAIN log : log[i].ok /\ log[i].r = r /\ log[i].new = v}
OutOf(log, r, v)   == {i \in DOMAIN log : log[i].ok /\ log[i].r = r /\ log[i].old = v}
Logs(q)            == q.pc = "log" /\ Audit!ComputeChanges(q)
Entering(reqs, r, v) == {q \in reqs : Logs(q) /\ q.r = r /\ q.body = v}
Leaving(reqs, r, v)  == {q \in reqs : Logs(q) /\ q.r = r /\ q.old = v}

Is(P) == IF P THEN 1 ELSE 0

Balance(log, reqs, table, created) ==
  \A r \in Audit!Rows, v \in Values :
    Cardinality(IntoOf(log, r, v)) + Cardinality(Entering(reqs, r, v))
      - Cardinality(OutOf(log, r, v)) - Cardinality(Leaving(reqs, r, v))
        = Is(table[r] = v) - Is(r \in Titles /\ created[r] = v)

\* There is one title at most, and the rows that are there have been created.
TitlesInv(table, made, created) ==
  /\ made = <<>> \/ (made \in Seq(Titles) /\ Len(made) = 1)
  /\ \A r \in Titles : table[r] # NoValue <=> (Len(made) = 1 /\ made[1] = r)
  /\ \A r \in Titles : created[r] # NoValue => table[r] # NoValue

\* What the request being handled has read is still so.
ReadOf(q, table, made) ==
  /\ q.kind = "create" => q.r \in Expenses /\ q.body \in Values
  /\ q.kind = "update" => q.body \in Values
  /\ q.kind = "delete" => q.r \in Expenses /\ q.body = NoValue
  /\ q.kind = "upsert" => q.r \in Titles /\ q.body \in Values
  /\ q.pc \in {"handle", "existing", "new"} => q.old = table[q.r]
  /\ q.pc = "handle" /\ q.kind = "create" => q.old = NoValue
  /\ q.pc = "handle" /\ q.kind = "upsert" => made = <<>> \/ q.r = made[1]
  /\ q.pc = "existing" => q.kind = "upsert" /\ Len(made) = 1 /\ q.r = made[1]
  /\ q.pc = "new" => q.kind = "upsert" /\ made = <<>> /\ q.old = NoValue

AuditTypes ==
  /\ records \in [Audit!Rows -> Audit!Record] /\ first \in [Titles -> Audit!Record]
  /\ trail \in Seq(Audit!Entry)
  /\ requests \subseteq Audit!Request /\ IsFiniteSet(requests) /\ count \in 0 .. MaxRequests

\* One request at most is handled.
RequestsInv(reqs, n, table, made) ==
  /\ \A p, q \in reqs : p.id = q.id => p = q
  /\ \A p, q \in reqs : p.pc # "log" /\ q.pc # "log" => p = q
  /\ \A q \in reqs : q.id <= n /\ ReadOf(q, table, made)

AuditInv ==
  /\ AuditTypes
  /\ RequestsInv(requests, count, records, titles)
  /\ TitlesInv(records, titles, first)
  /\ Balance(trail, requests, records, first)

LEMMA EntriesCounted ==
  ASSUME NEW log \in Seq(Audit!Entry), NEW r, NEW v
  PROVE  /\ IsFiniteSet(IntoOf(log, r, v)) /\ Cardinality(IntoOf(log, r, v)) \in Nat
         /\ IsFiniteSet(OutOf(log, r, v)) /\ Cardinality(OutOf(log, r, v)) \in Nat
<1>1. IsFiniteSet(1 .. Len(log)) /\ DOMAIN log = 1 .. Len(log)
  BY FS_Interval
<1>2. IntoOf(log, r, v) \in SUBSET (1 .. Len(log)) /\ OutOf(log, r, v) \in SUBSET (1 .. Len(log))
  BY <1>1 DEF IntoOf, OutOf
<1>3. IsFiniteSet(IntoOf(log, r, v)) /\ IsFiniteSet(OutOf(log, r, v))
  BY <1>1, <1>2, FS_Subset
<1> QED
  BY <1>3, FS_CardinalityType

LEMMA RequestsCounted ==
  ASSUME NEW reqs, IsFiniteSet(reqs), NEW r, NEW v
  PROVE  /\ IsFiniteSet(Entering(reqs, r, v)) /\ Cardinality(Entering(reqs, r, v)) \in Nat
         /\ IsFiniteSet(Leaving(reqs, r, v)) /\ Cardinality(Leaving(reqs, r, v)) \in Nat
<1>1. Entering(reqs, r, v) \in SUBSET reqs /\ Leaving(reqs, r, v) \in SUBSET reqs
  BY DEF Entering, Leaving
<1>2. IsFiniteSet(Entering(reqs, r, v)) /\ IsFiniteSet(Leaving(reqs, r, v))
  BY <1>1, FS_Subset
<1> QED
  BY <1>2, FS_CardinalityType

LEMMA TitlesRange ==
  ASSUME AuditInv
  PROVE  /\ titles \in Seq(Titles) /\ Len(titles) <= 1
         /\ \A r \in Titles : records[r] # NoValue <=> \E i \in DOMAIN titles : titles[i] = r
<1>1. CASE titles = <<>>
  BY <1>1 DEF AuditInv, TitlesInv
<1>2. CASE titles \in Seq(Titles) /\ Len(titles) = 1
  <2>1. DOMAIN titles = {1}
    BY <1>2
  <2> QED
    BY <1>2, <2>1 DEF AuditInv, TitlesInv
<1> QED
  BY <1>1, <1>2 DEF AuditInv, TitlesInv

LEMMA AuditTypesHold == AuditInv => Audit!TypeOK /\ Audit!TrailAddsUp
<1> SUFFICES ASSUME AuditInv PROVE Audit!TypeOK /\ Audit!TrailAddsUp
  OBVIOUS
<1>1. Audit!TypeOK
  BY TitlesRange DEF AuditInv, AuditTypes, Audit!TypeOK, NoValue
<1>2. ASSUME \A q \in requests : q.pc # "log", NEW r \in Audit!Rows, NEW v \in Values
      PROVE  Audit!Cardinality(Audit!Into(r, v)) - Audit!Cardinality(Audit!OutOf(r, v))
               = Audit!One(records[r] = v) - Audit!One(r \in Titles /\ first[r] = v)
  <2>1. Entering(requests, r, v) = {} /\ Leaving(requests, r, v) = {}
    BY <1>2 DEF Entering, Leaving, Logs
  <2>2. Cardinality({}) = 0
    BY FS_EmptySet
  <2>3. IntoOf(trail, r, v) = Audit!Into(r, v) /\ OutOf(trail, r, v) = Audit!OutOf(r, v)
    BY DEF IntoOf, OutOf, Audit!Into, Audit!OutOf
  <2>4. /\ Audit!Cardinality(Audit!Into(r, v)) = Cardinality(IntoOf(trail, r, v))
        /\ Audit!Cardinality(Audit!OutOf(r, v)) = Cardinality(OutOf(trail, r, v))
    BY <2>3 DEF Audit!Cardinality, Cardinality
  <2>5. Cardinality(IntoOf(trail, r, v)) \in Nat /\ Cardinality(OutOf(trail, r, v)) \in Nat
    BY EntriesCounted DEF AuditInv, AuditTypes
  <2>6. Cardinality(IntoOf(trail, r, v)) + 0 - Cardinality(OutOf(trail, r, v)) - 0
          = Is(records[r] = v) - Is(r \in Titles /\ first[r] = v)
    BY <1>2, <2>1, <2>2 DEF AuditInv, Balance
  <2>7. /\ Is(records[r] = v) = Audit!One(records[r] = v)
        /\ Is(r \in Titles /\ first[r] = v) = Audit!One(r \in Titles /\ first[r] = v)
    BY DEF Is, Audit!One
  <2> QED
    BY <2>4, <2>5, <2>6, <2>7
<1> QED
  BY <1>1, <1>2 DEF Audit!TrailAddsUp

LEMMA AuditInit == Audit!Init => AuditInv
<1> SUFFICES ASSUME Audit!Init PROVE AuditInv
  OBVIOUS
<1>1. /\ records \in [Audit!Rows -> Audit!Record] /\ first \in [Titles -> Audit!Record]
      /\ trail = <<>> /\ requests = {} /\ titles = <<>> /\ count = 0 /\ Titles \subseteq Audit!Rows
      /\ \A r \in Audit!Rows : records[r] = NoValue
      /\ \A r \in Titles : first[r] = NoValue
  BY DEF Audit!Init, Audit!Record, Audit!Rows, NoValue
<1>2. AuditTypes
  BY <1>1, FS_EmptySet, BoundsAssumption DEF AuditTypes
<1>3. TitlesInv(records, titles, first)
  BY <1>1 DEF TitlesInv
<1>4. Balance(trail, requests, records, first)
  <2> SUFFICES ASSUME NEW r \in Audit!Rows, NEW v \in Values
               PROVE  Cardinality(IntoOf(trail, r, v)) + Cardinality(Entering(requests, r, v))
                        - Cardinality(OutOf(trail, r, v)) - Cardinality(Leaving(requests, r, v))
                          = Is(records[r] = v) - Is(r \in Titles /\ first[r] = v)
    BY DEF Balance
  <2>1. IntoOf(trail, r, v) = {} /\ OutOf(trail, r, v) = {}
    BY <1>1 DEF IntoOf, OutOf
  <2>2. Entering(requests, r, v) = {} /\ Leaving(requests, r, v) = {}
    BY <1>1 DEF Entering, Leaving
  <2>3. v # NoValue
    BY AuditAssumption DEF NoValue, Audit!None
  <2>4. records[r] # v /\ ~ (r \in Titles /\ first[r] = v)
    BY <1>1, <2>3
  <2>5. Is(records[r] = v) = 0 /\ Is(r \in Titles /\ first[r] = v) = 0
    BY <2>4 DEF Is
  <2> QED
    BY <2>1, <2>2, <2>5, FS_EmptySet
<1> QED
  BY <1>1, <1>2, <1>3, <1>4 DEF AuditInv, RequestsInv

LEMMA AuditStays ==
  AuditInv /\ UNCHANGED <<records, titles, first, trail, requests, count>> => AuditInv'
BY DEF AuditInv, AuditTypes

\* Requests that have nothing to write do not matter.
LEMMA BalanceSame ==
  ASSUME NEW log, NEW reqs, NEW reqs2, NEW table, NEW created, Balance(log, reqs, table, created),
         \A q : Logs(q) => (q \in reqs <=> q \in reqs2)
  PROVE  Balance(log, reqs2, table, created)
<1>1. \A r, v : Entering(reqs2, r, v) = Entering(reqs, r, v) /\ Leaving(reqs2, r, v) = Leaving(reqs, r, v)
  BY DEF Entering, Leaving
<1> QED
  BY <1>1 DEF Balance

\* An entry is counted with what it leads from and to, the entry of a failure not at all.
LEMMA EntryCounts ==
  ASSUME NEW log \in Seq(Audit!Entry), NEW e \in Audit!Entry, NEW r, NEW v
  PROVE  /\ Cardinality(IntoOf(Append(log, e), r, v))
              = Cardinality(IntoOf(log, r, v)) + Is(e.ok /\ e.r = r /\ e.new = v)
         /\ Cardinality(OutOf(Append(log, e), r, v))
              = Cardinality(OutOf(log, r, v)) + Is(e.ok /\ e.r = r /\ e.old = v)
<1> DEFINE n == Len(log) + 1
           more == Append(log, e)
<1>1. /\ DOMAIN log = 1 .. Len(log) /\ DOMAIN more = (1 .. Len(log)) \cup {n} /\ Len(log) \in Nat
      /\ more[n] = e /\ \A i \in 1 .. Len(log) : more[i] = log[i]
  <2>1. more \in Seq(Audit!Entry) /\ Len(more) = n /\ Len(log) \in Nat
    OBVIOUS
  <2>2. DOMAIN more = 1 .. n
    BY <2>1
  <2>3. more[n] = e /\ \A i \in 1 .. Len(log) : more[i] = log[i]
    OBVIOUS
  <2> QED
    BY <2>1, <2>2, <2>3
<1>2. n \notin IntoOf(log, r, v) /\ n \notin OutOf(log, r, v)
  BY <1>1 DEF IntoOf, OutOf
<1> HIDE DEF n, more
<1>3. IntoOf(more, r, v) = IntoOf(log, r, v) \cup (IF e.ok /\ e.r = r /\ e.new = v THEN {n} ELSE {})
  BY <1>1 DEF IntoOf
<1>4. OutOf(more, r, v) = OutOf(log, r, v) \cup (IF e.ok /\ e.r = r /\ e.old = v THEN {n} ELSE {})
  BY <1>1 DEF OutOf
<1>5. Cardinality(IntoOf(more, r, v)) = Cardinality(IntoOf(log, r, v)) + Is(e.ok /\ e.r = r /\ e.new = v)
  <2>1. CASE e.ok /\ e.r = r /\ e.new = v
    <3>1. IntoOf(more, r, v) = IntoOf(log, r, v) \cup {n} /\ n \notin IntoOf(log, r, v)
      BY <1>3, <1>2, <2>1
    <3>2. IsFiniteSet(IntoOf(log, r, v))
      BY EntriesCounted
    <3>3. Cardinality(IntoOf(more, r, v)) = Cardinality(IntoOf(log, r, v)) + 1
      BY <3>1, <3>2, FS_AddElement
    <3> QED
      BY <2>1, <3>3 DEF Is
  <2>2. CASE ~ (e.ok /\ e.r = r /\ e.new = v)
    <3>1. IntoOf(more, r, v) = IntoOf(log, r, v)
      BY <1>3, <2>2
    <3> QED
      BY <2>2, <3>1, EntriesCounted DEF Is
  <2> QED
    BY <2>1, <2>2
<1>6. Cardinality(OutOf(more, r, v)) = Cardinality(OutOf(log, r, v)) + Is(e.ok /\ e.r = r /\ e.old = v)
  <2>1. CASE e.ok /\ e.r = r /\ e.old = v
    <3>1. OutOf(more, r, v) = OutOf(log, r, v) \cup {n} /\ n \notin OutOf(log, r, v)
      BY <1>4, <1>2, <2>1
    <3>2. IsFiniteSet(OutOf(log, r, v))
      BY EntriesCounted
    <3>3. Cardinality(OutOf(more, r, v)) = Cardinality(OutOf(log, r, v)) + 1
      BY <3>1, <3>2, FS_AddElement
    <3> QED
      BY <2>1, <3>3 DEF Is
  <2>2. CASE ~ (e.ok /\ e.r = r /\ e.old = v)
    <3>1. OutOf(more, r, v) = OutOf(log, r, v)
      BY <1>4, <2>2
    <3> QED
      BY <2>2, <3>1, EntriesCounted DEF Is
  <2> QED
    BY <2>1, <2>2
<1> QED
  BY <1>5, <1>6 DEF more

\* A request to be written is counted likewise.
LEMMA RequestCounts ==
  ASSUME NEW reqs, IsFiniteSet(reqs), NEW q, q \notin reqs, Logs(q), NEW r, NEW v
  PROVE  /\ Cardinality(Entering(reqs \cup {q}, r, v))
              = Cardinality(Entering(reqs, r, v)) + Is(q.r = r /\ q.body = v)
         /\ Cardinality(Leaving(reqs \cup {q}, r, v))
              = Cardinality(Leaving(reqs, r, v)) + Is(q.r = r /\ q.old = v)
<1>1. Entering(reqs \cup {q}, r, v) = Entering(reqs, r, v) \cup (IF q.r = r /\ q.body = v THEN {q} ELSE {})
  BY DEF Entering
<1>2. Leaving(reqs \cup {q}, r, v) = Leaving(reqs, r, v) \cup (IF q.r = r /\ q.old = v THEN {q} ELSE {})
  BY DEF Leaving
<1>3. q \notin Entering(reqs, r, v) /\ q \notin Leaving(reqs, r, v)
  BY DEF Entering, Leaving
<1>4. Cardinality(Entering(reqs \cup {q}, r, v)) = Cardinality(Entering(reqs, r, v)) + Is(q.r = r /\ q.body = v)
  <2>1. CASE q.r = r /\ q.body = v
    <3>1. Entering(reqs \cup {q}, r, v) = Entering(reqs, r, v) \cup {q} /\ q \notin Entering(reqs, r, v)
      BY <1>1, <1>3, <2>1
    <3>2. IsFiniteSet(Entering(reqs, r, v))
      BY RequestsCounted
    <3>3. Cardinality(Entering(reqs \cup {q}, r, v)) = Cardinality(Entering(reqs, r, v)) + 1
      BY <3>1, <3>2, FS_AddElement
    <3> QED
      BY <2>1, <3>3 DEF Is
  <2>2. CASE ~ (q.r = r /\ q.body = v)
    <3>1. Entering(reqs \cup {q}, r, v) = Entering(reqs, r, v)
      BY <1>1, <2>2
    <3> QED
      BY <2>2, <3>1, RequestsCounted DEF Is
  <2> QED
    BY <2>1, <2>2
<1>5. Cardinality(Leaving(reqs \cup {q}, r, v)) = Cardinality(Leaving(reqs, r, v)) + Is(q.r = r /\ q.old = v)
  <2>1. CASE q.r = r /\ q.old = v
    <3>1. Leaving(reqs \cup {q}, r, v) = Leaving(reqs, r, v) \cup {q} /\ q \notin Leaving(reqs, r, v)
      BY <1>2, <1>3, <2>1
    <3>2. IsFiniteSet(Leaving(reqs, r, v))
      BY RequestsCounted
    <3>3. Cardinality(Leaving(reqs \cup {q}, r, v)) = Cardinality(Leaving(reqs, r, v)) + 1
      BY <3>1, <3>2, FS_AddElement
    <3> QED
      BY <2>1, <3>3 DEF Is
  <2>2. CASE ~ (q.r = r /\ q.old = v)
    <3>1. Leaving(reqs \cup {q}, r, v) = Leaving(reqs, r, v)
      BY <1>2, <2>2
    <3> QED
      BY <2>2, <3>1, RequestsCounted DEF Is
  <2> QED
    BY <2>1, <2>2
<1> QED
  BY <1>4, <1>5

\* A request comes when no other is handled.
LEMMA RequestComes ==
  ASSUME AuditInv, NEW kind, NEW r, NEW body, NEW old, Audit!Intercept(kind, r, body, old),
         \A n \in 1 .. MaxRequests :
           LET x == [id |-> n, kind |-> kind, r |-> r, body |-> body, old |-> old, pc |-> "handle"]
           IN  x \in Audit!Request /\ ReadOf(x, records, titles)
  PROVE  AuditInv'
<1> DEFINE n == count + 1
           x == [id |-> n, kind |-> kind, r |-> r, body |-> body, old |-> old, pc |-> "handle"]
<1>1. /\ requests' = requests \cup {x} /\ count' = n /\ count < MaxRequests
      /\ UNCHANGED <<records, titles, first, trail>>
  BY DEF Audit!Intercept
<1>2. \A q \in requests : q.pc = "log"
  <2>1. Audit!Cardinality(Audit!Handled) = Cardinality(Audit!Handled)
    BY DEF Audit!Cardinality, Cardinality
  <2>2. \A p, q \in Audit!Handled : p = q
    BY DEF AuditInv, RequestsInv, Audit!Handled
  <2>3. Audit!Handled = {}
    BY <2>1, <2>2, LessThanOne DEF Audit!Intercept
  <2> QED
    BY <2>3 DEF Audit!Handled
<1>3. n \in 1 .. MaxRequests /\ count' \in 0 .. MaxRequests
  BY <1>1, BoundsAssumption DEF AuditInv, AuditTypes
<1>4. x \in Audit!Request /\ ReadOf(x, records, titles) /\ x.id = n /\ x.pc = "handle"
  BY <1>3
<1>5. \A q \in requests : q.id <= count /\ q.id \in Nat
  BY DEF AuditInv, AuditTypes, RequestsInv, Audit!Request
<1> HIDE DEF x
<1>6. AuditTypes'
  BY <1>1, <1>3, <1>4, FS_AddElement DEF AuditInv, AuditTypes
<1>7. RequestsInv(requests', count', records', titles')
  <2>1. \A p, q \in requests' : p.id = q.id => p = q
    BY <1>1, <1>4, <1>5 DEF AuditInv, AuditTypes, RequestsInv
  <2>2. \A p, q \in requests' : p.pc # "log" /\ q.pc # "log" => p = q
    BY <1>1, <1>2, <1>4
  <2>3. \A q \in requests' : q.id <= count' /\ ReadOf(q, records', titles')
    BY <1>1, <1>4, <1>5 DEF AuditInv, AuditTypes, RequestsInv
  <2> QED
    BY <2>1, <2>2, <2>3 DEF RequestsInv
<1>8. Balance(trail, requests', records, first)
  BY <1>1, <1>4, BalanceSame DEF AuditInv, Logs
<1> QED
  BY <1>1, <1>6, <1>7, <1>8 DEF AuditInv

\* The request that is handled goes on.
LEMMA RequestMoves ==
  ASSUME AuditInv, NEW q \in requests, q.pc # "log", NEW x \in Audit!Request, x.id = q.id, x.pc # "log",
         requests' = (requests \ {q}) \cup {x}, ReadOf(x, records, titles),
         UNCHANGED <<records, titles, first, trail, count>>
  PROVE  AuditInv'
<1>1. AuditTypes'
  BY FS_AddElement, FS_RemoveElement DEF AuditInv, AuditTypes
<1>2. RequestsInv(requests', count, records, titles)
  BY DEF AuditInv, RequestsInv
<1>3. Balance(trail, requests', records, first)
  BY BalanceSame DEF AuditInv, Logs
<1> QED
  BY <1>1, <1>2, <1>3 DEF AuditInv

\* A request ends without an entry, or with the entry of a failure.
LEMMA RequestEnds ==
  ASSUME AuditInv, NEW q \in requests, ~ Logs(q), requests' = requests \ {q},
         UNCHANGED <<records, titles, first, count>>,
         \/ UNCHANGED trail
         \/ \E e \in Audit!Entry : ~ e.ok /\ trail' = Append(trail, e)
  PROVE  AuditInv'
<1>1. trail \in Seq(Audit!Entry) /\ trail' \in Seq(Audit!Entry)
  BY DEF AuditInv, AuditTypes
<1>2. AuditTypes'
  BY <1>1, FS_RemoveElement DEF AuditInv, AuditTypes
<1>3. RequestsInv(requests', count, records, titles)
  BY DEF AuditInv, RequestsInv
<1>4. Balance(trail, requests', records, first)
  BY BalanceSame DEF AuditInv
<1>5. ASSUME NEW r \in Audit!Rows, NEW v \in Values
      PROVE  /\ Cardinality(IntoOf(trail', r, v)) = Cardinality(IntoOf(trail, r, v))
             /\ Cardinality(OutOf(trail', r, v)) = Cardinality(OutOf(trail, r, v))
  <2>1. CASE UNCHANGED trail
    BY <2>1
  <2>2. ASSUME NEW e \in Audit!Entry, ~ e.ok, trail' = Append(trail, e)
        PROVE  /\ Cardinality(IntoOf(trail', r, v)) = Cardinality(IntoOf(trail, r, v))
               /\ Cardinality(OutOf(trail', r, v)) = Cardinality(OutOf(trail, r, v))
    <3>1. Is(e.ok /\ e.r = r /\ e.new = v) = 0 /\ Is(e.ok /\ e.r = r /\ e.old = v) = 0
      BY <2>2 DEF Is
    <3> QED
      BY <1>1, <2>2, <3>1, EntryCounts, EntriesCounted
  <2> QED
    BY <2>1, <2>2
<1>6. Balance(trail', requests', records, first)
  <2> SUFFICES ASSUME NEW r \in Audit!Rows, NEW v \in Values
               PROVE  Cardinality(IntoOf(trail', r, v)) + Cardinality(Entering(requests', r, v))
                        - Cardinality(OutOf(trail', r, v)) - Cardinality(Leaving(requests', r, v))
                          = Is(records[r] = v) - Is(r \in Titles /\ first[r] = v)
    BY DEF Balance
  <2>1. Cardinality(IntoOf(trail, r, v)) + Cardinality(Entering(requests', r, v))
          - Cardinality(OutOf(trail, r, v)) - Cardinality(Leaving(requests', r, v))
            = Is(records[r] = v) - Is(r \in Titles /\ first[r] = v)
    BY <1>4 DEF Balance
  <2> QED
    BY <1>5, <2>1
<1> QED
  BY <1>2, <1>3, <1>6 DEF AuditInv

\* A request is written down: what was still to be counted is counted.
LEMMA RequestLogged ==
  ASSUME AuditInv, NEW q \in requests, Logs(q), requests' = requests \ {q},
         UNCHANGED <<records, titles, first, count>>,
         NEW e \in Audit!Entry, e.ok, e.r = q.r, e.old = q.old, e.new = q.body, trail' = Append(trail, e)
  PROVE  AuditInv'
<1>a. trail \in Seq(Audit!Entry) /\ IsFiniteSet(requests)
  BY DEF AuditInv, AuditTypes
<1>b. requests = (requests \ {q}) \cup {q} /\ trail' \in Seq(Audit!Entry)
  BY <1>a
<1>c. IsFiniteSet(requests \ {q})
  BY <1>a, FS_RemoveElement
<1>1. /\ trail \in Seq(Audit!Entry) /\ trail' \in Seq(Audit!Entry) /\ IsFiniteSet(requests)
      /\ IsFiniteSet(requests \ {q}) /\ requests = (requests \ {q}) \cup {q}
  BY <1>a, <1>b, <1>c
<1>2. AuditTypes'
  BY <1>1 DEF AuditInv, AuditTypes
<1>3. RequestsInv(requests', count, records, titles)
  BY DEF AuditInv, RequestsInv
<1>4. Balance(trail', requests', records, first)
  <2> SUFFICES ASSUME NEW r \in Audit!Rows, NEW v \in Values
               PROVE  Cardinality(IntoOf(trail', r, v)) + Cardinality(Entering(requests', r, v))
                        - Cardinality(OutOf(trail', r, v)) - Cardinality(Leaving(requests', r, v))
                          = Is(records[r] = v) - Is(r \in Titles /\ first[r] = v)
    BY DEF Balance
  <2> DEFINE a  == Is(q.r = r /\ q.body = v)
             b  == Is(q.r = r /\ q.old = v)
             i0 == Cardinality(IntoOf(trail, r, v))
             o0 == Cardinality(OutOf(trail, r, v))
             e1 == Cardinality(Entering(requests', r, v))
             l1 == Cardinality(Leaving(requests', r, v))
             w  == Is(records[r] = v) - Is(r \in Titles /\ first[r] = v)
  <2>1. Cardinality(IntoOf(trail', r, v)) = i0 + a /\ Cardinality(OutOf(trail', r, v)) = o0 + b
    <3>1. Is(e.ok /\ e.r = r /\ e.new = v) = a /\ Is(e.ok /\ e.r = r /\ e.old = v) = b
      BY DEF Is
    <3> QED
      BY <1>1, <3>1, EntryCounts
  <2>2. Cardinality(Entering(requests, r, v)) = e1 + a /\ Cardinality(Leaving(requests, r, v)) = l1 + b
    <3>1. q \notin requests'
      OBVIOUS
    <3>2. requests = requests' \cup {q} /\ IsFiniteSet(requests')
      BY <1>1
    <3> QED
      BY <3>1, <3>2, RequestCounts
  <2>3. i0 \in Nat /\ o0 \in Nat /\ e1 \in Nat /\ l1 \in Nat /\ a \in Nat /\ b \in Nat
    BY <1>1, EntriesCounted, RequestsCounted DEF Is
  <2>4. i0 + Cardinality(Entering(requests, r, v)) - o0 - Cardinality(Leaving(requests, r, v)) = w
    BY DEF AuditInv, Balance
  <2> HIDE DEF a, b, i0, o0, e1, l1, w
  <2>5. (i0 + a) + e1 - (o0 + b) - l1 = w
    BY <2>2, <2>3, <2>4
  <2> QED
    BY <2>1, <2>5 DEF e1, l1, w
<1> QED
  BY <1>2, <1>3, <1>4 DEF AuditInv

\* A row is written: the request is to be counted, unless it changes nothing or the row is
\* a title that is created.
LEMMA RowWritten ==
  ASSUME AuditInv, NEW q \in requests, q.pc # "log", NEW x \in Audit!Request, x.id = q.id, x.pc = "log",
         x.kind = q.kind, x.body = q.body, x.old = q.old, x.body \in Audit!Record,
         ReadOf(x, records, titles), requests' = (requests \ {q}) \cup {x},
         records' = [records EXCEPT ![x.r] = x.body], records[x.r] = x.old,
         UNCHANGED <<trail, count>>, first' \in [Titles -> Audit!Record], TitlesInv(records', titles', first'),
         \/ UNCHANGED first /\ (Logs(x) \/ x.old = x.body)
         \/ /\ ~ Logs(x) /\ x.old = NoValue /\ x.r \in Titles /\ first[x.r] = NoValue
            /\ first' = [first EXCEPT ![x.r] = x.body]
  PROVE  AuditInv'
<1>1. /\ records \in [Audit!Rows -> Audit!Record] /\ first \in [Titles -> Audit!Record]
      /\ IsFiniteSet(requests) /\ IsFiniteSet(requests \ {q}) /\ x.r \in Audit!Rows
  BY FS_RemoveElement DEF AuditInv, AuditTypes, Audit!Request
<1>2. AuditTypes'
  <2>1. IsFiniteSet(requests')
    BY <1>1, FS_AddElement
  <2>2. records' \in [Audit!Rows -> Audit!Record] /\ requests' \subseteq Audit!Request
    BY <1>1 DEF AuditInv, AuditTypes
  <2> QED
    BY <2>1, <2>2 DEF AuditInv, AuditTypes
<1>3. RequestsInv(requests', count, records', titles')
  <2>1. \A p \in requests' : p.pc = "log" /\ p.id <= count /\ (p = x \/ (p \in requests /\ ReadOf(p, records, titles)))
    BY DEF AuditInv, RequestsInv
  <2>2. \A p \in requests' : ReadOf(p, records', titles')
    BY <2>1 DEF ReadOf
  <2>3. \A p, s \in requests' : p.id = s.id => p = s
    BY DEF AuditInv, RequestsInv
  <2> QED
    BY <2>1, <2>2, <2>3 DEF RequestsInv
<1>4. Balance(trail, requests \ {q}, records, first)
  BY BalanceSame DEF AuditInv, Logs
<1>5. Balance(trail, requests', records', first')
  <2> SUFFICES ASSUME NEW r \in Audit!Rows, NEW v \in Values
               PROVE  Cardinality(IntoOf(trail, r, v)) + Cardinality(Entering(requests', r, v))
                        - Cardinality(OutOf(trail, r, v)) - Cardinality(Leaving(requests', r, v))
                          = Is(records'[r] = v) - Is(r \in Titles /\ first'[r] = v)
    BY DEF Balance
  <2> DEFINE i0 == Cardinality(IntoOf(trail, r, v))
             o0 == Cardinality(OutOf(trail, r, v))
             rest == requests \ {q}
             e0 == Cardinality(Entering(rest, r, v))
             l0 == Cardinality(Leaving(rest, r, v))
             a  == Is(x.r = r /\ x.body = v)
             b  == Is(x.r = r /\ x.old = v)
             w  == Is(records[r] = v)
             f  == Is(r \in Titles /\ first[r] = v)
  <2>1. i0 + e0 - o0 - l0 = w - f
    BY <1>4 DEF Balance
  <2>2. i0 \in Nat /\ o0 \in Nat /\ e0 \in Nat /\ l0 \in Nat
    BY <1>1, EntriesCounted, RequestsCounted DEF AuditInv, AuditTypes
  <2>2a. a \in Nat /\ b \in Nat /\ w \in Nat /\ f \in Nat
    BY DEF Is
  <2>3. Is(records'[r] = v) = w + a - b
    <3>1. CASE x.r = r
      <4>1. records'[r] = x.body /\ records[r] = x.old
        BY <1>1, <3>1
      <4> QED
        BY <3>1, <4>1 DEF Is
    <3>2. CASE x.r # r
      <4>1. records'[r] = records[r]
        BY <1>1, <3>2
      <4> QED
        BY <3>2, <4>1 DEF Is
    <3> QED
      BY <3>1, <3>2
  <2>4. v # NoValue
    BY AuditAssumption DEF NoValue, Audit!None
  <2>5. CASE UNCHANGED first /\ Logs(x)
    <3>1. x \notin rest
      BY DEF AuditInv, RequestsInv
    <3>2. /\ Cardinality(Entering(rest \cup {x}, r, v)) = e0 + a
          /\ Cardinality(Leaving(rest \cup {x}, r, v)) = l0 + b
      BY <1>1, <2>5, <3>1, RequestCounts
    <3>3. Is(r \in Titles /\ first'[r] = v) = f
      BY <2>5
    <3> HIDE DEF a, b, i0, o0, e0, l0, w, f
    <3>4. i0 + (e0 + a) - o0 - (l0 + b) = (w + a - b) - f
      BY <2>1, <2>2, <2>2a
    <3> QED
      BY <2>3, <3>2, <3>3, <3>4 DEF i0, o0
  <2>6. CASE ~ Logs(x)
    <3>1. Balance(trail, requests', records, first)
      BY <1>4, <2>6, BalanceSame
    <3>2. Cardinality(Entering(requests', r, v)) = e0 /\ Cardinality(Leaving(requests', r, v)) = l0
      <4>1. Entering(requests', r, v) = Entering(rest, r, v) /\ Leaving(requests', r, v) = Leaving(rest, r, v)
        BY <2>6 DEF Entering, Leaving
      <4> QED
        BY <4>1
    <3>3. CASE UNCHANGED first /\ x.old = x.body
      <4>1. a = b /\ Is(r \in Titles /\ first'[r] = v) = f
        BY <3>3
      <4> HIDE DEF a, b, i0, o0, e0, l0, w, f
      <4>2. i0 + e0 - o0 - l0 = (w + a - b) - f
        BY <2>1, <2>2, <2>2a, <4>1
      <4> QED
        BY <2>3, <3>2, <4>1, <4>2 DEF i0, o0
    <3>4. CASE /\ x.old = NoValue /\ x.r \in Titles /\ first[x.r] = NoValue
               /\ first' = [first EXCEPT ![x.r] = x.body]
      <4>1. b = 0
        BY <2>4, <3>4 DEF Is
      <4>2. Is(r \in Titles /\ first'[r] = v) = f + a
        <5>1. CASE x.r = r
          <6>1. first'[r] = x.body /\ first[r] = NoValue /\ r \in Titles
            BY <1>1, <3>4, <5>1
          <6> QED
            BY <2>4, <5>1, <6>1 DEF Is
        <5>2. CASE x.r # r
          <6>1. r \in Titles => first'[r] = first[r]
            BY <1>1, <3>4, <5>2
          <6> QED
            BY <5>2, <6>1 DEF Is
        <5> QED
          BY <5>1, <5>2
      <4> HIDE DEF a, b, i0, o0, e0, l0, w, f
      <4>3. i0 + e0 - o0 - l0 = (w + a - b) - (f + a)
        BY <2>1, <2>2, <2>2a, <4>1
      <4> QED
        BY <2>3, <3>2, <4>2, <4>3 DEF i0, o0
    <3> QED
      BY <2>6, <3>3, <3>4
  <2> QED
    BY <2>5, <2>6
<1> QED
  BY <1>2, <1>3, <1>5 DEF AuditInv

LEMMA Interceptions ==
  ASSUME AuditInv, NEW r \in Audit!Rows, NEW v \in Values,
         \/ r \in Expenses /\ (Audit!CreateExpense(r, v) \/ Audit!UpdateExpense(r, v))
         \/ r \in Titles /\ Audit!UpdateTitle(r, v)
  PROVE  AuditInv'
<1>types. /\ records[r] \in Audit!Record /\ NoValue \in Audit!Record /\ v \in Audit!Given \cup {Audit!None}
          /\ r \in Audit!Rows
  BY DEF AuditInv, AuditTypes, Audit!Record, Audit!Given, NoValue
<1>1. ASSUME NEW kind \in {"create", "update"}, NEW body, NEW old,
             Audit!Intercept(kind, r, body, old), old = records[r],
             \/ kind = "create" /\ body = v /\ old = NoValue /\ r \in Expenses
             \/ kind = "update" /\ body = v
      PROVE  AuditInv'
  <2>1. ASSUME NEW n \in 1 .. MaxRequests
        PROVE  LET x == [id |-> n, kind |-> kind, r |-> r, body |-> body, old |-> old, pc |-> "handle"]
               IN  x \in Audit!Request /\ ReadOf(x, records, titles)
    BY <1>types, <1>1 DEF Audit!Request, ReadOf
  <2> QED
    BY <1>1, <2>1, RequestComes
<1>2. CASE r \in Expenses /\ Audit!CreateExpense(r, v)
  BY <1>1, <1>2 DEF Audit!CreateExpense, NoValue
<1>3. CASE r \in Expenses /\ Audit!UpdateExpense(r, v)
  BY <1>1, <1>3 DEF Audit!UpdateExpense
<1>4. CASE r \in Titles /\ Audit!UpdateTitle(r, v)
  BY <1>1, <1>4 DEF Audit!UpdateTitle
<1> QED
  BY <1>2, <1>3, <1>4

LEMMA ExpenseDeleted ==
  ASSUME AuditInv, NEW r \in Expenses, Audit!DeleteExpense(r)
  PROVE  AuditInv'
<1>1. records[r] \in Audit!Record /\ NoValue \in Audit!Given \cup {Audit!None} /\ r \in Audit!Rows
  BY DEF AuditInv, AuditTypes, Audit!Rows, NoValue
<1>2. ASSUME NEW n \in 1 .. MaxRequests
      PROVE  LET x == [id |-> n, kind |-> "delete", r |-> r, body |-> NoValue, old |-> records[r], pc |-> "handle"]
             IN  x \in Audit!Request /\ ReadOf(x, records, titles)
  BY <1>1 DEF Audit!Request, ReadOf
<1>3. Audit!Intercept("delete", r, NoValue, records[r])
  BY DEF Audit!DeleteExpense, NoValue
<1> QED
  BY <1>2, <1>3, RequestComes

LEMMA UpsertComes ==
  ASSUME AuditInv, NEW v \in Values, Audit!UpsertTitle(v)
  PROVE  AuditInv'
<1>1. PICK r \in (IF titles = <<>> THEN Titles ELSE {s \in Titles : records[s] # NoValue}) :
        Audit!Intercept("upsert", r, v, records[r])
  BY DEF Audit!UpsertTitle, NoValue
<1>2. r \in Titles /\ r \in Audit!Rows /\ (titles = <<>> \/ r = titles[1])
  BY <1>1 DEF AuditInv, TitlesInv, Audit!Rows
<1>3. records[r] \in Audit!Record /\ v \in Audit!Given \cup {Audit!None}
  BY <1>2 DEF AuditInv, AuditTypes, Audit!Given
<1>4. ASSUME NEW n \in 1 .. MaxRequests
      PROVE  LET x == [id |-> n, kind |-> "upsert", r |-> r, body |-> v, old |-> records[r], pc |-> "handle"]
             IN  x \in Audit!Request /\ ReadOf(x, records, titles)
  BY <1>2, <1>3 DEF Audit!Request, ReadOf
<1> QED
  BY <1>1, <1>4, RequestComes

\* The request with another point it has come to.
LEMMA Repointed ==
  ASSUME NEW q \in Audit!Request, NEW pc \in {"existing", "new", "log", "failed"}, NEW r \in Audit!Rows
  PROVE  /\ [q EXCEPT !.pc = pc] \in Audit!Request
         /\ [q EXCEPT !.pc = pc, !.r = r] \in Audit!Request
<1>1. [q EXCEPT !.pc = pc] \in Audit!Request
  BY DEF Audit!Request
<1>2. [q EXCEPT !.pc = pc, !.r = r] \in Audit!Request
  BY DEF Audit!Request
<1> QED
  BY <1>1, <1>2

LEMMA RowHandled ==
  ASSUME AuditInv, NEW q \in requests, Audit!HandleRow(q)
  PROVE  AuditInv'
<1>types. /\ q \in Audit!Request /\ q.pc = "handle" /\ q.kind \in {"create", "update", "delete"}
          /\ UNCHANGED <<titles, first, trail, count>> /\ q.r \in Audit!Rows
          /\ ReadOf(q, records, titles) /\ q.body # Audit!Null
  <2>1. /\ q \in Audit!Request /\ q.pc = "handle" /\ q.kind \in {"create", "update", "delete"}
        /\ UNCHANGED <<titles, first, trail, count>> /\ ReadOf(q, records, titles)
    BY DEF AuditInv, AuditTypes, RequestsInv, Audit!HandleRow
  <2>2. q.r \in Audit!Rows
    BY <2>1 DEF Audit!Request
  <2>3. q.body # Audit!Null
    BY <2>1, AuditAssumption DEF ReadOf, Audit!Null, NoValue, Audit!None
  <2> QED
    BY <2>1, <2>2, <2>3
<1>1. CASE q.kind = "create" \/ records[q.r] # NoValue
  <2> DEFINE x == [q EXCEPT !.pc = "log"]
  <2>1. x \in Audit!Request
    BY <1>types, Repointed, Zenon
  <2>2. /\ x.id = q.id /\ x.pc = "log" /\ x.kind = q.kind /\ x.body = q.body /\ x.old = q.old /\ x.r = q.r
    BY <1>types DEF Audit!Request
  <2>3. records' = [records EXCEPT ![q.r] = q.body] /\ requests' = (requests \ {q}) \cup {x}
    BY <1>types, <1>1 DEF Audit!HandleRow, Audit!Goto, NoValue
  <2> HIDE DEF x
  <2>4. ReadOf(x, records, titles) /\ records[x.r] = x.old /\ x.body \in Audit!Record
    BY <1>types, <2>2 DEF ReadOf, Audit!Record, NoValue
  <2>5. Logs(x) \/ x.old = x.body
    BY <1>types, <1>1, <2>2, <2>4 DEF Logs, Audit!ComputeChanges, NoValue
  <2>6. TitlesInv(records', titles, first)
    <3>1. q.r \in Titles => q.body # NoValue /\ records[q.r] # NoValue
      BY <1>types, <1>1, AuditAssumption DEF ReadOf, NoValue, Audit!None
    <3>2. \A r \in Titles : r \in Audit!Rows
      BY DEF Audit!Rows
    <3>3. \A r \in Titles : records'[r] # NoValue <=> records[r] # NoValue
      BY <1>types, <2>3, <3>1, <3>2 DEF AuditInv, AuditTypes
    <3> QED
      BY <3>3 DEF AuditInv, TitlesInv
  <2> QED
    BY <1>types, <2>1, <2>2, <2>3, <2>4, <2>5, <2>6, RowWritten DEF AuditInv, AuditTypes
<1>2. CASE ~ (q.kind = "create" \/ records[q.r] # NoValue)
  <2> DEFINE x == [q EXCEPT !.pc = "failed"]
  <2>1. x \in Audit!Request
    BY <1>types, Repointed, Zenon
  <2>2. /\ x.id = q.id /\ x.pc = "failed" /\ x.kind = q.kind /\ x.body = q.body /\ x.old = q.old /\ x.r = q.r
    BY <1>types DEF Audit!Request
  <2>3. UNCHANGED records /\ requests' = (requests \ {q}) \cup {x}
    BY <1>types, <1>2 DEF Audit!HandleRow, Audit!Goto, NoValue
  <2> HIDE DEF x
  <2>4. ReadOf(x, records, titles)
    BY <1>types, <2>2 DEF ReadOf
  <2> QED
    BY <1>types, <2>1, <2>2, <2>3, <2>4, RequestMoves
<1> QED
  BY <1>1, <1>2

LEMMA UpsertsOK ==
  ASSUME AuditInv, NEW q \in requests,
         Audit!UpsertFind(q) \/ Audit!UpsertExisting(q) \/ Audit!UpsertNew(q)
  PROVE  AuditInv'
<1>types. /\ q \in Audit!Request /\ UNCHANGED <<trail, count>> /\ ReadOf(q, records, titles)
          /\ q.pc # "log" /\ q.r \in Titles /\ q.body \in Values /\ q.kind = "upsert"
          /\ Titles \subseteq Audit!Rows /\ q.body # NoValue /\ q.body \in Audit!Record
  <2>1. /\ q \in Audit!Request /\ UNCHANGED <<trail, count>> /\ ReadOf(q, records, titles)
        /\ q.pc \in {"handle", "existing", "new"} /\ (q.pc = "handle" => q.kind = "upsert")
    BY DEF AuditInv, AuditTypes, RequestsInv, Audit!UpsertFind, Audit!UpsertExisting, Audit!UpsertNew
  <2>2. q.kind = "upsert" /\ q.r \in Titles /\ q.body \in Values
    BY <2>1 DEF ReadOf
  <2> QED
    BY <2>1, <2>2, AuditAssumption DEF Audit!Rows, Audit!Record, NoValue, Audit!None
<1>1. CASE Audit!UpsertFind(q)
  <2>1. UNCHANGED <<records, titles, first>> /\ q.pc = "handle" /\ q.old = records[q.r]
    BY <1>types, <1>1 DEF Audit!UpsertFind, ReadOf
  <2>2. CASE titles = <<>>
    <3> DEFINE x == [q EXCEPT !.pc = "new"]
    <3>1. x \in Audit!Request
      BY <1>types, Repointed, Zenon
    <3>2. /\ x.id = q.id /\ x.pc = "new" /\ x.kind = q.kind /\ x.body = q.body /\ x.old = q.old /\ x.r = q.r
      BY <1>types DEF Audit!Request
    <3>3. requests' = (requests \ {q}) \cup {x}
      BY <1>1, <2>2 DEF Audit!UpsertFind
    <3>4. records[q.r] = NoValue
      BY <1>types, <2>2 DEF AuditInv, TitlesInv
    <3> HIDE DEF x
    <3>5. ReadOf(x, records, titles)
      BY <1>types, <2>1, <2>2, <3>2, <3>4 DEF ReadOf
    <3> QED
      BY <1>types, <2>1, <3>1, <3>2, <3>3, <3>5, RequestMoves
  <2>3. CASE titles # <<>>
    <3> DEFINE t == titles[Len(titles)]
               x == [q EXCEPT !.pc = "existing", !.r = t]
    <3>1. Len(titles) = 1 /\ t \in Titles /\ t = titles[1] /\ q.r = t
      BY <1>types, <2>1, <2>3 DEF AuditInv, TitlesInv, ReadOf
    <3>2. requests' = (requests \ {q}) \cup {x}
      BY <1>1, <2>3 DEF Audit!UpsertFind
    <3> HIDE DEF t
    <3>3. x \in Audit!Request
      BY <1>types, <3>1, Repointed, Zenon
    <3>4. /\ x.id = q.id /\ x.pc = "existing" /\ x.kind = q.kind /\ x.body = q.body /\ x.old = q.old /\ x.r = t
      BY <1>types DEF Audit!Request
    <3> HIDE DEF x
    <3>5. ReadOf(x, records, titles)
      BY <1>types, <2>1, <3>1, <3>4 DEF ReadOf
    <3> QED
      BY <1>types, <2>1, <3>2, <3>3, <3>4, <3>5, RequestMoves
  <2> QED
    BY <2>2, <2>3
<1>2. CASE Audit!UpsertExisting(q)
  <2> DEFINE x == [q EXCEPT !.pc = "log"]
  <2>1. x \in Audit!Request
    BY <1>types, Repointed, Zenon
  <2>2. /\ x.id = q.id /\ x.pc = "log" /\ x.kind = q.kind /\ x.body = q.body /\ x.old = q.old /\ x.r = q.r
    BY <1>types DEF Audit!Request
  <2>3. /\ records' = [records EXCEPT ![q.r] = q.body] /\ requests' = (requests \ {q}) \cup {x}
        /\ UNCHANGED <<titles, first>> /\ q.pc = "existing"
    BY <1>2 DEF Audit!UpsertExisting, Audit!Goto
  <2> HIDE DEF x
  <2>4. Len(titles) = 1 /\ q.r = titles[1] /\ records[q.r] # NoValue /\ q.old = records[q.r]
    BY <1>types, <2>3 DEF ReadOf, AuditInv, TitlesInv
  <2>5. ReadOf(x, records, titles) /\ records[x.r] = x.old
    BY <1>types, <2>2, <2>4 DEF ReadOf
  <2>6. Logs(x) \/ x.old = x.body
    BY <1>types, <2>2, <2>4 DEF Logs, Audit!ComputeChanges, NoValue
  <2>7. TitlesInv(records', titles', first')
    <3>1. \A r \in Titles : records'[r] # NoValue <=> records[r] # NoValue
      BY <1>types, <2>3, <2>4 DEF AuditInv, AuditTypes
    <3> QED
      BY <2>3, <3>1 DEF AuditInv, TitlesInv
  <2> QED
    BY <1>types, <2>1, <2>2, <2>3, <2>5, <2>6, <2>7, RowWritten DEF AuditInv, AuditTypes
<1>3. CASE Audit!UpsertNew(q)
  <2>1. PICK r \in Titles :
          /\ records[r] = NoValue /\ records' = [records EXCEPT ![r] = q.body]
          /\ titles' = Append(titles, r) /\ first' = [first EXCEPT ![r] = q.body]
          /\ requests' = (requests \ {q}) \cup {[q EXCEPT !.pc = "log", !.r = r]}
    BY <1>3 DEF Audit!UpsertNew, NoValue
  <2> DEFINE x == [q EXCEPT !.pc = "log", !.r = r]
  <2>2. x \in Audit!Request
    BY <1>types, Repointed, Zenon
  <2>3. /\ x.id = q.id /\ x.pc = "log" /\ x.kind = q.kind /\ x.body = q.body /\ x.old = q.old /\ x.r = r
    BY <1>types DEF Audit!Request
  <2>4. requests' = (requests \ {q}) \cup {x}
    BY <2>1
  <2> HIDE DEF x
  <2>5. q.pc = "new" /\ titles = <<>> /\ q.old = NoValue
    BY <1>types, <1>3 DEF Audit!UpsertNew, ReadOf
  <2>6. ReadOf(x, records, titles) /\ records[x.r] = x.old
    BY <1>types, <2>1, <2>3, <2>5 DEF ReadOf
  <2>7. ~ Logs(x) /\ x.old = NoValue
    BY <1>types, <2>3, <2>5 DEF Logs, Audit!ComputeChanges, NoValue
  <2>8. /\ first' \in [Titles -> Audit!Record] /\ first[r] = NoValue
        /\ \A s \in Titles : first'[s] = IF s = r THEN q.body ELSE first[s]
        /\ \A s \in Titles : records'[s] = IF s = r THEN q.body ELSE records[s]
    BY <1>types, <2>1 DEF AuditInv, AuditTypes, TitlesInv
  <2>9. TitlesInv(records', titles', first')
    <3>1. titles' = <<r>>
      BY <2>1, <2>5
    <3>2. \A s \in Titles : records[s] = NoValue /\ first[s] = NoValue
      BY <2>5 DEF AuditInv, TitlesInv
    <3>3. titles' \in Seq(Titles) /\ Len(titles') = 1 /\ titles'[1] = r
      BY <3>1
    <3> QED
      BY <1>types, <2>8, <3>2, <3>3 DEF TitlesInv
  <2> QED
    BY <1>types, <2>1, <2>2, <2>3, <2>4, <2>6, <2>7, <2>8, <2>9, RowWritten
<1> QED
  BY <1>1, <1>2, <1>3

LEMMA LogsOK ==
  ASSUME AuditInv, NEW q \in requests,
         Audit!LogSuccess(q) \/ Audit!LogFailure(q) \/ Audit!LogLost(q)
  PROVE  AuditInv'
<1>types. /\ q \in Audit!Request /\ requests' = requests \ {q} /\ UNCHANGED <<records, titles, first, count>>
          /\ ReadOf(q, records, titles)
          /\ q.id \in 1 .. MaxRequests /\ q.r \in Audit!Rows /\ q.old \in Audit!Record
  BY DEF AuditInv, AuditTypes, RequestsInv, Audit!Request, Audit!LogSuccess, Audit!LogFailure, Audit!LogLost,
         Audit!Done
<1>1. CASE Audit!LogSuccess(q) /\ Audit!ComputeChanges(q)
  <2> DEFINE e == [id |-> q.id, r |-> q.r, old |-> q.old, new |-> q.body, ok |-> TRUE]
  <2>1. trail' = Append(trail, e) /\ Logs(q)
    BY <1>1 DEF Audit!LogSuccess, Audit!Write, Logs
  <2>2. q.body \in Audit!Record
    BY <1>types DEF Audit!Request, Audit!Record, Audit!Given
  <2>3. e \in Audit!Entry /\ e.ok /\ e.r = q.r /\ e.old = q.old /\ e.new = q.body
    BY <1>types, <2>2 DEF Audit!Entry
  <2> HIDE DEF e
  <2> QED
    BY <1>types, <2>1, <2>3, RequestLogged
<1>2. CASE Audit!LogSuccess(q) /\ ~ Audit!ComputeChanges(q)
  <2>1. UNCHANGED trail /\ ~ Logs(q)
    BY <1>2 DEF Audit!LogSuccess, Logs
  <2> QED
    BY <1>types, <2>1, RequestEnds
<1>3. CASE Audit!LogFailure(q)
  <2> DEFINE e == [id |-> q.id, r |-> q.r, old |-> NoValue, new |-> NoValue, ok |-> FALSE]
  <2>1. trail' = Append(trail, e) /\ ~ Logs(q)
    BY <1>3 DEF Audit!LogFailure, Audit!Write, Logs, NoValue
  <2>2. e \in Audit!Entry /\ ~ e.ok
    BY <1>types DEF Audit!Entry, Audit!Record, NoValue
  <2> HIDE DEF e
  <2> QED
    BY <1>types, <2>1, <2>2, RequestEnds
<1>4. CASE Audit!LogLost(q)
  <2>1. UNCHANGED trail /\ ~ Logs(q)
    BY <1>4 DEF Audit!LogLost, Logs
  <2> QED
    BY <1>types, <2>1, RequestEnds
<1> QED
  BY <1>1, <1>2, <1>3, <1>4

LEMMA GivenValues == Audit!Given = Values
BY DEF Audit!Given

LEMMA AuditStep ==
  ASSUME AuditInv, Audit!Next
  PROVE  AuditInv'
<1>1. ASSUME NEW r \in Expenses, NEW v \in Values, Audit!CreateExpense(r, v) \/ Audit!UpdateExpense(r, v)
      PROVE  AuditInv'
  BY <1>1, Interceptions DEF Audit!Rows
<1>2. ASSUME NEW r \in Expenses, Audit!DeleteExpense(r)
      PROVE  AuditInv'
  BY <1>2, ExpenseDeleted
<1>3. ASSUME NEW r \in Titles, NEW v \in Values, Audit!UpdateTitle(r, v)
      PROVE  AuditInv'
  BY <1>3, Interceptions DEF Audit!Rows
<1>4. ASSUME NEW v \in Values, Audit!UpsertTitle(v)
      PROVE  AuditInv'
  BY <1>4, UpsertComes
<1>5. ASSUME NEW q \in requests, Audit!Step(q)
      PROVE  AuditInv'
  BY <1>5, RowHandled, UpsertsOK, LogsOK DEF Audit!Step
<1>6. CASE Audit!Rest
  <2>1. UNCHANGED <<records, titles, first, trail, requests, count>>
    BY <1>6 DEF Audit!Rest, Audit!vars
  <2> QED
    BY <2>1, AuditStays
<1>7. CASE \E r \in Expenses : (\E v \in Values : Audit!CreateExpense(r, v))
                           \/ (\E v \in Audit!Given : Audit!UpdateExpense(r, v)) \/ Audit!DeleteExpense(r)
  BY <1>1, <1>2, <1>7, GivenValues
<1> QED
  BY <1>3, <1>4, <1>5, <1>6, <1>7, Zenon DEF Audit!Next

-----------------------------------------------------------------------------
(* The members: what TenantMembershipProofs proves, of the module as it is an instance here *)

\* The two instances are of one module: their definitions say the same.
LEMMA SameStep == Membership!Next => MembershipProofs!Next
BY Zenon DEF Membership!OwnerKinds, Membership!Absent, Membership!Creating, Membership!Row,
    Membership!IsOwner, Membership!Active, Membership!Others, Membership!Done, Membership!Goto,
    Membership!At, Membership!SameRow, Membership!Write, Membership!Unchecked,
    Membership!Invited, Membership!Begin, Membership!Check, Membership!Change,
    Membership!Verify, Membership!AddCheck, Membership!AddWrite, Membership!UpdateCheck,
    Membership!UpdateWrite, Membership!RemoveCheck, Membership!RemoveWrite,
    Membership!TransferCheck, Membership!TransferWrite, Membership!InviteCheck,
    Membership!Reinvite, Membership!InviteWrite, Membership!ResendCheck, Membership!ResendWrite,
    Membership!RevokeCheck, Membership!RevokeWrite, Membership!SignIn, Membership!AcceptRead,
    Membership!Accepted, Membership!AcceptWrite, Membership!Settled, Membership!AcceptSettle,
    Membership!RegisterRead, Membership!RegisterCommit, Membership!RegisterFail,
    Membership!Crash, Membership!Step, Membership!Next, Membership!Cardinality,
    Membership!Writes, Membership!Changeable, Membership!Eligible, Membership!Unaccepted,
    MembershipProofs!OwnerKinds, MembershipProofs!Absent, MembershipProofs!Creating,
    MembershipProofs!Row, MembershipProofs!IsOwner, MembershipProofs!Active,
    MembershipProofs!Others, MembershipProofs!Done, MembershipProofs!Goto, MembershipProofs!At,
    MembershipProofs!SameRow, MembershipProofs!Write, MembershipProofs!Unchecked,
    MembershipProofs!Invited, MembershipProofs!Begin, MembershipProofs!Check,
    MembershipProofs!Change, MembershipProofs!Verify, MembershipProofs!AddCheck,
    MembershipProofs!AddWrite, MembershipProofs!UpdateCheck, MembershipProofs!UpdateWrite,
    MembershipProofs!RemoveCheck, MembershipProofs!RemoveWrite, MembershipProofs!TransferCheck,
    MembershipProofs!TransferWrite, MembershipProofs!InviteCheck, MembershipProofs!Reinvite,
    MembershipProofs!InviteWrite, MembershipProofs!ResendCheck, MembershipProofs!ResendWrite,
    MembershipProofs!RevokeCheck, MembershipProofs!RevokeWrite, MembershipProofs!SignIn,
    MembershipProofs!AcceptRead, MembershipProofs!Accepted, MembershipProofs!AcceptWrite,
    MembershipProofs!Settled, MembershipProofs!AcceptSettle, MembershipProofs!RegisterRead,
    MembershipProofs!RegisterCommit, MembershipProofs!RegisterFail, MembershipProofs!Crash,
    MembershipProofs!Step, MembershipProofs!Next, MembershipProofs!Cardinality,
    MembershipProofs!Writes, MembershipProofs!Changeable, MembershipProofs!Eligible,
    MembershipProofs!Unaccepted

LEMMA SameInit == Membership!Init => MembershipProofs!Init
BY DEF Membership!Init, Membership!Absent, MembershipProofs!Init, MembershipProofs!Absent

LEMMA SameTypes == MembershipProofs!TypeOK => Membership!TypeOK
BY DEF Membership!TypeOK, Membership!Row, Membership!Absent, Membership!Member, Membership!Ids,
       Membership!Statuses, Membership!Task, Membership!Kinds, Membership!OwnerKinds,
       Membership!Points,
       MembershipProofs!TypeOK, MembershipProofs!Row, MembershipProofs!Absent,
       MembershipProofs!Member, MembershipProofs!Ids, MembershipProofs!Statuses,
       MembershipProofs!Task, MembershipProofs!Kinds, MembershipProofs!OwnerKinds,
       MembershipProofs!Points

LEMMA SameSettled ==
  /\ MembershipProofs!OwnedUnlessStale => Membership!OwnedUnlessStale
  /\ MembershipProofs!ActiveHasAccount => Membership!ActiveHasAccount
  /\ MembershipProofs!InvitationSettled => Membership!InvitationSettled
BY DEF Membership!OwnedUnlessStale, Membership!OneOwner, Membership!OwnerIsActive,
       Membership!ActiveHasAccount,
       Membership!InvitationSettled, Membership!IsOwner, Membership!Active, Membership!Row,
       Membership!At, Membership!Cardinality,
       MembershipProofs!OwnedUnlessStale, MembershipProofs!OneOwner,
       MembershipProofs!OwnerIsActive,
       MembershipProofs!ActiveHasAccount, MembershipProofs!InvitationSettled,
       MembershipProofs!IsOwner, MembershipProofs!Active, MembershipProofs!Row,
       MembershipProofs!At, MembershipProofs!Cardinality

MembersInv == MembershipProofs!IndInv

LEMMA MembersTypes == MembersInv => Membership!TypeOK /\ Membership!ActiveHasAccount
BY BoundsAssumption, MembershipProofs!IndInvTypes, SameTypes, SameSettled DEF MembersInv

LEMMA MembersInit == Membership!Init => MembersInv
BY UsersAssumption, BoundsAssumption, MembershipProofs!InitOK, SameInit DEF MembersInv

LEMMA MembersStay ==
  ASSUME MembersInv, UNCHANGED membershipVars
  PROVE  MembersInv'
BY BoundsAssumption, MembershipProofs!NextOK
DEF MembersInv, membershipVars, MembershipProofs!vars

LEMMA MembersStep ==
  ASSUME MembersInv, Membership!Next
  PROVE  MembersInv'
BY BoundsAssumption, MembershipProofs!NextOK, SameStep DEF MembersInv

\* There is an owner, unless a write was stale, and invitations are settled.
SettledInv == MembershipProofs!OwnedInv /\ MembershipProofs!InvitationSettled

LEMMA SettledTypes == MembersInv /\ SettledInv =>
  /\ Membership!OwnedUnlessStale
  /\ Membership!ActiveHasAccount /\ Membership!InvitationSettled
BY MembersTypes, MembershipProofs!OwnedMeans, SameSettled DEF SettledInv

LEMMA SettledInit == Membership!Init => SettledInv
BY UsersAssumption, MembershipProofs!OwnedInit, MembershipProofs!SettledInit, SameInit
DEF SettledInv

LEMMA SettledStep ==
  ASSUME MembersInv, SettledInv, "accept" \notin Crashing,
         Membership!Next \/ UNCHANGED membershipVars
  PROVE  SettledInv'
<1>1. [MembershipProofs!Next]_MembershipProofs!vars
  BY SameStep DEF membershipVars, MembershipProofs!vars
<1>2. MembershipProofs!RowsInv
  BY DEF MembersInv, MembershipProofs!IndInv
<1>3. MembershipProofs!OwnedInv'
  BY <1>1, <1>2, MembershipProofs!OwnerNext DEF SettledInv
<1>4. MembershipProofs!InvitationSettled'
  BY <1>1, <1>2, MembershipProofs!SettledNext DEF SettledInv
<1> QED
  BY <1>3, <1>4 DEF SettledInv

-----------------------------------------------------------------------------
(* All components: each keeps its invariant, and the others do not touch its variables *)

AdministrationInv ==
  /\ MembersInv /\ ProfileInv /\ NumbersInv /\ AccountedInv /\ FlowsInv /\ RolesInv
  /\ AccountsInv /\ CatalogInv /\ AuditInv /\ RecordsInv

LEMMA AdministrationInit == Init => AdministrationInv
BY MembersInit, ProfileInit, NumbersInit, AccountedInit, FlowsInit, RolesInit, AccountsInit, CatalogInit,
   AuditInit, RecordsInit
DEF Init, AdministrationInv

\* A step is one of a component, or leaves it alone.
LEMMA OneComponentSteps ==
  ASSUME [Next]_vars
  PROVE  /\ Membership!Next \/ UNCHANGED membershipVars
         /\ Profile!Next \/ UNCHANGED profileVars
         /\ Phones!Next \/ UNCHANGED numbersVars
         /\ CallTrees!Next \/ UNCHANGED flowsVars
         /\ RoleTable!Next \/ UNCHANGED rolesVars
         /\ Accounts!Next \/ UNCHANGED accountVars
         /\ Catalog!Next \/ UNCHANGED catalogVars
         /\ Audit!Next \/ UNCHANGED auditVars
         /\ Records!Next \/ UNCHANGED recordVars
BY DEF Next, vars, Members, ProfileNext, NumbersNext, FlowsNext, RolesNext, AccountsNext,
       CatalogNext, AuditNext, RecordsNext

LEMMA AdministrationStep ==
  ASSUME AdministrationInv, [Next]_vars
  PROVE  AdministrationInv'
<1>1. MembersInv'
  BY OneComponentSteps, MembersStep, MembersStay DEF AdministrationInv
<1>2. ProfileInv'
  BY OneComponentSteps, ProfileStep, ProfileStays DEF AdministrationInv
<1>3. NumbersInv' /\ AccountedInv'
  BY OneComponentSteps, NumbersStep, NumbersStay, AccountedStep, AccountedStays DEF AdministrationInv
<1>4. FlowsInv'
  BY OneComponentSteps, FlowsStep, FlowsStay DEF AdministrationInv
<1>5. RolesInv'
  BY OneComponentSteps, RolesStep, RolesStay DEF AdministrationInv
<1>6. AccountsInv'
  BY OneComponentSteps, AccountsStep, AccountsStay DEF AdministrationInv
<1>7. CatalogInv'
  BY OneComponentSteps, CatalogStep, CatalogStays DEF AdministrationInv
<1>8. AuditInv'
  BY OneComponentSteps, AuditStep, AuditStays DEF AdministrationInv, auditVars
<1>9. RecordsInv'
  BY OneComponentSteps, RecordsStep, RecordsStay DEF AdministrationInv, recordVars
<1> QED
  BY <1>1, <1>2, <1>3, <1>4, <1>5, <1>6, <1>7, <1>8, <1>9 DEF AdministrationInv

LEMMA AdministrationAlways == Spec => []AdministrationInv
<1>1. AdministrationInv /\ [Next]_vars => AdministrationInv'
  BY AdministrationStep
<1> HIDE DEF AdministrationInv
<1> QED
  BY <1>1, AdministrationInit, PTL DEF Spec

\* The rows and requests of the nine components have their types, whatever requests overlap in
\* them and wherever they fail.
THEOREM TypeCorrect == Spec => []TypeOK
<1>1. AdministrationInv => TypeOK
  BY MembersTypes, ProfileTypes, NumbersTypes, FlowsTypes, RolesTypes, AccountsTypes,
     CatalogTypes, AuditTypesHold, RecordsTypes
  DEF AdministrationInv, TypeOK
<1> QED
  BY <1>1, AdministrationAlways, PTL

\* tenant.service.ts: there is one owner, who is active, until a request of the owner writes what
\* its checks would no longer allow; who is active has an account and has accepted, unless the
\* server stops in the middle of acceptInvitation.
THEOREM MembershipSettledCorrect ==
  ASSUME "accept" \notin Crashing
  PROVE  Spec => []MembershipSettled
<1> DEFINE Inv == AdministrationInv /\ SettledInv
<1>1. Init => Inv
  BY AdministrationInit, SettledInit DEF Init
<1>2. Inv /\ [Next]_vars => Inv'
  BY OneComponentSteps, AdministrationStep, SettledStep DEF AdministrationInv
<1>3. Inv => MembershipSettled
  BY SettledTypes DEF AdministrationInv, MembershipSettled
<1> HIDE DEF Inv
<1> QED
  BY <1>1, <1>2, <1>3, PTL DEF Spec

\* cognito-jwt.guard.ts, registerAndAcceptInvitation: whatever sign-ins, invitations and
\* registrations overlap and fail, a user comes to an account by a sign-in with it that names the
\* user's address, or by a registration of the address's person; the account is there, and no
\* other user has it.
THEOREM AccountsAsClaimedCorrect == Spec => AccountsAsClaimed
<1>1. AdministrationInv /\ [Next]_vars => [Accounts!AsClaimed]_Accounts!vars
  <2> SUFFICES ASSUME AdministrationInv, [Next]_vars
               PROVE  [Accounts!AsClaimed]_Accounts!vars
    OBVIOUS
  <2>1. Accounts!Next \/ UNCHANGED accountVars
    BY OneComponentSteps
  <2> QED
    BY <2>1, AccountsClaim DEF AdministrationInv, accountVars, Accounts!vars
<1> QED
  BY <1>1, AdministrationAlways, PTL DEF Spec, AccountsAsClaimed, Accounts!AccountsAsClaimed

\* tenant.service.ts, update: whatever updates, joins and renames overlap and stop, every member's
\* address is its username at the subdomain of the tenant, or an update to that subdomain goes on to
\* make it so, but for the rows that were written from what others had changed, or given up.
THEOREM EmailsFollowCorrect == Spec => []EmailsFollow
<1> DEFINE Inv == AdministrationInv /\ FollowInv
<1>1. Init => Inv
  BY AdministrationInit, FollowInit DEF Init
<1>2. Inv /\ [Next]_vars => Inv'
  BY OneComponentSteps, AdministrationStep, FollowStep, FollowStays DEF AdministrationInv
<1>3. Inv => EmailsFollow
  BY FollowTypes DEF EmailsFollow
<1> HIDE DEF Inv
<1> QED
  BY <1>1, <1>2, <1>3, PTL DEF Spec

\* purchasePhoneNumber, deletePhoneNumber: whatever purchases, updates and releases overlap and
\* fail, a number that is paid for has webhooks that name its own row, or is being bought, and the
\* number of a row is paid for with the row's SID, or is being deleted, but for the purchases and
\* releases of which the second step has failed.
THEOREM NumbersAccountedCorrect == Spec => []NumbersAccounted
<1>1. AdministrationInv => NumbersAccounted
  BY NumbersTypes DEF AdministrationInv, NumbersAccounted
<1> QED
  BY <1>1, AdministrationAlways, PTL

\* call-flow.service.ts: every flow that is stored has unique ids, steps under menus only and
\* audio for what it says.
THEOREM StoredIsPlayableCorrect == Spec => []StoredIsPlayable
<1>1. AdministrationInv => StoredIsPlayable
  BY FlowsTypes DEF AdministrationInv, StoredIsPlayable
<1> QED
  BY <1>1, AdministrationAlways, PTL

\* roles.service.ts, update: whatever requests overlap and stop, a role grants what it was last
\* told to, or waits to be filled, but for one that two updates have filled one over the other
\* or one has left cleared.
THEOREM GrantsAsAskedCorrect == Spec => []GrantsAsAsked
<1> DEFINE Inv == AdministrationInv /\ GrantsInv
<1>1. Init => Inv
  BY AdministrationInit, GrantsInit DEF Init
<1>2. Inv /\ [Next]_vars => Inv'
  BY OneComponentSteps, AdministrationStep, GrantsStep, GrantsStay DEF AdministrationInv
<1>3. Inv => GrantsAsAsked
  BY GrantsTypes DEF GrantsAsAsked
<1> HIDE DEF Inv
<1> QED
  BY <1>1, <1>2, <1>3, PTL DEF Spec

\* parts.service.ts, removeCondition and create: every part has a condition that its tenant sees, and
\* no tenant has two of one name, whatever requests overlap.
THEOREM PartsAreGradedCorrect == Spec => []PartsAreGraded
<1>1. AdministrationInv => PartsAreGraded
  BY CatalogTypes DEF AdministrationInv, PartsAreGraded
<1> QED
  BY <1>1, AdministrationAlways, PTL

\* audit-log.interceptor.ts: when nothing is left to log, the entries about a record lead from
\* what it was first to what it is, in whatever order they were written.
THEOREM TrailAddsUpCorrect == Spec => []TrailAddsUp
<1>1. AdministrationInv => TrailAddsUp
  BY AuditTypesHold DEF AdministrationInv, TrailAddsUp
<1> QED
  BY <1>1, AdministrationAlways, PTL

\* email-messages.service.ts, tasks.service.ts: messages are of buyers, and tasks for members, of
\* their own tenant, which is looked up before they are written.
THEOREM RecordsStayHomeCorrect == Spec => []RecordsStayHome
<1>1. AdministrationInv => RecordsStayHome
  BY RecordsTypes DEF AdministrationInv, RecordsStayHome
<1> QED
  BY <1>1, AdministrationAlways, PTL

\* tasks.service.ts, update: whatever requests overlap, an open task comes by a time of completion
\* only when an update writes that has read a status which another one has changed since.
THEOREM ReopenedIsOpenCorrect == Spec => ReopenedIsOpen
<1>1. AdministrationInv /\ [Next]_vars => [Records!Reopens]_Records!vars
  BY OneComponentSteps, RecordsReopen DEF AdministrationInv, recordVars, Records!vars
<1> QED
  BY <1>1, AdministrationAlways, PTL DEF Spec, ReopenedIsOpen, Records!ReopenedIsOpen
=============================================================================
