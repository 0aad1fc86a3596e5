-------------------------- MODULE TenantMembership --------------------------
(***************************************************************************)
(* The members of one tenant: who owns it, who has been invited, who has   *)
(* accepted, who has been removed (tenant.service.ts).                     *)
(*                                                                         *)
(* An operation of the owner verifies that the requesting user owns the    *)
(* tenant, then reads the row of the user it is about, then writes; other  *)
(* requests are handled in between.  A row is found again by its user or   *)
(* by its id, which tells a row from one that was deleted and created anew.*)
(***************************************************************************)
EXTENDS Naturals, FiniteSets

CONSTANTS
  Users,
  Creator,        \* the user who created the tenant
  MaxRows,        \* bound: the rows of tenant_users that are created
  InFlight,       \* how many requests may be handled at once
  OwnerInFlight,  \* how many of them may be the owner's
  Crashing        \* the kinds of requests in whose middle the server may stop

OwnerKinds == {"add", "update", "remove", "transfer", "invite", "resend", "revoke"}
Kinds      == OwnerKinds \cup {"accept", "register"}

VARIABLES
  member,      \* tenant_users: the row of every user, if there is one
  invitation,  \* tenant_invitations: the status of the row of the user's e-mail
  registered,  \* the users with an account (cognitoSub)
  rows,        \* rows created so far: the next one gets a new id
  tasks,       \* the requests being handled
  stale        \* history: an owner's request has written what its checks would now refuse

vars == <<member, invitation, registered, rows, tasks, stale>>

Ids      == 0 .. MaxRows
Statuses == {"pending", "active", "removed"}
\* `invited`: the row holds an invitation code that has not been used up.
Member   == [id : Ids, role : {"owner", "staff"}, status : Statuses,
             isActive : BOOLEAN, invited : BOOLEAN]
Absent   == [id |-> 0, role |-> "staff", status |-> "removed",
             isActive |-> FALSE, invited |-> FALSE]

Creating == {"add", "invite"}  \* they create a row, of which there are at most MaxRows
Points == {"check", "write", "reinvite", "settle"}
Task   == [kind : Kinds, by : Users, user : Users, pc : Points, id : Ids]

Row(u)      == member[u].id # 0
IsOwner(u)  == Row(u) /\ member[u].role = "owner"
Active(u)   == Row(u) /\ member[u].status = "active"
Others(t)   == tasks \ {t}
Done(t)     == tasks' = Others(t)
Goto(t, pc) == tasks' = Others(t) \cup {[t EXCEPT !.pc = pc, !.id = member[t.user].id]}
At(t, kind, pc) == t.kind = kind /\ t.pc = pc
\* The row that the handler has read is still there.
SameRow(t)  == Row(t.user) /\ member[t.user].id = t.id
Write(u, r) == member' = [member EXCEPT ![u] = r]
Unchecked   == UNCHANGED <<member, invitation, registered, rows, stale>>
Invited(id) == [id |-> id, role |-> "staff", status |-> "pending",
                isActive |-> FALSE, invited |-> TRUE]

Begin(kind, by, u, pc) ==
  /\ Cardinality(tasks) < InFlight
  /\ tasks' = tasks \cup {[kind |-> kind, by |-> by, user |-> u, pc |-> pc,
                           id |-> IF pc = "check" THEN 0 ELSE member[u].id]}
  /\ Unchecked

\* A request of the owner writes: do verifyOwnership and its own check still hold?
Writes(t, ok) == stale' = (stale \/ ~ IsOwner(t.by) \/ ~ ok)

\* The check of an operation on a member: go on when `ok`, else throw.
Check(t, kind, ok) ==
  /\ At(t, kind, "check")
  /\ IF ok THEN Goto(t, "write") ELSE Done(t)
  /\ Unchecked

\* The write of an operation on a row that must still be there, else it throws; `ok` is
\* what its check has asked for.
Change(t, kind, there, ok, row) ==
  /\ At(t, kind, "write")
  /\ IF there THEN Write(t.user, row) /\ Writes(t, ok) ELSE UNCHANGED <<member, stale>>
  /\ Done(t)
  /\ UNCHANGED <<invitation, registered, rows>>

-----------------------------------------------------------------------------
\* The operations of the owner.

\* verifyOwnership, the first thing every one of them does.
Verify(kind, by, u) ==
  /\ Cardinality({t \in tasks : t.kind \in OwnerKinds}) < OwnerInFlight
  /\ kind \in Creating =>
       rows + Cardinality({t \in tasks : t.kind \in Creating}) < MaxRows
  /\ IsOwner(by)
  /\ Begin(kind, by, u, "check")

\* addUserToTenant: the row's status is the column's default, 'pending'.
AddCheck(t) == Check(t, "add", ~ Row(t.user))
AddWrite(t) ==
  /\ At(t, "add", "write")
  /\ IF Row(t.user) THEN UNCHANGED <<member, rows, stale>>
     ELSE /\ \E active \in BOOLEAN :
               Write(t.user, [Invited(rows + 1) EXCEPT !.isActive = active, !.invited = FALSE])
          /\ rows' = rows + 1
          /\ Writes(t, TRUE)
  /\ Done(t)
  /\ UNCHANGED <<invitation, registered>>

\* Mutated form: the owner can be updated and removed, too.
ChangeableAnyone(u) == Row(u)

\* updateTenantUser, removeUserFromTenant: the owner cannot be modified or removed.
Changeable(u) == Row(u) /\ member[u].role # "owner"

\* updateTenantUser: the role and isActive.
UpdateCheck(t) == Check(t, "update", Changeable(t.user))
UpdateWrite(t) ==
  LET ok  == Changeable(t.user)
      old == member[t.user]
  IN  \/ Change(t, "update", Row(t.user), ok, [old EXCEPT !.role = "staff"])
      \/ \E active \in BOOLEAN :
           Change(t, "update", Row(t.user), ok, [old EXCEPT !.isActive = active])

\* removeUserFromTenant: a soft delete; the invitation code stays.
RemoveCheck(t) == Check(t, "remove", Changeable(t.user))
RemoveWrite(t) ==
  Change(t, "remove", Row(t.user), Changeable(t.user),
         [member[t.user] EXCEPT !.status = "removed", !.isActive = FALSE])

\* Mutated form: whoever has a row will do.
EligibleAnyone(u) == Row(u)

\* transferOwnership: to an active member.
Eligible(u) == Active(u) /\ member[u].isActive

TransferCheck(t) == Check(t, "transfer", Eligible(t.user))

\* Its transaction demotes the requesting user and promotes the new owner.
TransferWrite(t) ==
  /\ At(t, "transfer", "write")
  /\ IF Row(t.user) /\ Row(t.by)
     THEN /\ member' = [[member EXCEPT ![t.by].role = "staff"] EXCEPT ![t.user].role = "owner"]
          /\ Writes(t, Eligible(t.user))
     ELSE UNCHANGED <<member, stale>>
  /\ Done(t)
  /\ UNCHANGED <<invitation, registered, rows>>

\* inviteUserToTenant: a removed member is invited again, a new one must not have a
\* pending invitation.
InviteCheck(t) ==
  /\ At(t, "invite", "check")
  /\ IF Row(t.user)
     THEN IF member[t.user].status = "removed" THEN Goto(t, "reinvite") ELSE Done(t)
     ELSE IF invitation[t.user] = "pending" THEN Done(t) ELSE Goto(t, "write")
  /\ Unchecked

Reinvite(t) ==
  /\ At(t, "invite", "reinvite")
  /\ IF SameRow(t)
     THEN Write(t.user, Invited(t.id)) /\ Writes(t, member[t.user].status = "removed")
     ELSE UNCHANGED <<member, stale>>
  /\ Done(t)
  /\ UNCHANGED <<invitation, registered, rows>>

\* The transaction that creates the member and creates or renews the invitation.
InviteWrite(t) ==
  /\ At(t, "invite", "write")
  /\ IF Row(t.user) THEN UNCHANGED <<member, invitation, rows, stale>>
     ELSE /\ Write(t.user, Invited(rows + 1))
          /\ invitation' = [invitation EXCEPT ![t.user] = "pending"]
          /\ rows' = rows + 1
          /\ Writes(t, TRUE)
  /\ Done(t)
  /\ UNCHANGED registered

\* resendInvitation, revokeInvitation: of whoever is not active, removed members included.
Unaccepted(u) == Row(u) /\ ~ Active(u)

\* resendInvitation: a new code.
ResendCheck(t) == Check(t, "resend", Unaccepted(t.user))
ResendWrite(t) ==
  Change(t, "resend", SameRow(t), Unaccepted(t.user),
         [member[t.user] EXCEPT !.status = "pending", !.invited = TRUE])

\* revokeInvitation deletes the member; the invitation is left as it is.
RevokeCheck(t) == Check(t, "revoke", Unaccepted(t.user))
RevokeWrite(t) == Change(t, "revoke", SameRow(t), Unaccepted(t.user), Absent)

-----------------------------------------------------------------------------
\* The operations of the invited user.

\* getOrCreateUser links an account to the user of its e-mail at the first request.
SignIn(u) ==
  /\ u \notin registered
  /\ registered' = registered \cup {u}
  /\ UNCHANGED <<member, invitation, rows, tasks, stale>>

\* Mutated form: nobody asks whether the user has an account.
AcceptReadUnregistered(u) ==
  /\ Row(u) /\ member[u].invited /\ ~ Active(u)
  /\ Begin("accept", u, u, "write")

\* acceptInvitation, up to its write: `suspended` is a status nothing writes, and a
\* removed member passes.
AcceptRead(u) ==
  /\ Row(u) /\ member[u].invited /\ ~ Active(u)
  /\ u \in registered
  /\ Begin("accept", u, u, "write")

Accepted(u) == [member[u] EXCEPT !.status = "active", !.isActive = TRUE, !.invited = FALSE]

\* Mutated form: the row is written whether or not it is still there.
AcceptWriteAnyway(t) ==
  /\ At(t, "accept", "write")
  /\ Write(t.user, Accepted(t.user))
  /\ Goto(t, "settle")
  /\ UNCHANGED <<invitation, registered, rows, stale>>

AcceptWrite(t) ==
  /\ At(t, "accept", "write")
  /\ IF SameRow(t) THEN Write(t.user, Accepted(t.user)) /\ Goto(t, "settle")
     ELSE Done(t) /\ UNCHANGED member
  /\ UNCHANGED <<invitation, registered, rows, stale>>

\* updateMany over the pending invitations of the e-mail.
Settled(u) == IF invitation[u] = "pending" THEN [invitation EXCEPT ![u] = "accepted"]
              ELSE invitation

\* Mutated form: the invitation is not closed.
AcceptSettleNothing(t) == At(t, "accept", "settle") /\ Done(t) /\ Unchecked

AcceptSettle(t) ==
  /\ At(t, "accept", "settle")
  /\ invitation' = Settled(t.user)
  /\ Done(t)
  /\ UNCHANGED <<member, registered, rows, stale>>

\* registerAndAcceptInvitation: an account is created outside, which can fail, then one
\* transaction links it, activates the member and closes the invitation.
RegisterRead(u) ==
  /\ Row(u) /\ member[u].invited /\ ~ Active(u)
  /\ u \notin registered
  /\ Begin("register", u, u, "write")

RegisterCommit(t) ==
  /\ At(t, "register", "write")
  /\ SameRow(t)
  /\ Write(t.user, Accepted(t.user))
  /\ invitation' = Settled(t.user)
  /\ registered' = registered \cup {t.user}
  /\ Done(t)
  /\ UNCHANGED <<rows, stale>>

\* The account could not be created, or the row is gone and all is rolled back.
RegisterFail(t) == At(t, "register", "write") /\ Done(t) /\ Unchecked

-----------------------------------------------------------------------------
\* The server stops in the middle of a request: what has been written stays.
Crash(t) == t.kind \in Crashing /\ Done(t) /\ Unchecked

Init ==
  /\ member = [u \in Users |->
       IF u = Creator THEN [id |-> 1, role |-> "owner", status |-> "active",
                            isActive |-> TRUE, invited |-> FALSE]
       ELSE Absent]
  /\ invitation = [u \in Users |-> "none"]
  /\ registered = {Creator}
  /\ rows = 1
  /\ tasks = {}
  /\ stale = FALSE

Step(t) ==
  \/ AddCheck(t)      \/ AddWrite(t)
  \/ UpdateCheck(t)   \/ UpdateWrite(t)
  \/ RemoveCheck(t)   \/ RemoveWrite(t)
  \/ TransferCheck(t) \/ TransferWrite(t)
  \/ InviteCheck(t)   \/ InviteWrite(t)  \/ Reinvite(t)
  \/ ResendCheck(t)   \/ ResendWrite(t)
  \/ RevokeCheck(t)   \/ RevokeWrite(t)
  \/ AcceptWrite(t)   \/ AcceptSettle(t)
  \/ RegisterCommit(t) \/ RegisterFail(t)
  \/ Crash(t)

Next ==
  \/ \E kind \in OwnerKinds, by, u \in Users : Verify(kind, by, u)
  \/ \E u \in Users : SignIn(u) \/ AcceptRead(u) \/ RegisterRead(u)
  \/ \E t \in tasks : Step(t)

Spec == Init /\ [][Next]_vars

-----------------------------------------------------------------------------
\* A row that was deleted (revokeInvitation) stays deleted, whatever the requests that
\* had read it write later; every other row is of its type.
TypeOK ==
  /\ member \in [Users -> Member]
  /\ \A u \in Users : ~ Row(u) => member[u] = Absent
  /\ invitation \in [Users -> {"none", "pending", "accepted"}]
  /\ registered \subseteq Users
  /\ rows \in Ids
  /\ tasks \subseteq Task
  /\ stale \in BOOLEAN

\* Nobody is an active member without an account to sign in with: acceptInvitation turns
\* away whoever has none, and registering creates it in the same transaction.
ActiveHasAccount == \A u \in Users : Active(u) => u \in registered

\* Once nobody is in the middle of accepting, an active member has no invitation pending:
\* acceptInvitation closes it after activating the member, in a write of its own.
InvitationSettled ==
  \A u \in Users :
    Active(u) /\ ~ (\E t \in tasks : At(t, "accept", "settle") /\ t.user = u)
      => invitation[u] # "pending"

\* A tenant has exactly one owner ("there can only be one owner", addUserToTenant), who is
\* an active member, however the owner's requests, the invited users' and crashes overlap:
\* this breaks only when a request of the owner writes after what it has checked has changed
\* (its user lost the ownership, the new owner was removed, the member became the owner).
OneOwner      == Cardinality({u \in Users : IsOwner(u)}) = 1
OwnerIsActive == \A u \in Users : IsOwner(u) => Active(u) /\ member[u].isActive
OwnedUnlessStale == stale \/ (OneOwner /\ OwnerIsActive)

-----------------------------------------------------------------------------
(***************************************************************************)
(* What comments or messages of the code say and the code does not keep:   *)
(* TLC finds a counterexample to each of these (README, "Counterexamples"). *)
(***************************************************************************)

\* There are never two owners, whatever requests overlap.
AtMostOneOwner == \A u, v \in Users : IsOwner(u) /\ IsOwner(v) => u = v

\* A member stops being the owner only when another one becomes the owner
\* (updateTenantUser: "Cannot modify the tenant owner").
OwnerOnlyTransfers ==
  [][\A u \in Users :
       IsOwner(u) /\ ~ IsOwner(u)' => \E v \in Users : ~ IsOwner(v) /\ IsOwner(v)']_vars

\* A member is never removed while it owns the tenant ("Cannot remove the tenant owner").
OwnerStays ==
  [][\A u \in Users : IsOwner(u) => ~ (Active(u) /\ member'[u].status = "removed")]_vars

\* Accepting takes a member from pending to active, and from no other status
\* ("Updates TenantUser status from pending to active").
ActivatedFromPending ==
  [][\A u \in Users : ~ Active(u) /\ Active(u)' => member[u].status = "pending"]_vars

\* Whenever inviteUserToTenant refuses because of a pending invitation, there is a member
\* for resendInvitation ("Use resend invitation instead").
InvitationHasMember ==
  \A u \in Users : invitation[u] = "pending" => Row(u)
=============================================================================
