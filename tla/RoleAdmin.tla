------------------------------- MODULE RoleAdmin -------------------------------
(***************************************************************************)
(* The roles of one tenant, their permissions, and what the guards make of *)
(* them (roles.service.ts, permissions.guard.ts, seeds/rbac.seed.ts).      *)
(*                                                                         *)
(* Besides its own roles the tenant has the global ones, which nobody can  *)
(* change: `owner`, which is created without permissions, and              *)
(* `superadmin`, which the guard lets do everything.  The permissions      *)
(* role:create, role:update and role:delete are one here, "role".          *)
(***************************************************************************)
EXTENDS Naturals, FiniteSets

CONSTANTS
  Users, Roles, Slugs,
  Known,      \* the permissions there are (rbac.seed.ts)
  Named,      \* the permissions users name
  InFlight,   \* how many requests may be handled at once
  Faults      \* the server may stop in the middle of a request

VARIABLES
  role,       \* the tenant's roles: exists, slug, granted permissions
  member,     \* the role of every member
  asked,      \* the permissions a role was last told to have
  torn,       \* history: the roles whose last update was filled over another, or not at all
  requests    \* the requests being handled

vars == <<role, member, asked, torn, requests>>

Global  == {"owner", "superadmin"}
NoRole  == [exists |-> FALSE, slug |-> "none", granted |-> {}]
Kinds   == {"create", "update", "remove", "assign"}
Request == [place : 1 .. InFlight, kind : Kinds, role : Roles \cup Global,
            slug : Slugs \cup {"none"}, user : Users \cup {"none"},
            set : SUBSET Known, keep : BOOLEAN, pc : {"clear", "fill", "write"}]

Exists(r)     == r \notin Global => role[r].exists
SlugOf(r)     == IF r \in Global THEN r ELSE role[r].slug
SlugTaken(r, slug) == \E s \in Roles \ {r} : role[s].exists /\ role[s].slug = slug
MembersOf(r)  == {u \in Users : member[u] = r}
\* PermissionsGuard
Permitted(u, p) ==
  \/ SlugOf(member[u]) = "superadmin"
  \/ member[u] \in Roles /\ p \in role[member[u]].granted

Blank(kind, r) ==
  [place |-> 0, kind |-> kind, role |-> r, slug |-> "none", user |-> "none", set |-> {}, keep |-> FALSE,
   pc |-> "write"]
\* Two requests that are alike are two.
Begin(q) ==
  /\ Cardinality(requests) < InFlight
  /\ \E p \in 1 .. InFlight :
       /\ \A n \in 1 .. p :
            (\E o \in requests : o.place = n /\ o.kind = q.kind /\ o.role = q.role) <=> n < p
       /\ requests' = requests \cup {[q EXCEPT !.place = p]}
Done(q)     == requests' = requests \ {q}
Goto(q, pc) == requests' = (requests \ {q}) \cup {[q EXCEPT !.pc = pc]}
At(q, kind, pc) == q.kind = kind /\ q.pc = pc

-----------------------------------------------------------------------------
\* create: a free slug, and every permission known.
CreateRead(u, r, slug, set) ==
  /\ Permitted(u, "role")
  /\ ~ role[r].exists /\ ~ SlugTaken(r, slug) /\ set \subseteq Known
  /\ \A q \in requests : q.role # r
  /\ Begin([Blank("create", r) EXCEPT !.slug = slug, !.set = set])
  /\ UNCHANGED <<role, member, asked, torn>>

\* The role and its permissions are one statement.
CreateWrite(q) ==
  /\ At(q, "create", "write")
  /\ IF SlugTaken(q.role, q.slug) THEN UNCHANGED <<role, asked, torn>>
     ELSE /\ role' = [role EXCEPT ![q.role] = [exists |-> TRUE, slug |-> q.slug, granted |-> q.set]]
          /\ asked' = [asked EXCEPT ![q.role] = q.set]
          /\ torn' = torn \ {q.role}
  /\ Done(q)
  /\ UNCHANGED member

\* Mutated form: permissions that are not given are taken for none.
UpdateReadAlways(u, r, slug, set, keep) ==
  /\ Permitted(u, "role") /\ role[r].exists
  /\ Begin([Blank("update", r) EXCEPT
              !.slug = slug, !.set = IF keep THEN {} ELSE set \cap Known, !.keep = keep, !.pc = "clear"])
  /\ UNCHANGED <<role, member, asked, torn>>

\* update: permissions that do not exist are left out; they may not be given at all.
UpdateRead(u, r, slug, set, keep) ==
  /\ Permitted(u, "role") /\ role[r].exists
  /\ Begin([Blank("update", r) EXCEPT
              !.slug = slug, !.set = IF keep THEN {} ELSE set \cap Known, !.keep = keep,
              !.pc = IF keep THEN "write" ELSE "clear"])
  /\ UNCHANGED <<role, member, asked, torn>>

\* "Clear existing and add new": two statements, and a third one for the rest.
UpdateClear(q) ==
  /\ At(q, "update", "clear")
  /\ role' = [role EXCEPT ![q.role].granted = {}]
  /\ Goto(q, "fill")
  /\ UNCHANGED <<member, asked, torn>>

\* A permission that the role has been given meanwhile ends the request.
UpdateFill(q) ==
  /\ At(q, "update", "fill")
  /\ IF role[q.role].exists /\ q.set \cap role[q.role].granted = {}
     THEN /\ role' = [role EXCEPT ![q.role].granted = @ \cup q.set]
          /\ asked' = IF q.keep THEN asked ELSE [asked EXCEPT ![q.role] = q.set]
          /\ torn' = IF role[q.role].granted = {} THEN torn \ {q.role} ELSE torn \cup {q.role}
          /\ Goto(q, "write")
     ELSE Done(q) /\ UNCHANGED <<role, asked, torn>>
  /\ UNCHANGED member

\* The slug, which nobody has looked at: the database refuses one that is taken.
UpdateWrite(q) ==
  /\ At(q, "update", "write")
  /\ role' = IF role[q.role].exists /\ q.slug # "none" /\ ~ SlugTaken(q.role, q.slug)
             THEN [role EXCEPT ![q.role].slug = q.slug] ELSE role
  /\ Done(q)
  /\ UNCHANGED <<member, asked, torn>>

\* remove: no member has the role, which the database sees to as well.
RemoveRead(u, r) ==
  /\ Permitted(u, "role") /\ role[r].exists /\ MembersOf(r) = {}
  /\ Begin(Blank("remove", r))
  /\ UNCHANGED <<role, member, asked, torn>>
RemoveWrite(q) ==
  /\ At(q, "remove", "write")
  /\ IF MembersOf(q.role) = {}
     THEN role' = [role EXCEPT ![q.role] = NoRole] /\ asked' = [asked EXCEPT ![q.role] = {}]
     ELSE UNCHANGED <<role, asked>>
  /\ Done(q)
  /\ UNCHANGED <<member, torn>>

\* addUserToTenant, updateTenantUser: any role but an owner's, for anyone but an owner.
AssignRead(u, r) ==
  /\ Exists(r) /\ SlugOf(r) # "owner" /\ SlugOf(member[u]) # "owner"
  /\ Begin([Blank("assign", r) EXCEPT !.user = u])
  /\ UNCHANGED <<role, member, asked, torn>>
AssignWrite(q) ==
  /\ At(q, "assign", "write")
  /\ member' = IF Exists(q.role) THEN [member EXCEPT ![q.user] = q.role] ELSE member
  /\ Done(q)
  /\ UNCHANGED <<role, asked, torn>>

\* Between clearing and filling, the role stays without permissions.
Crash(q) ==
  /\ Faults /\ Done(q)
  /\ torn' = IF At(q, "update", "fill") THEN torn \cup {q.role} ELSE torn
  /\ UNCHANGED <<role, member, asked>>

-----------------------------------------------------------------------------
\* One member has the role that may administer roles; create of a tenant makes the owner.
Init ==
  /\ role = [r \in Roles |-> NoRole]
  /\ \E owner \in Users : member = [u \in Users |-> IF u = owner THEN "owner" ELSE "superadmin"]
  /\ asked = [r \in Roles |-> {}]
  /\ requests = {} /\ torn = {}

Step(q) ==
  \/ CreateWrite(q) \/ UpdateClear(q) \/ UpdateFill(q) \/ UpdateWrite(q)
  \/ RemoveWrite(q) \/ AssignWrite(q) \/ Crash(q)

Next ==
  \/ \E u \in Users, r \in Roles, slug \in Slugs, set \in SUBSET Named :
       \/ CreateRead(u, r, slug, set)
       \/ \E keep \in BOOLEAN : UpdateRead(u, r, slug, set, keep)
  \/ \E u \in Users, r \in Roles : RemoveRead(u, r)
  \/ \E u \in Users, r \in Roles \cup Global : AssignRead(u, r)
  \/ \E q \in requests : Step(q)

Spec == Init /\ [][Next]_vars

-----------------------------------------------------------------------------
\* The role of a member exists, and only known permissions are granted.
TypeOK ==
  /\ role \in [Roles -> [exists : BOOLEAN, slug : Slugs \cup {"none"}, granted : SUBSET Known]]
  /\ member \in [Users -> Roles \cup Global]
  /\ asked \in [Roles -> SUBSET Known]
  /\ requests \subseteq Request /\ torn \subseteq Roles
  /\ \A u \in Users : Exists(member[u])

\* roles.service.ts:148, "Transactional ideally": whatever updates, creations, removals and
\* assignments overlap and stop, a role grants what it was last told to, or is between clearing
\* and filling, unless two updates have filled it one over the other or one has stopped between.
GrantsAsAsked ==
  \A r \in Roles \ torn :
    \/ role[r].granted = asked[r]
    \/ role[r].granted = {} /\ \E q \in requests : q.role = r /\ At(q, "update", "fill")

-----------------------------------------------------------------------------
(* What does not hold (README, "Counterexamples"). *)

\* "Clear existing and add new": the same without the exception.
GrantsAlwaysAsked ==
  \A r \in Roles : role[r].granted \in {{}, asked[r]}

\* A permission that a role had and is to keep is granted throughout the update.
GrantedThroughout ==
  \A q \in requests :
    At(q, "update", "fill") => asked[q.role] \cap q.set \subseteq role[q.role].granted

\* "There can only be one owner": no member has a role of the tenant with the owner's slug.
OwnersByTransferOnly ==
  \A u \in Users : member[u] \in Roles => SlugOf(member[u]) # "owner"

\* "Tenant owner with full access".
OwnerHasAccess == \A u \in Users : member[u] = "owner" => Permitted(u, "role")
=============================================================================
