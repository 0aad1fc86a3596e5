----------------------------- MODULE Administration -----------------------------
(***************************************************************************)
(* The parts of the system that administer a tenant and share no variable: *)
(* its members, its profile, its numbers and call flows, its roles, the    *)
(* accounts of its users, the catalog of its parts, its buyers and what is *)
(* done about them, and the log of what was changed.  A behaviour is one   *)
(* of one of them; scope says of which.                                    *)
(* A small instance for TLC is at the end.                                 *)
(***************************************************************************)
EXTENDS Naturals, Sequences

CONSTANTS
  Users, Tenants, Slugs, Faults, InFlight,
  Creator, MaxRows, OwnerInFlight, Crashing,        \* TenantMembership
  Names, Subdomains, Options, First, Legacy,        \* TenantProfile
  Numbers, Flows, MaxIds,                           \* TenantNumbers
  FlowIds, Drafts,                                  \* CallFlows
  Roles, Known, Named,                              \* RoleAdmin
  Persons, Spellings, Logins,                       \* UserAccounts
  Parts, Conditions, Categories,                    \* PartsCatalog
  Expenses, Titles, Values, MaxRequests,            \* AuditTrail
  Staff, Buyers, Tasks, Notes, Mails                \* BuyerRecords

VARIABLES
  scope,
  member, invitation, registered, rows, tasks, stale,
  tenant, row, strays, edits,
  bought, numbers, flows, apps, ids, calls, half,
  content, speech, saves,
  role, holder, asked, torn, grants,
  user, account, code, visits,
  entry, part, orders,
  records, titles, first, trail, requests, count,
  staff, buyer, task, note, mail, jobs

Membership == INSTANCE TenantMembership
Profile    == INSTANCE TenantProfile WITH Founder <- Creator, requests <- edits
Phones     == INSTANCE TenantNumbers WITH Tenants <- {First}, rows <- numbers, requests <- calls
CallTrees  == INSTANCE CallFlows
RoleTable  == INSTANCE RoleAdmin WITH member <- holder, requests <- grants
Accounts   == INSTANCE UserAccounts WITH requests <- visits
Catalog    == INSTANCE PartsCatalog WITH Slugs <- {"x"}, requests <- orders
Audit      == INSTANCE AuditTrail WITH
                InFlight <- 1, Nulls <- FALSE, Faults <- FALSE, row <- records
Records    == INSTANCE BuyerRecords WITH
                MaxOpens <- 1, requests <- jobs

ASSUME UsersAssumption  == Creator \in Users /\ First \in Tenants
ASSUME LegacyAssumption == Legacy \subseteq Users \ {Creator}
ASSUME PersonsAssumption ==
  "nobody" \notin Persons /\ "lower" \in Spellings /\ "password" \in Logins
ASSUME DraftsAssumption ==
  Drafts \subseteq Seq([id : Nat, type : STRING, text : STRING, audio : STRING, list : Nat])
ASSUME CatalogAssumption ==
  /\ Conditions \cap Categories = {}
  /\ "none" \notin Conditions \cup Categories \cup Tenants /\ "all" \notin Tenants
ASSUME NumbersAssumption == "none" \notin Numbers
ASSUME ProfileAssumption ==
  "null" \notin Names /\ "absent" \notin Names /\ "none" \notin Subdomains
ASSUME RecordsAssumption == "none" \notin Staff \cup Buyers
ASSUME AuditAssumption ==
  "none" \notin Values /\ "null" \notin Values /\ Expenses \cap Titles = {}
ASSUME RolesAssumption  == "owner" \notin Roles /\ "superadmin" \notin Roles
ASSUME KnownAssumption  == "role" \in Known /\ Known \subseteq Named
ASSUME BoundsAssumption ==
  /\ MaxRows \in Nat \ {0} /\ MaxIds \in Nat /\ MaxRequests \in Nat
  /\ InFlight \in Nat /\ OwnerInFlight \in Nat
ASSUME FaultsAssumption == Faults \in BOOLEAN /\ Crashing \subseteq Membership!Kinds

membershipVars == <<member, invitation, registered, rows, tasks, stale>>
profileVars == <<tenant, row, strays, edits>>
numbersVars == <<bought, numbers, flows, apps, ids, calls, half>>
flowsVars   == <<content, speech, saves>>
rolesVars   == <<role, holder, asked, torn, grants>>
accountVars == <<user, account, code, visits>>
catalogVars == <<entry, part, orders>>
auditVars   == <<records, titles, first, trail, requests, count>>
recordVars  == <<staff, buyer, task, note, mail, jobs>>

vars == <<scope, membershipVars, profileVars, numbersVars, flowsVars, rolesVars, accountVars,
          catalogVars, auditVars, recordVars>>

Scopes == {"members", "profile", "addresses", "numbers", "flows", "roles", "accounts", "catalog",
           "audit", "tasks", "mails"}

\* What there is in the beginning only matters where it is looked at.
Init ==
  /\ scope \in Scopes
  /\ Membership!Init /\ Profile!Init /\ Phones!Init /\ CallTrees!Init
  /\ RoleTable!Init /\ Accounts!Init /\ Catalog!Init /\ Audit!Init /\ Records!Init
  /\ scope \notin {"profile", "addresses"} =>
       /\ tenant[First].subdomain = CHOOSE d \in Subdomains : TRUE
       /\ row[First][Creator].name = CHOOSE n \in Names : TRUE
  /\ scope # "roles" => holder[Creator] = "owner"
  /\ staff = CHOOSE of \in [Staff -> [of : Tenants, status : {"active"}]] :
               \A t \in Tenants : \E s \in Staff : of[s].of = t
  /\ scope # "catalog" => Catalog!Exists(CHOOSE c \in Conditions : TRUE)

Members ==
  /\ scope = "members" /\ Membership!Next
  /\ UNCHANGED <<scope, profileVars, numbersVars, flowsVars, rolesVars, accountVars, catalogVars,
                auditVars, recordVars>>
\* Settings, activation and trade touch no address, and the other way round; beside the tenant
\* whose addresses change, others are created.
ProfileNext ==
  /\ scope \in {"profile", "addresses"} /\ Profile!Next
  /\ scope = "profile" => \A q \in edits' : q.kind \notin {"update", "add", "rename"}
  /\ scope = "addresses" => \A t \in Tenants : tenant'[t].exists =>
       tenant'[t].settings = {} /\ tenant'[t].isActive /\ ~ tenant'[t].trades
  /\ scope = "addresses" => \A q \in edits' :
       q.kind \notin {"settings", "remove"} /\ (q.t # First => q.kind = "create")
  /\ UNCHANGED <<scope, membershipVars, numbersVars, flowsVars, rolesVars, accountVars, catalogVars,
                auditVars, recordVars>>
NumbersNext ==
  /\ scope = "numbers" /\ Phones!Next
  /\ UNCHANGED <<scope, membershipVars, profileVars, flowsVars, rolesVars, accountVars, catalogVars,
                auditVars, recordVars>>
FlowsNext ==
  /\ scope = "flows" /\ CallTrees!Next
  /\ UNCHANGED <<scope, membershipVars, profileVars, numbersVars, rolesVars, accountVars,
                catalogVars, auditVars, recordVars>>
RolesNext ==
  /\ scope = "roles" /\ RoleTable!Next
  /\ UNCHANGED <<scope, membershipVars, profileVars, numbersVars, flowsVars, accountVars,
                catalogVars, auditVars, recordVars>>
AccountsNext ==
  /\ scope = "accounts" /\ Accounts!Next
  /\ UNCHANGED <<scope, membershipVars, profileVars, numbersVars, flowsVars, rolesVars, catalogVars,
                auditVars, recordVars>>
CatalogNext ==
  /\ scope = "catalog" /\ Catalog!Next
  /\ UNCHANGED <<scope, membershipVars, profileVars, numbersVars, flowsVars, rolesVars, accountVars,
                auditVars, recordVars>>
AuditNext ==
  /\ scope = "audit" /\ Audit!Next
  /\ UNCHANGED <<scope, membershipVars, profileVars, numbersVars, flowsVars, rolesVars, accountVars,
                catalogVars, recordVars>>
\* What is done about tasks and notes touches no message, and the other way round.
RecordsNext ==
  /\ scope \in {"tasks", "mails"} /\ Records!Next
  /\ scope = "tasks" => mail' = mail /\ \A q \in jobs' : q.kind \in {"task", "retask"}
  /\ scope = "mails" => task' = task /\ note' = note /\ \A q \in jobs' : q.kind \notin {"task", "retask"}
  /\ UNCHANGED <<scope, membershipVars, profileVars, numbersVars, flowsVars, rolesVars, accountVars,
                catalogVars, auditVars>>

Next ==
  \/ Members \/ ProfileNext \/ NumbersNext \/ FlowsNext
  \/ RolesNext \/ AccountsNext \/ CatalogNext \/ AuditNext \/ RecordsNext

Spec == Init /\ [][Next]_vars

-----------------------------------------------------------------------------
(* Each is stated and commented in the module of its component, and looked at in the *)
(* behaviours of that component: in the others, nothing of it changes.              *)

\* The rows and requests of every component have their types.
TypeOK ==
  /\ scope = "members" => Membership!TypeOK
  /\ scope \in {"profile", "addresses"} => Profile!TypeOK
  /\ scope = "numbers" => Phones!TypeOK
  /\ scope = "flows" => CallTrees!TypeOK
  /\ scope = "roles" => RoleTable!TypeOK
  /\ scope = "accounts" => Accounts!TypeOK
  /\ scope = "catalog" => Catalog!TypeOK
  /\ scope = "audit" => Audit!TypeOK
  /\ scope \in {"tasks", "mails"} => Records!TypeOK

\* tenant.service.ts, transferOwnership, acceptInvitation: one owner, who is an active
\* member, unless an owner's request wrote what its checks would no longer allow; who is
\* active has an account, and no invitation that is still pending.
MembershipSettled == scope = "members" =>
  /\ Membership!OwnedUnlessStale
  /\ Membership!ActiveHasAccount /\ Membership!InvitationSettled

\* cognito-jwt.guard.ts, registerAndAcceptInvitation: a user comes to an account by a sign-in
\* with it that names the user's address, or by a registration of the address's own person.
AccountsAsClaimed == Accounts!AccountsAsClaimed

\* tenant.service.ts, update and updateTenantUser: a member's address is its username at the
\* subdomain of the tenant or becomes so, unless it was made of what others had changed, or the
\* update that was to make it ended early.
EmailsFollow == scope \in {"profile", "addresses"} => Profile!EmailsFollow

\* tenant.service.ts, purchasePhoneNumber and deletePhoneNumber: the numbers paid for and their
\* rows belong together, but for those whose purchase or release failed half-way.
NumbersAccounted == scope = "numbers" => Phones!NumbersAccounted

\* call-flow.service.ts: a flow that is stored can be carried out and heard.
StoredIsPlayable == scope = "flows" => CallTrees!StoredIsPlayable

\* roles.service.ts, update: a role grants what it was last told to, unless two updates have
\* filled it one over the other or one has stopped in the middle.
GrantsAsAsked == scope = "roles" => RoleTable!GrantsAsAsked

\* parts.service.ts, removeCondition: every part has a condition its tenant sees.
PartsAreGraded == scope = "catalog" => Catalog!PartsAreGraded

\* audit-log.interceptor.ts: the entries lead every record to what it is.
TrailAddsUp == scope = "audit" => Audit!TrailAddsUp

\* email-messages.service.ts, tasks.service.ts: messages are of buyers, and tasks for
\* members, of the tenant.
RecordsStayHome == scope \in {"tasks", "mails"} => Records!RecordsStayHome

\* tasks.service.ts, update: an open task has no time of completion, unless an update acts on a
\* status that has changed since it was read.
ReopenedIsOpen == Records!ReopenedIsOpen

-----------------------------------------------------------------------------
(* A small instance *)

OwnersCrash == {"add", "update", "remove", "transfer", "invite", "resend", "revoke"}

\* A menu with nested steps, nested messages without audio, an id that is given twice.
FourDrafts ==
  LET Say(id, text, list)   == CallTrees!Step(id, "greeting", text, "", list)
      Box(id, list)         == CallTrees!Step(id, "voicemail", "hello", "", list)
      Menu(id, text, audio) == CallTrees!Step(id, "menu", text, audio, CallTrees!Top)
  IN {<<Say(1, "hello", 0), Menu(2, "press", ""), Box(3, 1)>>,
      <<Menu(2, "press", "hello"), Box(3, 1), Say(4, "hello", 1)>>,
      <<Menu(2, "", ""), Box(2, 1)>>,
      <<CallTrees!Step(1, "greeting", "press", "hello", 0)>>}
=============================================================================
