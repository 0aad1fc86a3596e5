----------------------------- MODULE TenantProfile -----------------------------
(***************************************************************************)
(* A tenant's subdomain, settings and removal, and the e-mail addresses of *)
(* its members, which are made of their usernames and of the subdomain     *)
(* (tenant.service.ts).  The slug of a tenant is checked the way the       *)
(* subdomain is; removing members is in TenantMembership.                  *)
(*                                                                         *)
(* A request reads in one step and writes in others; `requests` holds      *)
(* what it has read.  The database refuses a second row with a subdomain,  *)
(* with a username of the tenant or with an e-mail address, which is here  *)
(* the name and the subdomain that it is made of.                          *)
(***************************************************************************)
EXTENDS Naturals, FiniteSets

CONSTANTS
  Tenants, Users, Names, Subdomains,
  Options,    \* the keys of the settings
  First,      \* the tenant there is in the beginning
  Founder,    \* its owner
  Legacy,     \* its members from before there were usernames
  InFlight,   \* how many requests may be handled at once
  Faults      \* the server may stop in the middle of a request

VARIABLES
  tenant,    \* the tenants
  row,       \* tenant_users: the row of a user in a tenant
  strays,    \* history: the rows whose address was last made of what is not current, or given up
  requests   \* the requests being handled

NoName   == "null"    \* what the username NULL reads in a string
NoDomain == "none"
Tenant   == [exists : BOOLEAN, subdomain : Subdomains \cup {NoDomain}, isActive : BOOLEAN,
             settings : SUBSET Options, trades : BOOLEAN]
Row      == [name : Names \cup {NoName, "absent"}, owner : BOOLEAN,
             local : Names \cup {NoName}, domain : Subdomains \cup {NoDomain}]
Gone     == [exists |-> FALSE, subdomain |-> NoDomain, isActive |-> FALSE,
             settings |-> {}, trades |-> FALSE]
Absent   == [name |-> "absent", owner |-> FALSE, local |-> NoName, domain |-> NoDomain]

Kinds    == {"create", "update", "settings", "remove", "add", "rename"}
Request  == [place : 1 .. InFlight, kind : Kinds, t : Tenants, u : Users, name : Names \cup {NoName},
             sub : Subdomains \cup {NoDomain}, pc : {"write", "find", "mails"},
             keys : SUBSET Options, todo : SUBSET (Users \X (Names \cup {NoName}))]

Member(t, u) == row[t][u].name # "absent"
Members(t)   == {u \in Users : Member(t, u)}
Owns(t, u)   == Member(t, u) /\ row[t][u].owner
Held(t, sub) == \E s \in Tenants \ {t} : tenant[s].exists /\ tenant[s].subdomain = sub
\* Another row of the tenant has the username.
NameTaken(t, u, name) == name # NoName /\ \E v \in Users \ {u} : row[t][v].name = name
\* Another row has the e-mail address.
MailTaken(t, u, name, sub) ==
  \E s \in Tenants, v \in Users :
    <<s, v>> # <<t, u>> /\ Member(s, v) /\ row[s][v].local = name /\ row[s][v].domain = sub
\* The address of a member is the username at the subdomain of the tenant.
Follows(t, u) == row[t][u].local = row[t][u].name /\ row[t][u].domain = tenant[t].subdomain
\* The update goes on to make the address of the member of its new subdomain.
Rewrites(r, u) ==
  /\ r.kind = "update"
  /\ r.pc = "find" \/ (r.pc = "mails" /\ \E who \in r.todo : who[1] = u)
\* What a request leaves behind that ends before its time.
GivenUp(r) == {<<r.t, u>> : u \in {v \in Members(r.t) : Rewrites(r, v) /\ ~ Follows(r.t, v)}}
\* The history after the address of a row is made of a name and a subdomain.
Traced(t, u, current) == IF current THEN strays \ {<<t, u>>} ELSE strays \cup {<<t, u>>}
Elsewhere(t) == {x \in strays : x[1] # t}

Blank(kind, t, u) ==
  [place |-> 0, kind |-> kind, t |-> t, u |-> u, name |-> NoName, sub |-> NoDomain, pc |-> "write",
   keys |-> {}, todo |-> {}]
\* Two requests that are alike are two.
Begin(r) ==
  /\ Cardinality(requests) < InFlight
  /\ \E p \in 1 .. InFlight :
       /\ \A n \in 1 .. p :
            (\E o \in requests : o.place = n /\ o.kind = r.kind /\ o.t = r.t /\ o.u = r.u) <=> n < p
       /\ requests' = requests \cup {[r EXCEPT !.place = p]}
  /\ UNCHANGED <<tenant, row, strays>>
Done(r)  == requests' = requests \ {r}
Now(r, s) == requests' = (requests \ {r}) \cup {s}
At(r, kind, pc) == r.kind = kind /\ r.pc = pc

-----------------------------------------------------------------------------
\* create: the subdomain is free; the tenant and its owner are one transaction.
CreateCheck(t, u, name, sub) ==
  /\ ~ tenant[t].exists /\ \A r \in requests : r.t # t
  /\ ~ Held(t, sub)
  /\ Begin([Blank("create", t, u) EXCEPT !.name = name, !.sub = sub])

CreateWrite(r) ==
  /\ At(r, "create", "write")
  /\ IF Held(r.t, r.sub) \/ MailTaken(r.t, r.u, r.name, r.sub)
     THEN UNCHANGED <<tenant, row, strays>>
     ELSE /\ tenant' = [tenant EXCEPT ![r.t] =
                          [Gone EXCEPT !.exists = TRUE, !.subdomain = r.sub, !.isActive = TRUE]]
          /\ row' = [row EXCEPT ![r.t] = [u \in Users |-> IF u # r.u THEN Absent ELSE
                       [name |-> r.name, owner |-> TRUE, local |-> r.name, domain |-> r.sub]]]
          /\ strays' = Elsewhere(r.t)
  /\ Done(r)

\* update, its checks: the new subdomain is not another tenant's.
UpdateCheck(t, sub) ==
  /\ tenant[t].exists
  /\ ~ Held(t, sub)
  /\ Begin([Blank("update", t, Founder) EXCEPT !.sub = sub])

UpdateWrite(r) ==
  /\ At(r, "update", "write")
  /\ IF tenant[r.t].exists /\ ~ Held(r.t, r.sub)
     THEN tenant' = [tenant EXCEPT ![r.t].subdomain = r.sub] /\ Now(r, [r EXCEPT !.pc = "find"])
     ELSE Done(r) /\ UNCHANGED tenant
  /\ UNCHANGED <<row, strays>>

\* Mutated form: members from before usernames are left out.
FindMembersNamed(r) ==
  /\ At(r, "update", "find")
  /\ Now(r, [r EXCEPT !.pc = "mails",
                      !.todo = {<<u, row[r.t][u].name>> : u \in {v \in Members(r.t) : row[r.t][v].name # NoName}}])
  /\ UNCHANGED <<tenant, row, strays>>

FindMembers(r) ==
  /\ At(r, "update", "find")
  /\ Now(r, [r EXCEPT !.pc = "mails", !.todo = {<<u, row[r.t][u].name>> : u \in Members(r.t)}])
  /\ UNCHANGED <<tenant, row, strays>>

\* One round of the loop over the members, with the name that was found: the first address
\* that another row has, or whose row is gone, ends it.
RewriteMail(r) ==
  /\ At(r, "update", "mails")
  /\ \/ r.todo = {} /\ Done(r) /\ UNCHANGED <<row, strays>>
     \/ \E who \in r.todo :
          LET u == who[1] IN
          IF Member(r.t, u) /\ ~ MailTaken(r.t, u, who[2], r.sub)
          THEN /\ row' = [row EXCEPT ![r.t][u] =
                            [row[r.t][u] EXCEPT !.local = who[2], !.domain = r.sub]]
               /\ strays' = Traced(r.t, u, who[2] = row[r.t][u].name /\ r.sub = tenant[r.t].subdomain)
               /\ Now(r, [r EXCEPT !.todo = @ \ {who}])
          ELSE Done(r) /\ strays' = strays \cup GivenUp(r) /\ UNCHANGED row
  /\ UNCHANGED tenant

\* updateSettings merges the new keys into the settings it has read.
SettingsRead(t, keys) ==
  /\ tenant[t].exists
  /\ Begin([Blank("settings", t, Founder) EXCEPT !.keys = tenant[t].settings \cup keys])

SettingsWrite(r) ==
  /\ At(r, "settings", "write")
  /\ tenant' = IF tenant[r.t].exists THEN [tenant EXCEPT ![r.t].settings = r.keys] ELSE tenant
  /\ Done(r)
  /\ UNCHANGED <<row, strays>>

\* activate, deactivate
SetActive(t, active) ==
  /\ tenant[t].exists
  /\ tenant' = [tenant EXCEPT ![t].isActive = active]
  /\ UNCHANGED <<row, strays, requests>>

\* A vehicle, a deal or a buyer of the tenant is entered; all of them are deleted.
Trade(t, trades) ==
  /\ tenant[t].exists
  /\ tenant' = [tenant EXCEPT ![t].trades = trades]
  /\ UNCHANGED <<row, strays, requests>>

\* remove counts what the tenant has and looks whether the owner asks.
RemoveCheck(t, u) ==
  /\ tenant[t].exists
  /\ Owns(t, u) /\ Members(t) = {u} /\ ~ tenant[t].trades
  /\ Begin(Blank("remove", t, u))

\* Deleting the tenant deletes all that belongs to it.
RemoveWrite(r) ==
  /\ At(r, "remove", "write")
  /\ IF tenant[r.t].exists /\ Member(r.t, r.u)
     THEN /\ tenant' = [tenant EXCEPT ![r.t] = Gone]
          /\ row' = [row EXCEPT ![r.t] = [u \in Users |-> Absent]]
          /\ strays' = Elsewhere(r.t)
     ELSE UNCHANGED <<tenant, row, strays>>
  /\ Done(r)

\* addUserToTenant, inviteUserToTenant: the username is free, the subdomain is read.
AddRead(t, u, name) ==
  /\ tenant[t].exists /\ tenant[t].subdomain # NoDomain
  /\ ~ Member(t, u) /\ ~ NameTaken(t, u, name)
  /\ Begin([Blank("add", t, u) EXCEPT !.name = name, !.sub = tenant[t].subdomain])

\* updateTenantUser with a username, a removed member invited again: not the owner's.
RenameRead(t, u, name) ==
  /\ tenant[t].exists /\ tenant[t].subdomain # NoDomain
  /\ Member(t, u) /\ ~ row[t][u].owner /\ ~ NameTaken(t, u, name)
  /\ Begin([Blank("rename", t, u) EXCEPT !.name = name, !.sub = tenant[t].subdomain])

\* Mutated form: the address stays when the username changes.
NameWriteOnly(r) ==
  /\ r.kind \in {"add", "rename"}
  /\ IF tenant[r.t].exists /\ Member(r.t, r.u) = (r.kind = "rename") /\ ~ NameTaken(r.t, r.u, r.name)
     THEN /\ row' = [row EXCEPT ![r.t][r.u].name = r.name]
          /\ strays' = Traced(r.t, r.u, r.sub = tenant[r.t].subdomain)
     ELSE UNCHANGED <<row, strays>>
  /\ Done(r)
  /\ UNCHANGED tenant

\* The insert or the update of the row; the database refuses what is taken by now.
NameWrite(r) ==
  /\ r.kind \in {"add", "rename"}
  /\ IF /\ tenant[r.t].exists /\ Member(r.t, r.u) = (r.kind = "rename")
        /\ ~ NameTaken(r.t, r.u, r.name) /\ ~ MailTaken(r.t, r.u, r.name, r.sub)
     THEN /\ row' = [row EXCEPT ![r.t][r.u] =
                       [name |-> r.name, owner |-> row[r.t][r.u].owner, local |-> r.name, domain |-> r.sub]]
          /\ strays' = Traced(r.t, r.u, r.sub = tenant[r.t].subdomain)
     ELSE UNCHANGED <<row, strays>>
  /\ Done(r)
  /\ UNCHANGED tenant

Crash(r) ==
  /\ Faults /\ Done(r)
  /\ strays' = strays \cup GivenUp(r)
  /\ UNCHANGED <<tenant, row>>

-----------------------------------------------------------------------------
\* The tenant there is has been created, or is from before subdomains and usernames.
Init ==
  /\ \E sub \in Subdomains, name \in Names, old \in BOOLEAN :
       /\ tenant = [t \in Tenants |->
            IF t = First THEN [Gone EXCEPT !.exists = TRUE, !.isActive = TRUE,
                                           !.subdomain = IF old THEN NoDomain ELSE sub]
            ELSE Gone]
       /\ row = [t \in Tenants |-> [u \in Users |->
            IF t # First \/ (u # Founder /\ ~ (old /\ u \in Legacy)) THEN Absent
            ELSE IF old THEN [name |-> NoName, owner |-> u = Founder, local |-> NoName, domain |-> NoDomain]
            ELSE [name |-> name, owner |-> TRUE, local |-> name, domain |-> sub]]]
  /\ requests = {} /\ strays = {}

Step(r) ==
  \/ CreateWrite(r) \/ UpdateWrite(r) \/ FindMembers(r) \/ RewriteMail(r)
  \/ SettingsWrite(r) \/ RemoveWrite(r) \/ NameWrite(r) \/ Crash(r)

Next ==
  \/ \E t \in Tenants, u \in Users, name \in Names :
       \/ \E sub \in Subdomains : CreateCheck(t, u, name, sub)
       \/ AddRead(t, u, name) \/ RenameRead(t, u, name)
  \/ \E t \in Tenants, sub \in Subdomains : UpdateCheck(t, sub)
  \/ \E t \in Tenants, key \in Options : SettingsRead(t, {key})
  \/ \E t \in Tenants, flag \in BOOLEAN : SetActive(t, flag) \/ Trade(t, flag)
  \/ \E t \in Tenants, u \in Users : RemoveCheck(t, u)
  \/ \E r \in requests : Step(r)

vars == <<tenant, row, strays, requests>>
Spec == Init /\ [][Next]_vars

-----------------------------------------------------------------------------
\* A tenant that is gone has left nothing behind; the rows are of their types.
TypeOK ==
  /\ tenant \in [Tenants -> Tenant]
  /\ row \in [Tenants -> [Users -> Row]]
  /\ requests \subseteq Request /\ strays \subseteq Tenants \X Users
  /\ \A t \in Tenants : ~ tenant[t].exists => tenant[t] = Gone /\ Members(t) = {}

\* update: "If subdomain changed, update all tenantEmails for users in this tenant".  Whatever
\* requests overlap and stop, the address of a member is its username at the subdomain, or an
\* update to that subdomain goes on to make it so, but for a row whose address was last made of
\* a name or a subdomain that others had changed, or whose update ended before its turn.
EmailsFollow ==
  \A t \in Tenants : \A u \in Members(t) :
    \/ <<t, u>> \in strays \/ Follows(t, u)
    \/ \E r \in requests : r.t = t /\ r.sub = tenant[t].subdomain /\ Rewrites(r, u)

-----------------------------------------------------------------------------
(* What does not hold when requests overlap (README, "Counterexamples"). *)

\* When no update of the tenant is handled, every address follows.
EmailsAlwaysFollow ==
  \A t \in Tenants : \A u \in Members(t) :
    (\A r \in requests : r.kind # "update" \/ r.t # t) => Follows(t, u)

\* Nobody has an address in the domain of another tenant.
OwnDomain ==
  \A s, t \in Tenants : \A u \in Members(t) :
    s # t /\ tenant[s].exists /\ tenant[s].subdomain # NoDomain
      => row[t][u].domain # tenant[s].subdomain

\* A setting that was stored stays until the tenant goes.
SettingsStay ==
  [][\A t \in Tenants :
       tenant'[t].exists => tenant[t].settings \subseteq tenant'[t].settings]_vars

\* remove: "Prevent deletion if tenant has data (excluding the owner from user count)".
NothingLostWithTenant ==
  [][\A t \in Tenants :
       tenant[t].exists /\ ~ tenant'[t].exists
         => ~ tenant[t].trades /\ Cardinality(Members(t)) = 1]_vars
=============================================================================
