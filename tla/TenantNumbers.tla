----------------------------- MODULE TenantNumbers -----------------------------
(***************************************************************************)
(* The phone numbers a tenant buys at Twilio, their rows in the database   *)
(* and the call flows assigned to them (tenant.service.ts,                 *)
(* twilio.service.ts, call-flow.service.ts).  What a flow says is in       *)
(* CallFlows.                                                              *)
(*                                                                         *)
(* Buying and releasing are calls to Twilio between the steps on the       *)
(* database, each of which may be the last of a request.  A purchase has   *)
(* an id, which is generated first: it is in the webhooks of the number,   *)
(* and becomes the id of the row.  The purchase with the id k gets the     *)
(* SID k.  Names, capabilities and the flag isActive are left out.         *)
(***************************************************************************)
EXTENDS Naturals

CONSTANTS
  Tenants, Numbers, Flows,
  MaxIds,      \* bound: purchases tried
  InFlight,    \* how many requests may be handled at once
  Faults       \* Twilio may refuse, the server may stop between two steps

VARIABLES
  bought,    \* Twilio: the SID of a number and the row its webhooks name
  rows,      \* twilio_phone_numbers
  flows,     \* call_flows: the flows there are, and whose
  apps,      \* Twilio: the TwiML apps for calls from the browser
  ids,       \* ids generated so far
  requests,  \* the requests being handled
  half       \* history: the purchases and releases that failed after their step at Twilio

vars == <<bought, rows, flows, apps, ids, requests, half>>

Ids    == 1 .. MaxIds
Free   == [sid |-> 0, hook |-> 0]
NoRow  == [number |-> "none", tenant |-> "none", sid |-> 0,
           isPrimary |-> FALSE, flow |-> 0]
Row    == [number : Numbers, tenant : Tenants, sid : Ids,
           isPrimary : BOOLEAN, flow : Flows \cup {0}]
Kinds  == {"purchase", "update", "delete", "assign", "unflow", "app"}
Points == {"twilio", "unset", "save"}
Request == [place : 1 .. InFlight, kind : Kinds, pc : Points, tenant : Tenants, number : Numbers \cup {"none"},
            id : Ids \cup {0}, sid : Ids \cup {0}, isPrimary : BOOLEAN, flow : Flows \cup {0}]

IsRow(i)    == rows[i] # NoRow
RowsOf(t)   == {i \in Ids : IsRow(i) /\ rows[i].tenant = t}
\* searchByState, searchByAreaCode, searchTollFree: what Twilio has for sale.
Available   == {n \in Numbers : bought[n] = Free}
Clear(t, i) == [k \in Ids |-> IF k \in RowsOf(t) \ {i} THEN [rows[k] EXCEPT !.isPrimary = FALSE]
                              ELSE rows[k]]

Blank(kind, pc, t) ==
  [place |-> 0, kind |-> kind, pc |-> pc, tenant |-> t, number |-> "none", id |-> 0, sid |-> 0,
   isPrimary |-> FALSE, flow |-> 0]
\* A request takes the place of one that has ended: two alike are two.
Begin(r)    == \E place \in (1 .. InFlight) \ {q.place : q \in requests} :
                 /\ \A p \in 1 .. place - 1 : \E q \in requests : q.place = p
                 /\ requests' = requests \cup {[r EXCEPT !.place = place]}
Done(r)     == requests' = requests \ {r}
Goto(r, pc) == requests' = (requests \ {r}) \cup {[r EXCEPT !.pc = pc]}
At(r, kind, pc) == r.kind = kind /\ r.pc = pc

-----------------------------------------------------------------------------
\* purchasePhoneNumber, up to the call of Twilio.
Purchase(t, n, primary) ==
  /\ n \in Available
  /\ ids < MaxIds
  /\ ids' = ids + 1
  /\ Begin([Blank("purchase", "twilio", t) EXCEPT !.number = n, !.id = ids + 1, !.isPrimary = primary])
  /\ UNCHANGED <<bought, rows, flows, apps, half>>

\* purchaseNumber: the number may have been sold meanwhile.
Buy(r) ==
  /\ At(r, "purchase", "twilio")
  /\ IF r.number \in Available
     THEN bought' = [bought EXCEPT ![r.number] = [sid |-> r.id, hook |-> r.id]] /\ Goto(r, "unset")
     ELSE Done(r) /\ UNCHANGED bought
  /\ UNCHANGED <<rows, flows, apps, ids, half>>

\* The row is inserted: its number must be in no other row, else the purchase stays half.
SaveNumber(r) ==
  /\ At(r, "purchase", "save")
  /\ IF \E k \in Ids : rows[k].number = r.number
     THEN half' = half \cup {r.id} /\ UNCHANGED rows
     ELSE /\ rows' = [rows EXCEPT ![r.id] =
                       [number |-> r.number, tenant |-> r.tenant, sid |-> r.id,
                        isPrimary |-> r.isPrimary, flow |-> 0]]
          /\ UNCHANGED half
  /\ Done(r)
  /\ UNCHANGED <<bought, flows, apps, ids>>

\* updatePhoneNumber: a changed name is first sent to Twilio.
Update(i, primary) ==
  /\ IsRow(i)
  /\ \E pc \in {"twilio", "unset"} :
       Begin([Blank("update", pc, rows[i].tenant) EXCEPT
                !.id = i, !.sid = rows[i].sid, !.isPrimary = primary])
  /\ UNCHANGED <<bought, rows, flows, apps, ids, half>>

\* updateNumber: Twilio knows the number as long as it is held.
Rename(r) ==
  /\ At(r, "update", "twilio")
  /\ IF \E n \in Numbers : bought[n].sid = r.sid THEN Goto(r, "unset") ELSE Done(r)
  /\ UNCHANGED <<bought, rows, flows, apps, ids, half>>

\* Purchase and update: the other numbers of the tenant are no longer the primary one.
Unset(r) ==
  /\ r.pc = "unset"
  /\ rows' = IF r.isPrimary THEN Clear(r.tenant, r.id) ELSE rows
  /\ Goto(r, "save")
  /\ UNCHANGED <<bought, flows, apps, ids, half>>

UpdateSave(r) ==
  /\ At(r, "update", "save")
  /\ rows' = IF IsRow(r.id)
             THEN [rows EXCEPT ![r.id] = [number |-> rows[r.id].number, tenant |-> rows[r.id].tenant,
                     sid |-> rows[r.id].sid, isPrimary |-> r.isPrimary, flow |-> rows[r.id].flow]]
             ELSE rows
  /\ Done(r)
  /\ UNCHANGED <<bought, flows, apps, ids, half>>

\* deletePhoneNumber reads the row, releases the number, deletes the row.
Delete(i) ==
  /\ IsRow(i)
  /\ Begin([Blank("delete", "twilio", rows[i].tenant) EXCEPT
              !.id = i, !.number = rows[i].number, !.sid = rows[i].sid])
  /\ UNCHANGED <<bought, rows, flows, apps, ids, half>>

\* Mutated form: the number is released whoever has bought it since.
ReleaseByNumber(r) ==
  /\ At(r, "delete", "twilio")
  /\ IF bought[r.number] # Free
     THEN bought' = [bought EXCEPT ![r.number] = Free] /\ Goto(r, "save")
     ELSE Done(r) /\ UNCHANGED bought
  /\ UNCHANGED <<rows, flows, apps, ids, half>>

\* releaseNumber: Twilio does not know a SID that has been released.
Release(r) ==
  /\ At(r, "delete", "twilio")
  /\ IF bought[r.number].sid = r.sid
     THEN bought' = [bought EXCEPT ![r.number] = Free] /\ Goto(r, "save")
     ELSE Done(r) /\ UNCHANGED bought
  /\ UNCHANGED <<rows, flows, apps, ids, half>>

Erase(r) ==
  /\ At(r, "delete", "save")
  /\ rows' = [rows EXCEPT ![r.id] = NoRow]
  /\ Done(r)
  /\ UNCHANGED <<bought, flows, apps, ids, half>>

-----------------------------------------------------------------------------
\* create, duplicate: a new flow of the tenant.
CreateFlow(t, f) ==
  /\ flows[f] = "new"
  /\ flows' = [flows EXCEPT ![f] = t]
  /\ UNCHANGED <<bought, rows, apps, ids, requests, half>>

\* delete counts the numbers of the flow.
DeleteFlow(f) ==
  /\ flows[f] \in Tenants
  /\ \A i \in Ids : rows[i].flow # f
  /\ Begin([Blank("unflow", "save", flows[f]) EXCEPT !.flow = f])
  /\ UNCHANGED <<bought, rows, flows, apps, ids, half>>

\* The numbers that have been given the flow meanwhile lose it.
EraseFlow(r) ==
  /\ At(r, "unflow", "save")
  /\ flows' = [flows EXCEPT ![r.flow] = "deleted"]
  /\ rows' = [i \in Ids |-> IF rows[i].flow = r.flow /\ IsRow(i) THEN [rows[i] EXCEPT !.flow = 0]
                            ELSE rows[i]]
  /\ Done(r)
  /\ UNCHANGED <<bought, apps, ids, half>>

\* assignToPhoneNumber: the number and the flow are the tenant's; none takes the flow away.
Assign(t, i, f) ==
  /\ i \in RowsOf(t) /\ (f # 0 => flows[f] = t)
  /\ Begin([Blank("assign", "save", t) EXCEPT !.id = i, !.flow = f])
  /\ UNCHANGED <<bought, rows, flows, apps, ids, half>>

AssignSave(r) ==
  /\ At(r, "assign", "save")
  /\ rows' = IF IsRow(r.id) /\ (r.flow # 0 => flows[r.flow] \in Tenants)
             THEN [rows EXCEPT ![r.id].flow = r.flow] ELSE rows
  /\ Done(r)
  /\ UNCHANGED <<bought, flows, apps, ids, half>>

\* getOrCreateTwimlApp tells the app there is our URL, or creates one.
AppRead(t) ==
  /\ IF apps = 0 THEN Begin(Blank("app", "save", t)) ELSE UNCHANGED requests
  /\ UNCHANGED <<bought, rows, flows, apps, ids, half>>
AppCreate(r) ==
  /\ At(r, "app", "save")
  /\ apps' = apps + 1
  /\ Done(r)
  /\ UNCHANGED <<bought, rows, flows, ids, half>>

\* A purchase that has bought its number, a deletion that has released it.
Purchased(r) == r.kind = "purchase" /\ r.pc # "twilio"
Released(r)  == At(r, "delete", "save")

\* Twilio refuses, the insert fails, or the server stops: nothing is undone.
Fail(r) ==
  /\ Faults /\ Done(r)
  /\ half' = IF Purchased(r) \/ Released(r) THEN half \cup {r.id} ELSE half
  /\ UNCHANGED <<bought, rows, flows, apps, ids>>

-----------------------------------------------------------------------------
Init ==
  /\ bought = [n \in Numbers |-> Free]
  /\ rows = [i \in Ids |-> NoRow]
  /\ flows = [f \in Flows |-> "new"]
  /\ apps = 0 /\ ids = 0
  /\ requests = {} /\ half = {}

Step(r) ==
  \/ Buy(r) \/ Unset(r) \/ SaveNumber(r) \/ Rename(r) \/ UpdateSave(r)
  \/ Release(r) \/ Erase(r) \/ EraseFlow(r) \/ AssignSave(r) \/ AppCreate(r) \/ Fail(r)

Next ==
  \/ \E t \in Tenants, n \in Numbers, primary \in BOOLEAN : Purchase(t, n, primary)
  \/ \E i \in Ids, primary \in BOOLEAN : Update(i, primary)
  \/ \E i \in Ids : Delete(i)
  \/ \E t \in Tenants, f \in Flows : CreateFlow(t, f)
  \/ \E f \in Flows : DeleteFlow(f)
  \/ \E t \in Tenants, i \in Ids, f \in Flows \cup {0} : Assign(t, i, f)
  \/ \E t \in Tenants : AppRead(t)
  \/ \E r \in requests : Step(r)

Spec == Init /\ [][Next]_vars

-----------------------------------------------------------------------------
\* Every row is of a number, and its flow is one of the same tenant that still exists.
TypeOK ==
  /\ bought \in [Numbers -> [sid : Ids \cup {0}, hook : Ids \cup {0}]]
  /\ rows \in [Ids -> Row \cup {NoRow}]
  /\ flows \in [Flows -> Tenants \cup {"new", "deleted"}]
  /\ apps \in Nat /\ ids \in 0 .. MaxIds
  /\ requests \subseteq Request /\ half \subseteq Ids
  /\ \A i \in Ids : rows[i].flow # 0 => flows[rows[i].flow] = rows[i].tenant

\* purchasePhoneNumber, deletePhoneNumber: whatever purchases, updates and releases overlap,
\* a number that is paid for has webhooks that name its own row ("Generate phone ID first so
\* we can set up webhooks") or is being bought, and a row's number is paid for with the row's
\* SID or is being deleted, but for the purchases and releases whose second step failed.
NumbersAccounted ==
  /\ \A n \in Numbers : bought[n] # Free =>
       LET i == bought[n].hook IN
       /\ bought[n].sid = i
       /\ IF IsRow(i) THEN rows[i].number = n /\ rows[i].sid = i
          ELSE i \in half \/ \E r \in requests : Purchased(r) /\ r.id = i
  /\ \A i \in Ids : IsRow(i) =>
       \/ bought[rows[i].number].sid = rows[i].sid
       \/ i \in half
       \/ \E r \in requests : Released(r) /\ r.id = i

-----------------------------------------------------------------------------
(* What does not hold (README, "Counterexamples"). *)

\* The numbers bought are those with a row (so it is with one request at a time and no
\* fault).
NumbersMatch ==
  requests = {} =>
    /\ \A i \in Ids : IsRow(i) => bought[rows[i].number].sid = rows[i].sid
    /\ \A n \in Numbers : bought[n] # Free => IsRow(bought[n].hook)

\* "If setting as primary, unset other primary numbers".
OnePrimary ==
  \A t \in Tenants : \A i, k \in RowsOf(t) : rows[i].isPrimary /\ rows[k].isPrimary => i = k

\* delete: "Unassign the phone numbers first": a number loses its flow when it is told so.
FlowStays ==
  [][\A i \in Ids : rows[i].flow # 0 /\ rows'[i] # NoRow /\ rows'[i].flow = 0
       => \E r \in requests : r.kind = "assign" /\ r.id = i]_vars

\* "Check if app already exists".
OneApp == apps < 2
=============================================================================
