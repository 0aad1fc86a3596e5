---------------------------- MODULE VehicleRegistry ----------------------------
(***************************************************************************)
(* Vehicles with their numbers, prices, metas, titles and expenses.        *)
(* VehicleService checks a VIN and a stock number within the tenant and    *)
(* writes after several awaits, while the columns are unique over all      *)
(* tenants; it keeps each price under an old and a new name; and it stores *)
(* metas in a table without a foreign key, soft-deleted before their       *)
(* vehicle is.                                                             *)
(***************************************************************************)
EXTENDS Naturals, FiniteSets

CONSTANTS
  Requests,
  Tenants,
  Vins,
  Prices,     \* amounts
  MaxVehicle, \* bound: vehicles ever created
  MaxStock    \* bound: the highest stock number of the model

Bounds == IsFiniteSet(Requests) /\ MaxVehicle \in Nat /\ MaxStock \in Nat

VARIABLES
  vehicle,     \* the vehicles by id
  lastVehicle, \* the last id given
  metas,       \* [of: a vehicle id, live: not soft-deleted]: one key per vehicle
  titles,      \* how many titles each vehicle has
  deals,       \* the vehicles with a deal, which keeps them from being deleted
  split,       \* history: the vehicles that a client has given two prices for one
  req

vars == <<vehicle, lastVehicle, metas, titles, deals, split, req>>

Ids  == 1 .. MaxVehicle
Null == "null"
NoVehicle == [tenant |-> "none", vin |-> "none", stock |-> 0, old |-> Null, new |-> Null]
Idle == [at |-> "idle", id |-> 0, tenant |-> "none", vin |-> "none", stock |-> 0,
         metas |-> FALSE]

There == {i \in Ids : vehicle[i].tenant # "none"}
\* The request is answered, with an error or without; another one comes.
End(r) == req' = [req EXCEPT ![r] = Idle]

\* A price that a client leaves out.
Undefined == "undefined"
Given == Prices \cup {Null, Undefined}

\* Mutated form: the old name is not carried over to the new one.
SyncPricingFieldsOneWay(old, new) ==
  [old |-> IF old = Undefined THEN new ELSE old, new |-> new]

\* syncPricingFields: what is given under one name only is stored under both.
SyncPricingFields(old, new) ==
  [old |-> IF old = Undefined THEN new ELSE old,
   new |-> IF new = Undefined THEN old ELSE new]

-----------------------------------------------------------------------------
(* create *)

MaxStockOf(S) == IF S = {} THEN 0 ELSE CHOOSE n \in S : \A k \in S : k <= n

\* generateStockNumber: one more than the highest number of all tenants.
GenerateStockNumber == MaxStockOf({vehicle[i].stock : i \in There}) + 1

\* The VIN and a given stock number are looked up within the tenant; without a stock
\* number the next one is taken.
CreateCheck(r) ==
  /\ req[r].at = "idle"
  /\ \E t \in Tenants, v \in Vins, given \in 0 .. MaxStock, withMetas \in BOOLEAN :
       IF \E i \in There : vehicle[i].tenant = t /\
                           (vehicle[i].vin = v \/ (given # 0 /\ vehicle[i].stock = given))
       THEN End(r)
       ELSE LET stock == IF given = 0 THEN GenerateStockNumber ELSE given IN
            /\ stock <= MaxStock
            /\ req' = [req EXCEPT ![r] = [Idle EXCEPT !.at = "insert", !.tenant = t, !.vin = v,
                                                      !.stock = stock, !.metas = withMetas]]
  /\ UNCHANGED <<vehicle, lastVehicle, metas, titles, deals, split>>

\* validateRelatedEntities: a year, make, model or trim that is gone refuses the create.
ValidateRelatedEntities(r) ==
  /\ req[r].at = "insert"
  /\ End(r)
  /\ UNCHANGED <<vehicle, lastVehicle, metas, titles, deals, split>>

\* The insert throws when any tenant has the VIN or the number by now.
CreateInsert(r) ==
  LET q == req[r]
      taken == \E i \in There : vehicle[i].vin = q.vin \/ vehicle[i].stock = q.stock
  IN /\ q.at = "insert"
     /\ IF taken THEN End(r) /\ UNCHANGED <<vehicle, lastVehicle, split>>
        ELSE \E old \in Given, new \in Given :
             LET price == SyncPricingFields(old, new)
                 stored(p) == IF p = Undefined THEN Null ELSE p
                 id == lastVehicle + 1
             IN /\ lastVehicle < MaxVehicle
                /\ lastVehicle' = id
                /\ vehicle' = [vehicle EXCEPT ![id] =
                     [tenant |-> q.tenant, vin |-> q.vin, stock |-> q.stock,
                      old |-> stored(price.old), new |-> stored(price.new)]]
                /\ split' = IF Undefined \notin {old, new} /\ old # new
                            THEN split \cup {id} ELSE split
                /\ IF q.metas THEN req' = [req EXCEPT ![r] = [Idle EXCEPT !.at = "metas", !.id = id]]
                   ELSE End(r)
     /\ UNCHANGED <<metas, titles, deals>>

\* bulkCreate of the metas, in a transaction of its own.
BulkCreate(r) ==
  /\ req[r].at = "metas"
  /\ metas' = metas \cup {[of |-> req[r].id, live |-> TRUE]}
  /\ End(r)
  /\ UNCHANGED <<vehicle, lastVehicle, titles, deals, split>>

-----------------------------------------------------------------------------
(* update and remove *)

\* The VIN is checked within the tenant; stock number, year, make and model never change.
UpdateCheck(r) ==
  /\ req[r].at = "idle"
  /\ \E i \in There, v \in Vins :
       IF \E j \in There \ {i} : vehicle[j].tenant = vehicle[i].tenant /\ vehicle[j].vin = v
       THEN End(r)
       ELSE req' = [req EXCEPT ![r] = [Idle EXCEPT !.at = "update", !.id = i, !.vin = v]]
  /\ UNCHANGED <<vehicle, lastVehicle, metas, titles, deals, split>>

UpdateWrite(r) ==
  LET i == req[r].id
      refused == i \notin There \/ \E j \in There \ {i} : vehicle[j].vin = req[r].vin
  IN /\ req[r].at = "update"
     /\ End(r)
     /\ IF refused THEN UNCHANGED <<vehicle, split>>
        ELSE \E old \in Given, new \in Given :
             LET price == SyncPricingFields(old, new)
                 kept(p, before) == IF p = Undefined THEN before ELSE p
             IN /\ vehicle' = [vehicle EXCEPT ![i] =
                     [tenant |-> @.tenant, vin |-> req[r].vin, stock |-> @.stock,
                      old |-> kept(price.old, @.old), new |-> kept(price.new, @.new)]]
                /\ split' = IF old = new /\ old = Undefined THEN split
                            ELSE IF Undefined \notin {old, new} /\ old # new THEN split \cup {i}
                            ELSE split \ {i}
     /\ UNCHANGED <<lastVehicle, metas, titles, deals>>

RemoveCheck(r) ==
  /\ req[r].at = "idle"
  /\ \E i \in There : req' = [req EXCEPT ![r] = [Idle EXCEPT !.at = "unmeta", !.id = i]]
  /\ UNCHANGED <<vehicle, lastVehicle, metas, titles, deals, split>>

\* deleteByEntity: the metas of the vehicle are soft-deleted ...
RemoveMetas(r) ==
  LET mine(m) == m.of = req[r].id
  IN /\ req[r].at = "unmeta"
     /\ metas' = {m \in metas : ~mine(m)} \cup {[m EXCEPT !.live = FALSE] : m \in {k \in metas : mine(k)}}
     /\ req' = [req EXCEPT ![r].at = "delete"]
     /\ UNCHANGED <<vehicle, lastVehicle, titles, deals, split>>

\* Mutated form: the titles stay when their vehicle goes.
RemoveDeleteKeepsTitles(r) ==
  LET i == req[r].id
  IN /\ req[r].at = "delete"
     /\ End(r)
     /\ IF i \in There \ deals
        THEN vehicle' = [vehicle EXCEPT ![i] = NoVehicle] /\ split' = split \ {i}
        ELSE UNCHANGED <<vehicle, split>>
     /\ UNCHANGED <<lastVehicle, metas, titles, deals>>

\* ... and the vehicle is deleted, with its titles; a deal makes the delete throw.
RemoveDelete(r) ==
  LET i == req[r].id
  IN /\ req[r].at = "delete"
     /\ End(r)
     /\ IF i \in There \ deals
        THEN /\ vehicle' = [vehicle EXCEPT ![i] = NoVehicle]
             /\ titles'  = [titles EXCEPT ![i] = 0]
             /\ split'   = split \ {i}
        ELSE UNCHANGED <<vehicle, titles, split>>
     /\ UNCHANGED <<lastVehicle, metas, deals>>

-----------------------------------------------------------------------------
(* Titles, metas, deals *)

\* TitleService.upsert: the latest title, or none.
TitleFind(r) ==
  /\ req[r].at = "idle"
  /\ \E i \in There :
       req' = [req EXCEPT ![r] = [Idle EXCEPT !.at = IF titles[i] = 0 THEN "title" ELSE "retitle",
                                              !.id = i]]
  /\ UNCHANGED <<vehicle, lastVehicle, metas, titles, deals, split>>

\* It is updated, or one is created; no constraint keeps a second one out.
TitleWrite(r) ==
  LET i == req[r].id
  IN /\ req[r].at \in {"title", "retitle"}
     /\ titles' = IF req[r].at = "title" /\ i \in There THEN [titles EXCEPT ![i] = @ + 1] ELSE titles
     /\ End(r)
     /\ UNCHANGED <<vehicle, lastVehicle, metas, deals, split>>

\* MetaService.create: a soft-deleted meta still has its key, and nothing asks whether
\* the vehicle is there.
MetaCreate(i) ==
  /\ \A m \in metas : m.of # i
  /\ metas' = metas \cup {[of |-> i, live |-> TRUE]}
  /\ UNCHANGED <<vehicle, lastVehicle, titles, deals, split, req>>

\* MetaService.remove: not for a meta that is soft-deleted.
MetaRemove(m) ==
  /\ m.live
  /\ metas' = metas \ {m}
  /\ UNCHANGED <<vehicle, lastVehicle, titles, deals, split, req>>

\* A deal is made, or ended.
Deal(i) ==
  /\ i \in There
  /\ deals' = IF i \in deals THEN deals \ {i} ELSE deals \cup {i}
  /\ UNCHANGED <<vehicle, lastVehicle, metas, titles, split, req>>

Init ==
  /\ vehicle = [i \in Ids |-> NoVehicle] /\ lastVehicle = 0
  /\ metas = {} /\ titles = [i \in Ids |-> 0] /\ deals = {} /\ split = {}
  /\ req = [r \in Requests |-> Idle]

Create(r) == CreateCheck(r) \/ ValidateRelatedEntities(r) \/ CreateInsert(r) \/ BulkCreate(r)
Update(r) == UpdateCheck(r) \/ UpdateWrite(r)
Remove(r) == RemoveCheck(r) \/ RemoveMetas(r) \/ RemoveDelete(r)
TitleUpsert(r) == TitleFind(r) \/ TitleWrite(r)

Next ==
  \/ \E r \in Requests : Create(r) \/ Update(r) \/ Remove(r) \/ TitleUpsert(r)
  \/ \E i \in 1 .. lastVehicle : MetaCreate(i) \/ Deal(i)
  \/ \E m \in metas : MetaRemove(m)

TypeOK ==
  /\ vehicle \in [Ids -> [tenant : Tenants \cup {"none"}, vin : Vins \cup {"none"},
                          stock : 0 .. MaxStock, old : Prices \cup {Null}, new : Prices \cup {Null}]]
  /\ lastVehicle \in 0 .. MaxVehicle
  /\ metas \subseteq [of : Ids, live : BOOLEAN]
  /\ titles \in [Ids -> 0 .. Cardinality(Requests)]
  /\ deals \subseteq Ids /\ split \subseteq Ids

\* "Sync legacy with new pricing fields for backward compatibility": whichever names
\* the clients use, in whatever order, both names show the same price, unless a client
\* itself gave two prices at once.
PricesAgree == \A i \in There \ split : vehicle[i].old = vehicle[i].new

\* Nothing that belongs to a vehicle by a foreign key outlives it, even when a title is
\* written while its vehicle is being deleted.
NoOrphanTitles == \A i \in Ids : titles[i] # 0 => i \in There

\* "Delete a vehicle and all its associated metas": no live meta of a vehicle that is gone
\* (README, "Counterexamples": a meta created between the two steps, or after them).
NoOrphanMetas == \A m \in metas : m.live => m.of \in There

\* The metas are deleted with the vehicle or not at all (README, "Counterexamples": a deal
\* keeps the vehicle, and its metas are gone).
RemoveKeepsAllOrNothing ==
  \A r \in Requests, i \in Ids :
    (req[r].at = "delete" /\ req[r].id = i /\ req'[r].at = "idle") => i \notin deals

\* "Create or update the title for a vehicle" (README, "Counterexamples": two at once).
OneTitle == \A i \in Ids : titles[i] <= 1
=============================================================================
