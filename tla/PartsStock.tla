----------------------------- MODULE PartsStock -----------------------------
(***************************************************************************)
(* The stock of the parts inventory and the parts installed in vehicles.   *)
(*                                                                         *)
(* A request handler reads the rows it needs, awaits, and then writes a    *)
(* quantity computed from what it read; where it uses a transaction, only  *)
(* the writes are in it.  So every handler is two actions: the one named   *)
(* ...Read takes the request and reads, the other one writes.  A           *)
(* transaction is one step; when one of its statements finds no row, or a  *)
(* foreign key refuses it, the whole of it is rolled back.                 *)
(***************************************************************************)
EXTENDS Integers, FiniteSetsExt

CONSTANTS
  Parts, Vehicles,
  NoVehicle,    \* the handlers that are about no vehicle
  MaxQuantity,  \* bound: the largest quantity a request asks for
  MaxRequests,  \* bound: the number of requests that change the stock
  InFlight      \* how many requests may be handled at once

ASSUME VehicleAssumption == NoVehicle \notin Vehicles
ASSUME BoundsAssumption ==
  MaxQuantity \in Nat \ {0} /\ MaxRequests \in Nat /\ InFlight \in Nat

VARIABLES
  part,      \* parts: is the row there, and Part.quantity
  uses,      \* vehicle_parts: how much of which part is in which vehicle
  vehicles,  \* the vehicles that are there
  tasks,     \* the handlers between their reads and their writes
  requests,  \* the number of requests so far
  ledger,    \* history: units taken in less units used up or sold, per part
  restored   \* history: which handler has put which installed units back

vars == <<part, uses, vehicles, tasks, requests, ledger, restored>>

Quantities == 1 .. MaxQuantity
Ids        == 1 .. MaxRequests
Use        == [id : Ids, part : Parts, vehicle : Vehicles, quantity : Nat]
Kinds      == {"associate", "remove", "adjust", "sell", "update", "delete"}
Task       == [id : Ids, kind : Kinds, part : Parts, vehicle : Vehicles \cup {NoVehicle},
               n : Int, seen : Nat, use : 0 .. MaxRequests, restore : BOOLEAN]

Row(q)       == [row |-> "live", quantity |-> q]
Live(p)      == part[p].row = "live"
Set(p, q)    == part' = [part EXCEPT ![p] = Row(q)]
UsesOf(p)    == {u \in uses : u.part = p}
Units(us)    == MapThenSumSet(LAMBDA u : u.quantity, us)
Others(t)    == tasks \ {t}
Done(t)      == tasks' = Others(t)

\* A request comes in: its handler has read the quantity of part p.
Begin(kind, p, v, n, use, restore) ==
  /\ requests < MaxRequests
  /\ Cardinality(tasks) < InFlight
  /\ requests' = requests + 1
  /\ tasks' = tasks \cup {[id |-> requests + 1, kind |-> kind, part |-> p, vehicle |-> v,
                           n |-> n, seen |-> part[p].quantity, use |-> use,
                           restore |-> restore]}
  /\ UNCHANGED <<part, uses, vehicles, ledger, restored>>

(***************************************************************************)
(* vehicle-parts.service.ts                                                *)
(***************************************************************************)

\* Mutated form: the stock is not compared with what is asked for.
AssociateReadUnchecked(p, v, n) ==
  /\ v \in vehicles /\ Live(p)
  /\ Begin("associate", p, v, n, 0, FALSE)

\* associatePart: the vehicle and the part are there and there is enough stock.
AssociateRead(p, v, n) ==
  /\ v \in vehicles /\ Live(p) /\ part[p].quantity >= n
  /\ Begin("associate", p, v, n, 0, FALSE)

\* Its transaction: the remaining quantity is written, the association created.
Associate(t) ==
  /\ t.kind = "associate"
  /\ IF Live(t.part) /\ t.vehicle \in vehicles
     THEN /\ Set(t.part, t.seen - t.n)
          /\ uses' = uses \cup {[id |-> t.id, part |-> t.part, vehicle |-> t.vehicle,
                                 quantity |-> t.n]}
     ELSE UNCHANGED <<part, uses>>
  /\ Done(t)
  /\ UNCHANGED <<vehicles, requests, ledger, restored>>

\* Mutated form: the units used at once stay in the stock.
CreateAndAssociateAll(p, v, total, n) ==
  /\ requests < MaxRequests
  /\ v \in vehicles /\ part[p].row = "new" /\ n <= total
  /\ part' = [part EXCEPT ![p] = Row(total)]
  /\ uses' = uses \cup {[id |-> requests + 1, part |-> p, vehicle |-> v, quantity |-> n]}
  /\ ledger' = [ledger EXCEPT ![p] = total]
  /\ requests' = requests + 1
  /\ UNCHANGED <<vehicles, tasks, restored>>

\* createAndAssociate: a new part, of which n are used in the vehicle at once.
CreateAndAssociate(p, v, total, n) ==
  /\ requests < MaxRequests
  /\ v \in vehicles /\ part[p].row = "new" /\ n <= total
  /\ part' = [part EXCEPT ![p] = Row(total - n)]
  /\ uses' = uses \cup {[id |-> requests + 1, part |-> p, vehicle |-> v, quantity |-> n]}
  /\ ledger' = [ledger EXCEPT ![p] = total]
  /\ requests' = requests + 1
  /\ UNCHANGED <<vehicles, tasks, restored>>

\* removeAssociation: the association is found together with its part.
RemoveRead(u, restore) ==
  /\ u.vehicle \in vehicles
  /\ Begin("remove", u.part, u.vehicle, u.quantity, u.id, restore)

\* Mutated form: the stock is put back whether or not the association is still there.
RemoveWithoutRollback(t) ==
  /\ t.kind = "remove"
  /\ uses' = {u \in uses : u.id # t.use}
  /\ IF t.restore /\ Live(t.part)
     THEN Set(t.part, t.seen + t.n) /\ restored' = restored \cup {<<t.id, t.use>>}
     ELSE UNCHANGED <<part, restored>>
  /\ Done(t)
  /\ UNCHANGED <<vehicles, requests, ledger>>

\* Its transaction: the stock is put back when asked for, the association deleted.
\* The delete of a row that is gone throws, and the stock is rolled back with it.
Remove(t) ==
  /\ t.kind = "remove"
  /\ LET found == {u \in uses : u.id = t.use} IN
     IF found # {}
     THEN /\ uses' = uses \ found
          /\ IF t.restore
             THEN /\ Set(t.part, t.seen + t.n)
                  /\ restored' = restored \cup {<<t.id, t.use>>}
                  /\ UNCHANGED ledger
             ELSE /\ ledger' = [ledger EXCEPT ![t.part] = @ - t.n]
                  /\ UNCHANGED <<part, restored>>
     ELSE UNCHANGED <<part, uses, ledger, restored>>
  /\ Done(t)
  /\ UNCHANGED <<vehicles, requests>>

(***************************************************************************)
(* parts.service.ts                                                        *)
(***************************************************************************)

\* create: there is nothing about the stock to read.
Create(p, q) ==
  /\ requests < MaxRequests
  /\ part[p].row = "new"
  /\ part' = [part EXCEPT ![p] = Row(q)]
  /\ ledger' = [ledger EXCEPT ![p] = q]
  /\ requests' = requests + 1
  /\ UNCHANGED <<uses, vehicles, tasks, restored>>

\* updateQuantity: no adjustment takes the quantity that was read below 0.
AdjustRead(p, n) ==
  /\ Live(p) /\ part[p].quantity + n >= 0
  /\ Begin("adjust", p, NoVehicle, n, 0, FALSE)

Adjust(t) ==
  /\ t.kind = "adjust"
  /\ IF Live(t.part)
     THEN Set(t.part, t.seen + t.n) /\ ledger' = [ledger EXCEPT ![t.part] = @ + t.n]
     ELSE UNCHANGED <<part, ledger>>
  /\ Done(t)
  /\ UNCHANGED <<uses, vehicles, requests, restored>>

\* markAsSold: one unit less, but never below 0.
SellRead(p) == Live(p) /\ Begin("sell", p, NoVehicle, 1, 0, FALSE)

Sell(t) ==
  /\ t.kind = "sell"
  /\ IF Live(t.part)
     THEN LET rest == IF t.seen > 0 THEN t.seen - 1 ELSE 0 IN
          /\ Set(t.part, rest)
          /\ ledger' = [ledger EXCEPT ![t.part] = @ - (t.seen - rest)]
     ELSE UNCHANGED <<part, ledger>>
  /\ Done(t)
  /\ UNCHANGED <<uses, vehicles, requests, restored>>

\* update with a quantity: the new one counts, whatever the old one was.
UpdateRead(p, q) == Live(p) /\ Begin("update", p, NoVehicle, q, 0, FALSE)

Update(t) ==
  /\ t.kind = "update"
  /\ IF Live(t.part)
     THEN /\ Set(t.part, t.n)
          /\ ledger' = [ledger EXCEPT ![t.part] = @ + t.n - part[t.part].quantity]
     ELSE UNCHANGED <<part, ledger>>
  /\ Done(t)
  /\ UNCHANGED <<uses, vehicles, requests, restored>>

\* remove: a part that is installed somewhere cannot be deleted (foreign key).
DeleteRead(p) == Live(p) /\ Begin("delete", p, NoVehicle, 0, 0, FALSE)

Delete(t) ==
  /\ t.kind = "delete"
  /\ IF UsesOf(t.part) = {}
     THEN /\ part' = [part EXCEPT ![t.part] = [row |-> "gone", quantity |-> 0]]
          /\ ledger' = [ledger EXCEPT ![t.part] = 0]
     ELSE UNCHANGED <<part, ledger>>
  /\ Done(t)
  /\ UNCHANGED <<uses, vehicles, requests, restored>>

\* vehicle.service.ts, remove: the vehicle's associations go with it (cascade), and
\* their units are used up.
RemoveVehicle(v) ==
  /\ v \in vehicles
  /\ vehicles' = vehicles \ {v}
  /\ uses' = {u \in uses : u.vehicle # v}
  /\ ledger' = [p \in Parts |-> ledger[p] - Units({u \in UsesOf(p) : u.vehicle = v})]
  /\ UNCHANGED <<part, tasks, requests, restored>>

-----------------------------------------------------------------------------

Init ==
  /\ part     = [p \in Parts |-> [row |-> "new", quantity |-> 0]]
  /\ uses     = {}
  /\ vehicles = Vehicles
  /\ tasks    = {}
  /\ requests = 0
  /\ ledger   = [p \in Parts |-> 0]
  /\ restored = {}

Request ==
  \/ \E p \in Parts, v \in Vehicles, n \in Quantities :
       \/ AssociateRead(p, v, n)
       \/ \E total \in Quantities : CreateAndAssociate(p, v, total, n)
  \/ \E p \in Parts, n \in Quantities :
       Create(p, n) \/ AdjustRead(p, n) \/ AdjustRead(p, -n) \/ UpdateRead(p, n)
  \/ \E p \in Parts : SellRead(p) \/ DeleteRead(p)
  \/ \E u \in uses, restore \in BOOLEAN : RemoveRead(u, restore)
  \/ \E v \in Vehicles : RemoveVehicle(v)

Commit ==
  \E t \in tasks :
    Associate(t) \/ Remove(t) \/ Adjust(t) \/ Sell(t) \/ Update(t) \/ Delete(t)

Next == Request \/ Commit

Spec == Init /\ [][Next]_vars

-----------------------------------------------------------------------------

\* The columns and the handlers have their types: no quantity is ever negative.
TypeOK ==
  /\ part \in [Parts -> [row : {"new", "live", "gone"}, quantity : Nat]]
  /\ uses \subseteq Use
  /\ vehicles \subseteq Vehicles
  /\ tasks \subseteq Task
  /\ requests \in 0 .. MaxRequests
  /\ DOMAIN ledger = Parts
  /\ restored \subseteq Ids \X Ids

\* What is in stock and what is installed, less what was taken in and neither used up
\* nor sold: 0, unless a request has written a quantity computed from a stale one.
Balance(p) == part[p].quantity + Units(UsesOf(p)) - ledger[p]

\* The handlers of both services: no step changes the balance of a part, except the
\* write of a handler that has read another quantity than the one it overwrites.
StockConserved ==
  [][ (\A t \in tasks \ tasks' : t.seen = part[t.part].quantity)
        => \A p \in Parts : Live(p)' => Balance(p)' = Balance(p) ]_vars

\* associatePart: no more of a part is installed than there ever was of it.
NoOverdraft == \A p \in Parts : Live(p) => Units(UsesOf(p)) <= ledger[p]

\* removeAssociation: however many requests remove an association, its units go
\* back to the stock at most once, and only with the association gone.
RestoredOnce ==
  \A a, b \in restored :
    a[2] = b[2] => a = b /\ \A u \in uses : u.id # a[2]
=============================================================================
