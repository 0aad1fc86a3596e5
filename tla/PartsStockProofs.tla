-------------------------- MODULE PartsStockProofs --------------------------
(***************************************************************************)
(* What the stock keeps whatever the requests and however they interleave: *)
(* no quantity is negative, no installed unit is put back twice, and a step*)
(* changes what a part has and owes only by a write on a stale quantity.   *)
(***************************************************************************)
EXTENDS PartsStock, TLAPS, FiniteSetTheorems, WellFoundedInduction

\* What a handler will write is in range, and it was begun by a past request.
TaskOK(t, r) ==
  /\ t.id <= r
  /\ t.kind = "associate" => t.seen - t.n \in Nat /\ t.n \in Nat /\ t.vehicle \in Vehicles
  /\ t.kind = "remove" => t.n \in Nat
  /\ t.kind = "adjust" => t.seen + t.n \in Nat
  /\ t.kind = "update" => t.n \in Nat

TasksOK ==
  /\ \A t \in tasks : TaskOK(t, requests)
  /\ \A t1, t2 \in tasks : t1.id = t2.id => t1 = t2

\* An id stands for one association: the one that will be, is, or was.
IdsOK ==
  /\ \A u \in uses : u.id <= requests
  /\ \A t \in tasks, u \in uses : t.kind = "associate" => t.id # u.id
  /\ \A a \in restored :
       /\ a[2] <= requests
       /\ \A u \in uses : u.id # a[2]
       /\ \A t \in tasks : t.kind = "associate" => t.id # a[2]
  /\ \A a, b \in restored : a[2] = b[2] => a = b

IndInv == TypeOK /\ TasksOK /\ IdsOK

(***************************************************************************)
(* A request that only begins a handler keeps the invariant, provided what *)
(* the handler has read and was asked for is in range.                     *)
(***************************************************************************)
InRange(kind, p, v, n, use, restore) ==
  /\ kind \in Kinds /\ p \in Parts /\ v \in Vehicles \cup {NoVehicle} /\ n \in Int
  /\ use \in 0 .. MaxRequests /\ restore \in BOOLEAN
  /\ kind = "associate" => part[p].quantity - n \in Nat /\ n \in Nat /\ v \in Vehicles
  /\ kind = "remove" => n \in Nat
  /\ kind = "adjust" => part[p].quantity + n \in Nat
  /\ kind = "update" => n \in Nat

LEMMA BeginOK ==
  ASSUME IndInv, NEW kind, NEW p, NEW v, NEW n, NEW use, NEW restore,
         InRange(kind, p, v, n, use, restore), Begin(kind, p, v, n, use, restore)
  PROVE  IndInv'
<1> DEFINE new == [id |-> requests + 1, kind |-> kind, part |-> p, vehicle |-> v,
                   n |-> n, seen |-> part[p].quantity, use |-> use, restore |-> restore]
<1> USE BoundsAssumption
<1>1. /\ requests \in Nat /\ requests + 1 \in Ids /\ requests' = requests + 1
      /\ tasks' = tasks \cup {new}
      /\ UNCHANGED <<part, uses, vehicles, ledger, restored>>
  BY DEF IndInv, TypeOK, Begin, Ids
<1>2. part[p].quantity \in Nat
  BY DEF IndInv, TypeOK, InRange
<1>3. new \in Task /\ new.id = requests + 1 /\ TaskOK(new, requests + 1)
  BY <1>1, <1>2 DEF Task, TaskOK, InRange
<1> HIDE DEF new
<1>4. TypeOK'
  <2>1. tasks' \subseteq Task
    BY <1>1, <1>3 DEF IndInv, TypeOK
  <2>2. requests' \in 0 .. MaxRequests
    BY <1>1 DEF Ids
  <2> QED
    BY <1>1, <2>1, <2>2 DEF IndInv, TypeOK
<1>5. \A t \in tasks : t.id \in Nat /\ t.id <= requests
  BY DEF IndInv, TypeOK, TasksOK, TaskOK, Task, Ids
<1>6. TasksOK'
  <2>1. \A t \in tasks : TaskOK(t, requests + 1)
    BY <1>1, <1>5 DEF IndInv, TasksOK, TaskOK
  <2>2. \A t1, t2 \in tasks' : t1.id = t2.id => t1 = t2
    BY <1>1, <1>3, <1>5 DEF IndInv, TasksOK
  <2> QED
    BY <1>1, <1>3, <2>1, <2>2 DEF TasksOK
<1>7. IdsOK'
  <2>1. \A u \in uses : u.id \in Nat /\ u.id <= requests
    BY DEF IndInv, TypeOK, IdsOK, Use, Ids
  <2>2. \A a \in restored : a[2] \in Nat /\ a[2] <= requests
    BY DEF IndInv, TypeOK, IdsOK, Ids
  <2> QED
    BY <1>1, <1>3, <2>1, <2>2 DEF IndInv, IdsOK
<1> QED
  BY <1>4, <1>6, <1>7 DEF IndInv

(***************************************************************************)
(* A step that ends handlers, loses associations and begins or creates     *)
(* nothing keeps the handlers and the ids in order.                        *)
(***************************************************************************)
LEMMA ShrinkOK ==
  ASSUME IndInv, tasks' \subseteq tasks, uses' \subseteq uses,
         UNCHANGED <<requests, restored>>
  PROVE  TasksOK' /\ IdsOK'
<1>1. TasksOK'
  BY DEF IndInv, TasksOK, TaskOK
<1>2. IdsOK'
  BY DEF IndInv, IdsOK
<1> QED
  BY <1>1, <1>2

LEMMA AssociateOK ==
  ASSUME IndInv, NEW t \in tasks, Associate(t)
  PROVE  IndInv'
<1>1. /\ t \in Task /\ t.id \in Ids /\ t.part \in Parts /\ t.kind = "associate"
      /\ t.seen - t.n \in Nat /\ t.n \in Nat /\ t.vehicle \in Vehicles /\ t.id <= requests
  BY DEF IndInv, TypeOK, TasksOK, TaskOK, Task, Associate
<1>2. tasks' = tasks \ {t} /\ UNCHANGED <<vehicles, requests, ledger, restored>>
  BY DEF Associate, Done, Others
<1>3. CASE UNCHANGED <<part, uses>>
  <2>1. TypeOK'
    BY <1>2, <1>3 DEF IndInv, TypeOK
  <2> QED
    BY <1>2, <1>3, <2>1, ShrinkOK DEF IndInv
<1>4. CASE ~ UNCHANGED <<part, uses>>
  <2> DEFINE new == [id |-> t.id, part |-> t.part, vehicle |-> t.vehicle, quantity |-> t.n]
  <2>1. uses' = uses \cup {new} /\ part' = [part EXCEPT ![t.part] = Row(t.seen - t.n)]
    BY <1>4 DEF Associate, Set
  <2>2. new \in Use /\ new.id = t.id
    BY <1>1 DEF Use
  <2> HIDE DEF new
  <2>3. TypeOK'
    <3>1. Row(t.seen - t.n) \in [row : {"new", "live", "gone"}, quantity : Nat]
      BY <1>1 DEF Row
    <3> QED
      BY <1>1, <1>2, <2>1, <2>2, <3>1 DEF IndInv, TypeOK
  <2>4. TasksOK'
    BY <1>2 DEF IndInv, TasksOK, TaskOK
  <2>5. IdsOK'
    BY <1>1, <1>2, <2>1, <2>2 DEF IndInv, IdsOK, TasksOK
  <2> QED
    BY <2>3, <2>4, <2>5 DEF IndInv
<1> QED
  BY <1>3, <1>4

LEMMA RemoveOK ==
  ASSUME IndInv, NEW t \in tasks, Remove(t)
  PROVE  IndInv'
<1>1. /\ t \in Task /\ t.id \in Ids /\ t.part \in Parts /\ t.kind = "remove"
      /\ t.seen \in Nat /\ t.n \in Nat /\ t.id <= requests
  BY DEF IndInv, TypeOK, TasksOK, TaskOK, Task, Remove
<1>2. tasks' = tasks \ {t} /\ UNCHANGED <<vehicles, requests>>
  BY DEF Remove, Done, Others
<1> DEFINE found == {u \in uses : u.id = t.use}
<1>3. \/ UNCHANGED <<part, uses, ledger, restored>>
      \/ /\ uses' = uses \ found /\ UNCHANGED <<part, restored>>
         /\ ledger' = [ledger EXCEPT ![t.part] = @ - t.n]
      \/ /\ found # {} /\ uses' = uses \ found
         /\ part' = [part EXCEPT ![t.part] = Row(t.seen + t.n)]
         /\ restored' = restored \cup {<<t.id, t.use>>} /\ UNCHANGED ledger
  BY DEF Remove, Set
<1>4. CASE UNCHANGED <<part, uses, ledger, restored>>
  <2>1. TypeOK'
    BY <1>2, <1>4 DEF IndInv, TypeOK
  <2> QED
    BY <1>2, <1>4, <2>1, ShrinkOK DEF IndInv
<1>5. CASE /\ uses' = uses \ found /\ UNCHANGED <<part, restored>>
           /\ ledger' = [ledger EXCEPT ![t.part] = @ - t.n]
  <2>1. TypeOK'
    BY <1>2, <1>5 DEF IndInv, TypeOK
  <2> QED
    BY <1>2, <1>5, <2>1, ShrinkOK DEF IndInv
<1>6. CASE /\ found # {} /\ uses' = uses \ found
           /\ part' = [part EXCEPT ![t.part] = Row(t.seen + t.n)]
           /\ restored' = restored \cup {<<t.id, t.use>>} /\ UNCHANGED ledger
  <2>1. PICK gone \in uses : gone.id = t.use
    BY <1>6
  <2>2. t.use \in Ids /\ t.use <= requests
    BY <2>1 DEF IndInv, TypeOK, IdsOK, Use
  <2>3. TypeOK'
    <3>1. Row(t.seen + t.n) \in [row : {"new", "live", "gone"}, quantity : Nat]
      BY <1>1 DEF Row
    <3> QED
      BY <1>1, <1>2, <1>6, <2>2, <3>1 DEF IndInv, TypeOK
  <2>4. TasksOK'
    BY <1>2 DEF IndInv, TasksOK, TaskOK
  <2>5. IdsOK'
    <3> DEFINE pair == <<t.id, t.use>>
    <3>1. pair[2] = t.use
      OBVIOUS
    <3>2. \A b \in restored : b[2] # t.use
      BY <2>1 DEF IndInv, IdsOK
    <3>3. \A s \in tasks : s.kind = "associate" => s.id # t.use
      BY <2>1 DEF IndInv, IdsOK
    <3>4. \A w \in uses' : w \in uses /\ w.id # t.use
      BY <1>6
    <3> HIDE DEF pair, found
    <3>5. restored' = restored \cup {pair}
      BY <1>6 DEF pair
    <3>6. \A b \in restored' : /\ b[2] <= requests'
                               /\ \A w \in uses' : w.id # b[2]
                               /\ \A s \in tasks' : s.kind = "associate" => s.id # b[2]
      BY <1>2, <2>2, <3>1, <3>3, <3>4, <3>5 DEF IndInv, IdsOK
    <3>7. \A b, c \in restored' : b[2] = c[2] => b = c
      BY <3>1, <3>2, <3>5 DEF IndInv, IdsOK
    <3>8. /\ \A w \in uses' : w.id <= requests'
          /\ \A s \in tasks', w \in uses' : s.kind = "associate" => s.id # w.id
      BY <1>2, <3>4 DEF IndInv, IdsOK
    <3> QED
      BY <3>6, <3>7, <3>8 DEF IdsOK
  <2> QED
    BY <2>3, <2>4, <2>5 DEF IndInv
<1> QED
  BY <1>3, <1>4, <1>5, <1>6

(***************************************************************************)
(* The other writes change one part's row and end their handler.           *)
(***************************************************************************)
LEMMA WriteOK ==
  ASSUME IndInv, NEW t \in tasks, NEW r \in [row : {"new", "live", "gone"}, quantity : Nat],
         part' \in {part, [part EXCEPT ![t.part] = r]}, DOMAIN ledger' = Parts,
         tasks' = tasks \ {t}, UNCHANGED <<uses, vehicles, requests, restored>>
  PROVE  IndInv'
<1>1. TypeOK'
  BY DEF IndInv, TypeOK
<1> QED
  BY <1>1, ShrinkOK DEF IndInv

LEMMA CommitOK ==
  ASSUME IndInv, NEW t \in tasks,
         Associate(t) \/ Remove(t) \/ Adjust(t) \/ Sell(t) \/ Update(t) \/ Delete(t)
  PROVE  IndInv'
<1>1. /\ t \in Task /\ t.part \in Parts /\ t.seen \in Nat /\ DOMAIN ledger = Parts
      /\ TaskOK(t, requests)
  BY DEF IndInv, TypeOK, TasksOK, Task
<1>2. CASE Associate(t)
  BY <1>2, AssociateOK
<1>3. CASE Remove(t)
  BY <1>3, RemoveOK
<1>4. CASE Adjust(t)
  <2>1. Row(t.seen + t.n) \in [row : {"new", "live", "gone"}, quantity : Nat]
    BY <1>1, <1>4 DEF Adjust, TaskOK, Row
  <2>2. part' \in {part, [part EXCEPT ![t.part] = Row(t.seen + t.n)]}
    BY <1>4 DEF Adjust, Set
  <2> QED
    BY <1>1, <1>4, <2>1, <2>2, WriteOK DEF Adjust, Done, Others
<1>5. CASE Sell(t)
  <2> DEFINE rest == IF t.seen > 0 THEN t.seen - 1 ELSE 0
  <2>1. Row(rest) \in [row : {"new", "live", "gone"}, quantity : Nat]
    BY <1>1 DEF Row
  <2>2. part' \in {part, [part EXCEPT ![t.part] = Row(rest)]}
    BY <1>5 DEF Sell, Set
  <2> QED
    BY <1>1, <1>5, <2>1, <2>2, WriteOK DEF Sell, Done, Others
<1>6. CASE Update(t)
  <2>1. Row(t.n) \in [row : {"new", "live", "gone"}, quantity : Nat]
    BY <1>1, <1>6 DEF Update, TaskOK, Row
  <2>2. part' \in {part, [part EXCEPT ![t.part] = Row(t.n)]}
    BY <1>6 DEF Update, Set
  <2> QED
    BY <1>1, <1>6, <2>1, <2>2, WriteOK DEF Update, Done, Others
<1>7. CASE Delete(t)
  <2>1. part' \in {part, [part EXCEPT ![t.part] = [row |-> "gone", quantity |-> 0]]}
    BY <1>7 DEF Delete
  <2> QED
    BY <1>1, <1>7, <2>1, WriteOK DEF Delete, Done, Others
<1> QED
  BY <1>2, <1>3, <1>4, <1>5, <1>6, <1>7

LEMMA RequestOK ==
  ASSUME IndInv, Request
  PROVE  IndInv'
<1> USE BoundsAssumption
<1>1. requests \in Nat /\ \A p \in Parts : part[p].quantity \in Nat
  BY DEF IndInv, TypeOK
<1>2. ASSUME NEW p \in Parts, NEW v \in Vehicles, NEW n \in Quantities, AssociateRead(p, v, n)
      PROVE  IndInv'
  <2>1. Begin("associate", p, v, n, 0, FALSE)
    BY <1>2 DEF AssociateRead
  <2>2. InRange("associate", p, v, n, 0, FALSE)
    BY <1>1, <1>2 DEF AssociateRead, Quantities, Kinds, InRange
  <2> QED
    BY <2>1, <2>2, BeginOK
<1>3. ASSUME NEW p \in Parts, NEW v \in Vehicles, NEW n \in Quantities,
             NEW total \in Quantities, CreateAndAssociate(p, v, total, n)
      PROVE  IndInv'
  <2> DEFINE new == [id |-> requests + 1, part |-> p, vehicle |-> v, quantity |-> n]
  <2>1. /\ requests + 1 \in Ids /\ requests' = requests + 1 /\ uses' = uses \cup {new}
        /\ part' = [part EXCEPT ![p] = Row(total - n)] /\ n <= total
        /\ ledger' = [ledger EXCEPT ![p] = total] /\ UNCHANGED <<vehicles, tasks, restored>>
    BY <1>1, <1>3 DEF CreateAndAssociate, Ids
  <2>2. new \in Use /\ new.id = requests + 1
    BY <2>1 DEF Use, Quantities
  <2> HIDE DEF new
  <2>3. Row(total - n) \in [row : {"new", "live", "gone"}, quantity : Nat]
    BY <2>1 DEF Row, Quantities
  <2>4. requests' \in 0 .. MaxRequests
    BY <2>1 DEF Ids
  <2>5. TypeOK'
    BY <2>1, <2>2, <2>3, <2>4 DEF IndInv, TypeOK
  <2>6. \A t \in tasks : t.id \in Nat /\ t.id <= requests
    BY DEF IndInv, TypeOK, TasksOK, TaskOK, Task, Ids
  <2>7. TasksOK'
    BY <1>1, <2>1, <2>6 DEF IndInv, TasksOK, TaskOK
  <2>8. IdsOK'
    <3>1. \A u \in uses : u.id \in Nat /\ u.id <= requests
      BY DEF IndInv, TypeOK, IdsOK, Use, Ids
    <3>2. \A a \in restored : a[2] \in Nat /\ a[2] <= requests
      BY DEF IndInv, TypeOK, IdsOK, Ids
    <3> QED
      BY <1>1, <2>1, <2>2, <2>6, <3>1, <3>2 DEF IndInv, IdsOK
  <2> QED
    BY <2>5, <2>7, <2>8 DEF IndInv
<1>4. ASSUME NEW p \in Parts, NEW n \in Quantities, Create(p, n)
      PROVE  IndInv'
  <2>1. /\ requests' \in 0 .. MaxRequests /\ requests' = requests + 1
        /\ part' = [part EXCEPT ![p] = Row(n)]
        /\ ledger' = [ledger EXCEPT ![p] = n] /\ UNCHANGED <<uses, vehicles, tasks, restored>>
    BY <1>1, <1>4 DEF Create
  <2>2. Row(n) \in [row : {"new", "live", "gone"}, quantity : Nat]
    BY DEF Row, Quantities
  <2>3. TypeOK'
    BY <2>1, <2>2 DEF IndInv, TypeOK
  <2>4. TasksOK'
    <3>1. \A t \in tasks : t.id \in Nat
      BY DEF IndInv, TypeOK, Task, Ids
    <3> QED
      BY <1>1, <2>1, <3>1 DEF IndInv, TasksOK, TaskOK
  <2>5. IdsOK'
    <3>1. \A u \in uses : u.id \in Nat
      BY DEF IndInv, TypeOK, Use, Ids
    <3>2. \A a \in restored : a[2] \in Nat
      BY DEF IndInv, TypeOK, Ids
    <3> QED
      BY <1>1, <2>1, <3>1, <3>2 DEF IndInv, IdsOK
  <2> QED
    BY <2>3, <2>4, <2>5 DEF IndInv
<1>5. ASSUME NEW p \in Parts, NEW n \in Quantities, AdjustRead(p, n) \/ AdjustRead(p, -n)
      PROVE  IndInv'
  <2>1. n \in Int /\ -n \in Int
    BY DEF Quantities
  <2>2. CASE AdjustRead(p, n)
    <3>1. Begin("adjust", p, NoVehicle, n, 0, FALSE)
      BY <2>2 DEF AdjustRead
    <3>2. InRange("adjust", p, NoVehicle, n, 0, FALSE)
      BY <1>1, <2>1, <2>2 DEF AdjustRead, Kinds, InRange
    <3> QED
      BY <3>1, <3>2, BeginOK
  <2>3. CASE AdjustRead(p, -n)
    <3>1. Begin("adjust", p, NoVehicle, -n, 0, FALSE)
      BY <2>3 DEF AdjustRead
    <3>2. InRange("adjust", p, NoVehicle, -n, 0, FALSE)
      BY <1>1, <2>1, <2>3 DEF AdjustRead, Kinds, InRange
    <3> QED
      BY <3>1, <3>2, BeginOK
  <2> QED
    BY <1>5, <2>2, <2>3
<1>6. ASSUME NEW p \in Parts, NEW n \in Quantities, UpdateRead(p, n)
      PROVE  IndInv'
  <2>1. Begin("update", p, NoVehicle, n, 0, FALSE)
    BY <1>6 DEF UpdateRead
  <2>2. InRange("update", p, NoVehicle, n, 0, FALSE)
    BY <1>6 DEF UpdateRead, Kinds, Quantities, InRange
  <2> QED
    BY <2>1, <2>2, BeginOK
<1>7. ASSUME NEW p \in Parts, SellRead(p) \/ DeleteRead(p)
      PROVE  IndInv'
  <2>1. \/ Begin("sell", p, NoVehicle, 1, 0, FALSE)
        \/ Begin("delete", p, NoVehicle, 0, 0, FALSE)
    BY <1>7 DEF SellRead, DeleteRead
  <2>2. /\ InRange("sell", p, NoVehicle, 1, 0, FALSE)
        /\ InRange("delete", p, NoVehicle, 0, 0, FALSE)
    BY DEF Kinds, InRange
  <2> QED
    BY <2>1, <2>2, BeginOK
<1>8. ASSUME NEW u \in uses, NEW restore \in BOOLEAN, RemoveRead(u, restore)
      PROVE  IndInv'
  <2>1. /\ u.id \in 0 .. MaxRequests /\ u.part \in Parts /\ u.vehicle \in Vehicles
        /\ u.quantity \in Nat
    BY DEF IndInv, TypeOK, Use, Ids
  <2>2. Begin("remove", u.part, u.vehicle, u.quantity, u.id, restore)
    BY <1>8 DEF RemoveRead
  <2>3. InRange("remove", u.part, u.vehicle, u.quantity, u.id, restore)
    BY <2>1 DEF Kinds, InRange
  <2> QED
    BY <2>2, <2>3, BeginOK
<1>9. ASSUME NEW v \in Vehicles, RemoveVehicle(v)
      PROVE  IndInv'
  <2>1. TypeOK'
    BY <1>9 DEF RemoveVehicle, IndInv, TypeOK
  <2> QED
    BY <1>9, <2>1, ShrinkOK DEF RemoveVehicle, IndInv
<1> QED
  BY <1>2, <1>3, <1>4, <1>5, <1>6, <1>7, <1>8, <1>9 DEF Request

LEMMA InitOK == Init => IndInv
BY BoundsAssumption DEF Init, IndInv, TypeOK, TasksOK, IdsOK

LEMMA NextOK == IndInv /\ [Next]_vars => IndInv'
<1> SUFFICES ASSUME IndInv, [Next]_vars PROVE IndInv'
  OBVIOUS
<1>1. CASE Request
  BY <1>1, RequestOK
<1>2. CASE Commit
  BY <1>2, CommitOK DEF Commit
<1>3. CASE UNCHANGED vars
  BY <1>3 DEF vars, IndInv, TypeOK, TasksOK, TaskOK, IdsOK
<1> QED
  BY <1>1, <1>2, <1>3 DEF Next

LEMMA Invariance == Spec => []IndInv
BY InitOK, NextOK, PTL DEF Spec

\* However the requests interleave, what is written is a quantity: no stock is
\* ever negative (parts.service.ts and vehicle-parts.service.ts check it before).
THEOREM StockTypeCorrect == Spec => []TypeOK
<1>1. IndInv => TypeOK
  BY DEF IndInv
<1> QED
  BY <1>1, Invariance, PTL

\* removeAssociation puts the units of an association back at most once.
THEOREM RestoredOnceCorrect == Spec => []RestoredOnce
<1>1. IndInv => RestoredOnce
  BY DEF IndInv, IdsOK, RestoredOnce
<1> QED
  BY <1>1, Invariance, PTL

(***************************************************************************)
(* The units of a set of associations.  Units is the value of a recursive  *)
(* function on the subsets of the set; by induction on the cardinality it  *)
(* is a sum, in whichever order the associations are taken.                *)
(***************************************************************************)

\* Induction over the numbers, with a set for the predicate.
LEMMA NumberInduction ==
  ASSUME NEW A \in SUBSET Nat, \A n \in Nat : (\A m \in Nat : m < n => m \in A) => n \in A
  PROVE  A = Nat
<1> SUFFICES ASSUME Nat \ A # {} PROVE FALSE
  OBVIOUS
<1>1. PICK n \in Nat \ A : \A m \in Nat \ A : ~ (<<m, n>> \in OpToRel(<, Nat))
  BY NatLessThanWellFounded, WFMin
<1>2. \A m \in Nat : m < n => m \in A
  BY <1>1 DEF OpToRel
<1> QED
  BY <1>1, <1>2

\* The recursive function that MapThenSumSet is the value of.
Chosen(s)  == CHOOSE u \in s : TRUE
IsSum(S, f) ==
  f = [s \in SUBSET S |-> IF s = {} THEN 0 ELSE Chosen(s).quantity + f[s \ {Chosen(s)}]]
SumOf(S) == CHOOSE f : IsSum(S, f)

LEMMA UnitsIsSum == \A S : Units(S) = SumOf(S)[S]
BY DEF Units, MapThenSumSet, MapThenFoldSet, SumOf, IsSum, Chosen

LEMMA ChosenIn == \A s : s # {} => Chosen(s) \in s
BY DEF Chosen

LEMMA SmallerSet ==
  ASSUME NEW S, IsFiniteSet(S), NEW x \in S
  PROVE  /\ IsFiniteSet(S \ {x}) /\ Cardinality(S) \in Nat /\ Cardinality(S \ {x}) \in Nat
         /\ Cardinality(S \ {x}) < Cardinality(S)
<1>1. IsFiniteSet(S \ {x}) /\ Cardinality(S \ {x}) = Cardinality(S) - 1
  BY FS_RemoveElement
<1>2. Cardinality(S) \in Nat /\ Cardinality(S \ {x}) \in Nat
  BY <1>1, FS_CardinalityType
<1> QED
  BY <1>1, <1>2

\* Two such functions agree where both are defined.
LEMMA SumsAgree ==
  \A s : IsFiniteSet(s) => \A S, T, f, g :
    IsSum(S, f) /\ IsSum(T, g) /\ s \subseteq S /\ s \subseteq T => f[s] = g[s]
<1> DEFINE Agree(s) == \A S, T, f, g :
             IsSum(S, f) /\ IsSum(T, g) /\ s \subseteq S /\ s \subseteq T => f[s] = g[s]
           A == {n \in Nat : \A s : IsFiniteSet(s) /\ Cardinality(s) = n => Agree(s)}
<1>1. ASSUME NEW n \in Nat, \A m \in Nat : m < n => m \in A PROVE n \in A
  <2> SUFFICES ASSUME NEW s, IsFiniteSet(s), Cardinality(s) = n PROVE Agree(s)
    OBVIOUS
  <2> SUFFICES ASSUME NEW S, NEW T, NEW f, NEW g,
                      IsSum(S, f), IsSum(T, g), s \subseteq S, s \subseteq T
               PROVE  f[s] = g[s]
    OBVIOUS
  <2>1. s \in SUBSET S /\ s \in SUBSET T
    OBVIOUS
  <2>2. f[s] = IF s = {} THEN 0 ELSE Chosen(s).quantity + f[s \ {Chosen(s)}]
    BY <2>1 DEF IsSum
  <2>3. g[s] = IF s = {} THEN 0 ELSE Chosen(s).quantity + g[s \ {Chosen(s)}]
    BY <2>1 DEF IsSum
  <2>4. CASE s = {}
    BY <2>2, <2>3, <2>4
  <2>5. CASE s # {}
    <3> DEFINE r == s \ {Chosen(s)}
    <3>1. IsFiniteSet(r) /\ Cardinality(r) \in Nat /\ Cardinality(r) < n
      BY <2>5, ChosenIn, SmallerSet
    <3>2. Cardinality(r) \in A
      BY <1>1, <3>1
    <3>3. Agree(r)
      BY <3>1, <3>2
    <3>4. r \subseteq S /\ r \subseteq T
      OBVIOUS
    <3>5. f[r] = g[r]
      BY <3>3, <3>4
    <3> QED
      BY <2>2, <2>3, <2>5, <3>5
  <2> QED
    BY <2>4, <2>5
<1>2. A \in SUBSET Nat
  OBVIOUS
<1>3. A = Nat
  <2> HIDE DEF A
  <2> QED
    BY <1>1, <1>2, NumberInduction
<1>4. ASSUME NEW s, IsFiniteSet(s) PROVE Agree(s)
  <2>1. Cardinality(s) \in A
    BY <1>3, <1>4, FS_CardinalityType
  <2> QED
    BY <1>4, <2>1
<1> QED
  BY <1>4

LEMMA SumExists == \A S : IsFiniteSet(S) => IsSum(S, SumOf(S))
<1> DEFINE A == {n \in Nat : \A S : IsFiniteSet(S) /\ Cardinality(S) = n => IsSum(S, SumOf(S))}
<1>1. ASSUME NEW n \in Nat, \A m \in Nat : m < n => m \in A PROVE n \in A
  <2> SUFFICES ASSUME NEW S, IsFiniteSet(S), Cardinality(S) = n PROVE \E f : IsSum(S, f)
    BY DEF SumOf
  <2>1. ASSUME NEW s \in SUBSET S, s # S PROVE IsFiniteSet(s) /\ IsSum(s, SumOf(s))
    <3>1. IsFiniteSet(s) /\ Cardinality(s) \in Nat /\ Cardinality(s) <= n /\ Cardinality(s) # n
      BY <2>1, FS_Subset, FS_CardinalityType
    <3>2. Cardinality(s) \in A
      BY <1>1, <3>1
    <3> QED
      BY <3>1, <3>2
  <2> DEFINE v(s) == SumOf(s)[s]
             r(s) == s \ {Chosen(s)}
             step(s) == IF s = {} THEN 0 ELSE Chosen(s).quantity + v(r(s))
             f == [s \in SUBSET S |-> IF s = S THEN step(s) ELSE v(s)]
  <2>2. ASSUME NEW s \in SUBSET S, s # {} PROVE r(s) \in SUBSET S /\ r(s) # S
    BY <2>2, ChosenIn
  <2>3. ASSUME NEW s \in SUBSET S, s # S PROVE v(s) = step(s)
    <3>1. v(s) = IF s = {} THEN 0 ELSE Chosen(s).quantity + SumOf(s)[r(s)]
      <4>1. IsSum(s, SumOf(s)) /\ s \in SUBSET s
        BY <2>1, <2>3
      <4> QED
        BY <4>1 DEF IsSum
    <3>2. CASE s = {}
      BY <3>1, <3>2
    <3>3. CASE s # {}
      <4>1. IsSum(s, SumOf(s)) /\ IsSum(r(s), SumOf(r(s))) /\ IsFiniteSet(r(s))
        BY <2>1, <2>2, <2>3, <3>3
      <4>2. SumOf(s)[r(s)] = SumOf(r(s))[r(s)]
        BY <4>1, SumsAgree
      <4> QED
        BY <3>1, <3>3, <4>2
    <3> QED
      BY <3>2, <3>3
  <2>4. \A s \in SUBSET S : f[s] = IF s = S THEN step(s) ELSE v(s)
    OBVIOUS
  <2>5. ASSUME NEW s \in SUBSET S
        PROVE  f[s] = IF s = {} THEN 0 ELSE Chosen(s).quantity + f[r(s)]
    <3>1. f[s] = step(s)
      BY <2>3, <2>4
    <3>2. s # {} => f[r(s)] = v(r(s))
      BY <2>2, <2>4
    <3> HIDE DEF f, v, r
    <3> QED
      BY <3>1, <3>2
  <2>6. f = [s \in SUBSET S |-> f[s]]
    OBVIOUS
  <2>7. IsSum(S, f)
    <3> HIDE DEF f
    <3>1. f = [s \in SUBSET S |-> IF s = {} THEN 0 ELSE Chosen(s).quantity + f[r(s)]]
      BY <2>5, <2>6
    <3> QED
      BY <3>1 DEF IsSum
  <2> QED
    BY <2>7
<1>2. A \in SUBSET Nat
  OBVIOUS
<1>3. A = Nat
  <2> HIDE DEF A
  <2> QED
    BY <1>1, <1>2, NumberInduction
<1>4. ASSUME NEW S, IsFiniteSet(S) PROVE IsSum(S, SumOf(S))
  <2>1. Cardinality(S) \in A
    BY <1>3, <1>4, FS_CardinalityType
  <2> QED
    BY <1>4, <2>1
<1> QED
  BY <1>4

LEMMA UnitsOf ==
  ASSUME NEW S, IsFiniteSet(S)
  PROVE  Units(S) = IF S = {} THEN 0 ELSE Chosen(S).quantity + Units(S \ {Chosen(S)})
<1>1. IsSum(S, SumOf(S)) /\ S \in SUBSET S
  BY SumExists
<1>2. SumOf(S)[S] = IF S = {} THEN 0 ELSE Chosen(S).quantity + SumOf(S)[S \ {Chosen(S)}]
  BY <1>1 DEF IsSum
<1>3. CASE S # {}
  <2> DEFINE r == S \ {Chosen(S)}
  <2>1. IsFiniteSet(r) /\ r \subseteq S
    BY <1>3, ChosenIn, SmallerSet
  <2>2. IsSum(r, SumOf(r)) /\ r \subseteq r
    BY <2>1, SumExists
  <2>3. SumOf(S)[r] = SumOf(r)[r]
    BY <1>1, <2>1, <2>2, SumsAgree
  <2> QED
    BY <1>2, <1>3, <2>3, UnitsIsSum
<1>4. CASE S = {}
  BY <1>2, <1>4, UnitsIsSum
<1> QED
  BY <1>3, <1>4

\* What the sum of a set with quantities is.
Quantified(S) == IsFiniteSet(S) /\ \A u \in S : u.quantity \in Nat

LEMMA UnitsNat == \A S : Quantified(S) => Units(S) \in Nat
<1> DEFINE A == {n \in Nat : \A S : Quantified(S) /\ Cardinality(S) = n => Units(S) \in Nat}
<1>1. ASSUME NEW n \in Nat, \A m \in Nat : m < n => m \in A PROVE n \in A
  <2> SUFFICES ASSUME NEW S, Quantified(S), Cardinality(S) = n PROVE Units(S) \in Nat
    OBVIOUS
  <2>1. CASE S = {}
    <3> HIDE DEF A
    <3>1. IsFiniteSet(S)
      BY DEF Quantified
    <3>2. Units(S) = 0
      BY <2>1, <3>1, UnitsOf
    <3> QED
      BY <3>2
  <2>2. CASE S # {}
    <3> DEFINE r == S \ {Chosen(S)}
    <3>1. Chosen(S) \in S
      BY <2>2, ChosenIn
    <3>2. Quantified(r) /\ Cardinality(r) \in Nat /\ Cardinality(r) < n
      BY <3>1, SmallerSet DEF Quantified
    <3>3. Cardinality(r) \in A
      BY <1>1, <3>2
    <3>4. Units(r) \in Nat
      BY <3>2, <3>3
    <3>5. Units(S) = Chosen(S).quantity + Units(r)
      BY <2>2, UnitsOf DEF Quantified
    <3>6. Chosen(S).quantity \in Nat
      BY <3>1 DEF Quantified
    <3> QED
      BY <3>4, <3>5, <3>6
  <2> QED
    BY <2>1, <2>2
<1>2. A \in SUBSET Nat
  OBVIOUS
<1>3. A = Nat
  <2> HIDE DEF A
  <2> QED
    BY <1>1, <1>2, NumberInduction
<1>4. ASSUME NEW S, Quantified(S) PROVE Units(S) \in Nat
  <2>1. Cardinality(S) \in A
    BY <1>3, <1>4, FS_CardinalityType DEF Quantified
  <2> QED
    BY <1>4, <2>1
<1> QED
  BY <1>4

\* Whichever element is taken out, the rest makes up for the difference.
LEMMA UnitsTake == \A S : Quantified(S) => \A x \in S : Units(S) = x.quantity + Units(S \ {x})
<1> DEFINE P(S) == \A x \in S : Units(S) = x.quantity + Units(S \ {x})
           A == {n \in Nat : \A S : Quantified(S) /\ Cardinality(S) = n => P(S)}
<1>1. ASSUME NEW n \in Nat, \A m \in Nat : m < n => m \in A PROVE n \in A
  <2> SUFFICES ASSUME NEW S, Quantified(S), Cardinality(S) = n, NEW x \in S
               PROVE  Units(S) = x.quantity + Units(S \ {x})
    OBVIOUS
  <2>0. \A y \in S : /\ Quantified(S \ {y}) /\ Cardinality(S \ {y}) \in Nat
                     /\ Cardinality(S \ {y}) < n /\ y.quantity \in Nat
    BY SmallerSet DEF Quantified
  <2>1. \A y \in S : P(S \ {y})
    <3> TAKE y \in S
    <3>1. Cardinality(S \ {y}) \in A
      BY <1>1, <2>0
    <3> QED
      BY <2>0, <3>1
  <2> DEFINE c == Chosen(S)
  <2>2. c \in S /\ Units(S) = c.quantity + Units(S \ {c})
    BY ChosenIn, UnitsOf DEF Quantified
  <2> HIDE DEF c
  <2>3. CASE x = c
    BY <2>2, <2>3
  <2>4. CASE x # c
    <3> DEFINE d == (S \ {c}) \ {x}
    <3>1. d = (S \ {x}) \ {c} /\ x \in S \ {c} /\ c \in S \ {x}
      BY <2>2, <2>4
    <3>2. Units(S \ {c}) = x.quantity + Units(d)
      BY <2>1, <2>2, <3>1
    <3>3. Units(S \ {x}) = c.quantity + Units(d)
      BY <2>1, <3>1
    <3>4. Quantified(d)
      BY <2>0, <2>2, <3>1, SmallerSet DEF Quantified
    <3>5. Units(d) \in Nat /\ x.quantity \in Nat /\ c.quantity \in Nat
      BY <2>0, <2>2, <3>4, UnitsNat
    <3> HIDE DEF d
    <3> QED
      BY <2>2, <3>2, <3>3, <3>5
  <2> QED
    BY <2>3, <2>4
<1>2. A \in SUBSET Nat
  OBVIOUS
<1>3. A = Nat
  <2> HIDE DEF A
  <2> QED
    BY <1>1, <1>2, NumberInduction
<1>4. ASSUME NEW S, Quantified(S) PROVE P(S)
  <2>1. Cardinality(S) \in A
    BY <1>3, <1>4, FS_CardinalityType DEF Quantified
  <2> QED
    BY <1>4, <2>1
<1> QED
  BY <1>4

\* The sum of a set is that of a part of it and that of the rest.
LEMMA UnitsSplit ==
  ASSUME NEW S, Quantified(S)
  PROVE  \A D \in SUBSET S : Units(S \ D) = Units(S) - Units(D)
<1> DEFINE A == {n \in Nat : \A D \in SUBSET S :
                      Cardinality(D) = n => Units(S \ D) = Units(S) - Units(D)}
<1>0. \A D \in SUBSET S : Quantified(D) /\ Quantified(S \ D)
  BY FS_Subset, FS_Difference DEF Quantified
<1>1. ASSUME NEW n \in Nat, \A m \in Nat : m < n => m \in A PROVE n \in A
  <2> SUFFICES ASSUME NEW D \in SUBSET S, Cardinality(D) = n
               PROVE  Units(S \ D) = Units(S) - Units(D)
    OBVIOUS
  <2>1. CASE D = {}
    <3>1. S \ D = S /\ Units(D) = 0 /\ Units(S) \in Nat
      BY <1>0, <2>1, UnitsOf, UnitsNat DEF Quantified
    <3> QED
      BY <3>1
  <2>2. CASE D # {}
    <3>1. PICK x \in D : TRUE
      BY <2>2
    <3> DEFINE E == D \ {x}
    <3>2. E \in SUBSET S /\ Cardinality(E) \in Nat /\ Cardinality(E) < n
      BY <1>0, <3>1, SmallerSet DEF Quantified
    <3>3. Cardinality(E) \in A
      BY <1>1, <3>2
    <3>4. Units(S \ E) = Units(S) - Units(E)
      BY <3>2, <3>3
    <3>5. (S \ E) \ {x} = S \ D /\ x \in S \ E
      BY <3>1
    <3>6. Units(S \ E) = x.quantity + Units(S \ D) /\ Units(D) = x.quantity + Units(E)
      BY <1>0, <3>1, <3>2, <3>5, UnitsTake
    <3>7. Units(E) \in Nat /\ Units(S \ D) \in Nat /\ Units(S) \in Nat /\ x.quantity \in Nat
      BY <1>0, <3>1, <3>2, UnitsNat DEF Quantified
    <3> HIDE DEF E
    <3> QED
      BY <3>4, <3>6, <3>7
  <2> QED
    BY <2>1, <2>2
<1>2. A \in SUBSET Nat
  OBVIOUS
<1>3. A = Nat
  <2> HIDE DEF A
  <2> QED
    BY <1>1, <1>2, NumberInduction
<1>4. ASSUME NEW D \in SUBSET S PROVE Units(S \ D) = Units(S) - Units(D)
  <2>1. Cardinality(D) \in A
    BY <1>0, <1>3, FS_CardinalityType DEF Quantified
  <2> QED
    BY <2>1
<1> QED
  BY <1>4

(***************************************************************************)
(* What the balance rests on besides.                                      *)
(***************************************************************************)

\* Nothing was taken in of a part that is not there yet, and nothing of it is used.
LedgerOK ==
  /\ ledger \in [Parts -> Int] /\ IsFiniteSet(uses)
  /\ \A p \in Parts : part[p].row = "new" => part[p].quantity = 0 /\ ledger[p] = 0
  /\ \A u \in uses : Live(u.part)

\* What a removal has read of its association still holds while that is there.
LinksOK ==
  /\ \A u, w \in uses : u.id = w.id => u = w
  /\ \A t \in tasks : t.kind = "remove" =>
       /\ t.use <= requests
       /\ \A u \in uses : u.id = t.use => u.part = t.part /\ u.quantity = t.n
       /\ \A s \in tasks : s.kind = "associate" => s.id # t.use

BookInv == IndInv /\ LedgerOK /\ LinksOK

\* The step leaves what part p has and owes as it was.
Untouched(p) ==
  part'[p] = part[p] /\ ledger'[p] = ledger[p] /\ UsesOf(p)' = UsesOf(p)

LEMMA UntouchedBalances == \A p : Untouched(p) => Balance(p)' = Balance(p)
BY DEF Untouched, Balance

LEMMA UsesQuantified ==
  ASSUME BookInv, NEW p
  PROVE  Quantified(UsesOf(p)) /\ Units(UsesOf(p)) \in Nat
<1>1. IsFiniteSet(UsesOf(p))
  BY FS_Subset DEF BookInv, LedgerOK, Live, UsesOf
<1>2. \A u \in UsesOf(p) : u.quantity \in Nat
  BY DEF BookInv, IndInv, TypeOK, Use, UsesOf
<1> QED
  BY <1>1, <1>2, UnitsNat DEF Quantified

\* One association more, and one less.
LEMMA UnitsMore ==
  ASSUME BookInv, NEW x, x \notin uses, x.quantity \in Nat, uses' = uses \cup {x}
  PROVE  /\ IsFiniteSet(uses')
         /\ Units(UsesOf(x.part)') = Units(UsesOf(x.part)) + x.quantity
         /\ \A p : p # x.part => UsesOf(p)' = UsesOf(p)
<1>1. IsFiniteSet(uses')
  BY FS_AddElement DEF BookInv, LedgerOK, Live
<1> DEFINE S == UsesOf(x.part)
<1>2. UsesOf(x.part)' = S \cup {x} /\ x \notin S /\ (S \cup {x}) \ {x} = S
  BY DEF UsesOf
<1>3. Quantified(S) /\ Units(S) \in Nat
  BY UsesQuantified
<1>4. Quantified(S \cup {x})
  BY <1>3, FS_AddElement DEF Quantified
<1>5. Units(S \cup {x}) = x.quantity + Units((S \cup {x}) \ {x})
  BY <1>4, UnitsTake
<1>6. Units(UsesOf(x.part)') = Units(S) + x.quantity
  <2> DEFINE T == S \cup {x}
  <2>1. UsesOf(x.part)' = T /\ T \ {x} = S
    BY <1>2
  <2>2. Units(T) = x.quantity + Units(T \ {x})
    BY <1>5
  <2> HIDE DEF S, T
  <2>3. Units(T) = x.quantity + Units(S)
    BY <2>1, <2>2
  <2>4. Units(UsesOf(x.part)') = Units(T)
    BY <2>1
  <2> QED
    BY <1>3, <2>3, <2>4
<1>7. \A p : p # x.part => UsesOf(p)' = UsesOf(p)
  BY DEF UsesOf
<1> QED
  BY <1>1, <1>6, <1>7

LEMMA UnitsLess ==
  ASSUME BookInv, NEW x \in uses, uses' = uses \ {x}
  PROVE  /\ Units(UsesOf(x.part)') = Units(UsesOf(x.part)) - x.quantity
         /\ \A p : p # x.part => UsesOf(p)' = UsesOf(p)
<1> DEFINE S == UsesOf(x.part)
<1>1. UsesOf(x.part)' = S \ {x} /\ x \in S
  BY DEF UsesOf
<1>2. Quantified(S) /\ Quantified(S \ {x})
  BY UsesQuantified, FS_RemoveElement DEF Quantified
<1>3. Units(S) = x.quantity + Units(S \ {x}) /\ Units(S \ {x}) \in Nat /\ x.quantity \in Nat
  BY <1>1, <1>2, UnitsTake, UnitsNat DEF Quantified
<1>4. Units(UsesOf(x.part)') = Units(S) - x.quantity
  BY <1>1, <1>3
<1>5. \A p : p # x.part => UsesOf(p)' = UsesOf(p)
  BY DEF UsesOf
<1> QED
  BY <1>4, <1>5

\* The quantities of what is in stock, installed and taken in are numbers.
LEMMA BookNumbers ==
  ASSUME BookInv, NEW p \in Parts
  PROVE  part[p].quantity \in Nat /\ ledger[p] \in Int /\ Units(UsesOf(p)) \in Nat
BY UsesQuantified DEF BookInv, IndInv, TypeOK, LedgerOK

\* A step that begins no handler and adds no association keeps the links.
LEMMA LinksShrink ==
  ASSUME LinksOK, tasks' \subseteq tasks, uses' \subseteq uses, requests' = requests
  PROVE  LinksOK'
BY DEF LinksOK

\* The step keeps the books in order and every live part's balance as it was, if
\* the handler that writes has read what it overwrites; it brings no part back.
Fresh == \A t \in tasks \ tasks' : t.seen = part[t.part].quantity
NoneRevived == \A p \in Parts : Live(p)' => part[p].row # "gone"
Booked ==
  /\ LedgerOK' /\ LinksOK'
  /\ Fresh => \A p \in Parts : Live(p)' => Balance(p)' = Balance(p)
  /\ NoneRevived

LEMMA BeginBooked ==
  ASSUME BookInv, NEW kind, NEW p, NEW v, NEW n, NEW use, NEW restore,
         Begin(kind, p, v, n, use, restore), use \in 0 .. MaxRequests,
         kind = "remove" => \E u \in uses : u.id = use /\ u.part = p /\ u.quantity = n
  PROVE  Booked
<1> DEFINE new == [id |-> requests + 1, kind |-> kind, part |-> p, vehicle |-> v,
                   n |-> n, seen |-> part[p].quantity, use |-> use, restore |-> restore]
<1>1. /\ requests \in Nat /\ requests' = requests + 1 /\ tasks' = tasks \cup {new}
      /\ UNCHANGED <<part, uses, ledger>>
  BY BoundsAssumption DEF BookInv, IndInv, TypeOK, Begin
<1>2. /\ new.id = requests + 1 /\ new.kind = kind /\ new.part = p /\ new.n = n /\ new.use = use
  OBVIOUS
<1> HIDE DEF new
<1>3. \A p0 \in Parts : Balance(p0)' = Balance(p0)
  BY <1>1, UntouchedBalances DEF Untouched, UsesOf
<1>4. LedgerOK' /\ NoneRevived
  BY <1>1 DEF BookInv, LedgerOK, Live, NoneRevived
<1>5. LinksOK'
  <2>1. \A t \in tasks : t.id \in Nat /\ t.id <= requests /\ t.use \in Nat
    BY DEF BookInv, IndInv, TypeOK, TasksOK, TaskOK, Task, Ids
  <2>2. \A u \in uses : u.id \in Nat /\ u.id <= requests
    BY DEF BookInv, IndInv, TypeOK, IdsOK, Use, Ids
  <2>3. ASSUME NEW t \in tasks', t.kind = "remove", t \in tasks
        PROVE  /\ t.use <= requests'
               /\ \A u \in uses' : u.id = t.use => u.part = t.part /\ u.quantity = t.n
               /\ \A s \in tasks' : s.kind = "associate" => s.id # t.use
    BY <1>1, <1>2, <2>1, <2>3 DEF BookInv, LinksOK
  <2>4. ASSUME NEW t \in tasks', t.kind = "remove", t = new
        PROVE  /\ t.use <= requests'
               /\ \A u \in uses' : u.id = t.use => u.part = t.part /\ u.quantity = t.n
               /\ \A s \in tasks' : s.kind = "associate" => s.id # t.use
    <3>1. PICK u \in uses : u.id = use /\ u.part = p /\ u.quantity = n
      BY <1>2, <2>4
    <3>2. \A s \in tasks : s.kind = "associate" => s.id # u.id
      BY DEF BookInv, IndInv, IdsOK
    <3>3. \A w \in uses : w.id = u.id => w = u
      BY DEF BookInv, LinksOK
    <3> QED
      BY <1>1, <1>2, <2>2, <2>4, <3>1, <3>2, <3>3
  <2> QED
    BY <1>1, <2>3, <2>4 DEF BookInv, LinksOK
<1> QED
  BY <1>3, <1>4, <1>5 DEF Booked

\* A write to the row and the ledger of one part that is there, which changes both
\* by the same if the quantity that was read is the one overwritten.
LEMMA WriteBooked ==
  ASSUME BookInv, NEW t \in tasks, NEW r, NEW k \in Int,
         r.row # "new", r.row # "live" => UsesOf(t.part) = {}, r.row = "live" => Live(t.part),
         part' = [part EXCEPT ![t.part] = r],
         ledger' = [ledger EXCEPT ![t.part] = k], tasks' = tasks \ {t},
         UNCHANGED <<uses, requests>>,
         r.row = "live" /\ t.seen = part[t.part].quantity
           => r.quantity \in Int /\ r.quantity - k = t.seen - ledger[t.part]
  PROVE  Booked
<1>1. /\ t.part \in Parts /\ part \in [Parts -> [row : {"new", "live", "gone"}, quantity : Nat]]
      /\ t.seen \in Nat /\ ledger \in [Parts -> Int]
  BY DEF BookInv, IndInv, TypeOK, Task, LedgerOK
<1>2. LedgerOK'
  <2>1. part'[t.part] = r /\ \A p \in Parts \ {t.part} : part'[p] = part[p]
    BY <1>1
  <2>2. ledger' \in [Parts -> Int] /\ ledger'[t.part] = k
        /\ \A p \in Parts \ {t.part} : ledger'[p] = ledger[p]
    BY <1>1
  <2>3. ASSUME NEW u \in uses PROVE part'[u.part].row = "live"
    <3>1. u.part \in Parts /\ part[u.part].row = "live"
      BY DEF BookInv, IndInv, TypeOK, Use, LedgerOK, Live
    <3>2. u.part = t.part => UsesOf(t.part) # {}
      BY DEF UsesOf
    <3> QED
      BY <2>1, <3>1, <3>2
  <2> QED
    BY <2>1, <2>2, <2>3 DEF BookInv, LedgerOK, Live
<1>3. LinksOK' /\ NoneRevived
  <2>1. NoneRevived
    BY <1>1 DEF NoneRevived, Live
  <2> QED
    BY <2>1, LinksShrink DEF BookInv
<1>4. ASSUME NEW p \in Parts, Fresh, Live(p)' PROVE Balance(p)' = Balance(p)
  <2>1. CASE p # t.part
    BY <1>1, <2>1, UntouchedBalances DEF Untouched, UsesOf
  <2>2. CASE p = t.part
    <3>1. t.seen = part[p].quantity
      BY <1>4, <2>2 DEF Fresh
    <3>2. part'[p] = r /\ ledger'[p] = k /\ r.row = "live"
      BY <1>1, <1>4, <2>2 DEF Live
    <3>3. Units(UsesOf(p))' = Units(UsesOf(p)) /\ Units(UsesOf(p)) \in Nat
      BY UsesQuantified DEF UsesOf
    <3>4. r.quantity \in Int /\ r.quantity - k = t.seen - ledger[p] /\ ledger[p] \in Int
      BY <1>1, <2>2, <3>1, <3>2
    <3>5. /\ Balance(p)' = r.quantity + Units(UsesOf(p)) - k
          /\ Balance(p) = t.seen + Units(UsesOf(p)) - ledger[p]
      BY <3>1, <3>2, <3>3 DEF Balance
    <3> QED
      BY <1>1, <3>3, <3>4, <3>5
  <2> QED
    BY <2>1, <2>2
<1> QED
  BY <1>2, <1>3, <1>4 DEF Booked

\* A handler that ends without having written anything.
LEMMA IdleBooked ==
  ASSUME BookInv, tasks' \subseteq tasks, UNCHANGED <<part, uses, ledger, requests>>
  PROVE  Booked
<1>1. LedgerOK' /\ NoneRevived
  BY DEF BookInv, LedgerOK, Live, NoneRevived
<1>2. LinksOK'
  BY LinksShrink DEF BookInv
<1>3. \A p \in Parts : Balance(p)' = Balance(p)
  BY UntouchedBalances DEF Untouched, UsesOf
<1> QED
  BY <1>1, <1>2, <1>3 DEF Booked

LEMMA AssociateBooked ==
  ASSUME BookInv, NEW t \in tasks, Associate(t)
  PROVE  Booked
<1>1. /\ t.id \in Ids /\ t.part \in Parts /\ t.kind = "associate" /\ t.id <= requests
      /\ t.seen - t.n \in Nat /\ t.n \in Nat /\ t.seen \in Nat
      /\ part \in [Parts -> [row : {"new", "live", "gone"}, quantity : Nat]]
  BY DEF BookInv, IndInv, TypeOK, TasksOK, TaskOK, Task, Associate
<1>2. tasks' = tasks \ {t} /\ UNCHANGED <<requests, ledger>>
  BY DEF Associate, Done, Others
<1>3. CASE UNCHANGED <<part, uses>>
  BY <1>2, <1>3, IdleBooked
<1>4. CASE ~ UNCHANGED <<part, uses>>
  <2> DEFINE new == [id |-> t.id, part |-> t.part, vehicle |-> t.vehicle, quantity |-> t.n]
  <2>1. /\ uses' = uses \cup {new} /\ part' = [part EXCEPT ![t.part] = Row(t.seen - t.n)]
        /\ part[t.part].row = "live"
    BY <1>4 DEF Associate, Set, Live
  <2>2. new.id = t.id /\ new.part = t.part /\ new.quantity = t.n
    OBVIOUS
  <2> HIDE DEF new
  <2>3. \A u \in uses : u.id # new.id
    BY <1>1, <2>2 DEF BookInv, IndInv, IdsOK
  <2>4. /\ IsFiniteSet(uses') /\ Units(UsesOf(t.part)') = Units(UsesOf(t.part)) + t.n
        /\ \A p : p # t.part => UsesOf(p)' = UsesOf(p)
    BY <1>1, <2>1, <2>2, <2>3, UnitsMore
  <2>5. part'[t.part] = Row(t.seen - t.n) /\ \A p \in Parts \ {t.part} : part'[p] = part[p]
    BY <1>1, <2>1
  <2>6. LedgerOK'
    <3>1. part'[t.part].row = "live"
      BY <2>5 DEF Row
    <3>2. \A u \in uses : u.part \in Parts
      BY DEF BookInv, IndInv, TypeOK, Use
    <3> QED
      BY <1>2, <2>1, <2>2, <2>4, <2>5, <3>1, <3>2 DEF BookInv, LedgerOK, Live
  <2>7. LinksOK'
    <3>1. \A u, w \in uses' : u.id = w.id => u = w
      BY <2>1, <2>3 DEF BookInv, LinksOK
    <3>2. ASSUME NEW s \in tasks', s.kind = "remove"
          PROVE  /\ s.use <= requests'
                 /\ \A u \in uses' : u.id = s.use => u.part = s.part /\ u.quantity = s.n
                 /\ \A s2 \in tasks' : s2.kind = "associate" => s2.id # s.use
      BY <1>1, <1>2, <2>1, <2>2, <3>2 DEF BookInv, LinksOK
    <3> QED
      BY <3>1, <3>2 DEF LinksOK
  <2>9. NoneRevived
    BY <2>1, <2>5 DEF NoneRevived, Live
  <2>8. ASSUME NEW p \in Parts, Fresh PROVE Balance(p)' = Balance(p)
    <3>1. CASE p # t.part
      BY <1>2, <2>4, <2>5, <3>1, UntouchedBalances DEF Untouched
    <3>2. CASE p = t.part
      <4>1. t.seen = part[p].quantity
        BY <1>2, <2>8, <3>2 DEF Fresh
      <4>2. part'[p].quantity = t.seen - t.n /\ ledger'[p] = ledger[p]
        BY <1>2, <2>5, <3>2 DEF Row
      <4>3. Units(UsesOf(p)') = Units(UsesOf(p)) + t.n
        BY <2>4, <3>2
      <4>4. Units(UsesOf(p)) \in Nat /\ ledger[p] \in Int
        BY BookNumbers
      <4>5. Balance(p)' = (t.seen - t.n) + (Units(UsesOf(p)) + t.n) - ledger[p]
        BY <4>2, <4>3 DEF Balance
      <4> QED
        BY <1>1, <4>1, <4>4, <4>5 DEF Balance
    <3> QED
      BY <3>1, <3>2
  <2> QED
    BY <2>6, <2>7, <2>8, <2>9 DEF Booked
<1> QED
  BY <1>3, <1>4

LEMMA RemoveBooked ==
  ASSUME BookInv, NEW t \in tasks, Remove(t)
  PROVE  Booked
<1>1. /\ t.id \in Ids /\ t.part \in Parts /\ t.kind = "remove"
      /\ t.n \in Nat /\ t.seen \in Nat
      /\ part \in [Parts -> [row : {"new", "live", "gone"}, quantity : Nat]]
      /\ ledger \in [Parts -> Int]
  BY DEF BookInv, IndInv, TypeOK, TasksOK, TaskOK, Task, Remove, LedgerOK
<1>2. tasks' = tasks \ {t} /\ UNCHANGED requests
  BY DEF Remove, Done, Others
<1> DEFINE found == {u \in uses : u.id = t.use}
<1>3. \/ UNCHANGED <<part, uses, ledger>>
      \/ /\ found # {} /\ uses' = uses \ found /\ UNCHANGED part
         /\ ledger' = [ledger EXCEPT ![t.part] = ledger[t.part] - t.n]
      \/ /\ found # {} /\ uses' = uses \ found
         /\ part' = [part EXCEPT ![t.part] = Row(t.seen + t.n)] /\ UNCHANGED ledger
  BY DEF Remove, Set
<1>4. CASE UNCHANGED <<part, uses, ledger>>
  BY <1>2, <1>4, IdleBooked
<1>5. CASE /\ found # {} /\ uses' = uses \ found
           /\ \/ /\ UNCHANGED part
                 /\ ledger' = [ledger EXCEPT ![t.part] = ledger[t.part] - t.n]
              \/ /\ part' = [part EXCEPT ![t.part] = Row(t.seen + t.n)] /\ UNCHANGED ledger
  <2>1. PICK u \in uses : u.id = t.use
    BY <1>5
  <2>2. found = {u} /\ u.part = t.part /\ u.quantity = t.n
    BY <1>1, <2>1 DEF BookInv, LinksOK
  <2> HIDE DEF found
  <2>3. /\ Units(UsesOf(t.part)') = Units(UsesOf(t.part)) - t.n
        /\ \A p : p # t.part => UsesOf(p)' = UsesOf(p)
    BY <1>5, <2>2, UnitsLess
  <2>4. uses' \subseteq uses /\ part[t.part].row = "live"
    BY <1>5, <2>1, <2>2 DEF BookInv, LedgerOK, Live
  <2>5. \A p \in Parts \ {t.part} : part'[p] = part[p] /\ ledger'[p] = ledger[p]
    BY <1>1, <1>5
  <2>6. \/ part'[t.part] = part[t.part] /\ ledger'[t.part] = ledger[t.part] - t.n
        \/ part'[t.part] = Row(t.seen + t.n) /\ ledger'[t.part] = ledger[t.part]
    BY <1>1, <1>5
  <2>7. LedgerOK'
    <3>1. IsFiniteSet(uses')
      BY <2>4, FS_Subset DEF BookInv, LedgerOK, Live
    <3>2. ledger' \in [Parts -> Int]
      BY <1>1, <1>5
    <3>3. part'[t.part].row = "live"
      BY <2>4, <2>6 DEF Row
    <3>4. \A w \in uses' : w \in uses /\ w.part \in Parts
      BY <2>4 DEF BookInv, IndInv, TypeOK, Use
    <3> QED
      BY <2>5, <3>1, <3>2, <3>3, <3>4 DEF BookInv, LedgerOK, Live
  <2>8. LinksOK'
    BY <1>2, <2>4, LinksShrink DEF BookInv
  <2>0. NoneRevived
    BY <2>4, <2>5 DEF NoneRevived, Live
  <2>9. ASSUME NEW p \in Parts, Fresh PROVE Balance(p)' = Balance(p)
    <3>1. CASE p # t.part
      BY <2>3, <2>5, <3>1, UntouchedBalances DEF Untouched
    <3>2. CASE p = t.part
      <4>1. t.seen = part[p].quantity
        BY <1>2, <2>9, <3>2 DEF Fresh
      <4>2. Units(UsesOf(p)') = Units(UsesOf(p)) - t.n
        BY <2>3, <3>2
      <4>3. Units(UsesOf(p)) \in Nat /\ ledger[p] \in Int /\ part[p].quantity \in Nat
        BY BookNumbers
      <4>4. CASE part'[p] = part[p] /\ ledger'[p] = ledger[p] - t.n
        <5>1. Balance(p)' = part[p].quantity + (Units(UsesOf(p)) - t.n) - (ledger[p] - t.n)
          BY <4>2, <4>4 DEF Balance
        <5> QED
          BY <1>1, <4>3, <5>1 DEF Balance
      <4>5. CASE part'[p] = Row(t.seen + t.n) /\ ledger'[p] = ledger[p]
        <5>1. Balance(p)' = (t.seen + t.n) + (Units(UsesOf(p)) - t.n) - ledger[p]
          BY <4>2, <4>5 DEF Balance, Row
        <5> QED
          BY <1>1, <4>1, <4>3, <5>1 DEF Balance
      <4> QED
        BY <2>6, <3>2, <4>4, <4>5
    <3> QED
      BY <3>1, <3>2
  <2> QED
    BY <2>0, <2>7, <2>8, <2>9 DEF Booked
<1> QED
  BY <1>3, <1>4, <1>5

LEMMA CommitBooked ==
  ASSUME BookInv, NEW t \in tasks,
         Associate(t) \/ Remove(t) \/ Adjust(t) \/ Sell(t) \/ Update(t) \/ Delete(t)
  PROVE  Booked
<1>1. /\ t.part \in Parts /\ t.seen \in Nat /\ t.n \in Int
      /\ part[t.part].quantity \in Nat /\ ledger[t.part] \in Int
  BY BookNumbers DEF BookInv, IndInv, TypeOK, Task
<1>2. tasks' = tasks \ {t} /\ UNCHANGED requests
  BY DEF Associate, Remove, Adjust, Sell, Update, Delete, Done, Others
<1>3. CASE Associate(t)
  BY <1>3, AssociateBooked
<1>4. CASE Remove(t)
  BY <1>4, RemoveBooked
<1>5. CASE Adjust(t)
  <2>1. CASE UNCHANGED <<part, ledger>>
    BY <1>2, <1>5, <2>1, IdleBooked DEF Adjust
  <2>2. CASE Live(t.part)
    <3> DEFINE k == ledger[t.part] + t.n
               r == Row(t.seen + t.n)
    <3>0. r.row = "live" /\ Live(t.part)
      BY <2>2 DEF Row
    <3>1. part' = [part EXCEPT ![t.part] = r] /\ ledger' = [ledger EXCEPT ![t.part] = k]
          /\ UNCHANGED uses
      BY <1>5, <2>2 DEF Adjust, Set
    <3>2. k \in Int /\ r.row = "live" /\ r.quantity = t.seen + t.n /\ r.quantity \in Int
      BY <1>1 DEF Row
    <3>3. r.quantity - k = t.seen - ledger[t.part]
      BY <1>1, <3>2
    <3> HIDE DEF k, r
    <3> QED
      BY <1>2, <3>0, <3>1, <3>2, <3>3, WriteBooked
  <2> QED
    BY <1>5, <2>1, <2>2 DEF Adjust
<1>6. CASE Sell(t)
  <2>1. CASE UNCHANGED <<part, ledger>>
    BY <1>2, <1>6, <2>1, IdleBooked DEF Sell
  <2>2. CASE Live(t.part)
    <3> DEFINE rest == IF t.seen > 0 THEN t.seen - 1 ELSE 0
               k == ledger[t.part] - (t.seen - rest)
               r == Row(rest)
    <3>0. r.row = "live" /\ Live(t.part)
      BY <2>2 DEF Row
    <3>1. part' = [part EXCEPT ![t.part] = r] /\ ledger' = [ledger EXCEPT ![t.part] = k]
          /\ UNCHANGED uses
      BY <1>6, <2>2 DEF Sell, Set
    <3>2. rest \in Nat
      BY <1>1
    <3> HIDE DEF rest
    <3>3. k \in Int /\ r.row = "live" /\ r.quantity = rest /\ r.quantity \in Int
      BY <1>1, <3>2 DEF Row
    <3>4. r.quantity - k = t.seen - ledger[t.part]
      BY <1>1, <3>2, <3>3
    <3> HIDE DEF k, r
    <3> QED
      BY <1>2, <3>0, <3>1, <3>3, <3>4, WriteBooked
  <2> QED
    BY <1>6, <2>1, <2>2 DEF Sell
<1>7. CASE Update(t)
  <2>1. CASE UNCHANGED <<part, ledger>>
    BY <1>2, <1>7, <2>1, IdleBooked DEF Update
  <2>2. CASE Live(t.part)
    <3> DEFINE k == ledger[t.part] + t.n - part[t.part].quantity
               r == Row(t.n)
    <3>0. r.row = "live" /\ Live(t.part)
      BY <2>2 DEF Row
    <3>1. part' = [part EXCEPT ![t.part] = r] /\ ledger' = [ledger EXCEPT ![t.part] = k]
          /\ UNCHANGED uses
      BY <1>7, <2>2 DEF Update, Set
    <3>2. k \in Int /\ r.row = "live" /\ r.quantity = t.n /\ r.quantity \in Int
      BY <1>1 DEF Row
    <3>3. t.seen = part[t.part].quantity => r.quantity - k = t.seen - ledger[t.part]
      BY <1>1, <3>2
    <3> HIDE DEF k, r
    <3> QED
      BY <1>2, <3>0, <3>1, <3>2, <3>3, WriteBooked
  <2> QED
    BY <1>7, <2>1, <2>2 DEF Update
<1>8. CASE Delete(t)
  <2>1. CASE UNCHANGED <<part, ledger>>
    BY <1>2, <1>8, <2>1, IdleBooked DEF Delete
  <2>2. CASE UsesOf(t.part) = {}
    <3> DEFINE r == [row |-> "gone", quantity |-> 0]
    <3>1. part' = [part EXCEPT ![t.part] = r] /\ ledger' = [ledger EXCEPT ![t.part] = 0]
          /\ UNCHANGED uses
      BY <1>8, <2>2 DEF Delete
    <3>2. r.row # "new" /\ r.row # "live" /\ 0 \in Int
      OBVIOUS
    <3>3. r.row = "live" /\ t.seen = part[t.part].quantity
            => r.quantity \in Int /\ r.quantity - 0 = t.seen - ledger[t.part]
      OBVIOUS
    <3> HIDE DEF r
    <3> QED
      BY <1>2, <2>2, <3>1, <3>2, <3>3, WriteBooked
  <2> QED
    BY <1>8, <2>1, <2>2 DEF Delete
<1> QED
  BY <1>3, <1>4, <1>5, <1>6, <1>7, <1>8

\* The two handlers that read nothing of the stock: a part comes in.
LEMMA CreateBooked ==
  ASSUME BookInv, NEW p \in Parts, NEW n \in Quantities, Create(p, n)
  PROVE  Booked
<1>1. /\ part[p].row = "new" /\ part' = [part EXCEPT ![p] = Row(n)]
      /\ ledger' = [ledger EXCEPT ![p] = n] /\ UNCHANGED <<uses, tasks>>
      /\ requests' = requests + 1 /\ n \in Nat /\ requests \in Nat
  BY BoundsAssumption DEF Create, Quantities, BookInv, IndInv, TypeOK
<1>2. part'[p] = Row(n) /\ \A q \in Parts \ {p} : part'[q] = part[q] /\ ledger'[q] = ledger[q]
  BY <1>1 DEF BookInv, IndInv, TypeOK
<1>3. ledger' \in [Parts -> Int] /\ ledger'[p] = n /\ UNCHANGED uses
  BY <1>1 DEF BookInv, LedgerOK, Live
<1>4. part[p].quantity = 0 /\ ledger[p] = 0
  BY <1>1 DEF BookInv, LedgerOK, Live
<1>5. LedgerOK'
  <2>1. part'[p].row = "live"
    BY <1>2 DEF Row
  <2>2. \A u \in uses : u.part \in Parts
    BY DEF BookInv, IndInv, TypeOK, Use
  <2> QED
    BY <1>2, <1>3, <2>1, <2>2 DEF BookInv, LedgerOK, Live
<1>6. LinksOK'
  <2>1. \A t \in tasks : t.use \in Nat
    BY DEF BookInv, IndInv, TypeOK, Task
  <2> QED
    BY <1>1, <2>1 DEF BookInv, LinksOK
<1>7. ASSUME NEW q \in Parts PROVE Balance(q)' = Balance(q)
  <2>1. CASE q # p
    BY <1>2, <1>3, <2>1, UntouchedBalances DEF Untouched, UsesOf
  <2>2. CASE q = p
    <3>1. Units(UsesOf(p)') = Units(UsesOf(p)) /\ Units(UsesOf(p)) \in Nat
      BY <1>3, UsesQuantified DEF UsesOf
    <3>2. Balance(p)' = n + Units(UsesOf(p)) - n /\ Balance(p) = 0 + Units(UsesOf(p)) - 0
      BY <1>2, <1>3, <1>4, <3>1 DEF Balance, Row
    <3> QED
      BY <1>1, <2>2, <3>1, <3>2
  <2> QED
    BY <2>1, <2>2
<1>8. NoneRevived
  BY <1>1, <1>2 DEF NoneRevived, Live
<1> QED
  BY <1>5, <1>6, <1>7, <1>8 DEF Booked

LEMMA CreateAndAssociateBooked ==
  ASSUME BookInv, NEW p \in Parts, NEW v \in Vehicles, NEW total \in Quantities,
         NEW n \in Quantities, CreateAndAssociate(p, v, total, n)
  PROVE  Booked
<1> DEFINE new == [id |-> requests + 1, part |-> p, vehicle |-> v, quantity |-> n]
<1>1. /\ part[p].row = "new" /\ part' = [part EXCEPT ![p] = Row(total - n)]
      /\ ledger' = [ledger EXCEPT ![p] = total] /\ uses' = uses \cup {new}
      /\ requests' = requests + 1 /\ UNCHANGED tasks
      /\ n \in Nat /\ total \in Nat /\ requests \in Nat
  BY BoundsAssumption DEF CreateAndAssociate, Quantities, BookInv, IndInv, TypeOK
<1>2. new.id = requests + 1 /\ new.part = p /\ new.quantity = n
  OBVIOUS
<1> HIDE DEF new
<1>3. part'[p] = Row(total - n) /\ \A q \in Parts \ {p} : part'[q] = part[q] /\ ledger'[q] = ledger[q]
  BY <1>1 DEF BookInv, IndInv, TypeOK
<1>4. ledger' \in [Parts -> Int] /\ ledger'[p] = total
  BY <1>1 DEF BookInv, LedgerOK, Live
<1>5. part[p].quantity = 0 /\ ledger[p] = 0
  BY <1>1 DEF BookInv, LedgerOK, Live
<1>6. \A u \in uses : u.id \in Nat /\ u.id <= requests
  BY DEF BookInv, IndInv, TypeOK, IdsOK, Use, Ids
<1>7. /\ IsFiniteSet(uses') /\ Units(UsesOf(p)') = Units(UsesOf(p)) + n
      /\ \A q : q # p => UsesOf(q)' = UsesOf(q)
  <2>1. new \notin uses
    BY <1>1, <1>2, <1>6
  <2> QED
    BY <1>1, <1>2, <2>1, UnitsMore
<1>8. LedgerOK'
  <2>1. part'[p].row = "live"
    BY <1>3 DEF Row
  <2>2. \A u \in uses : u.part \in Parts
    BY DEF BookInv, IndInv, TypeOK, Use
  <2> QED
    BY <1>1, <1>2, <1>3, <1>4, <1>7, <2>1, <2>2 DEF BookInv, LedgerOK, Live
<1>9. LinksOK'
  <2>1. \A u, w \in uses' : u.id = w.id => u = w
    BY <1>1, <1>2, <1>6 DEF BookInv, LinksOK
  <2>2. ASSUME NEW s \in tasks', s.kind = "remove"
        PROVE  /\ s.use <= requests'
               /\ \A u \in uses' : u.id = s.use => u.part = s.part /\ u.quantity = s.n
               /\ \A s2 \in tasks' : s2.kind = "associate" => s2.id # s.use
    <3>1. s.use \in Nat /\ s.use <= requests
      BY <1>1, <2>2 DEF BookInv, IndInv, TypeOK, Task, LinksOK
    <3> QED
      BY <1>1, <1>2, <2>2, <3>1 DEF BookInv, LinksOK
  <2> QED
    BY <2>1, <2>2 DEF LinksOK
<1>10. ASSUME NEW q \in Parts PROVE Balance(q)' = Balance(q)
  <2>1. CASE q # p
    BY <1>3, <1>7, <2>1, UntouchedBalances DEF Untouched
  <2>2. CASE q = p
    <3>1. Units(UsesOf(p)) \in Nat
      BY UsesQuantified
    <3>2. /\ Balance(p)' = (total - n) + (Units(UsesOf(p)) + n) - total
          /\ Balance(p) = 0 + Units(UsesOf(p)) - 0
      BY <1>3, <1>4, <1>5, <1>7 DEF Balance, Row
    <3> QED
      BY <1>1, <2>2, <3>1, <3>2
  <2> QED
    BY <2>1, <2>2
<1>11. NoneRevived
  BY <1>1, <1>3 DEF NoneRevived, Live
<1> QED
  BY <1>8, <1>9, <1>10, <1>11 DEF Booked

LEMMA RemoveVehicleBooked ==
  ASSUME BookInv, NEW v \in Vehicles, RemoveVehicle(v)
  PROVE  Booked
<1> DEFINE D(p) == {u \in UsesOf(p) : u.vehicle = v}
<1>1. /\ uses' = {u \in uses : u.vehicle # v} /\ UNCHANGED <<part, tasks, requests>>
      /\ ledger' = [p \in Parts |-> ledger[p] - Units(D(p))]
  BY DEF RemoveVehicle
<1>2. ASSUME NEW p \in Parts
      PROVE  /\ Units(D(p)) \in Nat /\ UsesOf(p)' = UsesOf(p) \ D(p)
             /\ Units(UsesOf(p)') = Units(UsesOf(p)) - Units(D(p))
  <2>1. Quantified(UsesOf(p)) /\ D(p) \in SUBSET UsesOf(p)
    BY UsesQuantified
  <2>2. Quantified(D(p))
    BY <2>1, FS_Subset DEF Quantified
  <2>3. UsesOf(p)' = UsesOf(p) \ D(p)
    BY <1>1 DEF UsesOf
  <2> HIDE DEF D
  <2> QED
    BY <2>1, <2>2, <2>3, UnitsNat, UnitsSplit
<1>3. uses' \subseteq uses
  BY <1>1
<1>4. LedgerOK'
  <2>1. IsFiniteSet(uses')
    BY <1>3, FS_Subset DEF BookInv, LedgerOK, Live
  <2>2. ASSUME NEW p \in Parts, part[p].row = "new" PROVE ledger'[p] = 0 /\ ledger[p] = 0
    <3>1. D(p) = {}
      BY <2>2 DEF BookInv, LedgerOK, Live, UsesOf
    <3>2. Units({}) = 0
      BY FS_EmptySet, UnitsOf
    <3>3. ledger[p] = 0
      BY <2>2 DEF BookInv, LedgerOK, Live
    <3> QED
      BY <1>1, <3>1, <3>2, <3>3
  <2>3. \A p \in Parts : ledger[p] \in Int
    BY DEF BookInv, LedgerOK, Live
  <2> HIDE DEF D
  <2>4. ledger' \in [Parts -> Int]
    BY <1>1, <1>2, <2>3
  <2> QED
    BY <1>1, <1>3, <2>1, <2>2, <2>4 DEF BookInv, LedgerOK, Live
<1>5. LinksOK'
  BY <1>1, <1>3, LinksShrink DEF BookInv
<1>6. ASSUME NEW p \in Parts PROVE Balance(p)' = Balance(p)
  <2>1. Units(D(p)) \in Nat /\ Units(UsesOf(p)') = Units(UsesOf(p)) - Units(D(p))
    BY <1>2
  <2>2. ledger'[p] = ledger[p] - Units(D(p)) /\ part' = part
    BY <1>1
  <2> HIDE DEF D
  <2>3. Balance(p)' = part[p].quantity + (Units(UsesOf(p)) - Units(D(p))) - (ledger[p] - Units(D(p)))
    BY <2>1, <2>2 DEF Balance
  <2>4. Units(UsesOf(p)) \in Nat /\ ledger[p] \in Int /\ part[p].quantity \in Nat
    BY BookNumbers
  <2> QED
    BY <2>1, <2>3, <2>4 DEF Balance
<1>7. NoneRevived
  BY <1>1 DEF NoneRevived, Live
<1> QED
  BY <1>4, <1>5, <1>6, <1>7 DEF Booked

LEMMA RequestBooked ==
  ASSUME BookInv, Request
  PROVE  Booked
<1>0. 0 \in 0 .. MaxRequests
  BY BoundsAssumption
<1>1. ASSUME NEW kind \in Kinds \ {"remove"}, NEW p, NEW v, NEW n, Begin(kind, p, v, n, 0, FALSE)
      PROVE  Booked
  BY <1>0, <1>1, BeginBooked
<1>2. ASSUME NEW p \in Parts, NEW v \in Vehicles, NEW n \in Quantities, AssociateRead(p, v, n)
      PROVE  Booked
  BY <1>1, <1>2 DEF AssociateRead, Kinds
<1>3. ASSUME NEW p \in Parts, NEW n \in Quantities,
             AdjustRead(p, n) \/ AdjustRead(p, -n) \/ UpdateRead(p, n)
      PROVE  Booked
  <2>1. \/ Begin("adjust", p, NoVehicle, n, 0, FALSE)
        \/ Begin("adjust", p, NoVehicle, -n, 0, FALSE)
        \/ Begin("update", p, NoVehicle, n, 0, FALSE)
    BY <1>3 DEF AdjustRead, UpdateRead
  <2> QED
    BY <1>1, <2>1 DEF Kinds
<1>4. ASSUME NEW p \in Parts, SellRead(p) \/ DeleteRead(p) PROVE Booked
  BY <1>1, <1>4 DEF SellRead, DeleteRead, Kinds
<1>5. ASSUME NEW u \in uses, NEW restore \in BOOLEAN, RemoveRead(u, restore)
      PROVE  Booked
  <2>1. u.id \in 0 .. MaxRequests
    BY BoundsAssumption DEF BookInv, IndInv, TypeOK, Use, Ids
  <2> QED
    BY <1>5, <2>1, BeginBooked DEF RemoveRead
<1> QED
  BY <1>2, <1>3, <1>4, <1>5, CreateBooked, CreateAndAssociateBooked, RemoveVehicleBooked
     DEF Request

LEMMA BookInit == Init => BookInv
<1> SUFFICES ASSUME Init PROVE BookInv
  OBVIOUS
<1>1. LedgerOK
  BY FS_EmptySet DEF Init, LedgerOK
<1> QED
  BY <1>1, InitOK DEF Init, BookInv, LinksOK

LEMMA BookNext ==
  ASSUME BookInv, [Next]_vars
  PROVE  BookInv' /\ Booked
<1>1. IndInv'
  BY NextOK DEF BookInv
<1>2. CASE Request
  BY <1>1, <1>2, RequestBooked DEF BookInv, Booked
<1>3. CASE Commit
  <2>1. Booked
    BY <1>3, CommitBooked DEF Commit
  <2> QED
    BY <1>1, <2>1 DEF BookInv, Booked
<1>4. CASE UNCHANGED vars
  <2>1. Booked
    BY <1>4, IdleBooked DEF vars
  <2> QED
    BY <1>1, <2>1 DEF BookInv, Booked
<1> QED
  BY <1>2, <1>3, <1>4 DEF Next

\* Whatever associatePart, removeAssociation, updateQuantity, markAsSold, update and
\* remove do, and however they interleave, a step changes the balance of a part only if
\* its handler has read a quantity that another one has since changed.
THEOREM StockConservedCorrect == Spec => StockConserved
<1>1. BookInv /\ [Next]_vars => BookInv'
  BY BookNext
<1>2. BookInv /\ [Next]_vars =>
        [(\A t \in tasks \ tasks' : t.seen = part[t.part].quantity)
           => \A p \in Parts : Live(p)' => Balance(p)' = Balance(p)]_vars
  BY BookNext DEF Booked, Fresh
<1> QED
  BY <1>1, <1>2, BookInit, PTL DEF Spec, StockConserved

(***************************************************************************)
(* As long as no quantity that is overwritten is stale, the books are      *)
(* exact, however many requests are in flight.                             *)
(***************************************************************************)
Balanced == \A p \in Parts : Live(p) => Balance(p) = 0

\* No request has written a quantity over one that it had not read.
FreshWrites == [][Fresh]_vars

LEMMA BalancedNext ==
  ASSUME BookInv, Balanced, [Next]_vars, [Fresh]_vars
  PROVE  Balanced'
<1>1. Booked
  BY BookNext
<1>2. CASE UNCHANGED vars
  BY <1>2, UntouchedBalances DEF vars, Balanced, Live, Untouched, UsesOf
<1>3. CASE Fresh
  <2> SUFFICES ASSUME NEW p \in Parts, Live(p)' PROVE Balance(p) = 0
    BY <1>1, <1>3 DEF Booked, Balanced
  <2>1. CASE Live(p)
    BY <2>1 DEF Balanced
  <2>2. CASE part[p].row = "new"
    <3>1. UsesOf(p) = {}
      BY <2>2 DEF BookInv, LedgerOK, Live, UsesOf
    <3>2. Units({}) = 0
      BY FS_EmptySet, UnitsOf
    <3>3. part[p].quantity = 0 /\ ledger[p] = 0
      BY <2>2 DEF BookInv, LedgerOK
    <3> QED
      BY <3>1, <3>2, <3>3 DEF Balance
  <2> QED
    BY <1>1, <2>1, <2>2 DEF Booked, NoneRevived, Live, BookInv, IndInv, TypeOK
<1> QED
  BY <1>2, <1>3

\* associatePart: more of a part is installed than there ever was of it only after a
\* handler has written a quantity computed from one that another handler had since
\* changed, however many of them are in flight.  Until then what is installed and what
\* is in stock is exactly what was taken in.
THEOREM OverdraftTakesStaleWrite == Spec /\ FreshWrites => []NoOverdraft
<1>1. Init => Balanced
  BY DEF Init, Balanced, Live
<1>2. BookInv /\ Balanced /\ [Next]_vars /\ [Fresh]_vars => BookInv' /\ Balanced'
  BY BookNext, BalancedNext
<1>3. BookInv /\ Balanced => NoOverdraft
  <2> SUFFICES ASSUME BookInv, Balanced, NEW p \in Parts, Live(p)
               PROVE  Units(UsesOf(p)) <= ledger[p]
    BY DEF NoOverdraft
  <2>1. part[p].quantity + Units(UsesOf(p)) - ledger[p] = 0
    BY DEF Balanced, Balance
  <2>2. part[p].quantity \in Nat /\ ledger[p] \in Int /\ Units(UsesOf(p)) \in Nat
    BY BookNumbers
  <2> QED
    BY <2>1, <2>2
<1> QED
  BY <1>1, <1>2, <1>3, BookInit, PTL DEF Spec, FreshWrites
=============================================================================
