---------------------------- MODULE InventoryProofs ----------------------------
(***************************************************************************)
(* What holds of the components of Inventory for every set of requests,    *)
(* names, vehicles, keys, parts and terms, and every bound.  Each component *)
(* has an inductive invariant of its own, proved in a section of its own:   *)
(* the initial states have it and every step keeps it; the theorems at the *)
(* end put them together.                                                  *)
(*                                                                         *)
(* Two properties hold under a condition on what overlaps, as the README   *)
(* says under "Counterexamples": media of buyers are private as long as    *)
(* one update is in flight at a time, and generated SKUs are unique as     *)
(* long as each is written before the next is generated and no user types  *)
(* letters for a number.                                                   *)
(***************************************************************************)
EXTENDS Inventory, FiniteSetTheorems, WellFoundedInduction, TLAPS

-----------------------------------------------------------------------------
(* The caches of MarketCheck *)

CacheEntry   == [id : 0 .. MaxId, fresh : BOOLEAN]
CacheRequest == [at : {"idle", "lookup", "drop", "fetch", "store", "done"},
                 kind : Cache!Kinds, seen : 0 .. MaxId, answer : Cache!Answers]

\* A request that saw an expired row has seen one that cannot become fresh again.
DropsExpired(q, e, last) ==
  q.at = "drop" =>
    /\ q.seen # 0 /\ q.seen <= last[q.kind]
    /\ e[q.kind].id = q.seen => ~e[q.kind].fresh

\* The rows have ids that were given.
IdsGiven(e, last) ==
  \A k \in Cache!Kinds : e[k].id <= last[k] /\ (e[k].fresh => e[k].id # 0)

CacheInv ==
  /\ entry \in [Cache!Kinds -> CacheEntry]
  /\ lastId \in [Cache!Kinds -> 0 .. MaxId]
  /\ cacheReq \in [Requests -> CacheRequest]
  /\ IdsGiven(entry, lastId)
  /\ \A r \in Requests : DropsExpired(cacheReq[r], entry, lastId)

LEMMA CacheTypes == CacheInv => Cache!TypeOK
BY DEF CacheInv, Cache!TypeOK, CacheEntry, CacheRequest

LEMMA CacheInit == Cache!Init => CacheInv
BY BoundsAssumption DEF Cache!Bounds, Cache!Init, CacheInv, Cache!NoRow, Cache!Idle, Cache!Kinds,
   Cache!Answers, CacheEntry, CacheRequest, IdsGiven, DropsExpired

\* A request goes on and the tables stay.
LEMMA CacheGoes ==
  ASSUME CacheInv, NEW r \in Requests, NEW q \in CacheRequest,
         DropsExpired(q, entry, lastId),
         cacheReq' = [cacheReq EXCEPT ![r] = q], UNCHANGED <<entry, lastId>>
  PROVE  CacheInv' /\ Cache!FreshRowStays
BY DEF CacheInv, Cache!FreshRowStays

\* The row of one table changes, and a request is at its end or asks the API.
LEMMA CacheWrites ==
  ASSUME CacheInv, NEW r \in Requests, NEW q \in CacheRequest, q.at # "drop",
         NEW k \in Cache!Kinds, NEW row \in CacheEntry, NEW n \in 0 .. MaxId,
         ~entry[k].fresh, lastId[k] <= n, row.id <= n, row.fresh => row.id > lastId[k],
         cacheReq' = [cacheReq EXCEPT ![r] = q],
         entry' = [entry EXCEPT ![k] = row], lastId' = [lastId EXCEPT ![k] = n]
  PROVE  CacheInv' /\ Cache!FreshRowStays
<1>1. /\ entry' \in [Cache!Kinds -> CacheEntry] /\ lastId' \in [Cache!Kinds -> 0 .. MaxId]
      /\ cacheReq' \in [Requests -> CacheRequest]
  BY DEF CacheInv
<1>2. IdsGiven(entry', lastId')
  BY BoundsAssumption DEF CacheInv, IdsGiven, CacheEntry, Cache!Bounds
<1>3. \A p \in Requests : DropsExpired(cacheReq'[p], entry', lastId')
  <2> TAKE p \in Requests
  <2>1. CASE p = r
    BY <2>1 DEF CacheInv, DropsExpired
  <2>2. CASE p # r
    <3>1. cacheReq'[p] = cacheReq[p] /\ cacheReq[p] \in CacheRequest
      BY <2>2 DEF CacheInv
    <3> QED
      BY <3>1, BoundsAssumption DEF CacheInv, DropsExpired, CacheRequest, CacheEntry, Cache!Bounds
  <2> QED
    BY <2>1, <2>2
<1> QED
  BY <1>1, <1>2, <1>3 DEF CacheInv, Cache!FreshRowStays

LEMMA CacheStep ==
  ASSUME CacheInv, Cache!Next
  PROVE  CacheInv' /\ Cache!FreshRowStays
<1>types. /\ entry \in [Cache!Kinds -> CacheEntry] /\ lastId \in [Cache!Kinds -> 0 .. MaxId]
          /\ cacheReq \in [Requests -> CacheRequest] /\ MaxId \in Nat
  BY BoundsAssumption DEF CacheInv, Cache!Bounds
<1>1. ASSUME NEW r \in Requests, Cache!Ask(r)
      PROVE  CacheInv' /\ Cache!FreshRowStays
  <2>1. PICK k \in Cache!Kinds : cacheReq' = [cacheReq EXCEPT ![r].at = "lookup", ![r].kind = k]
    BY <1>1 DEF Cache!Ask
  <2> DEFINE q == [cacheReq[r] EXCEPT !.at = "lookup", !.kind = k]
  <2>2. cacheReq' = [cacheReq EXCEPT ![r] = q]
    BY <2>1
  <2>3. q \in CacheRequest /\ DropsExpired(q, entry, lastId)
    BY <1>types DEF CacheRequest, DropsExpired
  <2> HIDE DEF q
  <2> QED
    BY <1>1, <2>2, <2>3, CacheGoes DEF Cache!Ask
<1>2. ASSUME NEW r \in Requests, Cache!Lookup(r)
      PROVE  CacheInv' /\ Cache!FreshRowStays
  <2> DEFINE row == entry[cacheReq[r].kind]
             u1 == [cacheReq[r] EXCEPT !.at = "fetch"]
             u2 == [cacheReq[r] EXCEPT !.at = "done", !.answer = "cached"]
             u3 == [cacheReq[r] EXCEPT !.at = "drop", !.seen = row.id]
  <2>1. \/ cacheReq' = [cacheReq EXCEPT ![r] = u1]
        \/ cacheReq' = [cacheReq EXCEPT ![r] = u2]
        \/ row.id # 0 /\ ~row.fresh /\ cacheReq' = [cacheReq EXCEPT ![r] = u3]
    BY <1>2 DEF Cache!Lookup, Cache!Goes, Cache!Answer
  <2>2. /\ u1 \in CacheRequest /\ DropsExpired(u1, entry, lastId)
        /\ u2 \in CacheRequest /\ DropsExpired(u2, entry, lastId)
    BY <1>types DEF CacheRequest, DropsExpired, Cache!Answers
  <2>3. row \in CacheEntry /\ row.id <= lastId[cacheReq[r].kind]
    BY <1>types DEF CacheInv, IdsGiven, CacheRequest
  <2>4. u3 \in CacheRequest
    BY <1>types, <2>3 DEF CacheRequest, CacheEntry
  <2>5. row.id # 0 /\ ~row.fresh => DropsExpired(u3, entry, lastId)
    BY <1>types, <2>3 DEF CacheRequest, DropsExpired
  <2> HIDE DEF u1, u2, u3
  <2> QED
    BY <1>2, <2>1, <2>2, <2>4, <2>5, CacheGoes DEF Cache!Lookup
<1>3. ASSUME NEW r \in Requests, Cache!DropExpired(r)
      PROVE  CacheInv' /\ Cache!FreshRowStays
  <2> DEFINE k  == cacheReq[r].kind
             u1 == [cacheReq[r] EXCEPT !.at = "fetch"]
             u2 == [cacheReq[r] EXCEPT !.at = "done", !.answer = "error"]
             none == [id |-> 0, fresh |-> FALSE]
  <2>1. \/ /\ entry[k].id = cacheReq[r].seen
           /\ cacheReq' = [cacheReq EXCEPT ![r] = u1] /\ entry' = [entry EXCEPT ![k] = none]
        \/ cacheReq' = [cacheReq EXCEPT ![r] = u2] /\ entry' = entry
    BY <1>3 DEF Cache!DropExpired, Cache!Goes, Cache!Answer, Cache!NoRow
  <2>2. /\ u1 \in CacheRequest /\ u1.at # "drop" /\ u2 \in CacheRequest
        /\ DropsExpired(u2, entry, lastId) /\ k \in Cache!Kinds
    BY <1>types DEF CacheRequest, DropsExpired, Cache!Answers
  <2>0. none \in CacheEntry
    BY <1>types DEF CacheEntry
  <2>3. lastId' = lastId /\ lastId' = [lastId EXCEPT ![k] = lastId[k]] /\ lastId[k] \in 0 .. MaxId
    BY <1>types, <1>3, <2>2 DEF Cache!DropExpired
  <2>4. entry[k].id = cacheReq[r].seen => ~entry[k].fresh
    BY <1>3, <2>2 DEF CacheInv, DropsExpired, Cache!DropExpired
  <2>5. none.id <= lastId[k] /\ ~none.fresh /\ lastId[k] <= lastId[k]
    BY <2>3, <1>types
  <2> HIDE DEF u1, u2, k, none
  <2>6. CASE entry' = entry /\ cacheReq' = [cacheReq EXCEPT ![r] = u2]
    BY <2>2, <2>3, <2>6, CacheGoes
  <2>7. CASE entry' = [entry EXCEPT ![k] = none] /\ cacheReq' = [cacheReq EXCEPT ![r] = u1] /\ entry[k].id = cacheReq[r].seen
    BY <2>0, <2>2, <2>3, <2>4, <2>5, <2>7, CacheWrites
  <2> QED
    BY <2>1, <2>6, <2>7
<1>4. ASSUME NEW r \in Requests, Cache!Fetch(r) \/ Cache!RefuseMileage(r)
      PROVE  CacheInv' /\ Cache!FreshRowStays
  <2> DEFINE u1 == [cacheReq[r] EXCEPT !.at = "store"]
             u2(a) == [cacheReq[r] EXCEPT !.at = "done", !.answer = a]
  <2>1. \/ cacheReq' = [cacheReq EXCEPT ![r] = u1]
        \/ cacheReq' = [cacheReq EXCEPT ![r] = u2("error")]
        \/ cacheReq' = [cacheReq EXCEPT ![r] = u2("refused")]
    BY <1>4 DEF Cache!Fetch, Cache!RefuseMileage, Cache!Goes, Cache!Answer
  <2>2. /\ u1 \in CacheRequest /\ DropsExpired(u1, entry, lastId)
        /\ \A a \in {"error", "refused"} : u2(a) \in CacheRequest /\ DropsExpired(u2(a), entry, lastId)
    BY <1>types DEF CacheRequest, DropsExpired, Cache!Answers
  <2>3. UNCHANGED <<entry, lastId>>
    BY <1>4 DEF Cache!Fetch, Cache!RefuseMileage
  <2> HIDE DEF u1, u2
  <2> QED
    BY <2>1, <2>2, <2>3, CacheGoes
<1>5. ASSUME NEW r \in Requests, Cache!Store(r)
      PROVE  CacheInv' /\ Cache!FreshRowStays
  <2> DEFINE k  == cacheReq[r].kind
             n  == lastId[k] + 1
             u1 == [cacheReq[r] EXCEPT !.at = "done", !.answer = "fetched"]
             u2 == [cacheReq[r] EXCEPT !.at = "done", !.answer = "error"]
             row == [id |-> n, fresh |-> TRUE]
  <2>1. \/ /\ entry[k].id = 0 /\ lastId[k] < MaxId
           /\ cacheReq' = [cacheReq EXCEPT ![r] = u1] /\ entry' = [entry EXCEPT ![k] = row]
           /\ lastId' = [lastId EXCEPT ![k] = n]
        \/ cacheReq' = [cacheReq EXCEPT ![r] = u2] /\ UNCHANGED <<entry, lastId>>
    BY <1>5 DEF Cache!Store, Cache!Answer
  <2>2. /\ u1 \in CacheRequest /\ u1.at # "drop" /\ u2 \in CacheRequest
        /\ DropsExpired(u2, entry, lastId) /\ k \in Cache!Kinds
    BY <1>types DEF CacheRequest, DropsExpired, Cache!Answers
  <2>3. lastId[k] < MaxId =>
          /\ n \in 0 .. MaxId /\ lastId[k] <= n /\ row \in CacheEntry
          /\ row.id <= n /\ row.id > lastId[k]
    BY <1>types, <2>2 DEF CacheEntry
  <2>4. entry[k].id = 0 => ~entry[k].fresh
    BY <2>2 DEF CacheInv, IdsGiven
  <2> HIDE DEF u1, u2, k, n, row
  <2> QED
    BY <2>1, <2>2, <2>3, <2>4, CacheGoes, CacheWrites
<1>6. ASSUME NEW k \in Cache!Kinds, Cache!Expire(k)
      PROVE  CacheInv' /\ Cache!FreshRowStays
  BY <1>6 DEF CacheInv, CacheEntry, Cache!Expire, Cache!FreshRowStays, IdsGiven, DropsExpired, CacheRequest
<1> QED
  BY <1>1, <1>2, <1>3, <1>4, <1>5, <1>6 DEF Cache!Next, Cache!PriceRequest, Cache!CompsRequest,
     Cache!AuctionRequest, Cache!Step

-----------------------------------------------------------------------------
(* Makes, models and trims *)

CatalogueRow == [level : 0 .. 4, parent : 0 .. MaxRow, name : Names, active : BOOLEAN]
CatalogueRequest ==
  [at : {"idle", "create", "update", "remove", "fill", "over"}, level : 0 .. 4,
   id : 0 .. MaxRow, parent : 0 .. MaxRow, name : Names, todo : SUBSET Names]

\* No row has an id that was not given yet, no name is twice under its parent, and the
\* rows that vehicles refer to are there.
RowsInv ==
  /\ rows \in [1 .. MaxRow -> CatalogueRow] /\ lastRow \in 0 .. MaxRow
  /\ used \subseteq 1 .. MaxRow
  /\ \A i \in 1 .. MaxRow : i > lastRow => rows[i].level = 0
  /\ Catalogue!NoDuplicates /\ Catalogue!UsedRowsStay

CatalogueInv == RowsInv /\ catalogueReq \in [Clients -> CatalogueRequest]

LEMMA CatalogueTypes == CatalogueInv => Catalogue!TypeOK
BY DEF CatalogueInv, RowsInv, Catalogue!TypeOK, Catalogue!Ids, CatalogueRow, CatalogueRequest

LEMMA CatalogueInit == Catalogue!Init => CatalogueInv
<1> SUFFICES ASSUME Catalogue!Init PROVE CatalogueInv
  OBVIOUS
<1> DEFINE other == CHOOSE n \in Names : n # NextYear
<1>1. /\ MaxRow \in Nat /\ Seeded \in 0 .. 4 /\ Seeded <= MaxRow
      /\ NextYear \in Names /\ Names # {NextYear}
  BY BoundsAssumption DEF Catalogue!Bounds
<1>2. other \in Names
  BY <1>1
<1>3. /\ rows = [i \in 1 .. MaxRow |-> IF i > Seeded
                   THEN [level |-> 0, parent |-> 0, name |-> NextYear, active |-> FALSE]
                   ELSE [level |-> i, parent |-> i - 1, name |-> other, active |-> TRUE]]
      /\ lastRow = Seeded /\ used = {}
      /\ catalogueReq = [r \in Clients |-> [at |-> "idle", level |-> 0, id |-> 0, parent |-> 0,
                                            name |-> NextYear, todo |-> {}]]
  BY DEF Catalogue!Init, Catalogue!NoRow, Catalogue!Idle, Catalogue!Root, Catalogue!Ids
<1> HIDE DEF other
<1>4. \A i \in 1 .. MaxRow :
        /\ i > Seeded =>
             [level |-> 0, parent |-> 0, name |-> NextYear, active |-> FALSE] \in CatalogueRow
        /\ ~(i > Seeded) =>
             [level |-> i, parent |-> i - 1, name |-> other, active |-> TRUE] \in CatalogueRow
  BY <1>1, <1>2 DEF CatalogueRow
<1>5. rows \in [1 .. MaxRow -> CatalogueRow]
  BY <1>3, <1>4
<1>6. \A i \in 1 .. MaxRow : i > lastRow => rows[i].level = 0
  BY <1>1, <1>3
<1>7. Catalogue!NoDuplicates /\ Catalogue!UsedRowsStay
  <2>1. \A i \in 1 .. MaxRow : rows[i].level # 0 => rows[i].level = i
    BY <1>1, <1>3
  <2> QED
    BY <1>3, <2>1
       DEF Catalogue!NoDuplicates, Catalogue!UsedRowsStay, Catalogue!There, Catalogue!Ids
<1>8. [at |-> "idle", level |-> 0, id |-> 0, parent |-> 0, name |-> NextYear, todo |-> {}]
        \in CatalogueRequest
  BY <1>1 DEF CatalogueRequest
<1>9. lastRow \in 0 .. MaxRow /\ used \subseteq 1 .. MaxRow
  BY <1>1, <1>3
<1>10. RowsInv
  BY <1>5, <1>6, <1>7, <1>9 DEF RowsInv
<1> QED
  BY <1>3, <1>8, <1>10 DEF CatalogueInv

LEMMA InsertOK ==
  ASSUME RowsInv, NEW level \in 1 .. 4, NEW p \in 0 .. MaxRow, NEW name \in Names,
         Catalogue!Insert(level, p, name), UNCHANGED used
  PROVE  RowsInv'
<1> DEFINE row == [level |-> level, parent |-> p, name |-> name, active |-> TRUE]
           new == lastRow + 1
<1>0. MaxRow \in Nat
  BY BoundsAssumption DEF Catalogue!Bounds
<1>1. CASE UNCHANGED <<rows, lastRow>>
  BY <1>1 DEF RowsInv, Catalogue!NoDuplicates, Catalogue!UsedRowsStay, Catalogue!There
<1>2. CASE /\ Catalogue!Named(level, p, name) = {} /\ lastRow < MaxRow
           /\ lastRow' = new /\ rows' = [rows EXCEPT ![new] = row]
  <2>1. /\ row \in CatalogueRow /\ row.level # 0 /\ row.level = level /\ row.parent = p
        /\ row.name = name
    BY DEF CatalogueRow
  <2>2. new \in 1 .. MaxRow /\ new > lastRow /\ lastRow \in 0 .. MaxRow
    BY <1>0, <1>2 DEF RowsInv
  <2> HIDE DEF row, new
  <2>3. /\ rows' \in [1 .. MaxRow -> CatalogueRow] /\ lastRow' \in 0 .. MaxRow
        /\ used' \subseteq 1 .. MaxRow
    BY <1>0, <1>2, <2>1, <2>2 DEF RowsInv
  <2>4. \A i \in 1 .. MaxRow : i > lastRow' => rows'[i].level = 0
    BY <1>0, <1>2, <2>2 DEF RowsInv
  <2>5. \A i \in 1 .. MaxRow : rows'[i] = IF i = new THEN row ELSE rows[i]
    BY <1>2 DEF RowsInv
  <2>6. rows[new].level = 0
    BY <2>2 DEF RowsInv
  <2>7. Catalogue!There' = Catalogue!There \cup {new}
    BY <2>1, <2>2, <2>5 DEF Catalogue!There, Catalogue!Ids
  <2>8. Catalogue!UsedRowsStay'
    BY <2>7 DEF RowsInv, Catalogue!UsedRowsStay
  <2>9. \A i \in Catalogue!There :
          ~(rows[i].level = level /\ rows[i].parent = p /\ rows[i].name = name)
    BY <1>2 DEF Catalogue!Named
  <2>10. new \notin Catalogue!There
    BY <2>6 DEF Catalogue!There
  <2>11. Catalogue!NoDuplicates'
    <3> SUFFICES ASSUME NEW i \in Catalogue!There \cup {new}, NEW j \in Catalogue!There \cup {new},
                        rows'[i].level = rows'[j].level, rows'[i].parent = rows'[j].parent,
                        rows'[i].name = rows'[j].name
                 PROVE  i = j
      BY <2>7 DEF Catalogue!NoDuplicates
    <3>1. \A k \in Catalogue!There : rows'[k] = rows[k]
      BY <2>5, <2>10 DEF Catalogue!There, Catalogue!Ids
    <3>2. rows'[new] = row
      BY <2>2, <2>5
    <3> QED
      BY <2>1, <2>9, <3>1, <3>2 DEF RowsInv, Catalogue!NoDuplicates
  <2> QED
    BY <2>3, <2>4, <2>8, <2>11 DEF RowsInv
<1> QED
  BY <1>1, <1>2 DEF Catalogue!Insert

\* A row gets another name, parent or state, and no other row has the name there.
LEMMA RenameOK ==
  ASSUME RowsInv, NEW i \in Catalogue!There, NEW row \in CatalogueRow, row.level # 0,
         Catalogue!Named(row.level, row.parent, row.name) \subseteq {i},
         rows' = [rows EXCEPT ![i] = row], UNCHANGED <<lastRow, used>>
  PROVE  RowsInv'
<1>1. i \in 1 .. MaxRow /\ rows[i].level # 0
  BY DEF Catalogue!There, Catalogue!Ids
<1>2. \A j \in 1 .. MaxRow : rows'[j] = IF j = i THEN row ELSE rows[j]
  BY DEF RowsInv
<1>3. Catalogue!There' = Catalogue!There
  BY <1>1, <1>2 DEF Catalogue!There, Catalogue!Ids
<1>4. \A j \in Catalogue!There \ {i} :
        ~(rows[j].level = row.level /\ rows[j].parent = row.parent /\ rows[j].name = row.name)
  BY DEF Catalogue!Named
<1>5. Catalogue!NoDuplicates'
  <2> SUFFICES ASSUME NEW j \in Catalogue!There, NEW k \in Catalogue!There,
                      rows'[j].level = rows'[k].level, rows'[j].parent = rows'[k].parent,
                      rows'[j].name = rows'[k].name
               PROVE  j = k
    BY <1>3 DEF Catalogue!NoDuplicates
  <2>1. \A m \in Catalogue!There : m # i => rows'[m] = rows[m]
    BY <1>2 DEF Catalogue!There, Catalogue!Ids
  <2>2. rows'[i] = row
    BY <1>1, <1>2
  <2> QED
    BY <1>4, <2>1, <2>2 DEF RowsInv, Catalogue!NoDuplicates
<1>6. \A j \in 1 .. MaxRow : j > lastRow => rows'[j].level = 0
  BY <1>1, <1>2 DEF RowsInv
<1> QED
  BY <1>1, <1>3, <1>5, <1>6 DEF RowsInv, Catalogue!UsedRowsStay

\* Rows go, and none of them is used any more.
LEMMA DeleteOK ==
  ASSUME RowsInv, NEW S, used' = used \ S,
         rows' = [j \in 1 .. MaxRow |-> IF j \in S THEN Catalogue!NoRow ELSE rows[j]],
         UNCHANGED lastRow
  PROVE  RowsInv'
<1>1. Catalogue!NoRow \in CatalogueRow /\ Catalogue!NoRow.level = 0
  BY BoundsAssumption DEF Catalogue!NoRow, CatalogueRow, Catalogue!Root, Catalogue!Bounds
<1>2. Catalogue!There' = Catalogue!There \ S /\ Catalogue!There \subseteq 1 .. MaxRow
  BY <1>1 DEF Catalogue!There, Catalogue!Ids
<1>3. \A j \in 1 .. MaxRow \ S : rows'[j] = rows[j]
  OBVIOUS
<1>4. Catalogue!NoDuplicates'
  BY <1>2, <1>3 DEF RowsInv, Catalogue!NoDuplicates
<1>5. Catalogue!UsedRowsStay'
  BY <1>2 DEF RowsInv, Catalogue!UsedRowsStay
<1>6. \A j \in 1 .. MaxRow : j > lastRow => rows'[j].level = 0
  BY <1>1 DEF RowsInv
<1>7. rows' \in [1 .. MaxRow -> CatalogueRow]
  BY <1>1 DEF RowsInv
<1> QED
  BY <1>4, <1>5, <1>6, <1>7 DEF RowsInv

LEMMA RowsStay == ASSUME RowsInv, UNCHANGED <<rows, lastRow, used>> PROVE RowsInv'
BY DEF RowsInv, Catalogue!NoDuplicates, Catalogue!UsedRowsStay, Catalogue!There

LEMMA CatalogueGoes ==
  ASSUME CatalogueInv, RowsInv', NEW r \in Clients, NEW q \in CatalogueRequest,
         catalogueReq' = [catalogueReq EXCEPT ![r] = q]
  PROVE  CatalogueInv'
BY DEF CatalogueInv

LEMMA CatalogueIdle ==
  /\ Catalogue!Idle \in CatalogueRequest
  /\ [Catalogue!Idle EXCEPT !.at = "over"] \in CatalogueRequest
BY BoundsAssumption DEF Catalogue!Bounds, Catalogue!Idle, CatalogueRequest, Catalogue!Root

LEMMA CatalogueEnds ==
  ASSUME CatalogueInv, RowsInv', NEW r \in Clients, Catalogue!End(r)
  PROVE  CatalogueInv'
BY CatalogueIdle, CatalogueGoes DEF Catalogue!End, Catalogue!Goes

LEMMA CatalogueStep ==
  ASSUME CatalogueInv, Catalogue!Next
  PROVE  CatalogueInv'
<1>types. /\ RowsInv /\ catalogueReq \in [Clients -> CatalogueRequest] /\ MaxRow \in Nat
          /\ Catalogue!There \subseteq 1 .. MaxRow /\ NextYear \in Names
  BY BoundsAssumption DEF CatalogueInv, Catalogue!Bounds, Catalogue!There, Catalogue!Ids
<1>1. ASSUME NEW r \in Clients, NEW level \in 1 .. 4, Catalogue!CreateCheck(r, level)
      PROVE  CatalogueInv'
  <2>1. RowsInv'
    BY <1>1, <1>types, RowsStay DEF Catalogue!CreateCheck
  <2>2. PICK p \in Catalogue!There \cup {0}, name \in Names :
          \/ Catalogue!End(r)
          \/ catalogueReq' = [catalogueReq EXCEPT ![r] =
               [at |-> "create", level |-> level, id |-> 0, parent |-> p, name |-> name, todo |-> {}]]
    BY <1>1 DEF Catalogue!CreateCheck, Catalogue!Goes, Catalogue!Root
  <2>3. [at |-> "create", level |-> level, id |-> 0, parent |-> p, name |-> name, todo |-> {}]
          \in CatalogueRequest
    BY <1>types DEF CatalogueRequest
  <2> QED
    BY <2>1, <2>2, <2>3, CatalogueEnds, CatalogueGoes
<1>2. ASSUME NEW r \in Clients, NEW level \in 1 .. 4, Catalogue!CreateInsert(r, level)
      PROVE  CatalogueInv'
  <2>1. catalogueReq[r].parent \in 0 .. MaxRow /\ catalogueReq[r].name \in Names
    BY <1>types DEF CatalogueRequest
  <2> QED
    BY <1>2, <1>types, <2>1, InsertOK, CatalogueEnds DEF Catalogue!CreateInsert
<1>3. ASSUME NEW r \in Clients, NEW level \in 1 .. 4, Catalogue!UpdateCheck(r, level)
      PROVE  CatalogueInv'
  <2>1. RowsInv'
    BY <1>3, <1>types, RowsStay DEF Catalogue!UpdateCheck
  <2>2. PICK i \in 1 .. MaxRow, p \in Catalogue!There \cup {0}, name \in Names :
          \/ Catalogue!End(r)
          \/ catalogueReq' = [catalogueReq EXCEPT ![r] =
               [at |-> "update", level |-> level, id |-> i, parent |-> p, name |-> name, todo |-> {}]]
    BY <1>3 DEF Catalogue!UpdateCheck, Catalogue!Goes, Catalogue!Root, Catalogue!Ids
  <2>3. [at |-> "update", level |-> level, id |-> i, parent |-> p, name |-> name, todo |-> {}]
          \in CatalogueRequest
    BY <1>types DEF CatalogueRequest
  <2> QED
    BY <2>1, <2>2, <2>3, CatalogueEnds, CatalogueGoes
<1>4. ASSUME NEW r \in Clients, NEW level \in 1 .. 4, Catalogue!UpdateWrite(r, level)
      PROVE  CatalogueInv'
  <2> DEFINE i == catalogueReq[r].id
             p == catalogueReq[r].parent
             name == catalogueReq[r].name
             row(active) == [level |-> level, parent |-> p, name |-> name, active |-> active]
  <2>1. Catalogue!End(r) /\ UNCHANGED <<lastRow, used>>
    BY <1>4 DEF Catalogue!UpdateWrite
  <2>2. \/ rows' = rows
        \/ /\ i \in Catalogue!There /\ Catalogue!Named(level, p, name) \subseteq {i}
           /\ \E active \in BOOLEAN : rows' = [rows EXCEPT ![i] = row(active)]
    BY <1>4 DEF Catalogue!UpdateWrite
  <2>3. \A active \in BOOLEAN :
          /\ row(active) \in CatalogueRow /\ row(active).level # 0
          /\ row(active).level = level /\ row(active).parent = p /\ row(active).name = name
    BY <1>types DEF CatalogueRow, CatalogueRequest
  <2> HIDE DEF i, p, name, row
  <2>4. RowsInv'
    BY <1>types, <2>1, <2>2, <2>3, RenameOK, RowsStay
  <2> QED
    BY <2>1, <2>4, CatalogueEnds
<1>5. ASSUME NEW r \in Clients, NEW level \in 1 .. 4, Catalogue!RemoveCheck(r, level)
      PROVE  CatalogueInv'
  <2>1. RowsInv'
    BY <1>5, <1>types, RowsStay DEF Catalogue!RemoveCheck
  <2> DEFINE q(i) == [Catalogue!Idle EXCEPT !.at = "remove", !.level = level, !.id = i]
  <2>2. PICK i \in 1 .. MaxRow :
          Catalogue!End(r) \/ catalogueReq' = [catalogueReq EXCEPT ![r] = q(i)]
    BY <1>5 DEF Catalogue!RemoveCheck, Catalogue!Goes, Catalogue!Ids
  <2>3. q(i) \in CatalogueRequest
    <3>1. level \in 0 .. 4 /\ i \in 0 .. MaxRow
      BY <1>types
    <3> QED
      BY <3>1, CatalogueIdle, Zenon DEF CatalogueRequest
  <2> HIDE DEF q
  <2> QED
    BY <2>1, <2>2, <2>3, CatalogueEnds, CatalogueGoes
<1>6. ASSUME NEW r \in Clients, NEW level \in 1 .. 4, Catalogue!RemoveDelete(r, level)
      PROVE  CatalogueInv'
  <2> DEFINE S == Catalogue!Below(catalogueReq[r].id)
  <2>1. Catalogue!End(r) /\ UNCHANGED lastRow
    BY <1>6 DEF Catalogue!RemoveDelete
  <2>2. \/ UNCHANGED <<rows, used>>
        \/ /\ used' = used \ S
           /\ rows' = [j \in 1 .. MaxRow |-> IF j \in S THEN Catalogue!NoRow ELSE rows[j]]
    BY <1>6 DEF Catalogue!RemoveDelete, Catalogue!Ids
  <2> HIDE DEF S
  <2>3. RowsInv'
    BY <1>types, <2>1, <2>2, DeleteOK, RowsStay
  <2> QED
    BY <2>1, <2>3, CatalogueEnds
<1>7. ASSUME UNCHANGED used, Catalogue!EnsureYearExists
      PROVE  RowsInv'
  <2>1. 1 \in 1 .. 4 /\ Catalogue!Root \in 0 .. MaxRow
    BY <1>types DEF Catalogue!Root
  <2> QED
    BY <1>7, <1>types, <2>1, InsertOK DEF Catalogue!EnsureYearExists
<1>8. ASSUME NEW r \in Clients, Catalogue!YearFindAll(r)
      PROVE  CatalogueInv'
  BY <1>7, <1>8, CatalogueEnds DEF Catalogue!YearFindAll
<1>9. ASSUME NEW r \in Clients, NEW level \in 1 .. 4, Catalogue!FindQuery(r, level)
      PROVE  CatalogueInv'
  <2>1. RowsInv'
    BY <1>9, <1>types, RowsStay DEF Catalogue!FindQuery
  <2> DEFINE q(p, names) ==
        [Catalogue!Idle EXCEPT !.at = "fill", !.level = level, !.parent = p, !.todo = names]
  <2>2. PICK p \in Catalogue!There, names \in SUBSET Names :
          Catalogue!End(r) \/ catalogueReq' = [catalogueReq EXCEPT ![r] = q(p, names)]
    BY <1>9 DEF Catalogue!FindQuery, Catalogue!Goes
  <2>3. q(p, names) \in CatalogueRequest
    <3>1. level \in 0 .. 4 /\ p \in 0 .. MaxRow
      BY <1>types
    <3> QED
      BY <3>1, CatalogueIdle, Zenon DEF CatalogueRequest
  <2> HIDE DEF q
  <2> QED
    BY <2>1, <2>2, <2>3, CatalogueEnds, CatalogueGoes
<1>10. ASSUME NEW r \in Clients, NEW level \in 1 .. 4, Catalogue!FindBackfill(r, level)
       PROVE  CatalogueInv'
  <2>1. /\ catalogueReq[r].parent \in 0 .. MaxRow /\ catalogueReq[r].todo \subseteq Names
        /\ catalogueReq[r] \in CatalogueRequest
    BY <1>types DEF CatalogueRequest
  <2> DEFINE q(name) == [catalogueReq[r] EXCEPT !.todo = @ \ {name}]
  <2>2. PICK name \in catalogueReq[r].todo :
          /\ Catalogue!Insert(level, catalogueReq[r].parent, name)
          /\ Catalogue!End(r) \/ catalogueReq' = [catalogueReq EXCEPT ![r] = q(name)]
    BY <1>10 DEF Catalogue!FindBackfill
  <2>3. q(name) \in CatalogueRequest
    BY <2>1 DEF CatalogueRequest
  <2>4. RowsInv'
    BY <1>10, <1>types, <2>1, <2>2, InsertOK DEF Catalogue!FindBackfill
  <2> HIDE DEF q
  <2> QED
    BY <2>2, <2>3, <2>4, CatalogueEnds, CatalogueGoes
<1>11. ASSUME Catalogue!HandleNewYearCron
       PROVE  CatalogueInv'
  BY <1>7, <1>11, <1>types DEF Catalogue!HandleNewYearCron, CatalogueInv
<1>12. ASSUME Catalogue!SeedVehicleHierarchy
       PROVE  CatalogueInv'
  <2>1. PICK level \in 2 .. 4, p \in Catalogue!There, name \in Names :
          Catalogue!Insert(level, p, name)
    BY <1>12 DEF Catalogue!SeedVehicleHierarchy
  <2>2. level \in 1 .. 4 /\ p \in 0 .. MaxRow
    BY <1>types
  <2> QED
    BY <1>12, <1>types, <2>1, <2>2, InsertOK DEF Catalogue!SeedVehicleHierarchy, CatalogueInv
<1>13. ASSUME NEW i \in 1 .. MaxRow, Catalogue!UseRow(i)
       PROVE  CatalogueInv'
  <2>1. used' \subseteq Catalogue!There
    BY <1>13, <1>types DEF Catalogue!UseRow, RowsInv, Catalogue!UsedRowsStay
  <2> QED
    BY <1>13, <1>types, <2>1 DEF Catalogue!UseRow, CatalogueInv, RowsInv, Catalogue!UsedRowsStay,
       Catalogue!NoDuplicates, Catalogue!There
<1> DEFINE acts(r, level) ==
      \/ Catalogue!Create(r, level) \/ Catalogue!Update(r, level)
      \/ Catalogue!Remove(r, level) \/ Catalogue!FindAll(r, level)
<1>14. \/ \E r \in Clients, level \in 1 .. 4 : acts(r, level)
       \/ \E r \in Clients : Catalogue!YearFindAll(r)
       \/ Catalogue!HandleNewYearCron \/ Catalogue!SeedVehicleHierarchy
       \/ \E i \in 1 .. MaxRow : Catalogue!UseRow(i)
  <2>1. 1 \in 1 .. 4 /\ 2 \in 1 .. 4 /\ 3 \in 1 .. 4 /\ 4 \in 1 .. 4
    OBVIOUS
  <2> QED
    BY <2>1, Zenon DEF Catalogue!Next, Catalogue!YearCreate, Catalogue!MakeCreate,
       Catalogue!ModelCreate, Catalogue!TrimCreate, Catalogue!YearUpdate, Catalogue!MakeUpdate,
       Catalogue!ModelUpdate, Catalogue!TrimUpdate, Catalogue!YearRemove, Catalogue!MakeRemove,
       Catalogue!ModelRemove, Catalogue!TrimRemove, Catalogue!MakeFindAll,
       Catalogue!ModelFindAll, Catalogue!TrimFindAll, Catalogue!Ids
<1>15. ASSUME NEW r \in Clients, NEW level \in 1 .. 4, acts(r, level)
       PROVE  CatalogueInv'
  BY <1>1, <1>2, <1>3, <1>4, <1>5, <1>6, <1>9, <1>10, <1>15
     DEF Catalogue!Create, Catalogue!Update, Catalogue!Remove, Catalogue!FindAll
<1> HIDE DEF acts
<1> QED
  BY <1>8, <1>11, <1>12, <1>13, <1>14, <1>15

-----------------------------------------------------------------------------
\* Of finitely many numbers one is the greatest: the distance to the bound is least.
LEMMA Greatest ==
  ASSUME NEW N \in Nat, NEW S, S \subseteq 0 .. N, S # {}
  PROVE  \E k \in S : \A j \in S : j <= k
<1> DEFINE D == {N - k : k \in S}
<1>1. \A k \in S : k \in Nat /\ k <= N /\ N - k \in Nat
  OBVIOUS
<1>2. D \subseteq Nat /\ D # {}
  BY <1>1
<1>3. PICK d \in D : \A e \in D : ~ (<<e, d>> \in OpToRel(<, Nat))
  <2> HIDE DEF D
  <2> QED
    BY <1>2, NatLessThanWellFounded, WFMin
<1>4. \A e \in D : ~ (e < d)
  <2>1. \A e \in D : e < d => <<e, d>> \in OpToRel(<, Nat)
    BY <1>2 DEF OpToRel
  <2> QED
    BY <1>3, <2>1
<1>5. PICK k \in S : d = N - k
  OBVIOUS
<1>6. \A j \in S : j <= k
  <2> TAKE j \in S
  <2>1. N - j \in D
    OBVIOUS
  <2>2. ~ (N - j < N - k)
    BY <1>4, <1>5, <2>1
  <2> QED
    BY <1>1, <2>2
<1> QED
  BY <1>6

(* Vehicles, titles and metas *)

VehicleRow == [tenant : Tenants \cup {"none"}, vin : Vins \cup {"none"}, stock : 0 .. MaxStock,
               old : Prices \cup {"null"}, new : Prices \cup {"null"}]
VehicleRequest ==
  [at : {"idle", "insert", "metas", "update", "unmeta", "delete", "title", "retitle"},
   id : 0 .. MaxVehicle, tenant : Tenants \cup {"none"}, vin : Vins \cup {"none"},
   stock : 0 .. MaxStock, metas : BOOLEAN]

\* No vehicle has an id that was not given yet.
VehiclesInv ==
  /\ vehicle \in [1 .. MaxVehicle -> VehicleRow] /\ lastVehicle \in 0 .. MaxVehicle
  /\ deals \subseteq 1 .. MaxVehicle /\ split \subseteq 1 .. MaxVehicle
  /\ \A i \in 1 .. MaxVehicle : i > lastVehicle => vehicle[i].tenant = "none"
  /\ Registry!PricesAgree /\ Registry!NoOrphanTitles

\* Requests that are about to create a title for vehicle i, which had none: together with
\* the titles it has by now they are no more than the requests there are.
Titling(i) == {r \in Clients : vehicleReq[r].at = "title" /\ vehicleReq[r].id = i}
TitlesInv ==
  /\ titles \in [1 .. MaxVehicle -> Nat]
  /\ \A i \in 1 .. MaxVehicle : titles[i] + Cardinality(Titling(i)) <= Cardinality(Clients)

MetasInv    == metas \subseteq [of : 1 .. MaxVehicle, live : BOOLEAN]
NamesVehicle(q) == q.at \notin {"idle", "insert"} => q.id # 0
RequestsInv ==
  /\ vehicleReq \in [Clients -> VehicleRequest]
  /\ \A r \in Clients : NamesVehicle(vehicleReq[r])
RegistryInv == VehiclesInv /\ TitlesInv /\ MetasInv /\ RequestsInv

LEMMA RegistrySizes ==
  \A S : /\ Registry!IsFiniteSet(S) <=> IsFiniteSet(S)
         /\ Registry!Cardinality(S) = Cardinality(S)
BY DEF Registry!IsFiniteSet, IsFiniteSet, Registry!Cardinality, Cardinality

LEMMA TitlingFinite ==
  ASSUME NEW i PROVE IsFiniteSet(Titling(i)) /\ Cardinality(Titling(i)) \in Nat
                     /\ IsFiniteSet(Clients) /\ Cardinality(Clients) \in Nat
<1>1. IsFiniteSet(Clients) /\ Titling(i) \in SUBSET Clients
  BY BoundsAssumption, RegistrySizes DEF Registry!Bounds, Titling
<1> HIDE DEF Titling
<1>2. IsFiniteSet(Titling(i))
  BY <1>1, FS_Subset
<1> QED
  BY <1>1, <1>2, FS_CardinalityType

LEMMA RegistryTypes == RegistryInv => Registry!TypeOK
<1> SUFFICES ASSUME RegistryInv PROVE Registry!TypeOK
  OBVIOUS
<1>1. ASSUME NEW i \in 1 .. MaxVehicle PROVE titles[i] \in 0 .. Cardinality(Clients)
  BY TitlingFinite DEF RegistryInv, TitlesInv
<1>2. titles \in [1 .. MaxVehicle -> 0 .. Registry!Cardinality(Clients)]
  BY <1>1, RegistrySizes DEF RegistryInv, TitlesInv
<1>3. /\ vehicle \in [Registry!Ids -> VehicleRow] /\ lastVehicle \in 0 .. MaxVehicle
      /\ metas \subseteq [of : Registry!Ids, live : BOOLEAN]
      /\ deals \subseteq Registry!Ids /\ split \subseteq Registry!Ids
  BY DEF RegistryInv, VehiclesInv, MetasInv, Registry!Ids
<1> QED
  BY <1>2, <1>3, Zenon DEF Registry!TypeOK, Registry!Ids, VehicleRow, Registry!Null

LEMMA RegistryInit == Registry!Init => RegistryInv
<1> SUFFICES ASSUME Registry!Init PROVE RegistryInv
  OBVIOUS
<1>1. MaxVehicle \in Nat /\ MaxStock \in Nat
  BY BoundsAssumption DEF Registry!Bounds
<1>2. VehiclesInv
  BY <1>1 DEF Registry!Init, VehiclesInv, VehicleRow, Registry!NoVehicle, Registry!Null,
     Registry!PricesAgree, Registry!NoOrphanTitles, Registry!There, Registry!Ids
<1>3. RequestsInv
  BY <1>1 DEF Registry!Init, RequestsInv, VehicleRequest, NamesVehicle, Registry!Idle
<1>4. TitlesInv
  <2>1. \A i : Titling(i) = {}
    BY DEF Registry!Init, Registry!Idle, Titling
  <2>2. titles = [i \in 1 .. MaxVehicle |-> 0]
    BY DEF Registry!Init, Registry!Ids
  <2> QED
    BY <2>1, <2>2, FS_EmptySet, TitlingFinite DEF TitlesInv
<1> QED
  BY <1>2, <1>3, <1>4 DEF RegistryInv, MetasInv, Registry!Init

\* The requests: one goes on.
LEMMA RegistryGoes ==
  ASSUME RegistryInv, VehiclesInv', MetasInv', NEW r \in Clients, NEW q \in VehicleRequest,
         NamesVehicle(q), q.at # "title",
         titles' \in [1 .. MaxVehicle -> Nat], \A i \in 1 .. MaxVehicle : titles'[i] <= titles[i],
         vehicleReq' = [vehicleReq EXCEPT ![r] = q]
  PROVE  RegistryInv'
<1>1. RequestsInv'
  BY DEF RegistryInv, RequestsInv
<1>2. ASSUME NEW i \in 1 .. MaxVehicle
      PROVE  titles'[i] + Cardinality(Titling(i)') <= Cardinality(Clients)
  <2>1. Titling(i)' \in SUBSET Titling(i)
    BY DEF RegistryInv, RequestsInv, Titling
  <2> HIDE DEF Titling
  <2>2. Cardinality(Titling(i)') <= Cardinality(Titling(i)) /\ IsFiniteSet(Titling(i)')
    BY <2>1, TitlingFinite, FS_Subset
  <2>3. Cardinality(Titling(i)') \in Nat
    BY <2>2, FS_CardinalityType
  <2>4. titles'[i] <= titles[i] /\ titles[i] \in Nat /\ titles'[i] \in Nat
    BY DEF RegistryInv, TitlesInv
  <2> QED
    BY <2>2, <2>3, <2>4, TitlingFinite DEF RegistryInv, TitlesInv
<1> QED
  BY <1>1, <1>2 DEF RegistryInv, TitlesInv

LEMMA VehicleIdle ==
  Registry!Idle \in VehicleRequest /\ NamesVehicle(Registry!Idle) /\ Registry!Idle.at = "idle"
BY BoundsAssumption DEF Registry!Bounds, Registry!Idle, VehicleRequest, NamesVehicle

LEMMA RegistryEnds ==
  ASSUME RegistryInv, VehiclesInv', MetasInv', NEW r \in Clients, Registry!End(r),
         titles' \in [1 .. MaxVehicle -> Nat], \A i \in 1 .. MaxVehicle : titles'[i] <= titles[i]
  PROVE  RegistryInv'
BY VehicleIdle, RegistryGoes DEF Registry!End

LEMMA TitlesSame ==
  ASSUME RegistryInv, titles' = titles
  PROVE  /\ titles' \in [1 .. MaxVehicle -> Nat]
         /\ \A i \in 1 .. MaxVehicle : titles'[i] <= titles[i]
BY DEF RegistryInv, TitlesInv

LEMMA VehiclesStay ==
  ASSUME VehiclesInv, UNCHANGED <<vehicle, lastVehicle, titles, deals, split>>
  PROVE  VehiclesInv'
BY DEF VehiclesInv, Registry!PricesAgree, Registry!NoOrphanTitles, Registry!There

LEMMA MetasStay == ASSUME MetasInv, UNCHANGED metas PROVE MetasInv'
BY DEF MetasInv

LEMMA VehicleInserted ==
  ASSUME VehiclesInv, lastVehicle < MaxVehicle, lastVehicle' = lastVehicle + 1,
         NEW row \in VehicleRow, lastVehicle + 1 \in split' \/ row.old = row.new,
         split' \subseteq split \cup {lastVehicle + 1}, split \subseteq split',
         vehicle' = [vehicle EXCEPT ![lastVehicle + 1] = row], UNCHANGED <<titles, deals>>
  PROVE  VehiclesInv'
<1>0. MaxVehicle \in Nat /\ lastVehicle \in Nat
  BY BoundsAssumption DEF Registry!Bounds, VehiclesInv
<1>1. PICK id : id = lastVehicle + 1
  OBVIOUS
<1>2. id \in 1 .. MaxVehicle /\ id > lastVehicle
  BY <1>0, <1>1
<1>3. \A i \in 1 .. MaxVehicle : vehicle'[i] = IF i = id THEN row ELSE vehicle[i]
  BY <1>1 DEF VehiclesInv
<1>4. vehicle[id].tenant = "none" /\ id \notin Registry!There /\ titles[id] = 0
  BY <1>2 DEF VehiclesInv, Registry!NoOrphanTitles, Registry!There, Registry!Ids
<1>5. Registry!There \subseteq Registry!There' /\ Registry!There' \subseteq Registry!There \cup {id}
  BY <1>3, <1>4 DEF Registry!There, Registry!Ids
<1>6. Registry!NoOrphanTitles'
  BY <1>4, <1>5 DEF VehiclesInv, Registry!NoOrphanTitles
<1>7. Registry!PricesAgree'
  <2> SUFFICES ASSUME NEW i \in (Registry!There \ split)' PROVE vehicle'[i].old = vehicle'[i].new
    BY DEF Registry!PricesAgree
  <2>1. i \in 1 .. MaxVehicle
    BY DEF Registry!There, Registry!Ids
  <2>2. i # id => i \in Registry!There \ split
    BY <1>5
  <2> QED
    BY <1>1, <1>3, <2>1, <2>2 DEF VehiclesInv, Registry!PricesAgree
<1>8. \A i \in 1 .. MaxVehicle : i > lastVehicle' => vehicle'[i].tenant = "none"
  BY <1>0, <1>1, <1>2, <1>3 DEF VehiclesInv
<1>9. lastVehicle' \in 0 .. MaxVehicle /\ split' \subseteq 1 .. MaxVehicle
  BY <1>0, <1>1, <1>2 DEF VehiclesInv
<1> QED
  BY <1>1, <1>2, <1>6, <1>7, <1>8, <1>9 DEF VehiclesInv

LEMMA VehicleUpdated ==
  ASSUME VehiclesInv, NEW i \in Registry!There, NEW row \in VehicleRow,
         row.tenant = vehicle[i].tenant, i \in split' \/ row.old = row.new,
         split' \subseteq split \cup {i}, split \subseteq split' \cup {i},
         vehicle' = [vehicle EXCEPT ![i] = row], UNCHANGED <<lastVehicle, titles, deals>>
  PROVE  VehiclesInv'
<1>1. i \in 1 .. MaxVehicle
  BY DEF Registry!There, Registry!Ids
<1>2. \A j \in 1 .. MaxVehicle : vehicle'[j] = IF j = i THEN row ELSE vehicle[j]
  BY DEF VehiclesInv
<1>3. Registry!There' = Registry!There
  BY <1>1, <1>2 DEF Registry!There, Registry!Ids
<1>4. Registry!NoOrphanTitles'
  BY <1>3 DEF VehiclesInv, Registry!NoOrphanTitles
<1>5. Registry!PricesAgree'
  <2> SUFFICES ASSUME NEW j \in (Registry!There \ split)' PROVE vehicle'[j].old = vehicle'[j].new
    BY DEF Registry!PricesAgree
  <2>1. j \in 1 .. MaxVehicle
    BY DEF Registry!There, Registry!Ids
  <2>2. j # i => j \in Registry!There \ split
    BY <1>3
  <2> QED
    BY <1>2, <2>1, <2>2 DEF VehiclesInv, Registry!PricesAgree
<1>6. \A j \in 1 .. MaxVehicle : j > lastVehicle => vehicle'[j].tenant = "none"
  BY <1>1, <1>2 DEF VehiclesInv
<1> QED
  BY <1>1, <1>4, <1>5, <1>6 DEF VehiclesInv

LEMMA VehicleDeleted ==
  ASSUME VehiclesInv, NEW i \in Registry!There,
         vehicle' = [vehicle EXCEPT ![i] = Registry!NoVehicle], titles' = [titles EXCEPT ![i] = 0],
         titles \in [1 .. MaxVehicle -> Nat],
         split' = split \ {i}, UNCHANGED <<lastVehicle, deals>>
  PROVE  VehiclesInv'
<1>1. i \in 1 .. MaxVehicle
  BY DEF Registry!There, Registry!Ids
<1>2. Registry!NoVehicle \in VehicleRow /\ Registry!NoVehicle.tenant = "none"
  BY BoundsAssumption DEF Registry!Bounds, Registry!NoVehicle, VehicleRow, Registry!Null
<1>3. \A j \in 1 .. MaxVehicle : vehicle'[j] = IF j = i THEN Registry!NoVehicle ELSE vehicle[j]
  BY DEF VehiclesInv
<1>4. Registry!There' = Registry!There \ {i}
  BY <1>1, <1>2, <1>3 DEF Registry!There, Registry!Ids
<1>5. Registry!NoOrphanTitles'
  BY <1>4 DEF VehiclesInv, Registry!NoOrphanTitles, Registry!Ids
<1>6. Registry!PricesAgree'
  BY <1>3, <1>4 DEF VehiclesInv, Registry!PricesAgree, Registry!There, Registry!Ids
<1>7. \A j \in 1 .. MaxVehicle : j > lastVehicle => vehicle'[j].tenant = "none"
  BY <1>2, <1>3 DEF VehiclesInv
<1> QED
  BY <1>1, <1>2, <1>5, <1>6, <1>7 DEF VehiclesInv

LEMMA GenerateStockNumberType ==
  ASSUME VehiclesInv
  PROVE  Registry!GenerateStockNumber \in Nat
<1> DEFINE S == {vehicle[i].stock : i \in Registry!There}
<1>1. MaxStock \in Nat
  BY BoundsAssumption DEF Registry!Bounds
<1>2. S \subseteq 0 .. MaxStock
  BY DEF VehiclesInv, VehicleRow, Registry!There, Registry!Ids
<1>3. Registry!GenerateStockNumber = Registry!MaxStockOf(S) + 1
  BY DEF Registry!GenerateStockNumber
<1> HIDE DEF S
<1>4. Registry!MaxStockOf(S) \in Nat
  <2>1. S # {} => \E n \in S : \A k \in S : k <= n
    BY <1>1, <1>2, Greatest
  <2>2. S # {} => Registry!MaxStockOf(S) \in S
    BY <2>1 DEF Registry!MaxStockOf
  <2>3. S = {} => Registry!MaxStockOf(S) = 0
    BY DEF Registry!MaxStockOf
  <2>4. S # {} => Registry!MaxStockOf(S) \in 0 .. MaxStock
    BY <1>2, <2>2
  <2>5. 0 \in Nat /\ 0 .. MaxStock \subseteq Nat
    BY <1>1
  <2> HIDE DEF S
  <2> QED
    BY <2>3, <2>4, <2>5
<1> QED
  BY <1>3, <1>4

LEMMA RegistryStep ==
  ASSUME RegistryInv, Registry!Next
  PROVE  RegistryInv'
<1>types. /\ VehiclesInv /\ MetasInv /\ MaxVehicle \in Nat /\ MaxStock \in Nat
          /\ vehicle \in [1 .. MaxVehicle -> VehicleRow] /\ lastVehicle \in 0 .. MaxVehicle
          /\ titles \in [1 .. MaxVehicle -> Nat]
          /\ vehicleReq \in [Clients -> VehicleRequest]
          /\ Registry!There \subseteq 1 .. MaxVehicle
  BY BoundsAssumption
     DEF RegistryInv, VehiclesInv, TitlesInv, RequestsInv, Registry!Bounds, Registry!There, Registry!Ids
<1>stay. ASSUME UNCHANGED <<vehicle, lastVehicle, metas, titles, deals, split>>
         PROVE  /\ VehiclesInv' /\ MetasInv' /\ titles' \in [1 .. MaxVehicle -> Nat]
                /\ \A i \in 1 .. MaxVehicle : titles'[i] <= titles[i]
  BY <1>stay, <1>types, VehiclesStay, MetasStay, TitlesSame
\* The requests that name a vehicle of theirs.
<1>named. ASSUME NEW r \in Clients, vehicleReq[r].at \notin {"idle", "insert"}
          PROVE  vehicleReq[r].id \in 1 .. MaxVehicle
  BY <1>named, <1>types DEF RegistryInv, RequestsInv, NamesVehicle, VehicleRequest
<1> DEFINE for(at, i) == [Registry!Idle EXCEPT !.at = at, !.id = i]
<1>for. ASSUME NEW i \in 1 .. MaxVehicle, NEW at \in {"metas", "unmeta", "title", "retitle"}
        PROVE  /\ for(at, i) \in VehicleRequest /\ NamesVehicle(for(at, i))
               /\ for(at, i).at = at /\ for(at, i).id = i
  <2>1. i \in 0 .. MaxVehicle /\ i # 0
    BY <1>types
  <2>2. /\ for(at, i) \in VehicleRequest /\ for(at, i).at = at /\ for(at, i).id = i
    BY <2>1, VehicleIdle, Zenon DEF VehicleRequest
  <2> QED
    BY <2>1, <2>2 DEF NamesVehicle
<1> HIDE DEF for
<1>1. ASSUME NEW r \in Clients, Registry!CreateCheck(r)
      PROVE  RegistryInv'
  <2> DEFINE q(t, v, n, m) ==
        [Registry!Idle EXCEPT !.at = "insert", !.tenant = t, !.vin = v, !.stock = n, !.metas = m]
  <2>1. PICK t \in Tenants, v \in Vins, given \in 0 .. MaxStock, m \in BOOLEAN :
          IF \E i \in Registry!There : vehicle[i].tenant = t /\
                (vehicle[i].vin = v \/ (given # 0 /\ vehicle[i].stock = given))
          THEN Registry!End(r)
          ELSE LET n == IF given = 0 THEN Registry!GenerateStockNumber ELSE given IN
               n <= MaxStock /\ vehicleReq' = [vehicleReq EXCEPT ![r] = q(t, v, n, m)]
    BY <1>1, Zenon DEF Registry!CreateCheck
  <2> DEFINE n == IF given = 0 THEN Registry!GenerateStockNumber ELSE given
  <2>2. n \in Nat
    BY <1>types, GenerateStockNumberType
  <2>3. n <= MaxStock => n \in 0 .. MaxStock
    BY <1>types, <2>2
  <2>4. ASSUME n \in 0 .. MaxStock
        PROVE  q(t, v, n, m) \in VehicleRequest /\ q(t, v, n, m).at = "insert"
    <3> HIDE DEF n
    <3> QED
      BY <2>4, VehicleIdle, Zenon DEF VehicleRequest
  <2>5. UNCHANGED <<vehicle, lastVehicle, metas, titles, deals, split>>
    BY <1>1 DEF Registry!CreateCheck
  <2>6. Registry!End(r) \/ (n <= MaxStock /\ vehicleReq' = [vehicleReq EXCEPT ![r] = q(t, v, n, m)])
    BY <2>1
  <2> HIDE DEF q, n
  <2>7. CASE Registry!End(r)
    BY <2>5, <2>7, <1>stay, RegistryEnds
  <2>8. CASE n <= MaxStock /\ vehicleReq' = [vehicleReq EXCEPT ![r] = q(t, v, n, m)]
    <3>1. NamesVehicle(q(t, v, n, m)) /\ q(t, v, n, m).at # "title" /\ q(t, v, n, m) \in VehicleRequest
      BY <2>3, <2>4, <2>8 DEF NamesVehicle
    <3> QED
      BY <2>5, <2>8, <3>1, <1>stay, RegistryGoes
  <2> QED
    BY <2>6, <2>7, <2>8
<1>2. ASSUME NEW r \in Clients, Registry!ValidateRelatedEntities(r)
      PROVE  RegistryInv'
  BY <1>2, <1>stay, RegistryEnds DEF Registry!ValidateRelatedEntities
<1>3. ASSUME NEW r \in Clients, Registry!CreateInsert(r)
      PROVE  RegistryInv'
  <2>1. /\ UNCHANGED <<metas, titles, deals>> /\ vehicleReq[r] \in VehicleRequest
    BY <1>3, <1>types DEF Registry!CreateInsert
  <2>2. CASE Registry!End(r) /\ UNCHANGED <<vehicle, lastVehicle, split>>
    BY <2>1, <2>2, <1>stay, RegistryEnds
  <2> DEFINE stored(p) == IF p = "undefined" THEN "null" ELSE p
             o(old, new) == stored(IF old = "undefined" THEN new ELSE old)
             n(old, new) == stored(IF new = "undefined" THEN old ELSE new)
             row(old, new) == [tenant |-> vehicleReq[r].tenant, vin |-> vehicleReq[r].vin,
               stock |-> vehicleReq[r].stock, old |-> o(old, new), new |-> n(old, new)]
             id == lastVehicle + 1
  <2>3. ASSUME NEW old \in Prices \cup {"null", "undefined"},
               NEW new \in Prices \cup {"null", "undefined"},
               lastVehicle < MaxVehicle, lastVehicle' = id,
               vehicle' = [vehicle EXCEPT ![id] = row(old, new)],
               split' = IF "undefined" \notin {old, new} /\ old # new THEN split \cup {id} ELSE split,
               Registry!End(r) \/ vehicleReq' = [vehicleReq EXCEPT ![r] = for("metas", id)]
        PROVE  RegistryInv'
    <3>1. o(old, new) \in Prices \cup {"null"} /\ n(old, new) \in Prices \cup {"null"}
      OBVIOUS
    <3>2. row(old, new) \in VehicleRow /\ row(old, new).old = o(old, new) /\ row(old, new).new = n(old, new)
      <4> HIDE DEF o, n
      <4> QED
        BY <2>1, <3>1 DEF VehicleRow, VehicleRequest
    <3>3. id \in split' \/ o(old, new) = n(old, new)
      BY <2>3
    <3>4. split' \subseteq split \cup {id} /\ split \subseteq split'
      BY <2>3
    <3>5. id \in 1 .. MaxVehicle
      BY <2>3, <1>types
    <3> HIDE DEF row, o, n
    <3>6. VehiclesInv'
      BY <1>types, <2>1, <2>3, <3>2, <3>3, <3>4, VehicleInserted
    <3>7. MetasInv' /\ titles' \in [1 .. MaxVehicle -> Nat] /\ \A i \in 1 .. MaxVehicle : titles'[i] <= titles[i]
      BY <1>types, <2>1, MetasStay, TitlesSame
    <3>8. for("metas", id) \in VehicleRequest /\ NamesVehicle(for("metas", id)) /\ for("metas", id).at # "title"
      BY <3>5, <1>for
    <3> QED
      BY <2>3, <3>6, <3>7, <3>8, RegistryEnds, RegistryGoes
  <2>4. \/ Registry!End(r) /\ UNCHANGED <<vehicle, lastVehicle, split>>
        \/ \E old \in Prices \cup {"null", "undefined"}, new \in Prices \cup {"null", "undefined"} :
             /\ lastVehicle < MaxVehicle /\ lastVehicle' = id
             /\ vehicle' = [vehicle EXCEPT ![id] = row(old, new)]
             /\ split' = IF "undefined" \notin {old, new} /\ old # new THEN split \cup {id} ELSE split
             /\ Registry!End(r) \/ vehicleReq' = [vehicleReq EXCEPT ![r] = for("metas", id)]
    BY <1>3 DEF Registry!CreateInsert, Registry!Given, Registry!SyncPricingFields,
       Registry!Undefined, Registry!Null, for
  <2> HIDE DEF row, o, n, id, stored
  <2> QED
    BY <2>2, <2>3, <2>4
<1>4. ASSUME NEW r \in Clients, Registry!BulkCreate(r)
      PROVE  RegistryInv'
  <2>1. vehicleReq[r].id \in 1 .. MaxVehicle
    BY <1>4, <1>named DEF Registry!BulkCreate
  <2>2. MetasInv'
    <3>1. [of |-> vehicleReq[r].id, live |-> TRUE] \in [of : 1 .. MaxVehicle, live : BOOLEAN]
      BY <2>1
    <3> QED
      BY <1>4, <1>types, <3>1, Zenon DEF Registry!BulkCreate, MetasInv
  <2> QED
    BY <1>4, <1>types, <2>2, VehiclesStay, TitlesSame, RegistryEnds DEF Registry!BulkCreate
<1>5. ASSUME NEW r \in Clients, Registry!UpdateCheck(r)
      PROVE  RegistryInv'
  <2> DEFINE q(i, v) == [Registry!Idle EXCEPT !.at = "update", !.id = i, !.vin = v]
  <2>1. PICK i \in Registry!There, v \in Vins :
          Registry!End(r) \/ vehicleReq' = [vehicleReq EXCEPT ![r] = q(i, v)]
    BY <1>5 DEF Registry!UpdateCheck
  <2>2. i \in 0 .. MaxVehicle /\ i # 0
    BY <1>types
  <2>3. q(i, v) \in VehicleRequest /\ q(i, v).at = "update" /\ q(i, v).id = i
    BY <2>2, VehicleIdle, Zenon DEF VehicleRequest
  <2> HIDE DEF q
  <2>4. NamesVehicle(q(i, v)) /\ q(i, v).at # "title"
    BY <2>2, <2>3 DEF NamesVehicle
  <2> QED
    BY <1>5, <1>stay, <2>1, <2>3, <2>4, RegistryEnds, RegistryGoes DEF Registry!UpdateCheck
<1>6. ASSUME NEW r \in Clients, Registry!UpdateWrite(r)
      PROVE  RegistryInv'
  <2> DEFINE i == vehicleReq[r].id
             kept(p, before) == IF p = "undefined" THEN before ELSE p
             o(old, new) == kept(IF old = "undefined" THEN new ELSE old, vehicle[i].old)
             n(old, new) == kept(IF new = "undefined" THEN old ELSE new, vehicle[i].new)
             row(old, new) == [tenant |-> vehicle[i].tenant, vin |-> vehicleReq[r].vin,
               stock |-> vehicle[i].stock, old |-> o(old, new), new |-> n(old, new)]
  <2>1. /\ UNCHANGED <<lastVehicle, metas, titles, deals>> /\ Registry!End(r)
        /\ vehicleReq[r] \in VehicleRequest /\ i \in 1 .. MaxVehicle
    BY <1>6, <1>types, <1>named DEF Registry!UpdateWrite
  <2>2. CASE UNCHANGED <<vehicle, split>>
    BY <2>1, <2>2, <1>stay, RegistryEnds
  <2>3. ASSUME NEW old \in Prices \cup {"null", "undefined"},
               NEW new \in Prices \cup {"null", "undefined"}, i \in Registry!There,
               vehicle' = [vehicle EXCEPT ![i] = row(old, new)],
               split' = IF old = new /\ old = "undefined" THEN split
                        ELSE IF "undefined" \notin {old, new} /\ old # new THEN split \cup {i}
                        ELSE split \ {i}
        PROVE  RegistryInv'
    <3>0. /\ vehicle[i] \in VehicleRow
          /\ vehicle[i].old \in Prices \cup {"null"} /\ vehicle[i].new \in Prices \cup {"null"}
      BY <2>1, <1>types DEF VehicleRow
    <3>1. o(old, new) \in Prices \cup {"null"} /\ n(old, new) \in Prices \cup {"null"}
      BY <3>0
    <3>2. /\ row(old, new) \in VehicleRow /\ row(old, new).tenant = vehicle[i].tenant
          /\ row(old, new).old = o(old, new) /\ row(old, new).new = n(old, new)
      <4> HIDE DEF o, n, i
      <4> QED
        BY <2>1, <3>0, <3>1 DEF VehicleRow, VehicleRequest
    <3>3. i \in split' \/ o(old, new) = n(old, new)
      BY <2>3, <1>types DEF VehiclesInv, Registry!PricesAgree
    <3>4. split' \subseteq split \cup {i} /\ split \subseteq split' \cup {i}
      BY <2>3
    <3> HIDE DEF row, o, n, i
    <3>6. VehiclesInv'
      BY <1>types, <2>1, <2>3, <3>2, <3>3, <3>4, VehicleUpdated
    <3>7. MetasInv' /\ titles' \in [1 .. MaxVehicle -> Nat] /\ \A j \in 1 .. MaxVehicle : titles'[j] <= titles[j]
      BY <1>types, <2>1, MetasStay, TitlesSame
    <3> QED
      BY <2>1, <3>6, <3>7, RegistryEnds
  <2>4. \/ UNCHANGED <<vehicle, split>>
        \/ \E old \in Prices \cup {"null", "undefined"}, new \in Prices \cup {"null", "undefined"} :
             /\ i \in Registry!There
             /\ vehicle' = [vehicle EXCEPT ![i] = row(old, new)]
             /\ split' = IF old = new /\ old = "undefined" THEN split
                         ELSE IF "undefined" \notin {old, new} /\ old # new THEN split \cup {i}
                         ELSE split \ {i}
    BY <1>6 DEF Registry!UpdateWrite, Registry!Given, Registry!SyncPricingFields,
       Registry!Undefined, Registry!Null
  <2> QED
    BY <2>2, <2>3, <2>4
<1>7. ASSUME NEW r \in Clients, Registry!RemoveCheck(r)
      PROVE  RegistryInv'
  <2>1. PICK i \in Registry!There : vehicleReq' = [vehicleReq EXCEPT ![r] = for("unmeta", i)]
    BY <1>7 DEF Registry!RemoveCheck, for
  <2>2. for("unmeta", i) \in VehicleRequest /\ NamesVehicle(for("unmeta", i)) /\ for("unmeta", i).at # "title"
    BY <1>types, <1>for
  <2> QED
    BY <1>7, <1>stay, <2>1, <2>2, RegistryGoes DEF Registry!RemoveCheck
<1>8. ASSUME NEW r \in Clients, Registry!RemoveMetas(r)
      PROVE  RegistryInv'
  <2> DEFINE q == [vehicleReq[r] EXCEPT !.at = "delete"]
  <2>1. vehicleReq' = [vehicleReq EXCEPT ![r] = q] /\ vehicleReq[r].id # 0
    BY <1>8, <1>named DEF Registry!RemoveMetas
  <2>2. q \in VehicleRequest /\ NamesVehicle(q) /\ q.at # "title"
    BY <1>types, <2>1 DEF VehicleRequest, NamesVehicle
  <2> HIDE DEF q
  <2>3. MetasInv'
    BY <1>8, <1>types DEF Registry!RemoveMetas, MetasInv
  <2> QED
    BY <1>8, <1>types, <2>1, <2>2, <2>3, VehiclesStay, TitlesSame, RegistryGoes DEF Registry!RemoveMetas
<1>9. ASSUME NEW r \in Clients, Registry!RemoveDelete(r)
      PROVE  RegistryInv'
  <2> DEFINE i == vehicleReq[r].id
  <2>1. Registry!End(r) /\ UNCHANGED <<lastVehicle, metas, deals>>
    BY <1>9 DEF Registry!RemoveDelete
  <2>2. CASE UNCHANGED <<vehicle, titles, split>>
    BY <2>1, <2>2, <1>stay, RegistryEnds
  <2>3. CASE /\ i \in Registry!There /\ vehicle' = [vehicle EXCEPT ![i] = Registry!NoVehicle]
             /\ titles' = [titles EXCEPT ![i] = 0] /\ split' = split \ {i}
    <3>1. VehiclesInv'
      BY <1>types, <2>1, <2>3, VehicleDeleted
    <3>2. titles' \in [1 .. MaxVehicle -> Nat] /\ \A j \in 1 .. MaxVehicle : titles'[j] <= titles[j]
      <4> HIDE DEF i
      <4>1. titles' \in [1 .. MaxVehicle -> Nat]
        BY <1>types, <2>3
      <4>2. ASSUME NEW j \in 1 .. MaxVehicle PROVE titles'[j] <= titles[j]
        <5>1. titles[j] \in Nat /\ (titles'[j] = 0 \/ titles'[j] = titles[j])
          BY <1>types, <2>3
        <5> QED
          BY <5>1
      <4> QED
        BY <4>1, <4>2
    <3> QED
      BY <1>types, <2>1, <3>1, <3>2, MetasStay, RegistryEnds
  <2> QED
    BY <1>9, <2>2, <2>3 DEF Registry!RemoveDelete
<1>10. ASSUME NEW r \in Clients, Registry!TitleFind(r)
       PROVE  RegistryInv'
  <2>1. PICK i \in Registry!There : vehicleReq' =
          [vehicleReq EXCEPT ![r] = IF titles[i] = 0 THEN for("title", i) ELSE for("retitle", i)]
    BY <1>10 DEF Registry!TitleFind, for
  <2>2. i \in 1 .. MaxVehicle
    BY <1>types
  <2>3. UNCHANGED <<vehicle, lastVehicle, metas, titles, deals, split>>
    BY <1>10 DEF Registry!TitleFind
  <2>4. CASE titles[i] # 0
    <3>1. for("retitle", i) \in VehicleRequest /\ NamesVehicle(for("retitle", i)) /\ for("retitle", i).at # "title"
      BY <2>2, <1>for
    <3> QED
      BY <1>stay, <2>1, <2>3, <2>4, <3>1, RegistryGoes
  <2>5. CASE titles[i] = 0
    <3>1. /\ for("title", i) \in VehicleRequest /\ NamesVehicle(for("title", i))
          /\ for("title", i).at = "title" /\ for("title", i).id = i
      BY <2>2, <1>for
    <3>2. vehicleReq' = [vehicleReq EXCEPT ![r] = for("title", i)]
      BY <2>1, <2>5
    <3>3. RequestsInv'
      BY <3>1, <3>2 DEF RegistryInv, RequestsInv
    <3>4. ASSUME NEW j \in 1 .. MaxVehicle
          PROVE  titles[j] + Cardinality(Titling(j)') <= Cardinality(Clients)
      <4>1. CASE j = i
        <5>1. Titling(i)' \in SUBSET Clients
          BY DEF Titling
        <5>2. Cardinality(Titling(i)') <= Cardinality(Clients) /\ IsFiniteSet(Titling(i)')
          BY <5>1, TitlingFinite, FS_Subset
        <5>3. Cardinality(Titling(i)') \in Nat
          BY <5>2, FS_CardinalityType
        <5> QED
          BY <2>5, <4>1, <5>2, <5>3, TitlingFinite
      <4>2. CASE j # i
        <5>1. Titling(j)' \in SUBSET Titling(j)
          BY <3>1, <3>2, <4>2, <1>types DEF Titling
        <5> HIDE DEF Titling
        <5>2. Cardinality(Titling(j)') <= Cardinality(Titling(j)) /\ IsFiniteSet(Titling(j)')
          BY <5>1, TitlingFinite, FS_Subset
        <5>3. Cardinality(Titling(j)') \in Nat /\ titles[j] \in Nat
          BY <5>2, <1>types, FS_CardinalityType
        <5> QED
          BY <5>2, <5>3, TitlingFinite DEF RegistryInv, TitlesInv
      <4> QED
        BY <4>1, <4>2
    <3> QED
      BY <1>stay, <2>3, <3>3, <3>4 DEF RegistryInv, TitlesInv
  <2> QED
    BY <2>4, <2>5
<1>11. ASSUME NEW r \in Clients, Registry!TitleWrite(r)
       PROVE  RegistryInv'
  <2> DEFINE i == vehicleReq[r].id
  <2>1. Registry!End(r) /\ UNCHANGED <<vehicle, lastVehicle, metas, deals, split>> /\ i \in 1 .. MaxVehicle
    BY <1>11, <1>named DEF Registry!TitleWrite
  <2>2. CASE titles' = titles
    BY <2>1, <2>2, <1>stay, RegistryEnds
  <2>3. CASE /\ vehicleReq[r].at = "title" /\ i \in Registry!There
             /\ titles' = [titles EXCEPT ![i] = @ + 1]
    <3>1. vehicleReq' = [vehicleReq EXCEPT ![r] = Registry!Idle]
      BY <2>1 DEF Registry!End
    <3>2. RequestsInv'
      BY <3>1, VehicleIdle DEF RegistryInv, RequestsInv
    <3>3. VehiclesInv'
      BY <1>types, <2>1, <2>3 DEF VehiclesInv, Registry!PricesAgree, Registry!NoOrphanTitles,
         Registry!There, Registry!Ids
    <3>4. titles' \in [1 .. MaxVehicle -> Nat]
      <4>1. titles[i] + 1 \in Nat
        BY <1>types, <2>1
      <4> HIDE DEF i
      <4> QED
        BY <1>types, <2>3, <4>1
    <3>5. ASSUME NEW j \in 1 .. MaxVehicle
          PROVE  titles'[j] + Cardinality(Titling(j)') <= Cardinality(Clients)
      <4>0. titles[j] \in Nat /\ titles[j] + Cardinality(Titling(j)) <= Cardinality(Clients)
        BY DEF RegistryInv, TitlesInv
      <4>1. CASE j = i
        <5>1. Titling(j)' = Titling(j) \ {r} /\ r \in Titling(j)
          BY <1>types, <2>3, <3>1, <4>1, VehicleIdle DEF Titling
        <5> HIDE DEF Titling
        <5>2. Cardinality(Titling(j)') = Cardinality(Titling(j)) - 1
          BY <5>1, TitlingFinite, FS_RemoveElement
        <5>3. titles'[j] = titles[j] + 1
          BY <1>types, <2>3, <4>1
        <5> QED
          BY <4>0, <5>2, <5>3, TitlingFinite
      <4>2. CASE j # i
        <5>1. Titling(j)' = Titling(j)
          BY <1>types, <2>3, <3>1, <4>2, VehicleIdle DEF Titling
        <5>2. titles'[j] = titles[j]
          BY <1>types, <2>3, <4>2
        <5> QED
          BY <4>0, <5>1, <5>2
      <4> QED
        BY <4>1, <4>2
    <3> QED
      BY <1>types, <2>1, <3>2, <3>3, <3>4, <3>5, MetasStay DEF RegistryInv, TitlesInv
  <2> QED
    BY <1>11, <2>2, <2>3 DEF Registry!TitleWrite
<1>quiet. ASSUME VehiclesInv', MetasInv', UNCHANGED <<titles, vehicleReq>>
          PROVE  RegistryInv'
  BY <1>quiet DEF RegistryInv, TitlesInv, RequestsInv, Titling
<1>12. ASSUME NEW i \in 1 .. lastVehicle, Registry!MetaCreate(i)
       PROVE  RegistryInv'
  <2>1. i \in 1 .. MaxVehicle
    BY <1>types
  <2>2. MetasInv'
    <3>1. [of |-> i, live |-> TRUE] \in [of : 1 .. MaxVehicle, live : BOOLEAN]
      BY <2>1
    <3> QED
      BY <1>12, <1>types, <3>1, Zenon DEF Registry!MetaCreate, MetasInv
  <2> QED
    BY <1>12, <1>types, <1>quiet, <2>2, VehiclesStay DEF Registry!MetaCreate
<1>13. ASSUME NEW i \in 1 .. lastVehicle, Registry!Deal(i)
       PROVE  RegistryInv'
  <2>1. VehiclesInv'
    BY <1>13, <1>types DEF Registry!Deal, VehiclesInv, Registry!PricesAgree,
       Registry!NoOrphanTitles, Registry!There
  <2> QED
    BY <1>13, <1>types, <1>quiet, <2>1, MetasStay DEF Registry!Deal
<1>14. ASSUME NEW m \in metas, Registry!MetaRemove(m)
       PROVE  RegistryInv'
  <2>1. MetasInv'
    BY <1>14, <1>types DEF Registry!MetaRemove, MetasInv
  <2> QED
    BY <1>14, <1>types, <1>quiet, <2>1, VehiclesStay DEF Registry!MetaRemove
<1> QED
  BY <1>1, <1>2, <1>3, <1>4, <1>5, <1>6, <1>7, <1>8, <1>9, <1>10, <1>11, <1>12, <1>13, <1>14
     DEF Registry!Next, Registry!Create, Registry!Update, Registry!Remove, Registry!TitleUpsert

-----------------------------------------------------------------------------
(* Media *)

MediaRow == [key : Keys \cup {"none"}, of : SUBSET Owners, public : BOOLEAN]
MediaRequest ==
  [at : {"idle", "row", "cleanup", "update", "unrow"}, key : Keys \cup {"none"},
   of : SUBSET Owners, saw : BOOLEAN, public : BOOLEAN, id : 0 .. MaxMedia]
Session == [state : {"none", "open", "over"}, of : Owners, public : BOOLEAN]

MediaTypes ==
  /\ s3 \in [Keys -> {"none", "ok", "big"}]
  /\ media \in [1 .. MaxMedia -> MediaRow] /\ lastMedia \in 0 .. MaxMedia
  /\ owners \subseteq Owners /\ presigned \subseteq Keys
  /\ session \in Session
  /\ mediaReq \in [Clients -> MediaRequest]
  /\ again \subseteq named /\ named \subseteq Keys
  /\ condemned \subseteq 1 .. MaxMedia /\ raced \subseteq 1 .. MaxMedia
  /\ \A i \in 1 .. MaxMedia : i > lastMedia => media[i].key = "none"

\* The request will write a row for its key, or delete the file.
Working(q) == q.at \in {"row", "cleanup"}

\* A key that one upload or confirmation has named is of one row or of one request, and
\* the file a row is to be written for is there.
FilesInv ==
  /\ \A i \in Media!There : media[i].key \in named
  /\ \A r \in Clients : Working(mediaReq[r]) => mediaReq[r].key \in named
  /\ \A i, j \in Media!There : media[i].key = media[j].key /\ media[i].key \notin again => i = j
  /\ \A r, p \in Clients :
       Working(mediaReq[r]) /\ Working(mediaReq[p]) /\ mediaReq[r].key = mediaReq[p].key
         /\ mediaReq[r].key \notin again => r = p
  /\ \A r \in Clients, i \in Media!There :
       Working(mediaReq[r]) /\ mediaReq[r].key = media[i].key => media[i].key \in again
  /\ \A r \in Clients : mediaReq[r].at = "row" /\ mediaReq[r].key \notin again =>
       s3[mediaReq[r].key] # "none"
  /\ Media!RowsHaveFiles

\* What a request has concluded is private when it has seen a buyer.
PrivateInv ==
  /\ Media!BuyerMediaPrivate
  /\ \A r \in Clients :
       mediaReq[r].public /\ mediaReq[r].at \in {"row", "update"} =>
         "buyer" \notin mediaReq[r].of /\ ~mediaReq[r].saw

MediaInv == MediaTypes /\ FilesInv /\ PrivateInv

LEMMA MediaTypesOK == MediaInv => Media!TypeOK
BY DEF MediaInv, MediaTypes, Media!TypeOK, Media!Ids, Media!NoKey, MediaRow, MediaRequest, Session

LEMMA MediaConstants ==
  /\ MaxMedia \in Nat /\ "none" \notin Keys /\ {"vehicle", "buyer"} \subseteq Owners
  /\ 0 \in 0 .. MaxMedia
BY BoundsAssumption DEF Media!Bounds

LEMMA MediaIdle ==
  /\ Media!Idle \in MediaRequest /\ Media!Idle.at = "idle"
  /\ Media!Idle.saw = FALSE /\ Media!Idle.public = FALSE
BY MediaConstants DEF Media!Idle, Media!NoKey, MediaRequest

LEMMA MediaNoRow == Media!NoRow \in MediaRow /\ Media!NoRow.key = "none"
BY DEF Media!NoRow, Media!NoKey, MediaRow

LEMMA MediaInit == Media!Init => MediaInv
<1> SUFFICES ASSUME Media!Init PROVE MediaInv
  OBVIOUS
<1>1. /\ s3 = [k \in Keys |-> "none"] /\ lastMedia = 0 /\ owners = Owners
      /\ media = [i \in 1 .. MaxMedia |-> [key |-> "none", of |-> {}, public |-> FALSE]]
      /\ session = [state |-> "none", of |-> "vehicle", public |-> FALSE]
      /\ mediaReq = [r \in Clients |-> Media!Idle] /\ presigned = {}
      /\ named = {} /\ again = {} /\ condemned = {} /\ raced = {}
  BY DEF Media!Init, Media!Ids, Media!NoRow, Media!NoKey, Media!NoSession
<1>2. Media!Idle \in MediaRequest
  BY MediaIdle, MediaConstants DEF MediaRequest
<1>3. MediaTypes
  BY <1>1, <1>2, MediaConstants DEF MediaTypes, MediaRow, Session
<1>4. Media!There = {}
  BY <1>1 DEF Media!There, Media!Ids, Media!NoKey
<1>5. \A r \in Clients : mediaReq[r].at = "idle"
  BY <1>1, MediaIdle
<1> QED
  BY <1>3, <1>4, <1>5 DEF MediaInv, FilesInv, PrivateInv, Working, Media!RowsHaveFiles,
     Media!BuyerMediaPrivate

-----------------------------------------------------------------------------

\* Requests and rows keep their keys or lose them, and a file that disappears is of nobody,
\* of a key that was confirmed again, or of a row whose removal has begun.
LEMMA FilesStay ==
  ASSUME MediaTypes, FilesInv, s3' \in [Keys -> {"none", "ok", "big"}],
         named \subseteq named', again \subseteq again', condemned \subseteq condemned',
         \A i \in Media!There' : i \in Media!There /\ media'[i].key = media[i].key,
         \A r \in Clients : Working(mediaReq'[r]) =>
           /\ Working(mediaReq[r]) /\ mediaReq'[r].key = mediaReq[r].key
           /\ mediaReq'[r].at = "row" => mediaReq[r].at = "row",
         \A i \in Media!There' : media'[i].key \notin again' /\ i \notin condemned' =>
           (s3'[media'[i].key] = "none" => s3[media'[i].key] = "none"),
         \A r \in Clients : mediaReq'[r].at = "row" /\ mediaReq'[r].key \notin again' =>
           (s3'[mediaReq'[r].key] = "none" => s3[mediaReq'[r].key] = "none")
  PROVE  FilesInv'
<1>1. /\ \A i \in Media!There' : media'[i].key \in named'
      /\ \A r \in Clients : Working(mediaReq'[r]) => mediaReq'[r].key \in named'
  BY DEF FilesInv
<1>2. \A i, j \in Media!There' :
        media'[i].key = media'[j].key /\ media'[i].key \notin again' => i = j
  BY DEF FilesInv
<1>3. \A r, p \in Clients :
        Working(mediaReq'[r]) /\ Working(mediaReq'[p]) /\ mediaReq'[r].key = mediaReq'[p].key
          /\ mediaReq'[r].key \notin again' => r = p
  BY DEF FilesInv
<1>4. \A r \in Clients, i \in Media!There' :
        Working(mediaReq'[r]) /\ mediaReq'[r].key = media'[i].key => media'[i].key \in again'
  BY DEF FilesInv
<1>5. \A r \in Clients : mediaReq'[r].at = "row" /\ mediaReq'[r].key \notin again' =>
        s3'[mediaReq'[r].key] # "none"
  BY DEF FilesInv, Working
<1>6. Media!RowsHaveFiles'
  BY DEF FilesInv, Media!RowsHaveFiles
<1> QED
  BY <1>1, <1>2, <1>3, <1>4, <1>5, <1>6 DEF FilesInv

\* A request begins with a key that is new, or was named before and is named again.
LEMMA FilesBegin ==
  ASSUME MediaTypes, FilesInv, NEW r \in Clients, NEW k \in Keys, NEW q,
         q.at = "row", q.key = k, mediaReq' = [mediaReq EXCEPT ![r] = q],
         k \notin named \/ k \in again', named' = named \cup {k}, again \subseteq again',
         s3'[k] # "none", \A j \in Keys : j # k => s3'[j] = s3[j],
         UNCHANGED <<media, condemned>>
  PROVE  FilesInv'
<1>1. \A p \in Clients : mediaReq'[p] = IF p = r THEN q ELSE mediaReq[p]
  BY DEF MediaTypes
<1>2. Working(q) /\ Media!There' = Media!There
  BY DEF Working, Media!There
<1>3. \A i \in Media!There : media[i].key \in Keys /\ media[i].key \in named
  BY DEF FilesInv, MediaTypes
<1>4. \A p \in Clients : Working(mediaReq[p]) => mediaReq[p].key \in named /\ mediaReq[p].key \in Keys
  BY DEF FilesInv, MediaTypes
<1>5. /\ \A i \in Media!There' : media'[i].key \in named'
      /\ \A p \in Clients : Working(mediaReq'[p]) => mediaReq'[p].key \in named'
  BY <1>1, <1>2, <1>3, <1>4
<1>6. \A i, j \in Media!There' :
        media'[i].key = media'[j].key /\ media'[i].key \notin again' => i = j
  BY <1>2 DEF FilesInv
<1>7. \A p, o \in Clients :
        Working(mediaReq'[p]) /\ Working(mediaReq'[o]) /\ mediaReq'[p].key = mediaReq'[o].key
          /\ mediaReq'[p].key \notin again' => p = o
  BY <1>1, <1>4 DEF FilesInv
<1>8. \A p \in Clients, i \in Media!There' :
        Working(mediaReq'[p]) /\ mediaReq'[p].key = media'[i].key => media'[i].key \in again'
  BY <1>1, <1>2, <1>3, <1>4 DEF FilesInv
<1>9. \A p \in Clients : mediaReq'[p].at = "row" /\ mediaReq'[p].key \notin again' =>
        s3'[mediaReq'[p].key] # "none"
  BY <1>1, <1>4 DEF FilesInv, Working
<1>10. Media!RowsHaveFiles'
  BY <1>2, <1>3 DEF FilesInv, Media!RowsHaveFiles
<1> QED
  BY <1>5, <1>6, <1>7, <1>8, <1>9, <1>10 DEF FilesInv

\* A request changes, and nothing private is said to be public.
LEMMA PrivateGoes ==
  ASSUME MediaTypes, PrivateInv, NEW r \in Clients, NEW q, mediaReq' = [mediaReq EXCEPT ![r] = q],
         q.public /\ q.at \in {"row", "update"} => "buyer" \notin q.of /\ ~q.saw,
         UNCHANGED <<media, raced>>
  PROVE  PrivateInv'
BY DEF MediaTypes, PrivateInv, Media!BuyerMediaPrivate, Media!There

\* Rows go.
LEMMA PrivateRowsGo ==
  ASSUME MediaTypes, PrivateInv, \A i \in 1 .. MaxMedia : media'[i] \in {media[i], Media!NoRow},
         \A p \in Clients : mediaReq'[p] \in {mediaReq[p], Media!Idle}, UNCHANGED raced
  PROVE  PrivateInv'
<1>1. \A i \in Media!There' : i \in Media!There /\ media'[i] = media[i]
  BY MediaNoRow DEF Media!There, Media!Ids, Media!NoKey
<1> QED
  BY <1>1, MediaIdle DEF PrivateInv, Media!BuyerMediaPrivate

LEMMA IsPublicBuyer ==
  \A of, wish : Media!IsPublic(of, wish) \in BOOLEAN /\ (Media!IsPublic(of, wish) => "buyer" \notin of)
BY DEF Media!IsPublic

\* An upload or a confirmation goes on to write its row.
LEMMA BeginStep ==
  ASSUME MediaInv, NEW r \in Clients, NEW k \in Keys, NEW of \in SUBSET Owners, NEW wish,
         mediaReq' = [mediaReq EXCEPT ![r] = [Media!Idle EXCEPT !.at = "row", !.key = k, !.of = of,
                                                !.public = Media!IsPublic(of, wish)]],
         k \notin named \/ k \in again', named' = named \cup {k},
         again \subseteq again', again' \subseteq named',
         s3' \in [Keys -> {"none", "ok", "big"}], s3'[k] # "none",
         \A j \in Keys : j # k => s3'[j] = s3[j], session' \in Session,
         UNCHANGED <<media, lastMedia, owners, presigned, condemned, raced>>
  PROVE  MediaInv'
<1> DEFINE public == Media!IsPublic(of, wish)
           q == [Media!Idle EXCEPT !.at = "row", !.key = k, !.of = of, !.public = public]
<1>1. public \in BOOLEAN /\ (public => "buyer" \notin of)
  BY IsPublicBuyer
<1>4. mediaReq' = [mediaReq EXCEPT ![r] = q]
  OBVIOUS
<1> HIDE DEF public
<1>2. /\ q \in MediaRequest /\ q.at = "row" /\ q.key = k /\ q.of = of /\ q.public = public
      /\ q.saw = FALSE
  BY <1>1, MediaIdle DEF MediaRequest
<1> HIDE DEF q
<1>5. MediaTypes'
  BY <1>2, <1>4 DEF MediaInv, MediaTypes
<1>6. FilesInv'
  <2>1. MediaTypes /\ FilesInv /\ UNCHANGED <<media, condemned>>
    BY DEF MediaInv
  <2>2. q.at = "row" /\ q.key = k
    BY <1>2
  <2> QED
    BY ONLY r \in Clients, k \in Keys, <2>1, <2>2, <1>4, FilesBegin,
       k \notin named \/ k \in again', named' = named \cup {k}, again \subseteq again',
       s3'[k] # "none", \A j \in Keys : j # k => s3'[j] = s3[j], Zenon
<1>7. PrivateInv'
  BY <1>1, <1>2, <1>4, PrivateGoes DEF MediaInv
<1> QED
  BY <1>5, <1>6, <1>7 DEF MediaInv

\* Only files, sessions and what is known of the keys change.
LEMMA FilesOnly ==
  ASSUME MediaInv, s3' \in [Keys -> {"none", "ok", "big"}], session' \in Session,
         presigned' \subseteq Keys, named' = named, again \subseteq again', again' \subseteq named,
         \A k \in named : k \notin again' => (s3'[k] = "none" => s3[k] = "none"),
         UNCHANGED <<media, lastMedia, owners, mediaReq, condemned, raced>>
  PROVE  MediaInv'
<1>1. MediaTypes'
  BY DEF MediaInv, MediaTypes
<1>2. Media!There' = Media!There
  BY DEF Media!There
<1>3. FilesInv'
  BY <1>2, FilesStay DEF MediaInv, FilesInv, Working
<1>4. PrivateInv'
  BY <1>2 DEF MediaInv, PrivateInv, Media!BuyerMediaPrivate
<1> QED
  BY <1>1, <1>3, <1>4 DEF MediaInv

LEMMA ConfirmStep ==
  ASSUME MediaInv, NEW r \in Clients, NEW k \in Keys, NEW of \in SUBSET Owners, NEW wish,
         Media!Confirm(r, k, of, wish), session' \in Session
  PROVE  MediaInv'
<1>1. /\ again' = again \cup ({k} \cap named) /\ again \subseteq named
      /\ UNCHANGED <<media, lastMedia, owners, presigned, condemned, raced>>
      /\ s3 \in [Keys -> {"none", "ok", "big"}] /\ presigned \subseteq Keys
  BY DEF Media!Confirm, MediaInv, MediaTypes
<1>2. CASE s3[k] = "ok"
  <2>1. /\ mediaReq' = [mediaReq EXCEPT ![r] = [Media!Idle EXCEPT !.at = "row", !.key = k, !.of = of,
                                                  !.public = Media!IsPublic(of, wish)]]
        /\ named' = named \cup {k} /\ UNCHANGED s3
    BY <1>2 DEF Media!Confirm, Media!Goes
  <2>2. /\ k \notin named \/ k \in again'
        /\ again \subseteq again' /\ again' \subseteq named'
        /\ s3' \in [Keys -> {"none", "ok", "big"}] /\ s3'[k] # "none"
        /\ \A j \in Keys : j # k => s3'[j] = s3[j]
    BY <1>1, <1>2, <2>1
  <2> QED
    BY <1>1, <2>1, <2>2, BeginStep
<1>3. CASE s3[k] = "big"
  <2>1. /\ s3' \in {[s3 EXCEPT ![k] = "none"], s3} /\ UNCHANGED <<mediaReq, named>>
    BY <1>3 DEF Media!Confirm
  <2>2. /\ s3' \in [Keys -> {"none", "ok", "big"}] /\ \A j \in Keys : j # k => s3'[j] = s3[j]
    BY <1>1, <2>1
  <2>3. \A j \in named : j \notin again' => (s3'[j] = "none" => s3[j] = "none")
    BY <1>1, <2>2 DEF MediaInv, MediaTypes
  <2>4. presigned' \subseteq Keys /\ again \subseteq again' /\ again' \subseteq named
    BY <1>1
  <2> QED
    BY <1>1, <2>1, <2>2, <2>3, <2>4, FilesOnly
<1> QED
  BY <1>1, <1>2, <1>3 DEF Media!Confirm

LEMMA UploadStep ==
  ASSUME MediaInv, NEW r \in Clients,
         Media!UploadAndCreate(r) \/ Media!ConfirmUpload(r) \/ Media!SessionConfirm(r)
  PROVE  MediaInv'
<1>types. s3 \in [Keys -> {"none", "ok", "big"}] /\ owners \subseteq Owners /\ session \in Session
          /\ again \subseteq named
  BY DEF MediaInv, MediaTypes
<1>1. CASE Media!UploadAndCreate(r)
  <2>1. PICK k \in Keys, of \in SUBSET owners, wish \in BOOLEAN :
          /\ Media!NewKey(k) /\ s3' = [s3 EXCEPT ![k] = "ok"]
          /\ mediaReq' = [mediaReq EXCEPT ![r] = [Media!Idle EXCEPT !.at = "row", !.key = k, !.of = of,
                                                    !.public = Media!IsPublic(of, wish)]]
          /\ named' = named \cup {k}
    BY <1>1, Zenon DEF Media!UploadAndCreate, Media!Goes
  <2>2. /\ k \notin named /\ of \in SUBSET Owners
        /\ s3' \in [Keys -> {"none", "ok", "big"}] /\ s3'[k] # "none"
        /\ \A j \in Keys : j # k => s3'[j] = s3[j]
    BY <1>types, <2>1 DEF Media!NewKey
  <2>3. UNCHANGED <<media, lastMedia, owners, session, presigned, again, condemned, raced>>
    BY <1>1 DEF Media!UploadAndCreate
  <2>4. session' \in Session /\ again \subseteq again' /\ again' \subseteq named'
    BY <1>types, <2>1, <2>3
  <2> QED
    BY <2>1, <2>2, <2>3, <2>4, BeginStep
<1>2. CASE Media!ConfirmUpload(r)
  <2>1. session' \in Session
    BY <1>2, <1>types DEF Media!ConfirmUpload
  <2>2. PICK k \in Keys, of \in SUBSET Owners, wish \in BOOLEAN : Media!Confirm(r, k, of, wish)
    BY <1>2 DEF Media!ConfirmUpload
  <2> QED
    BY <2>1, <2>2, ConfirmStep
<1>3. CASE Media!SessionConfirm(r)
  <2>1. session' \in Session
    BY <1>3, <1>types DEF Media!SessionConfirm, Media!Validate
  <2>2. PICK k \in Keys, of \in SUBSET Owners : Media!Confirm(r, k, of \cup {session.of}, session.public)
    BY <1>3 DEF Media!SessionConfirm
  <2>3. of \cup {session.of} \in SUBSET Owners
    BY <1>types DEF Session
  <2> QED
    BY <2>1, <2>2, <2>3, ConfirmStep
<1> QED
  BY <1>1, <1>2, <1>3

LEMMA CreateRowStep ==
  ASSUME MediaInv, NEW r \in Clients, Media!CreateRow(r)
  PROVE  MediaInv'
<1> DEFINE q == mediaReq[r]
<1>types. /\ q \in MediaRequest /\ q.at = "row" /\ q.key \in named /\ q.key \in Keys
          /\ Working(q) /\ mediaReq \in [Clients -> MediaRequest]
          /\ s3 \in [Keys -> {"none", "ok", "big"}]
          /\ media \in [1 .. MaxMedia -> MediaRow] /\ lastMedia \in 0 .. MaxMedia
  BY DEF Media!CreateRow, MediaInv, MediaTypes, FilesInv, Working
<1>quiet. UNCHANGED <<s3, owners, session, presigned, named, again, condemned, raced>>
  BY DEF Media!CreateRow, Media!history
<1>1. CASE /\ mediaReq' = [mediaReq EXCEPT ![r] = [Media!Idle EXCEPT !.at = "cleanup", !.key = q.key]]
           /\ UNCHANGED <<media, lastMedia>>
  <2> DEFINE e == [Media!Idle EXCEPT !.at = "cleanup", !.key = q.key]
  <2>1. e \in MediaRequest /\ e.at = "cleanup" /\ e.key = q.key
    BY <1>types, MediaIdle DEF MediaRequest
  <2>2. mediaReq' = [mediaReq EXCEPT ![r] = e]
    BY <1>1
  <2> HIDE DEF e
  <2>3. MediaTypes'
    BY <1>1, <1>quiet, <2>1, <2>2 DEF MediaInv, MediaTypes
  <2>4. \A p \in Clients : Working(mediaReq'[p]) =>
          /\ Working(mediaReq[p]) /\ mediaReq'[p].key = mediaReq[p].key
          /\ mediaReq'[p].at = "row" => mediaReq[p].at = "row"
    BY <1>types, <2>1, <2>2
  <2>5. Media!There' = Media!There
    BY <1>1 DEF Media!There
  <2>6. FilesInv'
    BY <1>1, <1>types, <1>quiet, <2>4, <2>5, FilesStay DEF MediaInv
  <2>7. PrivateInv'
    BY <1>1, <1>quiet, <2>1, <2>2, PrivateGoes DEF MediaInv
  <2> QED
    BY <2>3, <2>6, <2>7 DEF MediaInv
<1>2. CASE /\ lastMedia < MaxMedia /\ lastMedia' = lastMedia + 1
           /\ media' = [media EXCEPT ![lastMedia + 1] = [key |-> q.key, of |-> q.of, public |-> q.public]]
           /\ Media!End(r)
  <2> DEFINE new == lastMedia + 1
             row == [key |-> q.key, of |-> q.of, public |-> q.public]
  <2>1. new \in 1 .. MaxMedia /\ new > lastMedia /\ lastMedia' = new
    BY <1>2, <1>types, MediaConstants
  <2>2. row \in MediaRow /\ row.key = q.key /\ row.of = q.of /\ row.public = q.public
    BY <1>types DEF MediaRow, MediaRequest
  <2>3. media' = [media EXCEPT ![new] = row]
    BY <1>2
  <2>4. mediaReq' = [mediaReq EXCEPT ![r] = Media!Idle] /\ Media!Idle \in MediaRequest
        /\ Media!Idle.at = "idle"
    BY <1>2, MediaIdle, MediaConstants DEF Media!End, Media!Goes, MediaRequest
  <2> HIDE DEF new, row
  <2>5. \A i \in 1 .. MaxMedia : media'[i] = IF i = new THEN row ELSE media[i]
    BY <1>types, <2>3
  <2>6. \A p \in Clients : mediaReq'[p] = IF p = r THEN Media!Idle ELSE mediaReq[p]
    BY <1>types, <2>4
  <2>7. MediaTypes'
    <3>1. \A i \in 1 .. MaxMedia : i > lastMedia' => media'[i].key = "none"
      BY <1>types, <2>1, <2>5 DEF MediaInv, MediaTypes
    <3> QED
      BY <1>quiet, <1>types, <2>1, <2>2, <2>3, <2>4, <3>1 DEF MediaInv, MediaTypes
  <2>8. Media!There' = Media!There \cup {new} /\ new \notin Media!There
    BY <1>types, <2>1, <2>2, <2>5, MediaConstants
       DEF Media!There, Media!Ids, Media!NoKey, MediaInv, MediaTypes
  <2>9. \A i \in Media!There : media'[i] = media[i]
    BY <2>5, <2>8 DEF Media!There, Media!Ids
  <2>10. media'[new] = row
    BY <2>1, <2>5
  <2>11. FilesInv'
    <3>1. /\ \A i \in Media!There' : media'[i].key \in named'
          /\ \A p \in Clients : Working(mediaReq'[p]) => mediaReq'[p].key \in named'
      BY <1>types, <1>quiet, <2>2, <2>4, <2>6, <2>8, <2>9, <2>10 DEF MediaInv, FilesInv, Working
    <3>2. \A i, j \in Media!There' :
            media'[i].key = media'[j].key /\ media'[i].key \notin again' => i = j
      BY <1>types, <1>quiet, <2>2, <2>8, <2>9, <2>10 DEF MediaInv, FilesInv
    <3>3. \A p, o \in Clients :
            Working(mediaReq'[p]) /\ Working(mediaReq'[o]) /\ mediaReq'[p].key = mediaReq'[o].key
              /\ mediaReq'[p].key \notin again' => p = o
      BY <1>quiet, <2>4, <2>6 DEF MediaInv, FilesInv, Working
    <3>4. \A p \in Clients, i \in Media!There' :
            Working(mediaReq'[p]) /\ mediaReq'[p].key = media'[i].key => media'[i].key \in again'
      BY <1>types, <1>quiet, <2>2, <2>4, <2>6, <2>8, <2>9, <2>10 DEF MediaInv, FilesInv, Working
    <3>5. \A p \in Clients : mediaReq'[p].at = "row" /\ mediaReq'[p].key \notin again' =>
            s3'[mediaReq'[p].key] # "none"
      BY <1>quiet, <2>4, <2>6 DEF MediaInv, FilesInv
    <3>6. Media!RowsHaveFiles'
      BY <1>types, <1>quiet, <2>2, <2>8, <2>9, <2>10 DEF MediaInv, FilesInv, Media!RowsHaveFiles
    <3> QED
      BY <3>1, <3>2, <3>3, <3>4, <3>5, <3>6 DEF FilesInv
  <2>12. PrivateInv'
    <3>1. Media!BuyerMediaPrivate'
      BY <1>types, <1>quiet, <2>2, <2>8, <2>9, <2>10 DEF MediaInv, PrivateInv, Media!BuyerMediaPrivate
    <3> QED
      BY <2>4, <2>6, <3>1 DEF MediaInv, PrivateInv
  <2> QED
    BY <2>7, <2>11, <2>12 DEF MediaInv
<1> QED
  BY <1>1, <1>2 DEF Media!CreateRow, Media!Goes

LEMMA CleanUpStep ==
  ASSUME MediaInv, NEW r \in Clients, Media!CleanUp(r)
  PROVE  MediaInv'
<1> DEFINE k == mediaReq[r].key
<1>1. /\ s3 \in [Keys -> {"none", "ok", "big"}] /\ mediaReq \in [Clients -> MediaRequest]
      /\ Working(mediaReq[r]) /\ k \in Keys
  BY DEF Media!CleanUp, MediaInv, MediaTypes, FilesInv, Working
<1>2. /\ s3' \in {[s3 EXCEPT ![k] = "none"], s3}
      /\ UNCHANGED <<media, lastMedia, owners, session, presigned, named, again, condemned, raced>>
  BY DEF Media!CleanUp, Media!history
<1>3. s3' \in [Keys -> {"none", "ok", "big"}] /\ \A j \in Keys : j # k => s3'[j] = s3[j]
  BY <1>1, <1>2
<1>4. /\ mediaReq' = [mediaReq EXCEPT ![r] = Media!Idle] /\ Media!Idle \in MediaRequest
      /\ Media!Idle.at = "idle"
  BY MediaIdle DEF Media!CleanUp, Media!End, Media!Goes
<1>5. \A p \in Clients : mediaReq'[p] = IF p = r THEN Media!Idle ELSE mediaReq[p]
  BY <1>1, <1>4
<1>6. MediaTypes'
  BY <1>2, <1>3, <1>4 DEF MediaInv, MediaTypes
<1>7. Media!There' = Media!There
  BY <1>2 DEF Media!There
<1>8. \A i \in Media!There : media[i].key \in Keys /\ (media[i].key = k => k \in again)
  BY <1>1 DEF MediaInv, MediaTypes, FilesInv
<1>9. \A p \in Clients : mediaReq'[p].at = "row" =>
        /\ mediaReq'[p] = mediaReq[p] /\ mediaReq[p].key \in Keys
        /\ mediaReq[p].key = k => k \in again
  BY <1>1, <1>4, <1>5 DEF MediaInv, MediaTypes, FilesInv, Working
<1>10. \A p \in Clients : Working(mediaReq'[p]) => mediaReq'[p] = mediaReq[p]
  BY <1>4, <1>5 DEF Working
<1> HIDE DEF k
<1>11. FilesInv'
  BY <1>2, <1>3, <1>7, <1>8, <1>9, <1>10, FilesStay DEF MediaInv
<1>12. PrivateInv'
  BY <1>2, <1>4, PrivateGoes DEF MediaInv
<1> QED
  BY <1>6, <1>11, <1>12 DEF MediaInv

LEMMA UpdateStep ==
  ASSUME MediaInv, NEW r \in Clients, Media!UpdateRead(r) \/ Media!UpdateWrite(r)
  PROVE  MediaInv'
<1>types. /\ media \in [1 .. MaxMedia -> MediaRow] /\ mediaReq \in [Clients -> MediaRequest]
          /\ owners \subseteq Owners /\ s3 \in [Keys -> {"none", "ok", "big"}]
          /\ raced \subseteq 1 .. MaxMedia
  BY DEF MediaInv, MediaTypes
<1>quiet. UNCHANGED <<s3, lastMedia, owners, session, presigned, named, again, condemned>>
  BY DEF Media!UpdateRead, Media!UpdateWrite, Media!history
<1>req. ASSUME NEW q \in MediaRequest, q.at \in {"idle", "update"},
               mediaReq' = [mediaReq EXCEPT ![r] = q],
               media' \in [1 .. MaxMedia -> MediaRow], raced' \subseteq 1 .. MaxMedia,
               \A i \in 1 .. MaxMedia : media'[i].key = media[i].key
        PROVE  MediaTypes' /\ FilesInv'
  <2>1. \A p \in Clients : Working(mediaReq'[p]) => mediaReq'[p] = mediaReq[p]
    BY <1>types, <1>req DEF Working
  <2>2. Media!There' = Media!There /\ Media!There \subseteq 1 .. MaxMedia
    BY <1>req DEF Media!There, Media!Ids
  <2>3. MediaTypes'
    BY <1>quiet, <1>req DEF MediaInv, MediaTypes
  <2>4. FilesInv'
    BY <1>types, <1>quiet, <1>req, <2>1, <2>2, FilesStay DEF MediaInv, Working
  <2> QED
    BY <2>3, <2>4
<1>1. CASE Media!UpdateRead(r)
  <2>1. PICK i \in Media!There, of \in SUBSET (owners \ {"part"}), wish \in {"yes", "no", "asis"} :
          mediaReq' = [mediaReq EXCEPT ![r] =
            [Media!Idle EXCEPT !.at = "update", !.of = of, !.saw = "buyer" \in media[i].of, !.id = i,
               !.public = Media!FinalIsPublic(media[i], of,
                            wish = "yes" \/ (wish = "asis" /\ media[i].public))]]
    BY <1>1, Zenon DEF Media!UpdateRead, Media!Goes
  <2> DEFINE saw == "buyer" \in media[i].of
             public == Media!FinalIsPublic(media[i], of, wish = "yes" \/ (wish = "asis" /\ media[i].public))
             q == [Media!Idle EXCEPT !.at = "update", !.of = of, !.saw = saw, !.id = i, !.public = public]
  <2>2. saw \in BOOLEAN /\ public \in BOOLEAN /\ (public => "buyer" \notin of /\ ~saw)
    BY DEF Media!FinalIsPublic
  <2>3. i \in 1 .. MaxMedia /\ of \in SUBSET Owners /\ i \in 0 .. MaxMedia
    BY <1>types, MediaConstants DEF Media!There, Media!Ids
  <2>5. mediaReq' = [mediaReq EXCEPT ![r] = q]
    BY <2>1
  <2> HIDE DEF saw, public
  <2>6. /\ q \in MediaRequest /\ q.at = "update" /\ q.of = of /\ q.saw = saw /\ q.public = public
    BY <2>2, <2>3, MediaIdle DEF MediaRequest
  <2> HIDE DEF q
  <2>7. UNCHANGED <<media, raced>>
    BY <1>1 DEF Media!UpdateRead, Media!history
  <2>8. PrivateInv'
    BY <2>2, <2>5, <2>6, <2>7, PrivateGoes DEF MediaInv
  <2> QED
    BY <1>types, <1>req, <2>5, <2>6, <2>7, <2>8 DEF MediaInv
<1>2. CASE Media!UpdateWrite(r)
  <2> DEFINE q == mediaReq[r]
             i == q.id
             row(off) == [key |-> media[i].key, of |-> (media[i].of \ off) \cup q.of, public |-> q.public]
  <2>1. /\ mediaReq' = [mediaReq EXCEPT ![r] = Media!Idle] /\ Media!Idle \in MediaRequest
        /\ Media!Idle.at = "idle" /\ q.at = "update" /\ q \in MediaRequest
    BY <1>2, <1>types, MediaIdle, MediaConstants
       DEF Media!UpdateWrite, Media!End, Media!Goes, MediaRequest
  <2>2. CASE UNCHANGED <<media, raced>>
    BY <1>types, <1>req, <2>1, <2>2, PrivateGoes DEF MediaInv
  <2>3. ASSUME NEW off \in SUBSET {"vehicle", "buyer"}, i \in Media!There,
               media' = [media EXCEPT ![i] = row(off)],
               raced' = IF "buyer" \in media[i].of /\ ~q.saw THEN raced \cup {i} ELSE raced \ {i}
        PROVE  MediaInv'
    <3>1. i \in 1 .. MaxMedia /\ media[i] \in MediaRow
      BY <1>types, <2>3 DEF Media!There, Media!Ids
    <3>2. /\ row(off) \in MediaRow /\ row(off).key = media[i].key
          /\ row(off).of = (media[i].of \ off) \cup q.of /\ row(off).public = q.public
      BY <2>1, <3>1 DEF MediaRow, MediaRequest
    <3>3. q.public => "buyer" \notin q.of /\ ~q.saw
      BY <2>1 DEF MediaInv, PrivateInv
    <3>4. i \notin raced' => ("buyer" \in row(off).of => ~row(off).public)
      BY <2>3, <3>2, <3>3
    <3>5. \A j \in 1 .. MaxMedia : j # i => (j \in raced' <=> j \in raced)
      BY <2>3
    <3>6. raced' \subseteq 1 .. MaxMedia
      BY <1>types, <2>3, <3>1
    <3> DEFINE new == row(off)
    <3>7. new \in MediaRow /\ new.key = media[i].key /\ media' = [media EXCEPT ![i] = new]
          /\ (i \notin raced' => ("buyer" \in new.of => ~new.public))
      BY <2>3, <3>2, <3>4
    <3> HIDE DEF new, row, i, q
    <3>8. media' \in [1 .. MaxMedia -> MediaRow]
          /\ \A j \in 1 .. MaxMedia : media'[j] = IF j = i THEN new ELSE media[j]
      BY <1>types, <3>7
    <3>9. \A j \in 1 .. MaxMedia : media'[j].key = media[j].key
      BY <3>7, <3>8
    <3>10. Media!BuyerMediaPrivate'
      BY <3>5, <3>7, <3>8 DEF MediaInv, PrivateInv, Media!BuyerMediaPrivate, Media!There, Media!Ids
    <3>11. PrivateInv'
      BY <1>types, <2>1, <3>10 DEF MediaInv, PrivateInv
    <3>12. MediaTypes' /\ FilesInv'
      BY <1>req, <2>1, <3>6, <3>8, <3>9
    <3> QED
      BY <3>11, <3>12 DEF MediaInv
  <2>4. \/ UNCHANGED <<media, raced>>
        \/ /\ i \in Media!There
           /\ \E off \in SUBSET {"vehicle", "buyer"} : media' = [media EXCEPT ![i] = row(off)]
           /\ raced' = IF "buyer" \in media[i].of /\ ~q.saw THEN raced \cup {i} ELSE raced \ {i}
    BY <1>2 DEF Media!UpdateWrite
  <2> QED
    BY <2>2, <2>3, <2>4
<1> QED
  BY <1>1, <1>2

LEMMA RemoveFileStep ==
  ASSUME MediaInv, NEW r \in Clients, Media!RemoveFile(r)
  PROVE  MediaInv'
<1>types. /\ media \in [1 .. MaxMedia -> MediaRow] /\ mediaReq \in [Clients -> MediaRequest]
          /\ s3 \in [Keys -> {"none", "ok", "big"}] /\ condemned \subseteq 1 .. MaxMedia
  BY DEF MediaInv, MediaTypes
<1>quiet. UNCHANGED <<media, lastMedia, owners, session, presigned, named, again, raced>>
  BY DEF Media!RemoveFile
<1> DEFINE q(i) == [Media!Idle EXCEPT !.at = "unrow", !.id = i]
<1>1. PICK i \in Media!There :
        /\ s3' \in {[s3 EXCEPT ![media[i].key] = "none"], s3} /\ condemned' = condemned \cup {i}
        /\ mediaReq' = [mediaReq EXCEPT ![r] = q(i)]
  BY Zenon DEF Media!RemoveFile, Media!Goes
<1>2. i \in 1 .. MaxMedia /\ media[i].key \in Keys /\ Media!There' = Media!There
      /\ \A j \in Media!There : media[j].key \in Keys
  BY <1>types, <1>quiet DEF Media!There, Media!Ids, Media!NoKey, MediaRow
<1>3. q(i) \in MediaRequest /\ q(i).at = "unrow"
  <2>1. i \in 0 .. MaxMedia
    BY <1>2, MediaConstants
  <2> QED
    BY <2>1, MediaIdle DEF MediaRequest
<1> HIDE DEF q
<1>4. /\ s3' \in [Keys -> {"none", "ok", "big"}]
      /\ \A j \in Keys : j # media[i].key => s3'[j] = s3[j]
  BY <1>types, <1>1, <1>2
<1>5. \A p \in Clients : Working(mediaReq'[p]) => mediaReq'[p] = mediaReq[p]
  BY <1>types, <1>1, <1>3 DEF Working
<1>6. MediaTypes'
  BY <1>types, <1>quiet, <1>1, <1>2, <1>3, <1>4 DEF MediaInv, MediaTypes
<1>7. \A j \in Media!There : media[j].key \notin again /\ j \notin condemned' => media[j].key # media[i].key
  BY <1>1 DEF MediaInv, FilesInv
<1>8. \A p \in Clients : mediaReq'[p].at = "row" =>
        /\ mediaReq'[p] = mediaReq[p] /\ mediaReq[p].key \in Keys
        /\ mediaReq[p].key = media[i].key => media[i].key \in again
  BY <1>5 DEF MediaInv, MediaTypes, FilesInv, Working
<1>9. FilesInv'
  <2>1. \A j \in Media!There' : media'[j].key \notin again' /\ j \notin condemned' =>
          (s3'[media'[j].key] = "none" => s3[media'[j].key] = "none")
    BY <1>quiet, <1>2, <1>4, <1>7
  <2>2. \A p \in Clients : mediaReq'[p].at = "row" /\ mediaReq'[p].key \notin again' =>
          (s3'[mediaReq'[p].key] = "none" => s3[mediaReq'[p].key] = "none")
    BY <1>quiet, <1>4, <1>8
  <2>3. condemned \subseteq condemned' /\ named \subseteq named' /\ again \subseteq again'
    BY <1>quiet, <1>1
  <2> QED
    BY <1>quiet, <1>2, <1>4, <1>5, <2>1, <2>2, <2>3, FilesStay DEF MediaInv
<1>10. PrivateInv'
  BY <1>quiet, <1>1, <1>3, PrivateGoes DEF MediaInv
<1> QED
  BY <1>6, <1>9, <1>10 DEF MediaInv

\* Rows go, and no file with them.
LEMMA RowsGoStep ==
  ASSUME MediaInv, media' \in [1 .. MaxMedia -> MediaRow], owners' \subseteq Owners,
         \A i \in 1 .. MaxMedia : media'[i] \in {media[i], Media!NoRow},
         mediaReq' \in [Clients -> MediaRequest],
         \A p \in Clients : mediaReq'[p] \in {mediaReq[p], Media!Idle},
         UNCHANGED <<s3, lastMedia, session, presigned, named, again, condemned, raced>>
  PROVE  MediaInv'
<1>1. MediaTypes'
  BY MediaNoRow DEF MediaInv, MediaTypes
<1>2. \A i \in Media!There' : i \in Media!There /\ media'[i] = media[i]
  BY MediaNoRow DEF Media!There, Media!Ids, Media!NoKey
<1>3. \A p \in Clients : Working(mediaReq'[p]) => mediaReq'[p] = mediaReq[p]
  BY MediaIdle DEF Working
<1>4. FilesInv'
  BY <1>2, <1>3, FilesStay DEF MediaInv, MediaTypes
<1>5. PrivateInv'
  BY PrivateRowsGo DEF MediaInv
<1> QED
  BY <1>1, <1>4, <1>5 DEF MediaInv

LEMMA RemoveRowStep ==
  ASSUME MediaInv, NEW r \in Clients, Media!RemoveRow(r)
  PROVE  MediaInv'
<1>1. /\ media \in [1 .. MaxMedia -> MediaRow] /\ mediaReq \in [Clients -> MediaRequest]
      /\ owners \subseteq Owners
  BY DEF MediaInv, MediaTypes
<1>2. /\ media' \in {[media EXCEPT ![mediaReq[r].id] = Media!NoRow], media}
      /\ mediaReq' = [mediaReq EXCEPT ![r] = Media!Idle]
      /\ UNCHANGED <<s3, lastMedia, owners, session, presigned, named, again, condemned, raced>>
  BY DEF Media!RemoveRow, Media!End, Media!Goes, Media!history
<1>3. Media!Idle \in MediaRequest
  BY MediaIdle, MediaConstants DEF MediaRequest
<1>4. /\ media' \in [1 .. MaxMedia -> MediaRow]
      /\ \A i \in 1 .. MaxMedia : media'[i] \in {media[i], Media!NoRow}
  BY <1>1, <1>2, MediaNoRow
<1>5. /\ mediaReq' \in [Clients -> MediaRequest]
      /\ \A p \in Clients : mediaReq'[p] \in {mediaReq[p], Media!Idle}
  BY <1>1, <1>2, <1>3
<1> QED
  BY <1>1, <1>2, <1>4, <1>5, RowsGoStep

LEMMA MediaStep ==
  ASSUME MediaInv, Media!Next
  PROVE  MediaInv'
<1>types. /\ s3 \in [Keys -> {"none", "ok", "big"}] /\ presigned \subseteq Keys /\ session \in Session
          /\ media \in [1 .. MaxMedia -> MediaRow] /\ owners \subseteq Owners
          /\ mediaReq \in [Clients -> MediaRequest] /\ again \subseteq named /\ named \subseteq Keys
  BY DEF MediaInv, MediaTypes
<1>1. ASSUME NEW k \in Keys, Media!PutObject(k)
      PROVE  MediaInv'
  <2>1. PICK size \in {"ok", "big"} : s3' = [s3 EXCEPT ![k] = size]
    BY <1>1 DEF Media!PutObject
  <2>2. /\ s3' \in [Keys -> {"none", "ok", "big"}]
        /\ \A j \in named : s3'[j] = "none" => s3[j] = "none"
    BY <1>types, <2>1
  <2>3. UNCHANGED <<media, lastMedia, owners, session, presigned, mediaReq, named, again, condemned, raced>>
    BY <1>1 DEF Media!PutObject, Media!history
  <2> QED
    BY <1>types, <2>2, <2>3, FilesOnly
<1>2. ASSUME NEW o \in Owners, Media!RemoveOwner(o)
      PROVE  MediaInv'
  <2>1. /\ media' \in [1 .. MaxMedia -> MediaRow]
        /\ \A i \in 1 .. MaxMedia : media'[i] \in {media[i], Media!NoRow}
    BY <1>2, <1>types, MediaNoRow DEF Media!RemoveOwner, Media!Ids
  <2>2. /\ owners' \subseteq Owners
        /\ UNCHANGED <<s3, lastMedia, session, presigned, mediaReq, named, again, condemned, raced>>
    BY <1>2, <1>types DEF Media!RemoveOwner, Media!history
  <2> QED
    BY <1>types, <2>1, <2>2, RowsGoStep
<1>3. CASE Media!Presign \/ Media!SessionPresign \/ Media!CreateSession \/ Media!SessionEnds
  <2>1. session' \in Session
    <3>1. Media!NoSession \in Session /\ [Media!NoSession EXCEPT !.state = "over"] \in Session
      BY MediaConstants DEF Media!NoSession, Session
    <3>2. ASSUME NEW o \in {"vehicle", "buyer"}, NEW wish \in BOOLEAN
          PROVE  [state |-> "open", of |-> o, public |-> wish] \in Session
      BY MediaConstants DEF Session
    <3>3. CASE Media!CreateSession
      BY <3>2, <3>3 DEF Media!CreateSession
    <3>4. CASE Media!SessionEnds
      BY <3>1, <3>4 DEF Media!SessionEnds, Media!Close, Media!CleanupExpiredSessions
    <3>5. CASE Media!Presign \/ Media!SessionPresign
      BY <1>types, <3>5 DEF Media!Presign, Media!SessionPresign, Media!Validate
    <3> QED
      BY <1>3, <3>3, <3>4, <3>5
  <2>2. presigned' \subseteq Keys
    BY <1>3, <1>types DEF Media!Presign, Media!SessionPresign, Media!CreateSession, Media!SessionEnds
  <2>3. UNCHANGED <<s3, media, lastMedia, owners, mediaReq, named, again, condemned, raced>>
    BY <1>3 DEF Media!Presign, Media!SessionPresign, Media!CreateSession, Media!SessionEnds, Media!history
  <2> QED
    BY <1>types, <2>1, <2>2, <2>3, FilesOnly
<1> QED
  BY <1>1, <1>2, <1>3, UploadStep, CreateRowStep, CleanUpStep, UpdateStep, RemoveFileStep, RemoveRowStep
     DEF Media!Next

-----------------------------------------------------------------------------
(* SKUs *)

SkuBackfill ==
  [at : {"idle", "generate", "write", "done", "failed"}, listed : SUBSET Parts, todo : SUBSET Parts,
   part : Parts \cup {NoPart}, sku : 0 .. MaxSku]

\* A part that is there has been given a SKU, or none, and so has one that a backfill has
\* listed; a part that is being created has not.
SkusInv ==
  /\ there \subseteq Parts /\ generated \subseteq Parts
  /\ sku \in [Parts -> (-1) .. (MaxSku + 1)]
  /\ \A p \in there : sku[p] # -1
  /\ creates \subseteq [part : Parts, sku : 1 .. MaxSku]
  /\ \A c \in creates : sku[c.part] = -1
  /\ \A c, d \in creates : c.part = d.part => c = d
  /\ backfill \in [Backfills -> SkuBackfill]
  /\ \A b \in Backfills : /\ backfill[b].at = "write" => backfill[b].sku \in 1 .. MaxSku
                          /\ \A p \in backfill[b].listed : sku[p] # -1

LEMMA SkuBounds == MaxSku \in Nat /\ InFlight \in Nat /\ UserSkus \subseteq 0 .. MaxSku + 1
BY BoundsAssumption DEF Skus!Bounds, Skus!None, Skus!Typed

LEMMA SkusTypes == SkusInv => Skus!TypeOK
BY SkuBounds DEF SkusInv, SkuBackfill, Skus!TypeOK, Skus!Skus, Skus!None, Skus!Typed, Skus!Unborn

LEMMA SkusInit == Skus!Init => SkusInv
BY SkuBounds DEF Skus!Init, SkusInv, SkuBackfill, Skus!Unborn, Skus!None

\* generateSku gives a SKU, and one that no part has if no user has typed letters.
LEMMA GenerateSkuTypes ==
  ASSUME SkusInv
  PROVE  /\ Skus!GenerateSku \in 1 .. MaxSku + 1
         /\ (\A p \in there : sku[p] # MaxSku + 1) => \A p \in there : sku[p] # Skus!GenerateSku
<1> DEFINE owned == {sku[p] : p \in there} \ {0}
<1>1. \A p \in there : sku[p] \in 0 .. MaxSku + 1
  BY SkuBounds DEF SkusInv
<1>2. owned \subseteq 1 .. MaxSku + 1 /\ \A p \in there : sku[p] \in owned \cup {0}
  BY <1>1, SkuBounds
<1>3. Skus!GenerateSku = IF owned = {} \/ MaxSku + 1 \in owned THEN 1 ELSE Skus!Max(owned) + 1
  BY DEF Skus!GenerateSku, Skus!None, Skus!Typed
<1>4. (\A p \in there : sku[p] # MaxSku + 1) => MaxSku + 1 \notin owned
  BY SkuBounds
<1> HIDE DEF owned
<1>5. CASE owned = {} \/ MaxSku + 1 \in owned
  BY <1>2, <1>3, <1>4, <1>5, SkuBounds
<1>6. CASE owned # {} /\ MaxSku + 1 \notin owned
  <2>1. owned \in SUBSET (0 .. MaxSku)
    BY <1>2, <1>6, SkuBounds
  <2>2. \E x \in owned : \A y \in owned : y <= x
    BY <1>6, <2>1, Greatest, SkuBounds
  <2>5. \E x \in owned : \A y \in owned : x >= y
    BY <2>1, <2>2, SkuBounds
  <2>3. Skus!Max(owned) \in owned /\ \A y \in owned : Skus!Max(owned) >= y
    BY <2>5 DEF Skus!Max
  <2>4. Skus!GenerateSku = Skus!Max(owned) + 1
    BY <1>3, <1>6
  <2> DEFINE top == Skus!Max(owned)
  <2>6. top \in 1 .. MaxSku /\ \A y \in owned : y \in 1 .. MaxSku /\ top >= y
    <3>1. \A y \in owned : y \in Nat /\ y # 0 /\ y <= MaxSku
      BY <1>2, <2>1, SkuBounds
    <3> QED
      BY <2>3, <3>1, SkuBounds
  <2> HIDE DEF top
  <2>7. top + 1 \in 1 .. MaxSku + 1 /\ top + 1 # 0 /\ \A y \in owned : y # top + 1
    BY <2>6, SkuBounds
  <2>8. Skus!GenerateSku = top + 1
    BY <2>4 DEF top
  <2> QED
    BY <1>2, <2>7, <2>8
<1> QED
  BY <1>5, <1>6

\* A part gets a SKU, and what was to give it one is over.
LEMMA PartGets ==
  ASSUME SkusInv, NEW p \in Parts, NEW s \in 0 .. MaxSku + 1,
         there' = there \cup {p}, sku' = [sku EXCEPT ![p] = s], generated' \subseteq Parts,
         creates' \subseteq creates, \A c \in creates' : c.part # p,
         backfill' \in [Backfills -> SkuBackfill],
         \A b \in Backfills : /\ backfill'[b].listed = backfill[b].listed
                              /\ backfill'[b].at = "write" => backfill'[b] = backfill[b]
  PROVE  SkusInv'
<1>1. \A q \in Parts : sku'[q] = IF q = p THEN s ELSE sku[q]
  BY DEF SkusInv
<1>2. /\ there' \subseteq Parts /\ sku' \in [Parts -> (-1) .. (MaxSku + 1)]
      /\ \A q \in there' : sku'[q] # -1
  BY <1>1, SkuBounds DEF SkusInv
<1>3. \A c \in creates' : c.part \in Parts /\ sku'[c.part] = -1
  BY <1>1 DEF SkusInv
<1>4. \A b \in Backfills : /\ backfill'[b].at = "write" => backfill'[b].sku \in 1 .. MaxSku
                           /\ \A q \in backfill'[b].listed : sku'[q] # -1
  BY <1>1, SkuBounds DEF SkusInv, SkuBackfill
<1> QED
  BY <1>2, <1>3, <1>4 DEF SkusInv

LEMMA BackfillGoes ==
  ASSUME SkusInv, NEW b \in Backfills, NEW q \in SkuBackfill, backfill' = [backfill EXCEPT ![b] = q],
         q.at = "write" => q.sku \in 1 .. MaxSku, \A p \in q.listed : sku[p] # -1,
         UNCHANGED <<there, sku, creates, generated>>
  PROVE  SkusInv'
<1>1. backfill' \in [Backfills -> SkuBackfill]
      /\ \A e \in Backfills : backfill'[e] = IF e = b THEN q ELSE backfill[e]
  BY DEF SkusInv
<1> QED
  BY <1>1 DEF SkusInv

\* What each step of a backfill makes of it.
LEMMA BackfillTypes ==
  ASSUME SkusInv, NEW b \in Backfills, NEW at \in {"generate", "done", "failed"}
  PROVE  /\ backfill[b] \in SkuBackfill /\ [backfill[b] EXCEPT !.at = at] \in SkuBackfill
         /\ [backfill[b] EXCEPT !.at = at].at = at
         /\ [backfill[b] EXCEPT !.at = at].listed = backfill[b].listed
         /\ [backfill[b] EXCEPT !.at = at].todo = backfill[b].todo
BY DEF SkusInv, SkuBackfill

\* The effect of each action, in the terms of the lemmas above.
Gets(p, s) ==
  /\ p \in Parts /\ s \in 0 .. MaxSku + 1
  /\ there' = there \cup {p} /\ sku' = [sku EXCEPT ![p] = s]

LEMMA PartSteps ==
  ASSUME SkusInv
  PROVE  /\ \A p \in Parts, s \in UserSkus : Skus!CreateWithSku(p, s) =>
              Gets(p, s) /\ sku[p] = -1 /\ generated' = generated \ {p} /\ UNCHANGED <<creates, backfill>>
              /\ \A c \in creates : c.part # p
         /\ \A p \in Parts : Skus!CreateForVehicle(p) =>
              Gets(p, 0) /\ sku[p] = -1 /\ generated' = generated \ {p} /\ UNCHANGED <<creates, backfill>>
              /\ \A c \in creates : c.part # p
         /\ \A p \in Parts, s \in UserSkus : Skus!UpdateSku(p, s) =>
              Gets(p, s) /\ generated' = generated \ {p} /\ UNCHANGED <<creates, backfill>>
              /\ \A c \in creates : c.part # p
         /\ \A c \in creates : Skus!CreateInsert(c) =>
              Gets(c.part, c.sku) /\ generated' = generated \cup {c.part} /\ UNCHANGED backfill
              /\ creates' = creates \ {c} /\ (\A d \in creates' : d.part # c.part)
              /\ sku[c.part] = -1 /\ c.sku \in 1 .. MaxSku
         /\ \A b \in Backfills : Skus!BackfillWrite(b) /\ backfill[b].part \in there =>
              Gets(backfill[b].part, backfill[b].sku) /\ generated' = generated \cup {backfill[b].part}
              /\ UNCHANGED creates /\ backfill' = [backfill EXCEPT ![b] = [backfill[b] EXCEPT !.at = "generate"]]
              /\ \A c \in creates : c.part # backfill[b].part
<1>1. \A p \in Parts, s \in UserSkus : Skus!CreateWithSku(p, s) =>
        Gets(p, s) /\ sku[p] = -1 /\ generated' = generated \ {p} /\ UNCHANGED <<creates, backfill>>
        /\ \A c \in creates : c.part # p
  BY SkuBounds DEF Gets, Skus!CreateWithSku, Skus!Fresh, Skus!Unborn
<1>2. \A p \in Parts : Skus!CreateForVehicle(p) =>
        Gets(p, 0) /\ sku[p] = -1 /\ generated' = generated \ {p} /\ UNCHANGED <<creates, backfill>>
        /\ \A c \in creates : c.part # p
  BY SkuBounds DEF Gets, Skus!CreateForVehicle, Skus!Fresh, Skus!Unborn, Skus!None
<1>3. \A p \in there : \A c \in creates : c.part # p
  BY DEF SkusInv
<1>4. \A p \in Parts, s \in UserSkus : Skus!UpdateSku(p, s) =>
        Gets(p, s) /\ generated' = generated \ {p} /\ UNCHANGED <<creates, backfill>>
        /\ \A c \in creates : c.part # p
  BY <1>3, SkuBounds DEF Gets, Skus!UpdateSku
<1>5. \A c \in creates : c.part \in Parts /\ c.sku \in 1 .. MaxSku /\ sku[c.part] = -1
        /\ \A d \in creates : d.part = c.part => d = c
  BY DEF SkusInv
<1>6. \A c \in creates : Skus!CreateInsert(c) =>
        Gets(c.part, c.sku) /\ generated' = generated \cup {c.part} /\ UNCHANGED backfill
        /\ creates' = creates \ {c} /\ (\A d \in creates' : d.part # c.part)
        /\ sku[c.part] = -1 /\ c.sku \in 1 .. MaxSku
  BY <1>5, SkuBounds DEF Gets, Skus!CreateInsert
<1>7. ASSUME NEW b \in Backfills, Skus!BackfillWrite(b), backfill[b].part \in there
      PROVE  /\ Gets(backfill[b].part, backfill[b].sku)
             /\ generated' = generated \cup {backfill[b].part} /\ UNCHANGED creates
             /\ backfill' = [backfill EXCEPT ![b] = [backfill[b] EXCEPT !.at = "generate"]]
             /\ \A c \in creates : c.part # backfill[b].part
  <2>1. there \subseteq Parts /\ backfill[b].sku \in 1 .. MaxSku
    BY <1>7 DEF SkusInv, Skus!BackfillWrite
  <2>2. there' = there /\ there = there \cup {backfill[b].part} /\ sku' = [sku EXCEPT ![backfill[b].part] = backfill[b].sku]
        /\ generated' = generated \cup {backfill[b].part} /\ UNCHANGED creates
        /\ backfill' = [backfill EXCEPT ![b] = [backfill[b] EXCEPT !.at = "generate"]]
    BY <1>7 DEF Skus!BackfillWrite
  <2> QED
    BY <1>3, <1>7, <2>1, <2>2, SkuBounds DEF Gets
<1> QED
  BY <1>1, <1>2, <1>4, <1>6, <1>7

LEMMA SkusStep ==
  ASSUME SkusInv, Skus!Next
  PROVE  SkusInv'
<1>types. backfill \in [Backfills -> SkuBackfill] /\ generated \subseteq Parts
  BY DEF SkusInv
<1>1. ASSUME NEW p \in Parts, NEW s \in UserSkus, Skus!CreateWithSku(p, s) \/ Skus!UpdateSku(p, s)
      PROVE  SkusInv'
  BY <1>types, <1>1, PartSteps, PartGets DEF Gets
<1>2. ASSUME NEW p \in Parts, Skus!CreateForVehicle(p)
      PROVE  SkusInv'
  BY <1>types, <1>2, PartSteps, PartGets DEF Gets
<1>3. ASSUME NEW c \in creates, Skus!CreateInsert(c)
      PROVE  SkusInv'
  <2>1. /\ Gets(c.part, c.sku) /\ generated' = generated \cup {c.part} /\ UNCHANGED backfill
        /\ creates' = creates \ {c} /\ \A d \in creates' : d.part # c.part
    BY <1>3, PartSteps
  <2> QED
    BY <1>types, <2>1, PartGets DEF Gets
<1>4. ASSUME NEW b \in Backfills, Skus!BackfillWrite(b)
      PROVE  SkusInv'
  <2>1. CASE backfill[b].part \in there
    <3> DEFINE q == [backfill[b] EXCEPT !.at = "generate"]
    <3>1. q \in SkuBackfill /\ q.at = "generate" /\ q.listed = backfill[b].listed
      BY BackfillTypes
    <3>2. /\ Gets(backfill[b].part, backfill[b].sku)
          /\ generated' = generated \cup {backfill[b].part} /\ UNCHANGED creates
          /\ backfill' = [backfill EXCEPT ![b] = q] /\ \A c \in creates : c.part # backfill[b].part
      BY <1>4, <2>1, PartSteps
    <3> HIDE DEF q
    <3>3. /\ backfill' \in [Backfills -> SkuBackfill]
          /\ \A e \in Backfills : backfill'[e] = IF e = b THEN q ELSE backfill[e]
      BY <1>types, <3>1, <3>2
    <3>4. \A e \in Backfills : /\ backfill'[e].listed = backfill[e].listed
                               /\ backfill'[e].at = "write" => backfill'[e] = backfill[e]
      BY <3>1, <3>3
    <3> QED
      BY <1>types, <3>2, <3>3, <3>4, PartGets DEF Gets
  <2>2. CASE backfill[b].part \notin there
    <3> DEFINE q == [backfill[b] EXCEPT !.at = "failed"]
    <3>1. q \in SkuBackfill /\ q.at = "failed" /\ q.listed = backfill[b].listed
      BY BackfillTypes
    <3>2. backfill' = [backfill EXCEPT ![b] = q] /\ UNCHANGED <<there, sku, creates, generated>>
      BY <1>4, <2>2 DEF Skus!BackfillWrite
    <3> HIDE DEF q
    <3>3. \A p \in q.listed : sku[p] # -1
      BY <3>1 DEF SkusInv
    <3> QED
      BY <3>1, <3>2, <3>3, BackfillGoes
  <2> QED
    BY <2>1, <2>2
<1>5. ASSUME NEW p \in Parts, Skus!CreateGenerate(p)
      PROVE  SkusInv'
  <2>1. PICK s \in 1 .. MaxSku : creates' = creates \cup {[part |-> p, sku |-> s]}
    BY <1>5, GenerateSkuTypes, SkuBounds DEF Skus!CreateGenerate
  <2>2. sku[p] = -1 /\ (\A c \in creates : c.part # p) /\ UNCHANGED <<there, sku, backfill, generated>>
    BY <1>5 DEF Skus!CreateGenerate, Skus!Fresh, Skus!Unborn
  <2>3. creates' \subseteq [part : Parts, sku : 1 .. MaxSku]
    BY <2>1 DEF SkusInv
  <2>4. \A c \in creates' : sku[c.part] = -1
    BY <2>1, <2>2 DEF SkusInv
  <2>5. \A c, d \in creates' : c.part = d.part => c = d
    BY <2>1, <2>2 DEF SkusInv
  <2> QED
    BY <2>2, <2>3, <2>4, <2>5 DEF SkusInv
<1>6. ASSUME NEW p \in Parts, Skus!RemovePart(p)
      PROVE  SkusInv'
  BY <1>6 DEF Skus!RemovePart, SkusInv
<1>7. ASSUME NEW b \in Backfills, Skus!BackfillList(b)
      PROVE  SkusInv'
  <2> DEFINE missing == {p \in there : sku[p] = 0}
             q == [at |-> "generate", listed |-> missing, todo |-> missing, part |-> NoPart, sku |-> 0]
  <2>1. q \in SkuBackfill /\ q.at = "generate" /\ \A p \in q.listed : sku[p] # -1
    BY SkuBounds DEF SkusInv, SkuBackfill
  <2>2. backfill' = [backfill EXCEPT ![b] = q] /\ UNCHANGED <<there, sku, creates, generated>>
    BY <1>7 DEF Skus!BackfillList, Skus!None
  <2> HIDE DEF q
  <2> QED
    BY <2>1, <2>2, BackfillGoes
<1>8. ASSUME NEW b \in Backfills, Skus!BackfillGenerate(b)
      PROVE  SkusInv'
  <2> DEFINE q(p, s) == [at |-> "write", listed |-> backfill[b].listed,
                         todo |-> backfill[b].todo \ {p}, part |-> p, sku |-> s]
  <2>1. PICK p \in backfill[b].todo : backfill' = [backfill EXCEPT ![b] = q(p, Skus!GenerateSku)]
    BY <1>8 DEF Skus!BackfillGenerate
  <2>2. PICK s \in 1 .. MaxSku : s = Skus!GenerateSku
    BY <1>8, GenerateSkuTypes, SkuBounds DEF Skus!BackfillGenerate
  <2>3. s \in 0 .. MaxSku /\ backfill[b].todo \subseteq Parts /\ backfill[b].listed \subseteq Parts
    BY <1>types, SkuBounds DEF SkuBackfill
  <2>4. q(p, s) \in SkuBackfill /\ q(p, s).sku = s /\ q(p, s).listed = backfill[b].listed
    BY <2>3 DEF SkuBackfill
  <2>5. UNCHANGED <<there, sku, creates, generated>>
    BY <1>8 DEF Skus!BackfillGenerate
  <2> HIDE DEF q
  <2>6. \A e \in q(p, s).listed : sku[e] # -1
    BY <2>4 DEF SkusInv
  <2> QED
    BY <2>1, <2>2, <2>4, <2>5, <2>6, BackfillGoes
<1>9. ASSUME NEW b \in Backfills, Skus!BackfillEnd(b)
      PROVE  SkusInv'
  <2> DEFINE q == [backfill[b] EXCEPT !.at = "done"]
  <2>1. q \in SkuBackfill /\ q.at = "done" /\ q.listed = backfill[b].listed
    BY BackfillTypes
  <2>2. backfill' = [backfill EXCEPT ![b] = q] /\ UNCHANGED <<there, sku, creates, generated>>
    BY <1>9 DEF Skus!BackfillEnd
  <2> HIDE DEF q
  <2>3. \A p \in q.listed : sku[p] # -1
    BY <2>1 DEF SkusInv
  <2> QED
    BY <2>1, <2>2, <2>3, BackfillGoes
<1> QED
  BY <1>1, <1>2, <1>3, <1>4, <1>5, <1>6, <1>7, <1>8, <1>9 DEF Skus!Next

\* At most one generated SKU is not written yet; it is of no part, and letters of nobody.
UniqueInv ==
  /\ \A p \in there : sku[p] # MaxSku + 1
  /\ \A c, d \in creates : c = d
  /\ \A b, e \in Backfills : backfill[b].at = "write" /\ backfill[e].at = "write" => b = e
  /\ \A b \in Backfills : backfill[b].at = "write" => creates = {}
  /\ Skus!GeneratedUnique
  /\ \A p \in generated \cap there :
       /\ \A c \in creates : c.sku # sku[p]
       /\ \A b \in Backfills : backfill[b].at = "write" => backfill[b].sku # sku[p]

LEMMA UniqueInit == Skus!Init => UniqueInv
BY DEF Skus!Init, UniqueInv, Skus!GeneratedUnique

\* With one SKU in flight at most, none is when the next is generated.
LEMMA NonePending ==
  ASSUME UniqueInv, InFlight = 1, Skus!Pending < InFlight
  PROVE  creates = {} /\ \A b \in Backfills : backfill[b].at # "write"
<1> DEFINE writing == {b \in Backfills : backfill[b].at = "write"}
<1>1. IsFiniteSet(Backfills) /\ Skus!Pending = Cardinality(creates) + Cardinality(writing)
  BY BoundsAssumption DEF Skus!Bounds, Skus!IsFiniteSet, IsFiniteSet, Skus!Pending, Skus!Cardinality,
     Cardinality
<1>2. creates = {} \/ \E c : creates = {c}
  BY DEF UniqueInv
<1>3. IsFiniteSet(creates) /\ IsFiniteSet(writing)
  BY <1>1, <1>2, FS_EmptySet, FS_Singleton, FS_Subset
<1> HIDE DEF writing
<1>4. Cardinality(creates) \in Nat /\ Cardinality(writing) \in Nat
  BY <1>3, FS_CardinalityType
<1>5. Cardinality(creates) = 0 /\ Cardinality(writing) = 0
  BY <1>1, <1>4
<1>6. creates = {} /\ writing = {}
  BY <1>3, <1>5, FS_EmptySet
<1> QED
  BY <1>6 DEF writing

\* A part gets a SKU that is not generateSku's.
LEMMA UniqueTyped ==
  ASSUME SkusInv, UniqueInv, NEW p \in Parts, NEW s \in 0 .. MaxSku, Gets(p, s),
         generated' = generated \ {p}, UNCHANGED <<creates, backfill>>
  PROVE  UniqueInv'
<1>1. \A q \in Parts : sku'[q] = IF q = p THEN s ELSE sku[q]
  BY DEF SkusInv, Gets
<1>2. \A q \in generated' \cap there' : q \in generated \cap there /\ sku'[q] = sku[q]
  BY <1>1 DEF SkusInv, Gets
<1>3. \A q \in there' : sku'[q] # MaxSku + 1
  BY <1>1, SkuBounds DEF SkusInv, UniqueInv, Gets
<1> QED
  BY <1>2, <1>3 DEF UniqueInv, Skus!GeneratedUnique

\* A part gets the generated SKU that was in flight.
LEMMA UniqueGets ==
  ASSUME SkusInv, UniqueInv, NEW p \in Parts, NEW s \in 1 .. MaxSku, Gets(p, s),
         generated' = generated \cup {p}, creates' = {},
         \A b \in Backfills : backfill'[b].at # "write",
         \A q \in generated \cap there : sku[q] # s
  PROVE  UniqueInv'
<1>1. \A q \in Parts : sku'[q] = IF q = p THEN s ELSE sku[q]
  BY DEF SkusInv, Gets
<1>2. \A q \in generated' \cap there' : q = p \/ (q # p /\ q \in generated \cap there /\ sku'[q] = sku[q])
  BY <1>1 DEF SkusInv, Gets
<1>3. \A q \in there' : sku'[q] # MaxSku + 1
  BY <1>1, SkuBounds DEF SkusInv, UniqueInv, Gets
<1>4. sku'[p] = s
  BY <1>1
<1> QED
  BY <1>2, <1>3, <1>4 DEF UniqueInv, Skus!GeneratedUnique

\* No SKU is given.
LEMMA UniqueStays ==
  ASSUME UniqueInv, sku' = sku, generated' \subseteq generated, there' \subseteq there,
         creates' \subseteq creates,
         \A b \in Backfills : backfill'[b].at = "write" => backfill'[b] = backfill[b]
  PROVE  UniqueInv'
BY DEF UniqueInv, Skus!GeneratedUnique

LEMMA UniqueStep ==
  ASSUME SkusInv, UniqueInv, InFlight = 1, MaxSku + 1 \notin UserSkus, Skus!Next
  PROVE  UniqueInv'
<1>types. backfill \in [Backfills -> SkuBackfill] /\ UserSkus \subseteq 0 .. MaxSku
  BY SkuBounds DEF SkusInv
<1>new. Skus!GenerateSku # MaxSku + 1 =>
          Skus!GenerateSku \in 1 .. MaxSku /\ \A p \in there : sku[p] # Skus!GenerateSku
  BY GenerateSkuTypes, SkuBounds DEF UniqueInv
<1>1. ASSUME NEW p \in Parts, NEW s \in UserSkus, Skus!CreateWithSku(p, s) \/ Skus!UpdateSku(p, s)
      PROVE  UniqueInv'
  BY <1>types, <1>1, PartSteps, UniqueTyped
<1>2. ASSUME NEW p \in Parts, Skus!CreateForVehicle(p)
      PROVE  UniqueInv'
  <2>1. 0 \in 0 .. MaxSku
    BY SkuBounds
  <2> QED
    BY <2>1, <1>2, PartSteps, UniqueTyped
<1>3. ASSUME NEW c \in creates, Skus!CreateInsert(c)
      PROVE  UniqueInv'
  <2>1. /\ Gets(c.part, c.sku) /\ generated' = generated \cup {c.part} /\ UNCHANGED backfill
        /\ creates' = creates \ {c} /\ c.part \in Parts /\ c.sku \in 1 .. MaxSku
    BY <1>3, PartSteps DEF Gets
  <2>2. creates' = {} /\ \A b \in Backfills : backfill'[b].at # "write"
    BY <2>1 DEF UniqueInv
  <2>3. \A q \in generated \cap there : sku[q] # c.sku
    BY DEF UniqueInv
  <2> QED
    BY <2>1, <2>2, <2>3, UniqueGets
<1>4. ASSUME NEW b \in Backfills, Skus!BackfillWrite(b)
      PROVE  UniqueInv'
  <2>0. backfill[b].at = "write"
    BY <1>4 DEF Skus!BackfillWrite
  <2>1. CASE backfill[b].part \in there
    <3> DEFINE q == [backfill[b] EXCEPT !.at = "generate"]
               p == backfill[b].part
               s == backfill[b].sku
    <3>1. q.at = "generate"
      BY BackfillTypes
    <3>2. /\ Gets(p, s) /\ generated' = generated \cup {p} /\ UNCHANGED creates
          /\ backfill' = [backfill EXCEPT ![b] = q]
      BY <1>4, <2>1, PartSteps
    <3>3. p \in Parts /\ s \in 1 .. MaxSku /\ creates = {} /\ \A e \in generated \cap there : sku[e] # s
      BY <2>0, <2>1 DEF SkusInv, UniqueInv
    <3> HIDE DEF q, p, s
    <3>4. \A e \in Backfills : backfill'[e].at # "write"
      BY <1>types, <2>0, <3>1, <3>2 DEF UniqueInv
    <3> QED
      BY <3>2, <3>3, <3>4, UniqueGets
  <2>2. CASE backfill[b].part \notin there
    <3> DEFINE q == [backfill[b] EXCEPT !.at = "failed"]
    <3>1. q.at = "failed"
      BY BackfillTypes
    <3>2. backfill' = [backfill EXCEPT ![b] = q] /\ UNCHANGED <<there, sku, creates, generated>>
      BY <1>4, <2>2 DEF Skus!BackfillWrite
    <3> HIDE DEF q
    <3>3. \A e \in Backfills : backfill'[e].at = "write" => backfill'[e] = backfill[e]
      BY <1>types, <3>1, <3>2
    <3> QED
      BY <3>2, <3>3, UniqueStays
  <2> QED
    BY <2>1, <2>2
<1>5. ASSUME NEW p \in Parts, Skus!CreateGenerate(p)
      PROVE  UniqueInv'
  <2>1. PICK s \in 1 .. MaxSku : /\ creates' = creates \cup {[part |-> p, sku |-> s]}
                                 /\ \A q \in there : sku[q] # s
    BY <1>5, <1>new DEF Skus!CreateGenerate
  <2>2. UNCHANGED <<there, sku, backfill, generated>> /\ Skus!Pending < InFlight
    BY <1>5 DEF Skus!CreateGenerate
  <2>3. creates = {} /\ \A b \in Backfills : backfill[b].at # "write"
    BY <2>2, NonePending
  <2>4. \A c \in creates' : c = [part |-> p, sku |-> s] /\ c.sku = s
    BY <2>1, <2>3
  <2> QED
    BY <2>1, <2>2, <2>3, <2>4 DEF UniqueInv, Skus!GeneratedUnique
<1>6. ASSUME NEW p \in Parts, Skus!RemovePart(p)
      PROVE  UniqueInv'
  BY <1>6, UniqueStays DEF Skus!RemovePart
<1>7. ASSUME NEW b \in Backfills, Skus!BackfillList(b) \/ Skus!BackfillEnd(b)
      PROVE  UniqueInv'
  <2> DEFINE missing == {p \in there : sku[p] = 0}
             q == [at |-> "generate", listed |-> missing, todo |-> missing, part |-> NoPart, sku |-> 0]
             d == [backfill[b] EXCEPT !.at = "done"]
  <2>1. q.at = "generate" /\ d.at = "done"
    BY BackfillTypes
  <2>2. /\ backfill' = [backfill EXCEPT ![b] = q] \/ backfill' = [backfill EXCEPT ![b] = d]
        /\ UNCHANGED <<there, sku, creates, generated>>
    BY <1>7 DEF Skus!BackfillList, Skus!BackfillEnd, Skus!None
  <2> HIDE DEF q, d
  <2>3. \A e \in Backfills : backfill'[e].at = "write" => backfill'[e] = backfill[e]
    BY <1>types, <2>1, <2>2
  <2> QED
    BY <2>2, <2>3, UniqueStays
<1>8. ASSUME NEW b \in Backfills, Skus!BackfillGenerate(b)
      PROVE  UniqueInv'
  <2> DEFINE q(p, s) == [at |-> "write", listed |-> backfill[b].listed,
                         todo |-> backfill[b].todo \ {p}, part |-> p, sku |-> s]
  <2>1. PICK p \in backfill[b].todo : backfill' = [backfill EXCEPT ![b] = q(p, Skus!GenerateSku)]
    BY <1>8 DEF Skus!BackfillGenerate
  <2>2. PICK s \in 1 .. MaxSku : s = Skus!GenerateSku /\ \A e \in there : sku[e] # s
    BY <1>8, <1>new DEF Skus!BackfillGenerate
  <2>3. q(p, s).at = "write" /\ q(p, s).sku = s
    OBVIOUS
  <2>4. UNCHANGED <<there, sku, creates, generated>> /\ Skus!Pending < InFlight
    BY <1>8 DEF Skus!BackfillGenerate
  <2>5. creates = {} /\ \A e \in Backfills : backfill[e].at # "write"
    BY <2>4, NonePending
  <2> HIDE DEF q
  <2>6. \A e \in Backfills : backfill'[e] = IF e = b THEN q(p, s) ELSE backfill[e]
    BY <1>types, <2>1, <2>2
  <2> QED
    BY <2>2, <2>3, <2>4, <2>5, <2>6 DEF UniqueInv, Skus!GeneratedUnique
<1> QED
  BY <1>1, <1>2, <1>3, <1>4, <1>5, <1>6, <1>7, <1>8 DEF Skus!Next

\* A listed part that is there has a SKU, or the backfill has yet to give it one.
FilledInv ==
  \A b \in Backfills : \A p \in backfill[b].listed \cap there :
    \/ sku[p] # 0
    \/ backfill[b].at \in {"idle", "failed"}
    \/ backfill[b].at \in {"generate", "write"} /\ p \in backfill[b].todo
    \/ backfill[b].at = "write" /\ p = backfill[b].part

LEMMA FilledInit == Skus!Init => FilledInv
BY DEF Skus!Init, FilledInv

LEMMA FilledDone == FilledInv => Skus!DoneMeansFilled
BY DEF FilledInv, Skus!DoneMeansFilled, Skus!None

\* A part gets a SKU, or none when it was not there.
LEMMA FilledGets ==
  ASSUME SkusInv, FilledInv, NEW p, NEW s, Gets(p, s), s # 0 \/ sku[p] = -1, UNCHANGED backfill
  PROVE  FilledInv'
<1>1. \A q \in Parts : sku'[q] = IF q = p THEN s ELSE sku[q]
  BY DEF SkusInv, Gets
<1>2. \A b \in Backfills : \A q \in backfill[b].listed : q \in Parts /\ sku[q] # -1
  BY DEF SkusInv, SkuBackfill
<1> QED
  BY <1>1, <1>2 DEF FilledInv, Gets

LEMMA FilledStep ==
  ASSUME SkusInv, FilledInv, 0 \notin UserSkus, Skus!Next
  PROVE  FilledInv'
<1>types. backfill \in [Backfills -> SkuBackfill]
  BY DEF SkusInv
<1>1. ASSUME NEW p \in Parts, NEW s \in UserSkus, Skus!CreateWithSku(p, s) \/ Skus!UpdateSku(p, s)
      PROVE  FilledInv'
  BY <1>1, PartSteps, FilledGets
<1>2. ASSUME NEW p \in Parts, Skus!CreateForVehicle(p)
      PROVE  FilledInv'
  BY <1>2, PartSteps, FilledGets
<1>3. ASSUME NEW c \in creates, Skus!CreateInsert(c)
      PROVE  FilledInv'
  BY <1>3, PartSteps, FilledGets
<1>4. ASSUME NEW b \in Backfills, NEW q, backfill' = [backfill EXCEPT ![b] = q],
             there' = there,
             \A p \in Parts : sku'[p] = sku[p] \/ sku'[p] # 0,
             \A p \in q.listed \cap there :
               \/ sku'[p] # 0
               \/ q.at = "failed"
               \/ q.at \in {"generate", "write"} /\ p \in q.todo
               \/ q.at = "write" /\ p = q.part
      PROVE  FilledInv'
  <2>1. \A e \in Backfills : backfill'[e] = IF e = b THEN q ELSE backfill[e]
    BY <1>types, <1>4
  <2>2. \A e \in Backfills : backfill[e].listed \subseteq Parts
    BY <1>types DEF SkuBackfill
  <2> QED
    BY <1>4, <2>1, <2>2 DEF FilledInv
<1>5. ASSUME NEW b \in Backfills, Skus!BackfillWrite(b)
      PROVE  FilledInv'
  <2>0. backfill[b].at = "write"
    BY <1>5 DEF Skus!BackfillWrite
  <2>1. CASE backfill[b].part \in there
    <3> DEFINE q == [backfill[b] EXCEPT !.at = "generate"]
               p == backfill[b].part
               s == backfill[b].sku
    <3>1. q.at = "generate" /\ q.listed = backfill[b].listed /\ q.todo = backfill[b].todo
      BY BackfillTypes
    <3>2. /\ p \in Parts /\ sku' = [sku EXCEPT ![p] = s] /\ there' = there \cup {p}
          /\ backfill' = [backfill EXCEPT ![b] = q]
      BY <1>5, <2>1, PartSteps DEF Gets
    <3>3. s # 0 /\ p \in there
      BY <2>0, <2>1, SkuBounds DEF SkusInv
    <3>4. \A e \in Parts : sku'[e] = IF e = p THEN s ELSE sku[e]
      BY <3>2 DEF SkusInv
    <3>5. \A e \in backfill[b].listed \cap there : e \in Parts /\
             (sku[e] # 0 \/ e \in backfill[b].todo \/ e = p)
      BY <2>0 DEF FilledInv, SkusInv
    <3> HIDE DEF q, p, s
    <3> QED
      BY <1>4, <3>1, <3>2, <3>3, <3>4, <3>5, ZenonT(30)
  <2>2. CASE backfill[b].part \notin there
    <3> DEFINE q == [backfill[b] EXCEPT !.at = "failed"]
    <3>1. q.at = "failed"
      BY BackfillTypes
    <3>2. backfill' = [backfill EXCEPT ![b] = q] /\ UNCHANGED <<there, sku, creates, generated>>
      BY <1>5, <2>2 DEF Skus!BackfillWrite
    <3> HIDE DEF q
    <3> QED
      BY <1>4, <3>1, <3>2
  <2> QED
    BY <2>1, <2>2
<1>6. ASSUME NEW p \in Parts, Skus!CreateGenerate(p) \/ Skus!RemovePart(p)
      PROVE  FilledInv'
  <2>1. UNCHANGED <<sku, backfill>> /\ there' \subseteq there
    BY <1>6 DEF Skus!CreateGenerate, Skus!RemovePart
  <2> QED
    BY <2>1 DEF FilledInv
<1>7. ASSUME NEW b \in Backfills, Skus!BackfillList(b)
      PROVE  FilledInv'
  <2> DEFINE missing == {p \in there : sku[p] = 0}
             q == [at |-> "generate", listed |-> missing, todo |-> missing, part |-> NoPart, sku |-> 0]
  <2>1. q.at = "generate" /\ q.listed = q.todo
    OBVIOUS
  <2>2. backfill' = [backfill EXCEPT ![b] = q] /\ UNCHANGED <<there, sku>>
    BY <1>7 DEF Skus!BackfillList, Skus!None
  <2> HIDE DEF q
  <2> QED
    BY <1>4, <2>1, <2>2
<1>8. ASSUME NEW b \in Backfills, Skus!BackfillGenerate(b)
      PROVE  FilledInv'
  <2> DEFINE q(p, s) == [at |-> "write", listed |-> backfill[b].listed,
                         todo |-> backfill[b].todo \ {p}, part |-> p, sku |-> s]
  <2>1. PICK p, s : backfill' = [backfill EXCEPT ![b] = q(p, s)]
    BY <1>8 DEF Skus!BackfillGenerate
  <2>2. backfill[b].at = "generate" /\ UNCHANGED <<there, sku>>
    BY <1>8 DEF Skus!BackfillGenerate
  <2>3. /\ q(p, s).at = "write" /\ q(p, s).listed = backfill[b].listed /\ q(p, s).part = p
        /\ q(p, s).todo = backfill[b].todo \ {p}
    OBVIOUS
  <2>4. \A e \in backfill[b].listed \cap there : sku[e] # 0 \/ e \in backfill[b].todo
    BY <2>2 DEF FilledInv
  <2> HIDE DEF q
  <2> QED
    BY <1>4, <2>1, <2>2, <2>3, <2>4
<1>9. ASSUME NEW b \in Backfills, Skus!BackfillEnd(b)
      PROVE  FilledInv'
  <2> DEFINE q == [backfill[b] EXCEPT !.at = "done"]
  <2>1. q.at = "done" /\ q.listed = backfill[b].listed
    BY BackfillTypes
  <2>2. /\ backfill' = [backfill EXCEPT ![b] = q] /\ UNCHANGED <<there, sku>>
        /\ backfill[b].at = "generate" /\ backfill[b].todo = {}
    BY <1>9 DEF Skus!BackfillEnd
  <2>3. \A e \in backfill[b].listed \cap there : sku[e] # 0
    BY <2>2 DEF FilledInv
  <2> HIDE DEF q
  <2> QED
    BY <1>4, <2>1, <2>2, <2>3
<1> QED
  BY <1>1, <1>2, <1>3, <1>5, <1>6, <1>7, <1>8, <1>9 DEF Skus!Next

-----------------------------------------------------------------------------
(* Lists of terms *)

Fetched == [id : 1 .. MaxTerm, title : Terms]
Script ==
  [at : {"idle", "forget", "clear", "types", "empty", "types of", "listed"},
   todo : SUBSET Fetched, terms : SUBSET Terms, id : 0 .. MaxTerm]

\* No slug is given twice; a vehicle's body type and a subtype's type are there.
ListsInv ==
  /\ type \in [1 .. MaxTerm -> Lists!Type \cup {Lists!NoType}]
  /\ \A i, j \in Lists!There : type[i].slug = type[j].slug => i = j
  /\ body \in Lists!There \cup {0}
  /\ sub \subseteq Lists!Sub /\ \A s \in sub : s.of \in Lists!There
  /\ \A r, s \in sub : r.slug = s.slug /\ r.with = s.with => r = s
  /\ script \in Script

LEMMA TermIds == MaxTerm \in Nat /\ 0 \in 0 .. MaxTerm /\ \A i \in 1 .. MaxTerm : i \in 0 .. MaxTerm /\ i \in Nat
<1>1. MaxTerm \in Nat
  BY BoundsAssumption DEF Lists!Bounds
<1> QED
  BY <1>1

LEMMA TermBounds ==
  /\ MaxTerm \in Nat /\ "" \notin Lists!Slugs /\ Lists!Ids = 1 .. MaxTerm
  /\ \A row \in Lists!Type : row # Lists!NoType
<1>1. MaxTerm \in Nat /\ \A t \in Terms : Slugify[t] # ""
  BY BoundsAssumption DEF Lists!Bounds
<1>2. "" \notin Lists!Slugs
  BY <1>1 DEF Lists!Slugs
<1>3. \A row \in Lists!Type : row.slug \in Lists!Slugs
  BY DEF Lists!Type
<1>4. Lists!NoType.slug = ""
  BY DEF Lists!NoType
<1> QED
  BY <1>1, <1>2, <1>3, <1>4 DEF Lists!Ids

LEMMA IdleScript ==
  /\ Lists!Idle \in Script
  /\ Lists!Idle = [at |-> "idle", todo |-> {}, terms |-> {}, id |-> 0]
<1>1. 0 \in 0 .. MaxTerm
  BY TermIds
<1> QED
  BY <1>1 DEF Lists!Idle, Lists!None, Script

LEMMA ListsTypes == ListsInv => Lists!TypeOK
<1> SUFFICES ASSUME ListsInv PROVE Lists!TypeOK
  OBVIOUS
<1>1. \A i \in Lists!There : type[i] \in Lists!Type /\ Lists!Taken(type[i].slug) = {i}
  BY TermBounds DEF ListsInv, Lists!There, Lists!Taken
<1> QED
  BY <1>1 DEF ListsInv, Lists!TypeOK, Lists!None, Script

LEMMA ListsInit == Lists!Init => ListsInv
<1> SUFFICES ASSUME Lists!Init PROVE ListsInv
  OBVIOUS
<1>1. Lists!Idle \in Script
  BY IdleScript
<1>2. Lists!There = {}
  BY DEF Lists!Init, Lists!There
<1> QED
  BY <1>1, <1>2, TermBounds DEF Lists!Init, ListsInv, Lists!None

\* A nonempty set of numbers has a least one.
LEMMA Least ==
  ASSUME NEW S, S \subseteq Nat, S # {}
  PROVE  \E i \in S : \A j \in S : i <= j
<1>1. PICK i \in S : \A j \in S : ~ (<<j, i>> \in OpToRel(<, Nat))
  BY NatLessThanWellFounded, WFMin
<1>2. \A j \in S : ~ (j < i)
  <2>1. \A j \in S : j < i => <<j, i>> \in OpToRel(<, Nat)
    BY DEF OpToRel
  <2> QED
    BY <1>1, <2>1
<1> QED
  BY <1>2

\* An insert gives a row an id that nothing speaks of, and a slug that none has.
LEMMA InsertGives ==
  ASSUME ListsInv, NEW row, Lists!Insert(row)
  PROVE  \/ type' = type
         \/ /\ \E i \in Lists!Unused : type' = [type EXCEPT ![i] = row]
            /\ \A i \in Lists!There : type[i].slug # row.slug
<1> DEFINE i == CHOOSE i \in Lists!Unused : \A j \in Lists!Unused : i <= j
<1>1. CASE Lists!Taken(row.slug) # {}
  BY <1>1 DEF Lists!Insert
<1>2. CASE Lists!Taken(row.slug) = {}
  <2>1. Lists!Unused # {} /\ type' = [type EXCEPT ![i] = row]
    BY <1>2 DEF Lists!Insert
  <2>2. Lists!Unused \subseteq Nat
    <3>1. Lists!Unused \subseteq Lists!Ids
      BY DEF Lists!Unused
    <3> QED
      BY <3>1, TermIds DEF Lists!Ids
  <2>3. i \in Lists!Unused
    BY <2>1, <2>2, Least
  <2> HIDE DEF i
  <2> QED
    BY <1>2, <2>1, <2>3 DEF Lists!Taken
<1> QED
  BY <1>1, <1>2

\* What the term lists' actions do to the rows: one is added, one changes or goes, or all
\* go; what is left refers to what is left.
LEMMA TypesChange ==
  ASSUME ListsInv, script' \in Script, UNCHANGED sub,
         type' \in [1 .. MaxTerm -> Lists!Type \cup {Lists!NoType}],
         \A i, j \in Lists!There' : type'[i].slug = type'[j].slug => i = j,
         body' \in Lists!There' \cup {0},
         \A s \in sub : s.of \in Lists!There'
  PROVE  ListsInv'
BY DEF ListsInv, Lists!Sub, Lists!Ids, Lists!Slugs

LEMMA InsertStep ==
  ASSUME ListsInv, NEW row \in Lists!Type, Lists!Insert(row), script' \in Script,
         UNCHANGED <<sub, body>>
  PROVE  ListsInv'
<1>1. CASE type' = type
  BY <1>1, TypesChange DEF ListsInv, Lists!There
<1>2. ASSUME NEW i \in Lists!Unused, type' = [type EXCEPT ![i] = row],
             \A j \in Lists!There : type[j].slug # row.slug
      PROVE  ListsInv'
  <2>1. i \in 1 .. MaxTerm /\ i \notin Lists!There
    BY TermBounds DEF Lists!Unused
  <2>2. /\ type' \in [1 .. MaxTerm -> Lists!Type \cup {Lists!NoType}]
        /\ \A j \in 1 .. MaxTerm : type'[j] = IF j = i THEN row ELSE type[j]
    BY <1>2, <2>1 DEF ListsInv
  <2>3. Lists!There' = Lists!There \cup {i}
    BY <2>1, <2>2, TermBounds DEF Lists!There
  <2>4. \A j \in Lists!There : type'[j] = type[j] /\ j # i
    BY <2>1, <2>2, TermBounds DEF Lists!There
  <2>5. \A j, k \in Lists!There' : type'[j].slug = type'[k].slug => j = k
    BY <1>2, <2>1, <2>2, <2>3, <2>4 DEF ListsInv
  <2> QED
    BY <2>2, <2>3, <2>5, TypesChange DEF ListsInv
<1> QED
  BY <1>1, <1>2, InsertGives

LEMMA ScriptFacts ==
  ASSUME ListsInv
  PROVE  /\ script \in Script /\ Lists!Idle \in Script
         /\ \A at \in {"clear", "types", "types of"} : [script EXCEPT !.at = at] \in Script
         /\ \A terms \in SUBSET Terms : [script EXCEPT !.terms = terms] \in Script
         /\ \A terms \in SUBSET Terms, todo \in SUBSET Fetched :
              [script EXCEPT !.terms = terms, !.todo = todo] \in Script
<1>1. script \in Script /\ Lists!Idle \in Script
  BY IdleScript DEF ListsInv
<1> QED
  BY <1>1 DEF Script

LEMMA ListsStep ==
  ASSUME ListsInv, Lists!Next
  PROVE  ListsInv'
<1>types. /\ type \in [1 .. MaxTerm -> Lists!Type \cup {Lists!NoType}] /\ script \in Script
          /\ Lists!Ids = 1 .. MaxTerm /\ Lists!None = 0
  BY TermBounds DEF ListsInv, Lists!None
<1>row. \A slug \in Lists!Slugs, t \in Terms, active \in BOOLEAN :
          [slug |-> slug, title |-> t, active |-> active] \in Lists!Type
  BY DEF Lists!Type
<1>slug. \A t \in Terms : Slugify[t] \in Lists!Slugs
  BY DEF Lists!Slugs
<1>1. ASSUME NEW slug \in Lists!Slugs, NEW t \in Terms, Lists!Create(slug, t) \/ Lists!SeedUpsert(t)
      PROVE  ListsInv'
  BY <1>1, <1>types, <1>row, <1>slug, InsertStep DEF Lists!Create, Lists!SeedUpsert
<1>2. ASSUME NEW i \in Lists!Ids, NEW slug \in Lists!Slugs, NEW t \in Terms, NEW active \in BOOLEAN,
             Lists!Update(i, slug, t, active)
      PROVE  ListsInv'
  <2> DEFINE row == [slug |-> slug, title |-> t, active |-> active]
  <2>1. row \in Lists!Type /\ row.slug = slug
    BY <1>row
  <2>2. i \in Lists!There /\ type' = [type EXCEPT ![i] = row] /\ UNCHANGED <<sub, body, script>>
        /\ \A j \in Lists!There : type[j].slug = slug => j = i
    BY <1>2 DEF Lists!Update, Lists!Taken
  <2> HIDE DEF row
  <2>3. /\ type' \in [1 .. MaxTerm -> Lists!Type \cup {Lists!NoType}]
        /\ \A j \in 1 .. MaxTerm : type'[j] = IF j = i THEN row ELSE type[j]
    BY <1>types, <2>1, <2>2
  <2>4. Lists!There' = Lists!There
    BY <1>types, <2>1, <2>2, <2>3, TermBounds DEF Lists!There
  <2>5. \A j \in Lists!There : j \in 1 .. MaxTerm
    BY <1>types DEF Lists!There
  <2>6. \A j, k \in Lists!There' : type'[j].slug = type'[k].slug => j = k
    BY <2>1, <2>2, <2>3, <2>4, <2>5 DEF ListsInv
  <2> QED
    BY <1>types, <2>2, <2>3, <2>4, <2>6, TypesChange DEF ListsInv
<1>3. ASSUME NEW i \in Lists!Ids, Lists!Remove(i)
      PROVE  ListsInv'
  <2>1. /\ i \in Lists!There /\ type' = [type EXCEPT ![i] = Lists!NoType]
        /\ body' = (IF body = i THEN 0 ELSE body)
        /\ (\A s \in sub : s.of # i) /\ UNCHANGED <<sub, script>>
    BY <1>3, <1>types DEF Lists!Remove, Lists!SubsOf
  <2>2. /\ type' \in [1 .. MaxTerm -> Lists!Type \cup {Lists!NoType}]
        /\ \A j \in 1 .. MaxTerm : type'[j] = IF j = i THEN Lists!NoType ELSE type[j]
    BY <1>types, <2>1
  <2>3. Lists!There' = Lists!There \ {i} /\ \A j \in Lists!There' : type'[j] = type[j]
    BY <1>types, <2>2 DEF Lists!There
  <2>4. \A j, k \in Lists!There' : type'[j].slug = type'[k].slug => j = k
    BY <2>3 DEF ListsInv
  <2> QED
    BY <1>types, <2>1, <2>2, <2>3, <2>4, TypesChange DEF ListsInv
<1>4. ASSUME NEW i \in 0 .. MaxTerm, Lists!SetBody(i)
      PROVE  ListsInv'
  BY <1>4, <1>types, TypesChange DEF Lists!SetBody, ListsInv, Lists!There
<1>5. ASSUME NEW terms \in SUBSET Terms, Lists!FetchTypes(terms)
      PROVE  ListsInv'
  <2>1. script' \in Script
    <3>1. script' = [at |-> "forget", todo |-> {}, terms |-> terms, id |-> 0] /\ 0 \in 0 .. MaxTerm
      BY <1>5, TermIds DEF Lists!FetchTypes, Lists!None
    <3> QED
      BY <3>1 DEF Script
  <2> QED
    BY <1>5, <2>1, TypesChange DEF Lists!FetchTypes, ListsInv, Lists!There
<1>6. CASE Lists!ForgetBodies \/ Lists!ScriptFails
  <2>1. script' \in Script /\ body' \in {body, 0} /\ UNCHANGED <<type, sub>>
    BY <1>6, <1>types, ScriptFacts DEF Lists!ForgetBodies, Lists!ScriptFails
  <2> QED
    BY <2>1, TypesChange DEF ListsInv, Lists!There
<1>7. CASE Lists!ClearTypes
  <2>1. script' \in Script /\ UNCHANGED sub
    BY <1>7, ScriptFacts DEF Lists!ClearTypes
  <2>2. CASE UNCHANGED <<type, body>>
    BY <2>1, <2>2, TypesChange DEF ListsInv, Lists!There
  <2>3. CASE sub = {} /\ type' = [i \in 1 .. MaxTerm |-> Lists!NoType] /\ body' = 0
    <3>1. Lists!There' = {}
      BY <1>types, <2>3 DEF Lists!There
    <3> QED
      BY <2>1, <2>3, <3>1, TypesChange
  <2> QED
    BY <1>7, <1>types, <2>2, <2>3 DEF Lists!ClearTypes
<1>8. CASE Lists!InsertType
  <2>1. UNCHANGED <<sub, body>>
    BY <1>8 DEF Lists!InsertType
  <2>2. CASE script.terms = {}
    BY <1>8, <2>1, <2>2, ScriptFacts, TypesChange DEF Lists!InsertType, ListsInv, Lists!There
  <2>3. CASE script.terms # {}
    <3>1. PICK t \in script.terms : /\ Lists!Insert([slug |-> Slugify[t], title |-> t, active |-> TRUE])
                                    /\ script' = [script EXCEPT !.terms = script.terms \ {t}]
      BY <1>8, <2>3 DEF Lists!InsertType
    <3>2. script.terms \in SUBSET Terms
      BY <1>types DEF Script
    <3>3. script' \in Script /\ t \in Terms
      BY <3>1, <3>2, ScriptFacts
    <3> QED
      BY <1>row, <1>slug, <2>1, <3>1, <3>3, InsertStep
  <2> QED
    BY <2>2, <2>3
<1>9. CASE Lists!ReadTypes
  <2> DEFINE read == {[id |-> i, title |-> type[i].title] : i \in {j \in Lists!There : type[j].active}}
  <2>1. read \subseteq Fetched
    BY <1>types DEF Lists!There, Lists!Type, Fetched
  <2>2. script' = [at |-> "empty", todo |-> read, terms |-> {}, id |-> 0] /\ UNCHANGED <<type, sub, body>>
    BY <1>9 DEF Lists!ReadTypes, Lists!Idle, Lists!None
  <2> HIDE DEF read
  <2>0. 0 \in 0 .. MaxTerm
    BY TermIds
  <2>3. script' \in Script
    BY <2>0, <2>1, <2>2 DEF Script
  <2> QED
    BY <2>2, <2>3, TypesChange DEF ListsInv, Lists!There
<1>10. CASE Lists!SubsEnd
  <2>1. script' \in Script
    <3>1. script' = [Lists!Idle EXCEPT !.at = "listed"]
      BY <1>10 DEF Lists!SubsEnd
    <3> QED
      BY <3>1, IdleScript DEF Script
  <2> QED
    BY <1>10, <2>1, TypesChange DEF Lists!SubsEnd, ListsInv, Lists!There
<1>11. CASE Lists!ClearSubs
  <2>1. script' \in Script /\ sub' = {} /\ UNCHANGED <<type, body>>
    BY <1>11, ScriptFacts DEF Lists!ClearSubs
  <2> QED
    BY <2>1 DEF ListsInv, Lists!There
<1>12. ASSUME NEW x \in script.todo, NEW terms \in SUBSET Terms, Lists!FetchSubs(x, terms)
       PROVE  ListsInv'
  <2>1. x \in Fetched /\ script.todo \subseteq Fetched
    BY <1>types DEF Script
  <2>2. x.id \in 0 .. MaxTerm
    BY <2>1, TermIds DEF Fetched
  <2>3. PICK todo \in SUBSET Fetched :
          script' = [at |-> "types of", id |-> x.id, terms |-> terms, todo |-> todo]
    BY <1>12, <2>1 DEF Lists!FetchSubs
  <2>5. UNCHANGED <<type, sub, body>>
    BY <1>12 DEF Lists!FetchSubs
  <2>4. script' \in Script
    BY <2>2, <2>3 DEF Script
  <2> QED
    BY <2>4, <2>5, TypesChange DEF ListsInv, Lists!There
<1>13. ASSUME NEW x \in script.todo, NEW t \in script.terms, Lists!InsertSub(x, t)
       PROVE  ListsInv'
  <2>1. script.terms \subseteq Terms /\ script.todo \subseteq Fetched /\ x \in Fetched
        /\ x.id \in 1 .. MaxTerm /\ x.title \in Terms /\ t \in Terms
    BY <1>types DEF Script, Fetched
  <2>2. script' \in Script
    <3>1. PICK todo \in SUBSET Fetched :
            script' = [script EXCEPT !.terms = script.terms \ {t}, !.todo = todo]
      BY <1>13, <2>1 DEF Lists!InsertSub
    <3> QED
      BY <2>1, <3>1, ScriptFacts
  <2>3. PICK w \in {"", Slugify[x.title]} : sub' = Lists!Listed(x.id, t, w)
    BY <1>13 DEF Lists!InsertSub
  <2>4. UNCHANGED <<type, body>>
    BY <1>13 DEF Lists!InsertSub
  <2> DEFINE new == [of |-> x.id, title |-> t, slug |-> Slugify[t], with |-> w]
  <2>5. new \in Lists!Sub /\ new.of = x.id /\ new.slug = Slugify[t] /\ new.with = w
    BY <1>types, <1>slug, <2>1 DEF Lists!Sub
  <2>6. \/ sub' = sub
        \/ sub' = sub \cup {new} /\ x.id \in Lists!There /\ ~ Lists!SubSlug(Slugify[t], w)
    BY <2>3 DEF Lists!Listed
  <2> HIDE DEF new
  <2>7. sub' \subseteq Lists!Sub /\ \A s \in sub' : s.of \in Lists!There
    BY <2>5, <2>6 DEF ListsInv
  <2>8. \A r, s \in sub' : r.slug = s.slug /\ r.with = s.with => r = s
    <3>1. \A q, s \in sub : q.slug = s.slug /\ q.with = s.with => q = s
      BY DEF ListsInv
    <3>2. CASE sub' = sub
      BY <3>1, <3>2
    <3>3. CASE sub' = sub \cup {new} /\ ~ Lists!SubSlug(Slugify[t], w)
      <4>1. \A s \in sub : ~ (s.slug = new.slug /\ s.with = new.with)
        BY <2>5, <3>3 DEF Lists!SubSlug
      <4> QED
        BY <3>1, <3>3, <4>1
    <3> QED
      BY <2>6, <3>2, <3>3
  <2> QED
    BY <2>2, <2>4, <2>7, <2>8 DEF ListsInv, Lists!There
<1>14. CASE Lists!Service
  BY <1>1, <1>2, <1>3, <1>4, <1>14 DEF Lists!Service
<1>15. CASE Lists!Scripts
  BY <1>1, <1>slug, <1>5, <1>6, <1>7, <1>8, <1>9, <1>10, <1>11, <1>12, <1>13, <1>15 DEF Lists!Scripts
<1> QED
  BY <1>14, <1>15 DEF Lists!Next

(* Every term of a type becomes a subtype of it once. *)

Asked(x) == x.id = script.id /\ script.terms # {}
Pend(i, t) == script.id = i /\ t \in script.terms

\* While sync-body-subtypes.ts runs: subtypes are terms it was told of and has handled; of
\* the terms it was told of it has yet to handle some, and the others are subtypes or were
\* skipped; it was told of no term of the types that it has not asked for.
EachInv ==
  /\ script.at \in {"empty", "types of", "listed"} =>
       \A x, y \in script.todo : x.id = y.id => x = y
  /\ script.at = "empty" => got = {} /\ script.terms = {}
  /\ script.at = "listed" => script.todo = {}
  /\ script.at \in {"types of", "listed"} =>
       /\ \A r, s \in sub : r.of = s.of /\ r.title = s.title => r = s
       /\ \A s \in sub : <<s.of, s.title>> \in got /\ ~ Pend(s.of, s.title)
       /\ \A i \in Lists!There, t \in Terms : <<i, t>> \in got =>
            \/ Pend(i, t)
            \/ \E s \in sub : s.of = i /\ s.title = t
            \/ \E s \in sub : s.slug = Slugify[t] /\ s.with # ""
       /\ \A x \in script.todo : Asked(x) \/ \A t : <<x.id, t>> \notin got
       /\ script.terms # {} => \E x \in script.todo : x.id = script.id
       /\ \A t \in script.terms : <<script.id, t>> \in got
       /\ got \subseteq (1 .. MaxTerm) \X Terms

LEMMA EachInit == Lists!Init => EachInv
BY IdleScript DEF Lists!Init, EachInv

LEMMA EachOnce == EachInv => Lists!EachTermOnce
<1> SUFFICES ASSUME EachInv, script.at = "listed", NEW g \in got, g[1] \in Lists!There
             PROVE  LET mine == {s \in sub : s.of = g[1] /\ s.title = g[2]} IN
                    \/ \E s \in sub : mine = {s}
                    \/ mine = {} /\ \E s \in sub : s.slug = Slugify[g[2]] /\ s.with # ""
  BY DEF Lists!EachTermOnce
<1> DEFINE mine == {s \in sub : s.of = g[1] /\ s.title = g[2]}
<1>0. script.at \in {"types of", "listed"}
  OBVIOUS
<1>1. g = <<g[1], g[2]>> /\ g[2] \in Terms
  <2>1. got \subseteq (1 .. MaxTerm) \X Terms
    BY <1>0 DEF EachInv
  <2> QED
    BY <2>1
<1>2. script.terms = {}
  BY DEF EachInv
<1>3. ~ Pend(g[1], g[2])
  BY <1>2 DEF Pend
<1>4. \/ \E s \in sub : s.of = g[1] /\ s.title = g[2]
      \/ \E s \in sub : s.slug = Slugify[g[2]] /\ s.with # ""
  <2>1. <<g[1], g[2]>> \in got
    BY <1>1
  <2> QED
    BY <1>0, <1>1, <1>3, <2>1 DEF EachInv
<1>5. \A s \in mine : mine = {s}
  <2>1. \A r, s \in sub : r.of = s.of /\ r.title = s.title => r = s
    BY <1>0 DEF EachInv
  <2>2. \A r, s \in mine : r = s
    BY <2>1
  <2> HIDE DEF mine
  <2> QED
    BY <2>2
<1>6. mine = {} \/ \E s \in sub : mine = {s}
  BY <1>5
<1> QED
  BY <1>4, <1>6

\* Types come and go, but none that the script has to do with comes.
LEMMA EachStays ==
  ASSUME EachInv, UNCHANGED <<sub, script, got>>,
         \A i \in Lists!There' : \A t : <<i, t>> \in got => i \in Lists!There
  PROVE  EachInv'
<1>1. \A i, t : Pend(i, t)' = Pend(i, t)
  BY DEF Pend
<1>2. \A x : Asked(x)' = Asked(x)
  BY DEF Asked
<1> QED
  BY <1>1, <1>2, ZenonT(30) DEF EachInv

LEMMA EachInsert ==
  ASSUME ListsInv, EachInv, NEW row, Lists!Insert(row)
  PROVE  \A i \in Lists!There' : \A t : <<i, t>> \in got => i \in Lists!There
<1>1. CASE type' = type
  BY <1>1 DEF Lists!There
<1>2. ASSUME NEW i \in Lists!Unused, type' = [type EXCEPT ![i] = row]
      PROVE  \A j \in Lists!There' : \A t : <<j, t>> \in got => j \in Lists!There
  <2>1. \A t : <<i, t>> \notin got
    <3> SUFFICES ASSUME NEW t, <<i, t>> \in got PROVE FALSE
      OBVIOUS
    <3>1. <<i, t>>[1] \in {g[1] : g \in got}
      OBVIOUS
    <3> QED
      BY <3>1 DEF Lists!Unused
  <2>2. \A j \in 1 .. MaxTerm : j # i => type'[j] = type[j]
    BY <1>2 DEF ListsInv
  <2> QED
    BY <2>1, <2>2, TermBounds DEF Lists!There
<1> QED
  BY <1>1, <1>2, InsertGives

LEMMA EachStep ==
  ASSUME ListsInv, EachInv, Lists!Next
  PROVE  EachInv'
<1>types. /\ type \in [1 .. MaxTerm -> Lists!Type \cup {Lists!NoType}] /\ script \in Script
          /\ Lists!Ids = 1 .. MaxTerm
  BY TermBounds DEF ListsInv
<1>slug. \A t \in Terms : Slugify[t] \in Lists!Slugs
  BY DEF Lists!Slugs
<1>1. ASSUME NEW slug \in Lists!Slugs, NEW t \in Terms, Lists!Create(slug, t) \/ Lists!SeedUpsert(t)
      PROVE  EachInv'
  BY <1>1, EachInsert, EachStays DEF Lists!Create, Lists!SeedUpsert
<1>2. ASSUME NEW i \in Lists!Ids, NEW slug \in Lists!Slugs, NEW t \in Terms, NEW active \in BOOLEAN,
             Lists!Update(i, slug, t, active)
      PROVE  EachInv'
  <2>1. i \in Lists!There /\ UNCHANGED <<sub, script, got>>
    BY <1>2 DEF Lists!Update
  <2>2. \A j \in 1 .. MaxTerm : j # i => type'[j] = type[j]
    BY <1>2, <1>types DEF Lists!Update
  <2>3. \A j \in Lists!There' : j \in Lists!There
    BY <1>types, <2>1, <2>2 DEF Lists!There
  <2> QED
    BY <2>1, <2>3, EachStays
<1>3. ASSUME NEW i \in Lists!Ids, Lists!Remove(i)
      PROVE  EachInv'
  <2>1. i \in Lists!There /\ UNCHANGED <<sub, script, got>>
    BY <1>3 DEF Lists!Remove
  <2>2. \A j \in 1 .. MaxTerm : j # i => type'[j] = type[j]
    BY <1>3, <1>types DEF Lists!Remove
  <2>3. \A j \in Lists!There' : j \in Lists!There
    BY <1>types, <2>1, <2>2 DEF Lists!There
  <2> QED
    BY <2>1, <2>3, EachStays
<1>4. ASSUME NEW i \in 0 .. MaxTerm, Lists!SetBody(i)
      PROVE  EachInv'
  BY <1>4, EachStays DEF Lists!SetBody, Lists!There
<1>5. ASSUME script'.at \notin {"empty", "types of", "listed"}
      PROVE  EachInv'
  BY <1>5 DEF EachInv
<1>6. ASSUME NEW terms \in SUBSET Terms, Lists!FetchTypes(terms)
      PROVE  EachInv'
  BY <1>5, <1>6 DEF Lists!FetchTypes
<1>7. CASE Lists!ForgetBodies \/ Lists!ClearTypes \/ Lists!InsertType \/ Lists!ScriptFails
  <2>1. ASSUME NEW at \in {"clear", "types"}, script' = [script EXCEPT !.at = at]
        PROVE  script'.at = at
    BY <1>types, <2>1 DEF Script
  <2>2. ASSUME NEW terms, script.at = "types", script' = [script EXCEPT !.terms = terms]
        PROVE  script'.at = "types"
    BY <1>types, <2>2 DEF Script
  <2>3. Lists!Idle.at = "idle"
    BY IdleScript
  <2>4. script'.at \in {"clear", "types", "idle"}
    BY <1>7, <2>1, <2>2, <2>3 DEF Lists!ForgetBodies, Lists!ClearTypes, Lists!InsertType, Lists!ScriptFails
  <2> QED
    BY <1>5, <2>4
<1>8. CASE Lists!ReadTypes
  <2> DEFINE read == {[id |-> i, title |-> type[i].title] : i \in {j \in Lists!There : type[j].active}}
  <2>1. \A x, y \in read : x.id = y.id => x = y
    OBVIOUS
  <2>2. script' = [at |-> "empty", todo |-> read, terms |-> {}, id |-> 0] /\ got' = {}
    BY <1>8 DEF Lists!ReadTypes, Lists!Idle, Lists!None
  <2> HIDE DEF read
  <2>3. script'.at = "empty" /\ script'.todo = read /\ script'.terms = {}
    BY <2>2
  <2> QED
    BY <2>1, <2>2, <2>3 DEF EachInv
<1>9. CASE Lists!ClearSubs
  <2>1. /\ script'.at = "types of" /\ script'.todo = script.todo /\ script'.terms = script.terms
        /\ script.at = "empty" /\ sub' = {} /\ got' = got
    BY <1>9, <1>types DEF Lists!ClearSubs, Script
  <2> QED
    BY <2>1 DEF EachInv
<1>10. CASE Lists!SubsEnd
  <2>1. /\ script'.at = "listed" /\ script'.todo = {} /\ script'.terms = {}
        /\ script.at = "types of" /\ script.todo = {} /\ UNCHANGED <<type, sub, got>>
    BY <1>10, IdleScript DEF Lists!SubsEnd
  <2>2. script.terms = {} /\ Lists!There' = Lists!There
    BY <2>1 DEF EachInv, Lists!There
  <2> QED
    BY <2>1, <2>2 DEF EachInv, Pend
<1>11. ASSUME NEW x \in script.todo, NEW terms \in SUBSET Terms, Lists!FetchSubs(x, terms)
       PROVE  EachInv'
  <2>1. /\ script.at = "types of" /\ script.terms = {} /\ UNCHANGED <<type, sub>>
        /\ script'.at = "types of" /\ script'.id = x.id /\ script'.terms = terms
        /\ script'.todo = IF terms = {} THEN script.todo \ {x} ELSE script.todo
        /\ got' = got \cup {<<x.id, t>> : t \in terms}
    BY <1>11 DEF Lists!FetchSubs
  <2>2. \A i, t : <<i, t>> \in got' <=> <<i, t>> \in got \/ (i = x.id /\ t \in terms)
    BY <2>1
  <2>3. (\A t : <<x.id, t>> \notin got) /\ x.id \in 1 .. MaxTerm
    BY <1>types, <2>1 DEF EachInv, Asked, Script, Fetched
  <2>4. got' \subseteq (1 .. MaxTerm) \X Terms
    <3>1. got \subseteq (1 .. MaxTerm) \X Terms
      BY <2>1 DEF EachInv
    <3>2. {<<x.id, t>> : t \in terms} \subseteq (1 .. MaxTerm) \X Terms
      BY <2>3
    <3> QED
      BY <2>1, <3>1, <3>2
  <2>5. Lists!There' = Lists!There
    BY <2>1 DEF Lists!There
  <2>6. \A y, z \in script'.todo : y.id = z.id => y = z
    BY <2>1 DEF EachInv
  <2>7. \A s \in sub : <<s.of, s.title>> \in got' /\ ~ Pend(s.of, s.title)'
    BY <2>1, <2>2, <2>3 DEF EachInv, Pend
  <2>8. \A i \in Lists!There, t \in Terms : <<i, t>> \in got' =>
            \/ Pend(i, t)'
            \/ \E s \in sub : s.of = i /\ s.title = t
            \/ \E s \in sub : s.slug = Slugify[t] /\ s.with # ""
    <3>1. \A i \in Lists!There, t \in Terms : <<i, t>> \in got =>
            \/ Pend(i, t)
            \/ \E s \in sub : s.of = i /\ s.title = t
            \/ \E s \in sub : s.slug = Slugify[t] /\ s.with # ""
      BY <2>1 DEF EachInv
    <3>2. \A i, t : ~ Pend(i, t) /\ (i = x.id /\ t \in terms => Pend(i, t)')
      BY <2>1 DEF Pend
    <3> QED
      BY <2>2, <3>1, <3>2
  <2>9. \A y \in script'.todo : Asked(y)' \/ \A t : <<y.id, t>> \notin got'
    <3> TAKE y \in script'.todo
    <3>1. y \in script.todo /\ (y.id = x.id => y = x)
      BY <2>1 DEF EachInv
    <3>2. \A t : <<y.id, t>> \notin got
      BY <2>1, <3>1 DEF EachInv, Asked
    <3>3. CASE y.id = x.id
      BY <2>1, <3>1, <3>3 DEF Asked
    <3>4. CASE y.id # x.id
      BY <2>2, <3>2, <3>4
    <3> QED
      BY <3>3, <3>4
  <2>10. terms # {} => \E y \in script'.todo : y.id = x.id
    BY <2>1
  <2>11. \A t \in terms : <<x.id, t>> \in got'
    BY <2>2
  <2> QED
    BY <2>1, <2>4, <2>5, <2>6, <2>7, <2>8, <2>9, <2>10, <2>11 DEF EachInv
<1>12. ASSUME NEW x \in script.todo, NEW t \in script.terms, Lists!InsertSub(x, t)
       PROVE  EachInv'
  <2>1. /\ script.at = "types of" /\ x.id = script.id /\ UNCHANGED <<type, got>>
        /\ script'.at = "types of" /\ script'.id = script.id /\ script'.terms = script.terms \ {t}
        /\ script'.todo = IF script.terms = {t} THEN script.todo \ {x} ELSE script.todo
    BY <1>12, <1>types DEF Lists!InsertSub, Script
  <2>2. /\ <<x.id, t>> \in got /\ t \in Terms /\ x.title \in Terms
        /\ \A s \in sub : ~ (s.of = x.id /\ s.title = t)
    BY <1>types, <2>1, ZenonT(30) DEF EachInv, Pend, Script, Fetched
  <2>3. Lists!There' = Lists!There
    BY <2>1 DEF Lists!There
  <2>4. Slugify[x.title] # ""
    BY <2>2, BoundsAssumption DEF Lists!Bounds
  <2> DEFINE new(w) == [of |-> x.id, title |-> t, slug |-> Slugify[t], with |-> w]
  <2>5. \A w : /\ new(w).of = x.id /\ new(w).title = t /\ new(w).slug = Slugify[t] /\ new(w).with = w
    OBVIOUS
  <2>6. \A w : Lists!Listed(x.id, t, w) =
               IF x.id \in Lists!There /\ ~ Lists!SubSlug(Slugify[t], w) THEN sub \cup {new(w)} ELSE sub
    BY DEF Lists!Listed
  <2> HIDE DEF new
  <2>7. \A w : new(w) \notin sub
    BY <2>2, <2>5
  <2>8. \/ \E w : sub' = sub \cup {new(w)}
        \/ /\ sub' = sub
           /\ x.id \in Lists!There => Lists!SubSlug(Slugify[t], Slugify[x.title])
    <3>1. sub' = IF Lists!Listed(x.id, t, "") # sub THEN Lists!Listed(x.id, t, "")
                 ELSE Lists!Listed(x.id, t, Slugify[x.title])
      BY <1>12 DEF Lists!InsertSub
    <3> QED
      BY <2>6, <2>7, <3>1
  <2>9. /\ sub \subseteq sub'
        /\ \A s \in sub' : s \in sub \/ (s.of = x.id /\ s.title = t)
        /\ \A r, s \in sub' : r \notin sub /\ s \notin sub => r = s
        /\ x.id \in Lists!There => \/ \E s \in sub' : s.of = x.id /\ s.title = t
                                   \/ \E s \in sub' : s.slug = Slugify[t] /\ s.with # ""
    BY <2>4, <2>5, <2>8 DEF Lists!SubSlug
  <2>10. \A r, s \in sub' : r.of = s.of /\ r.title = s.title => r = s
    BY <2>1, <2>2, <2>9 DEF EachInv
  <2>11. \A s \in sub' : <<s.of, s.title>> \in got' /\ ~ Pend(s.of, s.title)'
    BY <2>1, <2>2, <2>9 DEF EachInv, Pend
  <2>12. \A i \in Lists!There, u \in Terms : <<i, u>> \in got' =>
            \/ Pend(i, u)'
            \/ \E s \in sub' : s.of = i /\ s.title = u
            \/ \E s \in sub' : s.slug = Slugify[u] /\ s.with # ""
    <3> SUFFICES ASSUME NEW i \in Lists!There, NEW u \in Terms, <<i, u>> \in got, ~ Pend(i, u)'
                 PROVE  \/ \E s \in sub' : s.of = i /\ s.title = u
                        \/ \E s \in sub' : s.slug = Slugify[u] /\ s.with # ""
      BY <2>1
    <3>1. CASE i = x.id /\ u = t
      BY <2>9, <3>1
    <3>2. CASE ~ (i = x.id /\ u = t)
      <4>1. ~ Pend(i, u)
        BY <2>1, <3>2 DEF Pend
      <4>2. \/ \E s \in sub : s.of = i /\ s.title = u
            \/ \E s \in sub : s.slug = Slugify[u] /\ s.with # ""
        BY <2>1, <4>1 DEF EachInv
      <4> QED
        BY <2>9, <4>2
    <3> QED
      BY <3>1, <3>2
  <2>13. \A y \in script'.todo : Asked(y)' \/ \A u : <<y.id, u>> \notin got'
    BY <2>1 DEF EachInv, Asked
  <2>14. \A y, z \in script'.todo : y.id = z.id => y = z
    BY <2>1 DEF EachInv
  <2>15. script'.terms # {} => \E y \in script'.todo : y.id = script'.id
    BY <2>1
  <2>16. \A u \in script'.terms : <<script'.id, u>> \in got'
    BY <2>1 DEF EachInv
  <2> QED
    BY <2>1, <2>3, <2>10, <2>11, <2>12, <2>13, <2>14, <2>15, <2>16 DEF EachInv
<1>13. CASE Lists!Service
  BY <1>1, <1>2, <1>3, <1>4, <1>13 DEF Lists!Service
<1>14. CASE Lists!Scripts
  BY <1>1, <1>slug, <1>6, <1>7, <1>8, <1>9, <1>10, <1>11, <1>12, <1>14 DEF Lists!Scripts
<1> QED
  BY <1>13, <1>14 DEF Lists!Next

-----------------------------------------------------------------------------
(* All of them *)

\* What holds without conditions.
InventoryInv == CacheInv /\ CatalogueInv /\ RegistryInv /\ MediaInv /\ SkusInv /\ ListsInv /\ EachInv

LEMMA CacheStays == CacheInv /\ UNCHANGED cacheVars => CacheInv' /\ Cache!FreshRowStays
BY DEF cacheVars, CacheInv, IdsGiven, DropsExpired, Cache!FreshRowStays

LEMMA CatalogueStays == CatalogueInv /\ UNCHANGED catalogueVars => CatalogueInv'
BY DEF catalogueVars, CatalogueInv, RowsInv, Catalogue!NoDuplicates, Catalogue!UsedRowsStay,
   Catalogue!There

LEMMA RegistryStays == RegistryInv /\ UNCHANGED registryVars => RegistryInv'
BY DEF registryVars, RegistryInv, VehiclesInv, TitlesInv, MetasInv, RequestsInv, Titling,
   Registry!PricesAgree, Registry!NoOrphanTitles, Registry!There

LEMMA MediaStays == MediaInv /\ UNCHANGED mediaVars => MediaInv'
BY DEF mediaVars, MediaInv, MediaTypes, FilesInv, PrivateInv, Media!RowsHaveFiles, Media!There,
   Media!BuyerMediaPrivate

LEMMA SkusStay ==
  UNCHANGED skusVars => /\ SkusInv => SkusInv'
                        /\ UniqueInv => UniqueInv'
                        /\ FilledInv => FilledInv'
BY DEF skusVars, SkusInv, UniqueInv, FilledInv, Skus!GeneratedUnique

LEMMA ListsStay == UNCHANGED listsVars => (ListsInv => ListsInv') /\ (EachInv => EachInv')
<1> SUFFICES ASSUME UNCHANGED listsVars
             PROVE  (ListsInv => ListsInv') /\ (EachInv => EachInv')
  OBVIOUS
<1>1. Lists!There' = Lists!There /\ UNCHANGED <<type, sub, body, script, got>>
  BY DEF listsVars, Lists!There
<1>2. ListsInv => ListsInv'
  BY <1>1 DEF ListsInv
<1>3. EachInv => EachInv'
  BY <1>1, EachStays
<1> QED
  BY <1>2, <1>3

LEMMA InventoryStep ==
  ASSUME InventoryInv, [Next]_vars
  PROVE  InventoryInv' /\ Cache!FreshRowStays
<1>1. CASE CacheNext
  BY <1>1, CacheStep, CatalogueStays, RegistryStays, MediaStays, SkusStay, ListsStay
  DEF CacheNext, InventoryInv
<1>2. CASE CatalogueNext
  BY <1>2, CatalogueStep, CacheStays, RegistryStays, MediaStays, SkusStay, ListsStay
  DEF CatalogueNext, InventoryInv
<1>3. CASE RegistryNext
  BY <1>3, RegistryStep, CacheStays, CatalogueStays, MediaStays, SkusStay, ListsStay
  DEF RegistryNext, InventoryInv
<1>4. CASE MediaNext
  BY <1>4, MediaStep, CacheStays, CatalogueStays, RegistryStays, SkusStay, ListsStay
  DEF MediaNext, InventoryInv
<1>5. CASE SkusNext
  BY <1>5, SkusStep, CacheStays, CatalogueStays, RegistryStays, MediaStays, ListsStay
  DEF SkusNext, InventoryInv
<1>6. CASE ListsNext
  BY <1>6, ListsStep, EachStep, CacheStays, CatalogueStays, RegistryStays, MediaStays, SkusStay
  DEF ListsNext, InventoryInv
<1>7. CASE UNCHANGED vars
  BY <1>7, CacheStays, CatalogueStays, RegistryStays, MediaStays, SkusStay, ListsStay
  DEF vars, InventoryInv
<1> QED
  BY <1>1, <1>2, <1>3, <1>4, <1>5, <1>6, <1>7 DEF Next

LEMMA InventoryInit == Init => InventoryInv
BY CacheInit, CatalogueInit, RegistryInit, MediaInit, SkusInit, ListsInit, EachInit
DEF Init, InventoryInv

LEMMA InventoryAlways == Spec => []InventoryInv
<1> HIDE DEF InventoryInv
<1> QED
  BY InventoryInit, InventoryStep, PTL DEF Spec

\* Every row, request, file and script of every component has its type, and the requests'
\* copies and ids are of rows that were written: vehicle-*.service.ts, media.service.ts,
\* parts.service.ts, marketcheck.service.ts, nomenclators.service.ts.
THEOREM TypeCorrect == Spec => []TypeOK
<1>1. InventoryInv => TypeOK
  BY CacheTypes, CatalogueTypes, RegistryTypes, MediaTypesOK, SkusTypes, ListsTypes
  DEF InventoryInv, TypeOK
<1> QED
  BY <1>1, InventoryAlways, PTL

\* A request of MarketCheck's cache that saw an expired row never deletes a fresh one.
THEOREM FreshRowStaysCorrect == Spec => FreshRowStays
<1>1. InventoryInv /\ [Next]_vars => [Cache!FreshRowStays]_vars
  BY InventoryStep
<1> QED
  BY <1>1, InventoryAlways, PTL DEF Spec, FreshRowStays

\* No removal in the catalogue of makes and models takes away a row that a vehicle refers
\* to, and no title outlives its vehicle, whatever requests overlap.
THEOREM NothingDanglesCorrect == Spec => []NothingDangles
<1>1. InventoryInv => NothingDangles
  BY DEF InventoryInv, CatalogueInv, RowsInv, RegistryInv, VehiclesInv, NothingDangles
<1> QED
  BY <1>1, InventoryAlways, PTL

\* The old and the new name of every price of a vehicle agree, unless a client gave two.
THEOREM PricesAgreeCorrect == Spec => []PricesAgree
<1>1. InventoryInv => PricesAgree
  BY DEF InventoryInv, RegistryInv, VehiclesInv, PricesAgree
<1> QED
  BY <1>1, InventoryAlways, PTL

\* A media row has its file until its removal begins, as long as one upload or confirmation
\* has named its key, whatever requests overlap or fail.
THEOREM RowsHaveFilesCorrect == Spec => []RowsHaveFiles
<1>1. InventoryInv => RowsHaveFiles
  BY DEF InventoryInv, MediaInv, FilesInv, RowsHaveFiles
<1> QED
  BY <1>1, InventoryAlways, PTL

\* Whatever updates overlap, a buyer's medium is private unless the last of them had read it
\* before its buyer was put on.
THEOREM BuyerMediaPrivateCorrect == Spec => []BuyerMediaPrivate
<1>1. InventoryInv => BuyerMediaPrivate
  BY DEF InventoryInv, MediaInv, PrivateInv, BuyerMediaPrivate
<1> QED
  BY <1>1, InventoryAlways, PTL

\* Every row of the catalogue has its name alone under its parent, every subtype once under its type;
\* no two parts have the same generated SKU, and a backfill that is done has left none out:
\* as long as each SKU is written before the next is generated, and users enter numbers.
THEOREM EachNameOnceCorrect ==
  ASSUME InFlight = 1, UserSkus \subseteq 1 .. MaxSku
  PROVE  Spec => []EachNameOnce
<1> DEFINE Inv == InventoryInv /\ UniqueInv /\ FilledInv
<1>0. MaxSku + 1 \notin UserSkus /\ 0 \notin UserSkus
  BY SkuBounds
<1>1. Init => Inv
  BY InventoryInit, UniqueInit, FilledInit DEF Init
<1>2. Inv /\ [Next]_vars => Inv'
  <2> SUFFICES ASSUME Inv, [Next]_vars PROVE Inv'
    OBVIOUS
  <2>1. SkusInv /\ UniqueInv /\ FilledInv
    BY DEF InventoryInv
  <2>2. CASE Skus!Next
    BY <1>0, <2>1, <2>2, InventoryStep, UniqueStep, FilledStep
  <2>3. CASE UNCHANGED skusVars
    BY <2>1, <2>3, InventoryStep, SkusStay
  <2>4. Skus!Next \/ UNCHANGED skusVars
    BY DEF Next, vars, CacheNext, CatalogueNext, RegistryNext, MediaNext, SkusNext, ListsNext
  <2> QED
    BY <2>2, <2>3, <2>4
<1>3. Inv => EachNameOnce
  BY FilledDone, EachOnce DEF InventoryInv, CatalogueInv, RowsInv, UniqueInv, EachNameOnce
<1> HIDE DEF Inv
<1> QED
  BY <1>1, <1>2, <1>3, PTL DEF Spec
=============================================================================
