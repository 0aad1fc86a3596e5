------------------------------ MODULE MarketCache ------------------------------
(***************************************************************************)
(* The three tables in which MarketCheckService keeps answers of the       *)
(* MarketCheck API: predicted prices, comparable listings, auctions.  Each *)
(* request looks its key up, drops an expired row, asks the API and stores *)
(* the answer; requests for the same key interleave at every await.  One   *)
(* key per table is modelled: keys do not interact.                        *)
(***************************************************************************)
EXTENDS Naturals

CONSTANTS
  Requests,  \* HTTP requests
  MaxId      \* bound: rows ever stored under one key

Bounds == MaxId \in Nat

VARIABLES
  entry,     \* the row of each table: its id (0: no row) and whether it has not expired
  lastId,    \* ids are never used twice (a uuid in the code)
  req        \* the requests

vars == <<entry, lastId, req>>

Kinds   == {"price", "comps", "auction"}
Answers == {"none", "cached", "fetched", "refused", "error"}
NoRow   == [id |-> 0, fresh |-> FALSE]
Idle    == [at |-> "idle", kind |-> "price", seen |-> 0, answer |-> "none"]

\* The request goes on, or is answered.
Goes(r, at)       == req' = [req EXCEPT ![r].at = at]
Answer(r, answer) == req' = [req EXCEPT ![r].at = "done", ![r].answer = answer]

Ask(r) ==
  /\ req[r].at = "idle"
  /\ \E k \in Kinds : req' = [req EXCEPT ![r].at = "lookup", ![r].kind = k]
  /\ UNCHANGED <<entry, lastId>>

Lookup(r) ==
  /\ req[r].at = "lookup"
  /\ LET row == entry[req[r].kind]
     IN IF row.id = 0 THEN Goes(r, "fetch")
        ELSE IF row.fresh THEN Answer(r, "cached")
        ELSE req' = [req EXCEPT ![r].at = "drop", ![r].seen = row.id]
  /\ UNCHANGED <<entry, lastId>>

\* Mutated form: the row is deleted by its key, whichever row that is by now.
DropExpiredByKey(r) ==
  /\ req[r].at = "drop"
  /\ entry' = [entry EXCEPT ![req[r].kind] = NoRow]
  /\ Goes(r, "fetch")
  /\ UNCHANGED lastId

\* delete by id; it throws when another request has deleted that row already.
DropExpired(r) ==
  /\ req[r].at = "drop"
  /\ IF entry[req[r].kind].id = req[r].seen
     THEN entry' = [entry EXCEPT ![req[r].kind] = NoRow] /\ Goes(r, "fetch")
     ELSE Answer(r, "error") /\ UNCHANGED entry
  /\ UNCHANGED lastId

\* The API answers, or refuses or breaks off.
Fetch(r) ==
  /\ req[r].at = "fetch"
  /\ Goes(r, "store") \/ Answer(r, "error")
  /\ UNCHANGED <<entry, lastId>>

\* create; the unique key makes it throw when another request has stored a row,
\* and the answer of the API is thrown away with it.
Store(r) ==
  LET k == req[r].kind
  IN /\ req[r].at = "store"
     /\ IF entry[k].id = 0
        THEN /\ lastId[k] < MaxId
             /\ lastId' = [lastId EXCEPT ![k] = @ + 1]
             /\ entry' = [entry EXCEPT ![k] = [id |-> lastId[k] + 1, fresh |-> TRUE]]
             /\ Answer(r, "fetched")
        ELSE Answer(r, "error") /\ UNCHANGED <<entry, lastId>>

Step(r) == Lookup(r) \/ DropExpired(r) \/ Fetch(r) \/ Store(r)

\* A mileage of 0 is refused after the lookup; no row has such a key.
RefuseMileage(r) ==
  /\ req[r].at = "fetch" /\ req[r].kind = "price"
  /\ Answer(r, "refused")
  /\ UNCHANGED <<entry, lastId>>

PriceRequest(r)   == req[r].kind = "price" /\ (Step(r) \/ RefuseMileage(r))
CompsRequest(r)   == req[r].kind = "comps" /\ Step(r)
AuctionRequest(r) == req[r].kind = "auction" /\ Step(r)

\* expiresAt passes.
Expire(k) ==
  /\ entry[k].fresh
  /\ entry' = [entry EXCEPT ![k].fresh = FALSE]
  /\ UNCHANGED <<lastId, req>>

Init ==
  /\ entry  = [k \in Kinds |-> NoRow]
  /\ lastId = [k \in Kinds |-> 0]
  /\ req    = [r \in Requests |-> Idle]

Next ==
  \/ \E r \in Requests : Ask(r) \/ PriceRequest(r) \/ CompsRequest(r) \/ AuctionRequest(r)
  \/ \E k \in Kinds : Expire(k)

TypeOK ==
  /\ entry \in [Kinds -> [id : 0 .. MaxId, fresh : BOOLEAN]]
  /\ lastId \in [Kinds -> 0 .. MaxId]
  /\ req \in [Requests -> [at : {"idle", "lookup", "drop", "fetch", "store", "done"},
                           kind : Kinds, seen : 0 .. MaxId, answer : Answers]]

\* "If expired, delete it": a request that saw an expired row never deletes the
\* fresh one that has taken its place.
FreshRowStays ==
  \A k \in Kinds : entry[k].fresh => entry'[k].id = entry[k].id

\* A request fails only when the API has failed it (README, "Counterexamples":
\* two requests that see the same expired row, or no row).
FailsOnlyWithApi ==
  \A r \in Requests :
    req[r].at \in {"drop", "store"} => req'[r].answer # "error"
=============================================================================
