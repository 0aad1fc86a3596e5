------------------------------- MODULE AuditTrail -------------------------------
(***************************************************************************)
(* The expenses and titles of a vehicle and the log of their changes       *)
(* (extra-expense.service.ts, title.service.ts, audit-log.interceptor.ts). *)
(*                                                                         *)
(* The interceptor reads the record before the handler runs, computes the  *)
(* changes from what it read and from the body of the request, and writes  *)
(* an entry: after a success when the answer is already on its way, after  *)
(* a failure before it.  A record is one value here: any of its fields.    *)
(***************************************************************************)
EXTENDS Integers, Sequences, FiniteSets

CONSTANTS
  Expenses, Titles,  \* the ids of the rows
  Values,
  MaxRequests,       \* bound: the requests that come
  InFlight,          \* how many of them may be handled at once
  Nulls,             \* a client may send null for a field it wants to keep
  Faults             \* the entry of a success may get lost, and not only that of a failure

VARIABLES
  row,       \* extra_expenses, titles
  titles,    \* the titles in the order of their creation
  first,     \* history: the value that a title was created with
  trail,     \* audit_logs, in the order of createdAt
  requests,  \* the requests whose entry is not written yet
  count      \* how many have come

vars == <<row, titles, first, trail, requests, count>>

None    == "none"
Null    == "null"
Rows    == Expenses \cup Titles
Given   == Values \cup (IF Nulls THEN {Null} ELSE {})
Record  == Values \cup {None}
Request == [id : 1 .. MaxRequests, kind : {"create", "update", "delete", "upsert"}, r : Rows,
            body : Given \cup {None}, old : Record, pc : {"handle", "existing", "new", "log", "failed"}]
Entry   == [id : 1 .. MaxRequests, r : Rows, old : Record, new : Record \cup {Null}, ok : BOOLEAN]

Handled     == {q \in requests : q.pc # "log"}
Done(q)     == requests' = requests \ {q}
Goto(q, pc) == requests' = (requests \ {q}) \cup {[q EXCEPT !.pc = pc]}
Write(e)    == trail' = Append(trail, e)

-----------------------------------------------------------------------------
\* intercept: the record as it is before the handler.
Intercept(kind, r, body, old) ==
  /\ count < MaxRequests /\ Cardinality(Handled) < InFlight
  /\ count' = count + 1
  /\ requests' = requests \cup
       {[id |-> count + 1, kind |-> kind, r |-> r, body |-> body, old |-> old, pc |-> "handle"]}
  /\ UNCHANGED <<row, titles, first, trail>>

\* A record to be created is not looked for.
CreateExpense(r, v) ==
  /\ row[r] = None /\ \A q \in requests : q.r # r
  /\ \A i \in DOMAIN trail : trail[i].r # r
  /\ Intercept("create", r, v, None)
UpdateExpense(r, v) == Intercept("update", r, v, row[r])
DeleteExpense(r)    == Intercept("delete", r, None, row[r])
UpdateTitle(r, v)   == Intercept("update", r, v, row[r])
\* The title of the vehicle, whichever comes first.
UpsertTitle(v) ==
  LET Found == IF titles = <<>> THEN Titles ELSE {r \in Titles : row[r] # None}
  IN  \E r \in Found : Intercept("upsert", r, v, row[r])

-----------------------------------------------------------------------------
\* The handlers of the expenses, and update of a title: a row that is not there is refused;
\* the null that an expense gets is as if nothing had been sent.
HandleRow(q) ==
  /\ q.pc = "handle" /\ q.kind \in {"create", "update", "delete"}
  /\ IF q.kind = "create" \/ row[q.r] # None
     THEN /\ row' = IF q.body = Null THEN row ELSE [row EXCEPT ![q.r] = q.body]
          /\ Goto(q, "log")
     ELSE Goto(q, "failed") /\ UNCHANGED row
  /\ UNCHANGED <<titles, first, trail, count>>

\* upsert: it looks for the latest title of the vehicle, then writes that or a new one;
\* another request may have made one in between.
UpsertFind(q) ==
  /\ q.pc = "handle" /\ q.kind = "upsert"
  /\ requests' = (requests \ {q}) \cup
       {IF titles = <<>> THEN [q EXCEPT !.pc = "new"]
        ELSE [q EXCEPT !.pc = "existing", !.r = titles[Len(titles)]]}
  /\ UNCHANGED <<row, titles, first, trail, count>>

UpsertExisting(q) ==
  /\ q.pc = "existing"
  /\ row' = [row EXCEPT ![q.r] = q.body]
  /\ Goto(q, "log")
  /\ UNCHANGED <<titles, first, trail, count>>

UpsertNew(q) ==
  /\ q.pc = "new"
  /\ \E r \in Titles :
       /\ row[r] = None
       /\ row' = [row EXCEPT ![r] = q.body]
       /\ titles' = Append(titles, r)
       /\ first' = [first EXCEPT ![r] = q.body]
       /\ requests' = (requests \ {q}) \cup {[q EXCEPT !.pc = "log", !.r = r]}
  /\ UNCHANGED <<trail, count>>

-----------------------------------------------------------------------------
\* Mutated form: what is written is compared with the record as it is now.
ComputeChangesLate(q) ==
  IF q.kind \in {"update", "upsert"} THEN row[q.r] # q.body ELSE TRUE

\* computeChanges: whether the body differs from what was read; nothing was read of a
\* record that there was not.  Creations and deletions have a summary instead.
ComputeChanges(q) ==
  IF q.kind \in {"update", "upsert"} THEN q.old # None /\ q.old # q.body ELSE TRUE

\* The tap: an update without changes leaves no entry.
LogSuccess(q) ==
  /\ q.pc = "log"
  /\ IF ComputeChanges(q)
     THEN Write([id |-> q.id, r |-> q.r, old |-> q.old, new |-> q.body, ok |-> TRUE])
     ELSE UNCHANGED trail
  /\ Done(q)
  /\ UNCHANGED <<row, titles, first, count>>

\* catchError: the entry of a failure tells of no changes.
LogFailure(q) ==
  /\ q.pc = "failed"
  /\ Write([id |-> q.id, r |-> q.r, old |-> None, new |-> None, ok |-> FALSE])
  /\ Done(q)
  /\ UNCHANGED <<row, titles, first, count>>

\* createAuditLog: an error is only reported on the console; or the server stops.
LogLost(q) ==
  /\ q.pc = "failed" \/ (Faults /\ q.pc = "log")
  /\ Done(q)
  /\ UNCHANGED <<row, titles, first, trail, count>>

\* All requests have been answered and written down.
Rest == count = MaxRequests /\ requests = {} /\ UNCHANGED vars

-----------------------------------------------------------------------------
Init ==
  /\ row = [r \in Rows |-> None] /\ titles = <<>>
  /\ first = [r \in Titles |-> None]
  /\ trail = <<>> /\ requests = {} /\ count = 0

Step(q) ==
  \/ HandleRow(q) \/ UpsertFind(q) \/ UpsertExisting(q) \/ UpsertNew(q)
  \/ LogSuccess(q) \/ LogFailure(q) \/ LogLost(q)

Next ==
  \/ \E r \in Expenses :
       \/ \E v \in Values : CreateExpense(r, v)
       \/ \E v \in Given : UpdateExpense(r, v)
       \/ DeleteExpense(r)
  \/ \E r \in Titles, v \in Values : UpdateTitle(r, v)
  \/ \E v \in Values : UpsertTitle(v)
  \/ \E q \in requests : Step(q)
  \/ Rest

Spec == Init /\ [][Next]_vars

-----------------------------------------------------------------------------
\* A title that is there has been created; entries are about requests that have come.
TypeOK ==
  /\ row \in [Rows -> Record] /\ first \in [Titles -> Record]
  /\ titles \in Seq(Titles) /\ trail \in Seq(Entry)
  /\ requests \subseteq Request /\ count \in 0 .. MaxRequests
  /\ \A r \in Titles : row[r] # None <=> \E i \in DOMAIN titles : titles[i] = r

Into(r, v)  == {i \in DOMAIN trail : trail[i].ok /\ trail[i].r = r /\ trail[i].new = v}
OutOf(r, v) == {i \in DOMAIN trail : trail[i].ok /\ trail[i].r = r /\ trail[i].old = v}
One(P)      == IF P THEN 1 ELSE 0

\* audit-log.interceptor.ts: with one request handled at a time the log adds up, in
\* whatever order its entries are written: they lead every record, step by step, from what
\* it was at first to what it is.
TrailAddsUp ==
  (\A q \in requests : q.pc # "log") =>
    \A r \in Rows, v \in Values :
      Cardinality(Into(r, v)) - Cardinality(OutOf(r, v))
        = One(row[r] = v) - One(r \in Titles /\ first[r] = v)

-----------------------------------------------------------------------------
(* What does not hold (README, "Counterexamples"). *)

\* "Registra: Cuándo": the entries of a record are in the order of the requests.
TrailInOrder ==
  \A i, j \in DOMAIN trail : i < j /\ trail[i].r = trail[j].r => trail[i].id < trail[j].id

\* "Qué acción (create, read, update, delete)": a record that is there has been written about.
CreationsLogged ==
  (\A q \in requests : q.pc # "log") =>
    \A r \in Rows : row[r] # None => \E i \in DOMAIN trail : trail[i].r = r

\* A vehicle has one title, which is updated.
OneTitle == Len(titles) <= 1
=============================================================================
