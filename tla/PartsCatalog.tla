------------------------------ MODULE PartsCatalog ------------------------------
(***************************************************************************)
(* The conditions and categories of parts, and the parts that refer to     *)
(* them (parts.service.ts).  Statuses are handled the way conditions are.  *)
(*                                                                         *)
(* An entry belongs to a tenant, or to none and then to all of them.  A    *)
(* request checks in one step and writes in another.  The database refuses *)
(* a reference to a row that is not there, and to delete a condition that  *)
(* is referred to; of a deleted category it forgets the references.        *)
(***************************************************************************)
EXTENDS Naturals, FiniteSets

CONSTANTS
  Tenants, Parts,
  Conditions, Categories,  \* the ids of their rows
  Slugs,
  InFlight                 \* how many requests may be handled at once

VARIABLES
  entry,     \* part_conditions, part_categories
  part,      \* parts
  requests   \* the requests being handled

vars == <<entry, part, requests>>

Shared  == "all"   \* the tenant of an entry without one
None    == "none"
Ids     == Conditions \cup Categories
Entry   == [of : Tenants \cup {Shared, None}, slug : Slugs \cup {None}, parent : Categories \cup {None}]
Part    == [of : Tenants \cup {None}, condition : Conditions \cup {None}, category : Categories \cup {None}]
NoEntry == [of |-> None, slug |-> None, parent |-> None]
NoPart  == [of |-> None, condition |-> None, category |-> None]
Request == [kind : {"create", "update", "remove", "part", "regrade"}, by : Tenants, id : Ids \cup Parts,
            entry : Entry, part : Part]

Exists(i)      == entry[i].of # None
Kind(i)        == IF i \in Conditions THEN Conditions ELSE Categories
\* { id, OR: [{ tenantId }, { tenantId: null }] }
Visible(t, i)  == Exists(i) /\ entry[i].of \in {t, Shared}
RefersToSeen(t, i)    == i # None => Visible(t, i)
SlugTaken(i, of, slug) == \E j \in Kind(i) \ {i} : entry[j].of = of /\ entry[j].slug = slug
UsedBy(i)      == {p \in Parts : i \in {part[p].condition, part[p].category}}
\* An id is never used again: no request still speaks of it.
Fresh(i)       == \A q \in requests : i \notin {q.id, q.entry.parent, q.part.condition, q.part.category}
ChildrenOf(i)  == {j \in Categories : entry[j].parent = i}

Begin(kind, t, i, e, p) ==
  /\ Cardinality(requests) < InFlight
  /\ requests' = requests \cup {[kind |-> kind, by |-> t, id |-> i, entry |-> e, part |-> p]}
  /\ UNCHANGED <<entry, part>>
Done(q) == requests' = requests \ {q}

-----------------------------------------------------------------------------
\* createCondition, createCategory: a free slug; a category's parent is one that the
\* tenant sees.
CreateConditionCheck(t, i, slug) ==
  /\ i \in Conditions /\ ~ Exists(i) /\ Fresh(i) /\ ~ SlugTaken(i, t, slug)
  /\ Begin("create", t, i, [of |-> t, slug |-> slug, parent |-> None], NoPart)

CreateCategoryCheck(t, i, slug, parent) ==
  /\ i \in Categories /\ ~ Exists(i) /\ Fresh(i) /\ ~ SlugTaken(i, t, slug)
  /\ RefersToSeen(t, parent)
  /\ Begin("create", t, i, [of |-> t, slug |-> slug, parent |-> parent], NoPart)

CreateWrite(q) ==
  /\ q.kind = "create"
  /\ entry' = IF \/ Exists(q.id) \/ SlugTaken(q.id, q.by, q.entry.slug)
                 \/ q.entry.parent # None /\ ~ Exists(q.entry.parent)
              THEN entry ELSE [entry EXCEPT ![q.id] = q.entry]
  /\ Done(q)
  /\ UNCHANGED part

\* updateCondition, updateCategory: of an entry that the tenant sees, be it everybody's; a
\* slug that is free where the entry belongs.  "Prevent circular reference": the parent is
\* another category, of which nothing else is asked.
UpdateConditionCheck(t, i, slug) ==
  /\ i \in Conditions /\ Visible(t, i) /\ ~ SlugTaken(i, entry[i].of, slug)
  /\ Begin("update", t, i, [entry[i] EXCEPT !.slug = slug], NoPart)

UpdateCategoryCheck(t, i, slug, parent) ==
  /\ i \in Categories /\ Visible(t, i) /\ ~ SlugTaken(i, entry[i].of, slug)
  /\ parent # i
  /\ Begin("update", t, i, [entry[i] EXCEPT !.slug = slug, !.parent = parent], NoPart)

UpdateWrite(q) ==
  /\ q.kind = "update"
  /\ entry' = IF \/ ~ Exists(q.id)
                 \/ entry[q.id].of # Shared /\ SlugTaken(q.id, entry[q.id].of, q.entry.slug)
                 \/ q.entry.parent # None /\ ~ Exists(q.entry.parent)
              THEN entry
              ELSE [entry EXCEPT ![q.id].slug = q.entry.slug, ![q.id].parent = q.entry.parent]
  /\ Done(q)
  /\ UNCHANGED part

\* removeCondition, removeCategory: what no part and no category refers to.
RemoveCheck(t, i) ==
  /\ Visible(t, i) /\ ChildrenOf(i) = {} /\ UsedBy(i) = {}
  /\ Begin("remove", t, i, NoEntry, NoPart)

\* Mutated form: the parts of a removed condition are left without one.
RemoveConditionForgets(q) ==
  /\ q.kind = "remove" /\ q.id \in Conditions
  /\ entry' = [entry EXCEPT ![q.id] = NoEntry]
  /\ part' = [p \in Parts |-> IF part[p].condition = q.id THEN [part[p] EXCEPT !.condition = None]
                                                          ELSE part[p]]
  /\ Done(q)

RemoveCondition(q) ==
  /\ q.kind = "remove" /\ q.id \in Conditions
  /\ entry' = IF UsedBy(q.id) = {} THEN [entry EXCEPT ![q.id] = NoEntry] ELSE entry
  /\ Done(q)
  /\ UNCHANGED part

RemoveCategory(q) ==
  /\ q.kind = "remove" /\ q.id \in Categories
  /\ entry' = [i \in Ids |-> IF i = q.id THEN NoEntry
                             ELSE IF entry[i].parent = q.id THEN [entry[i] EXCEPT !.parent = None]
                             ELSE entry[i]]
  /\ part' = [p \in Parts |-> IF part[p].category = q.id THEN [part[p] EXCEPT !.category = None]
                                                         ELSE part[p]]
  /\ Done(q)

-----------------------------------------------------------------------------
\* create of a part: its condition and category are ones that its tenant sees.
PartCheck(t, p, condition, category) ==
  /\ part[p].of = None /\ Fresh(p) /\ Visible(t, condition) /\ RefersToSeen(t, category)
  /\ Begin("part", t, p, NoEntry, [of |-> t, condition |-> condition, category |-> category])

\* update of a part: so is its condition; the category is any that there is.
PartUpdateCheck(t, p, condition, category) ==
  /\ part[p].of = t /\ Visible(t, condition)
  /\ Begin("regrade", t, p, NoEntry, [of |-> t, condition |-> condition, category |-> category])

PartWrite(q) ==
  /\ q.kind \in {"part", "regrade"}
  /\ part' = IF /\ (q.kind = "part") = (part[q.id].of = None)
                /\ Exists(q.part.condition)
                /\ q.part.category = None \/ Exists(q.part.category)
             THEN [part EXCEPT ![q.id] = q.part] ELSE part
  /\ Done(q)
  /\ UNCHANGED entry

\* remove of a part.
PartRemove(t, p) ==
  /\ part[p].of = t
  /\ part' = [part EXCEPT ![p] = NoPart]
  /\ UNCHANGED <<entry, requests>>

-----------------------------------------------------------------------------
\* Some entries come with the system.
Init ==
  /\ \E shared \in Conditions :
       entry = [i \in Ids |-> IF i = shared
                              THEN [of |-> Shared, slug |-> CHOOSE s \in Slugs : TRUE, parent |-> None]
                              ELSE NoEntry]
  /\ part = [p \in Parts |-> NoPart]
  /\ requests = {}

Write(q) ==
  CreateWrite(q) \/ UpdateWrite(q) \/ RemoveCondition(q) \/ RemoveCategory(q) \/ PartWrite(q)

Next ==
  \/ \E t \in Tenants, i \in Ids, slug \in Slugs :
       \/ CreateConditionCheck(t, i, slug) \/ UpdateConditionCheck(t, i, slug)
       \/ \E parent \in Categories \cup {None} :
            CreateCategoryCheck(t, i, slug, parent) \/ UpdateCategoryCheck(t, i, slug, parent)
       \/ RemoveCheck(t, i)
  \/ \E t \in Tenants, p \in Parts :
       \/ \E condition \in Conditions, category \in Categories \cup {None} :
            PartCheck(t, p, condition, category) \/ PartUpdateCheck(t, p, condition, category)
       \/ PartRemove(t, p)
  \/ \E q \in requests : Write(q)

Spec == Init /\ [][Next]_vars

-----------------------------------------------------------------------------
\* What refers to an entry refers to one that is there.
TypeOK ==
  /\ entry \in [Ids -> Entry] /\ part \in [Parts -> Part]
  /\ requests \subseteq Request
  /\ \A i \in Ids : entry[i].parent = None \/ Exists(entry[i].parent)
  /\ \A p \in Parts : part[p].category = None \/ Exists(part[p].category)

\* parts.service.ts, removeCondition and create: a condition is removed and a part created
\* with it at the same time, and still every part has a condition of its tenant or of all,
\* and no tenant has two conditions by one name.
PartsAreGraded ==
  /\ \A p \in Parts : part[p].of # None =>
       part[p].condition # None /\ Visible(part[p].of, part[p].condition)
  /\ \A i \in Ids : Exists(i) /\ entry[i].of # Shared => ~ SlugTaken(i, entry[i].of, entry[i].slug)

-----------------------------------------------------------------------------
(* What does not hold (README, "Counterexamples"). *)

\* removeCategory: a category that a part has stays until no part has it.
UsedCategoriesStay ==
  [][\A i \in Categories : UsedBy(i) # {} /\ Exists(i) => Exists(i)']_vars

\* "Prevent circular reference": a category is not its own parent's parent.
NoCircle ==
  \A i, j \in Categories : ~ (entry[i].parent = j /\ entry[j].parent = i)

\* A part is only in categories that its tenant sees.
CategorySeen ==
  \A p \in Parts : part[p].category # None => Visible(part[p].of, part[p].category)
=============================================================================
