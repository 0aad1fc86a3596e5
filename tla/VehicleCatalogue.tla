---------------------------- MODULE VehicleCatalogue ----------------------------
(***************************************************************************)
(* Years, makes, models and trims: four tables that form a tree, each with *)
(* a service of the same shape.  A request reads (the row, its parent,     *)
(* another row of the same name, the children), and writes after an await. *)
(* The lists of makes, models and trims fill an empty level with the names *)
(* MarketCheck knows.                                                      *)
(*                                                                         *)
(* The constraints are those of schema.prisma: a name is unique under its  *)
(* parent, a child goes with its parent, a year, make or model that a      *)
(* vehicle refers to cannot be deleted, and the delete of a trim clears    *)
(* the trim of the vehicles that have it.                                  *)
(***************************************************************************)
EXTENDS Naturals, FiniteSets

CONSTANTS
  Requests,
  Names,     \* slugs (and numbers of years)
  NextYear,  \* the year to come, one of Names
  Seeded,    \* how many rows there are in the beginning
  MaxRow     \* bound: rows ever written

Bounds ==
  /\ MaxRow \in Nat /\ Seeded \in 0 .. 4 /\ Seeded <= MaxRow
  /\ NextYear \in Names /\ Names # {NextYear}

VARIABLES
  rows,      \* the rows by id
  lastRow,   \* the last id given
  used,      \* the rows that vehicles refer to
  req        \* the requests

vars == <<rows, lastRow, used, req>>

Root   == 0
Levels == 1 .. 4                 \* year, make, model, trim
Ids    == 1 .. MaxRow
NoRow  == [level |-> 0, parent |-> Root, name |-> NextYear, active |-> FALSE]
Idle   == [at |-> "idle", level |-> 0, id |-> Root, parent |-> Root, name |-> NextYear,
           todo |-> {}]

There == {i \in Ids : rows[i].level # 0}
ChildrenOf(p) == {i \in There : rows[i].parent = p /\ rows[i].level # 1}
\* Is p a row that a row of this level can have for its parent?
IsParent(p, level) == IF level = 1 THEN p = Root ELSE p \in There /\ rows[p].level = level - 1
Named(level, p, name) ==
  {i \in There : rows[i].level = level /\ rows[i].parent = p /\ rows[i].name = name}

\* A row and everything below it.
Below(i) ==
  LET c1 == ChildrenOf(i)
      c2 == UNION {ChildrenOf(c) : c \in c1}
      c3 == UNION {ChildrenOf(c) : c \in c2}
  IN {i} \cup c1 \cup c2 \cup c3

Goes(r, next) == req' = [req EXCEPT ![r] = next]
\* The request is answered, with an error or without.
End(r)        == Goes(r, [Idle EXCEPT !.at = "over"])

\* Mutated form: the table has no unique constraint.
InsertAnyway(level, p, name) ==
  IF IsParent(p, level)
  THEN /\ lastRow < MaxRow
       /\ lastRow' = lastRow + 1
       /\ rows' = [rows EXCEPT ![lastRow + 1] =
                     [level |-> level, parent |-> p, name |-> name, active |-> TRUE]]
  ELSE UNCHANGED <<rows, lastRow>>

\* The insert of a row; it throws, and changes nothing, when the parent is gone or the
\* name is taken.
Insert(level, p, name) ==
  IF IsParent(p, level) /\ Named(level, p, name) = {}
  THEN /\ lastRow < MaxRow
       /\ lastRow' = lastRow + 1
       /\ rows' = [rows EXCEPT ![lastRow + 1] =
                     [level |-> level, parent |-> p, name |-> name, active |-> TRUE]]
  ELSE UNCHANGED <<rows, lastRow>>

-----------------------------------------------------------------------------
(* create *)

CreateCheck(r, level) ==
  /\ req[r].at = "idle"
  /\ \E p \in There \cup {Root}, name \in Names :
       /\ level = 1 => p = Root
       /\ IF IsParent(p, level) /\ Named(level, p, name) = {}
          THEN Goes(r, [at |-> "create", level |-> level, id |-> Root, parent |-> p,
                        name |-> name, todo |-> {}])
          ELSE End(r)
  /\ UNCHANGED <<rows, lastRow, used>>

CreateInsert(r, level) ==
  /\ req[r].at = "create" /\ req[r].level = level
  /\ Insert(level, req[r].parent, req[r].name)
  /\ End(r)
  /\ UNCHANGED used

Create(r, level) == CreateCheck(r, level) \/ CreateInsert(r, level)

YearCreate(r)  == Create(r, 1)
MakeCreate(r)  == Create(r, 2)
ModelCreate(r) == Create(r, 3)
TrimCreate(r)  == Create(r, 4)

-----------------------------------------------------------------------------
(* update: another name, another parent, active or not *)

UpdateCheck(r, level) ==
  /\ req[r].at = "idle"
  /\ \E i \in Ids, p \in There \cup {Root}, name \in Names :
       IF /\ i \in There /\ rows[i].level = level
          /\ IsParent(p, level) /\ Named(level, p, name) \subseteq {i}
       THEN Goes(r, [at |-> "update", level |-> level, id |-> i, parent |-> p,
                     name |-> name, todo |-> {}])
       ELSE End(r)
  /\ UNCHANGED <<rows, lastRow, used>>

UpdateWrite(r, level) ==
  LET i == req[r].id  p == req[r].parent  name == req[r].name
  IN /\ req[r].at = "update" /\ req[r].level = level
     /\ IF i \in There /\ IsParent(p, level) /\ Named(level, p, name) \subseteq {i}
        THEN /\ \E active \in BOOLEAN :
                  rows' = [rows EXCEPT ![i] = [level |-> level, parent |-> p, name |-> name,
                                               active |-> active]]
             /\ End(r)
        ELSE End(r) /\ UNCHANGED rows
     /\ UNCHANGED <<lastRow, used>>

Update(r, level) == UpdateCheck(r, level) \/ UpdateWrite(r, level)

YearUpdate(r)  == Update(r, 1)
MakeUpdate(r)  == Update(r, 2)
ModelUpdate(r) == Update(r, 3)
TrimUpdate(r)  == Update(r, 4)

-----------------------------------------------------------------------------
(* remove *)

\* The row is there and has no children: trims have none to count.
RemoveCheck(r, level) ==
  /\ req[r].at = "idle"
  /\ \E i \in Ids :
       IF i \in There /\ rows[i].level = level /\ ChildrenOf(i) = {}
       THEN Goes(r, [Idle EXCEPT !.at = "remove", !.level = level, !.id = i])
       ELSE End(r)
  /\ UNCHANGED <<rows, lastRow, used>>

\* Mutated form: a vehicle's model is optional, too, and not cleared.
RemoveDeleteUsed(r, level) ==
  LET i == req[r].id
  IN /\ req[r].at = "remove" /\ req[r].level = level
     /\ IF i \in There
        THEN /\ rows' = [j \in Ids |-> IF j \in Below(i) THEN NoRow ELSE rows[j]]
             /\ End(r)
        ELSE End(r) /\ UNCHANGED rows
     /\ UNCHANGED <<lastRow, used>>

\* The delete takes along what has been put below the row since.  It throws when a vehicle
\* refers to one of the rows, unless as to its trim: that reference is set to null.
RemoveDelete(r, level) ==
  LET i == req[r].id
  IN /\ req[r].at = "remove" /\ req[r].level = level
     /\ IF i \in There /\ \A j \in Below(i) \cap used : rows[j].level = 4
        THEN /\ rows' = [j \in Ids |-> IF j \in Below(i) THEN NoRow ELSE rows[j]]
             /\ used' = used \ Below(i)
             /\ End(r)
        ELSE End(r) /\ UNCHANGED <<rows, used>>
     /\ UNCHANGED lastRow

Remove(r, level) == RemoveCheck(r, level) \/ RemoveDelete(r, level)

YearRemove(r)  == Remove(r, 1)
MakeRemove(r)  == Remove(r, 2)
ModelRemove(r) == Remove(r, 3)
TrimRemove(r)  == Remove(r, 4)

-----------------------------------------------------------------------------
(* findAll *)

\* ensureYearExists: by the list of years and by the yearly job.
EnsureYearExists == Insert(1, Root, NextYear)

YearFindAll(r) ==
  /\ req[r].at = "idle"
  /\ EnsureYearExists
  /\ End(r)
  /\ UNCHANGED used

HandleNewYearCron == EnsureYearExists /\ UNCHANGED <<used, req>>

\* The rows under a parent, perhaps only the active ones; when there are none, the names
\* MarketCheck has for it are fetched, or the request to it fails ...
FindQuery(r, level) ==
  /\ req[r].at = "idle"
  /\ \E p \in There, activeOnly \in BOOLEAN :
       /\ IsParent(p, level)
       /\ IF \E i \in ChildrenOf(p) : activeOnly => rows[i].active
          THEN End(r)
          ELSE \/ End(r)
               \/ \E names \in SUBSET Names : names # {} /\
                    Goes(r, [Idle EXCEPT !.at = "fill", !.level = level, !.parent = p,
                                         !.todo = names])
  /\ UNCHANGED <<rows, lastRow, used>>

\* ... and written one after the other, skipping those that cannot be.
FindBackfill(r, level) ==
  /\ req[r].at = "fill" /\ req[r].level = level
  /\ \E name \in req[r].todo :
       /\ Insert(level, req[r].parent, name)
       /\ IF req[r].todo = {name} THEN End(r)
          ELSE req' = [req EXCEPT ![r].todo = @ \ {name}]
  /\ UNCHANGED used

FindAll(r, level) == FindQuery(r, level) \/ FindBackfill(r, level)

MakeFindAll(r)  == FindAll(r, 2)
ModelFindAll(r) == FindAll(r, 3)
TrimFindAll(r)  == FindAll(r, 4)

-----------------------------------------------------------------------------
(* The rest *)

\* A vehicle is created that refers to a model or a trim, and to the rows above it.
UseRow(i) ==
  /\ i \in There \ used /\ rows[i].level \in {3, 4}
  /\ used' = used \cup {j \in There : i \in Below(j)}
  /\ UNCHANGED <<rows, lastRow, req>>

\* seedVehicleHierarchy upserts a make, a model or a trim.
SeedVehicleHierarchy ==
  /\ \E level \in 2 .. 4, p \in There, name \in Names :
       IsParent(p, level) /\ Named(level, p, name) = {} /\ Insert(level, p, name)
  /\ UNCHANGED <<used, req>>

\* The rows in the beginning: a year, one of its makes, ...
Init ==
  /\ rows = [i \in Ids |-> IF i > Seeded THEN NoRow ELSE
               [level |-> i, parent |-> i - 1, name |-> CHOOSE n \in Names : n # NextYear,
                active |-> TRUE]]
  /\ lastRow = Seeded
  /\ used = {}
  /\ req = [r \in Requests |-> Idle]

Next ==
  \/ \E r \in Requests :
       \/ YearCreate(r) \/ MakeCreate(r) \/ ModelCreate(r) \/ TrimCreate(r)
       \/ YearUpdate(r) \/ MakeUpdate(r) \/ ModelUpdate(r) \/ TrimUpdate(r)
       \/ YearRemove(r) \/ MakeRemove(r) \/ ModelRemove(r) \/ TrimRemove(r)
       \/ YearFindAll(r) \/ MakeFindAll(r) \/ ModelFindAll(r) \/ TrimFindAll(r)
  \/ HandleNewYearCron \/ SeedVehicleHierarchy
  \/ \E i \in Ids : UseRow(i)

TypeOK ==
  /\ rows \in [Ids -> [level : 0 .. 4, parent : 0 .. MaxRow, name : Names, active : BOOLEAN]]
  /\ lastRow \in 0 .. MaxRow /\ used \subseteq Ids
  /\ req \in [Requests -> [at : {"idle", "create", "update", "remove", "fill", "over"},
                           level : 0 .. 4, id : 0 .. MaxRow, parent : 0 .. MaxRow,
                           name : Names, todo : SUBSET Names]]

\* "Skip duplicates": two requests that fill the same level at once, or create the same
\* row at once, leave every name once under its parent.
NoDuplicates ==
  \A i, j \in There :
    (rows[i].level = rows[j].level /\ rows[i].parent = rows[j].parent
      /\ rows[i].name = rows[j].name) => i = j

\* A removal that races with the creation of a vehicle, or takes along what was put below
\* its row, leaves no vehicle that refers to a row which is gone: a model that is used stays
\* with the rows above it, and a trim that goes is no vehicle's any more.
UsedRowsStay == used \subseteq There

\* "Cannot delete make with related models": a removal takes away one row only (README,
\* "Counterexamples": a child created after the children were counted goes with it).
OnlyLeavesRemoved == Cardinality({i \in There : rows'[i].level = 0}) <= 1
=============================================================================
