------------------------------ MODULE PartSkus ------------------------------
(***************************************************************************)
(* The SKUs of a tenant's parts (parts.service.ts).  generateSku looks for *)
(* the highest SKU with the prefix HTW-P- and returns the next one; the    *)
(* row with it is written later, and no constraint of the database makes   *)
(* SKUs unique.                                                            *)
(*                                                                         *)
(* A SKU is a number: 0 for none, n for HTW-P- and n in six digits, and    *)
(* Typed for a SKU that a user has typed with the prefix and letters after *)
(* it.  SKUs are compared as strings, and letters sort after digits.       *)
(***************************************************************************)
EXTENDS Integers, FiniteSetsExt

CONSTANTS
  Parts,
  NoPart,     \* no part
  Backfills,  \* the requests that fill in missing SKUs
  InFlight,   \* bound: the generated SKUs that are not written yet
  MaxSku,     \* bound: the highest number of the model
  UserSkus    \* what users enter for a SKU: a subset of 0 .. MaxSku + 1

Unborn == -1
None   == 0
Typed  == MaxSku + 1

Bounds ==
  /\ IsFiniteSet(Backfills)
  /\ MaxSku \in Nat /\ InFlight \in Nat /\ UserSkus \subseteq None .. Typed

VARIABLES
  there,     \* the parts whose row is there
  sku,       \* Part.sku of every part
  creates,   \* the creates between generateSku and the insert
  backfill,  \* the backfills: where they are and which parts are still to do
  generated  \* history: the parts whose SKU is generateSku's

vars == <<there, sku, creates, backfill, generated>>

Skus == None .. Typed
Fresh(p) == sku[p] = Unborn /\ \A c \in creates : c.part # p

\* Mutated form: the number of SKUs is taken for the highest one.
GenerateSkuByCount == Cardinality({p \in there : sku[p] # None}) + 1

\* generateSku: parseInt of letters is NaN, and the numbering starts again.
GenerateSku ==
  LET used == {sku[p] : p \in there} \ {None} IN
  IF used = {} \/ Typed \in used THEN 1 ELSE Max(used) + 1

Pending == Cardinality(creates) + Cardinality({b \in Backfills : backfill[b].at = "write"})

\* create with a SKU: it is stored as it is.
CreateWithSku(p, s) ==
  /\ Fresh(p)
  /\ s # None
  /\ there' = there \cup {p}
  /\ sku' = [sku EXCEPT ![p] = s]
  /\ generated' = generated \ {p}
  /\ UNCHANGED <<creates, backfill>>

\* Mutated form: the row is inserted before its SKU is known.
CreateGenerateEarly(p) ==
  /\ Fresh(p)
  /\ Pending < InFlight
  /\ GenerateSku # MaxSku + 1
  /\ there' = there \cup {p}
  /\ creates' = creates \cup {[part |-> p, sku |-> GenerateSku]}
  /\ UNCHANGED <<sku, backfill, generated>>

\* create without one: generate it ...
CreateGenerate(p) ==
  /\ Fresh(p)
  /\ Pending < InFlight
  /\ GenerateSku # MaxSku + 1
  /\ creates' = creates \cup {[part |-> p, sku |-> GenerateSku]}
  /\ UNCHANGED <<there, sku, backfill, generated>>

\* ... and insert the row.
CreateInsert(c) ==
  /\ there' = there \cup {c.part}
  /\ sku' = [sku EXCEPT ![c.part] = c.sku]
  /\ generated' = generated \cup {c.part}
  /\ creates' = creates \ {c}
  /\ UNCHANGED backfill

\* createAndAssociate (vehicle-parts.service.ts) stores the SKU it is given, which
\* may be none.
CreateForVehicle(p) ==
  /\ Fresh(p)
  /\ there' = there \cup {p}
  /\ sku' = [sku EXCEPT ![p] = None]
  /\ generated' = generated \ {p}
  /\ UNCHANGED <<creates, backfill>>

\* update: a user changes the SKU, or empties it.
UpdateSku(p, s) ==
  /\ p \in there /\ sku[p] # s
  /\ sku' = [sku EXCEPT ![p] = s]
  /\ generated' = generated \ {p}
  /\ UNCHANGED <<there, creates, backfill>>

\* remove.
RemovePart(p) ==
  /\ p \in there
  /\ there' = there \ {p}
  /\ UNCHANGED <<sku, creates, backfill, generated>>

\* backfillMissingSKUs: list the parts without a SKU ...
BackfillList(b) ==
  /\ backfill[b].at = "idle"
  /\ LET missing == {p \in there : sku[p] = None} IN
     backfill' = [backfill EXCEPT ![b] =
       [at |-> "generate", listed |-> missing, todo |-> missing, part |-> NoPart, sku |-> None]]
  /\ UNCHANGED <<there, sku, creates, generated>>

\* ... and for each of them generate one ...
BackfillGenerate(b) ==
  /\ backfill[b].at = "generate" /\ backfill[b].todo # {}
  /\ Pending < InFlight
  /\ GenerateSku # MaxSku + 1
  /\ \E p \in backfill[b].todo :
       backfill' = [backfill EXCEPT ![b] =
         [at |-> "write", listed |-> @.listed, todo |-> @.todo \ {p}, part |-> p, sku |-> GenerateSku]]
  /\ UNCHANGED <<there, sku, creates, generated>>

\* Mutated form: the error of a part that is gone ends the loop as if it were done.
BackfillWriteSwallows(b) ==
  /\ backfill[b].at = "write"
  /\ LET p == backfill[b].part IN
     IF p \in there
     THEN /\ sku' = [sku EXCEPT ![p] = backfill[b].sku]
          /\ generated' = generated \cup {p}
          /\ backfill' = [backfill EXCEPT ![b].at = "generate"]
     ELSE /\ backfill' = [backfill EXCEPT ![b].at = "done"]
          /\ UNCHANGED <<sku, generated>>
  /\ UNCHANGED <<there, creates>>

\* ... and write it.  The update of a part that is gone throws and ends the loop.
BackfillWrite(b) ==
  /\ backfill[b].at = "write"
  /\ LET p == backfill[b].part IN
     IF p \in there
     THEN /\ sku' = [sku EXCEPT ![p] = backfill[b].sku]
          /\ generated' = generated \cup {p}
          /\ backfill' = [backfill EXCEPT ![b].at = "generate"]
     ELSE /\ backfill' = [backfill EXCEPT ![b].at = "failed"]
          /\ UNCHANGED <<sku, generated>>
  /\ UNCHANGED <<there, creates>>

BackfillEnd(b) ==
  /\ backfill[b].at = "generate" /\ backfill[b].todo = {}
  /\ backfill' = [backfill EXCEPT ![b].at = "done"]
  /\ UNCHANGED <<there, sku, creates, generated>>

-----------------------------------------------------------------------------

Init ==
  /\ there     = {}
  /\ sku       = [p \in Parts |-> Unborn]
  /\ creates   = {}
  /\ backfill  = [b \in Backfills |-> [at |-> "idle", listed |-> {}, todo |-> {},
                                      part |-> NoPart, sku |-> None]]
  /\ generated = {}

Next ==
  \/ \E p \in Parts :
       \/ CreateGenerate(p) \/ CreateForVehicle(p) \/ RemovePart(p)
       \/ \E s \in UserSkus : CreateWithSku(p, s) \/ UpdateSku(p, s)
  \/ \E c \in creates : CreateInsert(c)
  \/ \E b \in Backfills :
       BackfillList(b) \/ BackfillGenerate(b) \/ BackfillWrite(b) \/ BackfillEnd(b)

-----------------------------------------------------------------------------

\* The columns and the handlers have their types: every row has a SKU or none.
TypeOK ==
  /\ there \subseteq Parts /\ generated \subseteq Parts
  /\ sku \in [Parts -> Skus \cup {Unborn}]
  /\ \A p \in there : sku[p] \in Skus
  /\ creates \subseteq [part : Parts, sku : Skus]
  /\ backfill \in [Backfills -> [at : {"idle", "generate", "write", "done", "failed"},
                                listed : SUBSET Parts, todo : SUBSET Parts,
                                part : Parts \cup {NoPart}, sku : Skus]]

\* generateSku "generates a unique SKU": no two parts have the same one from it, as
\* long as each is written before the next is generated.
GeneratedUnique ==
  \A p, q \in generated \cap there : sku[p] = sku[q] => p = q

\* A backfill that reports success has given every listed part that is still there
\* a SKU, whatever happened meanwhile (users do not empty SKUs here).
DoneMeansFilled ==
  \A b \in Backfills : backfill[b].at = "done" =>
    \A p \in backfill[b].listed \cap there : sku[p] # None
=============================================================================
