------------------------------ MODULE Nomenclators ------------------------------
(***************************************************************************)
(* The lists of terms that nomenclators.service.ts keeps for everyone,     *)
(* by the one with most attached to it: body types, which have subtypes    *)
(* and are referred to by vehicles; the others are body types without      *)
(* subtypes.  Besides the requests that change the list there are the      *)
(* scripts that fill it: seedNomenclators, and sync-body-types.ts and      *)
(* sync-body-subtypes.ts, which delete everything and insert what          *)
(* MarketCheck knows.  A request is one step: it looks for what the unique *)
(* slug and the foreign keys look for again when it writes, and writes     *)
(* nothing it has read.                                                    *)
(*                                                                         *)
(* Not modelled: the terms a tenant adds to a list, the lists of terms     *)
(* that are given out, the paging of MarketCheck's answers.                *)
(***************************************************************************)
EXTENDS Naturals, FiniteSets

CONSTANTS
  Titles,    \* what terms are called
  Slugify,   \* slugify: a title's slug
  MaxRow,    \* bound: ids of body types
  MaxTypes   \* bound: body types at once

Bounds == MaxRow \in Nat /\ \A t \in Titles : Slugify[t] # ""

VARIABLES
  type,      \* body_types by id
  sub,       \* body_subtypes
  body,      \* the body type of a vehicle, or None
  script,    \* the script that is running
  got        \* what sync-body-subtypes was told: the type's id and a term of it

vars == <<type, sub, body, script, got>>

None   == 0
Ids    == 1 .. MaxRow
Slugs  == {Slugify[t] : t \in Titles}
NoType == [slug |-> "", title |-> "", active |-> FALSE]
Type   == [slug : Slugs, title : Titles, active : BOOLEAN]
\* A subtype's slug is its own, or its own and the type's.
Sub    == [of : Ids, title : Titles, slug : Slugs, with : Slugs \cup {""}]
Idle   == [at |-> "idle", todo |-> {}, terms |-> {}, id |-> None]

There     == {i \in Ids : type[i] # NoType}
Taken(s)  == {i \in There : type[i].slug = s}
SubsOf(i) == {s \in sub : s.of = i}
\* An id is never given twice: nothing speaks of it any more.
Unused    == (Ids \ There) \ ({x.id : x \in script.todo} \cup {g[1] : g \in got})
SubSlug(s, w) == \E x \in sub : x.slug = s /\ x.with = w

\* Insert a body type; the unique slug refuses it, and nothing happens.
Insert(row) ==
  IF Taken(row.slug) # {} THEN UNCHANGED type
  ELSE /\ Cardinality(There) < MaxTypes /\ Unused # {}
       /\ type' = [type EXCEPT ![CHOOSE i \in Unused : \A j \in Unused : i <= j] = row]

-----------------------------------------------------------------------------
(* The service *)

Create(slug, title) ==
  /\ Insert([slug |-> slug, title |-> title, active |-> TRUE])
  /\ UNCHANGED <<sub, body, script, got>>

Update(i, slug, title, active) ==
  /\ i \in There /\ Taken(slug) \subseteq {i}
  /\ type' = [type EXCEPT ![i] = [slug |-> slug, title |-> title, active |-> active]]
  /\ UNCHANGED <<sub, body, script, got>>

\* A type that has subtypes cannot be deleted; a vehicle forgets it.
Remove(i) ==
  /\ i \in There /\ SubsOf(i) = {}
  /\ type' = [type EXCEPT ![i] = NoType]
  /\ body' = IF body = i THEN None ELSE body
  /\ UNCHANGED <<sub, script, got>>

\* vehicle.service.ts: the type is one there is, or none.
SetBody(i) ==
  /\ i \in There \cup {None}
  /\ body' = i
  /\ UNCHANGED <<type, sub, script, got>>

-----------------------------------------------------------------------------
(* seedNomenclators *)

\* upsert with nothing to update: terms that were deleted come back, others stay.
SeedUpsert(t) ==
  /\ Insert([slug |-> Slugify[t], title |-> t, active |-> TRUE])
  /\ UNCHANGED <<sub, body, script, got>>

-----------------------------------------------------------------------------
(* sync-body-types.ts *)

\* Everything is fetched first.
FetchTypes(terms) ==
  /\ script.at \in {"idle", "listed"}
  /\ script' = [at |-> "forget", todo |-> {}, terms |-> terms, id |-> None]
  /\ got' = {}
  /\ UNCHANGED <<type, sub, body>>

ForgetBodies ==
  /\ script.at = "forget"
  /\ body' = None
  /\ script' = [script EXCEPT !.at = "clear"]
  /\ UNCHANGED <<type, sub, got>>

\* One statement, that is refused when there are subtypes: the script ends.
ClearTypes ==
  /\ script.at = "clear"
  /\ IF sub = {}
     THEN /\ type' = [i \in Ids |-> NoType]
          /\ body' = None
          /\ script' = [script EXCEPT !.at = "types"]
     ELSE script' = Idle /\ UNCHANGED <<type, body>>
  /\ UNCHANGED <<sub, got>>

InsertType ==
  /\ script.at = "types"
  /\ IF script.terms = {} THEN script' = Idle /\ UNCHANGED type
     ELSE \E t \in script.terms :
            /\ Insert([slug |-> Slugify[t], title |-> t, active |-> TRUE])
            /\ script' = [script EXCEPT !.terms = @ \ {t}]
  /\ UNCHANGED <<sub, body, got>>

-----------------------------------------------------------------------------
(* sync-body-subtypes.ts *)

\* The active types are read; todo has them with their titles of then.
ReadTypes ==
  /\ script.at \in {"idle", "listed"}
  /\ script' = [Idle EXCEPT !.at = "empty",
                            !.todo = {[id |-> i, title |-> type[i].title] : i \in {j \in There : type[j].active}}]
  /\ got' = {}
  /\ UNCHANGED <<type, sub, body>>

ClearSubs ==
  /\ script.at = "empty"
  /\ sub' = {}
  /\ script' = [script EXCEPT !.at = "types of"]
  /\ UNCHANGED <<type, body, got>>

\* The terms of the next type, or the API fails and the script ends.
FetchSubs(x, terms) ==
  /\ script.at = "types of" /\ script.terms = {} /\ x \in script.todo
  /\ script' = [at |-> "types of", id |-> x.id, terms |-> terms,
                todo |-> IF terms = {} THEN script.todo \ {x} ELSE script.todo]
  /\ got' = got \cup {<<x.id, t>> : t \in terms}
  /\ UNCHANGED <<type, sub, body>>

\* The slug, or the slug with the type's, is taken, or the type is gone: the term is skipped.
Listed(i, t, w) ==
  IF i \in There /\ ~ SubSlug(Slugify[t], w)
  THEN sub \cup {[of |-> i, title |-> t, slug |-> Slugify[t], with |-> w]} ELSE sub

\* Mutated form: a term whose slug is taken is skipped at once.
InsertSubSkips(x, t) ==
  /\ script.at = "types of" /\ x \in script.todo /\ x.id = script.id /\ t \in script.terms
  /\ sub' = Listed(x.id, t, "")
  /\ script' = [script EXCEPT !.terms = @ \ {t},
                              !.todo = IF script.terms = {t} THEN @ \ {x} ELSE @]
  /\ UNCHANGED <<type, body, got>>

InsertSub(x, t) ==
  /\ script.at = "types of" /\ x \in script.todo /\ x.id = script.id /\ t \in script.terms
  /\ sub' = IF Listed(x.id, t, "") # sub THEN Listed(x.id, t, "")
            ELSE Listed(x.id, t, Slugify[x.title])
  /\ script' = [script EXCEPT !.terms = @ \ {t},
                              !.todo = IF script.terms = {t} THEN @ \ {x} ELSE @]
  /\ UNCHANGED <<type, body, got>>

SubsEnd ==
  /\ script.at = "types of" /\ script.todo = {}
  /\ script' = [Idle EXCEPT !.at = "listed"]
  /\ UNCHANGED <<type, sub, body, got>>

\* The connection, MarketCheck or the machine fails.
ScriptFails ==
  /\ script.at \notin {"idle", "listed"}
  /\ script' = Idle /\ got' = {}
  /\ UNCHANGED <<type, sub, body>>

-----------------------------------------------------------------------------
Init ==
  /\ type = [i \in Ids |-> NoType]
  /\ sub = {} /\ body = None
  /\ script = Idle /\ got = {}

Service ==
  \/ \E slug \in Slugs, title \in Titles : Create(slug, title)
  \/ \E i \in Ids :
       \/ \E slug \in Slugs, title \in Titles, active \in BOOLEAN : Update(i, slug, title, active)
       \/ Remove(i)
  \/ \E i \in 0 .. MaxRow : SetBody(i)

Scripts ==
  \/ \E t \in Titles : SeedUpsert(t)
  \/ \E terms \in SUBSET Titles : FetchTypes(terms)
  \/ ForgetBodies \/ ClearTypes \/ InsertType
  \/ ReadTypes \/ ClearSubs \/ SubsEnd \/ ScriptFails
  \/ \E x \in script.todo :
       \/ \E terms \in SUBSET Titles : FetchSubs(x, terms)
       \/ \E t \in script.terms : InsertSub(x, t)

Next == Service \/ Scripts

Spec == Init /\ [][Next]_vars

-----------------------------------------------------------------------------
\* Rows and scripts have their types, and no slug is given twice.
TypeOK ==
  /\ \A i \in There : type[i] \in Type /\ Taken(type[i].slug) = {i}
  /\ body \in There \cup {None}
  /\ sub \subseteq Sub /\ \A s \in sub : s.of \in There
  /\ \A r, s \in sub : <<r.slug, r.with>> = <<s.slug, s.with>> => r = s
  /\ script.at \in {"idle", "forget", "clear", "types", "empty", "types of", "listed"}

\* sync-body-subtypes.ts ("Slug must be unique globally - append body type slug if
\* collision"): when the script has come to its end, every term it was told of a type that
\* is still there is a subtype of it once, though another type has the same term, or types
\* are renamed or deleted meanwhile; it is left out only ("Skipped duplicate") when a
\* subtype has taken its slug with the slug of a type appended.
EachTermOnce ==
  script.at = "listed" =>
       \A g \in got : g[1] \in There =>
         LET mine == {s \in sub : s.of = g[1] /\ s.title = g[2]} IN
         \/ \E s \in sub : mine = {s}
         \/ mine = {} /\ \E s \in sub : s.slug = Slugify[g[2]] /\ s.with # ""

-----------------------------------------------------------------------------
(* What does not hold (README, "Counterexamples"). *)

\* The subtypes that the script clears are of types it is going to ask for.
InactiveKeepSubs ==
  [][sub' = {} => \A s \in sub : s.of \in {x.id : x \in script'.todo}]_vars

\* A script takes the body type from a vehicle only when it deletes that.
BodyStays == [][body' # body /\ script' # script => type'[body] = NoType]_vars
=============================================================================
