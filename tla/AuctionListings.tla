---------------------------- MODULE AuctionListings ----------------------------
(***************************************************************************)
(* Auction listings: the rows that a search and the SCA sync of            *)
(* MarketCheckService upsert, the rows that the scripts import-copart.ts   *)
(* and update-copart-images.ts upsert and complete, and the favourites of  *)
(* FavoritesService that point to both.                                    *)
(*                                                                         *)
(* A listing has an external id (of MarketCheck) or lot number (of         *)
(* Copart), which is its name here, and an internal id of its row, written *)
(* Row(l).  The two are different strings.                                 *)
(***************************************************************************)
EXTENDS Naturals, FiniteSets

CONSTANTS
  Auctions,   \* MarketCheck listings
  Lots,       \* Copart lots
  Users,
  PageSize,   \* ROWS_PER_PAGE: 50 in the code
  SafetyLimit, \* 1000 in the code
  BatchSize   \* lots per insertBatch; listings per round of the image update

ASSUME PageSizeAssumption    == PageSize \in Nat
ASSUME SafetyLimitAssumption == SafetyLimit \in Nat

VARIABLES
  stored,     \* the auctions that have a row
  favourite,  \* the favourites: [user, type, row]
  pictures,   \* Copart rows: "none" (no row), "bare" (images is empty), "some"
  sync,       \* fetchAndStoreScaAuctions
  import,     \* importCopart
  update      \* main of update-copart-images.ts

vars == <<stored, favourite, pictures, sync, import, update>>

Row(l) == <<"row", l>>
Types  == {"COPART", "SCA_AUCTION"}
Lesser(a, b) == IF a < b THEN a ELSE b

-----------------------------------------------------------------------------
(* Listings and favourites *)

\* searchScaAuctions: the page the API returns is upserted before it is shown;
\* a row that cannot be stored is skipped.
SearchScaAuctions ==
  /\ \E page \in SUBSET Auctions : Cardinality(page) <= PageSize /\
       \E kept \in SUBSET page : stored' = stored \cup kept
  /\ UNCHANGED <<favourite, pictures, sync, import, update>>

\* addFavorite: the listing is looked up by the id of its row.
AddFavorite(u, type, id) ==
  /\ IF type = "COPART"
     THEN \E l \in Lots : id = Row(l) /\ pictures[l] # "none"
     ELSE \E l \in stored : id = Row(l)
  /\ favourite' = favourite \cup {[user |-> u, type |-> type, row |-> id]}
  /\ UNCHANGED <<stored, pictures, sync, import, update>>

RemoveFavorite(u, type, id) ==
  /\ favourite' = favourite \ {[user |-> u, type |-> type, row |-> id]}
  /\ UNCHANGED <<stored, pictures, sync, import, update>>

GetFavoriteIds(u, type) == {f.row : f \in {g \in favourite : g.user = u /\ g.type = type}}
IsFavorite(u, type, id) == [user |-> u, type |-> type, row |-> id] \in favourite

\* The two lists restricted to ids: by external id, and by the id of the row.
SearchScaAuctionsFromDb(ids) == {l \in stored : l \in ids}

\* Mutated form: the ids are taken for lot numbers.
FindAllCopartByLot(ids) ==
  {l \in Lots : pictures[l] # "none" /\ (ids = {} \/ l \in ids)}

FindAllCopart(ids) ==
  {l \in Lots : pictures[l] # "none" /\ (ids = {} \/ Row(l) \in ids)}

-----------------------------------------------------------------------------
(* fetchAndStoreScaAuctions *)

SyncStart ==
  /\ sync.at # "loop"
  /\ sync' = [at |-> "loop", fetched |-> 0]
  /\ UNCHANGED <<stored, favourite, pictures, import, update>>

\* Mutated form: the safety limit is left out (the count goes round, so that there are
\* finitely many states).
SyncPageUnlimited ==
  /\ sync.at = "loop"
  /\ \E n \in 0 .. PageSize, kept \in SUBSET Auctions, last \in BOOLEAN :
       /\ Cardinality(kept) <= n
       /\ stored' = stored \cup kept
       /\ sync' = [at |-> IF last \/ n < PageSize THEN "done" ELSE "loop",
                   fetched |-> (sync.fetched + n) % (SafetyLimit + 1)]
  /\ UNCHANGED <<favourite, pictures, import, update>>

\* One page: n listings, of which some are stored; num_found, which says whether it
\* was the last page, is whatever the API claims.
SyncPage ==
  /\ sync.at = "loop"
  /\ \E n \in 0 .. PageSize, kept \in SUBSET Auctions, last \in BOOLEAN :
       LET total == Lesser(SafetyLimit, sync.fetched + n) IN
       /\ Cardinality(kept) <= n
       /\ stored' = stored \cup kept
       /\ sync' = [at |-> IF last \/ n < PageSize \/ total >= SafetyLimit
                          THEN "done" ELSE "loop",
                   fetched |-> total]
  /\ UNCHANGED <<favourite, pictures, import, update>>

SyncFails ==
  /\ sync.at = "loop"
  /\ sync' = [sync EXCEPT !.at = "failed"]
  /\ UNCHANGED <<stored, favourite, pictures, import, update>>

-----------------------------------------------------------------------------
(* import-copart.ts *)

\* Mutated form: the failure of a request is stored like an answer.
FetchCopartImagesFails == {"bare", "some", "failed"}

\* What the API has for a lot, or nothing when the request fails.
FetchCopartImages == {"bare", "some"}

\* The records of a batch are upserted; those that the database refuses count as errors.
InsertBatch(batch, refused) ==
  pictures' = [l \in Lots |->
    IF l \in DOMAIN batch /\ l \notin refused THEN batch[l] ELSE pictures[l]]

Empty == [l \in {} |-> "bare"]
ImportStart ==
  /\ import.at # "loop"
  /\ \E file \in SUBSET Lots, bad \in SUBSET Lots : bad \subseteq file /\
       import' = [at |-> "loop", file |-> file \ bad, todo |-> file, batch |-> Empty,
                  refused |-> {}]
  /\ UNCHANGED <<stored, favourite, pictures, sync, update>>

\* A line: skipped when its columns or lot number are wrong, otherwise put into the batch
\* with its images; a full batch is inserted.
ImportLine(l) ==
  /\ import.at = "loop" /\ l \in import.todo
  /\ \/ /\ l \notin import.file
        /\ import' = [import EXCEPT !.todo = @ \ {l}]
        /\ UNCHANGED pictures
     \/ /\ l \in import.file
        /\ \E images \in FetchCopartImages :
             LET batch == [k \in DOMAIN import.batch \cup {l} |->
                             IF k = l THEN images ELSE import.batch[k]]
             IN IF Cardinality(DOMAIN batch) >= BatchSize
                THEN \E refused \in SUBSET DOMAIN batch :
                       /\ InsertBatch(batch, refused)
                       /\ import' = [import EXCEPT !.todo = @ \ {l}, !.batch = Empty,
                                                   !.refused = @ \cup refused]
                ELSE /\ import' = [import EXCEPT !.todo = @ \ {l}, !.batch = batch]
                     /\ UNCHANGED pictures
  /\ UNCHANGED <<stored, favourite, sync, update>>

\* Mutated form: the last, incomplete batch is forgotten.
ImportEndForgets ==
  /\ import.at = "loop" /\ import.todo = {}
  /\ import' = [import EXCEPT !.at = "done", !.batch = Empty]
  /\ UNCHANGED <<stored, favourite, pictures, sync, update>>

\* The end of the file: the remaining batch is inserted.
ImportEnd ==
  /\ import.at = "loop" /\ import.todo = {}
  /\ \E refused \in SUBSET DOMAIN import.batch :
       /\ InsertBatch(import.batch, refused)
       /\ import' = [import EXCEPT !.at = "done", !.batch = Empty, !.refused = @ \cup refused]
  /\ UNCHANGED <<stored, favourite, sync, update>>

-----------------------------------------------------------------------------
(* update-copart-images.ts *)

Bare == {l \in Lots : pictures[l] = "bare"}

UpdateStart ==
  /\ update.at # "read" /\ update.at # "work"
  /\ update' = [at |-> "read", records |-> {}, full |-> FALSE]
  /\ UNCHANGED <<stored, favourite, pictures, sync, import>>

\* The next batch of records without images; skip stays 0.
UpdateRead ==
  /\ update.at = "read"
  /\ \E records \in SUBSET Bare :
       /\ Cardinality(records) = Lesser(BatchSize, Cardinality(Bare))
       /\ update' = IF records = {} THEN [update EXCEPT !.at = "done"]
                    ELSE [at |-> "work", records |-> records,
                          full |-> Cardinality(records) = BatchSize]
  /\ UNCHANGED <<stored, favourite, pictures, sync, import>>

\* One record: its images are stored when there are any, and nothing otherwise.
UpdateRecord(l) ==
  /\ update.at = "work" /\ l \in update.records
  /\ \E images \in FetchCopartImages :
       pictures' = IF images = "some" THEN [pictures EXCEPT ![l] = "some"] ELSE pictures
  /\ update' = [update EXCEPT !.records = @ \ {l}]
  /\ UNCHANGED <<stored, favourite, sync, import>>

UpdateBatchEnd ==
  /\ update.at = "work" /\ update.records = {}
  /\ update' = [update EXCEPT !.at = IF update.full THEN "read" ELSE "done"]
  /\ UNCHANGED <<stored, favourite, pictures, sync, import>>

-----------------------------------------------------------------------------

Init ==
  /\ stored = {} /\ favourite = {}
  /\ pictures = [l \in Lots |-> "none"]
  /\ sync = [at |-> "idle", fetched |-> 0]
  /\ import = [at |-> "idle", file |-> {}, todo |-> {}, batch |-> Empty, refused |-> {}]
  /\ update = [at |-> "idle", records |-> {}, full |-> FALSE]

Sync   == SyncPage \/ SyncFails
Import == ImportEnd \/ \E l \in Lots : ImportLine(l)
Update == UpdateRead \/ UpdateBatchEnd \/ \E l \in Lots : UpdateRecord(l)

Next ==
  \/ SearchScaAuctions \/ SyncStart \/ Sync
  \/ ImportStart \/ Import \/ UpdateStart \/ Update
  \/ \E u \in Users, l \in Auctions \cup Lots, type \in Types :
       AddFavorite(u, type, Row(l)) \/ RemoveFavorite(u, type, Row(l))

\* The loops of the SCA sync and of the image update are run by the process on and on.
Spec == Init /\ [][Next]_vars /\ WF_vars(Sync) /\ WF_vars(Update)

TypeOK ==
  /\ stored \subseteq Auctions
  /\ favourite \subseteq [user : Users, type : Types, row : {Row(l) : l \in Auctions \cup Lots}]
  /\ pictures \in [Lots -> {"none", "bare", "some"}]
  /\ sync \in [at : {"idle", "loop", "done", "failed"}, fetched : 0 .. SafetyLimit]
  /\ import.at \in {"idle", "loop", "done"} /\ import.todo \subseteq Lots
  /\ update.at \in {"idle", "read", "work", "done"} /\ update.records \subseteq Lots

\* "Insert remaining batch": when the import says that it is complete, every line
\* that could be read has its row, or is among those the database refused.
ImportComplete ==
  import.at = "done" =>
    \A l \in import.file : pictures[l] # "none" \/ l \in import.refused

\* "Safety limit to avoid infinite loops": the sync ends whatever the API answers.
SyncEnds == sync.at = "loop" ~> sync.at # "loop"

\* "to avoid infinite loop": the update of the images ends (README, "Counterexamples":
\* it does not when a whole batch has no images).
ImageUpdateEnds == update.at \in {"read", "work"} ~> update.at = "done"

\* The list restricted to the favourites of a user shows exactly the lots that are marked
\* as favourites one by one, whatever is imported meanwhile.
CopartFavouritesShown ==
  \A u \in Users : LET ids == GetFavoriteIds(u, "COPART") IN
    ids # {} => FindAllCopart(ids) = {l \in Lots : IsFavorite(u, "COPART", Row(l))}

\* "We await this to ensure listings exist before user tries to favorite them": the
\* favourites a user has are what the list of favourites shows (README,
\* "Counterexamples": ids of rows are taken for external ids).
FavouritesShown ==
  \A u \in Users :
    {Row(l) : l \in SearchScaAuctionsFromDb(GetFavoriteIds(u, "SCA_AUCTION"))}
      = GetFavoriteIds(u, "SCA_AUCTION")
=============================================================================
