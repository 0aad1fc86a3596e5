------------------------ MODULE AuctionListingsProofs ------------------------
(***************************************************************************)
(* Proofs about AuctionListings: the types, the import of the Copart lots, *)
(* and the list of a user's favourites.                                    *)
(***************************************************************************)
EXTENDS AuctionListings, TLAPS

Listings == Auctions \cup Lots
Images   == {"bare", "some"}

\* The fields of the records that TypeOK leaves open: a batch has one of the two answers
\* for each of its lots.
ImportType ==
  /\ import = [at |-> import.at, file |-> import.file, todo |-> import.todo,
               batch |-> import.batch, refused |-> import.refused]
  /\ import.file \subseteq Lots /\ import.refused \subseteq Lots
  /\ \E S \in SUBSET Lots : import.batch \in [S -> Images]

UpdateType ==
  update \in [at : {"idle", "read", "work", "done"}, records : SUBSET Lots, full : BOOLEAN]

\* No line is lost: while the import runs, a line that can be read is still to come, or in
\* the batch, or has its row, or has been refused.
NoLineLost ==
  import.at # "idle" =>
    \A l \in import.file :
      \/ import.at = "loop" /\ l \in import.todo \cup DOMAIN import.batch
      \/ pictures[l] # "none"
      \/ l \in import.refused

\* A favourite lot has a row, for rows of lots are never deleted.
FavouriteLotsStored ==
  \A f \in favourite : f.type = "COPART" =>
    \E l \in Lots : f.row = Row(l) /\ pictures[l] # "none"

IndInv == TypeOK /\ ImportType /\ UpdateType /\ NoLineLost /\ FavouriteLotsStored

-----------------------------------------------------------------------------
(* The operators *)

LEMMA LesserType ==
  ASSUME NEW a \in Nat, NEW b \in Nat
  PROVE  Lesser(a, b) \in 0 .. a
BY DEF Lesser

\* A batch that is inserted leaves no lot without a row that had one, and gives one to each
\* of its lots that is not refused.
LEMMA InsertBatchLemma ==
  ASSUME pictures \in [Lots -> {"none", "bare", "some"}],
         NEW S \in SUBSET Lots, NEW batch \in [S -> Images], NEW refused,
         InsertBatch(batch, refused)
  PROVE  /\ pictures' \in [Lots -> {"none", "bare", "some"}]
         /\ \A l \in Lots : pictures[l] # "none" => pictures'[l] # "none"
         /\ \A l \in S \ refused : pictures'[l] # "none"
<1>1. /\ DOMAIN batch = S
      /\ \A l \in S : batch[l] \in Images
  OBVIOUS
<1>2. pictures' = [l \in Lots |-> IF l \in S /\ l \notin refused THEN batch[l] ELSE pictures[l]]
  BY <1>1 DEF InsertBatch
<1> QED BY <1>1, <1>2 DEF Images

\* What leaves the pictures alone, or only adds to them, keeps the favourites' rows.
LEMMA FavouritesKept ==
  ASSUME FavouriteLotsStored, UNCHANGED favourite,
         \A l \in Lots : pictures[l] # "none" => pictures'[l] # "none"
  PROVE  FavouriteLotsStored'
BY DEF FavouriteLotsStored

-----------------------------------------------------------------------------
(* The invariant *)

LEMMA InitIndInv == ASSUME Init PROVE IndInv
<1>1. TypeOK /\ NoLineLost /\ FavouriteLotsStored
  BY SafetyLimitAssumption DEF Init, TypeOK, NoLineLost, FavouriteLotsStored
<1>2. ImportType
  <2>1. import.batch \in [{} -> Images]
    BY DEF Init, Empty
  <2>2. import = [at |-> import.at, file |-> import.file, todo |-> import.todo,
                  batch |-> import.batch, refused |-> import.refused]
        /\ import.file \subseteq Lots /\ import.refused \subseteq Lots
    BY DEF Init
  <2> QED BY <2>1, <2>2 DEF ImportType
<1>3. UpdateType
  BY DEF Init, UpdateType
<1> QED BY <1>1, <1>2, <1>3 DEF IndInv

\* The favourites and the rows of auctions.
LEMMA FavouriteStep ==
  ASSUME IndInv, NEW u \in Users, NEW l \in Listings, NEW type \in Types,
         AddFavorite(u, type, Row(l)) \/ RemoveFavorite(u, type, Row(l))
  PROVE  IndInv'
<1> DEFINE f == [user |-> u, type |-> type, row |-> Row(l)]
<1> USE DEF IndInv
<1>1. f \in [user : Users, type : Types, row : {Row(k) : k \in Auctions \cup Lots}]
  BY DEF Listings
<1>2. UNCHANGED <<stored, pictures, sync, import, update>>
  BY DEF AddFavorite, RemoveFavorite
<1>3. CASE AddFavorite(u, type, Row(l))
  <2>1. favourite' = favourite \cup {f}
    BY <1>3 DEF AddFavorite
  <2>2. type = "COPART" => \E k \in Lots : f.row = Row(k) /\ pictures[k] # "none"
    BY <1>3 DEF AddFavorite
  <2>3. TypeOK'
    BY <1>1, <1>2, <2>1 DEF TypeOK
  <2>4. FavouriteLotsStored'
    BY <1>2, <2>1, <2>2 DEF FavouriteLotsStored
  <2> QED BY <1>2, <2>3, <2>4 DEF ImportType, UpdateType, NoLineLost
<1>4. CASE RemoveFavorite(u, type, Row(l))
  <2>1. favourite' \subseteq favourite
    BY <1>4 DEF RemoveFavorite
  <2>2. TypeOK'
    BY <1>2, <2>1 DEF TypeOK
  <2>3. FavouriteLotsStored'
    BY <1>2, <2>1 DEF FavouriteLotsStored
  <2> QED BY <1>2, <2>2, <2>3 DEF ImportType, UpdateType, NoLineLost
<1> QED BY <1>3, <1>4

\* The search and the sync.
LEMMA AuctionStep ==
  ASSUME IndInv, SearchScaAuctions \/ SyncStart \/ Sync
  PROVE  IndInv'
<1> USE DEF IndInv
<1>1. UNCHANGED <<favourite, pictures, import, update>>
  BY DEF SearchScaAuctions, SyncStart, Sync, SyncPage, SyncFails
<1>2. stored' \subseteq Auctions
  BY DEF SearchScaAuctions, SyncStart, Sync, SyncPage, SyncFails, TypeOK
<1>3. sync' \in [at : {"idle", "loop", "done", "failed"}, fetched : 0 .. SafetyLimit]
  <2>1. CASE SearchScaAuctions
    BY <2>1 DEF SearchScaAuctions, TypeOK
  <2>2. CASE SyncStart
    BY <2>2, SafetyLimitAssumption DEF SyncStart
  <2>3. CASE SyncFails
    BY <2>3 DEF SyncFails, TypeOK
  <2>4. CASE SyncPage
    <3>1. PICK n \in 0 .. PageSize, last \in BOOLEAN :
            sync' = [at |-> IF last \/ n < PageSize \/ Lesser(SafetyLimit, sync.fetched + n) >= SafetyLimit
                            THEN "done" ELSE "loop",
                     fetched |-> Lesser(SafetyLimit, sync.fetched + n)]
      BY <2>4 DEF SyncPage
    <3>2. sync.fetched + n \in Nat
      BY PageSizeAssumption, SafetyLimitAssumption DEF TypeOK
    <3>3. Lesser(SafetyLimit, sync.fetched + n) \in 0 .. SafetyLimit
      BY <3>2, SafetyLimitAssumption, LesserType
    <3> QED BY <3>1, <3>3
  <2> QED BY <2>1, <2>2, <2>3, <2>4 DEF Sync
<1> QED BY <1>1, <1>2, <1>3
      DEF TypeOK, ImportType, UpdateType, NoLineLost, FavouriteLotsStored

LEMMA ImportStartStep ==
  ASSUME IndInv, ImportStart PROVE IndInv'
<1> USE DEF IndInv
<1>1. UNCHANGED <<stored, favourite, pictures, sync, update>>
  BY DEF ImportStart
<1>2. PICK file \in SUBSET Lots, bad \in SUBSET Lots :
        import' = [at |-> "loop", file |-> file \ bad, todo |-> file, batch |-> Empty,
                   refused |-> {}]
  BY DEF ImportStart
<1>3. Empty \in [{} -> Images]
  BY DEF Empty
<1>4. TypeOK' /\ NoLineLost'
  BY <1>1, <1>2 DEF TypeOK, NoLineLost
<1>5. ImportType'
  <2>1. import'.batch \in [{} -> Images]
    BY <1>2, <1>3
  <2> QED BY <1>2, <2>1 DEF ImportType
<1> QED BY <1>1, <1>4, <1>5 DEF UpdateType, FavouriteLotsStored

\* A line of the file: skipped, put into the batch, or inserted with the batch it fills.
LEMMA ImportLineStep ==
  ASSUME IndInv, NEW l \in Lots, ImportLine(l) PROVE IndInv'
<1> USE DEF IndInv
<1>1. /\ UNCHANGED <<stored, favourite, sync, update>>
      /\ import.at = "loop" /\ l \in import.todo
  BY DEF ImportLine
<1>2. PICK S \in SUBSET Lots : import.batch \in [S -> Images]
  BY DEF ImportType
<1>3. CASE l \notin import.file
  <2>1. import' = [import EXCEPT !.todo = @ \ {l}] /\ UNCHANGED pictures
    BY <1>3 DEF ImportLine
  <2>2. import' = [at |-> import.at, file |-> import.file, todo |-> import.todo \ {l},
                   batch |-> import.batch, refused |-> import.refused]
    BY <2>1 DEF ImportType
  <2>3. TypeOK'
    BY <1>1, <2>1, <2>2 DEF TypeOK
  <2>4. ImportType'
    BY <2>2 DEF ImportType
  <2>5. NoLineLost'
    BY <1>1, <1>3, <2>1, <2>2 DEF NoLineLost
  <2> QED BY <1>1, <2>1, <2>3, <2>4, <2>5 DEF UpdateType, FavouriteLotsStored
<1>4. CASE l \in import.file
  <2> DEFINE batch(images) == [k \in DOMAIN import.batch \cup {l} |->
                                 IF k = l THEN images ELSE import.batch[k]]
  <2>1. PICK images \in FetchCopartImages :
          IF Cardinality(DOMAIN batch(images)) >= BatchSize
          THEN \E refused \in SUBSET DOMAIN batch(images) :
                 /\ InsertBatch(batch(images), refused)
                 /\ import' = [import EXCEPT !.todo = @ \ {l}, !.batch = Empty,
                                             !.refused = @ \cup refused]
          ELSE /\ import' = [import EXCEPT !.todo = @ \ {l}, !.batch = batch(images)]
               /\ UNCHANGED pictures
    BY <1>4 DEF ImportLine
  <2> DEFINE b == batch(images)  T == S \cup {l}
  <2>2. b \in [T -> Images] /\ DOMAIN b = T /\ DOMAIN import.batch = S
    BY <1>2 DEF FetchCopartImages, Images
  <2> HIDE DEF b
  <2>3. CASE /\ import' = [import EXCEPT !.todo = @ \ {l}, !.batch = b]
             /\ UNCHANGED pictures
    <3>1. import' = [at |-> import.at, file |-> import.file, todo |-> import.todo \ {l},
                     batch |-> b, refused |-> import.refused]
      BY <2>3 DEF ImportType
    <3>2. TypeOK'
      BY <1>1, <2>3, <3>1 DEF TypeOK
    <3>3. ImportType'
      <4>1. import'.batch \in [T -> Images]
        BY <2>2, <3>1
      <4>2. T \in SUBSET Lots
        OBVIOUS
      <4> HIDE DEF T
      <4> QED BY <3>1, <4>1, <4>2 DEF ImportType
    <3>4. NoLineLost'
      BY <1>1, <2>2, <2>3, <3>1 DEF NoLineLost
    <3> QED BY <1>1, <2>3, <3>2, <3>3, <3>4 DEF UpdateType, FavouriteLotsStored
  <2>4. ASSUME NEW refused \in SUBSET DOMAIN b, InsertBatch(b, refused),
               import' = [import EXCEPT !.todo = @ \ {l}, !.batch = Empty,
                                        !.refused = @ \cup refused]
        PROVE  IndInv'
    <3>1. import' = [at |-> import.at, file |-> import.file, todo |-> import.todo \ {l},
                     batch |-> Empty, refused |-> import.refused \cup refused]
      BY <2>4 DEF ImportType
    <3>2. /\ pictures' \in [Lots -> {"none", "bare", "some"}]
          /\ \A k \in Lots : pictures[k] # "none" => pictures'[k] # "none"
          /\ \A k \in T \ refused : pictures'[k] # "none"
      <4>1. T \in SUBSET Lots
        OBVIOUS
      <4> HIDE DEF T
      <4> QED BY <2>2, <2>4, <4>1, InsertBatchLemma DEF TypeOK
    <3>3. TypeOK'
      BY <1>1, <3>1, <3>2 DEF TypeOK
    <3>4. ImportType'
      <4>1. import'.batch \in [{} -> Images]
        BY <3>1 DEF Empty
      <4> QED BY <3>1, <2>2, <4>1 DEF ImportType
    <3>5. NoLineLost'
      BY <1>1, <2>2, <3>1, <3>2 DEF NoLineLost, ImportType
    <3>6. FavouriteLotsStored'
      BY <1>1, <3>2, FavouritesKept
    <3> QED BY <1>1, <3>3, <3>4, <3>5, <3>6 DEF UpdateType
  <2> QED BY <2>1, <2>3, <2>4 DEF b
<1> QED BY <1>3, <1>4

\* The end of the file.
LEMMA ImportEndStep ==
  ASSUME IndInv, ImportEnd PROVE IndInv'
<1> USE DEF IndInv
<1>1. /\ UNCHANGED <<stored, favourite, sync, update>>
      /\ import.at = "loop" /\ import.todo = {}
  BY DEF ImportEnd
<1>2. PICK refused \in SUBSET DOMAIN import.batch :
        /\ InsertBatch(import.batch, refused)
        /\ import' = [import EXCEPT !.at = "done", !.batch = Empty, !.refused = @ \cup refused]
  BY DEF ImportEnd
<1>3. PICK S \in SUBSET Lots : import.batch \in [S -> Images]
  BY DEF ImportType
<1>4. import' = [at |-> "done", file |-> import.file, todo |-> import.todo,
                 batch |-> Empty, refused |-> import.refused \cup refused]
  BY <1>2 DEF ImportType
<1>5. /\ pictures' \in [Lots -> {"none", "bare", "some"}]
      /\ \A k \in Lots : pictures[k] # "none" => pictures'[k] # "none"
      /\ \A k \in S \ refused : pictures'[k] # "none"
  BY <1>2, <1>3, InsertBatchLemma DEF TypeOK
<1>6. TypeOK'
  BY <1>1, <1>4, <1>5 DEF TypeOK
<1>7. ImportType'
  <2>1. import'.batch \in [{} -> Images]
    BY <1>4 DEF Empty
  <2> QED BY <1>3, <1>4, <2>1 DEF ImportType
<1>8. NoLineLost'
  BY <1>1, <1>3, <1>4, <1>5 DEF NoLineLost, ImportType
<1>9. FavouriteLotsStored'
  BY <1>1, <1>5, FavouritesKept
<1> QED BY <1>1, <1>6, <1>7, <1>8, <1>9 DEF UpdateType

\* update-copart-images.ts.
LEMMA UpdateStep ==
  ASSUME IndInv, UpdateStart \/ Update PROVE IndInv'
<1> USE DEF IndInv
<1>1. UNCHANGED <<stored, favourite, sync, import>>
  BY DEF UpdateStart, Update, UpdateRead, UpdateRecord, UpdateBatchEnd
<1>2. /\ pictures' \in [Lots -> {"none", "bare", "some"}]
      /\ \A k \in Lots : pictures[k] # "none" => pictures'[k] # "none"
  <2>1. CASE \E l \in Lots : UpdateRecord(l)
    BY <2>1 DEF UpdateRecord, TypeOK
  <2>2. CASE UpdateStart \/ UpdateRead \/ UpdateBatchEnd
    BY <2>2 DEF UpdateStart, UpdateRead, UpdateBatchEnd, TypeOK
  <2> QED BY <2>1, <2>2 DEF Update
<1>3. UpdateType'
  <2>1. CASE UpdateStart
    BY <2>1 DEF UpdateStart, UpdateType
  <2>2. CASE UpdateRead
    <3>1. PICK records \in SUBSET Bare :
            update' = IF records = {} THEN [update EXCEPT !.at = "done"]
                      ELSE [at |-> "work", records |-> records,
                            full |-> Cardinality(records) = BatchSize]
      BY <2>2 DEF UpdateRead
    <3>2. records \subseteq Lots
      BY DEF Bare
    <3>3. (Cardinality(records) = BatchSize) \in BOOLEAN
      OBVIOUS
    <3> QED BY <3>1, <3>2, <3>3 DEF UpdateType
  <2>3. CASE UpdateBatchEnd
    BY <2>3 DEF UpdateBatchEnd, UpdateType
  <2>4. CASE \E l \in Lots : UpdateRecord(l)
    BY <2>4 DEF UpdateRecord, UpdateType
  <2> QED BY <2>1, <2>2, <2>3, <2>4 DEF Update
<1>4. NoLineLost'
  BY <1>1, <1>2 DEF NoLineLost, ImportType
<1>5. FavouriteLotsStored'
  BY <1>1, <1>2, FavouritesKept
<1>6. TypeOK'
  BY <1>1, <1>2, <1>3 DEF TypeOK, UpdateType
<1> QED BY <1>1, <1>3, <1>4, <1>5, <1>6 DEF ImportType

LEMMA NextIndInv == ASSUME IndInv, [Next]_vars PROVE IndInv'
<1>1. CASE UNCHANGED vars
  BY <1>1 DEF vars, IndInv, TypeOK, ImportType, UpdateType, NoLineLost, FavouriteLotsStored
<1>2. CASE Next
  BY <1>2, AuctionStep, ImportStartStep, ImportLineStep, ImportEndStep, UpdateStep, FavouriteStep
     DEF Next, Import, Listings
<1> QED BY <1>1, <1>2

THEOREM Invariance == Spec => []IndInv
<1>1. Init => IndInv
  BY InitIndInv
<1>2. IndInv /\ [Next]_vars => IndInv'
  BY NextIndInv
<1> QED BY <1>1, <1>2, PTL DEF Spec

-----------------------------------------------------------------------------
(* The theorems *)

\* The rows, the favourites and the scripts keep their types, for any listings, users, page
\* size and batch size; the sync never counts beyond its safety limit.
THEOREM ListingsTypeCorrect == Spec => []TypeOK
<1>1. IndInv => TypeOK
  BY DEF IndInv
<1> QED BY <1>1, Invariance, PTL

\* import-copart.ts: when it says that it is complete, every line that could be read has
\* its row or was refused, wherever the batches were cut.
THEOREM ImportCompleteCorrect == Spec => []ImportComplete
<1>1. IndInv => ImportComplete
  BY DEF IndInv, NoLineLost, ImportComplete
<1> QED BY <1>1, Invariance, PTL

\* FavoritesService and the list of lots agree on the favourites of every user.
THEOREM FavouritesCorrect == Spec => []CopartFavouritesShown
<1>1. ASSUME IndInv, NEW u \in Users, NEW l \in Lots
      PROVE  /\ Row(l) \in GetFavoriteIds(u, "COPART") <=> IsFavorite(u, "COPART", Row(l))
             /\ IsFavorite(u, "COPART", Row(l)) => pictures[l] # "none"
  <2>1. ASSUME NEW f \in favourite, f.user = u, f.type = "COPART", f.row = Row(l)
        PROVE  f = [user |-> u, type |-> "COPART", row |-> Row(l)]
    BY <1>1, <2>1 DEF IndInv, TypeOK
  <2>2. Row(l) \in GetFavoriteIds(u, "COPART") <=> IsFavorite(u, "COPART", Row(l))
    BY <2>1 DEF GetFavoriteIds, IsFavorite
  <2>3. ASSUME IsFavorite(u, "COPART", Row(l)) PROVE pictures[l] # "none"
    <3>1. PICK k \in Lots : Row(l) = Row(k) /\ pictures[k] # "none"
      BY <1>1, <2>3 DEF IsFavorite, IndInv, FavouriteLotsStored
    <3> QED BY <3>1 DEF Row
  <2> QED BY <2>2, <2>3
<1>2. IndInv => CopartFavouritesShown
  BY <1>1 DEF CopartFavouritesShown, FindAllCopart
<1> QED BY <1>2, Invariance, PTL
=============================================================================
