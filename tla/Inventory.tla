------------------------------- MODULE Inventory -------------------------------
(***************************************************************************)
(* The parts of the system around vehicles and parts that share no         *)
(* variable: the catalogue of makes and models, the lists of terms, the    *)
(* registry of vehicles, the SKUs of parts, media, and the caches of       *)
(* MarketCheck.  A behaviour is one of one of them; scope says of which.   *)
(***************************************************************************)
EXTENDS Naturals

CONSTANTS
  Requests, MaxId,                                       \* MarketCache
  Clients, Names, NextYear, Seeded, MaxRow,              \* VehicleCatalogue
  Tenants, Vins, Prices, MaxVehicle, MaxStock,           \* VehicleRegistry
  Keys, Owners, MaxMedia,                                \* MediaStore
  Parts, NoPart, Backfills, InFlight, MaxSku, UserSkus,  \* PartSkus
  Terms, Slugify, MaxTerm, MaxTypes                      \* Nomenclators

VARIABLES
  scope,
  entry, lastId, cacheReq,
  rows, lastRow, used, catalogueReq,
  vehicle, lastVehicle, metas, titles, deals, split, vehicleReq,
  s3, media, lastMedia, owners, session, presigned, mediaReq,
  named, again, condemned, raced,
  there, sku, creates, backfill, generated,
  type, sub, body, script, got

Cache     == INSTANCE MarketCache WITH req <- cacheReq
Catalogue == INSTANCE VehicleCatalogue WITH Requests <- Clients, req <- catalogueReq
Registry  == INSTANCE VehicleRegistry WITH Requests <- Clients, req <- vehicleReq
Media     == INSTANCE MediaStore WITH
               Requests <- Clients, MaxRow <- MaxMedia, lastRow <- lastMedia, req <- mediaReq
Skus      == INSTANCE PartSkus
Lists     == INSTANCE Nomenclators WITH Titles <- Terms, MaxRow <- MaxTerm

ASSUME BoundsAssumption ==
  /\ Cache!Bounds /\ Catalogue!Bounds /\ Registry!Bounds
  /\ Media!Bounds /\ Skus!Bounds /\ Lists!Bounds

cacheVars == <<entry, lastId, cacheReq>>
catalogueVars == <<rows, lastRow, used, catalogueReq>>
registryVars == <<vehicle, lastVehicle, metas, titles, deals, split, vehicleReq>>
mediaVars == <<s3, media, lastMedia, owners, session, presigned, mediaReq,
               named, again, condemned, raced>>
skusVars == <<there, sku, creates, backfill, generated>>
listsVars == <<type, sub, body, script, got>>

vars == <<scope, cacheVars, catalogueVars, registryVars, mediaVars, skusVars, listsVars>>

Init ==
  /\ scope \in {"cache", "catalogue", "registry", "media", "skus", "lists"}
  /\ Cache!Init /\ Catalogue!Init /\ Registry!Init /\ Media!Init /\ Skus!Init /\ Lists!Init

CacheNext ==
  /\ scope = "cache" /\ Cache!Next
  /\ UNCHANGED <<scope, catalogueVars, registryVars, mediaVars, skusVars, listsVars>>
CatalogueNext ==
  /\ scope = "catalogue" /\ Catalogue!Next
  /\ UNCHANGED <<scope, cacheVars, registryVars, mediaVars, skusVars, listsVars>>
RegistryNext ==
  /\ scope = "registry" /\ Registry!Next
  /\ UNCHANGED <<scope, cacheVars, catalogueVars, mediaVars, skusVars, listsVars>>
MediaNext ==
  /\ scope = "media" /\ Media!Next
  /\ UNCHANGED <<scope, cacheVars, catalogueVars, registryVars, skusVars, listsVars>>
SkusNext ==
  /\ scope = "skus" /\ Skus!Next
  /\ UNCHANGED <<scope, cacheVars, catalogueVars, registryVars, mediaVars, listsVars>>

ListsNext ==
  /\ scope = "lists" /\ Lists!Next
  /\ UNCHANGED <<scope, cacheVars, catalogueVars, registryVars, mediaVars, skusVars>>

Next ==
  CacheNext \/ CatalogueNext \/ RegistryNext \/ MediaNext \/ SkusNext \/ ListsNext

Spec == Init /\ [][Next]_vars

-----------------------------------------------------------------------------
(* Each is stated and commented in the module of its component. *)

\* The rows, files and requests of every component have their types.
TypeOK ==
  /\ Cache!TypeOK /\ Catalogue!TypeOK /\ Registry!TypeOK
  /\ Media!TypeOK /\ Skus!TypeOK /\ Lists!TypeOK

\* marketcheck.service.ts: a request that saw an expired row never deletes a fresh one.
FreshRowStays == [][Cache!FreshRowStays]_vars

\* vehicle-*.service.ts, parts.service.ts, sync-body-subtypes.ts: concurrent creates and
\* backfills leave every name of a level once; no two parts have the same generated SKU,
\* and none that was to get one has none; every body type has each of its subtypes once.
EachNameOnce ==
  /\ Catalogue!NoDuplicates
  /\ Skus!GeneratedUnique /\ Skus!DoneMeansFilled
  /\ Lists!EachTermOnce

\* vehicle-*.service.ts, title.service.ts: a removal never takes away a row that a vehicle
\* refers to, and no title outlives its vehicle.
NothingDangles == Catalogue!UsedRowsStay /\ Registry!NoOrphanTitles

\* vehicle.service.ts: the old and the new name of a price agree.
PricesAgree == Registry!PricesAgree

\* media.service.ts: the media of a buyer are private, unless an update overtook another.
BuyerMediaPrivate == Media!BuyerMediaPrivate

\* media.service.ts: a row whose key was confirmed once has its file.
RowsHaveFiles == Media!RowsHaveFiles

-----------------------------------------------------------------------------
(* A small instance *)

LowerCase == [t \in {"SUV", "Van"} |-> IF t = "SUV" THEN "suv" ELSE "van"]
=============================================================================
