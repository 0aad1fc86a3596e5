SPECIFICATION Spec
CONSTANTS
  r1 = r1
  r2 = r2
  r3 = r3
  Requests = {r1, r2, r3}
  MaxId = 3
  Clients = {r1, r2}
  Names = {"a", "b"}
  NextYear = "a"
  Seeded = 2
  MaxRow = 4
  Tenants = {"t1", "t2"}
  Vins = {"v1"}
  Prices = {"p1"}
  MaxVehicle = 2
  MaxStock = 1
  Keys = {"k1"}
  Owners = {"vehicle", "buyer"}
  MaxMedia = 1
  p1 = p1
  p2 = p2
  b1 = b1
  b2 = b2
  NoPart = NoPart
  Parts = {p1, p2}
  Backfills = {b1, b2}
  InFlight = 1
  MaxSku = 4
  UserSkus = {1}
  Terms = {"SUV", "Van"}
  Slugify <- LowerCase
  MaxTerm = 3
  MaxTypes = 2
INVARIANTS TypeOK EachNameOnce NothingDangles  BuyerMediaPrivate 
PROPERTIES FreshRowStays
CHECK_DEADLOCK FALSE
