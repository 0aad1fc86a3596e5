SPECIFICATION Spec
CONSTANTS
  p1 = p1
  NoVehicle = NoVehicle
  v1 = v1
  v2 = v2
  Parts = {p1}
  Vehicles = {v1, v2}
  MaxQuantity = 2
  MaxRequests = 4
  InFlight = 3
INVARIANTS TypeOK RestoredOnce
PROPERTY StockConserved
CHECK_DEADLOCK FALSE
