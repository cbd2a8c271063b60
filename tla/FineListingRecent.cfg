\* The listing: more fines than the recent history holds.
CONSTANTS
  wallet = wallet
  zero = zero
  plate = plate
  street = street
  speeding = speeding
  driver = driver
  cid = cid
  photo = photo
  Empty = Empty
  Address <- OneAddress
  NoAddress = zero
  Deployer = wallet
  Text <- MCText
  CidOf <- MCCidOf
  Blanks <- MCBlanks
  Plates <- MCPlates
  Places <- MCPlaces
  Infractions <- MCInfractions
  Cids <- MCCids
  Normal <- MCNormal
  MaxCost = 10
  Submissions <- ReadableSubmissions
  Clients = {c}
  NewStates <- PaidOnly
  MaxPageSize = 2
  RecentSize = 1
  DaysToPay = 0
  MaxFines = 2
  MaxUpdates = 2
  MaxBlock = 1

SPECIFICATION Spec
CHECK_DEADLOCK FALSE

INVARIANTS
  RecentShowsLatest
