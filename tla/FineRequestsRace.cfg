\* The backend: two updates checked against the same state.
CONSTANTS
  wallet = wallet
  zero = zero
  plate = plate
  lowerPlate = lowerPlate
  street = street
  speeding = speeding
  driver = driver
  blank = blank
  cid = cid
  photo = photo
  Empty = Empty
  NoBody = NoBody
  NoFile = NoFile
  Address <- OneAddress
  NoAddress = zero
  Deployer = wallet
  Wallet = wallet
  Text <- MCText
  CidOf <- MCCidOf
  Blanks <- MCBlanks
  Plates <- MCPlates
  Places <- MCPlaces
  Infractions <- MCInfractions
  Cids <- MCCids
  Normal <- MCNormal
  MaxCost = 2
  RegisterReqs = {r1}
  UpdateReqs = {u1, u2}
  Bodies <- GoodBodies
  Changes <- AppealChanges
  MaxFines = 2
  MaxUpdates = 3
  MaxBlock = 0

SPECIFICATION Spec
CHECK_DEADLOCK FALSE

INVARIANTS
  LegalTransitions
