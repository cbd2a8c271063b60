\* The backend: two updates that race on one fine.
CONSTANTS
  wallet = wallet
  zero = zero
  plate = plate
  lowerPlate = lowerPlate
  street = street
  speeding = speeding
  driver = driver
  blank = blank
  cid = cid
  photo = photo
  Empty = Empty
  NoBody = NoBody
  NoFile = NoFile
  Address <- OneAddress
  NoAddress = zero
  Deployer = wallet
  Wallet = wallet
  Text <- MCText
  CidOf <- MCCidOf
  Blanks <- MCBlanks
  Plates <- MCPlates
  Places <- MCPlaces
  Infractions <- MCInfractions
  Cids <- MCCids
  Normal <- MCNormal
  MaxCost = 2
  RegisterReqs = {r1}
  UpdateReqs = {u1, u2, u3}
  Bodies <- GoodBodies
  Changes <- AppealChanges
  MaxFines = 2
  MaxUpdates = 4
  MaxBlock = 0

SPECIFICATION Spec
CHECK_DEADLOCK FALSE
SYMMETRY Interchangeable

INVARIANTS
  UpdatesRecorded
  ChangesJustified
