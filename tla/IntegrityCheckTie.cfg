\* The integrity check: two updates in one block.
CONSTANTS
  wallet = wallet
  zero = zero
  plate = plate
  street = street
  speeding = speeding
  driver = driver
  cid = cid
  photo = photo
  Empty = Empty
  Address <- OneAddress
  NoAddress = zero
  Deployer = wallet
  Text <- MCText
  CidOf <- MCCidOf
  Blanks <- MCBlanks
  Plates <- MCPlates
  Places <- MCPlaces
  Infractions <- MCInfractions
  Cids <- MCCids
  Normal <- MCNormal
  MaxCost = 2
  Submissions <- ReadableSubmission
  Checks = {c1}
  MaxFines = 1
  MaxUpdates = 3
  MaxBlock = 2

SPECIFICATION Spec
CHECK_DEADLOCK FALSE

INVARIANTS
  NoFalseAlarm
