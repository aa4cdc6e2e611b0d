SPECIFICATION FairSpec
CONSTANTS
  Windows = {w1}
  Commands = {c1}
  NoOne = NoOne
  MaxMishaps = 1
  MaxFlips = 1
  MaxByHand = 1
CHECK_DEADLOCK FALSE
INVARIANTS
  TypeOK
  OneMount
  IInv
PROPERTIES
  LiveStays
  OthersStay
  FilesInSight
  ComesBack
  DeadIsCleared
  LockIsLetGo
