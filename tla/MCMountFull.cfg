SPECIFICATION FairSpec
CONSTANTS
  Windows = {w1}
  Commands = {}
  NoOne = NoOne
  MaxMishaps = 0
  MaxFlips = 1
  MaxByHand = 0
CHECK_DEADLOCK FALSE
PROPERTIES
  FullIsLeft
