SPECIFICATION FairSpec
CONSTANTS
  Windows = {w1}
  Commands = {c1}
  NoOne = NoOne
  MaxMishaps = 0
  MaxFlips = 1
  MaxByHand = 0
CHECK_DEADLOCK FALSE
PROPERTIES
  AnsweringIsLeft
