SPECIFICATION FairSpec
CONSTANTS
  Windows = {w1}
  Clis = {}
  Words <- MCWords
  Sound <- MCSound
  Rank <- MCRank
  Silence = Silence
  MaxModels = 3
  MaxTurns = 1
  MaxCrashes = 1
  MaxFaults = 1
INVARIANTS
  TypeOK
  ShownIsChecked
  ShownIsBest
  DoneIsRecorded
  EveryModelAccounted
  RecordInv
PROPERTIES
  RecordsKept
  
  EveryWaitEnds
