SPECIFICATION Spec
CONSTANTS
  Windows = {w1, w2}
  Clis = {}
  Words <- MCWords
  Sound <- MCSound
  Rank <- MCRank
  Silence = Silence
  MaxModels = 1
  MaxTurns = 2
  MaxCrashes = 1
  MaxFaults = 0
INVARIANTS
  PlacesApart
