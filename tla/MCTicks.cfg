SPECIFICATION Spec
CONSTANTS
  d1 = d1
  d2 = d2
  Disks = {d1, d2}
  Models = {1, 2}
  Fits = {1}
  NoDisk = NoDisk
  Holds <- MCHolds
PROPERTY TicksStay
