SPECIFICATION Spec
CONSTANTS
  Procs = {p1, p2}
  Ids = {1, 2, 3}
  Machines = {m1, m2}
  NoPrint = NoPrint
  Disks <- MCDisks
  MaxRows = 4
  MaxMishaps = 2
  MaxChanges = 1
SYMMETRY MCSymmetry
INVARIANTS
  
  
  ShowsReading
  ShortByMishap
