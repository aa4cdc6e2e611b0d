SPECIFICATION FairSpec
CONSTANTS
  Drives = {d1}
  None = None
  MissLimit = 2
INVARIANTS
  ReportStands
  
PROPERTIES
  ForgottenInTime
  ReportArrives
