SPECIFICATION FairSpec
CONSTANTS
  watcher = watcher
  window = window
  Threads = {watcher, window}
  Uses <- MCUses
  Server = Server
  PipeRoom = 2
  Room = 1
INVARIANTS
  TypeOK
  NothingLeftOpen
  AnswerIsWhole
PROPERTIES
  WriterGoesOn
  EveryCallEnds
