CONSTANTS
  main = main
  t1 = t1
  short = short
  long = long
  Threads <- TwoThreads
  Main = main
  NoOwner = NoOwner
  Messages <- TwoMessages
  NoMessage = NoMessage
  Width <- Widths
  MAX_LOGS = 3
  TextSize = 6
  MaxEvents = 5
SPECIFICATION FairSpec
CHECK_DEADLOCK FALSE
INVARIANTS
  TypeOK
  LogIsRecent
PROPERTIES
  ImplementsEventLog
  CallsReturn
