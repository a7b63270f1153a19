\* The root log and two streams: the first one opened is in the middle of the list once
\* the second is.  The logger may have exited, so the system may stop.
SPECIFICATION FairSpec
CONSTANTS
  MaxOpen = 2
  Setups <- TwoOrRotating
  Cap = 1
INVARIANTS
  TypeOK
  SafeUse
  FreedWhenDone
PROPERTIES
  StreamsServed
  ExitFreesAll
  GzipsReaped
CHECK_DEADLOCK FALSE
