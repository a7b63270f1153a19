\* The smallest ring tlog_init allows, lines of one or two bytes: some wraps leave a gap,
\* some do not, and five calls go round the ring twice.  The logger may be closed, so it
\* may stop.
SPECIFICATION FairSpec
CONSTANTS
  Writers = {w1, w2}
  MaxLine = 3
  BuffSize = 6
  Calls = 5
INVARIANTS
  TypeOK
  OutputInOrder
  DropsCounted
  ExitFlushes
PROPERTIES
  NoOverwrite
  ExitTerminates
  EventuallyOutput
CHECK_DEADLOCK FALSE
