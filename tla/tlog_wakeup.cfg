\* The smallest ring tlog_init allows, filled by two threads; the logger may stop.
SPECIFICATION FairSpec
CONSTANTS
  Writers = {w1, w2}
  MaxLine = 3
  BuffSize = 6
  Calls = 4
PROPERTIES
  WaitersProceed
CHECK_DEADLOCK FALSE
