\* Type of the last message (worker.c:402).
SPECIFICATION Spec
CONSTANTS
  MAX_BUFF_SIZE = 1
  node_size = 4
  node_count = 1
  max_fcnt = 1
  max_fsize = 2
  Traffic = 4
  NULL = NULL
  Senders = {"init", "ctrl"}
  Signals = {"HUP", "QUIT", "TERM"}
INVARIANT FileMsgNamesFiles
CHECK_DEADLOCK FALSE
