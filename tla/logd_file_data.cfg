\* File sent before it is closed (worker.c:402).
SPECIFICATION Spec
CONSTANTS
  MAX_BUFF_SIZE = 1
  node_size = 3
  node_count = 1
  max_fcnt = 1
  max_fsize = 2
  Traffic = 4
  NULL = NULL
  Senders = {"init", "ctrl"}
  Signals = {"HUP", "QUIT", "TERM"}
INVARIANT FileMsgDataInFile
CHECK_DEADLOCK FALSE
