\* Sender ends with a message queued (worker.c:375).
SPECIFICATION Spec
CONSTANTS
  MAX_BUFF_SIZE = 1
  node_size = 3
  node_count = 1
  max_fcnt = 1
  max_fsize = 2
  Traffic = 2
  NULL = NULL
  Senders = {"init", "ctrl"}
  Signals = {"HUP", "QUIT", "TERM"}
PROPERTY QuitAfterQueue
CHECK_DEADLOCK FALSE
