\* Sender and a file message that was sent (worker.c:375).
SPECIFICATION FairSpec
CONSTANTS
  MAX_BUFF_SIZE = 1
  node_size = 3
  node_count = 1
  max_fcnt = 1
  max_fsize = 2
  Traffic = 4
  NULL = NULL
  Senders = {"init", "ctrl"}
  Signals = {"HUP", "QUIT", "TERM"}
PROPERTY QueueIsServed
CHECK_DEADLOCK FALSE
