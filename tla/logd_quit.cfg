\* The end of the daemon; three datagrams reach the cache of files.
SPECIFICATION FairSpec
CONSTANTS
  MAX_BUFF_SIZE = 1
  node_size = 3
  node_count = 1
  max_fcnt = 1
  max_fsize = 1
  Traffic = 3
  NULL = NULL
  Senders = {"init", "ctrl"}
  Signals = {"HUP", "QUIT", "TERM"}
INVARIANT ArrivesInOrder
PROPERTY QuitTerminates
CHECK_DEADLOCK FALSE
