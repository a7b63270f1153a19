\* A queue of one message and a cache of two files, so that each fills up, until the
\* daemon ends; what happens between the signal to quit and the end is in logd_quit.
SPECIFICATION Spec
CONSTANTS
  MAX_BUFF_SIZE = 1
  node_size = 3
  node_count = 1
  max_fcnt = 2
  max_fsize = 1
  Traffic = 4
  NULL = NULL
  Senders = {"ctrl"}
  Signals = {"TERM"}
INVARIANTS
  TypeOK
  RecvRoom
  NamesMatchFiles
  NoSilentLoss
  ArrivesInOrder
CHECK_DEADLOCK FALSE
