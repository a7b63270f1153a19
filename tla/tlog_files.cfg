\* Two lines to a file and one archive to keep: six lines make two rotations and remove
\* an archive.  The last process may have exited, so the system may stop.
SPECIFICATION FairSpec
CONSTANTS
  p1 = p1
  p2 = p2
  Procs = {p1, p2}
  LogSize = 1
  LogCount = 1
  Setups <- CrashFailOrPair
  MaxCrashes = 1
INVARIANTS
  TypeOK
  NothingLostAlone
  LossExplained
  ReplacedTogether
  NewestKept
  ArchivesBounded
  CleanExit
PROPERTIES
  GzipWaitedFor
CHECK_DEADLOCK FALSE
