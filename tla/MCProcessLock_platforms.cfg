SPECIFICATION FairSpec
CONSTANTS
  main = main
  watcher = watcher
  command = command
  daemonPid = daemonPid
  commandPid = commandPid
  NoFile = NoFile
  Threads <- MCThreads
  Pids <- MCPids
  DaemonMain <- MCDaemonMain
  ProcOf <- MCProcOf
  Platforms = {TRUE, FALSE}
  MaxStarts = 2
PROPERTIES
  AcquireEnds
  DeadOwnerCleared
INVARIANTS
  TypeOK
  ExclusiveUnlessMisjudged
  JudgedFileNotInUse
