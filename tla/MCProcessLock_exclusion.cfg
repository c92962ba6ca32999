SPECIFICATION Spec
CONSTANTS
  main = main
  watcher = watcher
  command = command
  daemonPid = daemonPid
  commandPid = commandPid
  NoFile = NoFile
  Threads <- MCTwoThreads
  Pids <- MCPids
  DaemonMain <- MCDaemonMain
  ProcOf <- MCProcOfTwo
  Platforms = {TRUE}
  MaxStarts = 1
INVARIANT
  MutualExclusion
