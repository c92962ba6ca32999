--------------------------- MODULE MCProcessLock ---------------------------
(***************************************************************************)
(* Small instances of ProcessLock: a daemon process with its main and its  *)
(* watcher thread, and a command-line process; or one thread per process.  *)
(***************************************************************************)
EXTENDS ProcessLock

CONSTANTS main, watcher, command, daemonPid, commandPid

MCThreads == {main, watcher, command}
MCTwoThreads == {main, command}
MCDaemonMain == {main}
MCPids == {daemonPid, commandPid}
MCProcOf == [t \in MCThreads |-> IF t = command THEN commandPid ELSE daemonPid]
MCProcOfTwo == [t \in MCTwoThreads |-> IF t = command THEN commandPid ELSE daemonPid]
=============================================================================
