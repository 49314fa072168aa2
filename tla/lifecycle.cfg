\* The engine driver and the proxy come and go, with the failures that their error
\* paths handle.
SPECIFICATION Spec
CONSTANTS
  Trees <- MCTrees
  ProbeFaults <- MCProbeFaults
  XlateArgs = {1, 2}
  Process = {p1, p2}
  ProxyFaults = {"region", "cdev"}
  OpenWhen = {"loaded", "failed"}
  MaxDma = 2
INVARIANTS
  HandlerHasChannel
  ErrorPathUndone
  ExitReleasesAll
  BufferInUseIsAllocated
  OnlyStaleCrashes
\* A crash stops the kernel.
CHECK_DEADLOCK FALSE
