\* One core, and processes that register only
\* themselves and give their registration back before they exit; every call of init,
\* of probe and of the ioctl may fail.
SPECIFICATION Spec
CONSTANTS
  first = first
  second = second
  reuse = reuse
  Process <- MCProcess
  PidOf <- MCPidOf
  MayStore <- MCOwnPid
  NoTask = NoTask
  Cores = 1
  Exit = "unregistered"
  Faults = {"init", "mem_region", "ioremap", "request_irq", "no_irq", "copy"}
INVARIANTS
  TaskIsOwner
  TaskIsRunning
  UnboundHasNothing
  LastGotFirstBack
\* After an init that has failed and the exit of the processes nothing is left to do.
CHECK_DEADLOCK FALSE
