\* One process and every fault: tests that stop half-way, and the ones after them.
SPECIFICATION FairSpec
CONSTANTS
  p1 = p1
  Process <- MCProcess
  Faults = {"no_state", "ioremap", "no_memory", "no_channel", "prep_error", "timeout"}
INVARIANTS
  OutputIsOfInputs
  MappedWhileDma
PROPERTIES
  TestEnds
\* A use of a NULL pointer ends the only process.
CHECK_DEADLOCK FALSE
