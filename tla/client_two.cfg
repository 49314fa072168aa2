SPECIFICATION Spec
CONSTANTS
  p1 = p1
  p2 = p2
  Process = {p1, p2}
  Nobody = Nobody
  Present = {"tx", "rx"}
  Faults = {"timeout"}
INVARIANTS
  TransferExclusive
SYMMETRY Symmetry
CHECK_DEADLOCK FALSE
