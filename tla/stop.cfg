SPECIFICATION Spec
CONSTANTS
  c1 = c1
  d1 = d1
  d2 = d2
  Client = {c1}
  Desc = {d1, d2}
  NoDesc = NoDesc
  NumDescs = 2
  CoalesceMax = 2
  HasSg = TRUE
  Calls = {"prep_slave_sg", "prep_dma_cyclic", "tx_status", "terminate_all"}
  Faults = {"dma_error", "start_timeout", "reset_timeout", "halt_timeout"}
  MaxSegs = 1
  MaxCookie = 3
SYMMETRY Symmetry
INVARIANTS
  SegConserved
  CyclicIsLast
PROPERTIES
  CyclicKept
CHECK_DEADLOCK FALSE
