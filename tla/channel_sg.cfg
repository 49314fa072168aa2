SPECIFICATION Spec
CONSTANTS
  c1 = c1
  d1 = d1
  d2 = d2
  d3 = d3
  Client = {c1}
  Desc = {d1, d2, d3}
  NoDesc = NoDesc
  NumDescs = 6
  CoalesceMax = 6
  HasSg = TRUE
  Calls = {"prep_slave_sg", "tx_status"}
  Faults = {"dma_error", "start_timeout"}
  MaxSegs = 2
  MaxCookie = 4
SYMMETRY Symmetry
INVARIANTS
  ChainsFollowLists
  EngineInActive
  CompletedWasTransferred
  IrqNotLost
CHECK_DEADLOCK FALSE
