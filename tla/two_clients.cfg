SPECIFICATION FairSpec
CONSTANTS
  c1 = c1
  c2 = c2
  d1 = d1
  d2 = d2
  Client = {c1, c2}
  Desc = {d1, d2}
  NoDesc = NoDesc
  NumDescs = 2
  CoalesceMax = 2
  HasSg = TRUE
  Calls = {"prep_slave_sg", "tx_status"}
  Faults = {}
  MaxSegs = 2
  MaxCookie = 4
INVARIANTS
  TypeOK
  DescOwnedOnce
  SegConserved
  IdleMeansDrained
  Pipeline
PROPERTIES
  ImplementsFairQueue
  Progress
CHECK_DEADLOCK FALSE
