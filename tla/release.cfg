SPECIFICATION Spec
CONSTANTS
  c1 = c1
  d1 = d1
  d2 = d2
  Client = {c1}
  Desc = {d1, d2}
  NoDesc = NoDesc
  NumDescs = 2
  CoalesceMax = 2
  HasSg = FALSE
  Calls = {"prep_slave_sg", "free_chan_resources"}
  Faults = {}
  MaxSegs = 2
  MaxCookie = 3
SYMMETRY Symmetry
INVARIANTS
  DescNotLost
CHECK_DEADLOCK FALSE
