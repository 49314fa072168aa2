\* What a transaction transfers: cut into segments, transferred, and its residue.
SPECIFICATION Spec
CONSTANTS
  MaxTransLen = 3
  NumSegs = 6
  MaxQueued = 2
  SgLists <- MCSgLists
  CyclicBufs <- MCCyclicBufs
INVARIANTS
  EveryByteOnce
  CutInOrder
  LengthsFit
  ResidueBetween
