SPECIFICATION FairSpec
CONSTANTS
  p1 = p1
  Process = {p1}
  Nobody = Nobody
  Present = {"tx", "rx"}
  Faults = {"no_memory", "prep_error"}
INVARIANTS
  ChannelsReleased
  TxMappedWhileDma
PROPERTIES
  TestEnds
