\* Cores are bound while processes look others up; unbound only when nobody does.
\* Mappings may be missing, and addresses too large.
SPECIFICATION FairSpec
CONSTANTS
  led = led
  led2 = led2
  capctl = capctl
  Dev <- MCDev
  Head = head
  IdOf <- MCIdOf
  Thread = {t1}
  Process = {p1, p2}
  Asked = {0, 1, 2}
  Addr = {0, 2}
  Words = 2
  Faults = {"ioremap"}
  Races = {}
INVARIANTS
  NoFault
  FindsRegistered
PROPERTIES
  IoctlReturns
