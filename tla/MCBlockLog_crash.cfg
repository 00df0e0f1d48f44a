CONSTANTS
  Payloads = {p, q}
  MaxBlock = 4
SPECIFICATION Spec
INVARIANTS
  EveryBlockIsRead
PROPERTIES
  IsDurableLog
