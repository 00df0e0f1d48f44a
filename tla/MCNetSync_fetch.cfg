CONSTANTS
  Peers = {p1, p2}
  Blocks <- Forked
  Rejected <- Bad
  Start <- OneAhead
  Growing = {p2}
  Asking = {p2}
  Pushy = {p2}
  IdsLimit = 2
  MinPrefetch = 1
  MaxPerPeer = 2
  MaxCalls = 2
  MaxBacklog = 1
  MaxConnects = 1
SPECIFICATION Spec
INVARIANTS
  RequestsAreAwaited
  BlocksInOrder
CHECK_DEADLOCK FALSE
