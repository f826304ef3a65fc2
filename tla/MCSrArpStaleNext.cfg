CONSTANTS
  a = a
  b = b
  c = c
  own = own
  IP <- MCIP
  Mac = {m}
  Pkt = {p1, p2}
  ReqId = {q1, q2, q3, q4}
  NULL = NULL
  NoEntry = NoEntry
  RouterIp <- Attached
  Traffic <- FromUnrouted
  Repliers = {a, b}
  CacheSz = 1
  CacheTO = 1
  Tries = 2
  MaxDepth = 3
SYMMETRY ReqSymmetry
SPECIFICATION Spec
INVARIANT SavedNextUsable
