CONSTANTS
  a = a
  b = b
  c = c
  own = own
  IP <- MCIP
  Mac = {m}
  Pkt = {p1, p2}
  ReqId = {q1, q2, q3, q4}
  NULL = NULL
  NoEntry = NoEntry
  RouterIp <- Attached
  Traffic <- OneWay
  Repliers = {b}
  CacheSz = 2
  CacheTO = 1
  Tries = 1
  MaxDepth = 2
SPECIFICATION LiveSpec
PROPERTIES
  PacketSettles
  SweepEnds
  SlotFreed
  MainReturns
