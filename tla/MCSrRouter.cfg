CONSTANTS
  i1 = i1
  i2 = i2
  r1 = r1
  r2 = r2
  h1 = h1
  h2 = h2
  k = k
  g = g
  u = u
  Iface = {i1, i2}
  Addr <- MCAddr
  NULL = NULL
  IfIp <- MCIfIp
  Route <- MCRoute
  Gateway <- Attached
  Black = {k, r2}
  InitTtl = 3
  TtlMod = 4
  Frames <- Mixed
  MaxFrames = 6
SPECIFICATION Spec
INVARIANTS
  TypeOK
  NeverRefused
  BlacklistSilent
  NeverUnrouted
  LeavesOnLink
