SPECIFICATION ComputeSpec

CONSTANTS
  BlockLen = 5
  LenLen = 2
  Bits = 2
  LenMod = 6
  Pieces <- MCPieces
  MaxOctets = 20
  Byte = 3
  Lens <- MCLens
  IpLen = 8
  TtlAt = 1
  SrcAt = 5
  DstAt = 7
  AddrLen = 2
  InitTtl = 2
  EchoRequest = 2
  Width = 2
  Tables <- UpToThree

INVARIANTS
  ShaTypeOK
  DigestOfMessage
  CorruptedForCause
  CksumTypeOK
  CheckExact
  SentAccepted
  TypeOK
  BestSoFar
  LongestPrefix
CHECK_DEADLOCK FALSE
