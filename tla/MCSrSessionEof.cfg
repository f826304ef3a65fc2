CONSTANTS
  e1 = e1
  e2 = e2
  v1 = v1
  v2 = v2
  v3 = v3
  v4 = v4
  Name = {e1, e2}
  Value = {v1, v2, v3, v4}
  Unset = Unset
  BadLine = BadLine
  NoFile = NoFile
  Message <- MCMessage
  LocalTables <- MCTables
  HeadLen = 2
  MaxBody = 2
  MaxMsgs = 2
  MaxAhead = 3
SPECIFICATION LiveSpec
PROPERTY ConnectReturns
