CONSTANTS
  Calls <- MCCalls
  HeadLen = 1
  Space = 2
  MaxFrames = 3
  MaxLocks = 2
SPECIFICATION LiveSpec
INVARIANTS
  TypeOK
  TornForCause
  LoggedBeforeSent
PROPERTY MainComesBack
