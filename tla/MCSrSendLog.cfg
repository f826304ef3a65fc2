CONSTANTS
  Calls <- MCCalls
  HeadLen = 1
  Space = 2
  MaxFrames = 3
  MaxLocks = 2
SPECIFICATION Spec
INVARIANT LogReadable
