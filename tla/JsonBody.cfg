CONSTANTS
  ChunkCapacity = 20
  StackCapacity = 8
  ValueSize = 4
  DefaultArrayCapacity = 1
  DefaultObjectCapacity = 1
  Name <- OneName
  Replies <- SomeReplies
  MaxReads = 2
  Accept <- DocumentText
  Read <- Parse
SPECIFICATION Spec
INVARIANT TypeOK
INVARIANT MemorySound
INVARIANT DocumentKept
INVARIANT AcceptedWhole
INVARIANT RefusedCut
INVARIANT NoAssertFails
