CONSTANTS
  c1 = c1
  c2 = c2
  g1 = g1
  g2 = g2
  u1 = u1
  s1 = s1
  Calls <- TwoCalls
  Groups <- TwoGroups
  MinWritesArg <- OneAndThree
  Operations <- AnyAndLog
  Users <- OneUser
  Subkeys <- OneSubkey
SPECIFICATION Spec
INVARIANT TypeOK
INVARIANT AddedMeansStored
INVARIANT AllAckedMeansAdded
INVARIANT AddedInOrder
PROPERTY Implements
PROPERTY EveryCallAnswered
