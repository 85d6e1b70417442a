CONSTANTS
  c1 = c1
  c2 = c2
  Calls <- MCCalls
  MaxGroups = 2
  MinWrites <- OneAndTwo
SPECIFICATION Spec
INVARIANT TypeOK
INVARIANT AnsweredOnceInFull
PROPERTY Implements
PROPERTY EveryCallAnswered
