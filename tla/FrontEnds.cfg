CONSTANTS
  Queries <- AllQueries
  MaxGroups = 2
  MinWrites <- TwoAndOne
SPECIFICATION Spec
INVARIANT TypeOK
INVARIANT StatusTellsWrites
INVARIANT FrontEndsAgree
PROPERTY EveryRequestAnswered
