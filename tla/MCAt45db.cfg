CONSTANTS
  CountSpace = 6
  MaxErrors = 1
  Pages = 3
  Block = 2
  Contents <- MCContents
  Call <- MCCall
SPECIFICATION FairSpec
INVARIANT TypeOK
INVARIANT AtRest
INVARIANT WholeExchange
INVARIANT OnlyReprogrammingGoesOn
PROPERTY ImplementsBlockStore
PROPERTY CallsReturn
CHECK_DEADLOCK FALSE
