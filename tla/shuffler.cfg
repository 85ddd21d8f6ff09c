SPECIFICATION Spec
CONSTANTS
  BucketSize = 3
  MaxBound = 7
  Nothing = Nothing
INVARIANTS TypeOK IndexInBounds
PROPERTIES ImplementsSampler EveryCallReturns
