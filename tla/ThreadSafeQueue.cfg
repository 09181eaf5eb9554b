CONSTANTS
  Item = {a, b, c}
  MaxBatch = 2
SPECIFICATION FairSpec
PROPERTIES ImplementsWorkQueue
