SPECIFICATION FairSpec
CONSTANTS
  MaxRequests = 3
  Workloads <- Bursts
  Limit = 2
  Slots = 3
  StartSettings <- Starts
  RuntimeSettings <- Runtimes
  Garbage = {0, 5}
  MaxUpdates = 2
INVARIANTS
  TypeOK
  Conserved
  ConfCorrect
  LastCorrectInForce
  PoolBounded
  AssertJustified
PROPERTIES
  ImplementsRpcService
  AllServed
  PoolConverges
CHECK_DEADLOCK FALSE
