SPECIFICATION Spec
CONSTANTS
  N = 2
  IncludeSelf = FALSE
  CacheSizes = {0, 1, 2}
  PerBatch = 2
  Counts <- CountsBatches
  MaxCount = 3
  Rounds = 2
  MaxReq = 8
  Overloads = {"alloc"}
INVARIANTS DeliveredIntact BufferExclusive InFlightStable FreeRequestsClean NoThrow QuietWhenClosed
PROPERTIES ImplementsCommunicator Terminates
