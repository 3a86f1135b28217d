\* Does GOOD_REQUEST mean that the request was complete?
SPECIFICATION DefinedSpec
CONSTANTS
  Requests <- MCRequests
  InitialSize <- MCInitialSize
CHECK_DEADLOCK FALSE
INVARIANT GoodRequestIsComplete
