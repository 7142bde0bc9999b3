\* Both servers, one RPC in flight at each, and a stream of the gateway with one
\* response (the run of StreamGateway has more).
CONSTANTS
  TLS = TRUE
  MaxRPC = 1
  MaxRequests = 0
  MaxResponses = 1
  SocketRoom = 1
SPECIFICATION FairSpec
INVARIANTS
  AppOutlivesRPCs
PROPERTIES
  RunReturns
\* The process ends.
CHECK_DEADLOCK FALSE
