\* Two messages from the client and three from the server, and room for two of them
\* in the socket.
CONSTANTS
  MaxRequests = 2
  MaxResponses = 3
  SocketRoom = 2
SPECIFICATION FairGateway
INVARIANTS
  StreamFaithful
PROPERTIES
  GatewayEnds
\* The handler returns.
CHECK_DEADLOCK FALSE
