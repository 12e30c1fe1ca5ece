SPECIFICATION FairSpec
CONSTANTS
  HttpServers = {"http", "profiler"}
  GrpcServers = {"grpc"}
  Handlers <- MCHandlers
  Home <- MCHome
INVARIANTS StoreClosedLast CodeTellsWhy
PROPERTIES StopsWhenCancelled
CHECK_DEADLOCK FALSE
