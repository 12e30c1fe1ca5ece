SPECIFICATION FairSpec
CONSTANTS
  HttpServers = {"http", "profiler"}
  GrpcServers = {"grpc"}
  Handlers <- MCHandlers
  Home <- MCHome
PROPERTY EndsOnError
CHECK_DEADLOCK FALSE
