\* Every call, answer and failure of the client, one retry as configured.
SPECIFICATION FairSpec
CONSTANTS
  RetryCount = 1
  api = api
  mirror = mirror
  stopPath = stopPath
  movedPath = movedPath
  ApiHost <- api
  ApiPath <- stopPath
  OtherHosts <- OtherHostsDef
  OtherPaths <- OtherPathsDef
INVARIANTS
  TypeOK
  SuccessBody
  Released
  PathIsPath
PROPERTIES
  FollowsAnswer
  ImplementsStopFetch
  CallEnds
