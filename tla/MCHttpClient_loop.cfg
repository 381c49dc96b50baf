\* The comment on retry_client_error, under fairness.
SPECIFICATION FairSpec
CONSTANTS
  RetryCount = 1
  api = api
  mirror = mirror
  stopPath = stopPath
  movedPath = movedPath
  ApiHost <- api
  ApiPath <- stopPath
  OtherHosts <- OtherHostsDef
  OtherPaths <- OtherPathsDef
PROPERTIES
  NoLoop
