\* The comment on a redirect without a host.
SPECIFICATION Spec
CONSTANTS
  RetryCount = 1
  api = api
  mirror = mirror
  stopPath = stopPath
  movedPath = movedPath
  ApiHost <- api
  ApiPath <- stopPath
  OtherHosts <- OtherHostsDef
  OtherPaths <- OtherPathsDef
PROPERTIES
  RelativeKeepsHost
