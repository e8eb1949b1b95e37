CONSTANTS
  SectorSize = 2
  DirentSize = 1
  BaseLen = 2
  ExtLen = 1
  MaxClust = 100
  WordSpace = 1024
  Volumes <- MCVolumes
  Paths <- MCPaths
  Asked <- MCAsked
  Request = {1, 3, 4, 7, 12}
  Free = {2, 3, 5, 8}
  Sizes = {1, 3, 4, 6, 7, 8, 10, 11, 12}
  EndOfChain = 4095
SPECIFICATION FairSpec
INVARIANT TypeOK
INVARIANT MountedFits
INVARIANT OpensByName
INVARIANT DeliversFile
INVARIANT CursorIsPosition
INVARIANT FailsOnlyAtTheEnd
 
PROPERTY ReadsReturn
CHECK_DEADLOCK FALSE
