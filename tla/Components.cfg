SPECIFICATION ComponentsSpec
CONSTANTS
  Kind <- MCKind
  Region <- MCRegion
  NoRegion = "none"
  GraphAware <- MCGraphAware
  Expressions <- MCExpressions
  NodeType <- MCNodeType
  Param <- MCParam
  InPorts <- MCInPorts
  Handlers <- MCHandlers
  Sources <- MCSources
  Initial <- MCInitial
  InputStates <- MCInputStates
  Tokens <- MCTokens
  Readers = {"tickreader", "pullreader"}
  Viewers = {"total", "every", "loose"}
  MaxEvents = 2
  Regions = {"r1", "r2", "r3"}
  RootRegion = "r1"
  Named = {101, 102}
  Colours = 2
  MaxNodes = 3
  MaxEdges = 3
  Ids = {"fixed", "good", "bad", "free", "slow", "other"}
  Facade <- MCFacade
  Valid <- MCValid
  Values = {"0", "1", "2"}
  Texts = {"0", "1", "2", "garbled"}
  Archive <- MCArchive
  Default = "0"
  NoValue = "none"
  NoId = "nobody"
  Second = 2
  Times <- MCTimes
  MaxTicks = 5
INVARIANTS
  PathsAsWritten
  GraphAndBuffersFollowPaths
  SelectedEventsArrive
  BuffersKeepEvents
  CacheCatchesUp
  VerticesInStep
  EdgesEndAtDrawnPorts
  ColoursTellRegionsApart
  SettingsFulfilConstraints
  AcceptedWritesArrive
  ClocksAdvanceTogether
CHECK_DEADLOCK FALSE
