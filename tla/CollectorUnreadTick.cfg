SPECIFICATION NodesSpec
CONSTANTS
  NodeType <- MCNodeType
  Param <- MCParam
  InPorts <- MCInPorts
  Handlers <- MCHandlers
  Sources <- MCSources
  Initial <- MCInitial
  InputStates <- MCInputStates
  Tokens <- MCTokens
  Readers = {"tickreader", "pullreader"}
  Viewers = {"total", "every", "loose"}
  MaxEvents = 2
INVARIANT EventsAvailableAfterTick
CHECK_DEADLOCK FALSE
