SPECIFICATION ConnectSpec
CONSTANTS
  Kind <- MCKind
  Region <- MCRegion
  NoRegion = "none"
  GraphAware <- MCGraphAware
  Expressions <- MCExpressions
INVARIANT ProxiesAreConnected
CHECK_DEADLOCK FALSE
