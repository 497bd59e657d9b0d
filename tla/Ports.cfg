SPECIFICATION Spec
CONSTANTS
  EventSources = {s1, s2}
  StateSinks = {g1, g2}
  EventSinks = {k1, k2}
  StateSources = {q1, q2}
  Closure = Closure
  Temporaries = {t1}
  Callbacks = {c1, c2, c3}
  Null = Null
  MaxHandlers = 2
SYMMETRY Alike
INVARIANTS TypeOK NoDangling BreakerFindsHandler
PROPERTY ImplementsConnections
