SPECIFICATION Spec
CONSTANTS
  EventSources = {s1}
  StateSinks = {}
  EventSinks = {k1, k2}
  StateSources = {}
  Closure = Closure
  Temporaries = {k1, k2}
  Callbacks = {c1, c2}
  Null = Null
  MaxHandlers = 2
SYMMETRY Alike
INVARIANT NoDangling
