SPECIFICATION MovesSpec
CONSTANTS
  EventSources = {s1, s2}
  StateSinks = {}
  EventSinks = {k1, k2}
  StateSources = {}
  Closure = Closure
  Temporaries = {t1}
  Callbacks = {c1, c2}
  Null = Null
  MaxHandlers = 2
SYMMETRY Alike
INVARIANT MovedPortsDangle
