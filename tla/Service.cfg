\* Two overlapping callers, any sequence of calls each, over two ports.
SPECIFICATION Spec
CONSTANTS
  Callers = {c1, c2}
  Servers = {s1, s2}
  Ports = {p1, p2}
  None = None
SYMMETRY MCSymmetry
INVARIANTS ConnectedIsListening
PROPERTIES OrphansOnlyBehindOverlap LoneStopStops LoneChangeApplies
