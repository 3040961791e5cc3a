\* Two starts around a change of the port, then a Stop.
SPECIFICATION Spec
CONSTANTS
  Callers = {c1, c2}
  Servers = {s1, s2}
  Ports = {p1, p2}
  None = None
SYMMETRY MCSymmetry
INVARIANTS DisconnectedIsSilent
