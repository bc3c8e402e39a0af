\* A correction races a recorder that read the state before it.
SPECIFICATION Spec
CONSTANTS
  e1 = e1
  e2 = e2
  p1 = p1
  p2 = p2
  a = a
  b = b
  c = c
  d = d
  f = f
  Events = {e1, e2}
  Evidence = {a, b, c, d, f}
  Points = {p1, p2}
  EventOf <- TwoEvents
  PointOf <- TwoPoints
  LowConfidence = {d}
  Sessions = {s1, s2}
  None = None
SYMMETRY SessionSymmetry
INVARIANTS
  RevokedStaysOut
