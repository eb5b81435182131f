SPECIFICATION Spec
CONSTANTS
  Agents = {a1, a2}
  Commands = {p1, p2}
  Exclusive = FALSE
  None = None
  MaxFaults = 2
SYMMETRY Symmetry
INVARIANT RevocationHonoured
