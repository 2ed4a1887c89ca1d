SPECIFICATION PacSpec
CONSTANTS
  NoCore = NoCore
  Ports = {p1, p2, p3}
SYMMETRY PortSymmetry
INVARIANT PacFollowsMode
