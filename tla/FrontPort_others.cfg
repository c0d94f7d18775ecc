SPECIFICATION Spec
CONSTANTS
  Names = {r1, r2}
  Front = p443
  Inner = {p1}
  NoPort = NoPort
  MaxFaults = 0
SYMMETRY MCSymmetry
CONSTRAINT TwoOnAHost
INVARIANT OthersReachable
