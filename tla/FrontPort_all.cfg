SPECIFICATION Spec
CONSTANTS
  Names = {r1, r2}
  Front = p443
  Inner = {p1}
  NoPort = NoPort
  MaxFaults = 1
SYMMETRY MCSymmetry
CONSTRAINT TwoOnAHost
INVARIANTS TypeOK ListedServed ChangeServed OldServed
PROPERTY Comeback
