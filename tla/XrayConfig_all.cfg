SPECIFICATION Spec
CONSTANTS
  Users = {u1, u2}
  Paths <- MCPaths
  Lead <- MCLead
  Trim <- MCTrim
  Public = {p443}
  Internal = {in1, in2}
  Tls = {vless, trojan}
  Fronts = {vless, trojan}
  Grpc = {trojan}
  Ntls = {ws, upgrade}
  Plain = {}
  MaxFaults = 1
SYMMETRY MCSymmetry
INVARIANTS TypeOK RoutesLead GuestsReached SameUsers OthersUndisturbed DeletedGone
ACTION_CONSTRAINT OnePathOnceFailed
