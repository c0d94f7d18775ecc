SPECIFICATION Spec
CONSTANTS
  p1 = p1
  p2 = p2
  px = px
  Ports <- MCPorts
  Bindable <- MCBindable
  DefaultPort = px
  Modelled <- Managers
  Firewalled <- Hosts
  MaxCrashes = 1
SYMMETRY MCSymmetry
CONSTRAINT TwoAtATime
INVARIANTS TypeOK ChangeReachable FailureUndone RebootKeepsPorts RemovedWhole
PROPERTY NoLockout
