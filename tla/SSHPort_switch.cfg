SPECIFICATION Spec
CONSTANTS
  p1 = p1
  p2 = p2
  p3 = p3
  Ports <- SomePorts
  Bindable <- BindablePorts
  FirstPort = p1
  Persists = TRUE
  MaxCrashes = 3
INVARIANTS TypeOK FirewallTight
PROPERTIES ImplementsPortSwitch
