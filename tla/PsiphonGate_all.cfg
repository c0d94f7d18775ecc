SPECIFICATION FairSpec
CONSTANTS
  t1 = t1
  t2 = t2
  Instances = {i1}
  LongNames = {}
  Clients = {c1}
  Threads <- TwoAtATime
  Window = 1
  Kind <- Host
  NoInstance = NoInstance
  NoRequest = NoRequest
  MaxReboots = 1
INVARIANTS TypeOK  GatedUntilReboot
 
