SPECIFICATION FairSpec
CONSTANTS
  c1 = c1
  c2 = c2
  slip = slip
  dnstt = dnstt
  n1 = n1
  n2 = n2
  k1 = k1
  Clients = {c1, c2}
  Engines = {slip, dnstt}
  Persistent = {slip}
  Names = {n1, n2}
  Suffixes <- MCSuffixes
  Fds = {1, 2}
  Conns = {k1}
  MaxQueue = 1
  MaxChanges = 1
INVARIANTS TypeOK AnswersReachAsker DescriptorsOwned
PROPERTIES NothingWaits 
