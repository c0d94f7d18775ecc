SPECIFICATION Spec
CONSTANTS
  u1 = u1
  u2 = u2
  pa = pa
  pb = pb
  pc = pc
  s1 = s1
  s2 = s2
  Users = {u1, u2}
  Ips = {ip1}
  Sessions = {s1, s2}
  Packets = {pa, pb, pc}
  Sender <- MCSender
  Pid <- MCPid
  Count <- MCCount
  Source <- MCSource
  MaxPassword = 1
  NoUser = NoUser
  NoAddress = NoAddress
  NoPacket = NoPacket
INVARIANTS TypeOK OneSendersFragments KnownServed
SYMMETRY MCSymmetry
