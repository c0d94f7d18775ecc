SPECIFICATION Spec
CONSTANTS
  Users = {u1}
  LongNames = {}
  Daemons <- Sshd
  MaxDay = 2
  MaxBytes = 1
  MaxSessions = 2
  MaxCrashes = 0
  Forms <- FullForm
  NoRecord = NoRecord
  NoUser = NoUser
INVARIANTS LockFlagTruthful
