SPECIFICATION Spec
CONSTANTS
  Users = {u1}
  LongNames = {}
  Daemons <- Sshd
  MaxDay = 2
  MaxBytes = 1
  MaxSessions = 2
  MaxCrashes = 1
  Forms <- FullForm
  NoRecord = NoRecord
  NoUser = NoUser
INVARIANTS TypeOK Coherent NoSessionAfterLock PasswordsOwned
PROPERTIES EnforcerKeepsRecords
