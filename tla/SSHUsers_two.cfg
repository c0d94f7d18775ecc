SPECIFICATION Spec
CONSTANTS
  Users = {u1, u2}
  LongNames = {}
  Daemons <- Sshd
  MaxDay = 2
  MaxBytes = 1
  MaxSessions = 1
  MaxCrashes = 0
  Forms <- QuotaForm
  NoRecord = NoRecord
  NoUser = NoUser
SYMMETRY UserSymmetry
INVARIANTS Coherent
CONSTRAINT OneActiveUntilRaced
