SPECIFICATION FairSpec
CONSTANTS
  Users = {u1}
  LongNames = {}
  Daemons <- BothServers
  MaxDay = 2
  MaxBytes = 1
  MaxSessions = 2
  MaxCrashes = 0
  Forms <- LimitsForm
  NoRecord = NoRecord
  NoUser = NoUser
PROPERTIES QuotaEventuallyEnforced LimitEventuallyEnforced
CONSTRAINT OneDropbearSession
