--------------------------- MODULE SSHUsersProofs ---------------------------
EXTENDS SSHUsers, TLAPS

USE DEF os, files, stores, panel, cron, history

(***************************************************************************)
(* Lemmas: editing a record, a registry or the table of sessions keeps its *)
(* type.                                                                   *)
(***************************************************************************)
Sessions == [Users -> [Daemons -> 0..MaxSessions]]

LEMMA RecordEdits ==
  ASSUME NEW rec \in Record, NEW day \in Day, NEW n \in 0..MaxBytes
  PROVE  /\ [rec EXCEPT !.expiry = day, !.locked = FALSE] \in Record
         /\ [rec EXCEPT !.locked = FALSE] \in Record
         /\ [rec EXCEPT !.used = 0] \in Record
         /\ [rec EXCEPT !.used = 0, !.locked = FALSE] \in Record
         /\ [rec EXCEPT !.used = n] \in Record
         /\ \A why \in {"manual", "quota_exceeded"} :
              [rec EXCEPT !.locked = TRUE, !.reason = why] \in Record
<1>0. 0 \in 0..MaxBytes
  BY BoundsAssumption
<1>1. [rec EXCEPT !.expiry = day, !.locked = FALSE] \in Record
  BY DEF Record
<1>2. [rec EXCEPT !.locked = FALSE] \in Record
  BY DEF Record
<1>3. /\ [rec EXCEPT !.used = 0] \in Record
      /\ [rec EXCEPT !.used = 0, !.locked = FALSE] \in Record
  BY <1>0 DEF Record
<1>4. [rec EXCEPT !.used = n] \in Record
  BY DEF Record
<1>5. \A why \in {"manual", "quota_exceeded"} :
        [rec EXCEPT !.locked = TRUE, !.reason = why] \in Record
  BY DEF Record
<1>6. QED BY <1>1, <1>2, <1>3, <1>4, <1>5

LEMMA NoRecordsType == NoRecords \in Registry /\ Registered(NoRecords) = {}
  BY DEF NoRecords, Registry, Registered

LEMMA RegistryEdits ==
  ASSUME NEW r \in Registry, NEW u \in Users
  PROVE  /\ u \in Registered(r) => r[u] \in Record
         /\ \A x \in Record \cup {NoRecord} : [r EXCEPT ![u] = x] \in Registry
         /\ \A x \in Record :
              Registered([r EXCEPT ![u] = x]) = Registered(r) \cup {u}
         /\ Registered([r EXCEPT ![u] = NoRecord]) = Registered(r) \ {u}
  BY NoRecordAssumption DEF Registry, Registered

LEMMA SessionEdits ==
  ASSUME NEW s \in Sessions, NEW u \in Users, NEW d \in Daemons,
         NEW n \in 0..MaxSessions
  PROVE  /\ [s EXCEPT ![u][d] = n] \in Sessions
         /\ [s EXCEPT ![u][d] = n][u][d] = n
         /\ \A v \in Users : v # u => [s EXCEPT ![u][d] = n][v] = s[v]
BY DEF Sessions

LEMMA KillTypes ==
  ASSUME TypeOK, NEW u \in Users, KillAllSessions(u)
  PROVE  /\ sessions' \in Sessions
         /\ sessions'[u]["sshd"] = 0
         /\ \A v \in Users : v # u => sessions'[v] = sessions[v]
<1>1. sessions \in Sessions /\ 0 \in 0..MaxSessions
  BY BoundsAssumption DEF TypeOK, SystemOK, Sessions
<1>2. /\ [sessions EXCEPT ![u]["sshd"] = 0] \in Sessions
      /\ [sessions EXCEPT ![u]["sshd"] = 0][u]["sshd"] = 0
      /\ \A v \in Users : v # u => [sessions EXCEPT ![u]["sshd"] = 0][v] = sessions[v]
  BY <1>1, SessionEdits, DaemonsAssumption
<1>3. QED BY <1>2 DEF KillAllSessions

LEMMA KillExcessTypes ==
  ASSUME TypeOK, NEW u \in Users, NEW limit \in Nat
  PROVE  /\ KillExcess(u, limit) \in Sessions
         /\ KillExcess(u, limit)[u]["sshd"] <= sessions[u]["sshd"]
         /\ \A v \in Users : v # u => KillExcess(u, limit)[v] = sessions[v]
<1>1. sessions \in Sessions
  BY DEF TypeOK, SystemOK, Sessions
<1>2. sessions[u]["sshd"] \in 0..MaxSessions
  BY <1>1, DaemonsAssumption DEF Sessions
<1>3. CASE limit > 0 /\ sessions[u]["sshd"] > limit
  <2>1. limit \in 0..MaxSessions
    BY <1>2, <1>3, BoundsAssumption
  <2>2. QED BY <1>1, <1>2, <1>3, <2>1, SessionEdits, DaemonsAssumption DEF KillExcess
<1>4. CASE ~(limit > 0 /\ sessions[u]["sshd"] > limit)
  BY <1>1, <1>2, <1>4 DEF KillExcess
<1>5. QED BY <1>3, <1>4

LEMMA MeasuredType ==
  ASSUME TypeOK, NEW u \in Registered(csnap)
  PROVE  Measured(u) \in Record /\ csnap[u] \in Record
<1>1. csnap[u] \in Record /\ u \in Users /\ today \in Day
  BY RegistryEdits DEF TypeOK, CronOK, SystemOK, Registered
<1>2. BytesUsed(u) \in 0..MaxBytes
  BY <1>1, BoundsAssumption DEF BytesUsed, TypeOK, SystemOK
<1>3. [csnap[u] EXCEPT !.used = BytesUsed(u)] \in Record
  BY <1>1, <1>2, RecordEdits
<1>4. QED BY <1>1, <1>3 DEF Measured

LEMMA EndOpTypes == EndOp => PanelOK'
  BY NoRecordsType DEF EndOp, PanelOK

LEMMA InitTypes == Init => TypeOK
<1> SUFFICES ASSUME Init PROVE TypeOK
  OBVIOUS
<1>1. 1 \in Day /\ 0 \in 0..MaxBytes /\ 0 \in 0..MaxSessions /\ 0 \in 0..MaxCrashes
  BY BoundsAssumption DEF Day
<1>2. SystemOK
  BY <1>1, NoRecordsType DEF Init, SystemOK
<1>3. PanelOK /\ CronOK
  BY NoRecordsType DEF Init, PanelOK, CronOK
<1>4. QED BY <1>2, <1>3 DEF TypeOK

(* Every step keeps the types of what the two processes share. *)
LEMMA SystemStep == TypeOK /\ [Next]_vars => SystemOK'
<1> SUFFICES ASSUME TypeOK, [Next]_vars PROVE SystemOK'
  OBVIOUS
<1>1. CASE LoadMenu
  BY <1>1 DEF LoadMenu, TypeOK, SystemOK
<1>2. CASE Quit
  BY <1>2 DEF Quit, TypeOK, SystemOK
<1>3. CASE RemoveExpired
  BY <1>3 DEF RemoveExpired, TypeOK, SystemOK, BeginRemoval
<1>4. CASE RemoveAll
  BY <1>4 DEF RemoveAll, TypeOK, SystemOK, BeginRemoval
<1>5. ASSUME NEW u \in Users, AddFails(u) PROVE SystemOK'
  BY <1>5 DEF AddFails, TypeOK, SystemOK
<1>6. ASSUME NEW u \in Users, Lock(u) PROVE SystemOK'
  BY <1>6 DEF Lock, TypeOK, SystemOK, LockAccount
<1>7. ASSUME NEW u \in Users, Unlock(u) PROVE SystemOK'
  BY <1>7 DEF Unlock, TypeOK, SystemOK, UnlockAccount
<1>8. ASSUME NEW u \in Users, ResetQuota(u) PROVE SystemOK'
  BY <1>8, BoundsAssumption DEF ResetQuota, TypeOK, SystemOK,
     UnlockAccount
<1>9. ASSUME NEW u \in Users, RemoveUser(u) PROVE SystemOK'
  BY <1>9 DEF RemoveUser, TypeOK, SystemOK, BeginRemoval
<1>10. ASSUME NEW u \in Users, NEW f \in Forms, AddAccount(u, f) PROVE SystemOK'
  BY <1>10, FormsAssumption DEF AddAccount, TypeOK, SystemOK,
     EnsureQuotaChain, Form, Day
<1>11. ASSUME NEW u \in Users, NEW f \in Forms, Renew(u, f.days) PROVE SystemOK'
  BY <1>11 DEF Renew, TypeOK, SystemOK, SetExpiry, UnlockAccount, Day
<1>12. CASE AddReload
  BY <1>12 DEF AddReload, TypeOK, SystemOK
<1>13. CASE LockKill
  BY <1>13, KillTypes DEF LockKill, TypeOK, SystemOK, PanelOK, Sessions
<1>14. CASE Userdel
  BY <1>14, BoundsAssumption DEF Userdel, TypeOK, SystemOK, PanelOK
<1>15. CASE RemovalDone
  BY <1>15 DEF RemovalDone, TypeOK, SystemOK
<1>16. CASE SaveTruncate
  BY <1>16 DEF SaveTruncate, TypeOK, SystemOK, Truncate
<1>17. CASE SaveWrite
  BY <1>17 DEF SaveWrite, TypeOK, SystemOK, Write, CronHolds, PanelOK
<1>18. CASE StorePassword
  BY <1>18 DEF StorePassword, TypeOK, SystemOK, PanelOK
<1>19. CASE PopPasswords
  BY <1>19 DEF PopPasswords, TypeOK, SystemOK
<1>20. CASE SyncCheckUser
  <2>1. target \in Users /\ psnap[target].expiry \in Day
    BY <1>20, RegistryEdits DEF SyncCheckUser, TypeOK, PanelOK, Registered, Record
  <2>2. QED BY <1>20, <2>1 DEF SyncCheckUser, TypeOK, SystemOK
<1>21. ASSUME NEW u \in Users, SkipUnexpired(u) PROVE SystemOK'
  BY <1>21 DEF SkipUnexpired, TypeOK, SystemOK
<1>22. ASSUME NEW u \in Users, RemoveKill(u) PROVE SystemOK'
  BY <1>22, KillTypes DEF RemoveKill, TypeOK, SystemOK, Sessions
<1>23. CASE CronLoad
  BY <1>23 DEF CronLoad, TypeOK, SystemOK
<1>24. CASE CronKill
  BY <1>24, KillTypes DEF CronKill, TypeOK, SystemOK, CronOK, Sessions
<1>25. CASE CronFinish
  BY <1>25 DEF CronFinish, TypeOK, SystemOK, Truncate
<1>26. CASE CronWrite
  BY <1>26 DEF CronWrite, TypeOK, SystemOK, Write, PanelHolds, CronOK
<1>27. ASSUME NEW u \in Users, CronVisit(u) PROVE SystemOK'
  <2>1. Measured(u) \in Record /\ KillExcess(u, Measured(u).limit) \in Sessions
    BY <1>27, MeasuredType, KillExcessTypes DEF CronVisit, TypeOK, CronOK, Record
  <2>2. \A s \in Sessions : [s EXCEPT ![u]["sshd"] = 0] \in Sessions
    BY SessionEdits, BoundsAssumption, DaemonsAssumption
  <2>3. sessions' \in Sessions
    BY <1>27, <2>1, <2>2 DEF CronVisit
  <2>4. QED BY <1>27, <2>3 DEF CronVisit, TypeOK, SystemOK, Sessions
<1>28. ASSUME NEW u \in Users, CronLock(u) PROVE SystemOK'
  <2>1. KillExcess(u, Measured(u).limit) \in Sessions
    BY <1>28, MeasuredType, KillExcessTypes DEF CronLock, TypeOK, CronOK, Record
  <2>2. QED BY <1>28, <2>1 DEF CronLock, LockAccount, TypeOK, SystemOK, Sessions
<1>29. CASE Tomorrow
  BY <1>29 DEF Tomorrow, TypeOK, SystemOK, Day
<1>30. CASE Hangup
  BY <1>30, BoundsAssumption DEF Hangup, TypeOK, SystemOK
<1>31. CASE Reboot
  BY <1>31, BoundsAssumption DEF Reboot, TypeOK, SystemOK
<1>32. ASSUME NEW u \in Users, Traffic(u) PROVE SystemOK'
  BY <1>32, BoundsAssumption DEF Traffic, TypeOK, SystemOK
<1>33. ASSUME NEW u \in Users, NEW d \in Daemons, Login(u, d) PROVE SystemOK'
  <2>1. sessions \in Sessions /\ sessions[u][d] + 1 \in 0..MaxSessions
    BY <1>33, BoundsAssumption DEF Login, TypeOK, SystemOK, Sessions
  <2>2. QED BY <1>33, <2>1, SessionEdits DEF Login, TypeOK, SystemOK, Sessions
<1>34. ASSUME NEW u \in Users, NEW d \in Daemons, Logout(u, d) PROVE SystemOK'
  <2>1. sessions \in Sessions /\ sessions[u][d] - 1 \in 0..MaxSessions
    BY <1>34, BoundsAssumption DEF Logout, TypeOK, SystemOK, Sessions
  <2>2. QED BY <1>34, <2>1, SessionEdits DEF Logout, TypeOK, SystemOK, Sessions
<1>35. CASE UNCHANGED vars
  BY <1>35 DEF TypeOK, SystemOK, vars
<1>36. QED
  BY <1>1, <1>2, <1>3, <1>4, <1>5, <1>6, <1>7, <1>8, <1>9, <1>10, <1>11,
     <1>12, <1>13, <1>14, <1>15, <1>16, <1>17, <1>18, <1>19, <1>20,
     <1>21, <1>22, <1>23, <1>24, <1>25, <1>26, <1>27, <1>28, <1>29,
     <1>30, <1>31, <1>32, <1>33, <1>34, <1>35
  DEF Next, Operator, PanelWorks, CronWorks, World

(* Every step keeps the types of the panel's own state. *)
LEMMA PanelStep == TypeOK /\ [Next]_vars => PanelOK'
<1> SUFFICES ASSUME TypeOK, [Next]_vars PROVE PanelOK'
  OBVIOUS
<1>1. CASE LoadMenu
  BY <1>1 DEF LoadMenu, TypeOK, PanelOK, SystemOK
<1>2. CASE Quit
  BY <1>2, EndOpTypes DEF Quit, TypeOK, PanelOK
<1>3. CASE RemoveExpired
  BY <1>3 DEF RemoveExpired, TypeOK, PanelOK, BeginRemoval, Registered
<1>4. CASE RemoveAll
  BY <1>4 DEF RemoveAll, TypeOK, PanelOK, BeginRemoval, Registered
<1>5. ASSUME NEW u \in Users, AddFails(u) PROVE PanelOK'
  BY <1>5, EndOpTypes DEF AddFails, TypeOK, PanelOK
<1>6. ASSUME NEW u \in Users, Lock(u) PROVE PanelOK'
  BY <1>6 DEF Lock, TypeOK, PanelOK, SystemOK
<1>7. ASSUME NEW u \in Users, Unlock(u) PROVE PanelOK'
  <2>1. u \in Registered(psnap) => [psnap[u] EXCEPT !.locked = FALSE] \in Record
    BY <1>7, RegistryEdits, RecordEdits, BoundsAssumption DEF Unlock, TypeOK, PanelOK, SystemOK
  <2>2. u \in Registered(psnap) =>
          /\ [psnap EXCEPT ![u] = [@ EXCEPT !.locked = FALSE]] \in Registry
    BY <2>1, RegistryEdits, NoRecordAssumption DEF TypeOK, PanelOK, Registered, Registry
  <2>3. CASE u \in Registered(psnap)
    BY <1>7, <2>2, <2>3 DEF Unlock, TypeOK, PanelOK
  <2>4. CASE u \notin Registered(psnap)
    BY <1>7, <2>4, EndOpTypes DEF Unlock
  <2>5. QED BY <2>3, <2>4
<1>8. ASSUME NEW u \in Users, ResetQuota(u) PROVE PanelOK'
  <2>1. u \in Registered(psnap) => [psnap[u] EXCEPT !.used = 0] \in Record
                                    /\ [psnap[u] EXCEPT !.used = 0, !.locked = FALSE] \in Record
    BY <1>8, RegistryEdits, RecordEdits, BoundsAssumption DEF ResetQuota, TypeOK, PanelOK, SystemOK
  <2>2. u \in Registered(psnap) =>
          /\ [psnap EXCEPT ![u] = [@ EXCEPT !.used = 0]] \in Registry
          /\ [psnap EXCEPT ![u] = [@ EXCEPT !.used = 0, !.locked = FALSE]] \in Registry
    BY <2>1, RegistryEdits, NoRecordAssumption DEF TypeOK, PanelOK, Registered, Registry
  <2>3. QED BY <1>8, <2>2 DEF ResetQuota, TypeOK, PanelOK
<1>9. ASSUME NEW u \in Users, RemoveUser(u) PROVE PanelOK'
  BY <1>9 DEF RemoveUser, TypeOK, PanelOK, BeginRemoval
<1>10. ASSUME NEW u \in Users, NEW f \in Forms, AddAccount(u, f) PROVE PanelOK'
  <2>1. NewRecord(f) \in Record
    BY <1>10, FormsAssumption, BoundsAssumption DEF AddAccount, NewRecord, Record, Form, TypeOK, SystemOK, Day
  <2>2. QED BY <1>10, <2>1, NoRecordsType DEF AddAccount, TypeOK, PanelOK
<1>11. ASSUME NEW u \in Users, NEW f \in Forms, Renew(u, f.days) PROVE PanelOK'
  <2>1. u \in Registered(psnap) => [psnap[u] EXCEPT !.expiry = today + f.days, !.locked = FALSE] \in Record
    BY <1>11, RegistryEdits, RecordEdits, BoundsAssumption DEF Renew, TypeOK, PanelOK, SystemOK
  <2>2. u \in Registered(psnap) =>
          /\ [psnap EXCEPT ![u] = [@ EXCEPT !.expiry = today + f.days, !.locked = FALSE]] \in Registry
          /\ u \in Registered([psnap EXCEPT ![u] = [@ EXCEPT !.expiry = today + f.days, !.locked = FALSE]])
    BY <2>1, RegistryEdits, NoRecordAssumption DEF TypeOK, PanelOK, Registered, Registry
  <2>3. QED BY <1>11, <2>2 DEF Renew, TypeOK, PanelOK
<1>12. CASE AddReload
  <2>1. CASE torn
    BY <1>12, <2>1, EndOpTypes DEF AddReload, TypeOK
  <2>2. CASE ~torn
    <3>1. target \in Users /\ form \in Record
      BY <1>12 DEF AddReload, TypeOK, PanelOK
    <3>2. psnap' \in Registry /\ target \in Registered(psnap')
        <4>1. /\ [registry EXCEPT ![target] = form] \in Registry
            /\ target \in Registered([registry EXCEPT ![target] = form])
        BY <3>1, RegistryEdits, NoRecordAssumption DEF TypeOK, SystemOK, Registered, Registry
      <4>2. QED BY <1>12, <2>2, <4>1 DEF AddReload
    <3>3. QED BY <1>12, <2>2, <3>1, <3>2 DEF AddReload, TypeOK, PanelOK
  <2>3. QED BY <2>1, <2>2
<1>13. CASE LockKill
  <2>1. target \in Registered(psnap) =>
          [psnap[target] EXCEPT !.locked = TRUE, !.reason = "manual"] \in Record
    BY <1>13, RegistryEdits, RecordEdits, BoundsAssumption DEF LockKill, TypeOK, PanelOK, SystemOK
  <2>2. target \in Registered(psnap) =>
          [psnap EXCEPT ![target] = [@ EXCEPT !.locked = TRUE, !.reason = "manual"]]
            \in Registry
    BY <1>13, <2>1, RegistryEdits DEF LockKill, TypeOK, PanelOK
  <2>3. CASE target \in Registered(psnap)
    BY <1>13, <2>2, <2>3 DEF LockKill, TypeOK, PanelOK
  <2>4. CASE target \notin Registered(psnap)
    BY <1>13, <2>4, EndOpTypes DEF LockKill
  <2>5. QED BY <2>3, <2>4
<1>14. CASE Userdel
  BY <1>14, RegistryEdits DEF Userdel, TypeOK, PanelOK, Registered
<1>15. CASE RemovalDone
  BY <1>15 DEF RemovalDone, TypeOK, PanelOK
<1>16. CASE SaveTruncate
  BY <1>16 DEF SaveTruncate, TypeOK, PanelOK
<1>17. CASE SaveWrite
  BY <1>17, EndOpTypes DEF SaveWrite, TypeOK, PanelOK
<1>18. CASE StorePassword
  BY <1>18, EndOpTypes DEF StorePassword, TypeOK, PanelOK
<1>19. CASE PopPasswords
  BY <1>19, EndOpTypes DEF PopPasswords, TypeOK, PanelOK
<1>20. CASE SyncCheckUser
  BY <1>20, EndOpTypes DEF SyncCheckUser, TypeOK, PanelOK
<1>21. ASSUME NEW u \in Users, SkipUnexpired(u) PROVE PanelOK'
  BY <1>21 DEF SkipUnexpired, TypeOK, PanelOK
<1>22. ASSUME NEW u \in Users, RemoveKill(u) PROVE PanelOK'
  BY <1>22 DEF RemoveKill, TypeOK, PanelOK
<1>23. CASE CronLoad
  BY <1>23 DEF CronLoad, TypeOK, PanelOK
<1>24. CASE CronKill
  BY <1>24 DEF CronKill, TypeOK, PanelOK
<1>25. CASE CronFinish
  BY <1>25 DEF CronFinish, TypeOK, PanelOK
<1>26. CASE CronWrite
  BY <1>26 DEF CronWrite, TypeOK, PanelOK
<1>27. ASSUME NEW u \in Users, CronVisit(u) PROVE PanelOK'
  BY <1>27 DEF CronVisit, TypeOK, PanelOK
<1>28. ASSUME NEW u \in Users, CronLock(u) PROVE PanelOK'
  BY <1>28 DEF CronLock, TypeOK, PanelOK
<1>29. CASE Tomorrow
  BY <1>29 DEF Tomorrow, TypeOK, PanelOK
<1>30. CASE Hangup
  BY <1>30, EndOpTypes DEF Hangup, TypeOK, PanelOK
<1>31. CASE Reboot
  BY <1>31, EndOpTypes DEF Reboot, TypeOK, PanelOK
<1>32. ASSUME NEW u \in Users, Traffic(u) PROVE PanelOK'
  BY <1>32 DEF Traffic, TypeOK, PanelOK
<1>33. ASSUME NEW u \in Users, NEW d \in Daemons, Login(u, d) PROVE PanelOK'
  BY <1>33 DEF Login, TypeOK, PanelOK
<1>34. ASSUME NEW u \in Users, NEW d \in Daemons, Logout(u, d) PROVE PanelOK'
  BY <1>34 DEF Logout, TypeOK, PanelOK
<1>35. CASE UNCHANGED vars
  BY <1>35 DEF TypeOK, PanelOK, vars
<1>36. QED
  BY <1>1, <1>2, <1>3, <1>4, <1>5, <1>6, <1>7, <1>8, <1>9, <1>10, <1>11,
     <1>12, <1>13, <1>14, <1>15, <1>16, <1>17, <1>18, <1>19, <1>20,
     <1>21, <1>22, <1>23, <1>24, <1>25, <1>26, <1>27, <1>28, <1>29,
     <1>30, <1>31, <1>32, <1>33, <1>34, <1>35
  DEF Next, Operator, PanelWorks, CronWorks, World

(* Every step keeps the types of the enforcer's own state. *)
LEMMA CronStep == TypeOK /\ [Next]_vars => CronOK'
<1> SUFFICES ASSUME TypeOK, [Next]_vars PROVE CronOK'
  OBVIOUS
<1>1. CASE LoadMenu
  BY <1>1 DEF LoadMenu, TypeOK, CronOK
<1>2. CASE Quit
  BY <1>2 DEF Quit, TypeOK, CronOK
<1>3. CASE RemoveExpired
  BY <1>3 DEF RemoveExpired, TypeOK, CronOK, BeginRemoval
<1>4. CASE RemoveAll
  BY <1>4 DEF RemoveAll, TypeOK, CronOK, BeginRemoval
<1>5. ASSUME NEW u \in Users, AddFails(u) PROVE CronOK'
  BY <1>5 DEF AddFails, TypeOK, CronOK
<1>6. ASSUME NEW u \in Users, Lock(u) PROVE CronOK'
  BY <1>6 DEF Lock, TypeOK, CronOK
<1>7. ASSUME NEW u \in Users, Unlock(u) PROVE CronOK'
  BY <1>7 DEF Unlock, TypeOK, CronOK
<1>8. ASSUME NEW u \in Users, ResetQuota(u) PROVE CronOK'
  BY <1>8 DEF ResetQuota, TypeOK, CronOK
<1>9. ASSUME NEW u \in Users, RemoveUser(u) PROVE CronOK'
  BY <1>9 DEF RemoveUser, TypeOK, CronOK, BeginRemoval
<1>10. ASSUME NEW u \in Users, NEW f \in Forms, AddAccount(u, f) PROVE CronOK'
  BY <1>10 DEF AddAccount, TypeOK, CronOK
<1>11. ASSUME NEW u \in Users, NEW f \in Forms, Renew(u, f.days) PROVE CronOK'
  BY <1>11 DEF Renew, TypeOK, CronOK
<1>12. CASE AddReload
  BY <1>12 DEF AddReload, TypeOK, CronOK
<1>13. CASE LockKill
  BY <1>13 DEF LockKill, TypeOK, CronOK
<1>14. CASE Userdel
  BY <1>14 DEF Userdel, TypeOK, CronOK
<1>15. CASE RemovalDone
  BY <1>15 DEF RemovalDone, TypeOK, CronOK
<1>16. CASE SaveTruncate
  BY <1>16 DEF SaveTruncate, TypeOK, CronOK
<1>17. CASE SaveWrite
  BY <1>17 DEF SaveWrite, TypeOK, CronOK
<1>18. CASE StorePassword
  BY <1>18 DEF StorePassword, TypeOK, CronOK
<1>19. CASE PopPasswords
  BY <1>19 DEF PopPasswords, TypeOK, CronOK
<1>20. CASE SyncCheckUser
  BY <1>20 DEF SyncCheckUser, TypeOK, CronOK
<1>21. ASSUME NEW u \in Users, SkipUnexpired(u) PROVE CronOK'
  BY <1>21 DEF SkipUnexpired, TypeOK, CronOK
<1>22. ASSUME NEW u \in Users, RemoveKill(u) PROVE CronOK'
  BY <1>22 DEF RemoveKill, TypeOK, CronOK
<1>23. CASE CronLoad
  BY <1>23, NoRecordsType DEF CronLoad, TypeOK, CronOK, SystemOK
<1>24. CASE CronKill
  BY <1>24 DEF CronKill, TypeOK, CronOK
<1>25. CASE CronFinish
  BY <1>25, NoRecordsType DEF CronFinish, TypeOK, CronOK, CronRest
<1>26. CASE CronWrite
  BY <1>26, NoRecordsType DEF CronWrite, TypeOK, CronOK, CronRest
<1>27. ASSUME NEW u \in Users, CronVisit(u) PROVE CronOK'
  <2>1. u \in Registered(csnap) /\ csnap \in Registry
    BY <1>27 DEF CronVisit, TypeOK, CronOK
  <2>2. Measured(u) \in Record
    BY <2>1, MeasuredType, RecordEdits, BoundsAssumption DEF TypeOK, SystemOK
  <2>3. /\ [csnap EXCEPT ![u] = Measured(u)] \in Registry
        /\ Registered(csnap) \subseteq Registered([csnap EXCEPT ![u] = Measured(u)])
    BY <2>1, <2>2, RegistryEdits DEF Registered
  <2>4. QED BY <1>27, <2>1, <2>3 DEF CronVisit, Registered, TypeOK, CronOK
<1>28. ASSUME NEW u \in Users, CronLock(u) PROVE CronOK'
  <2>1. u \in Registered(csnap) /\ csnap \in Registry
    BY <1>28 DEF CronLock, TypeOK, CronOK
  <2>2. [Measured(u) EXCEPT !.locked = TRUE,
                                 !.reason = "quota_exceeded"] \in Record
    BY <2>1, MeasuredType, RecordEdits, BoundsAssumption DEF TypeOK, SystemOK
  <2>3. /\ [csnap EXCEPT ![u] = [Measured(u) EXCEPT !.locked = TRUE,
                                 !.reason = "quota_exceeded"]] \in Registry
        /\ Registered(csnap) \subseteq Registered([csnap EXCEPT ![u] = [Measured(u) EXCEPT !.locked = TRUE,
                                 !.reason = "quota_exceeded"]])
    BY <2>1, <2>2, RegistryEdits DEF Registered
  <2>4. QED BY <1>28, <2>1, <2>3 DEF CronLock, Registered, TypeOK, CronOK
<1>29. CASE Tomorrow
  BY <1>29 DEF Tomorrow, TypeOK, CronOK
<1>30. CASE Hangup
  BY <1>30 DEF Hangup, TypeOK, CronOK
<1>31. CASE Reboot
  BY <1>31, NoRecordsType DEF Reboot, TypeOK, CronOK, CronRest
<1>32. ASSUME NEW u \in Users, Traffic(u) PROVE CronOK'
  BY <1>32 DEF Traffic, TypeOK, CronOK
<1>33. ASSUME NEW u \in Users, NEW d \in Daemons, Login(u, d) PROVE CronOK'
  BY <1>33 DEF Login, TypeOK, CronOK
<1>34. ASSUME NEW u \in Users, NEW d \in Daemons, Logout(u, d) PROVE CronOK'
  BY <1>34 DEF Logout, TypeOK, CronOK
<1>35. CASE UNCHANGED vars
  BY <1>35 DEF TypeOK, CronOK, vars
<1>36. QED
  BY <1>1, <1>2, <1>3, <1>4, <1>5, <1>6, <1>7, <1>8, <1>9, <1>10, <1>11,
     <1>12, <1>13, <1>14, <1>15, <1>16, <1>17, <1>18, <1>19, <1>20,
     <1>21, <1>22, <1>23, <1>24, <1>25, <1>26, <1>27, <1>28, <1>29,
     <1>30, <1>31, <1>32, <1>33, <1>34, <1>35
  DEF Next, Operator, PanelWorks, CronWorks, World

(* The types of every variable, and what each process holds at each of its *)
(* steps: nothing is undefined in any operation of ssh_user_manager.       *)
THEOREM TypeCorrect == Spec => []TypeOK
<1>1. TypeOK /\ [Next]_vars => TypeOK'
  BY SystemStep, PanelStep, CronStep DEF TypeOK
<1>2. QED BY InitTypes, <1>1, PTL DEF Spec

(***************************************************************************)
(* Locking is total.  NoSessionAfterLock is inductive as it stands: an     *)
(* account enters oslock only in Lock and CronLock, which leave the        *)
(* process at its kill, and no login gets past the lock.                   *)
(***************************************************************************)
LEMMA LockStep == TypeOK /\ NoSessionAfterLock /\ [Next]_vars => NoSessionAfterLock'
<1> SUFFICES ASSUME TypeOK, NoSessionAfterLock, [Next]_vars PROVE NoSessionAfterLock'
  OBVIOUS
<1>1. CASE LoadMenu
  BY <1>1 DEF LoadMenu, NoSessionAfterLock
<1>2. CASE Quit
  BY <1>2 DEF Quit, NoSessionAfterLock, EndOp
<1>3. CASE RemoveExpired
  BY <1>3 DEF RemoveExpired, NoSessionAfterLock, BeginRemoval
<1>4. CASE RemoveAll
  BY <1>4 DEF RemoveAll, NoSessionAfterLock, BeginRemoval
<1>5. ASSUME NEW u \in Users, AddFails(u) PROVE NoSessionAfterLock'
  BY <1>5 DEF AddFails, NoSessionAfterLock, EndOp
<1>6. ASSUME NEW u \in Users, Lock(u) PROVE NoSessionAfterLock'
  BY <1>6 DEF Lock, NoSessionAfterLock, LockAccount
<1>7. ASSUME NEW u \in Users, Unlock(u) PROVE NoSessionAfterLock'
  BY <1>7 DEF Unlock, NoSessionAfterLock, UnlockAccount, EndOp
<1>8. ASSUME NEW u \in Users, ResetQuota(u) PROVE NoSessionAfterLock'
  BY <1>8 DEF ResetQuota, NoSessionAfterLock, UnlockAccount
<1>9. ASSUME NEW u \in Users, RemoveUser(u) PROVE NoSessionAfterLock'
  BY <1>9 DEF RemoveUser, NoSessionAfterLock, BeginRemoval
<1>10. ASSUME NEW u \in Users, NEW f \in Forms, AddAccount(u, f) PROVE NoSessionAfterLock'
  BY <1>10 DEF AddAccount, NoSessionAfterLock
<1>11. ASSUME NEW u \in Users, NEW f \in Forms, Renew(u, f.days) PROVE NoSessionAfterLock'
  BY <1>11 DEF Renew, NoSessionAfterLock, UnlockAccount
<1>12. CASE AddReload
  BY <1>12 DEF AddReload, NoSessionAfterLock, EndOp
<1>13. CASE LockKill
  BY <1>13, KillTypes DEF LockKill, NoSessionAfterLock, EndOp, TypeOK,
     PanelOK, SystemOK
<1>14. CASE Userdel
  BY <1>14 DEF Userdel, NoSessionAfterLock
<1>15. CASE RemovalDone
  BY <1>15 DEF RemovalDone, NoSessionAfterLock
<1>16. CASE SaveTruncate
  BY <1>16 DEF SaveTruncate, NoSessionAfterLock
<1>17. CASE SaveWrite
  BY <1>17 DEF SaveWrite, NoSessionAfterLock, EndOp
<1>18. CASE StorePassword
  BY <1>18 DEF StorePassword, NoSessionAfterLock, EndOp
<1>19. CASE PopPasswords
  BY <1>19 DEF PopPasswords, NoSessionAfterLock, EndOp
<1>20. CASE SyncCheckUser
  BY <1>20 DEF SyncCheckUser, NoSessionAfterLock, EndOp
<1>21. ASSUME NEW u \in Users, SkipUnexpired(u) PROVE NoSessionAfterLock'
  BY <1>21 DEF SkipUnexpired, NoSessionAfterLock
<1>22. ASSUME NEW u \in Users, RemoveKill(u) PROVE NoSessionAfterLock'
  BY <1>22, KillTypes DEF RemoveKill, NoSessionAfterLock, TypeOK, SystemOK
<1>23. CASE CronLoad
  BY <1>23 DEF CronLoad, NoSessionAfterLock
<1>24. CASE CronKill
  BY <1>24, KillTypes DEF CronKill, NoSessionAfterLock, TypeOK, CronOK,
     SystemOK
<1>25. CASE CronFinish
  BY <1>25 DEF CronFinish, NoSessionAfterLock, CronRest
<1>26. CASE CronWrite
  BY <1>26 DEF CronWrite, NoSessionAfterLock, CronRest
<1>27. ASSUME NEW u \in Users, CronVisit(u) PROVE NoSessionAfterLock'
  <2>1. \A v \in Users : sessions[v]["sshd"] = 0 => sessions'[v]["sshd"] = 0
    <3>1. Measured(u).limit \in Nat
      BY <1>27, MeasuredType DEF CronVisit, TypeOK, CronOK, Record
    <3>2. /\ sessions \in Sessions /\ KillExcess(u, Measured(u).limit) \in Sessions
          /\ KillExcess(u, Measured(u).limit)[u]["sshd"] <= sessions[u]["sshd"]
          /\ \A v \in Users : v # u => KillExcess(u, Measured(u).limit)[v] = sessions[v]
      BY <3>1, KillExcessTypes DEF TypeOK, SystemOK, Sessions
    <3>3. \A v \in Users : sessions[v]["sshd"] = 0 => KillExcess(u, Measured(u).limit)[v]["sshd"] = 0
      BY <3>2, DaemonsAssumption, BoundsAssumption DEF Sessions
    <3>4. \A s \in Sessions : \A v \in Users :
            s[v]["sshd"] = 0 => [s EXCEPT ![u]["sshd"] = 0][v]["sshd"] = 0
      BY DaemonsAssumption DEF Sessions
    <3>5. QED BY <1>27, <3>2, <3>3, <3>4 DEF CronVisit
  <2>2. QED BY <1>27, <2>1 DEF CronVisit, NoSessionAfterLock, TypeOK, SystemOK
<1>28. ASSUME NEW u \in Users, CronLock(u) PROVE NoSessionAfterLock'
  <2>1. Measured(u).limit \in Nat
    BY <1>28, MeasuredType DEF CronLock, TypeOK, CronOK, Record
  <2>2. \A v \in Users : v # u => sessions'[v] = sessions[v]
    BY <1>28, <2>1, KillExcessTypes DEF CronLock
  <2>3. QED BY <1>28, <2>2 DEF CronLock, LockAccount, NoSessionAfterLock, TypeOK, SystemOK
<1>29. CASE Tomorrow
  BY <1>29 DEF Tomorrow, NoSessionAfterLock
<1>30. CASE Hangup
  BY <1>30 DEF Hangup, NoSessionAfterLock, EndOp, TypeOK, SystemOK
<1>31. CASE Reboot
  BY <1>31 DEF Reboot, NoSessionAfterLock, EndOp, TypeOK, SystemOK
<1>32. ASSUME NEW u \in Users, Traffic(u) PROVE NoSessionAfterLock'
  BY <1>32 DEF Traffic, NoSessionAfterLock
<1>33. ASSUME NEW u \in Users, NEW d \in Daemons, Login(u, d) PROVE NoSessionAfterLock'
  BY <1>33 DEF Login, NoSessionAfterLock, TypeOK, SystemOK
<1>34. ASSUME NEW u \in Users, NEW d \in Daemons, Logout(u, d) PROVE NoSessionAfterLock'
  BY <1>34 DEF Logout, NoSessionAfterLock, TypeOK, SystemOK
<1>35. CASE UNCHANGED vars
  BY <1>35 DEF NoSessionAfterLock, vars
<1>36. QED
  BY <1>1, <1>2, <1>3, <1>4, <1>5, <1>6, <1>7, <1>8, <1>9, <1>10, <1>11,
     <1>12, <1>13, <1>14, <1>15, <1>16, <1>17, <1>18, <1>19, <1>20,
     <1>21, <1>22, <1>23, <1>24, <1>25, <1>26, <1>27, <1>28, <1>29,
     <1>30, <1>31, <1>32, <1>33, <1>34, <1>35
  DEF Next, Operator, PanelWorks, CronWorks, World

(* A locked account has no sshd session once its kills are done, whatever  *)
(* the panel, the enforcer and the users do at the same time.              *)
THEOREM LockEndsSessions == Spec => []NoSessionAfterLock
<1>1. Init => NoSessionAfterLock
  BY DEF Init, NoSessionAfterLock
<1>2. QED BY <1>1, LockStep, TypeCorrect, PTL DEF Spec

(***************************************************************************)
(* The password store.  PasswordsOwned alone is not inductive: in the      *)
(* middle of a removal the store still lists users whose account is gone.  *)
(* PasswordsInv bounds them by the users the removal still remembers.      *)
(***************************************************************************)
LEMMA PasswordsStep == TypeOK /\ PasswordsInv /\ [Next]_vars => PasswordsInv'
<1> SUFFICES ASSUME TypeOK, PasswordsInv, [Next]_vars PROVE PasswordsInv'
  OBVIOUS
<1>1. CASE LoadMenu
  BY <1>1 DEF LoadMenu, PasswordsInv, TypeOK, PanelOK
<1>2. CASE Quit
  BY <1>2 DEF Quit, PasswordsInv, EndOp, TypeOK, PanelOK
<1>3. CASE RemoveExpired
  BY <1>3 DEF RemoveExpired, PasswordsInv, BeginRemoval, TypeOK, PanelOK
<1>4. CASE RemoveAll
  BY <1>4 DEF RemoveAll, PasswordsInv, BeginRemoval, TypeOK, PanelOK
<1>5. ASSUME NEW u \in Users, AddFails(u) PROVE PasswordsInv'
  BY <1>5 DEF AddFails, PasswordsInv, EndOp, TypeOK, PanelOK
<1>6. ASSUME NEW u \in Users, Lock(u) PROVE PasswordsInv'
  BY <1>6 DEF Lock, PasswordsInv, TypeOK, PanelOK
<1>7. ASSUME NEW u \in Users, Unlock(u) PROVE PasswordsInv'
  BY <1>7 DEF Unlock, PasswordsInv, EndOp, TypeOK, PanelOK
<1>8. ASSUME NEW u \in Users, ResetQuota(u) PROVE PasswordsInv'
  BY <1>8 DEF ResetQuota, PasswordsInv, TypeOK, PanelOK
<1>9. ASSUME NEW u \in Users, RemoveUser(u) PROVE PasswordsInv'
  BY <1>9 DEF RemoveUser, PasswordsInv, BeginRemoval, TypeOK, PanelOK
<1>10. ASSUME NEW u \in Users, NEW f \in Forms, AddAccount(u, f) PROVE PasswordsInv'
  BY <1>10 DEF AddAccount, PasswordsInv, TypeOK, PanelOK
<1>11. ASSUME NEW u \in Users, NEW f \in Forms, Renew(u, f.days) PROVE PasswordsInv'
  BY <1>11 DEF Renew, PasswordsInv, TypeOK, PanelOK
<1>12. CASE AddReload
  BY <1>12 DEF AddReload, PasswordsInv, EndOp, TypeOK, PanelOK
<1>13. CASE LockKill
  BY <1>13 DEF LockKill, PasswordsInv, EndOp, TypeOK, PanelOK
<1>14. CASE Userdel
  BY <1>14 DEF Userdel, PasswordsInv, TypeOK, PanelOK
<1>15. CASE RemovalDone
  BY <1>15 DEF RemovalDone, PasswordsInv, TypeOK, PanelOK
<1>16. CASE SaveTruncate
  BY <1>16 DEF SaveTruncate, PasswordsInv, TypeOK, PanelOK
<1>17. CASE SaveWrite
  BY <1>17 DEF SaveWrite, PasswordsInv, EndOp, TypeOK, PanelOK
<1>18. CASE StorePassword
  BY <1>18 DEF StorePassword, PasswordsInv, EndOp, TypeOK, PanelOK
<1>19. CASE PopPasswords
  BY <1>19 DEF PopPasswords, PasswordsInv, EndOp, TypeOK, PanelOK
<1>20. CASE SyncCheckUser
  BY <1>20 DEF SyncCheckUser, PasswordsInv, EndOp, TypeOK, PanelOK
<1>21. ASSUME NEW u \in Users, SkipUnexpired(u) PROVE PasswordsInv'
  BY <1>21 DEF SkipUnexpired, PasswordsInv, TypeOK, PanelOK
<1>22. ASSUME NEW u \in Users, RemoveKill(u) PROVE PasswordsInv'
  BY <1>22 DEF RemoveKill, PasswordsInv, TypeOK, PanelOK
<1>23. CASE CronLoad
  BY <1>23 DEF CronLoad, PasswordsInv
<1>24. CASE CronKill
  BY <1>24 DEF CronKill, PasswordsInv
<1>25. CASE CronFinish
  BY <1>25 DEF CronFinish, PasswordsInv
<1>26. CASE CronWrite
  BY <1>26 DEF CronWrite, PasswordsInv
<1>27. ASSUME NEW u \in Users, CronVisit(u) PROVE PasswordsInv'
  BY <1>27 DEF CronVisit, PasswordsInv
<1>28. ASSUME NEW u \in Users, CronLock(u) PROVE PasswordsInv'
  BY <1>28 DEF CronLock, PasswordsInv
<1>29. CASE Tomorrow
  BY <1>29 DEF Tomorrow, PasswordsInv
<1>30. CASE Hangup
  BY <1>30 DEF Hangup, PasswordsInv, EndOp, SystemOK, TypeOK, PanelOK
<1>31. CASE Reboot
  BY <1>31 DEF Reboot, PasswordsInv, EndOp, SystemOK, TypeOK, PanelOK
<1>32. ASSUME NEW u \in Users, Traffic(u) PROVE PasswordsInv'
  BY <1>32 DEF Traffic, PasswordsInv
<1>33. ASSUME NEW u \in Users, NEW d \in Daemons, Login(u, d) PROVE PasswordsInv'
  BY <1>33 DEF Login, PasswordsInv
<1>34. ASSUME NEW u \in Users, NEW d \in Daemons, Logout(u, d) PROVE PasswordsInv'
  BY <1>34 DEF Logout, PasswordsInv
<1>35. CASE UNCHANGED vars
  BY <1>35 DEF PasswordsInv, vars
<1>36. QED
  BY <1>1, <1>2, <1>3, <1>4, <1>5, <1>6, <1>7, <1>8, <1>9, <1>10, <1>11,
     <1>12, <1>13, <1>14, <1>15, <1>16, <1>17, <1>18, <1>19, <1>20,
     <1>21, <1>22, <1>23, <1>24, <1>25, <1>26, <1>27, <1>28, <1>29,
     <1>30, <1>31, <1>32, <1>33, <1>34, <1>35
  DEF Next, Operator, PanelWorks, CronWorks, World

(* Without a crash no password outlives its account: the docstring's       *)
(* "cleaned up automatically everywhere a user is removed".                *)
THEOREM NoOrphanPassword == Spec => []PasswordsOwned
<1>1. Init => PasswordsInv
  BY DEF Init, PasswordsInv
<1>2. TypeOK /\ PasswordsInv => PasswordsOwned
  BY DEF PasswordsInv, PasswordsOwned, TypeOK, PanelOK
<1>3. QED BY <1>1, <1>2, PasswordsStep, TypeCorrect, PTL DEF Spec

(***************************************************************************)
(* What a save of the enforcer keeps: as long as the panel has saved       *)
(* nothing since, its copy is the registry but for the usage.              *)
(***************************************************************************)

(* Two records are the same but for the usage if they agree on the fields  *)
(* the operator has filled in.                                             *)
LEMMA SameFields ==
  ASSUME NEW r \in Record, NEW s \in Record
  PROVE  SameButUsage(r, s) <=> s.expiry = r.expiry /\ s.limit = r.limit /\ s.quota = r.quota /\ s.linked = r.linked
<1> DEFINE e == [r EXCEPT !.used = s.used, !.locked = s.locked, !.reason = s.reason]
<1>1. r # NoRecord /\ s # NoRecord
  BY NoRecordAssumption
<1>2. e \in Record
  BY DEF Record
<1>3. /\ e.expiry = r.expiry /\ e.limit = r.limit /\ e.quota = r.quota /\ e.linked = r.linked
      /\ e.used = s.used /\ e.locked = s.locked /\ e.reason = s.reason
  BY DEF Record
<1>4. ASSUME NEW x \in Record, NEW y \in Record
      PROVE  x = y <=> /\ x.expiry = y.expiry /\ x.limit = y.limit /\ x.quota = y.quota /\ x.linked = y.linked
                       /\ x.used = y.used /\ x.locked = y.locked /\ x.reason = y.reason
  BY DEF Record
<1> HIDE DEF e
<1>5. s = e <=> s.expiry = r.expiry /\ s.limit = r.limit /\ s.quota = r.quota /\ s.linked = r.linked
  BY <1>2, <1>3, <1>4
<1>6. QED
  BY <1>1, <1>5 DEF SameButUsage, e

LEMMA SameMarks ==
  ASSUME NEW r \in Record \cup {NoRecord}
  PROVE  /\ SameButUsage(r, r)
         /\ \A s \in Record, n \in 0..MaxBytes : SameButUsage(r, s) => SameButUsage(r, [s EXCEPT !.used = n])
         /\ \A s \in Record : SameButUsage(r, s) =>
              SameButUsage(r, [s EXCEPT !.locked = TRUE, !.reason = "quota_exceeded"])
<1>1. SameButUsage(r, r)
  BY SameFields DEF SameButUsage
<1>2. ASSUME NEW s \in Record, SameButUsage(r, s) PROVE r \in Record
  BY <1>2, NoRecordAssumption DEF SameButUsage
<1>3. ASSUME NEW s \in Record, NEW n \in 0..MaxBytes, SameButUsage(r, s)
      PROVE  SameButUsage(r, [s EXCEPT !.used = n])
  <2> DEFINE t == [s EXCEPT !.used = n]
  <2>1. t \in Record /\ t.expiry = s.expiry /\ t.limit = s.limit /\ t.quota = s.quota /\ t.linked = s.linked
    BY DEF Record
  <2> HIDE DEF t
  <2>2. SameButUsage(r, t)
    BY <1>2, <1>3, <2>1, SameFields
  <2>3. QED
    BY <2>2 DEF t
<1>4. ASSUME NEW s \in Record, SameButUsage(r, s)
      PROVE  SameButUsage(r, [s EXCEPT !.locked = TRUE, !.reason = "quota_exceeded"])
  <2> DEFINE t == [s EXCEPT !.locked = TRUE, !.reason = "quota_exceeded"]
  <2>1. t \in Record /\ t.expiry = s.expiry /\ t.limit = s.limit /\ t.quota = s.quota /\ t.linked = s.linked
    BY DEF Record
  <2> HIDE DEF t
  <2>2. SameButUsage(r, t)
    BY <1>2, <1>4, <2>1, SameFields
  <2>3. QED
    BY <2>2 DEF t
<1>5. QED
  BY <1>1, <1>3, <1>4

(* As long as nobody else has saved, the copy of the enforcer is the       *)
(* registry but for the usage; or it is what a torn file was read as, of   *)
(* which nothing is changed.                                               *)
EnforcerInv ==
  /\ cpc \in {"kill", "write"} => changed
  /\ cpc # "idle" /\ "cron" \notin stale =>
       (ctodo = {} /\ ~changed) \/ \A u \in Users : SameButUsage(registry[u], csnap[u])

(* A visit writes down the usage, and perhaps the lock.                    *)
LEMMA VisitSame ==
  ASSUME TypeOK, NEW u \in Users, u \in ctodo
  PROVE  /\ SameButUsage(registry[u], csnap[u]) => SameButUsage(registry[u], Measured(u))
         /\ SameButUsage(registry[u], csnap[u]) =>
              SameButUsage(registry[u], [Measured(u) EXCEPT !.locked = TRUE, !.reason = "quota_exceeded"])
<1>1. u \in Registered(csnap) /\ registry[u] \in Record \cup {NoRecord}
  BY DEF TypeOK, CronOK, SystemOK, Registry
<1>2. csnap[u] \in Record /\ Measured(u) \in Record
  BY <1>1, MeasuredType
<1>3. BytesUsed(u) \in 0..MaxBytes
  BY BoundsAssumption DEF BytesUsed, TypeOK, SystemOK
<1>4. SameButUsage(registry[u], csnap[u]) => SameButUsage(registry[u], Measured(u))
  BY <1>1, <1>2, <1>3, SameMarks DEF Measured
<1>5. QED
  BY <1>1, <1>2, <1>4, SameMarks

(* Most steps are none of the enforcer's and none that writes.             *)
LEMMA EnforcerKept ==
  ASSUME EnforcerInv, UNCHANGED cron, registry' = registry, "cron" \in stale' <=> "cron" \in stale
  PROVE  EnforcerInv'
BY DEF EnforcerInv

LEMMA EnforcerStep ==
  ASSUME TypeOK, EnforcerInv, [Next]_vars
  PROVE  EnforcerInv'
<1>1. CASE \/ LoadMenu \/ Quit \/ RemoveExpired \/ RemoveAll \/ AddReload \/ LockKill \/ Userdel \/ RemovalDone
           \/ SaveTruncate \/ StorePassword \/ PopPasswords \/ SyncCheckUser \/ Tomorrow \/ Hangup
           \/ UNCHANGED vars
  <2>1. UNCHANGED cron /\ registry' = registry /\ ("cron" \in stale' <=> "cron" \in stale)
    BY <1>1 DEF LoadMenu, Quit, RemoveExpired, RemoveAll, BeginRemoval, AddReload, LockKill, Userdel, RemovalDone,
      SaveTruncate, Truncate, StorePassword, PopPasswords, SyncCheckUser, Tomorrow, Hangup, vars
  <2>2. QED
    BY <2>1, EnforcerKept
<1>2. ASSUME NEW u \in Users,
             \/ AddFails(u) \/ Lock(u) \/ Unlock(u) \/ ResetQuota(u) \/ RemoveUser(u)
             \/ SkipUnexpired(u) \/ RemoveKill(u) \/ Traffic(u)
             \/ (\E f \in Forms : AddAccount(u, f) \/ Renew(u, f.days))
             \/ (\E d \in Daemons : Login(u, d) \/ Logout(u, d))
      PROVE  EnforcerInv'
  <2>1. UNCHANGED cron /\ registry' = registry /\ ("cron" \in stale' <=> "cron" \in stale)
    BY <1>2 DEF AddFails, Lock, Unlock, ResetQuota, RemoveUser, BeginRemoval, SkipUnexpired, RemoveKill, Traffic,
      AddAccount, Renew, Login, Logout
  <2>2. QED
    BY <2>1, EnforcerKept
<1>3. CASE SaveWrite
  <2>1. UNCHANGED cron /\ ("cron" \in stale' \/ cpc = "idle")
    BY <1>3 DEF SaveWrite, Write, CronHolds, EndOp
  <2>2. QED
    BY <2>1 DEF EnforcerInv
<1>4. CASE CronLoad
  <2>1. CASE torn
    BY <1>4, <2>1, NoRecordsType DEF CronLoad, EnforcerInv
  <2>2. CASE ~torn
    <3>1. csnap' = registry /\ registry' = registry /\ cpc' = "scan" /\ changed' = FALSE
      BY <1>4, <2>2 DEF CronLoad
    <3>2. \A u \in Users : SameButUsage(registry[u], registry[u])
      BY SameMarks DEF TypeOK, SystemOK, Registry
    <3>3. QED
      BY <3>1, <3>2 DEF EnforcerInv
  <2>3. QED
    BY <2>1, <2>2
<1>5. CASE CronKill
  BY <1>5 DEF CronKill, EnforcerInv
<1>6. CASE CronFinish
  BY <1>6 DEF CronFinish, CronRest, Truncate, EnforcerInv
<1>7. CASE CronWrite
  BY <1>7 DEF CronWrite, CronRest, EnforcerInv
<1>8. ASSUME NEW u \in Users, CronVisit(u) \/ CronLock(u) PROVE EnforcerInv'
  <2>1. /\ u \in ctodo /\ cpc = "scan" /\ registry' = registry /\ stale' = stale
        /\ cpc' = "kill" => changed'
        /\ cpc' \in {"scan", "kill"}
        /\ \/ csnap' = [csnap EXCEPT ![u] = Measured(u)]
           \/ csnap' = [csnap EXCEPT ![u] = [Measured(u) EXCEPT !.locked = TRUE, !.reason = "quota_exceeded"]]
    BY <1>8 DEF CronVisit, CronLock
  <2>2. csnap \in Registry
    BY DEF TypeOK, CronOK
  <2>3. ASSUME "cron" \notin stale PROVE \A v \in Users : SameButUsage(registry[v], csnap'[v])
    <3>1. \A v \in Users : SameButUsage(registry[v], csnap[v])
      BY <2>1, <2>3 DEF EnforcerInv
    <3>2. SameButUsage(registry[u], csnap'[u]) /\ \A v \in Users : v # u => csnap'[v] = csnap[v]
      BY <2>1, <2>2, <3>1, VisitSame DEF Registry
    <3>3. QED
      BY <3>1, <3>2
  <2>4. QED
    BY <2>1, <2>3 DEF EnforcerInv
<1>9. CASE Reboot
  BY <1>9 DEF Reboot, CronRest, EnforcerInv
<1>10. QED
  BY <1>1, <1>2, <1>3, <1>4, <1>5, <1>6, <1>7, <1>8, <1>9 DEF Next, Operator, PanelWorks, CronWorks, World

(* The enforcer's save, if it is not a lost update, drops no record, adds  *)
(* none and changes nothing the operator has filled in, however many users *)
(* and whatever the panel does meanwhile.                                  *)
THEOREM RecordsSurvive == Spec => EnforcerKeepsRecords
<1> DEFINE Step == cpc = "write" /\ ~raced' /\ registry' # registry /\ ppc' = ppc =>
                     \A u \in Users : SameButUsage(registry[u], registry'[u])
<1>1. Init => EnforcerInv
  BY DEF Init, EnforcerInv
<1>2. ASSUME TypeOK, EnforcerInv, [Next]_vars PROVE Step
  <2>1. SUFFICES ASSUME cpc = "write", ~raced', registry' # registry, ppc' = ppc
                 PROVE  \A u \in Users : SameButUsage(registry[u], registry'[u])
    OBVIOUS
  <2>2. SaveWrite \/ CronWrite
    BY <1>2, <2>1 DEF Next, Operator, PanelWorks, CronWorks, World, LoadMenu, Quit, RemoveExpired, RemoveAll, BeginRemoval,
      AddReload, LockKill, Userdel, RemovalDone, SaveTruncate, Truncate, StorePassword, PopPasswords, SyncCheckUser,
      Tomorrow, Hangup, vars, AddFails, Lock, Unlock, ResetQuota, RemoveUser, SkipUnexpired, RemoveKill, Traffic,
      AddAccount, Renew, Login, Logout, CronLoad, CronKill, CronFinish, CronVisit, CronLock, Reboot
  <2>3. CronWrite
    BY <2>1, <2>2 DEF SaveWrite, EndOp
  <2>4. registry' = csnap /\ "cron" \notin stale
    BY <2>1, <2>3 DEF CronWrite, Write
  <2>5. QED
    BY <1>2, <2>1, <2>4 DEF EnforcerInv
<1>3. QED
  BY <1>1, <1>2, EnforcerStep, TypeCorrect, PTL DEF Spec, EnforcerKeepsRecords

(***************************************************************************)
(* What the registry says between operations.  During them the registry    *)
(* is not right, and which copy is right changes hands: the panel's once it*)
(* is bound to save, else the enforcer's once it has changed something,    *)
(* else the file.  That copy, Current, is right at every step, unless a    *)
(* stale one has been saved or is bound to be.                             *)
(***************************************************************************)

(* The panel, the enforcer is bound to save its copy.                      *)
PanelBound ==
  \/ ppc \in {"removing", "userdel", "truncate", "write"}
  \/ ppc = "kill" /\ target \in Registered(psnap)
CronBound == cpc # "idle" /\ changed

(* A stale copy is bound to be saved: both processes are bound to save, or *)
(* one of which the copy is stale already.                                 *)
Lost ==
  \/ PanelBound /\ (CronBound \/ "panel" \in stale)
  \/ CronBound /\ "cron" \in stale

(* The copy that is going to be the registry.                              *)
Current == IF PanelBound THEN psnap ELSE IF CronBound THEN csnap ELSE registry

(* What a record says of u is so.                                          *)
Kept(u, rec) ==
  rec # NoRecord =>
    u \in account /\ rec.expiry = expires[u] /\ (rec.quota > 0 /\ u \notin LongNames => u \in chain)
LockedAs(u, rec) == rec # NoRecord => (rec.locked <=> u \in oslock)
ListedAs(u, rec) == rec # NoRecord /\ rec.linked => checkuser[u] = expires[u]

(* The record is right but for the lock between usermod and kill, and the  *)
(* CheckUser entry until an addition or a renewal is over.                 *)
Adding == op \in {"add", "renew"}
Right ==
  \A u \in Users :
    /\ Kept(u, Current[u])
    /\ ~(ppc = "kill" /\ u = target) => LockedAs(u, Current[u])
    /\ ~(Adding /\ u = target) => ListedAs(u, Current[u])

(* What an addition has made, before there is a record of it.              *)
New ==
  ppc = "adding" =>
    /\ Current[target] = NoRecord /\ target \notin oslock
    /\ Kept(target, form) /\ ~form.locked

(* What the copy of an addition or a renewal says of its target.           *)
Owed ==
  Adding /\ ppc # "adding" =>
    /\ psnap[target].expiry = expires[target]
    /\ Current[target] # NoRecord => Current[target].linked = psnap[target].linked
    /\ op = "add" => psnap[target].linked = form.linked
    /\ op = "renew" /\ psnap[target].linked => checkuser[target] # 0

(* What the copies have of the registry.                                   *)
PanelCopy ==
  /\ ppc \in {"menu", "kill"} => Registered(psnap) = Registered(Current)
  /\ ppc \in {"menu", "kill"} /\ "panel" \notin stale => psnap = registry
  /\ ppc = "kill" => target \in oslock
CronCopy ==
  /\ CronBound => Registered(csnap) = Registered(registry)
  /\ cpc # "idle" /\ ~changed /\ "cron" \notin stale => csnap = registry \/ ctodo = {}
Emptied == torn <=> ppc = "write" \/ cpc = "write"

(* Unless a stale copy was saved, is bound to be, or a crash cut something *)
(* off, the copy that is going to be the registry is right.                *)
Phases ==
  /\ cpc = "idle" => ~changed
  /\ cpc \in {"kill", "write"} => changed
  /\ ppc = "password" => op # "renew"
Sane == Right /\ New /\ Owed /\ PanelCopy /\ CronCopy /\ Emptied
CoherentInv == Phases /\ (~raced /\ crashes = 0 /\ ~Lost => Sane)

LEMMA CurrentIs ==
  /\ PanelBound => Current = psnap
  /\ ~PanelBound /\ CronBound => Current = csnap
  /\ ~PanelBound /\ ~CronBound => Current = registry
BY DEF Current

LEMMA CurrentWillBe ==
  /\ PanelBound' => Current' = psnap'
  /\ ~PanelBound' /\ CronBound' => Current' = csnap'
  /\ ~PanelBound' /\ ~CronBound' => Current' = registry'
BY DEF Current

LEMMA CurrentType == TypeOK => Current \in Registry
BY DEF Current, TypeOK, PanelOK, CronOK, SystemOK

(* Steps that change nothing of what the processes and the system hold.    *)
LEMMA QuietCoherent ==
  ASSUME CoherentInv, UNCHANGED <<account, oslock, expires, chain, registry, torn, checkuser, panel, cron, stale, history>>
  PROVE  CoherentInv'
<1>1. (PanelBound' <=> PanelBound) /\ (CronBound' <=> CronBound) /\ Current' = Current /\ (Lost' <=> Lost)
  BY DEF PanelBound, CronBound, Current, Lost, Registered
<1>2. Right => Right'
  BY <1>1 DEF Right, Kept, LockedAs, ListedAs, Adding
<1>3. (New => New') /\ (Owed => Owed')
  BY <1>1 DEF New, Owed, Kept, Adding
<1>4. (PanelCopy => PanelCopy') /\ (CronCopy => CronCopy') /\ (Emptied => Emptied')
  BY <1>1 DEF PanelCopy, CronCopy, Emptied, Registered
<1>5. QED
  BY <1>1, <1>2, <1>3, <1>4 DEF CoherentInv, Phases, Sane

(* The panel is back at its menu, with nothing to save.                    *)
Closed ==
  \A v \in Users : Current[v] # NoRecord =>
    /\ Current[v].locked <=> v \in oslock'
    /\ Current[v].linked => checkuser'[v] = expires[v]

LEMMA EndingCoherent ==
  ASSUME CoherentInv, EndOp, UNCHANGED <<account, expires, chain, registry, torn, cron, history>>,
         "cron" \in stale' <=> "cron" \in stale, ~ PanelBound, ppc # "write", Sane /\ ~raced /\ crashes = 0 => Closed
  PROVE  CoherentInv'
<1>1. ~ PanelBound' /\ (CronBound' <=> CronBound) /\ Current' = Current /\ (Lost' <=> Lost)
  BY DEF PanelBound, CronBound, Current, Lost, Registered, EndOp
<1>2. Phases'
  BY DEF CoherentInv, Phases, EndOp
<1> SUFFICES ASSUME ~raced, crashes = 0, ~ Lost, Sane, Closed PROVE Sane'
  BY <1>1, <1>2 DEF CoherentInv
<1>3. Right'
  BY <1>1 DEF Sane, Right, Closed, Kept, LockedAs, ListedAs
<1>4. New' /\ Owed' /\ PanelCopy'
  BY DEF New, Owed, PanelCopy, EndOp, Adding
<1>5. CronCopy' /\ Emptied'
  BY <1>1 DEF Sane, CronCopy, Emptied, Registered, EndOp
<1>6. QED
  BY <1>3, <1>4, <1>5 DEF Sane

LEMMA LoadCoherent ==
  ASSUME TypeOK, CoherentInv, LoadMenu
  PROVE  CoherentInv'
<1>1. /\ ppc = "idle" /\ ppc' = "menu" /\ psnap' = registry /\ stale' = stale \ {"panel"} /\ op = "none"
      /\ UNCHANGED <<account, oslock, expires, chain, registry, torn, checkuser, cron, history, op, target, form>>
  BY DEF LoadMenu, TypeOK, PanelOK
<1>2. ~ PanelBound /\ ~ PanelBound' /\ (CronBound' <=> CronBound) /\ Current' = Current /\ (Lost' <=> Lost)
  BY <1>1 DEF PanelBound, CronBound, Current, Lost
<1>3. Phases'
  BY <1>1 DEF CoherentInv, Phases
<1> SUFFICES ASSUME Sane PROVE Sane'
  BY <1>1, <1>2, <1>3 DEF CoherentInv
<1>4. Right' /\ New' /\ Owed'
  BY <1>1, <1>2 DEF Sane, Right, New, Owed, Kept, LockedAs, ListedAs, Adding
<1>5. Registered(registry) = Registered(Current)
  BY <1>2, CurrentIs DEF Sane, CronCopy
<1>6. PanelCopy'
  BY <1>1, <1>2, <1>5 DEF PanelCopy, Registered
<1>7. CronCopy' /\ Emptied'
  BY <1>1, <1>2 DEF Sane, CronCopy, Emptied, Registered
<1>8. QED
  BY <1>4, <1>6, <1>7 DEF Sane

LEMMA QuitCoherent ==
  ASSUME TypeOK, CoherentInv, Quit \/ \E u \in Users : AddFails(u)
  PROVE  CoherentInv'
<1>1. /\ ppc = "menu" /\ EndOp /\ stale' = stale \ {"panel"} /\ op = "none"
      /\ UNCHANGED <<account, oslock, expires, chain, registry, torn, checkuser, cron, history>>
  BY DEF Quit, AddFails, TypeOK, PanelOK
<1>2. ~ PanelBound
  BY <1>1 DEF PanelBound
<1>3. Sane => Closed
  BY <1>1 DEF Sane, Right, LockedAs, ListedAs, Adding, Closed
<1>4. QED
  BY <1>1, <1>2, <1>3, EndingCoherent

LEMMA AddCoherent ==
  ASSUME TypeOK, CoherentInv, NEW u \in Users, NEW f \in Forms, AddAccount(u, f)
  PROVE  CoherentInv'
<1>1. /\ ppc = "menu" /\ ppc' = "adding" /\ op' = "add" /\ target' = u /\ form' = NewRecord(f) /\ u \notin account
      /\ account' = account \cup {u} /\ expires' = [expires EXCEPT ![u] = today + f.days]
      /\ chain \subseteq chain' /\ (f.quota > 0 /\ u \notin LongNames => u \in chain')
      /\ stale' = stale \ {"panel"} /\ UNCHANGED <<oslock, checkuser, registry, torn, cron, history>>
  BY DEF AddAccount, EnsureQuotaChain
<1>2. ~ PanelBound /\ ~ PanelBound' /\ (CronBound' <=> CronBound) /\ Current' = Current /\ (Lost' <=> Lost)
  BY <1>1 DEF PanelBound, CronBound, Current, Lost
<1>3. Phases'
  BY <1>1 DEF CoherentInv, Phases
<1> SUFFICES ASSUME Sane PROVE Sane'
  BY <1>1, <1>2, <1>3 DEF CoherentInv
<1>4. Current[u] = NoRecord
  BY <1>1 DEF Sane, Right, Kept
<1>5. \A v \in Users : v # u => expires'[v] = expires[v]
  BY <1>1 DEF TypeOK, SystemOK
<1>6. Right'
  <2> SUFFICES ASSUME NEW v \in Users
               PROVE  (/\ Kept(v, Current[v]) /\ LockedAs(v, Current[v])
                       /\ ~(Adding /\ v = target) => ListedAs(v, Current[v]))'
    BY DEF Right
  <2>1. CASE v = u
    BY <1>2, <1>4, <2>1 DEF Kept, LockedAs, ListedAs
  <2>2. CASE v # u
    BY <1>1, <1>2, <1>5, <2>2, CurrentType DEF Sane, Right, Kept, LockedAs, ListedAs, Adding, TypeOK, PanelOK
  <2>3. QED
    BY <2>1, <2>2
<1>7. New'
  <2>1. u \notin oslock
    BY <1>1 DEF TypeOK, SystemOK
  <2>2. expires'[u] = today + f.days
    BY <1>1 DEF TypeOK, SystemOK
  <2>3. form'.expiry = today + f.days /\ form'.quota = f.quota /\ ~ form'.locked
    BY <1>1 DEF NewRecord
  <2>4. QED
    BY <1>1, <1>2, <1>4, <2>1, <2>2, <2>3 DEF New, Kept
<1>8. Owed' /\ PanelCopy'
  BY <1>1 DEF Owed, PanelCopy
<1>9. CronCopy' /\ Emptied'
  BY <1>1, <1>2 DEF Sane, CronCopy, Emptied, Registered
<1>10. QED
  BY <1>6, <1>7, <1>8, <1>9 DEF Sane

(* The record of an addition is put into what the file holds by now.       *)
LEMMA ReloadCoherent ==
  ASSUME TypeOK, CoherentInv, AddReload
  PROVE  CoherentInv'
<1>1. /\ ppc = "adding" /\ op = "add" /\ target \in Users /\ form \in Record
      /\ UNCHANGED <<account, oslock, expires, chain, registry, torn, checkuser, cron, history>>
  BY DEF AddReload, TypeOK, PanelOK
<1>2. ~ PanelBound
  BY <1>1 DEF PanelBound
<1>3. CASE EndOp /\ UNCHANGED stale
  <2>1. Sane => Closed
    <3> SUFFICES ASSUME Sane, NEW v \in Users, Current[v] # NoRecord
                 PROVE  /\ Current[v].locked <=> v \in oslock
                        /\ Current[v].linked => checkuser[v] = expires[v]
      BY <1>1 DEF Closed
    <3>1. v # target
      BY <1>1 DEF Sane, New
    <3>2. QED
      BY <1>1, <3>1 DEF Sane, Right, LockedAs, ListedAs
  <2>2. QED
    BY <1>1, <1>2, <1>3, <2>1, EndingCoherent
<1>4. CASE /\ ~torn /\ ppc' = "truncate" /\ psnap' = [registry EXCEPT ![target] = form]
           /\ stale' = stale \ {"panel"} /\ UNCHANGED <<op, target, form>>
  <2>1. PanelBound' /\ (CronBound' <=> CronBound)
    BY <1>4, <1>1 DEF PanelBound, CronBound
  <2>2. Phases'
    BY <1>1, <1>4 DEF CoherentInv, Phases
  <2> SUFFICES ASSUME ~raced, crashes = 0, ~ Lost' PROVE Sane'
    BY <1>1, <2>2 DEF CoherentInv
  <2>3. ~ CronBound /\ ~ CronBound' /\ Current = registry /\ Current' = psnap'
    BY <2>1, <1>2, CurrentIs, CurrentWillBe DEF Lost
  <2>4. Sane
    BY <1>2, <2>3 DEF CoherentInv, Lost
  <2>5. psnap'[target] = form /\ \A v \in Users : v # target => psnap'[v] = registry[v]
    BY <1>1, <1>4 DEF TypeOK, SystemOK, Registry
  <2>6. target \notin oslock /\ Kept(target, form) /\ ~ form.locked
    BY <1>1, <2>4 DEF Sane, New
  <2>7. Right'
    <3> SUFFICES ASSUME NEW v \in Users
                 PROVE  (/\ Kept(v, Current[v]) /\ LockedAs(v, Current[v])
                         /\ ~(Adding /\ v = target) => ListedAs(v, Current[v]))'
      BY DEF Right
    <3>1. CASE v = target
      BY <1>1, <1>4, <2>3, <2>5, <2>6, <3>1 DEF Kept, LockedAs, ListedAs, Adding
    <3>2. CASE v # target
      BY <1>1, <1>4, <2>3, <2>4, <2>5, <3>2 DEF Sane, Right, Kept, LockedAs, ListedAs, Adding
    <3>3. QED
      BY <3>1, <3>2
  <2>8. Owed'
    BY <1>1, <1>4, <2>3, <2>5, <2>6, NoRecordAssumption DEF Owed, Adding, Kept
  <2>9. New' /\ PanelCopy'
    BY <1>4 DEF New, PanelCopy
  <2>10. CronCopy' /\ Emptied'
    BY <1>1, <1>4, <2>3, <2>4 DEF Sane, CronCopy, Emptied
  <2>11. QED
    BY <2>7, <2>8, <2>9, <2>10 DEF Sane
<1>5. QED
  BY <1>3, <1>4 DEF AddReload

(* An option after which the panel is bound to save: the copy is fresh, or *)
(* a save is going to be lost.                                             *)
LEMMA Choosing ==
  ASSUME CoherentInv, ppc = "menu", stale' = stale, UNCHANGED <<registry, torn, cron, history>>, PanelBound',
         ppc' \notin {"write", "adding"}, ~raced, crashes = 0, ~ Lost'
  PROVE  /\ Sane /\ ~ CronBound /\ psnap = registry /\ Current = registry /\ Current' = psnap'
         /\ New' /\ CronCopy' /\ Emptied'
<1>1. ~ PanelBound /\ (CronBound' <=> CronBound)
  BY DEF PanelBound, CronBound
<1>2. ~ CronBound /\ "panel" \notin stale /\ Current = registry /\ Current' = psnap'
  BY <1>1, CurrentIs, CurrentWillBe DEF Lost
<1>3. Sane
  BY <1>1, <1>2 DEF CoherentInv, Lost
<1>4. psnap = registry
  BY <1>2, <1>3 DEF Sane, PanelCopy
<1>5. New' /\ CronCopy' /\ Emptied'
  BY <1>1, <1>2, <1>3 DEF Sane, New, CronCopy, Emptied
<1>6. QED
  BY <1>2, <1>3, <1>4, <1>5

(* An edit of one record, which says what has been made so.                *)
Edited(u, rec) ==
  /\ rec \in Record /\ Current' = [Current EXCEPT ![u] = rec]
  /\ account' = account /\ chain' = chain /\ checkuser' = checkuser
  /\ (ppc = "kill" => target = u) /\ ppc' # "kill"
  /\ \A v \in Users : v # u => expires'[v] = expires[v] /\ (v \in oslock' <=> v \in oslock)
  /\ Adding => target = u
  /\ Kept(u, rec)' /\ LockedAs(u, rec)' /\ (~(Adding /\ u = target)' => ListedAs(u, rec)')

LEMMA EditRight ==
  ASSUME TypeOK, Right, NEW u \in Users, NEW rec \in Record, Edited(u, rec)
  PROVE  Right'
<1>1. Current'[u] = rec /\ \A v \in Users : v # u => Current'[v] = Current[v]
  BY CurrentType DEF Registry, Edited
<1> SUFFICES ASSUME NEW v \in Users
             PROVE  (/\ Kept(v, Current[v]) /\ LockedAs(v, Current[v])
                     /\ ~(Adding /\ v = target) => ListedAs(v, Current[v]))'
  BY DEF Right
<1>2. CASE v = u
  BY <1>1, <1>2 DEF Kept, LockedAs, ListedAs, Edited
<1>3. CASE v # u
  BY <1>1, <1>3 DEF Right, Kept, LockedAs, ListedAs, Edited
<1>4. QED
  BY <1>2, <1>3

LEMMA RenewCoherent ==
  ASSUME TypeOK, CoherentInv, NEW u \in Users, NEW f \in Forms, Renew(u, f.days)
  PROVE  CoherentInv'
<1>1. /\ ppc = "menu" /\ ppc' = "truncate" /\ op = "none" /\ op' = "renew" /\ target' = u /\ form' = form
      /\ u \in Registered(psnap) /\ today + f.days \in Day
      /\ psnap' = [psnap EXCEPT ![u] = [psnap[u] EXCEPT !.expiry = today + f.days, !.locked = FALSE]]
      /\ oslock' = oslock \ {u} /\ SetExpiry(u, today + f.days)
      /\ UNCHANGED <<account, chain, checkuser, registry, torn, cron, stale, history>>
  BY DEF Renew, UnlockAccount, TypeOK, PanelOK
<1>2. PICK old \in Record, day \in Day : old = psnap[u] /\ day = today + f.days
  <2>1. psnap[u] \in Record
    BY <1>1, RegistryEdits DEF TypeOK, PanelOK
  <2>2. QED
    BY <1>1, <2>1
<1>3. PICK rec \in Record : /\ rec = [old EXCEPT !.expiry = day, !.locked = FALSE]
                            /\ rec.expiry = day /\ ~ rec.locked /\ rec.quota = old.quota /\ rec.linked = old.linked
  <2> DEFINE new == [old EXCEPT !.expiry = day, !.locked = FALSE]
  <2>1. new \in Record /\ new.expiry = day /\ ~ new.locked /\ new.quota = old.quota /\ new.linked = old.linked
    BY DEF Record
  <2> HIDE DEF new
  <2>2. QED
    BY <2>1 DEF new
<1>4. PanelBound' /\ Phases'
  BY <1>1 DEF PanelBound, CoherentInv, Phases
<1> SUFFICES ASSUME ~raced, crashes = 0, ~ Lost' PROVE Sane'
  BY <1>1, <1>4 DEF CoherentInv
<1>5. /\ Sane /\ psnap = registry /\ Current = registry /\ Current' = psnap'
      /\ New' /\ CronCopy' /\ Emptied'
  BY <1>1, <1>4, Choosing
<1>6. Kept(u, old) /\ LockedAs(u, old) /\ ListedAs(u, old)
  BY <1>1, <1>2, <1>5 DEF Sane, Right, Adding
<1>7. old # NoRecord /\ u \in account
  BY <1>2, <1>6, NoRecordAssumption DEF Kept
<1>8. expires'[u] = day /\ \A v \in Users : v # u => expires'[v] = expires[v]
  BY <1>1, <1>2, <1>7 DEF SetExpiry, TypeOK, SystemOK
<1>9. Right'
  <2>1. Kept(u, rec)' /\ LockedAs(u, rec)'
    BY <1>1, <1>3, <1>6, <1>7, <1>8 DEF Kept, LockedAs
  <2>2. (Adding /\ u = target)' /\ ~ Adding
    BY <1>1 DEF Adding
  <2>3. Current' = [Current EXCEPT ![u] = rec]
    BY <1>1, <1>2, <1>3, <1>5
  <2>4. Edited(u, rec)
    BY <1>1, <1>3, <1>8, <2>1, <2>2, <2>3 DEF Edited
  <2>5. QED
    BY <1>3, <1>5, <2>4, EditRight DEF Sane
<1>10. Owed'
  <2>1. psnap'[u] = rec
    BY <1>1, <1>2, <1>3 DEF TypeOK, PanelOK, Registry
  <2>2. old.linked => checkuser[u] # 0
    <3>1. old.linked => checkuser[u] = expires[u] /\ expires[u] = old.expiry
      BY <1>6, <1>7 DEF Kept, ListedAs
    <3>2. old.expiry # 0
      BY <1>2 DEF Record, Day
    <3>3. QED
      BY <3>1, <3>2
  <2>3. QED
    BY <1>1, <1>3, <1>5, <1>8, <2>1, <2>2 DEF Owed
<1>11. PanelCopy'
  BY <1>1 DEF PanelCopy
<1>12. QED
  BY <1>5, <1>9, <1>10, <1>11 DEF Sane

LEMMA LockCoherent ==
  ASSUME TypeOK, CoherentInv, NEW u \in Users, Lock(u)
  PROVE  CoherentInv'
<1>1. /\ ppc = "menu" /\ ppc' = "kill" /\ op = "none" /\ op' = "edit" /\ target' = u /\ u \in account
      /\ oslock' = oslock \cup {u} /\ psnap' = psnap /\ form' = form
      /\ UNCHANGED <<account, expires, chain, checkuser, registry, torn, cron, stale, history>>
  BY DEF Lock, LockAccount, TypeOK, PanelOK
<1>2. Phases'
  BY <1>1 DEF CoherentInv, Phases
<1> SUFFICES ASSUME ~raced, crashes = 0, ~ Lost' PROVE Sane'
  BY <1>1, <1>2 DEF CoherentInv
<1>3. Sane /\ Current' = Current /\ (u \in Registered(psnap) \/ Registered(psnap) = Registered(Current))
      /\ New' /\ CronCopy' /\ Emptied'
  <2>1. CASE u \in Registered(psnap)
    <3>1. PanelBound'
      BY <1>1, <2>1 DEF PanelBound
    <3>2. QED
      BY <1>1, <2>1, <3>1, Choosing
  <2>2. CASE u \notin Registered(psnap)
    <3>1. ~ PanelBound /\ ~ PanelBound' /\ (CronBound' <=> CronBound) /\ Current' = Current /\ (Lost' <=> Lost)
      BY <1>1, <2>2 DEF PanelBound, CronBound, Current, Lost
    <3>2. Sane
      BY <3>1 DEF CoherentInv
    <3>3. QED
      BY <1>1, <3>1, <3>2 DEF Sane, PanelCopy, New, CronCopy, Emptied
  <2>3. QED
    BY <2>1, <2>2
<1>4. Right'
  BY <1>1, <1>3 DEF Sane, Right, Kept, LockedAs, ListedAs, Adding
<1>5. Owed' /\ PanelCopy'
  BY <1>1, <1>3 DEF Owed, Adding, Sane, PanelCopy, Registered
<1>6. QED
  BY <1>3, <1>4, <1>5 DEF Sane

(* An option that edits one record, and what the system does along with it.*)
MenuEdited(u, rec) ==
  /\ ppc = "menu" /\ ppc' = "truncate" /\ op = "none" /\ op' = "edit" /\ target' = u
  /\ psnap[u] \in Record /\ psnap' = [psnap EXCEPT ![u] = rec]
  /\ rec.expiry = psnap[u].expiry /\ rec.quota = psnap[u].quota /\ rec.linked = psnap[u].linked
  /\ \/ ~rec.locked /\ oslock' = oslock \ {u}
     \/ rec.locked = psnap[u].locked /\ oslock' = oslock
  /\ UNCHANGED <<account, expires, chain, checkuser, registry, torn, cron, stale, history>>

LEMMA MenuEditCoherent ==
  ASSUME TypeOK, CoherentInv, NEW u \in Users, NEW rec \in Record, MenuEdited(u, rec)
  PROVE  CoherentInv'
<1>1. PanelBound' /\ Phases'
  BY DEF MenuEdited, PanelBound, CoherentInv, Phases
<1> SUFFICES ASSUME ~raced, crashes = 0, ~ Lost' PROVE Sane'
  BY <1>1 DEF CoherentInv, MenuEdited
<1>2. /\ Sane /\ psnap = registry /\ Current = registry /\ Current' = psnap'
      /\ New' /\ CronCopy' /\ Emptied'
  BY <1>1, Choosing DEF MenuEdited
<1>3. psnap[u] # NoRecord
  BY NoRecordAssumption DEF MenuEdited
<1>4. Kept(u, psnap[u]) /\ LockedAs(u, psnap[u]) /\ ListedAs(u, psnap[u])
  BY <1>2 DEF Sane, Right, Adding, MenuEdited
<1>5. Kept(u, rec)' /\ ListedAs(u, rec)'
  BY <1>3, <1>4 DEF Kept, ListedAs, MenuEdited
<1>6. LockedAs(u, rec)'
  BY <1>3, <1>4 DEF LockedAs, MenuEdited
<1>7. Current' = [Current EXCEPT ![u] = rec]
  BY <1>2 DEF MenuEdited
<1>8. Edited(u, rec)
  BY <1>5, <1>6, <1>7 DEF Edited, MenuEdited, Adding
<1>9. Right'
  BY <1>2, <1>8, EditRight DEF Sane
<1>10. Owed' /\ PanelCopy'
  BY DEF Owed, Adding, PanelCopy, MenuEdited
<1>11. QED
  BY <1>2, <1>9, <1>10 DEF Sane

LEMMA LockKillCoherent ==
  ASSUME TypeOK, CoherentInv, LockKill
  PROVE  CoherentInv'
<1>1. /\ ppc = "kill" /\ op = "edit" /\ target \in Users
      /\ UNCHANGED <<account, oslock, expires, chain, checkuser, registry, torn, cron, history>>
  BY DEF LockKill, TypeOK, PanelOK
<1>2. CASE target \in Registered(psnap)
  <2>1. /\ ppc' = "truncate" /\ UNCHANGED <<stale, op, target, form>>
        /\ psnap' = [psnap EXCEPT ![target] = [psnap[target] EXCEPT !.locked = TRUE, !.reason = "manual"]]
    BY <1>2 DEF LockKill
  <2>2. PICK u \in Users, old \in Record : u = target /\ old = psnap[target]
    <3>1. psnap[target] \in Record
      BY <1>1, <1>2, RegistryEdits DEF TypeOK, PanelOK
    <3>2. QED
      BY <1>1, <3>1
  <2>3. PICK rec \in Record : /\ rec = [old EXCEPT !.locked = TRUE, !.reason = "manual"]
                              /\ rec.expiry = old.expiry /\ rec.locked
                              /\ rec.quota = old.quota /\ rec.linked = old.linked
    <3> DEFINE new == [old EXCEPT !.locked = TRUE, !.reason = "manual"]
    <3>1. new \in Record /\ new.expiry = old.expiry /\ new.locked /\ new.quota = old.quota /\ new.linked = old.linked
      BY DEF Record
    <3> HIDE DEF new
    <3>2. QED
      BY <3>1 DEF new
  <2>4. /\ PanelBound /\ PanelBound' /\ (CronBound' <=> CronBound) /\ (Lost' <=> Lost)
        /\ Current = psnap /\ Current' = psnap'
    BY <1>1, <1>2, <2>1, CurrentIs, CurrentWillBe DEF PanelBound, CronBound, Lost
  <2>5. Phases'
    BY <1>1, <2>1 DEF CoherentInv, Phases
  <2> SUFFICES ASSUME Sane PROVE Sane'
    BY <1>1, <2>4, <2>5 DEF CoherentInv
  <2>6. old # NoRecord /\ u \in oslock
    BY <1>1, <2>2, NoRecordAssumption DEF Sane, PanelCopy
  <2>7. Kept(u, old) /\ ListedAs(u, old)
    BY <1>1, <2>2, <2>4 DEF Sane, Right, Adding
  <2>8. Kept(u, rec)' /\ ListedAs(u, rec)' /\ LockedAs(u, rec)'
    BY <1>1, <2>3, <2>6, <2>7 DEF Kept, ListedAs, LockedAs
  <2>9. Current' = [Current EXCEPT ![u] = rec]
    BY <2>1, <2>2, <2>3, <2>4
  <2>10. Edited(u, rec)
    BY <1>1, <2>1, <2>2, <2>8, <2>9 DEF Edited, Adding
  <2>11. Right'
    BY <2>10, EditRight DEF Sane
  <2>12. New' /\ Owed' /\ PanelCopy'
    BY <1>1, <2>1 DEF New, Owed, Adding, PanelCopy
  <2>13. CronCopy' /\ Emptied'
    BY <1>1, <2>1, <2>4 DEF Sane, CronCopy, Emptied
  <2>14. QED
    BY <2>11, <2>12, <2>13 DEF Sane
<1>3. CASE target \notin Registered(psnap)
  <2>1. EndOp /\ stale' = stale \ {"panel"} /\ ~ PanelBound
    BY <1>1, <1>3 DEF LockKill, PanelBound
  <2>2. Sane => Closed
    BY <1>1, <1>3 DEF Sane, PanelCopy, Registered, Right, LockedAs, ListedAs, Adding, Closed
  <2>3. QED
    BY <1>1, <2>1, <2>2, EndingCoherent
<1>4. QED
  BY <1>2, <1>3

LEMMA UnlockCoherent ==
  ASSUME TypeOK, CoherentInv, NEW u \in Users, Unlock(u)
  PROVE  CoherentInv'
<1>1. /\ ppc = "menu" /\ op = "none" /\ oslock' = oslock \ {u}
      /\ UNCHANGED <<account, expires, chain, checkuser, registry, torn, cron, history>>
  BY DEF Unlock, UnlockAccount, TypeOK, PanelOK
<1>2. CASE u \in Registered(psnap)
  <2>1. PICK old \in Record : old = psnap[u]
    BY <1>2, RegistryEdits DEF TypeOK, PanelOK
  <2>2. PICK rec \in Record : /\ rec = [old EXCEPT !.locked = FALSE]
                              /\ rec.expiry = old.expiry /\ ~ rec.locked
                              /\ rec.quota = old.quota /\ rec.linked = old.linked
    <3> DEFINE new == [old EXCEPT !.locked = FALSE]
    <3>1. new \in Record /\ new.expiry = old.expiry /\ ~ new.locked /\ new.quota = old.quota /\ new.linked = old.linked
      BY DEF Record
    <3> HIDE DEF new
    <3>2. QED
      BY <3>1 DEF new
  <2>3. /\ ppc' = "truncate" /\ op' = "edit" /\ target' = u /\ stale' = stale
        /\ psnap' = [psnap EXCEPT ![u] = [psnap[u] EXCEPT !.locked = FALSE]]
    BY <1>2 DEF Unlock
  <2>4. MenuEdited(u, rec)
    BY <1>1, <2>1, <2>2, <2>3 DEF MenuEdited
  <2>5. QED
    BY <2>4, MenuEditCoherent
<1>3. CASE u \notin Registered(psnap)
  <2>1. EndOp /\ stale' = stale \ {"panel"} /\ ~ PanelBound
    BY <1>1, <1>3 DEF Unlock, PanelBound
  <2>2. Sane => Closed
    BY <1>1, <1>3 DEF Sane, PanelCopy, Registered, Right, LockedAs, ListedAs, Adding, Closed
  <2>3. QED
    BY <1>1, <2>1, <2>2, EndingCoherent
<1>4. QED
  BY <1>2, <1>3

LEMMA ResetCoherent ==
  ASSUME TypeOK, CoherentInv, NEW u \in Users, ResetQuota(u)
  PROVE  CoherentInv'
<1>1. /\ ppc = "menu" /\ ppc' = "truncate" /\ op = "none" /\ op' = "edit" /\ target' = u
      /\ u \in Registered(psnap)
      /\ UNCHANGED <<account, expires, chain, checkuser, registry, torn, cron, stale, history>>
  BY DEF ResetQuota, TypeOK, PanelOK
<1>2. PICK old \in Record : old = psnap[u]
  BY <1>1, RegistryEdits DEF TypeOK, PanelOK
<1>3. PICK rec \in Record : /\ psnap' = [psnap EXCEPT ![u] = rec]
                            /\ rec.expiry = old.expiry /\ rec.quota = old.quota /\ rec.linked = old.linked
                            /\ \/ ~rec.locked /\ oslock' = oslock \ {u}
                               \/ rec.locked = old.locked /\ oslock' = oslock
  <2> DEFINE free == [old EXCEPT !.used = 0, !.locked = FALSE]
             same == [old EXCEPT !.used = 0]
  <2>1. /\ free \in Record /\ free.expiry = old.expiry /\ ~ free.locked
        /\ free.quota = old.quota /\ free.linked = old.linked
    <3>1. 0 \in 0..MaxBytes
      BY BoundsAssumption
    <3>2. QED
      BY <3>1 DEF Record
  <2>2. /\ same \in Record /\ same.expiry = old.expiry /\ same.locked = old.locked
        /\ same.quota = old.quota /\ same.linked = old.linked
    <3>1. 0 \in 0..MaxBytes
      BY BoundsAssumption
    <3>2. QED
      BY <3>1 DEF Record
  <2>3. \/ psnap' = [psnap EXCEPT ![u] = free] /\ oslock' = oslock \ {u}
        \/ psnap' = [psnap EXCEPT ![u] = same] /\ oslock' = oslock
    <3>1. CASE psnap[u].reason = "quota_exceeded"
      BY <1>2, <3>1 DEF ResetQuota, UnlockAccount
    <3>2. CASE psnap[u].reason # "quota_exceeded"
      <4>1. psnap' = [psnap EXCEPT ![u] = [psnap[u] EXCEPT !.used = 0]] /\ oslock' = oslock
        BY <3>2 DEF ResetQuota
      <4>2. QED
        BY <1>2, <4>1
    <3>3. QED
      BY <3>1, <3>2
  <2> HIDE DEF free, same
  <2>4. QED
    BY <2>1, <2>2, <2>3
<1>4. MenuEdited(u, rec)
  BY <1>1, <1>2, <1>3 DEF MenuEdited
<1>5. QED
  BY <1>4, MenuEditCoherent

LEMMA RemovalCoherent ==
  ASSUME TypeOK, CoherentInv, RemoveExpired \/ RemoveAll \/ \E u \in Users : RemoveUser(u)
  PROVE  CoherentInv'
<1>1. /\ ppc = "menu" /\ ppc' = "removing" /\ op = "none" /\ op' \in {"remove", "expired", "all"}
      /\ UNCHANGED <<account, oslock, expires, chain, checkuser, registry, torn, cron, stale, history, psnap>>
  BY DEF RemoveExpired, RemoveAll, RemoveUser, BeginRemoval, TypeOK, PanelOK
<1>2. PanelBound' /\ Phases'
  BY <1>1 DEF PanelBound, CoherentInv, Phases
<1> SUFFICES ASSUME ~raced, crashes = 0, ~ Lost' PROVE Sane'
  BY <1>1, <1>2 DEF CoherentInv
<1>3. /\ Sane /\ psnap = registry /\ Current = registry /\ Current' = psnap'
      /\ New' /\ CronCopy' /\ Emptied'
  BY <1>1, <1>2, Choosing
<1>4. Right'
  BY <1>1, <1>3 DEF Sane, Right, Kept, LockedAs, ListedAs, Adding
<1>5. Owed' /\ PanelCopy'
  BY <1>1 DEF Owed, Adding, PanelCopy
<1>6. QED
  BY <1>3, <1>4, <1>5 DEF Sane

(* Steps of a removal that change neither the system nor the copy.         *)
LEMMA RemovingCoherent ==
  ASSUME TypeOK, CoherentInv, RemovalDone \/ \E u \in Users : SkipUnexpired(u) \/ RemoveKill(u)
  PROVE  CoherentInv'
<1>1. /\ ppc = "removing" /\ ppc' \in {"removing", "userdel", "truncate"} /\ op \in {"remove", "expired", "all"} /\ op' = op
      /\ UNCHANGED <<account, oslock, expires, chain, checkuser, registry, torn, cron, stale, history, psnap>>
  BY DEF RemovalDone, SkipUnexpired, RemoveKill, TypeOK, PanelOK
<1>2. /\ PanelBound /\ PanelBound' /\ (CronBound' <=> CronBound) /\ (Lost' <=> Lost)
      /\ Current = psnap /\ Current' = psnap
  BY <1>1, CurrentIs, CurrentWillBe DEF PanelBound, CronBound, Lost
<1>3. Phases'
  BY <1>1 DEF CoherentInv, Phases
<1> SUFFICES ASSUME Sane PROVE Sane'
  BY <1>1, <1>2, <1>3 DEF CoherentInv
<1>4. Right'
  BY <1>1, <1>2 DEF Sane, Right, Kept, LockedAs, ListedAs, Adding
<1>5. New' /\ Owed' /\ PanelCopy'
  BY <1>1 DEF New, Owed, Adding, PanelCopy
<1>6. CronCopy' /\ Emptied'
  BY <1>1, <1>2 DEF Sane, CronCopy, Emptied
<1>7. QED
  BY <1>4, <1>5, <1>6 DEF Sane

LEMMA UserdelCoherent ==
  ASSUME TypeOK, CoherentInv, Userdel
  PROVE  CoherentInv'
<1>1. /\ ppc = "userdel" /\ ppc' = "removing" /\ op \in {"remove", "expired", "all"} /\ op' = op /\ target \in Users
      /\ psnap' = [psnap EXCEPT ![target] = NoRecord]
      /\ UNCHANGED <<checkuser, registry, torn, cron, stale, history>>
  BY DEF Userdel, TypeOK, PanelOK
<1>2. \A v \in Users : v # target =>
        /\ (v \in account' <=> v \in account) /\ (v \in oslock' <=> v \in oslock)
        /\ expires'[v] = expires[v] /\ (v \in chain' <=> v \in chain)
  BY DEF Userdel, TypeOK, SystemOK
<1>3. /\ PanelBound /\ PanelBound' /\ (CronBound' <=> CronBound) /\ (Lost' <=> Lost)
      /\ Current = psnap /\ Current' = psnap'
  BY <1>1, CurrentIs, CurrentWillBe DEF PanelBound, CronBound, Lost
<1>4. Phases'
  BY <1>1 DEF CoherentInv, Phases
<1> SUFFICES ASSUME Sane PROVE Sane'
  BY <1>1, <1>3, <1>4 DEF CoherentInv
<1>5. Current'[target] = NoRecord /\ \A v \in Users : v # target => Current'[v] = Current[v]
  BY <1>1, <1>3 DEF TypeOK, PanelOK, Registry
<1>6. Right'
  <2> SUFFICES ASSUME NEW v \in Users
               PROVE  (/\ Kept(v, Current[v]) /\ LockedAs(v, Current[v]) /\ ListedAs(v, Current[v]))'
    BY DEF Right
  <2>1. CASE v = target
    BY <1>5, <2>1 DEF Kept, LockedAs, ListedAs
  <2>2. CASE v # target
    BY <1>1, <1>2, <1>5, <2>2 DEF Sane, Right, Kept, LockedAs, ListedAs, Adding
  <2>3. QED
    BY <2>1, <2>2
<1>7. New' /\ Owed' /\ PanelCopy'
  BY <1>1 DEF New, Owed, Adding, PanelCopy
<1>8. CronCopy' /\ Emptied'
  BY <1>1, <1>3 DEF Sane, CronCopy, Emptied
<1>9. QED
  BY <1>6, <1>7, <1>8 DEF Sane

LEMMA SaveTruncateCoherent ==
  ASSUME TypeOK, CoherentInv, SaveTruncate
  PROVE  CoherentInv'
<1>1. /\ ppc = "truncate" /\ ppc' = "write" /\ torn' = TRUE
      /\ UNCHANGED <<account, oslock, expires, chain, checkuser, registry, cron, stale, history, psnap, op, target, form>>
  BY DEF SaveTruncate, Truncate
<1>2. /\ PanelBound /\ PanelBound' /\ (CronBound' <=> CronBound) /\ (Lost' <=> Lost)
      /\ Current = psnap /\ Current' = psnap
  BY <1>1, CurrentIs, CurrentWillBe DEF PanelBound, CronBound, Lost
<1>3. Phases'
  BY <1>1 DEF CoherentInv, Phases
<1> SUFFICES ASSUME Sane PROVE Sane'
  BY <1>1, <1>2, <1>3 DEF CoherentInv
<1>4. Right'
  BY <1>1, <1>2 DEF Sane, Right, Kept, LockedAs, ListedAs, Adding
<1>5. Owed'
  BY <1>1, <1>2 DEF Sane, Owed, Adding
<1>6. New' /\ PanelCopy' /\ CronCopy' /\ Emptied'
  BY <1>1, <1>2 DEF Sane, New, PanelCopy, CronCopy, Emptied
<1>7. QED
  BY <1>4, <1>5, <1>6 DEF Sane

(* The copy of the panel becomes the registry.                             *)
LEMMA SaveWriteCoherent ==
  ASSUME TypeOK, CoherentInv, SaveWrite
  PROVE  CoherentInv'
<1>1. /\ ppc = "write" /\ registry' = psnap /\ (raced' <=> raced \/ "panel" \in stale)
      /\ stale' = (stale \ {"panel"}) \cup CronHolds /\ (torn => ~ torn')
      /\ UNCHANGED <<account, oslock, expires, chain, checkuser, cron, crashes>>
  BY DEF SaveWrite, Write
<1>2. \/ /\ op \in {"add", "remove", "expired", "all"} /\ ppc' = "password"
         /\ UNCHANGED <<psnap, op, target, form>>
      \/ /\ op = "renew" /\ psnap[target].linked /\ ppc' = "checkuser"
         /\ UNCHANGED <<psnap, op, target, form>>
      \/ op # "add" /\ (op = "renew" => ~ psnap[target].linked) /\ EndOp
  BY DEF SaveWrite
<1>3. PanelBound /\ ~ PanelBound' /\ (CronBound' <=> CronBound) /\ ppc' \in {"password", "checkuser", "idle"}
  BY <1>1, <1>2 DEF PanelBound, CronBound, EndOp
<1>4. Phases'
  BY <1>1, <1>2 DEF CoherentInv, Phases, EndOp
<1> SUFFICES ASSUME ~raced', crashes = 0, ~ Lost' PROVE Sane'
  BY <1>1, <1>4 DEF CoherentInv
<1>5. ~ CronBound
  BY <1>1, <1>3 DEF Lost, CronBound, CronHolds
<1>6. ~ raced /\ "panel" \notin stale /\ Sane
  BY <1>1, <1>3, <1>5 DEF CoherentInv, Lost
<1>7. Current = psnap /\ Current' = psnap
  BY <1>1, <1>3, <1>5, CurrentIs, CurrentWillBe
<1>8. Right'
  <2> SUFFICES ASSUME NEW v \in Users
               PROVE  (/\ Kept(v, Current[v]) /\ LockedAs(v, Current[v])
                       /\ ~(Adding /\ v = target) => ListedAs(v, Current[v]))'
    BY DEF Right
  <2>1. Kept(v, psnap[v]) /\ LockedAs(v, psnap[v])
    BY <1>1, <1>6, <1>7 DEF Sane, Right
  <2>2. CASE UNCHANGED <<psnap, op, target, form>>
    BY <1>1, <1>6, <1>7, <2>1, <2>2 DEF Sane, Right, Kept, LockedAs, ListedAs, Adding
  <2>3. CASE op # "add" /\ (op = "renew" => ~ psnap[target].linked)
    <3>1. ListedAs(v, psnap[v])
      BY <1>6, <1>7, <2>3 DEF Sane, Right, Adding, ListedAs
    <3>2. QED
      BY <1>1, <1>7, <2>1, <3>1 DEF Kept, LockedAs, ListedAs
  <2>4. QED
    BY <1>2, <2>2, <2>3
<1>9. Owed'
  <2>1. CASE UNCHANGED <<psnap, op, target, form>>
    BY <1>1, <1>6, <1>7, <2>1 DEF Sane, Owed, Adding
  <2>2. CASE EndOp
    BY <2>2 DEF Owed, Adding, EndOp
  <2>3. QED
    BY <1>2, <2>1, <2>2
<1>10. New' /\ PanelCopy'
  BY <1>3 DEF New, PanelCopy
<1>11. CronCopy'
  BY <1>1, <1>3, <1>5 DEF CronCopy, CronHolds
<1>12. Emptied'
  <2>1. cpc # "write"
    BY <1>5 DEF CoherentInv, Phases, CronBound
  <2>2. torn
    BY <1>1, <1>6 DEF Sane, Emptied
  <2>3. QED
    BY <1>1, <1>3, <2>1, <2>2 DEF Emptied
<1>13. QED
  BY <1>8, <1>9, <1>10, <1>11, <1>12 DEF Sane

LEMMA StorePasswordCoherent ==
  ASSUME TypeOK, CoherentInv, StorePassword
  PROVE  CoherentInv'
<1>1. /\ ppc = "password" /\ op = "add" /\ target \in Users
      /\ UNCHANGED <<account, oslock, expires, chain, checkuser, registry, torn, cron, history>>
  BY DEF StorePassword, TypeOK, PanelOK
<1>2. ~ PanelBound
  BY <1>1 DEF PanelBound
<1>3. CASE form.linked
  <2>1. ppc' = "checkuser" /\ UNCHANGED <<psnap, op, target, form, stale>>
    BY <1>3 DEF StorePassword
  <2>2. ~ PanelBound' /\ (CronBound' <=> CronBound) /\ (Lost' <=> Lost) /\ Current' = Current
    BY <1>1, <1>2, <2>1 DEF PanelBound, CronBound, Lost, Current
  <2>3. Phases'
    BY <1>1, <2>1 DEF CoherentInv, Phases
  <2> SUFFICES ASSUME Sane PROVE Sane'
    BY <1>1, <2>2, <2>3 DEF CoherentInv
  <2>4. Right'
    BY <1>1, <2>1, <2>2 DEF Sane, Right, Kept, LockedAs, ListedAs, Adding
  <2>5. Owed'
    BY <1>1, <2>1, <2>2 DEF Sane, Owed, Adding
  <2>6. New' /\ PanelCopy' /\ CronCopy' /\ Emptied'
    BY <1>1, <2>1, <2>2 DEF Sane, New, PanelCopy, CronCopy, Emptied
  <2>7. QED
    BY <2>4, <2>5, <2>6 DEF Sane
<1>4. CASE ~ form.linked
  <2>1. EndOp /\ stale' = stale \ {"panel"}
    BY <1>4 DEF StorePassword
  <2>2. ASSUME Sane PROVE Closed
    <3>1. Current[target] # NoRecord => ~ Current[target].linked
      BY <1>1, <1>4, <2>2 DEF Sane, Owed, Adding
    <3>2. QED
      BY <1>1, <2>2, <3>1 DEF Sane, Right, LockedAs, ListedAs, Adding, Closed
  <2>3. QED
    BY <1>1, <1>2, <2>1, <2>2, EndingCoherent
<1>5. QED
  BY <1>3, <1>4

LEMMA PopCoherent ==
  ASSUME TypeOK, CoherentInv, PopPasswords
  PROVE  CoherentInv'
<1>1. /\ ppc = "password" /\ EndOp /\ stale' = stale \ {"panel"} /\ ~ Adding
      /\ UNCHANGED <<account, oslock, expires, chain, checkuser, registry, torn, cron, history>>
  BY DEF PopPasswords, CoherentInv, Phases, Adding
<1>2. ~ PanelBound
  BY <1>1 DEF PanelBound
<1>3. Sane => Closed
  BY <1>1 DEF Sane, Right, LockedAs, ListedAs, Closed
<1>4. QED
  BY <1>1, <1>2, <1>3, EndingCoherent

LEMMA SyncCoherent ==
  ASSUME TypeOK, CoherentInv, SyncCheckUser
  PROVE  CoherentInv'
<1>1. /\ ppc = "checkuser" /\ EndOp /\ stale' = stale \ {"panel"} /\ Adding /\ target \in Users
      /\ UNCHANGED <<account, oslock, expires, chain, registry, torn, cron, history>>
  <2>1. ppc = "checkuser" /\ op \in {"add", "renew"}
    BY DEF SyncCheckUser, TypeOK, PanelOK
  <2>2. target \in Registered(psnap)
    BY <2>1 DEF TypeOK, PanelOK
  <2>3. QED
    BY <2>1, <2>2 DEF SyncCheckUser, Adding, Registered
<1>2. ~ PanelBound
  BY <1>1 DEF PanelBound
<1>3. ASSUME Sane PROVE Closed
  <2> SUFFICES ASSUME NEW v \in Users, Current[v] # NoRecord
               PROVE  /\ Current[v].locked <=> v \in oslock'
                      /\ Current[v].linked => checkuser'[v] = expires[v]
    BY DEF Closed
  <2>1. Current[v].locked <=> v \in oslock'
    BY <1>1, <1>3 DEF Sane, Right, LockedAs
  <2>2. ASSUME v # target, Current[v].linked PROVE checkuser'[v] = expires[v]
    <3>1. checkuser'[v] = checkuser[v]
      BY <2>2 DEF SyncCheckUser, TypeOK, SystemOK
    <3>2. QED
      BY <1>1, <1>3, <2>2, <3>1 DEF Sane, Right, ListedAs
  <2>3. ASSUME v = target, Current[v].linked PROVE checkuser'[v] = expires[v]
    <3>1. psnap[target].expiry = expires[target] /\ (op = "renew" => checkuser[target] # 0)
      BY <1>1, <1>3, <2>3 DEF Sane, Owed
    <3>2. checkuser' = [checkuser EXCEPT ![target] = psnap[target].expiry]
      BY <1>1, <3>1 DEF SyncCheckUser, Adding
    <3>3. QED
      BY <1>1, <2>3, <3>1, <3>2 DEF TypeOK, SystemOK
  <2>4. QED
    BY <2>1, <2>2, <2>3
<1>4. QED
  BY <1>1, <1>2, <1>3, EndingCoherent

LEMMA CronLoadCoherent ==
  ASSUME TypeOK, CoherentInv, CronLoad
  PROVE  CoherentInv'
<1>1. /\ cpc = "idle" /\ cpc' = "scan" /\ ~ changed' /\ stale' = stale \ {"cron"}
      /\ UNCHANGED <<account, oslock, expires, chain, checkuser, registry, torn, panel, history>>
  BY DEF CronLoad
<1>2. ~ CronBound /\ ~ CronBound' /\ (PanelBound' <=> PanelBound) /\ Current' = Current /\ (Lost' <=> Lost)
  BY <1>1 DEF CronBound, PanelBound, Current, Lost, Registered
<1>3. Phases'
  BY <1>1 DEF CoherentInv, Phases
<1> SUFFICES ASSUME Sane PROVE Sane'
  BY <1>1, <1>2, <1>3 DEF CoherentInv
<1>4. Right'
  BY <1>1, <1>2 DEF Sane, Right, Kept, LockedAs, ListedAs, Adding
<1>5. New' /\ Owed'
  BY <1>1, <1>2 DEF Sane, New, Owed, Kept, Adding
<1>6. PanelCopy' /\ Emptied'
  BY <1>1, <1>2 DEF Sane, PanelCopy, Emptied, Registered
<1>7. csnap' = registry \/ ctodo' = {}
  BY NoRecordsType DEF CronLoad
<1>8. CronCopy'
  BY <1>1, <1>2, <1>7 DEF CronCopy
<1>9. QED
  BY <1>4, <1>5, <1>6, <1>8 DEF Sane

(* A visit that changes the record of u, and what the system does along    *)
(* with it.                                                                *)
CronEdited(u, rec) ==
  /\ cpc = "scan" /\ cpc' \in {"scan", "kill"} /\ u \in ctodo /\ changed'
  /\ csnap[u] \in Record /\ csnap' = [csnap EXCEPT ![u] = rec]
  /\ rec.expiry = csnap[u].expiry /\ rec.quota = csnap[u].quota /\ rec.linked = csnap[u].linked
  /\ \/ rec.locked /\ oslock' = oslock \cup ({u} \cap account)
     \/ rec.locked = csnap[u].locked /\ oslock' = oslock
  /\ UNCHANGED <<account, expires, chain, checkuser, registry, torn, panel, stale, history>>

LEMMA CronEditCoherent ==
  ASSUME TypeOK, CoherentInv, NEW u \in Users, NEW rec \in Record, CronEdited(u, rec)
  PROVE  CoherentInv'
<1>1. Phases'
  BY DEF CronEdited, CoherentInv, Phases
<1>2. CronBound' /\ (PanelBound' <=> PanelBound)
  BY DEF CronEdited, CronBound, PanelBound, Registered
<1> SUFFICES ASSUME ~raced, crashes = 0, ~ Lost' PROVE Sane'
  BY <1>1 DEF CoherentInv, CronEdited
<1>3. ~ PanelBound /\ ~ PanelBound' /\ "cron" \notin stale /\ ~ Lost /\ Sane
  BY <1>2 DEF Lost, CoherentInv, CronEdited
<1>4. Current = csnap /\ Current' = csnap' /\ Registered(csnap) = Registered(registry)
  <2>1. CASE CronBound
    BY <1>2, <1>3, <2>1, CurrentIs, CurrentWillBe DEF Sane, CronCopy
  <2>2. CASE ~ CronBound
    <3>1. csnap = registry
      BY <1>3, <2>2 DEF Sane, CronCopy, CronBound, CronEdited
    <3>2. QED
      BY <1>2, <1>3, <2>2, <3>1, CurrentIs, CurrentWillBe
  <2>3. QED
    BY <2>1, <2>2
<1>5. rec # NoRecord /\ csnap[u] # NoRecord
  BY NoRecordAssumption DEF CronEdited
<1>6. csnap'[u] = rec /\ \A v \in Users : v # u => csnap'[v] = csnap[v]
  BY DEF CronEdited, TypeOK, CronOK, Registry
<1>7. Registered(csnap') = Registered(csnap)
  BY <1>5, <1>6 DEF Registered
<1>8. u \in account
  BY <1>3, <1>4, <1>5 DEF Sane, Right, Kept
<1>9. \A v \in Users : v # u => (v \in oslock' <=> v \in oslock)
  BY DEF CronEdited
<1>10. Right'
  <2> SUFFICES ASSUME NEW v \in Users
               PROVE  (/\ Kept(v, Current[v])
                       /\ ~(ppc = "kill" /\ v = target) => LockedAs(v, Current[v])
                       /\ ~(Adding /\ v = target) => ListedAs(v, Current[v]))'
    BY DEF Right
  <2>1. /\ Kept(v, csnap[v])
        /\ ~(ppc = "kill" /\ v = target) => LockedAs(v, csnap[v])
        /\ ~(Adding /\ v = target) => ListedAs(v, csnap[v])
    BY <1>3, <1>4 DEF Sane, Right
  <2>2. CASE v = u
    <3>1. Kept(u, rec)' /\ (~(Adding /\ u = target)' => ListedAs(u, rec)')
      BY <1>5, <2>1, <2>2 DEF Kept, ListedAs, Adding, CronEdited
    <3>2. ~(ppc = "kill" /\ u = target) => LockedAs(u, rec)'
      BY <1>5, <1>8, <2>1, <2>2 DEF LockedAs, CronEdited
    <3>3. ppc' = ppc /\ target' = target
      BY DEF CronEdited
    <3>4. QED
      BY <1>4, <1>6, <2>2, <3>1, <3>2, <3>3 DEF Kept, LockedAs, ListedAs
  <2>3. CASE v # u
    BY <1>4, <1>6, <1>9, <2>1, <2>3 DEF Kept, LockedAs, ListedAs, Adding, CronEdited
  <2>4. QED
    BY <2>2, <2>3
<1>11. New'
  <2> SUFFICES ASSUME ppc = "adding"
               PROVE  /\ Current'[target] = NoRecord /\ target \notin oslock'
                      /\ Kept(target, form)' /\ ~ form.locked
    BY DEF New, CronEdited
  <2>1. Current[target] = NoRecord /\ target \notin oslock /\ Kept(target, form) /\ ~ form.locked /\ target \in Users
    BY <1>3 DEF Sane, New, TypeOK, PanelOK
  <2>2. target # u
    BY <1>4, <1>5, <2>1
  <2>3. QED
    BY <1>4, <1>6, <1>9, <2>1, <2>2 DEF Kept, CronEdited
<1>12. Owed'
  <2> SUFFICES ASSUME Adding, ppc # "adding"
               PROVE  /\ psnap[target].expiry = expires[target]
                      /\ Current'[target] # NoRecord => Current'[target].linked = psnap[target].linked
                      /\ op = "add" => psnap[target].linked = form.linked
                      /\ op = "renew" /\ psnap[target].linked => checkuser[target] # 0
    BY DEF Owed, Adding, CronEdited
  <2>1. target \in Users
    BY DEF TypeOK, PanelOK, Adding, Registered
  <2>2. /\ psnap[target].expiry = expires[target]
        /\ Current[target] # NoRecord => Current[target].linked = psnap[target].linked
        /\ op = "add" => psnap[target].linked = form.linked
        /\ op = "renew" /\ psnap[target].linked => checkuser[target] # 0
    BY <1>3 DEF Sane, Owed
  <2>3. rec.linked = csnap[u].linked
    BY DEF CronEdited
  <2>4. QED
    BY <1>4, <1>5, <1>6, <2>1, <2>2, <2>3
<1>13. PanelCopy'
  BY <1>3, <1>4, <1>7, <1>8 DEF Sane, PanelCopy, CronEdited, Registered
<1>14. CronCopy'
  BY <1>2, <1>4, <1>7 DEF CronCopy, CronBound, CronEdited, Registered
<1>15. Emptied'
  BY <1>3 DEF Sane, Emptied, CronEdited
<1>16. QED
  BY <1>10, <1>11, <1>12, <1>13, <1>14, <1>15 DEF Sane

(* Steps of the enforcer that leave its copy as it is.                     *)
LEMMA CronQuietCoherent ==
  ASSUME CoherentInv,
         UNCHANGED <<account, oslock, expires, chain, checkuser, registry, torn, panel, stale, history, csnap, changed>>,
         cpc # "idle", cpc' = "scan", cpc # "write", ctodo' = {} \/ ctodo # {}
  PROVE  CoherentInv'
<1>1. (PanelBound' <=> PanelBound) /\ (CronBound' <=> CronBound) /\ Current' = Current /\ (Lost' <=> Lost)
  BY DEF PanelBound, CronBound, Current, Lost, Registered
<1>2. Phases'
  BY DEF CoherentInv, Phases
<1> SUFFICES ASSUME Sane PROVE Sane'
  BY <1>1, <1>2 DEF CoherentInv
<1>3. Right'
  BY <1>1 DEF Sane, Right, Kept, LockedAs, ListedAs, Adding
<1>4. New' /\ Owed'
  BY <1>1 DEF Sane, New, Owed, Kept, Adding
<1>5. PanelCopy' /\ CronCopy' /\ Emptied'
  BY <1>1 DEF Sane, PanelCopy, CronCopy, Emptied, Registered
<1>6. QED
  BY <1>3, <1>4, <1>5 DEF Sane

LEMMA CronVisitCoherent ==
  ASSUME TypeOK, CoherentInv, NEW u \in Users, CronVisit(u) \/ CronLock(u)
  PROVE  CoherentInv'
<1>1. /\ cpc = "scan" /\ u \in ctodo
      /\ UNCHANGED <<account, expires, chain, checkuser, registry, torn, panel, stale, history>>
  BY DEF CronVisit, CronLock
<1>2. u \in Registered(csnap)
  BY <1>1 DEF TypeOK, CronOK
<1>3. PICK old \in Record, rec \in Record :
        /\ old = csnap[u] /\ rec = Measured(u)
        /\ rec.expiry = old.expiry /\ rec.quota = old.quota /\ rec.linked = old.linked /\ rec.locked = old.locked
  <2>1. csnap[u] \in Record /\ Measured(u) \in Record
    BY <1>2, MeasuredType
  <2>2. /\ Measured(u).expiry = csnap[u].expiry /\ Measured(u).quota = csnap[u].quota
        /\ Measured(u).linked = csnap[u].linked /\ Measured(u).locked = csnap[u].locked
    BY <2>1 DEF Measured, Record
  <2>3. QED
    BY <2>1, <2>2
<1>4. CASE CronVisit(u)
  <2>1. csnap' = [csnap EXCEPT ![u] = rec] /\ (changed' <=> changed \/ rec # old) /\ cpc' = cpc /\ oslock' = oslock
    BY <1>3, <1>4 DEF CronVisit
  <2>2. CASE rec = old
    <3>1. csnap' = csnap /\ changed' = changed
      BY <1>3, <1>4, <2>1, <2>2 DEF CronVisit, TypeOK, CronOK, Registry
    <3>2. QED
      BY <1>1, <2>1, <3>1, CronQuietCoherent
  <2>3. CASE rec # old
    <3>1. CronEdited(u, rec)
      BY <1>1, <1>3, <2>1, <2>3 DEF CronEdited
    <3>2. QED
      BY <3>1, CronEditCoherent
  <2>4. QED
    BY <2>2, <2>3
<1>5. CASE CronLock(u)
  <2>1. PICK new \in Record :
          /\ new = [rec EXCEPT !.locked = TRUE, !.reason = "quota_exceeded"]
          /\ new.expiry = rec.expiry /\ new.quota = rec.quota /\ new.linked = rec.linked /\ new.locked
    <3> DEFINE e == [rec EXCEPT !.locked = TRUE, !.reason = "quota_exceeded"]
    <3>1. e \in Record /\ e.expiry = rec.expiry /\ e.quota = rec.quota /\ e.linked = rec.linked /\ e.locked
      BY DEF Record
    <3> HIDE DEF e
    <3>2. QED
      BY <3>1 DEF e
  <2>2. /\ csnap' = [csnap EXCEPT ![u] = [Measured(u) EXCEPT !.locked = TRUE, !.reason = "quota_exceeded"]]
        /\ changed' /\ cpc' = "kill" /\ oslock' = oslock \cup ({u} \cap account)
    BY <1>5 DEF CronLock, LockAccount
  <2>3. csnap' = [csnap EXCEPT ![u] = new]
    BY <1>3, <2>1, <2>2
  <2>4. CronEdited(u, new)
    BY <1>1, <1>3, <2>1, <2>2, <2>3 DEF CronEdited
  <2>5. QED
    BY <2>4, CronEditCoherent
<1>6. QED
  BY <1>4, <1>5

LEMMA CronKillCoherent ==
  ASSUME TypeOK, CoherentInv, CronKill
  PROVE  CoherentInv'
BY CronQuietCoherent DEF CronKill

LEMMA CronFinishCoherent ==
  ASSUME TypeOK, CoherentInv, CronFinish
  PROVE  CoherentInv'
<1>1. /\ cpc = "scan" /\ UNCHANGED <<account, oslock, expires, chain, checkuser, registry, panel, history>>
      /\ \/ changed /\ torn' = TRUE /\ cpc' = "write" /\ UNCHANGED <<stale, csnap, ctodo, changed>>
         \/ ~changed /\ torn' = torn /\ cpc' = "idle" /\ ~changed' /\ stale' = stale \ {"cron"}
  BY DEF CronFinish, Truncate, CronRest
<1>2. (PanelBound' <=> PanelBound) /\ (CronBound' <=> CronBound) /\ Current' = Current /\ (Lost' <=> Lost)
  BY <1>1 DEF PanelBound, CronBound, Current, Lost, Registered
<1>3. Phases'
  BY <1>1 DEF CoherentInv, Phases
<1> SUFFICES ASSUME Sane PROVE Sane'
  BY <1>1, <1>2, <1>3 DEF CoherentInv
<1>4. Right'
  BY <1>1, <1>2 DEF Sane, Right, Kept, LockedAs, ListedAs, Adding
<1>5. New' /\ Owed'
  BY <1>1, <1>2 DEF Sane, New, Owed, Kept, Adding
<1>6. PanelCopy' /\ CronCopy' /\ Emptied'
  BY <1>1, <1>2 DEF Sane, PanelCopy, CronCopy, Emptied, Registered, CronBound
<1>7. QED
  BY <1>4, <1>5, <1>6 DEF Sane

(* The copy of the enforcer becomes the registry.                          *)
LEMMA CronWriteCoherent ==
  ASSUME TypeOK, CoherentInv, CronWrite
  PROVE  CoherentInv'
<1>1. /\ cpc = "write" /\ cpc' = "idle" /\ ~changed' /\ registry' = csnap /\ (raced' <=> raced \/ "cron" \in stale)
      /\ stale' = (stale \ {"cron"}) \cup PanelHolds /\ (torn => ~ torn')
      /\ UNCHANGED <<account, oslock, expires, chain, checkuser, panel, crashes>>
  BY DEF CronWrite, Write, CronRest
<1>2. CronBound /\ ~ CronBound' /\ (PanelBound' <=> PanelBound)
  BY <1>1 DEF CoherentInv, Phases, CronBound, PanelBound, Registered
<1>3. Phases'
  BY <1>1 DEF CoherentInv, Phases
<1> SUFFICES ASSUME ~raced', crashes = 0, ~ Lost' PROVE Sane'
  BY <1>1, <1>3 DEF CoherentInv
<1>4. ~ PanelBound
  BY <1>1, <1>2 DEF Lost, PanelBound, PanelHolds
<1>5. ~ raced /\ "cron" \notin stale /\ Sane
  BY <1>1, <1>2, <1>4 DEF CoherentInv, Lost
<1>6. Current = csnap /\ Current' = csnap
  BY <1>1, <1>2, <1>4, CurrentIs, CurrentWillBe
<1>7. Right'
  BY <1>1, <1>5, <1>6 DEF Sane, Right, Kept, LockedAs, ListedAs, Adding
<1>8. New' /\ Owed'
  BY <1>1, <1>5, <1>6 DEF Sane, New, Owed, Kept, Adding
<1>9. PanelCopy'
  BY <1>1, <1>5, <1>6 DEF Sane, PanelCopy, PanelHolds, Registered
<1>10. CronCopy'
  BY <1>1 DEF CronCopy, CronBound
<1>11. Emptied'
  BY <1>1, <1>4, <1>5 DEF Sane, Emptied, PanelBound
<1>12. QED
  BY <1>7, <1>8, <1>9, <1>10, <1>11 DEF Sane

LEMMA CrashCoherent ==
  ASSUME TypeOK, CoherentInv, Hangup \/ Reboot
  PROVE  CoherentInv'
<1>1. crashes' # 0
  BY DEF Hangup, Reboot, TypeOK, SystemOK
<1>2. Phases'
  BY DEF Hangup, Reboot, EndOp, CronRest, CoherentInv, Phases
<1>3. QED
  BY <1>1, <1>2 DEF CoherentInv

LEMMA CoherentStep ==
  ASSUME TypeOK, CoherentInv, [Next]_vars
  PROVE  CoherentInv'
<1>1. CASE Operator
  <2>1. CASE LoadMenu
    BY <2>1, LoadCoherent
  <2>2. CASE Quit \/ \E u \in Users : AddFails(u)
    BY <2>2, QuitCoherent
  <2>3. CASE RemoveExpired \/ RemoveAll \/ \E u \in Users : RemoveUser(u)
    BY <2>3, RemovalCoherent
  <2>4. CASE \E u \in Users, f \in Forms : AddAccount(u, f) \/ Renew(u, f.days)
    BY <2>4, AddCoherent, RenewCoherent
  <2>5. CASE \E u \in Users : Lock(u) \/ Unlock(u) \/ ResetQuota(u)
    BY <2>5, LockCoherent, UnlockCoherent, ResetCoherent
  <2>6. QED
    BY <1>1, <2>1, <2>2, <2>3, <2>4, <2>5 DEF Operator
<1>2. CASE PanelWorks
  <2>1. CASE AddReload \/ LockKill \/ Userdel
    BY <2>1, ReloadCoherent, LockKillCoherent, UserdelCoherent
  <2>2. CASE RemovalDone \/ \E u \in Users : SkipUnexpired(u) \/ RemoveKill(u)
    BY <2>2, RemovingCoherent
  <2>3. CASE SaveTruncate \/ SaveWrite
    BY <2>3, SaveTruncateCoherent, SaveWriteCoherent
  <2>4. CASE StorePassword \/ PopPasswords \/ SyncCheckUser
    BY <2>4, StorePasswordCoherent, PopCoherent, SyncCoherent
  <2>5. QED
    BY <1>2, <2>1, <2>2, <2>3, <2>4 DEF PanelWorks
<1>3. CASE CronLoad
  BY <1>3, CronLoadCoherent
<1>4. CASE CronWorks
  BY <1>4, CronKillCoherent, CronFinishCoherent, CronWriteCoherent, CronVisitCoherent DEF CronWorks
<1>5. CASE World
  <2>1. CASE Hangup \/ Reboot
    BY <2>1, CrashCoherent
  <2>2. CASE Tomorrow \/ \E u \in Users : Traffic(u) \/ \E d \in Daemons : Login(u, d) \/ Logout(u, d)
    <3>1. UNCHANGED <<account, oslock, expires, chain, registry, torn, checkuser, panel, cron, stale, history>>
      BY <2>2 DEF Tomorrow, Traffic, Login, Logout
    <3>2. QED
      BY <3>1, QuietCoherent
  <2>3. QED
    BY <1>5, <2>1, <2>2 DEF World
<1>6. CASE UNCHANGED vars
  BY <1>6, QuietCoherent DEF vars
<1>7. QED
  BY <1>1, <1>2, <1>3, <1>4, <1>5, <1>6 DEF Next

LEMMA CoherentStart == Init => CoherentInv
<1> SUFFICES ASSUME Init PROVE CoherentInv
  OBVIOUS
<1>1. ~ PanelBound /\ ~ CronBound /\ Current = NoRecords /\ \A u \in Users : Current[u] = NoRecord
  BY DEF Init, PanelBound, CronBound, Current, NoRecords
<1>2. Right
  BY <1>1 DEF Right, Kept, LockedAs, ListedAs
<1>3. New /\ Owed /\ PanelCopy /\ CronCopy /\ Emptied /\ Phases
  BY <1>1 DEF Init, New, Owed, Adding, PanelCopy, CronCopy, Emptied, Phases
<1>4. QED
  BY <1>2, <1>3 DEF CoherentInv, Sane

(* The registry tells the truth between operations, for any number of      *)
(* users: whatever the panel and the enforcer have done in whatever order, *)
(* as long as neither has saved a stale copy and nothing crashed.          *)
THEOREM RegistryCoherent == Spec => []Coherent
<1>1. TypeOK /\ CoherentInv => Coherent
  <2> SUFFICES ASSUME TypeOK, CoherentInv, Quiet, ~raced, crashes = 0
               PROVE  /\ ~torn
                      /\ \A u \in Registered(registry) :
                           /\ u \in account /\ LockTold(u) /\ ExpiryTold(u) /\ ApiTold(u)
                           /\ u \notin LongNames => QuotaCounted(u)
    BY DEF Coherent
  <2>1. ppc \in {"idle", "menu"} /\ cpc = "idle" /\ op = "none"
    BY DEF Quiet, TypeOK, PanelOK
  <2>2. ~ PanelBound /\ ~ CronBound /\ Current = registry
    BY <2>1, CurrentIs DEF PanelBound, CronBound
  <2>3. Sane
    BY <2>2 DEF CoherentInv, Lost
  <2>4. ~torn
    BY <2>1, <2>3 DEF Sane, Emptied
  <2>5. ASSUME NEW u \in Registered(registry)
        PROVE  /\ u \in account /\ LockTold(u) /\ ExpiryTold(u) /\ ApiTold(u)
               /\ u \notin LongNames => QuotaCounted(u)
    <3>1. u \in Users /\ registry[u] # NoRecord
      BY DEF Registered
    <3>2. Kept(u, registry[u]) /\ LockedAs(u, registry[u]) /\ ListedAs(u, registry[u])
      BY <2>1, <2>2, <2>3, <3>1 DEF Sane, Right, Adding
    <3>3. QED
      BY <3>1, <3>2 DEF Kept, LockedAs, ListedAs, LockTold, ExpiryTold, ApiTold, QuotaCounted
  <2>6. QED
    BY <2>4, <2>5
<1>2. QED
  BY <1>1, CoherentStart, CoherentStep, TypeCorrect, PTL DEF Spec
=============================================================================
