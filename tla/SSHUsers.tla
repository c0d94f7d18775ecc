------------------------------ MODULE SSHUsers ------------------------------
(***************************************************************************)
(* The customer accounts of the panel: src/ssh_user_manager.py.            *)
(*                                                                         *)
(* Two processes work on the same accounts without any lock:               *)
(*   - the panel, an interactive menu that loads registry.json, waits for  *)
(*     the operator, changes the operating system and saves its copy;      *)
(*   - the enforcer, a script cron starts every five minutes, which loads  *)
(*     registry.json, visits every user in it and saves its copy if it     *)
(*     changed anything.                                                   *)
(* What they share is the registry file, /etc/shadow (locks and expiry),   *)
(* the per-user iptables chains with their byte counters, the running      *)
(* sessions, the password store and the CheckUser database.                *)
(*                                                                         *)
(* A definition named Mut... is a plausible slip in the one below it,      *)
(* kept to show which property would notice; no action uses it.            *)
(***************************************************************************)
EXTENDS Integers, FiniteSets

CONSTANTS
  Users,        \* the usernames an operator may type
  LongNames,    \* those whose chain name passes the kernel's 28 characters
  Daemons,      \* the SSH servers of the host: "sshd", maybe "dropbear"
  MaxDay,       \* the last day of the model's calendar
  MaxBytes,     \* the byte counters stop here
  MaxSessions,  \* sessions per user and daemon
  MaxCrashes,   \* hangups and reboots in a behaviour
  Forms,        \* the answers given to the "add new user" form
  NoRecord,     \* "not a key of the registry"
  NoUser        \* the process works on nobody

Day == 1..MaxDay
Form == [days: Nat, limit: Nat, quota: Nat, linked: BOOLEAN]

ASSUME BoundsAssumption ==
  /\ MaxDay \in Nat \ {0} /\ MaxBytes \in Nat
  /\ MaxSessions \in Nat /\ MaxCrashes \in Nat
ASSUME NamesAssumption == LongNames \subseteq Users /\ NoUser \notin Users
ASSUME DaemonsAssumption == "sshd" \in Daemons
ASSUME FormsAssumption == Forms \subseteq Form

(* A value of registry.json.  limit 0: no connection limit; quota 0: no    *)
(* data quota; reason: the optional key "locked_reason".                   *)
Record == [expiry: Day, limit: Nat, quota: Nat, used: 0..MaxBytes,
           locked: BOOLEAN, reason: {"none", "manual", "quota_exceeded"},
           linked: BOOLEAN]
ASSUME NoRecordAssumption == NoRecord \notin Record

Registry == [Users -> Record \cup {NoRecord}]
NoRecords == [u \in Users |-> NoRecord]
Registered(r) == {u \in Users : r[u] # NoRecord}

VARIABLES
  account,    \* the users with a system account
  oslock,     \* the accounts whose password is locked (usermod -L)
  expires,    \* the account expiry set by chage -E, 0 for no account
  chain,      \* the users with an iptables quota chain
  counter,    \* the bytes each chain has counted
  sessions,   \* the running sessions of each user, per daemon
  today,
  registry,   \* the content of registry.json when it was last written whole
  torn,       \* registry.json does not hold a JSON document now
  passwords,  \* the keys of the password store
  checkuser,  \* the expiry in the CheckUser database, 0 for not listed
  ppc, psnap, op, target, form, todo, gone,       \* the panel process
  cpc, csnap, ctarget, ctodo, changed,            \* the enforcer process
  stale,      \* the processes whose copy another's save has outdated
  raced,      \* some process has saved a stale copy (history)
  crashes     \* hangups and reboots so far (history)

os == <<account, oslock, expires, chain, counter, sessions>>
files == <<registry, torn>>
stores == <<passwords, checkuser>>
panel == <<ppc, psnap, op, target, form, todo, gone>>
cron == <<cpc, csnap, ctarget, ctodo, changed>>
history == <<raced, crashes>>
vars == <<os, today, files, stores, panel, cron, stale, history>>

Running(u) == {d \in Daemons : sessions[u][d] > 0}
Expired(u) == u \in account /\ expires[u] <= today

-----------------------------------------------------------------------------
(* Effects on the operating system.                                        *)

(* kill -9 of every process "sshd: u@..": a session of another daemon has  *)
(* no such process title and stays.                                        *)
MutKillNone(u) == UNCHANGED sessions
KillAllSessions(u) == sessions' = [sessions EXCEPT ![u]["sshd"] = 0]

(* usermod -L and -U do nothing to an account that does not exist.         *)
LockAccount(u) == oslock' = oslock \cup ({u} \cap account)
UnlockAccount(u) == oslock' = oslock \ {u}

(* chage -E                                                                *)
SetExpiry(u, day) ==
  expires' = IF u \in account THEN [expires EXCEPT ![u] = day] ELSE expires

-----------------------------------------------------------------------------
(* The registry file: saving opens it with "w", which empties it, and      *)
(* writes the document when the file is closed.                            *)

Truncate == torn' = TRUE /\ UNCHANGED registry

(* If the file is whole when p writes, the other process wrote it after p  *)
(* had truncated it: p's document then lies over the other one, and unless *)
(* it is as long as that one the rest of the longer one follows it.        *)
Write(p, other, copy) ==
  /\ registry' = copy
  /\ torn' \in IF torn \/ registry = copy THEN {FALSE} ELSE BOOLEAN
  /\ raced' = (raced \/ p \in stale)
  /\ stale' = (stale \ {p}) \cup other

PanelHolds == IF ppc \in {"idle", "adding"} THEN {} ELSE {"panel"}
CronHolds == IF cpc = "idle" THEN {} ELSE {"cron"}

-----------------------------------------------------------------------------
(* The panel process.                                                      *)

EndOp ==
  /\ ppc' = "idle" /\ psnap' = NoRecords /\ op' = "none"
  /\ target' = NoUser /\ form' = NoRecord /\ todo' = {} /\ gone' = {}

(* The top of the menu loop.  On a torn file json.load raises and the      *)
(* panel ends: there is no step.                                           *)
LoadMenu ==
  /\ ppc = "idle" /\ ~torn
  /\ ppc' = "menu" /\ psnap' = registry /\ stale' = stale \ {"panel"}
  /\ UNCHANGED <<os, today, files, stores, cron, history,
                 op, target, form, todo, gone>>

Quit ==
  /\ ppc = "menu" /\ EndOp /\ stale' = stale \ {"panel"}
  /\ UNCHANGED <<os, today, files, stores, cron, history>>

NewRecord(f) ==
  [expiry |-> today + f.days, limit |-> f.limit, quota |-> f.quota,
   used |-> 0, locked |-> FALSE, reason |-> "none", linked |-> f.linked]

(* iptables refuses a chain name of more than 28 characters.               *)
EnsureQuotaChain(u) ==
  chain' = IF u \in LongNames THEN chain ELSE chain \cup {u}

(* add_user up to the chain: useradd, chpasswd, chage, iptables.           *)
AddAccount(u, f) ==
  /\ ppc = "menu" /\ u \notin account /\ today + f.days \in Day
  /\ account' = account \cup {u}
  /\ expires' = [expires EXCEPT ![u] = today + f.days]
  /\ IF f.quota > 0 THEN EnsureQuotaChain(u) ELSE UNCHANGED chain
  /\ ppc' = "adding" /\ op' = "add" /\ target' = u /\ form' = NewRecord(f)
  /\ psnap' = NoRecords /\ stale' = stale \ {"panel"}
  /\ UNCHANGED <<oslock, counter, sessions, today, files, stores, cron,
                 history, todo, gone>>

(* chpasswd fails and the account is deleted again.                        *)
AddFails(u) ==
  /\ ppc = "menu" /\ u \notin account
  /\ EndOp /\ stale' = stale \ {"panel"}
  /\ UNCHANGED <<os, today, files, stores, cron, history>>

(* add_user reads the registry again before it saves; a torn file ends the *)
(* panel and leaves the account without a record.                          *)
AddReload ==
  /\ ppc = "adding"
  /\ \/ /\ torn /\ EndOp /\ UNCHANGED stale
     \/ /\ ~torn /\ ppc' = "truncate"
        /\ psnap' = [registry EXCEPT ![target] = form]
        /\ stale' = stale \ {"panel"}
        /\ UNCHANGED <<op, target, form, todo, gone>>
  /\ UNCHANGED <<os, today, files, stores, cron, history>>

(* Option 3.  Only the loaded copy is asked whether u is registered.       *)
Renew(u, days) ==
  /\ ppc = "menu" /\ u \in Registered(psnap) /\ today + days \in Day
  /\ SetExpiry(u, today + days) /\ UnlockAccount(u)
  /\ psnap' = [psnap EXCEPT ![u] = [@ EXCEPT !.expiry = today + days,
                                             !.locked = FALSE]]
  /\ ppc' = "truncate" /\ op' = "renew" /\ target' = u
  /\ UNCHANGED <<account, chain, counter, sessions, today, files, stores,
                 cron, stale, history, form, todo, gone>>

(* Option 4 on an account that is not locked.                              *)
Lock(u) ==
  /\ ppc = "menu" /\ u \in account \ oslock
  /\ LockAccount(u)
  /\ ppc' = "kill" /\ op' = "edit" /\ target' = u
  /\ UNCHANGED <<account, expires, chain, counter, sessions, today, files,
                 stores, cron, stale, history, psnap, form, todo, gone>>

LockKill ==
  /\ ppc = "kill" /\ KillAllSessions(target)
  /\ IF target \in Registered(psnap)
     THEN /\ psnap' = [psnap EXCEPT ![target] = [@ EXCEPT !.locked = TRUE,
                                                         !.reason = "manual"]]
          /\ ppc' = "truncate"
          /\ UNCHANGED <<stale, op, target, form, todo, gone>>
     ELSE EndOp /\ stale' = stale \ {"panel"}
  /\ UNCHANGED <<account, oslock, expires, chain, counter, today, files,
                 stores, cron, history>>

(* Option 4 on a locked account.                                           *)
Unlock(u) ==
  /\ ppc = "menu" /\ u \in account \cap oslock
  /\ UnlockAccount(u)
  /\ IF u \in Registered(psnap)
     THEN /\ psnap' = [psnap EXCEPT ![u] = [@ EXCEPT !.locked = FALSE]]
          /\ ppc' = "truncate" /\ op' = "edit" /\ target' = u
          /\ UNCHANGED <<stale, form, todo, gone>>
     ELSE EndOp /\ stale' = stale \ {"panel"}
  /\ UNCHANGED <<account, expires, chain, counter, sessions, today, files,
                 stores, cron, history>>

(* Option 6.                                                               *)
MutResetKeepsOSLock(u) ==
  /\ ppc = "menu" /\ u \in Registered(psnap)
  /\ counter' = [counter EXCEPT ![u] = 0]
  /\ psnap' = [psnap EXCEPT ![u] = [@ EXCEPT !.used = 0, !.locked = FALSE]]
  /\ ppc' = "truncate" /\ op' = "edit" /\ target' = u
  /\ UNCHANGED <<account, oslock, expires, chain, sessions, today, files,
                 stores, cron, stale, history, form, todo, gone>>
ResetQuota(u) ==
  /\ ppc = "menu" /\ u \in Registered(psnap)
  /\ counter' = [counter EXCEPT ![u] = 0]
  /\ IF psnap[u].reason = "quota_exceeded"
     THEN /\ psnap' = [psnap EXCEPT ![u] = [@ EXCEPT !.used = 0, !.locked = FALSE]]
          /\ UnlockAccount(u)
     ELSE psnap' = [psnap EXCEPT ![u] = [@ EXCEPT !.used = 0]] /\ UNCHANGED oslock
  /\ ppc' = "truncate" /\ op' = "edit" /\ target' = u
  /\ UNCHANGED <<account, expires, chain, sessions, today, files, stores,
                 cron, stale, history, form, todo, gone>>

(* Options 5, 7 and 8 share the removal of one user after another.         *)
BeginRemoval(kind, S) ==
  /\ ppc = "menu" /\ ppc' = "removing" /\ op' = kind /\ todo' = S
  /\ UNCHANGED <<os, today, files, stores, cron, stale, history,
                 psnap, target, form, gone>>
RemoveUser(u) == u \in account /\ BeginRemoval("remove", {u})
RemoveExpired == BeginRemoval("expired", Registered(psnap))
RemoveAll == BeginRemoval("all", Registered(psnap))

SkipUnexpired(u) ==
  /\ ppc = "removing" /\ op = "expired" /\ u \in todo /\ ~Expired(u)
  /\ todo' = todo \ {u}
  /\ UNCHANGED <<os, today, files, stores, cron, stale, history,
                 ppc, psnap, op, target, form, gone>>

RemoveKill(u) ==
  /\ ppc = "removing" /\ u \in todo /\ (op = "expired" => Expired(u))
  /\ KillAllSessions(u)
  /\ ppc' = "userdel" /\ target' = u
  /\ UNCHANGED <<account, oslock, expires, chain, counter, today, files,
                 stores, cron, stale, history, psnap, op, form, todo, gone>>

(* The chain goes first, then userdel -r, which refuses while a process of *)
(* the user runs; nobody looks at its result.                              *)
Userdel ==
  /\ ppc = "userdel"
  /\ chain' = chain \ {target} /\ counter' = [counter EXCEPT ![target] = 0]
  /\ IF Running(target) = {}
     THEN /\ account' = account \ {target} /\ oslock' = oslock \ {target}
          /\ expires' = [expires EXCEPT ![target] = 0]
     ELSE UNCHANGED <<account, oslock, expires>>
  /\ psnap' = [psnap EXCEPT ![target] = NoRecord]
  /\ gone' = gone \cup {target} /\ todo' = todo \ {target}
  /\ ppc' = "removing" /\ target' = NoUser
  /\ UNCHANGED <<sessions, today, files, stores, cron, stale, history,
                 op, form>>

RemovalDone ==
  /\ ppc = "removing" /\ todo = {} /\ ppc' = "truncate"
  /\ UNCHANGED <<os, today, files, stores, cron, stale, history,
                 psnap, op, target, form, todo, gone>>

SaveTruncate ==
  /\ ppc = "truncate" /\ Truncate /\ ppc' = "write"
  /\ UNCHANGED <<os, today, stores, cron, stale, history,
                 psnap, op, target, form, todo, gone>>

SaveWrite ==
  /\ ppc = "write" /\ Write("panel", CronHolds, psnap)
  /\ CASE op \in {"add", "remove", "expired", "all"} ->
            ppc' = "password" /\ UNCHANGED <<psnap, op, target, form, todo, gone>>
       [] op = "renew" /\ psnap[target].linked ->
            ppc' = "checkuser" /\ UNCHANGED <<psnap, op, target, form, todo, gone>>
       [] OTHER -> EndOp
  /\ UNCHANGED <<os, today, stores, cron, crashes>>

(* add_user stores the password after the record.                          *)
StorePassword ==
  /\ ppc = "password" /\ op = "add"
  /\ passwords' = passwords \cup {target}
  /\ IF form.linked
     THEN /\ ppc' = "checkuser"
          /\ UNCHANGED <<psnap, op, target, form, todo, gone, stale>>
     ELSE EndOp /\ stale' = stale \ {"panel"}
  /\ UNCHANGED <<os, today, files, checkuser, cron, history>>

MutPopNone ==
  /\ ppc = "password" /\ op # "add" /\ EndOp /\ stale' = stale \ {"panel"}
  /\ UNCHANGED <<os, today, files, stores, cron, history>>
PopPasswords ==
  /\ ppc = "password" /\ op # "add"
  /\ passwords' = IF op = "all" THEN {} ELSE passwords \ gone
  /\ EndOp /\ stale' = stale \ {"panel"}
  /\ UNCHANGED <<os, today, files, checkuser, cron, history>>

(* Adding lists the user; renewing changes an entry only if there is one.  *)
SyncCheckUser ==
  /\ ppc = "checkuser"
  /\ checkuser' = IF op = "add" \/ checkuser[target] # 0
                  THEN [checkuser EXCEPT ![target] = psnap[target].expiry]
                  ELSE checkuser
  /\ EndOp /\ stale' = stale \ {"panel"}
  /\ UNCHANGED <<os, today, files, passwords, cron, history>>

(* What the operator may choose next, and what the panel then does on its  *)
(* own.                                                                    *)
Operator ==
  \/ LoadMenu \/ Quit \/ RemoveExpired \/ RemoveAll
  \/ \E u \in Users :
       \/ AddFails(u) \/ Lock(u) \/ Unlock(u) \/ ResetQuota(u) \/ RemoveUser(u)
       \/ \E f \in Forms : AddAccount(u, f)
       \/ \E f \in Forms : Renew(u, f.days)
PanelWorks ==
  \/ AddReload \/ LockKill \/ Userdel \/ RemovalDone
  \/ SaveTruncate \/ SaveWrite \/ StorePassword \/ PopPasswords \/ SyncCheckUser
  \/ \E u \in Users : SkipUnexpired(u) \/ RemoveKill(u)

-----------------------------------------------------------------------------
(* The enforcer.                                                           *)

(* An exception while loading, a torn file included, gives an empty dict.  *)
CronLoad ==
  /\ cpc = "idle" /\ cpc' = "scan"
  /\ csnap' = IF torn THEN NoRecords ELSE registry
  /\ ctodo' = Registered(csnap') /\ changed' = FALSE
  /\ stale' = stale \ {"cron"}
  /\ UNCHANGED <<os, today, files, stores, panel, history, ctarget>>

(* The counter of a chain that does not exist reads as 0.                  *)
MutSumBothDirections(u) == IF u \in chain THEN 2 * counter[u] ELSE 0
BytesUsed(u) == IF u \in chain THEN counter[u] ELSE 0

(* The record after its used bytes were read.                              *)
Measured(u) ==
  IF csnap[u].quota > 0 THEN [csnap[u] EXCEPT !.used = BytesUsed(u)] ELSE csnap[u]

MutOverQuota(rec) == rec.quota > 0 /\ rec.used > rec.quota /\ ~rec.locked
OverQuota(rec) == rec.quota > 0 /\ rec.used >= rec.quota /\ ~rec.locked

(* enforce_connection_limit: the newest sessions beyond the limit.         *)
MutKillExcess(u, limit) ==
  IF limit > 0 /\ sessions[u]["sshd"] > limit + 1
  THEN [sessions EXCEPT ![u]["sshd"] = limit] ELSE sessions
KillExcess(u, limit) ==
  IF limit > 0 /\ sessions[u]["sshd"] > limit
  THEN [sessions EXCEPT ![u]["sshd"] = limit] ELSE sessions

(* One turn of the loop for a user who need not be locked.                 *)
CronVisit(u) ==
  LET rec == Measured(u)
      kept == KillExcess(u, rec.limit)
  IN  /\ cpc = "scan" /\ u \in ctodo /\ ~OverQuota(rec)
      /\ sessions' = IF rec.expiry <= today /\ ~rec.locked
                     THEN [kept EXCEPT ![u]["sshd"] = 0] ELSE kept
      /\ csnap' = [csnap EXCEPT ![u] = rec]
      /\ changed' = (changed \/ rec # csnap[u])
      /\ ctodo' = ctodo \ {u}
      /\ UNCHANGED <<account, oslock, expires, chain, counter, today, files,
                     stores, panel, stale, history, cpc, ctarget>>

(* The turn of a user who is over quota: usermod -L now, the kill after.   *)
MutCronLockForgets(u) ==
  LET rec == Measured(u)
  IN  /\ cpc = "scan" /\ u \in ctodo /\ OverQuota(rec)
      /\ sessions' = KillExcess(u, rec.limit)
      /\ LockAccount(u)
      /\ csnap' = [csnap EXCEPT ![u] = [rec EXCEPT !.reason = "quota_exceeded"]]
      /\ changed' = TRUE
      /\ ctodo' = ctodo \ {u} /\ ctarget' = u /\ cpc' = "kill"
      /\ UNCHANGED <<account, expires, chain, counter, today, files, stores,
                     panel, stale, history>>
CronLock(u) ==
  LET rec == Measured(u)
  IN  /\ cpc = "scan" /\ u \in ctodo /\ OverQuota(rec)
      /\ sessions' = KillExcess(u, rec.limit)
      /\ LockAccount(u)
      /\ csnap' = [csnap EXCEPT ![u] = [rec EXCEPT !.locked = TRUE,
                                                   !.reason = "quota_exceeded"]]
      /\ changed' = TRUE
      /\ ctodo' = ctodo \ {u} /\ ctarget' = u /\ cpc' = "kill"
      /\ UNCHANGED <<account, expires, chain, counter, today, files, stores,
                     panel, stale, history>>

CronKill ==
  /\ cpc = "kill" /\ KillAllSessions(ctarget)
  /\ cpc' = "scan" /\ ctarget' = NoUser
  /\ UNCHANGED <<account, oslock, expires, chain, counter, today, files,
                 stores, panel, stale, history, csnap, ctodo, changed>>

CronRest == cpc' = "idle" /\ csnap' = NoRecords /\ ctarget' = NoUser
            /\ ctodo' = {} /\ changed' = FALSE

(* Saves, but only if something changed.                                   *)
MutCronAlwaysSaves ==
  /\ cpc = "scan" /\ ctodo = {} /\ Truncate /\ cpc' = "write"
  /\ UNCHANGED <<stale, csnap, ctarget, ctodo, changed>>
  /\ UNCHANGED <<os, today, stores, panel, history>>
CronFinish ==
  /\ cpc = "scan" /\ ctodo = {}
  /\ IF changed
     THEN Truncate /\ cpc' = "write" /\ UNCHANGED <<stale, csnap, ctarget, ctodo, changed>>
     ELSE CronRest /\ stale' = stale \ {"cron"} /\ UNCHANGED files
  /\ UNCHANGED <<os, today, stores, panel, history>>

CronWrite ==
  /\ cpc = "write" /\ Write("cron", PanelHolds, csnap) /\ CronRest
  /\ UNCHANGED <<os, today, stores, panel, crashes>>

CronWorks ==
  \/ CronKill \/ CronFinish \/ CronWrite
  \/ \E u \in Users : CronVisit(u) \/ CronLock(u)

-----------------------------------------------------------------------------
(* The users and the machine.                                              *)

Login(u, d) ==
  /\ u \in account \ oslock /\ ~Expired(u) /\ sessions[u][d] < MaxSessions
  /\ sessions' = [sessions EXCEPT ![u][d] = @ + 1]
  /\ UNCHANGED <<account, oslock, expires, chain, counter, today, files,
                 stores, panel, cron, stale, history>>

Logout(u, d) ==
  /\ sessions[u][d] > 0
  /\ sessions' = [sessions EXCEPT ![u][d] = @ - 1]
  /\ UNCHANGED <<account, oslock, expires, chain, counter, today, files,
                 stores, panel, cron, stale, history>>

(* The session process of sshd runs under the user's uid, which the chain  *)
(* counts.                                                                 *)
Traffic(u) ==
  /\ u \in chain /\ sessions[u]["sshd"] > 0 /\ counter[u] < MaxBytes
  /\ counter' = [counter EXCEPT ![u] = @ + 1]
  /\ UNCHANGED <<account, oslock, expires, chain, sessions, today, files,
                 stores, panel, cron, stale, history>>

Tomorrow ==
  /\ today + 1 \in Day /\ today' = today + 1
  /\ UNCHANGED <<os, files, stores, panel, cron, stale, history>>

(* The operator's connection drops in the middle of an operation.          *)
Hangup ==
  /\ crashes < MaxCrashes /\ ppc \notin {"idle", "menu"}
  /\ EndOp /\ stale' = stale \ {"panel"} /\ crashes' = crashes + 1
  /\ UNCHANGED <<os, today, files, stores, cron, raced>>

(* iptables forgets its counters, and the chains netfilter-persistent had  *)
(* not saved.                                                              *)
Reboot ==
  /\ crashes < MaxCrashes
  /\ \E kept \in SUBSET chain : chain' = kept
  /\ counter' = [u \in Users |-> 0]
  /\ sessions' = [u \in Users |-> [d \in Daemons |-> 0]]
  /\ EndOp /\ CronRest /\ stale' = {} /\ crashes' = crashes + 1
  /\ UNCHANGED <<account, oslock, expires, today, files, stores, raced>>

World ==
  \/ Tomorrow \/ Hangup \/ Reboot
  \/ \E u \in Users : Traffic(u) \/ \E d \in Daemons : Login(u, d) \/ Logout(u, d)

-----------------------------------------------------------------------------
Init ==
  /\ account = {} /\ oslock = {} /\ chain = {}
  /\ expires = [u \in Users |-> 0] /\ counter = [u \in Users |-> 0]
  /\ sessions = [u \in Users |-> [d \in Daemons |-> 0]]
  /\ today = 1 /\ registry = NoRecords /\ torn = FALSE
  /\ passwords = {} /\ checkuser = [u \in Users |-> 0]
  /\ ppc = "idle" /\ psnap = NoRecords /\ op = "none" /\ target = NoUser
  /\ form = NoRecord /\ todo = {} /\ gone = {}
  /\ cpc = "idle" /\ csnap = NoRecords /\ ctarget = NoUser /\ ctodo = {}
  /\ changed = FALSE
  /\ stale = {} /\ raced = FALSE /\ crashes = 0

Next == Operator \/ PanelWorks \/ CronLoad \/ CronWorks \/ World

Spec == Init /\ [][Next]_vars

(* cron starts the enforcer every five minutes, and not every time into    *)
(* the few microseconds in which a save has emptied the file; both         *)
(* processes go on with what they have begun.  The operator owes nothing.  *)
EnforcerRuns == []<>(~torn) => []<><<CronLoad /\ ~torn>>_vars
FairSpec ==
  /\ Spec /\ EnforcerRuns
  /\ WF_vars(CronLoad) /\ WF_vars(CronWorks) /\ WF_vars(PanelWorks)

-----------------------------------------------------------------------------
SystemOK ==
  /\ account \subseteq Users /\ oslock \subseteq account /\ chain \subseteq Users
  /\ expires \in [Users -> Day \cup {0}] /\ counter \in [Users -> 0..MaxBytes]
  /\ sessions \in [Users -> [Daemons -> 0..MaxSessions]] /\ today \in Day
  /\ registry \in Registry /\ torn \in BOOLEAN
  /\ passwords \subseteq Users /\ checkuser \in [Users -> Day \cup {0}]
  /\ stale \subseteq {"panel", "cron"} /\ raced \in BOOLEAN /\ crashes \in 0..MaxCrashes

PanelOK ==
  /\ ppc \in {"idle", "menu", "adding", "kill", "removing", "userdel",
              "truncate", "write", "password", "checkuser"}
  /\ op \in {"none", "add", "renew", "edit", "remove", "expired", "all"}
  /\ psnap \in Registry /\ target \in Users \cup {NoUser}
  /\ form \in Record \cup {NoRecord} /\ todo \subseteq Users /\ gone \subseteq Users
  (* what the panel holds at its steps *)
  /\ ppc \in {"idle", "menu"} => op = "none"
  /\ ppc \in {"adding", "kill", "userdel"} => target \in Users
  /\ ppc = "adding" => op = "add"
  /\ ppc = "kill" => op = "edit"
  /\ ppc \in {"removing", "userdel"} => op \in {"remove", "expired", "all"}
  /\ ppc = "checkuser" => op \in {"add", "renew"}
  /\ op = "add" => target \in Users /\ form \in Record
  /\ op = "renew" \/ (op = "add" /\ ppc # "adding") => target \in Registered(psnap)

CronOK ==
  /\ cpc \in {"idle", "scan", "kill", "write"} /\ csnap \in Registry
  /\ ctarget \in Users \cup {NoUser} /\ changed \in BOOLEAN
  /\ cpc = "kill" => ctarget \in Users
  /\ ctodo \subseteq Registered(csnap)

TypeOK == SystemOK /\ PanelOK /\ CronOK

(* Nobody is in the middle of an operation.                                *)
Quiet == ppc \in {"idle", "menu"} /\ cpc = "idle"

(* What the registry says of u is what the system does with u.             *)
LockTold(u) == registry[u].locked <=> u \in oslock
ExpiryTold(u) == registry[u].expiry = expires[u]
QuotaCounted(u) == registry[u].quota > 0 => u \in chain
ApiTold(u) == registry[u].linked => checkuser[u] = expires[u]

(* As long as no process has saved a stale copy and nothing crashed, the   *)
(* registry and the system agree between operations, although lock, expiry,*)
(* chain, record and CheckUser entry are changed one after the other, by   *)
(* two processes (option handlers of ssh_user_admin_manager, the enforcer).*)
Coherent ==
  Quiet /\ ~raced /\ crashes = 0 =>
    /\ ~torn
    /\ \A u \in Registered(registry) :
         /\ u \in account /\ LockTold(u) /\ ExpiryTold(u) /\ ApiTold(u)
         /\ u \notin LongNames => QuotaCounted(u)

(* A locked account has no sshd session once the process that locked it    *)
(* has done its kills: no interleaving of the enforcer's and the panel's   *)
(* lock, unlock, kill and of logins leaves one behind, stale copies or not.*)
NoSessionAfterLock ==
  \A u \in oslock :
    crashes = 0 /\ ~(cpc = "kill" /\ ctarget = u) /\ ~(ppc = "kill" /\ target = u)
      => sessions[u]["sshd"] = 0

(* "cleaned up automatically everywhere a user is removed"                 *)
(* (_load_password_store): no password outlives its account, whichever     *)
(* removal ran and whatever the enforcer has brought back.                 *)
PasswordsOwned ==
  ppc \in {"idle", "menu"} /\ crashes = 0 => passwords \subseteq account

(* The strengthening that makes PasswordsOwned inductive: what a removal   *)
(* has taken away is remembered in gone until the store is cleaned, and    *)
(* an operation that adds works on an account that exists.                 *)
PasswordsInv ==
  crashes = 0 =>
    /\ passwords \subseteq account \cup gone
    /\ op \notin {"remove", "expired", "all"} => gone = {}
    /\ op = "add" => target \in account

(* A save of the enforcer that is not a lost update drops no record, adds  *)
(* none and touches nothing but used, locked and reason: in particular an  *)
(* enforcer that read a torn file as {} never saves it.                    *)
SameButUsage(r1, r2) ==
  IF r1 = NoRecord \/ r2 = NoRecord THEN r1 = r2
  ELSE r2 = [r1 EXCEPT !.used = r2.used, !.locked = r2.locked, !.reason = r2.reason]
EnforcerKeepsRecords ==
  [][cpc = "write" /\ ~raced' /\ registry' # registry /\ ppc' = ppc =>
       \A u \in Users : SameButUsage(registry[u], registry'[u])]_vars

Undisturbed == ~raced /\ crashes = 0
OverQuotaNow(u) ==
  u \in account /\ u \in Registered(registry) /\ u \notin oslock
  /\ registry[u].quota > 0 /\ BytesUsed(u) >= registry[u].quota
(* An account that has used up its quota does not stay usable: the         *)
(* enforcer locks it, unless the operator takes it out of that state.      *)
QuotaEventuallyEnforced ==
  \A u \in Users :
    OverQuotaNow(u) /\ Undisturbed ~> ~OverQuotaNow(u) \/ ~Undisturbed

TooManySessions(u) ==
  u \in Registered(registry) /\ registry[u].limit > 0
  /\ sessions[u]["sshd"] > registry[u].limit
(* Sessions of sshd beyond a user's limit do not stay.  Only these are     *)
(* counted and killed: the enforcer looks for "sshd: user@" in the list of *)
(* processes (active_session_pids), and Dropbear's are not called so.      *)
LimitEventuallyEnforced ==
  \A u \in Users :
    TooManySessions(u) /\ Undisturbed ~> ~TooManySessions(u) \/ ~Undisturbed
-----------------------------------------------------------------------------
(* What the repository says without the proviso.                           *)

(* The dashboard counts "an actual lock" from the registry: smartui_main   *)
(* get_system_stats, lines 118-121.                                        *)
LockFlagTruthful ==
  Quiet /\ crashes = 0 => \A u \in Registered(registry) \cap account : LockTold(u)

=============================================================================
