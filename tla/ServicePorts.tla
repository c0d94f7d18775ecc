---------------------------- MODULE ServicePorts ----------------------------
(***************************************************************************)
(* One service of the panel and its manager: the ports its file names, the *)
(* ports it listens on, the ports the firewall lets through and the ports  *)
(* the panel has on record, while an option of the menu runs step by step. *)
(*                                                                         *)
(* A service started with a good file comes up after a while, perhaps only *)
(* after the panel has stopped waiting for it; the panel may be killed     *)
(* between two steps, and the host may reboot, with the rules its firewall *)
(* brings back, if any.                                                    *)
(*                                                                         *)
(* A definition named Mut... is a plausible slip in the one below it, kept *)
(* to show which property would notice; no action uses it.                 *)
(***************************************************************************)
EXTENDS Naturals, FiniteSets, ServiceOps, Firewalls

CONSTANTS
  Ports,        \* the ports an operator may ask for
  Bindable,     \* those a service manages to listen on
  DefaultPort,  \* the port of a package's own configuration
  Modelled,     \* the managers of this instance
  Firewalled,   \* the hosts of this instance
  MaxCrashes    \* hangups and reboots in a behaviour

ASSUME PortsAssumption == Bindable \subseteq Ports /\ DefaultPort \in Ports
ASSUME ModelledAssumption == Modelled # {} /\ Modelled \subseteq Managers
ASSUME FirewalledAssumption == Firewalled # {} /\ Firewalled \subseteq Hosts
ASSUME CrashesAssumption == MaxCrashes \in Nat

VARIABLES
  mgr,        \* the manager
  host,       \* the firewall of the host
  installed,  \* the program is there
  enabled,    \* systemd starts it at boot
  file,       \* the ports of the configuration, and those it can serve
  live,       \* the ports the service listens on
  coming,     \* those it is about to listen on
  open,       \* the ports open in the firewall
  saved,      \* those a reboot would bring back
  recorded,   \* the entry of ports_dict
  disk,       \* the entry in the file of ports
  op,         \* the option that runs
  args,       \* the ports it was given
  todo,       \* the steps it has left
  failed,     \* one of its checks has failed
  before,     \* what it found
  crashes,    \* hangups and reboots so far (history)
  torn        \* the ports one found opened and not yet saved (history)

kind == <<mgr, host>>
service == <<installed, enabled, file, live, coming>>
firewall == <<open, saved>>
record == <<recorded, disk>>
panel == <<op, args, todo, failed, before>>
history == <<crashes, torn>>
vars == <<kind, service, firewall, record, panel, history>>

NoFile == [ports |-> {}, good |-> {}]
Nothing == [file |-> NoFile, live |-> {}, open |-> {}, recorded |-> {}]
Files == {f \in [ports : SUBSET Ports, good : SUBSET Ports] : f.good \subseteq f.ports}
Found == [file : Files, live : SUBSET Ports, open : SUBSET Ports, recorded : SUBSET Ports]

(* Stunnel gives up if it cannot bind one of its ports; the others serve   *)
(* the ports they get.                                                     *)
Serving(f) == IF mgr = "stunnel" /\ ~(f.good \subseteq Bindable) THEN {} ELSE f.good \cap Bindable

(* Whether what was written works shows only when it is used.              *)
Written(ports) == {[ports |-> ports, good |-> ports], [ports |-> ports, good |-> {}]}

Idle == op = "none"
Running == live \cup coming # {}
Menu == Menus[mgr]

(* What the menu takes for the current ports: the record, which some menus *)
(* first set to the ports of the file; Dropbear defaults to 443.           *)
Current == IF mgr \in Reconciling /\ file # NoFile THEN file.ports ELSE recorded
Old == IF mgr = "dropbear" /\ before.recorded = {} THEN {DefaultPort} ELSE before.recorded

(* prompt_port, check_system_port_in_use and the like: what an option may  *)
(* be run with.                                                            *)
Asked(asks) ==
  LET one == {{p} : p \in {q \in Ports : q \in Current \/ q \notin live}}
      known == IF mgr = "dropbear" /\ recorded = {} THEN {DefaultPort} ELSE Current
  IN CASE asks = "port" -> one
       [] asks = "portOn" -> {ps \in one : file # NoFile}
       [] asks = "portInstalled" -> {ps \in one : installed}
       [] asks = "anyPort" -> {{p} : p \in Ports}
       [] asks = "ports" -> {ps \in (SUBSET Ports) \ {{}} : ps \cap live \subseteq Current}
       [] asks = "portsOn" -> {ps \in (SUBSET Ports) \ {{}} : file # NoFile /\ ps \cap live \subseteq Current}
       [] asks = "portUnlisted" -> {{p} : p \in Ports \ (file.ports \cup live)}
       [] asks = "portUnknown" -> {{p} : p \in Ports \ (recorded \cup live)}
       [] asks = "listed" -> {{p} : p \in file.ports}
       [] asks = "known" -> {{p} : p \in recorded}
       [] asks = "content" -> {file.ports} \ {{}}
       [] asks = "list" -> {ps \in (SUBSET Ports) \ {{}} : ps \cap live = {}}
       [] asks = "oneMore" -> {known \cup {p} : p \in Ports \ (known \cup live)}
       [] asks = "oneLess" -> {known \ {p} : p \in known} \ {{}}
       [] asks = "nothing" -> {{}}
       [] asks = "on" -> {ps \in {{}} : Running}
       [] asks = "off" -> {ps \in {{}} : ~Running}

-----------------------------------------------------------------------------
Init ==
  /\ mgr \in Modelled /\ host \in Firewalled
  /\ installed = FALSE /\ enabled = TRUE /\ file = NoFile /\ live = {} /\ coming = {}
  /\ open = {} /\ saved = {} /\ recorded = {} /\ disk = {}
  /\ op = "none" /\ args = {} /\ todo = <<>> /\ failed = FALSE /\ before = Nothing
  /\ crashes = 0 /\ torn = {}

(* An option is chosen and answered.                                       *)
Begin(o) ==
  /\ Idle /\ op' = o /\ args' \in Asked(Menu[o].asks)
  /\ todo' = Menu[o].do /\ failed' = FALSE /\ recorded' = Current
  /\ before' = [file |-> file, live |-> live, open |-> open, recorded |-> Current]
  /\ UNCHANGED <<kind, service, firewall, disk, history>>

Finish ==
  /\ ~Idle /\ todo = <<>>
  /\ op' = "none" /\ args' = {} /\ failed' = FALSE /\ before' = Nothing
  /\ UNCHANGED <<kind, service, firewall, record, todo, history>>

(* A step that cannot fail, and the two ways of one that can.              *)
At(step) == todo # <<>> /\ Head(todo) = step
Done == todo' = Tail(todo) /\ UNCHANGED <<kind, op, args, failed, before, history>>
FailsTo(undo) == todo' = undo /\ failed' = TRUE /\ UNCHANGED <<kind, op, args, before, history>>

-----------------------------------------------------------------------------
(* The firewall: open_firewall_port, close_firewall_port and               *)
(* persist_firewall_rules of panel_common.                                 *)

Changed(ports) == open' = ports /\ saved' = Kept(host, ports, saved)
Saved == saved' = Persisted(host, open', saved)
Open == At("open") /\ Done /\ Changed(open \cup args) /\ UNCHANGED <<record, service>>

MutPersist == At("persist") /\ Done /\ UNCHANGED <<firewall, record, service>>
Persist == At("persist") /\ Done /\ UNCHANGED open /\ Saved /\ UNCHANGED <<record, service>>

Close ==
  /\ \/ At("close") /\ Changed(Closed(host, open, args))
     \/ At("closeNew") /\ Changed(Closed(host, open, args \ Old))
  /\ Done /\ UNCHANGED <<record, service>>

(* The ports served before that are not any more; saved if there are any.  *)
MutRetire ==
  /\ At("retire") /\ Done
  /\ IF Old \subseteq args THEN UNCHANGED firewall
     ELSE Changed(Closed(host, open, Old \ args))
  /\ UNCHANGED <<record, service>>
Retire ==
  /\ At("retire") /\ Done
  /\ IF Old \subseteq args THEN UNCHANGED firewall
     ELSE open' = Closed(host, open, Old \ args) /\ Saved
  /\ UNCHANGED <<record, service>>

-----------------------------------------------------------------------------
(* The file.                                                               *)

(* A package may bring a configuration and start its service (Dropbear is  *)
(* stopped at once, and never installed where there is a file); the option *)
(* takes that file for the one to put back.                                *)
Packaged == {"shadowsocks", "squid", "sslh", "dropbear"}
InstallProgram ==
  /\ At("install")
  /\ installed' = IF mgr = "dropbear" /\ file # NoFile THEN installed ELSE TRUE
  /\ enabled' = (enabled \/ installed' # installed)
  /\ IF installed \/ mgr \notin Packaged THEN UNCHANGED <<file, coming>>
     ELSE /\ file' \in IF file = NoFile THEN {NoFile} \cup Written({DefaultPort}) ELSE {file}
          /\ coming' = IF mgr = "dropbear" THEN coming ELSE Serving(file')
  /\ before' = [before EXCEPT !.file = file']
  /\ todo' = Tail(todo) /\ UNCHANGED <<kind, op, args, failed, live, firewall, record, history>>

Write ==
  /\ \/ At("write") /\ file' \in Written(args)
     \/ (At("append") \/ At("rewrite")) /\ file' \in {[ports |-> file.ports \cup args, good |-> g] : g \in {file.good \cup args, file.good \ args}}
     \/ At("cut") /\ file' = [ports |-> file.ports \ args, good |-> file.good \ args]
     \/ At("edit") /\ file' \in Written(IF file = NoFile THEN {DefaultPort} ELSE file.ports)
     \/ At("wipe") /\ file' = NoFile
  /\ Done /\ UNCHANGED <<installed, enabled, live, coming, firewall, record>>

(* filebrowser config set: the one writing step whose failure is noticed,  *)
(* and after which nothing is undone.                                      *)
Create ==
  /\ At("create")
  /\ \/ Done /\ file' \in Written(args)
     \/ FailsTo(<<>>) /\ UNCHANGED file
  /\ UNCHANGED <<installed, enabled, live, coming, firewall, record>>

(* Nothing is put back where there was nothing, unless it is to be removed.*)
MutPutBack ==
  /\ At("putBack") \/ At("putBackOrErase") \/ At("putBackRecorded")
  /\ UNCHANGED file /\ Done /\ UNCHANGED <<installed, enabled, live, coming, firewall, record>>
PutBack ==
  /\ \/ At("putBack") /\ file' = IF before.file = NoFile THEN file ELSE before.file
     \/ At("putBackOrErase") /\ file' = before.file
     \/ At("putBackRecorded") /\ file' = [ports |-> Old, good |-> IF before.file = NoFile \/ before.file.good # {} THEN Old ELSE {}]
  /\ Done /\ UNCHANGED <<installed, enabled, live, coming, firewall, record>>

(* A purge may leave a configuration behind that was changed.              *)
Uninstall ==
  /\ \/ At("erase") /\ file' = NoFile
     \/ At("purge") /\ file' \in {file, NoFile}
  /\ Done /\ installed' = FALSE /\ UNCHANGED <<enabled, live, coming, firewall, record>>

-----------------------------------------------------------------------------
(* The service.                                                            *)

(* systemctl restart: what listened stops, and what the file allows will   *)
(* listen in a while.  A Python SOCKS unit is restarted on its own.        *)
Restarted ==
  LET scope == IF mgr = "pysocks" THEN args ELSE Ports
  IN /\ live' = live \ scope
     /\ coming' = (coming \ scope) \cup (IF installed THEN Serving(file) \cap scope ELSE {})

Works(ports) == ports \subseteq Serving(file)

(* squid -k parse                                                          *)
Test ==
  /\ At("test")
  /\ \/ Done
     \/ file.good # file.ports /\ FailsTo(Menu[op].test)
  /\ UNCHANGED <<service, firewall, record>>

RestartService ==
  /\ At("restart") /\ Restarted
  /\ \/ Done
     \/ ~Works(IF mgr = "pysocks" THEN args ELSE file.ports) /\ FailsTo(Menu[op].restart)
  /\ UNCHANGED <<installed, enabled, file, firewall, record>>

(* The panel polls for some seconds: a service that comes up later counts  *)
(* as one that did not.                                                    *)
(* Only of a new port is it known that nobody had it: on another one the   *)
(* check may see a connection of old, or another program.                  *)
Unchecked == IF Menu[op].asks \in {"anyPort", "content", "listed", "known"} THEN args ELSE Old
MutVerify == At("verify") /\ Done /\ UNCHANGED <<service, firewall, record>>
Verify ==
  /\ \/ At("verify") /\ args \ Unchecked \subseteq live /\ Done
     \/ At("verify") /\ ~(args \subseteq live) /\ FailsTo(Menu[op].verify)
     \/ At("verifyAny") /\ args \cap (live \cup Unchecked) # {} /\ Done
     \/ At("verifyAny") /\ args \cap live = {} /\ FailsTo(Menu[op].verify)
  /\ UNCHANGED <<service, firewall, record>>

(* Restarts whose outcome is only shown.                                   *)
Again ==
  /\ At("again") \/ At("rerun") \/ At("bounce")
  /\ IF \/ At("rerun") /\ before.file = NoFile
        \/ At("bounce") /\ ~Running
        \/ mgr = "badvpn" /\ file = NoFile  \* systemd has no such unit any more
     THEN UNCHANGED <<live, coming>> ELSE Restarted
  /\ Done /\ UNCHANGED <<installed, enabled, file, firewall, record>>

Halt ==
  /\ \/ At("stop") /\ live' = {} /\ coming' = {}
     \/ At("halt") /\ live' = live \ args /\ coming' = coming \ args
  /\ Done /\ UNCHANGED <<installed, enabled, file, firewall, record>>

(* Option 6 of Dropbear.                                                   *)
Toggle ==
  /\ At("toggle") /\ enabled' = (installed /\ ~enabled)
  /\ Done /\ UNCHANGED <<installed, file, live, coming, firewall, record>>

ComesUp ==
  /\ \E p \in coming : live' = live \cup {p} /\ coming' = coming \ {p}
  /\ UNCHANGED <<kind, installed, enabled, file, firewall, record, panel, history>>

-----------------------------------------------------------------------------
(* The record.                                                             *)

MutRecord ==
  /\ \/ At("record") \/ At("recordAlso") \/ At("recordFile")
     \/ At("unrecord") \/ At("forget")
  /\ recorded' = {args} /\ Done /\ UNCHANGED <<disk, service, firewall>>
Record ==
  /\ \/ At("record") /\ recorded' = args
     \/ At("recordAlso") /\ recorded' = recorded \cup args
     \/ At("recordFile") /\ recorded' = file.ports
     \/ At("unrecord") /\ recorded' = recorded \ args
     \/ At("forget") /\ recorded' = {}
  /\ Done /\ UNCHANGED <<disk, service, firewall>>

Save == At("save") /\ Done /\ disk' = recorded /\ UNCHANGED <<recorded, service, firewall>>

(* Back in the list of protocols, which sets what it can read in the files *)
(* (that of sslh may have outlived the program), or further back in the    *)
(* main menu, which saves the ports.                                       *)
Reconciled == IF mgr \in Reconciling \cup {"hysteria1", "sslh"} /\ file # NoFile THEN file.ports ELSE recorded
Leave ==
  /\ Idle /\ recorded' = Reconciled /\ disk' \in {disk, Reconciled}
  /\ UNCHANGED <<kind, service, firewall, panel, history>>

-----------------------------------------------------------------------------
(* The panel is gone, and with it the rest of the option and everything    *)
(* ports_dict has learnt since it was saved.                               *)
Dies ==
  /\ crashes < MaxCrashes /\ crashes' = crashes + 1
  /\ op' = "none" /\ args' = {} /\ todo' = <<>> /\ failed' = FALSE /\ before' = Nothing
  /\ recorded' = disk /\ torn' = IF At("persist") THEN torn \cup args ELSE torn

Hangup == Dies /\ UNCHANGED <<kind, service, firewall, disk>>

Reboot ==
  /\ Dies /\ open' = saved /\ live' = {}
  /\ coming' = IF installed /\ enabled THEN Serving(file) ELSE {}
  /\ UNCHANGED <<kind, installed, enabled, file, saved, disk>>

Step ==
  \/ Open \/ Persist \/ Close \/ Retire
  \/ InstallProgram \/ Write \/ Create \/ PutBack \/ Uninstall
  \/ Test \/ RestartService \/ Verify \/ Again \/ Halt \/ Toggle
  \/ Record \/ Save

Next ==
  \/ \E o \in DOMAIN Menu : Begin(o)
  \/ Step \/ Finish \/ Leave
  \/ ComesUp
  \/ Hangup \/ Reboot

Spec == Init /\ [][Next]_vars /\ WF_vars(ComesUp)
-----------------------------------------------------------------------------
(* What an option of a menu must keep.                                     *)

(* Every variable keeps its type; a record, a file and a rule never name a *)
(* port nobody asked for.                                                  *)
TypeOK ==
  /\ mgr \in Modelled /\ host \in Firewalled /\ {installed, enabled} \subseteq BOOLEAN
  /\ file \in Files
  /\ {live, coming, open, saved, recorded, disk, args, torn} \subseteq SUBSET Ports
  /\ op \in {"none"} \cup DOMAIN Menu /\ failed \in BOOLEAN
  /\ before \in Found
  /\ crashes \in 0..MaxCrashes

Ended(result) == ~Idle /\ todo = <<>> /\ failed = result

(* A change that reports success can be reached: its ports are on record   *)
(* and open, and stay so over a reboot where the host keeps rules, and a   *)
(* change of ports has closed the ones it left, where that is done at all. *)
(* The ports that were found free before are served by the service (one    *)
(* of them is enough for Dropbear); of the others the check says nothing.  *)
ChangeReachable ==
  Ended(FALSE) /\ op \in {"setup", "move", "add", "define"} =>
    /\ args \subseteq open \cap recorded
    /\ IF mgr = "dropbear" THEN args \cap (live \cup Unchecked) # {} ELSE args \ Unchecked \subseteq live
    /\ Durable(host) => args \subseteq saved
    /\ op \in {"move", "define"} /\ Closes(host) => (open \cup saved) \cap Old \subseteq args

(* A failed change of anything but the current ports leaves the record and *)
(* the other ports of the firewall alone, and where the manager claims so  *)
(* the file as it was, with what was served being served again, whatever   *)
(* the ports.                                                              *)
KeepsFirst == {"zivpn", "hysteria1", "squid", "websocket", "ws_epro", "sshgo", "atken", "checkuser"}
PutsBack ==
  /\ mgr \notin {"filebrowser", "pysocks"} /\ op \notin {"edit", "again"}
  /\ mgr \in KeepsFirst => before.file # NoFile
  /\ mgr = "wireguard" => op = "move"
  /\ mgr = "stunnel" => op # "drop"
  /\ mgr = "dropbear" => before.file # NoFile /\ before.file.ports = before.recorded
FailureUndone ==
  Ended(TRUE) =>
    /\ args \cap Old = {} =>
         /\ recorded = before.recorded /\ before.open \ args \subseteq open
         /\ open \subseteq before.open \cup (IF Closes(host) THEN {} ELSE args)
         /\ PutsBack => file = before.file
    /\ PutsBack => before.live \cap Serving(before.file) \subseteq live \cup coming

(* Between two options a reboot shuts no port that is on record and open,  *)
(* on a host that keeps rules at all, whatever was cut off before: but for *)
(* a port an option had just opened when it was cut off.                   *)
RebootKeepsPorts == Idle /\ Durable(host) => recorded \cap open \subseteq saved \cup torn

(* Nothing of a removed service listens or can be reached, even after a    *)
(* reboot; nftables leaves its ports open.                                 *)
RemovedWhole ==
  Ended(FALSE) /\ op = "remove" =>
    /\ live \cup coming = {} /\ recorded = {}
    /\ Closes(host) => (open \cup saved) \cap Old = {}

(* No port of the record is shut by a change before the new ones listen.   *)
NoLockout ==
  [][ ~Idle /\ op' = op /\ op \in {"move", "define"} /\ args \cap Old = {} =>
        Old \cap open \subseteq open' \/ args \cap live # {} ]_vars
=============================================================================
