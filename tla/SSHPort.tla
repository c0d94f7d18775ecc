------------------------------ MODULE SSHPort ------------------------------
(***************************************************************************)
(* The OpenSSH administrator: src/ssh_dropbear_manager.py, lines 62-382.   *)
(*                                                                         *)
(* Every edit of sshd_config is written, tested, applied by a restart and  *)
(* verified, and taken back if one of these fails.  A change of the port   *)
(* opens the new port in the firewall before and closes the old one after. *)
(* The panel runs over the very service it moves, so it may be cut off in  *)
(* the middle, and the host may reboot.                                    *)
(*                                                                         *)
(* A definition named Mut... is a plausible slip in the one below it, kept *)
(* to show which property would notice; no action uses it.                 *)
(***************************************************************************)
EXTENDS Naturals

CONSTANTS
  Ports,       \* the port numbers an operator may ask for
  Bindable,    \* those sshd manages to listen on
  FirstPort,   \* the port of the host when the panel is installed
  Persists,    \* rules come back as last saved (iptables), or as they were
  MaxCrashes   \* hangups and reboots in a behaviour

ASSUME PortsAssumption == Bindable \subseteq Ports /\ FirstPort \in Bindable
ASSUME PersistsAssumption == Persists \in BOOLEAN
ASSUME CrashesAssumption == MaxCrashes \in Nat

VARIABLES
  config,     \* the Port of sshd_config
  listening,  \* the ports sshd listens on: its own, or none
  stopped,    \* stopped or removed by the operator, or refused a start
  installed,  \* there is an sshd_config
  open,       \* the ports open in the firewall
  saved,      \* those netfilter-persistent would restore
  recorded,   \* ports_dict['SSH_PORT']
  disk,       \* the same in the file smartui_main saves
  ppc, op, orig, new,  \* the panel: step, kind of edit, old and new port
  void,       \* a change or its record was cut off, none succeeded since (history)
  crashes     \* hangups and reboots so far (history)

service == <<config, listening, stopped, installed>>
firewall == <<open, saved>>
record == <<recorded, disk>>
panel == <<ppc, op, orig, new>>
history == <<void, crashes>>
vars == <<service, firewall, record, panel, history>>

Ends == ppc' = "idle" /\ UNCHANGED <<op, orig, new>>

(* persist_firewall_rules: nothing to do where the rules persist anyway.   *)
Persist == saved' = IF Persists THEN open' ELSE saved

(* What sshd listens on after it was started with this configuration.      *)
Serving(port) == IF port \in Bindable THEN {port} ELSE {}

(* Starts that follow each other too fast are refused by systemd, and no   *)
(* `reset-failed' prevents it: sshd has been stopped, and stays so.        *)
Started == listening' = Serving(config) /\ stopped' = FALSE
Refused == listening' = {} /\ stopped' = TRUE

-----------------------------------------------------------------------------
(* _change_ssh_port up to the firewall: the port must not be the recorded  *)
(* one, nor in use.                                                        *)
ChangePort(p) ==
  /\ ppc = "idle" /\ installed /\ p # recorded /\ p \notin listening
  /\ open' = open \cup {p} /\ Persist
  /\ op' = "port" /\ orig' = config /\ new' = p /\ ppc' = "write"
  /\ UNCHANGED <<service, record, history>>

(* Options 2, 3 and 8: the banner, a login directive, old algorithms.      *)
ChangeOther ==
  /\ ppc = "idle" /\ installed
  /\ op' = "other" /\ orig' = config /\ new' = config /\ ppc' = "write"
  /\ UNCHANGED <<service, firewall, record, history>>

(* _apply_sshd_config_safely                                               *)
WriteConfig ==
  /\ ppc = "write" /\ config' = new /\ ppc' = "test"
  /\ UNCHANGED <<listening, stopped, installed, firewall, record, op, orig, new, history>>

TestConfig ==
  /\ ppc = "test"
  /\ \/ ppc' = "restart" /\ UNCHANGED config
     \/ ppc' = "failed" /\ config' = orig
  /\ UNCHANGED <<listening, stopped, installed, firewall, record, op, orig, new, history>>

(* A service that cannot bind its port may or may not fail the restart.    *)
Restart ==
  /\ ppc = "restart" /\ stopped' = FALSE
  /\ \/ listening' = Serving(config) /\ ppc' = "verify" /\ UNCHANGED config
     \/ listening' = Serving(config) /\ config \notin Bindable /\ ppc' = "rollback" /\ config' = orig
     \/ listening' = {} /\ ppc' = "rollback" /\ config' = orig
  /\ UNCHANGED <<installed, firewall, record, op, orig, new, history>>

MutVerifyNothing ==
  /\ ppc = "verify" /\ ppc' = "commit"
  /\ UNCHANGED <<service, firewall, record, op, orig, new, history>>
Verify ==
  /\ ppc = "verify"
  /\ IF config \in listening THEN ppc' = "commit" /\ UNCHANGED config
                             ELSE ppc' = "rollback" /\ config' = orig
  /\ UNCHANGED <<listening, stopped, installed, firewall, record, op, orig, new, history>>

(* What became of the restart with the old configuration is not looked at. *)
RollBack ==
  /\ ppc = "rollback" /\ ppc' = "failed" /\ (Started \/ Refused)
  /\ UNCHANGED <<config, installed, firewall, record, op, orig, new, history>>

(* _change_ssh_port after a success; for another edit nothing follows.     *)
MutCommitClosesNothing ==
  /\ ppc = "commit" /\ Ends
  /\ IF op = "port" THEN recorded' = new /\ void' = FALSE ELSE UNCHANGED <<recorded, void>>
  /\ UNCHANGED <<service, firewall, disk, crashes>>
MutCommitRecordsList ==
  /\ ppc = "commit" /\ Ends
  /\ IF op = "port"
     THEN open' = open \ {recorded} /\ Persist /\ recorded' = {new} /\ void' = FALSE
     ELSE UNCHANGED <<open, saved, recorded, void>>
  /\ UNCHANGED <<service, disk, crashes>>
Commit ==
  /\ ppc = "commit" /\ Ends
  /\ IF op = "port"
     THEN open' = open \ {recorded} /\ Persist /\ recorded' = new /\ void' = FALSE
     ELSE UNCHANGED <<open, saved, recorded, void>>
  /\ UNCHANGED <<service, disk, crashes>>

(* After a failure the new port is closed, and the rules are not saved.    *)
GiveUp ==
  /\ ppc = "failed" /\ Ends
  /\ open' = IF op = "port" THEN open \ {new} ELSE open
  /\ UNCHANGED <<service, saved, record, history>>

-----------------------------------------------------------------------------
(* Options 4, 5 and 6, and leaving the menu: smartui_main saves the ports. *)

StopService ==
  /\ ppc = "idle" /\ listening # {} /\ listening' = {} /\ stopped' = TRUE
  /\ UNCHANGED <<config, installed, firewall, record, panel, history>>

StartService ==
  /\ ppc = "idle" /\ installed /\ (Started \/ Refused)
  /\ UNCHANGED <<config, installed, firewall, record, panel, history>>

Purge ==
  /\ ppc = "idle" /\ installed /\ installed' = FALSE /\ listening' = {} /\ stopped' = TRUE
  /\ UNCHANGED <<config, firewall, record, panel, history>>

Leave ==
  /\ ppc = "idle" /\ disk' = recorded
  /\ UNCHANGED <<service, firewall, recorded, panel, history>>

(* The panel is gone: nothing is rolled back any more, and what ports_dict *)
(* has learnt since it was loaded is lost.                                 *)
Dies ==
  /\ crashes < MaxCrashes /\ crashes' = crashes + 1
  /\ Ends /\ recorded' = disk /\ void' = (void \/ ppc # "idle" \/ disk # config)

(* The operator's connection drops.                                        *)
Hangup ==
  /\ Dies
  /\ UNCHANGED <<service, firewall, disk>>

(* A stopped service is still enabled.                                     *)
Reboot ==
  /\ Dies
  /\ listening' = IF installed THEN Serving(config) ELSE {}
  /\ stopped' = ~installed
  /\ open' = IF Persists THEN saved ELSE open
  /\ UNCHANGED <<config, installed, saved, disk>>

-----------------------------------------------------------------------------
Init ==
  /\ config = FirstPort /\ listening = {FirstPort} /\ stopped = FALSE /\ installed = TRUE
  /\ open = {FirstPort} /\ saved = {FirstPort}
  /\ recorded = FirstPort /\ disk = FirstPort
  /\ ppc = "idle" /\ op = "other" /\ orig = FirstPort /\ new = FirstPort
  /\ void = FALSE /\ crashes = 0

Apply == WriteConfig \/ TestConfig \/ Restart \/ Verify \/ RollBack \/ Commit \/ GiveUp
Menu ==
  \/ ChangeOther \/ StopService \/ StartService \/ Purge \/ Leave
  \/ \E p \in Ports : ChangePort(p)
Next == Menu \/ Apply \/ Hangup \/ Reboot

Spec == Init /\ [][Next]_vars

-----------------------------------------------------------------------------
TypeOK ==
  /\ config \in Ports /\ listening \subseteq Ports
  /\ stopped \in BOOLEAN /\ installed \in BOOLEAN
  /\ open \subseteq Ports /\ saved \subseteq Ports
  /\ recorded \in Ports /\ disk \in Ports
  /\ ppc \in {"idle", "write", "test", "restart", "verify", "rollback", "commit", "failed"}
  /\ op \in {"port", "other"} /\ orig \in Ports /\ new \in Ports
  /\ void \in BOOLEAN /\ crashes \in 0..MaxCrashes

(* How this is a PortSwitch: while a running service is changed, its ports *)
(* are those it started from.                                              *)
Reached == listening \cap open
Before == IF ppc = "idle" THEN config ELSE orig
Phase ==
  IF void THEN "unpromised" ELSE IF stopped THEN "down"
  ELSE IF ppc = "idle" THEN "up" ELSE "switching"
Switch == INSTANCE PortSwitch WITH
  phase <- Phase, ports <- {Before},
  want <- {IF ppc = "idle" \/ stopped THEN Before ELSE new}, reach <- Reached

(* "Every port change here now goes through: pre-flight config syntax test *)
(* -> apply -> restart -> verify the port is actually listening ->         *)
(* automatic rollback to the previous working config" (lines 10-13):       *)
(* whatever fails, the service ends on the old or the new port, reachable; *)
(* only a change that is cut off is left as it is, and a service whose     *)
(* last restart systemd refuses is down, with the old port.                *)
ImplementsPortSwitch == Switch!Spec

(* The firewall opens the port of sshd and no other once a change is over, *)
(* failed or not, as long as no crash came between.                        *)
FirewallTight ==
  ppc = "idle" /\ crashes = 0 => open = {config} /\ recorded = config

(* Why a switch keeps its promise: which of the two ports can be bound, is *)
(* open, and is the recorded one at each step.                             *)
Admitted(p) == p \in open /\ (Persists => p \in saved)
EditInv ==
  /\ ppc \in {"write", "rollback", "failed"} => config = orig
  /\ ppc \in {"test", "restart", "verify", "commit"} => config = new
  /\ ppc \in {"verify", "rollback", "commit"} => ~stopped
  /\ ppc = "verify" => listening = Serving(new)
  /\ ppc = "commit" => new \in Bindable /\ listening = {new}
  /\ ppc # "idle" => installed
  /\ ppc # "idle" /\ op = "port" => Admitted(new) /\ new # recorded
  /\ ppc # "idle" /\ op = "other" => new = orig
  /\ ~installed => stopped
SteadyInv ==
  ~void =>
    /\ Before \in Bindable /\ Admitted(Before) /\ recorded = Before
    /\ ppc \in {"idle", "write", "test", "failed"} =>
         listening = IF stopped THEN {} ELSE {Before}
SwitchInv == EditInv /\ SteadyInv
=============================================================================
