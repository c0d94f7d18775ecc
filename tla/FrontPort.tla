------------------------------ MODULE FrontPort ------------------------------
(***************************************************************************)
(* Three programs that want port 443: sslh (port_broker_manager.py), which *)
(* tells protocols apart, HAProxy (haproxy_manager.py), which routes by    *)
(* domain, and nginx (nginx_manager.py), which routes by path.             *)
(*                                                                         *)
(* Only one of them can have the port; HAProxy and nginx can be chained    *)
(* behind another on an inner port, which only the host itself reaches.    *)
(* Each has a manager of its own, which knows its own registry of routes,  *)
(* its own file and the firewall they all share, and looks at a port       *)
(* without asking whose it is.                                             *)
(*                                                                         *)
(* One option of one menu runs at a time, step by step.  The panel may be  *)
(* hung up on between two steps; a reboot starts whatever is enabled, in   *)
(* any order.  Left out: port 80, which nginx asks, opens and closes along *)
(* with 443 and sslh may share in its place; the ports behind the routes;  *)
(* and the loss of BROKER_PORT with the panel, which is in ServicePorts.   *)
(*                                                                         *)
(* A definition named Mut... is a plausible slip in the one below it, kept *)
(* to show which property would notice; no action uses it.                 *)
(***************************************************************************)
EXTENDS Naturals, Sequences

CONSTANTS
  Names,      \* the domains and paths an operator routes
  Front,      \* the public port
  Inner,      \* ports of the host for chained programs
  NoPort,     \* no port
  MaxFaults   \* bad configurations, hangups and reboots in a behaviour

ASSUME PortsAssumption == Front \notin Inner /\ NoPort \notin Inner \cup {Front}
ASSUME FaultsAssumption == MaxFaults \in Nat

Programs == {"sslh", "haproxy", "nginx"}
Routers == {"haproxy", "nginx"}
Asked == Inner \cup {Front}

(* What a file tells its program, or a program does.  Bare: the panel has  *)
(* written nothing; Off: the program does not run.                         *)
Conf == [port : Asked \cup {NoPort}, routes : SUBSET Names, ok : BOOLEAN]
Bare == [port |-> NoPort, routes |-> {}, ok |-> TRUE]
Off == [port |-> NoPort, routes |-> {}, ok |-> FALSE]
Nothing == [conf |-> Bare, run |-> Off, open |-> FALSE]

VARIABLES
  installed,  \* the programs that are there
  enabled,    \* those systemd starts at boot
  conf,       \* the file of each
  run,        \* what each was started with
  registry,   \* routes.json of each router
  mode,       \* the port in state.json, or in BROKER_PORT
  open,       \* the firewall lets the public port through
  saved,      \* it would after a reboot
  op,         \* the option that runs
  prog,       \* the program it is about
  want,       \* the routes and the port it is to have
  todo,       \* its steps left
  failed,     \* one of them has failed
  before,     \* the file it found, what ran and whether 443 was open
  booting,    \* the programs systemd has not started yet
  faults,     \* bad configurations, hangups and reboots so far (history)
  cut         \* there was a hangup or a reboot (history)

programs == <<installed, enabled, conf, run>>
records == <<registry, mode>>
firewall == <<open, saved>>
panel == <<op, prog, want, todo, failed, before>>
history == <<faults, cut>>
vars == <<programs, records, firewall, panel, booting, history>>

Idle == op = "none"
(* state.json's listen_port, 443 by default.                               *)
Listen(p) == IF mode[p] = NoPort THEN Front ELSE mode[p]
Active(p) == run[p] # Off
InUse(port) == \E q \in Programs : run[q].port = port
Free(p, port) == \A q \in Programs \ {p} : run[q].port # port

(* Nothing but nginx runs without a port to listen on.                     *)
Starts(p) ==
  /\ p \in installed /\ conf[p].ok
  /\ IF conf[p].port = NoPort THEN p = "nginx" ELSE Free(p, conf[p].port)

-----------------------------------------------------------------------------
(* The options, as the steps they take and those that follow a failed one. *)

(* _apply_safely of the three managers.                                    *)
MutTrying(p) == <<"save", "write", "restart", "verify", "saveMode">>
Trying(p) == (IF p = "nginx" THEN <<"write", "test">> ELSE <<"write">>) \o <<"restart", "verify", "save", "saveMode">>
MutUndone(p, step) == <<"rerun">>
Undone(p, step) ==
  (IF step = "test" THEN <<"putBack">> ELSE <<"putBack", "rerun">>) \o (IF p = "sslh" THEN <<"close">> ELSE <<>>)

Opened(port) == IF port = Front THEN <<"open">> ELSE <<>>
Setup(p, port) ==
  <<"install">> \o (IF p = "nginx" THEN <<"pause", "resume">> ELSE <<>>) \o Opened(port) \o Trying(p)

(* Without a route left HAProxy is only stopped.                           *)
LastRoute(port) == <<"stop">> \o (IF port = Front THEN <<"close", "persist">> ELSE <<>>) \o <<"save", "saveMode">>

(* HAProxy and nginx close 443 wherever they listened, sslh the port it    *)
(* has on record; HAProxy keeps its state.json.                            *)
Removal(p) ==
  <<"stop", "disable", "uninstall">> \o
  (IF p = "sslh" /\ mode[p] = NoPort THEN <<>> ELSE <<"close", "persist">>) \o
  (IF p = "haproxy" THEN <<"save">> ELSE <<"save", "saveMode">>)

-----------------------------------------------------------------------------
Init ==
  /\ installed = {} /\ enabled = {}
  /\ conf = [p \in Programs |-> Bare] /\ run = [p \in Programs |-> Off]
  /\ registry = [p \in Routers |-> {}] /\ mode = [p \in Programs |-> NoPort]
  /\ open = FALSE /\ saved = FALSE
  /\ op = "none" /\ prog = "sslh" /\ want = Off /\ todo = <<>> /\ failed = FALSE
  /\ before = Nothing
  /\ booting = {} /\ faults = 0 /\ cut = FALSE

(* At every turn two of the menus enable what they have set up.            *)
MutReenabled(p) == FALSE
Reenabled(p) == (p = "nginx" /\ mode[p] # NoPort) \/ (p = "sslh" /\ conf[p] # Bare)

Begin(o, p, port, routes, steps) ==
  /\ Idle /\ booting = {}
  /\ op' = o /\ prog' = p /\ todo' = steps /\ failed' = FALSE
  /\ want' = [port |-> port, routes |-> routes, ok |-> TRUE]
  /\ before' = [conf |-> conf[p], run |-> run[p], open |-> open]
  /\ enabled' = IF Reenabled(p) THEN enabled \cup {p} ELSE enabled
  /\ UNCHANGED <<installed, conf, run, records, firewall, booting, history>>

(* The public port must not be somebody else's, as far as the menu can     *)
(* tell; an inner port is taken as typed.                                  *)
MayHave(p, port) == port = Front /\ ~Active(p) => ~InUse(Front)

SetupSslh == Begin("setup", "sslh", Front, {}, Setup("sslh", Front))

AddDomain(name) ==
  /\ name \notin registry["haproxy"]
  /\ \E port \in IF registry["haproxy"] = {} THEN Asked ELSE {Listen("haproxy")} :
       /\ MayHave("haproxy", port)
       /\ Begin("add", "haproxy", port, registry["haproxy"] \cup {name}, Setup("haproxy", port))

DropDomain(name) ==
  /\ name \in registry["haproxy"]
  /\ LET rest == registry["haproxy"] \ {name}
         port == Listen("haproxy")
     IN IF rest = {} THEN Begin("drop", "haproxy", NoPort, {}, LastRoute(port))
        ELSE Begin("drop", "haproxy", port, rest, Trying("haproxy"))

SetupNginx ==
  \E port \in Asked :
    /\ MayHave("nginx", port)
    /\ Begin("setup", "nginx", port, registry["nginx"], Setup("nginx", port))

(* A path more, a path less, or another site to mirror.                    *)
ChangePaths ==
  /\ mode["nginx"] # NoPort
  /\ \/ \E name \in Names \ registry["nginx"] :
          Begin("add", "nginx", mode["nginx"], registry["nginx"] \cup {name}, Trying("nginx"))
     \/ \E name \in registry["nginx"] :
          Begin("drop", "nginx", mode["nginx"], registry["nginx"] \ {name}, Trying("nginx"))
     \/ Begin("decoy", "nginx", mode["nginx"], registry["nginx"], Trying("nginx"))

Toggle(p) ==
  \/ Active(p) /\ Begin("stop", p, NoPort, {}, <<"stop">>)
  \/ /\ ~Active(p) /\ (p = "sslh" => conf[p] # Bare)
     /\ Begin("start", p, NoPort, {}, IF p = "sslh" THEN <<"start">> ELSE <<"install", "start">>)

Restart(p) == Begin("restart", p, NoPort, {}, <<"again">>)
Remove(p) == Begin("remove", p, NoPort, {}, Removal(p))

Finish ==
  /\ ~Idle /\ todo = <<>>
  /\ op' = "none" /\ prog' = "sslh" /\ want' = Off /\ failed' = FALSE
  /\ before' = Nothing
  /\ enabled' = IF Reenabled(prog) THEN enabled \cup {prog} ELSE enabled
  /\ UNCHANGED <<installed, conf, run, records, firewall, todo, booting, history>>

-----------------------------------------------------------------------------
At(step) == todo # <<>> /\ Head(todo) = step
Proceeds == todo' = Tail(todo) /\ UNCHANGED <<op, prog, want, failed, before>>
FailsTo(steps) == todo' = steps /\ failed' = TRUE /\ UNCHANGED <<op, prog, want, before>>

(* A package brings its service, which is stopped and enabled; sslh is     *)
(* enabled anyway.                                                         *)
Install ==
  /\ At("install") /\ Proceeds
  /\ installed' = installed \cup {prog}
  /\ enabled' = IF prog = "sslh" \/ prog \notin installed THEN enabled \cup {prog} ELSE enabled
  /\ UNCHANGED <<conf, run, records, firewall>>

Runs(what) == run' = [run EXCEPT ![prog] = what] /\ UNCHANGED <<installed, enabled, conf, records, firewall>>
Started == IF Starts(prog) THEN conf[prog] ELSE Off

(* _obtain_cert: nginx is stopped while certbot answers the challenge,     *)
(* unless there is a certificate already.                                  *)
Pause ==
  /\ At("pause")
  /\ \/ Proceeds /\ Runs(Off)
     \/ /\ todo' = Tail(Tail(todo)) /\ UNCHANGED <<op, prog, want, failed, before>>
        /\ UNCHANGED <<programs, records, firewall>>
Resume ==
  /\ At("resume") /\ Runs(IF before.run = Off THEN Off ELSE Started)
  /\ Proceeds \/ FailsTo(<<>>)

(* Whether what is written is any good shows only when it is used.         *)
Write ==
  /\ At("write") /\ Proceeds
  /\ \E good \in BOOLEAN :
       /\ conf' = [conf EXCEPT ![prog] = [want EXCEPT !.ok = good]]
       /\ ~good => faults < MaxFaults
       /\ faults' = IF good THEN faults ELSE faults + 1
  /\ UNCHANGED <<installed, enabled, run, records, firewall>>

(* nginx -t                                                                *)
Test ==
  /\ At("test") /\ IF conf[prog].ok THEN Proceeds ELSE FailsTo(Undone(prog, "test"))
  /\ UNCHANGED <<programs, records, firewall>>

(* For systemd sslh has started once its process is there, whether it gets *)
(* its port or not; HAProxy and nginx have it when they say they are ready.*)
MutRestartIt == At("restart") /\ Runs(Started) /\ Proceeds
RestartIt ==
  /\ At("restart") /\ Runs(Started)
  /\ \/ (Starts(prog) \/ prog = "sslh") /\ Proceeds
     \/ ~Starts(prog) /\ FailsTo(Undone(prog, "restart"))

(* _wait_for_port_listening: somebody has the port.                        *)
Verify ==
  /\ At("verify") /\ UNCHANGED <<programs, records, firewall>>
  /\ IF \E q \in Programs : run[q].port = want.port THEN Proceeds ELSE FailsTo(Undone(prog, "verify"))

(* A first file is removed, and nothing restarted.                         *)
PutBack ==
  /\ At("putBack") /\ Proceeds
  /\ conf' = [conf EXCEPT ![prog] = before.conf]
  /\ UNCHANGED <<installed, enabled, run, records, firewall>>
Rerun == At("rerun") /\ Proceeds /\ Runs(IF before.conf = Bare THEN run[prog] ELSE Started)

Start == (At("start") \/ At("again")) /\ Proceeds /\ Runs(Started)
Stop == At("stop") /\ Proceeds /\ Runs(Off)

Disable ==
  /\ At("disable") /\ Proceeds /\ enabled' = enabled \ {prog}
  /\ UNCHANGED <<installed, conf, run, records, firewall>>

(* apt-get remove keeps the files; a purge may leave a changed one behind. *)
Uninstall ==
  /\ At("uninstall") /\ Proceeds /\ installed' = installed \ {prog}
  /\ \E rest \in IF prog = "sslh" THEN {Bare, conf[prog]} ELSE {conf[prog]} :
       conf' = [conf EXCEPT ![prog] = rest]
  /\ UNCHANGED <<enabled, run, records, firewall>>

(* panel_common: open_firewall_port with persist_firewall_rules;           *)
(* close_firewall_port; persist_firewall_rules.                            *)
Open == At("open") /\ Proceeds /\ open' = TRUE /\ saved' = TRUE /\ UNCHANGED <<programs, records>>
Close == At("close") /\ Proceeds /\ open' = FALSE /\ UNCHANGED <<saved, programs, records>>
Persist == At("persist") /\ Proceeds /\ saved' = open /\ UNCHANGED <<open, programs, records>>

Save ==
  /\ At("save") /\ Proceeds
  /\ registry' = IF prog \in Routers THEN [registry EXCEPT ![prog] = want.routes] ELSE registry
  /\ UNCHANGED <<mode, programs, firewall>>
MutSaveMode ==
  /\ At("saveMode") /\ Proceeds /\ mode' = [mode EXCEPT ![prog] = want.routes]
  /\ UNCHANGED <<registry, programs, firewall>>
SaveMode ==
  /\ At("saveMode") /\ Proceeds /\ mode' = [mode EXCEPT ![prog] = want.port]
  /\ UNCHANGED <<registry, programs, firewall>>

Step ==
  /\ \/ Install \/ Pause \/ Resume \/ Test \/ RestartIt \/ Verify
     \/ PutBack \/ Rerun \/ Start \/ Stop \/ Disable \/ Uninstall
     \/ Open \/ Close \/ Persist \/ Save \/ SaveMode
  /\ UNCHANGED faults

-----------------------------------------------------------------------------
(* The panel is gone, and the rest of its option with it.                  *)
Dies ==
  /\ faults < MaxFaults /\ faults' = faults + 1 /\ cut' = TRUE
  /\ op' = "none" /\ prog' = "sslh" /\ want' = Off /\ todo' = <<>> /\ failed' = FALSE
  /\ before' = Nothing

Hangup == ~Idle /\ Dies /\ UNCHANGED <<programs, records, firewall, booting>>

Reboot ==
  /\ Dies /\ open' = saved /\ run' = [p \in Programs |-> Off]
  /\ booting' = installed \cap enabled
  /\ UNCHANGED <<installed, enabled, conf, records, saved>>

Boot(p) ==
  /\ p \in booting /\ booting' = booting \ {p}
  /\ run' = [run EXCEPT ![p] = IF Starts(p) THEN conf[p] ELSE Off]
  /\ UNCHANGED <<installed, enabled, conf, records, firewall, panel, history>>

Choose ==
  \/ SetupSslh \/ SetupNginx \/ ChangePaths
  \/ \E name \in Names : AddDomain(name) \/ DropDomain(name)
  \/ \E p \in Programs : Toggle(p) \/ Restart(p) \/ Remove(p)

Next ==
  \/ Choose \/ Finish
  \/ (Step \/ Write) /\ UNCHANGED <<booting, cut>>
  \/ Hangup \/ Reboot
  \/ \E p \in Programs : Boot(p)

Spec == Init /\ [][Next]_vars
-----------------------------------------------------------------------------
OneOwner == \A p, q \in Programs : p # q /\ run[p].port = run[q].port => run[p].port = NoPort

(* Every variable keeps its type, and a program never runs on a port       *)
(* another one runs on.                                                    *)
TypeOK ==
  /\ installed \subseteq Programs /\ enabled \subseteq Programs /\ booting \subseteq Programs
  /\ conf \in [Programs -> Conf] /\ run \in [Programs -> Conf]
  /\ registry \in [Routers -> SUBSET Names] /\ mode \in [Programs -> Asked \cup {NoPort}]
  /\ open \in BOOLEAN /\ saved \in BOOLEAN
  /\ prog \in Programs /\ want \in Conf /\ failed \in BOOLEAN
  /\ before \in [conf : Conf, run : Conf, open : BOOLEAN]
  /\ faults \in 0..MaxFaults /\ cut \in BOOLEAN
  /\ OneOwner

Ended(result) == ~Idle /\ todo = <<>> /\ failed = result
Listed(p) == IF p = "nginx" THEN mode[p] # NoPort ELSE registry[p] # {}

(* What a router's menu lists is what the router does if it runs: its      *)
(* routes and its port, however many changes failed.                       *)
ListedServed ==
  Idle /\ ~cut => \A p \in Routers :
    Listed(p) /\ Active(p) => run[p] = [port |-> Listen(p), routes |-> registry[p], ok |-> TRUE]

(* A change of a router that is told to be applied and verified is what it *)
(* runs and what it would start with again, and on the public port it is   *)
(* let through, even after what a hangup or a reboot has left.             *)
ChangeServed ==
  Ended(FALSE) /\ prog \in Routers /\ op \in {"setup", "add", "drop", "decoy"} /\ want.port # NoPort =>
    /\ run[prog] = want /\ conf[prog] = want
    /\ (op = "setup" \/ (prog = "haproxy" /\ op = "add")) /\ want.port = Front => open /\ saved

(* A change that failed leaves a program that ran its file running it (a   *)
(* first setup has no file to go back to, and restarts nothing).           *)
OldServed ==
  Ended(TRUE) /\ before.conf # Bare /\ before.run = before.conf =>
    run[prog] = before.run /\ conf[prog] = before.conf

(* Whenever a menu is back at its list, what it runs would come back after *)
(* a reboot; HAProxy unless a hangup has left it disabled, since its menu  *)
(* does not enable it again.                                               *)
Comeback ==
  [][ Finish /\ Active(prog) /\ (prog = "haproxy" => ~cut) /\ (prog = "nginx" => mode[prog] # NoPort) =>
        prog \in enabled' ]_vars

(* No option of the menu of one program, once it is set up, shuts the      *)
(* public port on another one: a chained program never had anything to do  *)
(* with the firewall.                                                      *)
OthersReachable ==
  ~Idle /\ todo = <<>> /\ before.open /\ before.conf # Bare /\ (\E p \in Programs \ {prog} : run[p].port = Front) => open
=============================================================================
