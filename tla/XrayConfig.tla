----------------------------- MODULE XrayConfig -----------------------------
(***************************************************************************)
(* The Xray manager: config.json, the tracker of users, the table of paths *)
(* shared through nginx, what the running Xray serves and what the         *)
(* firewall lets through, while an option of the menu runs step by step.   *)
(*                                                                         *)
(* Several inbounds may share one public port: the first one there (the    *)
(* front) hands requests for other paths on to inbounds that listen on     *)
(* internal ports only (its guests).  An inbound is told from another by   *)
(* its shape: protocol, transport and security together.                   *)
(*                                                                         *)
(* A path is kept as it was spelt: "/a", "a" and "/a/" are three.  Lead    *)
(* gives it one slash in front, Trim drops one at the end as well.         *)
(*                                                                         *)
(* The panel may be killed between two steps, or within one that writes a  *)
(* file: every file is truncated first, and one that cannot be parsed is   *)
(* read as if there were none.                                             *)
(*                                                                         *)
(* A definition named Mut... is a plausible slip in the one below it, kept *)
(* to show which property would notice; no action uses it.                 *)
(***************************************************************************)
EXTENDS Naturals, FiniteSets, Sequences

CONSTANTS
  Users,
  Paths,       \* spellings of paths
  Lead, Trim,  \* "/" + x.lstrip("/"), "/" + x.strip("/")
  Public,      \* the ports an operator may ask for
  Internal,    \* those find_free_internal_port may return
  Tls,         \* shapes with TLS over a transport that has paths
  Fronts,      \* those of them whose protocol has fallbacks: VLESS, Trojan
  Grpc,        \* those of them over gRPC, whose path is a service name
  Ntls,        \* shapes in plain text over such a transport, but not gRPC
  Plain,       \* all other shapes
  MaxFaults    \* hangups, reboots, reloads nginx refuses and restarts that
               \* fail for a reason of Xray's own, in a behaviour

Shapes == Tls \cup Ntls \cup Plain

ASSUME PortsAssumption == Public \cap Internal = {} /\ IsFiniteSet(Public \cup Internal)
ASSUME NoneAssumption == "none" \notin Public \cup Internal  \* ports are numbers: none stands for no port
ASSUME SpellingAssumption ==
  /\ Lead \in [Paths -> Paths] /\ Trim \in [Paths -> Paths]
  /\ \A x \in Paths : Lead[Lead[x]] = Lead[x] /\ Lead[Trim[x]] = Trim[x]
ASSUME ShapesAssumption == Fronts \cup Grpc \subseteq Tls /\ Tls \cap Ntls = {} /\ (Tls \cup Ntls) \cap Plain = {}
ASSUME FaultsAssumption == MaxFaults \in Nat

VARIABLES
  conf,     \* config.json: its inbounds by port
  tracker,  \* users_tracker.json: port and path of each user
  mux,      \* ntls_mux.json: the paths nginx is to hand on
  sites,    \* the same in its conf.d directory, one file a port
  nginx,    \* those it hands on
  running,  \* the inbounds the running Xray serves
  open,     \* the ports open in the firewall
  op,       \* the option that runs, and the users it is about
  plan,     \* what it has worked out from the files it read
  todo,     \* the steps it has left
  failed,   \* a restart has failed
  before,   \* the configuration it started from
  crashes,  \* hangups and reboots so far (history)
  refusals, \* restarts and reloads that failed so far (history)
  orphans,  \* users added to config.json whom nginx was not told of (history)
  astray,   \* guests whose path changed while the route to them, spelt
            \* otherwise in the tracker, was left (history)
  disputed  \* requests an option took although others use them (history)

files == <<conf, tracker, mux>>
panel == <<op, plan, todo, failed, before>>
web == <<sites, nginx>>
notes == <<orphans, astray, disputed>>
vars == <<files, web, running, open, panel, crashes, refusals, notes>>

Ports == Public \cup Internal
Routes == [path : Paths, dest : Ports]
Inbounds == [shape : Shapes, path : Paths, clients : SUBSET Users, routes : SUBSET Routes, decoy : BOOLEAN]
MuxRoutes == [port : Public, path : Paths, dest : Ports]

Empty == [p \in {} |-> TRUE]
NoConf == [p \in {"none"} |-> "none"]  \* no file, or none that can be parsed
Found(c) == c # NoConf
Inb(c) == IF Found(c) THEN c ELSE Empty
Only(f, S) == [x \in (DOMAIN f) \cap S |-> f[x]]
Put(f, x, v) == [y \in DOMAIN f \cup {x} |-> IF y = x THEN v ELSE f[y]]

Clients(c) == UNION {Inb(c)[p].clients : p \in DOMAIN Inb(c)}
Idle == op.name = "none"
NoOp == [name |-> "none", users |-> {}]
NoPlan == [conf |-> NoConf, mux |-> {}, sites |-> {}, tracker |-> Empty, port |-> "none", ports |-> {}]

Init ==
  /\ conf = NoConf /\ tracker = Empty /\ mux = {} /\ sites = {} /\ nginx = {}
  /\ running = Empty /\ open = {}
  /\ op = NoOp /\ plan = NoPlan /\ todo = <<>> /\ failed = FALSE /\ before = NoConf
  /\ crashes = 0 /\ refusals = 0
  /\ orphans = {} /\ astray = {} /\ disputed = {}

-----------------------------------------------------------------------------
(* prune_empty_inbounds: rounds that drop the routes to inbounds that are  *)
(* not there, then the inbounds with neither clients nor fallbacks, until  *)
(* a round removes nothing.  The decoy leads to no inbound: it goes too.   *)
RouteLive(c, routes) == {r \in routes : r.dest \in DOMAIN c}
Relinked(c) == [p \in DOMAIN c |-> [c[p] EXCEPT !.routes = RouteLive(c, @), !.decoy = FALSE]]
MutUsed(i) == i.clients # {}
Used(i) == i.clients # {} \/ i.routes # {} \/ i.decoy
Round(c) == LET l == Relinked(c) IN Only(l, {p \in DOMAIN l : Used(l[p])})

MutPrune(c) == Round(c)
Prune(c) ==
  LET rounds[n \in Nat] == IF n = 0 THEN c ELSE Round(rounds[n - 1])
  IN rounds[Cardinality(DOMAIN c) + 1]

(* Every client of these users, in whatever inbound.                       *)
MutWithout(c, gone) == [p \in DOMAIN c |-> IF p \in Internal THEN c[p] ELSE [c[p] EXCEPT !.clients = @ \ gone]]
Without(c, gone) == [p \in DOMAIN c |-> [c[p] EXCEPT !.clients = @ \ gone]]
Freed(c, d) == (DOMAIN c \ DOMAIN d) \cap Public

-----------------------------------------------------------------------------
(* Paths.  The option asks for one with a slash in front, and for gRPC     *)
(* without one at the end; a new inbound keeps it as it was typed.         *)
Asked(s, x) == IF s \in Grpc THEN Trim[x] ELSE Lead[x]
Kept(s, x) == IF s \in Grpc THEN Trim[x] ELSE x

(* The inbounds in which a request may end: the one that listens on the    *)
(* port, or those it hands the path on to.  Xray itself reads a path with  *)
(* a slash in front.                                                       *)
Ends(i, p, y) ==
  (IF Lead[i[p].path] = y THEN {p} ELSE {}) \cup {r.dest : r \in {t \in i[p].routes : t.path = y /\ t.dest \in DOMAIN i}}
Shared(c) ==
  LET i == Inb(c) IN {q \in (DOMAIN i \cap Public) \X Paths : Cardinality(Ends(i, q[1], q[2])) > 1}

-----------------------------------------------------------------------------
(* The options: what each makes of the files it reads, and its steps.      *)

Start(o, steps, p) ==
  /\ Idle /\ op' = o /\ todo' = steps /\ plan' = p /\ failed' = FALSE /\ before' = conf
  /\ UNCHANGED <<files, web, running, open, crashes, refusals>>

Listening == {p \in Ports : p \in DOMAIN running \/ \E r \in nginx : r.port = p}

(* add_user: with a port nobody has; to an inbound of the same shape; as   *)
(* the guest of a front; as one of two inbounds behind nginx.              *)
NewInbound(s, x, u) == [shape |-> s, path |-> Kept(s, x), clients |-> {u}, routes |-> {}, decoy |-> FALSE]
Trying == <<"conf", "restart">>

AddPlan(u, port, x, c, m, ports) ==
  [conf |-> c, mux |-> m, sites |-> {port}, port |-> port, ports |-> ports,
   tracker |-> Put(tracker, u, [port |-> port, path |-> x])]

AddAlone(u, port, s, x) ==
  LET c == Inb(conf)
  IN /\ port \notin DOMAIN c \cup Listening
     /\ Start([name |-> "add", users |-> {u}], Trying \o <<"open", "tracker">>,
              AddPlan(u, port, x, Put(c, port, NewInbound(s, x, u)), mux, {port}))
     /\ UNCHANGED notes

AddJoining(u, port, s, x) ==
  LET c == Inb(conf)
  IN /\ port \in DOMAIN c /\ c[port].shape = s /\ u \notin c[port].clients
     /\ Start([name |-> "add", users |-> {u}], Trying \o <<"tracker">>,
              AddPlan(u, port, x, [c EXCEPT ![port].clients = @ \cup {u}], mux, {}))
     /\ UNCHANGED notes

MutAddGuest(u, port, s, x, i) ==
  LET c == Inb(conf)
  IN /\ port \in DOMAIN c /\ c[port].shape # s /\ s \in Tls /\ c[port].shape \in Fronts
     /\ i \notin DOMAIN c \cup Listening
     /\ Start([name |-> "add", users |-> {u}], Trying \o <<"tracker">>,
              AddPlan(u, i, x, Put([c EXCEPT ![port].routes = @ \cup {[path |-> Asked(s, x), dest |-> i]}],
                                   i, NewInbound(s, x, u)), mux, {}))
     /\ UNCHANGED notes
(* The path asked for is compared with that of the front as it was typed.  *)
AddGuest(u, port, s, x, i) ==
  LET c == Inb(conf)
      y == Asked(s, x)
  IN /\ port \in DOMAIN c /\ c[port].shape # s /\ s \in Tls /\ c[port].shape \in Fronts
     /\ y # c[port].path /\ \A r \in c[port].routes : r.path # y
     /\ i \notin DOMAIN c \cup Listening
     /\ Start([name |-> "add", users |-> {u}], Trying \o <<"tracker">>,
              AddPlan(u, port, x, Put([c EXCEPT ![port].routes = @ \cup {[path |-> y, dest |-> i]}],
                                      i, NewInbound(s, x, u)), mux, {}))
     /\ disputed' = disputed \cup (IF y = Lead[c[port].path] THEN {<<port, y>>} ELSE {})
     /\ UNCHANGED <<orphans, astray>>

(* The path of the inbound that was there goes to nginx as it was typed.   *)
AddBehindNginx(u, port, s, x, i, j) ==
  LET c == Inb(conf)
      y == Asked(s, x)
      own == c[port].path
      m == {r \in mux : ~(r.port = port /\ r.path \in {y, own})}
  IN /\ port \in DOMAIN c /\ c[port].shape # s /\ {s, c[port].shape} \subseteq Ntls
     /\ i # j /\ {i, j} \cap (DOMAIN c \cup Listening) = {}
     /\ Start([name |-> "add", users |-> {u}], <<"mux">> \o Trying \o <<"nginx", "tracker">>,
              AddPlan(u, port, x, Put(Put(Only(c, Ports \ {port}), j, c[port]), i, NewInbound(s, x, u)),
                      m \cup {[port |-> port, path |-> y, dest |-> i]}
                        \cup (IF y = own THEN {} ELSE {[port |-> port, path |-> own, dest |-> j]}), {}))
     /\ disputed' = disputed \cup (IF own = Lead[own] /\ own # y THEN {} ELSE {<<port, Lead[own]>>})
     /\ UNCHANGED <<orphans, astray>>

(* delete_user, delete_all_users and delete_expired_users.  Without a      *)
(* configuration only the tracker changes, but the last one saves the      *)
(* nothing it has read.                                                    *)
Removal(name, gone, left, kept) ==
  LET c == IF Found(conf) THEN Prune(left) ELSE NoConf
      m == IF Found(conf) THEN RouteLive(c, mux) ELSE mux
      pruning == IF m = mux THEN Trying ELSE <<"mux", "nginx">> \o Trying
  IN Start([name |-> name, users |-> gone],
           (IF Found(conf) THEN pruning \o <<"close">> ELSE IF name = "expired" THEN Trying ELSE <<>>) \o <<"tracker">>,
           [conf |-> c, mux |-> m, sites |-> {r.port : r \in mux}, tracker |-> kept, port |-> "none",
            ports |-> IF Found(conf) THEN Freed(conf, c) ELSE {}])
     /\ UNCHANGED notes

Everywhere(gone) == IF Found(conf) THEN Without(conf, gone) ELSE NoConf
Delete(u) ==
  \/ u \in DOMAIN tracker /\ Removal("delete", {u}, Everywhere({u}), Only(tracker, Users \ {u}))
  \/ \E p \in Ports :  \* the first inbound that has the untracked user
       /\ u \notin DOMAIN tracker /\ Found(conf) /\ p \in DOMAIN conf /\ u \in conf[p].clients
       /\ Removal("untracked", {u}, [conf EXCEPT ![p].clients = @ \ {u}], tracker)
DeleteAll == DOMAIN tracker \cup Clients(conf) # {} /\ Removal("all", Users, Everywhere(Users), Empty)
DeleteExpired ==  \* anybody's time may be over, and renew_user may have put it off
  \E gone \in SUBSET DOMAIN tracker \ {{}} : Removal("expired", gone, Everywhere(gone), Only(tracker, Users \ gone))

(* edit_user.  A new path of a guest is also that of the route to it, if   *)
(* the tracker knows the old one as it is spelt there.  It is not compared *)
(* with the paths of others.                                               *)
MutRerouted(c, p, old, new) == c
Rerouted(c, p, old, new) ==
  [q \in DOMAIN c |-> [c[q] EXCEPT !.routes = {IF r = [path |-> old, dest |-> p] THEN [r EXCEPT !.path = new] ELSE r : r \in @}]]

EditPath(u, p, x) ==
  LET known == u \in DOMAIN tracker
      s == conf[p].shape
      old == Lead[tracker[u].path]
      new == Asked(s, x)
      moved == [conf EXCEPT ![p].path = new]
      guest == known /\ p \in Internal /\ old # new
      c == IF guest THEN Rerouted(moved, p, old, new) ELSE moved
      had == IF guest THEN {r \in mux : r.dest = p /\ r.path = old} ELSE {}
      m == {r \in mux : \A t \in had : ~(r.port = t.port /\ r.path \in {old, new})} \cup {[r EXCEPT !.path = new] : r \in had}
  IN /\ Found(conf) /\ p \in DOMAIN conf /\ u \in conf[p].clients /\ s \notin Plain
     /\ Start([name |-> "path", users |-> {u}],
              (IF had = {} THEN <<>> ELSE <<"mux", "nginx">>) \o (IF known THEN <<"tracker">> ELSE <<>>) \o Trying,
              [conf |-> c, mux |-> m, sites |-> {r.port : r \in had},
               tracker |-> IF known THEN [tracker EXCEPT ![u].path = x] ELSE tracker, port |-> "none", ports |-> {}])
     /\ astray' = astray \cup (IF guest /\ Asked(s, tracker[u].path) \notin {old, new} THEN {u} ELSE {})
     /\ disputed' = disputed \cup {q \in Shared(c) : q[2] = new}
     /\ UNCHANGED orphans

MutEditName(u, p, v) ==
  /\ Found(conf) /\ p \in DOMAIN conf /\ u \in conf[p].clients
  /\ Start([name |-> "rename", users |-> {u, v}], <<"tracker">> \o Trying,
           [NoPlan EXCEPT !.conf = [conf EXCEPT ![p].clients = (@ \ {u}) \cup {v}], !.mux = mux,
            !.tracker = IF u \in DOMAIN tracker THEN Put(tracker, v, tracker[u]) ELSE tracker])
  /\ UNCHANGED notes
EditName(u, p, v) ==
  /\ Found(conf) /\ p \in DOMAIN conf /\ u \in conf[p].clients
  /\ v \notin DOMAIN tracker \cup Clients(conf)
  /\ Start([name |-> "rename", users |-> {u, v}],
           (IF u \in DOMAIN tracker THEN <<"tracker">> ELSE <<>>) \o Trying,
           [NoPlan EXCEPT !.conf = [conf EXCEPT ![p].clients = (@ \ {u}) \cup {v}], !.mux = mux,
            !.tracker = IF u \in DOMAIN tracker THEN Put(Only(tracker, Users \ {u}), v, tracker[u]) ELSE tracker])
  /\ orphans' = orphans \cup (IF u \in orphans THEN {v} ELSE {})
  /\ astray' = astray \cup (IF u \in astray THEN {v} ELSE {})
  /\ UNCHANGED disputed

(* configure_fallbacks: every inbound that can have a decoy gets it.       *)
Decoys ==
  /\ Found(conf) /\ \E p \in DOMAIN conf : conf[p].shape \in Fronts
  /\ Start([name |-> "decoy", users |-> {}], Trying,
           [NoPlan EXCEPT !.conf = [p \in DOMAIN conf |-> [conf[p] EXCEPT !.decoy = @ \/ conf[p].shape \in Fronts]],
                          !.mux = mux, !.tracker = tracker])
  /\ UNCHANGED notes

(* uninstall_script: the files go with Xray, the routes of nginx stay.     *)
Uninstall ==
  /\ Start([name |-> "uninstall", users |-> Users], <<"wipe", "close">>, [NoPlan EXCEPT !.ports = DOMAIN Inb(conf)])
  /\ UNCHANGED notes

Options ==
  \/ \E u \in Users, port \in Public, s \in Shapes, x \in Paths :
       /\ u \notin DOMAIN tracker
       /\ \/ AddAlone(u, port, s, x)
          \/ AddJoining(u, port, s, x)
          \/ \E i \in Internal : AddGuest(u, port, s, x, i)
          \/ \E i, j \in Internal : AddBehindNginx(u, port, s, x, i, j)
  \/ \E u \in Users : Delete(u)
  \/ DeleteAll \/ DeleteExpired
  \/ \E u \in Users, p \in Ports : (\E x \in Paths : EditPath(u, p, x)) \/ (\E v \in Users : EditName(u, p, v))
  \/ Decoys \/ Uninstall

-----------------------------------------------------------------------------
(* The steps.                                                              *)

At(step) == todo # <<>> /\ Head(todo) = step
Proceed == todo' = Tail(todo) /\ UNCHANGED <<op, plan, failed, before, crashes, notes>>
Done == Proceed /\ UNCHANGED refusals

SaveTracker ==
  /\ At("tracker") /\ tracker' = plan.tracker /\ Done /\ UNCHANGED <<conf, mux, web, running, open>>

SaveMux == At("mux") /\ mux' = plan.mux /\ Done /\ UNCHANGED <<conf, tracker, web, running, open>>

(* nginx is given the routes of the ports that changed.  It keeps its old  *)
(* ones when it refuses the new, which ends an addition, and when Xray has *)
(* one of the ports.                                                       *)
Rewritten == {r \in sites : r.port \notin plan.sites} \cup {r \in mux : r.port \in plan.sites}
ReloadNginx ==
  /\ At("nginx") /\ sites' = Rewritten /\ UNCHANGED <<files, running, open>>
  /\ \/ /\ nginx' = IF \E r \in Rewritten : r.port \in DOMAIN running THEN nginx ELSE Rewritten
        /\ Done
     \/ /\ crashes + refusals < MaxFaults /\ refusals' = refusals + 1 /\ UNCHANGED nginx
        /\ IF op.name = "add" THEN todo' = <<>> /\ orphans' = orphans \cup op.users
           ELSE todo' = Tail(todo) /\ UNCHANGED orphans
        /\ UNCHANGED <<op, plan, failed, before, crashes, astray, disputed>>

SaveConf ==
  /\ \/ At("conf") /\ conf' = plan.conf
     \/ At("revert") /\ conf' = Inb(before)
  /\ Done /\ UNCHANGED <<tracker, mux, web, running, open>>

(* restart_xray: the test refuses the file and the old process goes on;    *)
(* Xray does not come up; or it does, perhaps without the port that is     *)
(* verified, and certainly without those nginx has.  What is looked for is *)
(* a socket on the port, of whatever program, or left of a connection to   *)
(* the old process.                                                        *)
AfterFailure ==
  LET rest == Tail(todo)
  IN IF op.name = "add" THEN IF failed THEN <<>> ELSE <<"revert", "restart">>
     ELSE IF rest # <<>> /\ Head(rest) = "close" THEN Tail(rest) ELSE rest  \* no port is closed
Fails == failed' = TRUE /\ todo' = AfterFailure /\ UNCHANGED <<op, plan, before, crashes, notes>>
Restart ==
  LET serves(lost) == Only(Inb(conf), Ports \ (lost \cup {r.port : r \in nginx}))
      wanted == IF failed THEN {} ELSE {plan.port} \cap Public
  IN /\ At("restart") /\ UNCHANGED <<files, web, open>>
     /\ \/ /\ crashes + refusals < MaxFaults /\ refusals' = refusals + 1
           /\ \/ running' \in {running, Empty} /\ Fails
              \/ Found(conf) /\ wanted # {} /\ running' = serves(wanted) /\ (Fails \/ Proceed)
        \/ /\ Found(conf) /\ running' = serves({}) /\ UNCHANGED refusals
           /\ \/ wanted \subseteq Listening \cup Listening' /\ Proceed
              \/ ~(wanted \subseteq Listening') /\ Fails
        \/ ~Found(conf) /\ UNCHANGED <<running, refusals>> /\ Fails

OpenPort == At("open") /\ open' = open \cup plan.ports /\ Done /\ UNCHANGED <<files, web, running>>
ClosePorts == At("close") /\ open' = open \ plan.ports /\ Done /\ UNCHANGED <<files, web, running>>

Wipe ==
  /\ At("wipe") /\ conf' = NoConf /\ tracker' = Empty /\ mux' = {} /\ running' = Empty
  /\ Done /\ UNCHANGED <<web, open>>

Steps == SaveTracker \/ SaveMux \/ ReloadNginx \/ SaveConf \/ Restart \/ OpenPort \/ ClosePorts \/ Wipe

Finish ==
  /\ ~Idle /\ todo = <<>>
  /\ op' = NoOp /\ plan' = NoPlan /\ failed' = FALSE /\ before' = NoConf /\ UNCHANGED todo
  /\ orphans' = orphans \cap Clients(conf) /\ astray' = astray \cap Clients(conf) /\ disputed' = disputed \cap Shared(conf)
  /\ UNCHANGED <<files, web, running, open, crashes, refusals>>

-----------------------------------------------------------------------------
(* The panel is killed: the file it was writing may be cut off.            *)
Dies ==
  /\ crashes + refusals < MaxFaults /\ crashes' = crashes + 1
  /\ op' = NoOp /\ plan' = NoPlan /\ todo' = <<>> /\ failed' = FALSE /\ before' = NoConf
  /\ conf' \in {conf} \cup (IF At("conf") \/ At("revert") THEN {NoConf} ELSE {})
  /\ tracker' \in {tracker} \cup (IF At("tracker") THEN {Empty} ELSE {})
  /\ mux' \in {mux} \cup (IF At("mux") THEN {{}} ELSE {})
  /\ sites' \in {sites} \cup (IF At("nginx") THEN {Rewritten} ELSE {})
  /\ orphans' = {} /\ astray' = {} /\ disputed' = {} /\ UNCHANGED refusals

Hangup == ~Idle /\ Dies /\ UNCHANGED <<nginx, running, open>>

(* Rules that were added with iptables are gone; nginx may refuse its files. *)
Reboot ==
  /\ Dies /\ open' \in {open, {}} /\ nginx' \in {sites', {}}
  /\ running' \in {Empty, Only(Inb(conf'), Ports \ {r.port : r \in nginx'})}

Next ==
  \/ Options \/ Steps \/ Finish
  \/ Hangup \/ Reboot

Spec == Init /\ [][Next]_vars
-----------------------------------------------------------------------------
(* Every variable keeps its type, and every file names known ports.        *)
TypeOK ==
  /\ Found(conf) => DOMAIN conf \subseteq Ports /\ \A p \in DOMAIN conf : conf[p] \in Inbounds
  /\ DOMAIN running \subseteq Ports /\ \A p \in DOMAIN running : running[p] \in Inbounds
  /\ DOMAIN tracker \subseteq Users
  /\ \A u \in DOMAIN tracker : tracker[u] \in [port : Public, path : Paths]
  /\ mux \cup sites \cup nginx \subseteq MuxRoutes /\ open \subseteq Ports
  /\ {crashes, refusals} \subseteq 0..MaxFaults /\ orphans \cup astray \subseteq Users

(* The requests, port and path, that may end in an inbound which knows the *)
(* user; those that can end nowhere else; and those nginx hands on.        *)
Reach(c, u) ==
  LET i == Inb(c)
  IN {q \in (DOMAIN i \cap Public) \X Paths : \E p \in Ends(i, q[1], q[2]) : u \in i[p].clients}
Access(c, u) == Reach(c, u) \ Shared(c)
Handed(c, u) ==
  LET i == Inb(c)
      right == {r \in nginx : r.dest \in DOMAIN i /\ r.path = Lead[i[r.dest].path] /\ u \in i[r.dest].clients}
  IN {<<r.port, r.path>> : r \in right}

Ended == ~Idle /\ todo = <<>>
Uncut == Idle /\ crashes = 0

(* Whatever was cut off, the file never hands a request on to an inbound   *)
(* that is not there, keeps no inbound nobody uses, and no guest over TLS  *)
(* that nothing leads to.                                                  *)
RoutesLead ==
  LET c == Inb(conf)
  IN \A p \in DOMAIN c :
       /\ \A r \in c[p].routes : r.dest \in DOMAIN c \cap Internal
       /\ Used(c[p])
       /\ p \in Internal /\ c[p].shape \in Tls => \E q \in DOMAIN c \cap Public : \E r \in c[q].routes : r.dest = p

(* In an uncut session a guest over TLS is reached, on the port the        *)
(* tracker has for its user, by the path the tracker has; and nobody else  *)
(* is, unless an option could take that request from others.  Left out are *)
(* users whose spelling the route did not follow, and those whom nginx was *)
(* not told of.                                                            *)
GuestsReached ==
  Uncut => LET c == Inb(conf) IN \A p \in DOMAIN c \cap Internal : \A u \in c[p].clients \ (orphans \cup astray) :
    c[p].shape \in Tls =>
      LET y == Asked(c[p].shape, tracker[u].path)
      IN /\ u \in DOMAIN tracker /\ tracker[u].port \in DOMAIN c /\ y = Lead[c[p].path]
         /\ p \in Ends(c, tracker[u].port, y)
         /\ <<tracker[u].port, y>> \in disputed \/ Ends(c, tracker[u].port, y) = {p}

(* In an uncut session the tracker and the configuration name the same     *)
(* users, each in one inbound, so that everyone served will also expire:   *)
(* all but those for whom nginx could not be reloaded.                     *)
SameUsers ==
  Uncut => /\ DOMAIN tracker \ orphans = Clients(conf) \ orphans
           /\ \A u \in Users \ orphans : Cardinality({p \in DOMAIN Inb(conf) : u \in Inb(conf)[p].clients}) <= 1

(* A user an option is not about is reached as before, in Xray or through  *)
(* nginx, and by no request that did not lead to that user before.  The    *)
(* code moves all who share an inbound when the path of one is edited, and *)
(* lets an option take a request that is in use; and when it has put nginx *)
(* before a port and nginx refuses, they are not reached.  A failed        *)
(* addition leaves the configuration and the tracker as they were.         *)
Moved ==
  IF op.name # "path" THEN op.users
  ELSE LET i == Inb(before) IN UNION {i[p].clients : p \in {q \in DOMAIN i : i[q].clients \cap op.users # {}}}
Refused == op.name = "add" /\ ~failed /\ sites # nginx /\ \E r \in sites : r.port = plan.port
OthersUndisturbed ==
  Ended =>
    /\ Found(before) => \A u \in Users \ Moved :
         /\ Refused \/ Access(before, u) \ disputed \subseteq Access(conf, u) \cup Handed(conf, u)
         /\ Reach(conf, u) \subseteq Reach(before, u)
    /\ op.name = "add" /\ failed => Inb(conf) = Inb(before) /\ op.users \cap DOMAIN tracker = {}

(* After a deletion whose restart worked, nobody deleted is served, and    *)
(* the ports it freed are shut.                                            *)
DeletedGone ==
  Ended /\ op.name \in {"delete", "all", "expired"} /\ Found(before) /\ ~failed =>
    /\ op.users \cap (Clients(running) \cup Clients(conf) \cup DOMAIN tracker) = {}
    /\ open \cap Freed(before, conf) = {}
=============================================================================
