---------------------------- MODULE PsiphonGate ----------------------------
(***************************************************************************)
(* The access gate of the Psiphon instances: src/psiphon_manager.py.       *)
(*                                                                         *)
(* The port of an instance is guarded by an iptables chain which ends with *)
(* DROP.  A client that shows its credentials to the gate, a HTTP server   *)
(* with a thread per request, gets an ACCEPT rule in front of the DROP and *)
(* an entry in gate_state.json saying until when.  A cleanup script, which *)
(* cron starts every minute, deletes the rules of expired entries.  The    *)
(* panel adds and removes instances.  Nobody locks gate_state.json.        *)
(*                                                                         *)
(* Times are kept as the ticks that remain, so that a tick lowers every    *)
(* entry, in the file and in the copies the processes hold.                *)
(*                                                                         *)
(* A definition named Mut... is a plausible slip in the one below it, kept *)
(* to show which property would notice; no action uses it.                 *)
(***************************************************************************)
EXTENDS Integers

CONSTANTS
  Instances,  \* the instance names an operator may type, each with its port
  LongNames,  \* those whose chain name passes the kernel's 28 characters
  Clients,    \* source addresses that hold valid credentials
  Threads,    \* the requests the gate may serve at one time
  Window,     \* ACCEPT_WINDOW_MINUTES, in ticks
  Kind,       \* what detect_firewall returns: "ufw" or "iptables"
  NoInstance, \* the panel works on none
  NoRequest,  \* the thread serves none
  MaxReboots  \* reboots in a behaviour

ASSUME BoundsAssumption == Window \in Nat \ {0} /\ MaxReboots \in Nat
ASSUME NamesAssumption == LongNames \subseteq Instances
ASSUME KindAssumption == Kind \in {"ufw", "iptables"}
ASSUME ThreadsAssumption == "cleanup" \notin Threads
ASSUME NobodyAssumption ==
  NoInstance \notin Instances /\ NoRequest \notin Instances \X Clients

NoEntry == -1
Remaining == NoEntry..Window
GateState == [Instances -> [Clients -> Remaining]]
EmptyState == [i \in Instances |-> [c \in Clients |-> NoEntry]]
Procs == Threads \cup {"cleanup"}

VARIABLES
  creds,     \* the instances in credentials.json
  unit,      \* the instances with an enabled systemd unit
  server,    \* the instances whose port is listening
  input,     \* the rules of INPUT for each port: the jump, the open port
  top,       \* which of the two comes first where both are there
  chain,     \* the instances with a chain
  accept,    \* the number of ACCEPT rules per instance and client
  saved,     \* the rules netfilter-persistent restores at boot
  expiry,    \* gate_state.json when it was last written whole
  file,      \* "whole", "empty" after a truncation, or "garbage"
  hpc, hreq, hsnap,              \* the request threads
  cpc, csnap, ctodo,             \* the cleanup
  ppc, pinst,                    \* the panel
  bared,     \* instances whose failed start has lost the chain, not yet the port
  stale,     \* the processes whose copy another's save has outdated
  raced,     \* two grants, or a grant and a cleanup, got in each other's way
  cut,       \* a reboot has cut a grant or a cleanup in two
  reboots    \* reboots so far

firewall == <<input, top, chain, accept>>
state == <<expiry, file>>
handlers == <<hpc, hreq, hsnap>>
cleanup == <<cpc, csnap, ctodo>>
panel == <<ppc, pinst, bared>>
units == <<creds, unit, server>>
history == <<raced, cut, reboots>>
vars == <<units, firewall, saved, state, handlers, cleanup, panel, stale, history>>

-----------------------------------------------------------------------------
(* The state file: a save empties it, then writes the whole document.      *)

Truncate == file' = "empty" /\ UNCHANGED expiry

Holders ==
  {t \in Threads : hpc[t] \in {"truncate", "write"}}
    \cup (IF cpc = "idle" THEN {} ELSE {"cleanup"})

(* If the file is not empty when p writes, another process has written it  *)
(* since p emptied it, and the rest of a longer document stays behind.     *)
Write(p, copy) ==
  /\ expiry' = copy
  /\ file' \in IF file = "empty" THEN {"whole"} ELSE {"whole", "garbage"}
  /\ raced' = (raced \/ p \in stale)
  /\ stale' = (stale \cup Holders) \ {p}

-----------------------------------------------------------------------------
(* A request thread of the gate: do_GET with valid credentials, then       *)
(* grant_access.  A refused request changes nothing here.                  *)

(* iptables -C finds no rule in a chain that does not exist.               *)
HandlerCheck(t, i, c) ==
  /\ hpc[t] = "idle" /\ i \in creds
  /\ hpc' = [hpc EXCEPT ![t] = IF accept[i][c] > 0 THEN "load" ELSE "insert"]
  /\ hreq' = [hreq EXCEPT ![t] = <<i, c>>]
  /\ UNCHANGED <<units, firewall, saved, state, hsnap, cleanup, panel, stale, history>>

(* iptables -I, whose result nobody looks at.                              *)
HandlerInsert(t) ==
  LET i == hreq[t][1]
      c == hreq[t][2]
  IN  /\ hpc[t] = "insert" /\ hpc' = [hpc EXCEPT ![t] = "load"]
      /\ accept' = IF i \in chain THEN [accept EXCEPT ![i][c] = @ + 1] ELSE accept
      /\ raced' = (raced \/ accept[i][c] > 0)
      /\ UNCHANGED <<units, input, top, chain, saved, state, hreq,
                     hsnap, cleanup, panel, stale, cut, reboots>>

MutWrongUnit(t) ==
  /\ hpc[t] = "load" /\ hpc' = [hpc EXCEPT ![t] = "truncate"]
  /\ hsnap' = [hsnap EXCEPT ![t] = [expiry EXCEPT ![hreq[t][1]][hreq[t][2]] = 60 * Window]]
  /\ raced' = (raced \/ file # "whole")
  /\ stale' = stale \ {t}
  /\ UNCHANGED <<units, firewall, saved, state, hreq, cleanup, panel, cut, reboots>>
(* Any exception while loading gives {}.                                   *)
HandlerLoad(t) ==
  LET held == IF file = "whole" THEN expiry ELSE EmptyState
  IN  /\ hpc[t] = "load" /\ hpc' = [hpc EXCEPT ![t] = "truncate"]
      /\ hsnap' = [hsnap EXCEPT ![t] =
                     [held EXCEPT ![hreq[t][1]][hreq[t][2]] = Window]]
      /\ raced' = (raced \/ file # "whole")
      /\ stale' = stale \ {t}
      /\ UNCHANGED <<units, firewall, saved, state, hreq, cleanup,
                     panel, cut, reboots>>

HandlerTruncate(t) ==
  /\ hpc[t] = "truncate" /\ hpc' = [hpc EXCEPT ![t] = "write"] /\ Truncate
  /\ UNCHANGED <<units, firewall, saved, hreq, hsnap, cleanup, panel,
                 stale, history>>

(* The answer "granted", valid for the window, follows.                    *)
HandlerWrite(t) ==
  /\ hpc[t] = "write" /\ hpc' = [hpc EXCEPT ![t] = "idle"]
  /\ Write(t, hsnap[t]) /\ hsnap' = [hsnap EXCEPT ![t] = EmptyState]
  /\ hreq' = [hreq EXCEPT ![t] = NoRequest]
  /\ UNCHANGED <<units, firewall, saved, cleanup, panel, cut, reboots>>

HandlerWorks(t) ==
  HandlerInsert(t) \/ HandlerLoad(t) \/ HandlerTruncate(t) \/ HandlerWrite(t)

-----------------------------------------------------------------------------
(* The cleanup.  It reads the time once; without an expired entry it       *)
(* changes nothing, and on a file that is no document it returns.          *)

ExpiredIn(s) == {e \in Instances \X Clients : s[e[1]][e[2]] = 0}

CleanupLoad ==
  /\ cpc = "idle" /\ file = "whole" /\ ExpiredIn(expiry) # {}
  /\ cpc' = "delete" /\ csnap' = expiry /\ ctodo' = ExpiredIn(expiry)
  /\ stale' = stale \ {"cleanup"}
  /\ UNCHANGED <<units, firewall, saved, state, handlers, panel, history>>

(* iptables -D takes away one rule.                                        *)
MutDeleteNoRule(i, c) ==
  /\ cpc = "delete" /\ <<i, c>> \in ctodo /\ ctodo' = ctodo \ {<<i, c>>}
  /\ csnap' = [csnap EXCEPT ![i][c] = NoEntry]
  /\ UNCHANGED <<units, firewall, saved, state, handlers, cpc,
                 panel, stale, history>>
CleanupDelete(i, c) ==
  /\ cpc = "delete" /\ <<i, c>> \in ctodo /\ ctodo' = ctodo \ {<<i, c>>}
  /\ accept' = IF accept[i][c] > 0 THEN [accept EXCEPT ![i][c] = @ - 1] ELSE accept
  /\ csnap' = [csnap EXCEPT ![i][c] = NoEntry]
  /\ UNCHANGED <<units, input, top, chain, saved, state, handlers, cpc,
                 panel, stale, history>>

CleanupTruncate ==
  /\ cpc = "delete" /\ ctodo = {} /\ cpc' = "write" /\ Truncate
  /\ UNCHANGED <<units, firewall, saved, handlers, csnap, ctodo, panel, stale, history>>

CleanupWrite ==
  /\ cpc = "write" /\ cpc' = "idle" /\ Write("cleanup", csnap)
  /\ csnap' = EmptyState
  /\ UNCHANGED <<units, firewall, saved, handlers, ctodo, panel, cut, reboots>>

CleanupWorks ==
  \/ CleanupTruncate \/ CleanupWrite
  \/ \E i \in Instances, c \in Clients : CleanupDelete(i, c)

-----------------------------------------------------------------------------
(* The panel.                                                              *)

NoRules == [c \in Clients |-> 0]

(* _ensure_gate_chain: the jump goes in front of everything in INPUT.      *)
(* iptables refuses a chain name of more than 28 characters, and then the  *)
(* jump to it.                                                             *)
AddChain(i) ==
  /\ ppc = "idle" /\ i \notin creds /\ i \notin server
  /\ ppc' = "open" /\ pinst' = i
  /\ IF i \in LongNames THEN UNCHANGED <<input, top, chain>>
     ELSE /\ chain' = chain \cup {i}
          /\ input' = [input EXCEPT ![i] = @ \cup {"jump"}]
          /\ top' = IF "jump" \in input[i] THEN top ELSE [top EXCEPT ![i] = "jump"]
  /\ bared' = bared \ {i}
  /\ UNCHANGED <<units, accept, saved, state, handlers, cleanup, stale, history>>

(* open_firewall_port: iptables -I puts the open port in front too, ufw    *)
(* among its own rules, which come after.                                  *)
AddOpen ==
  /\ ppc = "open" /\ ppc' = "save"
  /\ input' = [input EXCEPT ![pinst] = @ \cup {"open"}]
  /\ top' = IF Kind = "iptables" /\ "open" \notin input[pinst]
            THEN [top EXCEPT ![pinst] = "open"] ELSE top
  /\ UNCHANGED <<units, chain, accept, saved, state, handlers, cleanup, pinst,
                 bared, stale, history>>

(* persist_firewall_rules does nothing under ufw.                          *)
Persisted ==
  saved' = IF Kind = "iptables"
           THEN [input |-> input, top |-> top, chain |-> chain, accept |-> accept]
           ELSE saved
Save ==
  /\ ppc \in {"save", "unsave"} /\ Persisted
  /\ ppc' = IF ppc = "save" THEN "start" ELSE "unlist"
  /\ UNCHANGED <<units, firewall, state, handlers, cleanup, pinst, bared, stale, history>>

Ends == ppc' = "idle" /\ pinst' = NoInstance

(* systemctl enable and restart; the port is listening within 8 seconds,   *)
(* or the chain and the open port are taken back, and the unit stays.      *)
AddStart ==
  /\ ppc = "start" /\ unit' = unit \cup {pinst}
  /\ \/ server' = server \cup {pinst} /\ ppc' = "list"
     \/ pinst \notin server /\ UNCHANGED server /\ ppc' = "undo"
  /\ UNCHANGED <<creds, firewall, saved, state, handlers, cleanup, pinst,
                 bared, stale, history>>

(* _remove_gate_chain, after a failed start and in a removal.              *)
Unchain ==
  /\ ppc \in {"undo", "close"}
  /\ ppc' = IF ppc = "undo" THEN "shut" ELSE "unport"
  /\ chain' = chain \ {pinst} /\ accept' = [accept EXCEPT ![pinst] = NoRules]
  /\ input' = [input EXCEPT ![pinst] = @ \ {"jump"}]
  /\ bared' = IF ppc = "undo" THEN bared \cup {pinst} ELSE bared
  /\ UNCHANGED <<units, top, saved, state, handlers, cleanup, pinst, stale, history>>

(* close_firewall_port, a command later.  A failed start ends here.        *)
MutShutForgets ==
  /\ ppc \in {"shut", "unport"}
  /\ bared' = bared \ {pinst}
  /\ IF ppc = "shut" THEN Ends ELSE ppc' = "unsave" /\ UNCHANGED pinst
  /\ UNCHANGED <<units, firewall, saved, state, handlers, cleanup, stale, history>>
Shut ==
  /\ ppc \in {"shut", "unport"}
  /\ input' = [input EXCEPT ![pinst] = @ \ {"open"}]
  /\ bared' = bared \ {pinst}
  /\ IF ppc = "shut" THEN Ends ELSE ppc' = "unsave" /\ UNCHANGED pinst
  /\ UNCHANGED <<units, top, chain, accept, saved, state, handlers, cleanup, stale, history>>

(* The rules and the credentials are saved unless the gate could not be    *)
(* deployed.                                                               *)
AddList ==
  /\ ppc = "list" /\ Ends
  /\ \/ UNCHANGED <<creds, saved>>
     \/ creds' = creds \cup {pinst} /\ Persisted
  /\ UNCHANGED <<unit, server, firewall, state, handlers, cleanup, bared, stale, history>>

(* The entries of the instance stay in gate_state.json.                    *)
RemoveStop(i) ==
  /\ ppc = "idle" /\ i \in creds /\ ppc' = "close" /\ pinst' = i
  /\ unit' = unit \ {i} /\ server' = server \ {i}
  /\ UNCHANGED <<creds, firewall, saved, state, handlers, cleanup, bared, stale, history>>

RemoveUnlist ==
  /\ ppc = "unlist" /\ creds' = creds \ {pinst} /\ Ends
  /\ UNCHANGED <<unit, server, firewall, saved, state, handlers, cleanup,
                 bared, stale, history>>

Panel ==
  \/ AddOpen \/ Save \/ AddStart \/ AddList \/ Unchain \/ Shut \/ RemoveUnlist
  \/ \E i \in Instances : AddChain(i) \/ RemoveStop(i)

-----------------------------------------------------------------------------
(* The host.                                                               *)

(* systemd tries an enabled unit again and again (Restart=always).         *)
UnitStarts(i) ==
  /\ i \in unit \ server /\ server' = server \cup {i}
  /\ UNCHANGED <<creds, unit, firewall, saved, state, handlers, cleanup, panel,
                 stale, history>>

Aged(s) ==
  [i \in Instances |-> [c \in Clients |-> IF s[i][c] > 0 THEN s[i][c] - 1 ELSE s[i][c]]]
Tick ==
  /\ expiry' = Aged(expiry) /\ csnap' = Aged(csnap)
  /\ hsnap' = [t \in Threads |-> Aged(hsnap[t])]
  /\ UNCHANGED <<units, firewall, saved, file, hpc, hreq, cpc, ctodo, panel,
                 stale, history>>

(* The operator's terminal goes away in the middle of an operation.        *)
Hangup ==
  /\ ppc # "idle" /\ Ends
  /\ UNCHANGED <<units, firewall, saved, state, handlers, cleanup, bared, stale, history>>

(* ufw restores its own rules and knows nothing of the chains; under       *)
(* iptables netfilter-persistent restores what was saved.                  *)
Reboot ==
  /\ reboots < MaxReboots /\ reboots' = reboots + 1
  /\ IF Kind = "ufw"
     THEN /\ input' = [i \in Instances |-> input[i] \cap {"open"}] /\ UNCHANGED top
          /\ chain' = {} /\ accept' = [i \in Instances |-> NoRules]
     ELSE /\ input' = saved.input /\ top' = saved.top
          /\ chain' = saved.chain /\ accept' = saved.accept
  /\ server' = unit
  /\ hpc' = [t \in Threads |-> "idle"] /\ hreq' = [t \in Threads |-> NoRequest]
  /\ hsnap' = [t \in Threads |-> EmptyState]
  /\ cpc' = "idle" /\ csnap' = EmptyState /\ ctodo' = {} /\ Ends
  /\ stale' = {} /\ UNCHANGED raced
  /\ cut' = (cut \/ cpc # "idle" \/ \E t \in Threads : hpc[t] # "idle")
  /\ UNCHANGED <<creds, unit, saved, state, bared>>

-----------------------------------------------------------------------------
Init ==
  /\ creds = {} /\ unit = {} /\ server = {}
  /\ input = [i \in Instances |-> {}] /\ top = [i \in Instances |-> "jump"]
  /\ chain = {} /\ accept = [i \in Instances |-> NoRules]
  /\ saved = [input |-> input, top |-> top, chain |-> chain, accept |-> accept]
  /\ expiry = EmptyState /\ file = "whole"
  /\ hpc = [t \in Threads |-> "idle"] /\ hreq = [t \in Threads |-> NoRequest]
  /\ hsnap = [t \in Threads |-> EmptyState]
  /\ cpc = "idle" /\ csnap = EmptyState /\ ctodo = {}
  /\ ppc = "idle" /\ pinst = NoInstance /\ bared = {}
  /\ stale = {} /\ raced = FALSE /\ cut = FALSE /\ reboots = 0

Next ==
  \/ CleanupLoad \/ CleanupWorks \/ Panel \/ Tick \/ Hangup \/ Reboot
  \/ \E t \in Threads :
       \/ HandlerWorks(t)
       \/ \E i \in Instances, c \in Clients : HandlerCheck(t, i, c)
  \/ \E i \in Instances : UnitStarts(i)

Spec == Init /\ [][Next]_vars

(* Time passes, requests once begun are served, and cron starts the        *)
(* cleanup every minute, not every time while a save has emptied the file. *)
FairSpec ==
  /\ Spec /\ WF_vars(Tick) /\ SF_vars(CleanupLoad) /\ WF_vars(CleanupWorks)
  /\ \A t \in Threads : WF_vars(HandlerWorks(t))

-----------------------------------------------------------------------------
Rules == [input: [Instances -> SUBSET {"jump", "open"}],
          top: [Instances -> {"jump", "open"}], chain: SUBSET Instances,
          accept: [Instances -> [Clients -> Nat]]]

FirewallOK ==
  /\ creds \subseteq Instances /\ unit \subseteq Instances /\ server \subseteq Instances
  /\ [input |-> input, top |-> top, chain |-> chain, accept |-> accept] \in Rules
  /\ saved \in Rules
  /\ ppc \in {"idle", "open", "save", "start", "list", "undo", "shut",
              "close", "unport", "unsave", "unlist"}
  /\ bared \subseteq Instances
  /\ pinst \in Instances \cup {NoInstance} /\ (ppc # "idle" => pinst \in Instances)
GrantsOK ==
  /\ expiry \in GateState /\ file \in {"whole", "empty", "garbage"}
  /\ hpc \in [Threads -> {"idle", "insert", "load", "truncate", "write"}]
  /\ hreq \in [Threads -> (Instances \X Clients) \cup {NoRequest}]
  /\ \A t \in Threads : hpc[t] # "idle" => hreq[t] # NoRequest
  /\ hsnap \in [Threads -> GateState]
  /\ cpc \in {"idle", "delete", "write"} /\ csnap \in GateState
  /\ ctodo \subseteq Instances \X Clients
  /\ stale \subseteq Procs /\ raced \in BOOLEAN /\ cut \in BOOLEAN
  /\ reboots \in 0..MaxReboots
TypeOK == FirewallOK /\ GrantsOK

NobodyAtWork == cpc = "idle" /\ \A t \in Threads : hpc[t] = "idle"

(* An ACCEPT rule whose time is recorded nowhere stays for ever.           *)
Timed(i, c) == accept[i][c] = 0 \/ (accept[i][c] = 1 /\ expiry[i][c] # NoEntry)

(* Requests, the cleanup, the panel and the clock in any order keep rules  *)
(* and entries in step (grant_access, cleanup main), as long as no two     *)
(* grants, or a grant and a cleanup, overlap so that one saves a stale     *)
(* copy, reads a torn one or inserts a rule twice.                         *)
RulesTimed ==
  NobodyAtWork /\ ~raced /\ ~cut =>
    file = "whole" /\ \A i \in Instances, c \in Clients : Timed(i, c)

(* What keeps RulesTimed true between the steps: a rule without an entry   *)
(* is one whose request is still being served; a copy that nobody has      *)
(* outdated misses no entry but those whose rule the cleanup has deleted;  *)
(* and whoever is about to write such a copy has an empty file before it.  *)
Serving(t, i, c) == hreq[t] = <<i, c>> /\ hpc[t] \in {"load", "truncate", "write"}
Entered(i, c) == expiry[i][c] # NoEntry
Backed(i, c) == accept[i][c] = 0 \/ \E t \in Threads : Serving(t, i, c)

RulesBacked ==
  \A i \in Instances, c \in Clients :
    accept[i][c] \in {0, 1} /\ (Entered(i, c) \/ Backed(i, c))
HandlerCopies ==
  \A t \in Threads : hpc[t] \in {"truncate", "write"} =>
    \A i \in Instances, c \in Clients :
      hreq[t] = <<i, c>> \/ (t \notin stale /\ Entered(i, c))
        => hsnap[t][i][c] # NoEntry
CleanupCopy ==
  cpc # "idle" /\ "cleanup" \notin stale =>
    \A i \in Instances, c \in Clients :
      Entered(i, c) /\ csnap[i][c] = NoEntry => Backed(i, c)
FileGood ==
  /\ file # "whole" => cpc = "write" \/ \E t \in Threads : hpc[t] = "write"
  /\ cpc = "write" /\ "cleanup" \notin stale => file = "empty"
  /\ \A t \in Threads : hpc[t] = "write" /\ t \notin stale => file = "empty"
TimedInv == ~raced /\ ~cut => RulesBacked /\ HandlerCopies /\ CleanupCopy /\ FileGood

(* A packet to the port of i from an address without an ACCEPT rule: the   *)
(* first rule of INPUT that matches decides, then the policy, which is     *)
(* DROP only under ufw.                                                    *)
Admits(i) ==
  IF "jump" \in input[i] /\ (top[i] = "jump" \/ "open" \notin input[i]) THEN FALSE
  ELSE "open" \in input[i] \/ Kind = "iptables"

(* "only verified clients can reach the real OSSH port at all" (the gate's *)
(* docstring, line 77): whatever listens is gated, late starts and hangups *)
(* in the middle of an addition or a removal included, but for instances   *)
(* not listed whose failed start has lost its chain and not yet its port:  *)
(* the two are taken back in that order, and a hangup between them leaves  *)
(* the port open to a unit which systemd goes on starting.                 *)
Gated == \A i \in server : Admits(i) => i \in bared \ creds

(* The same for the boot the instances were added in.                      *)
GatedUntilReboot == reboots = 0 => Gated

Undisturbed == ~raced /\ ~cut
Overdue(i, c) == accept[i][c] > 0 /\ expiry[i][c] <= 0
(* "time-limited": a rule whose time is up does not stay, unless its       *)
(* client comes back.                                                      *)
GrantsExpire ==
  \A i \in Instances, c \in Clients :
    Overdue(i, c) /\ Undisturbed ~> ~Overdue(i, c) \/ ~Undisturbed
=============================================================================
