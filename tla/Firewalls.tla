----------------------------- MODULE Firewalls ------------------------------
(***************************************************************************)
(* The firewall helpers the managers call (src/panel_common.py): closing a *)
(* port and saving the rules, on the hosts there are.                      *)
(*                                                                         *)
(* What is open now and what is open after a reboot are two sets of ports. *)
(***************************************************************************)

(* ufw (and firewalld) keeps every rule by itself; iptables brings back    *)
(* the rules last saved if netfilter-persistent is there ("iptables"), and *)
(* otherwise ("snapshot"), like nftables in any case, none of them.        *)
Hosts == {"ufw", "iptables", "snapshot", "nftables"}
Durable(host) == host \in {"ufw", "iptables"}

(* Under nftables a port that was opened is not closed again.              *)
Closes(host) == host # "nftables"
Closed(host, open, ports) == IF Closes(host) THEN open \ ports ELSE open

(* What a reboot brings back, before the rules are saved and after.        *)
Kept(host, open, saved) == IF host = "ufw" THEN open ELSE saved
Persisted(host, open, saved) == IF Durable(host) THEN open ELSE saved
=============================================================================
