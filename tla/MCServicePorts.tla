--------------------------- MODULE MCServicePorts ---------------------------
(* Instances of ServicePorts for TLC: two ports that can be bound, between *)
(* which nothing tells, and the default port, which the host lets nobody   *)
(* bind (ports of other programs are in FrontPort).                        *)
EXTENDS ServicePorts, TLC

CONSTANTS p1, p2, px

MCPorts == {p1, p2, px}
MCBindable == {p1, p2}
\* A file and options with two ports at most; and after a hangup or a
\* reboot, options with one port and two in the firewall under iptables, and
\* none on the other hosts, where what counts is what came back.
TwoAtATime ==
  /\ Cardinality(args) <= (IF host = "iptables" THEN 2 - crashes ELSE 1)
  /\ Cardinality(file.ports) <= (IF host = "iptables" THEN 2 - crashes ELSE 1)
  /\ crashes > 0 => Cardinality(open \cup saved) <= 2 /\ (host = "iptables" \/ Idle)
MCSymmetry == Permutations({p1, p2})
=============================================================================
