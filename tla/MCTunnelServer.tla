--------------------------- MODULE MCTunnelServer ---------------------------
(* An instance of TunnelServer for TLC: two customers behind one address   *)
(* of the Internet.  One has a device that gives a number to two packets   *)
(* of two fragments, the other sends a packet in one fragment, under the   *)
(* same number and from the same source.                                   *)
EXTENDS TunnelServer, TLC

CONSTANTS u1, u2, pa, pb, pc, s1, s2

MCSender == [p \in {pa, pb, pc} |-> IF p = pc THEN u2 ELSE u1]
MCPid == [p \in {pa, pb, pc} |-> 1]
MCCount == [p \in {pa, pb, pc} |-> IF p = pc THEN 1 ELSE 2]
MCSource == [p \in {pa, pb, pc} |-> "10.8.0.2"]
MCSymmetry == Permutations({s1, s2})
=============================================================================
