----------------------------- MODULE MCDnsRouter -----------------------------
(* An instance of DnsRouter for TLC: a slipstream engine whose domain lies  *)
(* within that of another engine.                                           *)
EXTENDS DnsRouter

CONSTANTS c1, c2, slip, dnstt, n1, n2, k1

MCSuffixes == [n \in {n1, n2} |-> CASE n = n1 -> <<slip, dnstt>> [] n = n2 -> <<dnstt>>]
=============================================================================
