----------------------------- MODULE MCSSHPort -----------------------------
(* A small instance of SSHPort for TLC: three ports, one of which sshd     *)
(* cannot bind.                                                            *)
EXTENDS SSHPort, TLC

CONSTANTS p1, p2, p3

SomePorts == {p1, p2, p3}
BindablePorts == {p1, p2}
=============================================================================
