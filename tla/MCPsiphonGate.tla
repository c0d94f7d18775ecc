--------------------------- MODULE MCPsiphonGate ---------------------------
(* The instance of PsiphonGate for TLC: requests come two at a time, on a  *)
(* host with ufw.  No symmetry, since the run checks a liveness property.  *)
EXTENDS PsiphonGate

CONSTANTS t1, t2

TwoAtATime == {t1, t2}
Host == "ufw"
=============================================================================
