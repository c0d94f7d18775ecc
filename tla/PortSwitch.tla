----------------------------- MODULE PortSwitch -----------------------------
(***************************************************************************)
(* What moving a service to other ports promises, whichever manager does   *)
(* it ("port changes with automatic rollback if a change would break       *)
(* access", README.md line 19; src/ssh_dropbear_manager.py lines 4-13).    *)
(*                                                                         *)
(* A change begins, may disturb the service while it goes on, and ends     *)
(* with the ports that were asked for or the ones there were before; in    *)
(* both cases somebody can get in through them, but for a service that the *)
(* system will not start again now: it is down, and has the old ports.     *)
(***************************************************************************)
CONSTANTS Ports

VARIABLES
  phase,   \* "up", "down", "switching", or "unpromised"
  ports,   \* the ports of the service
  want,    \* the ports a change that goes on has been asked for
  reach    \* the ports through which clients reach the service now

vars == <<phase, ports, want, reach>>
PortSets == (SUBSET Ports) \ {{}}

Accessible == reach # {} /\ reach \subseteq ports

TypeOK ==
  /\ phase \in {"up", "down", "switching", "unpromised"}
  /\ ports \in PortSets /\ want \in PortSets /\ reach \subseteq Ports

Init == phase = "up" /\ ports \in PortSets /\ want = ports /\ Accessible /\ TypeOK

Stop == phase \in {"up", "down"} /\ phase' = "down" /\ reach' = {} /\ UNCHANGED <<ports, want>>
Start == phase \in {"up", "down"} /\ phase' = "up" /\ UNCHANGED <<ports, want>> /\ Accessible'

Begin ==
  /\ phase \in {"up", "down"} /\ phase' = "switching"
  /\ want' \in PortSets /\ reach' \in SUBSET Ports /\ UNCHANGED ports
Disturb ==
  phase = "switching" /\ reach' \in SUBSET Ports /\ UNCHANGED <<phase, ports, want>>
Finish ==
  /\ phase = "switching" /\ phase' = "up"
  /\ ports' \in {ports, want} /\ want' = ports' /\ Accessible'
Stranded ==
  phase = "switching" /\ phase' = "down" /\ want' = ports /\ reach' = {} /\ UNCHANGED ports

(* The operator's own edit of the file, or a change cut off half way: the  *)
(* promise starts again with the next change that succeeds.                *)
Withdraw ==
  /\ phase' = "unpromised"
  /\ ports' \in PortSets /\ want' \in PortSets /\ reach' \in SUBSET Ports
Renewed ==
  /\ phase = "unpromised" /\ phase' = "up"
  /\ ports' \in PortSets /\ want' = ports' /\ Accessible'

Next == Stop \/ Start \/ Begin \/ Disturb \/ Finish \/ Stranded \/ Withdraw \/ Renewed

Spec == Init /\ [][Next]_vars

(* A service that is up can be reached.                                    *)
UpIsAccessible == phase = "up" => Accessible
=============================================================================
