--------------------------- MODULE SSHPortProofs ---------------------------
(***************************************************************************)
(* What is proved of SSHPort for every set of ports, whatever sshd can     *)
(* bind, whichever firewall saves its rules, and any number of crashes.    *)
(***************************************************************************)
EXTENDS SSHPort, TLAPS

USE DEF service, firewall, record, panel, history, Serving, Started, Refused

LEMMA InitTypes == Init => TypeOK
<1> SUFFICES ASSUME Init PROVE TypeOK
  OBVIOUS
<1>1. FirstPort \in Ports /\ 0 \in 0..MaxCrashes
  BY PortsAssumption, CrashesAssumption
<1>2. QED
  BY <1>1 DEF Init, TypeOK

LEMMA TypesStep == TypeOK /\ [Next]_vars => TypeOK'
<1> SUFFICES ASSUME TypeOK, [Next]_vars PROVE TypeOK'
  OBVIOUS
<1> USE PortsAssumption, CrashesAssumption DEF TypeOK
<1>1. ASSUME NEW p \in Ports, ChangePort(p) PROVE TypeOK'
  BY <1>1 DEF ChangePort, Persist
<1>2. CASE ChangeOther
  BY <1>2 DEF ChangeOther
<1>3. CASE StopService
  BY <1>3 DEF StopService
<1>4. CASE StartService
  BY <1>4 DEF StartService
<1>5. CASE Purge
  BY <1>5 DEF Purge
<1>6. CASE Leave
  BY <1>6 DEF Leave
<1>7. CASE WriteConfig
  BY <1>7 DEF WriteConfig
<1>8. CASE TestConfig
  BY <1>8 DEF TestConfig
<1>9. CASE Restart
  BY <1>9 DEF Restart
<1>10. CASE Verify
  BY <1>10 DEF Verify
<1>11. CASE RollBack
  BY <1>11 DEF RollBack
<1>12. CASE Commit
  BY <1>12 DEF Commit, Persist, Ends
<1>13. CASE GiveUp
  BY <1>13 DEF GiveUp, Ends
<1>14. CASE Hangup
  BY <1>14 DEF Hangup, Dies, Ends
<1>15. CASE Reboot
  BY <1>15 DEF Reboot, Dies, Ends
<1>16. CASE UNCHANGED vars
  BY <1>16 DEF vars
<1>17. QED
  BY <1>1, <1>2, <1>3, <1>4, <1>5, <1>6, <1>7, <1>8, <1>9, <1>10, <1>11,
       <1>12, <1>13, <1>14, <1>15, <1>16
  DEF Next, Menu, Apply

(* Every variable keeps its type, and the panel is at one of its steps. *)
THEOREM TypeCorrect == Spec => []TypeOK
BY InitTypes, TypesStep, PTL DEF Spec

-----------------------------------------------------------------------------
(* A change keeps one working port until it has another. *)

LEMMA InitSwitch == Init => SwitchInv
BY PortsAssumption DEF Init, SwitchInv, EditInv, SteadyInv, Before, Admitted

LEMMA SwitchStep == TypeOK /\ SwitchInv /\ [Next]_vars => SwitchInv'
<1> SUFFICES ASSUME TypeOK, SwitchInv, [Next]_vars PROVE SwitchInv'
  OBVIOUS
<1> USE PersistsAssumption DEF TypeOK, SwitchInv, EditInv, SteadyInv, Before, Admitted
<1>1. ASSUME NEW p \in Ports, ChangePort(p) PROVE SwitchInv'
  BY <1>1 DEF ChangePort, Persist
<1>2. CASE ChangeOther
  BY <1>2 DEF ChangeOther
<1>3. CASE StopService
  BY <1>3 DEF StopService
<1>4. CASE StartService
  BY <1>4 DEF StartService
<1>5. CASE Purge
  BY <1>5 DEF Purge
<1>6. CASE Leave
  BY <1>6 DEF Leave
<1>7. CASE WriteConfig
  BY <1>7 DEF WriteConfig
<1>8. CASE TestConfig
  BY <1>8 DEF TestConfig
<1>9. CASE Restart
  BY <1>9 DEF Restart
<1>10. CASE Verify
  BY <1>10 DEF Verify
<1>11. CASE RollBack
  BY <1>11 DEF RollBack
<1>12. CASE Commit
  BY <1>12 DEF Commit, Persist, Ends
<1>13. CASE GiveUp
  BY <1>13 DEF GiveUp, Ends
<1>14. CASE Hangup
  BY <1>14 DEF Hangup, Dies, Ends
<1>15. CASE Reboot
  BY <1>15 DEF Reboot, Dies, Ends
<1>16. CASE UNCHANGED vars
  BY <1>16 DEF vars
<1>17. QED
  BY <1>1, <1>2, <1>3, <1>4, <1>5, <1>6, <1>7, <1>8, <1>9, <1>10, <1>11,
       <1>12, <1>13, <1>14, <1>15, <1>16
  DEF Next, Menu, Apply

(* Unless a change or its record is cut off, the ports of sshd are bound,  *)
(* open and recorded as SwitchInv says, through every edit and rollback.   *)
THEOREM SwitchKept == Spec => []SwitchInv
BY InitTypes, TypesStep, InitSwitch, SwitchStep, PTL DEF Spec

-----------------------------------------------------------------------------
(* That the port change is a PortSwitch. *)

LEMMA InitMapped == Init => Switch!Init
<1> SUFFICES ASSUME Init PROVE Switch!Init
  OBVIOUS
<1>1. FirstPort \in Ports /\ FirstPort \in Bindable
  BY PortsAssumption
<1>2. QED
  BY <1>1 DEF Switch!PortSets, Init, Switch!Init, Switch!TypeOK, Switch!Accessible, Phase, Reached, Before

(* A crash may end the promise at any step. *)
LEMMA Withdrawn ==
  ASSUME TypeOK', void'
  PROVE  Switch!Withdraw
<1>1. /\ {Before'} \in Switch!PortSets
      /\ {IF ppc' = "idle" \/ stopped' THEN Before' ELSE new'} \in Switch!PortSets
      /\ Reached' \in SUBSET Ports
  BY DEF TypeOK, Before, Reached, Switch!PortSets
<1>2. QED
  BY <1>1 DEF Phase, Switch!Withdraw

LEMMA StepMapped ==
  ASSUME TypeOK, TypeOK', SwitchInv, SwitchInv', [Next]_vars
  PROVE  Switch!Next \/ UNCHANGED Switch!vars
<1>1. CASE void'
  BY <1>1, Withdrawn DEF Switch!Next
<1>2. CASE ~void'
  <2>1. /\ {Before} \in Switch!PortSets /\ {Before'} \in Switch!PortSets
        /\ {IF ppc = "idle" \/ stopped THEN Before ELSE new} \in Switch!PortSets
        /\ {IF ppc' = "idle" \/ stopped' THEN Before' ELSE new'} \in Switch!PortSets
        /\ Reached' \in SUBSET Ports
    BY DEF TypeOK, Before, Reached, Switch!PortSets
  <2> USE <1>2, <2>1 DEF SwitchInv, EditInv, SteadyInv, Before, Admitted, Phase, Reached,
        Switch!vars, Switch!Next, Switch!Accessible
  <2>2. ASSUME NEW p \in Ports, ChangePort(p)
        PROVE Switch!Next \/ UNCHANGED Switch!vars
    BY <2>2 DEF ChangePort, Persist, Switch!Begin
  <2>3. CASE ChangeOther
    BY <2>3 DEF ChangeOther, Switch!Begin
  <2>4. CASE StopService
    BY <2>4 DEF StopService, Switch!Stop
  <2>5. CASE StartService
    BY <2>5 DEF StartService, Switch!Start, Switch!Stop
  <2>6. CASE Purge
    BY <2>6 DEF Purge, Switch!Stop
  <2>7. CASE Leave
    BY <2>7 DEF Leave
  <2>8. CASE WriteConfig
    BY <2>8 DEF WriteConfig, Switch!Disturb
  <2>9. CASE TestConfig
    BY <2>9 DEF TestConfig, Switch!Disturb
  <2>10. CASE Restart
    BY <2>10 DEF Restart, Switch!Begin, Switch!Disturb
  <2>11. CASE Verify
    BY <2>11 DEF Verify, Switch!Disturb
  <2>12. CASE RollBack
    BY <2>12 DEF RollBack, Switch!Disturb, Switch!Stranded
  <2>13. CASE Commit
    BY <2>13 DEF Commit, Persist, Ends, Switch!Finish, Switch!Renewed
  <2>14. CASE GiveUp
    BY <2>14 DEF GiveUp, Ends, Switch!Finish
  <2>15. CASE Hangup
    BY <2>15 DEF Hangup, Dies, Ends
  <2>16. CASE Reboot
    BY <2>16 DEF Reboot, Dies, Ends, Switch!Start, Switch!Stop
  <2>17. CASE UNCHANGED vars
    BY <2>17 DEF vars
  <2>18. QED
    BY <2>2, <2>3, <2>4, <2>5, <2>6, <2>7, <2>8, <2>9, <2>10, <2>11, <2>12,
         <2>13, <2>14, <2>15, <2>16, <2>17
    DEF Next, Menu, Apply
<1>3. QED
  BY <1>1, <1>2

(* sshd's port change is a PortSwitch: whatever is edited, and wherever it *)
(* is cut off, a change that ends leaves the old port or the new one, and  *)
(* somebody can get in through it.                                         *)
THEOREM PortSwitchImplemented == Spec => ImplementsPortSwitch
<1>1. Init => Switch!Init
  BY InitMapped
<1>2. TypeOK /\ TypeOK' /\ SwitchInv /\ SwitchInv' /\ [Next]_vars
        => [Switch!Next]_(Switch!vars)
  BY StepMapped
<1>3. QED
  BY <1>1, <1>2, TypeCorrect, SwitchKept, PTL DEF Spec, ImplementsPortSwitch, Switch!Spec


(* What the switch promises its clients. *)
THEOREM UpIsReachable == Spec => []Switch!UpIsAccessible
<1>1. TypeOK /\ SwitchInv => Switch!UpIsAccessible
  BY DEF TypeOK, SwitchInv, SteadyInv, Before, Admitted, Phase, Reached,
         Switch!UpIsAccessible, Switch!Accessible
<1>2. QED
  BY <1>1, TypeCorrect, SwitchKept, PTL DEF Spec

-----------------------------------------------------------------------------
(* Without a crash the firewall follows the service. *)

(* During a change of the port, both ports are open. *)
TightInv ==
  crashes = 0 =>
    /\ recorded = Before
    /\ open = IF ppc # "idle" /\ op = "port" THEN {orig, new} ELSE {Before}
    /\ ppc # "idle" /\ op = "port" => new # orig

LEMMA InitTight == Init => TightInv
BY DEF Init, TightInv, Before

LEMMA TightStep == TypeOK /\ SwitchInv /\ TightInv /\ [Next]_vars => TightInv'
<1> SUFFICES ASSUME TypeOK, SwitchInv, TightInv, [Next]_vars PROVE TightInv'
  OBVIOUS
<1> USE DEF TypeOK, SwitchInv, EditInv, TightInv, Before
<1>1. ASSUME NEW p \in Ports, ChangePort(p) PROVE TightInv'
  BY <1>1 DEF ChangePort, Persist
<1>2. CASE ChangeOther
  BY <1>2 DEF ChangeOther
<1>3. CASE StopService
  BY <1>3 DEF StopService
<1>4. CASE StartService
  BY <1>4 DEF StartService
<1>5. CASE Purge
  BY <1>5 DEF Purge
<1>6. CASE Leave
  BY <1>6 DEF Leave
<1>7. CASE WriteConfig
  BY <1>7 DEF WriteConfig
<1>8. CASE TestConfig
  BY <1>8 DEF TestConfig
<1>9. CASE Restart
  BY <1>9 DEF Restart
<1>10. CASE Verify
  BY <1>10 DEF Verify
<1>11. CASE RollBack
  BY <1>11 DEF RollBack
<1>12. CASE Commit
  BY <1>12 DEF Commit, Persist, Ends
<1>13. CASE GiveUp
  BY <1>13 DEF GiveUp, Ends
<1>14. CASE Hangup
  BY <1>14 DEF Hangup, Dies, Ends
<1>15. CASE Reboot
  BY <1>15 DEF Reboot, Dies, Ends
<1>16. CASE UNCHANGED vars
  BY <1>16 DEF vars
<1>17. QED
  BY <1>1, <1>2, <1>3, <1>4, <1>5, <1>6, <1>7, <1>8, <1>9, <1>10, <1>11,
       <1>12, <1>13, <1>14, <1>15, <1>16
  DEF Next, Menu, Apply

(* The firewall opens the port of sshd and no other once a change is over, *)
(* failed or not, as long as no crash came between.                        *)
THEOREM FirewallKeptTight == Spec => []FirewallTight
<1>1. TightInv => FirewallTight
  BY DEF TightInv, FirewallTight, Before
<1>2. QED
  BY <1>1, InitTight, TightStep, TypeCorrect, SwitchKept, PTL DEF Spec
=============================================================================
