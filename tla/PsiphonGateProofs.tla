-------------------------- MODULE PsiphonGateProofs --------------------------
(***************************************************************************)
(* What is proved of PsiphonGate for every number of instances, clients,   *)
(* request threads and ticks.                                              *)
(***************************************************************************)
EXTENDS PsiphonGate, TLAPS

USE DEF firewall, state, handlers, cleanup, panel, units, history

Accepts == [Instances -> [Clients -> Nat]]

(* The times an entry may have. *)
LEMMA RemainingType ==
  /\ NoEntry \in Remaining /\ Window \in Remaining /\ 0 \in Remaining
  /\ EmptyState \in GateState
  /\ \A n \in Remaining : n > 0 => n - 1 \in Remaining
BY BoundsAssumption DEF Remaining, NoEntry, EmptyState, GateState

(* Editing one entry, one count of rules, or letting a tick pass. *)
LEMMA EntryEdits ==
  ASSUME NEW s \in GateState, NEW i \in Instances, NEW c \in Clients,
         NEW n \in Remaining
  PROVE  /\ [s EXCEPT ![i][c] = n] \in GateState
         /\ [s EXCEPT ![i][c] = n][i][c] = n
         /\ \A j \in Instances, d \in Clients :
              <<j, d>> # <<i, c>> => [s EXCEPT ![i][c] = n][j][d] = s[j][d]
BY DEF GateState

LEMMA RuleEdits ==
  ASSUME NEW a \in Accepts, NEW i \in Instances
  PROVE  /\ [a EXCEPT ![i] = NoRules] \in Accepts
         /\ \A c \in Clients :
              /\ [a EXCEPT ![i][c] = @ + 1] \in Accepts
              /\ [a EXCEPT ![i][c] = @ + 1][i][c] = a[i][c] + 1
              /\ a[i][c] > 0 => [a EXCEPT ![i][c] = @ - 1] \in Accepts
              /\ [a EXCEPT ![i][c] = @ - 1][i][c] = a[i][c] - 1
              /\ \A n \in Nat : \A j \in Instances, d \in Clients :
                   <<j, d>> # <<i, c>> => [a EXCEPT ![i][c] = n][j][d] = a[j][d]
BY DEF Accepts, NoRules

(* One rule less for one client. *)
LEMMA OneLess ==
  ASSUME NEW a \in Accepts, NEW i \in Instances, NEW c \in Clients
  PROVE  [a EXCEPT ![i][c] = @ - 1][i][c] = a[i][c] - 1
BY DEF Accepts

(* A tick keeps the type of a state and forgets no entry. *)
LEMMA AgedType ==
  ASSUME NEW s \in GateState
  PROVE  /\ Aged(s) \in GateState
         /\ \A i \in Instances, c \in Clients :
              Aged(s)[i][c] = NoEntry <=> s[i][c] = NoEntry
<1>1. \A i \in Instances, c \in Clients : s[i][c] \in Remaining
  BY DEF GateState
<1>2. \A n \in Remaining : n > 0 => n - 1 \in Remaining /\ n # NoEntry /\ n - 1 # NoEntry
  BY BoundsAssumption DEF Remaining, NoEntry
<1>3. QED BY <1>1, <1>2 DEF Aged, GateState

LEMMA InitTypes == Init => TypeOK
<1> SUFFICES ASSUME Init PROVE TypeOK
  OBVIOUS
<1>1. NoRules \in [Clients -> Nat] /\ 0 \in 0..MaxReboots
  BY BoundsAssumption DEF NoRules
<1>2. FirewallOK
  BY <1>1 DEF Init, FirewallOK, Rules
<1>3. GrantsOK
  BY <1>1, RemainingType DEF Init, GrantsOK
<1>4. QED BY <1>2, <1>3 DEF TypeOK

(* What the panel and the firewall hold. *)
LEMMA FirewallStep == TypeOK /\ [Next]_vars => FirewallOK'
<1> SUFFICES ASSUME TypeOK, [Next]_vars PROVE FirewallOK'
  OBVIOUS
<1> USE DEF TypeOK, FirewallOK, Rules
<1>1. CASE CleanupLoad
  BY <1>1 DEF CleanupLoad
<1>2. CASE CleanupTruncate
  BY <1>2 DEF CleanupTruncate, Truncate
<1>3. CASE CleanupWrite
  BY <1>3 DEF CleanupWrite, Write
<1>4. ASSUME NEW i \in Instances, NEW c \in Clients, CleanupDelete(i, c)
      PROVE FirewallOK'
  BY <1>4 DEF CleanupDelete
<1>5. CASE AddStart
  BY <1>5 DEF AddStart, Ends
<1>6. CASE AddList
  BY <1>6 DEF AddList, Persisted, Ends
<1>7. CASE Unchain
  BY <1>7 DEF Unchain, NoRules
<1>8. CASE RemoveUnlist
  BY <1>8 DEF RemoveUnlist, Ends
<1>9. ASSUME NEW i \in Instances, AddChain(i) PROVE FirewallOK'
  <2>1. /\ input \in [Instances -> SUBSET {"jump", "open"}] /\ chain \subseteq Instances
        /\ top \in [Instances -> {"jump", "open"}] /\ accept' = accept
        /\ input[i] \cup {"jump"} \in SUBSET {"jump", "open"}
    BY <1>9 DEF AddChain
  <2>2. /\ input' \in {input, [input EXCEPT ![i] = @ \cup {"jump"}]}
        /\ top' \in {top, [top EXCEPT ![i] = "jump"]}
        /\ chain' \in {chain, chain \cup {i}}
    BY <1>9 DEF AddChain
  <2>3. /\ input' \in [Instances -> SUBSET {"jump", "open"}] /\ chain' \subseteq Instances
        /\ top' \in [Instances -> {"jump", "open"}] /\ accept' = accept
    <3> HIDE DEF TypeOK, FirewallOK, Rules
    <3> QED BY <2>1, <2>2
  <2>4. /\ creds' = creds /\ unit' = unit /\ server' = server /\ saved' = saved
        /\ ppc' = "open" /\ pinst' = i /\ bared' \subseteq bared
    BY <1>9 DEF AddChain
  <2>5. [input |-> input', top |-> top', chain |-> chain', accept |-> accept'] \in Rules
    BY <2>3
  <2>6. QED BY <2>4, <2>5
<1>10. ASSUME NEW i \in Instances, RemoveStop(i) PROVE FirewallOK'
  BY <1>10 DEF RemoveStop
<1>11. CASE Tick
  BY <1>11 DEF Tick
<1>12. CASE Hangup
  BY <1>12 DEF Hangup, Ends
<1>13. CASE Reboot
  BY <1>13 DEF Reboot, Ends, NoRules
<1>14. ASSUME NEW t \in Threads, HandlerInsert(t) PROVE FirewallOK'
  BY <1>14 DEF HandlerInsert, GrantsOK
<1>15. ASSUME NEW t \in Threads, HandlerLoad(t) PROVE FirewallOK'
  BY <1>15 DEF HandlerLoad
<1>16. ASSUME NEW t \in Threads, HandlerTruncate(t) PROVE FirewallOK'
  BY <1>16 DEF HandlerTruncate, Truncate
<1>17. ASSUME NEW t \in Threads, HandlerWrite(t) PROVE FirewallOK'
  BY <1>17 DEF HandlerWrite, Write
<1>18. ASSUME NEW t \in Threads, NEW i \in Instances, NEW c \in Clients, HandlerCheck(t, i, c)
      PROVE FirewallOK'
  BY <1>18 DEF HandlerCheck
<1>19. ASSUME NEW i \in Instances, UnitStarts(i) PROVE FirewallOK'
  BY <1>19 DEF UnitStarts
<1>20. CASE UNCHANGED vars
  BY <1>20 DEF vars
<1>21. CASE AddOpen
  BY <1>21 DEF AddOpen, Ends
<1>22. CASE Save
  BY <1>22 DEF Save, Persisted
<1>23. CASE Shut
  BY <1>23 DEF Shut, Ends
<1>24. QED
  BY <1>1, <1>2, <1>3, <1>4, <1>5, <1>6, <1>7, <1>8, <1>9, <1>10, <1>11,
       <1>12, <1>13, <1>14, <1>15, <1>16, <1>17, <1>18, <1>19, <1>20, <1>21, <1>22, <1>23
  DEF Next, CleanupWorks, Panel, HandlerWorks

(* What the requests, the cleanup and the state file hold. *)
LEMMA GrantsStep == TypeOK /\ [Next]_vars => GrantsOK'
<1> SUFFICES ASSUME TypeOK, [Next]_vars PROVE GrantsOK'
  OBVIOUS
<1> USE DEF TypeOK, GrantsOK
<1>1. CASE CleanupLoad
  BY <1>1 DEF CleanupLoad, ExpiredIn
<1>2. CASE CleanupTruncate
  BY <1>2 DEF CleanupTruncate, Truncate
<1>3. CASE CleanupWrite
  BY <1>3, RemainingType DEF CleanupWrite, Write, Holders, Procs
<1>4. ASSUME NEW i \in Instances, NEW c \in Clients, CleanupDelete(i, c)
      PROVE GrantsOK'
  BY <1>4, RemainingType, EntryEdits DEF CleanupDelete
<1>5. CASE AddStart
  BY <1>5 DEF AddStart
<1>6. CASE AddList
  BY <1>6 DEF AddList
<1>7. CASE Unchain
  BY <1>7 DEF Unchain
<1>8. CASE RemoveUnlist
  BY <1>8 DEF RemoveUnlist
<1>9. ASSUME NEW i \in Instances, AddChain(i) PROVE GrantsOK'
  BY <1>9 DEF AddChain
<1>10. ASSUME NEW i \in Instances, RemoveStop(i) PROVE GrantsOK'
  BY <1>10 DEF RemoveStop
<1>11. CASE Tick
  BY <1>11, AgedType DEF Tick
<1>12. CASE Hangup
  BY <1>12 DEF Hangup
<1>13. CASE Reboot
  BY <1>13, RemainingType, BoundsAssumption DEF Reboot
<1>14. ASSUME NEW t \in Threads, HandlerInsert(t) PROVE GrantsOK'
  BY <1>14 DEF HandlerInsert
<1>15. ASSUME NEW t \in Threads, HandlerLoad(t) PROVE GrantsOK'
  <2> DEFINE held == IF file = "whole" THEN expiry ELSE EmptyState
  <2>1. hreq[t] \in Instances \X Clients /\ held \in GateState /\ Window \in Remaining
    BY <1>15, RemainingType DEF HandlerLoad
  <2>2. [held EXCEPT ![hreq[t][1]][hreq[t][2]] = Window] \in GateState
    BY <2>1, EntryEdits
  <2>3. QED BY <1>15, <2>2 DEF HandlerLoad, Procs
<1>16. ASSUME NEW t \in Threads, HandlerTruncate(t) PROVE GrantsOK'
  BY <1>16 DEF HandlerTruncate, Truncate
<1>17. ASSUME NEW t \in Threads, HandlerWrite(t) PROVE GrantsOK'
  BY <1>17, RemainingType DEF HandlerWrite, Write, Holders, Procs
<1>18. ASSUME NEW t \in Threads, NEW i \in Instances, NEW c \in Clients, HandlerCheck(t, i, c)
      PROVE GrantsOK'
  BY <1>18, NobodyAssumption DEF HandlerCheck
<1>19. ASSUME NEW i \in Instances, UnitStarts(i) PROVE GrantsOK'
  BY <1>19 DEF UnitStarts
<1>20. CASE UNCHANGED vars
  BY <1>20 DEF vars
<1>21. CASE AddOpen
  BY <1>21 DEF AddOpen
<1>22. CASE Save
  BY <1>22 DEF Save
<1>23. CASE Shut
  BY <1>23 DEF Shut, Ends
<1>24. QED
  BY <1>1, <1>2, <1>3, <1>4, <1>5, <1>6, <1>7, <1>8, <1>9, <1>10, <1>11,
       <1>12, <1>13, <1>14, <1>15, <1>16, <1>17, <1>18, <1>19, <1>20, <1>21, <1>22, <1>23
  DEF Next, CleanupWorks, Panel, HandlerWorks

(* Type correctness. *)
THEOREM TypeCorrect == Spec => []TypeOK
<1>1. TypeOK /\ [Next]_vars => TypeOK'
  BY FirewallStep, GrantsStep DEF TypeOK
<1>2. QED BY InitTypes, <1>1, PTL DEF Spec

(***************************************************************************)
(* The gate.  Under ufw the open port comes after the jump wherever there  *)
(* is one.  It is open only while the jump is there, or after the undo of  *)
(* a failed start has begun, or in a removal, whose unit is gone first.    *)
(* Who is listed has no such undo behind it.                               *)
(***************************************************************************)
JumpFirst ==
  /\ server \subseteq unit
  /\ \A i \in Instances :
       /\ top[i] = "jump"
       /\ i \in creds => i \notin bared
       /\ reboots = 0 /\ "open" \in input[i] =>
            "jump" \in input[i] \/ i \in bared \/ (i \in creds /\ i \notin unit)
  /\ ppc \in {"open", "save", "start", "list"} =>
       pinst \notin bared /\ pinst \notin creds /\ (reboots = 0 => "jump" \in input[pinst])
  /\ ppc \in {"undo", "shut"} => pinst \notin creds
  /\ ppc \in {"close", "unport", "unsave", "unlist"} => pinst \in creds /\ pinst \notin unit
  /\ ppc \in {"unsave", "unlist"} => "open" \notin input[pinst]

LEMMA JumpFirstStep ==
  ASSUME Kind = "ufw", LongNames = {}, TypeOK, JumpFirst, [Next]_vars
  PROVE  JumpFirst'
<1> USE DEF JumpFirst, TypeOK, FirewallOK, Rules
<1>1. CASE CleanupLoad
  BY <1>1 DEF CleanupLoad
<1>2. CASE CleanupTruncate
  BY <1>2 DEF CleanupTruncate, Truncate
<1>3. CASE CleanupWrite
  BY <1>3 DEF CleanupWrite, Write
<1>4. ASSUME NEW i \in Instances, NEW c \in Clients, CleanupDelete(i, c)
      PROVE JumpFirst'
  BY <1>4 DEF CleanupDelete
<1>5. CASE AddStart
  BY <1>5 DEF AddStart, Ends
<1>6. CASE AddList
  BY <1>6 DEF AddList, Ends
<1>7. CASE Unchain
  BY <1>7 DEF Unchain
<1>8. CASE RemoveUnlist
  BY <1>8 DEF RemoveUnlist, Ends
<1>9. ASSUME NEW i \in Instances, AddChain(i) PROVE JumpFirst'
  BY <1>9 DEF AddChain, Ends
<1>10. ASSUME NEW i \in Instances, RemoveStop(i) PROVE JumpFirst'
  BY <1>10 DEF RemoveStop
<1>11. CASE Tick
  BY <1>11 DEF Tick
<1>12. CASE Hangup
  BY <1>12 DEF Hangup, Ends
<1>13. CASE Reboot
  BY <1>13, BoundsAssumption DEF Reboot, Ends, GrantsOK
<1>14. ASSUME NEW t \in Threads, HandlerInsert(t) PROVE JumpFirst'
  BY <1>14 DEF HandlerInsert
<1>15. ASSUME NEW t \in Threads, HandlerLoad(t) PROVE JumpFirst'
  BY <1>15 DEF HandlerLoad
<1>16. ASSUME NEW t \in Threads, HandlerTruncate(t) PROVE JumpFirst'
  BY <1>16 DEF HandlerTruncate, Truncate
<1>17. ASSUME NEW t \in Threads, HandlerWrite(t) PROVE JumpFirst'
  BY <1>17 DEF HandlerWrite, Write
<1>18. ASSUME NEW t \in Threads, NEW i \in Instances, NEW c \in Clients, HandlerCheck(t, i, c)
      PROVE JumpFirst'
  BY <1>18 DEF HandlerCheck
<1>19. ASSUME NEW i \in Instances, UnitStarts(i) PROVE JumpFirst'
  BY <1>19 DEF UnitStarts
<1>20. CASE UNCHANGED vars
  BY <1>20 DEF vars
<1>21. CASE AddOpen
  BY <1>21 DEF AddOpen, Ends
<1>22. CASE Save
  BY <1>22 DEF Save, Ends
<1>23. CASE Shut
  BY <1>23 DEF Shut, Ends
<1>24. QED
  BY <1>1, <1>2, <1>3, <1>4, <1>5, <1>6, <1>7, <1>8, <1>9, <1>10, <1>11,
       <1>12, <1>13, <1>14, <1>15, <1>16, <1>17, <1>18, <1>19, <1>20, <1>21, <1>22, <1>23
  DEF Next, CleanupWorks, Panel, HandlerWorks

(* Until the host reboots no listening instance is reachable around its    *)
(* gate, whatever the operator adds, removes or leaves half done.          *)
THEOREM GateHolds ==
  ASSUME Kind = "ufw", LongNames = {}
  PROVE  Spec => []GatedUntilReboot
<1>1. Init => JumpFirst
  BY DEF Init, JumpFirst
<1>2. TypeOK /\ JumpFirst /\ [Next]_vars => JumpFirst'
  BY JumpFirstStep
<1>3. TypeOK /\ JumpFirst => GatedUntilReboot
  BY DEF JumpFirst, GatedUntilReboot, Gated, Admits, TypeOK, FirewallOK
<1>4. QED BY <1>1, <1>2, <1>3, TypeCorrect, PTL DEF Spec

(***************************************************************************)
(* The grants.  RulesTimed speaks of the moments without a request or a    *)
(* cleanup; TimedInv carries it through the steps between them.            *)
(***************************************************************************)
(* A rule stays backed by an entry or by the request that will enter it. *)
LEMMA RulesStep ==
  ASSUME Kind = "ufw", TypeOK, RulesBacked, HandlerCopies, CleanupCopy, [Next]_vars, ~raced'
  PROVE  RulesBacked'
<1>1. CASE CleanupLoad
  BY <1>1 DEF CleanupLoad, RulesBacked, Backed, Entered, Serving
<1>2. CASE CleanupTruncate
  BY <1>2 DEF CleanupTruncate, Truncate, RulesBacked, Backed, Entered, Serving
<1>3. CASE CleanupWrite
  BY <1>3
  DEF CleanupWrite, Write, CleanupCopy, RulesBacked, Backed, Entered, Serving
<1>4. ASSUME NEW i \in Instances, NEW c \in Clients, CleanupDelete(i, c)
      PROVE RulesBacked'
  <2>1. accept \in Accepts /\ \A j \in Instances, d \in Clients : accept[j][d] \in {0, 1}
    BY DEF TypeOK, FirewallOK, Rules, Accepts, RulesBacked
  <2>2. \A j \in Instances, d \in Clients : accept'[j][d] \in {0, accept[j][d]}
    <3>0. accept[i][c] \in {0, 1} /\ [accept EXCEPT ![i][c] = @ - 1][i][c] = accept[i][c] - 1
      BY <2>1, OneLess
    <3>1. accept[i][c] > 0 => [accept EXCEPT ![i][c] = @ - 1][i][c] = 0
      BY <3>0
    <3>2. QED BY <1>4, <2>1, <3>1, RuleEdits DEF CleanupDelete, Accepts
  <2>3. QED BY <1>4, <2>2, SMTT(30) DEF CleanupDelete, RulesBacked, Backed, Entered, Serving
<1>5. CASE AddStart
  BY <1>5 DEF AddStart, RulesBacked, Backed, Entered, Serving
<1>6. CASE AddList
  BY <1>6 DEF AddList, RulesBacked, Backed, Entered, Serving
<1>7. CASE Unchain
  <2>1. accept \in Accepts /\ \A j \in Instances, d \in Clients : accept[j][d] \in {0, 1}
    BY DEF TypeOK, FirewallOK, Rules, Accepts, RulesBacked
  <2>2. \A j \in Instances, d \in Clients : accept'[j][d] \in {0, accept[j][d]}
    BY <1>7, <2>1 DEF Unchain, NoRules, Accepts
  <2>3. QED BY <1>7, <2>2 DEF Unchain, RulesBacked, Backed, Entered, Serving
<1>8. CASE RemoveUnlist
  BY <1>8 DEF RemoveUnlist, RulesBacked, Backed, Entered, Serving
<1>9. ASSUME NEW i \in Instances, AddChain(i) PROVE RulesBacked'
  BY <1>9 DEF AddChain, RulesBacked, Backed, Entered, Serving
<1>10. ASSUME NEW i \in Instances, RemoveStop(i) PROVE RulesBacked'
  BY <1>10 DEF RemoveStop, RulesBacked, Backed, Entered, Serving
<1>11. CASE Tick
  BY <1>11, AgedType
  DEF Tick, TypeOK, GrantsOK, RulesBacked, Backed, Entered, Serving
<1>12. CASE Hangup
  BY <1>12 DEF Hangup, RulesBacked, Backed, Entered, Serving
<1>13. CASE Reboot
  BY <1>13 DEF Reboot, NoRules, RulesBacked, Backed, Entered, Serving
<1>14. ASSUME NEW t \in Threads, HandlerInsert(t) PROVE RulesBacked'
  <2> DEFINE i == hreq[t][1]
             c == hreq[t][2]
  <2>1. \A s \in Threads, j \in Instances, d \in Clients : Serving(s, j, d) => Serving(s, j, d)'
    BY <1>14 DEF HandlerInsert, Serving, TypeOK, GrantsOK
  <2>2. i \in Instances /\ c \in Clients /\ hreq[t] = <<i, c>> /\ accept \in Accepts
    BY <1>14 DEF HandlerInsert, TypeOK, FirewallOK, GrantsOK, Rules, Accepts
  <2>3. Serving(t, i, c)'
    BY <1>14, <2>2 DEF HandlerInsert, Serving, TypeOK, GrantsOK
  <2>4. accept[i][c] = 0
    <3>1. ~(accept[i][c] > 0)
      BY <1>14 DEF HandlerInsert
    <3>2. accept[i][c] \in {0, 1}
      BY <2>2 DEF RulesBacked
    <3>3. QED BY <3>1, <3>2
  <2>5. accept'[i][c] \in {0, 1} /\ \A j \in Instances, d \in Clients :
          <<j, d>> # <<i, c>> => accept'[j][d] = accept[j][d]
    BY <1>14, <2>2, <2>4, RuleEdits DEF HandlerInsert
  <2>6. QED BY <1>14, <2>1, <2>3, <2>5 DEF HandlerInsert, RulesBacked, Backed, Entered
<1>15. ASSUME NEW t \in Threads, HandlerLoad(t) PROVE RulesBacked'
  <2>1. \A s \in Threads, j \in Instances, d \in Clients : Serving(s, j, d) => Serving(s, j, d)'
    BY <1>15 DEF HandlerLoad, Serving, TypeOK, GrantsOK
  <2>2. QED BY <1>15, <2>1 DEF HandlerLoad, RulesBacked, Backed, Entered
<1>16. ASSUME NEW t \in Threads, HandlerTruncate(t) PROVE RulesBacked'
  BY <1>16
  DEF HandlerTruncate, Truncate, TypeOK, GrantsOK, RulesBacked, Backed,
       Entered, Serving
<1>17. ASSUME NEW t \in Threads, HandlerWrite(t) PROVE RulesBacked'
  <2>1. \A s \in Threads \ {t}, j \in Instances, d \in Clients :
          Serving(s, j, d) => Serving(s, j, d)'
    BY <1>17 DEF HandlerWrite, Serving, TypeOK, GrantsOK
  <2>2. t \notin stale /\ expiry' = hsnap[t] /\ accept' = accept
    BY <1>17 DEF HandlerWrite, Write
  <2>3. \A j \in Instances, d \in Clients : Entered(j, d) => Entered(j, d)'
    BY <1>17, <2>2 DEF HandlerWrite, HandlerCopies, Entered
  <2>4. \A j \in Instances, d \in Clients : Serving(t, j, d) => Entered(j, d)'
    BY <1>17, <2>2 DEF HandlerWrite, HandlerCopies, Entered, Serving
  <2>5. QED BY <2>1, <2>2, <2>3, <2>4 DEF RulesBacked, Backed
<1>18. ASSUME NEW t \in Threads, NEW i \in Instances, NEW c \in Clients, HandlerCheck(t, i, c)
      PROVE RulesBacked'
  <2>1. \A s \in Threads, j \in Instances, d \in Clients : Serving(s, j, d) => Serving(s, j, d)'
    BY <1>18 DEF HandlerCheck, Serving, TypeOK, GrantsOK
  <2>2. QED BY <1>18, <2>1 DEF HandlerCheck, RulesBacked, Backed, Entered
<1>19. ASSUME NEW i \in Instances, UnitStarts(i) PROVE RulesBacked'
  BY <1>19 DEF UnitStarts, RulesBacked, Backed, Entered, Serving
<1>20. CASE UNCHANGED vars
  BY <1>20 DEF vars, RulesBacked, Backed, Entered, Serving
<1>21. CASE AddOpen
  BY <1>21 DEF AddOpen, RulesBacked, Backed, Entered, Serving
<1>22. CASE Save
  BY <1>22 DEF Save, RulesBacked, Backed, Entered, Serving
<1>23. CASE Shut
  BY <1>23 DEF Shut, RulesBacked, Backed, Entered, Serving, Ends
<1>24. QED
  BY <1>1, <1>2, <1>3, <1>4, <1>5, <1>6, <1>7, <1>8, <1>9, <1>10, <1>11,
       <1>12, <1>13, <1>14, <1>15, <1>16, <1>17, <1>18, <1>19, <1>20, <1>21, <1>22, <1>23
  DEF Next, CleanupWorks, Panel, HandlerWorks

(* A request's copy that is not outdated misses no entry. *)
LEMMA HandlerCopiesStep ==
  ASSUME TypeOK, HandlerCopies, [Next]_vars, ~raced'
  PROVE  HandlerCopies'
<1>1. CASE CleanupLoad
  BY <1>1, ThreadsAssumption
  DEF CleanupLoad, TypeOK, GrantsOK, HandlerCopies, Entered
<1>2. CASE CleanupTruncate
  BY <1>2 DEF CleanupTruncate, Truncate, HandlerCopies, Entered
<1>3. CASE CleanupWrite
  <2>1. \A s \in Threads : hpc[s] \in {"truncate", "write"} => s \in stale'
    BY <1>3, ThreadsAssumption DEF CleanupWrite, Write, Holders
  <2>2. QED BY <1>3, <2>1 DEF CleanupWrite, HandlerCopies
<1>4. ASSUME NEW i \in Instances, NEW c \in Clients, CleanupDelete(i, c)
      PROVE HandlerCopies'
  BY <1>4 DEF CleanupDelete, HandlerCopies, Entered
<1>5. CASE AddStart
  BY <1>5 DEF AddStart, HandlerCopies, Entered
<1>6. CASE AddList
  BY <1>6 DEF AddList, HandlerCopies, Entered
<1>7. CASE Unchain
  BY <1>7 DEF Unchain, HandlerCopies, Entered
<1>8. CASE RemoveUnlist
  BY <1>8 DEF RemoveUnlist, HandlerCopies, Entered
<1>9. ASSUME NEW i \in Instances, AddChain(i) PROVE HandlerCopies'
  BY <1>9 DEF AddChain, HandlerCopies, Entered
<1>10. ASSUME NEW i \in Instances, RemoveStop(i) PROVE HandlerCopies'
  BY <1>10 DEF RemoveStop, HandlerCopies, Entered
<1>11. CASE Tick
  <2>1. \A s \in Threads, j \in Instances, d \in Clients : 
          hsnap'[s][j][d] = NoEntry <=> hsnap[s][j][d] = NoEntry
    BY <1>11, AgedType DEF Tick, TypeOK, GrantsOK
  <2>2. \A j \in Instances, d \in Clients : Entered(j, d)' <=> Entered(j, d)
    BY <1>11, AgedType DEF Tick, TypeOK, GrantsOK, Entered
  <2>3. QED BY <1>11, <2>1, <2>2 DEF Tick, HandlerCopies
<1>12. CASE Hangup
  BY <1>12 DEF Hangup, HandlerCopies, Entered
<1>13. CASE Reboot
  BY <1>13 DEF Reboot, HandlerCopies, Entered
<1>14. ASSUME NEW t \in Threads, HandlerInsert(t) PROVE HandlerCopies'
  BY <1>14 DEF HandlerInsert, TypeOK, GrantsOK, HandlerCopies, Entered
<1>15. ASSUME NEW t \in Threads, HandlerLoad(t) PROVE HandlerCopies'
  <2> DEFINE held == IF file = "whole" THEN expiry ELSE EmptyState
             i == hreq[t][1]
             c == hreq[t][2]
  <2>1. held \in GateState /\ i \in Instances /\ c \in Clients /\ hreq[t] = <<i, c>>
    BY <1>15, RemainingType DEF HandlerLoad, TypeOK, GrantsOK
  <2>2. hsnap'[t] = [held EXCEPT ![i][c] = Window]
    BY <1>15 DEF HandlerLoad, TypeOK, GrantsOK
  <2>3. hsnap'[t][i][c] = Window /\ Window # NoEntry
    BY <2>1, <2>2, RemainingType, EntryEdits, BoundsAssumption, SMTT(30) DEF NoEntry
  <2>4. file = "whole" => \A j \in Instances, d \in Clients :
          expiry[j][d] # NoEntry => hsnap'[t][j][d] # NoEntry
    BY <2>1, <2>2, <2>3, RemainingType, EntryEdits
  <2>5. file = "whole"
    BY <1>15 DEF HandlerLoad
  <2>6. \A s \in Threads \ {t} : /\ hsnap'[s] = hsnap[s] /\ hpc'[s] = hpc[s]
                                 /\ s \notin stale' => s \notin stale
    BY <1>15 DEF HandlerLoad, TypeOK, GrantsOK
  <2>7. hreq' = hreq /\ expiry' = expiry
    BY <1>15 DEF HandlerLoad
  <2>8. QED BY <2>1, <2>3, <2>4, <2>5, <2>6, <2>7 DEF HandlerCopies, Entered
<1>16. ASSUME NEW t \in Threads, HandlerTruncate(t) PROVE HandlerCopies'
  BY <1>16
  DEF HandlerTruncate, Truncate, TypeOK, GrantsOK, HandlerCopies, Entered
<1>17. ASSUME NEW t \in Threads, HandlerWrite(t) PROVE HandlerCopies'
  <2>1. \A s \in Threads : hpc'[s] \in {"truncate", "write"} =>
          s # t /\ s \in stale' /\ hpc[s] = hpc'[s] /\ hsnap'[s] = hsnap[s] /\ hreq'[s] = hreq[s]
    BY <1>17 DEF HandlerWrite, Write, Holders, TypeOK, GrantsOK
  <2>2. QED BY <2>1 DEF HandlerCopies
<1>18. ASSUME NEW t \in Threads, NEW i \in Instances, NEW c \in Clients, HandlerCheck(t, i, c)
      PROVE HandlerCopies'
  BY <1>18 DEF HandlerCheck, TypeOK, GrantsOK, HandlerCopies, Entered
<1>19. ASSUME NEW i \in Instances, UnitStarts(i) PROVE HandlerCopies'
  BY <1>19 DEF UnitStarts, HandlerCopies, Entered
<1>20. CASE UNCHANGED vars
  BY <1>20 DEF vars, HandlerCopies, Entered
<1>21. CASE AddOpen
  BY <1>21 DEF AddOpen, HandlerCopies, Entered
<1>22. CASE Save
  BY <1>22 DEF Save, HandlerCopies, Entered
<1>23. CASE Shut
  BY <1>23 DEF Shut, HandlerCopies, Entered, Ends
<1>24. QED
  BY <1>1, <1>2, <1>3, <1>4, <1>5, <1>6, <1>7, <1>8, <1>9, <1>10, <1>11,
       <1>12, <1>13, <1>14, <1>15, <1>16, <1>17, <1>18, <1>19, <1>20, <1>21, <1>22, <1>23
  DEF Next, CleanupWorks, Panel, HandlerWorks

(* What the cleanup's copy misses and the file has is a rule it has deleted. *)
LEMMA CleanupCopyStep ==
  ASSUME Kind = "ufw", TypeOK, RulesBacked, CleanupCopy, [Next]_vars
  PROVE  CleanupCopy'
<1>1. CASE CleanupLoad
  BY <1>1 DEF CleanupLoad, CleanupCopy, Backed, Entered, Serving
<1>2. CASE CleanupTruncate
  BY <1>2 DEF CleanupTruncate, Truncate, CleanupCopy, Backed, Entered, Serving
<1>3. CASE CleanupWrite
  BY <1>3 DEF CleanupWrite, CleanupCopy, Backed, Entered, Serving
<1>4. ASSUME NEW i \in Instances, NEW c \in Clients, CleanupDelete(i, c)
      PROVE CleanupCopy'
  <2>1. accept \in Accepts /\ \A j \in Instances, d \in Clients : accept[j][d] \in {0, 1}
    BY DEF TypeOK, FirewallOK, Rules, Accepts, RulesBacked
  <2>2. accept'[i][c] = 0 /\ \A j \in Instances, d \in Clients : accept'[j][d] \in {0, accept[j][d]}
    <3>0. accept[i][c] \in {0, 1} /\ [accept EXCEPT ![i][c] = @ - 1][i][c] = accept[i][c] - 1
      BY <2>1, OneLess
    <3>1. accept[i][c] > 0 => [accept EXCEPT ![i][c] = @ - 1][i][c] = 0
      BY <3>0
    <3>2. QED BY <1>4, <2>1, <3>1, RuleEdits DEF CleanupDelete, Accepts
  <2>3. \A j \in Instances, d \in Clients :
          <<j, d>> # <<i, c>> => csnap'[j][d] = csnap[j][d]
    BY <1>4, RemainingType, EntryEdits DEF CleanupDelete, TypeOK, GrantsOK
  <2>4. /\ expiry' = expiry /\ hpc' = hpc /\ hreq' = hreq /\ cpc = "delete"
        /\ stale' = stale
    BY <1>4 DEF CleanupDelete
  <2>5. \A j \in Instances, d \in Clients : Backed(j, d) => Backed(j, d)'
    BY <2>2, <2>4 DEF Backed, Serving
  <2>6. Backed(i, c)'
    BY <2>2 DEF Backed
  <2>7. QED BY <1>4, <2>3, <2>4, <2>5, <2>6 DEF CleanupCopy, Entered
<1>5. CASE AddStart
  BY <1>5 DEF AddStart, CleanupCopy, Backed, Entered, Serving
<1>6. CASE AddList
  BY <1>6 DEF AddList, CleanupCopy, Backed, Entered, Serving
<1>7. CASE Unchain
  <2>1. accept \in Accepts /\ \A j \in Instances, d \in Clients : accept[j][d] \in {0, 1}
    BY DEF TypeOK, FirewallOK, Rules, Accepts, RulesBacked
  <2>2. \A j \in Instances, d \in Clients : accept'[j][d] \in {0, accept[j][d]}
    BY <1>7, <2>1 DEF Unchain, NoRules, Accepts
  <2>3. QED BY <1>7, <2>2 DEF Unchain, CleanupCopy, Backed, Entered, Serving
<1>8. CASE RemoveUnlist
  BY <1>8 DEF RemoveUnlist, CleanupCopy, Backed, Entered, Serving
<1>9. ASSUME NEW i \in Instances, AddChain(i) PROVE CleanupCopy'
  BY <1>9 DEF AddChain, CleanupCopy, Backed, Entered, Serving
<1>10. ASSUME NEW i \in Instances, RemoveStop(i) PROVE CleanupCopy'
  BY <1>10 DEF RemoveStop, CleanupCopy, Backed, Entered, Serving
<1>11. CASE Tick
  <2>1. \A j \in Instances, d \in Clients : csnap'[j][d] = NoEntry <=> csnap[j][d] = NoEntry
    BY <1>11, AgedType DEF Tick, TypeOK, GrantsOK
  <2>2. \A j \in Instances, d \in Clients : Entered(j, d)' <=> Entered(j, d)
    BY <1>11, AgedType DEF Tick, TypeOK, GrantsOK, Entered
  <2>3. QED BY <1>11, <2>1, <2>2 DEF Tick, CleanupCopy, Backed, Serving
<1>12. CASE Hangup
  BY <1>12 DEF Hangup, CleanupCopy, Backed, Entered, Serving
<1>13. CASE Reboot
  BY <1>13 DEF Reboot, CleanupCopy, Backed, Entered, Serving
<1>14. ASSUME NEW t \in Threads, HandlerInsert(t) PROVE CleanupCopy'
  <2> DEFINE i == hreq[t][1]
             c == hreq[t][2]
  <2>1. \A s \in Threads, j \in Instances, d \in Clients : Serving(s, j, d) => Serving(s, j, d)'
    BY <1>14 DEF HandlerInsert, Serving, TypeOK, GrantsOK
  <2>2. i \in Instances /\ c \in Clients /\ hreq[t] = <<i, c>> /\ accept \in Accepts
    BY <1>14 DEF HandlerInsert, TypeOK, FirewallOK, GrantsOK, Rules, Accepts
  <2>3. Serving(t, i, c)'
    BY <1>14, <2>2 DEF HandlerInsert, Serving, TypeOK, GrantsOK
  <2>4. \A j \in Instances, d \in Clients :
          <<j, d>> # <<i, c>> => accept'[j][d] = accept[j][d]
    <3>1. accept[i][c] + 1 \in Nat
      BY <2>2 DEF Accepts
    <3>2. QED BY <1>14, <2>2, <3>1, RuleEdits DEF HandlerInsert
  <2>5. QED BY <1>14, <2>1, <2>2, <2>3, <2>4 DEF HandlerInsert, CleanupCopy, Backed, Entered
<1>15. ASSUME NEW t \in Threads, HandlerLoad(t) PROVE CleanupCopy'
  <2>1. \A s \in Threads, j \in Instances, d \in Clients : Serving(s, j, d) => Serving(s, j, d)'
    BY <1>15 DEF HandlerLoad, Serving, TypeOK, GrantsOK
  <2>2. stale' \cap {"cleanup"} = stale \cap {"cleanup"}
    BY <1>15, ThreadsAssumption DEF HandlerLoad
  <2>3. accept' = accept /\ expiry' = expiry /\ csnap' = csnap /\ cpc' = cpc
    BY <1>15 DEF HandlerLoad, Truncate
  <2>4. QED BY <2>1, <2>2, <2>3 DEF CleanupCopy, Backed, Entered
<1>16. ASSUME NEW t \in Threads, HandlerTruncate(t) PROVE CleanupCopy'
  <2>1. \A s \in Threads, j \in Instances, d \in Clients : Serving(s, j, d) => Serving(s, j, d)'
    BY <1>16 DEF HandlerTruncate, Serving, TypeOK, GrantsOK
  <2>2. stale' \cap {"cleanup"} = stale \cap {"cleanup"}
    BY <1>16, ThreadsAssumption DEF HandlerTruncate
  <2>3. accept' = accept /\ expiry' = expiry /\ csnap' = csnap /\ cpc' = cpc
    BY <1>16 DEF HandlerTruncate, Truncate
  <2>4. QED BY <2>1, <2>2, <2>3 DEF CleanupCopy, Backed, Entered
<1>17. ASSUME NEW t \in Threads, HandlerWrite(t) PROVE CleanupCopy'
  <2>1. cpc # "idle" => "cleanup" \in stale'
    BY <1>17, ThreadsAssumption DEF HandlerWrite, Write, Holders
  <2>2. QED BY <1>17, <2>1 DEF HandlerWrite, CleanupCopy
<1>18. ASSUME NEW t \in Threads, NEW i \in Instances, NEW c \in Clients, HandlerCheck(t, i, c)
      PROVE CleanupCopy'
  <2>1. \A s \in Threads, j \in Instances, d \in Clients : Serving(s, j, d) => Serving(s, j, d)'
    BY <1>18 DEF HandlerCheck, Serving, TypeOK, GrantsOK
  <2>2. stale' \cap {"cleanup"} = stale \cap {"cleanup"}
    BY <1>18, ThreadsAssumption DEF HandlerCheck
  <2>3. accept' = accept /\ expiry' = expiry /\ csnap' = csnap /\ cpc' = cpc
    BY <1>18 DEF HandlerCheck, Truncate
  <2>4. QED BY <2>1, <2>2, <2>3 DEF CleanupCopy, Backed, Entered
<1>19. ASSUME NEW i \in Instances, UnitStarts(i) PROVE CleanupCopy'
  BY <1>19 DEF UnitStarts, CleanupCopy, Backed, Entered, Serving
<1>20. CASE UNCHANGED vars
  BY <1>20 DEF vars, CleanupCopy, Backed, Entered, Serving
<1>21. CASE AddOpen
  BY <1>21 DEF AddOpen, CleanupCopy, Backed, Entered, Serving
<1>22. CASE Save
  BY <1>22 DEF Save, CleanupCopy, Backed, Entered, Serving
<1>23. CASE Shut
  BY <1>23 DEF Shut, CleanupCopy, Backed, Entered, Serving, Ends
<1>24. QED
  BY <1>1, <1>2, <1>3, <1>4, <1>5, <1>6, <1>7, <1>8, <1>9, <1>10, <1>11,
       <1>12, <1>13, <1>14, <1>15, <1>16, <1>17, <1>18, <1>19, <1>20, <1>21, <1>22, <1>23
  DEF Next, CleanupWorks, Panel, HandlerWorks

(* Only a writer leaves the file empty, and it fills it. *)
LEMMA FileStep ==
  ASSUME TypeOK, FileGood, [Next]_vars, ~raced', ~cut'
  PROVE  FileGood'
<1>1. CASE CleanupLoad
  BY <1>1, ThreadsAssumption DEF CleanupLoad, FileGood
<1>2. CASE CleanupTruncate
  BY <1>2 DEF CleanupTruncate, Truncate, TypeOK, GrantsOK, FileGood
<1>3. CASE CleanupWrite
  BY <1>3, ThreadsAssumption DEF CleanupWrite, Write, Holders, FileGood
<1>4. ASSUME NEW i \in Instances, NEW c \in Clients, CleanupDelete(i, c)
      PROVE FileGood'
  BY <1>4 DEF CleanupDelete, FileGood
<1>5. CASE AddStart
  BY <1>5 DEF AddStart, FileGood
<1>6. CASE AddList
  BY <1>6 DEF AddList, FileGood
<1>7. CASE Unchain
  BY <1>7 DEF Unchain, FileGood
<1>8. CASE RemoveUnlist
  BY <1>8 DEF RemoveUnlist, FileGood
<1>9. ASSUME NEW i \in Instances, AddChain(i) PROVE FileGood'
  BY <1>9 DEF AddChain, FileGood
<1>10. ASSUME NEW i \in Instances, RemoveStop(i) PROVE FileGood'
  BY <1>10 DEF RemoveStop, FileGood
<1>11. CASE Tick
  BY <1>11 DEF Tick, FileGood
<1>12. CASE Hangup
  BY <1>12 DEF Hangup, FileGood
<1>13. CASE Reboot
  BY <1>13 DEF Reboot, FileGood
<1>14. ASSUME NEW t \in Threads, HandlerInsert(t) PROVE FileGood'
  BY <1>14 DEF HandlerInsert, TypeOK, GrantsOK, FileGood
<1>15. ASSUME NEW t \in Threads, HandlerLoad(t) PROVE FileGood'
  <2>1. file' = file /\ cpc' = cpc /\ (\A s \in Threads : hpc'[s] = "write" <=> hpc[s] = "write")
    BY <1>15 DEF HandlerLoad, TypeOK, GrantsOK
  <2>2. \A s \in Procs : hpc[t] # "write" /\ s # t => (s \in stale' <=> s \in stale)
    BY <1>15 DEF HandlerLoad
  <2>3. hpc[t] # "write" /\ t # "cleanup"
    BY <1>15, ThreadsAssumption DEF HandlerLoad
  <2>4. QED BY <2>1, <2>2, <2>3 DEF FileGood, Procs
<1>16. ASSUME NEW t \in Threads, HandlerTruncate(t) PROVE FileGood'
  BY <1>16 DEF HandlerTruncate, Truncate, TypeOK, GrantsOK, FileGood
<1>17. ASSUME NEW t \in Threads, HandlerWrite(t) PROVE FileGood'
  BY <1>17, ThreadsAssumption
  DEF HandlerWrite, Write, Holders, TypeOK, GrantsOK, FileGood
<1>18. ASSUME NEW t \in Threads, NEW i \in Instances, NEW c \in Clients, HandlerCheck(t, i, c)
      PROVE FileGood'
  BY <1>18 DEF HandlerCheck, TypeOK, GrantsOK, FileGood
<1>19. ASSUME NEW i \in Instances, UnitStarts(i) PROVE FileGood'
  BY <1>19 DEF UnitStarts, FileGood
<1>20. CASE UNCHANGED vars
  BY <1>20 DEF vars, FileGood
<1>21. CASE AddOpen
  BY <1>21 DEF AddOpen, FileGood
<1>22. CASE Save
  BY <1>22 DEF Save, FileGood
<1>23. CASE Shut
  BY <1>23 DEF Shut, FileGood, Ends
<1>24. QED
  BY <1>1, <1>2, <1>3, <1>4, <1>5, <1>6, <1>7, <1>8, <1>9, <1>10, <1>11,
       <1>12, <1>13, <1>14, <1>15, <1>16, <1>17, <1>18, <1>19, <1>20, <1>21, <1>22, <1>23
  DEF Next, CleanupWorks, Panel, HandlerWorks

(* What has happened stays on record. *)
LEMMA HistoryStep == [Next]_vars /\ ~raced' /\ ~cut' => ~raced /\ ~cut
<1> SUFFICES ASSUME [Next]_vars, ~raced', ~cut' PROVE ~raced /\ ~cut
  OBVIOUS
<1>1. CASE CleanupLoad
  BY <1>1 DEF CleanupLoad
<1>2. CASE CleanupTruncate
  BY <1>2 DEF CleanupTruncate
<1>3. CASE CleanupWrite
  BY <1>3 DEF CleanupWrite, Write
<1>4. ASSUME NEW i \in Instances, NEW c \in Clients, CleanupDelete(i, c)
      PROVE ~raced /\ ~cut
  BY <1>4 DEF CleanupDelete
<1>5. CASE AddStart
  BY <1>5 DEF AddStart
<1>6. CASE AddList
  BY <1>6 DEF AddList
<1>7. CASE Unchain
  BY <1>7 DEF Unchain
<1>8. CASE RemoveUnlist
  BY <1>8 DEF RemoveUnlist
<1>9. ASSUME NEW i \in Instances, AddChain(i) PROVE ~raced /\ ~cut
  BY <1>9 DEF AddChain
<1>10. ASSUME NEW i \in Instances, RemoveStop(i) PROVE ~raced /\ ~cut
  BY <1>10 DEF RemoveStop
<1>11. CASE Tick
  BY <1>11 DEF Tick
<1>12. CASE Hangup
  BY <1>12 DEF Hangup
<1>13. CASE Reboot
  BY <1>13 DEF Reboot
<1>14. ASSUME NEW t \in Threads, HandlerInsert(t) PROVE ~raced /\ ~cut
  BY <1>14 DEF HandlerInsert
<1>15. ASSUME NEW t \in Threads, HandlerLoad(t) PROVE ~raced /\ ~cut
  BY <1>15 DEF HandlerLoad
<1>16. ASSUME NEW t \in Threads, HandlerTruncate(t) PROVE ~raced /\ ~cut
  BY <1>16 DEF HandlerTruncate
<1>17. ASSUME NEW t \in Threads, HandlerWrite(t) PROVE ~raced /\ ~cut
  BY <1>17 DEF HandlerWrite, Write
<1>18. ASSUME NEW t \in Threads, NEW i \in Instances, NEW c \in Clients, HandlerCheck(t, i, c)
      PROVE ~raced /\ ~cut
  BY <1>18 DEF HandlerCheck
<1>19. ASSUME NEW i \in Instances, UnitStarts(i) PROVE ~raced /\ ~cut
  BY <1>19 DEF UnitStarts
<1>20. CASE UNCHANGED vars
  BY <1>20 DEF vars
<1>21. CASE AddOpen
  BY <1>21 DEF AddOpen
<1>22. CASE Save
  BY <1>22 DEF Save
<1>23. CASE Shut
  BY <1>23 DEF Shut, Ends
<1>24. QED
  BY <1>1, <1>2, <1>3, <1>4, <1>5, <1>6, <1>7, <1>8, <1>9, <1>10, <1>11,
       <1>12, <1>13, <1>14, <1>15, <1>16, <1>17, <1>18, <1>19, <1>20, <1>21, <1>22, <1>23
  DEF Next, CleanupWorks, Panel, HandlerWorks

(* A rule without a recorded end never outlives the requests and cleanups  *)
(* that were undisturbed: what the gate grants, it can take back.          *)
THEOREM GrantsTimed ==
  ASSUME Kind = "ufw"
  PROVE  Spec => []RulesTimed
<1>1. Init => TimedInv
  BY DEF Init, TimedInv, RulesBacked, HandlerCopies, CleanupCopy, FileGood,
     Entered, Backed, NoRules
<1>2. TypeOK /\ TimedInv /\ [Next]_vars => TimedInv'
  BY HistoryStep, RulesStep, HandlerCopiesStep, CleanupCopyStep, FileStep DEF TimedInv
<1>3. TypeOK /\ TimedInv => RulesTimed
  BY DEF TimedInv, RulesBacked, FileGood, RulesTimed, Timed, Entered,
     Backed, Serving, NobodyAtWork
<1>4. QED BY <1>1, <1>2, <1>3, TypeCorrect, PTL DEF Spec
=============================================================================
