--------------------------- MODULE FrontPortProofs ---------------------------
(***************************************************************************)
(* TypeOK, ListedServed, ChangeServed, OldServed and Comeback of FrontPort,*)
(* for every set of routes and inner ports and any number of faults.       *)
(*                                                                         *)
(* The inductive invariant (IInv) says of every sequence of steps an       *)
(* option may still have to take what the ones before it have done (Turn), *)
(* of every other router that what its menu lists is what it has (Others), *)
(* and of all programs that what runs is installed (Sound) and will come   *)
(* back (Boots).                                                           *)
(***************************************************************************)
EXTENDS FrontPort, SequenceTheorems, TLAPS

(* TypeOK in its two parts: the types, and who owns which port.            *)
Types ==
  /\ installed \subseteq Programs /\ enabled \subseteq Programs /\ booting \subseteq Programs
  /\ conf \in [Programs -> Conf] /\ run \in [Programs -> Conf]
  /\ registry \in [Routers -> SUBSET Names] /\ mode \in [Programs -> Asked \cup {NoPort}]
  /\ open \in BOOLEAN /\ saved \in BOOLEAN
  /\ prog \in Programs /\ want \in Conf /\ failed \in BOOLEAN
  /\ before \in [conf : Conf, run : Conf, open : BOOLEAN]
  /\ faults \in 0..MaxFaults /\ cut \in BOOLEAN

Alone(p, what) == what.port = NoPort \/ \A q \in Programs \ {p} : run[q].port # what.port

(* TypeOK is its two parts.                                                *)
LEMMA Parts == TypeOK <=> Types /\ OneOwner
  BY DEF TypeOK, Types

(* What is told to start listens on a port nobody else has, or not at all. *)
LEMMA StartsAlone ==
  ASSUME NEW p \in Programs, Types
  PROVE  LET what == IF Starts(p) THEN conf[p] ELSE Off IN what \in Conf /\ Alone(p, what)
  <1>1. Off \in Conf /\ Off.port = NoPort
    BY DEF Off, Conf
  <1>2. conf[p] \in Conf
    BY DEF Types
  <1>3. Starts(p) => Alone(p, conf[p])
    BY DEF Starts, Free, Alone
  <1>4. Alone(p, Off)
    BY <1>1 DEF Alone
  <1>. QED
    BY <1>1, <1>2, <1>3, <1>4

(* A program that starts alone on its port leaves every port one owner.    *)
LEMMA OwnerKept ==
  ASSUME OneOwner, run \in [Programs -> Conf], NEW p \in Programs, NEW what \in Conf, Alone(p, what),
         run' = [run EXCEPT ![p] = what]
  PROVE  run' \in [Programs -> Conf] /\ OneOwner'
  BY DEF OneOwner, Alone

(* Who owns which port depends on nothing but what runs.                   *)
LEMMA OwnerStays ==
  ASSUME OneOwner, UNCHANGED run
  PROVE  OneOwner'
  BY DEF OneOwner

(* An option that begins keeps the types.                                  *)
LEMMA BeginTypes ==
  ASSUME TypeOK, NEW o, NEW p \in Programs, NEW port \in Asked \cup {NoPort}, NEW routes \in SUBSET Names,
         NEW steps, Begin(o, p, port, routes, steps)
  PROVE  TypeOK'
  <1>1. [port |-> port, routes |-> routes, ok |-> TRUE] \in Conf
    BY DEF Conf
  <1>2. [conf |-> conf[p], run |-> run[p], open |-> open] \in [conf : Conf, run : Conf, open : BOOLEAN]
    BY Parts DEF Types
  <1>3. Types'
    BY <1>1, <1>2, Parts DEF Types, Begin, records, firewall, history
  <1>4. OneOwner'
    BY Parts, OwnerStays DEF Begin
  <1>. QED
    BY <1>3, <1>4, Parts DEF Types, TypeOK, OneOwner

(* So does whatever option is chosen.                                      *)
LEMMA ChooseTypes ==
  ASSUME TypeOK, Choose
  PROVE  TypeOK'
  <1>. DEFINE Typed(p, port, routes) == p \in Programs /\ port \in Asked \cup {NoPort} /\ routes \in SUBSET Names
  <1>0. /\ registry["haproxy"] \in SUBSET Names /\ registry["nginx"] \in SUBSET Names
        /\ mode["haproxy"] \in Asked \cup {NoPort} /\ mode["nginx"] \in Asked \cup {NoPort}
        /\ Front \in Asked /\ Listen("haproxy") \in Asked
        /\ "sslh" \in Programs /\ "haproxy" \in Programs /\ "nginx" \in Programs
    BY Parts DEF Types, Programs, Routers, Asked, Listen
  <1>1. CASE SetupSslh
    BY <1>0, <1>1, BeginTypes DEF SetupSslh
  <1>2. CASE SetupNginx
    <2>1. PICK port \in Asked : Begin("setup", "nginx", port, registry["nginx"], Setup("nginx", port))
      BY <1>2 DEF SetupNginx
    <2>. QED
      BY <2>1, <1>0, BeginTypes
  <1>3. CASE ChangePaths
    <2>1. PICK o, routes : /\ routes \in SUBSET Names
                           /\ Begin(o, "nginx", mode["nginx"], routes, Trying("nginx"))
      BY <1>3, <1>0 DEF ChangePaths
    <2>. QED
      BY <2>1, <1>0, BeginTypes
  <1>4. CASE \E name \in Names : AddDomain(name)
    <2>1. PICK name \in Names, port \in Asked :
            Begin("add", "haproxy", port, registry["haproxy"] \cup {name}, Setup("haproxy", port))
      BY <1>4, <1>0 DEF AddDomain
    <2>2. registry["haproxy"] \cup {name} \in SUBSET Names
      BY <1>0
    <2>. QED
      BY <2>1, <2>2, <1>0, BeginTypes
  <1>5. CASE \E name \in Names : DropDomain(name)
    <2>1. PICK port, routes, steps : /\ port \in Asked \cup {NoPort} /\ routes \in SUBSET Names
                                     /\ Begin("drop", "haproxy", port, routes, steps)
      <3>1. PICK name \in Names : DropDomain(name)
        BY <1>5
      <3>2. registry["haproxy"] \ {name} \in SUBSET Names /\ {} \in SUBSET Names
        BY <1>0
      <3>. QED
        BY <3>1, <3>2, <1>0 DEF DropDomain
    <2>. QED
      BY <2>1, <1>0, BeginTypes
  <1>6. CASE \E p \in Programs : Toggle(p) \/ Restart(p) \/ Remove(p)
    <2>1. PICK p \in Programs : Toggle(p) \/ Restart(p) \/ Remove(p)
      BY <1>6
    <2>2. PICK o, steps : Begin(o, p, NoPort, {}, steps)
      BY <2>1 DEF Toggle, Restart, Remove
    <2>. QED
      BY <2>2, BeginTypes
  <1>. QED
    BY <1>1, <1>2, <1>3, <1>4, <1>5, <1>6 DEF Choose

(* A step that gives a program something to run, or nothing.               *)
LEMMA RunsTypes ==
  ASSUME TypeOK, NEW what \in Conf, Alone(prog, what), Runs(what),
         Proceeds \/ (\E steps : FailsTo(steps)), UNCHANGED <<booting, cut, faults>>
  PROVE  TypeOK'
  <1>1. run' \in [Programs -> Conf] /\ OneOwner'
    BY Parts, OwnerKept DEF Types, Runs
  <1>2. Types'
    BY Parts, <1>1 DEF Types, Runs, Proceeds, FailsTo, records, firewall
  <1>. QED
    BY <1>1, <1>2 DEF Types, TypeOK

(* A step that starts and stops nothing.                                   *)
LEMMA QuietTypes ==
  ASSUME OneOwner, Types', UNCHANGED run
  PROVE  TypeOK'
  BY OwnerStays DEF Types, TypeOK

(* Every step of an option keeps the types.                                *)
LEMMA StepTypes ==
  ASSUME TypeOK, Step, UNCHANGED <<booting, cut>>
  PROVE  TypeOK'
  <1>. USE DEF Proceeds, FailsTo
  <1>0. Types /\ OneOwner
    BY Parts
  <1>a. Started \in Conf /\ Alone(prog, Started)
    BY <1>0, StartsAlone DEF Started, Types
  <1>b. Off \in Conf /\ Alone(prog, Off)
    BY DEF Off, Conf, Alone
  <1>c. UNCHANGED <<booting, cut, faults>>
    BY DEF Step
  <1>1. CASE Install
    <2>1. Types'
      BY <1>0, <1>c, <1>1 DEF Install, Types, programs, records, firewall
    <2>2. UNCHANGED run
      BY <1>1 DEF Install, programs
    <2>. QED
      BY <1>0, <2>1, <2>2, QuietTypes
  <1>2. CASE Test
    <2>1. Types'
      BY <1>0, <1>c, <1>2 DEF Test, Types, programs, records, firewall
    <2>2. UNCHANGED run
      BY <1>2 DEF Test, programs
    <2>. QED
      BY <1>0, <2>1, <2>2, QuietTypes
  <1>3. CASE Verify
    <2>1. Types'
      BY <1>0, <1>c, <1>3 DEF Verify, Types, programs, records, firewall
    <2>2. UNCHANGED run
      BY <1>3 DEF Verify, programs
    <2>. QED
      BY <1>0, <2>1, <2>2, QuietTypes
  <1>4. CASE PutBack
    <2>1. Types'
      BY <1>0, <1>c, <1>4 DEF PutBack, Types, programs, records, firewall
    <2>2. UNCHANGED run
      BY <1>4 DEF PutBack, programs
    <2>. QED
      BY <1>0, <2>1, <2>2, QuietTypes
  <1>5. CASE Disable
    <2>1. Types'
      BY <1>0, <1>c, <1>5 DEF Disable, Types, programs, records, firewall
    <2>2. UNCHANGED run
      BY <1>5 DEF Disable, programs
    <2>. QED
      BY <1>0, <2>1, <2>2, QuietTypes
  <1>6. CASE Uninstall
    <2>0. PICK rest \in {Bare, conf[prog]} : conf' = [conf EXCEPT ![prog] = rest]
      BY <1>6 DEF Uninstall
    <2>a. Bare \in Conf
      BY DEF Bare, Conf
    <2>b. conf' \in [Programs -> Conf]
      BY <1>0, <2>0, <2>a DEF Types
    <2>1. Types'
      BY <1>0, <1>c, <1>6, <2>b DEF Uninstall, Types, programs, records, firewall
    <2>2. UNCHANGED run
      BY <1>6 DEF Uninstall, programs
    <2>. QED
      BY <1>0, <2>1, <2>2, QuietTypes
  <1>7. CASE Open
    <2>1. Types'
      BY <1>0, <1>c, <1>7 DEF Open, Types, programs, records, firewall
    <2>2. UNCHANGED run
      BY <1>7 DEF Open, programs
    <2>. QED
      BY <1>0, <2>1, <2>2, QuietTypes
  <1>8. CASE Close
    <2>1. Types'
      BY <1>0, <1>c, <1>8 DEF Close, Types, programs, records, firewall
    <2>2. UNCHANGED run
      BY <1>8 DEF Close, programs
    <2>. QED
      BY <1>0, <2>1, <2>2, QuietTypes
  <1>9. CASE Persist
    <2>1. Types'
      BY <1>0, <1>c, <1>9 DEF Persist, Types, programs, records, firewall
    <2>2. UNCHANGED run
      BY <1>9 DEF Persist, programs
    <2>. QED
      BY <1>0, <2>1, <2>2, QuietTypes
  <1>10. CASE Save
    <2>0. want.routes \in SUBSET Names
      BY <1>0 DEF Types, Conf
    <2>a. registry' \in [Routers -> SUBSET Names]
      BY <1>0, <1>10, <2>0 DEF Save, Types
    <2>1. Types'
      BY <1>0, <1>c, <1>10, <2>a DEF Save, Types, programs, records, firewall
    <2>2. UNCHANGED run
      BY <1>10 DEF Save, programs
    <2>. QED
      BY <1>0, <2>1, <2>2, QuietTypes
  <1>11. CASE SaveMode
    <2>0. want.port \in Asked \cup {NoPort}
      BY <1>0 DEF Types, Conf
    <2>a. mode' \in [Programs -> Asked \cup {NoPort}]
      BY <1>0, <1>11, <2>0 DEF SaveMode, Types
    <2>1. Types'
      BY <1>0, <1>c, <1>11, <2>a DEF SaveMode, Types, programs, records, firewall
    <2>2. UNCHANGED run
      BY <1>11 DEF SaveMode, programs
    <2>. QED
      BY <1>0, <2>1, <2>2, QuietTypes
  <1>12. CASE Stop
    BY <1>a, <1>b, <1>c, <1>12, RunsTypes DEF Stop
  <1>13. CASE Start
    BY <1>a, <1>b, <1>c, <1>13, RunsTypes DEF Start
  <1>14. CASE RestartIt
    BY <1>a, <1>b, <1>c, <1>14, RunsTypes DEF RestartIt
  <1>15. CASE Rerun
    <2>1. CASE before.conf = Bare
      <3>1. run' = run /\ Types'
        BY <1>0, <1>c, <1>15, <2>1 DEF Rerun, Runs, Types, records, firewall
      <3>. QED
        BY <1>0, <3>1, QuietTypes
    <2>2. CASE before.conf # Bare
      BY <1>a, <1>c, <1>15, <2>2, RunsTypes DEF Rerun
    <2>. QED
      BY <2>1, <2>2
  <1>16. CASE Resume
    BY <1>a, <1>b, <1>c, <1>16, RunsTypes DEF Resume
  <1>17. CASE Pause
    <2>1. CASE Proceeds /\ Runs(Off)
      BY <1>b, <1>c, <2>1, RunsTypes
    <2>2. CASE UNCHANGED <<op, prog, want, failed, before>> /\ UNCHANGED <<programs, records, firewall>>
      <3>1. Types' /\ UNCHANGED run
        BY <1>0, <1>c, <2>2 DEF Types, programs, records, firewall
      <3>. QED
        BY <1>0, <3>1, QuietTypes
    <2>. QED
      BY <1>17, <2>1, <2>2 DEF Pause
  <1>. QED
    BY <1>1, <1>2, <1>3, <1>4, <1>5, <1>6, <1>7, <1>8, <1>9, <1>10, <1>11, <1>12, <1>13, <1>14, <1>15, <1>16, <1>17 DEF Step

(* So does the writing of a file.                                          *)
LEMMA WriteTypes ==
  ASSUME TypeOK, Write, UNCHANGED <<booting, cut>>
  PROVE  TypeOK'
  <1>0. Types /\ OneOwner
    BY Parts
  <1>1. PICK good \in BOOLEAN :
          /\ conf' = [conf EXCEPT ![prog] = [want EXCEPT !.ok = good]]
          /\ ~good => faults < MaxFaults
          /\ faults' = IF good THEN faults ELSE faults + 1
    BY DEF Write
  <1>2. [want EXCEPT !.ok = good] \in Conf
    BY <1>0 DEF Types, Conf
  <1>3. conf' \in [Programs -> Conf]
    BY <1>0, <1>1, <1>2 DEF Types
  <1>4. faults' \in 0..MaxFaults
    BY <1>0, <1>1, FaultsAssumption DEF Types
  <1>5. Types' /\ UNCHANGED run
    BY <1>0, <1>3, <1>4 DEF Write, Proceeds, Types, records, firewall
  <1>. QED
    BY <1>0, <1>5, QuietTypes

(* A dead panel forgets its option and nothing else.                       *)
LEMMA DiesTypes ==
  ASSUME Types, Dies
  PROVE  /\ prog' \in Programs /\ want' \in Conf /\ failed' \in BOOLEAN
         /\ before' \in [conf : Conf, run : Conf, open : BOOLEAN]
         /\ faults' \in 0..MaxFaults /\ cut' \in BOOLEAN
  <1>1. Off \in Conf /\ Bare \in Conf
    BY DEF Off, Bare, Conf
  <1>2. faults' \in 0..MaxFaults
    BY FaultsAssumption DEF Types, Dies
  <1>. QED
    BY <1>1, <1>2 DEF Dies, Nothing, Programs

(* The types of every variable, and one owner for every port, hold for     *)
(* every set of names and ports, whatever fails and whenever.              *)
THEOREM TypeCorrect == Spec => []TypeOK
  <1>1. Init => TypeOK
    <2>1. Off \in Conf /\ Bare \in Conf /\ Off.port = NoPort
      BY DEF Off, Bare, Conf
    <2>. SUFFICES ASSUME Init PROVE Types /\ OneOwner
      BY Parts
    <2>2. Nothing \in [conf : Conf, run : Conf, open : BOOLEAN]
      BY <2>1 DEF Nothing
    <2>a. conf \in [Programs -> Conf] /\ run \in [Programs -> Conf]
      BY <2>1 DEF Init
    <2>b. registry \in [Routers -> SUBSET Names] /\ mode \in [Programs -> Asked \cup {NoPort}]
      BY DEF Init
    <2>c. faults \in 0..MaxFaults
      BY FaultsAssumption DEF Init
    <2>d. prog \in Programs /\ want \in Conf
      BY <2>1 DEF Init, Programs
    <2>e. before \in [conf : Conf, run : Conf, open : BOOLEAN]
      BY <2>2 DEF Init
    <2>3. Types
      BY <2>a, <2>b, <2>c, <2>d, <2>e DEF Init, Types
    <2>4. OneOwner
      BY <2>1 DEF Init, OneOwner
    <2>. QED
      BY <2>3, <2>4
  <1>2. TypeOK /\ [Next]_vars => TypeOK'
    <2>. SUFFICES ASSUME TypeOK, [Next]_vars PROVE TypeOK'
      OBVIOUS
    <2>0. Types /\ OneOwner
      BY Parts
    <2>1. CASE Choose
      BY <2>1, ChooseTypes
    <2>2. CASE Finish
      <3>1. Off \in Conf /\ Bare \in Conf
        BY DEF Off, Bare, Conf
      <3>2. Types' /\ UNCHANGED run
        BY <2>0, <2>2, <3>1 DEF Finish, Types, Nothing, Programs, records, firewall, history
      <3>. QED
        BY <2>0, <3>2, QuietTypes
    <2>3. CASE Step /\ UNCHANGED <<booting, cut>>
      BY <2>3, StepTypes
    <2>4. CASE Write /\ UNCHANGED <<booting, cut>>
      BY <2>4, WriteTypes
    <2>5. CASE Hangup
      <3>1. Types' /\ UNCHANGED run
        BY <2>0, <2>5, DiesTypes DEF Hangup, Types, programs, records, firewall
      <3>. QED
        BY <2>0, <3>1, QuietTypes
    <2>6. CASE Reboot
      <3>1. run' \in [Programs -> Conf] /\ OneOwner'
        BY <2>6 DEF Reboot, Off, Conf, OneOwner
      <3>2. Types'
        BY <2>0, <2>6, <3>1, DiesTypes DEF Reboot, Types, records
      <3>. QED
        BY <3>1, <3>2 DEF Types, TypeOK
    <2>7. CASE \E p \in Programs : Boot(p)
      <3>1. PICK p \in Programs : Boot(p)
        BY <2>7
      <3>2. run' \in [Programs -> Conf] /\ OneOwner'
        BY <2>0, <3>1, StartsAlone, OwnerKept DEF Boot, Types
      <3>3. Types'
        BY <2>0, <3>1, <3>2 DEF Boot, Types, records, firewall, panel, history
      <3>. QED
        BY <3>2, <3>3 DEF Types, TypeOK
    <2>8. CASE UNCHANGED vars
      <3>1. Types' /\ UNCHANGED run
        BY <2>0, <2>8 DEF vars, Types, programs, records, firewall, panel, history
      <3>. QED
        BY <2>0, <3>1, QuietTypes
    <2>. QED
      BY <2>1, <2>2, <2>3, <2>4, <2>5, <2>6, <2>7, <2>8 DEF Next
  <1>. QED
    BY <1>1, <1>2, PTL DEF Spec

-----------------------------------------------------------------------------
(* What an option has done and has still to do: the inductive invariant    *)
(* of the other properties.                                                *)

(* What is left of an option that applies a change while the file is not   *)
(* written: of sslh and HAProxy, and of nginx, which tests its file.       *)
Plain == <<"write", "restart", "verify", "save", "saveMode">>
PlainOpen == <<"open", "write", "restart", "verify", "save", "saveMode">>
Tested == <<"write", "test", "restart", "verify", "save", "saveMode">>
TestedOpen == <<"open", "write", "test", "restart", "verify", "save", "saveMode">>
Resumed == <<"resume", "write", "test", "restart", "verify", "save", "saveMode">>
ResumedOpen == <<"resume", "open", "write", "test", "restart", "verify", "save", "saveMode">>
Paused == <<"pause", "resume", "write", "test", "restart", "verify", "save", "saveMode">>
PausedOpen == <<"pause", "resume", "open", "write", "test", "restart", "verify", "save", "saveMode">>
Installed == <<"install", "write", "restart", "verify", "save", "saveMode">>
InstalledOpen == <<"install", "open", "write", "restart", "verify", "save", "saveMode">>
Setting == <<"install", "pause", "resume", "write", "test", "restart", "verify", "save", "saveMode">>
SettingOpen == <<"install", "pause", "resume", "open", "write", "test", "restart", "verify", "save", "saveMode">>

Pausing == {Resumed, ResumedOpen}
Opening(p) == IF p = "nginx" THEN {TestedOpen, ResumedOpen, PausedOpen, SettingOpen} ELSE {PlainOpen, InstalledOpen}
Unwritten(p) == Opening(p) \cup (IF p = "nginx" THEN {Tested, Resumed, Paused, Setting} ELSE {Plain, Installed})

(* And after it is.                                                        *)
Untested == <<"test", "restart", "verify", "save", "saveMode">>
Unstarted == <<"restart", "verify", "save", "saveMode">>
Unverified == <<"verify", "save", "saveMode">>
Unsaved == <<"save", "saveMode">>
Halfsaved == <<"saveMode">>

(* Options that stop the program, before it is stopped and after.          *)
Stops ==
  {<<"stop">>, <<"stop", "save", "saveMode">>, <<"stop", "close", "persist", "save", "saveMode">>,
   <<"stop", "disable", "uninstall", "save", "saveMode">>,
   <<"stop", "disable", "uninstall", "close", "persist", "save", "saveMode">>}
StopsHaproxy == <<"stop", "disable", "uninstall", "close", "persist", "save">>
Stopped ==
  {<<"disable", "uninstall", "save", "saveMode">>, <<"uninstall", "save", "saveMode">>, Unsaved,
   <<"disable", "uninstall", "close", "persist", "save", "saveMode">>,
   <<"uninstall", "close", "persist", "save", "saveMode">>,
   <<"close", "persist", "save", "saveMode">>, <<"persist", "save", "saveMode">>}
StoppedHaproxy ==
  {<<"disable", "uninstall", "close", "persist", "save">>, <<"uninstall", "close", "persist", "save">>,
   <<"close", "persist", "save">>, <<"persist", "save">>, <<"save">>}

-----------------------------------------------------------------------------
(* The program ran its file before the option, and does so now.            *)
Same == before.conf # Bare /\ before.run = before.conf
Back == run[prog] \in {before.run, before.conf, Off} /\ (Same => run[prog] = before.run)

(* A router runs what it is to have.                                       *)
New == prog \in Routers => run[prog] = want /\ conf[prog] = want

(* What a router's menu lists, as it stands in the file if nothing was cut.*)
Record(p) == [port |-> Listen(p), routes |-> registry[p], ok |-> TRUE]
Kept(p) == Listed(p) => conf[p] = Record(p) /\ run[p] \in {Record(p), Off}
Known ==
  ~cut /\ prog \in Routers /\ Listed(prog) => before.conf = Record(prog) /\ before.run \in {Record(prog), Off}

(* A change that has not failed.                                           *)
Applying == op \in {"setup", "add", "drop", "decoy"} /\ want.port # NoPort
MustOpen == (op = "setup" \/ (prog = "haproxy" /\ op = "add")) /\ want.port = Front
Unchanged == todo \in Unwritten(prog) /\ conf[prog] = before.conf /\ Known /\ IF todo \in Pausing THEN run[prog] = Off ELSE Back
Changed ==
  /\ todo \in {Untested, Unstarted} /\ (todo = Untested => prog = "nginx")
  /\ conf[prog] \in {want, [want EXCEPT !.ok = FALSE]} /\ Back /\ Known
Restarted == todo = Unverified /\ New /\ Known /\ conf[prog].port = want.port /\ run[prog] \in {conf[prog], Off}
Verified == todo = Unsaved /\ New /\ Known
Registered == prog \in Routers => registry[prog] = want.routes
Saved == \/ todo = Halfsaved /\ New /\ Registered
         \/ todo = <<>> /\ New /\ Registered /\ mode[prog] = want.port
Trial ==
  /\ want.ok /\ want.port \in Asked
  /\ before.run # Off => prog \in installed
  /\ MustOpen => (open /\ saved) \/ todo \in Opening(prog)
  /\ todo \in {Unverified, Unsaved, Halfsaved, <<>>} => conf[prog] # Bare
  /\ Unchanged \/ Changed \/ Restarted \/ Verified \/ Saved

(* A change that has failed.                                               *)
Undoing ==
  /\ before.run # Off => prog \in installed
  /\ prog = "sslh" /\ before.conf = Bare => run[prog] = Off
  /\ Known
  /\ \/ todo = <<"putBack">> /\ Back
     \/ todo \in {<<"putBack", "rerun">>, <<"putBack", "rerun", "close">>}
     \/ todo \in {<<"rerun">>, <<"rerun", "close">>} /\ conf[prog] = before.conf
     \/ todo \in {<<>>, <<"close">>} /\ conf[prog] = before.conf /\ (before.conf # Bare => Back)

(* The options that stop a program or start it as it is.                   *)
Shutdown ==
  /\ want.port = NoPort /\ want.routes = {}
  /\ \/ /\ todo \in Stops \/ (todo = StopsHaproxy /\ prog = "haproxy")
        /\ conf[prog] = before.conf /\ Known
     \/ /\ todo \in Stopped \/ (todo \in StoppedHaproxy /\ prog = "haproxy")
        /\ run[prog] = Off /\ (prog \in Routers => conf[prog] = before.conf) /\ Known
     \/ todo = Halfsaved /\ run[prog] = Off /\ (prog \in Routers => registry[prog] = {})
     \/ /\ todo = <<>> /\ run[prog] = Off
        /\ prog \in Routers => ~Listed(prog) \/ (conf[prog] = before.conf /\ Known)
Starting ==
  /\ op \in {"start", "restart"} /\ todo \in {<<"install", "start">>, <<"start">>, <<"again">>, <<>>}
  /\ conf[prog] = before.conf /\ Known /\ run[prog] \in {before.run, before.conf, Off}
  /\ prog = "sslh" => /\ todo # <<"install", "start">>
                      /\ conf[prog] # Bare \/ run[prog] = Off

-----------------------------------------------------------------------------
(* What the option found.                                                  *)
Found ==
  /\ booting = {}
  /\ before.run # Off => before.run.ok
  /\ before.conf.port = NoPort => before.conf = Bare
  /\ \A q \in Programs \ {prog} : before.run.port = NoPort \/ run[q].port # before.run.port
Turn == IF failed THEN Applying /\ Undoing ELSE (Applying /\ Trial) \/ Shutdown \/ Starting

(* A program that runs is there and has a good file; sslh has one.         *)
Sound ==
  /\ \A p \in Programs : run[p] # Off => run[p].ok /\ p \in installed
  /\ \A p \in Programs : conf[p].port = NoPort => conf[p] = Bare
  /\ run["sslh"] # Off => conf["sslh"] # Bare
Boots == ~cut => /\ booting = {}
                 /\ "haproxy" \in installed => "haproxy" \in enabled \/ (~Idle /\ prog = "haproxy" /\ At("uninstall"))
Others == ~cut => \A p \in Routers : Idle \/ p # prog => Kept(p)
IInv == Sound /\ Boots /\ Others /\ IF Idle THEN ~failed /\ todo = <<>> ELSE Found /\ Turn

-----------------------------------------------------------------------------
(* The steps of the options, written out.                                  *)

(* Two sequences put together are the one that has the elements of both.   *)
LEMMA Join ==
  ASSUME NEW S, NEW s \in Seq(S), NEW t \in Seq(S), NEW w \in Seq(S),
         Len(w) = Len(s) + Len(t),
         \A k \in 1..Len(s) : w[k] = s[k],
         \A k \in 1..Len(t) : w[Len(s) + k] = t[k]
  PROVE  s \o t = w
<1> DEFINE q == s \o t
<1>1. /\ q \in Seq(S) /\ Len(q) = Len(s) + Len(t)
      /\ \A k \in 1..Len(s) + Len(t) : q[k] = IF k <= Len(s) THEN s[k] ELSE t[k - Len(s)]
  BY ConcatProperties
<1> HIDE DEF q
<1>2. ASSUME NEW k \in 1..Len(s) + Len(t) PROVE q[k] = w[k]
  <2>1. CASE k <= Len(s)
    BY <1>1, <2>1
  <2>2. CASE k > Len(s)
    <3>1. k - Len(s) \in 1..Len(t) /\ Len(s) + (k - Len(s)) = k
      BY <2>2
    <3>2. w[k] = t[k - Len(s)]
      BY <3>1
    <3>3. ~ (k <= Len(s))
      BY <2>2
    <3>4. q[k] = t[k - Len(s)]
      BY <1>1, <3>3
    <3>5. QED
      BY <3>2, <3>4
  <2>3. QED
    BY <2>1, <2>2
<1>3. q = w
  BY <1>1, <1>2, SeqEqual
<1>4. QED
  BY <1>3 DEF q

(* A change is written, tried and recorded; nginx tests its file first.    *)
LEMMA TryingIs == Trying("nginx") = Tested /\ Trying("sslh") = Plain /\ Trying("haproxy") = Plain
<1>1. <<"write">> \o <<"restart", "verify", "save", "saveMode">> = <<"write", "restart", "verify", "save", "saveMode">>
  <2>. DEFINE S == {"write", "restart", "verify", "save", "saveMode"}
             s == <<"write">>
             t == <<"restart", "verify", "save", "saveMode">>
             w == <<"write", "restart", "verify", "save", "saveMode">>
  <2>1. s \in Seq(S) /\ t \in Seq(S) /\ w \in Seq(S) /\ Len(s) = 1 /\ Len(t) = 4 /\ Len(w) = 5
    OBVIOUS
  <2>2. w[1] = s[1] /\ w[2] = t[1] /\ w[3] = t[2] /\ w[4] = t[3] /\ w[5] = t[4]
    OBVIOUS
  <2>. HIDE DEF S, s, t, w
  <2>3. /\ Len(w) = Len(s) + Len(t) /\ \A k \in 1..Len(s) : w[k] = s[k]
        /\ \A k \in 1..Len(t) : w[Len(s) + k] = t[k]
    BY <2>1, <2>2
  <2>4. s \o t = w
    BY <2>1, <2>3, Join
  <2>. QED
    BY <2>4 DEF s, t, w
<1>2. <<"write", "test">> \o <<"restart", "verify", "save", "saveMode">> = <<"write", "test", "restart", "verify", "save", "saveMode">>
  <2>. DEFINE S == {"write", "test", "restart", "verify", "save", "saveMode"}
             s == <<"write", "test">>
             t == <<"restart", "verify", "save", "saveMode">>
             w == <<"write", "test", "restart", "verify", "save", "saveMode">>
  <2>1. s \in Seq(S) /\ t \in Seq(S) /\ w \in Seq(S) /\ Len(s) = 2 /\ Len(t) = 4 /\ Len(w) = 6
    OBVIOUS
  <2>2. w[1] = s[1] /\ w[2] = s[2] /\ w[3] = t[1] /\ w[4] = t[2] /\ w[5] = t[3] /\ w[6] = t[4]
    OBVIOUS
  <2>. HIDE DEF S, s, t, w
  <2>3. /\ Len(w) = Len(s) + Len(t) /\ \A k \in 1..Len(s) : w[k] = s[k]
        /\ \A k \in 1..Len(t) : w[Len(s) + k] = t[k]
    BY <2>1, <2>2
  <2>4. s \o t = w
    BY <2>1, <2>3, Join
  <2>. QED
    BY <2>4 DEF s, t, w
<1>. QED
  BY <1>1, <1>2 DEF Trying, Tested, Plain

(* Nothing is put in front of a sequence, or behind.                       *)
LEMMA AddNothing ==
  ASSUME NEW a
  PROVE  <<a>> \o <<>> = <<a>>
  BY ConcatEmptySeq, <<a>> \in Seq({a})

(* A first setup opens the port if it is the public one.                   *)
LEMMA SetupIs ==
  ASSUME NEW port
  PROVE  /\ Setup("nginx", port) = IF port = Front THEN SettingOpen ELSE Setting
         /\ \A p \in {"sslh", "haproxy"} : Setup(p, port) = IF port = Front THEN InstalledOpen ELSE Installed
<1>1. <<"install">> \o <<"open">> = <<"install", "open">>
  <2>. DEFINE S == {"install", "open"}
             s == <<"install">>
             t == <<"open">>
             w == <<"install", "open">>
  <2>1. s \in Seq(S) /\ t \in Seq(S) /\ w \in Seq(S) /\ Len(s) = 1 /\ Len(t) = 1 /\ Len(w) = 2
    OBVIOUS
  <2>2. w[1] = s[1] /\ w[2] = t[1]
    OBVIOUS
  <2>. HIDE DEF S, s, t, w
  <2>3. /\ Len(w) = Len(s) + Len(t) /\ \A k \in 1..Len(s) : w[k] = s[k]
        /\ \A k \in 1..Len(t) : w[Len(s) + k] = t[k]
    BY <2>1, <2>2
  <2>4. s \o t = w
    BY <2>1, <2>3, Join
  <2>. QED
    BY <2>4 DEF s, t, w
<1>2. <<"install", "open">> \o <<"write", "restart", "verify", "save", "saveMode">> = <<"install", "open", "write", "restart", "verify", "save", "saveMode">>
  <2>. DEFINE S == {"install", "open", "write", "restart", "verify", "save", "saveMode"}
             s == <<"install", "open">>
             t == <<"write", "restart", "verify", "save", "saveMode">>
             w == <<"install", "open", "write", "restart", "verify", "save", "saveMode">>
  <2>1. s \in Seq(S) /\ t \in Seq(S) /\ w \in Seq(S) /\ Len(s) = 2 /\ Len(t) = 5 /\ Len(w) = 7
    OBVIOUS
  <2>2. w[1] = s[1] /\ w[2] = s[2] /\ w[3] = t[1] /\ w[4] = t[2] /\ w[5] = t[3] /\ w[6] = t[4]
      /\ w[7] = t[5]
    OBVIOUS
  <2>. HIDE DEF S, s, t, w
  <2>3. /\ Len(w) = Len(s) + Len(t) /\ \A k \in 1..Len(s) : w[k] = s[k]
        /\ \A k \in 1..Len(t) : w[Len(s) + k] = t[k]
    BY <2>1, <2>2
  <2>4. s \o t = w
    BY <2>1, <2>3, Join
  <2>. QED
    BY <2>4 DEF s, t, w
<1>3. <<"install">> \o <<"write", "restart", "verify", "save", "saveMode">> = <<"install", "write", "restart", "verify", "save", "saveMode">>
  <2>. DEFINE S == {"install", "write", "restart", "verify", "save", "saveMode"}
             s == <<"install">>
             t == <<"write", "restart", "verify", "save", "saveMode">>
             w == <<"install", "write", "restart", "verify", "save", "saveMode">>
  <2>1. s \in Seq(S) /\ t \in Seq(S) /\ w \in Seq(S) /\ Len(s) = 1 /\ Len(t) = 5 /\ Len(w) = 6
    OBVIOUS
  <2>2. w[1] = s[1] /\ w[2] = t[1] /\ w[3] = t[2] /\ w[4] = t[3] /\ w[5] = t[4] /\ w[6] = t[5]
    OBVIOUS
  <2>. HIDE DEF S, s, t, w
  <2>3. /\ Len(w) = Len(s) + Len(t) /\ \A k \in 1..Len(s) : w[k] = s[k]
        /\ \A k \in 1..Len(t) : w[Len(s) + k] = t[k]
    BY <2>1, <2>2
  <2>4. s \o t = w
    BY <2>1, <2>3, Join
  <2>. QED
    BY <2>4 DEF s, t, w
<1>4. <<"install">> \o <<"pause", "resume">> = <<"install", "pause", "resume">>
  <2>. DEFINE S == {"install", "pause", "resume"}
             s == <<"install">>
             t == <<"pause", "resume">>
             w == <<"install", "pause", "resume">>
  <2>1. s \in Seq(S) /\ t \in Seq(S) /\ w \in Seq(S) /\ Len(s) = 1 /\ Len(t) = 2 /\ Len(w) = 3
    OBVIOUS
  <2>2. w[1] = s[1] /\ w[2] = t[1] /\ w[3] = t[2]
    OBVIOUS
  <2>. HIDE DEF S, s, t, w
  <2>3. /\ Len(w) = Len(s) + Len(t) /\ \A k \in 1..Len(s) : w[k] = s[k]
        /\ \A k \in 1..Len(t) : w[Len(s) + k] = t[k]
    BY <2>1, <2>2
  <2>4. s \o t = w
    BY <2>1, <2>3, Join
  <2>. QED
    BY <2>4 DEF s, t, w
<1>5. <<"install", "pause", "resume">> \o <<"open">> = <<"install", "pause", "resume", "open">>
  <2>. DEFINE S == {"install", "pause", "resume", "open"}
             s == <<"install", "pause", "resume">>
             t == <<"open">>
             w == <<"install", "pause", "resume", "open">>
  <2>1. s \in Seq(S) /\ t \in Seq(S) /\ w \in Seq(S) /\ Len(s) = 3 /\ Len(t) = 1 /\ Len(w) = 4
    OBVIOUS
  <2>2. w[1] = s[1] /\ w[2] = s[2] /\ w[3] = s[3] /\ w[4] = t[1]
    OBVIOUS
  <2>. HIDE DEF S, s, t, w
  <2>3. /\ Len(w) = Len(s) + Len(t) /\ \A k \in 1..Len(s) : w[k] = s[k]
        /\ \A k \in 1..Len(t) : w[Len(s) + k] = t[k]
    BY <2>1, <2>2
  <2>4. s \o t = w
    BY <2>1, <2>3, Join
  <2>. QED
    BY <2>4 DEF s, t, w
<1>6. <<"install", "pause", "resume", "open">> \o <<"write", "test", "restart", "verify", "save", "saveMode">> = <<"install", "pause", "resume", "open", "write", "test", "restart", "verify", "save", "saveMode">>
  <2>. DEFINE S == {"install", "pause", "resume", "open", "write", "test", "restart", "verify", "save", "saveMode"}
             s == <<"install", "pause", "resume", "open">>
             t == <<"write", "test", "restart", "verify", "save", "saveMode">>
             w == <<"install", "pause", "resume", "open", "write", "test", "restart", "verify", "save", "saveMode">>
  <2>1. s \in Seq(S) /\ t \in Seq(S) /\ w \in Seq(S) /\ Len(s) = 4 /\ Len(t) = 6 /\ Len(w) = 10
    OBVIOUS
  <2>2. w[1] = s[1] /\ w[2] = s[2] /\ w[3] = s[3] /\ w[4] = s[4] /\ w[5] = t[1] /\ w[6] = t[2]
      /\ w[7] = t[3] /\ w[8] = t[4] /\ w[9] = t[5] /\ w[10] = t[6]
    OBVIOUS
  <2>. HIDE DEF S, s, t, w
  <2>3. /\ Len(w) = Len(s) + Len(t) /\ \A k \in 1..Len(s) : w[k] = s[k]
        /\ \A k \in 1..Len(t) : w[Len(s) + k] = t[k]
    BY <2>1, <2>2
  <2>4. s \o t = w
    BY <2>1, <2>3, Join
  <2>. QED
    BY <2>4 DEF s, t, w
<1>7. <<"install", "pause", "resume">> \o <<"write", "test", "restart", "verify", "save", "saveMode">> = <<"install", "pause", "resume", "write", "test", "restart", "verify", "save", "saveMode">>
  <2>. DEFINE S == {"install", "pause", "resume", "write", "test", "restart", "verify", "save", "saveMode"}
             s == <<"install", "pause", "resume">>
             t == <<"write", "test", "restart", "verify", "save", "saveMode">>
             w == <<"install", "pause", "resume", "write", "test", "restart", "verify", "save", "saveMode">>
  <2>1. s \in Seq(S) /\ t \in Seq(S) /\ w \in Seq(S) /\ Len(s) = 3 /\ Len(t) = 6 /\ Len(w) = 9
    OBVIOUS
  <2>2. w[1] = s[1] /\ w[2] = s[2] /\ w[3] = s[3] /\ w[4] = t[1] /\ w[5] = t[2] /\ w[6] = t[3]
      /\ w[7] = t[4] /\ w[8] = t[5] /\ w[9] = t[6]
    OBVIOUS
  <2>. HIDE DEF S, s, t, w
  <2>3. /\ Len(w) = Len(s) + Len(t) /\ \A k \in 1..Len(s) : w[k] = s[k]
        /\ \A k \in 1..Len(t) : w[Len(s) + k] = t[k]
    BY <2>1, <2>2
  <2>4. s \o t = w
    BY <2>1, <2>3, Join
  <2>. QED
    BY <2>4 DEF s, t, w
<1>8. <<"install">> \o <<>> = <<"install">>
  BY AddNothing
<1>9. <<"install", "pause", "resume">> \o <<>> = <<"install", "pause", "resume">>
  <2>. DEFINE s == <<"install", "pause", "resume">>
  <2>1. s \in Seq({"install", "pause", "resume"})
    OBVIOUS
  <2>. HIDE DEF s
  <2>2. s \o <<>> = s
    BY <2>1, ConcatEmptySeq
  <2>. QED
    BY <2>2 DEF s
<1>10. Setup("nginx", port) = IF port = Front THEN SettingOpen ELSE Setting
  <2>1. CASE port = Front
    BY <1>4, <1>5, <1>6, <2>1, TryingIs DEF Setup, Opened, SettingOpen, Tested
  <2>2. CASE port # Front
    BY <1>4, <1>7, <1>9, <2>2, TryingIs DEF Setup, Opened, Setting, Tested
  <2>. QED
    BY <2>1, <2>2
<1>11. ASSUME NEW p \in {"sslh", "haproxy"} PROVE Setup(p, port) = IF port = Front THEN InstalledOpen ELSE Installed
  <2>1. CASE port = Front
    BY <1>1, <1>2, <1>8, <2>1, TryingIs DEF Setup, Opened, InstalledOpen, Plain
  <2>2. CASE port # Front
    BY <1>3, <1>8, <2>2, TryingIs DEF Setup, Opened, Installed, Plain
  <2>. QED
    BY <2>1, <2>2
<1>. QED
  BY <1>10, <1>11

(* The last route of HAProxy.                                              *)
LEMMA LastRouteIs ==
  ASSUME NEW port
  PROVE  LastRoute(port) = IF port = Front THEN <<"stop", "close", "persist", "save", "saveMode">>
                           ELSE <<"stop", "save", "saveMode">>
<1>1. <<"stop">> \o <<"close", "persist">> = <<"stop", "close", "persist">>
  <2>. DEFINE S == {"stop", "close", "persist"}
             s == <<"stop">>
             t == <<"close", "persist">>
             w == <<"stop", "close", "persist">>
  <2>1. s \in Seq(S) /\ t \in Seq(S) /\ w \in Seq(S) /\ Len(s) = 1 /\ Len(t) = 2 /\ Len(w) = 3
    OBVIOUS
  <2>2. w[1] = s[1] /\ w[2] = t[1] /\ w[3] = t[2]
    OBVIOUS
  <2>. HIDE DEF S, s, t, w
  <2>3. /\ Len(w) = Len(s) + Len(t) /\ \A k \in 1..Len(s) : w[k] = s[k]
        /\ \A k \in 1..Len(t) : w[Len(s) + k] = t[k]
    BY <2>1, <2>2
  <2>4. s \o t = w
    BY <2>1, <2>3, Join
  <2>. QED
    BY <2>4 DEF s, t, w
<1>2. <<"stop", "close", "persist">> \o <<"save", "saveMode">> = <<"stop", "close", "persist", "save", "saveMode">>
  <2>. DEFINE S == {"stop", "close", "persist", "save", "saveMode"}
             s == <<"stop", "close", "persist">>
             t == <<"save", "saveMode">>
             w == <<"stop", "close", "persist", "save", "saveMode">>
  <2>1. s \in Seq(S) /\ t \in Seq(S) /\ w \in Seq(S) /\ Len(s) = 3 /\ Len(t) = 2 /\ Len(w) = 5
    OBVIOUS
  <2>2. w[1] = s[1] /\ w[2] = s[2] /\ w[3] = s[3] /\ w[4] = t[1] /\ w[5] = t[2]
    OBVIOUS
  <2>. HIDE DEF S, s, t, w
  <2>3. /\ Len(w) = Len(s) + Len(t) /\ \A k \in 1..Len(s) : w[k] = s[k]
        /\ \A k \in 1..Len(t) : w[Len(s) + k] = t[k]
    BY <2>1, <2>2
  <2>4. s \o t = w
    BY <2>1, <2>3, Join
  <2>. QED
    BY <2>4 DEF s, t, w
<1>3. <<"stop">> \o <<"save", "saveMode">> = <<"stop", "save", "saveMode">>
  <2>. DEFINE S == {"stop", "save", "saveMode"}
             s == <<"stop">>
             t == <<"save", "saveMode">>
             w == <<"stop", "save", "saveMode">>
  <2>1. s \in Seq(S) /\ t \in Seq(S) /\ w \in Seq(S) /\ Len(s) = 1 /\ Len(t) = 2 /\ Len(w) = 3
    OBVIOUS
  <2>2. w[1] = s[1] /\ w[2] = t[1] /\ w[3] = t[2]
    OBVIOUS
  <2>. HIDE DEF S, s, t, w
  <2>3. /\ Len(w) = Len(s) + Len(t) /\ \A k \in 1..Len(s) : w[k] = s[k]
        /\ \A k \in 1..Len(t) : w[Len(s) + k] = t[k]
    BY <2>1, <2>2
  <2>4. s \o t = w
    BY <2>1, <2>3, Join
  <2>. QED
    BY <2>4 DEF s, t, w
<1>4. <<"stop">> \o <<>> = <<"stop">>
  BY AddNothing
<1>5. CASE port = Front
  BY <1>1, <1>2, <1>5 DEF LastRoute
<1>6. CASE port # Front
  BY <1>3, <1>4, <1>6 DEF LastRoute
<1>. QED
  BY <1>5, <1>6

(* A removal.                                                              *)
LEMMA RemovalIs ==
  /\ Removal("haproxy") = <<"stop", "disable", "uninstall", "close", "persist", "save">>
  /\ Removal("nginx") = <<"stop", "disable", "uninstall", "close", "persist", "save", "saveMode">>
  /\ Removal("sslh") = IF mode["sslh"] = NoPort THEN <<"stop", "disable", "uninstall", "save", "saveMode">>
                       ELSE <<"stop", "disable", "uninstall", "close", "persist", "save", "saveMode">>
<1>1. <<"stop", "disable", "uninstall">> \o <<"close", "persist">> = <<"stop", "disable", "uninstall", "close", "persist">>
  <2>. DEFINE S == {"stop", "disable", "uninstall", "close", "persist"}
             s == <<"stop", "disable", "uninstall">>
             t == <<"close", "persist">>
             w == <<"stop", "disable", "uninstall", "close", "persist">>
  <2>1. s \in Seq(S) /\ t \in Seq(S) /\ w \in Seq(S) /\ Len(s) = 3 /\ Len(t) = 2 /\ Len(w) = 5
    OBVIOUS
  <2>2. w[1] = s[1] /\ w[2] = s[2] /\ w[3] = s[3] /\ w[4] = t[1] /\ w[5] = t[2]
    OBVIOUS
  <2>. HIDE DEF S, s, t, w
  <2>3. /\ Len(w) = Len(s) + Len(t) /\ \A k \in 1..Len(s) : w[k] = s[k]
        /\ \A k \in 1..Len(t) : w[Len(s) + k] = t[k]
    BY <2>1, <2>2
  <2>4. s \o t = w
    BY <2>1, <2>3, Join
  <2>. QED
    BY <2>4 DEF s, t, w
<1>2. <<"stop", "disable", "uninstall", "close", "persist">> \o <<"save">> = <<"stop", "disable", "uninstall", "close", "persist", "save">>
  <2>. DEFINE S == {"stop", "disable", "uninstall", "close", "persist", "save"}
             s == <<"stop", "disable", "uninstall", "close", "persist">>
             t == <<"save">>
             w == <<"stop", "disable", "uninstall", "close", "persist", "save">>
  <2>1. s \in Seq(S) /\ t \in Seq(S) /\ w \in Seq(S) /\ Len(s) = 5 /\ Len(t) = 1 /\ Len(w) = 6
    OBVIOUS
  <2>2. w[1] = s[1] /\ w[2] = s[2] /\ w[3] = s[3] /\ w[4] = s[4] /\ w[5] = s[5] /\ w[6] = t[1]
    OBVIOUS
  <2>. HIDE DEF S, s, t, w
  <2>3. /\ Len(w) = Len(s) + Len(t) /\ \A k \in 1..Len(s) : w[k] = s[k]
        /\ \A k \in 1..Len(t) : w[Len(s) + k] = t[k]
    BY <2>1, <2>2
  <2>4. s \o t = w
    BY <2>1, <2>3, Join
  <2>. QED
    BY <2>4 DEF s, t, w
<1>3. <<"stop", "disable", "uninstall", "close", "persist">> \o <<"save", "saveMode">> = <<"stop", "disable", "uninstall", "close", "persist", "save", "saveMode">>
  <2>. DEFINE S == {"stop", "disable", "uninstall", "close", "persist", "save", "saveMode"}
             s == <<"stop", "disable", "uninstall", "close", "persist">>
             t == <<"save", "saveMode">>
             w == <<"stop", "disable", "uninstall", "close", "persist", "save", "saveMode">>
  <2>1. s \in Seq(S) /\ t \in Seq(S) /\ w \in Seq(S) /\ Len(s) = 5 /\ Len(t) = 2 /\ Len(w) = 7
    OBVIOUS
  <2>2. w[1] = s[1] /\ w[2] = s[2] /\ w[3] = s[3] /\ w[4] = s[4] /\ w[5] = s[5] /\ w[6] = t[1]
      /\ w[7] = t[2]
    OBVIOUS
  <2>. HIDE DEF S, s, t, w
  <2>3. /\ Len(w) = Len(s) + Len(t) /\ \A k \in 1..Len(s) : w[k] = s[k]
        /\ \A k \in 1..Len(t) : w[Len(s) + k] = t[k]
    BY <2>1, <2>2
  <2>4. s \o t = w
    BY <2>1, <2>3, Join
  <2>. QED
    BY <2>4 DEF s, t, w
<1>4. <<"stop", "disable", "uninstall">> \o <<"save", "saveMode">> = <<"stop", "disable", "uninstall", "save", "saveMode">>
  <2>. DEFINE S == {"stop", "disable", "uninstall", "save", "saveMode"}
             s == <<"stop", "disable", "uninstall">>
             t == <<"save", "saveMode">>
             w == <<"stop", "disable", "uninstall", "save", "saveMode">>
  <2>1. s \in Seq(S) /\ t \in Seq(S) /\ w \in Seq(S) /\ Len(s) = 3 /\ Len(t) = 2 /\ Len(w) = 5
    OBVIOUS
  <2>2. w[1] = s[1] /\ w[2] = s[2] /\ w[3] = s[3] /\ w[4] = t[1] /\ w[5] = t[2]
    OBVIOUS
  <2>. HIDE DEF S, s, t, w
  <2>3. /\ Len(w) = Len(s) + Len(t) /\ \A k \in 1..Len(s) : w[k] = s[k]
        /\ \A k \in 1..Len(t) : w[Len(s) + k] = t[k]
    BY <2>1, <2>2
  <2>4. s \o t = w
    BY <2>1, <2>3, Join
  <2>. QED
    BY <2>4 DEF s, t, w
<1>5. <<"stop", "disable", "uninstall">> \o <<>> = <<"stop", "disable", "uninstall">>
  <2>. DEFINE s == <<"stop", "disable", "uninstall">>
  <2>1. s \in Seq({"stop", "disable", "uninstall"})
    OBVIOUS
  <2>. HIDE DEF s
  <2>2. s \o <<>> = s
    BY <2>1, ConcatEmptySeq
  <2>. QED
    BY <2>2 DEF s
<1>6. Removal("haproxy") = <<"stop", "disable", "uninstall", "close", "persist", "save">>
  BY <1>1, <1>2 DEF Removal
<1>7. Removal("nginx") = <<"stop", "disable", "uninstall", "close", "persist", "save", "saveMode">>
  BY <1>1, <1>3 DEF Removal
<1>8. CASE mode["sslh"] = NoPort
  BY <1>4, <1>5, <1>6, <1>7, <1>8 DEF Removal
<1>9. CASE mode["sslh"] # NoPort
  BY <1>1, <1>3, <1>6, <1>7, <1>9 DEF Removal
<1>. QED
  BY <1>8, <1>9

(* A change that is taken back.                                            *)
LEMMA UndoneIs ==
  /\ Undone("nginx", "test") = <<"putBack">>
  /\ \A step \in {"restart", "verify"} :
       /\ \A p \in Routers : Undone(p, step) = <<"putBack", "rerun">>
       /\ Undone("sslh", step) = <<"putBack", "rerun", "close">>
<1>1. <<"putBack", "rerun">> \o <<"close">> = <<"putBack", "rerun", "close">>
  <2>. DEFINE S == {"putBack", "rerun", "close"}
             s == <<"putBack", "rerun">>
             t == <<"close">>
             w == <<"putBack", "rerun", "close">>
  <2>1. s \in Seq(S) /\ t \in Seq(S) /\ w \in Seq(S) /\ Len(s) = 2 /\ Len(t) = 1 /\ Len(w) = 3
    OBVIOUS
  <2>2. w[1] = s[1] /\ w[2] = s[2] /\ w[3] = t[1]
    OBVIOUS
  <2>. HIDE DEF S, s, t, w
  <2>3. /\ Len(w) = Len(s) + Len(t) /\ \A k \in 1..Len(s) : w[k] = s[k]
        /\ \A k \in 1..Len(t) : w[Len(s) + k] = t[k]
    BY <2>1, <2>2
  <2>4. s \o t = w
    BY <2>1, <2>3, Join
  <2>. QED
    BY <2>4 DEF s, t, w
<1>2. <<"putBack">> \o <<>> = <<"putBack">>
  BY AddNothing
<1>3. <<"putBack", "rerun">> \o <<>> = <<"putBack", "rerun">>
  <2>. DEFINE s == <<"putBack", "rerun">>
  <2>1. s \in Seq({"putBack", "rerun"})
    OBVIOUS
  <2>. HIDE DEF s
  <2>2. s \o <<>> = s
    BY <2>1, ConcatEmptySeq
  <2>. QED
    BY <2>2 DEF s
<1>. QED
  BY <1>1, <1>2, <1>3 DEF Undone, Routers

-----------------------------------------------------------------------------
(* A step is one of its option, and touches no other program.              *)
LEMMA Bystanders ==
  ASSUME Types, Step \/ Write
  PROVE  /\ UNCHANGED <<op, prog, want, before>>
         /\ todo # <<>>
         /\ \A q \in Programs \ {prog} : run'[q] = run[q] /\ conf'[q] = conf[q] /\ mode'[q] = mode[q]
         /\ \A q \in Routers \ {prog} : registry'[q] = registry[q]
  <1>. USE DEF Proceeds, FailsTo, programs, records, firewall, Types, Runs, At
  <1>1. CASE Install \/ Test \/ Verify \/ PutBack \/ Disable \/ Uninstall \/ Open \/ Close \/ Persist \/ Save \/ SaveMode \/ Write
    BY <1>1 DEF Install, Test, Verify, PutBack, Disable, Uninstall, Open, Close, Persist, Save, SaveMode, Write
  <1>2. CASE Pause \/ Resume \/ RestartIt \/ Rerun \/ Start \/ Stop
    BY <1>2 DEF Pause, Resume, RestartIt, Rerun, Start, Stop
  <1>. QED
    BY <1>1, <1>2 DEF Step

(* So what is known of the others stays.                                   *)
LEMMA OthersStay ==
  ASSUME Types, Types', Others, Step \/ Write, ~Idle, UNCHANGED cut
  PROVE  Others'
  <1>1. SUFFICES ASSUME ~cut, NEW p \in Routers, p # prog PROVE Kept(p)'
    BY Bystanders DEF Others, Idle
  <1>2. Kept(p) /\ p \in Programs \ {prog} /\ p \in Routers \ {prog}
    BY <1>1 DEF Others, Programs, Routers
  <1>3. run'[p] = run[p] /\ conf'[p] = conf[p] /\ mode'[p] = mode[p] /\ registry'[p] = registry[p]
    BY <1>2, Bystanders
  <1>. QED
    BY <1>2, <1>3 DEF Kept, Listed, Record, Listen

(* What the option found, too.                                             *)
LEMMA FoundStays ==
  ASSUME Types, Found, Step \/ Write, UNCHANGED booting
  PROVE  Found'
  BY Bystanders DEF Found

(* Which step comes first in what is left.                                 *)
LEMMA Heads ==
  /\ \A p \in Programs : \A t \in Unwritten(p) : t # <<>> /\ Head(t) \in {"install", "pause", "resume", "open", "write"}
  /\ \A t \in Stops \cup {StopsHaproxy} : t # <<>> /\ Head(t) = "stop"
  /\ \A t \in Stopped \cup StoppedHaproxy : t # <<>> /\ Head(t) \in {"disable", "uninstall", "close", "persist", "save"}
  /\ Untested # <<>> /\ Head(Untested) = "test" /\ Tail(Untested) = Unstarted
  /\ Unstarted # <<>> /\ Head(Unstarted) = "restart" /\ Tail(Unstarted) = Unverified
  /\ Unverified # <<>> /\ Head(Unverified) = "verify" /\ Tail(Unverified) = Unsaved
  /\ Unsaved # <<>> /\ Head(Unsaved) = "save" /\ Tail(Unsaved) = Halfsaved
  /\ Halfsaved # <<>> /\ Head(Halfsaved) = "saveMode" /\ Tail(Halfsaved) = <<>>
<1>1. \A p \in Programs : \A t \in Unwritten(p) : t # <<>> /\ Head(t) \in {"install", "pause", "resume", "open", "write"}
  BY DEF Unwritten, Opening, Plain, PlainOpen, Tested, TestedOpen, Resumed, ResumedOpen, Paused, PausedOpen, Installed, InstalledOpen, Setting, SettingOpen
<1>2. \A t \in Stops \cup {StopsHaproxy} : t # <<>> /\ Head(t) = "stop"
  BY DEF Stops, StopsHaproxy
<1>3. \A t \in Stopped \cup StoppedHaproxy : t # <<>> /\ Head(t) \in {"disable", "uninstall", "close", "persist", "save"}
  BY DEF Stopped, StoppedHaproxy, Unsaved
<1>. QED
  BY <1>1, <1>2, <1>3 DEF Untested, Unstarted, Unverified, Unsaved, Halfsaved

(* The state in which a step is due that only changes take.                *)
LEMMA Due ==
  ASSUME Types, Turn
  PROVE  /\ At("install") => (~failed /\ Applying /\ Trial /\ Unchanged) \/ (~failed /\ Starting /\ todo = <<"install", "start">>)
         /\ At("pause") \/ At("resume") \/ At("open") \/ At("write") => ~failed /\ Applying /\ Trial /\ Unchanged
         /\ At("test") => ~failed /\ Applying /\ Trial /\ Changed /\ todo = Untested
         /\ At("restart") => ~failed /\ Applying /\ Trial /\ Changed /\ todo = Unstarted
         /\ At("verify") => ~failed /\ Applying /\ Trial /\ Restarted
         /\ At("putBack") \/ At("rerun") => failed
         /\ At("start") \/ At("again") => ~failed /\ Starting /\ (todo = <<"start">> \/ todo = <<"again">>)
         /\ At("stop") \/ At("disable") \/ At("uninstall") \/ At("persist") => ~failed /\ Shutdown
         /\ At("close") => failed \/ (~failed /\ Shutdown)
         /\ At("save") => ~failed /\ ((Applying /\ Trial /\ Verified) \/ Shutdown)
         /\ At("saveMode") => ~failed /\ ((Applying /\ Trial /\ Saved /\ todo = Halfsaved) \/ (Shutdown /\ todo = Halfsaved))
<1>. USE DEF At, Types
<1>1. CASE failed
  BY <1>1 DEF Turn, Undoing
<1>2. CASE ~failed /\ Applying /\ Trial
  BY <1>2, Heads DEF Trial, Unchanged, Changed, Restarted, Verified, Saved
<1>3. CASE ~failed /\ Shutdown
  <2>1. todo \in Stops \cup {StopsHaproxy} \/ todo \in Stopped \cup StoppedHaproxy \/ todo = Halfsaved \/ todo = <<>>
    BY <1>3 DEF Shutdown
  <2>. QED
    BY <1>3, <2>1, Heads
<1>4. CASE ~failed /\ Starting
  BY <1>4 DEF Starting
<1>. QED
  BY <1>1, <1>2, <1>3, <1>4 DEF Turn

(* What the menu lists and what is known about it stay, if it does.        *)
LEMMA KnownStays ==
  ASSUME Known, UNCHANGED <<op, prog, want, before, registry, mode, cut>>
  PROVE  Known'
  BY DEF Known, Listed, Record, Listen

(* After a change is verified, or is not.                                  *)
LEMMA VerifyTurn ==
  ASSUME Types, Turn, Verify, UNCHANGED cut
  PROVE  Turn'
<1>1. /\ ~failed /\ Applying /\ Trial /\ Restarted /\ Known /\ UNCHANGED <<op, prog, want, before, registry, mode, cut>>
      /\ UNCHANGED <<run, conf, installed, open, saved>>
  BY Due DEF Verify, Proceeds, FailsTo, programs, records, firewall, Restarted
<1>2. Applying' /\ Known' /\ prog \in Programs
  BY <1>1, KnownStays DEF Applying, Types
<1>3. CASE \E q \in Programs : run[q].port = want.port
  <2>1. todo' = Unsaved /\ failed' = FALSE
    <3>1. todo' = Tail(todo) /\ failed' = failed
      BY <1>3 DEF Verify, Proceeds
    <3>. QED
      BY <1>1, <3>1, Heads DEF Restarted
  <2>2. todo \notin Opening(prog)
    BY <1>1, <1>2, Heads DEF Restarted, Unwritten
  <2>3. Verified'
    BY <1>1, <1>2, <2>1 DEF Verified, Restarted, New
  <2>. QED
    BY <1>1, <1>2, <2>1, <2>2, <2>3, Heads DEF Trial, Turn, MustOpen, Restarted
<1>4. CASE ~ \E q \in Programs : run[q].port = want.port
  <2>1. todo' = Undone(prog, "verify") /\ failed' = TRUE
    BY <1>1, <1>4 DEF Verify, FailsTo
  <2>2. run[prog] = Off
    BY <1>1, <1>2, <1>4 DEF Restarted
  <2>3. todo' \in {<<"putBack", "rerun">>, <<"putBack", "rerun", "close">>}
    BY <2>1, <1>2, UndoneIs DEF Programs, Routers
  <2>4. Undoing'
    BY <1>1, <1>2, <2>2, <2>3 DEF Undoing, Trial
  <2>. QED
    BY <1>2, <2>1, <2>4 DEF Turn
<1>. QED
  BY <1>3, <1>4

(* The sequences of a change, told apart by their first step and length.   *)
LEMMA Shapes ==
  /\ Head(Plain) = "write" /\ Len(Plain) = 5 /\ Tail(Plain) = Unstarted
  /\ Head(PlainOpen) = "open" /\ Len(PlainOpen) = 6 /\ Tail(PlainOpen) = Plain
  /\ Head(Installed) = "install" /\ Len(Installed) = 6 /\ Tail(Installed) = Plain
  /\ Head(InstalledOpen) = "install" /\ Len(InstalledOpen) = 7 /\ Tail(InstalledOpen) = PlainOpen
  /\ Head(Tested) = "write" /\ Len(Tested) = 6 /\ Tail(Tested) = Untested
  /\ Head(TestedOpen) = "open" /\ Len(TestedOpen) = 7 /\ Tail(TestedOpen) = Tested
  /\ Head(Resumed) = "resume" /\ Len(Resumed) = 7 /\ Tail(Resumed) = Tested
  /\ Head(ResumedOpen) = "resume" /\ Len(ResumedOpen) = 8 /\ Tail(ResumedOpen) = TestedOpen
  /\ Head(Paused) = "pause" /\ Len(Paused) = 8 /\ Tail(Paused) = Resumed
  /\ Head(PausedOpen) = "pause" /\ Len(PausedOpen) = 9 /\ Tail(PausedOpen) = ResumedOpen
  /\ Head(Setting) = "install" /\ Len(Setting) = 9 /\ Tail(Setting) = Paused
  /\ Head(SettingOpen) = "install" /\ Len(SettingOpen) = 10 /\ Tail(SettingOpen) = PausedOpen
<1>. USE DEF Plain, PlainOpen, Tested, TestedOpen, Resumed, ResumedOpen, Paused, PausedOpen, Installed,
             InstalledOpen, Setting, SettingOpen, Untested, Unstarted
<1>1. Head(Plain) = "write" /\ Len(Plain) = 5 /\ Tail(Plain) = Unstarted
  OBVIOUS
<1>2. Head(PlainOpen) = "open" /\ Len(PlainOpen) = 6 /\ Tail(PlainOpen) = Plain
  OBVIOUS
<1>3. Head(Installed) = "install" /\ Len(Installed) = 6 /\ Tail(Installed) = Plain
  OBVIOUS
<1>4. Head(InstalledOpen) = "install" /\ Len(InstalledOpen) = 7 /\ Tail(InstalledOpen) = PlainOpen
  OBVIOUS
<1>5. Head(Tested) = "write" /\ Len(Tested) = 6 /\ Tail(Tested) = Untested
  OBVIOUS
<1>6. Head(TestedOpen) = "open" /\ Len(TestedOpen) = 7 /\ Tail(TestedOpen) = Tested
  OBVIOUS
<1>7. Head(Resumed) = "resume" /\ Len(Resumed) = 7 /\ Tail(Resumed) = Tested
  OBVIOUS
<1>8. Head(ResumedOpen) = "resume" /\ Len(ResumedOpen) = 8 /\ Tail(ResumedOpen) = TestedOpen
  OBVIOUS
<1>9. Head(Paused) = "pause" /\ Len(Paused) = 8 /\ Tail(Paused) = Resumed
  OBVIOUS
<1>10. Head(PausedOpen) = "pause" /\ Len(PausedOpen) = 9 /\ Tail(PausedOpen) = ResumedOpen
  OBVIOUS
<1>11. Head(Setting) = "install" /\ Len(Setting) = 9 /\ Tail(Setting) = Paused
  OBVIOUS
<1>12. Head(SettingOpen) = "install" /\ Len(SettingOpen) = 10 /\ Tail(SettingOpen) = PausedOpen
  OBVIOUS
<1>. HIDE DEF Plain, PlainOpen, Tested, TestedOpen, Resumed, ResumedOpen, Paused, PausedOpen, Installed,
             InstalledOpen, Setting, SettingOpen, Untested, Unstarted
<1>. QED
  BY <1>1, <1>2, <1>3, <1>4, <1>5, <1>6, <1>7, <1>8, <1>9, <1>10, <1>11, <1>12

(* What is left of a change while the file is not written.                 *)
LEMMA Ahead ==
  ASSUME NEW p \in Programs, NEW t \in Unwritten(p)
  PROVE  /\ Head(t) \in {"install", "open", "resume"} => Tail(t) \in Unwritten(p) /\ Tail(t) \notin Pausing
         /\ Head(t) \in {"install", "resume", "pause"} => (t \in Opening(p) => Tail(t) \in Opening(p))
         /\ Head(t) = "pause" =>
              /\ Tail(t) \in Unwritten(p) /\ Tail(t) \in Pausing
              /\ Tail(Tail(t)) \in Unwritten(p) /\ Tail(Tail(t)) \notin Pausing
              /\ t \in Opening(p) => Tail(Tail(t)) \in Opening(p)
         /\ Head(t) = "resume" => p = "nginx"
         /\ Head(t) = "resume" <=> t \in Pausing
         /\ Head(t) = "write" => t \notin Opening(p) /\ Tail(t) = IF p = "nginx" THEN Untested ELSE Unstarted
<1>1. CASE p = "nginx"
  <2>1. /\ Unwritten(p) = {TestedOpen, ResumedOpen, PausedOpen, SettingOpen, Tested, Resumed, Paused, Setting}
        /\ Opening(p) = {TestedOpen, ResumedOpen, PausedOpen, SettingOpen}
    BY <1>1 DEF Unwritten, Opening
  <2>2. CASE t \in {Resumed, ResumedOpen}
    BY <1>1, <2>1, <2>2, Shapes DEF Pausing
  <2>3. CASE t \in {Tested, TestedOpen}
    BY <1>1, <2>1, <2>3, Shapes DEF Pausing
  <2>4. CASE t \in {Paused, PausedOpen}
    BY <1>1, <2>1, <2>4, Shapes DEF Pausing
  <2>5. CASE t \in {Setting, SettingOpen}
    BY <1>1, <2>1, <2>5, Shapes DEF Pausing
  <2>. QED
    BY <2>1, <2>2, <2>3, <2>4, <2>5
<1>2. CASE p # "nginx"
  BY <1>2, Shapes DEF Unwritten, Opening, Pausing
<1>. QED
  BY <1>1, <1>2

(* A change stays ahead of its file.                                       *)
LEMMA AheadStays ==
  ASSUME Types, ~failed, Applying, Trial, Unchanged, ~failed',
         UNCHANGED <<op, prog, want, before, conf, registry, mode, cut>>, installed \subseteq installed',
         todo' \in Unwritten(prog), IF todo' \in Pausing THEN run'[prog] = Off ELSE Back',
         (open' /\ saved') \/ (UNCHANGED <<open, saved>> /\ (todo \in Opening(prog) => todo' \in Opening(prog)))
  PROVE  Turn'
<1>1. Applying' /\ Known'
  BY KnownStays DEF Applying, Unchanged
<1>2. Unchanged'
  BY <1>1 DEF Unchanged
<1>3. todo' \notin {Unverified, Unsaved, Halfsaved, <<>>}
  BY Heads DEF Types
<1>4. MustOpen' => (open' /\ saved') \/ todo' \in Opening(prog)
  BY DEF Trial, MustOpen
<1>5. Trial'
  BY <1>2, <1>3, <1>4 DEF Trial
<1>. QED
  BY <1>1, <1>5 DEF Turn

(* A program that ran its file and finds it again starts with it.          *)
LEMMA StartsAgain ==
  ASSUME Types, Found, Same, before.run # Off => prog \in installed, conf[prog] = before.conf
  PROVE  Started = before.run
<1>1. before.conf.port # NoPort /\ before.run # Off
  BY DEF Found, Same, Off
<1>2. Free(prog, before.conf.port)
  BY <1>1 DEF Found, Same, Free
<1>3. Starts(prog)
  BY <1>1, <1>2 DEF Found, Same, Starts
<1>. QED
  BY <1>3 DEF Started, Same

(* Whatever is started has the file of the program, or is off.             *)
LEMMA StartedIs == Started \in {conf[prog], Off}
  BY DEF Started

(* After an installation.                                                  *)
LEMMA InstallTurn ==
  ASSUME Types, Turn, Install, UNCHANGED cut
  PROVE  Turn'
<1>1. /\ UNCHANGED <<op, prog, want, before, registry, mode, cut, failed, run, conf, open, saved>>
      /\ todo' = Tail(todo) /\ installed \subseteq installed' /\ At("install") /\ todo # <<>> /\ Head(todo) = "install"
  BY DEF Install, Proceeds, records, firewall, At
<1>2. CASE ~failed /\ Applying /\ Trial /\ Unchanged
  <2>1. todo \in Unwritten(prog) /\ prog \in Programs
    BY <1>2 DEF Unchanged, Types
  <2>2. /\ todo' \in Unwritten(prog) /\ todo' \notin Pausing /\ todo \notin Pausing
        /\ todo \in Opening(prog) => todo' \in Opening(prog)
    BY <1>1, <2>1, Ahead
  <2>3. Back'
    BY <1>1, <1>2, <2>2 DEF Unchanged, Back, Same
  <2>. QED
    BY <1>1, <1>2, <2>2, <2>3, AheadStays
<1>3. CASE ~failed /\ Starting /\ todo = <<"install", "start">>
  <2>1. todo' = <<"start">>
    BY <1>1, <1>3
  <2>2. Known'
    BY <1>1, <1>3, KnownStays DEF Starting
  <2>3. Starting'
    BY <1>1, <1>3, <2>1, <2>2 DEF Starting
  <2>. QED
    BY <1>1, <1>3, <2>3 DEF Turn
<1>. QED
  BY <1>1, <1>2, <1>3, Due

(* After nginx is paused, or was not to be.                                *)
LEMMA PauseTurn ==
  ASSUME Types, Turn, Pause, UNCHANGED cut
  PROVE  Turn'
<1>1. /\ UNCHANGED <<op, prog, want, before, registry, mode, cut, failed, conf, installed, open, saved>>
      /\ At("pause") /\ Head(todo) = "pause"
  BY DEF Pause, Proceeds, Runs, programs, records, firewall, At
<1>2. ~failed /\ Applying /\ Trial /\ Unchanged /\ todo \in Unwritten(prog) /\ prog \in Programs
  BY <1>1, Due DEF Unchanged, Types
<1>3. todo \notin Pausing /\ Back
  BY <1>1, <1>2, Ahead DEF Unchanged
<1>4. CASE Proceeds /\ Runs(Off)
  <2>1. todo' = Tail(todo) /\ run'[prog] = Off
    BY <1>2, <1>4 DEF Proceeds, Runs, Types
  <2>2. todo' \in Unwritten(prog) /\ todo' \in Pausing /\ (todo \in Opening(prog) => todo' \in Opening(prog))
    BY <1>1, <1>2, <2>1, Ahead
  <2>. QED
    BY <1>1, <1>2, <2>1, <2>2, AheadStays
<1>5. CASE todo' = Tail(Tail(todo)) /\ UNCHANGED run
  <2>1. todo' \in Unwritten(prog) /\ todo' \notin Pausing /\ (todo \in Opening(prog) => todo' \in Opening(prog))
    BY <1>1, <1>2, <1>5, Ahead
  <2>2. Back'
    BY <1>1, <1>3, <1>5 DEF Back, Same
  <2>. QED
    BY <1>1, <1>2, <2>1, <2>2, AheadStays
<1>. QED
  BY <1>4, <1>5 DEF Pause, programs

(* After nginx is resumed.                                                 *)
LEMMA ResumeTurn ==
  ASSUME Types, Turn, Found, Resume, UNCHANGED cut
  PROVE  Turn'
<1>1. /\ UNCHANGED <<op, prog, want, before, registry, mode, cut, conf, installed, open, saved>>
      /\ At("resume") /\ Head(todo) = "resume" /\ Runs(IF before.run = Off THEN Off ELSE Started)
  BY DEF Resume, Proceeds, FailsTo, Runs, records, firewall, At
<1>2. ~failed /\ Applying /\ Trial /\ Unchanged /\ todo \in Unwritten(prog) /\ prog \in Programs
  BY <1>1, Due DEF Unchanged, Types
<1>3. /\ prog = "nginx" /\ Tail(todo) \in Unwritten(prog) /\ Tail(todo) \notin Pausing
      /\ todo \in Opening(prog) => Tail(todo) \in Opening(prog)
  BY <1>1, <1>2, Ahead
<1>4. run'[prog] = IF before.run = Off THEN Off ELSE Started
  BY <1>1, <1>2 DEF Runs, Types
<1>5. conf[prog] = before.conf /\ (before.run # Off => prog \in installed) /\ Known
  BY <1>2 DEF Trial, Unchanged
<1>6. Same => run'[prog] = before.run
  BY <1>4, <1>5, StartsAgain
<1>7. Back'
  BY <1>1, <1>4, <1>5, <1>6, StartedIs DEF Back, Same
<1>8. CASE Proceeds
  <2>1. todo' = Tail(todo) /\ UNCHANGED failed
    BY <1>8 DEF Proceeds
  <2>. QED
    BY <1>1, <1>2, <1>3, <1>7, <2>1, AheadStays
<1>9. CASE FailsTo(<<>>)
  <2>1. todo' = <<>> /\ failed' = TRUE
    BY <1>9 DEF FailsTo
  <2>2. Known' /\ Applying'
    BY <1>1, <1>2, <1>5, KnownStays DEF Applying
  <2>3. Undoing'
    BY <1>1, <1>3, <1>5, <1>7, <2>1, <2>2 DEF Undoing
  <2>. QED
    BY <2>1, <2>2, <2>3 DEF Turn
<1>. QED
  BY <1>8, <1>9 DEF Resume

(* After the file is written.                                              *)
LEMMA WriteTurn ==
  ASSUME Types, Turn, Write, UNCHANGED cut
  PROVE  Turn'
<1>1. PICK good \in BOOLEAN : conf' = [conf EXCEPT ![prog] = [want EXCEPT !.ok = good]]
  BY DEF Write
<1>2. /\ UNCHANGED <<op, prog, want, before, registry, mode, cut, failed, run, installed, open, saved>>
      /\ todo' = Tail(todo) /\ At("write") /\ Head(todo) = "write"
  BY DEF Write, Proceeds, records, firewall, At
<1>3. ~failed /\ Applying /\ Trial /\ Unchanged /\ todo \in Unwritten(prog) /\ prog \in Programs
  BY <1>2, Due DEF Unchanged, Types
<1>4. /\ todo \notin Opening(prog) /\ todo \notin Pausing
      /\ todo' = IF prog = "nginx" THEN Untested ELSE Unstarted
  BY <1>2, <1>3, Ahead
<1>5. conf'[prog] \in {want, [want EXCEPT !.ok = FALSE]}
  <2>1. conf'[prog] = [want EXCEPT !.ok = good]
    BY <1>1, <1>3 DEF Types
  <2>2. want.ok = TRUE => [want EXCEPT !.ok = TRUE] = want
    BY DEF Types, Conf
  <2>. QED
    BY <1>3, <2>1, <2>2 DEF Trial
<1>6. Known' /\ Back'
  BY <1>2, <1>3, <1>4, KnownStays DEF Unchanged, Back, Same
<1>7. Changed'
  BY <1>2, <1>4, <1>5, <1>6, Heads DEF Changed
<1>8. todo' \notin {Unverified, Unsaved, Halfsaved, <<>>}
  BY <1>4, Heads
<1>9. Trial'
  BY <1>2, <1>3, <1>4, <1>7, <1>8 DEF Trial, MustOpen
<1>. QED
  BY <1>2, <1>3, <1>9 DEF Turn, Applying

(* After nginx -t.                                                         *)
LEMMA TestTurn ==
  ASSUME Types, Turn, Test, UNCHANGED cut
  PROVE  Turn'
<1>1. /\ UNCHANGED <<op, prog, want, before, registry, mode, cut, run, conf, installed, open, saved>> /\ At("test")
  BY DEF Test, Proceeds, FailsTo, programs, records, firewall
<1>2. ~failed /\ Applying /\ Trial /\ Changed /\ todo = Untested
  BY <1>1, Due
<1>3. Applying' /\ Known' /\ Back' /\ prog = "nginx"
  BY <1>1, <1>2, KnownStays DEF Applying, Changed, Back, Same
<1>4. CASE Proceeds
  <2>1. todo' = Unstarted /\ UNCHANGED failed
    BY <1>2, <1>4, Heads DEF Proceeds
  <2>2. Changed'
    BY <1>1, <1>2, <1>3, <2>1, Heads DEF Changed
  <2>3. todo' \notin {Unverified, Unsaved, Halfsaved, <<>>} /\ todo \notin Opening(prog)
    BY <1>2, <1>3, <2>1, Heads DEF Unwritten, Programs
  <2>4. Trial'
    BY <1>1, <1>2, <2>2, <2>3 DEF Trial, MustOpen
  <2>. QED
    BY <1>2, <1>3, <2>1, <2>4 DEF Turn
<1>5. CASE FailsTo(Undone(prog, "test"))
  <2>1. todo' = <<"putBack">> /\ failed' = TRUE
    BY <1>3, <1>5, UndoneIs DEF FailsTo
  <2>2. Undoing'
    BY <1>1, <1>2, <1>3, <2>1 DEF Undoing, Trial
  <2>. QED
    BY <1>3, <2>1, <2>2 DEF Turn
<1>. QED
  BY <1>4, <1>5 DEF Test

(* After a restart with the new file.                                      *)
LEMMA RestartTurn ==
  ASSUME Types, Turn, RestartIt, UNCHANGED cut
  PROVE  Turn'
<1>1. /\ UNCHANGED <<op, prog, want, before, registry, mode, cut, conf, installed, open, saved>> /\ At("restart")
      /\ Runs(Started)
  BY DEF RestartIt, Proceeds, FailsTo, Runs, records, firewall
<1>2. ~failed /\ Applying /\ Trial /\ Changed /\ todo = Unstarted
  BY <1>1, Due
<1>3. Applying' /\ Known' /\ prog \in Programs /\ run'[prog] = Started
  BY <1>1, <1>2, KnownStays DEF Applying, Changed, Types, Runs
<1>4. conf[prog].port = want.port /\ (conf[prog].ok => conf[prog] = want) /\ conf[prog] # Bare
  <2>1. [want EXCEPT !.ok = FALSE].port = want.port /\ [want EXCEPT !.ok = FALSE].ok = FALSE
    BY DEF Types, Conf
  <2>2. Bare.port = NoPort /\ NoPort \notin Asked
    BY PortsAssumption DEF Bare, Asked
  <2>. QED
    BY <1>2, <2>1, <2>2 DEF Trial, Changed
<1>5. CASE (Starts(prog) \/ prog = "sslh") /\ Proceeds
  <2>1. todo' = Unverified /\ UNCHANGED failed
    BY <1>2, <1>5, Heads DEF Proceeds
  <2>2. prog \in Routers => Started = conf[prog] /\ conf[prog] = want
    BY <1>4, <1>5 DEF Started, Starts, Routers
  <2>3. Restarted'
    BY <1>1, <1>3, <1>4, <2>1, <2>2, StartedIs DEF Restarted, New
  <2>4. todo \notin Opening(prog)
    BY <1>2, <1>3, Heads DEF Unwritten
  <2>5. Trial'
    BY <1>1, <1>2, <1>4, <2>3, <2>4 DEF Trial, MustOpen
  <2>. QED
    BY <1>2, <1>3, <2>1, <2>5 DEF Turn
<1>6. CASE ~Starts(prog) /\ FailsTo(Undone(prog, "restart"))
  <2>1. todo' \in {<<"putBack", "rerun">>, <<"putBack", "rerun", "close">>} /\ failed' = TRUE
    BY <1>3, <1>6, UndoneIs DEF FailsTo, Programs, Routers
  <2>2. run'[prog] = Off
    BY <1>3, <1>6 DEF Started
  <2>3. Undoing'
    BY <1>1, <1>2, <1>3, <2>1, <2>2 DEF Undoing, Trial
  <2>. QED
    BY <1>3, <2>1, <2>3 DEF Turn
<1>. QED
  BY <1>5, <1>6 DEF RestartIt

(* What follows each step of undoing.                                      *)
LEMMA UndoTails ==
  /\ Tail(<<"putBack">>) = <<>> /\ Tail(<<"putBack", "rerun">>) = <<"rerun">>
  /\ Tail(<<"putBack", "rerun", "close">>) = <<"rerun", "close">>
  /\ Tail(<<"rerun">>) = <<>> /\ Tail(<<"rerun", "close">>) = <<"close">> /\ Tail(<<"close">>) = <<>>
  OBVIOUS

(* After the old file is put back.                                         *)
LEMMA PutBackTurn ==
  ASSUME Types, Turn, PutBack, UNCHANGED cut
  PROVE  Turn'
<1>1. /\ UNCHANGED <<op, prog, want, before, registry, mode, cut, failed, run, installed, open, saved>>
      /\ todo' = Tail(todo) /\ At("putBack") /\ conf' = [conf EXCEPT ![prog] = before.conf]
  BY DEF PutBack, Proceeds, records, firewall
<1>2. failed /\ Applying /\ Undoing
  BY <1>1, Due DEF Turn
<1>3. Applying' /\ Known' /\ conf'[prog] = before.conf
  BY <1>1, <1>2, KnownStays DEF Applying, Undoing, Types
<1>4. CASE todo = <<"putBack">> /\ Back
  <2>1. todo' = <<>> /\ Back'
    BY <1>1, <1>4 DEF Back, Same
  <2>2. Undoing'
    BY <1>1, <1>2, <1>3, <2>1 DEF Undoing
  <2>. QED
    BY <1>1, <1>2, <1>3, <2>2 DEF Turn
<1>5. CASE todo \in {<<"putBack", "rerun">>, <<"putBack", "rerun", "close">>}
  <2>1. todo' \in {<<"rerun">>, <<"rerun", "close">>}
    BY <1>1, <1>5, UndoTails
  <2>2. Undoing'
    BY <1>1, <1>2, <1>3, <2>1 DEF Undoing
  <2>. QED
    BY <1>1, <1>2, <1>3, <2>2 DEF Turn
<1>6. CASE todo \in {<<"rerun">>, <<"rerun", "close">>, <<>>, <<"close">>}
  BY <1>1, <1>6 DEF At
<1>. QED
  BY <1>2, <1>4, <1>5, <1>6 DEF Undoing

(* After the old file is tried again.                                      *)
LEMMA RerunTurn ==
  ASSUME Types, Turn, Found, Rerun, UNCHANGED cut
  PROVE  Turn'
<1>1. /\ UNCHANGED <<op, prog, want, before, registry, mode, cut, failed, conf, installed, open, saved>>
      /\ todo' = Tail(todo) /\ At("rerun") /\ Runs(IF before.conf = Bare THEN run[prog] ELSE Started)
  BY DEF Rerun, Proceeds, Runs, records, firewall
<1>2. failed /\ Applying /\ Undoing
  BY <1>1, Due DEF Turn
<1>3. Applying' /\ Known' /\ run'[prog] = IF before.conf = Bare THEN run[prog] ELSE Started
  BY <1>1, <1>2, KnownStays DEF Applying, Undoing, Types, Runs
<1>4. todo \in {<<"rerun">>, <<"rerun", "close">>} /\ conf[prog] = before.conf
  <2>1. CASE todo \in {<<"putBack">>, <<"putBack", "rerun">>, <<"putBack", "rerun", "close">>, <<>>, <<"close">>}
    BY <1>1, <2>1 DEF At
  <2>. QED
    BY <1>2, <2>1 DEF Undoing
<1>5. todo' \in {<<>>, <<"close">>}
  BY <1>1, <1>4, UndoTails
<1>6. Same => Started = before.run
  BY <1>2, <1>4, StartsAgain DEF Undoing
<1>7. before.conf # Bare => Back'
  BY <1>1, <1>3, <1>4, <1>6, StartedIs DEF Back, Same
<1>8. Undoing'
  BY <1>1, <1>2, <1>3, <1>4, <1>5, <1>7 DEF Undoing
<1>. QED
  BY <1>1, <1>2, <1>3, <1>8 DEF Turn

(* After a start or a restart that was asked for.                          *)
LEMMA StartTurn ==
  ASSUME Types, Turn, Start, UNCHANGED cut
  PROVE  Turn'
<1>1. /\ UNCHANGED <<op, prog, want, before, registry, mode, cut, failed, conf, installed, open, saved>>
      /\ todo' = Tail(todo) /\ (At("start") \/ At("again"))
      /\ Runs(Started)
  BY DEF Start, Proceeds, Runs, records, firewall
<1>2. ~failed /\ Starting /\ todo' = <<>>
  <2>1. Tail(<<"start">>) = <<>> /\ Tail(<<"again">>) = <<>>
    OBVIOUS
  <2>2. ~failed /\ Starting /\ (todo = <<"start">> \/ todo = <<"again">>)
    BY <1>1, Due
  <2>. QED
    BY <1>1, <2>1, <2>2
<1>3. Known' /\ run'[prog] = Started
  BY <1>1, <1>2, KnownStays DEF Starting, Types, Runs
<1>4. prog = "sslh" /\ conf[prog] = Bare => Started = Off
  BY DEF Started, Starts, Bare
<1>5. Starting'
  BY <1>1, <1>2, <1>3, <1>4, StartedIs DEF Starting
<1>. QED
  BY <1>1, <1>2, <1>5 DEF Turn

(* What is left of an option that stops a program.                         *)
LEMMA Ends ==
  /\ \A t \in Stops : Tail(t) \in Stopped \/ Tail(t) = <<>>
  /\ Tail(StopsHaproxy) \in StoppedHaproxy
  /\ \A t \in Stopped : IF Head(t) = "save" THEN t = Unsaved ELSE Tail(t) \in Stopped
  /\ \A t \in StoppedHaproxy : IF Head(t) = "save" THEN Tail(t) = <<>> ELSE Tail(t) \in StoppedHaproxy
<1>a. /\ Tail(<<"stop", "save", "saveMode">>) = <<"save", "saveMode">>
      /\ Tail(<<"stop", "close", "persist", "save", "saveMode">>) = <<"close", "persist", "save", "saveMode">>
      /\ Tail(<<"stop", "disable", "uninstall", "save", "saveMode">>) = <<"disable", "uninstall", "save", "saveMode">>
      /\ Tail(<<"stop", "disable", "uninstall", "close", "persist", "save", "saveMode">>) = <<"disable", "uninstall", "close", "persist", "save", "saveMode">>
      /\ Tail(<<"stop">>) = <<>>
  OBVIOUS
<1>b. /\ Tail(<<"disable", "uninstall", "save", "saveMode">>) = <<"uninstall", "save", "saveMode">>
      /\ Tail(<<"uninstall", "save", "saveMode">>) = <<"save", "saveMode">>
      /\ Tail(<<"disable", "uninstall", "close", "persist", "save", "saveMode">>) = <<"uninstall", "close", "persist", "save", "saveMode">>
      /\ Tail(<<"uninstall", "close", "persist", "save", "saveMode">>) = <<"close", "persist", "save", "saveMode">>
      /\ Tail(<<"close", "persist", "save", "saveMode">>) = <<"persist", "save", "saveMode">>
      /\ Tail(<<"persist", "save", "saveMode">>) = <<"save", "saveMode">>
  OBVIOUS
<1>c. /\ Tail(<<"disable", "uninstall", "close", "persist", "save">>) = <<"uninstall", "close", "persist", "save">>
      /\ Tail(<<"uninstall", "close", "persist", "save">>) = <<"close", "persist", "save">>
      /\ Tail(<<"close", "persist", "save">>) = <<"persist", "save">>
      /\ Tail(<<"persist", "save">>) = <<"save">>
      /\ Tail(<<"save">>) = <<>>
  OBVIOUS
<1>1. \A t \in Stops : Tail(t) \in Stopped \/ Tail(t) = <<>>
  BY <1>a DEF Stops, Stopped, Unsaved
<1>2. Tail(StopsHaproxy) \in StoppedHaproxy
  BY DEF StopsHaproxy, StoppedHaproxy
<1>3. ASSUME NEW t \in Stopped PROVE IF Head(t) = "save" THEN t = Unsaved ELSE Tail(t) \in Stopped
  <2>1. CASE t = <<"disable", "uninstall", "save", "saveMode">>
    BY <2>1, <1>b DEF Stopped, Unsaved
  <2>2. CASE t = <<"uninstall", "save", "saveMode">>
    BY <2>2, <1>b DEF Stopped, Unsaved
  <2>3. CASE t = <<"disable", "uninstall", "close", "persist", "save", "saveMode">>
    BY <2>3, <1>b DEF Stopped, Unsaved
  <2>4. CASE t = <<"uninstall", "close", "persist", "save", "saveMode">>
    BY <2>4, <1>b DEF Stopped, Unsaved
  <2>5. CASE t = <<"close", "persist", "save", "saveMode">>
    BY <2>5, <1>b DEF Stopped, Unsaved
  <2>6. CASE t = <<"persist", "save", "saveMode">>
    BY <2>6, <1>b DEF Stopped, Unsaved
  <2>7. CASE t = Unsaved
    BY <2>7, Heads
  <2>. QED
    BY <2>1, <2>2, <2>3, <2>4, <2>5, <2>6, <2>7 DEF Stopped
<1>4. ASSUME NEW t \in StoppedHaproxy PROVE IF Head(t) = "save" THEN Tail(t) = <<>> ELSE Tail(t) \in StoppedHaproxy
  <2>1. CASE t = <<"disable", "uninstall", "close", "persist", "save">>
    BY <2>1, <1>c DEF StoppedHaproxy
  <2>2. CASE t = <<"uninstall", "close", "persist", "save">>
    BY <2>2, <1>c DEF StoppedHaproxy
  <2>3. CASE t = <<"close", "persist", "save">>
    BY <2>3, <1>c DEF StoppedHaproxy
  <2>4. CASE t = <<"persist", "save">>
    BY <2>4, <1>c DEF StoppedHaproxy
  <2>5. CASE t = <<"save">>
    BY <2>5, <1>c
  <2>. QED
    BY <2>1, <2>2, <2>3, <2>4, <2>5 DEF StoppedHaproxy
<1>. QED
  BY <1>1, <1>2, <1>3, <1>4

(* After a program is stopped.                                             *)
LEMMA StopTurn ==
  ASSUME Types, Turn, Stop, UNCHANGED cut
  PROVE  Turn'
<1>1. /\ UNCHANGED <<op, prog, want, before, registry, mode, cut, failed, conf, installed, open, saved>>
      /\ todo' = Tail(todo) /\ At("stop") /\ Head(todo) = "stop" /\ todo # <<>>
      /\ Runs(Off)
  BY DEF Stop, Proceeds, Runs, records, firewall, At
<1>2. ~failed /\ Shutdown
  BY <1>1, Due
<1>3. /\ todo \in Stops \/ (todo = StopsHaproxy /\ prog = "haproxy")
      /\ conf[prog] = before.conf /\ Known
  BY <1>1, <1>2, Heads DEF Shutdown
<1>4. Known' /\ run'[prog] = Off
  BY <1>1, <1>3, KnownStays DEF Types, Runs
<1>5. todo' \in Stopped \/ (todo' \in StoppedHaproxy /\ prog = "haproxy") \/ todo' = <<>>
  BY <1>1, <1>3, Ends
<1>6. Shutdown'
  BY <1>1, <1>2, <1>3, <1>4, <1>5 DEF Shutdown
<1>. QED
  BY <1>1, <1>2, <1>6 DEF Turn

(* After a step of a removal that neither starts nor records anything.     *)
LEMMA StoppedTurn ==
  ASSUME Types, Turn, ~failed, Shutdown, todo \notin Stops \cup {StopsHaproxy}, Head(todo) # "save",
         Head(todo) # "saveMode", todo # <<>>, Proceeds,
         UNCHANGED <<registry, mode, run, cut>>, prog \in Routers => conf'[prog] = conf[prog]
  PROVE  Turn'
<1>1. /\ todo \in Stopped \/ (todo \in StoppedHaproxy /\ prog = "haproxy")
      /\ run[prog] = Off /\ (prog \in Routers => conf[prog] = before.conf) /\ Known
  BY Heads DEF Shutdown
<1>2. UNCHANGED <<op, prog, want, before, failed>> /\ todo' = Tail(todo)
  BY DEF Proceeds
<1>3. Known'
  BY <1>1, <1>2, KnownStays
<1>4. todo' \in Stopped \/ (todo' \in StoppedHaproxy /\ prog = "haproxy")
  BY <1>1, <1>2, Ends
<1>5. Shutdown'
  BY <1>1, <1>2, <1>3, <1>4 DEF Shutdown
<1>. QED
  BY <1>2, <1>5 DEF Turn

(* After a program is disabled, its package removed, or the rules saved.   *)
LEMMA RemoveTurn ==
  ASSUME Types, Turn, Disable \/ Uninstall \/ Persist, UNCHANGED cut
  PROVE  Turn'
<1>1. /\ UNCHANGED <<registry, mode, run, cut>> /\ Proceeds /\ todo # <<>>
      /\ Head(todo) \in {"disable", "uninstall", "persist"} /\ (At("disable") \/ At("uninstall") \/ At("persist"))
  BY DEF Disable, Uninstall, Persist, programs, records, At
<1>2. ~failed /\ Shutdown
  BY <1>1, Due
<1>3. todo \notin Stops \cup {StopsHaproxy}
  BY <1>1, Heads
<1>4. prog \in Routers => conf'[prog] = conf[prog]
  BY DEF Disable, Uninstall, Persist, programs, Types, Routers
<1>. QED
  BY <1>1, <1>2, <1>3, <1>4, StoppedTurn

(* After the public port is let through.                                   *)
LEMMA OpenTurn ==
  ASSUME Types, Turn, Open, UNCHANGED cut
  PROVE  Turn'
<1>1. /\ UNCHANGED <<op, prog, want, before, registry, mode, cut, failed, conf, installed, run>>
      /\ todo' = Tail(todo) /\ At("open") /\ Head(todo) = "open" /\ open' /\ saved'
  BY DEF Open, Proceeds, programs, records, At
<1>2. ~failed /\ Applying /\ Trial /\ Unchanged /\ todo \in Unwritten(prog) /\ prog \in Programs
  BY <1>1, Due DEF Unchanged, Types
<1>3. todo' \in Unwritten(prog) /\ todo' \notin Pausing /\ todo \notin Pausing
  BY <1>1, <1>2, Ahead
<1>4. Back'
  BY <1>1, <1>2, <1>3 DEF Unchanged, Back, Same
<1>. QED
  BY <1>1, <1>2, <1>3, <1>4, AheadStays

(* After it is shut again.                                                 *)
LEMMA CloseTurn ==
  ASSUME Types, Turn, Close, UNCHANGED cut
  PROVE  Turn'
<1>1. /\ UNCHANGED <<op, prog, want, before, registry, mode, cut, failed, conf, installed, run>> /\ Proceeds
      /\ todo' = Tail(todo) /\ At("close") /\ Head(todo) = "close" /\ todo # <<>>
  BY DEF Close, Proceeds, programs, records, At
<1>2. CASE failed
  <2>1. Applying /\ Undoing
    BY <1>2 DEF Turn
  <2>2. todo = <<"close">> /\ conf[prog] = before.conf /\ (before.conf # Bare => Back)
    <3>1. CASE todo \in {<<"putBack">>, <<"putBack", "rerun">>, <<"putBack", "rerun", "close">>, <<"rerun">>, <<"rerun", "close">>, <<>>}
      BY <1>1, <3>1
    <3>. QED
      BY <2>1, <3>1 DEF Undoing
  <2>3. todo' = <<>> /\ Known' /\ Applying'
    BY <1>1, <2>1, <2>2, UndoTails, KnownStays DEF Undoing, Applying
  <2>4. before.conf # Bare => Back'
    BY <1>1, <2>2 DEF Back, Same
  <2>5. Undoing'
    BY <1>1, <2>1, <2>2, <2>3, <2>4 DEF Undoing
  <2>. QED
    BY <1>1, <1>2, <2>3, <2>5 DEF Turn
<1>3. CASE ~failed
  <2>1. Shutdown /\ todo \notin Stops \cup {StopsHaproxy}
    BY <1>1, <1>3, Due, Heads
  <2>. QED
    BY <1>1, <1>3, <2>1, StoppedTurn
<1>. QED
  BY <1>2, <1>3

(* After the routes are recorded.                                          *)
LEMMA SaveTurn ==
  ASSUME Types, Turn, Save, UNCHANGED cut
  PROVE  Turn'
<1>1. /\ UNCHANGED <<op, prog, want, before, mode, cut, failed, conf, installed, run, open, saved>>
      /\ todo' = Tail(todo) /\ At("save") /\ Head(todo) = "save" /\ todo # <<>>
      /\ prog \in Routers => registry'[prog] = want.routes
  BY DEF Save, Proceeds, programs, firewall, Types, At
<1>2. CASE ~failed /\ Applying /\ Trial /\ Verified
  <2>1. todo' = Halfsaved /\ New' /\ Applying'
    BY <1>1, <1>2, Heads DEF Verified, New, Applying
  <2>2. Saved'
    BY <1>1, <2>1 DEF Saved, Registered
  <2>3. todo \notin Opening(prog)
    BY <1>1, <1>2, Heads DEF Verified, Types, Unwritten
  <2>4. Trial'
    BY <1>1, <1>2, <2>1, <2>2, <2>3 DEF Trial, Verified, MustOpen
  <2>. QED
    BY <1>1, <1>2, <2>1, <2>4 DEF Turn
<1>3. CASE ~failed /\ Shutdown
  <2>1. /\ todo \in Stopped \/ (todo \in StoppedHaproxy /\ prog = "haproxy")
        /\ run[prog] = Off
    BY <1>1, <1>3, Heads DEF Shutdown
  <2>2. prog \in Routers => registry'[prog] = {}
    BY <1>1, <1>3 DEF Shutdown
  <2>3. CASE todo \in Stopped
    <3>1. todo' = Halfsaved
      BY <1>1, <2>3, Ends, Heads
    <3>2. Shutdown'
      BY <1>1, <1>3, <2>1, <2>2, <3>1 DEF Shutdown
    <3>. QED
      BY <1>1, <1>3, <3>2 DEF Turn
  <2>4. CASE todo \in StoppedHaproxy /\ prog = "haproxy"
    <3>1. todo' = <<>>
      BY <1>1, <2>4, Ends
    <3>2. prog \in Routers => ~Listed(prog)'
      BY <1>1, <2>2, <2>4 DEF Listed
    <3>3. Shutdown'
      BY <1>1, <1>3, <2>1, <3>1, <3>2 DEF Shutdown
    <3>. QED
      BY <1>1, <1>3, <3>3 DEF Turn
  <2>. QED
    BY <2>1, <2>3, <2>4
<1>. QED
  BY <1>1, <1>2, <1>3, Due

(* After the port is recorded.                                             *)
LEMMA SaveModeTurn ==
  ASSUME Types, Turn, SaveMode, UNCHANGED cut
  PROVE  Turn'
<1>1. /\ UNCHANGED <<op, prog, want, before, registry, cut, failed, conf, installed, run, open, saved>>
      /\ todo' = Tail(todo) /\ At("saveMode") /\ mode'[prog] = want.port
  BY DEF SaveMode, Proceeds, programs, firewall, Types
<1>2. CASE ~failed /\ Applying /\ Trial /\ Saved /\ todo = Halfsaved
  <2>1. todo' = <<>> /\ New' /\ Applying' /\ Registered'
    BY <1>1, <1>2, Heads DEF Saved, New, Applying, Registered
  <2>2. Saved'
    BY <1>1, <2>1 DEF Saved
  <2>3. todo \notin Opening(prog)
    BY <1>1, <1>2, Heads DEF Types, Unwritten
  <2>4. Trial'
    BY <1>1, <1>2, <2>1, <2>2, <2>3 DEF Trial, MustOpen
  <2>. QED
    BY <1>1, <1>2, <2>1, <2>4 DEF Turn
<1>3. CASE ~failed /\ Shutdown /\ todo = Halfsaved
  <2>1. todo' = <<>> /\ run[prog] = Off /\ (prog \in Routers => registry[prog] = {})
    <3>1. todo \notin Stops \cup {StopsHaproxy} \cup Stopped \cup StoppedHaproxy /\ todo # <<>>
      BY <1>3, Heads
    <3>. QED
      BY <1>1, <1>3, <3>1, Heads DEF Shutdown
  <2>2. prog \in Routers => ~Listed(prog)'
    BY <1>1, <1>3, <2>1 DEF Listed, Shutdown
  <2>3. Shutdown'
    BY <1>1, <1>3, <2>1, <2>2 DEF Shutdown
  <2>. QED
    BY <1>1, <1>3, <2>3 DEF Turn
<1>. QED
  BY <1>1, <1>2, <1>3, Due

(* After any step of an option.                                            *)
LEMMA StepTurn ==
  ASSUME Types, Found, Turn, Step \/ Write, UNCHANGED cut
  PROVE  Turn'
<1>1. CASE Install \/ Pause \/ Resume \/ Test \/ RestartIt \/ Verify
  BY <1>1, InstallTurn, PauseTurn, ResumeTurn, TestTurn, RestartTurn, VerifyTurn
<1>2. CASE PutBack \/ Rerun \/ Start \/ Stop \/ Disable \/ Uninstall
  BY <1>2, PutBackTurn, RerunTurn, StartTurn, StopTurn, RemoveTurn
<1>3. CASE Open \/ Close \/ Persist \/ Save \/ SaveMode \/ Write
  BY <1>3, OpenTurn, CloseTurn, RemoveTurn, SaveTurn, SaveModeTurn, WriteTurn
<1>. QED
  BY <1>1, <1>2, <1>3 DEF Step

-----------------------------------------------------------------------------
(* What runs is sound, and will come back.                                 *)

(* A step leaves it so.                                                    *)
LEMMA StepSound ==
  ASSUME Types, Sound, Found, Turn, Step \/ Write
  PROVE  Sound'
<1>. DEFINE RunGood == run'[prog] # Off => run'[prog].ok /\ prog \in installed'
            FileGood == conf'[prog].port = NoPort => conf'[prog] = Bare
            SslhGood == prog = "sslh" /\ run'[prog] # Off => conf'[prog] # Bare
<1>0. prog \in Programs
  BY DEF Types
<1>1. SUFFICES RunGood /\ FileGood /\ SslhGood
  <2>1. ASSUME NEW p \in Programs, p # prog
        PROVE  run'[p] = run[p] /\ conf'[p] = conf[p] /\ (p \in installed => p \in installed')
    <3>1. p \in installed => p \in installed'
      BY <2>1 DEF Step, Install, Pause, Resume, Test, RestartIt, Verify, PutBack, Rerun, Start, Stop, Disable, Uninstall,
                  Open, Close, Persist, Save, SaveMode, Write, Runs, programs
    <3>. QED
      BY <2>1, <3>1, Bystanders
  <2>. QED
    BY <1>0, <1>1, <2>1 DEF Sound, Programs
<1>2. /\ run[prog] # Off => run[prog].ok /\ prog \in installed
      /\ conf[prog].port = NoPort => conf[prog] = Bare
      /\ prog = "sslh" /\ run[prog] # Off => conf[prog] # Bare
  BY <1>0 DEF Sound
<1>3. CASE UNCHANGED <<run, conf>> /\ installed \subseteq installed'
  BY <1>2, <1>3
<1>4. CASE Runs(Started)
  <2>1. run'[prog] = Started /\ conf' = conf /\ installed' = installed
    BY <1>0, <1>4 DEF Runs, Types
  <2>. QED
    BY <1>2, <2>1 DEF Started, Starts, Bare
<1>5. CASE Runs(Off)
  <2>1. run'[prog] = Off /\ conf' = conf /\ installed' = installed
    BY <1>0, <1>5 DEF Runs, Types
  <2>. QED
    BY <1>2, <2>1
<1>6. CASE Write
  <2>1. PICK good \in BOOLEAN : conf' = [conf EXCEPT ![prog] = [want EXCEPT !.ok = good]]
    BY <1>6 DEF Write
  <2>2. conf'[prog].port = want.port
    BY <1>0, <2>1 DEF Types, Conf
  <2>3. want.port \in Asked
    BY <1>6, Due DEF Write, Trial
  <2>4. NoPort \notin Asked /\ Bare.port = NoPort
    BY PortsAssumption DEF Asked, Bare
  <2>5. UNCHANGED <<run, installed>>
    BY <1>6 DEF Write
  <2>. QED
    BY <1>2, <2>2, <2>3, <2>4, <2>5
<1>7. CASE PutBack
  <2>1. conf'[prog] = before.conf /\ UNCHANGED <<run, installed>>
    BY <1>0, <1>7 DEF PutBack, Types
  <2>2. Undoing
    BY <1>7, Due DEF PutBack, Turn
  <2>. QED
    BY <1>2, <2>1, <2>2 DEF Undoing, Found
<1>8. CASE Uninstall
  <2>1. run[prog] = Off /\ run' = run
    <3>1. Shutdown /\ todo # <<>> /\ Head(todo) = "uninstall"
      BY <1>8, Due DEF Uninstall, At
    <3>. QED
      BY <1>8, <3>1, Heads DEF Uninstall, Shutdown
  <2>2. conf'[prog] \in {Bare, conf[prog]}
    BY <1>0, <1>8 DEF Uninstall, Types
  <2>. QED
    BY <1>2, <2>1, <2>2
<1>9. CASE Install \/ Test \/ Verify \/ Disable \/ Open \/ Close \/ Persist \/ Save \/ SaveMode
  BY <1>3, <1>9 DEF Install, Test, Verify, Disable, Open, Close, Persist, Save, SaveMode, programs
<1>10. CASE Pause \/ Stop
  BY <1>3, <1>5, <1>10 DEF Pause, Stop, programs
<1>11. CASE Resume \/ RestartIt \/ Start
  BY <1>4, <1>5, <1>11 DEF Resume, RestartIt, Start
<1>12. CASE Rerun
  <2>1. CASE before.conf = Bare
    <3>1. run' = run /\ conf' = conf /\ installed' = installed
      BY <1>12, <2>1 DEF Rerun, Runs, Types
    <3>. QED
      BY <1>3, <3>1
  <2>2. CASE before.conf # Bare
    BY <1>4, <1>12, <2>2 DEF Rerun
  <2>. QED
    BY <2>1, <2>2
<1>. QED
  BY <1>6, <1>7, <1>8, <1>9, <1>10, <1>11, <1>12 DEF Step

(* After a program is disabled, its package is removed.                    *)
LEMMA Disabled ==
  ASSUME NEW t \in Stopped \cup StoppedHaproxy, Head(t) = "disable"
  PROVE  Tail(t) # <<>> /\ Head(Tail(t)) = "uninstall"
<1>1. \/ t = <<"disable", "uninstall", "save", "saveMode">>
      \/ t = <<"disable", "uninstall", "close", "persist", "save", "saveMode">>
      \/ t = <<"disable", "uninstall", "close", "persist", "save">>
  BY DEF Stopped, StoppedHaproxy, Unsaved
<1>2. CASE t = <<"disable", "uninstall", "save", "saveMode">>
  BY <1>2
<1>3. CASE t = <<"disable", "uninstall", "close", "persist", "save", "saveMode">>
  BY <1>3
<1>4. CASE t = <<"disable", "uninstall", "close", "persist", "save">>
  BY <1>4
<1>. QED
  BY <1>1, <1>2, <1>3, <1>4

(* HAProxy is enabled unless it is being removed.                          *)
LEMMA StepBoots ==
  ASSUME Types, Boots, ~Idle, Turn, Step \/ Write, UNCHANGED <<booting, cut>>
  PROVE  Boots'
<1>1. SUFFICES ASSUME ~cut, "haproxy" \in installed'
               PROVE  "haproxy" \in enabled' \/ (prog = "haproxy" /\ At("uninstall")')
  BY Bystanders DEF Boots, Idle
<1>2. "haproxy" \in installed => "haproxy" \in enabled \/ (prog = "haproxy" /\ At("uninstall"))
  BY <1>1 DEF Boots
<1>3. CASE Install
  BY <1>1, <1>2, <1>3 DEF Install, At
<1>4. CASE Disable
  <2>1. Shutdown /\ todo # <<>> /\ Head(todo) = "disable" /\ todo' = Tail(todo) /\ enabled' = enabled \ {prog} /\ installed' = installed
    BY <1>4, Due DEF Disable, At, Proceeds
  <2>2. todo \in Stopped \cup StoppedHaproxy
    BY <2>1, Heads DEF Shutdown
  <2>3. At("uninstall")'
    BY <2>1, <2>2, Disabled DEF At
  <2>. QED
    BY <1>1, <1>2, <2>1, <2>3 DEF At
<1>5. CASE Uninstall
  <2>1. installed' = installed \ {prog} /\ enabled' = enabled
    BY <1>5 DEF Uninstall
  <2>. QED
    BY <1>1, <1>2, <2>1
<1>6. CASE ~Install /\ ~Disable /\ ~Uninstall
  <2>1. UNCHANGED <<installed, enabled>> /\ ~At("uninstall")
    BY <1>6 DEF Step, Pause, Resume, Test, RestartIt, Verify, PutBack, Rerun, Start, Stop,
                  Open, Close, Persist, Save, SaveMode, Write, Runs, programs, At
  <2>. QED
    BY <1>1, <1>2, <2>1
<1>. QED
  BY <1>3, <1>4, <1>5, <1>6

-----------------------------------------------------------------------------
(* Where options begin and end.                                            *)

(* What an option finds, and what it leaves to the others.                 *)
LEMMA BeginFound ==
  ASSUME TypeOK, IInv, NEW o, o # "none", NEW p \in Programs, NEW port, NEW routes, NEW steps,
         Begin(o, p, port, routes, steps)
  PROVE  /\ ~Idle' /\ Sound' /\ Boots' /\ Others' /\ Found' /\ Known' /\ Back'
         /\ conf'[p] = before'.conf /\ run'[p] = before'.run /\ prog' = p
         /\ before'.run # Off => p \in installed'
<1>. USE DEF Begin, records, firewall, history
<1>1. Idle /\ Sound /\ Boots /\ Others /\ Types /\ OneOwner
  BY Parts DEF IInv
<1>2. /\ ~Idle' /\ prog' = p /\ UNCHANGED <<installed, conf, run, registry, mode, open, saved, booting, cut>>
      /\ before'.conf = conf[p] /\ before'.run = run[p] /\ enabled \subseteq enabled' /\ booting = {}
  BY DEF Idle
<1>3. Sound'
  BY <1>1, <1>2 DEF Sound
<1>4. Boots'
  BY <1>1, <1>2 DEF Boots
<1>5. \A q \in Routers : ~cut => Kept(q) /\ Kept(q)'
  BY <1>1, <1>2 DEF Others, Kept, Listed, Record, Listen
<1>6. Others'
  BY <1>2, <1>5 DEF Others
<1>7. Found'
  BY <1>1, <1>2 DEF Found, Sound, OneOwner
<1>8. Known'
  BY <1>2, <1>5 DEF Known, Kept, Listed, Record, Listen
<1>9. Back'
  BY <1>2 DEF Back, Same
<1>. QED
  BY <1>1, <1>2, <1>3, <1>4, <1>6, <1>7, <1>8, <1>9 DEF Sound

(* A change begins.                                                        *)
LEMMA BeginChange ==
  ASSUME TypeOK, IInv, NEW o \in {"setup", "add", "drop", "decoy"}, NEW p \in Programs, NEW port \in Asked,
         NEW routes, NEW steps \in Unwritten(p), steps \notin Pausing, Begin(o, p, port, routes, steps),
         (o = "setup" \/ (p = "haproxy" /\ o = "add")) /\ port = Front => steps \in Opening(p)
  PROVE  IInv'
<1>1. /\ ~Idle' /\ Sound' /\ Boots' /\ Others' /\ Found' /\ Known' /\ Back'
      /\ conf'[p] = before'.conf /\ run'[p] = before'.run /\ prog' = p
      /\ before'.run # Off => p \in installed'
  BY BeginFound
<1>2. op' = o /\ todo' = steps /\ ~failed' /\ want'.port = port /\ want'.ok
  BY DEF Begin
<1>3. Applying'
  BY <1>2, PortsAssumption DEF Applying, Asked
<1>4. Unchanged'
  BY <1>1, <1>2 DEF Unchanged
<1>5. todo' \notin {Unverified, Unsaved, Halfsaved, <<>>}
  BY <1>2, Heads
<1>6. Trial'
  BY <1>1, <1>2, <1>4, <1>5 DEF Trial, MustOpen
<1>. QED
  BY <1>1, <1>2, <1>3, <1>6 DEF IInv, Turn

(* A stop or a removal begins.                                             *)
LEMMA BeginShutdown ==
  ASSUME TypeOK, IInv, NEW o, o # "none", NEW p \in Programs, NEW steps,
         steps \in Stops \/ (steps = StopsHaproxy /\ p = "haproxy"),
         Begin(o, p, NoPort, {}, steps)
  PROVE  IInv'
<1>1. /\ ~Idle' /\ Sound' /\ Boots' /\ Others' /\ Found' /\ Known'
      /\ conf'[p] = before'.conf /\ prog' = p
  BY BeginFound
<1>2. todo' = steps /\ ~failed' /\ want'.port = NoPort /\ want'.routes = {}
  BY DEF Begin
<1>3. Shutdown'
  BY <1>1, <1>2 DEF Shutdown
<1>. QED
  BY <1>1, <1>2, <1>3 DEF IInv, Turn

(* A start or a restart begins.                                            *)
LEMMA BeginStarting ==
  ASSUME TypeOK, IInv, NEW o \in {"start", "restart"}, NEW p \in Programs,
         NEW steps \in {<<"install", "start">>, <<"start">>, <<"again">>},
         p = "sslh" => steps # <<"install", "start">>,
         Begin(o, p, NoPort, {}, steps)
  PROVE  IInv'
<1>1. /\ ~Idle' /\ Sound' /\ Boots' /\ Others' /\ Found' /\ Known'
      /\ conf'[p] = before'.conf /\ run'[p] = before'.run /\ prog' = p
  BY BeginFound
<1>2. op' = o /\ todo' = steps /\ ~failed'
  BY DEF Begin
<1>3. p = "sslh" => conf'[p] # Bare \/ run'[p] = Off
  BY <1>1 DEF Sound
<1>4. Starting'
  BY <1>1, <1>2, <1>3 DEF Starting
<1>. QED
  BY <1>1, <1>2, <1>4 DEF IInv, Turn

(* Whatever option is chosen.                                              *)
LEMMA Chosen ==
  ASSUME TypeOK, IInv, Choose
  PROVE  IInv'
<1>0. Front \in Asked /\ "sslh" \in Programs /\ "nginx" \in Programs /\ "haproxy" \in Programs
  BY DEF Asked, Programs
<1>1. ASSUME NEW p \in {"sslh", "haproxy"}
      PROVE  /\ Installed \in Unwritten(p) /\ InstalledOpen \in Unwritten(p) /\ InstalledOpen \in Opening(p)
             /\ Plain \in Unwritten(p) /\ Plain \notin Pausing /\ Installed \notin Pausing /\ InstalledOpen \notin Pausing
  BY Shapes DEF Unwritten, Opening, Pausing
<1>2. /\ Setting \in Unwritten("nginx") /\ SettingOpen \in Unwritten("nginx") /\ SettingOpen \in Opening("nginx")
      /\ Tested \in Unwritten("nginx") /\ Tested \notin Pausing /\ Setting \notin Pausing /\ SettingOpen \notin Pausing
  BY Shapes DEF Unwritten, Opening, Pausing
<1>3. CASE SetupSslh
  <2>1. Begin("setup", "sslh", Front, {}, InstalledOpen)
    BY <1>3, SetupIs DEF SetupSslh
  <2>. QED
    BY <1>0, <1>1, <2>1, BeginChange
<1>4. CASE SetupNginx
  <2>1. PICK port \in Asked : Begin("setup", "nginx", port, registry["nginx"], Setup("nginx", port))
    BY <1>4 DEF SetupNginx
  <2>. DEFINE steps == Setup("nginx", port)
  <2>2. steps \in Unwritten("nginx") /\ steps \notin Pausing /\ (port = Front => steps \in Opening("nginx"))
    BY <1>2, SetupIs
  <2>. HIDE DEF steps
  <2>3. Begin("setup", "nginx", port, registry["nginx"], steps)
    BY <2>1 DEF steps
  <2>. QED
    BY <1>0, <2>2, <2>3, BeginChange
<1>5. CASE ChangePaths
  <2>1. mode["nginx"] \in Asked
    BY <1>0, <1>5, Parts DEF ChangePaths, Types
  <2>2. PICK routes : \E o \in {"add", "drop", "decoy"} : Begin(o, "nginx", mode["nginx"], routes, Tested)
    BY <1>5, TryingIs DEF ChangePaths
  <2>. QED
    BY <1>0, <1>2, <2>1, <2>2, BeginChange
<1>6. CASE \E name \in Names : AddDomain(name)
  <2>1. Listen("haproxy") \in Asked
    BY <1>0, Parts DEF Types, Listen
  <2>2. PICK port, routes : port \in Asked /\ Begin("add", "haproxy", port, routes, Setup("haproxy", port))
    BY <1>0, <1>6, <2>1 DEF AddDomain
  <2>. DEFINE steps == Setup("haproxy", port)
  <2>3. steps \in Unwritten("haproxy") /\ steps \notin Pausing /\ (port = Front => steps \in Opening("haproxy"))
    BY <1>1, SetupIs
  <2>. HIDE DEF steps
  <2>4. Begin("add", "haproxy", port, routes, steps)
    BY <2>2 DEF steps
  <2>. QED
    BY <1>0, <2>2, <2>3, <2>4, BeginChange
<1>7. CASE \E name \in Names : DropDomain(name)
  <2>1. Listen("haproxy") \in Asked
    BY <1>0, Parts DEF Types, Listen
  <2>2. PICK routes : \/ Begin("drop", "haproxy", NoPort, {}, LastRoute(Listen("haproxy")))
                      \/ Begin("drop", "haproxy", Listen("haproxy"), routes, Plain)
    BY <1>7, TryingIs DEF DropDomain
  <2>3. LastRoute(Listen("haproxy")) \in Stops
    BY LastRouteIs DEF Stops
  <2>4. CASE Begin("drop", "haproxy", NoPort, {}, LastRoute(Listen("haproxy")))
    BY <1>0, <2>3, <2>4, BeginShutdown
  <2>5. CASE Begin("drop", "haproxy", Listen("haproxy"), routes, Plain)
    BY <1>0, <1>1, <2>1, <2>5, BeginChange
  <2>. QED
    BY <2>2, <2>4, <2>5
<1>8. ASSUME NEW p \in Programs, Toggle(p) \/ Restart(p) \/ Remove(p) PROVE IInv'
  <2>1. CASE Restart(p)
    <3>1. Begin("restart", p, NoPort, {}, <<"again">>) /\ <<"again">> # <<"install", "start">>
      BY <2>1 DEF Restart
    <3>. QED
      BY <3>1, BeginStarting
  <2>2. CASE Remove(p)
    <3>. DEFINE steps == Removal(p)
    <3>1. steps \in Stops \/ (steps = StopsHaproxy /\ p = "haproxy")
      BY RemovalIs DEF Stops, StopsHaproxy, Programs
    <3>. HIDE DEF steps
    <3>2. Begin("remove", p, NoPort, {}, steps)
      BY <2>2 DEF Remove, steps
    <3>. QED
      BY <3>1, <3>2, BeginShutdown
  <2>3. CASE Toggle(p)
    <3>1. \/ Begin("stop", p, NoPort, {}, <<"stop">>)
          \/ Begin("start", p, NoPort, {}, IF p = "sslh" THEN <<"start">> ELSE <<"install", "start">>)
      BY <2>3 DEF Toggle
    <3>2. <<"stop">> \in Stops /\ <<"start">> # <<"install", "start">>
      BY DEF Stops
    <3>3. CASE Begin("stop", p, NoPort, {}, <<"stop">>)
      BY <3>2, <3>3, BeginShutdown
    <3>4. CASE Begin("start", p, NoPort, {}, IF p = "sslh" THEN <<"start">> ELSE <<"install", "start">>)
      BY <3>2, <3>4, BeginStarting
    <3>. QED
      BY <3>1, <3>3, <3>4
  <2>. QED
    BY <1>8, <2>1, <2>2, <2>3
<1>. QED
  BY <1>3, <1>4, <1>5, <1>6, <1>7, <1>8 DEF Choose

(* What an option leaves when nothing was cut.                             *)
LEMMA Ending ==
  ASSUME Types, Turn, todo = <<>>, ~cut, prog \in Routers
  PROVE  Kept(prog)
<1>0. prog \in Programs /\ want = [port |-> want.port, routes |-> want.routes, ok |-> want.ok] /\ want.ok \in BOOLEAN
  BY DEF Types, Conf
<1>1. CASE failed
  <2>1. ASSUME Listed(prog)
        PROVE  conf[prog] = Record(prog) /\ run[prog] \in {Record(prog), Off}
    <3>1. Undoing /\ before.conf = Record(prog) /\ before.run \in {Record(prog), Off}
      BY <1>1, <2>1 DEF Turn, Undoing, Known
    <3>2. conf[prog] = before.conf /\ (before.conf # Bare => Back)
      BY <3>1 DEF Undoing
    <3>3. Record(prog).port # NoPort
      BY PortsAssumption DEF Record, Listen, Asked
    <3>4. before.conf # Bare
      BY <3>1, <3>3 DEF Bare
    <3>. QED
      BY <3>1, <3>2, <3>4 DEF Back
  <2>. QED
    BY <2>1 DEF Kept
<1>2. CASE ~failed /\ Applying /\ Trial
  <2>1. New /\ Registered /\ mode[prog] = want.port /\ want.ok
    BY <1>0, <1>2, Heads DEF Trial, Unchanged, Changed, Restarted, Verified, Saved
  <2>2. Listen(prog) = want.port /\ registry[prog] = want.routes
    BY <1>2, <2>1 DEF Listen, Registered, Applying
  <2>3. Record(prog) = want
    BY <1>0, <2>1, <2>2 DEF Record
  <2>. QED
    BY <2>1, <2>3 DEF Kept, New
<1>3. CASE ~failed /\ Shutdown
  <2>1. run[prog] = Off /\ (~Listed(prog) \/ (conf[prog] = before.conf /\ Known))
    <3>1. todo \notin Stops \cup {StopsHaproxy} \cup Stopped \cup StoppedHaproxy /\ todo # Halfsaved
      BY Heads
    <3>. QED
      BY <1>3, <3>1 DEF Shutdown
  <2>. QED
    BY <2>1 DEF Kept, Known
<1>4. CASE ~failed /\ Starting
  BY <1>4 DEF Starting, Known, Kept
<1>. QED
  BY <1>1, <1>2, <1>3, <1>4 DEF Turn

(* The option is over.                                                     *)
LEMMA FinishKeeps ==
  ASSUME Types, IInv, Finish
  PROVE  IInv'
<1>. USE DEF Finish, records, firewall, history
<1>1. ~Idle /\ Sound /\ Boots /\ Others /\ Turn /\ todo = <<>>
  BY DEF IInv
<1>2. Idle' /\ ~failed' /\ todo' = <<>> /\ UNCHANGED <<installed, conf, run, registry, mode, booting, cut>> /\ enabled \subseteq enabled'
  BY DEF Idle
<1>3. Sound' /\ Boots'
  BY <1>1, <1>2 DEF Sound, Boots, At
<1>4. ~cut => \A p \in Routers : Kept(p)
  BY <1>1, Ending DEF Others
<1>5. Others'
  BY <1>2, <1>4 DEF Others, Kept, Listed, Record, Listen
<1>. QED
  BY <1>2, <1>3, <1>5 DEF IInv

(* The panel is gone, or the host.                                         *)
LEMMA GoneKeeps ==
  ASSUME Types, IInv, Hangup \/ Reboot
  PROVE  IInv'
<1>1. Dies /\ cut' /\ Idle' /\ ~failed' /\ todo' = <<>>
  BY DEF Hangup, Reboot, Dies, Idle
<1>2. Boots' /\ Others'
  BY <1>1 DEF Boots, Others
<1>3. CASE Hangup
  BY <1>1, <1>2, <1>3 DEF Hangup, programs, IInv, Sound
<1>4. CASE Reboot
  <2>1. UNCHANGED <<installed, conf>> /\ run' = [p \in Programs |-> Off]
    BY <1>4 DEF Reboot
  <2>2. \A p \in Programs : run'[p] = Off
    BY <2>1
  <2>3. Sound'
    BY <2>1, <2>2 DEF IInv, Sound, Programs
  <2>. QED
    BY <1>1, <1>2, <2>3 DEF IInv
<1>. QED
  BY <1>3, <1>4

(* A program comes up.                                                     *)
LEMMA BootKeeps ==
  ASSUME Types, IInv, NEW p \in Programs, Boot(p)
  PROVE  IInv'
<1>. USE DEF Boot, records, firewall, panel, history
<1>1. Idle /\ cut
  BY DEF IInv, Found, Boots
<1>2. Idle' /\ cut' /\ ~failed' /\ todo' = <<>> /\ UNCHANGED <<installed, conf>>
  BY <1>1 DEF Idle, IInv
<1>3. run' = [run EXCEPT ![p] = IF Starts(p) THEN conf[p] ELSE Off] /\ run \in [Programs -> Conf]
  BY DEF Types
<1>4. \A q \in Programs : q # p => run'[q] = run[q]
  BY <1>3
<1>5. /\ run'[p] # Off => run'[p].ok /\ p \in installed
      /\ p = "sslh" /\ run'[p] # Off => conf[p] # Bare
  BY <1>3 DEF Starts, Bare
<1>6. Sound'
  BY <1>2, <1>4, <1>5 DEF IInv, Sound, Programs
<1>7. Boots' /\ Others'
  BY <1>2 DEF Boots, Others
<1>. QED
  BY <1>2, <1>6, <1>7 DEF IInv

(* A step of the option.                                                   *)
LEMMA StepKeeps ==
  ASSUME Types, Types', IInv, Step \/ Write, UNCHANGED <<booting, cut>>
  PROVE  IInv'
<1>1. ~Idle /\ Sound /\ Boots /\ Others /\ Found /\ Turn
  BY Bystanders DEF IInv
<1>2. ~Idle'
  BY <1>1, Bystanders DEF Idle
<1>3. Sound' /\ Boots' /\ Others' /\ Found' /\ Turn'
  BY <1>1, StepSound, StepBoots, OthersStay, FoundStays, StepTurn
<1>. QED
  BY <1>2, <1>3 DEF IInv

(* The invariant holds for every set of routes and inner ports.            *)
LEMMA InvAlways == Spec => []IInv
<1>1. Init => IInv
  <2>. SUFFICES ASSUME Init PROVE IInv
    OBVIOUS
  <2>1. \A p \in Programs : run[p] = Off /\ conf[p] = Bare /\ mode[p] = NoPort
    BY DEF Init
  <2>2. \A p \in Routers : registry[p] = {} /\ mode[p] = NoPort
    BY <2>1 DEF Init, Routers, Programs
  <2>3. Sound
    BY <2>1 DEF Sound, Programs
  <2>4. Boots
    BY DEF Init, Boots
  <2>5. Others
    BY <2>2 DEF Others, Kept, Listed
  <2>. QED
    BY <2>3, <2>4, <2>5 DEF Init, IInv, Idle
<1>2. TypeOK /\ TypeOK' /\ IInv /\ [Next]_vars => IInv'
  <2>. SUFFICES ASSUME TypeOK, TypeOK', IInv, [Next]_vars PROVE IInv'
    OBVIOUS
  <2>0. Types /\ Types'
    BY DEF TypeOK, Types
  <2>1. CASE Choose
    BY <2>1, Chosen
  <2>2. CASE Finish
    BY <2>0, <2>2, FinishKeeps
  <2>3. CASE (Step \/ Write) /\ UNCHANGED <<booting, cut>>
    BY <2>0, <2>3, StepKeeps
  <2>4. CASE Hangup \/ Reboot
    BY <2>0, <2>4, GoneKeeps
  <2>5. CASE \E p \in Programs : Boot(p)
    BY <2>0, <2>5, BootKeeps
  <2>6. CASE UNCHANGED vars
    BY <2>6 DEF vars, programs, records, firewall, panel, history, IInv, Sound, Boots, Others, Found, Turn, Idle, At,
       Kept, Listed, Record, Listen, Applying, Trial, Undoing, Shutdown, Starting, Known, Unchanged, Changed, Restarted,
       Verified, Saved, Registered, Same, Back, New, MustOpen
  <2>. QED
    BY <2>1, <2>2, <2>3, <2>4, <2>5, <2>6 DEF Next
<1>. QED
  BY <1>1, <1>2, TypeCorrect, PTL DEF Spec

-----------------------------------------------------------------------------
(* What the menu of a router lists is what the router does if it runs,     *)
(* however many changes of whatever program have failed.                   *)
THEOREM ListsWhatRuns == Spec => []ListedServed
<1>1. IInv => ListedServed
  BY DEF IInv, Others, Kept, Record, Active, ListedServed
<1>. QED
  BY <1>1, InvAlways, PTL

(* A change of a router that is told to be applied is what it runs, on a   *)
(* port that is let through, whatever was cut off before.                  *)
THEOREM AppliedRuns == Spec => []ChangeServed
<1>1. TypeOK /\ IInv => ChangeServed
  <2>. SUFFICES ASSUME TypeOK, IInv, Ended(FALSE), prog \in Routers, op \in {"setup", "add", "drop", "decoy"}, want.port # NoPort
                PROVE  /\ run[prog] = want /\ conf[prog] = want
                       /\ (op = "setup" \/ (prog = "haproxy" /\ op = "add")) /\ want.port = Front => open /\ saved
    BY DEF ChangeServed
  <2>1. ~failed /\ todo = <<>> /\ Applying /\ Turn /\ prog \in Programs
    BY DEF Ended, IInv, Applying, Routers, Programs
  <2>2. Trial
    BY <2>1 DEF Turn, Shutdown, Starting, Applying
  <2>3. New
    BY <2>1, <2>2, Heads DEF Trial, Unchanged, Changed, Restarted, Verified, Saved
  <2>4. todo \notin Opening(prog)
    BY <2>1, Heads DEF Unwritten
  <2>. QED
    BY <2>2, <2>3, <2>4 DEF Trial, New, MustOpen
<1>. QED
  BY <1>1, InvAlways, TypeCorrect, PTL

(* A change that failed leaves a program that ran its file running it.     *)
THEOREM FailureHarmless == Spec => []OldServed
<1>1. IInv => OldServed
  <2>. SUFFICES ASSUME IInv, Ended(TRUE), before.conf # Bare, before.run = before.conf
                PROVE  run[prog] = before.run /\ conf[prog] = before.conf
    BY DEF OldServed
  <2>1. failed /\ todo = <<>> /\ Undoing
    BY DEF Ended, IInv, Turn
  <2>. QED
    BY <2>1 DEF Undoing, Back, Same
<1>. QED
  BY <1>1, InvAlways, PTL

(* What a menu runs when its option is over will run after a reboot.       *)
THEOREM ComesBack == Spec => Comeback
<1>. DEFINE Back1 == Finish /\ Active(prog) /\ (prog = "haproxy" => ~cut) /\ (prog = "nginx" => mode[prog] # NoPort) => prog \in enabled'
<1>1. TypeOK /\ IInv /\ [Next]_vars => [Back1]_vars
  <2>. SUFFICES ASSUME TypeOK, IInv, Finish, Active(prog), prog = "haproxy" => ~cut, prog = "nginx" => mode[prog] # NoPort
                PROVE  prog \in enabled'
    OBVIOUS
  <2>0. prog \in Programs /\ todo = <<>>
    BY DEF TypeOK, Finish
  <2>1. CASE prog = "haproxy"
    <3>1. "haproxy" \in installed
      BY <2>0, <2>1 DEF IInv, Sound, Active
    <3>. QED
      BY <2>0, <2>1, <3>1 DEF IInv, Boots, At, Finish
  <2>2. CASE prog = "nginx"
    BY <2>2 DEF Finish, Reenabled
  <2>3. CASE prog = "sslh"
    BY <2>3 DEF Finish, Reenabled, IInv, Sound, Active
  <2>. QED
    BY <2>0, <2>1, <2>2, <2>3 DEF Programs
<1>. QED
  BY <1>1, InvAlways, TypeCorrect, PTL DEF Spec, Comeback
=============================================================================
