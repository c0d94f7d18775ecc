------------------------- MODULE ServicePortsProofs -------------------------
(***************************************************************************)
(* TypeOK, ChangeReachable, FailureUndone, RebootKeepsPorts, RemovedWhole  *)
(* and NoLockout of ServicePorts, for every set of ports, every choice of  *)
(* managers and any number of crashes.                                     *)
(*                                                                         *)
(* The argument has two halves.  The first looks at no behaviour: each     *)
(* option of the eighteen menus keeps the same few rules on the order of   *)
(* its steps (Ordered) and on what it asks, does and takes back (Fair).    *)
(* The second never looks at a menu again: the inductive invariant (IInv)  *)
(* says of each part of an option's promise that it is there, or that its  *)
(* step is among those left.                                               *)
(***************************************************************************)
EXTENDS ServicePorts, SequenceTheorems, TLAPS

-----------------------------------------------------------------------------
(* The step sequences: what every one of them keeps, whoever wrote it.     *)

(* The names of the steps.                                                 *)
Steps == {"install", "open", "persist", "write", "append", "rewrite", "cut", "edit", "wipe", "create",
          "test", "restart", "verify", "verifyAny", "record", "recordAlso", "recordFile", "unrecord", "forget",
          "save", "retire", "close", "closeNew", "putBack", "putBackOrErase", "putBackRecorded",
          "rerun", "again", "bounce", "halt", "stop", "toggle", "erase", "purge"}

(* Those with a check, those that come when no check is left, those that   *)
(* touch what listens, and those that put a file back.                     *)
Failing == {"create", "test", "restart", "verify", "verifyAny"}
Final == {"retire", "record", "recordAlso", "recordFile", "unrecord", "forget", "close", "closeNew"}
Disturbing == {"restart", "rerun", "again", "bounce", "halt", "stop"}
PutBacks == {"putBack", "putBackOrErase", "putBackRecorded"}

(* The steps of a sequence; where b must follow a at once, and where       *)
(* nothing of B may come after something of A.                             *)
Elems(s) == {s[i] : i \in DOMAIN s}
Follows(s, a, B) == \A i \in DOMAIN s : s[i] = a => i + 1 \in DOMAIN s /\ s[i + 1] \in B
Never(s, A, B) == \A i, j \in DOMAIN s : i < j /\ s[i] \in A => s[j] \notin B

(* The rules on the order of the steps.                                    *)
Ordered(s) ==
  /\ Follows(s, "open", {"persist"})
  /\ Follows(s, "create", {"open"})
  /\ Follows(s, "restart", {"verify", "verifyAny", "close"})
  /\ Never(s, Steps, {"stop"})
  /\ Never(s, {"open"}, {"open"})
  /\ Never(s, Final, Failing)
  /\ Never(s, Disturbing, {"test"})
  /\ Never(s, {"rerun", "again"}, PutBacks)

(* A sequence that keeps them, with the steps it has.                      *)
Fits(s, parts) == s \in Seq(Steps) /\ Ordered(s) /\ Elems(s) = parts

(* The steps of a first setup keep the rules;                              *)
LEMMA SetupFits ==
  Fits(<<"install">> \o Opening \o Trying \o <<"record">>,
       {"install", "open", "persist", "write", "restart", "verify", "record"})
<1>. DEFINE s == <<"install">> \o Opening \o Trying \o <<"record">>
<1>0. s \in Seq(Steps) /\ Len(s) = 7 /\ s[1] = "install" /\ s[2] = "open" /\ s[3] = "persist" /\ s[4] = "write"
        /\ s[5] = "restart" /\ s[6] = "verify" /\ s[7] = "record"
  BY DEF Steps, Opening, Trying
<1>. HIDE DEF s
<1>1. s \in Seq(Steps) /\ Elems(s) = {"install", "open", "persist", "write", "restart", "verify", "record"}
  BY <1>0 DEF Elems
<1>2. Follows(s, "open", {"persist"}) /\ Follows(s, "create", {"open"})
  BY <1>0 DEF Follows
<1>3. Follows(s, "restart", {"verify", "verifyAny", "close"})
  BY <1>0 DEF Follows
<1>4. Never(s, Steps, {"stop"}) /\ Never(s, {"open"}, {"open"})
  BY <1>0 DEF Never
<1>5. Never(s, Disturbing, {"test"})
  BY <1>0 DEF Never, Disturbing
<1>6. Never(s, Final, Failing) /\ Never(s, {"rerun", "again"}, PutBacks)
  BY <1>0 DEF Never, Final, Failing, PutBacks
<1>. QED
  BY <1>1, <1>2, <1>3, <1>4, <1>5, <1>6 DEF Fits, Ordered, s

(* those of a change of port;                                              *)
LEMMA MoveFits ==
  Fits(Opening \o Trying \o <<"record", "retire">>,
       {"open", "persist", "write", "restart", "verify", "record", "retire"})
<1>. DEFINE s == Opening \o Trying \o <<"record", "retire">>
<1>0. s \in Seq(Steps) /\ Len(s) = 7 /\ s[1] = "open" /\ s[2] = "persist" /\ s[3] = "write" /\ s[4] = "restart"
        /\ s[5] = "verify" /\ s[6] = "record" /\ s[7] = "retire"
  BY DEF Steps, Opening, Trying
<1>. HIDE DEF s
<1>1. s \in Seq(Steps) /\ Elems(s) = {"open", "persist", "write", "restart", "verify", "record", "retire"}
  BY <1>0 DEF Elems
<1>2. Follows(s, "open", {"persist"}) /\ Follows(s, "create", {"open"})
  BY <1>0 DEF Follows
<1>3. Follows(s, "restart", {"verify", "verifyAny", "close"})
  BY <1>0 DEF Follows
<1>4. Never(s, Steps, {"stop"}) /\ Never(s, {"open"}, {"open"})
  BY <1>0 DEF Never
<1>5. Never(s, Disturbing, {"test"})
  BY <1>0 DEF Never, Disturbing
<1>6. Never(s, Final, Failing) /\ Never(s, {"rerun", "again"}, PutBacks)
  BY <1>0 DEF Never, Final, Failing, PutBacks
<1>. QED
  BY <1>1, <1>2, <1>3, <1>4, <1>5, <1>6 DEF Fits, Ordered, s

(* those of a setup that writes the file before it opens the port;         *)
LEMMA FileFirstFits ==
  Fits(<<"install", "write", "open", "persist", "restart", "verify", "record">>,
       {"install", "write", "open", "persist", "restart", "verify", "record"})
<1>. DEFINE s == <<"install", "write", "open", "persist", "restart", "verify", "record">>
<1>1. s \in Seq(Steps) /\ Elems(s) = {"install", "write", "open", "persist", "restart", "verify", "record"}
  BY DEF Steps, Elems
<1>2. Follows(s, "open", {"persist"}) /\ Follows(s, "create", {"open"})
  BY DEF Follows
<1>3. Follows(s, "restart", {"verify", "verifyAny", "close"})
  BY DEF Follows
<1>4. Never(s, Steps, {"stop"}) /\ Never(s, {"open"}, {"open"})
  BY DEF Never
<1>5. Never(s, Disturbing, {"test"})
  BY DEF Never, Disturbing
<1>6. Never(s, Final, Failing) /\ Never(s, {"rerun", "again"}, PutBacks)
  BY DEF Never, Final, Failing, PutBacks
<1>. QED
  BY <1>1, <1>2, <1>3, <1>4, <1>5, <1>6 DEF Fits, Ordered

(* those of OpenVPN, which saves its record at once:                       *)
LEMMA SavedSetupFits ==
  Fits(Installing \o Opening \o Trying \o <<"record", "save">>,
       {"install", "open", "persist", "write", "restart", "verify", "record", "save"})
<1>. DEFINE s == Installing \o Opening \o Trying \o <<"record", "save">>
<1>0. s \in Seq(Steps) /\ Len(s) = 8 /\ s[1] = "install" /\ s[2] = "open" /\ s[3] = "persist" /\ s[4] = "write"
        /\ s[5] = "restart" /\ s[6] = "verify" /\ s[7] = "record" /\ s[8] = "save"
  BY DEF Steps, Opening, Trying, Installing
<1>. HIDE DEF s
<1>1. s \in Seq(Steps) /\ Elems(s) = {"install", "open", "persist", "write", "restart", "verify", "record", "save"}
  BY <1>0 DEF Elems
<1>2. Follows(s, "open", {"persist"}) /\ Follows(s, "create", {"open"})
  BY <1>0 DEF Follows
<1>3. Follows(s, "restart", {"verify", "verifyAny", "close"})
  BY <1>0 DEF Follows
<1>4. Never(s, Steps, {"stop"}) /\ Never(s, {"open"}, {"open"})
  BY <1>0 DEF Never
<1>5. Never(s, Disturbing, {"test"})
  BY <1>0 DEF Never, Disturbing
<1>6. Never(s, Final, Failing) /\ Never(s, {"rerun", "again"}, PutBacks)
  BY <1>0 DEF Never, Final, Failing, PutBacks
<1>. QED
  BY <1>1, <1>2, <1>3, <1>4, <1>5, <1>6 DEF Fits, Ordered, s

(* its setup, and its change of port;                                      *)
LEMMA SavedMoveFits ==
  Fits(Opening \o Trying \o <<"record", "save", "retire">>,
       {"open", "persist", "write", "restart", "verify", "record", "save", "retire"})
<1>. DEFINE s == Opening \o Trying \o <<"record", "save", "retire">>
<1>0. s \in Seq(Steps) /\ Len(s) = 8 /\ s[1] = "open" /\ s[2] = "persist" /\ s[3] = "write" /\ s[4] = "restart"
        /\ s[5] = "verify" /\ s[6] = "record" /\ s[7] = "save" /\ s[8] = "retire"
  BY DEF Steps, Opening, Trying
<1>. HIDE DEF s
<1>1. s \in Seq(Steps) /\ Elems(s) = {"open", "persist", "write", "restart", "verify", "record", "save", "retire"}
  BY <1>0 DEF Elems
<1>2. Follows(s, "open", {"persist"}) /\ Follows(s, "create", {"open"})
  BY <1>0 DEF Follows
<1>3. Follows(s, "restart", {"verify", "verifyAny", "close"})
  BY <1>0 DEF Follows
<1>4. Never(s, Steps, {"stop"}) /\ Never(s, {"open"}, {"open"})
  BY <1>0 DEF Never
<1>5. Never(s, Disturbing, {"test"})
  BY <1>0 DEF Never, Disturbing
<1>6. Never(s, Final, Failing) /\ Never(s, {"rerun", "again"}, PutBacks)
  BY <1>0 DEF Never, Final, Failing, PutBacks
<1>. QED
  BY <1>1, <1>2, <1>3, <1>4, <1>5, <1>6 DEF Fits, Ordered, s

(* those of Squid, which parses the file before the restart:               *)
LEMMA TestedSetupFits ==
  Fits(Installing \o Opening \o <<"write", "test", "restart", "verify", "record">>,
       {"install", "open", "persist", "write", "test", "restart", "verify", "record"})
<1>. DEFINE s == Installing \o Opening \o <<"write", "test", "restart", "verify", "record">>
<1>0. s \in Seq(Steps) /\ Len(s) = 8 /\ s[1] = "install" /\ s[2] = "open" /\ s[3] = "persist" /\ s[4] = "write"
        /\ s[5] = "test" /\ s[6] = "restart" /\ s[7] = "verify" /\ s[8] = "record"
  BY DEF Steps, Opening, Installing
<1>. HIDE DEF s
<1>1. s \in Seq(Steps) /\ Elems(s) = {"install", "open", "persist", "write", "test", "restart", "verify", "record"}
  BY <1>0 DEF Elems
<1>2. Follows(s, "open", {"persist"}) /\ Follows(s, "create", {"open"})
  BY <1>0 DEF Follows
<1>3. Follows(s, "restart", {"verify", "verifyAny", "close"})
  BY <1>0 DEF Follows
<1>4. Never(s, Steps, {"stop"}) /\ Never(s, {"open"}, {"open"})
  BY <1>0 DEF Never
<1>5. Never(s, Disturbing, {"test"})
  BY <1>0 DEF Never, Disturbing
<1>6. Never(s, Final, Failing) /\ Never(s, {"rerun", "again"}, PutBacks)
  BY <1>0 DEF Never, Final, Failing, PutBacks
<1>. QED
  BY <1>1, <1>2, <1>3, <1>4, <1>5, <1>6 DEF Fits, Ordered, s

(* its setup, and its change of port;                                      *)
LEMMA TestedMoveFits ==
  Fits(Opening \o <<"write", "test", "restart", "verify", "record">> \o <<"retire">>,
       {"open", "persist", "write", "test", "restart", "verify", "record", "retire"})
<1>. DEFINE s == Opening \o <<"write", "test", "restart", "verify", "record">> \o <<"retire">>
<1>0. s \in Seq(Steps) /\ Len(s) = 8 /\ s[1] = "open" /\ s[2] = "persist" /\ s[3] = "write" /\ s[4] = "test"
        /\ s[5] = "restart" /\ s[6] = "verify" /\ s[7] = "record" /\ s[8] = "retire"
  BY DEF Steps, Opening
<1>. HIDE DEF s
<1>1. s \in Seq(Steps) /\ Elems(s) = {"open", "persist", "write", "test", "restart", "verify", "record", "retire"}
  BY <1>0 DEF Elems
<1>2. Follows(s, "open", {"persist"}) /\ Follows(s, "create", {"open"})
  BY <1>0 DEF Follows
<1>3. Follows(s, "restart", {"verify", "verifyAny", "close"})
  BY <1>0 DEF Follows
<1>4. Never(s, Steps, {"stop"}) /\ Never(s, {"open"}, {"open"})
  BY <1>0 DEF Never
<1>5. Never(s, Disturbing, {"test"})
  BY <1>0 DEF Never, Disturbing
<1>6. Never(s, Final, Failing) /\ Never(s, {"rerun", "again"}, PutBacks)
  BY <1>0 DEF Never, Final, Failing, PutBacks
<1>. QED
  BY <1>1, <1>2, <1>3, <1>4, <1>5, <1>6 DEF Fits, Ordered, s

(* those of WS-EPRO, whose change is a setup that closes the old port;     *)
LEMMA SetupRetireFits ==
  Fits(<<"install">> \o Opening \o Trying \o <<"record">> \o <<"retire">>,
       {"install", "open", "persist", "write", "restart", "verify", "record", "retire"})
<1>. DEFINE s == <<"install">> \o Opening \o Trying \o <<"record">> \o <<"retire">>
<1>0. s \in Seq(Steps) /\ Len(s) = 8 /\ s[1] = "install" /\ s[2] = "open" /\ s[3] = "persist" /\ s[4] = "write"
        /\ s[5] = "restart" /\ s[6] = "verify" /\ s[7] = "record" /\ s[8] = "retire"
  BY DEF Steps, Opening, Trying
<1>. HIDE DEF s
<1>1. s \in Seq(Steps) /\ Elems(s) = {"install", "open", "persist", "write", "restart", "verify", "record", "retire"}
  BY <1>0 DEF Elems
<1>2. Follows(s, "open", {"persist"}) /\ Follows(s, "create", {"open"})
  BY <1>0 DEF Follows
<1>3. Follows(s, "restart", {"verify", "verifyAny", "close"})
  BY <1>0 DEF Follows
<1>4. Never(s, Steps, {"stop"}) /\ Never(s, {"open"}, {"open"})
  BY <1>0 DEF Never
<1>5. Never(s, Disturbing, {"test"})
  BY <1>0 DEF Never, Disturbing
<1>6. Never(s, Final, Failing) /\ Never(s, {"rerun", "again"}, PutBacks)
  BY <1>0 DEF Never, Final, Failing, PutBacks
<1>. QED
  BY <1>1, <1>2, <1>3, <1>4, <1>5, <1>6 DEF Fits, Ordered, s

(* those of SSHGO, whose change installs the program again;                *)
LEMMA InstallMoveFits ==
  Fits(Installing \o (Opening \o Trying \o <<"record", "retire">>),
       {"install", "open", "persist", "write", "restart", "verify", "record", "retire"})
<1>. DEFINE s == Installing \o (Opening \o Trying \o <<"record", "retire">>)
<1>0. s \in Seq(Steps) /\ Len(s) = 8 /\ s[1] = "install" /\ s[2] = "open" /\ s[3] = "persist" /\ s[4] = "write"
        /\ s[5] = "restart" /\ s[6] = "verify" /\ s[7] = "record" /\ s[8] = "retire"
  BY DEF Steps, Opening, Trying, Installing
<1>. HIDE DEF s
<1>1. s \in Seq(Steps) /\ Elems(s) = {"install", "open", "persist", "write", "restart", "verify", "record", "retire"}
  BY <1>0 DEF Elems
<1>2. Follows(s, "open", {"persist"}) /\ Follows(s, "create", {"open"})
  BY <1>0 DEF Follows
<1>3. Follows(s, "restart", {"verify", "verifyAny", "close"})
  BY <1>0 DEF Follows
<1>4. Never(s, Steps, {"stop"}) /\ Never(s, {"open"}, {"open"})
  BY <1>0 DEF Never
<1>5. Never(s, Disturbing, {"test"})
  BY <1>0 DEF Never, Disturbing
<1>6. Never(s, Final, Failing) /\ Never(s, {"rerun", "again"}, PutBacks)
  BY <1>0 DEF Never, Final, Failing, PutBacks
<1>. QED
  BY <1>1, <1>2, <1>3, <1>4, <1>5, <1>6 DEF Fits, Ordered, s

(* those of File Browser, which makes its database anew:                   *)
LEMMA FilebrowserSetupFits ==
  Fits(<<"install", "wipe", "create", "open", "persist", "restart", "verify", "record">>,
       {"install", "wipe", "create", "open", "persist", "restart", "verify", "record"})
<1>. DEFINE s == <<"install", "wipe", "create", "open", "persist", "restart", "verify", "record">>
<1>1. s \in Seq(Steps) /\ Elems(s) = {"install", "wipe", "create", "open", "persist", "restart", "verify", "record"}
  BY DEF Steps, Elems
<1>2. Follows(s, "open", {"persist"}) /\ Follows(s, "create", {"open"})
  BY DEF Follows
<1>3. Follows(s, "restart", {"verify", "verifyAny", "close"})
  BY DEF Follows
<1>4. Never(s, Steps, {"stop"}) /\ Never(s, {"open"}, {"open"})
  BY DEF Never
<1>5. Never(s, Disturbing, {"test"})
  BY DEF Never, Disturbing
<1>6. Never(s, Final, Failing) /\ Never(s, {"rerun", "again"}, PutBacks)
  BY DEF Never, Final, Failing, PutBacks
<1>. QED
  BY <1>1, <1>2, <1>3, <1>4, <1>5, <1>6 DEF Fits, Ordered

(* its setup, and its change of port;                                      *)
LEMMA FilebrowserMoveFits ==
  Fits(<<"create", "open", "persist", "restart", "verify", "record", "retire">>,
       {"create", "open", "persist", "restart", "verify", "record", "retire"})
<1>. DEFINE s == <<"create", "open", "persist", "restart", "verify", "record", "retire">>
<1>1. s \in Seq(Steps) /\ Elems(s) = {"create", "open", "persist", "restart", "verify", "record", "retire"}
  BY DEF Steps, Elems
<1>2. Follows(s, "open", {"persist"}) /\ Follows(s, "create", {"open"})
  BY DEF Follows
<1>3. Follows(s, "restart", {"verify", "verifyAny", "close"})
  BY DEF Follows
<1>4. Never(s, Steps, {"stop"}) /\ Never(s, {"open"}, {"open"})
  BY DEF Never
<1>5. Never(s, Disturbing, {"test"})
  BY DEF Never, Disturbing
<1>6. Never(s, Final, Failing) /\ Never(s, {"rerun", "again"}, PutBacks)
  BY DEF Never, Final, Failing, PutBacks
<1>. QED
  BY <1>1, <1>2, <1>3, <1>4, <1>5, <1>6 DEF Fits, Ordered

(* those of a change of WireGuard's port;                                  *)
LEMMA WireguardMoveFits ==
  Fits(<<"write", "open", "persist", "restart", "verify", "record", "retire">>,
       {"write", "open", "persist", "restart", "verify", "record", "retire"})
<1>. DEFINE s == <<"write", "open", "persist", "restart", "verify", "record", "retire">>
<1>1. s \in Seq(Steps) /\ Elems(s) = {"write", "open", "persist", "restart", "verify", "record", "retire"}
  BY DEF Steps, Elems
<1>2. Follows(s, "open", {"persist"}) /\ Follows(s, "create", {"open"})
  BY DEF Follows
<1>3. Follows(s, "restart", {"verify", "verifyAny", "close"})
  BY DEF Follows
<1>4. Never(s, Steps, {"stop"}) /\ Never(s, {"open"}, {"open"})
  BY DEF Never
<1>5. Never(s, Disturbing, {"test"})
  BY DEF Never, Disturbing
<1>6. Never(s, Final, Failing) /\ Never(s, {"rerun", "again"}, PutBacks)
  BY DEF Never, Final, Failing, PutBacks
<1>. QED
  BY <1>1, <1>2, <1>3, <1>4, <1>5, <1>6 DEF Fits, Ordered

(* those of one more port of Stunnel or Python SOCKS;                      *)
LEMMA AddFits ==
  Fits(Installing \o Opening \o <<"append", "restart", "verify", "recordAlso">>,
       {"install", "open", "persist", "append", "restart", "verify", "recordAlso"})
<1>. DEFINE s == Installing \o Opening \o <<"append", "restart", "verify", "recordAlso">>
<1>0. s \in Seq(Steps) /\ Len(s) = 7 /\ s[1] = "install" /\ s[2] = "open" /\ s[3] = "persist" /\ s[4] = "append"
        /\ s[5] = "restart" /\ s[6] = "verify" /\ s[7] = "recordAlso"
  BY DEF Steps, Opening, Installing
<1>. HIDE DEF s
<1>1. s \in Seq(Steps) /\ Elems(s) = {"install", "open", "persist", "append", "restart", "verify", "recordAlso"}
  BY <1>0 DEF Elems
<1>2. Follows(s, "open", {"persist"}) /\ Follows(s, "create", {"open"})
  BY <1>0 DEF Follows
<1>3. Follows(s, "restart", {"verify", "verifyAny", "close"})
  BY <1>0 DEF Follows
<1>4. Never(s, Steps, {"stop"}) /\ Never(s, {"open"}, {"open"})
  BY <1>0 DEF Never
<1>5. Never(s, Disturbing, {"test"})
  BY <1>0 DEF Never, Disturbing
<1>6. Never(s, Final, Failing) /\ Never(s, {"rerun", "again"}, PutBacks)
  BY <1>0 DEF Never, Final, Failing, PutBacks
<1>. QED
  BY <1>1, <1>2, <1>3, <1>4, <1>5, <1>6 DEF Fits, Ordered, s

(* those of a list of ports of Dropbear;                                   *)
LEMMA ListFits ==
  Fits(<<"install", "write", "open", "persist", "restart", "verifyAny", "retire", "persist", "record">>,
       {"install", "write", "open", "persist", "restart", "verifyAny", "retire", "record"})
<1>. DEFINE s == <<"install", "write", "open", "persist", "restart", "verifyAny", "retire", "persist", "record">>
<1>1. s \in Seq(Steps) /\ Elems(s) = {"install", "write", "open", "persist", "restart", "verifyAny", "retire",
        "record"}
  BY DEF Steps, Elems
<1>2. Follows(s, "open", {"persist"}) /\ Follows(s, "create", {"open"})
  BY DEF Follows
<1>3. Follows(s, "restart", {"verify", "verifyAny", "close"})
  BY DEF Follows
<1>4. Never(s, Steps, {"stop"}) /\ Never(s, {"open"}, {"open"})
  BY DEF Never
<1>5. Never(s, Disturbing, {"test"})
  BY DEF Never, Disturbing
<1>6. Never(s, Final, Failing) /\ Never(s, {"rerun", "again"}, PutBacks)
  BY DEF Never, Final, Failing, PutBacks
<1>. QED
  BY <1>1, <1>2, <1>3, <1>4, <1>5, <1>6 DEF Fits, Ordered

(* those of a change of content;                                           *)
LEMMA ContentFits ==
  /\ Fits(<<"rewrite", "restart", "verify">>, {"rewrite", "restart", "verify"})
  /\ Fits(<<"bounce">>, {"bounce"})
<1>1. Fits(<<"rewrite", "restart", "verify">>, {"rewrite", "restart", "verify"})
  BY DEF Fits, Ordered, Follows, Never, Elems, Steps, Final, Failing, Disturbing, PutBacks
<1>2. Fits(<<"bounce">>, {"bounce"})
  BY DEF Fits, Ordered, Follows, Never, Elems, Steps, Final, Failing, Disturbing, PutBacks
<1>. QED
  BY <1>1, <1>2

(* those of an edited file;                                                *)
LEMMA EditFits ==
  /\ Fits(<<>> \o <<"edit", "again">>, {"edit", "again"})
  /\ Fits(Installing \o <<"edit", "again">>, {"install", "edit", "again"})
  /\ Fits(<<"install", "edit", "test", "again">>, {"install", "edit", "test", "again"})
<1>1. Fits(<<>> \o <<"edit", "again">>, {"edit", "again"})
  BY DEF Fits, Ordered, Follows, Never, Elems, Steps, Final, Failing, Disturbing, PutBacks
<1>2. Fits(Installing \o <<"edit", "again">>, {"install", "edit", "again"})
  <2>. DEFINE s == Installing \o <<"edit", "again">>
  <2>1. s \in Seq(Steps) /\ Len(s) = 3 /\ s[1] = "install" /\ s[2] = "edit" /\ s[3] = "again"
    BY DEF Steps, Installing
  <2>. HIDE DEF s
  <2>2. Fits(s, {"install", "edit", "again"})
    BY <2>1 DEF Fits, Ordered, Follows, Never, Elems, Steps, Final, Failing, Disturbing, PutBacks
  <2>. QED
    BY <2>2 DEF s
<1>3. Fits(<<"install", "edit", "test", "again">>, {"install", "edit", "test", "again"})
  BY DEF Fits, Ordered, Follows, Never, Elems, Steps, Final, Failing, Disturbing, PutBacks
<1>. QED
  BY <1>1, <1>2, <1>3

(* those of the options that every menu has;                               *)
LEMMA RestFits ==
  /\ Fits(<<"again">>, {"again"})
  /\ Fits(<<"stop">>, {"stop"})
  /\ Fits(<<>> \o <<"again">>, {"again"})
  /\ Fits(Installing \o <<"again">>, {"install", "again"})
  /\ Fits(<<"test", "again">>, {"test", "again"})
  /\ Fits(<<"toggle">>, {"toggle"})
<1>1. Fits(<<"again">>, {"again"})
  BY DEF Fits, Ordered, Follows, Never, Elems, Steps, Final, Failing, Disturbing, PutBacks
<1>2. Fits(<<"stop">>, {"stop"})
  BY DEF Fits, Ordered, Follows, Never, Elems, Steps, Final, Failing, Disturbing, PutBacks
<1>3. Fits(<<>> \o <<"again">>, {"again"})
  BY DEF Fits, Ordered, Follows, Never, Elems, Steps, Final, Failing, Disturbing, PutBacks
<1>4. Fits(Installing \o <<"again">>, {"install", "again"})
  BY DEF Fits, Ordered, Follows, Never, Elems, Steps, Final, Failing, Disturbing, PutBacks, Installing
<1>5. Fits(<<"test", "again">>, {"test", "again"})
  BY DEF Fits, Ordered, Follows, Never, Elems, Steps, Final, Failing, Disturbing, PutBacks
<1>6. Fits(<<"toggle">>, {"toggle"})
  BY DEF Fits, Ordered, Follows, Never, Elems, Steps, Final, Failing, Disturbing, PutBacks
<1>. QED
  BY <1>1, <1>2, <1>3, <1>4, <1>5, <1>6

(* those of a removal;                                                     *)
LEMMA RemovalFits ==
  /\ Fits(<<"stop">> \o Deleting \o <<"retire", "forget">>, {"stop", "erase", "retire", "forget"})
  /\ Fits(<<"stop">> \o Purging \o <<"retire", "forget">>, {"stop", "purge", "retire", "forget"})
  /\ Fits(<<"stop", "erase", "retire", "persist", "forget">>, {"stop", "erase", "retire", "persist", "forget"})
  /\ Fits(<<"stop", "purge", "retire", "erase", "forget", "save">>, {"stop", "purge", "retire", "erase", "forget",
       "save"})
  /\ Fits(<<"stop", "retire", "erase", "forget">>, {"stop", "retire", "erase", "forget"})
  /\ Fits(<<"stop", "purge", "retire", "persist", "forget", "erase">>, {"stop", "purge", "retire", "persist",
       "forget", "erase"})
<1>1. Fits(<<"stop">> \o Deleting \o <<"retire", "forget">>, {"stop", "erase", "retire", "forget"})
  BY DEF Fits, Ordered, Follows, Never, Elems, Steps, Final, Failing, Disturbing, PutBacks, Deleting
<1>2. Fits(<<"stop">> \o Purging \o <<"retire", "forget">>, {"stop", "purge", "retire", "forget"})
  BY DEF Fits, Ordered, Follows, Never, Elems, Steps, Final, Failing, Disturbing, PutBacks, Purging
<1>3. Fits(<<"stop", "erase", "retire", "persist", "forget">>, {"stop", "erase", "retire", "persist", "forget"})
  BY DEF Fits, Ordered, Follows, Never, Elems, Steps, Final, Failing, Disturbing, PutBacks
<1>4. Fits(<<"stop", "purge", "retire", "erase", "forget", "save">>, {"stop", "purge", "retire", "erase", "forget",
        "save"})
  BY DEF Fits, Ordered, Follows, Never, Elems, Steps, Final, Failing, Disturbing, PutBacks
<1>5. Fits(<<"stop", "retire", "erase", "forget">>, {"stop", "retire", "erase", "forget"})
  BY DEF Fits, Ordered, Follows, Never, Elems, Steps, Final, Failing, Disturbing, PutBacks
<1>6. Fits(<<"stop", "purge", "retire", "persist", "forget", "erase">>, {"stop", "purge", "retire", "persist",
       "forget", "erase"})
  BY DEF Fits, Ordered, Follows, Never, Elems, Steps, Final, Failing, Disturbing, PutBacks
<1>. QED
  BY <1>1, <1>2, <1>3, <1>4, <1>5, <1>6

(* those of the removal of one port;                                       *)
LEMMA DropFits ==
  /\ Fits(<<"cut", "restart", "close", "persist", "recordFile">>, {"cut", "restart", "close", "persist",
       "recordFile"})
  /\ Fits(<<"halt", "cut", "close", "persist", "unrecord">>, {"halt", "cut", "close", "persist", "unrecord"})
<1>1. Fits(<<"cut", "restart", "close", "persist", "recordFile">>, {"cut", "restart", "close", "persist",
        "recordFile"})
  BY DEF Fits, Ordered, Follows, Never, Elems, Steps, Final, Failing, Disturbing, PutBacks
<1>2. Fits(<<"halt", "cut", "close", "persist", "unrecord">>, {"halt", "cut", "close", "persist", "unrecord"})
  BY DEF Fits, Ordered, Follows, Never, Elems, Steps, Final, Failing, Disturbing, PutBacks
<1>. QED
  BY <1>1, <1>2

(* those that take back a file, and erase it where there was none;         *)
LEMMA ErasingFits ==
  /\ Fits(Erasing, {"putBackOrErase", "rerun"})
  /\ Fits(Erasing \o <<"close">>, {"putBackOrErase", "rerun", "close"})
  /\ Fits(<<"putBackOrErase", "again", "close">>, {"putBackOrErase", "again", "close"})
  /\ Fits(<<"putBackOrErase", "again">>, {"putBackOrErase", "again"})
<1>1. Fits(Erasing, {"putBackOrErase", "rerun"})
  BY DEF Fits, Ordered, Follows, Never, Elems, Steps, Final, Failing, Disturbing, PutBacks, Erasing
<1>2. Fits(Erasing \o <<"close">>, {"putBackOrErase", "rerun", "close"})
  BY DEF Fits, Ordered, Follows, Never, Elems, Steps, Final, Failing, Disturbing, PutBacks, Erasing
<1>3. Fits(<<"putBackOrErase", "again", "close">>, {"putBackOrErase", "again", "close"})
  BY DEF Fits, Ordered, Follows, Never, Elems, Steps, Final, Failing, Disturbing, PutBacks
<1>4. Fits(<<"putBackOrErase", "again">>, {"putBackOrErase", "again"})
  BY DEF Fits, Ordered, Follows, Never, Elems, Steps, Final, Failing, Disturbing, PutBacks
<1>. QED
  BY <1>1, <1>2, <1>3, <1>4

(* those that leave it there;                                              *)
LEMMA KeepingFits ==
  /\ Fits(Keeping, {"putBack", "rerun"})
  /\ Fits(Keeping \o <<"close">>, {"putBack", "rerun", "close"})
  /\ Fits(Keeping \o <<"closeNew">>, {"putBack", "rerun", "closeNew"})
  /\ Fits(<<"putBack", "close">>, {"putBack", "close"})
<1>1. Fits(Keeping, {"putBack", "rerun"})
  BY DEF Fits, Ordered, Follows, Never, Elems, Steps, Final, Failing, Disturbing, PutBacks, Keeping
<1>2. Fits(Keeping \o <<"close">>, {"putBack", "rerun", "close"})
  BY DEF Fits, Ordered, Follows, Never, Elems, Steps, Final, Failing, Disturbing, PutBacks, Keeping
<1>3. Fits(Keeping \o <<"closeNew">>, {"putBack", "rerun", "closeNew"})
  BY DEF Fits, Ordered, Follows, Never, Elems, Steps, Final, Failing, Disturbing, PutBacks, Keeping
<1>4. Fits(<<"putBack", "close">>, {"putBack", "close"})
  BY DEF Fits, Ordered, Follows, Never, Elems, Steps, Final, Failing, Disturbing, PutBacks
<1>. QED
  BY <1>1, <1>2, <1>3, <1>4

(* and those of the other undone changes, none included.                   *)
LEMMA UndoFits ==
  /\ Fits(<<>>, {})
  /\ Fits(<<"close">>, {"close"})
  /\ Fits(<<"close", "putBack", "again">>, {"close", "putBack", "again"})
  /\ Fits(<<"halt", "cut", "close">>, {"halt", "cut", "close"})
  /\ Fits(<<"halt", "cut">>, {"halt", "cut"})
  /\ Fits(<<"putBackRecorded", "again", "closeNew", "persist">>, {"putBackRecorded", "again", "closeNew", "persist"})
<1>1. Fits(<<>>, {})
  BY DEF Fits, Ordered, Follows, Never, Elems, Steps, Final, Failing, Disturbing, PutBacks
<1>2. Fits(<<"close">>, {"close"})
  BY DEF Fits, Ordered, Follows, Never, Elems, Steps, Final, Failing, Disturbing, PutBacks
<1>3. Fits(<<"close", "putBack", "again">>, {"close", "putBack", "again"})
  BY DEF Fits, Ordered, Follows, Never, Elems, Steps, Final, Failing, Disturbing, PutBacks
<1>4. Fits(<<"halt", "cut", "close">>, {"halt", "cut", "close"})
  BY DEF Fits, Ordered, Follows, Never, Elems, Steps, Final, Failing, Disturbing, PutBacks
<1>5. Fits(<<"halt", "cut">>, {"halt", "cut"})
  BY DEF Fits, Ordered, Follows, Never, Elems, Steps, Final, Failing, Disturbing, PutBacks
<1>6. Fits(<<"putBackRecorded", "again", "closeNew", "persist">>, {"putBackRecorded", "again", "closeNew", "persist"})
  BY DEF Fits, Ordered, Follows, Never, Elems, Steps, Final, Failing, Disturbing, PutBacks
<1>. QED
  BY <1>1, <1>2, <1>3, <1>4, <1>5, <1>6

-----------------------------------------------------------------------------
(* The options: what a menu does, claims and takes back.                   *)

(* What an option may ask for, those that may be ports in use, the options *)
(* that change ports, the step that tells whether they came up, and the    *)
(* steps of a change, of a removal and of what takes a change back.        *)
Questions == {"port", "portOn", "portInstalled", "anyPort", "ports", "portsOn", "portUnlisted", "portUnknown",
              "listed", "known", "content", "list", "oneMore", "oneLess", "nothing", "on", "off"}
Unsure == {"anyPort", "content", "listed", "known"}
Changes == {"setup", "move", "add", "define"}
Check(m) == IF m = "dropbear" THEN "verifyAny" ELSE "verify"
Changing(m) == {"install", "open", "persist", "write", "append", "wipe", "create", "test", "restart", Check(m),
                "record", "recordAlso", "save", "retire"}
Removing == {"stop", "erase", "purge", "retire", "persist", "forget", "save"}
Undoing == PutBacks \cup {"rerun", "again", "close", "closeNew", "persist", "halt", "cut"}
Closing == {"close", "closeNew"}

(* The options that claim to put back what they found.                     *)
Claims(m, o) ==
  /\ m \notin {"filebrowser", "pysocks"} /\ o \notin {"edit", "again"}
  /\ m = "wireguard" => o = "move"
  /\ m = "stunnel" => o # "drop"
Restoring(m, undo) ==
  /\ undo \cap {"halt", "cut"} = {} /\ undo \cap PutBacks # {}
  /\ "putBack" \in undo => m \in KeepsFirst \cup {"wireguard"}
  /\ "putBackRecorded" \in undo => m = "dropbear"

(* What a removal does; what a change of ports does; what must follow a    *)
(* check that fails; and all that an option must keep.                     *)
Removes(asks, do) == asks = "nothing" /\ {"stop", "retire", "forget"} \subseteq do /\ do \subseteq Removing
Moves(m, o, asks, do) ==
  /\ asks \notin {"nothing", "on", "off"}
  /\ o \in {"move", "define"} => asks \notin Unsure
  /\ {"open", "persist", Check(m)} \subseteq do /\ do \subseteq Changing(m)
  /\ "record" \in do \/ "recordAlso" \in do
  /\ o \in {"move", "define"} => "retire" \in do
Undone(m, o, do, undo, restarting) ==
  /\ undo \subseteq Undoing /\ (m = "dropbear" => "cut" \notin undo)
  /\ "open" \in do => undo \cap Closing # {}
  /\ Claims(m, o) => Restoring(m, undo) /\ (restarting => undo \cap {"rerun", "again"} # {})
Fair(m, o, asks, do, test, restart, verify) ==
  /\ asks \in Questions /\ o # "none"
  /\ IF o = "remove" THEN Removes(asks, do) ELSE do \cap {"erase", "purge"} = {}
  /\ o \in Changes => Moves(m, o, asks, do)
  /\ "test" \in do => Undone(m, o, do, test, FALSE)
  /\ "restart" \in do => Undone(m, o, do, restart, TRUE)
  /\ do \cap {"verify", "verifyAny"} # {} => Undone(m, o, do, verify, TRUE)
  /\ Claims(m, o) => "create" \notin do
  /\ m = "wireguard" /\ o = "move" => asks = "portOn" /\ "install" \notin do
  /\ m = "dropbear" => do \cap {"append", "rewrite", "cut"} = {}

(* An option whose sequences keep the rules, and a menu of such options.   *)
Made(m, o, e) ==
  /\ \A s \in {e.do, e.test, e.restart, e.verify} : s \in Seq(Steps) /\ Ordered(s)
  /\ Fair(m, o, e.asks, Elems(e.do), Elems(e.test), Elems(e.restart), Elems(e.verify))
Suits(m, menu) == \A o \in DOMAIN menu : Made(m, o, menu[o])

(* A menu joined from two that keep the rules keeps them.                  *)
LEMMA JoinedSuits ==
  ASSUME NEW m, NEW own, NEW rest, Suits(m, own), Suits(m, rest)
  PROVE  Suits(m, Joined(own, rest))
  BY DEF Suits, Joined

(* So does an option with one way of taking back,                          *)
LEMMA OpMade ==
  ASSUME NEW m, NEW o, NEW asks, NEW do, NEW undo, NEW parts, NEW undoing,
         Fits(do, parts), Fits(undo, undoing), Fair(m, o, asks, parts, undoing, undoing, undoing)
  PROVE  Made(m, o, Op(asks, do, undo))
  BY DEF Made, Op, Fits

(* and one with a way for each of its checks.                              *)
LEMMA RecordMade ==
  ASSUME NEW m, NEW o, NEW asks, NEW do, NEW test, NEW undo, NEW last, NEW parts, NEW testing, NEW undoing,
         NEW lasting,
         Fits(do, parts), Fits(test, testing), Fits(undo, undoing), Fits(last, lasting),
         Fair(m, o, asks, parts, testing, undoing, lasting)
  PROVE  Made(m, o, [asks |-> asks, do |-> do, test |-> test, restart |-> undo, verify |-> last])
  BY DEF Made, Fits

(* Squid's: what follows a file that does not parse differs.               *)
LEMMA TestedIs ==
  ASSUME NEW asks, NEW do, NEW undo
  PROVE  Tested(Op(asks, do, undo)) = [asks |-> asks, do |-> do, test |-> <<"putBack", "close">>,
                                       restart |-> undo, verify |-> undo]
<1>. DEFINE first == <<"putBack", "close">>
<1>. HIDE DEF first
<1>1. [Op(asks, do, undo) EXCEPT !.test = first] = [asks |-> asks, do |-> do, test |-> first, restart |-> undo,
        verify |-> undo]
  BY DEF Op
<1>. QED
  BY <1>1 DEF Tested, first

(* The options of every menu keep the rules.                               *)
LEMMA RestSuits ==
  ASSUME NEW m, NEW clean \in {Deleting, Purging}
  PROVE  Suits(m, Rest(clean))
<1>. USE DEF Fair, Removes, Moves, Undone, Restoring, Changing, Check, Changes, Unsure, Questions, Undoing, Closing,
       PutBacks, Claims, KeepsFirst, Removing
<1>1. Made(m, "again", Op("nothing", <<"again">>, <<>>))
  <2>1. Fair(m, "again", "nothing", {"again"}, {}, {}, {})
    OBVIOUS
  <2>. QED
    BY <2>1, OpMade, RestFits, UndoFits
<1>2. Made(m, "stop", Op("on", <<"stop">>, <<>>))
  <2>1. Fair(m, "stop", "on", {"stop"}, {}, {}, {})
    OBVIOUS
  <2>. QED
    BY <2>1, OpMade, RestFits, UndoFits
<1>3. Made(m, "start", Start(<<>>))
  <2>1. Fair(m, "start", "off", {"again"}, {}, {}, {})
    OBVIOUS
  <2>. QED
    BY <2>1, OpMade, RestFits, UndoFits DEF Start
<1>4. Made(m, "remove", Removal(clean))
  <2>1. Fair(m, "remove", "nothing", {"stop", "erase", "retire", "forget"}, {}, {}, {})
    OBVIOUS
  <2>2. Fair(m, "remove", "nothing", {"stop", "purge", "retire", "forget"}, {}, {}, {})
    OBVIOUS
  <2>. QED
    BY <2>1, <2>2, OpMade, RemovalFits, UndoFits DEF Removal
<1>. QED
  BY <1>1, <1>2, <1>3, <1>4 DEF Suits, Rest

(* So do the menus of Shadowsocks,                                         *)
LEMMA ShadowsocksSuits == Suits("shadowsocks", Shadowsocks)
<1>. USE DEF Fair, Removes, Moves, Undone, Restoring, Changing, Check, Changes, Unsure, Questions, Undoing, Closing,
       PutBacks, Claims, KeepsFirst, Removing
<1>1. Made("shadowsocks", "setup", ShadowsocksSetup)
  <2>1. Fair("shadowsocks", "setup", "port", {"install", "write", "open", "persist", "restart", "verify", "record"},
             {"putBackOrErase", "again", "close"}, {"putBackOrErase", "again", "close"}, {"putBackOrErase", "again",
                 "close"})
    OBVIOUS
  <2>. QED
    BY <2>1, OpMade, FileFirstFits, ErasingFits DEF ShadowsocksSetup
<1>2. Made("shadowsocks", "edit", Edit(Installing))
  <2>1. Fair("shadowsocks", "edit", "nothing", {"install", "edit", "again"},
             {}, {}, {})
    OBVIOUS
  <2>. QED
    BY <2>1, OpMade, EditFits, UndoFits DEF Edit
<1>3. Made("shadowsocks", "start", Start(Installing))
  <2>1. Fair("shadowsocks", "start", "off", {"install", "again"},
             {}, {}, {})
    OBVIOUS
  <2>. QED
    BY <2>1, OpMade, RestFits, UndoFits DEF Start
<1>4. Suits("shadowsocks", [setup |-> ShadowsocksSetup, edit |-> Edit(Installing), start |-> Start(Installing)])
  BY <1>1, <1>2, <1>3 DEF Suits
<1>. QED
  BY <1>4, RestSuits, JoinedSuits DEF Shadowsocks

(* of BadVPN,                                                              *)
LEMMA BadvpnSuits == Suits("badvpn", Badvpn)
<1>. USE DEF Fair, Removes, Moves, Undone, Restoring, Changing, Check, Changes, Unsure, Questions, Undoing, Closing,
       PutBacks, Claims, KeepsFirst, Removing
<1>1. Made("badvpn", "setup", Setup(Erasing))
  <2>1. Fair("badvpn", "setup", "port", {"install", "open", "persist", "write", "restart", "verify", "record"},
             {"putBackOrErase", "rerun", "close"}, {"putBackOrErase", "rerun", "close"}, {"putBackOrErase", "rerun",
                 "close"})
    OBVIOUS
  <2>. QED
    BY <2>1, OpMade, SetupFits, ErasingFits DEF Setup
<1>2. Made("badvpn", "move", Move("portInstalled", Erasing))
  <2>1. Fair("badvpn", "move", "portInstalled", {"open", "persist", "write", "restart", "verify", "record", "retire"},
             {"putBackOrErase", "rerun", "close"}, {"putBackOrErase", "rerun", "close"}, {"putBackOrErase", "rerun",
                 "close"})
    OBVIOUS
  <2>. QED
    BY <2>1, OpMade, MoveFits, ErasingFits DEF Move
<1>3. Suits("badvpn", BadvpnChange)
  BY <1>1, <1>2 DEF Suits, BadvpnChange
<1>. QED
  BY <1>3, RestSuits, JoinedSuits DEF Badvpn

(* of Hysteria,                                                            *)
LEMMA HysteriaSuits == Suits("hysteria", Hysteria)
<1>. USE DEF Fair, Removes, Moves, Undone, Restoring, Changing, Check, Changes, Unsure, Questions, Undoing, Closing,
       PutBacks, Claims, KeepsFirst, Removing
<1>1. Made("hysteria", "setup", Setup(Erasing))
  <2>1. Fair("hysteria", "setup", "port", {"install", "open", "persist", "write", "restart", "verify", "record"},
             {"putBackOrErase", "rerun", "close"}, {"putBackOrErase", "rerun", "close"}, {"putBackOrErase", "rerun",
                 "close"})
    OBVIOUS
  <2>. QED
    BY <2>1, OpMade, SetupFits, ErasingFits DEF Setup
<1>2. Made("hysteria", "auth", Rewrite("content", Erasing))
  <2>1. Fair("hysteria", "auth", "content", {"rewrite", "restart", "verify"},
             {"putBackOrErase", "rerun"}, {"putBackOrErase", "rerun"}, {"putBackOrErase", "rerun"})
    OBVIOUS
  <2>. QED
    BY <2>1, OpMade, ContentFits, ErasingFits DEF Rewrite
<1>3. Made("hysteria", "edit", Edit(<<>>))
  <2>1. Fair("hysteria", "edit", "nothing", {"edit", "again"},
             {}, {}, {})
    OBVIOUS
  <2>. QED
    BY <2>1, OpMade, EditFits, UndoFits DEF Edit
<1>4. Made("hysteria", "remove", HysteriaRest.remove)
  <2>1. Fair("hysteria", "remove", "nothing", {"stop", "erase", "retire", "persist", "forget"},
             {}, {}, {})
    OBVIOUS
  <2>. QED
    BY <2>1, OpMade, RemovalFits, UndoFits DEF HysteriaRest
<1>5. Suits("hysteria", HysteriaChange) /\ Suits("hysteria", HysteriaRest)
  BY <1>1, <1>2, <1>3, <1>4 DEF Suits, HysteriaChange, HysteriaRest
<1>. QED
  BY <1>5, RestSuits, JoinedSuits DEF Hysteria

(* of OpenVPN,                                                             *)
LEMMA OpenvpnSuits == Suits("openvpn", Openvpn)
<1>. USE DEF Fair, Removes, Moves, Undone, Restoring, Changing, Check, Changes, Unsure, Questions, Undoing, Closing,
       PutBacks, Claims, KeepsFirst, Removing
<1>1. Made("openvpn", "setup", OpenvpnSetup)
  <2>1. Fair("openvpn", "setup", "port", {"install", "open", "persist", "write", "restart", "verify", "record",
          "save"},
             {"putBackOrErase", "rerun", "close"}, {"putBackOrErase", "rerun", "close"}, {"putBackOrErase", "rerun",
                 "close"})
    OBVIOUS
  <2>. QED
    BY <2>1, OpMade, SavedSetupFits, ErasingFits DEF OpenvpnSetup
<1>2. Made("openvpn", "move", OpenvpnMove)
  <2>1. Fair("openvpn", "move", "portOn", {"open", "persist", "write", "restart", "verify", "record", "save",
          "retire"},
             {"putBackOrErase", "rerun", "close"}, {"putBackOrErase", "rerun", "close"}, {"putBackOrErase", "rerun",
                 "close"})
    OBVIOUS
  <2>. QED
    BY <2>1, OpMade, SavedMoveFits, ErasingFits DEF OpenvpnMove
<1>3. Made("openvpn", "remove", OpenvpnRemove)
  <2>1. Fair("openvpn", "remove", "nothing", {"stop", "purge", "retire", "erase", "forget", "save"},
             {}, {}, {})
    OBVIOUS
  <2>. QED
    BY <2>1, OpMade, RemovalFits, UndoFits DEF OpenvpnRemove
<1>4. Suits("openvpn", [setup |-> OpenvpnSetup, move |-> OpenvpnMove, remove |-> OpenvpnRemove])
  BY <1>1, <1>2, <1>3 DEF Suits
<1>. QED
  BY <1>4, RestSuits, JoinedSuits DEF Openvpn

(* of the multiplexer,                                                     *)
LEMMA BrokerSuits == Suits("sslh", Broker)
<1>. USE DEF Fair, Removes, Moves, Undone, Restoring, Changing, Check, Changes, Unsure, Questions, Undoing, Closing,
       PutBacks, Claims, KeepsFirst, Removing
<1>1. Made("sslh", "setup", BrokerSetup)
  <2>1. Fair("sslh", "setup", "anyPort", {"install", "open", "persist", "write", "restart", "verify", "record"},
             {"putBackOrErase", "rerun", "close"}, {"putBackOrErase", "rerun", "close"}, {"putBackOrErase", "rerun",
                 "close"})
    OBVIOUS
  <2>. QED
    BY <2>1, OpMade, SetupFits, ErasingFits DEF BrokerSetup, Installing
<1>2. Suits("sslh", [setup |-> BrokerSetup])
  BY <1>1 DEF Suits
<1>. QED
  BY <1>2, RestSuits, JoinedSuits DEF Broker

(* of ZIVPN,                                                               *)
LEMMA ZivpnSuits == Suits("zivpn", Zivpn)
<1>. USE DEF Fair, Removes, Moves, Undone, Restoring, Changing, Check, Changes, Unsure, Questions, Undoing, Closing,
       PutBacks, Claims, KeepsFirst, Removing
<1>1. Made("zivpn", "setup", Setup(Keeping))
  <2>1. Fair("zivpn", "setup", "port", {"install", "open", "persist", "write", "restart", "verify", "record"},
             {"putBack", "rerun", "close"}, {"putBack", "rerun", "close"}, {"putBack", "rerun", "close"})
    OBVIOUS
  <2>. QED
    BY <2>1, OpMade, SetupFits, KeepingFits DEF Setup
<1>2. Made("zivpn", "passwords", Rewrite("content", Keeping))
  <2>1. Fair("zivpn", "passwords", "content", {"rewrite", "restart", "verify"},
             {"putBack", "rerun"}, {"putBack", "rerun"}, {"putBack", "rerun"})
    OBVIOUS
  <2>. QED
    BY <2>1, OpMade, ContentFits, KeepingFits DEF Rewrite
<1>3. Made("zivpn", "edit", Edit(<<>>))
  <2>1. Fair("zivpn", "edit", "nothing", {"edit", "again"},
             {}, {}, {})
    OBVIOUS
  <2>. QED
    BY <2>1, OpMade, EditFits, UndoFits DEF Edit
<1>4. Suits("zivpn", ZivpnChange) /\ Suits("zivpn", [edit |-> Edit(<<>>)])
  BY <1>1, <1>2, <1>3 DEF Suits, ZivpnChange
<1>. QED
  BY <1>4, RestSuits, JoinedSuits DEF Zivpn

(* of Hysteria 1,                                                          *)
LEMMA Hysteria1Suits == Suits("hysteria1", Hysteria1)
<1>. USE DEF Fair, Removes, Moves, Undone, Restoring, Changing, Check, Changes, Unsure, Questions, Undoing, Closing,
       PutBacks, Claims, KeepsFirst, Removing
<1>1. Made("hysteria1", "setup", Hysteria1Setup)
  <2>1. Fair("hysteria1", "setup", "port", {"install", "open", "persist", "write", "restart", "verify", "record"},
             {"putBack", "rerun", "close"}, {"putBack", "rerun", "close"}, {"putBack", "rerun", "close"})
    OBVIOUS
  <2>. QED
    BY <2>1, OpMade, SetupFits, KeepingFits DEF Hysteria1Setup, Setup
<1>2. Suits("hysteria1", [setup |-> Hysteria1Setup])
  BY <1>1 DEF Suits
<1>. QED
  BY <1>2, RestSuits, JoinedSuits DEF Hysteria1

(* of Squid,                                                               *)
LEMMA SquidSuits == Suits("squid", Squid)
<1>. USE DEF Fair, Removes, Moves, Undone, Restoring, Changing, Check, Changes, Unsure, Questions, Undoing, Closing,
       PutBacks, Claims, KeepsFirst, Removing
<1>1. Made("squid", "setup", SquidChange.setup)
  <2>. DEFINE do == Installing \o Opening \o <<"write", "test", "restart", "verify", "record">>
             undo == Keeping \o <<"close">>
  <2>1. Fair("squid", "setup", "port", {"install", "open", "persist", "write", "test", "restart", "verify", "record"},
             {"putBack", "close"}, {"putBack", "rerun", "close"}, {"putBack", "rerun", "close"})
    OBVIOUS
  <2>2. SquidChange.setup = Tested(Op("port", do, undo))
    BY DEF SquidChange
  <2>3. Fits(do, {"install", "open", "persist", "write", "test", "restart", "verify", "record"}) /\ Fits(undo,
          {"putBack", "rerun", "close"})
    BY TestedSetupFits, KeepingFits
  <2>. HIDE DEF do, undo, Fair, Removes, Moves, Undone, Restoring, Changing, Check, Changes, Unsure, Questions, Undoing,
         Closing, PutBacks, Claims, KeepsFirst, Removing
  <2>. QED
    BY <2>1, <2>2, <2>3, TestedIs, RecordMade, KeepingFits
<1>2. Made("squid", "move", SquidChange.move)
  <2>. DEFINE do == Opening \o <<"write", "test", "restart", "verify", "record">> \o <<"retire">>
             undo == Keeping \o <<"close">>
  <2>1. Fair("squid", "move", "portOn", {"open", "persist", "write", "test", "restart", "verify", "record", "retire"},
             {"putBack", "close"}, {"putBack", "rerun", "close"}, {"putBack", "rerun", "close"})
    OBVIOUS
  <2>2. SquidChange.move = Tested(Op("portOn", do, undo))
    BY DEF SquidChange
  <2>3. Fits(do, {"open", "persist", "write", "test", "restart", "verify", "record", "retire"}) /\ Fits(undo,
          {"putBack", "rerun", "close"})
    BY TestedMoveFits, KeepingFits
  <2>. HIDE DEF do, undo, Fair, Removes, Moves, Undone, Restoring, Changing, Check, Changes, Unsure, Questions, Undoing,
         Closing, PutBacks, Claims, KeepsFirst, Removing
  <2>. QED
    BY <2>1, <2>2, <2>3, TestedIs, RecordMade, KeepingFits
<1>3. Made("squid", "edit", SquidRest.edit)
  <2>1. Fair("squid", "edit", "nothing", {"install", "edit", "test", "again"},
             {}, {}, {})
    OBVIOUS
  <2>. QED
    BY <2>1, OpMade, EditFits, UndoFits DEF SquidRest
<1>4. Made("squid", "again", SquidRest.again)
  <2>1. Fair("squid", "again", "nothing", {"test", "again"},
             {}, {}, {})
    OBVIOUS
  <2>. QED
    BY <2>1, OpMade, RestFits, UndoFits DEF SquidRest
<1>5. Made("squid", "start", SquidRest.start)
  <2>1. Fair("squid", "start", "off", {"install", "again"},
             {}, {}, {})
    OBVIOUS
  <2>. QED
    BY <2>1, OpMade, RestFits, UndoFits DEF SquidRest, Start
<1>6. Suits("squid", SquidChange) /\ Suits("squid", SquidRest)
  BY <1>1, <1>2, <1>3, <1>4, <1>5 DEF Suits, SquidChange, SquidRest
<1>. QED
  BY <1>6, RestSuits, JoinedSuits DEF Squid

(* of the WebSocket bridge,                                                *)
LEMMA WebsocketSuits == Suits("websocket", Websocket)
<1>. USE DEF Fair, Removes, Moves, Undone, Restoring, Changing, Check, Changes, Unsure, Questions, Undoing, Closing,
       PutBacks, Claims, KeepsFirst, Removing
<1>1. Made("websocket", "setup", Setup(Keeping))
  <2>1. Fair("websocket", "setup", "port", {"install", "open", "persist", "write", "restart", "verify", "record"},
             {"putBack", "rerun", "close"}, {"putBack", "rerun", "close"}, {"putBack", "rerun", "close"})
    OBVIOUS
  <2>. QED
    BY <2>1, OpMade, SetupFits, KeepingFits DEF Setup
<1>2. Made("websocket", "move", Move("portOn", Keeping))
  <2>1. Fair("websocket", "move", "portOn", {"open", "persist", "write", "restart", "verify", "record", "retire"},
             {"putBack", "rerun", "close"}, {"putBack", "rerun", "close"}, {"putBack", "rerun", "close"})
    OBVIOUS
  <2>. QED
    BY <2>1, OpMade, MoveFits, KeepingFits DEF Move
<1>3. Suits("websocket", WebsocketChange)
  BY <1>1, <1>2 DEF Suits, WebsocketChange
<1>. QED
  BY <1>3, RestSuits, JoinedSuits DEF Websocket

(* of the token API,                                                       *)
LEMMA AtkenSuits == Suits("atken", Atken)
<1>. USE DEF Fair, Removes, Moves, Undone, Restoring, Changing, Check, Changes, Unsure, Questions, Undoing, Closing,
       PutBacks, Claims, KeepsFirst, Removing
<1>1. Made("atken", "setup", Setup(Keeping))
  <2>1. Fair("atken", "setup", "port", {"install", "open", "persist", "write", "restart", "verify", "record"},
             {"putBack", "rerun", "close"}, {"putBack", "rerun", "close"}, {"putBack", "rerun", "close"})
    OBVIOUS
  <2>. QED
    BY <2>1, OpMade, SetupFits, KeepingFits DEF Setup
<1>2. Made("atken", "move", Move("portOn", Keeping))
  <2>1. Fair("atken", "move", "portOn", {"open", "persist", "write", "restart", "verify", "record", "retire"},
             {"putBack", "rerun", "close"}, {"putBack", "rerun", "close"}, {"putBack", "rerun", "close"})
    OBVIOUS
  <2>. QED
    BY <2>1, OpMade, MoveFits, KeepingFits DEF Move
<1>3. Suits("atken", AtkenChange)
  BY <1>1, <1>2 DEF Suits, AtkenChange
<1>. QED
  BY <1>3, RestSuits, JoinedSuits DEF Atken

(* of WS-EPRO,                                                             *)
LEMMA WsEproSuits == Suits("ws_epro", WsEpro)
<1>. USE DEF Fair, Removes, Moves, Undone, Restoring, Changing, Check, Changes, Unsure, Questions, Undoing, Closing,
       PutBacks, Claims, KeepsFirst, Removing
<1>1. Made("ws_epro", "setup", Setup(Keeping))
  <2>1. Fair("ws_epro", "setup", "port", {"install", "open", "persist", "write", "restart", "verify", "record"},
             {"putBack", "rerun", "close"}, {"putBack", "rerun", "close"}, {"putBack", "rerun", "close"})
    OBVIOUS
  <2>. QED
    BY <2>1, OpMade, SetupFits, KeepingFits DEF Setup
<1>2. Made("ws_epro", "move", WsEproChange.move)
  <2>. DEFINE do == <<"install">> \o Opening \o Trying \o <<"record">>
             undo == Keeping \o <<"close">>
  <2>1. Fair("ws_epro", "move", "port", {"install", "open", "persist", "write", "restart", "verify", "record",
          "retire"},
             {"putBack", "rerun", "close"}, {"putBack", "rerun", "close"}, {"putBack", "rerun", "close"})
    OBVIOUS
  <2>2. WsEproChange.move = [Op("port", do, undo) EXCEPT !.do = @ \o <<"retire">>]
    BY DEF WsEproChange, Setup
  <2>3. Fits(do \o <<"retire">>, {"install", "open", "persist", "write", "restart", "verify", "record",
          "retire"}) /\ Fits(undo, {"putBack", "rerun", "close"})
    BY SetupRetireFits, KeepingFits
  <2>. HIDE DEF do, undo, Fair, Removes, Moves, Undone, Restoring, Changing, Check, Changes, Unsure, Questions, Undoing,
         Closing, PutBacks, Claims, KeepsFirst, Removing
  <2>4. WsEproChange.move = Op("port", do \o <<"retire">>, undo)
    BY <2>2 DEF Op
  <2>. DEFINE all == do \o <<"retire">>
  <2>. HIDE DEF all
  <2>5. Made("ws_epro", "move", Op("port", all, undo))
    BY <2>1, <2>3, OpMade DEF all
  <2>. QED
    BY <2>4, <2>5 DEF all
<1>3. DOMAIN WsEproChange = {"setup", "move"} /\ WsEproChange.setup = Setup(Keeping)
  BY DEF WsEproChange
<1>. HIDE DEF Fair, Removes, Moves, Undone, Restoring, Changing, Check, Changes, Unsure, Questions, Undoing, Closing,
       PutBacks, Claims, KeepsFirst, Removing
<1>4. Suits("ws_epro", WsEproChange)
  BY <1>1, <1>2, <1>3 DEF Suits
<1>. QED
  BY <1>4, RestSuits, JoinedSuits DEF WsEpro

(* of SSHGO,                                                               *)
LEMMA SshgoSuits == Suits("sshgo", Sshgo)
<1>. USE DEF Fair, Removes, Moves, Undone, Restoring, Changing, Check, Changes, Unsure, Questions, Undoing, Closing,
       PutBacks, Claims, KeepsFirst, Removing
<1>1. Made("sshgo", "setup", Setup(Keeping))
  <2>1. Fair("sshgo", "setup", "port", {"install", "open", "persist", "write", "restart", "verify", "record"},
             {"putBack", "rerun", "close"}, {"putBack", "rerun", "close"}, {"putBack", "rerun", "close"})
    OBVIOUS
  <2>. QED
    BY <2>1, OpMade, SetupFits, KeepingFits DEF Setup
<1>2. Made("sshgo", "move", SshgoChange.move)
  <2>. DEFINE do == Opening \o Trying \o <<"record", "retire">>
             undo == Keeping \o <<"close">>
  <2>1. Fair("sshgo", "move", "portOn", {"install", "open", "persist", "write", "restart", "verify", "record",
          "retire"},
             {"putBack", "rerun", "close"}, {"putBack", "rerun", "close"}, {"putBack", "rerun", "close"})
    OBVIOUS
  <2>2. SshgoChange.move = [Op("portOn", do, undo) EXCEPT !.do = Installing \o @]
    BY DEF SshgoChange, Move
  <2>3. Fits(Installing \o do, {"install", "open", "persist", "write", "restart", "verify", "record",
          "retire"}) /\ Fits(undo, {"putBack", "rerun", "close"})
    BY InstallMoveFits, KeepingFits
  <2>. HIDE DEF do, undo, Fair, Removes, Moves, Undone, Restoring, Changing, Check, Changes, Unsure, Questions, Undoing,
         Closing, PutBacks, Claims, KeepsFirst, Removing
  <2>4. SshgoChange.move = Op("portOn", Installing \o do, undo)
    BY <2>2 DEF Op
  <2>. DEFINE all == Installing \o do
  <2>. HIDE DEF all
  <2>5. Made("sshgo", "move", Op("portOn", all, undo))
    BY <2>1, <2>3, OpMade DEF all
  <2>. QED
    BY <2>4, <2>5 DEF all
<1>3. DOMAIN SshgoChange = {"setup", "move"} /\ SshgoChange.setup = Setup(Keeping)
  BY DEF SshgoChange
<1>. HIDE DEF Fair, Removes, Moves, Undone, Restoring, Changing, Check, Changes, Unsure, Questions, Undoing, Closing,
       PutBacks, Claims, KeepsFirst, Removing
<1>4. Suits("sshgo", SshgoChange)
  BY <1>1, <1>2, <1>3 DEF Suits
<1>. QED
  BY <1>4, RestSuits, JoinedSuits DEF Sshgo

(* of the expiry API,                                                      *)
LEMMA CheckuserSuits == Suits("checkuser", Checkuser)
<1>. USE DEF Fair, Removes, Moves, Undone, Restoring, Changing, Check, Changes, Unsure, Questions, Undoing, Closing,
       PutBacks, Claims, KeepsFirst, Removing
<1>1. Made("checkuser", "setup", CheckuserChange.setup)
  <2>1. Fair("checkuser", "setup", "ports", {"install", "open", "persist", "write", "restart", "verify", "record"},
             {"putBack", "rerun", "closeNew"}, {"putBack", "rerun", "closeNew"}, {"putBack", "rerun", "closeNew"})
    OBVIOUS
  <2>. QED
    BY <2>1, OpMade, SetupFits, KeepingFits DEF CheckuserChange, Installing
<1>2. Made("checkuser", "move", CheckuserChange.move)
  <2>1. Fair("checkuser", "move", "portsOn", {"open", "persist", "write", "restart", "verify", "record", "retire"},
             {"putBack", "rerun", "closeNew"}, {"putBack", "rerun", "closeNew"}, {"putBack", "rerun", "closeNew"})
    OBVIOUS
  <2>. QED
    BY <2>1, OpMade, MoveFits, KeepingFits DEF CheckuserChange
<1>3. Suits("checkuser", CheckuserChange)
  BY <1>1, <1>2 DEF Suits, CheckuserChange
<1>. QED
  BY <1>3, RestSuits, JoinedSuits DEF Checkuser

(* of File Browser,                                                        *)
LEMMA FilebrowserSuits == Suits("filebrowser", Filebrowser)
<1>. USE DEF Fair, Removes, Moves, Undone, Restoring, Changing, Check, Changes, Unsure, Questions, Undoing, Closing,
       PutBacks, Claims, KeepsFirst, Removing
<1>1. Made("filebrowser", "setup", FilebrowserSetup)
  <2>1. Fair("filebrowser", "setup", "port", {"install", "wipe", "create", "open", "persist", "restart", "verify",
          "record"},
             {"close"}, {"close"}, {"close"})
    OBVIOUS
  <2>. QED
    BY <2>1, OpMade, FilebrowserSetupFits, UndoFits DEF FilebrowserSetup
<1>2. Made("filebrowser", "move", FilebrowserMove)
  <2>1. Fair("filebrowser", "move", "portOn", {"create", "open", "persist", "restart", "verify", "record", "retire"},
             {"close"}, {"close"}, {"close"})
    OBVIOUS
  <2>. QED
    BY <2>1, OpMade, FilebrowserMoveFits, UndoFits DEF FilebrowserMove
<1>3. Made("filebrowser", "password", FilebrowserPassword)
  <2>1. Fair("filebrowser", "password", "content", {"bounce"},
             {}, {}, {})
    OBVIOUS
  <2>. QED
    BY <2>1, OpMade, ContentFits, UndoFits DEF FilebrowserPassword
<1>4. Suits("filebrowser", [setup |-> FilebrowserSetup, move |-> FilebrowserMove, password |-> FilebrowserPassword])
  BY <1>1, <1>2, <1>3 DEF Suits
<1>. QED
  BY <1>4, RestSuits, JoinedSuits DEF Filebrowser

(* of WireGuard,                                                           *)
LEMMA WireguardSuits == Suits("wireguard", Wireguard)
<1>. USE DEF Fair, Removes, Moves, Undone, Restoring, Changing, Check, Changes, Unsure, Questions, Undoing, Closing,
       PutBacks, Claims, KeepsFirst, Removing
<1>1. Made("wireguard", "setup", WireguardSetup)
  <2>1. Fair("wireguard", "setup", "port", {"install", "write", "open", "persist", "restart", "verify", "record"},
             {"close"}, {"close"}, {"close"})
    OBVIOUS
  <2>. QED
    BY <2>1, OpMade, FileFirstFits, UndoFits DEF WireguardSetup
<1>2. Made("wireguard", "move", WireguardMove)
  <2>1. Fair("wireguard", "move", "portOn", {"write", "open", "persist", "restart", "verify", "record", "retire"},
             {"close", "putBack", "again"}, {"close", "putBack", "again"}, {"close", "putBack", "again"})
    OBVIOUS
  <2>. QED
    BY <2>1, OpMade, WireguardMoveFits, UndoFits DEF WireguardMove
<1>3. Made("wireguard", "remove", WireguardRemove)
  <2>1. Fair("wireguard", "remove", "nothing", {"stop", "retire", "erase", "forget"},
             {}, {}, {})
    OBVIOUS
  <2>. QED
    BY <2>1, OpMade, RemovalFits, UndoFits DEF WireguardRemove
<1>4. Suits("wireguard", [setup |-> WireguardSetup, move |-> WireguardMove, remove |-> WireguardRemove])
  BY <1>1, <1>2, <1>3 DEF Suits
<1>. QED
  BY <1>4, RestSuits, JoinedSuits DEF Wireguard

(* of Stunnel,                                                             *)
LEMMA StunnelSuits == Suits("stunnel", Stunnel)
<1>. USE DEF Fair, Removes, Moves, Undone, Restoring, Changing, Check, Changes, Unsure, Questions, Undoing, Closing,
       PutBacks, Claims, KeepsFirst, Removing
<1>1. Made("stunnel", "add", StunnelChange.add)
  <2>1. Fair("stunnel", "add", "portUnlisted", {"install", "open", "persist", "append", "restart", "verify",
          "recordAlso"},
             {"putBackOrErase", "again", "close"}, {"putBackOrErase", "again", "close"}, {"putBackOrErase", "again",
                 "close"})
    OBVIOUS
  <2>. QED
    BY <2>1, OpMade, AddFits, ErasingFits DEF StunnelChange
<1>2. Made("stunnel", "redirect", StunnelChange.redirect)
  <2>1. Fair("stunnel", "redirect", "listed", {"rewrite", "restart", "verify"},
             {"putBackOrErase", "again"}, {"putBackOrErase", "again"}, {"putBackOrErase", "again"})
    OBVIOUS
  <2>. QED
    BY <2>1, OpMade, ContentFits, ErasingFits DEF StunnelChange, Rewrite
<1>3. Made("stunnel", "drop", StunnelChange.drop)
  <2>1. Fair("stunnel", "drop", "listed", {"cut", "restart", "close", "persist", "recordFile"},
             {}, {}, {})
    OBVIOUS
  <2>. QED
    BY <2>1, OpMade, DropFits, UndoFits DEF StunnelChange
<1>4. Made("stunnel", "edit", StunnelRest.edit)
  <2>1. Fair("stunnel", "edit", "nothing", {"install", "edit", "again"},
             {}, {}, {})
    OBVIOUS
  <2>. QED
    BY <2>1, OpMade, EditFits, UndoFits DEF StunnelRest, Edit
<1>5. Made("stunnel", "start", StunnelRest.start)
  <2>1. Fair("stunnel", "start", "off", {"install", "again"},
             {}, {}, {})
    OBVIOUS
  <2>. QED
    BY <2>1, OpMade, RestFits, UndoFits DEF StunnelRest, Start
<1>6. Made("stunnel", "remove", StunnelRest.remove)
  <2>1. Fair("stunnel", "remove", "nothing", {"stop", "purge", "retire", "persist", "forget", "erase"},
             {}, {}, {})
    OBVIOUS
  <2>. QED
    BY <2>1, OpMade, RemovalFits, UndoFits DEF StunnelRest
<1>7. Suits("stunnel", StunnelChange) /\ Suits("stunnel", StunnelRest)
  BY <1>1, <1>2, <1>3, <1>4, <1>5, <1>6 DEF Suits, StunnelChange, StunnelRest
<1>. QED
  BY <1>7, RestSuits, JoinedSuits DEF Stunnel

(* of Dropbear,                                                            *)
LEMMA DropbearSuits == Suits("dropbear", Dropbear)
<1>. USE DEF Fair, Removes, Moves, Undone, Restoring, Changing, Check, Changes, Unsure, Questions, Undoing, Closing,
       PutBacks, Claims, KeepsFirst, Removing
<1>1. Made("dropbear", "define", DropbearApply("list"))
  <2>1. Fair("dropbear", "define", "list", {"install", "write", "open", "persist", "restart", "verifyAny", "retire",
          "record"},
             {"putBackRecorded", "again", "closeNew", "persist"}, {"putBackRecorded", "again", "closeNew",
                 "persist"}, {"putBackRecorded", "again", "closeNew", "persist"})
    OBVIOUS
  <2>. QED
    BY <2>1, OpMade, ListFits, UndoFits DEF DropbearApply
<1>2. Made("dropbear", "add", DropbearApply("oneMore"))
  <2>1. Fair("dropbear", "add", "oneMore", {"install", "write", "open", "persist", "restart", "verifyAny", "retire",
          "record"},
             {"putBackRecorded", "again", "closeNew", "persist"}, {"putBackRecorded", "again", "closeNew",
                 "persist"}, {"putBackRecorded", "again", "closeNew", "persist"})
    OBVIOUS
  <2>. QED
    BY <2>1, OpMade, ListFits, UndoFits DEF DropbearApply
<1>3. Made("dropbear", "drop", DropbearApply("oneLess"))
  <2>1. Fair("dropbear", "drop", "oneLess", {"install", "write", "open", "persist", "restart", "verifyAny",
          "retire", "record"},
             {"putBackRecorded", "again", "closeNew", "persist"}, {"putBackRecorded", "again", "closeNew",
                 "persist"}, {"putBackRecorded", "again", "closeNew", "persist"})
    OBVIOUS
  <2>. QED
    BY <2>1, OpMade, ListFits, UndoFits DEF DropbearApply
<1>4. Made("dropbear", "edit", Edit(Installing))
  <2>1. Fair("dropbear", "edit", "nothing", {"install", "edit", "again"},
             {}, {}, {})
    OBVIOUS
  <2>. QED
    BY <2>1, OpMade, EditFits, UndoFits DEF Edit
<1>5. Made("dropbear", "start", Start(Installing))
  <2>1. Fair("dropbear", "start", "off", {"install", "again"},
             {}, {}, {})
    OBVIOUS
  <2>. QED
    BY <2>1, OpMade, RestFits, UndoFits DEF Start
<1>6. Made("dropbear", "startup", Op("nothing", <<"toggle">>, <<>>))
  <2>1. Fair("dropbear", "startup", "nothing", {"toggle"},
             {}, {}, {})
    OBVIOUS
  <2>. QED
    BY <2>1, OpMade, RestFits, UndoFits
<1>7. Suits("dropbear", DropbearChange) /\ Suits("dropbear", DropbearRest)
  BY <1>1, <1>2, <1>3, <1>4, <1>5, <1>6 DEF Suits, DropbearChange, DropbearRest
<1>. QED
  BY <1>7, RestSuits, JoinedSuits DEF Dropbear

(* and of Python SOCKS.                                                    *)
LEMMA PysocksSuits == Suits("pysocks", Pysocks)
<1>. USE DEF Fair, Removes, Moves, Undone, Restoring, Changing, Check, Changes, Unsure, Questions, Undoing, Closing,
       PutBacks, Claims, KeepsFirst, Removing
<1>1. Made("pysocks", "add", PysocksChange.add)
  <2>1. Fair("pysocks", "add", "portUnknown", {"install", "open", "persist", "append", "restart", "verify",
          "recordAlso"},
             {}, {"close"}, {"halt", "cut", "close"})
    OBVIOUS
  <2>. QED
    BY <2>1, RecordMade, AddFits, UndoFits DEF PysocksChange
<1>2. Made("pysocks", "redirect", PysocksChange.redirect)
  <2>1. Fair("pysocks", "redirect", "known", {"rewrite", "restart", "verify"}, {}, {}, {"halt", "cut"})
    OBVIOUS
  <2>. QED
    BY <2>1, RecordMade, ContentFits, UndoFits DEF PysocksChange
<1>3. Made("pysocks", "drop", PysocksRest.drop)
  <2>1. Fair("pysocks", "drop", "known", {"halt", "cut", "close", "persist", "unrecord"}, {}, {}, {})
    OBVIOUS
  <2>. QED
    BY <2>1, OpMade, DropFits, UndoFits DEF PysocksRest
<1>4. Made("pysocks", "remove", PysocksRest.remove)
  <2>1. Fair("pysocks", "remove", "nothing", {"stop", "erase", "retire", "persist", "forget"}, {}, {}, {})
    OBVIOUS
  <2>. QED
    BY <2>1, OpMade, RemovalFits, UndoFits DEF PysocksRest
<1>5. Suits("pysocks", PysocksChange) /\ Suits("pysocks", PysocksRest)
  BY <1>1, <1>2, <1>3, <1>4 DEF Suits, PysocksChange, PysocksRest
<1>. QED
  BY <1>5, JoinedSuits DEF Pysocks

(* What the menus have in common, whoever wrote them: every option of      *)
(* every menu keeps the rules.                                             *)
THEOREM MenusSuit == \A m \in Managers : Suits(m, Menus[m])
<1>1. Managers = {"shadowsocks", "badvpn", "hysteria", "openvpn", "sslh", "zivpn", "hysteria1", "squid",
        "websocket", "atken", "ws_epro", "sshgo", "checkuser", "filebrowser", "wireguard", "stunnel", "dropbear",
        "pysocks"}
  BY DEF Managers, Menus
<1>2. /\ Menus.shadowsocks = Shadowsocks
      /\ Menus.badvpn = Badvpn
      /\ Menus.hysteria = Hysteria
      /\ Menus.openvpn = Openvpn
      /\ Menus.sslh = Broker
      /\ Menus.zivpn = Zivpn
      /\ Menus.hysteria1 = Hysteria1
      /\ Menus.squid = Squid
      /\ Menus.websocket = Websocket
      /\ Menus.atken = Atken
      /\ Menus.ws_epro = WsEpro
      /\ Menus.sshgo = Sshgo
      /\ Menus.checkuser = Checkuser
      /\ Menus.filebrowser = Filebrowser
      /\ Menus.wireguard = Wireguard
      /\ Menus.stunnel = Stunnel
      /\ Menus.dropbear = Dropbear
      /\ Menus.pysocks = Pysocks
  BY DEF Menus
<1>. QED
  BY <1>1, <1>2, ShadowsocksSuits, BadvpnSuits, HysteriaSuits, OpenvpnSuits, BrokerSuits, ZivpnSuits,
     Hysteria1Suits, SquidSuits, WebsocketSuits, AtkenSuits, WsEproSuits, SshgoSuits, CheckuserSuits,
     FilebrowserSuits, WireguardSuits, StunnelSuits, DropbearSuits, PysocksSuits

-----------------------------------------------------------------------------
(* Sequences, files and answers.                                           *)

(* What stands first says of what follows it.                              *)
Ahead(step, rest) ==
  /\ "stop" \notin rest
  /\ step = "open" => "open" \notin rest
  /\ step = "create" => "open" \in rest
  /\ step = "restart" => rest \cap {"verify", "verifyAny", "close"} # {}
  /\ step \in Final => rest \cap Failing = {}
  /\ step \in Disturbing => "test" \notin rest
  /\ step \in {"rerun", "again"} => rest \cap PutBacks = {}

(* Of a sequence that keeps the rules, what follows its first step keeps   *)
(* them, and is what the rules say may follow that step.                   *)
LEMMA Tails ==
  ASSUME NEW s \in Seq(Steps), s # <<>>, Ordered(s)
  PROVE  /\ Tail(s) \in Seq(Steps) /\ Head(s) \in Steps
         /\ Elems(s) = {Head(s)} \cup Elems(Tail(s))
         /\ Ordered(Tail(s)) /\ Ahead(Head(s), Elems(Tail(s)))
         /\ Head(s) = "open" => Tail(s) # <<>> /\ Head(Tail(s)) = "persist"
<1>. DEFINE t == Tail(s)
<1>1. /\ t \in Seq(Steps) /\ Len(t) = Len(s) - 1 /\ \A i \in DOMAIN t : i + 1 \in DOMAIN s /\ t[i] = s[i + 1]
      /\ 1 \in DOMAIN s /\ Head(s) = s[1] /\ s[1] \in Steps
  OBVIOUS
<1>2. \A i \in DOMAIN s : i = 1 \/ (i - 1 \in DOMAIN t /\ t[i - 1] = s[i])
  OBVIOUS
<1>3. DOMAIN s = 1..Len(s) /\ DOMAIN t = 1..Len(t) /\ Len(s) \in Nat /\ Len(t) \in Nat
  OBVIOUS
<1>4. s[1] = "open" => t # <<>> /\ Head(t) = "persist"
  <2>1. s[1] = "open" => 1 + 1 \in DOMAIN s /\ s[1 + 1] = "persist"
    BY <1>1 DEF Ordered, Follows
  <2>2. 1 + 1 \in DOMAIN s => 1 \in DOMAIN t /\ t[1] = s[1 + 1]
    BY <1>2
  <2>. HIDE DEF t
  <2>. QED
    BY <1>1, <2>1, <2>2
<1>. HIDE DEF t
<1>5. Elems(s) = {s[1]} \cup Elems(t)
  <2>1. ASSUME NEW x \in Elems(s) PROVE x \in {s[1]} \cup Elems(t)
    BY <1>2, <2>1 DEF Elems
  <2>2. ASSUME NEW x \in {s[1]} \cup Elems(t) PROVE x \in Elems(s)
    BY <1>1, <2>2 DEF Elems
  <2>. QED
    BY <2>1, <2>2
<1>6. ASSUME NEW a, NEW B, Follows(s, a, B) PROVE Follows(t, a, B) /\ (s[1] = a => Elems(t) \cap B # {})
  <2>1. ASSUME NEW i \in DOMAIN t, t[i] = a PROVE i + 1 \in DOMAIN t /\ t[i + 1] \in B
    <3>1. i \in Nat /\ i + 1 \in DOMAIN s /\ s[i + 1] = a
      BY <1>1, <1>3, <2>1
    <3>2. (i + 1) + 1 \in DOMAIN s /\ s[(i + 1) + 1] \in B
      BY <1>6, <3>1 DEF Follows
    <3>3. i + 1 \in DOMAIN t
      BY <1>1, <1>3, <3>1, <3>2
    <3>. QED
      BY <1>1, <3>2, <3>3
  <2>2. s[1] = a => 1 \in DOMAIN t /\ t[1] \in B
    <3>1. s[1] = a => 1 + 1 \in DOMAIN s /\ s[1 + 1] \in B
      BY <1>1, <1>6 DEF Follows
    <3>2. 1 + 1 \in DOMAIN s => 1 \in DOMAIN t /\ t[1] = s[1 + 1]
      BY <1>1, <1>3
    <3>. QED
      BY <3>1, <3>2
  <2>. QED
    BY <2>1, <2>2 DEF Elems, Follows
<1>7. ASSUME NEW A, NEW B, Never(s, A, B) PROVE Never(t, A, B) /\ (s[1] \in A => Elems(t) \cap B = {})
  <2>1. Never(t, A, B)
    BY <1>1, <1>3, <1>7 DEF Never
  <2>2. s[1] \in A => \A j \in DOMAIN t : t[j] \notin B
    BY <1>1, <1>3, <1>7 DEF Never
  <2>. QED
    BY <2>1, <2>2 DEF Elems
<1>8. Ordered(t)
  BY <1>6, <1>7 DEF Ordered
<1>9. Ahead(s[1], Elems(t))
  <2>1. /\ s[1] = "create" => Elems(t) \cap {"open"} # {}
        /\ s[1] = "restart" => Elems(t) \cap {"verify", "verifyAny", "close"} # {}
    BY <1>6 DEF Ordered
  <2>2. /\ Elems(t) \cap {"stop"} = {} /\ (s[1] \in {"open"} => Elems(t) \cap {"open"} = {})
        /\ s[1] \in Final => Elems(t) \cap Failing = {}
        /\ s[1] \in Disturbing => Elems(t) \cap {"test"} = {}
        /\ s[1] \in {"rerun", "again"} => Elems(t) \cap PutBacks = {}
    BY <1>1, <1>7 DEF Ordered
  <2>. QED
    BY <2>1, <2>2 DEF Ahead
<1>. QED
  BY <1>1, <1>4, <1>5, <1>8, <1>9 DEF t

(* Files and what a service serves of one.                                 *)
LEMMA FileTypes ==
  /\ NoFile \in Files
  /\ \A ps \in SUBSET Ports : Written(ps) \subseteq Files
  /\ \A f \in Files : Serving(f) \in SUBSET Ports
<1>1. NoFile \in Files
  BY DEF NoFile, Files
<1>2. ASSUME NEW ps \in SUBSET Ports PROVE Written(ps) \subseteq Files
  BY DEF Written, Files
<1>3. ASSUME NEW f \in Files PROVE Serving(f) \in SUBSET Ports
  BY PortsAssumption DEF Serving, Files
<1>. QED
  BY <1>1, <1>2, <1>3

(* An answer names ports.                                                  *)
LEMMA AskedType ==
  ASSUME TypeOK, NEW asks \in Questions
  PROVE  Asked(asks) \subseteq SUBSET Ports
<1>. DEFINE known == IF mgr = "dropbear" /\ recorded = {} THEN {DefaultPort} ELSE Current
<1>1. Current \in SUBSET Ports /\ recorded \in SUBSET Ports /\ file.ports \in SUBSET Ports
  BY DEF TypeOK, Current, Files
<1>2. known \in SUBSET Ports
  BY <1>1, PortsAssumption
<1>. QED
  BY <1>1, <1>2 DEF Asked, Questions

-----------------------------------------------------------------------------
(* The types.                                                              *)

(* Nothing is something an option may find.                                *)
LEMMA NothingFound == Nothing \in Found /\ Nothing.file = NoFile /\ Nothing.live = {}
  BY FileTypes DEF Nothing, Found

(* The menu of the manager keeps the rules.                                *)
LEMMA MenuSuits ==
  ASSUME TypeOK
  PROVE  Suits(mgr, Menu)
  BY MenusSuit, ModelledAssumption DEF TypeOK, Menu

(* The types hold at first,                                                *)
LEMMA TypeStart == Init => TypeOK
<1>1. NoFile \in Files /\ 0 \in 0..MaxCrashes
  BY FileTypes, CrashesAssumption
<1>. QED
  BY <1>1, NothingFound DEF Init, TypeOK

(* and every step keeps them.                                              *)
LEMMA TypeStep == TypeOK /\ [Next]_vars => TypeOK'
<1>. SUFFICES ASSUME TypeOK, [Next]_vars PROVE TypeOK'
  OBVIOUS
<1>. USE DEF kind, history, Done, FailsTo, service, firewall, record, panel
<1>0. /\ Current \in SUBSET Ports /\ Old \in SUBSET Ports /\ Serving(file) \in SUBSET Ports
      /\ DOMAIN Menu' = DOMAIN Menu \/ mgr' # mgr
  BY FileTypes, PortsAssumption DEF TypeOK, Current, Old, Files, Menu, Found
<1>1. CASE \E o \in DOMAIN Menu : Begin(o)
  <2>1. PICK o \in DOMAIN Menu : Begin(o)
    BY <1>1
  <2>2. Menu[o].asks \in Questions
    BY MenuSuits DEF Suits, Made, Fair
  <2>3. args' \in SUBSET Ports
    BY <2>1, <2>2, AskedType DEF Begin
  <2>4. before' \in Found
    BY <1>0, <2>1 DEF Begin, TypeOK, Found
  <2>5. /\ UNCHANGED <<mgr, host, installed, enabled, file, live, coming, open, saved, disk, crashes, torn>>
        /\ op' \in DOMAIN Menu /\ recorded' = Current /\ failed' \in BOOLEAN
    BY <2>1 DEF Begin
  <2>. QED
    BY <1>0, <2>3, <2>4, <2>5 DEF TypeOK, Menu
<1>2. CASE Finish
  <2>1. /\ mgr' = mgr /\ host' = host /\ installed' = installed /\ enabled' = enabled /\ file' = file
        /\ live' = live /\ coming' = coming /\ open' = open /\ saved' = saved /\ recorded' = recorded
        /\ disk' = disk /\ crashes' = crashes /\ torn' = torn
        /\ op' = "none" /\ args' = {} /\ failed' = FALSE /\ before' \in Found
    BY <1>2, NothingFound DEF Finish
  <2>. QED
    BY <2>1 DEF TypeOK, Menu
<1>3. CASE Leave
  <2>1. Reconciled \in SUBSET Ports
    BY DEF Reconciled, TypeOK, Files
  <2>2. /\ UNCHANGED <<mgr, host, installed, enabled, file, live, coming, open, saved, crashes, torn>>
        /\ UNCHANGED <<op, args, failed, before>> /\ {recorded', disk'} \subseteq SUBSET Ports
    BY <1>3, <2>1 DEF Leave, TypeOK
  <2>. QED
    BY <2>2 DEF TypeOK, Menu
<1>4. CASE ComesUp
  <2>1. /\ UNCHANGED <<mgr, host, installed, enabled, file, open, saved, recorded, disk, crashes, torn>>
        /\ UNCHANGED <<op, args, failed, before>> /\ {live', coming'} \subseteq SUBSET Ports
    BY <1>4 DEF ComesUp, TypeOK
  <2>. QED
    BY <2>1 DEF TypeOK, Menu
<1>5. CASE Hangup \/ Reboot
  <2>1. NoFile \in Files /\ crashes' \in 0..MaxCrashes
    BY <1>5, FileTypes, CrashesAssumption DEF Hangup, Reboot, Dies, TypeOK
  <2>2. /\ mgr' = mgr /\ host' = host /\ installed' = installed /\ enabled' = enabled /\ file' = file
        /\ saved' = saved /\ disk' = disk /\ op' = "none" /\ args' = {} /\ failed' = FALSE
        /\ before' \in Found
    BY <1>5, NothingFound DEF Hangup, Reboot, Dies
  <2>3. {live', coming', open', recorded', torn'} \subseteq SUBSET Ports
    BY <1>0, <1>5 DEF Hangup, Reboot, Dies, TypeOK
  <2>. QED
    BY <2>1, <2>2, <2>3 DEF TypeOK, Menu
<1>6. CASE Open \/ Persist \/ Close \/ Retire
  BY <1>6 DEF Open, Persist, Close, Retire, Changed, Saved, Closed, Kept, Persisted, TypeOK, Menu
<1>7. CASE InstallProgram
  <2>1. file' \in Files
    BY <1>7, FileTypes, PortsAssumption DEF InstallProgram, TypeOK
  <2>2. coming' \in SUBSET Ports
    BY <1>7, <2>1, FileTypes DEF InstallProgram, TypeOK
  <2>3. UNCHANGED <<mgr, host, op, args, failed, live, open, saved, recorded, disk, crashes, torn>>
        /\ {installed', enabled'} \subseteq BOOLEAN
    BY <1>7 DEF InstallProgram, TypeOK
  <2>4. before' \in Found
    BY <1>7, <2>1 DEF InstallProgram, TypeOK, Found
  <2>. QED
    BY <2>1, <2>2, <2>3, <2>4 DEF TypeOK, Menu
<1>8. CASE Write \/ Create \/ PutBack \/ Uninstall
  <2>1. file' \in Files
    <3>1. CASE Write
      BY <3>1, FileTypes, PortsAssumption DEF Write, TypeOK, Files
    <3>2. CASE Create
      BY <3>2, FileTypes DEF Create, TypeOK
    <3>3. CASE PutBack
      BY <1>0, <3>3, FileTypes DEF PutBack, TypeOK, Files, Found
    <3>4. CASE Uninstall
      BY <3>4, FileTypes DEF Uninstall, TypeOK
    <3>. QED
      BY <1>8, <3>1, <3>2, <3>3, <3>4
  <2>2. UNCHANGED <<mgr, host, op, args, before, enabled, live, coming, open, saved, recorded, disk, crashes, torn>>
        /\ failed' \in BOOLEAN /\ installed' \in BOOLEAN
    BY <1>8 DEF Write, Create, PutBack, Uninstall, TypeOK
  <2>. QED
    BY <2>1, <2>2 DEF TypeOK, Menu
<1>9. CASE Test \/ Verify
  BY <1>9 DEF Test, Verify, TypeOK, Menu
<1>10. CASE RestartService \/ Again
  <2>1. UNCHANGED <<mgr, host, op, args, before, installed, enabled, file, open, saved, recorded, disk, crashes, torn>>
        /\ failed' \in BOOLEAN /\ (Restarted \/ UNCHANGED <<live, coming>>)
    BY <1>10 DEF RestartService, Again, TypeOK
  <2>2. live' \in SUBSET Ports /\ coming' \in SUBSET Ports
    BY <1>0, <2>1 DEF Restarted, TypeOK
  <2>. QED
    BY <2>1, <2>2 DEF TypeOK, Menu
<1>11. CASE Halt \/ Toggle
  BY <1>11 DEF Halt, Toggle, TypeOK, Menu
<1>12. CASE Record \/ Save
  BY <1>12 DEF Record, Save, TypeOK, Menu, Files
<1>13. CASE UNCHANGED vars
  BY <1>13 DEF vars, TypeOK, Menu
<1>. QED
  BY <1>1, <1>2, <1>3, <1>4, <1>5, <1>6, <1>7, <1>8, <1>9, <1>10, <1>11, <1>12, <1>13 DEF Next, Step

-----------------------------------------------------------------------------
(* The steps that are left.                                                *)

(* What follows a check that fails.                                        *)
Undo(step) ==
  IF step = "test" THEN Menu[op].test
  ELSE IF step = "restart" THEN Menu[op].restart
  ELSE IF step \in {"verify", "verifyAny"} THEN Menu[op].verify ELSE <<>>

(* What a step of the system does to the steps left: an option is chosen,  *)
(* they stay, they are given up, one is done, or a check turns to what     *)
(* takes the option back.                                                  *)
Chooses == \E o \in DOMAIN Menu : Begin(o)
Waits == UNCHANGED <<mgr, host, op, args, todo, failed, before>>
Ends == UNCHANGED <<mgr, host>> /\ op' = "none" /\ args' = {} /\ todo' = <<>> /\ failed' = FALSE
Walks == todo # <<>> /\ todo' = Tail(todo) /\ UNCHANGED <<mgr, host, op, args, failed>>
Turns ==
  /\ todo # <<>> /\ Head(todo) \in Failing /\ todo' = Undo(Head(todo)) /\ failed'
  /\ UNCHANGED <<mgr, host, op, args, before>>

(* Every step of the system does one of these.                             *)
LEMMA Kinds ==
  ASSUME [Next]_vars
  PROVE  Chooses \/ Waits \/ Ends \/ Walks \/ Turns
<1>. USE DEF kind, history, Done, FailsTo, service, firewall, record, panel, At
<1>1. CASE Chooses
  BY <1>1
<1>2. CASE Finish \/ Hangup \/ Reboot
  BY <1>2 DEF Finish, Hangup, Reboot, Dies, Ends
<1>3. CASE Leave \/ ComesUp \/ UNCHANGED vars
  BY <1>3 DEF Leave, ComesUp, vars, Waits
<1>4. CASE Open \/ Persist \/ Close \/ Retire
  BY <1>4 DEF Open, Persist, Close, Retire, Walks
<1>5. CASE InstallProgram \/ Write \/ PutBack \/ Uninstall
  BY <1>5 DEF InstallProgram, Write, PutBack, Uninstall, Walks
<1>6. CASE Again \/ Halt \/ Toggle \/ Record \/ Save
  BY <1>6 DEF Again, Halt, Toggle, Record, Save, Walks
<1>7. CASE Create
  BY <1>7 DEF Create, Walks, Turns, Undo, Failing
<1>8. CASE Test
  BY <1>8 DEF Test, Walks, Turns, Undo, Failing
<1>9. CASE RestartService
  BY <1>9 DEF RestartService, Walks, Turns, Undo, Failing
<1>10. CASE Verify
  BY <1>10 DEF Verify, Walks, Turns, Undo, Failing
<1>. QED
  BY <1>1, <1>2, <1>3, <1>4, <1>5, <1>6, <1>7, <1>8, <1>9, <1>10 DEF Next, Step, Chooses

(* The steps left are some of the option's, or, once a check has failed,   *)
(* of what takes it back.                                                  *)
Backs(m, o, rest) ==
  /\ o # "remove" /\ rest \subseteq Undoing /\ (m = "dropbear" => "cut" \notin rest)
  /\ Claims(m, o) =>
       /\ rest \cap {"halt", "cut"} = {}
       /\ "putBack" \in rest => m \in KeepsFirst \cup {"wireguard"}
       /\ "putBackRecorded" \in rest => m = "dropbear"
Scripted ==
  /\ todo \in Seq(Steps) /\ Ordered(todo)
  /\ Idle => todo = <<>> /\ failed = FALSE
  /\ ~Idle /\ ~failed => Elems(todo) \subseteq Elems(Menu[op].do)
  /\ failed => Backs(mgr, op, Elems(todo))

(* The option that runs keeps the rules.                                   *)
LEMMA OptionMade ==
  ASSUME TypeOK, ~Idle
  PROVE  Made(mgr, op, Menu[op])
  BY MenuSuits DEF TypeOK, Suits, Idle

(* No steps at all keep them.                                              *)
LEMMA NoSteps == <<>> \in Seq(Steps) /\ Ordered(<<>>) /\ Elems(<<>>) = {}
  BY UndoFits DEF Fits

(* What follows a check is made for it.                                    *)
LEMMA UndoMade ==
  ASSUME TypeOK, Scripted, todo # <<>>, Head(todo) \in Failing
  PROVE  /\ Undo(Head(todo)) \in Seq(Steps) /\ Ordered(Undo(Head(todo)))
         /\ ~failed /\ ~Idle /\ Head(todo) \in Elems(Menu[op].do) /\ op # "remove"
         /\ Head(todo) # "create" =>
              Undone(mgr, op, Elems(Menu[op].do), Elems(Undo(Head(todo))), Head(todo) # "test")
         /\ Backs(mgr, op, Elems(Undo(Head(todo))))
<1>1. ~Idle /\ Head(todo) \in Elems(todo)
  BY Tails DEF Scripted
<1>2. ~failed
  BY <1>1 DEF Scripted, Backs, Undoing, PutBacks, Failing
<1>3. Head(todo) \in Elems(Menu[op].do)
  BY <1>1, <1>2 DEF Scripted
<1>. DEFINE step == Head(todo)
            e == Menu[op]
<1>4. Made(mgr, op, e)
  BY <1>1, OptionMade
<1>5. Undo(step) \in {e.test, e.restart, e.verify} \/ (Undo(step) = <<>> /\ step = "create")
  BY DEF Undo, Failing
<1>6. Undo(step) \in Seq(Steps) /\ Ordered(Undo(step))
  BY <1>4, <1>5, NoSteps DEF Made
<1>7. step # "create" => Undone(mgr, op, Elems(e.do), Elems(Undo(step)), step # "test")
  <2>1. Fair(mgr, op, e.asks, Elems(e.do), Elems(e.test), Elems(e.restart), Elems(e.verify))
    BY <1>4 DEF Made
  <2>. HIDE DEF step, e
  <2>2. CASE step = "test"
    BY <1>3, <2>1, <2>2 DEF Fair, Undo, step, e
  <2>3. CASE step = "restart"
    BY <1>3, <2>1, <2>3 DEF Fair, Undo, step, e
  <2>4. CASE step \in {"verify", "verifyAny"}
    BY <1>3, <2>1, <2>4 DEF Fair, Undo, step, e
  <2>. QED
    BY <2>2, <2>3, <2>4 DEF Failing, step
<1>8. op # "remove"
  <2>1. op = "remove" => Elems(e.do) \subseteq Removing
    BY <1>4 DEF Made, Fair, Removes
  <2>. QED
    BY <1>3, <2>1 DEF Removing, Failing
<1>9. Backs(mgr, op, Elems(Undo(step)))
  <2>. DEFINE undo == Elems(Undo(step))
              do == Elems(e.do)
  <2>1. ASSUME step = "create" PROVE Backs(mgr, op, undo)
    <3>1. undo = {}
      BY <2>1, NoSteps DEF Undo
    <3>. HIDE DEF undo
    <3>. QED
      BY <1>8, <3>1 DEF Backs
  <2>2. ASSUME step # "create" PROVE Backs(mgr, op, undo)
    <3>1. Undone(mgr, op, do, undo, step # "test")
      BY <1>7, <2>2
    <3>. HIDE DEF undo, do, step
    <3>. QED
      BY <1>8, <3>1 DEF Backs, Undone, Restoring
  <2>. QED
    BY <2>1, <2>2
<1>. QED
  BY <1>1, <1>2, <1>3, <1>6, <1>7, <1>8, <1>9

(* The steps left are of the option at first,                              *)
LEMMA ScriptStart == Init => Scripted
  BY NoSteps DEF Init, Scripted, Idle

(* and stay so.                                                            *)
LEMMA ScriptStep == TypeOK /\ Scripted /\ [Next]_vars => Scripted'
<1>. SUFFICES ASSUME TypeOK, Scripted, [Next]_vars PROVE Scripted'
  OBVIOUS
<1>1. CASE Chooses
  <2>1. PICK o \in DOMAIN Menu : Begin(o)
    BY <1>1 DEF Chooses
  <2>2. Made(mgr, o, Menu[o])
    BY MenuSuits DEF Suits
  <2>3. Menu' = Menu /\ op' = o /\ todo' = Menu[o].do /\ failed' = FALSE
    BY <2>1 DEF Begin, Menu, kind
  <2>4. o # "none" /\ Menu[o].do \in Seq(Steps) /\ Ordered(Menu[o].do)
    BY <2>2 DEF Made, Fair
  <2>. QED
    BY <2>3, <2>4 DEF Scripted, Idle
<1>2. CASE Waits
  <2>1. Menu' = Menu /\ Idle' = Idle
    BY <1>2 DEF Waits, Menu, Idle
  <2>. QED
    BY <1>2, <2>1 DEF Scripted, Waits
<1>3. CASE Ends
  BY <1>3, NoSteps DEF Scripted, Ends, Idle
<1>4. CASE Walks
  <2>1. Menu' = Menu /\ Idle' = Idle
    BY <1>4 DEF Walks, Menu, Idle
  <2>2. /\ todo' \in Seq(Steps) /\ Ordered(todo') /\ Elems(todo') \subseteq Elems(todo)
        /\ UNCHANGED <<mgr, op, failed>> /\ ~Idle
    BY <1>4, Tails DEF Scripted, Walks
  <2>. QED
    BY <2>1, <2>2 DEF Scripted, Backs
<1>5. CASE Turns
  <2>1. /\ todo' \in Seq(Steps) /\ Ordered(todo') /\ ~Idle /\ failed' /\ UNCHANGED <<mgr, op>>
        /\ Backs(mgr, op, Elems(todo'))
    BY <1>5, UndoMade DEF Turns
  <2>. QED
    BY <2>1 DEF Scripted, Idle
<1>. QED
  BY <1>1, <1>2, <1>3, <1>4, <1>5, Kinds

-----------------------------------------------------------------------------
(* The inductive invariant.                                                *)

(* The steps left, and those of the option.                                *)
Left == Elems(todo)
Doing == Elems(Menu[op].do)

(* Only a program that is there runs; Dropbear's file works or does not.   *)
Whole(f) == f.good \in {f.ports, {}}
Grounded ==
  /\ live \cup coming # {} => installed
  /\ mgr = "dropbear" => Whole(file) /\ Whole(before.file)

(* What is opened is saved at once, or has been torn; a host that keeps no *)
(* rules has none saved.                                                   *)
Lasting ==
  IF Durable(host)
  THEN open \ args \subseteq saved \cup torn /\ (open \subseteq saved \cup torn \/ At("persist"))
  ELSE saved = {}

(* What an option found lasts: a program that ran is there, and WireGuard  *)
(* only moves with a file.                                                 *)
Standing ==
  ~Idle =>
    /\ (op # "remove" /\ before.live # {}) => installed
    /\ (mgr = "wireguard" /\ op = "move") => before.file # NoFile

(* A removal: each part of the service is gone, or its step is to come.    *)
Vanishing ==
  op = "remove" =>
    /\ args = {}
    /\ "stop" \in Left \/ live \cup coming = {}
    /\ Closes(host) => "retire" \in Left \/ (open \cup saved) \cap Old = {}
    /\ "forget" \in Left \/ recorded = {}

(* A change: each part of its success is there, or its step is to come.    *)
Seen == IF mgr = "dropbear" THEN args \cap (live \cup Unchecked) # {} ELSE args \ Unchecked \subseteq live
Arriving ==
  op \in Changes /\ ~failed =>
    /\ args # {}
    /\ "open" \in Left \/ args \subseteq open
    /\ Durable(host) => "open" \in Left \/ At("persist") \/ args \subseteq saved
    /\ "record" \in Left \/ "recordAlso" \in Left \/ args \subseteq recorded
    /\ Check(mgr) \in Left \/ Seen
    /\ op \in {"move", "define"} /\ Closes(host) => "retire" \in Left \/ (open \cup saved) \cap Old \subseteq args

(* As long as a check can fail, what it would have to give back is known.  *)
Revocable ==
  ~failed /\ Left \cap Failing # {} =>
    /\ recorded = before.recorded
    /\ before.open \subseteq open /\ open \subseteq before.open \cup args
    /\ "open" \in Left \/ "open" \notin Doing => open = before.open
    /\ "test" \in Left => before.live \subseteq live

(* A change that failed: each part is as it was, or its step is to come;   *)
(* nftables closes nothing.                                                *)
Stuck == IF Closes(host) THEN {} ELSE args
Returning ==
  failed =>
    /\ recorded = before.recorded
    /\ before.open \ args \subseteq open /\ open \subseteq before.open \cup args
    /\ Left \cap Closing # {} \/ (args \cap Old = {} => open \subseteq before.open \cup Stuck)
    /\ PutsBack =>
         /\ Left \cap PutBacks # {} \/ file = before.file
         /\ Left \cap {"rerun", "again"} # {} \/ before.live \cap Serving(before.file) \subseteq live \cup coming

(* Together they are inductive.                                            *)
IInv == TypeOK /\ Scripted /\ Grounded /\ Lasting /\ Standing /\ Vanishing /\ Arriving /\ Revocable /\ Returning

-----------------------------------------------------------------------------
(* What a step and a change of hands keep.                                 *)

(* One step is done.                                                       *)
Walk(step) == At(step) /\ todo' = Tail(todo) /\ UNCHANGED <<mgr, host, op, args, failed>>

(* One step done: what is left, and what is known of it.                   *)
LEMMA Walking ==
  ASSUME TypeOK, Scripted, NEW step, Walk(step)
  PROVE  /\ ~Idle /\ Left = {step} \cup Left' /\ Ahead(step, Left') /\ Menu' = Menu /\ Doing' = Doing
         /\ ~failed => Left \subseteq Doing
         /\ failed => Backs(mgr, op, Left)
<1>1. todo # <<>> /\ Head(todo) = step /\ todo' = Tail(todo) /\ UNCHANGED <<mgr, op, failed>>
  BY DEF Walk, At
<1>2. ~Idle
  BY <1>1 DEF Scripted
<1>3. Elems(todo) = {step} \cup Elems(todo') /\ Ahead(step, Elems(todo'))
  BY <1>1, Tails DEF Scripted
<1>4. Menu' = Menu
  BY <1>1 DEF Menu
<1>. QED
  BY <1>1, <1>2, <1>3, <1>4 DEF Left, Doing, Scripted

(* The option that runs is one of those its menu may have.                 *)
LEMMA OptionFair ==
  ASSUME TypeOK, ~Idle
  PROVE  Fair(mgr, op, Menu[op].asks, Doing, Elems(Menu[op].test), Elems(Menu[op].restart), Elems(Menu[op].verify))
  BY OptionMade DEF Made, Doing

(* Rules that were changed are saved by the next step.                     *)
LEMMA LastingStep == TypeOK /\ Scripted /\ Lasting /\ [Next]_vars => Lasting'
<1>. SUFFICES ASSUME TypeOK, Scripted, Lasting, [Next]_vars PROVE Lasting'
  OBVIOUS
<1>. USE DEF kind, history, service, firewall, record, panel, Done, FailsTo, At
<1>1. CASE Chooses
  BY <1>1 DEF Chooses, Begin, Lasting, Scripted
<1>2. CASE Finish
  BY <1>2 DEF Finish, Lasting
<1>3. CASE Hangup \/ Reboot
  BY <1>3 DEF Hangup, Reboot, Dies, Lasting
<1>4. CASE Leave \/ ComesUp \/ UNCHANGED vars
  BY <1>4 DEF Leave, ComesUp, vars, Lasting
<1>5. CASE Open
  <2>1. host' = host /\ args' = args /\ torn' = torn /\ open' = open \cup args /\ saved' = Kept(host, open', saved)
    BY <1>5 DEF Open, Changed
  <2>2. At("persist")' /\ ~At("persist")
    BY <1>5, Tails DEF Open, Scripted
  <2>. QED
    BY <2>1, <2>2 DEF Lasting, Kept, Durable
<1>6. CASE Close
  <2>1. /\ host' = host /\ args' = args /\ torn' = torn /\ ~At("persist")
        /\ open' \subseteq open /\ saved' = Kept(host, open', saved)
    BY <1>6 DEF Close, Changed, Closed
  <2>. QED
    BY <2>1 DEF Lasting, Kept, Durable
<1>7. CASE Persist
  BY <1>7 DEF Persist, Saved, Persisted, Lasting
<1>8. CASE Retire
  <2>1. /\ host' = host /\ args' = args /\ torn' = torn /\ ~At("persist") /\ open' \subseteq open
        /\ saved' = saved \/ saved' = Persisted(host, open', saved)
    BY <1>8 DEF Retire, Saved, Closed
  <2>. QED
    BY <2>1 DEF Lasting, Persisted
<1>9. CASE InstallProgram \/ Write \/ PutBack \/ Uninstall \/ Create
  BY <1>9 DEF InstallProgram, Write, PutBack, Uninstall, Create, Lasting
<1>10. CASE Again \/ Halt \/ Toggle \/ Record \/ Save
  BY <1>10 DEF Again, Halt, Toggle, Record, Save, Lasting
<1>11. CASE Test \/ RestartService \/ Verify
  BY <1>11 DEF Test, RestartService, Verify, Lasting
<1>. QED
  BY <1>1, <1>2, <1>3, <1>4, <1>5, <1>6, <1>7, <1>8, <1>9, <1>10, <1>11 DEF Next, Step, Chooses

(* What ran when the option began is installed: only a removal takes a     *)
(* program away.                                                           *)
LEMMA StandingStep == TypeOK /\ Scripted /\ Grounded /\ Standing /\ [Next]_vars => Standing'
<1>. SUFFICES ASSUME TypeOK, Scripted, Grounded, Standing, [Next]_vars PROVE Standing'
  OBVIOUS
<1>. USE DEF kind, history, service, firewall, record, panel, Done, FailsTo
<1>1. CASE Chooses
  <2>1. PICK o \in DOMAIN Menu : Begin(o)
    BY <1>1 DEF Chooses
  <2>2. mgr = "wireguard" /\ o = "move" => Menu[o].asks = "portOn"
    BY MenuSuits DEF Suits, Made, Fair
  <2>3. mgr = "wireguard" /\ o = "move" => file # NoFile
    BY <2>1, <2>2 DEF Begin, Asked
  <2>4. before'.live = live /\ before'.file = file /\ op' = o /\ UNCHANGED <<mgr, installed>>
    BY <2>1 DEF Begin
  <2>. QED
    BY <2>3, <2>4 DEF Standing, Grounded
<1>2. CASE Finish \/ Hangup \/ Reboot
  BY <1>2 DEF Finish, Hangup, Reboot, Dies, Standing, Idle
<1>3. CASE Leave \/ ComesUp \/ UNCHANGED vars
  BY <1>3 DEF Leave, ComesUp, vars, Standing, Idle
<1>4. CASE Open \/ Persist \/ Close \/ Retire
  BY <1>4 DEF Open, Persist, Close, Retire, Standing, Idle
<1>5. CASE InstallProgram
  <2>1. Walk("install") /\ before'.live = before.live /\ (installed => installed')
    BY <1>5 DEF InstallProgram, Walk, TypeOK, Found
  <2>2. ~(mgr = "wireguard" /\ op = "move")
    <3>1. ~Idle /\ "install" \in Left /\ (~failed => Left \subseteq Doing) /\ (failed => Left \subseteq Undoing)
      BY <2>1, Walking DEF Backs
    <3>2. "install" \in Doing
      BY <3>1 DEF Undoing, PutBacks
    <3>. QED
      BY <3>1, <3>2, OptionFair DEF Fair
  <2>. QED
    BY <2>1, <2>2 DEF Standing, Walk, Idle
<1>6. CASE Write \/ PutBack \/ Create
  BY <1>6 DEF Write, PutBack, Create, Standing, Idle
<1>7. CASE Uninstall
  <2>1. PICK step \in {"erase", "purge"} : Walk(step) /\ before' = before
    BY <1>7 DEF Uninstall, Walk
  <2>2. op = "remove" /\ op' = op /\ mgr' = mgr
    <3>1. ~Idle /\ step \in Left /\ (~failed => Left \subseteq Doing) /\ (failed => Left \subseteq Undoing)
      BY <2>1, Walking DEF Backs
    <3>2. step \in Doing
      BY <3>1 DEF Undoing, PutBacks
    <3>. QED
      BY <2>1, <3>1, <3>2, OptionFair DEF Fair, Walk
  <2>. QED
    BY <2>1, <2>2 DEF Standing
<1>8. CASE Again \/ Halt \/ Toggle \/ Record \/ Save
  BY <1>8 DEF Again, Halt, Toggle, Record, Save, Standing, Idle
<1>9. CASE Test \/ RestartService \/ Verify
  BY <1>9 DEF Test, RestartService, Verify, Standing, Idle
<1>. QED
  BY <1>1, <1>2, <1>3, <1>4, <1>5, <1>6, <1>7, <1>8, <1>9 DEF Next, Step, Chooses

(* Only a program that is there runs: a removal stops it first. Dropbear's *)
(* file is never one of which some ports work.                             *)
LEMMA GroundedStep == TypeOK /\ Scripted /\ Grounded /\ Vanishing /\ [Next]_vars => Grounded'
<1>. SUFFICES ASSUME TypeOK, Scripted, Grounded, Vanishing, [Next]_vars PROVE Grounded'
  OBVIOUS
<1>. USE DEF kind, history, service, firewall, record, panel, Done, FailsTo
<1>1. CASE Chooses
  BY <1>1 DEF Chooses, Begin, Grounded, Whole
<1>2. CASE Finish \/ Hangup \/ Reboot
  <2>1. Whole(NoFile)
    BY DEF Whole, NoFile
  <2>. QED
    BY <1>2, <2>1 DEF Finish, Hangup, Reboot, Dies, Grounded, Nothing
<1>3. CASE Leave \/ ComesUp \/ UNCHANGED vars
  BY <1>3 DEF Leave, ComesUp, vars, Grounded, Whole
<1>4. CASE Open \/ Persist \/ Close \/ Retire
  BY <1>4 DEF Open, Persist, Close, Retire, Grounded, Whole
<1>5. CASE InstallProgram
  <2>1. \A f \in Written({DefaultPort}) : Whole(f)
    BY DEF Written, Whole
  <2>2. Whole(NoFile)
    BY DEF Whole, NoFile
  <2>3. file' = file \/ file' = NoFile \/ file' \in Written({DefaultPort})
    BY <1>5 DEF InstallProgram
  <2>4. /\ mgr' = mgr /\ live' = live /\ (installed => installed') /\ (coming' = coming \/ installed')
        /\ before' = [before EXCEPT !.file = file']
    BY <1>5 DEF InstallProgram
  <2>5. before'.file = file'
    BY <1>5 DEF InstallProgram, TypeOK, Found
  <2>. QED
    BY <2>1, <2>2, <2>3, <2>4, <2>5 DEF Grounded
<1>6. CASE Write \/ Create \/ PutBack
  <2>1. UNCHANGED <<mgr, installed, live, coming, before>>
    BY <1>6 DEF Write, Create, PutBack
  <2>2. ASSUME mgr = "dropbear" PROVE Whole(file')
    <3>1. /\ \A ps \in SUBSET Ports : \A f \in Written(ps) : Whole(f)
          /\ Whole(NoFile) /\ Whole(file) /\ Whole(before.file)
      BY <2>2 DEF Written, Whole, NoFile, Grounded
    <3>2. CASE Write
      <4>1. ~At("append") /\ ~At("rewrite") /\ ~At("cut")
        <5>1. ASSUME NEW step \in {"append", "rewrite", "cut"}, At(step) PROVE FALSE
          <6>1. Walk(step)
            BY <3>2, <5>1 DEF Write, Walk, At
          <6>2. ~Idle /\ step \in Left /\ (~failed => Left \subseteq Doing) /\ (failed => Backs(mgr, op, Left))
            BY <6>1, Walking
          <6>3. ~failed
            BY <2>2, <5>1, <6>2 DEF Backs, Undoing, PutBacks
          <6>. QED
            BY <2>2, <5>1, <6>2, <6>3, OptionFair DEF Fair
        <5>. QED
          BY <5>1
      <4>. QED
        BY <3>1, <3>2, <4>1, PortsAssumption DEF Write, TypeOK, Files
    <3>3. CASE Create
      BY <3>1, <3>3 DEF Create, TypeOK
    <3>4. CASE PutBack
      BY <3>1, <3>4 DEF PutBack, Whole
    <3>. QED
      BY <1>6, <3>2, <3>3, <3>4
  <2>. QED
    BY <2>1, <2>2 DEF Grounded
<1>7. CASE Uninstall
  <2>1. PICK step \in {"erase", "purge"} : Walk(step) /\ before' = before
    BY <1>7 DEF Uninstall, Walk
  <2>2. op = "remove" /\ "stop" \notin Left
    BY <2>1, Walking, OptionFair DEF Fair, Backs, Undoing, PutBacks, Ahead
  <2>. QED
    BY <1>7, <2>1, <2>2 DEF Grounded, Vanishing, Uninstall, Whole, NoFile
<1>8. CASE Again \/ Halt \/ Toggle \/ Record \/ Save \/ Test \/ RestartService \/ Verify
  <2>1. UNCHANGED <<mgr, installed, file, before>>
    BY <1>8 DEF Again, Halt, Toggle, Record, Save, Test, RestartService, Verify
  <2>2. Restarted => (live' \cup coming' # {} => live \cup coming # {} \/ installed)
    BY DEF Restarted
  <2>3. live' \cup coming' # {} => live \cup coming # {} \/ installed
    BY <1>8, <2>2 DEF Again, Halt, Toggle, Record, Save, Test, RestartService, Verify
  <2>. QED
    BY <2>1, <2>3 DEF Grounded
<1>. QED
  BY <1>1, <1>2, <1>3, <1>4, <1>5, <1>6, <1>7, <1>8 DEF Next, Step, Chooses

-----------------------------------------------------------------------------
(* Each step is the work of one action.                                    *)

(* Each step is the work of one action,                                    *)
LEMMA Deeds ==
  ASSUME Step, NEW step, At(step)
  PROVE  /\ step = "open" => Open
         /\ step = "persist" => Persist
         /\ step \in Closing => Close
         /\ step = "retire" => Retire
         /\ step = "install" => InstallProgram
         /\ step \in {"write", "append", "rewrite", "cut", "edit", "wipe"} => Write
         /\ step = "create" => Create
         /\ step \in PutBacks => PutBack
         /\ step \in {"erase", "purge"} => Uninstall
         /\ step = "test" => Test
         /\ step = "restart" => RestartService
         /\ step \in {"verify", "verifyAny"} => Verify
         /\ step \in {"again", "rerun", "bounce"} => Again
         /\ step \in {"stop", "halt"} => Halt
         /\ step \in {"record", "recordAlso", "recordFile", "unrecord", "forget"} => Record
         /\ step = "save" => Save
         /\ step = "toggle" => Toggle
  BY DEF Closing, PutBacks, Step, At, Open, Persist, Close, Retire, InstallProgram, Write, Create, PutBack,
         Uninstall, Test, RestartService, Verify, Again, Halt, Toggle, Record, Save

(* which takes it off the list, or turns to what takes it back.            *)
LEMMA StepKinds == Step => Turns \/ \E step : Walk(step)
<1>. USE DEF kind, Done, FailsTo, At
<1>1. Step => Walks \/ Turns
  <2>4. Open \/ Persist \/ Close \/ Retire => Walks
    BY DEF Open, Persist, Close, Retire, Walks
  <2>5. InstallProgram \/ Write \/ PutBack \/ Uninstall => Walks
    BY DEF InstallProgram, Write, PutBack, Uninstall, Walks
  <2>6. Again \/ Halt \/ Toggle \/ Record \/ Save => Walks
    BY DEF Again, Halt, Toggle, Record, Save, Walks
  <2>7. Create => Walks \/ Turns
    BY DEF Create, Walks, Turns, Undo, Failing
  <2>8. Test => Walks \/ Turns
    BY DEF Test, Walks, Turns, Undo, Failing
  <2>9. RestartService => Walks \/ Turns
    BY DEF RestartService, Walks, Turns, Undo, Failing
  <2>10. Verify => Walks \/ Turns
    BY DEF Verify, Walks, Turns, Undo, Failing
  <2>. QED
    BY <2>4, <2>5, <2>6, <2>7, <2>8, <2>9, <2>10 DEF Step
<1>. QED
  BY <1>1 DEF Walks, Walk

(* Each step of a removal keeps what the ones before it took away.         *)
LEMMA VanishingStep == TypeOK /\ Scripted /\ Lasting /\ Vanishing /\ [Next]_vars => Vanishing'
<1>. SUFFICES ASSUME TypeOK, Scripted, Lasting, Vanishing, [Next]_vars, op' = "remove" PROVE Vanishing'
  BY DEF Vanishing
<1>. USE DEF kind, history, service, firewall, record, panel, Done, FailsTo
<1>1. CASE Chooses
  <2>1. PICK o \in DOMAIN Menu : Begin(o)
    BY <1>1 DEF Chooses
  <2>2. o = "remove" /\ todo' = Menu[o].do
    BY <2>1 DEF Begin
  <2>3. Menu[o].asks = "nothing" /\ {"stop", "retire", "forget"} \subseteq Elems(Menu[o].do)
    BY <2>2, MenuSuits DEF Suits, Made, Fair, Removes
  <2>4. args' = {}
    BY <2>1, <2>3 DEF Begin, Asked
  <2>. QED
    BY <2>2, <2>3, <2>4 DEF Vanishing, Left
<1>2. CASE Ends
  BY <1>2 DEF Ends
<1>3. CASE Leave \/ ComesUp \/ UNCHANGED vars
  <2>1. UNCHANGED <<mgr, host, op, args, todo, open, saved, before>> /\ (op = "remove" => recorded' = recorded)
    BY <1>3 DEF Leave, ComesUp, vars, Idle
  <2>2. live \cup coming = {} => live' \cup coming' = {}
    BY <1>3 DEF Leave, ComesUp, vars
  <2>. QED
    BY <2>1, <2>2 DEF Vanishing, Left, Old
<1>4. CASE Turns
  BY <1>4, UndoMade DEF Turns
<1>5. ASSUME NEW step, Walk(step), Step PROVE Vanishing'
  <2>0. Step /\ At(step)
    BY <1>5 DEF Walk
  <2>1. ~Idle /\ op = "remove" /\ UNCHANGED <<mgr, host, op, args>> /\ Left = {step} \cup Left' /\ "stop" \notin Left'
    BY <1>5, Walking DEF Walk, Ahead
  <2>2. step \in Removing
    BY <1>5, <2>1, Walking, OptionFair DEF Fair, Removes, Backs
  <2>3. args = {}
    BY <2>1 DEF Vanishing
  <2>4. before' = before /\ Old' = Old
    BY <2>0, <2>1, <2>2, Deeds DEF Removing, Old, Halt, Uninstall, Retire, Persist, Record, Save
  <2>5. CASE step = "stop"
    <3>1. live' = {} /\ coming' = {} /\ UNCHANGED <<open, saved, recorded>>
      BY <2>0, <2>5, Deeds DEF Halt, At
    <3>. QED
      BY <2>1, <2>4, <2>5, <3>1 DEF Vanishing
  <2>6. CASE step \in {"erase", "purge", "save"}
    <3>1. UNCHANGED <<live, coming, open, saved, recorded>>
      BY <2>0, <2>6, Deeds DEF Uninstall, Save
    <3>. QED
      BY <2>1, <2>4, <2>6, <3>1 DEF Vanishing
  <2>7. CASE step = "persist"
    <3>1. saved' \in {open, saved} /\ UNCHANGED <<live, coming, open, recorded>>
      BY <2>0, <2>7, Deeds DEF Persist, Saved, Persisted
    <3>. QED
      BY <2>1, <2>4, <2>7, <3>1 DEF Vanishing
  <2>8. CASE step = "retire"
    <3>1. Retire
      BY <2>0, <2>8, Deeds
    <3>2. (Closes(host) => (open' \cup saved') \cap Old = {}) /\ UNCHANGED <<live, coming, recorded>>
      BY <2>3, <3>1 DEF Retire, Saved, Closed, Persisted, Lasting
    <3>. QED
      BY <2>1, <2>4, <2>8, <3>2 DEF Vanishing
  <2>9. CASE step = "forget"
    <3>1. recorded' = {} /\ UNCHANGED <<live, coming, open, saved>>
      BY <2>0, <2>9, Deeds DEF Record, At
    <3>. QED
      BY <2>1, <2>4, <2>9, <3>1 DEF Vanishing
  <2>. QED
    BY <2>2, <2>5, <2>6, <2>7, <2>8, <2>9 DEF Removing
<1>6. Next => Ends \/ Chooses \/ Leave \/ ComesUp \/ Step
  BY DEF Next, Chooses, Ends, Finish, Hangup, Reboot, Dies
<1>. QED
  BY <1>1, <1>2, <1>3, <1>4, <1>5, <1>6, StepKinds

-----------------------------------------------------------------------------
(* A change that succeeds.                                                 *)

(* What a change asks for is never nothing.                                *)
LEMMA AskedSome ==
  ASSUME NEW asks \in Questions \ {"nothing", "on", "off"}
  PROVE  {} \notin Asked(asks)
  BY DEF Asked, Questions

(* Each step of a change that has not failed keeps what the ones before it *)
(* have done; none disturbs the service once it has been seen to listen.   *)
LEMMA ArrivingStep == TypeOK /\ Scripted /\ Lasting /\ Arriving /\ [Next]_vars => Arriving'
<1>. SUFFICES ASSUME TypeOK, Scripted, Lasting, Arriving, [Next]_vars, op' \in Changes, ~failed' PROVE Arriving'
  BY DEF Arriving
<1>. USE DEF kind, history, service, firewall, record, panel, Done, FailsTo
<1>0. mgr' = mgr
  BY Kinds DEF Chooses, Begin, Waits, Ends, Walks, Turns
<1>1. CASE Chooses
  <2>1. PICK o \in DOMAIN Menu : Begin(o)
    BY <1>1 DEF Chooses
  <2>2. o \in Changes /\ op' = o /\ todo' = Menu[o].do
    BY <2>1 DEF Begin
  <2>3. Fair(mgr, o, Menu[o].asks, Elems(Menu[o].do), Elems(Menu[o].test), Elems(Menu[o].restart),
          Elems(Menu[o].verify))
    BY MenuSuits DEF Suits, Made
  <2>4. Moves(mgr, o, Menu[o].asks, Elems(Menu[o].do)) /\ Menu[o].asks \in Questions
    BY <2>2, <2>3 DEF Fair
  <2>5. args' # {}
    BY <2>1, <2>4, AskedSome DEF Begin, Moves
  <2>6. Left' = Elems(Menu[o].do)
    BY <2>2 DEF Left
  <2>7. Check(mgr)' = Check(mgr)
    BY <1>0 DEF Check
  <2>. QED
    BY <2>2, <2>4, <2>5, <2>6, <2>7 DEF Arriving, Moves
<1>2. CASE Ends
  BY <1>2 DEF Ends, Changes
<1>3. CASE Leave \/ ComesUp \/ UNCHANGED vars
  <2>1. UNCHANGED <<mgr, host, op, args, todo, failed, open, saved, before>>
    BY <1>3 DEF Leave, ComesUp, vars
  <2>2. live \subseteq live' /\ recorded' = recorded
    BY <1>3 DEF Leave, ComesUp, vars, Idle, Changes
  <2>3. Old' = Old /\ Unchecked' = Unchecked /\ (Seen => Seen')
    BY <2>1, <2>2 DEF Old, Unchecked, Menu, Seen
  <2>. QED
    BY <2>1, <2>2, <2>3 DEF Arriving, Left, At, Check
<1>4. CASE Turns
  BY <1>4 DEF Turns
<1>5. ASSUME NEW step, Walk(step), Step PROVE Arriving'
  <2>0. Step /\ At(step) /\ UNCHANGED <<mgr, host, op, args, failed>> /\ op \in Changes /\ ~failed /\ todo' = Tail(todo)
    BY <1>5 DEF Walk
  <2>1. Left = {step} \cup Left' /\ Ahead(step, Left') /\ ~Idle /\ Menu' = Menu
    BY <1>5, Walking
  <2>2. Left \subseteq Changing(mgr)
    BY <1>5, <2>0, <2>1, Walking, OptionFair DEF Fair, Moves
  <2>3. Check(mgr)' = Check(mgr) /\ Check(mgr) \in {"verify", "verifyAny"}
    BY <2>0 DEF Check
  <2>4. step \in {"install", "open", "persist", "write", "append", "wipe", "create", "test", "restart", Check(mgr),
                  "record", "recordAlso", "save", "retire"}
    BY <2>1, <2>2 DEF Changing
  <2>5. before'.recorded = before.recorded
    <3>1. step = "install" => before'.recorded = before.recorded
      BY <2>0, Deeds DEF InstallProgram, TypeOK, Found
    <3>2. step # "install" => before' = before
      BY <2>0, <2>3, <2>4, Deeds DEF Open, Persist, Retire, Write, Create, Test, RestartService, Verify, Record, Save
    <3>. QED
      BY <3>1, <3>2
  <2>6. Old' = Old /\ Unchecked' = Unchecked /\ (live' = live => (Seen' <=> Seen))
    <3>1. Old' = Old
      BY <2>0, <2>5 DEF Old
    <3>2. Unchecked' = Unchecked
      BY <2>0, <2>1, <3>1 DEF Unchecked
    <3>. QED
      BY <2>0, <3>1, <3>2 DEF Seen
  <2>7. At("persist") <=> step = "persist"
    BY <2>0 DEF At
  <2>8. CASE step \in {"install", "write", "append", "wipe", "create", "test", "save"}
    <3>1. UNCHANGED <<live, open, saved, recorded>>
      BY <2>0, <2>8, Deeds DEF InstallProgram, Write, Create, Test, Save
    <3>. QED
      BY <2>0, <2>1, <2>3, <2>6, <2>7, <2>8, <3>1 DEF Arriving
  <2>9. CASE step = "open"
    <3>1. open' = open \cup args /\ saved' \in {open', saved} /\ UNCHANGED <<live, recorded>>
      BY <2>0, <2>9, Deeds DEF Open, Changed, Kept
    <3>2. At("persist")'
      BY <2>0, <2>9, Tails DEF Scripted, At
    <3>. QED
      BY <2>0, <2>1, <2>3, <2>6, <2>9, <3>1, <3>2 DEF Arriving
  <2>10. CASE step = "persist"
    <3>1. /\ saved' \in {open, saved} /\ (Durable(host) => saved' = open)
          /\ UNCHANGED <<live, open, recorded>>
      BY <2>0, <2>10, Deeds DEF Persist, Saved, Persisted
    <3>. QED
      BY <2>0, <2>1, <2>3, <2>6, <2>10, <3>1 DEF Arriving
  <2>11. CASE step = "restart"
    <3>1. UNCHANGED <<open, saved, recorded>>
      BY <2>0, <2>11, Deeds DEF RestartService
    <3>2. Check(mgr) \in Left'
      BY <2>1, <2>2, <2>11 DEF Ahead, Changing, Check
    <3>. QED
      BY <2>0, <2>1, <2>3, <2>6, <2>7, <2>11, <3>1, <3>2 DEF Arriving
  <2>12. CASE step = Check(mgr)
    <3>1. UNCHANGED <<live, open, saved, recorded>>
      BY <2>0, <2>3, <2>12, Deeds DEF Verify
    <3>2. Seen
      BY <2>0, <2>3, <2>12, Deeds DEF Verify, At, Check, Seen
    <3>3. step \notin {"open", "persist", "record", "recordAlso", "retire"}
      BY <2>3, <2>12
    <3>. QED
      BY <2>0, <2>1, <2>3, <2>6, <2>7, <3>1, <3>2, <3>3 DEF Arriving
  <2>13. CASE step \in {"record", "recordAlso"}
    <3>1. args \subseteq recorded' /\ UNCHANGED <<live, open, saved>>
      BY <2>0, <2>13, Deeds DEF Record, At
    <3>. QED
      BY <2>0, <2>1, <2>3, <2>6, <2>7, <2>13, <3>1 DEF Arriving
  <2>14. CASE step = "retire"
    <3>1. Retire /\ UNCHANGED <<live, recorded>>
      BY <2>0, <2>14, Deeds DEF Retire
    <3>2. Closes(host) => (open' \cup saved') \cap Old \subseteq args
      BY <3>1 DEF Retire, Saved, Closed, Persisted, Lasting
    <3>3. args \subseteq open => args \subseteq open' /\ (Durable(host) => args \subseteq saved' \/ saved' = saved)
      BY <3>1 DEF Retire, Saved, Closed, Persisted
    <3>. QED
      BY <2>0, <2>1, <2>3, <2>6, <2>7, <2>14, <3>1, <3>2, <3>3 DEF Arriving
  <2>. QED
    BY <2>4, <2>8, <2>9, <2>10, <2>11, <2>12, <2>13, <2>14
<1>6. Next => Ends \/ Chooses \/ Leave \/ ComesUp \/ Step
  BY DEF Next, Chooses, Ends, Finish, Hangup, Reboot, Dies
<1>. QED
  BY <1>1, <1>2, <1>3, <1>4, <1>5, <1>6, StepKinds

-----------------------------------------------------------------------------
(* A change that may still fail.                                           *)

(* Until its last check a change has touched nothing of the record, has    *)
(* closed no port, and has opened only those it was given.                 *)
LEMMA RevocableStep == TypeOK /\ Scripted /\ Revocable /\ [Next]_vars => Revocable'
<1>. SUFFICES ASSUME TypeOK, Scripted, Revocable, [Next]_vars, ~failed', Left' \cap Failing # {} PROVE Revocable'
  BY DEF Revocable
<1>. USE DEF kind, history, service, firewall, record, panel, Done, FailsTo
<1>1. CASE Chooses
  <2>1. PICK o \in DOMAIN Menu : Begin(o)
    BY <1>1 DEF Chooses
  <2>2. /\ before'.live = live /\ before'.open = open /\ before'.recorded = Current
        /\ recorded' = Current /\ UNCHANGED <<live, open>>
    BY <2>1 DEF Begin
  <2>. QED
    BY <2>2 DEF Revocable
<1>2. CASE Ends
  BY <1>2, NoSteps DEF Ends, Left
<1>3. CASE Leave \/ ComesUp \/ UNCHANGED vars
  <2>1. UNCHANGED <<mgr, op, args, todo, failed, open, before>>
    BY <1>3 DEF Leave, ComesUp, vars
  <2>2. Left' = Left /\ Doing' = Doing
    BY <2>1 DEF Left, Doing, Menu
  <2>3. ~Idle
    BY <2>2, NoSteps DEF Scripted, Left
  <2>4. live \subseteq live' /\ recorded' = recorded
    BY <1>3, <2>3 DEF Leave, ComesUp, vars
  <2>. QED
    BY <2>1, <2>2, <2>4 DEF Revocable
<1>4. CASE Turns
  BY <1>4 DEF Turns
<1>5. ASSUME NEW step, Walk(step), Step PROVE Revocable'
  <2>0. Step /\ At(step) /\ UNCHANGED <<mgr, op, args, failed>> /\ ~failed
    BY <1>5 DEF Walk
  <2>1. Left = {step} \cup Left' /\ Ahead(step, Left') /\ Doing' = Doing /\ step \in Doing
    BY <1>5, <2>0, Walking
  <2>2. /\ recorded = before.recorded
        /\ before.open \subseteq open /\ open \subseteq before.open \cup args
        /\ "open" \in Left \/ "open" \notin Doing => open = before.open
        /\ "test" \in Left => before.live \subseteq live
    BY <2>0, <2>1 DEF Revocable
  <2>3. step \in Steps \ Final
    <3>1. step \in Steps
      BY <2>0, Tails DEF Scripted, At
    <3>. QED
      BY <2>1, <3>1 DEF Ahead
  <2>4. CASE step = "open"
    <3>1. open' = open \cup args /\ UNCHANGED <<live, recorded, before>>
      BY <2>0, <2>4, Deeds DEF Open, Changed
    <3>2. "open" \notin Left'
      BY <2>1, <2>4 DEF Ahead
    <3>. QED
      BY <2>0, <2>1, <2>2, <2>4, <3>1, <3>2 DEF Revocable
  <2>5. CASE step = "install"
    <3>1. UNCHANGED <<live, open, recorded>>
      BY <2>0, <2>5, Deeds DEF InstallProgram
    <3>2. before'.live = before.live /\ before'.open = before.open /\ before'.recorded = before.recorded
      BY <2>0, <2>5, Deeds DEF InstallProgram, TypeOK, Found
    <3>. QED
      BY <2>0, <2>1, <2>2, <3>1, <3>2 DEF Revocable
  <2>6. CASE step \in Disturbing
    <3>1. UNCHANGED <<open, recorded, before>>
      BY <2>0, <2>6, Deeds DEF Disturbing, RestartService, Again, Halt
    <3>2. "test" \notin Left'
      BY <2>1, <2>6 DEF Ahead
    <3>. QED
      BY <2>0, <2>1, <2>2, <3>1, <3>2 DEF Revocable
  <2>7. CASE step \in {"persist", "write", "append", "rewrite", "cut", "edit", "wipe", "create", "test", "verify",
                       "verifyAny", "save", "toggle", "erase", "purge"} \cup PutBacks
    <3>1. Persist \/ Write \/ Create \/ Test \/ Verify \/ Save \/ Toggle \/ Uninstall \/ PutBack
      BY <2>0, <2>7, Deeds
    <3>2. UNCHANGED <<live, open, recorded, before>>
      BY <3>1 DEF Persist, Write, Create, Test, Verify, Save, Toggle, Uninstall, PutBack
    <3>. QED
      BY <2>0, <2>1, <2>2, <3>2 DEF Revocable
  <2>. QED
    BY <2>3, <2>4, <2>5, <2>6, <2>7 DEF Steps, Final, Disturbing, PutBacks
<1>6. Next => Ends \/ Chooses \/ Leave \/ ComesUp \/ Step
  BY DEF Next, Chooses, Ends, Finish, Hangup, Reboot, Dies
<1>. QED
  BY <1>1, <1>2, <1>3, <1>4, <1>5, <1>6, StepKinds

-----------------------------------------------------------------------------
(* A change that has failed.                                               *)

(* What a failed change says of the firewall, of the file and of what is   *)
(* served.                                                                 *)
Unopened ==
  /\ recorded = before.recorded
  /\ before.open \ args \subseteq open /\ open \subseteq before.open \cup args
  /\ Left \cap Closing # {} \/ (args \cap Old = {} => open \subseteq before.open \cup Stuck)
Restored == Left \cap PutBacks # {} \/ file = before.file
Served == Left \cap {"rerun", "again"} # {} \/ before.live \cap Serving(before.file) \subseteq live \cup coming

(* Where the file is put back, the option is one that claims to.           *)
LEMMA ClaimsFirst == PutsBack => Claims(mgr, op)
  BY DEF PutsBack, Claims, KeepsFirst

(* A check that fails: the state is still what the option found, up to the *)
(* rules it has added.                                                     *)
LEMMA TurnReturns ==
  ASSUME TypeOK, Scripted, Revocable, Turns, Step
  PROVE  Unopened' /\ (PutsBack => Restored' /\ Served')
<1>. USE DEF kind, history, service, firewall, record, panel, Done, FailsTo
<1>. DEFINE step == Head(todo)
            undo == Undo(step)
<1>1. At(step) /\ step \in Failing /\ todo' = undo /\ UNCHANGED <<mgr, host, op, args, before>>
  BY DEF Turns, At
<1>2. ~failed /\ ~Idle /\ step \in Doing
  BY UndoMade DEF Turns, Doing
<1>3. step # "create" => Undone(mgr, op, Doing, Elems(undo), step # "test")
  BY UndoMade DEF Turns, Doing
<1>4. Left = {step} \cup Elems(Tail(todo)) /\ Ahead(step, Elems(Tail(todo)))
  BY Tails DEF Turns, Scripted, Left
<1>. HIDE DEF step, undo
<1>5. UNCHANGED <<file, open, recorded>> /\ (step = "test" => UNCHANGED <<live, coming>>)
  <2>1. Create \/ Test \/ RestartService \/ Verify
    BY <1>1, Deeds DEF Failing
  <2>2. step = "test" => Test
    BY <1>1, Deeds
  <2>3. UNCHANGED <<file, open, recorded>>
    <3>1. Create => UNCHANGED <<file, open, recorded>>
      BY <1>1, <1>2 DEF Create, Turns
    <3>. QED
      BY <2>1, <3>1 DEF Test, RestartService, Verify
  <2>. QED
    BY <2>2, <2>3 DEF Test
<1>6. Left' = Elems(undo) /\ Old' = Old /\ (\A f : Serving(f)' = Serving(f))
  BY <1>1 DEF Left, Old, Serving
<1>7. /\ recorded = before.recorded
      /\ before.open \subseteq open /\ open \subseteq before.open \cup args
      /\ "open" \in Left \/ "open" \notin Doing => open = before.open
      /\ "test" \in Left => before.live \subseteq live
  BY <1>1, <1>2, <1>4 DEF Revocable
<1>8. Elems(undo) \cap Closing # {} \/ open = before.open
  <2>1. step = "create" => "open" \in Left
    BY <1>4 DEF Ahead
  <2>. QED
    BY <1>3, <1>7, <2>1 DEF Undone
<1>9. Unopened'
  BY <1>1, <1>5, <1>6, <1>7, <1>8 DEF Unopened, Stuck
<1>10. ASSUME PutsBack PROVE Restored' /\ Served'
  <2>1. Claims(mgr, op)
    BY <1>10, ClaimsFirst
  <2>2. step # "create"
    BY <1>2, <2>1, OptionFair DEF Fair
  <2>3. Restoring(mgr, Elems(undo)) /\ (step # "test" => Elems(undo) \cap {"rerun", "again"} # {})
    BY <1>3, <2>1, <2>2 DEF Undone
  <2>4. Restored'
    BY <1>6, <2>3 DEF Restored, Restoring
  <2>5. step = "test" => before'.live \subseteq live'
    BY <1>1, <1>4, <1>5, <1>7
  <2>6. Served'
    BY <1>6, <2>3, <2>5 DEF Served
  <2>. QED
    BY <2>4, <2>6
<1>. QED
  BY <1>9, <1>10

(* What the steps that put back put back.                                  *)
LEMMA BackAgain ==
  ASSUME TypeOK, Scripted, Grounded, Standing, failed, PutsBack, PutBack,
         NEW step \in PutBacks, Walk(step)
  PROVE  file' = before.file
<1>1. Claims(mgr, op) /\ ~Idle /\ step \in Left /\ At(step)
  BY ClaimsFirst, Walking DEF Walk
<1>2. /\ "putBack" \in Left => mgr \in KeepsFirst \cup {"wireguard"}
      /\ "putBackRecorded" \in Left => mgr = "dropbear"
  BY <1>1, Walking DEF Backs
<1>3. CASE step = "putBack"
  <2>1. mgr = "wireguard" => op = "move"
    BY DEF PutsBack
  <2>2. before.file # NoFile
    BY <1>1, <1>2, <1>3, <2>1 DEF PutsBack, Standing
  <2>. QED
    BY <1>1, <1>3, <2>2 DEF PutBack, At
<1>4. CASE step = "putBackOrErase"
  BY <1>1, <1>4 DEF PutBack, At
<1>5. CASE step = "putBackRecorded"
  <2>1. mgr = "dropbear"
    BY <1>1, <1>2, <1>5
  <2>2. before.file # NoFile /\ before.file.ports = before.recorded /\ Whole(before.file) /\ before.file \in Files
    BY <2>1 DEF PutsBack, Grounded, TypeOK, Found
  <2>3. before.file = [ports |-> before.recorded, good |-> before.file.good]
    BY <2>2 DEF Files
  <2>4. before.recorded # {} /\ before.file.good \in {before.recorded, {}}
    BY <2>2, <2>3 DEF Whole, NoFile
  <2>5. Old = before.recorded
    BY <2>4 DEF Old
  <2>6. file' = [ports |-> Old, good |-> IF before.file = NoFile \/ before.file.good # {} THEN Old ELSE {}]
    BY <1>1, <1>5 DEF PutBack, At
  <2>7. (IF before.file = NoFile \/ before.file.good # {} THEN Old ELSE {}) = before.file.good
    BY <2>2, <2>4, <2>5
  <2>. QED
    BY <2>3, <2>5, <2>6, <2>7
<1>. QED
  BY <1>3, <1>4, <1>5 DEF PutBacks

(* What was served comes up again once the old file is back.               *)
LEMMA ServedAgain ==
  ASSUME TypeOK, Standing, ~Idle, op # "remove", PutsBack, file = before.file, Again, At("rerun") \/ At("again")
  PROVE  before.live \cap Serving(before.file) \subseteq live' \cup coming'
<1>1. Serving(NoFile) = {}
  BY DEF Serving, NoFile
<1>2. Serving(file) \in SUBSET Ports /\ before.live \in SUBSET Ports
  BY FileTypes DEF TypeOK, Found
<1>3. CASE Restarted
  <2>1. mgr # "pysocks" /\ (before.live # {} => installed)
    BY DEF PutsBack, Standing
  <2>2. installed => Serving(file) \subseteq coming'
    <3>. DEFINE served == Serving(file)
    <3>1. coming' = (coming \ Ports) \cup (IF installed THEN served \cap Ports ELSE {})
      BY <1>3, <2>1 DEF Restarted
    <3>2. served \subseteq Ports
      BY <1>2
    <3>. HIDE DEF served
    <3>3. installed => served \subseteq coming'
      BY <3>1, <3>2
    <3>. QED
      BY <3>3 DEF served
  <2>3. Serving(before.file) = Serving(file)
    OBVIOUS
  <2>4. before.live = {} \/ Serving(before.file) \subseteq coming'
    BY <2>1, <2>2, <2>3
  <2>. QED
    BY <2>4
<1>4. ~At("bounce")
  BY DEF At
<1>. QED
  BY <1>1, <1>3, <1>4 DEF Again

(* What takes a change back takes back all of it, part by part.            *)
LEMMA ReturningStep == TypeOK /\ Scripted /\ Grounded /\ Standing /\ Revocable /\ Returning /\ [Next]_vars => Returning'
<1>. SUFFICES ASSUME TypeOK, Scripted, Grounded, Standing, Revocable, Returning, [Next]_vars, failed' PROVE Returning'
  BY DEF Returning
<1>. USE DEF kind, history, service, firewall, record, panel, Done, FailsTo
<1>0. (Returning <=> (failed => Unopened /\ (PutsBack => Restored /\ Served)))
      /\ (Returning' <=> (failed' => Unopened' /\ (PutsBack' => Restored' /\ Served')))
  BY DEF Returning, Unopened, Restored, Served
<1>1. CASE Chooses
  BY <1>1 DEF Chooses, Begin
<1>2. CASE Ends
  BY <1>2 DEF Ends
<1>3. CASE Leave
  BY <1>3 DEF Leave, Scripted
<1>4. CASE ComesUp \/ UNCHANGED vars
  <2>1. UNCHANGED <<mgr, host, op, args, todo, failed, file, open, recorded,
          before>> /\ live' \cup coming' = live \cup coming
    BY <1>4 DEF ComesUp, vars
  <2>2. Left' = Left /\ Old' = Old /\ (PutsBack' <=> PutsBack) /\ Serving(before.file)' = Serving(before.file)
    BY <2>1 DEF Left, Old, PutsBack, Serving
  <2>. QED
    BY <1>0, <2>1, <2>2 DEF Unopened, Stuck, Restored, Served
<1>5. CASE Step /\ Turns
  <2>1. PutsBack' <=> PutsBack
    BY <1>5 DEF Turns, PutsBack
  <2>. QED
    BY <1>0, <1>5, <2>1, TurnReturns
<1>6. ASSUME NEW step, Walk(step), Step PROVE Returning'
  <2>0. Step /\ At(step) /\ UNCHANGED <<mgr, host, op, args, failed>> /\ failed
    BY <1>6 DEF Walk
  <2>1. /\ ~Idle /\ Left = {step} \cup Left' /\ Ahead(step, Left')
        /\ op # "remove" /\ Left \subseteq Undoing /\ (Claims(mgr, op) => Left \cap {"halt", "cut"} = {})
    BY <1>6, <2>0, Walking DEF Backs
  <2>2. Unopened /\ (PutsBack => Restored /\ Served)
    BY <1>0, <2>0
  <2>3. step \in PutBacks \cup {"rerun", "again", "close", "closeNew", "persist", "halt", "cut"}
    BY <2>1 DEF Undoing
  <2>4. before' = before /\ recorded' = recorded
    BY <2>0, <2>3, Deeds DEF PutBacks, Closing, PutBack, Again, Close, Persist, Halt, Write
  <2>5. Old' = Old /\ (PutsBack' <=> PutsBack) /\ (\A f : Serving(f)' = Serving(f))
    BY <2>0, <2>4 DEF Old, PutsBack, Serving
  <2>6. CASE step \in Closing
    <3>1. /\ UNCHANGED <<file, live, coming>>
          /\ open' \in IF Closes(host) THEN {open \ args, open \ (args \ Old)} ELSE {open}
      BY <2>0, <2>6, Deeds DEF Close, Changed, Closed
    <3>2. Unopened'
      BY <2>0, <2>2, <2>4, <2>5, <3>1 DEF Unopened, Stuck
    <3>3. Left' \cap PutBacks = Left \cap PutBacks /\ Left' \cap {"rerun", "again"} = Left \cap {"rerun", "again"}
      BY <2>1, <2>6 DEF Closing, PutBacks
    <3>4. (Restored => Restored') /\ (Served => Served')
      BY <2>4, <2>5, <3>1, <3>3 DEF Restored, Served
    <3>. QED
      BY <1>0, <2>2, <2>5, <3>2, <3>4
  <2>7. ASSUME step \notin Closing PROVE Unopened'
    <3>1. open' = open
      BY <2>0, <2>3, <2>7, Deeds DEF PutBacks, Closing, PutBack, Again, Persist, Halt, Write
    <3>2. Left' \cap Closing = Left \cap Closing
      BY <2>1, <2>7
    <3>. QED
      BY <2>0, <2>2, <2>4, <2>5, <3>1, <3>2 DEF Unopened, Stuck
  <2>8. CASE step \in PutBacks
    <3>1. PutBack /\ UNCHANGED <<live, coming>>
      BY <2>0, <2>8, Deeds DEF PutBack
    <3>2. PutsBack => Restored'
      BY <1>6, <2>0, <2>4, <2>8, <3>1, BackAgain DEF Restored
    <3>3. Left' \cap {"rerun", "again"} = Left \cap {"rerun", "again"}
      BY <2>1, <2>8 DEF PutBacks
    <3>4. Served => Served'
      BY <2>4, <2>5, <3>1, <3>3 DEF Served
    <3>. QED
      BY <1>0, <2>2, <2>5, <2>7, <2>8, <3>2, <3>4 DEF PutBacks, Closing
  <2>9. CASE step \in {"rerun", "again"}
    <3>1. Again /\ file' = file
      BY <2>0, <2>9, Deeds DEF Again
    <3>2. Left \cap PutBacks = {} /\ Left' \cap PutBacks = {}
      BY <2>1, <2>9 DEF Ahead, PutBacks
    <3>3. PutsBack => file = before.file
      BY <2>2, <3>2 DEF Restored
    <3>4. PutsBack => Restored'
      BY <2>4, <3>1, <3>3 DEF Restored
    <3>5. PutsBack => Served'
      <4>1. PutsBack => before.live \cap Serving(before.file) \subseteq live' \cup coming'
        BY <2>0, <2>1, <2>9, <3>1, <3>3, ServedAgain
      <4>. QED
        BY <2>4, <2>5, <4>1 DEF Served
    <3>. QED
      BY <1>0, <2>5, <2>7, <2>9, <3>4, <3>5 DEF Closing
  <2>10. CASE step \in {"persist", "halt", "cut"}
    <3>1. step = "persist" => UNCHANGED <<file, live, coming>>
      BY <2>0, <2>10, Deeds DEF Persist
    <3>2. PutsBack => step = "persist"
      BY <2>1, <2>10, ClaimsFirst
    <3>3. Left' \cap PutBacks = Left \cap PutBacks /\ Left' \cap {"rerun", "again"} = Left \cap {"rerun", "again"}
      BY <2>1, <2>10 DEF PutBacks
    <3>4. PutsBack => Restored' /\ Served'
      BY <2>2, <2>4, <2>5, <3>1, <3>2, <3>3 DEF Restored, Served
    <3>. QED
      BY <1>0, <2>5, <2>7, <2>10, <3>4 DEF Closing
  <2>. QED
    BY <2>3, <2>6, <2>8, <2>9, <2>10 DEF Closing
<1>7. Next => Ends \/ Chooses \/ Leave \/ ComesUp \/ Step
  BY DEF Next, Chooses, Ends, Finish, Hangup, Reboot, Dies
<1>. QED
  BY <1>1, <1>2, <1>3, <1>4, <1>5, <1>6, <1>7, StepKinds

-----------------------------------------------------------------------------
(* The theorems.                                                           *)

(* The inductive invariant holds at first,                                 *)
LEMMA IStart == Init => IInv
<1>. SUFFICES ASSUME Init PROVE IInv
  OBVIOUS
<1>1. TypeOK /\ Scripted
  BY TypeStart, ScriptStart
<1>2. Grounded
  BY DEF Init, Grounded, Nothing, NoFile, Whole
<1>3. Left = {} /\ Idle /\ ~failed /\ op = "none"
  BY NoSteps DEF Init, Left, Idle
<1>4. Lasting /\ Standing /\ Vanishing /\ Arriving /\ Revocable /\ Returning
  BY <1>3 DEF Init, Lasting, Standing, Vanishing, Arriving, Changes, Revocable, Returning
<1>. QED
  BY <1>1, <1>2, <1>4 DEF IInv

(* every step keeps it,                                                    *)
LEMMA IStep == IInv /\ [Next]_vars => IInv'
<1>1. IInv /\ [Next]_vars => TypeOK' /\ Scripted' /\ Grounded' /\ Lasting' /\ Standing'
  BY TypeStep, ScriptStep, GroundedStep, LastingStep, StandingStep DEF IInv
<1>2. IInv /\ [Next]_vars => Vanishing' /\ Arriving' /\ Revocable' /\ Returning'
  BY VanishingStep, ArrivingStep, RevocableStep, ReturningStep DEF IInv
<1>. QED
  BY <1>1, <1>2 DEF IInv

(* and so it always holds.                                                 *)
LEMMA Invariant == Spec => []IInv
  BY IStart, IStep, PTL DEF Spec

(* Every variable keeps its type.                                          *)
THEOREM TypeCorrect == Spec => []TypeOK
<1>1. IInv => TypeOK
  BY DEF IInv
<1>. QED
  BY <1>1, Invariant, PTL

(* Where the host keeps rules, a reboot between two options shuts no port  *)
(* that is on record and open, but one an option that was cut off had just *)
(* opened and had not saved.                                               *)
THEOREM RebootHarmless == Spec => []RebootKeepsPorts
<1>1. IInv => RebootKeepsPorts
  <2>. SUFFICES ASSUME IInv, Idle, Durable(host) PROVE recorded \cap open \subseteq saved \cup torn
    BY DEF RebootKeepsPorts
  <2>1. ~At("persist")
    BY DEF IInv, Scripted, At
  <2>. QED
    BY <2>1 DEF IInv, Lasting
<1>. QED
  BY <1>1, Invariant, PTL

(* Of a service that was removed nothing listens, comes up, is on record   *)
(* or can be reached, now or after a reboot.                               *)
THEOREM RemovedIsGone == Spec => []RemovedWhole
<1>1. IInv => RemovedWhole
  <2>. SUFFICES ASSUME IInv, Ended(FALSE), op = "remove"
       PROVE live \cup coming = {} /\ recorded = {} /\ (Closes(host) => (open \cup saved) \cap Old = {})
    BY DEF RemovedWhole
  <2>1. Left = {}
    BY NoSteps DEF Ended, Left
  <2>. QED
    BY <2>1 DEF IInv, Vanishing
<1>. QED
  BY <1>1, Invariant, PTL

(* The ports of a change reported as a success are open, saved, on record  *)
(* and served, and those it left are closed.                               *)
THEOREM ChangeArrives == Spec => []ChangeReachable
<1>1. IInv => ChangeReachable
  <2>. SUFFICES ASSUME IInv, Ended(FALSE), op \in Changes PROVE ChangeReachable
    BY DEF ChangeReachable, Changes
  <2>1. Left = {} /\ ~At("persist") /\ ~failed
    BY NoSteps DEF Ended, Left, At
  <2>. QED
    BY <2>1 DEF IInv, Arriving, Seen, Check, ChangeReachable
<1>. QED
  BY <1>1, Invariant, PTL

(* A change reported as a failure leaves the record and the firewall as    *)
(* they were, if it was to other ports than the ones there, and where the  *)
(* manager puts the file back, the file; there, what was served is served  *)
(* again in any case.                                                      *)
THEOREM FailureReturns == Spec => []FailureUndone
<1>1. IInv => FailureUndone
  <2>. SUFFICES ASSUME IInv, Ended(TRUE) PROVE FailureUndone
    BY DEF FailureUndone
  <2>1. Left = {} /\ failed
    BY NoSteps DEF Ended, Left
  <2>. QED
    BY <2>1 DEF IInv, Returning, Stuck, FailureUndone
<1>. QED
  BY <1>1, Invariant, PTL

(* A step that shuts an old port in the middle of a change comes after the *)
(* new ones were seen to listen.                                           *)
LEMMA KeepsOrServes ==
  ASSUME IInv, [Next]_vars, ~Idle, op' = op, op \in {"move", "define"}, args \cap Old = {}
  PROVE  Old \cap open \subseteq open' \/ args \cap live # {}
<1>. USE DEF kind, history, service, firewall, record, panel, Done, FailsTo
<1>1. CASE (\E o \in DOMAIN Menu : Begin(o)) \/ Finish \/ Hangup \/ Reboot \/ Leave
  BY <1>1 DEF Begin, Finish, Hangup, Reboot, Dies, Leave, Idle
<1>2. CASE ComesUp \/ UNCHANGED vars
  BY <1>2 DEF ComesUp, vars
<1>3. CASE Open \/ Persist \/ Close
  BY <1>3 DEF Open, Persist, Close, Changed, Closed
<1>4. CASE InstallProgram \/ Write \/ Create \/ PutBack \/ Uninstall
  BY <1>4 DEF InstallProgram, Write, Create, PutBack, Uninstall
<1>5. CASE Test \/ RestartService \/ Verify \/ Again \/ Halt \/ Toggle \/ Record \/ Save
  BY <1>5 DEF Test, RestartService, Verify, Again, Halt, Toggle, Record, Save
<1>6. CASE Retire
  <2>1. Walk("retire")
    BY <1>6 DEF Retire, Walk
  <2>2. ~failed /\ Left' \cap Failing = {} /\ Left = {"retire"} \cup Left'
    BY <2>1, Walking DEF IInv, Backs, Undoing, PutBacks, Ahead, Final
  <2>3. Check(mgr) \in Failing /\ Check(mgr) # "retire"
    BY DEF Check, Failing
  <2>4. Check(mgr) \notin Left
    BY <2>2, <2>3
  <2>5. args # {} /\ Seen
    BY <2>2, <2>4 DEF IInv, Arriving, Changes
  <2>6. Menu[op].asks \notin Unsure
    BY OptionFair DEF IInv, Fair, Moves, Changes
  <2>. QED
    BY <2>5, <2>6 DEF Seen, Unchecked, Unsure
<1>. QED
  BY <1>1, <1>2, <1>3, <1>4, <1>5, <1>6 DEF Next, Step

(* In no change of ports is an old port shut before the new ones listen.   *)
THEOREM NeverLockedOut == Spec => NoLockout
<1>1. IInv /\ [Next]_vars =>
        [~Idle /\ op' = op /\ op \in {"move", "define"} /\ args \cap Old = {} =>
           Old \cap open \subseteq open' \/ args \cap live # {}]_vars
  BY KeepsOrServes
<1>. QED
  BY <1>1, Invariant, PTL DEF Spec, NoLockout
=============================================================================
