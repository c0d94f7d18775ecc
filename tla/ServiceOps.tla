----------------------------- MODULE ServiceOps -----------------------------
(***************************************************************************)
(* What the menus of the service managers do, step by step.                *)
(*                                                                         *)
(* Every protocol of the panel is one service with one configuration or    *)
(* unit file (Python SOCKS: one unit per port), and its manager is a menu  *)
(* whose options are short procedures over the same few steps: open a      *)
(* port, save the rules, write the file, restart, look whether the port    *)
(* came up, and take everything back if it did not.  The managers differ   *)
(* in the order, in what they check and in what they take back.            *)
(*                                                                         *)
(* An option is written here as the sequence of its steps and the sequence *)
(* that follows each check that fails; ServicePorts gives steps a meaning. *)
(* Reading options (show, logs, lists) change nothing and are left out.    *)
(*                                                                         *)
(* A definition named Mut... is a plausible slip in the one below it, kept *)
(* to show which property would notice; no menu uses it.                   *)
(***************************************************************************)
EXTENDS Sequences

(* An option: what it asks for, what it does, what follows a failed check. *)
Op(asks, do, undo) == [asks |-> asks, do |-> do, test |-> undo, restart |-> undo, verify |-> undo]

(* The options of a menu of its own, and of every menu.                    *)
Joined(own, rest) == [o \in DOMAIN own \cup DOMAIN rest |-> IF o \in DOMAIN own THEN own[o] ELSE rest[o]]

Opening == <<"open", "persist">>
Trying == <<"write", "restart", "verify">>

(* The two ways a failed _apply_..._safely reverts: a file where there was *)
(* none before stays, or is removed.  Only a file put back is restarted.   *)
Keeping == <<"putBack", "rerun">>
Erasing == <<"putBackOrErase", "rerun">>

(* Option 1 and the port change of most managers.                          *)
Setup(undo) == Op("port", <<"install">> \o Opening \o Trying \o <<"record">>, undo \o <<"close">>)
MutMove(asks, undo) == Op(asks, Opening \o <<"retire">> \o Trying \o <<"record">>, undo \o <<"close">>)
Move(asks, undo) == Op(asks, Opening \o Trying \o <<"record", "retire">>, undo \o <<"close">>)

(* A change of the content that keeps the port: passwords, redirections.   *)
Rewrite(asks, undo) == Op(asks, <<"rewrite", "restart", "verify">>, undo)

Edit(prepare) == Op("nothing", prepare \o <<"edit", "again">>, <<>>)
Removal(clean) == Op("nothing", <<"stop">> \o clean \o <<"retire", "forget">>, <<>>)
Start(prepare) == Op("off", prepare \o <<"again">>, <<>>)
Rest(clean) == [again |-> Op("nothing", <<"again">>, <<>>), stop |-> Op("on", <<"stop">>, <<>>),
                start |-> Start(<<>>), remove |-> Removal(clean)]
Deleting == <<"erase">>
Purging == <<"purge">>
Installing == <<"install">>

-----------------------------------------------------------------------------
(* Where an undone first setup removes what it wrote.                      *)

ShadowsocksSetup == Op("port", <<"install", "write", "open", "persist", "restart", "verify", "record">>,
                       <<"putBackOrErase", "again", "close">>)
Shadowsocks == Joined([setup |-> ShadowsocksSetup, edit |-> Edit(Installing), start |-> Start(Installing)], Rest(Purging))

BadvpnChange == [setup |-> Setup(Erasing), move |-> Move("portInstalled", Erasing)]
Badvpn == Joined(BadvpnChange, Rest(Deleting))

HysteriaChange == [setup |-> Setup(Erasing), auth |-> Rewrite("content", Erasing)]
HysteriaRest == [edit |-> Edit(<<>>), remove |-> Op("nothing", <<"stop", "erase", "retire", "persist", "forget">>, <<>>)]
Hysteria == Joined(HysteriaChange, Joined(HysteriaRest, Rest(Deleting)))

(* OpenVPN saves its record at once, the others when the menu is left.     *)
OpenvpnSetup == Op("port", Installing \o Opening \o Trying \o <<"record", "save">>, Erasing \o <<"close">>)
OpenvpnMove == Op("portOn", Opening \o Trying \o <<"record", "save", "retire">>, Erasing \o <<"close">>)
OpenvpnRemove == Op("nothing", <<"stop", "purge", "retire", "erase", "forget", "save">>, <<>>)
Openvpn == Joined([setup |-> OpenvpnSetup, move |-> OpenvpnMove, remove |-> OpenvpnRemove], Rest(Deleting))

(* The multiplexer asks nobody whether its port is in use.                 *)
BrokerSetup == Op("anyPort", Installing \o Opening \o Trying \o <<"record">>, Erasing \o <<"close">>)
Broker == Joined([setup |-> BrokerSetup], Rest(Purging))

-----------------------------------------------------------------------------
(* Where it leaves it.                                                     *)

ZivpnChange == [setup |-> Setup(Keeping), passwords |-> Rewrite("content", Keeping)]
Zivpn == Joined(ZivpnChange, Joined([edit |-> Edit(<<>>)], Rest(Deleting)))

Hysteria1Setup == Setup(Keeping)
Hysteria1 == Joined([setup |-> Hysteria1Setup], Rest(Deleting))

(* squid -k parse comes first; a file that fails it is put back and squid  *)
(* is not even restarted.                                                  *)
Tested(op) == [op EXCEPT !.test = <<"putBack", "close">>]
SquidChange ==
  LET trying == <<"write", "test", "restart", "verify", "record">>
  IN [setup |-> Tested(Op("port", Installing \o Opening \o trying, Keeping \o <<"close">>)),
      move |-> Tested(Op("portOn", Opening \o trying \o <<"retire">>, Keeping \o <<"close">>))]
SquidRest == [edit |-> Op("nothing", <<"install", "edit", "test", "again">>, <<>>),
              again |-> Op("nothing", <<"test", "again">>, <<>>), start |-> Start(Installing)]
Squid == Joined(SquidChange, Joined(SquidRest, Rest(Purging)))

WebsocketChange == [setup |-> Setup(Keeping), move |-> Move("portOn", Keeping)]
Websocket == Joined(WebsocketChange, Rest(Deleting))

WsEproChange == [setup |-> Setup(Keeping), move |-> [Setup(Keeping) EXCEPT !.do = @ \o <<"retire">>]]
WsEpro == Joined(WsEproChange, Rest(Deleting))

SshgoChange == [setup |-> Setup(Keeping), move |-> [Move("portOn", Keeping) EXCEPT !.do = Installing \o @]]
Sshgo == Joined(SshgoChange, Rest(Deleting))

AtkenChange == [setup |-> Setup(Keeping), move |-> Move("portOn", Keeping)]
Atken == Joined(AtkenChange, Rest(Deleting))

(* Several ports at once: only those not served before are closed again.   *)
CheckuserChange ==
  LET undo == Keeping \o <<"closeNew">>
  IN [setup |-> Op("ports", Installing \o Opening \o Trying \o <<"record">>, undo),
      move |-> Op("portsOn", Opening \o Trying \o <<"record", "retire">>, undo)]
Checkuser == Joined(CheckuserChange, Rest(Deleting))

-----------------------------------------------------------------------------
(* Where little or nothing is undone.                                      *)

(* The old database is gone before the new one is made, which may fail.    *)
FilebrowserSetup == Op("port", <<"install", "wipe", "create", "open", "persist", "restart", "verify", "record">>, <<"close">>)
FilebrowserMove == Op("portOn", <<"create", "open", "persist", "restart", "verify", "record", "retire">>, <<"close">>)
FilebrowserPassword == Op("content", <<"bounce">>, <<>>)
Filebrowser == Joined([setup |-> FilebrowserSetup, move |-> FilebrowserMove, password |-> FilebrowserPassword], Rest(Deleting))

WireguardSetup == Op("port", <<"install", "write", "open", "persist", "restart", "verify", "record">>, <<"close">>)
WireguardMove == Op("portOn", <<"write", "open", "persist", "restart", "verify", "record", "retire">>,
                    <<"close", "putBack", "again">>)
WireguardRemove == Op("nothing", <<"stop", "retire", "erase", "forget">>, <<>>)
Wireguard == Joined([setup |-> WireguardSetup, move |-> WireguardMove, remove |-> WireguardRemove], Rest(Deleting))

-----------------------------------------------------------------------------
(* Where one file, or one set of units, serves several ports.              *)

StunnelChange ==
  [add |-> Op("portUnlisted", Installing \o Opening \o <<"append", "restart", "verify", "recordAlso">>,
              <<"putBackOrErase", "again", "close">>),
   redirect |-> Rewrite("listed", <<"putBackOrErase", "again">>),
   drop |-> Op("listed", <<"cut", "restart", "close", "persist", "recordFile">>, <<>>)]
StunnelRest == [edit |-> Edit(Installing), start |-> Start(Installing),
                remove |-> Op("nothing", <<"stop", "purge", "retire", "persist", "forget", "erase">>, <<>>)]
Stunnel == Joined(StunnelChange, Joined(StunnelRest, Rest(Deleting)))

(* A restart that fails leaves the unit; a port that stays shut takes it.  *)
PysocksChange ==
  [add |-> [asks |-> "portUnknown", do |-> Installing \o Opening \o <<"append", "restart", "verify", "recordAlso">>,
            test |-> <<>>, restart |-> <<"close">>, verify |-> <<"halt", "cut", "close">>],
   redirect |-> [asks |-> "known", do |-> <<"rewrite", "restart", "verify">>,
                 test |-> <<>>, restart |-> <<>>, verify |-> <<"halt", "cut">>]]
PysocksRest == [drop |-> Op("known", <<"halt", "cut", "close", "persist", "unrecord">>, <<>>),
                remove |-> Op("nothing", <<"stop", "erase", "retire", "persist", "forget">>, <<>>)]
Pysocks == Joined(PysocksChange, PysocksRest)

(* Any port of the list that comes up is a success.  The rollback writes   *)
(* the recorded list, not the one the file had.                            *)
DropbearApply(asks) == Op(asks, <<"install", "write", "open", "persist", "restart", "verifyAny", "retire", "persist", "record">>,
                          <<"putBackRecorded", "again", "closeNew", "persist">>)
DropbearChange == [define |-> DropbearApply("list"), add |-> DropbearApply("oneMore"), drop |-> DropbearApply("oneLess")]
DropbearRest == [edit |-> Edit(Installing), start |-> Start(Installing), startup |-> Op("nothing", <<"toggle">>, <<>>)]
Dropbear == Joined(DropbearChange, Joined(DropbearRest, Rest(Purging)))

-----------------------------------------------------------------------------
Menus == [shadowsocks |-> Shadowsocks, badvpn |-> Badvpn, hysteria |-> Hysteria, openvpn |-> Openvpn,
          sslh |-> Broker, zivpn |-> Zivpn, hysteria1 |-> Hysteria1, squid |-> Squid, websocket |-> Websocket,
          ws_epro |-> WsEpro, sshgo |-> Sshgo, atken |-> Atken, checkuser |-> Checkuser,
          filebrowser |-> Filebrowser, wireguard |-> Wireguard, stunnel |-> Stunnel, pysocks |-> Pysocks,
          dropbear |-> Dropbear]
Managers == DOMAIN Menus

(* Those that set their record to the ports of the file at every turn of   *)
(* the menu.                                                               *)
Reconciling == {"websocket", "ws_epro", "sshgo", "atken", "checkuser"}
=============================================================================
