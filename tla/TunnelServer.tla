---------------------------- MODULE TunnelServer ----------------------------
(***************************************************************************)
(* The ICMP and UDP Droid tunnels (icmp_manager.py, udp_droid_manager.py): *)
(* a server that takes customers' packets out of frames and back, and the  *)
(* gate that tells it who is behind an address.  The two tunnels differ in *)
(* what carries a frame, which is left out.                                *)
(*                                                                         *)
(* The gate writes down which customer has unlocked an address, and lets   *)
(* the address through the firewall for a while; the server reads that     *)
(* file, and the customer's password, once for every session it hears of,  *)
(* and derives the key of the session from it.  Any frame a device could   *)
(* have sent may arrive at any time, again and in any order, or never.     *)
(*                                                                         *)
(* Nothing is assumed of what a device does: it may number two packets     *)
(* alike, after it has started again, say, use another's session number,   *)
(* and write any source address into a packet.                             *)
(*                                                                         *)
(* Left out: an emptied file and two rules for one address, which are in   *)
(* PsiphonGate, and the installation.                                      *)
(*                                                                         *)
(* A definition named Mut... is a plausible slip in the one below it, kept *)
(* to show which property would notice; no action uses it.                 *)
(***************************************************************************)
EXTENDS Naturals, Sequences, FiniteSets

CONSTANTS
  Users, Ips,
  Sessions,     \* the session numbers devices choose
  Packets,      \* what devices may send
  Sender,       \* whose device sends it
  Pid, Count,   \* the number of a packet, and of its fragments
  Source,       \* the source address in it, or NoAddress if it is no IPv4 packet
  MaxPassword,  \* passwords a customer may have, from 1
  NoUser, NoAddress, NoPacket

ASSUME PacketsAssumption ==
  /\ Sender \in [Packets -> Users] /\ Count \in [Packets -> Nat \ {0}]
  /\ NoPacket \notin Packets
ASSUME NoUserAssumption == NoUser \notin Users
ASSUME PasswordAssumption == MaxPassword \in Nat

VARIABLES
  password,  \* the store: the password of each customer, or 0
  gate,      \* gate_state.json: who has unlocked an address
  rules,     \* the addresses the chain of the firewall accepts
  request,   \* grant_access of a customer: the address and the file it read
  cleanup,   \* the cleanup's copy of the file
  clients,   \* the server's sessions, in the order they were created
  latest,    \* the one heard of last
  unlocked,  \* who has ever unlocked which address (history)
  used       \* under whose key a packet from which source has come (history)

gating == <<gate, rules, request, cleanup, unlocked>>
server == <<clients, latest, used>>
vars == <<password, gating, server>>

Somebody == Users \cup {NoUser}
States == [Ips -> Somebody]
Keys == [user : Users, password : 1..MaxPassword]
Names == [ip : Ips, session : Sessions]
NoName == [ip |-> "none", session |-> "none"]
NoFile == [ip |-> "none", copy |-> "none"]

\* With no session there is none that was heard of last.
ASSUME NoNameAssumption == NoName \notin Names

Numbers == {Pid[p] : p \in Packets}
Counts == {Count[p] : p \in Packets}
Addresses == {Source[p] : p \in Packets} \ {NoAddress}

\* What a frame carries: a piece of a packet, or nothing.
Fragments(p) == {[packet |-> p, index |-> i] : i \in 1..Count[p]}
Blanks(k) == {[packet |-> NoPacket, index |-> i] : i \in 1..k}
Without(f, x) == [y \in DOMAIN f \ {x} |-> f[y]]
With(f, x, v) == [y \in DOMAIN f \cup {x} |-> IF y = x THEN v ELSE f[y]]
Empty == [x \in {} |-> 0]

Init ==
  /\ password = [u \in Users |-> 0]
  /\ gate = [ip \in Ips |-> NoUser] /\ rules = {} /\ unlocked = {}
  /\ request = [u \in Users |-> NoFile] /\ cleanup = NoFile
  /\ clients = <<>> /\ latest = NoName /\ used = {}

-----------------------------------------------------------------------------
(* The administrator creates an account, again with another password, or   *)
(* removes it.                                                             *)
SetPassword(u) ==
  /\ \E w \in 0..MaxPassword \ {password[u]} : password' = [password EXCEPT ![u] = w]
  /\ UNCHANGED <<gating, server>>

(* The gate: a thread per request, which checks the password with PAM,     *)
(* lets the address through, and then reads and saves the file.            *)
Unlock(u, ip) ==
  /\ password[u] # 0 /\ request[u] = NoFile
  /\ rules' = rules \cup {ip} /\ unlocked' = unlocked \cup {<<u, ip>>}
  /\ request' = [request EXCEPT ![u] = [ip |-> ip, copy |-> gate]]
  /\ UNCHANGED <<password, gate, cleanup, server>>

SaveGrant(u) ==
  /\ request[u] # NoFile
  /\ gate' = [request[u].copy EXCEPT ![request[u].ip] = u]
  /\ request' = [request EXCEPT ![u] = NoFile]
  /\ UNCHANGED <<password, rules, cleanup, unlocked, server>>

(* The cleanup, every minute: the entries whose time is over.              *)
CleanupLoad ==
  /\ cleanup = NoFile
  /\ \E due \in SUBSET {ip \in Ips : gate[ip] # NoUser} \ {{}} :
       /\ rules' = rules \ due
       /\ cleanup' = [ip |-> "all", copy |-> [ip \in Ips |-> IF ip \in due THEN NoUser ELSE gate[ip]]]
  /\ UNCHANGED <<password, gate, request, unlocked, server>>

CleanupSave ==
  /\ cleanup # NoFile /\ gate' = cleanup.copy /\ cleanup' = NoFile
  /\ UNCHANGED <<password, rules, request, unlocked, server>>

-----------------------------------------------------------------------------
(* The server.                                                             *)

(* get_or_create_client: the key is that of whoever has unlocked the       *)
(* address at the first frame, and stays.                                  *)
Heard(name) == {i \in DOMAIN clients : clients[i].name = name}
MutKnown(ip) == gate[ip] # NoUser
Known(ip) == gate[ip] # NoUser /\ password[gate[ip]] # 0
KeyOf(name) == [user |-> gate[name.ip], password |-> password[gate[name.ip]]]
NewClient(name) == [name |-> name, key |-> KeyOf(name), address |-> NoAddress, parts |-> Empty]

Entry(name) ==
  IF Heard(name) # {} THEN clients[CHOOSE i \in Heard(name) : TRUE] ELSE NewClient(name)

(* A fragment joins those of its number if they are to be as many, and     *)
(* starts anew if not; it takes the place of the one that had its index.   *)
Gathered(c, n, k, f) ==
  LET old == IF n \in DOMAIN c.parts /\ c.parts[n].count = k THEN c.parts[n].got ELSE {}
  IN {g \in old : g.index # f.index} \cup {f}
Complete(c, n, k, f) == Cardinality(Gathered(c, n, k, f)) = k

(* The source address that is read from fragments once they are complete:  *)
(* that of their packet; none from nothing at all; and whatever the bytes  *)
(* say, or none, where they are of two packets or some are empty.          *)
SourcesOf(S) ==
  IF \E p \in Packets : S = Fragments(p) THEN {Source[p] : p \in {q \in Packets : S = Fragments(q)}}
  ELSE IF \A f \in S : f.packet = NoPacket THEN {NoAddress}
  ELSE Addresses \cup {NoAddress}

(* What waits, and the address the session has learnt: a complete packet   *)
(* is passed on if it is valid, and otherwise dropped.                     *)
Accepted(c, n, k, f) ==
  IF Complete(c, n, k, f)
  THEN {[c EXCEPT !.address = IF a = NoAddress THEN @ ELSE a,
                  !.parts = IF k = 1 THEN @ ELSE Without(@, n)] :
          a \in SourcesOf(Gathered(c, n, k, f))}
  ELSE {[c EXCEPT !.parts = With(@, n, [count |-> k, got |-> Gathered(c, n, k, f)])]}

(* handle_frame, which leaves the session as new.                          *)
Received(name, new) ==
  /\ clients' = IF Heard(name) # {} THEN [clients EXCEPT ![CHOOSE i \in Heard(name) : TRUE] = new]
                ELSE Append(clients, new)
  /\ latest' = name
  /\ used' = IF new.address = NoAddress THEN used ELSE used \cup {<<new.key.user, new.address>>}
  /\ UNCHANGED <<password, gating>>

(* What cannot be decrypted, and what is no data, is only heard.  A piece  *)
(* of a packet needs the key; an empty one is not decrypted.               *)
Expected(name) == name.ip \in rules /\ (Heard(name) # {} \/ Known(name.ip))
MutOpened(c, key) == c.key.password = key.password
Opened(c, key) == c.key = key
Frame ==
  \E name \in {x \in Names : Expected(x)} :
    \/ Received(name, Entry(name))
    \/ \E p \in Packets, w \in 1..MaxPassword :
         /\ Opened(Entry(name), [user |-> Sender[p], password |-> w])
         /\ \E f \in Fragments(p) : \E new \in Accepted(Entry(name), Pid[p], Count[p], f) :
              Received(name, new)
    \/ \E n \in Numbers, k \in Counts : \E f \in Blanks(k) :
         \E new \in Accepted(Entry(name), n, k, f) : Received(name, new)

(* Fragments older than 15 seconds are dropped, however many have come     *)
(* since the first; so is a session that was silent for two minutes, the   *)
(* one heard of last never before another.                                 *)
PartsExpire(i, n) ==
  /\ i \in DOMAIN clients /\ n \in DOMAIN clients[i].parts
  /\ clients' = [clients EXCEPT ![i].parts = Without(@, n)]
  /\ UNCHANGED <<password, gating, latest, used>>

SessionExpires ==
  /\ \E i \in DOMAIN clients :
       /\ clients[i].name # latest \/ Len(clients) = 1
       /\ clients' = SubSeq(clients, 1, i - 1) \o SubSeq(clients, i + 1, Len(clients))
       /\ latest' = IF Len(clients) = 1 THEN NoName ELSE latest
  /\ UNCHANGED <<password, gating, used>>

(* Option 4 of the menu, or systemd after an exception (sendto on a socket *)
(* that does not block): the server starts without a session.              *)
Restart ==
  /\ clients # <<>> /\ clients' = <<>> /\ latest' = NoName
  /\ UNCHANGED <<password, gating, used>>

(* Where a packet that returns for an address is sent: to the first session *)
(* that has learnt it, or else to the one heard of last.                   *)
Learnt(a) == {i \in DOMAIN clients : clients[i].address = a}
MutRecipient(a) == latest
Recipient(a) ==
  IF Learnt(a) = {} THEN latest
  ELSE clients[CHOOSE i \in Learnt(a) : \A j \in Learnt(a) : i <= j].name

Next ==
  \/ \E u \in Users : SetPassword(u) \/ SaveGrant(u) \/ (\E ip \in Ips : Unlock(u, ip))
  \/ CleanupLoad \/ CleanupSave
  \/ Frame \/ SessionExpires \/ Restart
  \/ \E i \in 1..Cardinality(Names), n \in Numbers : PartsExpire(i, n)

Spec == Init /\ [][Next]_vars

-----------------------------------------------------------------------------
Pieces == (UNION {Fragments(p) : p \in Packets}) \cup (UNION {Blanks(k) : k \in Counts})
Parts == [count : Counts, got : SUBSET Pieces]

(* Every variable keeps its type, and a session has one entry.             *)
TypeOK ==
  /\ password \in [Users -> 0..MaxPassword] /\ gate \in States /\ rules \subseteq Ips
  /\ \A u \in Users : request[u] = NoFile \/ request[u] \in [ip : Ips, copy : States]
  /\ cleanup = NoFile \/ cleanup \in [ip : {"all"}, copy : States]
  /\ \A i \in DOMAIN clients :
       LET c == clients[i]
       IN /\ c.name \in Names /\ c.key \in Keys /\ c.address \in Addresses \cup {NoAddress}
          /\ DOMAIN c.parts \subseteq Numbers /\ \A n \in DOMAIN c.parts : c.parts[n] \in Parts
          /\ \A j \in DOMAIN clients : clients[j].name = c.name => i = j
  /\ latest = NoName <=> clients = <<>>
  /\ latest # NoName => Heard(latest) # {}
  /\ unlocked \subseteq Users \X Ips /\ used \subseteq Users \X Addresses

(* Whatever is lost, repeated or overtaken, and whichever session numbers  *)
(* devices choose, fragments that wait together are of packets of one      *)
(* customer with one number and as many fragments, each at a place of its  *)
(* own, or empty ones, and some place is free.  The code looks at nothing  *)
(* more: if a device uses a number twice, a packet may be of two.          *)
PiecesOf(u, n, k) ==
  Blanks(k) \cup (UNION {Fragments(p) : p \in {q \in Packets : Sender[q] = u /\ Pid[q] = n /\ Count[q] = k}})
OneSendersFragments ==
  \A i \in DOMAIN clients : \A n \in DOMAIN clients[i].parts :
    LET a == clients[i].parts[n]
    IN /\ a.got \subseteq PiecesOf(clients[i].key.user, n, a.count)
       /\ \A f, g \in a.got : f.index = g.index => f = g
       /\ Cardinality(a.got) < a.count

(* A packet that returns for an address some session has learnt goes to a  *)
(* customer from whom a packet with that source address has come, at a     *)
(* place the customer has unlocked, and can be read there alone, however   *)
(* requests and cleanup overlap.  So it is the right one unless two        *)
(* customers use one address: nothing in the server gives them different   *)
(* ones.                                                                   *)
KnownServed ==
  \A a \in Addresses : Learnt(a) # {} =>
    \A i \in Heard(Recipient(a)) :
      LET c == clients[i] IN <<c.key.user, a>> \in used /\ <<c.key.user, c.name.ip>> \in unlocked
=============================================================================
