------------------------- MODULE TunnelServerProofs -------------------------
(***************************************************************************)
(* TypeOK, OneSendersFragments and KnownServed of TunnelServer, for every  *)
(* number of customers, addresses, sessions and packets.                   *)
(*                                                                         *)
(* Most of what happens to the server's table happens to one session of    *)
(* it, so what the table promises is stated of a session (Session, Whole,  *)
(* Keyed), and the lemmas about Accepted carry the argument.               *)
(***************************************************************************)
EXTENDS TunnelServer, FiniteSetTheorems, SequenceTheorems, WellFoundedInduction, TLAPS

USE DEF gating, server

-----------------------------------------------------------------------------
(* The inductive invariant.                                                *)

Waiting == UNION {[D -> Parts] : D \in SUBSET Numbers}
Session == [name : Names, key : Keys, address : Addresses \cup {NoAddress}, parts : Waiting]

(* The fragments of a session that wait under a number are pieces of what  *)
(* its customer sends, each has a place of its own, and a place is free.   *)
Placed(S) == \A f, g \in S : f.index = g.index => f = g
Part(u, n, a) ==
  a.got \subseteq PiecesOf(u, n, a.count) /\ Placed(a.got) /\ Cardinality(a.got) < a.count
Whole(c) == \A n \in DOMAIN c.parts : Part(c.key.user, n, c.parts[n])

(* The key of a session is that of a customer who has unlocked its place,  *)
(* and it has learnt an address only from a packet under that key.         *)
Keyed(c) ==
  /\ <<c.key.user, c.name.ip>> \in unlocked
  /\ c.address # NoAddress => <<c.key.user, c.address>> \in used

GateTypes ==
  /\ password \in [Users -> 0..MaxPassword] /\ gate \in States /\ rules \subseteq Ips
  /\ \A u \in Users : request[u] = NoFile \/ request[u] \in [ip : Ips, copy : States]
  /\ request = [u \in Users |-> request[u]]
  /\ cleanup = NoFile \/ cleanup \in [ip : {"all"}, copy : States]
  /\ unlocked \subseteq Users \X Ips

Distinct == \A i, j \in DOMAIN clients : clients[i].name = clients[j].name => i = j
ServerTypes ==
  /\ clients \in Seq(Session) /\ latest \in Names \cup {NoName} /\ Distinct
  /\ used \subseteq Users \X Addresses
LastHeard == (latest = NoName <=> clients = <<>>) /\ (latest # NoName => Heard(latest) # {})
Types == GateTypes /\ ServerTypes /\ LastHeard

(* Every copy of the gate's file names only who has unlocked.              *)
Vouched(file) == \A ip \in Ips : file[ip] # NoUser => <<file[ip], ip>> \in unlocked
Granted ==
  /\ Vouched(gate)
  /\ \A u \in Users : request[u] # NoFile => Vouched(request[u].copy) /\ <<u, request[u].ip>> \in unlocked
  /\ cleanup # NoFile => Vouched(cleanup.copy)

IInv == Types /\ Granted /\ \A i \in DOMAIN clients : Whole(clients[i]) /\ Keyed(clients[i])

-----------------------------------------------------------------------------
(* Lemmas about the operators.                                             *)

(* A set of numbers that is not empty has a least one.                     *)
LEMMA LeastOf ==
  ASSUME NEW S \in SUBSET Nat, S # {}
  PROVE  \E m \in S : \A n \in S : m <= n
<1> DEFINE R == OpToRel(<, Nat)
<1>1. R = {ss \in Nat \X Nat : ss[1] < ss[2]}
  BY DEF OpToRel
<1>2. IsWellFoundedOn(R, Nat)
  BY NatLessThanWellFounded, Zenon
<1> HIDE DEF R
<1>3. PICK m \in S : \A n \in S : ~ (<<n, m>> \in R)
  BY <1>2, WFMin, Zenon
<1>4. ASSUME NEW n \in S PROVE m <= n
  <2>1. <<n, m>> \notin R /\ <<n, m>> \in Nat \X Nat
    BY <1>3
  <2>2. ~ (n < m)
    BY <1>1, <2>1
  <2>3. QED
    BY <2>2
<1>5. QED
  BY <1>4

(* As many fragments fit as there are places.                              *)
LEMMA PlacesBound ==
  ASSUME NEW k \in Nat, NEW S, Placed(S), \A f \in S : f.index \in 1..k
  PROVE  Cardinality(S) \in Nat /\ Cardinality(S) <= k
<1> DEFINE at == [f \in S |-> f.index]
<1>1. at \in Injection(S, 1..k)
  BY DEF Placed, Injection, IsInjective
<1>2. IsFiniteSet(1..k) /\ Cardinality(1..k) = k
  BY FS_Interval
<1> HIDE DEF at
<1>3. IsFiniteSet(S) /\ Cardinality(S) <= Cardinality(1..k)
  BY <1>1, <1>2, FS_Injection
<1>4. QED
  BY <1>2, <1>3, FS_CardinalityType

(* An empty fragment is a piece.                                           *)
LEMMA BlanksType ==
  ASSUME NEW j \in Counts
  PROVE  Blanks(j) \subseteq Pieces
<1>1. Blanks(j) \subseteq UNION {Blanks(h) : h \in Counts}
  OBVIOUS
<1>2. QED
  BY <1>1, Zenon DEF Pieces

(* A piece has a place among those of its packet.                          *)
LEMMA PiecesType ==
  ASSUME NEW u, NEW n, NEW k \in Counts
  PROVE  /\ k \in Nat \ {0} /\ PiecesOf(u, n, k) \subseteq Pieces
         /\ \A f \in PiecesOf(u, n, k) : f.index \in 1..k
<1>1. k \in Nat \ {0}
  BY PacketsAssumption DEF Counts
<1> DEFINE mine == {q \in Packets : Sender[q] = u /\ Pid[q] = n /\ Count[q] = k}
           carried == UNION {Fragments(p) : p \in Packets}
           empty == UNION {Blanks(j) : j \in Counts}
<1>2. UNION {Fragments(p) : p \in mine} \subseteq carried
  OBVIOUS
<1>3. Blanks(k) \subseteq empty
  OBVIOUS
<1>4. PiecesOf(u, n, k) \subseteq Pieces
  <2>1. PiecesOf(u, n, k) = Blanks(k) \cup UNION {Fragments(p) : p \in mine}
    BY DEF PiecesOf, mine
  <2>2. ASSUME NEW f \in carried PROVE f \in Pieces
    <3>1. PICK p \in Packets : f \in Fragments(p)
      BY <2>2, Zenon
    <3>2. QED
      BY <3>1 DEF Pieces
  <2>3. ASSUME NEW f \in empty PROVE f \in Pieces
    <3>1. PICK j \in Counts : f \in Blanks(j)
      BY <2>3, Zenon
    <3>2. QED
      BY <3>1, BlanksType
  <2> HIDE DEF mine, carried, empty
  <2>4. QED
    BY <1>2, <1>3, <2>1, <2>2, <2>3
<1>5. ASSUME NEW f \in PiecesOf(u, n, k) PROVE f.index \in 1..k
  <2>1. CASE f \in Blanks(k)
    BY <2>1 DEF Blanks
  <2>2. ASSUME NEW p \in Packets, Count[p] = k, f \in Fragments(p)
        PROVE  f.index \in 1..k
    <3>1. PICK i \in 1..Count[p] : f = [packet |-> p, index |-> i]
      BY <2>2, Zenon DEF Fragments
    <3>2. QED
      BY <2>2, <3>1
  <2>3. f \in Blanks(k) \/ \E p \in mine : f \in Fragments(p)
    BY <1>5, Zenon DEF PiecesOf, mine
  <2>4. QED
    BY <2>1, <2>2, <2>3 DEF mine
<1>6. QED
  BY <1>1, <1>4, <1>5

(* A place in a sequence without its place i is a place in the whole one.  *)
LEMMA FromPlace ==
  ASSUME NEW n \in Nat, NEW i \in 1..n, NEW j \in 1..(n - 1)
  PROVE  (IF j < i THEN j ELSE j + 1) \in 1..n
<1>1. CASE j < i
  BY <1>1
<1>2. CASE ~ (j < i)
  BY <1>2
<1>3. QED
  BY <1>1, <1>2

(* What waits in a session stays what may wait when a number is dropped,   *)
LEMMA WaitingLess ==
  ASSUME NEW parts \in Waiting, NEW n \in Numbers
  PROVE  /\ Without(parts, n) \in Waiting
         /\ DOMAIN Without(parts, n) = DOMAIN parts \ {n}
         /\ \A m \in DOMAIN parts \ {n} : Without(parts, n)[m] = parts[m]
<1>1. PICK D \in SUBSET Numbers : parts \in [D -> Parts]
  BY DEF Waiting
<1>2. Without(parts, n) \in [D \ {n} -> Parts] /\ D \ {n} \in SUBSET Numbers
  BY <1>1 DEF Without
<1>3. Without(parts, n) \in Waiting
  BY <1>2 DEF Waiting
<1>4. QED
  BY <1>3 DEF Without

(* and when it is given fragments.                                         *)
Extends(more, parts, n, part) ==
  /\ more \in Waiting /\ DOMAIN more = DOMAIN parts \cup {n} /\ more[n] = part
  /\ \A m \in DOMAIN parts \ {n} : more[m] = parts[m]
LEMMA WaitingMore ==
  ASSUME NEW parts \in Waiting, NEW n \in Numbers, NEW part \in Parts
  PROVE  Extends(With(parts, n, part), parts, n, part)
<1>1. PICK D \in SUBSET Numbers : parts \in [D -> Parts]
  BY DEF Waiting
<1>2. With(parts, n, part) \in [D \cup {n} -> Parts] /\ D \cup {n} \in SUBSET Numbers
  BY <1>1 DEF With
<1>3. With(parts, n, part) \in Waiting
  BY <1>2 DEF Waiting
<1>4. QED
  BY <1>3 DEF With, Extends

(* What a piece is gathered with fits it, and falls short of the packet if *)
(* that is not complete.                                                   *)
LEMMA Gathering ==
  ASSUME NEW c \in Session, Whole(c), NEW n, NEW k \in Counts,
         NEW f \in PiecesOf(c.key.user, n, k)
  PROVE  /\ Gathered(c, n, k, f) \subseteq PiecesOf(c.key.user, n, k)
         /\ Placed(Gathered(c, n, k, f))
         /\ ~Complete(c, n, k, f) => Cardinality(Gathered(c, n, k, f)) < k
<1> DEFINE old == IF n \in DOMAIN c.parts /\ c.parts[n].count = k THEN c.parts[n].got ELSE {}
           all == {g \in old : g.index # f.index} \cup {f}
<1>1. old \subseteq PiecesOf(c.key.user, n, k) /\ Placed(old)
  BY DEF Whole, Part, Placed
<1>2. Gathered(c, n, k, f) = all
  BY DEF Gathered
<1> HIDE DEF old
<1>3. all \subseteq PiecesOf(c.key.user, n, k) /\ Placed(all)
  BY <1>1 DEF Placed
<1> HIDE DEF all
<1>4. \A g \in all : g.index \in 1..k
  BY <1>3, PiecesType
<1>5. k \in Nat
  BY PiecesType
<1>6. Cardinality(all) \in Nat /\ Cardinality(all) <= k
  BY <1>3, <1>4, <1>5, PlacesBound
<1>7. QED
  BY <1>2, <1>3, <1>5, <1>6 DEF Complete

(* What is read as a source address is one, or none.                       *)
LEMMA SourcesType ==
  ASSUME NEW S, NEW a \in SourcesOf(S)
  PROVE  a \in Addresses \cup {NoAddress}
BY DEF SourcesOf, Addresses

(* A session that has accepted a piece keeps its name, its key and what it *)
(* promises.                                                               *)
LEMMA Accepting ==
  ASSUME NEW c \in Session, Whole(c), NEW n \in Numbers, NEW k \in Counts,
         NEW f \in PiecesOf(c.key.user, n, k), NEW new \in Accepted(c, n, k, f)
  PROVE  new \in Session /\ new.name = c.name /\ new.key = c.key /\ Whole(new)
<1> DEFINE part == [count |-> k, got |-> Gathered(c, n, k, f)]
           rest == Without(c.parts, n)
           more == With(c.parts, n, part)
<1>1. c.parts \in Waiting
  BY DEF Session
<1>2. part \in Parts
  BY Gathering, PiecesType DEF Parts
<1>3. /\ rest \in Waiting /\ DOMAIN rest = DOMAIN c.parts \ {n}
      /\ \A m \in DOMAIN c.parts \ {n} : rest[m] = c.parts[m]
  BY <1>1, WaitingLess, Zenon
<1>4. ~Complete(c, n, k, f) => Part(c.key.user, n, part)
  BY Gathering DEF Part
<1> HIDE DEF part, rest
<1>5. Extends(more, c.parts, n, part)
  <2> DEFINE old == c.parts
  <2>1. old \in Waiting
    BY <1>1
  <2> HIDE DEF old
  <2>2. Extends(With(old, n, part), old, n, part)
    BY <2>1, <1>2, WaitingMore
  <2>3. QED
    BY <2>2 DEF old
<1> HIDE DEF more
<1>6. CASE Complete(c, n, k, f)
  <2>1. PICK a \in SourcesOf(Gathered(c, n, k, f)) :
          new = [c EXCEPT !.address = IF a = NoAddress THEN @ ELSE a,
                          !.parts = IF k = 1 THEN @ ELSE Without(@, n)]
    BY <1>6 DEF Accepted
  <2>2. PICK address : address = IF a = NoAddress THEN c.address ELSE a
    OBVIOUS
  <2>3. PICK parts : parts = IF k = 1 THEN c.parts ELSE rest
    OBVIOUS
  <2>4. new = [c EXCEPT !.address = address, !.parts = parts]
    BY <2>1, <2>2, <2>3 DEF rest
  <2>5. address \in Addresses \cup {NoAddress} /\ parts \in Waiting
    BY <1>1, <1>3, <2>2, <2>3, SourcesType DEF Session
  <2>6. /\ new \in Session /\ new.name = c.name /\ new.key = c.key /\ new.parts = parts
    BY <2>4, <2>5 DEF Session
  <2>7. \A m \in DOMAIN parts : m \in DOMAIN c.parts /\ parts[m] = c.parts[m]
    BY <1>3, <2>3
  <2>8. QED
    BY <2>6, <2>7 DEF Whole
<1>7. CASE ~Complete(c, n, k, f)
  <2>1. new = [c EXCEPT !.parts = more]
    BY <1>7 DEF Accepted, more, part
  <2>2. more \in Waiting
    BY <1>5 DEF Extends
  <2>3. new \in Session /\ new.name = c.name /\ new.key = c.key /\ new.parts = more
    BY <2>1, <2>2 DEF Session
  <2>4. ASSUME NEW m \in DOMAIN more PROVE Part(c.key.user, m, more[m])
    <3>1. CASE m = n
      BY <1>4, <1>5, <1>7, <3>1 DEF Extends
    <3>2. CASE m # n
      BY <1>5, <2>4, <3>2 DEF Extends, Whole
    <3>3. QED
      BY <3>1, <3>2
  <2>5. QED
    BY <2>3, <2>4 DEF Whole
<1>8. QED
  BY <1>6, <1>7

(* A sequence without one of its elements.                                 *)
Dropped(s, i) == SubSeq(s, 1, i - 1) \o SubSeq(s, i + 1, Len(s))

(* It is shorter by one, and those behind it move up.                      *)
LEMMA Removal ==
  ASSUME NEW S, NEW s \in Seq(S), NEW i \in 1..Len(s)
  PROVE  /\ Dropped(s, i) \in Seq(S) /\ Len(Dropped(s, i)) = Len(s) - 1
         /\ \A j \in 1..(Len(s) - 1) : Dropped(s, i)[j] = s[IF j < i THEN j ELSE j + 1]
<1> DEFINE r == Dropped(s, i)
           a == SubSeq(s, 1, i - 1)
           b == SubSeq(s, i + 1, Len(s))
<1>1. Len(s) \in Nat /\ i \in Int /\ \A j \in 1..Len(s) : s[j] \in S
  OBVIOUS
<1>2. /\ a \in Seq(S) /\ Len(a) = i - 1
      /\ \A j \in 1..(i - 1) : a[j] = s[j]
  <2>1. 1 \in Int /\ i - 1 \in Int /\ \A j \in 1..(i - 1) : s[j] \in S
    BY <1>1
  <2>2. /\ a \in Seq(S)
        /\ Len(a) = IF 1 <= i - 1 THEN (i - 1) - 1 + 1 ELSE 0
        /\ \A j \in 1..((i - 1) - 1 + 1) : a[j] = s[1 + j - 1]
    BY <2>1, SubSeqProperties
  <2>3. QED
    BY <1>1, <2>2
<1>3. /\ b \in Seq(S) /\ Len(b) = Len(s) - i
      /\ \A j \in 1..(Len(s) - i) : b[j] = s[i + j]
  <2>1. i + 1 \in Int /\ Len(s) \in Int /\ \A j \in (i + 1)..Len(s) : s[j] \in S
    BY <1>1
  <2>2. /\ b \in Seq(S)
        /\ Len(b) = IF i + 1 <= Len(s) THEN Len(s) - (i + 1) + 1 ELSE 0
        /\ \A j \in 1..(Len(s) - (i + 1) + 1) : b[j] = s[(i + 1) + j - 1]
    BY <2>1, SubSeqProperties
  <2>3. QED
    BY <1>1, <2>2
<1> HIDE DEF a, b
<1>4. /\ r \in Seq(S) /\ Len(r) = Len(a) + Len(b)
      /\ \A j \in 1..(Len(a) + Len(b)) : r[j] = IF j <= Len(a) THEN a[j] ELSE b[j - Len(a)]
  BY <1>2, <1>3, ConcatProperties DEF a, b, Dropped
<1> HIDE DEF r
<1>5. Len(r) = Len(s) - 1
  BY <1>1, <1>2, <1>3, <1>4
<1>6. ASSUME NEW j \in 1..Len(r) PROVE r[j] = s[IF j < i THEN j ELSE j + 1]
  <2>1. CASE j < i
    BY <1>1, <1>2, <1>4, <1>5, <2>1
  <2>2. CASE ~ (j < i)
    <3>1. j - (i - 1) \in 1..(Len(s) - i) /\ i + (j - (i - 1)) = j + 1
      BY <1>1, <1>5, <2>2
    <3>2. r[j] = b[j - (i - 1)]
      BY <1>1, <1>2, <1>3, <1>4, <1>5, <2>2
    <3>3. QED
      BY <1>3, <2>2, <3>1, <3>2
  <2>3. QED
    BY <2>1, <2>2
<1>7. QED
  BY <1>4, <1>5, <1>6 DEF r

-----------------------------------------------------------------------------
(* Every step keeps the invariant.                                         *)

LEMMA InitInv == Init => IInv
<1> SUFFICES ASSUME Init PROVE IInv
  OBVIOUS
<1> USE DEF Init
<1>1. GateTypes
  <2>1. password \in [Users -> 0..MaxPassword]
    BY PasswordAssumption
  <2>2. QED
    BY <2>1 DEF GateTypes, States, Somebody
<1>2. clients \in Seq(Session) /\ DOMAIN clients = {}
  OBVIOUS
<1>3. ServerTypes /\ LastHeard
  BY <1>2 DEF ServerTypes, Distinct, LastHeard
<1>4. Granted
  BY DEF Granted, Vouched
<1>5. QED
  BY <1>1, <1>2, <1>3, <1>4 DEF IInv, Types

(* What a session promises, it promises whoever else unlocks an address.   *)
LEMMA ServerIdle ==
  ASSUME IInv, UNCHANGED server, unlocked \subseteq unlocked'
  PROVE  /\ ServerTypes' /\ LastHeard'
         /\ \A i \in DOMAIN clients' : Whole(clients'[i]) /\ Keyed(clients[i])'
<1>1. ServerTypes'
  BY DEF IInv, Types, ServerTypes, Distinct
<1>2. LastHeard'
  BY DEF IInv, Types, LastHeard, Heard
<1>3. ASSUME NEW i \in DOMAIN clients' PROVE Whole(clients'[i]) /\ Keyed(clients[i])'
  BY DEF IInv, Keyed
<1>4. QED
  BY <1>1, <1>2, <1>3

LEMMA SetPasswordStep ==
  ASSUME IInv, NEW u \in Users, SetPassword(u)
  PROVE  IInv'
<1> USE DEF SetPassword
<1>1. GateTypes'
  <2>1. password' \in [Users -> 0..MaxPassword]
    BY DEF IInv, Types, GateTypes
  <2>2. QED
    BY <2>1 DEF IInv, Types, GateTypes
<1>2. Granted'
  BY DEF IInv, Granted, Vouched
<1>3. QED
  BY <1>1, <1>2, ServerIdle DEF IInv, Types

LEMMA UnlockStep ==
  ASSUME IInv, NEW u \in Users, NEW ip \in Ips, Unlock(u, ip)
  PROVE  IInv'
<1> USE DEF Unlock
<1>1. /\ unlocked \subseteq unlocked' /\ <<u, ip>> \in unlocked'
      /\ request'[u] = [ip |-> ip, copy |-> gate]
      /\ \A v \in Users \ {u} : request'[v] = request[v]
  BY DEF IInv, Types, GateTypes
<1>2. GateTypes'
  <2>1. rules' \subseteq Ips /\ unlocked' \subseteq Users \X Ips
    BY DEF IInv, Types, GateTypes
  <2>2. request'[u] \in [ip : Ips, copy : States]
    BY <1>1 DEF IInv, Types, GateTypes
  <2>3. request' = [v \in Users |-> request'[v]]
    BY DEF IInv, Types, GateTypes
  <2>4. QED
    BY <1>1, <2>1, <2>2, <2>3 DEF IInv, Types, GateTypes
<1>3. Granted'
  <2>1. ASSUME NEW file, Vouched(file) PROVE Vouched(file)'
    BY <1>1, <2>1 DEF Vouched
  <2>2. Vouched(gate)' /\ (cleanup' # NoFile => Vouched(cleanup.copy)')
    BY <1>1 DEF IInv, Granted, Vouched
  <2>3. ASSUME NEW v \in Users, request'[v] # NoFile
        PROVE  Vouched(request[v].copy)' /\ <<v, request'[v].ip>> \in unlocked'
    <3>1. CASE v = u
      BY <1>1, <2>2, <3>1 DEF Vouched
    <3>2. CASE v # u
      BY <1>1, <2>3, <3>2 DEF IInv, Granted, Vouched
    <3>3. QED
      BY <3>1, <3>2
  <2>4. QED
    BY <2>2, <2>3 DEF Granted
<1>4. QED
  BY <1>1, <1>2, <1>3, ServerIdle DEF IInv, Types

LEMMA SaveGrantStep ==
  ASSUME IInv, NEW u \in Users, SaveGrant(u)
  PROVE  IInv'
<1> USE DEF SaveGrant
<1> DEFINE r == request[u]
<1>1. /\ r \in [ip : Ips, copy : States] /\ Vouched(r.copy) /\ <<u, r.ip>> \in unlocked
  BY DEF IInv, Types, GateTypes, Granted
<1>2. /\ request' = [request EXCEPT ![u] = NoFile] /\ gate' = [r.copy EXCEPT ![r.ip] = u]
      /\ request'[u] = NoFile /\ \A v \in Users \ {u} : request'[v] = request[v]
  BY DEF IInv, Types, GateTypes
<1> HIDE DEF r
<1>3. GateTypes'
  <2>1. gate' \in States
    BY <1>1, <1>2 DEF States, Somebody
  <2>2. request' = [v \in Users |-> request'[v]]
    BY <1>2 DEF IInv, Types, GateTypes
  <2>3. QED
    BY <1>2, <2>1, <2>2 DEF IInv, Types, GateTypes
<1>4. Granted'
  <2>1. Vouched(gate)'
    BY <1>1, <1>2 DEF Vouched, States
  <2>2. QED
    BY <1>2, <2>1 DEF IInv, Granted, Vouched
<1>5. QED
  BY <1>3, <1>4, ServerIdle DEF IInv, Types

LEMMA CleanupLoadStep ==
  ASSUME IInv, CleanupLoad
  PROVE  IInv'
<1>1. PICK due \in SUBSET Ips :
        /\ rules' = rules \ due
        /\ cleanup' = [ip |-> "all", copy |-> [ip \in Ips |-> IF ip \in due THEN NoUser ELSE gate[ip]]]
  BY DEF CleanupLoad
<1>2. UNCHANGED <<password, gate, request, unlocked, server>>
  BY DEF CleanupLoad
<1>3. GateTypes'
  <2>1. cleanup' \in [ip : {"all"}, copy : States]
    BY <1>1 DEF IInv, Types, GateTypes, States, Somebody
  <2>2. QED
    BY <1>1, <1>2, <2>1 DEF IInv, Types, GateTypes
<1>4. Granted'
  <2>1. Vouched(cleanup.copy)'
    BY <1>1, <1>2 DEF IInv, Granted, Vouched
  <2>2. QED
    BY <1>2, <2>1 DEF IInv, Granted, Vouched
<1>5. QED
  BY <1>2, <1>3, <1>4, ServerIdle DEF IInv, Types

LEMMA CleanupSaveStep ==
  ASSUME IInv, CleanupSave
  PROVE  IInv'
<1> USE DEF CleanupSave
<1>1. GateTypes'
  BY DEF IInv, Types, GateTypes
<1>2. Granted'
  BY DEF IInv, Granted, Vouched
<1>3. QED
  BY <1>1, <1>2, ServerIdle DEF IInv, Types

(* The gate stands still while the server works.                           *)
LEMMA GateIdle ==
  ASSUME IInv, UNCHANGED <<password, gating>>
  PROVE  GateTypes' /\ Granted'
BY DEF IInv, Types, GateTypes, Granted, Vouched

(* A session the server creates is that of whoever has the address.        *)
LEMMA Created ==
  ASSUME IInv, NEW name \in Names, Known(name.ip)
  PROVE  /\ NewClient(name) \in Session /\ NewClient(name).name = name
         /\ Whole(NewClient(name)) /\ Keyed(NewClient(name))
<1>1. name.ip \in Ips /\ gate[name.ip] \in Users
  BY DEF Known, IInv, Types, GateTypes, States, Somebody, Names
<1>2. password[gate[name.ip]] \in 1..MaxPassword
  BY <1>1, PasswordAssumption DEF Known, IInv, Types, GateTypes
<1>3. KeyOf(name) \in Keys /\ KeyOf(name).user = gate[name.ip]
  BY <1>1, <1>2 DEF KeyOf, Keys
<1>4. Empty \in Waiting /\ DOMAIN Empty = {}
  <2>1. Empty \in [{} -> Parts] /\ {} \in SUBSET Numbers
    BY DEF Empty
  <2>2. QED
    BY <2>1 DEF Waiting
<1>5. /\ NewClient(name) \in Session /\ NewClient(name).name = name
      /\ NewClient(name).key = KeyOf(name) /\ NewClient(name).address = NoAddress
      /\ NewClient(name).parts = Empty
  BY <1>3, <1>4 DEF NewClient, Session
<1>6. Whole(NewClient(name))
  BY <1>4, <1>5 DEF Whole
<1>7. Keyed(NewClient(name))
  BY <1>1, <1>3, <1>5 DEF Keyed, IInv, Granted, Vouched, Known
<1>8. QED
  BY <1>5, <1>6, <1>7

(* A session of the table gives way to another of its name.                *)
LEMMA Replaced ==
  ASSUME IInv, NEW i \in DOMAIN clients, NEW c \in Session, c.name = clients[i].name,
         Whole(c), Keyed(c)',
         clients' = [clients EXCEPT ![i] = c], used \subseteq used',
         UNCHANGED <<password, gating>>
  PROVE  /\ clients' \in Seq(Session) /\ clients' # <<>> /\ DOMAIN clients' = DOMAIN clients
         /\ \A j \in DOMAIN clients : clients'[j].name = clients[j].name
         /\ Distinct'
         /\ \A j \in DOMAIN clients' : Whole(clients'[j]) /\ Keyed(clients[j])'
<1>1. clients \in Seq(Session) /\ i \in 1..Len(clients)
  BY DEF IInv, Types, ServerTypes
<1>2. /\ clients' \in Seq(Session) /\ Len(clients') = Len(clients)
      /\ \A j \in 1..Len(clients) : clients'[j] = IF j = i THEN c ELSE clients[j]
  BY <1>1, ExceptSeq
<1>3. DOMAIN clients' = DOMAIN clients /\ clients' # <<>>
  BY <1>1, <1>2
<1>4. \A j \in DOMAIN clients : clients'[j].name = clients[j].name
  BY <1>1, <1>2
<1>5. Distinct'
  BY <1>3, <1>4 DEF IInv, Types, ServerTypes, Distinct
<1>6. ASSUME NEW j \in DOMAIN clients' PROVE Whole(clients'[j]) /\ Keyed(clients[j])'
  BY <1>1, <1>2, <1>3, <1>6 DEF IInv, Keyed
<1>7. QED
  BY <1>2, <1>3, <1>4, <1>5, <1>6

(* The entry of a session that is heard, old or new.                       *)
LEMMA EntryKept ==
  ASSUME IInv, NEW name \in Names, Expected(name)
  PROVE  /\ Entry(name) \in Session /\ Entry(name).name = name
         /\ Whole(Entry(name)) /\ Keyed(Entry(name))
<1>1. CASE Heard(name) # {}
  <2>1. PICK i \in DOMAIN clients : clients[i].name = name /\ Entry(name) = clients[i]
    BY <1>1 DEF Heard, Entry
  <2>2. clients[i] \in Session /\ Whole(clients[i]) /\ Keyed(clients[i])
    BY ElementOfSeq DEF IInv, Types, ServerTypes
  <2>3. QED
    BY <2>1, <2>2
<1>2. CASE Heard(name) = {}
  BY <1>2, Created DEF Expected, Entry
<1>3. QED
  BY <1>1, <1>2

LEMMA ReceivedStep ==
  ASSUME IInv, NEW name \in Names, NEW new \in Session, new.name = name, Whole(new),
         <<new.key.user, name.ip>> \in unlocked, Received(name, new)
  PROVE  IInv'
<1> DEFINE i == CHOOSE i \in Heard(name) : TRUE
<1>1. /\ clients' = IF Heard(name) # {} THEN [clients EXCEPT ![i] = new] ELSE Append(clients, new)
      /\ latest' = name /\ UNCHANGED <<password, gating>>
  BY DEF Received
<1>2. Heard(name) # {} => i \in DOMAIN clients /\ clients[i].name = name
  BY DEF Heard
<1>3. new.key.user \in Users /\ new.address \in Addresses \cup {NoAddress}
  BY DEF Session, Keys
<1>4. /\ used \subseteq used' /\ used' \subseteq Users \X Addresses
      /\ new.address # NoAddress => <<new.key.user, new.address>> \in used'
  BY <1>3 DEF Received, IInv, Types, ServerTypes
<1>5. Keyed(new)'
  BY <1>1, <1>4 DEF Keyed
<1> HIDE DEF i
<1>6. GateTypes' /\ Granted'
  BY <1>1, GateIdle
<1>7. CASE Heard(name) # {}
  <2>1. /\ clients' \in Seq(Session) /\ clients' # <<>> /\ DOMAIN clients' = DOMAIN clients
        /\ \A j \in DOMAIN clients : clients'[j].name = clients[j].name
        /\ Distinct'
        /\ \A j \in DOMAIN clients' : Whole(clients'[j]) /\ Keyed(clients[j])'
    BY <1>1, <1>2, <1>4, <1>5, <1>7, Replaced
  <2>2. ServerTypes'
    BY <1>1, <1>4, <2>1 DEF ServerTypes
  <2>3. LastHeard'
    BY <1>1, <1>2, <1>7, <2>1, NoNameAssumption DEF LastHeard, Heard
  <2>4. QED
    BY <1>6, <2>1, <2>2, <2>3 DEF IInv, Types
<1>8. CASE Heard(name) = {}
  <2> DEFINE n == Len(clients) + 1
  <2>1. clients \in Seq(Session) /\ clients' = Append(clients, new)
    BY <1>1, <1>8 DEF IInv, Types, ServerTypes
  <2>2. /\ clients' \in Seq(Session) /\ Len(clients') = n /\ clients'[n] = new
        /\ \A j \in 1..Len(clients) : clients'[j] = clients[j]
    BY <2>1, AppendProperties
  <2>3. Len(clients) \in Nat /\ DOMAIN clients = 1..Len(clients) /\ DOMAIN clients' = DOMAIN clients \cup {n}
    BY <2>1, <2>2
  <2> HIDE DEF n
  <2>4. \A j \in DOMAIN clients : clients[j].name # name
    BY <1>8 DEF Heard
  <2>5. Distinct'
    BY <2>2, <2>3, <2>4 DEF IInv, Types, ServerTypes, Distinct
  <2>6. ServerTypes'
    BY <1>1, <1>4, <2>2, <2>5 DEF ServerTypes
  <2>7. LastHeard'
    <3>1. n \in Heard(latest)'
      BY <1>1, <2>2, <2>3 DEF Heard
    <3>2. clients' # <<>>
      BY <2>2, <2>3 DEF n
    <3>3. QED
      BY <1>1, <3>1, <3>2, NoNameAssumption DEF LastHeard
  <2>8. ASSUME NEW j \in DOMAIN clients' PROVE Whole(clients'[j]) /\ Keyed(clients[j])'
    <3>1. CASE j = n
      BY <1>5, <2>2, <3>1 DEF Keyed
    <3>2. CASE j \in DOMAIN clients
      BY <1>1, <1>4, <2>2, <2>3, <3>2 DEF IInv, Keyed
    <3>3. QED
      BY <2>3, <2>8, <3>1, <3>2
  <2>9. QED
    BY <1>6, <2>6, <2>7, <2>8 DEF IInv, Types
<1>9. QED
  BY <1>7, <1>8

LEMMA FrameStep ==
  ASSUME IInv, Frame
  PROVE  IInv'
<1>1. PICK name \in {x \in Names : Expected(x)} :
        \/ Received(name, Entry(name))
        \/ \E p \in Packets, w \in 1..MaxPassword :
             /\ Opened(Entry(name), [user |-> Sender[p], password |-> w])
             /\ \E f \in Fragments(p) : \E new \in Accepted(Entry(name), Pid[p], Count[p], f) :
                  Received(name, new)
        \/ \E n \in Numbers, k \in Counts : \E f \in Blanks(k) :
             \E new \in Accepted(Entry(name), n, k, f) : Received(name, new)
  BY DEF Frame
<1>2. PICK c : c = Entry(name)
  OBVIOUS
<1>3. /\ c \in Session /\ c.name = name /\ Whole(c)
      /\ <<c.key.user, name.ip>> \in unlocked
  BY <1>2, EntryKept DEF Keyed
<1>4. CASE Received(name, c)
  BY <1>3, <1>4, ReceivedStep
<1>5. ASSUME NEW n \in Numbers, NEW k \in Counts, NEW f \in PiecesOf(c.key.user, n, k),
             NEW new \in Accepted(c, n, k, f), Received(name, new)
      PROVE  IInv'
  <2>1. new \in Session /\ new.name = c.name /\ new.key = c.key /\ Whole(new)
    BY <1>3, Accepting
  <2>2. QED
    BY <1>3, <1>5, <2>1, ReceivedStep
<1>6. CASE \E p \in Packets, w \in 1..MaxPassword :
             /\ Opened(c, [user |-> Sender[p], password |-> w])
             /\ \E f \in Fragments(p) : \E new \in Accepted(c, Pid[p], Count[p], f) :
                  Received(name, new)
  <2>1. PICK p \in Packets, w \in 1..MaxPassword :
          /\ Opened(c, [user |-> Sender[p], password |-> w])
          /\ \E f \in Fragments(p) : \E new \in Accepted(c, Pid[p], Count[p], f) :
               Received(name, new)
    BY <1>6
  <2>2. c.key.user = Sender[p] /\ Pid[p] \in Numbers /\ Count[p] \in Counts
    BY <2>1 DEF Opened, Numbers, Counts
  <2>3. Fragments(p) \subseteq PiecesOf(c.key.user, Pid[p], Count[p])
    BY <2>2 DEF PiecesOf
  <2>4. QED
    BY <1>5, <2>1, <2>2, <2>3
<1>7. CASE \E n \in Numbers, k \in Counts : \E f \in Blanks(k) :
             \E new \in Accepted(c, n, k, f) : Received(name, new)
  BY <1>5, <1>7 DEF PiecesOf
<1>8. QED
  BY <1>1, <1>2, <1>4, <1>6, <1>7

LEMMA PartsExpireStep ==
  ASSUME IInv, NEW i, NEW n \in Numbers, PartsExpire(i, n)
  PROVE  IInv'
<1> DEFINE c == clients[i]
           rest == Without(c.parts, n)
           left == [c EXCEPT !.parts = rest]
<1>1. /\ i \in DOMAIN clients /\ clients' = [clients EXCEPT ![i] = left]
      /\ UNCHANGED <<password, gating, latest, used>>
  BY DEF PartsExpire
<1>2. c \in Session /\ Whole(c) /\ Keyed(c)
  BY <1>1, ElementOfSeq DEF IInv, Types, ServerTypes
<1> HIDE DEF c
<1>3. /\ rest \in Waiting /\ DOMAIN rest = DOMAIN c.parts \ {n}
      /\ \A m \in DOMAIN c.parts \ {n} : rest[m] = c.parts[m]
  <2> DEFINE parts == c.parts
  <2>1. parts \in Waiting
    BY <1>2 DEF Session
  <2> HIDE DEF parts
  <2>2. /\ Without(parts, n) \in Waiting
        /\ DOMAIN Without(parts, n) = DOMAIN parts \ {n}
        /\ \A m \in DOMAIN parts \ {n} : Without(parts, n)[m] = parts[m]
    BY <2>1, WaitingLess
  <2>3. QED
    BY <2>2 DEF parts
<1> HIDE DEF rest
<1>4. /\ left \in Session /\ left.name = c.name /\ left.key = c.key
      /\ left.address = c.address /\ left.parts = rest
  BY <1>2, <1>3 DEF Session
<1>5. PICK new : new = left
  OBVIOUS
<1> HIDE DEF left
<1>6. Whole(new) /\ Keyed(new)'
  BY <1>1, <1>2, <1>3, <1>4, <1>5 DEF Whole, Keyed
<1>7. /\ clients' \in Seq(Session) /\ clients' # <<>> /\ DOMAIN clients' = DOMAIN clients
      /\ \A j \in DOMAIN clients : clients'[j].name = clients[j].name
      /\ Distinct'
      /\ \A j \in DOMAIN clients' : Whole(clients'[j]) /\ Keyed(clients[j])'
  BY <1>1, <1>4, <1>5, <1>6, Replaced DEF c
<1>8. ServerTypes'
  BY <1>1, <1>7 DEF IInv, Types, ServerTypes
<1>9. LastHeard'
  BY <1>1, <1>7 DEF IInv, Types, LastHeard, Heard
<1>10. QED
  BY <1>1, <1>7, <1>8, <1>9, GateIdle DEF IInv, Types

LEMMA SessionExpiresStep ==
  ASSUME IInv, SessionExpires
  PROVE  IInv'
<1>1. PICK i \in DOMAIN clients :
        /\ clients[i].name # latest \/ Len(clients) = 1
        /\ clients' = Dropped(clients, i)
        /\ latest' = IF Len(clients) = 1 THEN NoName ELSE latest
  BY DEF SessionExpires, Dropped
<1>2. UNCHANGED <<password, gating, used>>
  BY DEF SessionExpires
<1> DEFINE n == Len(clients)
           from(j) == IF j < i THEN j ELSE j + 1
<1>3. clients \in Seq(Session) /\ n \in Nat /\ i \in 1..n /\ DOMAIN clients = 1..n
  BY DEF IInv, Types, ServerTypes
<1>4. /\ clients' \in Seq(Session) /\ Len(clients') = n - 1 /\ DOMAIN clients' = 1..(n - 1)
      /\ \A j \in 1..(n - 1) : clients'[j] = clients[from(j)]
  <2>1. /\ Dropped(clients, i) \in Seq(Session) /\ Len(Dropped(clients, i)) = n - 1
        /\ \A j \in 1..(n - 1) : Dropped(clients, i)[j] = clients[from(j)]
    BY <1>3, Removal
  <2> HIDE DEF n, from
  <2>2. QED
    BY <1>1, <1>3, <2>1
<1>5. \A j \in 1..(n - 1) : from(j) \in 1..n
  BY <1>3, FromPlace, Zenon
<1>6. \A j \in 1..n \ {i} : \E k \in 1..(n - 1) : j = from(k)
  <2>1. ASSUME NEW j \in 1..n, j < i PROVE j \in 1..(n - 1) /\ j = from(j)
    BY <1>3, <2>1
  <2>2. ASSUME NEW j \in 1..n, j > i PROVE j - 1 \in 1..(n - 1) /\ j = from(j - 1)
    BY <1>3, <2>2
  <2>3. \A j \in 1..n \ {i} : j < i \/ j > i
    BY <1>3
  <2>4. QED
    BY <2>1, <2>2, <2>3
<1>7. \A j, k \in 1..(n - 1) : from(j) = from(k) => j = k
  BY <1>3
<1> HIDE DEF n, from
<1>8. ServerTypes'
  <2>1. latest' \in Names \cup {NoName}
    BY <1>1 DEF IInv, Types, ServerTypes
  <2>2. Distinct'
    BY <1>3, <1>4, <1>5, <1>7 DEF IInv, Types, ServerTypes, Distinct
  <2>3. QED
    BY <1>2, <1>4, <2>1, <2>2 DEF IInv, Types, ServerTypes
<1>9. LastHeard'
  <2>1. CASE n = 1
    <3>1. clients' = <<>>
      BY <1>4, <2>1
    <3>2. QED
      BY <1>1, <2>1, <3>1 DEF LastHeard, n
  <2>2. CASE n # 1
    <3>1. latest' = latest /\ clients[i].name # latest
      BY <1>1, <2>2 DEF n
    <3>2. clients # <<>> /\ latest # NoName
      BY <1>3 DEF IInv, Types, LastHeard, n
    <3>3. PICK j \in 1..n : clients[j].name = latest
      BY <1>3, <3>2 DEF IInv, Types, LastHeard, Heard
    <3>4. PICK k \in 1..(n - 1) : j = from(k)
      BY <1>6, <3>1, <3>3
    <3>5. k \in Heard(latest)'
      BY <1>4, <3>1, <3>3, <3>4 DEF Heard
    <3>6. clients' # <<>>
      BY <1>4, <3>4
    <3>7. QED
      BY <3>1, <3>2, <3>5, <3>6 DEF LastHeard
  <2>3. QED
    BY <2>1, <2>2
<1>10. ASSUME NEW j \in DOMAIN clients' PROVE Whole(clients'[j]) /\ Keyed(clients[j])'
  BY <1>2, <1>3, <1>4, <1>5, <1>10 DEF IInv, Keyed
<1>11. QED
  BY <1>2, <1>8, <1>9, <1>10, GateIdle DEF IInv, Types

LEMMA RestartStep ==
  ASSUME IInv, Restart
  PROVE  IInv'
<1>1. clients' = <<>> /\ latest' = NoName /\ UNCHANGED <<password, gating, used>>
  BY DEF Restart
<1>2. clients' \in Seq(Session) /\ DOMAIN clients' = {}
  BY <1>1
<1>3. ServerTypes' /\ LastHeard'
  BY <1>1, <1>2 DEF IInv, Types, ServerTypes, Distinct, LastHeard
<1>4. QED
  BY <1>1, <1>2, <1>3, GateIdle DEF IInv, Types

LEMMA StepInv == IInv /\ [Next]_vars => IInv'
<1> SUFFICES ASSUME IInv, [Next]_vars PROVE IInv'
  OBVIOUS
<1>1. ASSUME NEW u \in Users, SetPassword(u) PROVE IInv'
  BY <1>1, SetPasswordStep
<1>2. ASSUME NEW u \in Users, SaveGrant(u) PROVE IInv'
  BY <1>2, SaveGrantStep
<1>3. ASSUME NEW u \in Users, NEW ip \in Ips, Unlock(u, ip) PROVE IInv'
  BY <1>3, UnlockStep
<1>4. CASE CleanupLoad
  BY <1>4, CleanupLoadStep
<1>5. CASE CleanupSave
  BY <1>5, CleanupSaveStep
<1>6. CASE Frame
  BY <1>6, FrameStep
<1>7. CASE SessionExpires
  BY <1>7, SessionExpiresStep
<1>8. CASE Restart
  BY <1>8, RestartStep
<1>9. ASSUME NEW i \in 1..Cardinality(Names), NEW n \in Numbers, PartsExpire(i, n) PROVE IInv'
  BY <1>9, PartsExpireStep
<1>10. CASE UNCHANGED vars
  BY <1>10, ServerIdle, GateIdle DEF vars, IInv, Types
<1>11. QED
  BY <1>1, <1>2, <1>3, <1>4, <1>5, <1>6, <1>7, <1>8, <1>9, <1>10 DEF Next

LEMMA Invariance == Spec => []IInv
<1>1. QED
  BY InitInv, StepInv, PTL DEF Spec

-----------------------------------------------------------------------------
(* What the invariant says of every state.                                 *)

(* Every variable of the gate and of the server keeps its type, a session  *)
(* has one entry, and the one heard of last has one if any has.            *)
THEOREM TypeCorrect == Spec => []TypeOK
<1>1. ASSUME IInv PROVE TypeOK
  <2>1. ASSUME NEW i \in DOMAIN clients
        PROVE  /\ clients[i].name \in Names /\ clients[i].key \in Keys /\ clients[i].address \in Addresses \cup {NoAddress}
               /\ DOMAIN clients[i].parts \subseteq Numbers
               /\ \A n \in DOMAIN clients[i].parts : clients[i].parts[n] \in Parts
    <3> DEFINE c == clients[i]
    <3>1. c \in Session
      BY <1>1, ElementOfSeq DEF IInv, Types, ServerTypes
    <3> HIDE DEF c
    <3>2. c.name \in Names /\ c.key \in Keys /\ c.address \in Addresses \cup {NoAddress}
          /\ c.parts \in Waiting
      BY <3>1 DEF Session
    <3>3. PICK D \in SUBSET Numbers : c.parts \in [D -> Parts]
      BY <3>2 DEF Waiting
    <3>4. QED
      BY <3>2, <3>3 DEF c
  <2>2. /\ password \in [Users -> 0..MaxPassword] /\ gate \in States /\ rules \subseteq Ips
        /\ \A u \in Users : request[u] = NoFile \/ request[u] \in [ip : Ips, copy : States]
        /\ cleanup = NoFile \/ cleanup \in [ip : {"all"}, copy : States]
        /\ unlocked \subseteq Users \X Ips /\ used \subseteq Users \X Addresses
    BY <1>1 DEF IInv, Types, GateTypes, ServerTypes
  <2>3. (latest = NoName <=> clients = <<>>) /\ (latest # NoName => Heard(latest) # {})
    BY <1>1 DEF IInv, Types, LastHeard
  <2>4. \A i, j \in DOMAIN clients : clients[j].name = clients[i].name => i = j
    BY <1>1 DEF IInv, Types, ServerTypes, Distinct
  <2>5. QED
    BY <2>1, <2>2, <2>3, <2>4 DEF TypeOK
<1>2. QED
  BY Invariance, <1>1, PTL

(* However fragments are lost, repeated and overtaken, and whatever the    *)
(* clock drops, what waits under a number is of one customer's packets     *)
(* with that number and as many fragments, or empty, and a packet that is  *)
(* complete does not stay.                                                 *)
THEOREM FragmentsOfOne == Spec => []OneSendersFragments
<1>1. IInv => OneSendersFragments
  BY DEF IInv, Whole, Part, Placed, OneSendersFragments
<1>2. QED
  BY Invariance, <1>1, PTL

(* However grants, the cleanup and the administrator overlap, a packet for *)
(* an address a session has learnt goes to a customer who has used it, at  *)
(* a place the customer has unlocked, under the customer's own key.        *)
THEOREM CustomersServed == Spec => []KnownServed
<1>1. ASSUME IInv, NEW a \in Addresses, Learnt(a) # {}, NEW i \in Heard(Recipient(a))
      PROVE  /\ <<clients[i].key.user, a>> \in used
             /\ <<clients[i].key.user, clients[i].name.ip>> \in unlocked
  <2> DEFINE m == CHOOSE k \in Learnt(a) : \A j \in Learnt(a) : k <= j
  <2>1. clients \in Seq(Session) /\ Learnt(a) \subseteq DOMAIN clients
    BY <1>1 DEF IInv, Types, ServerTypes, Learnt
  <2>2. Learnt(a) \in SUBSET Nat
    BY <2>1
  <2>3. \E k \in Learnt(a) : \A j \in Learnt(a) : k <= j
    BY <1>1, <2>2, LeastOf
  <2>4. m \in Learnt(a)
    BY <2>3
  <2>5. Recipient(a) = clients[m].name
    BY <1>1 DEF Recipient
  <2> HIDE DEF m
  <2>6. m \in DOMAIN clients /\ clients[m].address = a
    BY <2>4 DEF Learnt
  <2>7. i \in DOMAIN clients /\ clients[i].name = clients[m].name
    BY <1>1, <2>5 DEF Heard
  <2>8. i = m
    BY <1>1, <2>6, <2>7 DEF IInv, Types, ServerTypes, Distinct
  <2>9. Keyed(clients[m]) /\ a # NoAddress
    BY <1>1, <2>6 DEF IInv, Addresses
  <2>10. QED
    BY <2>6, <2>8, <2>9 DEF Keyed
<1>2. IInv => KnownServed
  BY <1>1 DEF KnownServed
<1>3. QED
  BY Invariance, <1>2, PTL
=============================================================================
