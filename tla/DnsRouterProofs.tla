-------------------------- MODULE DnsRouterProofs --------------------------
(***************************************************************************)
(* TypeOK, AnswersReachAsker and DescriptorsOwned of DnsRouter, for every  *)
(* number of clients, engines, names, connections and descriptors.         *)
(*                                                                         *)
(* No one of them is inductive.  That an answer reaches its asker rests on *)
(* a descriptor being free of the old tables when it is opened again, so   *)
(* on DescriptorsOwned; that in turn rests on what the tables name being   *)
(* the UDP thread's own, so on the first; and both rest on sessions and    *)
(* its inverse naming each other, and on a closed connection having given  *)
(* up its descriptors.                                                     *)
(***************************************************************************)
EXTENDS DnsRouter, SequenceTheorems, WellFoundedInduction, TLAPS

USE DEF file, tables, kernel, OtherThreads

-----------------------------------------------------------------------------
(* The inductive invariant.                                                *)

Steps == {"select", "serving", "expiry", "dead"}
Conn == [at : {"closed", "reading", "relaying"}, known : BOOLEAN, fds : SUBSET Fds, up : BOOLEAN, down : BOOLEAN]

RegistryTypes ==
  /\ registry \subseteq Engines /\ view \subseteq Engines /\ torn \in BOOLEAN /\ writing \in BOOLEAN
  /\ changes \in 0..MaxChanges
LoopTypes ==
  /\ udp \in Steps /\ ready \subseteq Fds \cup {0}
  /\ queue \in Seq(Queries) /\ Len(queue) <= MaxQueue
TableTypes ==
  /\ sessions \in Partial(Pairs, Fds) /\ bySock \in Partial(Fds, Pairs) /\ oneshot \in Partial(Fds, Clients)
  /\ owner \in Partial(Fds, Pairs)
  /\ aged \subseteq Fds /\ inbox \subseteq Fds

(* Port 53 is served only while a datagram waits there.                    *)
DatagramWaits == 0 \in ready => queue # <<>>

(* The tables share the sockets of the thread out, name the client each    *)
(* was opened for, and a session and its socket name each other.           *)
Tables ==
  /\ DOMAIN oneshot \cap DOMAIN bySock = {} /\ DOMAIN oneshot \cup DOMAIN bySock = DOMAIN owner
  /\ aged \cup inbox \subseteq DOMAIN owner
  /\ \A f \in DOMAIN oneshot : oneshot[f] = owner[f].client
  /\ \A f \in DOMAIN bySock : bySock[f] = owner[f] /\ bySock[f] \in DOMAIN sessions /\ sessions[bySock[f]] = f
  /\ \A p \in DOMAIN sessions : sessions[p] \in DOMAIN bySock /\ bySock[sessions[p]] = p

(* What is open is a socket of that thread or of one connection.           *)
Held ==
  /\ open \subseteq Fds /\ conn \in [Conns -> Conn]
  /\ open = DOMAIN owner \cup UNION {conn[k].fds : k \in Conns}
  /\ \A k \in Conns : conn[k].fds \cap DOMAIN owner = {}
  /\ \A k, l \in Conns : k # l => conn[k].fds \cap conn[l].fds = {}
  /\ \A k \in Conns : conn[k].at = "closed" => conn[k].fds = {}

IInv == RegistryTypes /\ LoopTypes /\ TableTypes /\ DatagramWaits /\ Tables /\ Held

-----------------------------------------------------------------------------
(* Lemmas about the operators.                                             *)

(* A set of numbers that is not empty has a least one.                     *)
LEMMA LeastOf ==
  ASSUME NEW S \in SUBSET Nat, S # {}
  PROVE  \E m \in S : \A n \in S : m <= n
<1> DEFINE R == OpToRel(<, Nat)
<1>1. R = {ss \in Nat \X Nat : ss[1] < ss[2]}
  BY DEF OpToRel
<1>2. IsWellFoundedOn(R, Nat)
  BY NatLessThanWellFounded, Zenon
<1> HIDE DEF R
<1>3. PICK m \in S : \A n \in S : ~ (<<n, m>> \in R)
  BY <1>2, WFMin, Zenon
<1>4. ASSUME NEW n \in S PROVE m <= n
  <2>1. <<n, m>> \notin R /\ <<n, m>> \in Nat \X Nat
    BY <1>3
  <2>2. ~ (n < m)
    BY <1>1, <2>1
  <2>3. QED
    BY <2>2
<1>5. QED
  BY <1>4

(* The lowest free descriptor is free.                                     *)
LEMMA LowestFree ==
  ASSUME Free # {}
  PROVE  Lowest \in Fds /\ Lowest \notin open
<1>1. Free \in SUBSET Nat
  BY FdsAssumption DEF Free
<1>2. \E f \in Free : \A g \in Free : f <= g
  BY <1>1, LeastOf
<1>3. Lowest \in Free
  BY <1>2 DEF Lowest
<1>4. QED
  BY <1>3 DEF Free

(* A name that matches is for one of the engines.                          *)
LEMMA MatchingType ==
  ASSUME NEW name \in Names, NEW known, Matches(name, known) # {}
  PROVE  Matching(name, known) \in Engines
<1> DEFINE M == Matches(name, known)
           i == CHOOSE n \in M : \A j \in M : n <= j
<1>1. Suffixes[name] \in Seq(Engines) /\ M \subseteq DOMAIN Suffixes[name]
  BY SuffixesAssumption DEF Matches
<1>2. M \in SUBSET Nat
  BY <1>1
<1>3. \E n \in M : \A j \in M : n <= j
  BY <1>2, LeastOf
<1>4. i \in M
  BY <1>3
<1> HIDE DEF M, i
<1>5. Suffixes[name][i] \in Engines
  BY <1>1, <1>4
<1>6. QED
  BY <1>5 DEF Matching, M, i

(* A partial function, by its domain and its values.                       *)
LEMMA PartialDef ==
  ASSUME NEW S, NEW T, NEW f
  PROVE  f \in Partial(S, T) <=> DOMAIN f \subseteq S /\ f \in [DOMAIN f -> T]
BY DEF Partial

(* It stays one with fewer arguments, and with one more.                   *)
LEMMA PartialLess ==
  ASSUME NEW S, NEW T, NEW f \in Partial(S, T), NEW X
  PROVE  Without(f, X) \in Partial(S, T)
<1>1. DOMAIN f \subseteq S /\ f \in [DOMAIN f -> T]
  BY PartialDef
<1>2. Without(f, X) \in [DOMAIN f \ X -> T]
  BY <1>1 DEF Without
<1>3. QED
  BY <1>1, <1>2, PartialDef

LEMMA PartialMore ==
  ASSUME NEW S, NEW T, NEW f \in Partial(S, T), NEW a \in S, NEW v \in T
  PROVE  With(f, a, v) \in Partial(S, T)
<1>1. DOMAIN f \subseteq S /\ f \in [DOMAIN f -> T]
  BY PartialDef
<1>2. With(f, a, v) \in [DOMAIN f \cup {a} -> T]
  BY <1>1 DEF With
<1>3. QED
  BY <1>1, <1>2, PartialDef

(* The empty one is one, whatever of.                                      *)
LEMMA PartialEmpty ==
  ASSUME NEW S, NEW T
  PROVE  Empty \in Partial(S, T) /\ DOMAIN Empty = {}
<1>1. DOMAIN Empty = {} /\ Empty \in [{} -> T]
  BY DEF Empty
<1>2. QED
  BY <1>1, PartialDef

-----------------------------------------------------------------------------
(* What the steps are made of.                                             *)

LEMMA InitInv == Init => IInv
<1> SUFFICES ASSUME Init PROVE IInv
  OBVIOUS
<1> USE DEF Init
<1>1. RegistryTypes
  <2>1. 0 \in 0..MaxChanges
    BY BoundsAssumption
  <2>2. QED
    BY <2>1 DEF RegistryTypes
<1>2. LoopTypes /\ DatagramWaits
  BY BoundsAssumption DEF LoopTypes, DatagramWaits, Steps
<1>3. TableTypes
  BY PartialEmpty DEF TableTypes
<1>4. Tables
  BY PartialEmpty DEF Tables
<1>5. Held
  <2>1. \A k \in Conns : conn[k] = NoConn
    OBVIOUS
  <2>2. NoConn \in Conn /\ NoConn.fds = {}
    BY DEF NoConn, Conn
  <2>3. conn \in [Conns -> Conn]
    BY <2>2
  <2>4. QED
    BY <2>1, <2>2, <2>3, PartialEmpty DEF Held
<1>6. QED
  BY <1>1, <1>2, <1>3, <1>4, <1>5 DEF IInv

(* Nothing is opened or closed.                                            *)
LEMMA TablesIdle ==
  ASSUME IInv, UNCHANGED <<tables, kernel, conn>>
  PROVE  TableTypes' /\ Tables' /\ Held'
<1>1. TableTypes'
  BY DEF IInv, TableTypes
<1>2. Tables'
  BY DEF IInv, Tables
<1>3. Held'
  BY DEF IInv, Held
<1>4. QED
  BY <1>1, <1>2, <1>3

(* Sockets of the UDP thread are closed and forgotten.                     *)
LEMMA Closing ==
  ASSUME IInv, NEW S, S \subseteq DOMAIN owner, Forgotten(S), Closed(S), UNCHANGED conn
  PROVE  TableTypes' /\ Tables' /\ Held'
<1> DEFINE P == SessionsOf(S)
<1>1. /\ sessions' = Without(sessions, P) /\ bySock' = Without(bySock, S)
      /\ oneshot' = Without(oneshot, S) /\ owner' = Without(owner, S)
      /\ open' = open \ S /\ inbox' = inbox \ S /\ aged' = aged \ S /\ conn' = conn
  BY DEF Forgotten, Closed
<1>0. \A p \in DOMAIN sessions : p \in P <=> sessions[p] \in S
  BY DEF SessionsOf
<1> HIDE DEF P
<1>2. /\ sessions \in Partial(Pairs, Fds) /\ bySock \in Partial(Fds, Pairs) /\ oneshot \in Partial(Fds, Clients)
      /\ owner \in Partial(Fds, Pairs)
  BY DEF IInv, TableTypes
<1>3. /\ sessions' \in Partial(Pairs, Fds) /\ DOMAIN sessions' = DOMAIN sessions \ P
      /\ \A p \in DOMAIN sessions \ P : sessions'[p] = sessions[p]
  <2>1. sessions' \in Partial(Pairs, Fds)
    BY <1>1, <1>2, PartialLess
  <2>2. QED
    BY <1>1, <1>2, <2>1 DEF Without
<1>4. /\ bySock' \in Partial(Fds, Pairs) /\ DOMAIN bySock' = DOMAIN bySock \ S
      /\ \A f \in DOMAIN bySock \ S : bySock'[f] = bySock[f]
  <2>1. bySock' \in Partial(Fds, Pairs)
    BY <1>1, <1>2, PartialLess
  <2>2. QED
    BY <1>1, <1>2, <2>1 DEF Without
<1>5. /\ oneshot' \in Partial(Fds, Clients) /\ DOMAIN oneshot' = DOMAIN oneshot \ S
      /\ \A f \in DOMAIN oneshot \ S : oneshot'[f] = oneshot[f]
  <2>1. oneshot' \in Partial(Fds, Clients)
    BY <1>1, <1>2, PartialLess
  <2>2. QED
    BY <1>1, <1>2, <2>1 DEF Without
<1>6. /\ owner' \in Partial(Fds, Pairs) /\ DOMAIN owner' = DOMAIN owner \ S
      /\ \A f \in DOMAIN owner \ S : owner'[f] = owner[f]
  <2>1. owner' \in Partial(Fds, Pairs)
    BY <1>1, <1>2, PartialLess
  <2>2. QED
    BY <1>1, <1>2, <2>1 DEF Without
<1>8. TableTypes'
  BY <1>1, <1>3, <1>4, <1>5, <1>6 DEF IInv, TableTypes
<1>9. Tables'
  <2>1. /\ DOMAIN oneshot' \cap DOMAIN bySock' = {} /\ DOMAIN oneshot' \cup DOMAIN bySock' = DOMAIN owner'
        /\ aged' \cup inbox' \subseteq DOMAIN owner'
    BY <1>1, <1>4, <1>5, <1>6 DEF IInv, Tables
  <2>2. \A f \in DOMAIN oneshot' : oneshot'[f] = owner'[f].client
    BY <1>5, <1>6 DEF IInv, Tables
  <2>3. \A f \in DOMAIN bySock' :
          bySock'[f] = owner'[f] /\ bySock'[f] \in DOMAIN sessions' /\ sessions'[bySock'[f]] = f
    BY <1>3, <1>4, <1>6, <1>0 DEF IInv, Tables
  <2>4. \A p \in DOMAIN sessions' : sessions'[p] \in DOMAIN bySock' /\ bySock'[sessions'[p]] = p
    BY <1>3, <1>4, <1>0 DEF IInv, Tables
  <2>5. QED
    BY <2>1, <2>2, <2>3, <2>4 DEF Tables
<1>10. Held'
  BY <1>1, <1>6 DEF IInv, Held
<1>11. QED
  BY <1>8, <1>9, <1>10

(* A socket is opened for a session that has none.                         *)
LEMMA OpensSession ==
  ASSUME IInv, NEW f \in Fds, f \notin open, NEW p \in Pairs, p \notin DOMAIN sessions,
         Opened(f, p.client, p.engine), UNCHANGED <<oneshot, conn>>,
         sessions' = With(sessions, p, f), bySock' = With(bySock, f, p)
  PROVE  TableTypes' /\ Tables' /\ Held'
<1>1. /\ owner' = With(owner, f, p) /\ open' = open \cup {f} /\ UNCHANGED <<inbox, aged>>
  BY DEF Opened, Pairs
<1>2. f \notin DOMAIN owner /\ f \notin DOMAIN bySock /\ f \notin DOMAIN oneshot
  BY DEF IInv, Held, Tables
<1>3. /\ sessions \in Partial(Pairs, Fds) /\ bySock \in Partial(Fds, Pairs) /\ oneshot \in Partial(Fds, Clients)
      /\ owner \in Partial(Fds, Pairs)
  BY DEF IInv, TableTypes
<1>4. /\ sessions' \in Partial(Pairs, Fds) /\ DOMAIN sessions' = DOMAIN sessions \cup {p}
      /\ sessions'[p] = f
      /\ \A q \in DOMAIN sessions \ {p} : sessions'[q] = sessions[q]
  <2>1. sessions' \in Partial(Pairs, Fds)
    BY <1>3, PartialMore
  <2>2. QED
    BY <1>3, <2>1 DEF With
<1>5. /\ bySock' \in Partial(Fds, Pairs) /\ DOMAIN bySock' = DOMAIN bySock \cup {f}
      /\ bySock'[f] = p
      /\ \A g \in DOMAIN bySock \ {f} : bySock'[g] = bySock[g]
  <2>1. bySock' \in Partial(Fds, Pairs)
    BY <1>3, PartialMore
  <2>2. QED
    BY <1>3, <2>1 DEF With
<1>6. /\ owner' \in Partial(Fds, Pairs) /\ DOMAIN owner' = DOMAIN owner \cup {f}
      /\ owner'[f] = p
      /\ \A g \in DOMAIN owner \ {f} : owner'[g] = owner[g]
  <2>1. owner' \in Partial(Fds, Pairs)
    BY <1>1, <1>3, PartialMore
  <2>2. QED
    BY <1>1, <1>3, <2>1 DEF With
<1>7. TableTypes'
  BY <1>1, <1>3, <1>4, <1>5, <1>6 DEF IInv, TableTypes
<1>8. Tables'
  <2>1. /\ DOMAIN oneshot' \cap DOMAIN bySock' = {} /\ DOMAIN oneshot' \cup DOMAIN bySock' = DOMAIN owner'
        /\ aged' \cup inbox' \subseteq DOMAIN owner'
    BY <1>1, <1>2, <1>5, <1>6 DEF IInv, Tables
  <2>2. \A g \in DOMAIN oneshot' : oneshot'[g] = owner'[g].client
    BY <1>2, <1>6 DEF IInv, Tables
  <2>3. \A g \in DOMAIN bySock' :
          bySock'[g] = owner'[g] /\ bySock'[g] \in DOMAIN sessions' /\ sessions'[bySock'[g]] = g
    BY <1>2, <1>4, <1>5, <1>6 DEF IInv, Tables
  <2>4. \A q \in DOMAIN sessions' : sessions'[q] \in DOMAIN bySock' /\ bySock'[sessions'[q]] = q
    BY <1>2, <1>4, <1>5 DEF IInv, Tables
  <2>5. QED
    BY <2>1, <2>2, <2>3, <2>4 DEF Tables
<1>9. Held'
  BY <1>1, <1>6 DEF IInv, Held
<1>10. QED
  BY <1>7, <1>8, <1>9

(* A socket is opened for one query.                                       *)
LEMMA OpensOneshot ==
  ASSUME IInv, NEW f \in Fds, f \notin open, NEW p \in Pairs,
         Opened(f, p.client, p.engine), UNCHANGED <<sessions, bySock, conn>>,
         oneshot' = With(oneshot, f, p.client)
  PROVE  TableTypes' /\ Tables' /\ Held'
<1>1. /\ owner' = With(owner, f, p) /\ open' = open \cup {f} /\ UNCHANGED <<inbox, aged>>
      /\ p.client \in Clients
  BY DEF Opened, Pairs
<1>2. f \notin DOMAIN owner /\ f \notin DOMAIN bySock /\ f \notin DOMAIN oneshot
  BY DEF IInv, Held, Tables
<1>3. oneshot \in Partial(Fds, Clients) /\ owner \in Partial(Fds, Pairs)
  BY DEF IInv, TableTypes
<1>4. /\ oneshot' \in Partial(Fds, Clients) /\ DOMAIN oneshot' = DOMAIN oneshot \cup {f}
      /\ oneshot'[f] = p.client
      /\ \A g \in DOMAIN oneshot \ {f} : oneshot'[g] = oneshot[g]
  <2>1. oneshot' \in Partial(Fds, Clients)
    BY <1>1, <1>3, PartialMore
  <2>2. QED
    BY <1>1, <1>3, <2>1 DEF With
<1>5. /\ owner' \in Partial(Fds, Pairs) /\ DOMAIN owner' = DOMAIN owner \cup {f}
      /\ owner'[f] = p
      /\ \A g \in DOMAIN owner \ {f} : owner'[g] = owner[g]
  <2>1. owner' \in Partial(Fds, Pairs)
    BY <1>1, <1>3, PartialMore
  <2>2. QED
    BY <1>1, <1>3, <2>1 DEF With
<1>6. TableTypes'
  BY <1>1, <1>4, <1>5 DEF IInv, TableTypes
<1>7. Tables'
  <2>1. /\ DOMAIN oneshot' \cap DOMAIN bySock' = {} /\ DOMAIN oneshot' \cup DOMAIN bySock' = DOMAIN owner'
        /\ aged' \cup inbox' \subseteq DOMAIN owner'
    BY <1>1, <1>2, <1>4, <1>5 DEF IInv, Tables
  <2>2. \A g \in DOMAIN oneshot' : oneshot'[g] = owner'[g].client
    BY <1>2, <1>4, <1>5 DEF IInv, Tables
  <2>3. \A g \in DOMAIN bySock' :
          bySock'[g] = owner'[g] /\ bySock'[g] \in DOMAIN sessions' /\ sessions'[bySock'[g]] = g
    BY <1>2, <1>5 DEF IInv, Tables
  <2>4. \A q \in DOMAIN sessions' : sessions'[q] \in DOMAIN bySock' /\ bySock'[sessions'[q]] = q
    BY DEF IInv, Tables
  <2>5. QED
    BY <2>1, <2>2, <2>3, <2>4 DEF Tables
<1>8. Held'
  BY <1>1, <1>5 DEF IInv, Held
<1>9. QED
  BY <1>6, <1>7, <1>8

(* A queue keeps its bound when a datagram is taken.                       *)
LEMMA TailType ==
  ASSUME NEW q \in Seq(Queries), q # <<>>, Len(q) <= MaxQueue
  PROVE  Tail(q) \in Seq(Queries) /\ Len(Tail(q)) <= MaxQueue
<1>1. Tail(q) \in Seq(Queries) /\ Len(Tail(q)) = Len(q) - 1 /\ Len(q) \in Nat
  BY HeadTailProperties, LenProperties
<1>2. QED
  BY <1>1, BoundsAssumption

(* A round of the UDP thread serves some of what was ready,                *)
LEMMA Served ==
  ASSUME IInv, NEW S, Serve(S), queue' = queue \/ (Takes /\ 0 \in S)
  PROVE  RegistryTypes' /\ LoopTypes' /\ DatagramWaits' /\ UNCHANGED conn
<1>1. UNCHANGED <<file, view, conn>> /\ ready' = ready \ S
      /\ udp' = IF ready' = {} THEN "expiry" ELSE "serving"
  BY DEF Serve
<1>2. RegistryTypes'
  BY <1>1 DEF IInv, RegistryTypes
<1>3. queue' \in Seq(Queries) /\ Len(queue') <= MaxQueue
  <2>1. CASE queue' = queue
    BY <2>1 DEF IInv, LoopTypes
  <2>2. CASE Takes /\ 0 \in S
    <3>1. queue \in Seq(Queries) /\ queue # <<>> /\ queue' = Tail(queue) /\ Len(queue) <= MaxQueue
      BY <2>2 DEF IInv, LoopTypes, DatagramWaits, Takes
    <3>2. QED
      BY <3>1, TailType
  <2>3. QED
    BY <2>1, <2>2
<1>4. LoopTypes'
  BY <1>1, <1>3 DEF IInv, LoopTypes, Steps
<1>5. DatagramWaits'
  BY <1>1 DEF IInv, DatagramWaits
<1>6. QED
  BY <1>1, <1>2, <1>4, <1>5

(* and a query it knows an engine for is of a client and an engine.        *)
LEMMA AskedType ==
  ASSUME IInv, Takes, Known
  PROVE  Asked \in Pairs
<1>1. queue \in Seq(Queries) /\ queue # <<>>
  BY DEF IInv, LoopTypes, DatagramWaits, Takes
<1>2. Asks \in Queries
  BY <1>1 DEF Asks
<1>3. Asks.client \in Clients /\ Asks.name \in Names
  BY <1>2 DEF Queries
<1>4. Matching(Asks.name, view) \in Engines
  BY <1>3, MatchingType DEF Known
<1>5. QED
  BY <1>3, <1>4 DEF Asked, Pairs

-----------------------------------------------------------------------------
(* Every step keeps the invariant.                                         *)

LEMMA PanelStep ==
  ASSUME IInv, SaveRegistry \/ Saved \/ PanelDies \/ Refresh
  PROVE  IInv'
<1>1. UNCHANGED <<queue, udp, ready, tables, kernel, conn>>
  BY DEF SaveRegistry, Saved, PanelDies, Refresh
<1>2. RegistryTypes'
  <2>1. CASE SaveRegistry
    <3>1. changes' \in 0..MaxChanges
      BY <2>1, BoundsAssumption DEF SaveRegistry, IInv, RegistryTypes
    <3>2. PICK e \in Engines : registry' = IF e \in registry THEN registry \ {e} ELSE registry \cup {e}
      BY <2>1 DEF SaveRegistry
    <3>3. registry' \subseteq Engines
      BY <3>2 DEF IInv, RegistryTypes
    <3>4. view' \subseteq Engines /\ torn' \in BOOLEAN /\ writing' \in BOOLEAN
      BY <2>1 DEF SaveRegistry, IInv, RegistryTypes
    <3>5. QED
      BY <3>1, <3>3, <3>4 DEF RegistryTypes
  <2>2. CASE Saved \/ PanelDies
    BY <2>2 DEF Saved, PanelDies, IInv, RegistryTypes
  <2>3. CASE Refresh
    BY <2>3 DEF Refresh, Loaded, IInv, RegistryTypes
  <2>4. QED
    BY <2>1, <2>2, <2>3
<1>3. LoopTypes' /\ DatagramWaits'
  BY <1>1 DEF IInv, LoopTypes, DatagramWaits
<1>4. QED
  BY <1>1, <1>2, <1>3, TablesIdle DEF IInv

LEMMA RestartRouterStep ==
  ASSUME IInv, RestartRouter
  PROVE  IInv'
<1>1. RegistryTypes'
  <2>1. changes' \in 0..MaxChanges
    BY BoundsAssumption DEF RestartRouter, IInv, RegistryTypes
  <2>2. view' \subseteq Engines
    BY DEF RestartRouter, Loaded, IInv, RegistryTypes
  <2>3. QED
    BY <2>1, <2>2 DEF RestartRouter, IInv, RegistryTypes
<1>2. LoopTypes' /\ DatagramWaits'
  BY BoundsAssumption DEF RestartRouter, LoopTypes, DatagramWaits, Steps
<1>3. sessions' = Empty /\ bySock' = Empty /\ oneshot' = Empty /\ owner' = Empty
      /\ aged' = {} /\ inbox' = {} /\ open' = {} /\ conn' = [k \in Conns |-> NoConn]
  BY DEF RestartRouter
<1>4. TableTypes'
  BY <1>3, PartialEmpty DEF TableTypes
<1>5. Tables'
  BY <1>3, PartialEmpty DEF Tables
<1>6. Held'
  <2>1. NoConn \in Conn /\ NoConn.fds = {}
    BY DEF NoConn, Conn
  <2>2. conn' \in [Conns -> Conn] /\ \A k \in Conns : conn'[k].fds = {}
    BY <1>3, <2>1
  <2>3. QED
    BY <1>3, <2>2, PartialEmpty DEF Held
<1>7. QED
  BY <1>1, <1>2, <1>4, <1>5, <1>6 DEF IInv

LEMMA OutsideStep ==
  ASSUME IInv, ClientSends \/ EngineAnswers \/ \E f \in Fds : ComesOfAge(f)
  PROVE  IInv'
<1>1. UNCHANGED <<file, view, udp, ready, sessions, bySock, oneshot, owner, open, conn>>
  BY DEF ClientSends, EngineAnswers, ComesOfAge
<1>2. RegistryTypes'
  BY <1>1 DEF IInv, RegistryTypes
<1>3. LoopTypes' /\ DatagramWaits'
  <2>1. CASE ClientSends
    <3>1. PICK q \in Queries : queue' = Append(queue, q)
      BY <2>1 DEF ClientSends
    <3>2. queue \in Seq(Queries) /\ Len(queue) < MaxQueue
      BY <2>1 DEF ClientSends, IInv, LoopTypes
    <3>3. queue' \in Seq(Queries) /\ Len(queue') = Len(queue) + 1 /\ Len(queue) \in Nat
      BY <3>1, <3>2
    <3>4. queue' # <<>>
      BY <3>3
    <3>5. Len(queue') <= MaxQueue
      BY <3>2, <3>3, BoundsAssumption
    <3>6. QED
      BY <1>1, <3>3, <3>4, <3>5 DEF IInv, LoopTypes, DatagramWaits
  <2>2. CASE EngineAnswers \/ \E f \in Fds : ComesOfAge(f)
    <3>1. queue' = queue
      BY <2>2 DEF EngineAnswers, ComesOfAge
    <3>2. QED
      BY <1>1, <3>1 DEF IInv, LoopTypes, DatagramWaits
  <2>3. QED
    BY <2>1, <2>2
<1>4. aged' \cup inbox' \subseteq DOMAIN owner
  <2>1. aged \cup inbox \subseteq DOMAIN owner
    BY DEF IInv, Tables
  <2>2. QED
    BY <2>1 DEF ClientSends, EngineAnswers, ComesOfAge
<1>5. DOMAIN owner \subseteq Fds
  BY PartialDef DEF IInv, TableTypes
<1>6. TableTypes'
  BY <1>1, <1>4, <1>5 DEF IInv, TableTypes
<1>7. Tables'
  BY <1>1, <1>4 DEF IInv, Tables
<1>8. Held'
  BY <1>1 DEF IInv, Held
<1>9. QED
  BY <1>2, <1>3, <1>6, <1>7, <1>8 DEF IInv

LEMMA SelectStep ==
  ASSUME IInv, Select
  PROVE  IInv'
<1>1. UNCHANGED <<file, view, queue, tables, kernel, conn>>
  BY DEF Select
<1>2. RegistryTypes'
  BY <1>1 DEF IInv, RegistryTypes
<1>3. LoopTypes' /\ DatagramWaits'
  <2>1. ready' = inbox \cup (IF queue = <<>> THEN {} ELSE {0}) /\ udp' \in Steps
    BY DEF Select, Steps
  <2>2. 0 \notin inbox
    BY FdsAssumption DEF IInv, TableTypes
  <2>3. LoopTypes'
    BY <1>1, <2>1 DEF IInv, LoopTypes, TableTypes
  <2>4. DatagramWaits'
    BY <1>1, <2>1, <2>2 DEF DatagramWaits
  <2>5. QED
    BY <2>3, <2>4
<1>4. QED
  BY <1>1, <1>2, <1>3, TablesIdle DEF IInv

LEMMA DropStep ==
  ASSUME IInv, Drop
  PROVE  IInv'
<1>1. Takes /\ Serve({0}) /\ UNCHANGED <<tables, kernel>> /\ 0 \in {0}
  BY DEF Drop
<1>2. RegistryTypes' /\ LoopTypes' /\ DatagramWaits' /\ UNCHANGED conn
  BY <1>1, Served
<1>3. QED
  BY <1>1, <1>2, TablesIdle DEF IInv

LEMMA OldSessionStep ==
  ASSUME IInv, OldSession
  PROVE  IInv'
<1> DEFINE f == sessions[Asked]
<1>1. Takes /\ Asked \in DOMAIN sessions
  BY DEF OldSession
<1>2. f \in DOMAIN bySock /\ f \in DOMAIN owner
  BY <1>1 DEF IInv, Tables
<1>3. \/ Serve({0}) /\ aged' = aged \ {f} /\ UNCHANGED <<sessions, bySock, oneshot, kernel>>
      \/ Serve({0, f}) /\ Forgotten({f}) /\ Closed({f})
  BY DEF OldSession
<1> HIDE DEF f
<1>4. CASE Serve({0}) /\ aged' = aged \ {f} /\ UNCHANGED <<sessions, bySock, oneshot, kernel>>
  <2>1. 0 \in {0}
    OBVIOUS
  <2>2. RegistryTypes' /\ LoopTypes' /\ DatagramWaits' /\ UNCHANGED conn
    BY <1>1, <1>4, <2>1, Served
  <2>3. TableTypes'
    BY <1>4 DEF IInv, TableTypes
  <2>4. Tables'
    BY <1>4 DEF IInv, Tables
  <2>5. Held'
    BY <1>4, <2>2 DEF IInv, Held
  <2>6. QED
    BY <2>2, <2>3, <2>4, <2>5 DEF IInv
<1>5. CASE Serve({0, f}) /\ Forgotten({f}) /\ Closed({f})
  <2>1. 0 \in {0, f} /\ {f} \subseteq DOMAIN owner
    BY <1>2
  <2>2. RegistryTypes' /\ LoopTypes' /\ DatagramWaits' /\ UNCHANGED conn
    BY <1>1, <1>5, <2>1, Served
  <2>3. TableTypes' /\ Tables' /\ Held'
    BY <1>5, <2>1, <2>2, Closing
  <2>4. QED
    BY <2>2, <2>3 DEF IInv
<1>6. QED
  BY <1>3, <1>4, <1>5

LEMMA NewSessionStep ==
  ASSUME IInv, NewSession
  PROVE  IInv'
<1>1. Takes /\ Known /\ Asked \notin DOMAIN sessions /\ Free # {} /\ Serve({0}) /\ 0 \in {0}
  BY DEF NewSession
<1>2. RegistryTypes' /\ LoopTypes' /\ DatagramWaits' /\ UNCHANGED conn
  BY <1>1, Served
<1>3. Asked \in Pairs /\ Lowest \in Fds /\ Lowest \notin open
  BY <1>1, AskedType, LowestFree
<1>4. TableTypes' /\ Tables' /\ Held'
  <2>1. CASE UNCHANGED <<tables, kernel>>
    BY <1>2, <2>1, TablesIdle
  <2>2. CASE /\ Opened(Lowest, Asked.client, Asked.engine)
             /\ sessions' = With(sessions, Asked, Lowest) /\ bySock' = With(bySock, Lowest, Asked)
             /\ UNCHANGED oneshot
    BY <1>1, <1>2, <1>3, <2>2, OpensSession
  <2>3. QED
    BY <2>1, <2>2 DEF NewSession
<1>5. QED
  BY <1>2, <1>4 DEF IInv

LEMMA NewOneshotStep ==
  ASSUME IInv, NewOneshot
  PROVE  IInv'
<1>1. Takes /\ Known /\ Free # {} /\ Serve({0}) /\ 0 \in {0}
  BY DEF NewOneshot
<1>2. RegistryTypes' /\ LoopTypes' /\ DatagramWaits' /\ UNCHANGED conn
  BY <1>1, Served
<1>3. Asked \in Pairs /\ Lowest \in Fds /\ Lowest \notin open
  BY <1>1, AskedType, LowestFree
<1>4. TableTypes' /\ Tables' /\ Held'
  <2>1. CASE UNCHANGED <<tables, kernel>>
    BY <1>2, <2>1, TablesIdle
  <2>2. CASE /\ Opened(Lowest, Asked.client, Asked.engine)
             /\ oneshot' = With(oneshot, Lowest, Asked.client)
             /\ UNCHANGED <<sessions, bySock>>
    BY <1>1, <1>2, <1>3, <2>2, OpensOneshot
  <2>3. QED
    BY <2>1, <2>2 DEF NewOneshot
<1>5. QED
  BY <1>2, <1>4 DEF IInv

LEMMA ExhaustedStep ==
  ASSUME IInv, Exhausted
  PROVE  IInv'
<1>1. Takes /\ udp' = "dead" /\ ready' = {} /\ UNCHANGED <<file, view, tables, kernel, conn>>
  BY DEF Exhausted
<1>2. RegistryTypes'
  BY <1>1 DEF IInv, RegistryTypes
<1>3. LoopTypes' /\ DatagramWaits'
  <2>1. queue \in Seq(Queries) /\ queue # <<>> /\ queue' = Tail(queue) /\ Len(queue) <= MaxQueue
    BY <1>1 DEF IInv, LoopTypes, DatagramWaits, Takes
  <2>2. queue' \in Seq(Queries) /\ Len(queue') <= MaxQueue
    BY <2>1, TailType
  <2>3. QED
    BY <1>1, <2>2 DEF LoopTypes, DatagramWaits, Steps
<1>4. QED
  BY <1>1, <1>2, <1>3, TablesIdle DEF IInv

LEMMA AnswerOneshotStep ==
  ASSUME IInv, NEW f \in Fds, AnswerOneshot(f)
  PROVE  IInv'
<1>1. f \in DOMAIN oneshot /\ Serve({f}) /\ Forgotten({f}) /\ Closed({f}) /\ queue' = queue
  BY DEF AnswerOneshot
<1>2. {f} \subseteq DOMAIN owner
  BY <1>1 DEF IInv, Tables
<1>3. RegistryTypes' /\ LoopTypes' /\ DatagramWaits' /\ UNCHANGED conn
  BY <1>1, Served
<1>4. TableTypes' /\ Tables' /\ Held'
  BY <1>1, <1>2, <1>3, Closing
<1>5. QED
  BY <1>3, <1>4 DEF IInv

LEMMA AnswerSessionStep ==
  ASSUME IInv, NEW f \in Fds, AnswerSession(f)
  PROVE  IInv'
<1>1. f \in DOMAIN bySock /\ Serve({f}) /\ queue' = queue
  BY DEF AnswerSession
<1>2. {f} \subseteq DOMAIN owner
  BY <1>1 DEF IInv, Tables
<1>3. RegistryTypes' /\ LoopTypes' /\ DatagramWaits' /\ UNCHANGED conn
  BY <1>1, Served
<1>4. TableTypes' /\ Tables' /\ Held'
  <2>1. CASE inbox' = inbox \ {f} /\ aged' = aged \ {f} /\ UNCHANGED <<sessions, bySock, oneshot, owner, open>>
    <3>1. TableTypes'
      BY <2>1 DEF IInv, TableTypes
    <3>2. Tables'
      BY <2>1 DEF IInv, Tables
    <3>3. Held'
      BY <1>3, <2>1 DEF IInv, Held
    <3>4. QED
      BY <3>1, <3>2, <3>3
  <2>2. CASE Forgotten({f}) /\ Closed({f})
    BY <1>2, <1>3, <2>2, Closing
  <2>3. QED
    BY <2>1, <2>2 DEF AnswerSession
<1>5. QED
  BY <1>3, <1>4 DEF IInv

LEMMA ExpireStep ==
  ASSUME IInv, Expire
  PROVE  IInv'
<1>1. udp' = "select" /\ Forgotten(aged) /\ Closed(aged) /\ UNCHANGED <<file, view, queue, ready, conn>>
  BY DEF Expire
<1>2. aged \subseteq DOMAIN owner
  BY DEF IInv, Tables
<1>3. RegistryTypes'
  BY <1>1 DEF IInv, RegistryTypes
<1>4. LoopTypes' /\ DatagramWaits'
  BY <1>1 DEF IInv, LoopTypes, DatagramWaits, Steps
<1>5. TableTypes' /\ Tables' /\ Held'
  BY <1>1, <1>2, Closing
<1>6. QED
  BY <1>3, <1>4, <1>5 DEF IInv

(* The connections that are open hold what they held but for one of them.  *)
LEMMA AcceptStep ==
  ASSUME IInv, NEW k \in Conns, Accept(k)
  PROVE  IInv'
<1> DEFINE f == Lowest
<1>1. conn[k].at = "closed" /\ Free # {} /\ open' = open \cup {f} /\ UNCHANGED OtherThreads
  BY SMTT(30) DEF Accept
<1>2. PICK n \in Names :
        conn' = [conn EXCEPT ![k] = [NoConn EXCEPT !.at = "reading", !.known = Matches(n, view) # {}, !.fds = {f}]]
  BY DEF Accept
<1>3. f \in Fds /\ f \notin open
  BY <1>1, LowestFree
<1> HIDE DEF f
<1> DEFINE c == [NoConn EXCEPT !.at = "reading", !.known = Matches(n, view) # {}, !.fds = {f}]
<1>4. c \in Conn /\ c.fds = {f} /\ c.at = "reading"
  BY <1>3 DEF NoConn, Conn
<1> HIDE DEF c
<1>5. conn \in [Conns -> Conn] /\ conn[k].fds = {}
  BY <1>1 DEF IInv, Held
<1>6. conn' = [conn EXCEPT ![k] = c]
  BY <1>2 DEF c
<1>7. /\ conn' \in [Conns -> Conn] /\ conn'[k] = c
      /\ \A l \in Conns \ {k} : conn'[l] = conn[l]
  BY <1>4, <1>5, <1>6
<1>8. Held'
  <2>1. open' = DOMAIN owner' \cup UNION {conn'[l].fds : l \in Conns}
    BY <1>1, <1>4, <1>5, <1>7 DEF IInv, Held
  <2>2. \A l \in Conns : conn'[l].fds \cap DOMAIN owner' = {}
    BY <1>1, <1>3, <1>4, <1>7 DEF IInv, Held
  <2>3. \A l, m \in Conns : l # m => conn'[l].fds \cap conn'[m].fds = {}
    <3>1. \A l \in Conns : f \notin conn[l].fds
      BY <1>3 DEF IInv, Held
    <3>2. QED
      BY <1>4, <1>7, <3>1 DEF IInv, Held
  <2>4. \A l \in Conns : conn'[l].at = "closed" => conn'[l].fds = {}
    BY <1>4, <1>7 DEF IInv, Held
  <2>5. open' \subseteq Fds
    BY <1>1, <1>3 DEF IInv, Held
  <2>6. QED
    BY <1>7, <2>1, <2>2, <2>3, <2>4, <2>5 DEF Held
<1>9. RegistryTypes' /\ LoopTypes' /\ DatagramWaits' /\ TableTypes' /\ Tables'
  BY <1>1 DEF IInv, RegistryTypes, LoopTypes, DatagramWaits, TableTypes, Tables
<1>10. QED
  BY <1>8, <1>9 DEF IInv

LEMMA HangUpStep ==
  ASSUME IInv, NEW k \in Conns, HangUp(k)
  PROVE  IInv'
<1>1. open' = open \ conn[k].fds /\ conn' = [conn EXCEPT ![k] = NoConn] /\ UNCHANGED OtherThreads
  BY DEF HangUp
<1>2. NoConn \in Conn /\ NoConn.fds = {}
  BY DEF NoConn, Conn
<1>3. /\ conn' \in [Conns -> Conn] /\ conn'[k] = NoConn
      /\ \A l \in Conns \ {k} : conn'[l] = conn[l]
  BY <1>1, <1>2 DEF IInv, Held
<1>4. Held'
  <2>1. open' = DOMAIN owner' \cup UNION {conn'[l].fds : l \in Conns}
    BY <1>1, <1>2, <1>3 DEF IInv, Held
  <2>2. \A l \in Conns : conn'[l].fds \cap DOMAIN owner' = {}
    BY <1>1, <1>2, <1>3 DEF IInv, Held
  <2>3. \A l, m \in Conns : l # m => conn'[l].fds \cap conn'[m].fds = {}
    BY <1>2, <1>3 DEF IInv, Held
  <2>4. \A l \in Conns : conn'[l].at = "closed" => conn'[l].fds = {}
    BY <1>2, <1>3 DEF IInv, Held
  <2>5. open' \subseteq Fds
    BY <1>1 DEF IInv, Held
  <2>6. QED
    BY <1>3, <2>1, <2>2, <2>3, <2>4, <2>5 DEF Held
<1>5. RegistryTypes' /\ LoopTypes' /\ DatagramWaits' /\ TableTypes' /\ Tables'
  BY <1>1 DEF IInv, RegistryTypes, LoopTypes, DatagramWaits, TableTypes, Tables
<1>6. QED
  BY <1>4, <1>5 DEF IInv

LEMMA ForwardStep ==
  ASSUME IInv, NEW k \in Conns, Forward(k)
  PROVE  IInv'
<1>1. CASE HangUp(k)
  BY <1>1, HangUpStep
<1>2. CASE ~HangUp(k)
  <2> DEFINE f == Lowest
             c == [conn[k] EXCEPT !.at = "relaying", !.fds = @ \cup {f}, !.up = TRUE, !.down = TRUE]
  <2>1. /\ Free # {} /\ open' = open \cup {f} /\ conn' = [conn EXCEPT ![k] = c]
        /\ UNCHANGED OtherThreads
    BY <1>2 DEF Forward
  <2>2. f \in Fds /\ f \notin open
    BY <2>1, LowestFree
  <2> HIDE DEF f
  <2>3. conn \in [Conns -> Conn] /\ conn[k] \in Conn
    BY DEF IInv, Held
  <2>4. c \in Conn /\ c.fds = conn[k].fds \cup {f} /\ c.at = "relaying"
    BY <2>2, <2>3 DEF Conn
  <2> HIDE DEF c
  <2>5. /\ conn' \in [Conns -> Conn] /\ conn'[k] = c
        /\ \A l \in Conns \ {k} : conn'[l] = conn[l]
    BY <2>1, <2>3, <2>4
  <2>6. Held'
    <3>1. open' = DOMAIN owner' \cup UNION {conn'[l].fds : l \in Conns}
      BY <2>1, <2>4, <2>5 DEF IInv, Held
    <3>2. \A l \in Conns : conn'[l].fds \cap DOMAIN owner' = {}
      BY <2>1, <2>2, <2>4, <2>5 DEF IInv, Held
    <3>3. \A l, m \in Conns : l # m => conn'[l].fds \cap conn'[m].fds = {}
      <4>1. \A l \in Conns : f \notin conn[l].fds
        BY <2>2 DEF IInv, Held
      <4>2. QED
        BY <2>4, <2>5, <4>1 DEF IInv, Held
    <3>4. \A l \in Conns : conn'[l].at = "closed" => conn'[l].fds = {}
      BY <2>4, <2>5 DEF IInv, Held
    <3>5. open' \subseteq Fds
      BY <2>1, <2>2 DEF IInv, Held
    <3>6. QED
      BY <2>5, <3>1, <3>2, <3>3, <3>4, <3>5 DEF Held
  <2>7. RegistryTypes' /\ LoopTypes' /\ DatagramWaits' /\ TableTypes' /\ Tables'
    BY <2>1 DEF IInv, RegistryTypes, LoopTypes, DatagramWaits, TableTypes, Tables
  <2>8. QED
    BY <2>6, <2>7 DEF IInv
<1>3. QED
  BY <1>1, <1>2

LEMMA EndsStep ==
  ASSUME IInv, NEW k \in Conns, UpEnds(k) \/ DownEnds(k)
  PROVE  IInv'
<1>1. UNCHANGED <<OtherThreads, open>>
  BY DEF UpEnds, DownEnds
<1>2. /\ conn' \in [Conns -> Conn]
      /\ \A l \in Conns : conn'[l].at = conn[l].at /\ conn'[l].fds = conn[l].fds
  <2>1. conn \in [Conns -> Conn] /\ conn[k] \in Conn
    BY DEF IInv, Held
  <2>2. ASSUME NEW c, c \in {[conn[k] EXCEPT !.up = FALSE], [conn[k] EXCEPT !.down = FALSE]}
        PROVE  c \in Conn /\ c.at = conn[k].at /\ c.fds = conn[k].fds
    BY <2>1, <2>2 DEF Conn
  <2>3. PICK c \in {[conn[k] EXCEPT !.up = FALSE], [conn[k] EXCEPT !.down = FALSE]} :
          conn' = [conn EXCEPT ![k] = c]
    BY DEF UpEnds, DownEnds
  <2>4. c \in Conn /\ c.at = conn[k].at /\ c.fds = conn[k].fds
    BY <2>2
  <2>5. QED
    BY <2>1, <2>3, <2>4
<1>3. Held'
  <2>1. UNION {conn'[l].fds : l \in Conns} = UNION {conn[l].fds : l \in Conns}
    BY <1>2
  <2>2. QED
    BY <1>1, <1>2, <2>1 DEF IInv, Held
<1>4. RegistryTypes' /\ LoopTypes' /\ DatagramWaits' /\ TableTypes' /\ Tables'
  BY <1>1 DEF IInv, RegistryTypes, LoopTypes, DatagramWaits, TableTypes, Tables
<1>5. QED
  BY <1>3, <1>4 DEF IInv

LEMMA StepInv == IInv /\ [Next]_vars => IInv'
<1> SUFFICES ASSUME IInv, [Next]_vars PROVE IInv'
  OBVIOUS
<1>1. CASE SaveRegistry \/ Saved \/ PanelDies \/ Refresh
  BY <1>1, PanelStep
<1>2. CASE RestartRouter
  BY <1>2, RestartRouterStep
<1>3. CASE ClientSends \/ EngineAnswers \/ \E f \in Fds : ComesOfAge(f)
  BY <1>3, OutsideStep
<1>4. CASE UdpLoop
  BY <1>4, SelectStep, DropStep, OldSessionStep, NewSessionStep, NewOneshotStep, ExhaustedStep,
     AnswerOneshotStep, AnswerSessionStep, ExpireStep DEF UdpLoop
<1>5. ASSUME NEW k \in Conns, Accept(k) \/ Forward(k) \/ UpEnds(k) \/ DownEnds(k) \/ Joined(k)
      PROVE  IInv'
  BY <1>5, AcceptStep, ForwardStep, EndsStep, HangUpStep DEF Joined
<1>6. CASE UNCHANGED vars
  <2>1. RegistryTypes' /\ LoopTypes' /\ DatagramWaits'
    BY <1>6 DEF IInv, RegistryTypes, LoopTypes, DatagramWaits, vars
  <2>2. QED
    BY <1>6, <2>1, TablesIdle DEF IInv, vars
<1>7. QED
  BY <1>1, <1>2, <1>3, <1>4, <1>5, <1>6 DEF Next

LEMMA Invariance == Spec => []IInv
<1>1. QED
  BY InitInv, StepInv, PTL DEF Spec

-----------------------------------------------------------------------------
(* What the invariant says of every state.                                 *)

(* Every variable of the panel's file, the three threads and the kernel    *)
(* keeps its type, whatever is restarted or runs out.                      *)
THEOREM TypeCorrect == Spec => []TypeOK
<1>1. IInv => TypeOK
  BY DEF IInv, RegistryTypes, LoopTypes, TableTypes, Held, Steps, Conn, TypeOK
<1>2. QED
  BY Invariance, <1>1, PTL

(* An answer goes to the client its socket was opened for, although the    *)
(* tables name sockets by descriptors that are closed and taken again by   *)
(* the other threads, and a session only ever speaks to its own engine.    *)
THEOREM AskersAnswered == Spec => []AnswersReachAsker
<1>1. ASSUME IInv, NEW f \in DOMAIN owner
      PROVE  IF f \in DOMAIN oneshot THEN oneshot[f] = owner[f].client
             ELSE f \in DOMAIN bySock /\ bySock[f] = owner[f] /\ owner[f] \in DOMAIN sessions /\ sessions[owner[f]] = f
  BY <1>1 DEF IInv, Tables
<1>2. IInv => AnswersReachAsker
  BY <1>1 DEF AnswersReachAsker
<1>3. QED
  BY Invariance, <1>2, PTL

(* No descriptor is lost or held twice: what is open is a socket in        *)
(* exactly one table of the UDP thread, or is held by one connection.      *)
THEOREM NoneLost == Spec => []DescriptorsOwned
<1>1. IInv => DescriptorsOwned
  BY DEF IInv, Tables, Held, DescriptorsOwned
<1>2. QED
  BY Invariance, <1>1, PTL
=============================================================================
