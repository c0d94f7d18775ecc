------------------------- MODULE XrayConfigProofs -------------------------
(***************************************************************************)
(* TypeOK, RoutesLead and DeletedGone of XrayConfig, for every number of   *)
(* users, paths and ports.                                                 *)
(***************************************************************************)
EXTENDS XrayConfig, FiniteSetTheorems, SequenceTheorems, WellFoundedInduction, TLAPS

USE DEF files, web, panel

-----------------------------------------------------------------------------
(* Pruning: the rounds reach a configuration the next would leave alone.   *)

Maps(K, V) == UNION {[D -> V] : D \in SUBSET K}
Configs == Maps(Ports, Inbounds)

(* Every route leads to an inbound that is there, and every inbound has a  *)
(* use.                                                                    *)
Clean(c) ==
  \A p \in DOMAIN c :
    (\A r \in c[p].routes : r.dest \in DOMAIN c) /\ (c[p].clients # {} \/ c[p].routes # {})

(* What n rounds make of a configuration, as Prune defines it.             *)
Rounds(c) == CHOOSE f : f = [n \in Nat |-> IF n = 0 THEN c ELSE Round(f[n - 1])]

LEMMA ConfigsDef ==
  ASSUME NEW c
  PROVE  c \in Configs <=> DOMAIN c \subseteq Ports /\ c \in [DOMAIN c -> Inbounds]
BY DEF Configs, Maps

(* Induction over a set of numbers.                                        *)
LEMMA Induction ==
  ASSUME NEW S, 0 \in S, \A n \in Nat : n \in S => n + 1 \in S
  PROVE  \A n \in Nat : n \in S
<1> SUFFICES ASSUME NEW n \in Nat, n \notin S PROVE FALSE
  OBVIOUS
<1> DEFINE R == OpToRel(<, Nat)
           T == Nat \ S
<1>1. R = {ss \in Nat \X Nat : ss[1] < ss[2]}
  BY DEF OpToRel
<1>2. IsWellFoundedOn(R, Nat)
  BY NatLessThanWellFounded, Zenon
<1>3. T \subseteq Nat /\ T # {}
  OBVIOUS
<1> HIDE DEF R, T
<1>4. PICK m \in T : \A k \in T : ~ (<<k, m>> \in R)
  BY <1>2, <1>3, WFMin, Zenon
<1>5. m \in Nat /\ m \notin S /\ m # 0
  BY <1>4 DEF T
<1>6. m - 1 \in Nat /\ m - 1 < m /\ (m - 1) + 1 = m
  BY <1>5
<1>7. m - 1 \notin S
  BY <1>5, <1>6
<1>8. m - 1 \in T
  BY <1>6, <1>7 DEF T
<1>9. <<m - 1, m>> \in R
  BY <1>1, <1>5, <1>6
<1>10. QED
  BY <1>4, <1>8, <1>9

(* The rounds are defined: the function exists, put together from those    *)
(* that go as far as some n.                                               *)
LEMMA RoundsDefined ==
  ASSUME NEW c
  PROVE  Rounds(c)[0] = c /\ \A n \in Nat : Rounds(c)[n + 1] = Round(Rounds(c)[n])
<1> DEFINE UpTo(h, n) == h[0] = c /\ \A k \in 0..(n - 1) : h[k + 1] = Round(h[k])
           S == {n \in Nat : \E h : UpTo(h, n)}
<1>1. \A n \in Nat : \E h : UpTo(h, n)
  <2>1. 0 \in S
    <3>1. UpTo([k \in {0} |-> c], 0)
      OBVIOUS
    <3>2. QED
      BY <3>1, Zenon
  <2>2. ASSUME NEW n \in Nat, n \in S PROVE n + 1 \in S
    <3>1. PICK h : UpTo(h, n)
      BY <2>2
    <3> DEFINE g == [k \in 0..(n + 1) |-> IF k = n + 1 THEN Round(h[n]) ELSE h[k]]
    <3>2. g[0] = c
      BY <3>1
    <3>3. ASSUME NEW k \in 0..n PROVE g[k + 1] = Round(g[k])
      <4>1. CASE k = n
        BY <4>1
      <4>2. CASE k # n
        <5>1. k \in 0..(n - 1)
          BY <4>2
        <5>2. h[k + 1] = Round(h[k])
          BY <3>1, <5>1
        <5>3. g[k + 1] = h[k + 1] /\ g[k] = h[k]
          BY <5>1
        <5>4. QED
          BY <5>2, <5>3
      <4>3. QED
        BY <4>1, <4>2
    <3>4. (n + 1) - 1 = n
      OBVIOUS
    <3> HIDE DEF g
    <3>5. UpTo(g, n + 1)
      BY <3>2, <3>3, <3>4
    <3>6. QED
      BY <3>5
  <2> HIDE DEF S
  <2>3. \A n \in Nat : n \in S
    BY <2>1, <2>2, Induction
  <2>4. QED
    BY <2>3 DEF S
<1>2. ASSUME NEW m \in Nat, NEW g, NEW n \in Nat, NEW h, UpTo(g, m), UpTo(h, n)
      PROVE  \A k \in Nat : k <= m /\ k <= n => g[k] = h[k]
  <2> DEFINE A == {k \in Nat : k <= m /\ k <= n => g[k] = h[k]}
  <2>1. 0 \in A
    BY <1>2
  <2>2. ASSUME NEW k \in Nat, k \in A PROVE k + 1 \in A
    <3>1. CASE k + 1 <= m /\ k + 1 <= n
      <4>1. k \in 0..(m - 1) /\ k \in 0..(n - 1) /\ k <= m /\ k <= n
        BY <3>1
      <4>2. g[k + 1] = Round(g[k]) /\ h[k + 1] = Round(h[k])
        BY <1>2, <4>1
      <4>3. QED
        BY <2>2, <4>1, <4>2
    <3>2. QED
      BY <3>1
  <2> HIDE DEF A
  <2>3. \A k \in Nat : k \in A
    BY <2>1, <2>2, Induction
  <2>4. QED
    BY <2>3 DEF A
<1> DEFINE H(n) == CHOOSE h : UpTo(h, n)
           f == [n \in Nat |-> H(n)[n]]
<1> HIDE DEF UpTo
<1>3. \A n \in Nat : UpTo(H(n), n)
  BY <1>1
<1> HIDE DEF H
<1>4. f[0] = c
  BY <1>3 DEF UpTo
<1>5. ASSUME NEW n \in Nat PROVE f[n + 1] = Round(f[n])
  <2>1. n + 1 \in Nat /\ n \in 0..((n + 1) - 1) /\ n <= n /\ n <= n + 1
    OBVIOUS
  <2>2. H(n + 1)[n + 1] = Round(H(n + 1)[n])
    BY <1>3, <2>1 DEF UpTo
  <2>3. H(n + 1)[n] = H(n)[n]
    BY <1>2, <1>3, <2>1
  <2>4. QED
    BY <2>1, <2>2, <2>3
<1>6. f = [n \in Nat |-> IF n = 0 THEN c ELSE Round(f[n - 1])]
  <2>1. ASSUME NEW n \in Nat PROVE f[n] = IF n = 0 THEN c ELSE Round(f[n - 1])
    <3>1. CASE n = 0
      BY <1>4, <3>1
    <3>2. CASE n # 0
      <4>1. n - 1 \in Nat /\ (n - 1) + 1 = n
        BY <3>2
      <4>2. f[(n - 1) + 1] = Round(f[n - 1])
        BY <1>5, <4>1
      <4>3. QED
        BY <3>2, <4>1, <4>2
    <3>3. QED
      BY <3>1, <3>2
  <2>2. QED
    BY <2>1
<1> HIDE DEF f
<1>7. Rounds(c) = [n \in Nat |-> IF n = 0 THEN c ELSE Round(Rounds(c)[n - 1])]
  BY <1>6, Zenon DEF Rounds
<1>8. Rounds(c)[0] = c
  BY <1>7
<1>9. ASSUME NEW n \in Nat PROVE Rounds(c)[n + 1] = Round(Rounds(c)[n])
  <2>1. n + 1 \in Nat /\ n + 1 # 0 /\ (n + 1) - 1 = n
    OBVIOUS
  <2>2. Rounds(c)[n + 1] = IF n + 1 = 0 THEN c ELSE Round(Rounds(c)[(n + 1) - 1])
    BY <1>7, <2>1
  <2>3. QED
    BY <2>1, <2>2
<1>10. QED
  BY <1>8, <1>9

LEMMA PruneRounds ==
  ASSUME NEW c
  PROVE  Prune(c) = Rounds(c)[Cardinality(DOMAIN c) + 1]
BY DEF Prune, Rounds

(* One round: which inbounds it keeps and what it changes of them.         *)
LEMMA RoundFacts ==
  ASSUME NEW c \in Configs
  PROVE  /\ Round(c) \in Configs
         /\ DOMAIN Round(c) =
              {p \in DOMAIN c : c[p].clients # {} \/ \E r \in c[p].routes : r.dest \in DOMAIN c}
         /\ \A p \in DOMAIN Round(c) :
              /\ Round(c)[p].shape = c[p].shape /\ Round(c)[p].path = c[p].path
              /\ Round(c)[p].clients = c[p].clients
              /\ Round(c)[p].routes = {r \in c[p].routes : r.dest \in DOMAIN c}
<1> DEFINE l == Relinked(c)
           D == {p \in DOMAIN c : c[p].clients # {} \/ \E r \in c[p].routes : r.dest \in DOMAIN c}
<1>1. DOMAIN c \subseteq Ports /\ \A p \in DOMAIN c : c[p] \in Inbounds
  BY ConfigsDef
<1>2. DOMAIN l = DOMAIN c
  BY DEF Relinked
<1>3. ASSUME NEW p \in DOMAIN c
      PROVE  /\ l[p] \in Inbounds
             /\ l[p].shape = c[p].shape /\ l[p].path = c[p].path /\ l[p].clients = c[p].clients
             /\ l[p].routes = {r \in c[p].routes : r.dest \in DOMAIN c} /\ l[p].decoy = FALSE
  <2> DEFINE i == c[p]
             live == RouteLive(c, i.routes)
  <2>1. l[p] = [i EXCEPT !.routes = live, !.decoy = FALSE]
    BY DEF Relinked
  <2>2. live = {r \in i.routes : r.dest \in DOMAIN c}
    BY DEF RouteLive
  <2>3. i \in Inbounds
    BY <1>1
  <2> HIDE DEF live, i
  <2>4. live \subseteq i.routes
    BY <2>2
  <2>5. live \in SUBSET Routes
    BY <2>3, <2>4 DEF Inbounds
  <2>6. /\ l[p] \in Inbounds
        /\ l[p].shape = i.shape /\ l[p].path = i.path /\ l[p].clients = i.clients
        /\ l[p].routes = live /\ l[p].decoy = FALSE
    BY <2>1, <2>3, <2>5 DEF Inbounds
  <2>7. QED
    BY <2>2, <2>6 DEF i
<1> HIDE DEF l
<1>4. ASSUME NEW p \in DOMAIN c PROVE Used(l[p]) <=> p \in D
  BY <1>3, Zenon DEF Used
<1>5. Round(c) = [p \in D |-> l[p]]
  <2>1. Round(c) = Only(l, {p \in DOMAIN l : Used(l[p])})
    BY DEF Round, l
  <2>2. {p \in DOMAIN l : Used(l[p])} = D
    BY <1>2, <1>4
  <2>3. DOMAIN l \cap D = D
    BY <1>2
  <2>4. QED
    BY <2>1, <2>2, <2>3 DEF Only
<1>6. D \subseteq DOMAIN c
  OBVIOUS
<1> HIDE DEF D
<1>7. Round(c) \in [D -> Inbounds] /\ D \subseteq Ports /\ DOMAIN Round(c) = D
  BY <1>1, <1>3, <1>5, <1>6
<1>8. Round(c) \in Configs
  BY <1>7, ConfigsDef
<1>9. \A p \in DOMAIN Round(c) :
        /\ Round(c)[p].shape = c[p].shape /\ Round(c)[p].path = c[p].path
        /\ Round(c)[p].clients = c[p].clients
        /\ Round(c)[p].routes = {r \in c[p].routes : r.dest \in DOMAIN c}
  BY <1>3, <1>5, <1>6, <1>7
<1>10. QED
  BY <1>7, <1>8, <1>9 DEF D

(* What any number of rounds keeps: everyone who is served, and every      *)
(* route to an inbound that is left, with the inbound it starts from.      *)
Pruned(c, d) ==
  /\ d \in Configs /\ DOMAIN d \subseteq DOMAIN c
  /\ \A p \in DOMAIN d :
       /\ d[p].shape = c[p].shape /\ d[p].path = c[p].path /\ d[p].clients = c[p].clients
       /\ d[p].routes \subseteq c[p].routes
  /\ \A p \in DOMAIN c : c[p].clients # {} => p \in DOMAIN d
  /\ \A q \in DOMAIN c : \A r \in c[q].routes : r.dest \in DOMAIN d => q \in DOMAIN d /\ r \in d[q].routes

LEMMA PrunedRound ==
  ASSUME NEW c \in Configs, NEW d, Pruned(c, d)
  PROVE  Pruned(c, Round(d)) /\ DOMAIN Round(d) \subseteq DOMAIN d
<1> DEFINE e == Round(d)
<1>1. d \in Configs
  BY DEF Pruned
<1>2. /\ e \in Configs
      /\ DOMAIN e = {p \in DOMAIN d : d[p].clients # {} \/ \E r \in d[p].routes : r.dest \in DOMAIN d}
      /\ \A p \in DOMAIN e :
           /\ e[p].shape = d[p].shape /\ e[p].path = d[p].path /\ e[p].clients = d[p].clients
           /\ e[p].routes = {r \in d[p].routes : r.dest \in DOMAIN d}
  BY <1>1, RoundFacts
<1> HIDE DEF e
<1>3. DOMAIN e \subseteq DOMAIN d /\ DOMAIN e \subseteq DOMAIN c
  BY <1>2 DEF Pruned
<1>4. \A p \in DOMAIN e :
        /\ e[p].shape = c[p].shape /\ e[p].path = c[p].path /\ e[p].clients = c[p].clients
        /\ e[p].routes \subseteq c[p].routes
  BY <1>2, <1>3 DEF Pruned
<1>5. \A p \in DOMAIN c : c[p].clients # {} => p \in DOMAIN e
  BY <1>2 DEF Pruned
<1>6. ASSUME NEW q \in DOMAIN c, NEW r \in c[q].routes, r.dest \in DOMAIN e
      PROVE  q \in DOMAIN e /\ r \in e[q].routes
  <2>1. r.dest \in DOMAIN d
    BY <1>3, <1>6
  <2>2. q \in DOMAIN d /\ r \in d[q].routes
    BY <2>1 DEF Pruned
  <2>3. QED
    BY <1>2, <2>1, <2>2
<1>7. QED
  BY <1>2, <1>3, <1>4, <1>5, <1>6 DEF Pruned, e

LEMMA RoundsPruned ==
  ASSUME NEW c \in Configs
  PROVE  \A n \in Nat : Pruned(c, Rounds(c)[n])
<1> DEFINE S == {n \in Nat : Pruned(c, Rounds(c)[n])}
<1>1. 0 \in S
  <2>1. Pruned(c, c)
    BY DEF Pruned
  <2>2. QED
    BY <2>1, RoundsDefined
<1>2. ASSUME NEW n \in Nat, n \in S PROVE n + 1 \in S
  <2>1. Pruned(c, Round(Rounds(c)[n]))
    BY <1>2, PrunedRound
  <2>2. QED
    BY <2>1, RoundsDefined
<1> HIDE DEF S
<1>3. \A n \in Nat : n \in S
  BY <1>1, <1>2, Induction
<1>4. QED
  BY <1>3 DEF S

(* A round that removes no inbound leaves a clean configuration, and a     *)
(* clean one stays so.                                                     *)
LEMMA RoundCleans ==
  ASSUME NEW d \in Configs
  PROVE  /\ DOMAIN Round(d) = DOMAIN d => Clean(Round(d))
         /\ Clean(d) => Clean(Round(d))
<1> DEFINE e == Round(d)
<1>1. /\ DOMAIN e = {p \in DOMAIN d : d[p].clients # {} \/ \E r \in d[p].routes : r.dest \in DOMAIN d}
      /\ \A p \in DOMAIN e :
           /\ e[p].clients = d[p].clients
           /\ e[p].routes = {r \in d[p].routes : r.dest \in DOMAIN d}
  BY RoundFacts
<1> HIDE DEF e
<1>2. ASSUME DOMAIN e = DOMAIN d PROVE Clean(e)
  BY <1>1, <1>2 DEF Clean
<1>3. ASSUME Clean(d) PROVE DOMAIN e = DOMAIN d
  BY <1>1, <1>3 DEF Clean
<1>4. QED
  BY <1>2, <1>3 DEF e

(* Pruning ends with no route that leads nowhere and no inbound without a  *)
(* use: every round but the last removes an inbound, and there are only as *)
(* many rounds to go as there were inbounds.                               *)
THEOREM PruneCleans ==
  ASSUME NEW c \in Configs
  PROVE  Prune(c) \in Configs /\ Pruned(c, Prune(c)) /\ Clean(Prune(c))
<1> DEFINE R == Rounds(c)
           D(n) == DOMAIN R[n]
           N == Cardinality(DOMAIN c)
           Stable(k) == D(k + 1) = D(k)
<1>1. \A n \in Nat : R[n + 1] = Round(R[n])
  BY RoundsDefined
<1>2. \A n \in Nat : Pruned(c, R[n])
  BY RoundsPruned
<1>3. R[0] = c
  BY RoundsDefined
<1> HIDE DEF R
<1>4. \A n \in Nat : R[n] \in Configs
  BY <1>2 DEF Pruned
<1>5. IsFiniteSet(DOMAIN c)
  BY PortsAssumption, ConfigsDef, FS_Subset DEF Ports
<1>6. \A n \in Nat : IsFiniteSet(D(n))
  BY <1>2, <1>5, FS_Subset DEF Pruned
<1>7. \A n \in Nat : D(n + 1) \subseteq D(n)
  <2> SUFFICES ASSUME NEW n \in Nat PROVE D(n + 1) \subseteq D(n)
    OBVIOUS
  <2>1. DOMAIN Round(R[n]) \subseteq DOMAIN R[n]
    BY <1>2, PrunedRound
  <2>2. QED
    BY <1>1, <2>1
<1>8. D(0) = DOMAIN c
  BY <1>3
<1> HIDE DEF D
<1>9. N \in Nat /\ \A n \in Nat : Cardinality(D(n)) \in Nat
  BY <1>5, <1>6, FS_CardinalityType
<1> DEFINE S == {n \in Nat : (\E k \in Nat : k < n /\ Stable(k)) \/ Cardinality(D(n)) + n <= N}
<1>10. 0 \in S
  BY <1>8, <1>9
<1>11. ASSUME NEW n \in Nat, n \in S PROVE n + 1 \in S
  <2>1. CASE \E k \in Nat : k < n /\ Stable(k)
    BY <2>1
  <2>2. CASE Stable(n)
    BY <2>2
  <2>3. CASE ~ Stable(n) /\ Cardinality(D(n)) + n <= N
    <3>1. Cardinality(D(n + 1)) < Cardinality(D(n))
      <4>1. Cardinality(D(n + 1)) <= Cardinality(D(n))
        BY <1>6, <1>7, FS_Subset
      <4>2. Cardinality(D(n + 1)) # Cardinality(D(n))
        <5>1. D(n + 1) \subseteq D(n) /\ IsFiniteSet(D(n))
          BY <1>6, <1>7
        <5>2. QED
          BY <2>3, <5>1, FS_Subset
      <4>3. QED
        BY <1>9, <4>1, <4>2
    <3>2. Cardinality(D(n + 1)) + (n + 1) <= N
      BY <1>9, <2>3, <3>1
    <3>3. QED
      BY <3>2
  <2>4. QED
    BY <1>11, <2>1, <2>2, <2>3
<1> HIDE DEF S
<1>12. \A n \in Nat : n \in S
  BY <1>10, <1>11, Induction
<1>13. PICK k \in Nat : k < N + 1 /\ Stable(k)
  BY <1>9, <1>12 DEF S
<1>14. Clean(R[k + 1])
  BY <1>1, <1>4, <1>13, RoundCleans DEF D
<1> DEFINE T == {n \in Nat : n >= k + 1 => Clean(R[n])}
<1>15. 0 \in T
  OBVIOUS
<1>16. ASSUME NEW n \in Nat, n \in T PROVE n + 1 \in T
  <2>1. CASE n + 1 = k + 1
    BY <1>14, <2>1
  <2>2. CASE n + 1 > k + 1
    <3>1. Clean(R[n])
      BY <1>16, <2>2
    <3>2. Clean(R[n + 1])
      BY <1>1, <1>4, <3>1, RoundCleans
    <3>3. QED
      BY <3>2
  <2>3. QED
    BY <2>1, <2>2
<1> HIDE DEF T
<1>17. \A n \in Nat : n \in T
  BY <1>15, <1>16, Induction
<1>18. Clean(R[N + 1])
  BY <1>9, <1>13, <1>17 DEF T
<1>19. Prune(c) = R[N + 1]
  BY PruneRounds DEF R
<1>20. QED
  BY <1>2, <1>4, <1>9, <1>18, <1>19

-----------------------------------------------------------------------------
(* What the options do to a configuration.                                 *)

Entries == [port : Public, path : Paths]
Trackers == Maps(Users, Entries)

(* The part of RoutesLead that is about routes, and what keeps a guest     *)
(* reachable: only a front that has fallbacks hands anything on.           *)
Linked(c) ==
  \A p \in DOMAIN c :
    /\ \A r \in c[p].routes : r.dest \in DOMAIN c \cap Internal
    /\ c[p].routes # {} => c[p].shape \in Fronts
    /\ p \in Internal /\ c[p].shape \in Tls => \E q \in DOMAIN c \cap Public : \E r \in c[q].routes : r.dest = p

AllUsed(c) == \A p \in DOMAIN c : Used(c[p])
Good(c) == c \in Configs /\ Linked(c) /\ AllUsed(c)

LEMMA MapsDef ==
  ASSUME NEW K, NEW V, NEW f
  PROVE  f \in Maps(K, V) <=> DOMAIN f \subseteq K /\ f \in [DOMAIN f -> V]
BY DEF Maps

(* A part of a map is one.                                                 *)
LEMMA OnlyMap ==
  ASSUME NEW K, NEW V, NEW f \in Maps(K, V), NEW S
  PROVE  Only(f, S) \in Maps(K, V)
<1>1. DOMAIN f \subseteq K /\ f \in [DOMAIN f -> V]
  BY MapsDef
<1>2. DOMAIN Only(f, S) \subseteq K /\ Only(f, S) \in [DOMAIN Only(f, S) -> V]
  BY <1>1 DEF Only
<1>3. QED
  BY <1>2, MapsDef

(* A map with one more entry is one.                                       *)
LEMMA PutMap ==
  ASSUME NEW K, NEW V, NEW f \in Maps(K, V), NEW x \in K, NEW v \in V
  PROVE  Put(f, x, v) \in Maps(K, V)
<1>1. DOMAIN f \subseteq K /\ f \in [DOMAIN f -> V]
  BY MapsDef
<1>2. DOMAIN Put(f, x, v) \subseteq K /\ Put(f, x, v) \in [DOMAIN Put(f, x, v) -> V]
  BY <1>1 DEF Put
<1>3. QED
  BY <1>2, MapsDef

(* A map with one value changed is one.                                    *)
LEMMA ChangeMap ==
  ASSUME NEW K, NEW V, NEW f \in Maps(K, V), NEW x \in DOMAIN f, NEW v \in V
  PROVE  [f EXCEPT ![x] = v] \in Maps(K, V)
<1>1. DOMAIN f \subseteq K /\ f \in [DOMAIN f -> V]
  BY MapsDef
<1>2. DOMAIN [f EXCEPT ![x] = v] \subseteq K /\ [f EXCEPT ![x] = v] \in [DOMAIN [f EXCEPT ![x] = v] -> V]
  BY <1>1
<1>3. QED
  BY <1>2, MapsDef

(* An inbound with one field changed.                                      *)
LEMMA ClientsChanged ==
  ASSUME NEW i \in Inbounds, NEW S \in SUBSET Users
  PROVE  /\ [i EXCEPT !.clients = S] \in Inbounds
         /\ [i EXCEPT !.clients = S].clients = S
         /\ [i EXCEPT !.clients = S].shape = i.shape
         /\ [i EXCEPT !.clients = S].path = i.path
         /\ [i EXCEPT !.clients = S].routes = i.routes
         /\ [i EXCEPT !.clients = S].decoy = i.decoy
BY DEF Inbounds

LEMMA PathChanged ==
  ASSUME NEW i \in Inbounds, NEW x \in Paths
  PROVE  /\ [i EXCEPT !.path = x] \in Inbounds
         /\ [i EXCEPT !.path = x].path = x
         /\ [i EXCEPT !.path = x].clients = i.clients
         /\ [i EXCEPT !.path = x].shape = i.shape
         /\ [i EXCEPT !.path = x].routes = i.routes
         /\ [i EXCEPT !.path = x].decoy = i.decoy
BY DEF Inbounds

LEMMA RoutesChanged ==
  ASSUME NEW i \in Inbounds, NEW S \in SUBSET Routes
  PROVE  /\ [i EXCEPT !.routes = S] \in Inbounds
         /\ [i EXCEPT !.routes = S].routes = S
         /\ [i EXCEPT !.routes = S].clients = i.clients
         /\ [i EXCEPT !.routes = S].shape = i.shape
         /\ [i EXCEPT !.routes = S].path = i.path
         /\ [i EXCEPT !.routes = S].decoy = i.decoy
BY DEF Inbounds

LEMMA DecoyChanged ==
  ASSUME NEW i \in Inbounds, NEW b \in BOOLEAN
  PROVE  /\ [i EXCEPT !.decoy = b] \in Inbounds
         /\ [i EXCEPT !.decoy = b].decoy = b
         /\ [i EXCEPT !.decoy = b].clients = i.clients
         /\ [i EXCEPT !.decoy = b].shape = i.shape
         /\ [i EXCEPT !.decoy = b].path = i.path
         /\ [i EXCEPT !.decoy = b].routes = i.routes
BY DEF Inbounds

LEMMA GoodEmpty == Good(Empty)
<1>1. DOMAIN Empty = {}
  BY DEF Empty
<1>2. Empty \in Configs
  <2>1. Empty \in [{} -> Inbounds]
    BY DEF Empty
  <2>2. QED
    BY <1>1, <2>1, ConfigsDef
<1>3. QED
  BY <1>1, <1>2 DEF Good, Linked, AllUsed

LEMMA GoodInb ==
  ASSUME NEW c, Good(c)
  PROVE  Good(Inb(c))
BY GoodEmpty DEF Inb

(* Inbounds that keep their shape and what they lead to stay linked.       *)
LEMMA LinkedKept ==
  ASSUME NEW c, Linked(c), NEW d, DOMAIN d = DOMAIN c,
         \A p \in DOMAIN c : /\ d[p].shape = c[p].shape
                             /\ \A r \in d[p].routes : \E t \in c[p].routes : t.dest = r.dest
                             /\ \A t \in c[p].routes : \E r \in d[p].routes : r.dest = t.dest
  PROVE  Linked(d)
<1> SUFFICES ASSUME NEW p \in DOMAIN c
             PROVE  /\ \A r \in d[p].routes : r.dest \in DOMAIN c \cap Internal
                    /\ d[p].routes # {} => d[p].shape \in Fronts
                    /\ p \in Internal /\ d[p].shape \in Tls =>
                         \E q \in DOMAIN c \cap Public : \E r \in d[q].routes : r.dest = p
  BY DEF Linked
<1>1. \A r \in d[p].routes : r.dest \in DOMAIN c \cap Internal
  BY DEF Linked
<1>2. d[p].routes # {} => d[p].shape \in Fronts
  BY DEF Linked
<1>3. ASSUME p \in Internal, d[p].shape \in Tls
      PROVE  \E q \in DOMAIN c \cap Public : \E r \in d[q].routes : r.dest = p
  <2>1. PICK q \in DOMAIN c \cap Public : \E t \in c[q].routes : t.dest = p
    BY <1>3 DEF Linked
  <2>2. PICK t \in c[q].routes : t.dest = p
    BY <2>1
  <2>3. \E r \in d[q].routes : r.dest = t.dest
    BY <2>2
  <2>4. QED
    BY <2>1, <2>2, <2>3
<1>4. QED
  BY <1>1, <1>2, <1>3

(* Pruning what is linked leaves what is good.                             *)
LEMMA PruneGood ==
  ASSUME NEW c \in Configs, Linked(c)
  PROVE  Good(Prune(c))
<1> DEFINE d == Prune(c)
<1>1. d \in Configs /\ Pruned(c, d) /\ Clean(d)
  BY PruneCleans
<1> HIDE DEF d
<1>2. AllUsed(d)
  BY <1>1 DEF Clean, AllUsed, Used
<1>3. ASSUME NEW p \in DOMAIN d
      PROVE  /\ \A r \in d[p].routes : r.dest \in DOMAIN d \cap Internal
             /\ d[p].routes # {} => d[p].shape \in Fronts
  <2>1. p \in DOMAIN c /\ d[p].shape = c[p].shape /\ d[p].routes \subseteq c[p].routes
    BY <1>1 DEF Pruned
  <2>2. \A r \in d[p].routes : r.dest \in DOMAIN d
    BY <1>1 DEF Clean
  <2>3. QED
    BY <2>1, <2>2 DEF Linked
<1>4. ASSUME NEW p \in DOMAIN d, p \in Internal, d[p].shape \in Tls
      PROVE  \E q \in DOMAIN d \cap Public : \E r \in d[q].routes : r.dest = p
  <2>1. p \in DOMAIN c /\ d[p].shape = c[p].shape
    BY <1>1 DEF Pruned
  <2>2. PICK q \in DOMAIN c \cap Public : \E r \in c[q].routes : r.dest = p
    BY <1>4, <2>1 DEF Linked
  <2>3. PICK r \in c[q].routes : r.dest = p
    BY <2>2
  <2>4. q \in DOMAIN d /\ r \in d[q].routes
    BY <1>1, <2>3 DEF Pruned
  <2>5. QED
    BY <2>2, <2>3, <2>4
<1>5. Linked(d)
  BY <1>3, <1>4 DEF Linked
<1>6. QED
  BY <1>1, <1>2, <1>5 DEF Good, d

-----------------------------------------------------------------------------
(* The invariant: what is written, what was read and what is planned are   *)
(* all good configurations, and the faults are as many as were counted.    *)
PlanTyped(p) ==
  /\ Good(Inb(p.conf)) /\ p.tracker \in Trackers
  /\ p.mux \subseteq MuxRoutes /\ p.ports \subseteq Ports

IInv ==
  /\ Good(Inb(conf)) /\ Good(Inb(before)) /\ PlanTyped(plan)
  /\ tracker \in Trackers /\ running \in Configs
  /\ mux \cup sites \cup nginx \subseteq MuxRoutes /\ open \subseteq Ports
  /\ crashes \in Nat /\ refusals \in Nat /\ crashes + refusals <= MaxFaults

(* An option that starts only writes down what it has worked out.          *)
LEMMA StartKeeps ==
  ASSUME IInv, NEW o, NEW steps, NEW p, PlanTyped(p), Start(o, steps, p)
  PROVE  IInv'
<1>1. /\ plan' = p /\ before' = conf /\ conf' = conf /\ tracker' = tracker /\ mux' = mux
      /\ sites' = sites /\ nginx' = nginx /\ running' = running /\ open' = open
      /\ crashes' = crashes /\ refusals' = refusals
  BY DEF Start
<1>2. PlanTyped(plan)'
  BY <1>1 DEF PlanTyped, Good, Linked, AllUsed, Inb, Found, Empty, Used
<1>3. QED
  BY <1>1, <1>2 DEF IInv, Good, Linked, AllUsed, Inb, Found, Empty, Used

LEMMA AddPlanTyped ==
  ASSUME IInv, NEW u \in Users, NEW port \in Public, NEW x \in Paths,
         NEW c, Good(c), NEW m \in SUBSET MuxRoutes, NEW ports \in SUBSET Ports
  PROVE  PlanTyped(AddPlan(u, port, x, c, m, ports))
<1> DEFINE e == [port |-> port, path |-> x]
<1>1. e \in Entries
  BY DEF Entries
<1>2. tracker \in Trackers
  BY DEF IInv
<1>3. Put(tracker, u, e) \in Trackers
  BY <1>1, <1>2, PutMap DEF Trackers
<1>4. Good(Inb(c))
  BY GoodInb
<1>5. QED
  BY <1>3, <1>4 DEF AddPlan, PlanTyped

(* A path that is converted is still one.                                  *)
LEMMA PathsStay ==
  ASSUME NEW s, NEW x \in Paths
  PROVE  Asked(s, x) \in Paths /\ Kept(s, x) \in Paths /\ Lead[x] \in Paths
BY SpellingAssumption DEF Asked, Kept

LEMMA NewInboundTyped ==
  ASSUME NEW s \in Shapes, NEW x \in Paths, NEW u \in Users
  PROVE  /\ NewInbound(s, x, u) \in Inbounds
         /\ NewInbound(s, x, u).shape = s /\ NewInbound(s, x, u).routes = {}
         /\ NewInbound(s, x, u).clients = {u}
         /\ Used(NewInbound(s, x, u))
BY PathsStay DEF NewInbound, Inbounds, Used

(* One more inbound, that something leads to if it has to be led to.       *)
LEMMA GoodPut ==
  ASSUME NEW c, Good(c), NEW x \in Ports, x \notin DOMAIN c, NEW i \in Inbounds,
         Used(i), i.routes = {}, x \in Internal => i.shape \notin Tls
  PROVE  Good(Put(c, x, i))
<1> DEFINE d == Put(c, x, i)
<1>1. d \in Configs
  BY PutMap DEF Configs, Good
<1>2. DOMAIN d = DOMAIN c \cup {x} /\ d[x] = i /\ \A p \in DOMAIN c : d[p] = c[p]
  BY DEF Put
<1> HIDE DEF d
<1>3. AllUsed(d)
  BY <1>2 DEF Good, AllUsed
<1>4. ASSUME NEW p \in DOMAIN d
      PROVE  /\ \A r \in d[p].routes : r.dest \in DOMAIN d \cap Internal
             /\ d[p].routes # {} => d[p].shape \in Fronts
             /\ p \in Internal /\ d[p].shape \in Tls =>
                  \E q \in DOMAIN d \cap Public : \E r \in d[q].routes : r.dest = p
  <2>1. CASE p = x
    BY <1>2, <2>1
  <2>2. CASE p \in DOMAIN c
    <3>1. d[p] = c[p]
      BY <1>2, <2>2
    <3>2. /\ \A r \in c[p].routes : r.dest \in DOMAIN c \cap Internal
          /\ c[p].routes # {} => c[p].shape \in Fronts
      BY <2>2 DEF Good, Linked
    <3>3. ASSUME p \in Internal, c[p].shape \in Tls
          PROVE  \E q \in DOMAIN d \cap Public : \E r \in d[q].routes : r.dest = p
      <4>1. PICK q \in DOMAIN c \cap Public : \E r \in c[q].routes : r.dest = p
        BY <2>2, <3>3 DEF Good, Linked
      <4>2. q \in DOMAIN d \cap Public /\ d[q] = c[q]
        BY <1>2, <4>1
      <4>3. QED
        BY <4>1, <4>2
    <3>4. QED
      BY <1>2, <3>1, <3>2, <3>3
  <2>3. QED
    BY <1>2, <2>1, <2>2
<1>5. Linked(d)
  BY <1>4 DEF Linked
<1>6. QED
  BY <1>1, <1>3, <1>5 DEF Good, d

LEMMA AddAloneKeeps ==
  ASSUME IInv, NEW u \in Users, NEW port \in Public, NEW s \in Shapes, NEW x \in Paths,
         AddAlone(u, port, s, x)
  PROVE  IInv'
<1> DEFINE c == Inb(conf)
           i == NewInbound(s, x, u)
           d == Put(c, port, i)
           p == AddPlan(u, port, x, d, mux, {port})
<1>1. port \notin DOMAIN c /\ \E o, steps : Start(o, steps, p)
  BY Zenon DEF AddAlone
<1>2. i \in Inbounds /\ Used(i) /\ i.routes = {}
  BY NewInboundTyped
<1>3. port \in Ports /\ port \notin Internal /\ {port} \in SUBSET Ports
  BY PortsAssumption DEF Ports
<1>4. Good(c) /\ mux \in SUBSET MuxRoutes
  BY DEF IInv
<1> HIDE DEF c, i
<1>5. Good(d)
  BY <1>1, <1>2, <1>3, <1>4, GoodPut
<1> HIDE DEF d
<1>6. PlanTyped(p)
  BY <1>3, <1>4, <1>5, AddPlanTyped
<1> HIDE DEF p
<1>7. QED
  BY <1>1, <1>6, StartKeeps

(* One more client of an inbound.                                          *)
LEMMA AddJoiningKeeps ==
  ASSUME IInv, NEW u \in Users, NEW port \in Public, NEW s \in Shapes, NEW x \in Paths,
         AddJoining(u, port, s, x)
  PROVE  IInv'
<1> DEFINE c == Inb(conf)
           i == c[port]
           S == i.clients \cup {u}
           j == [i EXCEPT !.clients = S]
           d == [c EXCEPT ![port] = j]
           p == AddPlan(u, port, x, d, mux, {})
<1>1. [c EXCEPT ![port].clients = @ \cup {u}] = d
  OBVIOUS
<1>2. port \in DOMAIN c /\ \E o, steps : Start(o, steps, p)
  BY <1>1, Zenon DEF AddJoining
<1>3. Good(c) /\ mux \in SUBSET MuxRoutes
  BY DEF IInv
<1> HIDE DEF c
<1>4. i \in Inbounds /\ S \in SUBSET Users
  <2>1. i \in Inbounds
    BY <1>2, <1>3, ConfigsDef DEF Good
  <2>2. QED
    BY <2>1 DEF Inbounds
<1>5. d \in Configs /\ DOMAIN d = DOMAIN c /\ d[port] = j /\ \A q \in DOMAIN c : q # port => d[q] = c[q]
  <2>1. j \in Inbounds
    BY <1>4, ClientsChanged
  <2>2. d \in Configs
    BY <1>2, <1>3, <2>1, ChangeMap DEF Configs, Good
  <2>3. QED
    BY <1>2, <2>2
<1>6. j.clients # {} /\ j.shape = i.shape /\ j.routes = i.routes
  BY <1>4, ClientsChanged
<1> HIDE DEF j, d
<1>7. Linked(d)
  BY <1>2, <1>3, <1>5, <1>6, LinkedKept DEF Good
<1>8. AllUsed(d)
  BY <1>3, <1>5, <1>6 DEF Good, AllUsed, Used
<1>9. Good(d)
  BY <1>5, <1>7, <1>8 DEF Good
<1>10. PlanTyped(p)
  BY <1>3, <1>9, AddPlanTyped
<1> HIDE DEF p
<1>11. QED
  BY <1>2, <1>10, StartKeeps

(* A front with one more route, and the guest it leads to.                 *)
LEMMA GoodGuest ==
  ASSUME NEW c, Good(c), NEW port \in Public, port \in DOMAIN c, c[port].shape \in Fronts,
         NEW i \in Internal, i \notin DOMAIN c, NEW t \in Routes, t.dest = i,
         NEW n \in Inbounds, Used(n), n.routes = {}
  PROVE  Good(Put([c EXCEPT ![port].routes = @ \cup {t}], i, n))
<1> DEFINE f == c[port]
           S == f.routes \cup {t}
           g == [f EXCEPT !.routes = S]
           e == [c EXCEPT ![port] = g]
           d == Put(e, i, n)
<1>1. [c EXCEPT ![port].routes = @ \cup {t}] = e
  OBVIOUS
<1>2. f \in Inbounds /\ S \in SUBSET Routes
  <2>1. f \in Inbounds
    BY ConfigsDef DEF Good
  <2>2. QED
    BY <2>1 DEF Inbounds
<1>3. /\ g \in Inbounds /\ g.routes = S /\ g.clients = f.clients /\ g.shape = f.shape
      /\ g.decoy = f.decoy
  BY <1>2, RoutesChanged
<1> HIDE DEF g
<1>4. e \in Maps(Ports, Inbounds)
  BY <1>3, ChangeMap DEF Good, Configs
<1>5. DOMAIN e = DOMAIN c /\ e[port] = g /\ \A p \in DOMAIN c : p # port => e[p] = c[p]
  BY ConfigsDef DEF Good
<1> HIDE DEF e
<1>6. d \in Configs
  BY <1>4, PutMap DEF Configs, Ports
<1>7. /\ DOMAIN d = DOMAIN c \cup {i} /\ d[i] = n /\ d[port] = g /\ port # i
      /\ \A p \in DOMAIN c : p # port => d[p] = c[p]
  BY <1>5, PortsAssumption DEF Put
<1> HIDE DEF d
<1>8. AllUsed(d)
  BY <1>3, <1>7 DEF Good, AllUsed, Used
<1>9. ASSUME NEW p \in DOMAIN d
      PROVE  /\ \A r \in d[p].routes : r.dest \in DOMAIN d \cap Internal
             /\ d[p].routes # {} => d[p].shape \in Fronts
  <2>1. CASE p = i
    BY <1>7, <2>1
  <2>2. CASE p = port
    BY <1>3, <1>7, <2>2 DEF Good, Linked
  <2>3. CASE p # i /\ p # port
    BY <1>7, <2>3 DEF Good, Linked
  <2>4. QED
    BY <2>1, <2>2, <2>3
<1>10. ASSUME NEW p \in DOMAIN d, p \in Internal, d[p].shape \in Tls
       PROVE  \E q \in DOMAIN d \cap Public : \E r \in d[q].routes : r.dest = p
  <2>1. CASE p = i
    BY <1>3, <1>7, <2>1
  <2>2. CASE p # i
    <3>1. p \in DOMAIN c /\ p # port /\ d[p] = c[p]
      BY <1>7, <1>10, <2>2, PortsAssumption
    <3>2. PICK q \in DOMAIN c \cap Public : \E r \in c[q].routes : r.dest = p
      BY <1>10, <3>1 DEF Good, Linked
    <3>3. q \in DOMAIN d \cap Public /\ c[q].routes \subseteq d[q].routes
      BY <1>3, <1>7, <3>2
    <3>4. QED
      BY <3>2, <3>3
  <2>3. QED
    BY <2>1, <2>2
<1>11. Linked(d)
  BY <1>9, <1>10 DEF Linked
<1>12. Good(d)
  BY <1>6, <1>8, <1>11 DEF Good
<1>13. QED
  BY <1>1, <1>12 DEF d

LEMMA AddGuestKeeps ==
  ASSUME IInv, NEW u \in Users, NEW port \in Public, NEW s \in Shapes, NEW x \in Paths,
         NEW i \in Internal, AddGuest(u, port, s, x, i)
  PROVE  IInv'
<1> DEFINE c == Inb(conf)
           t == [path |-> Asked(s, x), dest |-> i]
           n == NewInbound(s, x, u)
           d == Put([c EXCEPT ![port].routes = @ \cup {t}], i, n)
           p == AddPlan(u, port, x, d, mux, {})
<1>1. /\ port \in DOMAIN c /\ c[port].shape \in Fronts /\ i \notin DOMAIN c
      /\ \E o, steps : Start(o, steps, p)
  BY Zenon DEF AddGuest
<1>2. n \in Inbounds /\ Used(n) /\ n.routes = {}
  BY NewInboundTyped
<1>3. t \in Routes /\ t.dest = i
  BY PathsStay DEF Routes, Ports
<1>4. Good(c) /\ mux \in SUBSET MuxRoutes
  BY DEF IInv
<1> HIDE DEF c, n, t
<1>5. Good(d)
  BY <1>1, <1>2, <1>3, <1>4, GoodGuest
<1> HIDE DEF d
<1>6. PlanTyped(p)
  BY <1>4, <1>5, AddPlanTyped
<1> HIDE DEF p
<1>7. QED
  BY <1>1, <1>6, StartKeeps

(* What hands nothing on may be taken out.                                 *)
LEMMA GoodOut ==
  ASSUME NEW c, Good(c), NEW port \in Public, port \in DOMAIN c, c[port].routes = {}
  PROVE  Good(Only(c, Ports \ {port}))
<1> DEFINE d == Only(c, Ports \ {port})
<1>1. d \in Configs
  BY OnlyMap DEF Good, Configs
<1>2. DOMAIN c \subseteq Ports
  BY ConfigsDef DEF Good
<1>3. DOMAIN d = DOMAIN c \ {port} /\ \A p \in DOMAIN d : d[p] = c[p]
  BY <1>2 DEF Only
<1> HIDE DEF d
<1>4. AllUsed(d)
  BY <1>3 DEF Good, AllUsed
<1>5. ASSUME NEW p \in DOMAIN d
      PROVE  /\ \A r \in d[p].routes : r.dest \in DOMAIN d \cap Internal
             /\ d[p].routes # {} => d[p].shape \in Fronts
  <2>1. port \notin Internal
    BY PortsAssumption
  <2>2. QED
    BY <1>3, <2>1 DEF Good, Linked
<1>6. ASSUME NEW p \in DOMAIN d, p \in Internal, d[p].shape \in Tls
      PROVE  \E q \in DOMAIN d \cap Public : \E r \in d[q].routes : r.dest = p
  <2>1. PICK q \in DOMAIN c \cap Public : \E r \in c[q].routes : r.dest = p
    BY <1>3, <1>6 DEF Good, Linked
  <2>2. q \in DOMAIN d /\ d[q] = c[q]
    BY <1>3, <2>1
  <2>3. QED
    BY <2>1, <2>2
<1>7. Linked(d)
  BY <1>5, <1>6 DEF Linked
<1>8. QED
  BY <1>1, <1>4, <1>7 DEF Good, d

LEMMA AddBehindNginxKeeps ==
  ASSUME IInv, NEW u \in Users, NEW port \in Public, NEW s \in Shapes, NEW x \in Paths,
         NEW i \in Internal, NEW j \in Internal, AddBehindNginx(u, port, s, x, i, j)
  PROVE  IInv'
<1> DEFINE c == Inb(conf)
           f == c[port]
           n == NewInbound(s, x, u)
           e == Only(c, Ports \ {port})
           g == Put(e, j, f)
           d == Put(g, i, n)
           y == Asked(s, x)
           m == {r \in mux : ~(r.port = port /\ r.path \in {y, f.path})}
                  \cup {[port |-> port, path |-> y, dest |-> i]}
                  \cup (IF y = f.path THEN {} ELSE {[port |-> port, path |-> f.path, dest |-> j]})
           p == AddPlan(u, port, x, d, m, {})
<1>1. /\ port \in DOMAIN c /\ s \in Ntls /\ f.shape \in Ntls
      /\ i # j /\ i \notin DOMAIN c /\ j \notin DOMAIN c
      /\ \E o, steps : Start(o, steps, p)
  <2>1. /\ port \in DOMAIN c /\ {s, f.shape} \subseteq Ntls
        /\ i # j /\ {i, j} \cap (DOMAIN c \cup Listening) = {}
        /\ \E o, steps : Start(o, steps, p)
    BY Zenon DEF AddBehindNginx
  <2> HIDE DEF c, p
  <2>2. QED
    BY <2>1
<1>2. n \in Inbounds /\ Used(n) /\ n.routes = {} /\ n.shape \notin Tls
  BY <1>1, NewInboundTyped, ShapesAssumption
<1>3. Good(c) /\ mux \subseteq MuxRoutes
  BY DEF IInv
<1> HIDE DEF c, n
<1>4. f \in Inbounds /\ Used(f) /\ f.routes = {} /\ f.shape \notin Tls
  <2>1. f \in Inbounds
    BY <1>1, <1>3, ConfigsDef DEF Good
  <2>2. f.shape \notin Tls
    BY <1>1, ShapesAssumption
  <2>3. f.routes = {}
    BY <1>1, <1>3, <2>2, ShapesAssumption DEF Good, Linked
  <2>4. QED
    BY <1>1, <1>3, <2>1, <2>2, <2>3 DEF Good, AllUsed
<1>5. Good(e) /\ DOMAIN e \subseteq DOMAIN c
  BY <1>1, <1>3, <1>4, GoodOut DEF Only
<1>6. m \in SUBSET MuxRoutes
  <2>1. f.path \in Paths /\ y \in Paths
    BY <1>4, PathsStay DEF Inbounds
  <2> HIDE DEF y
  <2>2. QED
    BY <1>3, <2>1 DEF MuxRoutes, Ports
<1> HIDE DEF m, e, f
<1>7. Good(g) /\ DOMAIN g \subseteq DOMAIN c \cup {j}
  <2>1. j \notin DOMAIN e /\ j \in Ports
    BY <1>1, <1>5 DEF Ports
  <2>2. Good(g)
    BY <1>4, <1>5, <2>1, GoodPut
  <2>3. QED
    BY <1>5, <2>2 DEF Put
<1> HIDE DEF g
<1>8. Good(d)
  <2>1. i \notin DOMAIN g /\ i \in Ports
    BY <1>1, <1>7 DEF Ports
  <2>2. QED
    BY <1>2, <1>7, <2>1, GoodPut
<1> HIDE DEF d
<1>9. PlanTyped(p)
  BY <1>6, <1>8, AddPlanTyped
<1> HIDE DEF p
<1>10. QED
  BY <1>1, <1>9, StartKeeps

LEMMA RemovalKeeps ==
  ASSUME IInv, NEW name, NEW gone, NEW left, Found(conf) => left \in Configs /\ Linked(left),
         NEW kept \in Trackers, Removal(name, gone, left, kept)
  PROVE  IInv'
<1> DEFINE c == IF Found(conf) THEN Prune(left) ELSE NoConf
           m == IF Found(conf) THEN RouteLive(c, mux) ELSE mux
           ports == IF Found(conf) THEN Freed(conf, c) ELSE {}
           p == [conf |-> c, mux |-> m, sites |-> {r.port : r \in mux}, tracker |-> kept, port |-> "none", ports |-> ports]
<1>1. \E o, steps : Start(o, steps, p)
  BY Zenon DEF Removal
<1>2. Good(Inb(c))
  <2>1. CASE Found(conf)
    BY <2>1, PruneGood, GoodInb
  <2>2. CASE ~ Found(conf)
    BY <2>2, GoodEmpty DEF Inb, Found
  <2>3. QED
    BY <2>1, <2>2
<1> HIDE DEF c
<1>3. m \subseteq MuxRoutes
  BY DEF IInv, RouteLive
<1>4. ports \subseteq Ports
  BY DEF Freed, Ports
<1> HIDE DEF m, ports
<1>5. PlanTyped(p)
  BY <1>2, <1>3, <1>4 DEF PlanTyped
<1> HIDE DEF p
<1>6. QED
  BY <1>1, <1>5, StartKeeps

(* Taking clients out leaves the routes as they are.                       *)
LEMMA WithoutLinked ==
  ASSUME NEW c \in Configs, Linked(c), NEW gone
  PROVE  Without(c, gone) \in Configs /\ Linked(Without(c, gone))
<1> DEFINE d == Without(c, gone)
<1>1. c \in [DOMAIN c -> Inbounds] /\ DOMAIN c \subseteq Ports
  BY ConfigsDef
<1>2. ASSUME NEW p \in DOMAIN c
      PROVE  d[p] \in Inbounds /\ d[p].shape = c[p].shape /\ d[p].routes = c[p].routes
  <2> DEFINE i == c[p]
             S == i.clients \ gone
  <2>1. d[p] = [i EXCEPT !.clients = S]
    BY DEF Without
  <2>2. i \in Inbounds
    BY <1>1
  <2>3. S \in SUBSET Users
    BY <2>2 DEF Inbounds
  <2> HIDE DEF S, d
  <2>4. QED
    BY <2>1, <2>2, <2>3, ClientsChanged
<1>3. d = [p \in DOMAIN c |-> d[p]]
  BY DEF Without
<1> HIDE DEF d
<1>4. DOMAIN d = DOMAIN c /\ d \in [DOMAIN c -> Inbounds]
  BY <1>2, <1>3
<1>5. d \in Configs
  BY <1>1, <1>4, ConfigsDef
<1>6. Linked(d)
  BY <1>2, <1>4, LinkedKept
<1>7. QED
  BY <1>5, <1>6 DEF d

LEMMA FoundGood ==
  ASSUME IInv, Found(conf)
  PROVE  Good(conf)
BY DEF IInv, Inb

LEMMA EverywhereLinked ==
  ASSUME IInv, NEW gone
  PROVE  Found(conf) => Everywhere(gone) \in Configs /\ Linked(Everywhere(gone))
BY FoundGood, WithoutLinked DEF Everywhere, Good

LEMMA TrackerPart ==
  ASSUME IInv, NEW S
  PROVE  Only(tracker, S) \in Trackers
BY OnlyMap DEF IInv, Trackers

LEMMA DeleteKeeps ==
  ASSUME IInv, NEW u \in Users, Delete(u)
  PROVE  IInv'
<1>1. CASE u \in DOMAIN tracker /\ Removal("delete", {u}, Everywhere({u}), Only(tracker, Users \ {u}))
  BY <1>1, EverywhereLinked, TrackerPart, RemovalKeeps
<1>2. ASSUME NEW p \in Ports, Found(conf), p \in DOMAIN conf,
             Removal("untracked", {u}, [conf EXCEPT ![p].clients = @ \ {u}], tracker)
      PROVE  IInv'
  <2> DEFINE i == conf[p]
             S == i.clients \ {u}
             j == [i EXCEPT !.clients = S]
             d == [conf EXCEPT ![p] = j]
  <2>1. [conf EXCEPT ![p].clients = @ \ {u}] = d
    OBVIOUS
  <2>2. Removal("untracked", {u}, d, tracker)
    BY <1>2, <2>1
  <2>3. conf \in Configs /\ Linked(conf)
    BY <1>2, FoundGood DEF Good
  <2>4. i \in Inbounds
    BY <1>2, <2>3, ConfigsDef
  <2>5. S \in SUBSET Users
    BY <2>4 DEF Inbounds
  <2> HIDE DEF i, S
  <2>6. j \in Inbounds /\ j.shape = i.shape /\ j.routes = i.routes
    BY <2>4, <2>5, ClientsChanged
  <2> HIDE DEF j
  <2>7. d \in Configs
    BY <1>2, <2>3, <2>6, ChangeMap DEF Configs
  <2>8. Linked(d)
    <3>1. DOMAIN d = DOMAIN conf /\ d[p] = j /\ \A q \in DOMAIN conf : q # p => d[q] = conf[q]
      BY <1>2, <2>3, ConfigsDef
    <3> HIDE DEF d
    <3>2. QED
      BY <2>3, <2>6, <3>1, LinkedKept DEF i
  <2> HIDE DEF d
  <2>9. tracker \in Trackers
    BY DEF IInv
  <2>10. QED
    BY <2>2, <2>7, <2>8, <2>9, RemovalKeeps
<1>3. QED
  BY <1>1, <1>2 DEF Delete

LEMMA DeleteAllKeeps ==
  ASSUME IInv, DeleteAll
  PROVE  IInv'
<1>1. Empty \in Trackers
  <2>1. DOMAIN Empty = {} /\ Empty \in [{} -> Entries]
    BY DEF Empty
  <2>2. QED
    BY <2>1, MapsDef DEF Trackers
<1>2. Removal("all", Users, Everywhere(Users), Empty)
  BY DEF DeleteAll
<1>3. QED
  BY <1>1, <1>2, EverywhereLinked, RemovalKeeps

LEMMA DeleteExpiredKeeps ==
  ASSUME IInv, DeleteExpired
  PROVE  IInv'
<1>1. PICK gone \in SUBSET DOMAIN tracker : Removal("expired", gone, Everywhere(gone), Only(tracker, Users \ gone))
  BY DEF DeleteExpired
<1>2. QED
  BY <1>1, EverywhereLinked, TrackerPart, RemovalKeeps

(* Inbounds that keep their shape, what they lead to and their use stay    *)
(* good.                                                                   *)
LEMMA GoodKept ==
  ASSUME NEW c, Good(c), NEW d \in [DOMAIN c -> Inbounds],
         \A p \in DOMAIN c : /\ d[p].shape = c[p].shape
                             /\ \A r \in d[p].routes : \E t \in c[p].routes : t.dest = r.dest
                             /\ \A t \in c[p].routes : \E r \in d[p].routes : r.dest = t.dest,
         \A p \in DOMAIN c : Used(c[p]) => Used(d[p])
  PROVE  Good(d)
<1>1. DOMAIN d = DOMAIN c
  OBVIOUS
<1>2. Linked(d)
  BY <1>1, LinkedKept DEF Good
<1>3. d \in Configs
  BY <1>1, ConfigsDef DEF Good
<1>4. AllUsed(d)
  BY <1>1 DEF Good, AllUsed
<1>5. QED
  BY <1>2, <1>3, <1>4 DEF Good

LEMMA MovedGood ==
  ASSUME NEW c, Good(c), NEW p \in DOMAIN c, NEW new \in Paths
  PROVE  Good([c EXCEPT ![p].path = new])
<1> DEFINE i == c[p]
           j == [i EXCEPT !.path = new]
           d == [c EXCEPT ![p] = j]
<1>1. [c EXCEPT ![p].path = new] = d
  OBVIOUS
<1>2. c \in [DOMAIN c -> Inbounds]
  BY ConfigsDef DEF Good
<1>3. i \in Inbounds
  BY <1>2
<1>4. /\ j \in Inbounds /\ j.shape = i.shape /\ j.routes = i.routes /\ j.clients = i.clients
      /\ j.decoy = i.decoy
  BY <1>3, PathChanged
<1> HIDE DEF j
<1>5. d \in [DOMAIN c -> Inbounds] /\ d[p] = j /\ \A q \in DOMAIN c : q # p => d[q] = c[q]
  BY <1>2, <1>4
<1> HIDE DEF d
<1>6. \A q \in DOMAIN c : d[q].shape = c[q].shape /\ d[q].routes = c[q].routes /\ (Used(c[q]) => Used(d[q]))
  BY <1>4, <1>5 DEF Used
<1>7. Good(d)
  BY <1>5, <1>6, GoodKept
<1>8. QED
  BY <1>1, <1>7

LEMMA ReroutedGood ==
  ASSUME NEW c, Good(c), NEW p, NEW old, NEW new \in Paths
  PROVE  Good(Rerouted(c, p, old, new))
<1> DEFINE d == Rerouted(c, p, old, new)
           Turned(r) == IF r = [path |-> old, dest |-> p] THEN [r EXCEPT !.path = new] ELSE r
<1>1. \A r \in Routes : Turned(r) \in Routes /\ Turned(r).dest = r.dest
  BY DEF Routes
<1>2. c \in [DOMAIN c -> Inbounds]
  BY ConfigsDef DEF Good
<1>3. ASSUME NEW q \in DOMAIN c
      PROVE  /\ d[q] \in Inbounds /\ d[q].shape = c[q].shape
             /\ d[q].routes = {Turned(r) : r \in c[q].routes}
             /\ c[q].routes \in SUBSET Routes
             /\ Used(c[q]) => Used(d[q])
  <2> DEFINE i == c[q]
             S == {Turned(r) : r \in i.routes}
             j == [i EXCEPT !.routes = S]
  <2>1. d[q] = j
    BY DEF Rerouted
  <2>2. i \in Inbounds
    BY <1>2
  <2>3. i.routes \in SUBSET Routes
    BY <2>2 DEF Inbounds
  <2> HIDE DEF d, Turned
  <2>4. S \in SUBSET Routes
    BY <1>1, <2>3
  <2>5. i.routes # {} => S # {}
    OBVIOUS
  <2> HIDE DEF S
  <2>6. /\ j \in Inbounds /\ j.shape = i.shape /\ j.routes = S /\ j.clients = i.clients
        /\ j.decoy = i.decoy
    BY <2>2, <2>4, RoutesChanged
  <2> HIDE DEF j
  <2>7. Used(i) => Used(j)
    BY <2>5, <2>6 DEF Used
  <2>8. QED
    BY <2>1, <2>3, <2>6, <2>7 DEF S
<1>4. d = [q \in DOMAIN c |-> d[q]]
  BY DEF Rerouted
<1> HIDE DEF d, Turned
<1>5. d \in [DOMAIN c -> Inbounds]
  BY <1>3, <1>4
<1>6. \A q \in DOMAIN c : /\ \A r \in d[q].routes : \E t \in c[q].routes : t.dest = r.dest
                          /\ \A t \in c[q].routes : \E r \in d[q].routes : r.dest = t.dest
  BY <1>1, <1>3
<1>7. Good(d)
  BY <1>3, <1>5, <1>6, GoodKept
<1>8. QED
  BY <1>7 DEF d

LEMMA EditPathKeeps ==
  ASSUME IInv, NEW u \in Users, NEW q \in Ports, NEW x \in Paths, EditPath(u, q, x)
  PROVE  IInv'
<1> DEFINE known == u \in DOMAIN tracker
           e == tracker[u]
           old == Lead[e.path]
           new == Asked(conf[q].shape, x)
           moved == [conf EXCEPT ![q].path = new]
           guest == known /\ q \in Internal /\ old # new
           c == IF guest THEN Rerouted(moved, q, old, new) ELSE moved
           had == IF guest THEN {r \in mux : r.dest = q /\ r.path = old} ELSE {}
           m == {r \in mux : \A t \in had : ~(r.port = t.port /\ r.path \in {old, new})} \cup {[r EXCEPT !.path = new] : r \in had}
           g == [e EXCEPT !.path = x]
           k == IF known THEN [tracker EXCEPT ![u] = g] ELSE tracker
           p == [conf |-> c, mux |-> m, sites |-> {r.port : r \in had}, tracker |-> k, port |-> "none", ports |-> {}]
<1>1. Found(conf) /\ q \in DOMAIN conf /\ \E o, steps : Start(o, steps, p)
  BY Zenon DEF EditPath
<1>2. new \in Paths
  BY PathsStay
<1> HIDE DEF new
<1>3. Good(Inb(c))
  <2>1. Good(moved)
    BY <1>1, <1>2, FoundGood, MovedGood
  <2> HIDE DEF moved, old
  <2>2. Good(c)
    BY <1>2, <2>1, ReroutedGood
  <2>3. QED
    BY <2>2, GoodInb
<1> HIDE DEF c
<1>4. m \subseteq MuxRoutes
  <2>1. mux \subseteq MuxRoutes
    BY DEF IInv
  <2> HIDE DEF old, guest
  <2>2. \A r \in MuxRoutes : [r EXCEPT !.path = new] \in MuxRoutes
    BY <1>2 DEF MuxRoutes
  <2>3. had \subseteq mux
    OBVIOUS
  <2> HIDE DEF had
  <2>4. QED
    BY <2>1, <2>2, <2>3
<1>5. k \in Trackers
  <2>1. tracker \in Trackers
    BY DEF IInv
  <2>2. ASSUME known PROVE g \in Entries
    <3>1. e \in Entries
      BY <2>1, <2>2, MapsDef DEF Trackers
    <3> HIDE DEF e
    <3>2. QED
      BY <3>1 DEF Entries
  <2> HIDE DEF g
  <2>3. QED
    BY <2>1, <2>2, ChangeMap DEF Trackers
<1> HIDE DEF m, k, had
<1>6. PlanTyped(p)
  BY <1>3, <1>4, <1>5 DEF PlanTyped
<1> HIDE DEF p
<1>7. QED
  BY <1>1, <1>6, StartKeeps

LEMMA RenamedGood ==
  ASSUME NEW c, Good(c), NEW p \in DOMAIN c, NEW u, NEW v \in Users
  PROVE  Good([c EXCEPT ![p].clients = (@ \ {u}) \cup {v}])
<1> DEFINE i == c[p]
           S == (i.clients \ {u}) \cup {v}
           j == [i EXCEPT !.clients = S]
           d == [c EXCEPT ![p] = j]
<1>1. [c EXCEPT ![p].clients = (@ \ {u}) \cup {v}] = d
  OBVIOUS
<1>2. c \in [DOMAIN c -> Inbounds]
  BY ConfigsDef DEF Good
<1>3. i \in Inbounds
  BY <1>2
<1>4. S \in SUBSET Users /\ S # {}
  BY <1>3 DEF Inbounds
<1>5. j \in Inbounds /\ j.shape = i.shape /\ j.routes = i.routes /\ j.clients # {}
  BY <1>3, <1>4, ClientsChanged
<1> HIDE DEF j
<1>6. d \in [DOMAIN c -> Inbounds] /\ d[p] = j /\ \A q \in DOMAIN c : q # p => d[q] = c[q]
  BY <1>2, <1>5
<1> HIDE DEF d
<1>7. \A q \in DOMAIN c : d[q].shape = c[q].shape /\ d[q].routes = c[q].routes /\ (Used(c[q]) => Used(d[q]))
  BY <1>5, <1>6 DEF Used
<1>8. Good(d)
  BY <1>6, <1>7, GoodKept
<1>9. QED
  BY <1>1, <1>8

LEMMA EditNameKeeps ==
  ASSUME IInv, NEW u \in Users, NEW q \in Ports, NEW v \in Users, EditName(u, q, v)
  PROVE  IInv'
<1> DEFINE c == [conf EXCEPT ![q].clients = (@ \ {u}) \cup {v}]
           k == IF u \in DOMAIN tracker THEN Put(Only(tracker, Users \ {u}), v, tracker[u]) ELSE tracker
           p == [NoPlan EXCEPT !.conf = c, !.mux = mux, !.tracker = k]
<1>1. Found(conf) /\ q \in DOMAIN conf /\ \E o, steps : Start(o, steps, p)
  BY Zenon DEF EditName
<1>2. Good(Inb(c))
  <2>1. Good(c)
    BY <1>1, FoundGood, RenamedGood
  <2>2. QED
    BY <2>1, GoodInb
<1>3. k \in Trackers
  <2>1. tracker \in Trackers
    BY DEF IInv
  <2>2. Only(tracker, Users \ {u}) \in Trackers
    BY TrackerPart
  <2>3. u \in DOMAIN tracker => tracker[u] \in Entries
    BY <2>1, MapsDef DEF Trackers
  <2>4. u \in DOMAIN tracker => Put(Only(tracker, Users \ {u}), v, tracker[u]) \in Trackers
    BY <2>2, <2>3, PutMap DEF Trackers
  <2>5. QED
    BY <2>1, <2>4
<1> HIDE DEF c, k
<1>4. PlanTyped(p)
  BY <1>2, <1>3 DEF PlanTyped, IInv, NoPlan
<1> HIDE DEF p
<1>5. QED
  BY <1>1, <1>4, StartKeeps

LEMMA DecoysKeeps ==
  ASSUME IInv, Decoys
  PROVE  IInv'
<1> DEFINE c == [q \in DOMAIN conf |-> [conf[q] EXCEPT !.decoy = @ \/ conf[q].shape \in Fronts]]
           p == [NoPlan EXCEPT !.conf = c, !.mux = mux, !.tracker = tracker]
<1>1. Found(conf) /\ \E o, steps : Start(o, steps, p)
  BY Zenon DEF Decoys
<1>2. Good(conf)
  BY <1>1, FoundGood
<1>3. ASSUME NEW q \in DOMAIN conf
      PROVE  /\ c[q] \in Inbounds /\ c[q].shape = conf[q].shape /\ c[q].routes = conf[q].routes
             /\ Used(conf[q]) => Used(c[q])
  <2> DEFINE i == conf[q]
             b == i.decoy \/ i.shape \in Fronts
             j == [i EXCEPT !.decoy = b]
  <2>1. c[q] = j
    OBVIOUS
  <2>2. i \in Inbounds
    BY <1>2, ConfigsDef DEF Good
  <2>3. b \in BOOLEAN
    OBVIOUS
  <2> HIDE DEF b
  <2>4. /\ j \in Inbounds /\ j.shape = i.shape /\ j.routes = i.routes /\ j.clients = i.clients
        /\ j.decoy = b
    BY <2>2, <2>3, DecoyChanged
  <2> HIDE DEF c, j
  <2>5. i.decoy => b
    BY DEF b
  <2>6. Used(i) => Used(j)
    BY <2>4, <2>5, Zenon DEF Used
  <2>7. QED
    BY <2>1, <2>4, <2>6
<1>4. c = [q \in DOMAIN conf |-> c[q]]
  OBVIOUS
<1> HIDE DEF c
<1>5. Good(c)
  BY <1>2, <1>3, <1>4, GoodKept
<1>6. Good(Inb(c))
  BY <1>5, GoodInb
<1>7. PlanTyped(p)
  BY <1>6 DEF PlanTyped, IInv, NoPlan
<1> HIDE DEF p
<1>8. QED
  BY <1>1, <1>7, StartKeeps

LEMMA NoPlanTyped ==
  ASSUME NEW ports \in SUBSET Ports
  PROVE  PlanTyped([NoPlan EXCEPT !.ports = ports]) /\ PlanTyped(NoPlan)
<1>1. Good(Inb(NoConf))
  BY GoodEmpty DEF Inb, Found
<1>2. Empty \in Trackers
  <2>1. DOMAIN Empty = {} /\ Empty \in [{} -> Entries]
    BY DEF Empty
  <2>2. QED
    BY <2>1, MapsDef DEF Trackers
<1>3. QED
  BY <1>1, <1>2 DEF PlanTyped, NoPlan

LEMMA UninstallKeeps ==
  ASSUME IInv, Uninstall
  PROVE  IInv'
<1>1. DOMAIN Inb(conf) \in SUBSET Ports
  BY ConfigsDef DEF IInv, Good
<1>2. \E o, steps : Start(o, steps, [NoPlan EXCEPT !.ports = DOMAIN Inb(conf)])
  BY Zenon DEF Uninstall
<1>3. PlanTyped([NoPlan EXCEPT !.ports = DOMAIN Inb(conf)])
  BY <1>1, NoPlanTyped
<1>4. QED
  BY <1>2, <1>3, StartKeeps

-----------------------------------------------------------------------------
(* The steps of an option.                                                 *)

LEMMA EmptyMaps == Empty \in Configs /\ Empty \in Trackers
<1>1. DOMAIN Empty = {} /\ Empty \in [{} -> Inbounds] /\ Empty \in [{} -> Entries]
  BY DEF Empty
<1>2. QED
  BY <1>1, MapsDef DEF Trackers, Configs

LEMMA SavesKeep ==
  ASSUME IInv, SaveTracker \/ SaveMux \/ ReloadNginx \/ SaveConf \/ OpenPort \/ ClosePorts
  PROVE  IInv'
<1>1. plan' = plan /\ before' = before /\ crashes' = crashes /\ running' = running
  BY DEF SaveTracker, SaveMux, ReloadNginx, SaveConf, OpenPort, ClosePorts, Done, Proceed
<1>2. conf' = conf \/ conf' = plan.conf \/ conf' = Inb(before)
  BY DEF SaveTracker, SaveMux, ReloadNginx, SaveConf, OpenPort, ClosePorts
<1>3. Good(Inb(conf'))
  <2>1. Good(Inb(Inb(before)))
    BY GoodInb DEF IInv
  <2>2. QED
    BY <1>2, <2>1 DEF IInv, PlanTyped
<1>4. tracker' = tracker \/ tracker' = plan.tracker
  BY DEF SaveTracker, SaveMux, ReloadNginx, SaveConf, OpenPort, ClosePorts
<1>5. mux' \cup sites' \cup nginx' \subseteq MuxRoutes /\ open' \subseteq Ports
  <2>1. mux \cup sites \cup nginx \subseteq MuxRoutes /\ open \subseteq Ports
    BY DEF IInv
  <2>2. plan.mux \subseteq MuxRoutes /\ plan.ports \subseteq Ports
    BY DEF IInv, PlanTyped
  <2>3. mux' = mux \/ mux' = plan.mux
    BY DEF SaveTracker, SaveMux, ReloadNginx, SaveConf, OpenPort, ClosePorts
  <2>4. open' = open \/ open' = open \cup plan.ports \/ open' = open \ plan.ports
    BY DEF SaveTracker, SaveMux, ReloadNginx, SaveConf, OpenPort, ClosePorts
  <2>5. sites' \cup nginx' \subseteq nginx \cup sites \cup mux
    BY DEF SaveTracker, SaveMux, ReloadNginx, Rewritten, SaveConf, OpenPort, ClosePorts
  <2>6. QED
    BY <2>1, <2>2, <2>3, <2>4, <2>5
<1>6. Good(Inb(conf))' /\ Good(Inb(before))' /\ PlanTyped(plan)'
  BY <1>1, <1>3 DEF IInv, PlanTyped, Good, Linked, AllUsed, Inb, Found, Empty, Used
<1>7. refusals' \in Nat /\ crashes + refusals' <= MaxFaults
  BY FaultsAssumption DEF IInv, SaveTracker, SaveMux, ReloadNginx, SaveConf, OpenPort, ClosePorts, Done
<1>8. QED
  BY <1>1, <1>4, <1>5, <1>6, <1>7 DEF IInv, PlanTyped

LEMMA RestartKeeps ==
  ASSUME IInv, Restart
  PROVE  IInv'
<1>1. UNCHANGED <<conf, tracker, mux, sites, nginx, open, plan, before, crashes>>
  BY DEF Restart, Fails, Proceed
<1>2. refusals' \in Nat /\ crashes + refusals' <= MaxFaults
  BY FaultsAssumption DEF IInv, Restart
<1>3. running' \in Configs
  <2>1. \/ running' \in {running, Empty}
        \/ \E S : running' = Only(Inb(conf), S)
    BY DEF Restart
  <2>2. \A S : Only(Inb(conf), S) \in Configs
    BY OnlyMap DEF Configs, IInv, Good
  <2>3. QED
    BY <2>1, <2>2, EmptyMaps DEF IInv
<1>4. QED
  BY <1>1, <1>2, <1>3 DEF IInv, PlanTyped, Good, Linked, AllUsed, Inb, Found, Empty, Used

LEMMA WipeKeeps ==
  ASSUME IInv, Wipe
  PROVE  IInv'
<1>1. /\ UNCHANGED <<sites, nginx, open, plan, before, crashes, refusals>>
      /\ conf' = NoConf /\ tracker' = Empty /\ mux' = {} /\ running' = Empty
  BY DEF Wipe, Done, Proceed
<1>2. Good(Inb(conf))'
  BY <1>1, GoodEmpty DEF Inb, Found, Good, Linked, AllUsed, Empty, Used
<1>3. QED
  BY <1>1, <1>2, EmptyMaps DEF IInv, PlanTyped, Good, Linked, AllUsed, Inb, Found, Empty, Used

LEMMA FinishKeeps ==
  ASSUME IInv, Finish
  PROVE  IInv'
<1>1. /\ UNCHANGED <<conf, tracker, mux, sites, nginx, running, open, crashes, refusals>>
      /\ plan' = NoPlan /\ before' = NoConf
  BY DEF Finish
<1>2. Good(Inb(before))'
  BY <1>1, GoodEmpty DEF Inb, Found, Good, Linked, AllUsed, Empty, Used
<1>3. PlanTyped(NoPlan)
  BY NoPlanTyped
<1>4. PlanTyped(plan)'
  BY <1>1, <1>3 DEF PlanTyped, Good, Linked, AllUsed, Inb, Found, Empty, Used
<1>5. QED
  BY <1>1, <1>2, <1>4 DEF IInv, Good, Linked, AllUsed, Inb, Found, Empty, Used

(* Whatever was being written when the panel died, what is read again is   *)
(* what was there or nothing.                                              *)
LEMMA KillKeeps ==
  ASSUME IInv, Hangup \/ Reboot
  PROVE  IInv'
<1>1. Dies
  BY DEF Hangup, Reboot
<1>2. plan' = NoPlan /\ before' = NoConf /\ refusals' = refusals
  BY <1>1 DEF Dies
<1>3. crashes' \in Nat /\ crashes' + refusals' <= MaxFaults
  BY <1>1, FaultsAssumption DEF Dies, IInv
<1>4. conf' = conf \/ conf' = NoConf
  BY <1>1 DEF Dies
<1>5. Good(Inb(conf'))
  BY <1>4, GoodEmpty DEF IInv, Inb, Found
<1>6. tracker' \in Trackers
  BY <1>1, EmptyMaps DEF Dies, IInv
<1>7. mux' \cup sites' \cup nginx' \subseteq MuxRoutes
  <2>1. mux' \cup sites' \subseteq mux \cup sites
    BY <1>1 DEF Dies, Rewritten
  <2>2. nginx' \subseteq nginx \cup sites'
    BY DEF Hangup, Reboot
  <2>3. QED
    BY <2>1, <2>2 DEF IInv
<1>8. open' \subseteq Ports
  BY DEF IInv, Hangup, Reboot
<1>9. running' \in Configs
  <2>1. Inb(conf') \in Maps(Ports, Inbounds)
    BY <1>5 DEF Good, Configs
  <2>2. \A S : Only(Inb(conf'), S) \in Configs
    BY <2>1, OnlyMap DEF Configs
  <2>3. running' \in {running, Empty} \/ \E S : running' = Only(Inb(conf'), S)
    BY DEF Hangup, Reboot
  <2>4. QED
    BY <2>2, <2>3, EmptyMaps DEF IInv
<1>10. Good(Inb(before))'
  BY <1>2, GoodEmpty DEF Inb, Found, Good, Linked, AllUsed, Empty, Used
<1>11. PlanTyped(NoPlan)
  BY NoPlanTyped
<1>12. PlanTyped(plan)'
  BY <1>2, <1>11 DEF PlanTyped, Good, Linked, AllUsed, Inb, Found, Empty, Used
<1>13. QED
  BY <1>2, <1>3, <1>5, <1>6, <1>7, <1>8, <1>9, <1>10, <1>12 DEF IInv, Good, Linked, AllUsed, Inb, Found, Empty, Used

-----------------------------------------------------------------------------
LEMMA InvInit ==
  ASSUME Init
  PROVE  IInv
<1>1. Good(Inb(conf)) /\ Good(Inb(before))
  BY GoodEmpty DEF Init, Inb, Found
<1>2. PlanTyped(plan)
  BY NoPlanTyped DEF Init
<1>3. tracker \in Trackers /\ running \in Configs
  BY EmptyMaps DEF Init
<1>4. QED
  BY <1>1, <1>2, <1>3, FaultsAssumption DEF Init, IInv

LEMMA OptionsKeep ==
  ASSUME IInv, Options
  PROVE  IInv'
<1>1. ASSUME NEW u \in Users, NEW port \in Public, NEW s \in Shapes, NEW x \in Paths,
             \/ AddAlone(u, port, s, x)
             \/ AddJoining(u, port, s, x)
             \/ \E i \in Internal : AddGuest(u, port, s, x, i)
             \/ \E i, j \in Internal : AddBehindNginx(u, port, s, x, i, j)
      PROVE  IInv'
  BY <1>1, AddAloneKeeps, AddJoiningKeeps, AddGuestKeeps, AddBehindNginxKeeps
<1>2. ASSUME NEW u \in Users, Delete(u) PROVE IInv'
  BY <1>2, DeleteKeeps
<1>3. ASSUME NEW u \in Users, NEW p \in Ports,
             (\E x \in Paths : EditPath(u, p, x)) \/ (\E v \in Users : EditName(u, p, v))
      PROVE  IInv'
  BY <1>3, EditPathKeeps, EditNameKeeps
<1>4. QED
  BY <1>1, <1>2, <1>3, DeleteAllKeeps, DeleteExpiredKeeps, DecoysKeeps, UninstallKeeps DEF Options

LEMMA InvStep ==
  ASSUME IInv, [Next]_vars
  PROVE  IInv'
<1>1. CASE Options
  BY <1>1, OptionsKeep
<1>2. CASE Steps
  BY <1>2, SavesKeep, RestartKeeps, WipeKeeps DEF Steps
<1>3. CASE Finish
  BY <1>3, FinishKeeps
<1>4. CASE Hangup \/ Reboot
  BY <1>4, KillKeeps
<1>5. CASE UNCHANGED vars
  BY <1>5 DEF vars, IInv, PlanTyped, Good, Linked, AllUsed, Inb, Found, Empty, Used
<1>6. QED
  BY <1>1, <1>2, <1>3, <1>4, <1>5 DEF Next

LEMMA InvAlways == Spec => []IInv
<1>1. Init => IInv
  BY InvInit
<1>2. IInv /\ [Next]_vars => IInv'
  BY InvStep
<1>3. QED
  BY <1>1, <1>2, PTL DEF Spec

(* The history is about known users.                                       *)
Noted == op.users \cup orphans \cup astray \subseteq Users

LEMMA NotedStart ==
  ASSUME Noted, NEW o, NEW steps, NEW p, Start(o, steps, p), UNCHANGED notes, o.users \subseteq Users
  PROVE  Noted'
BY DEF Noted, Start, notes

LEMMA RemovalNoted ==
  ASSUME Noted, NEW name, NEW gone \in SUBSET Users, NEW left, NEW kept, Removal(name, gone, left, kept)
  PROVE  Noted'
<1> DEFINE o == [name |-> name, users |-> gone]
<1>1. (\E steps, p : Start(o, steps, p)) /\ UNCHANGED notes
  BY Zenon DEF Removal
<1>2. o.users = gone
  OBVIOUS
<1> HIDE DEF o
<1>3. QED
  BY <1>1, <1>2, NotedStart

LEMMA AddNoted ==
  ASSUME Noted, NEW u \in Users, NEW port, NEW s, NEW x,
         \/ AddAlone(u, port, s, x)
         \/ AddJoining(u, port, s, x)
         \/ \E i \in Internal : AddGuest(u, port, s, x, i)
         \/ \E i, j \in Internal : AddBehindNginx(u, port, s, x, i, j)
  PROVE  Noted'
<1> DEFINE o == [name |-> "add", users |-> {u}]
<1>1. (\E steps, p : Start(o, steps, p)) /\ UNCHANGED <<orphans, astray>>
  BY Zenon DEF AddAlone, AddJoining, AddGuest, AddBehindNginx, notes
<1>2. o.users = {u}
  OBVIOUS
<1> HIDE DEF o
<1>3. QED
  BY <1>1, <1>2 DEF Noted, Start

LEMMA EditNoted ==
  ASSUME Noted, NEW u \in Users, NEW q,
         (\E x \in Paths : EditPath(u, q, x)) \/ (\E v \in Users : EditName(u, q, v))
  PROVE  Noted'
<1>1. ASSUME NEW x \in Paths, EditPath(u, q, x) PROVE Noted'
  <2> DEFINE o == [name |-> "path", users |-> {u}]
  <2>1. \E steps, p : Start(o, steps, p)
    BY <1>1, Zenon DEF EditPath
  <2>2. o.users = {u}
    OBVIOUS
  <2>3. orphans' = orphans /\ astray' \subseteq astray \cup {u}
    BY <1>1 DEF EditPath
  <2> HIDE DEF o
  <2>4. QED
    BY <2>1, <2>2, <2>3 DEF Noted, Start
<1>2. ASSUME NEW v \in Users, EditName(u, q, v) PROVE Noted'
  <2> DEFINE o == [name |-> "rename", users |-> {u, v}]
  <2>1. \E steps, p : Start(o, steps, p)
    BY <1>2, Zenon DEF EditName
  <2>2. o.users = {u, v}
    OBVIOUS
  <2>3. orphans' \subseteq orphans \cup {v} /\ astray' \subseteq astray \cup {v}
    BY <1>2 DEF EditName
  <2> HIDE DEF o
  <2>4. QED
    BY <2>1, <2>2, <2>3 DEF Noted, Start
<1>3. QED
  BY <1>1, <1>2

LEMMA NotedStep ==
  ASSUME IInv, Noted, [Next]_vars
  PROVE  Noted'
<1>1. ASSUME NEW u \in Users, Delete(u) PROVE Noted'
  BY <1>1, RemovalNoted DEF Delete
<1>2. CASE DeleteAll \/ DeleteExpired
  <2>1. DOMAIN tracker \subseteq Users
    BY MapsDef DEF IInv, Trackers
  <2>2. QED
    BY <1>2, <2>1, RemovalNoted DEF DeleteAll, DeleteExpired
<1>3. CASE Decoys \/ Uninstall
  <2> DEFINE o == [name |-> "decoy", users |-> {}]
             t == [name |-> "uninstall", users |-> Users]
  <2>1. (\E steps, p : Start(o, steps, p) \/ Start(t, steps, p)) /\ UNCHANGED notes
    BY <1>3, Zenon DEF Decoys, Uninstall
  <2>2. o.users = {} /\ t.users = Users
    OBVIOUS
  <2> HIDE DEF o, t
  <2>3. QED
    BY <2>1, <2>2, NotedStart
<1>4. CASE Options
  BY <1>1, <1>2, <1>3, <1>4, AddNoted, EditNoted DEF Options
<1>5. CASE Steps
  <2>1. op' = op /\ orphans' \subseteq orphans \cup op.users /\ astray' = astray
    BY <1>5 DEF Steps, SaveTracker, SaveMux, ReloadNginx, SaveConf, Restart, Fails, OpenPort, ClosePorts, Wipe,
                Done, Proceed, notes
  <2>2. QED
    BY <2>1 DEF Noted
<1>6. CASE Finish \/ Hangup \/ Reboot
  BY <1>6 DEF Finish, Hangup, Reboot, Dies, Noted, NoOp
<1>7. CASE UNCHANGED vars
  BY <1>7 DEF vars, notes, Noted
<1>8. QED
  BY <1>4, <1>5, <1>6, <1>7 DEF Next

(* Every file the Xray manager writes, what Xray serves and what the       *)
(* firewall lets through are about known users, ports and shapes.          *)
THEOREM TypeCorrect == Spec => []TypeOK
<1>1. ASSUME IInv, Noted PROVE TypeOK
  <2>1. Found(conf) => DOMAIN conf \subseteq Ports /\ \A p \in DOMAIN conf : conf[p] \in Inbounds
    BY <1>1, FoundGood, ConfigsDef DEF Good
  <2>2. DOMAIN running \subseteq Ports /\ \A p \in DOMAIN running : running[p] \in Inbounds
    BY <1>1, ConfigsDef DEF IInv
  <2>3. DOMAIN tracker \subseteq Users /\ \A u \in DOMAIN tracker : tracker[u] \in Entries
    BY <1>1, MapsDef DEF IInv, Trackers
  <2>4. {crashes, refusals} \subseteq 0..MaxFaults
    BY <1>1, FaultsAssumption DEF IInv
  <2>5. orphans \cup astray \subseteq Users
    BY <1>1 DEF Noted
  <2>6. QED
    BY <1>1, <2>1, <2>2, <2>3, <2>4, <2>5 DEF TypeOK, IInv, Entries
<1>2. Init => Noted
  BY DEF Init, Noted, NoOp
<1>3. QED
  BY <1>1, <1>2, InvAlways, NotedStep, PTL DEF Spec

(* Whatever was cut off between the files, config.json never hands a       *)
(* request on to an inbound that is not there, keeps none that nobody      *)
(* uses, and no guest over TLS without a front.                            *)
THEOREM NothingDangles == Spec => []RoutesLead
<1>1. IInv => RoutesLead
  BY DEF IInv, Good, Linked, AllUsed, RoutesLead
<1>2. QED
  BY <1>1, InvAlways, PTL

-----------------------------------------------------------------------------
-----------------------------------------------------------------------------
(* Deletions: what each step that is over has done.                        *)

Deleting == op.name \in {"delete", "all", "expired"} /\ Found(before)

(* The plan has none of the users, and its ports are those it frees.       *)
Deletes(users, c, p) ==
  /\ users \cap Clients(p.conf) = {} /\ users \cap DOMAIN p.tracker = {}
  /\ p.ports = Freed(c, p.conf)

Saved == conf = plan.conf
Served == Saved /\ op.users \cap Clients(running) = {}
Shut == Served /\ open \cap plan.ports = {}

Stage ==
  \/ todo = <<"mux", "nginx", "conf", "restart", "close", "tracker">>
  \/ todo = <<"nginx", "conf", "restart", "close", "tracker">>
  \/ todo = <<"conf", "restart", "close", "tracker">>
  \/ todo = <<"restart", "close", "tracker">> /\ Saved
  \/ todo = <<"close", "tracker">> /\ Served
  \/ todo = <<"tracker">> /\ Shut
  \/ todo = <<>> /\ Shut /\ tracker = plan.tracker

Deletion == Deleting /\ ~failed => Deletes(op.users, before, plan) /\ Stage

(* Two sequences put together are the one that has the elements of both.   *)
LEMMA Join ==
  ASSUME NEW S, NEW s \in Seq(S), NEW t \in Seq(S), NEW w \in Seq(S),
         Len(w) = Len(s) + Len(t),
         \A k \in 1..Len(s) : w[k] = s[k],
         \A k \in 1..Len(t) : w[Len(s) + k] = t[k]
  PROVE  s \o t = w
<1> DEFINE q == s \o t
<1>1. /\ q \in Seq(S) /\ Len(q) = Len(s) + Len(t)
      /\ \A k \in 1..Len(s) + Len(t) : q[k] = IF k <= Len(s) THEN s[k] ELSE t[k - Len(s)]
  BY ConcatProperties
<1> HIDE DEF q
<1>2. ASSUME NEW k \in 1..Len(s) + Len(t) PROVE q[k] = w[k]
  <2>1. CASE k <= Len(s)
    BY <1>1, <2>1
  <2>2. CASE k > Len(s)
    <3>1. k - Len(s) \in 1..Len(t) /\ Len(s) + (k - Len(s)) = k
      BY <2>2
    <3>2. w[k] = t[k - Len(s)]
      BY <3>1
    <3>3. ~ (k <= Len(s))
      BY <2>2
    <3>4. q[k] = t[k - Len(s)]
      BY <1>1, <3>3
    <3>5. QED
      BY <3>2, <3>4
  <2>3. QED
    BY <2>1, <2>2
<1>3. q = w
  BY <1>1, <1>2, SeqEqual
<1>4. QED
  BY <1>3 DEF q

LEMMA TwoAndTwo ==
  ASSUME NEW a, NEW b, NEW c, NEW d
  PROVE  <<a, b>> \o <<c, d>> = <<a, b, c, d>>
<1> DEFINE S == {a, b, c, d}
           s == <<a, b>>
           t == <<c, d>>
           w == <<a, b, c, d>>
<1>1. s \in Seq(S) /\ t \in Seq(S) /\ w \in Seq(S) /\ Len(s) = 2 /\ Len(t) = 2 /\ Len(w) = 4
  OBVIOUS
<1>2. \A k \in 1..2 : w[k] = s[k] /\ w[2 + k] = t[k]
  OBVIOUS
<1> HIDE DEF S, s, t, w
<1>3. /\ Len(w) = Len(s) + Len(t) /\ \A k \in 1..Len(s) : w[k] = s[k]
      /\ \A k \in 1..Len(t) : w[Len(s) + k] = t[k]
  BY <1>1, <1>2
<1>4. s \o t = w
  BY <1>1, <1>3, Join
<1>5. QED
  BY <1>4 DEF s, t, w

(* One more at the end.                                                    *)
LEMMA OneMore ==
  ASSUME NEW S, NEW s \in Seq(S), NEW e \in S, NEW w \in Seq(S),
         Len(w) = Len(s) + 1, \A k \in 1..Len(s) : w[k] = s[k], w[Len(s) + 1] = e
  PROVE  s \o <<e>> = w
<1> DEFINE t == <<e>>
<1>1. t \in Seq(S) /\ Len(t) = 1 /\ t[1] = e
  OBVIOUS
<1> HIDE DEF t
<1>2. Len(w) = Len(s) + Len(t) /\ \A k \in 1..Len(t) : w[Len(s) + k] = t[k]
  BY <1>1
<1>3. s \o t = w
  BY <1>1, <1>2, Join
<1>4. QED
  BY <1>3 DEF t

LEMMA TwoAndOne ==
  ASSUME NEW a, NEW b, NEW c
  PROVE  <<a, b>> \o <<c>> = <<a, b, c>>
<1> DEFINE S == {a, b, c}
           s == <<a, b>>
           w == <<a, b, c>>
<1>1. s \in Seq(S) /\ c \in S /\ w \in Seq(S) /\ Len(s) = 2 /\ Len(w) = 3
  OBVIOUS
<1>2. (\A k \in 1..2 : w[k] = s[k]) /\ w[3] = c
  OBVIOUS
<1> HIDE DEF S, s, w
<1>3. Len(w) = Len(s) + 1 /\ (\A k \in 1..Len(s) : w[k] = s[k]) /\ w[Len(s) + 1] = c
  BY <1>1, <1>2
<1>4. s \o <<c>> = w
  BY <1>1, <1>3, OneMore
<1>5. QED
  BY <1>4 DEF s, w

LEMMA ThreeAndOne ==
  ASSUME NEW a, NEW b, NEW c, NEW d
  PROVE  <<a, b, c>> \o <<d>> = <<a, b, c, d>>
<1> DEFINE S == {a, b, c, d}
           s == <<a, b, c>>
           w == <<a, b, c, d>>
<1>1. s \in Seq(S) /\ d \in S /\ w \in Seq(S) /\ Len(s) = 3 /\ Len(w) = 4
  OBVIOUS
<1>2. (\A k \in 1..3 : w[k] = s[k]) /\ w[4] = d
  OBVIOUS
<1> HIDE DEF S, s, w
<1>3. Len(w) = Len(s) + 1 /\ (\A k \in 1..Len(s) : w[k] = s[k]) /\ w[Len(s) + 1] = d
  BY <1>1, <1>2
<1>4. s \o <<d>> = w
  BY <1>1, <1>3, OneMore
<1>5. QED
  BY <1>4 DEF s, w

LEMMA FourAndOne ==
  ASSUME NEW a, NEW b, NEW c, NEW d, NEW e
  PROVE  <<a, b, c, d>> \o <<e>> = <<a, b, c, d, e>>
<1> DEFINE S == {a, b, c, d, e}
           s == <<a, b, c, d>>
           w == <<a, b, c, d, e>>
<1>1. s \in Seq(S) /\ e \in S /\ w \in Seq(S) /\ Len(s) = 4 /\ Len(w) = 5
  OBVIOUS
<1>2. (\A k \in 1..4 : w[k] = s[k]) /\ w[5] = e
  OBVIOUS
<1> HIDE DEF S, s, w
<1>3. Len(w) = Len(s) + 1 /\ (\A k \in 1..Len(s) : w[k] = s[k]) /\ w[Len(s) + 1] = e
  BY <1>1, <1>2
<1>4. s \o <<e>> = w
  BY <1>1, <1>3, OneMore
<1>5. QED
  BY <1>4 DEF s, w

LEMMA FiveAndOne ==
  ASSUME NEW a, NEW b, NEW c, NEW d, NEW e, NEW f
  PROVE  <<a, b, c, d, e>> \o <<f>> = <<a, b, c, d, e, f>>
<1> DEFINE S == {a, b, c, d, e, f}
           s == <<a, b, c, d, e>>
           w == <<a, b, c, d, e, f>>
<1>1. s \in Seq(S) /\ f \in S /\ w \in Seq(S) /\ Len(s) = 5 /\ Len(w) = 6
  OBVIOUS
<1>2. (\A k \in 1..5 : w[k] = s[k]) /\ w[6] = f
  OBVIOUS
<1> HIDE DEF S, s, w
<1>3. Len(w) = Len(s) + 1 /\ (\A k \in 1..Len(s) : w[k] = s[k]) /\ w[Len(s) + 1] = f
  BY <1>1, <1>2
<1>4. s \o <<f>> = w
  BY <1>1, <1>3, OneMore
<1>5. QED
  BY <1>4 DEF s, w

LEMMA RemovalSteps ==
  /\ Trying \o <<"close">> \o <<"tracker">> = <<"conf", "restart", "close", "tracker">>
  /\ (<<"mux", "nginx">> \o Trying) \o <<"close">> \o <<"tracker">> =
       <<"mux", "nginx", "conf", "restart", "close", "tracker">>
<1>1. Trying \o <<"close">> = <<"conf", "restart", "close">>
  BY TwoAndOne DEF Trying
<1>2. <<"conf", "restart", "close">> \o <<"tracker">> = <<"conf", "restart", "close", "tracker">>
  BY ThreeAndOne
<1>3. <<"mux", "nginx">> \o Trying = <<"mux", "nginx", "conf", "restart">>
  BY TwoAndTwo DEF Trying
<1>4. <<"mux", "nginx", "conf", "restart">> \o <<"close">> = <<"mux", "nginx", "conf", "restart", "close">>
  BY FourAndOne
<1>5. <<"mux", "nginx", "conf", "restart", "close">> \o <<"tracker">> =
        <<"mux", "nginx", "conf", "restart", "close", "tracker">>
  BY FiveAndOne
<1>6. QED
  BY <1>1, <1>2, <1>3, <1>4, <1>5, Zenon

LEMMA ClientsIn ==
  ASSUME NEW c, NEW u
  PROVE  u \in Clients(c) <=> Inb(c) = c /\ \E p \in DOMAIN c : u \in c[p].clients
<1>1. DOMAIN Empty = {}
  BY DEF Empty
<1>2. Inb(c) = c \/ Inb(c) = Empty
  BY DEF Inb
<1>3. u \in Clients(c) <=> \E p \in DOMAIN Inb(c) : u \in Inb(c)[p].clients
  BY DEF Clients
<1>4. ASSUME Inb(c) # c PROVE u \notin Clients(c)
  BY <1>1, <1>2, <1>3, <1>4
<1>5. QED
  BY <1>3, <1>4

(* A plan to delete users has none of them left.                           *)
LEMMA PlanDeletes ==
  ASSUME IInv, Found(conf), NEW gone, NEW u \in gone
  PROVE  u \notin Clients(Prune(Without(conf, gone)))
<1> DEFINE l == Without(conf, gone)
           c == Prune(l)
<1>1. conf \in Configs /\ Linked(conf)
  BY FoundGood DEF Good
<1>2. l \in Configs
  BY <1>1, WithoutLinked
<1>3. Pruned(l, c)
  BY <1>2, PruneCleans
<1>4. ASSUME NEW p \in DOMAIN conf PROVE u \notin l[p].clients
  <2> DEFINE i == conf[p]
             S == i.clients \ gone
  <2>1. l[p] = [i EXCEPT !.clients = S]
    BY <1>4 DEF Without
  <2>2. i \in Inbounds
    BY <1>1, <1>4, ConfigsDef
  <2>3. S \in SUBSET Users
    BY <2>2 DEF Inbounds
  <2>4. u \notin S
    OBVIOUS
  <2> HIDE DEF S, i, l
  <2>5. [i EXCEPT !.clients = S].clients = S
    BY <2>2, <2>3, ClientsChanged
  <2>6. QED
    BY <2>1, <2>4, <2>5
<1>5. DOMAIN l = DOMAIN conf
  BY DEF Without
<1> HIDE DEF l, c
<1>6. \A p \in DOMAIN c : p \in DOMAIN conf /\ c[p].clients = l[p].clients
  BY <1>3, <1>5 DEF Pruned
<1>7. u \notin Clients(c)
  BY <1>4, <1>6, ClientsIn
<1>8. QED
  BY <1>7 DEF c, l

LEMMA RemovalDeletes ==
  ASSUME IInv, NEW name, NEW gone, NEW kept, gone \cap DOMAIN kept = {},
         Removal(name, gone, Everywhere(gone), kept)
  PROVE  Deletion'
<1> SUFFICES ASSUME Found(before)' PROVE Deletes(op.users, before, plan)' /\ Stage'
  BY DEF Deletion, Deleting
<1> DEFINE c == Prune(Without(conf, gone))
<1>1. before' = conf
  BY DEF Removal, Start
<1>2. Found(conf)
  BY <1>1 DEF Found
<1>3. Everywhere(gone) = Without(conf, gone)
  BY <1>2 DEF Everywhere
<1>4. /\ op' = [name |-> name, users |-> gone]
      /\ plan'.conf = c /\ plan'.tracker = kept /\ plan'.ports = Freed(conf, c)
      /\ \/ todo' = Trying \o <<"close">> \o <<"tracker">>
         \/ todo' = (<<"mux", "nginx">> \o Trying) \o <<"close">> \o <<"tracker">>
  BY <1>2, <1>3 DEF Removal, Start
<1>5. gone \cap Clients(c) = {}
  BY <1>2, PlanDeletes
<1> HIDE DEF c
<1>6. Deletes(gone, conf, plan')
  BY <1>4, <1>5 DEF Deletes
<1>7. Deletes(op.users, before, plan)'
  BY <1>1, <1>4, <1>6 DEF Deletes, Clients, Inb, Found, Empty, Freed
<1>8. Stage'
  BY <1>4, RemovalSteps DEF Stage
<1>9. QED
  BY <1>7, <1>8

LEMMA OptionsDelete ==
  ASSUME IInv, Options
  PROVE  Deletion'
<1>1. ASSUME NEW u \in Users, NEW port \in Public, NEW s \in Shapes, NEW x \in Paths,
             \/ AddAlone(u, port, s, x)
             \/ AddJoining(u, port, s, x)
             \/ \E i \in Internal : AddGuest(u, port, s, x, i)
             \/ \E i, j \in Internal : AddBehindNginx(u, port, s, x, i, j)
      PROVE  op'.name = "add"
  <2>1. \E steps, p : Start([name |-> "add", users |-> {u}], steps, p)
    <3>1. CASE AddAlone(u, port, s, x)
      BY <3>1, Zenon DEF AddAlone
    <3>2. CASE AddJoining(u, port, s, x)
      BY <3>2, Zenon DEF AddJoining
    <3>3. ASSUME NEW i \in Internal, AddGuest(u, port, s, x, i)
          PROVE  \E steps, p : Start([name |-> "add", users |-> {u}], steps, p)
      BY <3>3, Zenon DEF AddGuest
    <3>4. ASSUME NEW i \in Internal, NEW j \in Internal, AddBehindNginx(u, port, s, x, i, j)
          PROVE  \E steps, p : Start([name |-> "add", users |-> {u}], steps, p)
      BY <3>4, Zenon DEF AddBehindNginx
    <3>5. QED
      BY <1>1, <3>1, <3>2, <3>3, <3>4
  <2>2. QED
    BY <2>1 DEF Start
<1>2. ASSUME NEW u \in Users, Delete(u) PROVE Deletion'
  <2>1. CASE u \in DOMAIN tracker /\ Removal("delete", {u}, Everywhere({u}), Only(tracker, Users \ {u}))
    <3>1. {u} \cap DOMAIN Only(tracker, Users \ {u}) = {}
      BY DEF Only
    <3>2. QED
      BY <2>1, <3>1, RemovalDeletes
  <2>2. CASE \E c : Removal("untracked", {u}, c, tracker)
    <3>1. op'.name = "untracked"
      BY <2>2 DEF Removal, Start
    <3>2. QED
      BY <3>1 DEF Deletion, Deleting
  <2>3. QED
    BY <1>2, <2>1, <2>2, Zenon DEF Delete
<1>3. ASSUME DeleteAll PROVE Deletion'
  <2>1. Users \cap DOMAIN Empty = {}
    BY DEF Empty
  <2>2. QED
    BY <1>3, <2>1, RemovalDeletes DEF DeleteAll
<1>4. ASSUME DeleteExpired PROVE Deletion'
  <2>1. PICK gone \in SUBSET DOMAIN tracker : Removal("expired", gone, Everywhere(gone), Only(tracker, Users \ gone))
    BY <1>4 DEF DeleteExpired
  <2>2. gone \cap DOMAIN Only(tracker, Users \ gone) = {}
    BY DEF Only
  <2>3. QED
    BY <2>1, <2>2, RemovalDeletes
<1>5. ASSUME NEW u \in Users, NEW p \in Ports,
             (\E x \in Paths : EditPath(u, p, x)) \/ (\E v \in Users : EditName(u, p, v))
      PROVE  op'.name \in {"path", "rename"}
  <2>1. ASSUME NEW x \in Paths, EditPath(u, p, x) PROVE op'.name = "path"
    <3>1. \E users, steps, q : Start([name |-> "path", users |-> users], steps, q)
      BY <2>1, Zenon DEF EditPath
    <3>2. QED
      BY <3>1 DEF Start
  <2>2. ASSUME NEW v \in Users, EditName(u, p, v) PROVE op'.name = "rename"
    <3>1. \E users, steps, q : Start([name |-> "rename", users |-> users], steps, q)
      BY <2>2, Zenon DEF EditName
    <3>2. QED
      BY <3>1 DEF Start
  <2>3. QED
    BY <1>5, <2>1, <2>2
<1>6. ASSUME Decoys \/ Uninstall PROVE op'.name \in {"decoy", "uninstall"}
  BY <1>6 DEF Decoys, Uninstall, Start
<1>7. ASSUME op'.name \in {"add", "path", "rename", "decoy", "uninstall"} PROVE Deletion'
  BY <1>7 DEF Deletion, Deleting
<1>8. QED
  BY <1>1, <1>2, <1>3, <1>4, <1>5, <1>6, <1>7 DEF Options

(* What is left to do once a step is over.                                 *)
LEMMA StageSteps ==
  /\ Tail(<<"mux", "nginx", "conf", "restart", "close", "tracker">>) =
       <<"nginx", "conf", "restart", "close", "tracker">>
  /\ Tail(<<"nginx", "conf", "restart", "close", "tracker">>) = <<"conf", "restart", "close", "tracker">>
  /\ Tail(<<"conf", "restart", "close", "tracker">>) = <<"restart", "close", "tracker">>
  /\ Tail(<<"restart", "close", "tracker">>) = <<"close", "tracker">>
  /\ Tail(<<"close", "tracker">>) = <<"tracker">> /\ Tail(<<"tracker">>) = <<>>
OBVIOUS

(* The step that is due decides the stage.                                 *)
LEMMA StageAt ==
  ASSUME Stage, NEW step, At(step)
  PROVE  \/ step = "mux" /\ todo = <<"mux", "nginx", "conf", "restart", "close", "tracker">>
         \/ step = "nginx" /\ todo = <<"nginx", "conf", "restart", "close", "tracker">>
         \/ step = "conf" /\ todo = <<"conf", "restart", "close", "tracker">>
         \/ step = "restart" /\ todo = <<"restart", "close", "tracker">> /\ Saved
         \/ step = "close" /\ todo = <<"close", "tracker">> /\ Served
         \/ step = "tracker" /\ todo = <<"tracker">> /\ Shut
BY DEF Stage, At

(* Each step of a deletion reaches the next stage.                         *)
LEMMA StepsDelete ==
  ASSUME IInv, Deletion, Steps
  PROVE  Deletion'
<1> SUFFICES ASSUME Deleting', ~failed' PROVE Deletes(op.users, before, plan)' /\ Stage'
  BY DEF Deletion
<1>1. op' = op /\ plan' = plan /\ before' = before
  BY DEF Steps, SaveTracker, SaveMux, ReloadNginx, SaveConf, Restart, OpenPort, ClosePorts, Wipe,
         Done, Proceed, Fails
<1>2. Deleting
  BY <1>1 DEF Deleting, Found
<1>3. ~failed /\ todo' = Tail(todo)
  BY <1>2 DEF Deleting, Steps, SaveTracker, SaveMux, ReloadNginx, SaveConf, Restart, OpenPort, ClosePorts, Wipe,
              Done, Proceed, Fails
<1>4. Deletes(op.users, before, plan) /\ Stage
  BY <1>2, <1>3 DEF Deletion
<1>5. Deletes(op.users, before, plan)'
  BY <1>1, <1>4 DEF Deletes, Clients, Inb, Found, Empty, Freed
<1>6. CASE SaveMux
  <2>1. todo = <<"mux", "nginx", "conf", "restart", "close", "tracker">>
    BY <1>4, <1>6, StageAt DEF SaveMux
  <2>2. QED
    BY <1>3, <1>5, <2>1, StageSteps DEF Stage
<1>7. CASE ReloadNginx
  <2>1. todo = <<"nginx", "conf", "restart", "close", "tracker">>
    BY <1>4, <1>7, StageAt DEF ReloadNginx
  <2>2. QED
    BY <1>3, <1>5, <2>1, StageSteps DEF Stage
<1>8. CASE SaveConf
  <2>1. conf' = plan.conf /\ todo = <<"conf", "restart", "close", "tracker">>
    BY <1>4, <1>8, StageAt DEF SaveConf
  <2>2. Saved'
    BY <1>1, <2>1 DEF Saved
  <2>3. QED
    BY <1>3, <1>5, <2>1, <2>2, StageSteps DEF Stage
<1>9. CASE Restart
  <2>1. todo = <<"restart", "close", "tracker">> /\ Saved
    BY <1>4, <1>9, StageAt DEF Restart
  <2>2. conf' = conf /\ \E S : running' = Only(Inb(conf), S)
    BY <1>9 DEF Restart, Fails
  <2>3. \A u \in Clients(running') : u \in Clients(conf)
    <3>1. PICK S : running' = Only(Inb(conf), S)
      BY <2>2
    <3>2. SUFFICES ASSUME NEW u, u \in Clients(running') PROVE u \in Clients(conf)
      OBVIOUS
    <3>3. PICK p \in DOMAIN running' : u \in running'[p].clients
      BY <3>2, ClientsIn
    <3>4. p \in DOMAIN Inb(conf) /\ u \in Inb(conf)[p].clients
      BY <3>1, <3>3 DEF Only
    <3>5. QED
      BY <3>4 DEF Clients
  <2>4. op.users \cap Clients(running') = {}
    BY <1>4, <2>1, <2>3 DEF Saved, Deletes
  <2>5. Served'
    BY <1>1, <2>1, <2>2, <2>4 DEF Served, Saved, Clients, Inb, Found, Empty
  <2>6. QED
    BY <1>3, <1>5, <2>1, <2>5, StageSteps DEF Stage
<1>10. CASE ClosePorts
  <2>1. todo = <<"close", "tracker">> /\ Served
    BY <1>4, <1>10, StageAt DEF ClosePorts
  <2>2. open' \cap plan'.ports = {} /\ conf' = conf /\ running' = running
    BY <1>1, <1>10 DEF ClosePorts
  <2>3. Shut'
    BY <1>1, <2>1, <2>2 DEF Shut, Served, Saved, Clients, Inb, Found, Empty
  <2>4. QED
    BY <1>3, <1>5, <2>1, <2>3, StageSteps DEF Stage
<1>11. CASE SaveTracker
  <2>1. todo = <<"tracker">> /\ Shut
    BY <1>4, <1>11, StageAt DEF SaveTracker
  <2>2. tracker' = plan'.tracker /\ conf' = conf /\ running' = running /\ open' = open
    BY <1>1, <1>11 DEF SaveTracker
  <2>3. Shut'
    BY <1>1, <2>1, <2>2 DEF Shut, Served, Saved, Clients, Inb, Found, Empty
  <2>4. QED
    BY <1>3, <1>5, <2>1, <2>2, <2>3, StageSteps DEF Stage
<1>12. CASE OpenPort \/ Wipe
  BY <1>4, <1>12, StageAt DEF OpenPort, Wipe
<1>13. QED
  BY <1>5, <1>6, <1>7, <1>8, <1>9, <1>10, <1>11, <1>12 DEF Steps

LEMMA DeletionStep ==
  ASSUME IInv, Deletion, [Next]_vars
  PROVE  Deletion'
<1>1. CASE Options
  BY <1>1, OptionsDelete
<1>2. CASE Steps
  BY <1>2, StepsDelete
<1>3. ASSUME Finish \/ Hangup \/ Reboot PROVE Deletion'
  <2>1. op' = NoOp
    BY <1>3 DEF Finish, Hangup, Reboot, Dies
  <2>2. QED
    BY <2>1 DEF Deletion, Deleting, NoOp
<1>4. CASE UNCHANGED vars
  BY <1>4 DEF vars, Deletion, Deleting, Deletes, Stage, Shut, Served, Saved, Clients, Inb, Found, Empty, Freed
<1>5. QED
  BY <1>1, <1>2, <1>3, <1>4 DEF Next

(* A deletion whose restart worked leaves nobody it was about: not in what *)
(* Xray serves, nor in a file, nor a port that it freed open.              *)
THEOREM DeletedAreGone == Spec => []DeletedGone
<1>1. ASSUME Init PROVE Deletion
  BY <1>1 DEF Init, Deletion, Deleting, NoOp
<1>2. IInv /\ Deletion /\ [Next]_vars => Deletion'
  BY DeletionStep
<1>3. ASSUME Deletion PROVE DeletedGone
  <2> SUFFICES ASSUME todo = <<>>, Deleting, ~failed
               PROVE  /\ op.users \cap (Clients(running) \cup Clients(conf) \cup DOMAIN tracker) = {}
                      /\ open \cap Freed(before, conf) = {}
    BY DEF DeletedGone, Deleting, Ended
  <2>1. Deletes(op.users, before, plan) /\ Stage
    BY <1>3 DEF Deletion
  <2>2. Shut /\ tracker = plan.tracker
    BY <2>1 DEF Stage
  <2>3. QED
    BY <2>1, <2>2 DEF Shut, Served, Saved, Deletes
<1>4. QED
  BY <1>1, <1>2, <1>3, InvAlways, PTL DEF Spec

-----------------------------------------------------------------------------
(* The tracker and the configuration.                                      *)
=============================================================================
