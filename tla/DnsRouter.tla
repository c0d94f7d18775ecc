------------------------------ MODULE DnsRouter ------------------------------
(***************************************************************************)
(* dns-router.py, which shares port 53 among the DNS tunnels of the panel: *)
(* one thread for all UDP traffic, one for each TCP connection and one     *)
(* that reads the registry again every five seconds, while the panel       *)
(* writes that file, restarts the router or is killed.                     *)
(*                                                                         *)
(* Descriptors are numbered as in the process: the lowest free one is      *)
(* taken, and a closed one is soon somebody else's.  Time is abstract: a   *)
(* socket may come of age, that is outlive its timeout, at any moment.     *)
(*                                                                         *)
(* A definition named Mut... is a plausible slip in the one below it, kept *)
(* to show which property would notice; no action uses it.                 *)
(***************************************************************************)
EXTENDS Naturals, Sequences, FiniteSets

CONSTANTS
  Clients,     \* addresses queries come from
  Engines,     \* the instances the panel may register
  Persistent,  \* those in mode slipstream, which need one socket per client
  Names,       \* what a query may ask for
  Suffixes,    \* the engines whose domain a name ends in, longest domain first
  Fds,         \* the descriptors the process may have besides its own
  Conns,       \* TCP connections at a time
  MaxQueue,    \* datagrams waiting on port 53
  MaxChanges   \* changes of the registry and restarts in a behaviour

ASSUME EnginesAssumption == Persistent \subseteq Engines
ASSUME SuffixesAssumption == Suffixes \in [Names -> Seq(Engines)]
ASSUME FdsAssumption == Fds \subseteq Nat \ {0} /\ IsFiniteSet(Fds)
ASSUME BoundsAssumption == MaxQueue \in Nat /\ MaxChanges \in Nat

VARIABLES
  registry,  \* the engines of instances.json
  torn,      \* the file is truncated, its content not written yet
  writing,   \* the panel is writing it
  view,      \* registry_ref[0]
  queue,     \* datagrams that wait on port 53
  udp,       \* where udp_loop is
  ready,     \* what select returned and is not yet served; 0 is port 53
  sessions,  \* udp_sessions: the socket of a client and an engine
  bySock,    \* udp_sessions_by_sock, its inverse
  oneshot,   \* oneshot_sockets and oneshot_meta: the client of a socket
  aged,      \* sockets idle or open for longer than their timeout
  inbox,     \* backend sockets with an answer to read
  owner,     \* the client and engine each UDP socket was opened for (history)
  open,      \* the descriptors in use
  conn,      \* the TCP connections
  changes    \* changes and restarts so far (history)

file == <<registry, torn, writing, changes>>
tables == <<sessions, bySock, oneshot, aged>>
kernel == <<inbox, owner, open>>
vars == <<file, view, queue, udp, ready, tables, kernel, conn>>

Pairs == [client : Clients, engine : Engines]
Queries == [client : Clients, name : Names]
NoConn == [at |-> "closed", known |-> FALSE, fds |-> {}, up |-> FALSE, down |-> FALSE]

(* find_matching_instance: the registered engine with the longest domain.  *)
Matches(name, known) == {i \in DOMAIN Suffixes[name] : Suffixes[name][i] \in known}
Matching(name, known) == Suffixes[name][CHOOSE i \in Matches(name, known) : \A j \in Matches(name, known) : i <= j]

Free == Fds \ open
Lowest == CHOOSE f \in Free : \A g \in Free : f <= g

Without(f, S) == [x \in DOMAIN f \ S |-> f[x]]
With(f, x, y) == [z \in DOMAIN f \cup {x} |-> IF z = x THEN y ELSE f[z]]

-----------------------------------------------------------------------------
Empty == [x \in {} |-> 0]
Init ==
  /\ registry \in SUBSET Engines /\ torn = FALSE /\ writing = FALSE /\ view = registry
  /\ udp = "select" /\ ready = {} /\ queue = <<>>
  /\ sessions = Empty /\ bySock = Empty /\ oneshot = Empty /\ aged = {}
  /\ inbox = {} /\ owner = Empty /\ open = {}
  /\ conn = [k \in Conns |-> NoConn]
  /\ changes = 0

(* The panel.                                                              *)

(* _save_instance_registry truncates the file and then writes it; a panel  *)
(* that finds it unreadable stops with an exception.                       *)
SaveRegistry ==
  /\ ~writing /\ ~torn /\ changes < MaxChanges /\ changes' = changes + 1
  /\ \E e \in Engines : registry' = IF e \in registry THEN registry \ {e} ELSE registry \cup {e}
  /\ torn' = TRUE /\ writing' = TRUE
  /\ UNCHANGED <<view, queue, udp, ready, tables, kernel, conn>>

Saved ==
  /\ writing /\ writing' = FALSE /\ torn' = FALSE
  /\ UNCHANGED <<registry, changes, view, queue, udp, ready, tables, kernel, conn>>

PanelDies ==
  /\ writing /\ writing' = FALSE
  /\ UNCHANGED <<registry, torn, changes, view, queue, udp, ready, tables, kernel, conn>>

(* load_registry: an unreadable file counts as an empty one.               *)
Loaded == IF torn THEN {} ELSE registry

RestartRouter ==
  /\ changes < MaxChanges /\ changes' = changes + 1
  /\ view' = Loaded
  /\ udp' = "select" /\ ready' = {} /\ queue' = <<>>
  /\ sessions' = Empty /\ bySock' = Empty /\ oneshot' = Empty /\ aged' = {}
  /\ inbox' = {} /\ owner' = Empty /\ open' = {}
  /\ conn' = [k \in Conns |-> NoConn]
  /\ UNCHANGED <<registry, torn, writing>>

MutRefresh == view' = view \cup Loaded /\ UNCHANGED <<file, queue, udp, ready, tables, kernel, conn>>
Refresh == view' = Loaded /\ UNCHANGED <<file, queue, udp, ready, tables, kernel, conn>>

-----------------------------------------------------------------------------
(* Clients, engines and the clock.                                         *)

ClientSends ==
  /\ Len(queue) < MaxQueue
  /\ \E q \in Queries : queue' = Append(queue, q)
  /\ UNCHANGED <<file, view, udp, ready, tables, kernel, conn>>

EngineAnswers ==
  /\ \E f \in DOMAIN owner \ inbox : inbox' = inbox \cup {f}
  /\ UNCHANGED <<file, view, queue, udp, ready, tables, owner, open, conn>>

ComesOfAge(f) ==
  /\ f \in DOMAIN owner \ aged /\ aged' = aged \cup {f}
  /\ UNCHANGED <<file, view, queue, udp, ready, sessions, bySock, oneshot, kernel, conn>>

-----------------------------------------------------------------------------
(* udp_loop, from one select to the next.                                  *)

Select ==
  /\ udp = "select"
  /\ ready' = inbox \cup (IF queue = <<>> THEN {} ELSE {0})
  /\ udp' = IF ready' = {} THEN "expiry" ELSE "serving"
  /\ UNCHANGED <<file, view, queue, tables, kernel, conn>>

(* The descriptors S are served, then the timeouts are checked.            *)
Serve(S) ==
  /\ udp = "serving"
  /\ ready' = ready \ S
  /\ udp' = IF ready' = {} THEN "expiry" ELSE "serving"
  /\ UNCHANGED <<file, view, conn>>

Opened(f, c, e) ==
  /\ open' = open \cup {f} /\ owner' = With(owner, f, [client |-> c, engine |-> e])
  /\ UNCHANGED <<inbox, aged>>
Closed(S) ==
  /\ open' = open \ S /\ owner' = Without(owner, S)
  /\ inbox' = inbox \ S /\ aged' = aged \ S

(* _close_udp_session and _close_oneshot.                                  *)
SessionsOf(S) == {p \in DOMAIN sessions : sessions[p] \in S}
MutForgotten(S) ==
  /\ sessions' = Without(sessions, SessionsOf(S)) /\ bySock' = Without(bySock, S)
  /\ oneshot' = oneshot
Forgotten(S) ==
  /\ sessions' = Without(sessions, SessionsOf(S)) /\ bySock' = Without(bySock, S)
  /\ oneshot' = Without(oneshot, S)

(* handle_udp_datagram.  Port 53 comes first in every round; a socket that *)
(* fails to send is closed, and a new one then was never there.            *)
Asks == Head(queue)
Asked == [client |-> Asks.client, engine |-> Matching(Asks.name, view)]
Takes == udp = "serving" /\ 0 \in ready /\ queue' = Tail(queue)
Known == Matches(Asks.name, view) # {}

Drop == Takes /\ ~Known /\ Serve({0}) /\ UNCHANGED <<tables, kernel>>

OldSession ==
  /\ Takes /\ Known /\ Asked.engine \in Persistent /\ Asked \in DOMAIN sessions
  /\ LET f == sessions[Asked]
     IN \/ Serve({0}) /\ aged' = aged \ {f} /\ UNCHANGED <<sessions, bySock, oneshot, kernel>>
        \/ Serve({0, f}) /\ Forgotten({f}) /\ Closed({f})

MutNewSession ==
  /\ Takes /\ Known /\ Asked.engine \in Persistent /\ Asked \notin DOMAIN sessions
  /\ Free # {} /\ Serve({0}) /\ UNCHANGED oneshot
  /\ Opened(Lowest, Asked.client, Asked.engine)
  /\ sessions' = With(sessions, Asked.client, Lowest) /\ bySock' = With(bySock, Lowest, Asked)
NewSession ==
  /\ Takes /\ Known /\ Asked.engine \in Persistent /\ Asked \notin DOMAIN sessions
  /\ Free # {} /\ Serve({0})
  /\ \/ /\ Opened(Lowest, Asked.client, Asked.engine)
        /\ sessions' = With(sessions, Asked, Lowest) /\ bySock' = With(bySock, Lowest, Asked)
        /\ UNCHANGED oneshot
     \/ UNCHANGED <<tables, kernel>>

NewOneshot ==
  /\ Takes /\ Known /\ Asked.engine \notin Persistent
  /\ Free # {} /\ Serve({0})
  /\ \/ /\ Opened(Lowest, Asked.client, Asked.engine)
        /\ oneshot' = With(oneshot, Lowest, Asked.client)
        /\ UNCHANGED <<sessions, bySock>>
     \/ UNCHANGED <<tables, kernel>>

(* socket() raises when no descriptor is left; nothing catches it, and the *)
(* process goes on without this thread.                                    *)
Exhausted ==
  /\ Takes /\ Known /\ Free = {}
  /\ Asked.engine \in Persistent => Asked \notin DOMAIN sessions
  /\ udp' = "dead" /\ ready' = {}
  /\ UNCHANGED <<file, view, tables, kernel, conn>>

(* An answer goes to the client the tables name.                           *)
AnswerOneshot(f) ==
  /\ f \in ready \ {0} /\ 0 \notin ready /\ f \in DOMAIN oneshot
  /\ Serve({f}) /\ Forgotten({f}) /\ Closed({f}) /\ UNCHANGED queue

AnswerSession(f) ==
  /\ f \in ready \ {0} /\ 0 \notin ready /\ f \notin DOMAIN oneshot /\ f \in DOMAIN bySock
  /\ Serve({f}) /\ UNCHANGED queue
  /\ \/ inbox' = inbox \ {f} /\ aged' = aged \ {f} /\ UNCHANGED <<sessions, bySock, oneshot, owner, open>>
     \/ Forgotten({f}) /\ Closed({f})

MutExpire ==
  /\ udp = "expiry" /\ udp' = "select"
  /\ Forgotten(aged \cap DOMAIN bySock) /\ Closed(aged \cap DOMAIN bySock)
  /\ UNCHANGED <<file, view, queue, ready, conn>>
Expire ==
  /\ udp = "expiry" /\ udp' = "select"
  /\ Forgotten(aged) /\ Closed(aged)
  /\ UNCHANGED <<file, view, queue, ready, conn>>

UdpLoop ==
  \/ Select \/ Drop \/ OldSession \/ NewSession \/ NewOneshot \/ Exhausted
  \/ \E f \in Fds : AnswerOneshot(f) \/ AnswerSession(f)
  \/ Expire

-----------------------------------------------------------------------------
(* tcp_loop and handle_tcp_connection: the registry is the one of the      *)
(* moment the connection is accepted, whatever name its query will have.   *)
OtherThreads == <<file, view, queue, udp, ready, tables, inbox, owner>>

Accept(k) ==
  /\ conn[k].at = "closed" /\ Free # {}
  /\ open' = open \cup {Lowest}
  /\ \E n \in Names :
       conn' = [conn EXCEPT ![k] = [NoConn EXCEPT !.at = "reading", !.known = Matches(n, view) # {}, !.fds = {Lowest}]]
  /\ UNCHANGED OtherThreads

MutHangUp(k) ==
  /\ open' = open \ {CHOOSE f \in conn[k].fds : TRUE} /\ conn' = [conn EXCEPT ![k] = NoConn]
  /\ UNCHANGED OtherThreads
HangUp(k) ==
  /\ open' = open \ conn[k].fds /\ conn' = [conn EXCEPT ![k] = NoConn]
  /\ UNCHANGED OtherThreads

(* An incomplete query, an unknown name, no descriptor or no engine ends   *)
(* the connection; otherwise two threads relay, one in each direction.     *)
Forward(k) ==
  /\ conn[k].at = "reading"
  /\ \/ HangUp(k)
     \/ /\ conn[k].known /\ Free # {}
        /\ open' = open \cup {Lowest}
        /\ conn' = [conn EXCEPT ![k].at = "relaying", ![k].fds = @ \cup {Lowest}, ![k].up = TRUE, ![k].down = TRUE]
        /\ UNCHANGED OtherThreads

(* A direction ends when its source closes or is silent for TCP_TIMEOUT.   *)
UpEnds(k) == conn[k].up /\ conn' = [conn EXCEPT ![k].up = FALSE] /\ UNCHANGED <<OtherThreads, open>>
DownEnds(k) == conn[k].down /\ conn' = [conn EXCEPT ![k].down = FALSE] /\ UNCHANGED <<OtherThreads, open>>

Joined(k) == conn[k].at = "relaying" /\ ~conn[k].up /\ ~conn[k].down /\ HangUp(k)

Next ==
  \/ SaveRegistry \/ Saved \/ PanelDies \/ RestartRouter \/ Refresh
  \/ ClientSends \/ EngineAnswers \/ \E f \in Fds : ComesOfAge(f)
  \/ UdpLoop
  \/ \E k \in Conns : Accept(k) \/ Forward(k) \/ UpEnds(k) \/ DownEnds(k) \/ Joined(k)

Spec == Init /\ [][Next]_vars

(* The threads run; every socket grows old and every direction of a        *)
(* connection falls silent for its timeout.                                *)
FairSpec ==
  /\ Spec /\ WF_vars(Refresh) /\ WF_vars(UdpLoop)
  /\ \A f \in Fds : WF_vars(ComesOfAge(f))
  /\ \A k \in Conns : WF_vars(Forward(k)) /\ WF_vars(UpEnds(k)) /\ WF_vars(DownEnds(k)) /\ WF_vars(Joined(k))
-----------------------------------------------------------------------------
Partial(S, T) == UNION {[D -> T] : D \in SUBSET S}

(* Every variable keeps its type.                                          *)
TypeOK ==
  /\ registry \subseteq Engines /\ view \subseteq Engines /\ torn \in BOOLEAN /\ writing \in BOOLEAN
  /\ udp \in {"select", "serving", "expiry", "dead"} /\ ready \subseteq Fds \cup {0}
  /\ queue \in Seq(Queries) /\ Len(queue) <= MaxQueue
  /\ sessions \in Partial(Pairs, Fds) /\ bySock \in Partial(Fds, Pairs) /\ oneshot \in Partial(Fds, Clients)
  /\ aged \subseteq Fds /\ inbox \subseteq Fds /\ open \subseteq Fds /\ owner \in Partial(Fds, Pairs)
  /\ conn \in [Conns -> [at : {"closed", "reading", "relaying"}, known : BOOLEAN, fds : SUBSET Fds, up : BOOLEAN, down : BOOLEAN]]
  /\ changes \in 0..MaxChanges

(* The answer that comes over a socket goes to the client the socket was   *)
(* opened for, and a session only ever speaks to its own engine, however   *)
(* descriptors are closed and taken again.                                 *)
AnswersReachAsker ==
  \A f \in DOMAIN owner :
    IF f \in DOMAIN oneshot THEN oneshot[f] = owner[f].client
    ELSE f \in DOMAIN bySock /\ bySock[f] = owner[f] /\ owner[f] \in DOMAIN sessions /\ sessions[owner[f]] = f

(* No descriptor is lost: each one in use is in exactly one of the tables  *)
(* of the UDP thread or held by one connection.                            *)
DescriptorsOwned ==
  /\ open = DOMAIN owner \cup UNION {conn[k].fds : k \in Conns}
  /\ \A k \in Conns : conn[k].fds \cap DOMAIN owner = {} /\ \A l \in Conns \ {k} : conn[k].fds \cap conn[l].fds = {}
  /\ DOMAIN oneshot \cap DOMAIN bySock = {} /\ DOMAIN oneshot \cup DOMAIN bySock = DOMAIN owner
  /\ aged \cup inbox \subseteq DOMAIN owner

(* Nothing waits for ever: a query's socket whose engine keeps silent is   *)
(* closed, unless the thread is gone, and a connection whose two ends fall *)
(* silent is closed too.                                                   *)
NothingWaits ==
  /\ \A f \in Fds : f \in DOMAIN oneshot ~> f \notin DOMAIN oneshot \/ udp = "dead"
  /\ \A k \in Conns : conn[k].at # "closed" ~> conn[k].at = "closed"

(* Once the panel leaves the registry alone the router works by it.        *)
ViewFollows == <>[](view = Loaded)
=============================================================================
