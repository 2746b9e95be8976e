-------------------------- MODULE TcpServerProofs --------------------------
(* Theorems about module TcpServer, for any clients, limits and rules, and *)
(* about module Proxy, which is what its clients do most of the time.      *)
EXTENDS TcpServer, SchedulerProofs, Proxy

LEMMA ServerTypeInit == TcpInit => TcpTypeOK
BY DEF TcpInit, TcpTypeOK, Conn, NoConn

\* The steps of Handle(c) that leave conn alone, and those that change it for
\* c only, within the ways of a handler.
LEMMA HandleConn ==
  ASSUME TcpTypeOK, NEW c \in Conns, Handle(c)
  PROVE  /\ server' = server /\ clients' = clients
         /\ conn[c].at \in Started
         /\ \/ conn' = conn
            \/ \E r \in Conn : /\ conn' = [conn EXCEPT ![c] = r]
                               /\ r.at \in Started /\ r.addr = conn[c].addr
                               /\ conn[c].client = "closed" => r.client = "closed"
<1> DEFINE Good(r) == /\ r \in Conn
                      /\ conn' = [conn EXCEPT ![c] = r]
                      /\ r.at \in Started /\ r.addr = conn[c].addr
                      /\ conn[c].client = "closed" => r.client = "closed"
<1>0. conn[c] \in Conn
  BY DEF TcpTypeOK
<1>1. CASE Denied(c)
  <2>1. Good([conn[c] EXCEPT !.at = "leaving", !.client = "closed"])
    BY <1>0, <1>1 DEF Denied, Conn, Started, TcpTypeOK
  <2>2. QED
    BY <1>1, <2>1 DEF Denied, Electing, Started
<1>2. CASE Elected(c)
  BY <1>2 DEF Elected, Electing, Started, tcpVars
<1>3. CASE NotElected(c)
  <2>1. Good([conn[c] EXCEPT !.at = "leaving"])
    BY <1>0, <1>3 DEF NotElected, Conn, Started, TcpTypeOK
  <2>2. QED
    BY <1>3, <2>1 DEF NotElected, Electing, Started
<1>4. CASE Dial(c)
  <2>1. CASE DialFails(c)
    <3>1. Good([conn[c] EXCEPT !.at = "leaving"])
      BY <1>0, <2>1 DEF DialFails, Conn, Started, TcpTypeOK
    <3>2. QED
      BY <2>1, <3>1 DEF DialFails, Dialing, Started
  <2>2. CASE DialSucceeds(c)
    <3>1. Good([conn[c] EXCEPT !.backend = "open"])
      BY <1>0, <2>2 DEF DialSucceeds, Dialing, Conn, Started, TcpTypeOK
    <3>2. QED
      BY <2>2, <3>1 DEF DialSucceeds, Dialing, Started
  <2>3. QED
    BY <1>4, <2>1, <2>2 DEF Dial
<1>5. CASE CountIn(c)
  <2>1. Good([conn[c] EXCEPT !.at = IF ProxyProtocol THEN "header" ELSE "proxying"])
    BY <1>0, <1>5 DEF CountIn, Conn, Started, TcpTypeOK
  <2>2. QED
    BY <1>5, <2>1 DEF CountIn, Started
<1>6. CASE Header(c)
  <2>1. CASE HeaderSent(c)
    <3>1. Good([conn[c] EXCEPT !.at = "proxying"])
      BY <1>0, <2>1 DEF HeaderSent, Conn, Started, TcpTypeOK
    <3>2. QED
      BY <2>1, <3>1 DEF HeaderSent, Started
  <2>2. CASE HeaderFails(c)
    <3>1. Good([conn[c] EXCEPT !.at = "returning"])
      BY <1>0, <2>2 DEF HeaderFails, Conn, Started, TcpTypeOK
    <3>2. QED
      BY <2>2, <3>1 DEF HeaderFails, Started
  <2>3. QED
    BY <1>6, <2>1, <2>2 DEF Header
<1>7. CASE ProxyEnds(c)
  <2>1. Good([conn[c] EXCEPT !.at = "returning", !.client = "closed", !.backend = "closed"])
    BY <1>0, <1>7 DEF ProxyEnds, Conn, Started, TcpTypeOK
  <2>2. QED
    BY <1>7, <2>1 DEF ProxyEnds, Started
<1>8. CASE CountOut(c)
  <2>1. Good([conn[c] EXCEPT !.at = "leaving"])
    BY <1>0, <1>8 DEF CountOut, Conn, Started, TcpTypeOK
  <2>2. QED
    BY <1>8, <2>1 DEF CountOut, Started
<1>9. QED
  BY <1>1, <1>2, <1>3, <1>4, <1>5, <1>6, <1>7, <1>8 DEF Handle

\* A connection that was accepted has an address.
Addressed == \A c \in Conns : conn[c].at # "none" => conn[c].addr \in Addrs

LEMMA ServerTypeStep ==
  TcpTypeOK /\ Addressed /\ [TcpNext]_allVars => TcpTypeOK' /\ Addressed'
<1> SUFFICES ASSUME TcpTypeOK, Addressed, [TcpNext]_allVars
             PROVE  TcpTypeOK' /\ Addressed'
  OBVIOUS
<1> USE DEF TcpTypeOK, Addressed
<1>1. ASSUME NEW c \in Conns, NEW a \in Addrs, Accept(c, a)
      PROVE  TcpTypeOK' /\ Addressed'
  BY <1>1 DEF Accept, Conn, NoConn
<1>2. ASSUME NEW c \in Conns, Wrap(c)
      PROVE  TcpTypeOK' /\ Addressed'
  BY <1>2 DEF Wrap, HelloRead, HelloFails, Conn
<1>3. ASSUME NEW c \in Conns, HandleClientConnect(c)
      PROVE  TcpTypeOK' /\ Addressed'
  <2>1. CASE Full
    BY <1>3, <2>1 DEF HandleClientConnect, Conn
  <2>2. CASE ~Full
    <3>1. /\ conn' = [conn EXCEPT ![c].at = "handling"]
          /\ clients' = [a \in DOMAIN clients \cup {conn[c].addr} |->
                           IF a = conn[c].addr THEN c ELSE clients[a]]
          /\ server' = server /\ conn[c].addr \in Addrs
      BY <1>3, <2>2 DEF HandleClientConnect
    <3>2. PICK A \in SUBSET Addrs : clients \in [A -> Conns]
      OBVIOUS
    <3>3. clients' \in [A \cup {conn[c].addr} -> Conns]
      BY <3>1, <3>2
    <3>4. A \cup {conn[c].addr} \in SUBSET Addrs
      BY <3>1, <3>2
    <3>5. conn' \in [Conns -> Conn] /\ Addressed'
      BY <3>1 DEF Conn
    <3>6. QED
      BY <3>1, <3>3, <3>4, <3>5
  <2>3. QED
    BY <2>1, <2>2
<1>4. ASSUME NEW c \in Conns, HandleClientDisconnect(c)
      PROVE  TcpTypeOK' /\ Addressed'
  <2>1. PICK A \in SUBSET Addrs : clients \in [A -> Conns]
    OBVIOUS
  <2>2. clients' \in [A \ {conn[c].addr} -> Conns] /\ A \ {conn[c].addr} \in SUBSET Addrs
    BY <1>4, <2>1 DEF HandleClientDisconnect
  <2>3. conn' \in [Conns -> Conn] /\ server' = server /\ Addressed'
    BY <1>4 DEF HandleClientDisconnect, Conn
  <2>4. QED
    BY <2>2, <2>3
<1>5. ASSUME NEW c \in Conns, Handle(c)
      PROVE  TcpTypeOK' /\ Addressed'
  BY <1>5, HandleConn DEF Started
<1>6. CASE StopScheduler
  BY <1>6 DEF StopScheduler
<1>7. CASE CloseClients
  <2>1. clients' \in [{} -> Conns] /\ {} \in SUBSET Addrs
    BY <1>7 DEF CloseClients
  <2>2. conn' \in [Conns -> Conn] /\ Addressed'
    BY <1>7 DEF CloseClients, Conn
  <2>3. QED
    BY <1>7, <2>1, <2>2 DEF CloseClients
<1>8. CASE Environment
  BY <1>8 DEF Environment, tcpVars
<1>9. CASE UNCHANGED allVars
  BY <1>9 DEF allVars
<1>10. QED
  BY <1>1, <1>2, <1>3, <1>4, <1>5, <1>6, <1>7, <1>8, <1>9 DEF TcpNext, Serve, Loop

\* The loop, the map and the connections keep their types, with or without
\* addresses that come back.
THEOREM TcpTypeCorrect == TcpSpec => []TcpTypeOK
<1>1. TcpInit => Addressed
  BY DEF TcpInit, Addressed, NoConn
<1>2. QED
  BY <1>1, ServerTypeInit, ServerTypeStep, PTL DEF TcpSpec

LEMMA FreshIsTcp == FreshSpec => TcpSpec
<1>1. [FreshNext]_allVars => [TcpNext]_allVars
  BY DEF FreshNext, TcpNext, FreshAccept
<1>2. QED
  BY <1>1, PTL DEF FreshSpec, TcpSpec

-----------------------------------------------------------------------------
(* The map of clients, as long as no address comes back too soon.          *)

Busy(c) == conn[c].at \notin {"none", "gone"}

\* Connections that have not come and gone have addresses of their own.
FreshAddrs ==
  \A c, d \in Conns : Busy(c) /\ Busy(d) /\ conn[c].addr = conn[d].addr => c = d

MapInv == TcpTypeOK /\ Addressed /\ FreshAddrs /\ ClientsAreHandled /\ StopDropsHandled

LEMMA MapInit == TcpInit => MapInv
<1> SUFFICES ASSUME TcpInit PROVE MapInv
  OBVIOUS
<1>1. TcpTypeOK
  BY ServerTypeInit
<1>2. Addressed /\ FreshAddrs
  BY DEF TcpInit, Addressed, FreshAddrs, Busy, NoConn
<1>3. ClientsAreHandled /\ StopDropsHandled
  BY DEF TcpInit, ClientsAreHandled, StopDropsHandled, Handled, Started, NoConn
<1>4. QED
  BY <1>1, <1>2, <1>3 DEF MapInv

LEMMA MapStep == MapInv /\ [FreshNext]_allVars => MapInv'
<1> SUFFICES ASSUME MapInv, [FreshNext]_allVars PROVE MapInv'
  OBVIOUS
<1>0. TcpTypeOK /\ Addressed /\ TcpTypeOK' /\ Addressed'
  BY ServerTypeStep DEF MapInv, FreshNext, TcpNext, FreshAccept
<1> USE <1>0 DEF TcpTypeOK
<1> DEFINE Goal == FreshAddrs' /\ ClientsAreHandled' /\ StopDropsHandled'
<1> USE DEF FreshAddrs, ClientsAreHandled, StopDropsHandled, Handled, MapInv
<1>1. ASSUME NEW c \in Conns, NEW a \in Addrs, FreshAccept(c, a) PROVE Goal
  <2>1. /\ conn[c].at = "none" /\ server' = server /\ clients' = clients
        /\ \A d \in Conns : d # c => conn'[d] = conn[d]
        /\ conn'[c].at \in {"hello", "queued"} /\ conn'[c].addr = a
        /\ \A d \in Conns : conn[d].addr = a => conn[d].at = "gone"
        /\ server # "stopped"
    BY <1>1 DEF FreshAccept, Accept, NoConn, Conn
  <2>2. FreshAddrs'
    BY <2>1 DEF Busy
  <2>3. Handled' = Handled /\ c \notin Handled
    BY <2>1 DEF Started
  <2>4. ClientsAreHandled'
    BY <2>1, <2>3
  <2>5. StopDropsHandled'
    BY <2>1
  <2>6. QED
    BY <2>2, <2>4, <2>5
<1>2. ASSUME NEW c \in Conns, Wrap(c) PROVE Goal
  <2>1. /\ conn[c].at = "hello" /\ server' = server /\ clients' = clients
        /\ \A d \in Conns : d # c => conn'[d] = conn[d]
        /\ conn'[c].at \in {"queued", "gone"} /\ conn'[c].addr = conn[c].addr
    BY <1>2 DEF Wrap, HelloRead, HelloFails, Conn
  <2>2. FreshAddrs'
    BY <2>1 DEF Busy
  <2>3. Handled' = Handled /\ c \notin Handled
    BY <2>1 DEF Started
  <2>4. ClientsAreHandled' /\ StopDropsHandled'
    BY <2>1, <2>3
  <2>5. QED
    BY <2>2, <2>4
<1>3. ASSUME NEW c \in Conns, HandleClientConnect(c) PROVE Goal
  <2>1. CASE Full
    BY <1>3, <2>1 DEF HandleClientConnect, Conn, Busy, Started
  <2>2. CASE ~Full
    <3>1. /\ conn[c].at = "queued" /\ conn' = [conn EXCEPT ![c].at = "handling"]
          /\ clients' = [a \in DOMAIN clients \cup {conn[c].addr} |->
                           IF a = conn[c].addr THEN c ELSE clients[a]]
          /\ server = "serving" /\ server' = "serving"
      BY <1>3, <2>2 DEF HandleClientConnect
    <3>2. /\ \A d \in Conns : d # c => conn'[d] = conn[d]
          /\ conn'[c].at = "handling" /\ conn'[c].addr = conn[c].addr
      BY <3>1 DEF Conn
    <3>3. Handled' = Handled \cup {c} /\ c \notin Handled
      BY <3>1, <3>2 DEF Started
    <3>4. \A d \in Handled : conn[d].addr # conn[c].addr
      BY <3>1, <3>3 DEF Busy, Started
    <3>5. FreshAddrs'
      BY <3>1, <3>2 DEF Busy
    <3>6. ASSUME NEW d \in Handled'
          PROVE  conn'[d].addr \in DOMAIN clients' /\ clients'[conn'[d].addr] = d
      BY <3>1, <3>2, <3>3, <3>4, <3>6
    <3>7. ASSUME NEW a \in DOMAIN clients'
          PROVE  clients'[a] \in Handled' /\ conn'[clients'[a]].addr = a
      BY <3>1, <3>2, <3>3, <3>7
    <3>8. QED
      BY <3>1, <3>5, <3>6, <3>7
  <2>3. QED
    BY <2>1, <2>2
<1>4. ASSUME NEW c \in Conns, HandleClientDisconnect(c) PROVE Goal
  BY <1>4 DEF HandleClientDisconnect, Conn, Busy, Started
<1>5. ASSUME NEW c \in Conns, Handle(c) PROVE Goal
  <2>1. server' = server /\ clients' = clients /\ conn[c].at \in Started
    BY <1>5, HandleConn
  <2>2. \/ conn' = conn
        \/ \E r \in Conn : /\ conn' = [conn EXCEPT ![c] = r]
                           /\ r.at \in Started /\ r.addr = conn[c].addr
                           /\ conn[c].client = "closed" => r.client = "closed"
    BY <1>5, HandleConn
  <2>3. CASE conn' = conn
    BY <2>1, <2>3 DEF Busy
  <2>4. ASSUME NEW r \in Conn, conn' = [conn EXCEPT ![c] = r],
               r.at \in Started, r.addr = conn[c].addr,
               conn[c].client = "closed" => r.client = "closed"
        PROVE  Goal
    BY <2>1, <2>4 DEF Busy, Started
  <2>5. QED
    BY <2>2, <2>3, <2>4
<1>6. CASE StopScheduler
  BY <1>6 DEF StopScheduler, Busy
<1>7. CASE CloseClients
  <2>1. /\ \A d \in Conns : conn'[d].at = conn[d].at /\ conn'[d].addr = conn[d].addr
        /\ server' = "stopped" /\ server = "stopping"
    BY <1>7 DEF CloseClients, Conn
  <2>2. ASSUME NEW d \in Conns, conn'[d].at \in Started
        PROVE  conn'[d].client = "closed"
    <3>1. d \in Handled /\ conn[d].addr \in DOMAIN clients /\ clients[conn[d].addr] = d
      BY <2>1, <2>2
    <3>2. conn'[d] = [conn[d] EXCEPT !.client = "closed"]
      BY <1>7, <3>1 DEF CloseClients
    <3>3. QED
      BY <3>2 DEF Conn
  <2>3. QED
    BY <2>1, <2>2 DEF Busy
<1>8. CASE Environment
  BY <1>8 DEF Environment, tcpVars, Busy
<1>9. CASE UNCHANGED allVars
  BY <1>9 DEF allVars, Busy
<1>10. Goal
  BY <1>1, <1>2, <1>3, <1>4, <1>5, <1>6, <1>7, <1>8, <1>9 DEF FreshNext, Serve, Loop
<1>11. QED
  BY <1>10

\* The map is what the handlers are, for any number of clients.
THEOREM MapIsHandled == FreshSpec => []ClientsAreHandled
<1>1. MapInv => ClientsAreHandled
  BY DEF MapInv
<1>2. QED
  BY <1>1, MapInit, MapStep, PTL DEF FreshSpec

\* A stop closes every client that has a handler, wherever the handler is.
THEOREM StopDrops == FreshSpec => []StopDropsHandled
<1>1. MapInv => StopDropsHandled
  BY DEF MapInv
<1>2. QED
  BY <1>1, MapInit, MapStep, PTL DEF FreshSpec

-----------------------------------------------------------------------------
(* max_connections.                                                        *)

\* While the loop is there no more connections are handled than the map has
\* entries.
LEMMA HandledAreMapped ==
  ASSUME MapInv, server # "stopped"
  PROVE  /\ IsFiniteSet(DOMAIN clients)
         /\ Cardinality(Handled) <= Cardinality(DOMAIN clients)
<1> DEFINE f == [c \in Handled |-> conn[c].addr]
<1>1. IsFiniteSet(Handled)
  BY ConstantsAssumption, FS_Subset DEF Handled
<1>2. \A c \in Handled : f[c] \in DOMAIN clients /\ clients[f[c]] = c
  BY DEF MapInv, ClientsAreHandled
<1>3. f \in Injection(Handled, DOMAIN clients)
  BY <1>2 DEF Injection, IsInjective
<1>4. IsFiniteSet(DOMAIN clients)
  <2> DEFINE g == [a \in DOMAIN clients |-> clients[a]]
  <2>1. \A a \in DOMAIN clients : clients[a] \in Handled /\ f[clients[a]] = a
    BY DEF MapInv, ClientsAreHandled
  <2>2. g \in Injection(DOMAIN clients, Handled)
    BY <2>1 DEF Injection, IsInjective
  <2> HIDE DEF g
  <2>3. QED
    BY <1>1, <2>2, FS_Injection
<1> HIDE DEF f
<1>5. QED
  BY <1>3, <1>4, FS_Injection

LEMMA MaxConnectionsStep ==
  MapInv /\ HandledWithinLimit /\ [FreshNext]_allVars => HandledWithinLimit'
<1> SUFFICES ASSUME MapInv, HandledWithinLimit, [FreshNext]_allVars,
                    MaxConnections # 0, server' # "stopped"
             PROVE  Cardinality(Handled') <= MaxConnections
  BY DEF HandledWithinLimit
<1>0. TcpTypeOK /\ IsFiniteSet(Handled) /\ MaxConnections \in Nat
  BY ConstantsAssumption, TcpAssumption, FS_Subset DEF Handled, MapInv
<1>1. /\ Cardinality(Handled) \in Nat
      /\ \A S : S \subseteq Handled => Cardinality(S) <= Cardinality(Handled)
                                       /\ Cardinality(S) \in Nat
  BY <1>0, FS_CardinalityType, FS_Subset
<1>2. CASE server # "stopped" /\ Handled' \subseteq Handled
  BY <1>0, <1>1, <1>2 DEF HandledWithinLimit
<1>3. ASSUME NEW c \in Conns, HandleClientConnect(c)
      PROVE  Cardinality(Handled') <= MaxConnections
  <2>1. CASE Full
    <3>1. server # "stopped" /\ Handled' \subseteq Handled
      BY <1>0, <1>3, <2>1 DEF HandleClientConnect, Handled, TcpTypeOK, Started, Conn
    <3>2. QED
      BY <1>2, <3>1
  <2>2. CASE ~Full
    <3>1. Handled' = Handled \cup {c} /\ c \notin Handled /\ server # "stopped"
      BY <1>0, <1>3, <2>2 DEF HandleClientConnect, Handled, TcpTypeOK, Started, Conn
    <3>2. Cardinality(Handled') = Cardinality(Handled) + 1
      BY <1>0, <3>1, FS_AddElement
    <3>3. /\ Cardinality(Handled) <= Cardinality(DOMAIN clients)
          /\ Cardinality(DOMAIN clients) \in Nat
      BY <3>1, HandledAreMapped, FS_CardinalityType
    <3>4. ~(Cardinality(DOMAIN clients) >= MaxConnections)
      BY <2>2 DEF Full
    <3>5. QED
      BY <1>0, <1>1, <3>2, <3>3, <3>4
  <2>3. QED
    BY <2>1, <2>2
<1>4. ASSUME NEW c \in Conns, NEW a \in Addrs, FreshAccept(c, a)
      PROVE  server # "stopped" /\ Handled' \subseteq Handled
  BY <1>0, <1>4 DEF FreshAccept, Accept, NoConn, Handled, TcpTypeOK, Started
<1>5. ASSUME NEW c \in Conns, Wrap(c)
      PROVE  server # "stopped" /\ Handled' \subseteq Handled
  BY <1>0, <1>5 DEF Wrap, HelloRead, HelloFails, Handled, TcpTypeOK, Started, Conn
<1>6. ASSUME NEW c \in Conns, HandleClientDisconnect(c)
      PROVE  server # "stopped" /\ Handled' \subseteq Handled
  BY <1>0, <1>6 DEF HandleClientDisconnect, Handled, TcpTypeOK, Started, Conn
<1>7. ASSUME NEW c \in Conns, Handle(c)
      PROVE  server # "stopped" /\ Handled' \subseteq Handled
  BY <1>0, <1>7, HandleConn DEF Handled, TcpTypeOK
<1>8. CASE StopScheduler \/ CloseClients \/ Environment \/ UNCHANGED allVars
  BY <1>2, <1>8 DEF StopScheduler, CloseClients, Environment, tcpVars, allVars, Handled
<1>9. QED
  BY <1>2, <1>3, <1>4, <1>5, <1>6, <1>7, <1>8 DEF FreshNext, Serve, Loop

\* max_connections of the server, for any limit and any number of clients.
THEOREM LimitIsKept == FreshSpec => []HandledWithinLimit
<1>1. TcpInit => HandledWithinLimit
  <2> SUFFICES ASSUME TcpInit PROVE HandledWithinLimit
    OBVIOUS
  <2>1. Handled = {}
    BY DEF TcpInit, Handled, Started, NoConn
  <2>2. QED
    BY <2>1, FS_EmptySet, TcpAssumption DEF HandledWithinLimit
<1>2. QED
  BY <1>1, MapInit, MapStep, MaxConnectionsStep, PTL DEF FreshSpec
-----------------------------------------------------------------------------
(***************************************************************************)
(* The server and its scheduler.  A step of the server is a step of the    *)
(* scheduler or leaves it alone, and how far a handler is tells how far    *)
(* its connection of the scheduler is: on each of its ways out a handler   *)
(* counts itself out if, and only if, it counted itself in.                *)
(***************************************************************************)
LEMMA ServerStep == [TcpNext]_allVars => [Next]_vars
<1> SUFFICES ASSUME [TcpNext]_allVars PROVE Next \/ UNCHANGED vars
  OBVIOUS
<1>1. ASSUME NEW c \in Conns, Handle(c) PROVE ConnStep(c) \/ UNCHANGED vars
  BY <1>1 DEF Handle, Dial, Header, Denied, Elected, NotElected, DialFails, DialSucceeds,
              CountIn, HeaderSent, HeaderFails, ProxyEnds, CountOut, ConnStep
<1>2. ASSUME NEW c \in Conns, Wrap(c) \/ Loop(c) PROVE UNCHANGED vars
  BY <1>2 DEF Wrap, HelloRead, HelloFails, Loop, HandleClientConnect,
              HandleClientDisconnect
<1>3. CASE StopScheduler \/ CloseClients
  BY <1>3 DEF StopScheduler, CloseClients
<1>4. CASE Environment
  BY <1>4 DEF Environment, Next
<1>5. ASSUME NEW c \in Conns, NEW a \in Addrs, Accept(c, a) PROVE UNCHANGED vars
  BY <1>5 DEF Accept
<1>6. CASE UNCHANGED allVars
  BY <1>6 DEF allVars, vars
<1>7. QED
  BY <1>1, <1>2, <1>3, <1>4, <1>5, <1>6 DEF TcpNext, Serve, Next

LEMMA ServerImplements == TcpSpec => Spec
<1>1. TcpInit => Init
  BY DEF TcpInit
<1>2. QED
  BY <1>1, ServerStep, PTL DEF TcpSpec, Spec

\* Handlers that are past IncrementConnection and before their deferred
\* DecrementConnection.
Counted == {"header", "proxying", "returning"}

WayAndPhase ==
  \A c \in Conns :
    /\ conn[c].at \in {"none", "hello", "queued"} => phase[c] = "new"
    /\ conn[c].at = "handling" => phase[c] \in {"new", "dialing"}
    /\ conn[c].at \in Counted => phase[c] = "open"
    /\ conn[c].at \in {"leaving", "gone"} => phase[c] \in {"new", "done"}

LEMMA WayInit == TcpInit => WayAndPhase
BY DEF TcpInit, Init, WayAndPhase, NoConn, Counted

LEMMA WayStep ==
  TypeOK /\ TcpTypeOK /\ WayAndPhase /\ [TcpNext]_allVars => WayAndPhase'
<1> SUFFICES ASSUME TypeOK, TcpTypeOK, WayAndPhase, [TcpNext]_allVars PROVE WayAndPhase'
  OBVIOUS
<1>0. /\ conn \in [Conns -> Conn] /\ \A c \in Conns : conn[c] \in Conn
      /\ phase \in [Conns -> Phases]
  BY DEF TcpTypeOK, TypeOK
<1> USE DEF WayAndPhase, Counted
<1>1. ASSUME NEW c \in Conns, Handle(c) PROVE WayAndPhase'
  <2>1. CASE Denied(c)
    BY <1>0, <2>1 DEF Denied, Electing, vars
  <2>2. CASE Elected(c)
    BY <1>0, <2>2 DEF Elected, Electing, TakeBackend, tcpVars
  <2>3. CASE NotElected(c)
    BY <1>0, <2>3 DEF NotElected, Electing, TakeNothing
  <2>4. CASE DialFails(c)
    BY <1>0, <2>4 DEF DialFails, Dialing, IncrementRefused
  <2>5. CASE DialSucceeds(c)
    BY <1>0, <2>5 DEF DialSucceeds, Dialing, vars
  <2>6. CASE CountIn(c)
    BY <1>0, <2>6 DEF CountIn, IncrementConnection
  <2>7. CASE HeaderSent(c)
    BY <1>0, <2>7 DEF HeaderSent, vars
  <2>8. CASE HeaderFails(c)
    BY <1>0, <2>8 DEF HeaderFails, vars
  <2>9. CASE ProxyEnds(c)
    BY <1>0, <2>9 DEF ProxyEnds, vars, Conn
  <2>10. CASE CountOut(c)
    BY <1>0, <2>10 DEF CountOut, DecrementConnection
  <2>11. QED
    BY <1>1, <2>1, <2>2, <2>3, <2>4, <2>5, <2>6, <2>7, <2>8, <2>9, <2>10
       DEF Handle, Dial, Header
<1>2. ASSUME NEW c \in Conns, Wrap(c) PROVE WayAndPhase'
  BY <1>0, <1>2 DEF Wrap, HelloRead, HelloFails, vars, Conn
<1>3. ASSUME NEW c \in Conns, HandleClientConnect(c) PROVE WayAndPhase'
  BY <1>0, <1>3 DEF HandleClientConnect, vars, Conn
<1>4. ASSUME NEW c \in Conns, HandleClientDisconnect(c) PROVE WayAndPhase'
  BY <1>0, <1>4 DEF HandleClientDisconnect, vars, Conn
<1>5. CASE StopScheduler
  BY <1>5 DEF StopScheduler, vars
<1>6. CASE CloseClients
  <2>1. \A c \in Conns : conn'[c].at = conn[c].at
    BY <1>0, <1>6 DEF CloseClients, Conn
  <2>2. QED
    BY <1>6, <2>1 DEF CloseClients, vars
<1>7. CASE Environment
  BY <1>7 DEF Environment, HandleBackendsUpdate, HealthStep, HandleBackendLiveChange,
              tcpVars
<1>8. ASSUME NEW c \in Conns, NEW a \in Addrs, Accept(c, a) PROVE WayAndPhase'
  BY <1>0, <1>8 DEF Accept, NoConn, vars
<1>9. CASE UNCHANGED allVars
  BY <1>9 DEF allVars
<1>10. QED
  BY <1>1, <1>2, <1>3, <1>4, <1>5, <1>6, <1>7, <1>8, <1>9 DEF TcpNext, Serve, Loop

LEMMA OpenAreCounted ==
  ASSUME TypeOK, TcpTypeOK, WayAndPhase, NEW t
  PROVE  Open(t) = {c \in Conns : taken[c] = t /\ conn[c].at \in Counted}
<1>1. \A c \in Conns : conn[c] \in Conn
  BY DEF TcpTypeOK
<1>2. \A c \in Conns : phase[c] = "open" <=> conn[c].at \in Counted
  BY <1>1 DEF WayAndPhase, Counted, Conn
<1>3. QED
  BY <1>2 DEF Open

\* The active connections of a backend are the handlers that serve a client
\* with it, whatever became of header, copying and the backend's listing.
HandlersAreCounted ==
  \A t \in DOMAIN backends :
    backends[t].active = Cardinality({c \in Conns : taken[c] = t /\ conn[c].at \in Counted})

\* Where every return of a backend is quiet (see QuietReturn), the server
\* counts its backends' connections exactly, on every way into and out of its
\* handlers, and while it stops.
THEOREM ServerCountsExactly ==
  TcpSpec /\ [][QuietNext]_vars => [](ActiveExact /\ HandlersAreCounted)
<1>1. TcpSpec /\ [][QuietNext]_vars => QuietSpec
  BY ServerImplements, PTL DEF Spec, QuietSpec
<1>2. TcpSpec => []TypeOK
  BY ServerImplements, TypeCorrect, PTL
<1>3. TcpSpec => []WayAndPhase
  BY <1>2, WayInit, WayStep, TcpTypeCorrect, PTL DEF TcpSpec
<1>4. TypeOK /\ TcpTypeOK /\ WayAndPhase /\ ActiveExact => HandlersAreCounted
  BY OpenAreCounted DEF ActiveExact, HandlersAreCounted
<1>5. QED
  BY <1>1, <1>2, <1>3, <1>4, TcpTypeCorrect, ExactAccounting, PTL

\* So it does whenever discovery is static.
THEOREM StaticServerCountsExactly ==
  ASSUME FixedTargets
  PROVE  TcpSpec => [](ActiveExact /\ HandlersAreCounted)
<1>1. TcpSpec => [][QuietNext]_vars
  BY ServerImplements, FixedTargets, StaticIsQuiet, PTL DEF QuietSpec
<1>2. QED
  BY <1>1, ServerCountsExactly, PTL

-----------------------------------------------------------------------------
(***************************************************************************)
(* Inside ProxyEnds: module Proxy, for any amount of data and any ticks.   *)
(***************************************************************************)
LEMMA ProxyTypeInit == ProxyInit => ProxyTypeOK
BY DEF ProxyInit, ProxyTypeOK, Copier, Collector, Handler, Directions, Ends

LEMMA ProxyTypeStep == ProxyTypeOK /\ [ProxyNext]_proxyVars => ProxyTypeOK'
<1> SUFFICES ASSUME ProxyTypeOK, [ProxyNext]_proxyVars PROVE ProxyTypeOK'
  OBVIOUS
<1> USE DEF socketVars
<1>0. /\ open \subseteq Ends /\ finished \subseteq Ends /\ scheduler \in BOOLEAN
      /\ copier \in [Directions -> Copier] /\ collector \in [Directions -> Collector]
      /\ handler \in Handler /\ idled \subseteq Directions
      /\ written \in [Directions -> Nat] /\ reported \in [Directions -> Nat]
  BY DEF ProxyTypeOK
<1>1. ASSUME NEW d \in Directions, ReadData(d) \/ ReadEnds(d) PROVE ProxyTypeOK'
  <2>1. copier' \in [Directions -> Copier]
    BY <1>0, <1>1 DEF ReadData, ReadEnds, Copier
  <2>2. QED
    BY <1>0, <1>1, <2>1 DEF ReadData, ReadEnds, ProxyTypeOK
<1>2. ASSUME NEW d \in Directions, Write(d) PROVE ProxyTypeOK'
  <2>1. copier' \in [Directions -> Copier]
    BY <1>0, <1>2 DEF Write, WriteSome, WriteNothing, Copier
  <2>2. written' \in [Directions -> Nat]
    BY <1>0, <1>2 DEF Write, WriteSome, WriteNothing
  <2>3. QED
    BY <1>0, <1>2, <2>1, <2>2 DEF Write, WriteSome, WriteNothing, ProxyTypeOK
<1>3. ASSUME NEW d \in Directions, Report(d) PROVE ProxyTypeOK'
  <2>1. copier' \in [Directions -> Copier]
    BY <1>0, <1>3 DEF Report, Copier
  <2>2. collector' \in [Directions -> Collector]
    <3>1. collector[d].buffer + 1 \in Nat
      BY <1>0 DEF Collector
    <3> DEFINE r == [collector[d] EXCEPT
                       !.buffer = IF collector[d].flushed THEN 1 ELSE @ + 1, !.flushed = FALSE]
    <3>2. r \in Collector
      BY <1>0, <3>1 DEF Collector
    <3>3. collector' = [collector EXCEPT ![d] = r]
      BY <1>0, <1>3 DEF Report
    <3> HIDE DEF r
    <3>4. QED
      BY <1>0, <3>2, <3>3
  <2>3. QED
    BY <1>0, <1>3, <2>1, <2>2 DEF Report, ProxyTypeOK
<1>4. ASSUME NEW d \in Directions, CloseBoth(d) PROVE ProxyTypeOK'
  <2>1. copier' \in [Directions -> Copier]
    BY <1>0, <1>4 DEF CloseBoth, Copier
  <2>2. QED
    BY <1>0, <1>4, <2>1 DEF CloseBoth, ProxyTypeOK
<1>5. ASSUME NEW d \in Directions, Collect(d) PROVE ProxyTypeOK'
  <2>1. collector' \in [Directions -> Collector]
    <3>1. \/ collector' = [collector EXCEPT ![d].at = "sending", ![d].final = FALSE]
          \/ collector' = [collector EXCEPT ![d].flushed = TRUE]
          \/ collector' = [collector EXCEPT ![d].at = "sending", ![d].final = TRUE]
          \/ collector' = [collector EXCEPT ![d].at = "closed"]
      BY <1>5 DEF Collect, Tick, StatsClosed
    <3>2. collector[d] \in Collector
      BY <1>0
    <3>3. CASE collector' = [collector EXCEPT ![d].at = "sending", ![d].final = FALSE]
      <4>1. [collector[d] EXCEPT !.at = "sending", !.final = FALSE] \in Collector
        BY <3>2 DEF Collector
      <4>2. QED
        BY <1>0, <3>3, <4>1
    <3>4. CASE collector' = [collector EXCEPT ![d].flushed = TRUE]
      <4>1. [collector[d] EXCEPT !.flushed = TRUE] \in Collector
        BY <3>2 DEF Collector
      <4>2. QED
        BY <1>0, <3>4, <4>1
    <3>5. CASE collector' = [collector EXCEPT ![d].at = "sending", ![d].final = TRUE]
      <4>1. [collector[d] EXCEPT !.at = "sending", !.final = TRUE] \in Collector
        BY <3>2 DEF Collector
      <4>2. QED
        BY <1>0, <3>5, <4>1
    <3>6. CASE collector' = [collector EXCEPT ![d].at = "closed"]
      <4>1. [collector[d] EXCEPT !.at = "closed"] \in Collector
        BY <3>2 DEF Collector
      <4>2. QED
        BY <1>0, <3>6, <4>1
    <3>7. QED
      BY <3>1, <3>3, <3>4, <3>5, <3>6
  <2>2. idled' \subseteq Directions
    BY <1>0, <1>5 DEF Collect, Tick, StatsClosed
  <2>3. QED
    BY <1>0, <1>5, <2>1, <2>2 DEF Collect, Tick, StatsClosed, ProxyTypeOK
<1>6. ASSUME NEW d \in Directions, Listen(d) PROVE ProxyTypeOK'
  <2>1. collector' \in [Directions -> Collector]
    <3>1. \/ collector' = collector
          \/ \E a \in {"closed", "select"} :
               collector' = [collector EXCEPT ![d].at = a, ![d].flushed = TRUE,
                                              ![d].final = FALSE]
      BY <1>6 DEF Listen, Receive, ReceiveClosed
    <3>2. QED
      BY <1>0, <3>1 DEF Collector
  <2>2. handler' \in Handler
    <3>1. CASE Receive(d)
      <4>1. collector[d].buffer \in Nat /\ d \in Directions
        BY <1>0, <1>6 DEF Collector
      <4>2. QED
        BY <1>0, <3>1, <4>1 DEF Receive, Handler
    <3>2. CASE ReceiveClosed(d)
      <4>1. handler' = [handler EXCEPT !.listens = @ \ {d}, !.at = "returned"]
            \/ handler' = [handler EXCEPT !.listens = @ \ {d}]
        BY <1>0, <3>2 DEF ReceiveClosed, Handler
      <4>2. QED
        BY <1>0, <4>1 DEF Handler
    <3>3. QED
      BY <1>6, <3>1, <3>2 DEF Listen
  <2>3. QED
    BY <1>0, <1>6, <2>1, <2>2 DEF Listen, Receive, ReceiveClosed, ProxyTypeOK
<1>7. CASE Count
  <2>1. handler' \in Handler
    BY <1>0, <1>7 DEF Count, Handler, Directions
  <2>2. reported' \in [Directions -> Nat]
    BY <1>0, <1>7 DEF Count, Handler
  <2>3. QED
    BY <1>0, <1>7, <2>1, <2>2 DEF Count, ProxyTypeOK
<1>8. ASSUME NEW e \in Ends, Finish(e) PROVE ProxyTypeOK'
  BY <1>0, <1>8 DEF Finish, ProxyTypeOK
<1>9. CASE SchedulerStops \/ DropClient \/ UNCHANGED proxyVars
  BY <1>0, <1>9 DEF SchedulerStops, DropClient, proxyVars, ProxyTypeOK
<1>10. QED
  BY <1>1, <1>2, <1>3, <1>4, <1>5, <1>6, <1>7, <1>8, <1>9 DEF ProxyNext, Copy

\* Copiers, collectors and the handler keep their types.
THEOREM ProxyTypeCorrect == ProxySpec => []ProxyTypeOK
<1>1. QED
  BY ProxyTypeInit, ProxyTypeStep, PTL DEF ProxySpec

-----------------------------------------------------------------------------
(* Where the bytes of direction d are between its socket and the scheduler.*)

InCopier(d) == IF copier[d].at = "report" THEN 1 ELSE 0

\* A buffer that a tick has passed on is not counted again.
InCollector(d) ==
  IF \/ collector[d].at = "sending"
     \/ collector[d].at = "select" /\ ~collector[d].flushed
  THEN collector[d].buffer ELSE 0

InHandler(d) == IF handler.at = "count" /\ handler.from = d THEN handler.count ELSE 0

Accounted(d) == reported[d] + InHandler(d) + InCollector(d) + InCopier(d)

\* Nothing is missing on the way, and nothing is there twice but for ticks
\* that found nothing new.
Balanced(d) ==
  /\ Accounted(d) >= written[d]
  /\ d \notin idled => Accounted(d) = written[d]

\* A direction ends at its copier first, then at its collector, then at the
\* handler, and each has passed on what it had.
EndsInOrder(d) ==
  /\ collector[d].at = "closed" => copier[d].at = "done"
  /\ collector[d].at = "sending" /\ collector[d].final => copier[d].at = "done"
  /\ d \notin handler.listens => collector[d].at = "closed"
  /\ handler.at = "returned" => d \notin handler.listens

BytesInv == ProxyTypeOK /\ \A d \in Directions : Balanced(d) /\ EndsInOrder(d)

LEMMA BytesInit == ProxyInit => BytesInv
<1> SUFFICES ASSUME ProxyInit PROVE BytesInv
  OBVIOUS
<1>1. ProxyTypeOK
  BY ProxyTypeInit
<1>2. \A d \in Directions : Balanced(d) /\ EndsInOrder(d)
  BY DEF ProxyInit, Balanced, Accounted, InCopier, InCollector, InHandler, EndsInOrder
<1>3. QED
  BY <1>1, <1>2 DEF BytesInv

LEMMA BytesStep == BytesInv /\ [ProxyNext]_proxyVars => BytesInv'
<1> SUFFICES ASSUME BytesInv, [ProxyNext]_proxyVars PROVE BytesInv'
  OBVIOUS
<1>0. ProxyTypeOK /\ ProxyTypeOK'
  BY ProxyTypeStep DEF BytesInv
<1> SUFFICES ASSUME NEW b \in Directions PROVE (Balanced(b) /\ EndsInOrder(b))'
  BY <1>0 DEF BytesInv
<1>a. Balanced(b) /\ EndsInOrder(b)
  BY DEF BytesInv
<1>b. /\ reported[b] \in Nat /\ written[b] \in Nat /\ handler.count \in Nat
      /\ collector[b].buffer \in Nat
  BY <1>0 DEF ProxyTypeOK, Collector, Handler
<1> USE <1>0, <1>a, <1>b DEF ProxyTypeOK, Copier, Collector, Handler, socketVars,
        Balanced, Accounted, InCopier, InCollector, InHandler, EndsInOrder
<1> DEFINE Goal == (Balanced(b) /\ EndsInOrder(b))'
<1>1. ASSUME NEW d \in Directions, ReadData(d) \/ ReadEnds(d) PROVE Goal
  BY <1>1 DEF ReadData, ReadEnds
<1>2. ASSUME NEW d \in Directions, Write(d) PROVE Goal
  <2>1. CASE WriteSome(d) /\ b = d
    <3>1. /\ copier'[b].at = "report" /\ copier[b].at = "write"
          /\ written'[b] = written[b] + 1
      BY <2>1 DEF WriteSome
    <3>2. UNCHANGED <<collector, handler, reported, idled>>
      BY <2>1 DEF WriteSome
    <3>3. QED
      BY <3>1, <3>2
  <2>2. CASE WriteSome(d) /\ b # d
    BY <2>2 DEF WriteSome
  <2>3. CASE WriteNothing(d)
    BY <2>3 DEF WriteNothing
  <2>4. QED
    BY <1>2, <2>1, <2>2, <2>3 DEF Write
<1>3. ASSUME NEW d \in Directions, Report(d) PROVE Goal
  <2>0. UNCHANGED <<handler, written, reported, idled>>
    BY <1>3 DEF Report
  <2>1. CASE b = d
    <3>1. /\ copier[b].at = "report" /\ copier'[b].at # "report"
          /\ collector[b].at = "select" /\ collector'[b].at = "select"
          /\ ~collector'[b].flushed
      BY <1>3, <2>1 DEF Report
    <3>2. collector'[b].buffer = InCollector(b) + 1
      BY <1>3, <2>1 DEF Report
    <3>3. /\ InCollector(b)' = InCollector(b) + 1 /\ InCopier(b)' = 0
          /\ InCopier(b) = 1 /\ InHandler(b)' = InHandler(b)
      BY <2>0, <3>1, <3>2
    <3>4. InHandler(b) \in Nat /\ InCollector(b) \in Nat
      OBVIOUS
    <3>5. Accounted(b)' = Accounted(b)
      <4> HIDE DEF InHandler, InCollector, InCopier
      <4>1. QED
        BY <2>0, <3>3, <3>4
    <3>6. EndsInOrder(b)'
      BY <2>0, <3>1
    <3>7. Balanced(b)'
      <4> HIDE DEF Accounted
      <4>1. QED
        BY <2>0, <3>5
    <3>8. QED
      BY <3>6, <3>7
  <2>2. CASE b # d
    BY <1>3, <2>2 DEF Report
  <2>3. QED
    BY <2>1, <2>2
<1>4. ASSUME NEW d \in Directions, CloseBoth(d) PROVE Goal
  BY <1>4 DEF CloseBoth
<1>5. ASSUME NEW d \in Directions, Tick(d) PROVE Goal
  BY <1>5 DEF Tick
<1>6. ASSUME NEW d \in Directions, StatsClosed(d) PROVE Goal
  BY <1>6 DEF StatsClosed
<1>7. ASSUME NEW d \in Directions, Receive(d) PROVE Goal
  BY <1>7 DEF Receive
<1>8. ASSUME NEW d \in Directions, ReceiveClosed(d) PROVE Goal
  BY <1>8 DEF ReceiveClosed
<1>9. CASE Count
  BY <1>9 DEF Count
<1>10. ASSUME NEW e \in Ends, Finish(e) PROVE Goal
  BY <1>10 DEF Finish
<1>11. CASE SchedulerStops \/ DropClient \/ UNCHANGED proxyVars
  BY <1>11 DEF SchedulerStops, DropClient, proxyVars
<1>12. QED
  BY <1>1, <1>2, <1>3, <1>4, <1>5, <1>6, <1>7, <1>8, <1>9, <1>10, <1>11
     DEF ProxyNext, Copy, Collect, Listen

\* Whatever has ended, nothing is left between the sockets and the scheduler.
LEMMA NothingOnTheWay ==
  ASSUME BytesInv, handler.at = "returned", NEW d \in Directions
  PROVE  Accounted(d) = reported[d]
BY DEF BytesInv, ProxyTypeOK, EndsInOrder, Accounted, InCopier, InCollector, InHandler

\* No byte that was written is lost for the statistics.
THEOREM AllIsReported == ProxySpec => []AllReported
<1>1. BytesInv => AllReported
  BY NothingOnTheWay DEF AllReported, BytesInv, Balanced
<1>2. QED
  BY <1>1, BytesInit, BytesStep, PTL DEF ProxySpec

\* No byte is reported twice while data flows faster than the ticker.
THEOREM NothingReportedTwice == ProxySpec => []ReportedOnce
<1>1. BytesInv => ReportedOnce
  BY NothingOnTheWay DEF ReportedOnce, BytesInv, Balanced
<1>2. QED
  BY <1>1, BytesInit, BytesStep, PTL DEF ProxySpec

-----------------------------------------------------------------------------
(* What ProxyEnds makes one step of: how a proxied connection ends.        *)

ClosesAll == \A d \in Directions : copier[d].at = "done" => open = {}

LEMMA ClosesAllStep ==
  ProxyTypeOK /\ ClosesAll /\ [ProxyNext]_proxyVars => ClosesAll'
<1> SUFFICES ASSUME ProxyTypeOK, ClosesAll, [ProxyNext]_proxyVars PROVE ClosesAll'
  OBVIOUS
<1>0. copier \in [Directions -> Copier] /\ \A d \in Directions : copier[d] \in Copier
  BY DEF ProxyTypeOK
<1> USE DEF ClosesAll, socketVars
<1>1. ASSUME NEW d \in Directions, Copy(d) PROVE ClosesAll'
  <2>1. CASE CloseBoth(d)
    BY <2>1 DEF CloseBoth
  <2>2. CASE ReadData(d) \/ ReadEnds(d) \/ WriteNothing(d)
    BY <1>0, <2>2 DEF ReadData, ReadEnds, WriteNothing, Copier
  <2>3. CASE WriteSome(d)
    BY <1>0, <2>3 DEF WriteSome, Copier
  <2>4. CASE Report(d)
    <3>1. \A e \in Directions : copier'[e].at = "done" => copier[e].at = "done"
      BY <1>0, <2>4 DEF Report, Copier
    <3>2. QED
      BY <2>4, <3>1 DEF Report
  <2>5. QED
    BY <1>1, <2>1, <2>2, <2>3, <2>4 DEF Copy, Write
<1>2. ASSUME NEW d \in Directions, Collect(d) \/ Listen(d) PROVE ClosesAll'
  BY <1>2 DEF Collect, Tick, StatsClosed, Listen, Receive, ReceiveClosed
<1>3. CASE Count \/ (\E e \in Ends : Finish(e)) \/ SchedulerStops \/ DropClient
           \/ UNCHANGED proxyVars
  BY <1>3 DEF Count, Finish, SchedulerStops, DropClient, proxyVars
<1>4. QED
  BY <1>1, <1>2, <1>3 DEF ProxyNext

\* A handler that returns from proxying leaves no open socket and no
\* goroutine at work, as TcpServer's ProxyEnds has it.
ReturnsWithNothingLeft ==
  handler.at = "returned" =>
    open = {} /\ \A d \in Directions : copier[d].at = "done" /\ collector[d].at = "closed"

\* Whichever direction ends first, and whatever ticks, short writes and a
\* stop of the server come between.
THEOREM ProxyEndsClean == ProxySpec => []ReturnsWithNothingLeft
<1>1. ProxyInit => ClosesAll
  BY DEF ProxyInit, ClosesAll, Copier
<1>2. BytesInv => ProxyTypeOK
  BY DEF BytesInv
<1>3. BytesInv /\ ClosesAll => ReturnsWithNothingLeft
  BY DEF BytesInv, ClosesAll, ReturnsWithNothingLeft, EndsInOrder, Directions
<1>4. QED
  BY <1>1, <1>2, <1>3, BytesInit, BytesStep, ClosesAllStep, PTL DEF ProxySpec
=============================================================================
