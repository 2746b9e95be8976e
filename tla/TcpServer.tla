----------------------------- MODULE TcpServer -----------------------------
(***************************************************************************)
(* The TCP server of gobetween (src/src/server/tcp/server.go) and its      *)
(* access rules (src/src/server/modules/access), on top of the scheduler   *)
(* of module Scheduler: a handled client is a connection of it.            *)
(*                                                                         *)
(* Goroutines: the accepting one; one per accepted client that reads its   *)
(* TLS hello (wrap) and then waits for the server's loop; the loop, which  *)
(* owns the map of clients and starts a handler for each; the handlers.    *)
(* Every exit of a handler leads to the loop again.  Stopping takes two    *)
(* steps: the scheduler takes its stop request first, and only then are    *)
(* the listener and the clients closed.  A stopped scheduler or loop       *)
(* receives nothing any more: whoever sends to it waits for ever.          *)
(*                                                                         *)
(* Copying is one step here, ProxyEnds; module Proxy looks inside.  The    *)
(* bytes of the hello and of the proxy protocol header, TLS and keepalive  *)
(* are left out, and so is the number of clients sent to the stats.        *)
(***************************************************************************)
EXTENDS Scheduler, Sequences

CONSTANTS
  Addrs,           \* remote addresses (ip:port) of clients
  MaxConnections,  \* max_connections of the server, 0 for no limit
  Sni,             \* the server reads the TLS hello before it does anything
  ProxyProtocol,   \* a proxy protocol header goes to the backend first
  Rules,           \* access.rules: what each matches, and whether it allows
  AllowDefault     \* access.default = "allow"

ASSUME TcpAssumption ==
  /\ MaxConnections \in Nat
  /\ Sni \in BOOLEAN /\ ProxyProtocol \in BOOLEAN /\ AllowDefault \in BOOLEAN
  /\ Rules \in Seq([allow : BOOLEAN, matches : SUBSET Addrs])

VARIABLES
  server,    \* the loop: "serving", "stopping" (scheduler stopped), "stopped"
  clients,   \* Server.clients: remote address -> client connection
  conn       \* the accepted connections and the goroutine of each

tcpVars == <<server, clients, conn>>

allVars == <<backends, phase, taken, server, clients, conn>>

(***************************************************************************)
(* at: "none" before it is accepted; "hello" and "queued" in wrap, reading *)
(* the hello and sending to the loop; "handling" until the backend is      *)
(* connected and counted, "header", "proxying"; "returning" with the       *)
(* decrement deferred; "leaving" sending to the loop; "gone".  client and  *)
(* backend are this program's ends of the two sockets.                     *)
(***************************************************************************)
Conn == [at : {"none", "hello", "queued", "handling", "header", "proxying",
               "returning", "leaving", "gone"},
         addr : Addrs \cup {None},
         client : {"none", "open", "closed"},
         backend : {"none", "open", "closed"}]

NoConn == [at |-> "none", addr |-> None, client |-> "none", backend |-> "none"]

\* Connections whose handler was started and that the loop has not left yet.
Started == {"handling", "header", "proxying", "returning", "leaving"}

Handled == {c \in Conns : conn[c].at \in Started}

TcpTypeOK ==
  /\ server \in {"serving", "stopping", "stopped"}
  /\ \E A \in SUBSET Addrs : clients \in [A -> Conns]
  /\ conn \in [Conns -> Conn]

TcpInit ==
  /\ Init
  /\ server = "serving"
  /\ clients = [a \in {} |-> None]
  /\ conn = [c \in Conns |-> NoConn]

-----------------------------------------------------------------------------
(* Access rules.                                                           *)

Matching(a) == {i \in DOMAIN Rules : a \in Rules[i].matches}

\* The first rule that matches decides.
Allows(a) ==
  \/ Matching(a) = {} /\ AllowDefault
  \/ \E i \in Matching(a) : Rules[i].allow /\ \A j \in Matching(a) : i <= j

-----------------------------------------------------------------------------
(* Accepting.                                                              *)

\* A remote address can come back once this program has closed its end.
InUse(a) == \E c \in Conns : conn[c].addr = a /\ conn[c].client = "open"

\* Which of the connections to come is the next one does not matter.
NextConn == CHOOSE c \in Conns : conn[c].at = "none"

Accept(c, a) ==
  /\ server # "stopped"
  /\ conn[c].at = "none" /\ c = NextConn
  /\ ~InUse(a)
  /\ conn' = [conn EXCEPT ![c] =
       [NoConn EXCEPT !.at = IF Sni THEN "hello" ELSE "queued",
                      !.addr = a, !.client = "open"]]
  /\ UNCHANGED <<vars, server, clients>>

\* A hello within the read timeout.
HelloRead(c) ==
  /\ conn[c].at = "hello"
  /\ conn' = [conn EXCEPT ![c].at = "queued"]
  /\ UNCHANGED <<vars, server, clients>>

HelloFails(c) ==
  /\ conn[c].at = "hello"
  /\ conn' = [conn EXCEPT ![c].at = "gone", ![c].client = "closed"]
  /\ UNCHANGED <<vars, server, clients>>

-----------------------------------------------------------------------------
(* The server's loop.                                                      *)

\* Mutant: one client too many.
FullLate == MaxConnections # 0 /\ Cardinality(DOMAIN clients) > MaxConnections

Full == MaxConnections # 0 /\ Cardinality(DOMAIN clients) >= MaxConnections

HandleClientConnect(c) ==
  /\ server = "serving"
  /\ conn[c].at = "queued"
  /\ IF Full
     THEN /\ conn' = [conn EXCEPT ![c].at = "gone", ![c].client = "closed"]
          /\ UNCHANGED clients
     ELSE /\ conn' = [conn EXCEPT ![c].at = "handling"]
          /\ clients' = [a \in DOMAIN clients \cup {conn[c].addr} |->
                           IF a = conn[c].addr THEN c ELSE clients[a]]
  /\ UNCHANGED <<vars, server>>

\* The entry of the address goes, whichever connection it is for.
HandleClientDisconnect(c) ==
  /\ server = "serving"
  /\ conn[c].at = "leaving"
  /\ conn' = [conn EXCEPT ![c].at = "gone", ![c].client = "closed"]
  /\ clients' = [a \in DOMAIN clients \ {conn[c].addr} |-> clients[a]]
  /\ UNCHANGED <<vars, server>>

\* case <-stop: the scheduler takes its stop request.
StopScheduler ==
  /\ server = "serving"
  /\ server' = "stopping"
  /\ UNCHANGED <<vars, clients, conn>>

\* Mutant: the map is emptied before its connections are closed.
CloseClientsTooLate ==
  /\ server = "stopping"
  /\ server' = "stopped"
  /\ clients' = [a \in {} |-> None]
  /\ UNCHANGED <<vars, conn>>

\* The listener and the connections of the map are closed, the loop returns.
CloseClients ==
  /\ server = "stopping"
  /\ server' = "stopped"
  /\ conn' = [c \in Conns |-> IF \E a \in DOMAIN clients : clients[a] = c
                              THEN [conn[c] EXCEPT !.client = "closed"] ELSE conn[c]]
  /\ clients' = [a \in {} |-> None]
  /\ UNCHANGED vars

-----------------------------------------------------------------------------
(* The handler of connection c.  Operations of the scheduler need it to    *)
(* run.                                                                    *)

Electing(c) == conn[c].at = "handling" /\ phase[c] = "new"

Denied(c) ==
  /\ Electing(c)
  /\ ~Allows(conn[c].addr)
  /\ conn' = [conn EXCEPT ![c].at = "leaving", ![c].client = "closed"]
  /\ UNCHANGED <<vars, server, clients>>

Elected(c) ==
  /\ Electing(c)
  /\ Allows(conn[c].addr)
  /\ server = "serving"
  /\ TakeBackend(c)
  /\ UNCHANGED tcpVars

\* Mutant: the loop is not told.
NotElectedGone(c) ==
  /\ Electing(c)
  /\ Allows(conn[c].addr)
  /\ server = "serving"
  /\ TakeNothing(c)
  /\ conn' = [conn EXCEPT ![c].at = "gone", ![c].client = "closed"]
  /\ UNCHANGED <<server, clients>>

\* The handler returns and leaves closing the client to the loop.
NotElected(c) ==
  /\ Electing(c)
  /\ Allows(conn[c].addr)
  /\ server = "serving"
  /\ TakeNothing(c)
  /\ conn' = [conn EXCEPT ![c].at = "leaving"]
  /\ UNCHANGED <<server, clients>>

Dialing(c) ==
  conn[c].at = "handling" /\ phase[c] = "dialing" /\ conn[c].backend = "none"

DialFails(c) ==
  /\ Dialing(c)
  /\ server = "serving"
  /\ IncrementRefused(c)
  /\ conn' = [conn EXCEPT ![c].at = "leaving"]
  /\ UNCHANGED <<server, clients>>

DialSucceeds(c) ==
  /\ Dialing(c)
  /\ conn' = [conn EXCEPT ![c].backend = "open"]
  /\ UNCHANGED <<vars, server, clients>>

\* IncrementConnection, with the decrement deferred.
CountIn(c) ==
  /\ conn[c].at = "handling" /\ conn[c].backend = "open"
  /\ server = "serving"
  /\ IncrementConnection(c)
  /\ conn' = [conn EXCEPT ![c].at = IF ProxyProtocol THEN "header" ELSE "proxying"]
  /\ UNCHANGED <<server, clients>>

HeaderSent(c) ==
  /\ conn[c].at = "header"
  /\ conn' = [conn EXCEPT ![c].at = "proxying"]
  /\ UNCHANGED <<vars, server, clients>>

\* Mutant: the way out of a failed header does not count the client out.
HeaderFailsAtOnce(c) ==
  /\ conn[c].at = "header"
  /\ conn' = [conn EXCEPT ![c].at = "leaving"]
  /\ UNCHANGED <<vars, server, clients>>

\* The handler returns without closing the connection to the backend.
HeaderFails(c) ==
  /\ conn[c].at = "header"
  /\ conn' = [conn EXCEPT ![c].at = "returning"]
  /\ UNCHANGED <<vars, server, clients>>

\* Both copiers have closed both sockets and their channels are closed.
ProxyEnds(c) ==
  /\ conn[c].at = "proxying"
  /\ conn' = [conn EXCEPT ![c].at = "returning", ![c].client = "closed",
                          ![c].backend = "closed"]
  /\ UNCHANGED <<vars, server, clients>>

CountOut(c) ==
  /\ conn[c].at = "returning"
  /\ server = "serving"
  /\ DecrementConnection(c)
  /\ conn' = [conn EXCEPT ![c].at = "leaving"]
  /\ UNCHANGED <<server, clients>>

-----------------------------------------------------------------------------
Wrap(c) == HelloRead(c) \/ HelloFails(c)

Dial(c) == DialFails(c) \/ DialSucceeds(c)

Header(c) == HeaderSent(c) \/ HeaderFails(c)

Handle(c) ==
  \/ Denied(c)
  \/ Elected(c)
  \/ NotElected(c)
  \/ Dial(c)
  \/ CountIn(c)
  \/ Header(c)
  \/ ProxyEnds(c)
  \/ CountOut(c)

Loop(c) == HandleClientConnect(c) \/ HandleClientDisconnect(c)

\* The scheduler's other clients, while it runs.
Environment ==
  /\ server = "serving"
  /\ \/ \E l \in Listings : HandleBackendsUpdate(l)
     \/ HealthStep
  /\ UNCHANGED tcpVars

\* What happens whoever comes to be accepted.
Serve ==
  \/ \E c \in Conns : Wrap(c) \/ Loop(c) \/ Handle(c)
  \/ StopScheduler
  \/ CloseClients
  \/ Environment

TcpNext == Serve \/ \E c \in Conns, a \in Addrs : Accept(c, a)

TcpSpec == TcpInit /\ [][TcpNext]_allVars

\* No client comes back from the same address while the loop has still to
\* hear that its last connection ended.  Ephemeral ports make this the rule;
\* the code does not see to it.
FreshAccept(c, a) ==
  /\ \A d \in Conns : conn[d].addr = a => conn[d].at = "gone"
  /\ Accept(c, a)

FreshNext == Serve \/ \E c \in Conns, a \in Addrs : FreshAccept(c, a)

FreshSpec == TcpInit /\ [][FreshNext]_allVars

\* The goroutines run, reading a hello and dialing have timeouts, and one of
\* the two ends of a proxied connection closes it or falls silent one day.
TcpFairness ==
  /\ WF_allVars(CloseClients)
  /\ \A c \in Conns : WF_allVars(Wrap(c)) /\ WF_allVars(Loop(c)) /\ WF_allVars(Handle(c))

FairFreshSpec == FreshSpec /\ TcpFairness

-----------------------------------------------------------------------------
(* Properties.                                                             *)

\* The map holds the connections that are being handled, each under its own
\* address: it is what max_connections limits and what a stop closes.
ClientsAreHandled ==
  server # "stopped" =>
    /\ \A c \in Handled : conn[c].addr \in DOMAIN clients /\ clients[conn[c].addr] = c
    /\ \A a \in DOMAIN clients : clients[a] \in Handled /\ conn[clients[a]].addr = a

\* max_connections of the server limits the clients that are being handled,
\* on whatever way into or out of their handlers they are.
HandledWithinLimit ==
  MaxConnections # 0 /\ server # "stopped" => Cardinality(Handled) <= MaxConnections

\* "Stop, dropping all connections": a stop closes every client that has a
\* handler.  It does not close those whose hello is still being read.
StopDropsHandled == server = "stopped" => \A c \in Handled : conn[c].client = "closed"

\* Every client that reaches the loop leaves it again, closed and counted out
\* at its backend, on each of the handler's ways out, unless the server stops.
PlacesReturned ==
  \A c \in Conns :
    conn[c].at = "queued" ~>
      \/ server # "serving"
      \/ conn[c].at = "gone" /\ conn[c].client = "closed" /\ phase[c] \in {"new", "done"}
=============================================================================
