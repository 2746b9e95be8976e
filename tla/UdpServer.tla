----------------------------- MODULE UdpServer -----------------------------
(***************************************************************************)
(* The UDP server of gobetween (src/src/server/udp/server.go) and its      *)
(* virtual sessions (src/src/server/udp/session/session.go), on top of the *)
(* scheduler of module Scheduler: a session is a connection of it.         *)
(*                                                                         *)
(* Goroutines: the main loop reads a datagram, finds or creates the        *)
(* client's session and queues the datagram; every session has a loop that *)
(* writes to the backend, watches the idle timer and its stop channel, and *)
(* a listener that copies responses back; a ticker cleans up the map.  The *)
(* mutex of the map is held by the main loop from the election until the   *)
(* session is in the map.  Server stop, access rules, fire-and-forget mode *)
(* (max_requests = 1) and the copying of bytes are not modelled here.      *)
(***************************************************************************)
EXTENDS Scheduler

CONSTANTS
  Clients,       \* client addresses
  QueueCap,      \* MAX_PACKETS_QUEUE
  MaxRequests,   \* udp.max_requests, 0 for no limit
  MaxResponses,  \* udp.max_responses, 0 for no limit
  ClientIdle,    \* client_idle_timeout > 0
  Transparent    \* udp.transparent

ASSUME UdpAssumption ==
  /\ None \notin Conns \cup Clients
  /\ QueueCap \in Nat \ {0}
  /\ MaxRequests \in Nat \ {1} /\ MaxResponses \in Nat
  /\ ClientIdle \in BOOLEAN /\ Transparent \in BOOLEAN

VARIABLES
  sessions,   \* Server.sessions: the session of each client, or None
  main,       \* the main loop: what it does, for which client and session
  session     \* the sessions, one per connection of the scheduler

udpVars == <<sessions, main, session>>

allVars == <<backends, phase, taken, sessions, main, session>>

(***************************************************************************)
(* at: "none" before NewSession, "loop" at the select, "stuck" in a        *)
(* receive from the timer channel that no timer will ever fill, "closing"  *)
(* before DecrementConnection, "gone" after.  queue counts the datagrams   *)
(* in out, closeAsked is the token in stopC.  The timer is "off", "armed", *)
(* "fired" (its value can be received) or "received".  listening: does     *)
(* ListenResponses run?  sent and recv are the counters of the limits.     *)
(***************************************************************************)
NoSession == [client |-> None, at |-> "none", queue |-> 0, closeAsked |-> FALSE,
              timer |-> "off", listening |-> FALSE, sent |-> 0, recv |-> 0]

Reading == [at |-> "read", client |-> None, conn |-> None]

UdpInit ==
  /\ Init
  /\ sessions = [a \in Clients |-> None]
  /\ main = Reading
  /\ session = [c \in Conns |-> NoSession]

\* Session.stopped, which IsDone reads.
IsDone(c) == session[c].at \in {"closing", "gone"}

\* Session.Close: a token into a channel of capacity 1, or nothing.
CloseAsked(s) == [s EXCEPT !.closeAsked = TRUE]

-----------------------------------------------------------------------------
(* The main loop.                                                          *)

HasSession(a) == sessions[a] # None /\ ~IsDone(sessions[a])

\* A datagram for a session that exists and is not done.
ReadKnown(a) ==
  /\ main.at = "read"
  /\ HasSession(a)
  /\ main' = [at |-> "write", client |-> a, conn |-> sessions[a]]
  /\ UNCHANGED <<vars, sessions, session>>

\* A datagram that needs a session: the mutex is taken and a backend elected.
\* A done session in the way is closed once more, which nobody hears.
ReadNew(a, c) ==
  /\ main.at = "read"
  /\ ~HasSession(a)
  /\ \/ /\ TakeBackend(c)
        /\ main' = [at |-> "dial", client |-> a, conn |-> c]
     \/ /\ TakeNothing(c)
        /\ UNCHANGED main
  /\ UNCHANGED <<sessions, session>>

\* The dial failed.  Nothing is counted: UDP sends no IncrementRefused, whose
\* effect on the backends' connections is none anyway.
DialFails ==
  /\ main.at = "dial"
  /\ IncrementRefused(main.conn)
  /\ main' = Reading
  /\ UNCHANGED <<sessions, session>>

\* Mutant: the session is started before it is counted, and never is.
DialSucceedsUncounted ==
  /\ main.at = "dial"
  /\ phase' = [phase EXCEPT ![main.conn] = "open"]
  /\ session' = [session EXCEPT ![main.conn] =
       [NoSession EXCEPT !.client = main.client, !.at = "loop",
                         !.timer = IF ClientIdle THEN "armed" ELSE "off",
                         !.listening = ~Transparent]]
  /\ sessions' = [sessions EXCEPT ![main.client] = main.conn]
  /\ main' = [main EXCEPT !.at = "write"]
  /\ UNCHANGED <<backends, taken>>

\* NewSession counts the session in and starts its loop, then its listener.
DialSucceeds ==
  /\ main.at = "dial"
  /\ IncrementConnection(main.conn)
  /\ session' = [session EXCEPT ![main.conn] =
       [NoSession EXCEPT !.client = main.client, !.at = "loop",
                         !.timer = IF ClientIdle THEN "armed" ELSE "off",
                         !.listening = ~Transparent]]
  /\ sessions' = [sessions EXCEPT ![main.client] = main.conn]
  /\ main' = [main EXCEPT !.at = "write"]

\* Session.Write: an error if it is done by now, dropped if the queue is full.
Write ==
  /\ main.at = "write"
  /\ session' = IF IsDone(main.conn) \/ session[main.conn].queue = QueueCap
                THEN session
                ELSE [session EXCEPT ![main.conn].queue = @ + 1]
  /\ main' = Reading
  /\ UNCHANGED <<vars, sessions>>

-----------------------------------------------------------------------------
(* The loop of session c.  Its select takes any case that is ready.        *)

AtLoop(c) == session[c].at = "loop"

TimerFires(c) ==
  /\ AtLoop(c)
  /\ session[c].timer = "armed"
  /\ session' = [session EXCEPT ![c].timer = "fired"]
  /\ UNCHANGED <<vars, sessions, main>>

\* case <-tC
IdleTimeout(c) ==
  /\ AtLoop(c)
  /\ session[c].timer = "fired"
  /\ session' = [session EXCEPT ![c] = CloseAsked([@ EXCEPT !.timer = "received"])]
  /\ UNCHANGED <<vars, sessions, main>>

\* case pkt := <-s.out.  Stop returns FALSE only for a timer whose value was
\* received already, and then the loop waits for a second one.  Any other
\* timer is armed again.  A datagram counts when it was written in full;
\* exceeding MaxRequests is logged, and break leaves no more than the select.
Forward(c) ==
  /\ AtLoop(c)
  /\ session[c].queue > 0
  /\ \/ /\ session[c].timer = "received"
        /\ session' = [session EXCEPT ![c].queue = @ - 1, ![c].at = "stuck"]
     \/ /\ session[c].timer # "received"
        /\ \E written \in BOOLEAN :
             session' = [session EXCEPT
               ![c].queue = @ - 1,
               ![c].timer = IF ClientIdle THEN "armed" ELSE "off",
               ![c].sent = IF written /\ MaxRequests > 0 /\ @ <= MaxRequests THEN @ + 1 ELSE @]
  /\ UNCHANGED <<vars, sessions, main>>

\* case <-s.stopC: stopped is set and the backend connection closed.
StopSession(c) ==
  /\ AtLoop(c)
  /\ session[c].closeAsked
  /\ session' = [session EXCEPT ![c].closeAsked = FALSE, ![c].at = "closing",
                                ![c].timer = "off"]
  /\ UNCHANGED <<vars, sessions, main>>

\* The count goes down, the queue is drained, the goroutine returns.
EndSession(c) ==
  /\ session[c].at = "closing"
  /\ DecrementConnection(c)
  /\ session' = [session EXCEPT ![c].at = "gone", ![c].queue = 0]
  /\ UNCHANGED <<sessions, main>>

-----------------------------------------------------------------------------
(* The listener of session c.                                              *)

\* Mutant: the listener returns without closing the session.
ResponseLeavesOpen(c) ==
  /\ session[c].listening
  /\ ~IsDone(c)
  /\ LET n == IF MaxResponses > 0 THEN session[c].recv + 1 ELSE 0
         last == MaxResponses > 0 /\ n >= MaxResponses
     IN session' = [session EXCEPT ![c].recv = n, ![c].listening = ~last]
  /\ UNCHANGED <<vars, sessions, main>>

\* A response is read, counted and sent to the client; the last one allowed
\* ends the listener, whose deferred Close asks the session to stop.
Response(c) ==
  /\ session[c].listening
  /\ ~IsDone(c)
  /\ LET n == IF MaxResponses > 0 THEN session[c].recv + 1 ELSE 0
         last == MaxResponses > 0 /\ n >= MaxResponses
         counted == [session[c] EXCEPT !.recv = n, !.listening = ~last]
     IN session' = [session EXCEPT ![c] = IF last THEN CloseAsked(counted) ELSE counted]
  /\ UNCHANGED <<vars, sessions, main>>

\* backend_idle_timeout, a read or write error, or the closed connection.
ListenerEnds(c) ==
  /\ session[c].listening
  /\ session' = [session EXCEPT ![c] = CloseAsked([@ EXCEPT !.listening = FALSE])]
  /\ UNCHANGED <<vars, sessions, main>>

-----------------------------------------------------------------------------
\* Mutant: a session is forgotten once it is asked to close.
CleanupTooSoon ==
  /\ main.at # "dial"
  /\ sessions' = [a \in Clients |->
                    IF sessions[a] # None /\ session[sessions[a]].closeAsked
                    THEN None ELSE sessions[a]]
  /\ UNCHANGED <<vars, main, session>>

\* The ticker removes done sessions, under the mutex.
Cleanup ==
  /\ main.at # "dial"
  /\ sessions' = [a \in Clients |->
                    IF sessions[a] # None /\ IsDone(sessions[a]) THEN None ELSE sessions[a]]
  /\ UNCHANGED <<vars, main, session>>

\* The scheduler's other clients.
Environment ==
  /\ \/ \E l \in Listings : HandleBackendsUpdate(l)
     \/ HealthStep
  /\ UNCHANGED udpVars

SessionStep(c) ==
  \/ IdleTimeout(c)
  \/ Forward(c)
  \/ StopSession(c)
  \/ EndSession(c)

MainStep ==
  \/ \E a \in Clients : ReadKnown(a) \/ \E c \in Conns : ReadNew(a, c)
  \/ DialFails
  \/ DialSucceeds
  \/ Write

UdpNext ==
  \/ MainStep
  \/ \E c \in Conns : SessionStep(c) \/ TimerFires(c) \/ Response(c) \/ ListenerEnds(c)
  \/ Cleanup
  \/ Environment

UdpSpec == UdpInit /\ [][UdpNext]_allVars

\* Every session's goroutine keeps running, and the main loop finishes what
\* it has begun.  Nothing is assumed of clients and backends.
UdpFairness ==
  /\ WF_allVars(DialFails \/ DialSucceeds)
  /\ WF_allVars(Write)
  /\ \A c \in Conns : WF_allVars(IdleTimeout(c)) /\ WF_allVars(Forward(c))
                      /\ WF_allVars(StopSession(c)) /\ WF_allVars(EndSession(c))

FairUdpSpec == UdpSpec /\ UdpFairness

-----------------------------------------------------------------------------
(* Properties.                                                             *)

\* A session that is not done is the one its client's datagrams go to: else
\* nothing reaches it and the server would not close it when it stops.
LiveIsMapped ==
  \A c \in Conns :
    session[c].client # None /\ ~IsDone(c) => sessions[session[c].client] = c

\* The main loop elects, dials and counts one client at a time: with its
\* sessions for connections, the scheduler is one with OneAtATime.
Serial == INSTANCE Scheduler WITH OneAtATime <- TRUE

SerialSpec == Serial!Spec

\* A session whose last allowed response went back to the client closes and
\* gives its place at the backend back, unless IdleEnds failed it before.
RespondedEnds ==
  MaxResponses > 0 =>
    \A c \in Conns :
      session[c].recv = MaxResponses ~> phase[c] = "done" \/ session[c].at = "stuck"

\* "Client inactivity duration before forced connection drop".
IdleEnds == \A c \in Conns : session[c].timer = "received" ~> phase[c] = "done"

\* "if > 0 accepts no more requests than max_requests and closes session":
\* not so for limits above 1.
RequestsLimited == MaxRequests > 0 => \A c \in Conns : session[c].sent <= MaxRequests
=============================================================================
