-------------------------- MODULE UdpServerProofs ---------------------------
(* Theorems about module UdpServer, for any clients, sessions and limits.  *)
EXTENDS UdpServer, TLAPS

Sessions ==
  [client : Clients \cup {None}, at : {"none", "loop", "stuck", "closing", "gone"},
   queue : Nat, closeAsked : BOOLEAN, timer : {"off", "armed", "fired", "received"},
   listening : BOOLEAN, sent : Nat, recv : Nat]

Types ==
  /\ sessions \in [Clients -> Conns \cup {None}]
  /\ main \in [at : {"read", "dial", "write"}, client : Clients \cup {None},
               conn : Conns \cup {None}]
  /\ session \in [Conns -> Sessions]
  /\ phase \in [Conns -> Phases]

\* Between an election and its outcome the main loop has a client and a
\* connection, and the client has no session that datagrams could go to.
Dialled ==
  /\ main.at = "dial" => /\ main.client \in Clients
                         /\ main.conn \in Conns
                         /\ ~HasSession(main.client)
  /\ main.at = "write" => main.conn \in Conns

\* Only the main loop dials, one connection at a time.
OneDial == \A c \in Conns : phase[c] = "dialing" => main.at = "dial" /\ main.conn = c

Inv == Types /\ Dialled /\ OneDial /\ LiveIsMapped

LEMMA InvInit == UdpInit => Inv
<1> SUFFICES ASSUME UdpInit PROVE Inv
  OBVIOUS
<1>1. NoSession \in Sessions
  BY DEF NoSession, Sessions
<1>2. Types
  BY <1>1 DEF UdpInit, Init, Types, Reading, Phases
<1>3. Dialled /\ OneDial /\ LiveIsMapped
  BY <1>1 DEF UdpInit, Init, Dialled, OneDial, LiveIsMapped, Reading, NoSession
<1>4. QED
  BY <1>2, <1>3 DEF Inv

-----------------------------------------------------------------------------
(* What happens to sessions while the map and the main loop stay as they   *)
(* are, and what happens in the scheduler alone.                           *)

\* A session that goes on or ends: it never starts again.
Ages(c) ==
  /\ session'[c] \in Sessions
  /\ session'[c].client = session[c].client
  /\ IsDone(c) => IsDone(c)'

\* The map and the sessions keep their invariants when sessions only age.
LEMMA AgeingKeeps ==
  ASSUME Inv, UNCHANGED <<sessions, main>>,
         session' = [c \in Conns |-> session'[c]], \A c \in Conns : Ages(c),
         phase' \in [Conns -> Phases],
         \A c \in Conns : phase'[c] = "dialing" => phase[c] = "dialing"
  PROVE  Inv'
<1>1. Types'
  BY DEF Inv, Types, Ages
<1>2. \A a \in Clients : HasSession(a)' => HasSession(a)
  <2> SUFFICES ASSUME NEW a \in Clients, HasSession(a)' PROVE HasSession(a)
    OBVIOUS
  <2>1. sessions'[a] = sessions[a] /\ sessions[a] # None /\ sessions[a] \in Conns
    BY DEF HasSession, Inv, Types
  <2>2. ~IsDone(sessions[a])'
    BY <2>1 DEF HasSession, IsDone
  <2>3. QED
    BY <2>1, <2>2 DEF HasSession, Ages
<1>3. Dialled'
  BY <1>2 DEF Inv, Dialled
<1>4. OneDial'
  BY DEF Inv, OneDial
<1>5. LiveIsMapped'
  BY DEF Inv, LiveIsMapped, Ages
<1>6. QED
  BY <1>1, <1>3, <1>4, <1>5 DEF Inv

\* So does a step of one session.
LEMMA SessionAges ==
  ASSUME Inv, NEW c \in Conns, NEW s \in Sessions,
         UNCHANGED <<sessions, main>>, session' = [session EXCEPT ![c] = s],
         s.client = session[c].client,
         IsDone(c) => s.at \in {"closing", "gone"},
         phase' \in [Conns -> Phases],
         \A d \in Conns : phase'[d] = "dialing" => phase[d] = "dialing"
  PROVE  Inv'
<1>1. session \in [Conns -> Sessions]
  BY DEF Inv, Types
<1>2. session' \in [Conns -> Sessions]
  BY <1>1
<1>3. \A d \in Conns : session'[d] = IF d = c THEN s ELSE session[d]
  BY <1>1
<1>4. \A d \in Conns : Ages(d)
  BY <1>1, <1>3 DEF Ages, IsDone
<1>5. QED
  BY <1>2, <1>4, AgeingKeeps

-----------------------------------------------------------------------------
LEMMA LoopStep ==
  ASSUME Inv, NEW c \in Conns,
         SessionStep(c) \/ TimerFires(c) \/ Response(c) \/ ListenerEnds(c)
  PROVE  Inv'
<1>0. /\ session[c] \in Sessions /\ session \in [Conns -> Sessions]
      /\ phase \in [Conns -> Phases]
  BY DEF Inv, Types
<1> DEFINE s == session'[c]
<1>1. ASSUME UNCHANGED <<sessions, main>>, s \in Sessions,
             session' = [session EXCEPT ![c] = s],
             s.client = session[c].client, IsDone(c) => s.at \in {"closing", "gone"},
             phase' \in [Conns -> Phases],
             \A d \in Conns : phase'[d] = "dialing" => phase[d] = "dialing"
      PROVE  Inv'
  BY <1>1, SessionAges
<1>2. CASE TimerFires(c) \/ IdleTimeout(c)
  <2>1. s = [session[c] EXCEPT !.timer = "fired"]
        \/ s = CloseAsked([session[c] EXCEPT !.timer = "received"])
    BY <1>0, <1>2 DEF TimerFires, IdleTimeout
  <2>2. s \in Sessions /\ s.client = session[c].client /\ s.at = session[c].at
    BY <1>0, <2>1 DEF Sessions, CloseAsked
  <2>3. /\ session' = [session EXCEPT ![c] = s] /\ UNCHANGED <<sessions, main, phase>>
    BY <1>0, <1>2 DEF TimerFires, IdleTimeout, vars
  <2>4. QED
    BY <1>0, <1>1, <2>2, <2>3 DEF IsDone
<1>3. CASE Forward(c)
  <2>1. /\ session[c].queue > 0 /\ session[c].at = "loop"
        /\ session' = [session EXCEPT ![c] = s] /\ UNCHANGED <<sessions, main, phase>>
    BY <1>0, <1>3 DEF Forward, AtLoop, vars
  <2>2. \/ s = [session[c] EXCEPT !.queue = @ - 1, !.at = "stuck"]
        \/ \E written \in BOOLEAN :
             s = [session[c] EXCEPT
               !.queue = @ - 1,
               !.timer = IF ClientIdle THEN "armed" ELSE "off",
               !.sent = IF written /\ MaxRequests > 0 /\ @ <= MaxRequests THEN @ + 1 ELSE @]
    BY <1>0, <1>3 DEF Forward
  <2>3. session[c].queue - 1 \in Nat
    BY <1>0, <2>1 DEF Sessions
  <2>4. ASSUME s = [session[c] EXCEPT !.queue = @ - 1, !.at = "stuck"]
        PROVE  s \in Sessions /\ s.client = session[c].client
    <3> DEFINE r == [session[c] EXCEPT !.queue = @ - 1, !.at = "stuck"]
    <3>1. r \in Sessions
      BY <1>0, <2>3 DEF Sessions
    <3>2. r.client = session[c].client
      BY <1>0 DEF Sessions
    <3>3. s = r
      BY <2>4
    <3> HIDE DEF r, s
    <3>4. QED
      BY <3>1, <3>2, <3>3
  <2>5. ASSUME NEW written \in BOOLEAN,
               s = [session[c] EXCEPT
                 !.queue = @ - 1,
                 !.timer = IF ClientIdle THEN "armed" ELSE "off",
                 !.sent = IF written /\ MaxRequests > 0 /\ @ <= MaxRequests THEN @ + 1 ELSE @]
        PROVE  s \in Sessions /\ s.client = session[c].client
    <3> DEFINE t == IF ClientIdle THEN "armed" ELSE "off"
               n == IF written /\ MaxRequests > 0 /\ session[c].sent <= MaxRequests
                    THEN session[c].sent + 1 ELSE session[c].sent
               r == [session[c] EXCEPT !.queue = session[c].queue - 1, !.timer = t, !.sent = n]
    <3>1. s = r
      BY <1>0, <2>5 DEF Sessions
    <3>2. t \in {"armed", "off"} /\ n \in Nat
      BY <1>0 DEF Sessions
    <3>3. r \in Sessions /\ r.client = session[c].client
      <4> HIDE DEF t, n
      <4>1. QED
        BY <1>0, <2>3, <3>2 DEF Sessions
    <3>4. QED
      BY <3>1, <3>3
  <2>6. s \in Sessions /\ s.client = session[c].client
    BY <2>2, <2>4, <2>5
  <2>7. QED
    BY <1>0, <1>1, <2>1, <2>6 DEF IsDone
<1>4. CASE StopSession(c)
  <2>1. s = [session[c] EXCEPT !.closeAsked = FALSE, !.at = "closing", !.timer = "off"]
    BY <1>0, <1>4 DEF StopSession
  <2>2. s \in Sessions /\ s.client = session[c].client /\ s.at = "closing"
    BY <1>0, <2>1 DEF Sessions
  <2>3. session' = [session EXCEPT ![c] = s] /\ UNCHANGED <<sessions, main, phase>>
    BY <1>0, <1>4 DEF StopSession, vars
  <2>4. QED
    BY <1>0, <1>1, <2>2, <2>3
<1>5. CASE EndSession(c)
  <2>1. s = [session[c] EXCEPT !.at = "gone", !.queue = 0]
    BY <1>0, <1>5 DEF EndSession
  <2>2. s \in Sessions /\ s.client = session[c].client /\ s.at = "gone"
    <3>1. [session[c] EXCEPT !.at = "gone", !.queue = 0] \in Sessions
      BY <1>0 DEF Sessions
    <3>2. QED
      BY <1>0, <2>1, <3>1 DEF Sessions
  <2>3. /\ session' = [session EXCEPT ![c] = s] /\ UNCHANGED <<sessions, main>>
        /\ phase' = [phase EXCEPT ![c] = "done"]
    BY <1>0, <1>5 DEF EndSession, DecrementConnection
  <2>4. /\ phase' \in [Conns -> Phases]
        /\ \A d \in Conns : phase'[d] = "dialing" => phase[d] = "dialing"
    BY <1>0, <2>3 DEF Phases
  <2>5. QED
    BY <1>1, <2>2, <2>3, <2>4
<1>6. CASE Response(c)
  <2> DEFINE n == IF MaxResponses > 0 THEN session[c].recv + 1 ELSE 0
             last == MaxResponses > 0 /\ n >= MaxResponses
             counted == [session[c] EXCEPT !.recv = n, !.listening = ~last]
  <2>1. s = IF last THEN CloseAsked(counted) ELSE counted
    BY <1>0, <1>6 DEF Response
  <2>2. n \in Nat /\ last \in BOOLEAN
    BY <1>0, UdpAssumption DEF Sessions
  <2>3. counted \in Sessions /\ counted.client = session[c].client
        /\ counted.at = session[c].at
    <3> HIDE DEF n, last
    <3>1. QED
      BY <1>0, <2>2 DEF Sessions
  <2>4. s \in Sessions /\ s.client = session[c].client /\ s.at = session[c].at
    <3> HIDE DEF counted, last
    <3>1. QED
      BY <2>1, <2>3 DEF Sessions, CloseAsked
  <2>5. session' = [session EXCEPT ![c] = s] /\ UNCHANGED <<sessions, main, phase>>
    BY <1>0, <1>6 DEF Response, vars
  <2>6. QED
    BY <1>0, <1>1, <2>4, <2>5 DEF IsDone
<1>7. CASE ListenerEnds(c)
  <2>1. s = CloseAsked([session[c] EXCEPT !.listening = FALSE])
    BY <1>0, <1>7 DEF ListenerEnds
  <2>2. s \in Sessions /\ s.client = session[c].client /\ s.at = session[c].at
    BY <1>0, <2>1 DEF Sessions, CloseAsked
  <2>3. session' = [session EXCEPT ![c] = s] /\ UNCHANGED <<sessions, main, phase>>
    BY <1>0, <1>7 DEF ListenerEnds, vars
  <2>4. QED
    BY <1>0, <1>1, <2>2, <2>3 DEF IsDone
<1>8. QED
  BY <1>2, <1>3, <1>4, <1>5, <1>6, <1>7 DEF SessionStep

\* Write puts a datagram into the queue of a session.
LEMMA WriteStep == ASSUME Inv, Write PROVE Inv'
<1> DEFINE c == main.conn
<1>1. /\ c \in Conns /\ session[c] \in Sessions /\ session \in [Conns -> Sessions]
      /\ main.at = "write"
  BY DEF Inv, Types, Dialled, Write
<1>2. session' \in [Conns -> Sessions]
      /\ \A d \in Conns : session'[d].client = session[d].client
                          /\ session'[d].at = session[d].at
  <2>1. CASE session' = session
    BY <1>1, <2>1
  <2>2. CASE session' = [session EXCEPT ![c].queue = @ + 1]
    <3>1. session' = [session EXCEPT ![c] = [session[c] EXCEPT !.queue = @ + 1]]
      BY <1>1, <2>2
    <3>2. /\ [session[c] EXCEPT !.queue = @ + 1] \in Sessions
          /\ [session[c] EXCEPT !.queue = @ + 1].client = session[c].client
          /\ [session[c] EXCEPT !.queue = @ + 1].at = session[c].at
      BY <1>1 DEF Sessions
    <3>3. QED
      BY <1>1, <3>1, <3>2
  <2>3. QED
    BY <2>1, <2>2 DEF Write
<1>3. main' = Reading /\ UNCHANGED <<sessions, phase>>
  BY DEF Write, vars
<1>4. Types'
  BY <1>2, <1>3 DEF Inv, Types, Reading
<1>5. LiveIsMapped'
  BY <1>2, <1>3 DEF Inv, LiveIsMapped, IsDone
<1>6. OneDial' /\ Dialled'
  BY <1>1, <1>3 DEF Inv, OneDial, Dialled, Reading
<1>7. QED
  BY <1>4, <1>5, <1>6 DEF Inv

\* An election, the dial and the count of a session.
LEMMA DialStep ==
  ASSUME Inv, NEW a \in Clients, NEW c \in Conns,
         ReadKnown(a) \/ ReadNew(a, c) \/ DialFails
  PROVE  Inv'
<1>0. Types /\ Dialled /\ OneDial /\ LiveIsMapped
  BY DEF Inv
<1>1. UNCHANGED <<sessions, session>>
  BY DEF ReadKnown, ReadNew, DialFails
<1>2. LiveIsMapped'
  BY <1>0, <1>1 DEF LiveIsMapped, IsDone
<1>3. CASE ReadKnown(a)
  <2>1. /\ main' = [at |-> "write", client |-> a, conn |-> sessions[a]]
        /\ sessions[a] \in Conns /\ main.at = "read" /\ phase' = phase
    BY <1>0, <1>3 DEF ReadKnown, HasSession, Types, vars
  <2>2. QED
    BY <1>0, <1>1, <1>2, <2>1 DEF Inv, Types, Dialled, OneDial
<1>4. CASE ReadNew(a, c)
  <2>1. main.at = "read" /\ ~HasSession(a) /\ HasSession(a)' = HasSession(a)
    BY <1>1, <1>4 DEF ReadNew, HasSession, IsDone
  <2>2. CASE TakeBackend(c) /\ main' = [at |-> "dial", client |-> a, conn |-> c]
    <3>1. phase' = [phase EXCEPT ![c] = "dialing"]
      BY <2>2 DEF TakeBackend
    <3>2. Types' /\ OneDial'
      BY <1>0, <1>1, <2>1, <2>2, <3>1 DEF Types, OneDial, Phases
    <3>3. Dialled'
      BY <1>1, <2>1, <2>2 DEF Dialled
    <3>4. QED
      BY <1>2, <3>2, <3>3 DEF Inv
  <2>3. CASE TakeNothing(c) /\ UNCHANGED main
    <3>1. phase' = [phase EXCEPT ![c] = "done"]
      BY <2>3 DEF TakeNothing
    <3>2. QED
      BY <1>0, <1>1, <1>2, <2>1, <2>3, <3>1 DEF Inv, Types, OneDial, Phases, Dialled
  <2>4. QED
    BY <1>4, <2>2, <2>3 DEF ReadNew
<1>5. CASE DialFails
  <2>1. /\ main.at = "dial" /\ main.conn \in Conns /\ main' = Reading
        /\ phase' = [phase EXCEPT ![main.conn] = "done"]
    BY <1>0, <1>5 DEF DialFails, IncrementRefused, Dialled
  <2>2. QED
    BY <1>0, <1>1, <1>2, <2>1 DEF Inv, Types, OneDial, Phases, Dialled, Reading
<1>6. QED
  BY <1>3, <1>4, <1>5

LEMMA ConnectStep == ASSUME Inv, DialSucceeds PROVE Inv'
<1> DEFINE c == main.conn
           a == main.client
           s == [NoSession EXCEPT !.client = a, !.at = "loop",
                                  !.timer = IF ClientIdle THEN "armed" ELSE "off",
                                  !.listening = ~Transparent]
<1>0. Types /\ Dialled /\ OneDial /\ LiveIsMapped
  BY DEF Inv
<1>1. main.at = "dial" /\ a \in Clients /\ c \in Conns /\ ~HasSession(a)
  BY <1>0 DEF DialSucceeds, Dialled
<1>2. /\ session' = [session EXCEPT ![c] = s] /\ sessions' = [sessions EXCEPT ![a] = c]
      /\ main' = [main EXCEPT !.at = "write"] /\ phase' = [phase EXCEPT ![c] = "open"]
  BY DEF DialSucceeds, IncrementConnection
<1>3. s \in Sessions /\ s.client = a /\ s.at = "loop"
  BY <1>1, UdpAssumption DEF NoSession, Sessions
<1> HIDE DEF s
<1>4. Types'
  BY <1>0, <1>1, <1>2, <1>3 DEF Types, Phases
<1>5. Dialled' /\ OneDial'
  BY <1>0, <1>1, <1>2 DEF Types, Dialled, OneDial
<1>6. LiveIsMapped'
  <2> SUFFICES ASSUME NEW d \in Conns, session'[d].client # None, ~IsDone(d)'
               PROVE  sessions'[session'[d].client] = d
    BY DEF LiveIsMapped
  <2>1. CASE d = c
    BY <1>0, <1>1, <1>2, <1>3, <2>1 DEF Types
  <2>2. CASE d # c
    <3>1. session'[d] = session[d] /\ ~IsDone(d)
      BY <1>0, <1>2, <2>2 DEF Types, IsDone
    <3>2. sessions[session[d].client] = d /\ session[d].client \in Clients
      BY <1>0, <3>1 DEF LiveIsMapped, Types, Sessions
    <3>3. session[d].client # a
      BY <1>1, <3>1, <3>2, UdpAssumption DEF HasSession
    <3>4. QED
      BY <1>0, <1>2, <3>1, <3>2, <3>3 DEF Types
  <2>3. QED
    BY <2>1, <2>2
<1>7. QED
  BY <1>4, <1>5, <1>6 DEF Inv

LEMMA InvStep == Inv /\ [UdpNext]_allVars => Inv'
<1> SUFFICES ASSUME Inv, [UdpNext]_allVars PROVE Inv'
  OBVIOUS
<1>1. CASE MainStep
  <2>1. ASSUME DialFails PROVE Inv'
    <3>1. main.client \in Clients /\ main.conn \in Conns
      BY <2>1 DEF DialFails, Inv, Dialled
    <3>2. QED
      BY <2>1, <3>1, DialStep
  <2>2. ASSUME NEW a \in Clients, ReadKnown(a) PROVE Inv'
    <3>1. sessions[a] \in Conns
      BY <2>2 DEF ReadKnown, HasSession, Inv, Types
    <3>2. QED
      BY <2>2, <3>1, DialStep
  <2>3. ASSUME NEW a \in Clients, NEW c \in Conns, ReadNew(a, c) PROVE Inv'
    BY <2>3, DialStep
  <2>4. QED
    BY <1>1, <2>1, <2>2, <2>3, ConnectStep, WriteStep DEF MainStep
<1>2. ASSUME NEW c \in Conns,
             SessionStep(c) \/ TimerFires(c) \/ Response(c) \/ ListenerEnds(c)
      PROVE  Inv'
  BY <1>2, LoopStep
<1>3. CASE Cleanup
  <2>1. /\ main.at # "dial" /\ UNCHANGED <<main, session, phase>>
        /\ sessions' = [a \in Clients |->
             IF sessions[a] # None /\ IsDone(sessions[a]) THEN None ELSE sessions[a]]
    BY <1>3 DEF Cleanup, vars
  <2>2. Types' /\ Dialled' /\ OneDial'
    BY <2>1 DEF Inv, Types, Dialled, OneDial
  <2>3. LiveIsMapped'
    BY <2>1 DEF Inv, Types, Sessions, LiveIsMapped, IsDone
  <2>4. QED
    BY <2>2, <2>3 DEF Inv
<1>4. CASE UNCHANGED <<phase, sessions, main, session>>
  BY <1>4 DEF Inv, Types, Dialled, OneDial, LiveIsMapped, HasSession, IsDone
<1>5. CASE Environment
  BY <1>4, <1>5 DEF Environment, udpVars, HandleBackendsUpdate, HealthStep,
                    HandleBackendLiveChange
<1>6. CASE UNCHANGED allVars
  BY <1>4, <1>6 DEF allVars
<1>7. QED
  BY <1>1, <1>2, <1>3, <1>5, <1>6 DEF UdpNext

\* A session that is not done is the one its client's datagrams go to.
THEOREM LiveAreMapped == UdpSpec => []LiveIsMapped
<1>1. Inv => LiveIsMapped
  BY DEF Inv
<1>2. QED
  BY <1>1, InvInit, InvStep, PTL DEF UdpSpec

-----------------------------------------------------------------------------
(* The refinement.  An election of the UDP server finds nobody dialing, so *)
(* it is one of the scheduler that serves one connection at a time; all    *)
(* else the server does is a step of its scheduler, or none.               *)

LEMMA SerialInit == UdpInit => Serial!Init
BY DEF UdpInit, Init, Serial!Init

LEMMA NobodyDials == ASSUME Inv, main.at = "read" PROVE \A c \in Conns : phase[c] # "dialing"
BY DEF Inv, OneDial

LEMMA SerialStep == Inv /\ [UdpNext]_allVars => [Serial!Next]_(Serial!vars)
<1> SUFFICES ASSUME Inv, [UdpNext]_allVars PROVE [Serial!Next]_(Serial!vars)
  OBVIOUS
<1>1. ASSUME NEW c \in Conns, main.at = "read", TakeBackend(c) \/ TakeNothing(c)
      PROVE  Serial!Next
  <2>1. Serial!MayElect(c)
    BY <1>1, NobodyDials DEF TakeBackend, TakeNothing, MayElect, Serial!MayElect
  <2>2. Serial!TakeBackend(c) \/ Serial!TakeNothing(c)
    BY <1>1, <2>1 DEF TakeBackend, TakeNothing, Eligible, Serial!TakeBackend,
                      Serial!TakeNothing, Serial!Eligible
  <2>3. QED
    BY <2>2 DEF Serial!Next, Serial!ConnStep
<1>2. ASSUME NEW c \in Conns,
             IncrementConnection(c) \/ IncrementRefused(c) \/ DecrementConnection(c)
      PROVE  Serial!Next
  <2>1. Serial!IncrementConnection(c) \/ Serial!IncrementRefused(c)
        \/ Serial!DecrementConnection(c)
    BY <1>2 DEF IncrementConnection, IncrementRefused, DecrementConnection, AddActive,
                Serial!IncrementConnection, Serial!IncrementRefused,
                Serial!DecrementConnection, Serial!AddActive
  <2>2. QED
    BY <2>1 DEF Serial!Next, Serial!ConnStep
<1>3. ASSUME UNCHANGED vars PROVE UNCHANGED Serial!vars
  BY <1>3 DEF vars, Serial!vars
<1>4. CASE MainStep
  <2>1. ASSUME NEW a \in Clients, NEW c \in Conns, ReadNew(a, c) PROVE Serial!Next
    BY <1>1, <2>1 DEF ReadNew
  <2>2. ASSUME DialFails \/ DialSucceeds PROVE Serial!Next
    <3>1. main.conn \in Conns
      BY <2>2 DEF DialFails, DialSucceeds, Inv, Dialled
    <3>2. QED
      BY <1>2, <2>2, <3>1 DEF DialFails, DialSucceeds
  <2>3. ASSUME NEW a \in Clients, ReadKnown(a) PROVE UNCHANGED vars
    BY <2>3 DEF ReadKnown
  <2>4. ASSUME Write PROVE UNCHANGED vars
    BY <2>4 DEF Write
  <2>5. QED
    BY <1>3, <1>4, <2>1, <2>2, <2>3, <2>4 DEF MainStep
<1>5. ASSUME NEW c \in Conns,
             SessionStep(c) \/ TimerFires(c) \/ Response(c) \/ ListenerEnds(c)
      PROVE  Serial!Next \/ UNCHANGED vars
  <2>1. CASE EndSession(c)
    BY <1>2, <2>1 DEF EndSession
  <2>2. QED
    BY <1>5, <2>1 DEF SessionStep, IdleTimeout, Forward, StopSession, TimerFires,
                      Response, ListenerEnds
<1>6. CASE Cleanup
  BY <1>3, <1>6 DEF Cleanup
<1>7. CASE Environment
  <2>1. ASSUME NEW l \in Listings, HandleBackendsUpdate(l) PROVE Serial!Next
    <3>1. Serial!HandleBackendsUpdate(l)
      BY <2>1 DEF HandleBackendsUpdate, Merged, Serial!HandleBackendsUpdate, Serial!Merged
    <3>2. QED
      BY <3>1 DEF Serial!Next
  <2>2. ASSUME HealthStep PROVE Serial!Next
    BY <2>2 DEF HealthStep, HandleBackendLiveChange, Serial!Next, Serial!HealthStep,
                Serial!HandleBackendLiveChange
  <2>3. QED
    BY <1>7, <2>1, <2>2 DEF Environment
<1>8. CASE UNCHANGED allVars
  BY <1>3, <1>8 DEF allVars, vars
<1>9. QED
  BY <1>3, <1>4, <1>5, <1>6, <1>7, <1>8 DEF UdpNext

\* The UDP server elects, dials and counts one session after the other, however
\* its sessions, timers, listeners and the cleanup interleave with it.
THEOREM SessionsAreSerial == UdpSpec => SerialSpec
<1>1. UdpInit => Serial!Init
  BY SerialInit
<1>2. QED
  BY <1>1, SerialStep, InvInit, InvStep, PTL DEF UdpSpec, SerialSpec, Serial!Spec

-----------------------------------------------------------------------------
(* What the refinement carries over from the scheduler.                    *)

SerialFacts == INSTANCE SchedulerProofs WITH OneAtATime <- TRUE

LEMMA SameSizes ==
  \A S : /\ IsFiniteSet(S) <=> SerialFacts!IsFiniteSet(S)
         /\ Cardinality(S) = SerialFacts!Cardinality(S)
<1>1. \A S : IsFiniteSet(S) <=> SerialFacts!IsFiniteSet(S)
  BY DEF IsFiniteSet, SerialFacts!IsFiniteSet
<1>2. ASSUME NEW S PROVE Cardinality(S) = SerialFacts!Cardinality(S)
  BY DEF Cardinality, SerialFacts!Cardinality
<1>3. QED
  BY <1>1, <1>2

LEMMA SameLimits == LimitRespected <=> SerialFacts!LimitRespected
<1>1. \A t : Cardinality(Open(t)) = SerialFacts!Cardinality(SerialFacts!Open(t))
  BY SameSizes DEF Open, SerialFacts!Open
<1>2. QED
  BY <1>1 DEF LimitRespected, SerialFacts!LimitRespected

LEMMA SameInit == Serial!Init => SerialFacts!Init
BY DEF Serial!Init, SerialFacts!Init

LEMMA SameStep == [Serial!Next]_(Serial!vars) => [SerialFacts!Next]_(SerialFacts!vars)
<1>1. ASSUME NEW l \in Listings, Serial!HandleBackendsUpdate(l)
      PROVE  SerialFacts!HandleBackendsUpdate(l)
  BY <1>1 DEF Serial!HandleBackendsUpdate, SerialFacts!HandleBackendsUpdate,
              Serial!Merged, SerialFacts!Merged
<1>2. ASSUME Serial!HealthStep PROVE SerialFacts!HealthStep
  BY <1>2 DEF Serial!HealthStep, SerialFacts!HealthStep,
              Serial!HandleBackendLiveChange, SerialFacts!HandleBackendLiveChange
<1>3. ASSUME NEW c \in Conns, Serial!ConnStep(c) PROVE SerialFacts!ConnStep(c)
  <2>1. Serial!TakeBackend(c) => SerialFacts!TakeBackend(c)
    BY DEF Serial!TakeBackend, SerialFacts!TakeBackend, Serial!MayElect,
           SerialFacts!MayElect, Serial!Eligible, SerialFacts!Eligible
  <2>2. Serial!TakeNothing(c) => SerialFacts!TakeNothing(c)
    BY DEF Serial!TakeNothing, SerialFacts!TakeNothing, Serial!MayElect,
           SerialFacts!MayElect, Serial!Eligible, SerialFacts!Eligible
  <2>3. Serial!IncrementConnection(c) => SerialFacts!IncrementConnection(c)
    BY DEF Serial!IncrementConnection, SerialFacts!IncrementConnection,
           Serial!AddActive, SerialFacts!AddActive
  <2>4. Serial!IncrementRefused(c) => SerialFacts!IncrementRefused(c)
    BY DEF Serial!IncrementRefused, SerialFacts!IncrementRefused
  <2>5. Serial!DecrementConnection(c) => SerialFacts!DecrementConnection(c)
    BY DEF Serial!DecrementConnection, SerialFacts!DecrementConnection,
           Serial!AddActive, SerialFacts!AddActive
  <2>6. QED
    BY <1>3, <2>1, <2>2, <2>3, <2>4, <2>5 DEF Serial!ConnStep, SerialFacts!ConnStep
<1>4. QED
  BY <1>1, <1>2, <1>3
     DEF Serial!Next, SerialFacts!Next, Serial!vars, SerialFacts!vars

\* max_connections limits the sessions of a backend, however elections, dials
\* and ends of sessions interleave, when discovery lists the same backends with
\* the same limits each time.
THEOREM SessionsWithinLimit ==
  ASSUME FixedTargets, FixedLimits
  PROVE  UdpSpec => []LimitRespected
<1>1. SerialFacts!FixedTargets /\ SerialFacts!FixedLimits
  BY FixedTargets, FixedLimits
     DEF FixedTargets, FixedLimits, SerialFacts!FixedTargets, SerialFacts!FixedLimits
<1>2. SerialFacts!Spec => []SerialFacts!LimitRespected
  BY <1>1, SerialFacts!StaticLimitHolds, ConstantsAssumption, SameSizes
<1>3. SerialSpec => SerialFacts!Spec
  BY SameInit, SameStep, PTL DEF SerialSpec, Serial!Spec, SerialFacts!Spec
<1>4. QED
  BY <1>2, <1>3, SessionsAreSerial, SameLimits, PTL
=============================================================================
