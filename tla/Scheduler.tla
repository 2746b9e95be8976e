----------------------------- MODULE Scheduler -----------------------------
(***************************************************************************)
(* The backend scheduler of one gobetween server                           *)
(* (src/src/server/scheduler/scheduler.go) and the connections that use it.*)
(*                                                                         *)
(* The scheduler is one goroutine that owns the map `backends' and handles *)
(* one message at a time: discovery results, healthcheck results, election *)
(* requests, counter operations.  Its channels are unbuffered, so sending  *)
(* a message and handling it is one step.  A connection (a TCP handler or  *)
(* a UDP session) is a process that takes a backend, dials it, counts      *)
(* itself in, and counts itself out when it ends; anything may happen in   *)
(* between, which is what this module is about.                            *)
(*                                                                         *)
(* TotalConnections, RefusedConnections and the byte counters are left     *)
(* out: nothing in the scheduler reads them.  What happens when the        *)
(* scheduler blocks on another component's channel, or stops, is not here. *)
(***************************************************************************)
EXTENDS Integers, FiniteSets

CONSTANTS
  Targets,      \* host:port of every backend that discovery may ever list
  Conns,        \* the client connections (or UDP sessions) of one server
  None,         \* the backend of a connection that was given none
  Listings,     \* discovery results: functions from the listed targets to
                \* their max_connections (0 means no limit)
  UintMax,      \* the largest value of Go's uint, the type of ActiveConnections
  InitialLive,  \* healthcheck.initial_status = "healthy"
  OneAtATime    \* TRUE for the UDP server, whose only main loop elects, dials
                \* and counts a session before it reads the next datagram

ASSUME ConstantsAssumption ==
  /\ None \notin Targets
  /\ IsFiniteSet(Conns)
  /\ UintMax \in Nat /\ Cardinality(Conns) <= UintMax
  /\ InitialLive \in BOOLEAN /\ OneAtATime \in BOOLEAN
  /\ \A l \in Listings : DOMAIN l \subseteq Targets /\ l \in [DOMAIN l -> Nat]

VARIABLES
  backends,     \* Scheduler.backends: the known targets and their state
  phase,        \* where each connection is in its life
  taken         \* the backend each connection was given by TakeBackend

vars == <<backends, phase, taken>>

Phases == {"new", "dialing", "open", "done"}

Backend == [live : BOOLEAN, discovered : BOOLEAN, active : 0..UintMax, max : Nat]

TypeOK ==
  /\ \E D \in SUBSET Targets : backends \in [D -> Backend]
  /\ phase \in [Conns -> Phases]
  /\ taken \in [Conns -> Targets \cup {None}]
  /\ \A c \in Conns : phase[c] \in {"dialing", "open"} => taken[c] \in Targets

Listed == {t \in DOMAIN backends : backends[t].discovered}

Open(t) == {c \in Conns : taken[c] = t /\ phase[c] = "open"}

\* Connections that still have an operation on t ahead of them.
Holders(t) == {c \in Conns : taken[c] = t /\ phase[c] \in {"dialing", "open"}}

Init ==
  /\ backends = [t \in {} |-> None]
  /\ phase = [c \in Conns |-> "new"]
  /\ taken = [c \in Conns |-> None]

-----------------------------------------------------------------------------
(* Discovery and healthcheck results.                                      *)

\* Mutant: the listed backend takes the known one's place.
MergedOverwrites(l, t) ==
  IF t \in DOMAIN l
  THEN [live |-> InitialLive, discovered |-> TRUE, active |-> 0, max |-> l[t]]
  ELSE [backends[t] EXCEPT !.discovered = FALSE]

\* What HandleBackendsUpdate makes of target t before it removes anything: a
\* known backend keeps its state and takes the listed properties (MergeFrom).
Merged(l, t) ==
  IF t \in DOMAIN backends
  THEN [backends[t] EXCEPT !.discovered = t \in DOMAIN l,
                           !.max = IF t \in DOMAIN l THEN l[t] ELSE @]
  ELSE [live |-> InitialLive, discovered |-> TRUE, active |-> 0, max |-> l[t]]

\* Mutant: backends go at once, whatever connections they have.
HandleBackendsUpdateDropsBusy(l) ==
  /\ backends' = [t \in DOMAIN l |-> Merged(l, t)]
  /\ UNCHANGED <<phase, taken>>

\* Mutant: backends without connections stay too (>= for >).
HandleBackendsUpdateKeepsIdle(l) ==
  /\ backends' = [t \in DOMAIN backends \cup DOMAIN l |-> Merged(l, t)]
  /\ UNCHANGED <<phase, taken>>

HandleBackendsUpdate(l) ==
  LET known == DOMAIN backends \cup DOMAIN l
      kept  == {t \in known : Merged(l, t).discovered \/ Merged(l, t).active > 0}
  IN /\ backends' = [t \in kept |-> Merged(l, t)]
     /\ UNCHANGED <<phase, taken>>

\* A result for a target that is not known is ignored.
HandleBackendLiveChange(t, live) ==
  /\ t \in DOMAIN backends
  /\ backends' = [backends EXCEPT ![t].live = live]
  /\ UNCHANGED <<phase, taken>>

-----------------------------------------------------------------------------
(* Elections and counter operations, each sent by a connection.            *)

\* Mutant: an election forgets that a backend is being drained.
EligibleUndiscovered ==
  {t \in DOMAIN backends :
     /\ backends[t].live
     /\ backends[t].max = 0 \/ backends[t].active < backends[t].max}

\* Mutant: a backend at its limit may take one more.
EligibleAtLimit ==
  {t \in DOMAIN backends :
     /\ backends[t].live
     /\ backends[t].discovered
     /\ backends[t].max = 0 \/ backends[t].active <= backends[t].max}

\* The backends an election may choose from: live and discovered, and passed
\* by the max_connections middleware.  Which of them is up to the balancer.
Eligible ==
  {t \in DOMAIN backends :
     /\ backends[t].live
     /\ backends[t].discovered
     /\ backends[t].max = 0 \/ backends[t].active < backends[t].max}

MayElect(c) ==
  /\ phase[c] = "new"
  /\ OneAtATime => \A d \in Conns : phase[d] # "dialing"

TakeBackend(c) ==
  /\ MayElect(c)
  /\ \E t \in Eligible : taken' = [taken EXCEPT ![c] = t]
  /\ phase' = [phase EXCEPT ![c] = "dialing"]
  /\ UNCHANGED backends

\* Elect returned an error, for which a middleware or the balancer may have
\* reasons of its own even when there are eligible backends: the connection
\* is closed.
TakeNothing(c) ==
  /\ MayElect(c)
  /\ phase' = [phase EXCEPT ![c] = "done"]
  /\ UNCHANGED <<backends, taken>>

\* HandleOp on ActiveConnections: an operation on a target that is not known
\* is dropped, and a uint wraps around.
AddActive(t, n) ==
  backends' = IF t \in DOMAIN backends
              THEN [backends EXCEPT ![t].active = (@ + n) % (UintMax + 1)]
              ELSE backends

\* The dial succeeded.
IncrementConnection(c) ==
  /\ phase[c] = "dialing"
  /\ AddActive(taken[c], 1)
  /\ phase' = [phase EXCEPT ![c] = "open"]
  /\ UNCHANGED taken

\* The dial failed.  Only RefusedConnections changes.
IncrementRefused(c) ==
  /\ phase[c] = "dialing"
  /\ phase' = [phase EXCEPT ![c] = "done"]
  /\ UNCHANGED <<backends, taken>>

\* Mutant: a way out of the handler that does not count itself out.
DecrementConnectionForgotten(c) ==
  /\ phase[c] = "open"
  /\ phase' = [phase EXCEPT ![c] = "done"]
  /\ UNCHANGED <<backends, taken>>

\* Deferred by the handler, so it is run whichever way the connection ends.
DecrementConnection(c) ==
  /\ phase[c] = "open"
  /\ AddActive(taken[c], -1)
  /\ phase' = [phase EXCEPT ![c] = "done"]
  /\ UNCHANGED taken

-----------------------------------------------------------------------------
ConnStep(c) ==
  \/ TakeBackend(c)
  \/ TakeNothing(c)
  \/ IncrementConnection(c)
  \/ IncrementRefused(c)
  \/ DecrementConnection(c)

HealthStep == \E t \in Targets, live \in BOOLEAN : HandleBackendLiveChange(t, live)

Next ==
  \/ \E l \in Listings : HandleBackendsUpdate(l)
  \/ HealthStep
  \/ \E c \in Conns : ConnStep(c)

Spec == Init /\ [][Next]_vars

\* No removed backend is listed again while a connection still holds it.
\* The code does not see to this; it is so when the listed set never changes
\* (kind = "static"), and when addresses are not reused (containers).
QuietReturn(l) == \A t \in DOMAIN l \ DOMAIN backends : Holders(t) = {}

QuietUpdate == \E l \in Listings : QuietReturn(l) /\ HandleBackendsUpdate(l)

QuietNext ==
  \/ QuietUpdate
  \/ HealthStep
  \/ \E c \in Conns : ConnStep(c)

QuietSpec == Init /\ [][QuietNext]_vars

\* Discovery that always lists the same targets, or the same limits.
FixedTargets == \A k, l \in Listings : DOMAIN k = DOMAIN l

FixedLimits == \A k, l \in Listings : \A t \in DOMAIN k \cap DOMAIN l : k[t] = l[t]

\* Discovery with interval > 0 sends a result every interval, and a
\* connection that is dialing or open ends one day (dial and idle timeouts,
\* or its peers).  Nothing is assumed of healthchecks.
Fairness ==
  /\ WF_vars(QuietUpdate)
  /\ \A c \in Conns : WF_vars(ConnStep(c))

FairQuietSpec == QuietSpec /\ Fairness

-----------------------------------------------------------------------------
(* Properties.                                                             *)

\* ActiveConnections of a known backend is the number of connections open to
\* it: increments and decrements are messages that can meet the backend
\* removed in between, and the counter decides elections and removals.
ActiveExact ==
  \A t \in DOMAIN backends : backends[t].active = Cardinality(Open(t))

\* "remove not discovered backends without active connections": an update
\* removes no backend that a connection is still proxying to.
RemovesOnlyIdle ==
  \A t \in DOMAIN backends : t \notin DOMAIN backends' => Open(t) = {}

RemovedOnlyWhenIdle == [][RemovesOnlyIdle]_vars

\* The other half of it: a backend that outlives the update that stops
\* listing it has a connection open to it.
KeepsOnlyBusy ==
  \A t \in Listed : t \in DOMAIN backends' /\ t \notin Listed' => Open(t) # {}

UndiscoveredIsBusy == [][KeepsOnlyBusy]_vars

\* max_connections limits the connections open to a backend.
LimitRespected ==
  \A t \in DOMAIN backends :
    backends[t].max > 0 => Cardinality(Open(t)) <= backends[t].max

\* A backend that discovery lists no more is one day forgotten, with all the
\* connections it had.
DrainedIsForgotten ==
  \A t \in Targets : <>[](t \notin Listed) => <>[](t \notin DOMAIN backends)

\* The scheduler implements the counter-free specification of draining.
Pool == INSTANCE BackendPool WITH listed <- Listed, pool <- DOMAIN backends

PoolSpec == Pool!Spec
=============================================================================
