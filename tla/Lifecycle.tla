----------------------------- MODULE Lifecycle -----------------------------
(***************************************************************************)
(* How one server of gobetween is taken apart: the server's own goroutine  *)
(* (src/src/server/tcp/server.go, src/src/server/udp/server.go), the       *)
(* scheduler's (src/src/server/scheduler/scheduler.go), discovery          *)
(* (src/src/discovery/discovery.go), the healthcheck loop, the stats       *)
(* handler and its counters (src/src/stats), and the goroutines that       *)
(* forward traffic to them.                                                *)
(*                                                                         *)
(* Every channel is unbuffered, so a Stop() returns when the other side    *)
(* has taken the request, not when it is done; and the stats side closes   *)
(* its channels, on which a send panics and ends the program.  The server  *)
(* may be replaced by one of the same name as soon as it has taken its     *)
(* stop request (a reload).                                                *)
(*                                                                         *)
(* One backend stands for all.  A tick of the server's counter is received *)
(* by the handler before its next one, so that counter is at its select.   *)
(***************************************************************************)
EXTENDS Integers, Sequences

CONSTANTS
  Udp,          \* the server's protocol
  MaxForwards   \* bound on the forwarding goroutines at a time

ASSUME LifecycleAssumption ==
  /\ Udp \in BOOLEAN
  /\ MaxForwards \in Nat

VARIABLES
  stopping,     \* the server's goroutine has taken the stop request
  todo,         \* what it has still to stop
  listening,    \* the listener is open
  sched,        \* the scheduler's goroutine
  once,         \* discovery's interval is 0: it sends one list and is done
  discovery,    \* discovery's goroutine
  health,       \* the healthcheck loop
  handler,      \* the stats handler's goroutine
  serverCounter,\* the server's bandwidth counter
  bc,           \* the backends counter's goroutine
  counter,      \* the counter of the backend
  toServer,     \* forwarding goroutines before the server's counter
  toBackends,   \* forwarding goroutines before the backends counter
  store,        \* stats.Store.handlers[name]: of this server, or the next one
  replacement   \* the next server of this name

server == <<stopping, todo, listening, once>>
stats == <<handler, serverCounter, bc, counter>>
forwards == <<toServer, toBackends>>
names == <<store, replacement>>
vars == <<server, sched, discovery, health, stats, forwards, names>>

Parts == {"scheduler", "stats", "listener"}

TypeOK ==
  /\ stopping \in BOOLEAN /\ listening \in BOOLEAN /\ once \in BOOLEAN
  /\ todo \in Seq(Parts) /\ Len(todo) <= 3
  /\ sched \in {"select", "in", "push", "traffic", "stopDiscovery", "stopHealth", "gone"}
  /\ discovery \in {"fetch", "out", "wait", "gone"}
  /\ health \in {"running", "gone"}
  /\ handler \in {"select", "stopServer", "stopBackends", "gone"}
  /\ serverCounter \in {"running", "gone"}
  /\ bc \in {"select", "route", "drop", "stopping", "gone"}
  /\ counter \in {"none", "select", "out"}
  /\ toServer \in 0..MaxForwards /\ toBackends \in 0..MaxForwards
  /\ store \in {"none", "this", "next"}
  /\ replacement \in {"none", "serving", "refused"}

\* Mutant: TCP stops its parts in UDP's order.
StopOrderStatsFirst == <<"listener", "stats", "scheduler">>

\* The order in which the server's goroutine stops its parts.  Clients and
\* sessions are closed last in both.
StopOrder == IF Udp THEN <<"listener", "stats", "scheduler">>
             ELSE <<"scheduler", "stats", "listener">>

Init ==
  /\ stopping = FALSE /\ todo = <<>> /\ listening = TRUE
  /\ once \in BOOLEAN /\ sched = "select" /\ discovery = "fetch" /\ health = "running"
  /\ handler = "select" /\ serverCounter = "running"
  /\ bc = "select" /\ counter = "none"
  /\ toServer = 0 /\ toBackends = 0
  /\ store = "this" /\ replacement = "none"

-----------------------------------------------------------------------------
(* The program ends when a goroutine sends on a closed channel, also when  *)
(* it was waiting to send as the channel was closed.                       *)

SchedulerPanics ==
  \/ sched = "traffic" /\ handler = "gone"   \* StatsHandler.Traffic
  \/ sched = "in" /\ bc = "gone"             \* BackendsCounter.In

ForwardPanics ==
  \/ toServer > 0 /\ serverCounter = "gone"  \* serverCounter.Traffic
  \/ toBackends > 0 /\ bc = "gone"           \* BackendsCounter.Traffic

Crashed == SchedulerPanics \/ ForwardPanics

-----------------------------------------------------------------------------
(* Discovery.                                                              *)

\* A result to send, or a failure to wait out (a stop request that waits is
\* taken first).
FetchEnds ==
  /\ discovery = "fetch"
  /\ sched # "stopDiscovery"
  /\ discovery' \in {"out", "wait"}
  /\ UNCHANGED <<server, sched, health, stats, forwards, names>>

\* The result is sent.  send() does not listen to the stop channel meanwhile.
\* (A failure whose failpolicy is to send an empty list is followed by a wait.)
Discover ==
  /\ discovery = "out" /\ sched = "select"
  /\ discovery' \in IF once THEN {"gone", "wait"} ELSE {"wait"}
  /\ sched' = "in"
  /\ UNCHANGED <<server, health, stats, forwards, names>>

WaitEnds ==
  /\ discovery = "wait"
  /\ discovery' = "fetch"
  /\ UNCHANGED <<server, sched, health, stats, forwards, names>>

\* Discovery.Stop() is received after a fetch or during a wait.
DiscoveryStops ==
  /\ sched = "stopDiscovery" /\ discovery \in {"fetch", "wait"}
  /\ discovery' = "gone"
  /\ sched' = "stopHealth"
  /\ UNCHANGED <<server, health, stats, forwards, names>>

-----------------------------------------------------------------------------
(* The scheduler and the stats handler.                                    *)

\* The targets reach the backends counter, which starts the counter, keeps it
\* or has to stop it first.
UpdateCounters ==
  /\ sched = "in" /\ bc = "select"
  /\ sched' = "select"
  /\ \/ /\ counter' = IF counter = "none" THEN "select" ELSE counter
        /\ UNCHANGED bc
     \/ /\ counter # "none"
        /\ bc' = "drop"
        /\ UNCHANGED counter
  /\ UNCHANGED <<server, discovery, health, handler, serverCounter, forwards, names>>

\* The ticker of the scheduler: backends for the stats handler.
PushBackends ==
  /\ \/ sched = "select" /\ sched' = "push"
     \/ sched = "push" /\ handler = "select" /\ sched' = "select"
  /\ UNCHANGED <<server, discovery, health, stats, forwards, names>>

\* IncrementRx or IncrementTx of a connection.
HandleOp ==
  /\ sched = "select" /\ toServer + toBackends < MaxForwards
  /\ sched' = "traffic"
  /\ UNCHANGED <<server, discovery, health, stats, forwards, names>>

\* The handler starts a goroutine that forwards the traffic.
HandleTraffic ==
  /\ sched = "traffic" /\ handler = "select"
  /\ sched' = "select"
  /\ toServer' = toServer + 1
  /\ UNCHANGED <<server, discovery, health, stats, toBackends, names>>

\* The counter's totals, on the channel that it shares with the others.
ReceiveStats ==
  /\ sched = "select" /\ counter = "out"
  /\ counter' = "select"
  /\ UNCHANGED <<server, sched, discovery, health, handler, serverCounter, bc,
                 forwards, names>>

\* Mutant: the scheduler leaves without stopping the healthchecks.
HealthStopsNever ==
  /\ sched = "stopHealth"
  /\ sched' = "gone"
  /\ UNCHANGED <<server, discovery, health, stats, forwards, names>>

HealthStops ==
  /\ sched = "stopHealth"
  /\ health' = "gone"
  /\ sched' = "gone"
  /\ UNCHANGED <<server, discovery, stats, forwards, names>>

-----------------------------------------------------------------------------
(* Counters.                                                               *)

CountServer ==
  /\ toServer > 0 /\ serverCounter = "running"
  /\ toServer' = toServer - 1
  /\ toBackends' = toBackends + 1
  /\ UNCHANGED <<server, sched, discovery, health, stats, names>>

\* Traffic for a target without a counter is dropped.
CountBackends ==
  /\ toBackends > 0 /\ bc = "select"
  /\ toBackends' = toBackends - 1
  /\ bc' = IF counter = "none" THEN "select" ELSE "route"
  /\ UNCHANGED <<server, sched, discovery, health, handler, serverCounter, counter,
                 toServer, names>>

\* The counter takes what the backends counter sends: traffic, or a stop.
CounterTakes ==
  /\ bc \in {"route", "drop"} /\ counter = "select"
  /\ bc' = "select"
  /\ counter' = IF bc = "drop" THEN "none" ELSE "select"
  /\ UNCHANGED <<server, sched, discovery, health, handler, serverCounter, forwards, names>>

CounterTicks ==
  /\ counter = "select"
  /\ counter' = "out"
  /\ UNCHANGED <<server, sched, discovery, health, handler, serverCounter, bc,
                 forwards, names>>

\* The backends counter stops its counters and closes its channels.
BackendsCounterEnds ==
  /\ bc = "stopping" /\ counter \in {"none", "select"}
  /\ bc' = "gone" /\ counter' = "none"
  /\ UNCHANGED <<server, sched, discovery, health, handler, serverCounter, forwards, names>>

\* The handler stops the server's counter, which closes its channel.
HandlerStopsServerCounter ==
  /\ handler = "stopServer"
  /\ handler' = "stopBackends" /\ serverCounter' = "gone"
  /\ UNCHANGED <<server, sched, discovery, health, bc, counter, forwards, names>>

\* Mutant: whatever handler has the name is deleted.
HandlerEndsForAll ==
  /\ handler = "stopBackends" /\ bc = "select"
  /\ handler' = "gone" /\ bc' = "stopping"
  /\ store' = "none"
  /\ UNCHANGED <<server, sched, discovery, health, serverCounter, counter, forwards,
                 replacement>>

\* The backends counter takes its stop request; the handler leaves the store,
\* if it is still the one with the name, and closes its channels.
HandlerEnds ==
  /\ handler = "stopBackends" /\ bc = "select"
  /\ handler' = "gone" /\ bc' = "stopping"
  /\ store' = IF store = "this" THEN "none" ELSE store
  /\ UNCHANGED <<server, sched, discovery, health, serverCounter, counter, forwards,
                 replacement>>

-----------------------------------------------------------------------------
(* The server's goroutine, and the manager.                                *)

\* Server.Stop() of the manager, or of Start when it cannot listen.
StopRequested ==
  /\ ~stopping
  /\ stopping' = TRUE /\ todo' = StopOrder
  /\ UNCHANGED <<listening, once, sched, discovery, health, stats, forwards, names>>

Stops(part) == todo # <<>> /\ Head(todo) = part /\ todo' = Tail(todo)

\* Mutant: Scheduler.Stop() waits until the scheduler is done.
StopSchedulerWaits ==
  /\ todo # <<>> /\ Head(todo) = "scheduler"
  /\ \/ sched = "select" /\ sched' = "stopDiscovery" /\ UNCHANGED todo
     \/ sched = "gone" /\ todo' = Tail(todo) /\ UNCHANGED sched
  /\ UNCHANGED <<stopping, listening, once, discovery, health, stats, forwards, names>>

StopScheduler ==
  /\ Stops("scheduler")
  /\ sched = "select" /\ sched' = "stopDiscovery"
  /\ UNCHANGED <<stopping, listening, once, discovery, health, stats, forwards, names>>

StopStats ==
  /\ Stops("stats")
  /\ handler = "select" /\ handler' = "stopServer"
  /\ UNCHANGED <<stopping, listening, once, sched, discovery, health, serverCounter, bc,
                 counter, forwards, names>>

CloseListener ==
  /\ Stops("listener")
  /\ listening' = FALSE
  /\ UNCHANGED <<stopping, once, sched, discovery, health, stats, forwards, names>>

\* A reload creates the next server of this name: New puts its stats handler
\* into the store, Start listens on (say) the same address.
Replace ==
  /\ stopping /\ replacement = "none"
  /\ store' = "next"
  /\ replacement' = IF listening THEN "refused" ELSE "serving"
  /\ UNCHANGED <<server, sched, discovery, health, stats, forwards>>

-----------------------------------------------------------------------------
\* A step of a program that has not panicked.
Going(A) == ~Crashed /\ A

Discovering == FetchEnds \/ Discover \/ WaitEnds \/ DiscoveryStops

Scheduling ==
  UpdateCounters \/ PushBackends \/ HandleOp \/ HandleTraffic \/ ReceiveStats \/ HealthStops

Counting == CountServer \/ CountBackends \/ CounterTakes \/ CounterTicks

StatsEnding == BackendsCounterEnds \/ HandlerStopsServerCounter \/ HandlerEnds

Stopping == StopRequested \/ StopScheduler \/ StopStats \/ CloseListener

Next ==
  \/ Going(Discovering) \/ Going(Scheduling) \/ Going(Counting)
  \/ Going(StatsEnding) \/ Going(Stopping) \/ Going(Replace)

Spec == Init /\ [][Next]_vars

\* Goroutines that wait for one thing only, or whose wait ends by itself.
Running ==
  \/ FetchEnds \/ WaitEnds \/ DiscoveryStops \/ HealthStops
  \/ HandlerStopsServerCounter \/ CloseListener

\* A select with several cases ready takes one at random, so a case that is
\* ready again and again is taken.  Nothing is assumed of traffic and ticks.
Fairness ==
  /\ WF_vars(Going(Running))
  /\ WF_vars(Going(sched = "push" /\ PushBackends))
  /\ SF_vars(Going(Discover)) /\ SF_vars(Going(UpdateCounters))
  /\ SF_vars(Going(HandleTraffic)) /\ SF_vars(Going(ReceiveStats))
  /\ SF_vars(Going(CountServer)) /\ SF_vars(Going(CountBackends))
  /\ SF_vars(Going(CounterTakes))
  /\ SF_vars(Going(BackendsCounterEnds)) /\ SF_vars(Going(HandlerEnds))
  /\ SF_vars(Going(StopScheduler)) /\ SF_vars(Going(StopStats))

FairSpec == Spec /\ Fairness

-----------------------------------------------------------------------------
(* Properties.                                                             *)

\* The scheduler never sends to a part of the stats side that has closed its
\* channels.  The program's other servers depend on it too.
NoSendAfterClose == ~SchedulerPanics

\* "Avoid deleting a newer handler with the same name after reload": the
\* replaced server's handler, however late it stops, leaves the new one alone.
NewerHandlerKept == replacement # "none" => store = "next"

\* Scheduler, backends counter and counter waiting for each other (see Stats).
Gridlocked == sched = "in" /\ bc \in {"route", "drop"} /\ counter = "out"

\* A server that was told to stop gives its address back, whatever discovery
\* and healthchecks are doing, unless its goroutines already wait in a circle.
AddressGivenBack == stopping ~> (~listening \/ Gridlocked \/ Crashed)

\* Discovery does not listen to its stop channel: it is sending its result,
\* to the scheduler that is stopping it, or has fetched once and is gone.
Stranded == sched = "stopDiscovery" /\ discovery \in {"out", "gone"}

\* The healthchecks of a stopped server end, unless discovery is stranded.
HealthchecksEnd ==
  stopping ~> (health = "gone" \/ Stranded \/ Gridlocked \/ Crashed)
=============================================================================
