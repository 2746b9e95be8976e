------------------------------- MODULE Stats -------------------------------
(***************************************************************************)
(* Byte statistics of one server, from a connection's IncrementRx or       *)
(* IncrementTx to the totals of the server and of each backend: the        *)
(* scheduler (src/src/server/scheduler/scheduler.go), the stats handler    *)
(* (src/src/stats/handler.go), the backends counter and the counters it    *)
(* keeps, one per target (src/src/stats/counters).                         *)
(*                                                                         *)
(* Each of them is a goroutine, all channels between them are unbuffered,  *)
(* and three of them send to each other in a circle: the scheduler sends   *)
(* target lists to the backends counter, the backends counter sends        *)
(* traffic and stop requests to the counters, the counters send totals to  *)
(* the scheduler.  A goroutine that sends takes part in nothing else until *)
(* its receiver is back at its select.                                     *)
(*                                                                         *)
(* The handler and the server's counter always return to their selects, so *)
(* a send to them is one step.  Rates, the copies kept for the REST API    *)
(* and the stopping of a server are left out.                              *)
(***************************************************************************)
EXTENDS Integers, FiniteSets, FiniteSetsExt

CONSTANTS
  Targets,      \* host:port of every backend that discovery may ever list
  None,
  MaxTraffic    \* bound on the units of traffic of a run

ASSUME StatsAssumption == None \notin Targets /\ MaxTraffic \in Nat

VARIABLES
  known,        \* scheduler: the targets in its backends map
  reported,     \* scheduler: Stats.RxBytes of each of them
  sched,        \* scheduler: its goroutine, and the list it sends
  bc,           \* the backends counter's goroutine
  counter,      \* the goroutine of each target's counter
  total,        \* RxTotal of each counter
  server,       \* RxTotal of the server's counter
  toServer,     \* forwarding goroutines, per target, before the server counter
  toBackends    \* forwarding goroutines between the two counters

vars == <<known, reported, sched, bc, counter, total, server, toServer, toBackends>>

schedVars == <<known, reported, sched>>
flowVars == <<server, toServer, toBackends>>

Units == 0..MaxTraffic

TypeOK ==
  /\ known \subseteq Targets
  /\ reported \in [Targets -> Units]
  /\ sched \in [at : {"select", "in"}, list : SUBSET Targets]
  /\ bc \in [at : {"select", "route", "stop"}, target : Targets \cup {None},
             rest : SUBSET Targets]
  /\ counter \in [Targets -> {"none", "select", "out"}]
  /\ total \in [Targets -> Units]
  /\ server \in Units
  /\ toServer \in [Targets -> Units] /\ toBackends \in [Targets -> Units]

AtSelect == [at |-> "select", target |-> None, rest |-> {}]

\* BackendsBandwidthCounter.counters
Counters == {t \in Targets : counter[t] # "none"}

\* Units on their way or in the server's total: what has been sent so far.
Sent == server + MapThenSumSet(LAMBDA t : toServer[t], Targets)

Init ==
  /\ known = {}
  /\ reported = [t \in Targets |-> 0]
  /\ sched = [at |-> "select", list |-> {}]
  /\ bc = AtSelect
  /\ counter = [t \in Targets |-> "none"]
  /\ total = [t \in Targets |-> 0]
  /\ server = 0
  /\ toServer = [t \in Targets |-> 0]
  /\ toBackends = [t \in Targets |-> 0]

-----------------------------------------------------------------------------
(* The scheduler.                                                          *)

\* A discovery result: the map is updated and its targets are sent to the
\* backends counter.  Which targets stay depends on their connections.
HandleBackendsUpdate(T) ==
  /\ sched.at = "select"
  /\ known' = T
  /\ reported' = [t \in Targets |-> IF t \in known \cap T THEN reported[t] ELSE 0]
  /\ sched' = [at |-> "in", list |-> T]
  /\ UNCHANGED <<bc, counter, total, flowVars>>

\* IncrementRx: the handler takes the traffic of t, whether the scheduler
\* knows t or not, and starts a goroutine that forwards it.
HandleTraffic(t) ==
  /\ sched.at = "select"
  /\ Sent < MaxTraffic
  /\ toServer' = [toServer EXCEPT ![t] = @ + 1]
  /\ UNCHANGED <<schedVars, bc, counter, total, server, toBackends>>

\* A counter's report meets the scheduler at its select; a report on a
\* target that is not known is ignored.
HandleBackendStatsChange(t) ==
  /\ sched.at = "select"
  /\ counter[t] = "out"
  /\ reported' = IF t \in known THEN [reported EXCEPT ![t] = total[t]] ELSE reported
  /\ counter' = [counter EXCEPT ![t] = "select"]
  /\ UNCHANGED <<known, sched, bc, total, flowVars>>

-----------------------------------------------------------------------------
(* The forwarding goroutines: first the server's counter, then the         *)
(* backends counter.                                                       *)

CountServer(t) ==
  /\ toServer[t] > 0
  /\ toServer' = [toServer EXCEPT ![t] = @ - 1]
  /\ toBackends' = [toBackends EXCEPT ![t] = @ + 1]
  /\ server' = server + 1
  /\ UNCHANGED <<schedVars, bc, counter, total>>

\* Mutant: it does not wait for a counter that is not at its select.
RouteImpatient(t) ==
  /\ toBackends[t] > 0
  /\ bc.at = "select"
  /\ toBackends' = [toBackends EXCEPT ![t] = @ - 1]
  /\ bc' = IF counter[t] = "select" THEN [AtSelect EXCEPT !.at = "route", !.target = t] ELSE bc
  /\ UNCHANGED <<schedVars, counter, total, server, toServer>>

\* The backends counter takes the traffic, and looks for the target's
\* counter; the traffic of an unknown target is lost to the backends.
Route(t) ==
  /\ toBackends[t] > 0
  /\ bc.at = "select"
  /\ toBackends' = [toBackends EXCEPT ![t] = @ - 1]
  /\ bc' = IF t \in Counters THEN [AtSelect EXCEPT !.at = "route", !.target = t] ELSE bc
  /\ UNCHANGED <<schedVars, counter, total, server, toServer>>

\* ... and waits for that counter.
CountBackend ==
  /\ bc.at = "route"
  /\ counter[bc.target] = "select"
  /\ total' = [total EXCEPT ![bc.target] = @ + 1]
  /\ bc' = AtSelect
  /\ UNCHANGED <<schedVars, counter, flowVars>>

-----------------------------------------------------------------------------
(* The backends counter and its counters.                                  *)

\* UpdateCounters stops the counters of S one after the other, in the order
\* of a map, and waits for each.
StopAll(S) ==
  IF S = {} THEN bc' = AtSelect
  ELSE \E t \in S : bc' = [at |-> "stop", target |-> t, rest |-> S \ {t}]

\* Mutant: every target of the list gets a fresh counter.
TakeListAfresh ==
  /\ sched.at = "in"
  /\ bc.at = "select"
  /\ counter' = [t \in Targets |-> IF t \in sched.list THEN "select" ELSE counter[t]]
  /\ total' = [t \in Targets |-> IF t \in sched.list THEN 0 ELSE total[t]]
  /\ StopAll(Counters \ sched.list)
  /\ sched' = [at |-> "select", list |-> {}]
  /\ UNCHANGED <<known, reported, flowVars>>

\* Mutant: the counters of targets that are gone are not stopped.
TakeListOnlyAdds ==
  /\ sched.at = "in"
  /\ bc.at = "select"
  /\ LET new == sched.list \ Counters
     IN /\ counter' = [t \in Targets |-> IF t \in new THEN "select" ELSE counter[t]]
        /\ total' = [t \in Targets |-> IF t \in new THEN 0 ELSE total[t]]
  /\ bc' = AtSelect
  /\ sched' = [at |-> "select", list |-> {}]
  /\ UNCHANGED <<known, reported, flowVars>>

\* Mutant: it stops counters that it does not have.
TakeListStopsAny ==
  /\ sched.at = "in"
  /\ bc.at = "select"
  /\ LET new == sched.list \ Counters
     IN /\ counter' = [t \in Targets |-> IF t \in new THEN "select" ELSE counter[t]]
        /\ total' = [t \in Targets |-> IF t \in new THEN 0 ELSE total[t]]
  /\ StopAll(Targets \ sched.list)
  /\ sched' = [at |-> "select", list |-> {}]
  /\ UNCHANGED <<known, reported, flowVars>>

\* The backends counter takes the list; the scheduler goes on.
TakeList ==
  /\ sched.at = "in"
  /\ bc.at = "select"
  /\ LET new == sched.list \ Counters
     IN /\ counter' = [t \in Targets |-> IF t \in new THEN "select" ELSE counter[t]]
        /\ total' = [t \in Targets |-> IF t \in new THEN 0 ELSE total[t]]
  /\ StopAll(Counters \ sched.list)
  /\ sched' = [at |-> "select", list |-> {}]
  /\ UNCHANGED <<known, reported, flowVars>>

\* Counter.Stop meets the counter at its select, and it returns.
StopCounter ==
  /\ bc.at = "stop"
  /\ counter[bc.target] = "select"
  /\ counter' = [counter EXCEPT ![bc.target] = "none"]
  /\ total' = [total EXCEPT ![bc.target] = 0]
  /\ StopAll(bc.rest)
  /\ UNCHANGED <<schedVars, flowVars>>

\* The counter's ticker: it sends its totals, and waits for the scheduler.
Tick(t) ==
  /\ counter[t] = "select"
  /\ counter' = [counter EXCEPT ![t] = "out"]
  /\ UNCHANGED <<schedVars, bc, total, flowVars>>

-----------------------------------------------------------------------------
Next ==
  \/ \E T \in SUBSET Targets : HandleBackendsUpdate(T)
  \/ TakeList
  \/ StopCounter
  \/ CountBackend
  \/ \E t \in Targets :
       \/ HandleTraffic(t)
       \/ HandleBackendStatsChange(t)
       \/ CountServer(t)
       \/ Route(t)
       \/ Tick(t)

Spec == Init /\ [][Next]_vars

\* The goroutines run, tickers included, and a select takes a case that is
\* ready again and again sooner or later.  Nothing is assumed of discovery.
Fairness ==
  /\ SF_vars(TakeList)
  /\ SF_vars(StopCounter)
  /\ SF_vars(CountBackend)
  /\ \A t \in Targets :
       /\ SF_vars(HandleBackendStatsChange(t))
       /\ WF_vars(CountServer(t))
       /\ SF_vars(Route(t))
       /\ WF_vars(Tick(t))

FairSpec == Spec /\ Fairness

-----------------------------------------------------------------------------
(* Properties.                                                             *)

\* The circle is closed: the scheduler waits for the backends counter, which
\* waits for a counter, which waits for the scheduler.  Nothing ends it.
Gridlocked ==
  /\ sched.at = "in"
  /\ bc.at \in {"route", "stop"}
  /\ counter[bc.target] = "out"

\* Every backend the scheduler knows has a counter once the lists are
\* through, and no counter of a removed one goes on ticking.
CountersFollow ==
  sched.at = "select" /\ bc.at = "select" => Counters = known

\* The bytes shown for a backend are bytes of its present life: a report of
\* a counter from before its removal never reaches it after its return.
NoStaleTotals ==
  \A t \in Targets : reported[t] <= IF t \in Counters THEN total[t] ELSE 0

\* The scheduler gets back to its select, where elections wait for it: else
\* no discovery result is taken and no client served any more.
Refreshed == sched.at = "in" ~> sched.at = "select"

\* It does, unless the circle has closed.
RefreshedOrGridlocked == sched.at = "in" ~> sched.at = "select" \/ Gridlocked

\* What a target's counter has counted once the traffic already sent for it
\* is through.
Due(t) ==
  total[t] + toServer[t] + toBackends[t]
  + (IF bc.at = "route" /\ bc.target = t THEN 1 ELSE 0)

\* No traffic is lost, whatever the order in which its goroutines run: the
\* server's total grows to all that was sent, and a backend's shown bytes to
\* all that was sent for it, unless the backend is delisted or loses its
\* counter meanwhile, or the circle closes.
TrafficCounted ==
  \A n \in 1..MaxTraffic :
    /\ Sent >= n ~> server >= n
    /\ \A t \in Targets :
         t \in known \cap Counters /\ Due(t) >= n
           ~> reported[t] >= n \/ t \notin known \cap Counters \/ Gridlocked
=============================================================================
