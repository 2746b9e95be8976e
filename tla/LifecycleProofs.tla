-------------------------- MODULE LifecycleProofs --------------------------
(* Theorems about module Lifecycle, for any bound on forwarding goroutines. *)
EXTENDS Lifecycle, TLAPS

\* The order of a stop is made of the parts.
LEMMA OrderTyped == StopOrder \in Seq(Parts) /\ Len(StopOrder) <= 3
<1>1. "scheduler" \in Parts /\ "stats" \in Parts /\ "listener" \in Parts
  BY DEF Parts
<1>2. \A p, q, r \in Parts : <<p, q, r>> \in Seq(Parts) /\ Len(<<p, q, r>>) = 3
  OBVIOUS
<1>3. QED
  BY <1>1, <1>2 DEF StopOrder

\* What is left of it has its type.
LEMMA StopsTyped ==
  ASSUME todo \in Seq(Parts), Len(todo) <= 3, NEW part, Stops(part)
  PROVE  todo' \in Seq(Parts) /\ Len(todo') <= 3
BY DEF Stops

\* Traffic that the scheduler is about to hand over has room in the bound.
Room == toServer + toBackends + (IF sched = "traffic" THEN 1 ELSE 0) <= MaxForwards

TypeInv == TypeOK /\ Room

\* Every step of the goroutines and the manager keeps the types.
LEMMA TypeStep == TypeInv /\ [Next]_vars => TypeInv'
<1> SUFFICES ASSUME TypeOK, Room, [Next]_vars PROVE TypeOK' /\ Room'
  BY DEF TypeInv
<1> USE LifecycleAssumption
<1>1. CASE Discovering
  BY <1>1 DEF Discovering, FetchEnds, Discover, WaitEnds, DiscoveryStops, TypeOK, Room,
              server, stats, forwards, names
<1>2. CASE Scheduling
  <2>1. CASE UpdateCounters
    BY <2>1 DEF UpdateCounters, TypeOK, Room, server, forwards, names
  <2>2. CASE PushBackends
    BY <2>2 DEF PushBackends, TypeOK, Room, server, stats, forwards, names
  <2>3. CASE HandleOp
    BY <2>3 DEF HandleOp, TypeOK, Room, server, stats, forwards, names
  <2>4. CASE HandleTraffic
    BY <2>4 DEF HandleTraffic, TypeOK, Room, server, stats, names
  <2>5. CASE ReceiveStats
    BY <2>5 DEF ReceiveStats, TypeOK, Room, server, forwards, names
  <2>6. CASE HealthStops
    BY <2>6 DEF HealthStops, TypeOK, Room, server, stats, forwards, names
  <2>7. QED
    BY <1>2, <2>1, <2>2, <2>3, <2>4, <2>5, <2>6 DEF Scheduling
<1>3. CASE Counting
  <2>1. CASE CountServer
    BY <2>1 DEF CountServer, TypeOK, Room, server, stats, names
  <2>2. CASE CountBackends
    BY <2>2 DEF CountBackends, TypeOK, Room, server, names
  <2>3. CASE CounterTakes
    BY <2>3 DEF CounterTakes, TypeOK, Room, server, forwards, names
  <2>4. CASE CounterTicks
    BY <2>4 DEF CounterTicks, TypeOK, Room, server, forwards, names
  <2>5. QED
    BY <1>3, <2>1, <2>2, <2>3, <2>4 DEF Counting
<1>4. CASE StatsEnding
  BY <1>4 DEF StatsEnding, BackendsCounterEnds, HandlerStopsServerCounter,
              HandlerEnds, TypeOK, Room, server, forwards, names
<1>5. CASE Stopping
  <2>1. CASE StopRequested
    BY <2>1, OrderTyped DEF StopRequested, TypeOK, Room, stats, forwards, names
  <2>2. CASE StopScheduler
    BY <2>2, StopsTyped DEF StopScheduler, TypeOK, Room, stats, forwards, names
  <2>3. CASE StopStats
    BY <2>3, StopsTyped DEF StopStats, TypeOK, Room, forwards, names
  <2>4. CASE CloseListener
    <3>1. listening' \in BOOLEAN
      BY <2>4 DEF CloseListener
    <3>2. todo' \in Seq(Parts) /\ Len(todo') <= 3
      BY <2>4, StopsTyped DEF CloseListener, TypeOK
    <3>3. UNCHANGED <<stopping, once, sched, discovery, health, handler, serverCounter,
                      bc, counter, toServer, toBackends, store, replacement>>
      BY <2>4 DEF CloseListener, stats, forwards, names
    <3>4. QED
      BY <3>1, <3>2, <3>3 DEF TypeOK, Room
  <2>5. QED
    BY <1>5, <2>1, <2>2, <2>3, <2>4 DEF Stopping
<1>6. CASE Replace
  BY <1>6 DEF Replace, TypeOK, Room, server, stats, forwards
<1>7. CASE UNCHANGED vars
  BY <1>7 DEF vars, TypeOK, Room, server, stats, forwards, names
<1>8. QED
  BY <1>1, <1>2, <1>3, <1>4, <1>5, <1>6, <1>7 DEF Next, Going

\* Every goroutine of a server that is being stopped is where the code has a
\* place for it, for TCP and UDP.
THEOREM TypeCorrect == Spec => []TypeOK
<1>1. Init => TypeInv
  <2>1. <<>> \in Seq(Parts) /\ Len(<<>>) = 0
    OBVIOUS
  <2>2. Init => stopping \in BOOLEAN /\ listening \in BOOLEAN /\ once \in BOOLEAN
    BY DEF Init
  <2>3. Init => todo \in Seq(Parts) /\ Len(todo) <= 3
    BY <2>1 DEF Init
  <2>4. Init => /\ toServer \in 0..MaxForwards /\ toBackends \in 0..MaxForwards
                /\ Room
    BY LifecycleAssumption DEF Init, Room
  <2>5. QED
    BY <2>2, <2>3, <2>4 DEF Init, TypeInv, TypeOK
<1>2. TypeInv => TypeOK
  BY DEF TypeInv
<1>3. QED
  BY <1>1, <1>2, TypeStep, PTL DEF Spec

-----------------------------------------------------------------------------
\* The scheduler has taken its stop request.
Leaving == sched \in {"stopDiscovery", "stopHealth", "gone"}

\* The TCP server stops the scheduler before the stats handler, and the stats
\* handler lets the backends counter close its channels.
Ordered ==
  /\ todo \in {<<>>, <<"listener">>, <<"stats", "listener">>,
               <<"scheduler", "stats", "listener">>}
  /\ ~stopping => todo = <<>> /\ handler = "select"
  /\ todo = <<"scheduler", "stats", "listener">> => handler = "select"
  /\ stopping /\ todo # <<"scheduler", "stats", "listener">> => Leaving
  /\ bc \in {"stopping", "gone"} => handler = "gone"

\* What is left to stop loses its first part.
LEMMA Tails ==
  /\ Head(<<"scheduler", "stats", "listener">>) = "scheduler"
  /\ Head(<<"stats", "listener">>) = "stats"
  /\ Head(<<"listener">>) = "listener"
  /\ <<"stats", "listener">> # <<"scheduler", "stats", "listener">>
  /\ <<"listener">> # <<"scheduler", "stats", "listener">>
  /\ <<>> # <<"scheduler", "stats", "listener">>
  /\ Tail(<<"scheduler", "stats", "listener">>) = <<"stats", "listener">>
  /\ Tail(<<"stats", "listener">>) = <<"listener">>
  /\ Tail(<<"listener">>) = <<>>
OBVIOUS

\* Only the steps that stop a part can disturb the order.
LEMMA OrderedStep ==
  ASSUME ~Udp, TypeOK, Ordered, [Next]_vars
  PROVE  Ordered'
<1>1. CASE Discovering
  BY <1>1 DEF Discovering, FetchEnds, Discover, WaitEnds, DiscoveryStops, Ordered,
              Leaving, server, stats, forwards, names
<1>2. CASE Scheduling
  BY <1>2 DEF Scheduling, UpdateCounters, PushBackends, HandleOp, HandleTraffic,
              ReceiveStats, HealthStops, Ordered, Leaving, server, stats, forwards, names
<1>3. CASE Counting
  BY <1>3 DEF Counting, CountServer, CountBackends, CounterTakes, CounterTicks,
              Ordered, Leaving, server, stats, forwards, names
<1>4. CASE StatsEnding
  BY <1>4 DEF StatsEnding, BackendsCounterEnds, HandlerStopsServerCounter,
              HandlerEnds, Ordered, Leaving, server, forwards, names
<1>5. CASE Stopping
  <2>1. CASE StopRequested
    BY <2>1 DEF StopRequested, StopOrder, Ordered, Leaving, stats, forwards, names
  <2>2. CASE StopScheduler
    BY <2>2, Tails DEF StopScheduler, Stops, Ordered, Leaving, stats, forwards, names
  <2>3. CASE StopStats
    BY <2>3, Tails DEF StopStats, Stops, Ordered, Leaving, forwards, names
  <2>4. CASE CloseListener
    BY <2>4, Tails DEF CloseListener, Stops, Ordered, Leaving, stats, forwards, names
  <2>5. QED
    BY <1>5, <2>1, <2>2, <2>3, <2>4 DEF Stopping
<1>6. CASE Replace
  BY <1>6 DEF Replace, Ordered, Leaving, server, stats, forwards
<1>7. CASE UNCHANGED vars
  BY <1>7 DEF vars, Ordered, Leaving, server, stats, forwards, names
<1>8. QED
  BY <1>1, <1>2, <1>3, <1>4, <1>5, <1>6, <1>7 DEF Next, Going

\* The scheduler of a TCP server never sends to a part of the stats side that
\* has closed its channels: it has left its select before they are told to.
THEOREM TcpStopsInOrder ==
  ASSUME ~Udp
  PROVE  Spec => []NoSendAfterClose
<1>1. Init => Ordered
  BY DEF Init, Ordered, Leaving
<1>2. TypeOK /\ TypeOK' /\ Ordered /\ [Next]_vars => Ordered'
  BY OrderedStep
<1>3. TypeOK /\ Ordered => NoSendAfterClose
  BY DEF TypeOK, Ordered, Leaving, NoSendAfterClose, SchedulerPanics
<1>4. Spec => []TypeOK
  BY TypeCorrect
<1>5. QED
  BY <1>1, <1>2, <1>3, <1>4, PTL DEF Spec

-----------------------------------------------------------------------------
\* A server that stops late, or twice as slowly as its successor starts, never
\* removes its successor's stats handler from the store.
THEOREM NewerHandlerStays == Spec => []NewerHandlerKept
<1>1. Init => NewerHandlerKept
  BY DEF Init, NewerHandlerKept
<1>2. NewerHandlerKept /\ [Next]_vars => NewerHandlerKept'
  BY DEF NewerHandlerKept, Next, Going, vars, names,
         Discovering, FetchEnds, Discover, WaitEnds, DiscoveryStops,
         Scheduling, UpdateCounters, PushBackends, HandleOp, HandleTraffic,
         ReceiveStats, HealthStops,
         Counting, CountServer, CountBackends, CounterTakes, CounterTicks,
         StatsEnding, BackendsCounterEnds, HandlerStopsServerCounter, HandlerEnds,
         Stopping, StopRequested, StopScheduler, StopStats, CloseListener, Replace
<1>3. QED
  BY <1>1, <1>2, PTL DEF Spec
=============================================================================
