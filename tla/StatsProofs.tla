---------------------------- MODULE StatsProofs ----------------------------
(* Theorems about module Stats, for any targets and any traffic.           *)
EXTENDS Stats, TLAPS

\* The counters that the backends counter has still to stop.
Pending == IF bc.at = "stop" THEN {bc.target} \cup bc.rest ELSE {}

Types ==
  /\ known \subseteq Targets
  /\ reported \in [Targets -> Nat] /\ total \in [Targets -> Nat]
  /\ sched \in [at : {"select", "in"}, list : SUBSET Targets]
  /\ bc \in [at : {"select", "route", "stop"}, target : Targets \cup {None},
             rest : SUBSET Targets]
  /\ counter \in [Targets -> {"none", "select", "out"}]

\* The list on its way is that of the map.
ListIsKnown == sched.at = "in" => sched.list = known

\* The scheduler's map is one list ahead of the counters at most, and what has
\* still to be stopped has a counter until then.
OneListAhead ==
  /\ Pending \subseteq Counters
  /\ bc.at = "stop" => bc.target \in Targets /\ bc.target \notin bc.rest
  /\ sched.at = "select" => Counters \ Pending = known

\* A backend that is removed, or whose counter is about to be, has no bytes:
\* a target that returns before its old counter was stopped starts from zero.
NothingLeft ==
  /\ \A t \in Targets \ known : reported[t] = 0
  /\ \A t \in Pending : reported[t] = 0

Inv == Types /\ ListIsKnown /\ OneListAhead /\ NothingLeft /\ NoStaleTotals

LEMMA InvInit == Init => Inv
<1> SUFFICES ASSUME Init PROVE Inv
  OBVIOUS
<1>1. Types
  BY DEF Init, Types, AtSelect
<1>2. Counters = {} /\ Pending = {}
  BY DEF Init, Counters, Pending, AtSelect
<1>3. QED
  BY <1>1, <1>2 DEF Init, Inv, ListIsKnown, OneListAhead, NothingLeft, NoStaleTotals, AtSelect

\* Where StopAll leaves the backends counter.
LEMMA StopAllIs ==
  ASSUME NEW S \in SUBSET Targets, StopAll(S)
  PROVE  /\ bc' \in [at : {"select", "route", "stop"}, target : Targets \cup {None},
                     rest : SUBSET Targets]
         /\ Pending' = S
         /\ bc'.at = "stop" => bc'.target \in Targets /\ bc'.target \notin bc'.rest
<1>1. CASE S = {}
  BY <1>1 DEF StopAll, AtSelect, Pending
<1>2. CASE S # {}
  <2>1. PICK t \in S : bc' = [at |-> "stop", target |-> t, rest |-> S \ {t}]
    BY <1>2 DEF StopAll
  <2>2. QED
    BY <2>1 DEF Pending
<1>3. QED
  BY <1>1, <1>2

LEMMA InvStep == Inv /\ [Next]_vars => Inv'
<1> SUFFICES ASSUME Inv, [Next]_vars PROVE Inv'
  OBVIOUS
<1> USE DEF schedVars, flowVars
<1>0. /\ Types /\ ListIsKnown /\ OneListAhead /\ NothingLeft /\ NoStaleTotals
  BY DEF Inv
<1>1. ASSUME NEW T \in SUBSET Targets, HandleBackendsUpdate(T) PROVE Inv'
  <2>1. UNCHANGED <<Counters, Pending>>
    BY <1>1 DEF HandleBackendsUpdate, Counters, Pending
  <2>2. Types'
    BY <1>0, <1>1 DEF HandleBackendsUpdate, Types
  <2>3. \A t \in Targets : reported'[t] = IF t \in known \cap T THEN reported[t] ELSE 0
    BY <1>1 DEF HandleBackendsUpdate
  <2>4. NothingLeft' /\ NoStaleTotals'
    <3>1. known' = T /\ total' = total
      BY <1>1 DEF HandleBackendsUpdate
    <3>2. Pending \subseteq Targets
      BY <1>0 DEF OneListAhead, Counters
    <3>3. NothingLeft'
      BY <1>0, <2>1, <2>3, <3>1, <3>2 DEF NothingLeft
    <3>4. \A t \in Targets : total[t] \in Nat
      BY <1>0 DEF Types
    <3>5. NoStaleTotals'
      BY <1>0, <2>1, <2>3, <3>1, <3>4 DEF NoStaleTotals
    <3>6. QED
      BY <3>3, <3>5
  <2>5. ListIsKnown' /\ OneListAhead'
    BY <1>0, <1>1, <2>1 DEF HandleBackendsUpdate, ListIsKnown, OneListAhead
  <2>6. QED
    BY <2>2, <2>4, <2>5 DEF Inv
<1>2. CASE TakeList
  <2> DEFINE new == sched.list \ Counters
  <2>1. /\ sched.at = "in" /\ sched.list = known /\ known \subseteq Targets
        /\ bc.at = "select" /\ sched' = [at |-> "select", list |-> {}]
        /\ known' = known /\ reported' = reported
    BY <1>0, <1>2 DEF TakeList, ListIsKnown, Types
  <2>2. /\ counter' = [t \in Targets |-> IF t \in new THEN "select" ELSE counter[t]]
        /\ total' = [t \in Targets |-> IF t \in new THEN 0 ELSE total[t]]
    BY <1>2 DEF TakeList
  <2>3. Counters' = Counters \cup known
    BY <1>0, <2>1, <2>2 DEF Counters, Types
  <2>4. /\ bc' \in [at : {"select", "route", "stop"}, target : Targets \cup {None},
                    rest : SUBSET Targets]
        /\ Pending' = Counters \ known
        /\ bc'.at = "stop" => bc'.target \in Targets /\ bc'.target \notin bc'.rest
    <3>1. StopAll(Counters \ known) /\ Counters \ known \in SUBSET Targets
      BY <1>2, <2>1 DEF TakeList, Counters
    <3>2. QED
      BY <3>1, StopAllIs
  <2>5. Types'
    BY <1>0, <2>1, <2>2, <2>4 DEF Types
  <2>6. ListIsKnown' /\ OneListAhead'
    BY <2>1, <2>3, <2>4 DEF ListIsKnown, OneListAhead
  <2>7. NothingLeft'
    BY <1>0, <2>1, <2>4 DEF NothingLeft, Counters
  <2>8. NoStaleTotals'
    BY <1>0, <2>1, <2>2, <2>3 DEF NoStaleTotals, Types
  <2>9. QED
    BY <2>5, <2>6, <2>7, <2>8 DEF Inv
<1>3. CASE StopCounter
  <2>1. /\ bc.at = "stop" /\ bc.target \in Pending /\ bc.target \in Targets
        /\ bc.target \notin bc.rest /\ bc.rest = Pending \ {bc.target}
        /\ bc.rest \in SUBSET Targets
        /\ UNCHANGED <<known, reported, sched>>
    BY <1>0, <1>3 DEF StopCounter, OneListAhead, Pending, Types
  <2>2. /\ counter' = [counter EXCEPT ![bc.target] = "none"]
        /\ total' = [total EXCEPT ![bc.target] = 0]
    BY <1>3 DEF StopCounter
  <2>3. Counters' = Counters \ {bc.target}
    BY <1>0, <2>1, <2>2 DEF Counters, Types
  <2>4. /\ bc' \in [at : {"select", "route", "stop"}, target : Targets \cup {None},
                    rest : SUBSET Targets]
        /\ Pending' = bc.rest
        /\ bc'.at = "stop" => bc'.target \in Targets /\ bc'.target \notin bc'.rest
    BY <1>3, <2>1, StopAllIs DEF StopCounter
  <2>5. Types'
    BY <1>0, <2>1, <2>2, <2>4 DEF Types
  <2>6. ListIsKnown' /\ OneListAhead'
    BY <1>0, <2>1, <2>3, <2>4 DEF ListIsKnown, OneListAhead
  <2>7. NothingLeft'
    BY <1>0, <2>1, <2>4 DEF NothingLeft
  <2>8. NoStaleTotals'
    <3>1. reported[bc.target] = 0
      BY <1>0, <2>1 DEF NothingLeft
    <3>2. \A t \in Targets \ {bc.target} : total'[t] = total[t]
      BY <1>0, <2>2 DEF Types
    <3>3. QED
      BY <1>0, <2>1, <2>3, <3>1, <3>2 DEF NoStaleTotals
  <2>9. QED
    BY <2>5, <2>6, <2>7, <2>8 DEF Inv
<1>4. CASE CountBackend
  <2>1. /\ bc.at = "route" /\ bc' = AtSelect /\ UNCHANGED <<known, reported, sched, counter>>
        /\ total' = [total EXCEPT ![bc.target] = @ + 1]
    BY <1>4 DEF CountBackend
  <2>2. UNCHANGED <<Counters, Pending>>
    BY <2>1 DEF Counters, Pending, AtSelect
  <2>3. Types'
    <3>1. total' = [t \in Targets |-> IF t = bc.target THEN total[t] + 1 ELSE total[t]]
      BY <1>0, <2>1 DEF Types
    <3>2. total' \in [Targets -> Nat]
      BY <1>0, <3>1 DEF Types
    <3>3. QED
      BY <1>0, <2>1, <3>2 DEF Types, AtSelect
  <2>4. \A t \in Targets : total'[t] >= total[t] /\ total[t] \in Nat
    BY <1>0, <2>1 DEF Types
  <2>5. NoStaleTotals'
    BY <1>0, <2>1, <2>2, <2>3, <2>4 DEF NoStaleTotals, Types
  <2>6. ListIsKnown' /\ OneListAhead' /\ NothingLeft'
    BY <1>0, <2>1, <2>2 DEF ListIsKnown, OneListAhead, NothingLeft, AtSelect
  <2>7. QED
    BY <2>3, <2>5, <2>6 DEF Inv
<1>5. ASSUME NEW t \in Targets, HandleBackendStatsChange(t) PROVE Inv'
  <2>1. /\ sched.at = "select" /\ counter[t] = "out" /\ t \in Counters
        /\ reported' = IF t \in known THEN [reported EXCEPT ![t] = total[t]] ELSE reported
        /\ counter' = [counter EXCEPT ![t] = "select"]
        /\ UNCHANGED <<known, sched, bc, total>>
    BY <1>5 DEF HandleBackendStatsChange, Counters
  <2>2. UNCHANGED <<Counters, Pending>>
    BY <1>0, <2>1 DEF Counters, Pending, Types
  <2>3. Types'
    <3>1. CASE t \in known
      BY <1>0, <2>1, <3>1 DEF Types
    <3>2. CASE t \notin known
      BY <1>0, <2>1, <3>2 DEF Types
    <3>3. QED
      BY <3>1, <3>2
  <2>4. \A u \in Targets : reported'[u] = reported[u]
                           \/ (u = t /\ t \in known /\ reported'[t] = total[t])
    <3>1. CASE t \in known
      BY <1>0, <2>1, <3>1 DEF Types
    <3>2. CASE t \notin known
      BY <2>1, <3>2
    <3>3. QED
      BY <3>1, <3>2
  <2>5. known \cap Pending = {}
    BY <1>0, <2>1 DEF OneListAhead
  <2>6. NothingLeft'
    <3>1. Pending \subseteq Targets
      BY <1>0 DEF OneListAhead, Counters
    <3>2. QED
      BY <1>0, <2>1, <2>2, <2>4, <2>5, <3>1 DEF NothingLeft
  <2>7. NoStaleTotals'
    BY <1>0, <2>1, <2>2, <2>4 DEF NoStaleTotals, Types
  <2>8. ListIsKnown' /\ OneListAhead'
    BY <1>0, <2>1, <2>2 DEF ListIsKnown, OneListAhead
  <2>9. QED
    BY <2>3, <2>6, <2>7, <2>8 DEF Inv
<1>6. ASSUME NEW t \in Targets, Route(t) PROVE Inv'
  <2>1. /\ bc.at = "select"
        /\ bc' = [AtSelect EXCEPT !.at = "route", !.target = t] \/ bc' = bc
        /\ UNCHANGED <<known, reported, sched, counter, total>>
    BY <1>6 DEF Route
  <2>2. UNCHANGED <<Counters, Pending>> /\ bc'.at # "stop"
    BY <2>1 DEF Counters, Pending, AtSelect
  <2>3. Types'
    BY <1>0, <2>1 DEF Types, AtSelect
  <2>4. QED
    BY <1>0, <2>1, <2>2, <2>3 DEF Inv, ListIsKnown, OneListAhead, NothingLeft, NoStaleTotals
<1>7. ASSUME NEW t \in Targets, Tick(t) PROVE Inv'
  <2>1. /\ counter[t] = "select" /\ counter' = [counter EXCEPT ![t] = "out"]
        /\ UNCHANGED <<known, reported, sched, bc, total>>
    BY <1>7 DEF Tick
  <2>2. UNCHANGED <<Counters, Pending>>
    BY <1>0, <2>1 DEF Counters, Pending, Types
  <2>3. Types'
    BY <1>0, <2>1 DEF Types
  <2>4. QED
    BY <1>0, <2>1, <2>2, <2>3 DEF Inv, ListIsKnown, OneListAhead, NothingLeft, NoStaleTotals
<1>8. ASSUME UNCHANGED <<known, reported, sched, bc, counter, total>> PROVE Inv'
  <2>1. UNCHANGED <<Counters, Pending>>
    BY <1>8 DEF Counters, Pending
  <2>2. QED
    BY <1>0, <1>8, <2>1
       DEF Inv, Types, ListIsKnown, OneListAhead, NothingLeft, NoStaleTotals
<1>9. ASSUME NEW t \in Targets, HandleTraffic(t) \/ CountServer(t) PROVE Inv'
  BY <1>8, <1>9 DEF HandleTraffic, CountServer
<1>10. CASE UNCHANGED vars
  BY <1>8, <1>10 DEF vars
<1>11. QED
  BY <1>1, <1>2, <1>3, <1>4, <1>5, <1>6, <1>7, <1>9, <1>10 DEF Next

\* Once the lists are through, every backend of the scheduler's map has a
\* counter and no other target has one.
THEOREM CountersAreKnown == Spec => []CountersFollow
<1>1. Inv => CountersFollow
  BY DEF Inv, OneListAhead, CountersFollow, Pending
<1>2. QED
  BY <1>1, InvInit, InvStep, PTL DEF Spec

\* A backend is never shown bytes of an earlier life.
THEOREM TotalsArePresent == Spec => []NoStaleTotals
<1>1. Inv => NoStaleTotals
  BY DEF Inv
<1>2. QED
  BY <1>1, InvInit, InvStep, PTL DEF Spec
=============================================================================
