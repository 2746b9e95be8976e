-------------------------- MODULE SchedulerProofs --------------------------
(* Theorems about module Scheduler, for any targets, connections, listings *)
(* and width of uint.                                                      *)
EXTENDS Scheduler, FiniteSetTheorems, TLAPS

(***************************************************************************)
(* Type correctness.  It holds of Spec, where discovery may do anything,   *)
(* and so of QuietSpec, whose steps are steps of Spec.                     *)
(***************************************************************************)
LEMMA QuietNextIsNext == QuietNext => Next
BY DEF QuietNext, QuietUpdate, Next

LEMMA TypeInit == Init => TypeOK
<1> SUFFICES ASSUME Init PROVE TypeOK
  OBVIOUS
<1>1. backends \in [{} -> Backend]
  BY DEF Init
<1>2. QED
  BY <1>1 DEF Init, TypeOK, Phases

\* What an update makes of a target that is known or listed is a backend.
LEMMA MergedType ==
  ASSUME TypeOK, NEW l \in Listings, NEW t \in DOMAIN backends \cup DOMAIN l
  PROVE  Merged(l, t) \in Backend
<1>1. DOMAIN l \subseteq Targets /\ l \in [DOMAIN l -> Nat]
  BY ConstantsAssumption
<1>2. CASE t \in DOMAIN backends
  <2>1. backends[t] \in Backend
    BY <1>2 DEF TypeOK
  <2> DEFINE d == t \in DOMAIN l
             m == IF t \in DOMAIN l THEN l[t] ELSE backends[t].max
  <2>2. d \in BOOLEAN
    OBVIOUS
  <2>3. m \in Nat
    BY <1>1, <2>1 DEF Backend
  <2>4. Merged(l, t) = [backends[t] EXCEPT !.discovered = d, !.max = m]
    BY <1>2, Zenon DEF Merged
  <2> HIDE DEF d, m
  <2>5. QED
    BY <2>1, <2>2, <2>3, <2>4 DEF Backend
<1>3. CASE t \notin DOMAIN backends
  <2>1. t \in DOMAIN l /\ l[t] \in Nat
    BY <1>1, <1>3
  <2>2. 0 \in 0..UintMax /\ InitialLive \in BOOLEAN
    BY ConstantsAssumption
  <2>3. QED
    BY <1>3, <2>1, <2>2 DEF Merged, Backend
<1>4. QED
  BY <1>2, <1>3

\* AddActive keeps the map a map of backends, whatever it adds.
LEMMA AddActiveType ==
  ASSUME TypeOK, NEW t, NEW n \in Int, AddActive(t, n)
  PROVE  \E D \in SUBSET Targets : backends' \in [D -> Backend]
<1>1. PICK D \in SUBSET Targets : backends \in [D -> Backend]
  BY DEF TypeOK
<1>2. CASE t \in DOMAIN backends
  <2>1. UintMax \in Nat
    BY ConstantsAssumption
  <2>2. backends[t] \in Backend
    BY <1>1, <1>2
  <2>3. (backends[t].active + n) % (UintMax + 1) \in 0..UintMax
    BY <2>1, <2>2 DEF Backend
  <2>4. [backends[t] EXCEPT !.active = (@ + n) % (UintMax + 1)] \in Backend
    BY <2>2, <2>3 DEF Backend
  <2>5. backends' = [backends EXCEPT ![t] =
                       [backends[t] EXCEPT !.active = (@ + n) % (UintMax + 1)]]
    BY <1>2 DEF AddActive
  <2>6. QED
    BY <1>1, <2>4, <2>5
<1>3. CASE t \notin DOMAIN backends
  BY <1>1, <1>3 DEF AddActive
<1>4. QED
  BY <1>2, <1>3

LEMMA TypeStep == TypeOK /\ [Next]_vars => TypeOK'
<1> SUFFICES ASSUME TypeOK, [Next]_vars PROVE TypeOK'
  OBVIOUS
<1>1. ASSUME NEW l \in Listings, HandleBackendsUpdate(l) PROVE TypeOK'
  <2> DEFINE kept == {t \in DOMAIN backends \cup DOMAIN l :
                        Merged(l, t).discovered \/ Merged(l, t).active > 0}
  <2>1. kept \subseteq Targets
    BY ConstantsAssumption DEF TypeOK
  <2>2. backends' = [t \in kept |-> Merged(l, t)]
    BY <1>1 DEF HandleBackendsUpdate
  <2>3. backends' \in [kept -> Backend]
    BY <2>2, MergedType
  <2>4. QED
    BY <1>1, <2>1, <2>3 DEF TypeOK, HandleBackendsUpdate
<1>2. ASSUME NEW t \in Targets, NEW live \in BOOLEAN, HandleBackendLiveChange(t, live)
      PROVE  TypeOK'
  <2>1. PICK D \in SUBSET Targets : backends \in [D -> Backend]
    BY DEF TypeOK
  <2>2. [backends[t] EXCEPT !.live = live] \in Backend
    BY <1>2, <2>1 DEF HandleBackendLiveChange, Backend
  <2>3. backends' \in [D -> Backend]
    BY <1>2, <2>1, <2>2 DEF HandleBackendLiveChange
  <2>4. QED
    BY <1>2, <2>3 DEF TypeOK, HandleBackendLiveChange
<1>3. ASSUME NEW c \in Conns, TakeBackend(c) PROVE TypeOK'
  <2>1. Eligible \subseteq Targets
    BY DEF Eligible, TypeOK
  <2>2. PICK t \in Targets : taken' = [taken EXCEPT ![c] = t]
    BY <1>3, <2>1 DEF TakeBackend
  <2>3. QED
    BY <1>3, <2>2 DEF TypeOK, TakeBackend, Phases
<1>4. ASSUME NEW c \in Conns, TakeNothing(c) PROVE TypeOK'
  BY <1>4 DEF TypeOK, TakeNothing, Phases
<1>5. ASSUME NEW c \in Conns, IncrementConnection(c) PROVE TypeOK'
  <2>1. \E D \in SUBSET Targets : backends' \in [D -> Backend]
    BY <1>5, AddActiveType DEF IncrementConnection
  <2>2. QED
    BY <1>5, <2>1 DEF TypeOK, IncrementConnection, Phases
<1>6. ASSUME NEW c \in Conns, IncrementRefused(c) PROVE TypeOK'
  BY <1>6 DEF TypeOK, IncrementRefused, Phases
<1>7. ASSUME NEW c \in Conns, DecrementConnection(c) PROVE TypeOK'
  <2>1. \E D \in SUBSET Targets : backends' \in [D -> Backend]
    BY <1>7, AddActiveType DEF DecrementConnection
  <2>2. QED
    BY <1>7, <2>1 DEF TypeOK, DecrementConnection, Phases
<1>8. CASE UNCHANGED vars
  BY <1>8 DEF TypeOK, vars
<1>9. QED
  BY <1>1, <1>2, <1>3, <1>4, <1>5, <1>6, <1>7, <1>8 DEF Next, HealthStep, ConnStep

\* Whatever discovery and the connections do, the map is a map of backends
\* and a connection that dials or is open has a backend.
THEOREM TypeCorrect == Spec => []TypeOK
<1>1. QED
  BY TypeInit, TypeStep, PTL DEF Spec

LEMMA QuietTypeCorrect == QuietSpec => []TypeOK
<1>1. TypeOK /\ [QuietNext]_vars => TypeOK'
  BY TypeStep, QuietNextIsNext
<1>2. QED
  BY <1>1, TypeInit, PTL DEF QuietSpec

-----------------------------------------------------------------------------
(***************************************************************************)
(* Exact accounting.  ActiveExact is inductive together with TypeOK under  *)
(* QuietNext.  The one step that could break it is the return of a removed *)
(* backend: its counter restarts at 0, which is right only if no           *)
(* connection has kept it.                                                 *)
(***************************************************************************)
LEMMA OpenFinite ==
  ASSUME NEW t
  PROVE  /\ IsFiniteSet(Open(t))
         /\ Cardinality(Open(t)) \in Nat
         /\ Cardinality(Open(t)) <= Cardinality(Conns)
<1>1. IsFiniteSet(Conns) /\ Open(t) \in SUBSET Conns
  BY ConstantsAssumption DEF Open
<1>2. IsFiniteSet(Open(t)) /\ Cardinality(Open(t)) <= Cardinality(Conns)
  BY <1>1, FS_Subset
<1>3. QED
  BY <1>2, FS_CardinalityType

\* A connection that becomes open is one more open connection of its backend.
LEMMA OpenAdds ==
  ASSUME TypeOK, NEW c \in Conns, IncrementConnection(c), NEW t
  PROVE  /\ t = taken[c] => /\ Cardinality(Open(t)') = Cardinality(Open(t)) + 1
                            /\ Cardinality(Open(t)) < Cardinality(Conns)
         /\ t # taken[c] => Open(t)' = Open(t)
<1>1. CASE t = taken[c]
  <2>1. Open(t)' = Open(t) \cup {c} /\ c \notin Open(t)
    BY <1>1 DEF TypeOK, IncrementConnection, Open
  <2>2. Cardinality(Open(t)') = Cardinality(Open(t)) + 1
    BY <2>1, OpenFinite, FS_AddElement
  <2>3. IsFiniteSet(Conns) /\ Open(t)' \in SUBSET Conns
    BY ConstantsAssumption DEF Open
  <2>4. Cardinality(Open(t)') <= Cardinality(Conns) /\ Cardinality(Conns) \in Nat
    BY <2>3, FS_Subset, FS_CardinalityType
  <2>5. QED
    BY <1>1, <2>2, <2>4, OpenFinite
<1>2. CASE t # taken[c]
  BY <1>2 DEF TypeOK, IncrementConnection, Open
<1>3. QED
  BY <1>1, <1>2

\* A connection that ends is one less.
LEMMA OpenRemoves ==
  ASSUME TypeOK, NEW c \in Conns, DecrementConnection(c), NEW t
  PROVE  /\ t = taken[c] => /\ Cardinality(Open(t)') = Cardinality(Open(t)) - 1
                            /\ Cardinality(Open(t)) > 0
         /\ t # taken[c] => Open(t)' = Open(t)
<1>1. CASE t = taken[c]
  <2>1. Open(t)' = Open(t) \ {c} /\ c \in Open(t)
    BY <1>1 DEF TypeOK, DecrementConnection, Open
  <2>2. Cardinality(Open(t)') = Cardinality(Open(t)) - 1
    BY <2>1, OpenFinite, FS_RemoveElement
  <2>3. Cardinality(Open(t)) # 0
    BY <2>1, OpenFinite, FS_EmptySet
  <2>4. QED
    BY <1>1, <2>2, <2>3, OpenFinite
<1>2. CASE t # taken[c]
  BY <1>2 DEF TypeOK, DecrementConnection, Open
<1>3. QED
  BY <1>1, <1>2

\* AddActive keeps everything of the map but one counter.
LEMMA AddActiveKeeps ==
  ASSUME TypeOK, NEW t, NEW n \in Int, AddActive(t, n)
  PROVE  /\ DOMAIN backends' = DOMAIN backends
         /\ Listed' = Listed
         /\ \A u \in DOMAIN backends :
              backends'[u].active = IF u = t THEN (backends[u].active + n) % (UintMax + 1)
                                             ELSE backends[u].active
<1>1. \A u \in DOMAIN backends : backends[u] \in Backend
  BY DEF TypeOK
<1>2. DOMAIN backends' = DOMAIN backends
  BY DEF AddActive
<1>3. \A u \in DOMAIN backends :
        /\ backends'[u].discovered = backends[u].discovered
        /\ backends'[u].active = IF u = t THEN (backends[u].active + n) % (UintMax + 1)
                                          ELSE backends[u].active
  BY <1>1 DEF AddActive, Backend
<1>4. Listed' = Listed
  BY <1>2, <1>3 DEF Listed
<1>5. QED
  BY <1>2, <1>3, <1>4

LEMMA ExactInit == Init => ActiveExact
BY DEF Init, ActiveExact

LEMMA ExactStep == TypeOK /\ ActiveExact /\ [QuietNext]_vars => ActiveExact'
<1> SUFFICES ASSUME TypeOK, ActiveExact, [QuietNext]_vars PROVE ActiveExact'
  OBVIOUS
<1> USE DEF ActiveExact
<1>1. ASSUME NEW l \in Listings, QuietReturn(l), HandleBackendsUpdate(l)
      PROVE  ActiveExact'
  <2>1. SUFFICES ASSUME NEW t \in DOMAIN backends'
                 PROVE  backends'[t].active = Cardinality(Open(t)')
    OBVIOUS
  <2>2. Open(t)' = Open(t)
    BY <1>1 DEF HandleBackendsUpdate, Open
  <2>3. t \in DOMAIN backends \cup DOMAIN l /\ backends'[t] = Merged(l, t)
    BY <1>1, <2>1 DEF HandleBackendsUpdate
  <2>4. CASE t \in DOMAIN backends
    <3>1. backends[t] \in Backend
      BY <2>4 DEF TypeOK
    <3>2. Merged(l, t).active = backends[t].active
      BY <2>4, <3>1 DEF Merged, Backend
    <3>3. QED
      BY <2>2, <2>3, <2>4, <3>2
  <2>5. CASE t \notin DOMAIN backends
    <3>1. Merged(l, t).active = 0
      BY <2>5 DEF Merged
    <3>2. Holders(t) = {}
      BY <1>1, <2>3, <2>5 DEF QuietReturn
    <3>3. Open(t) = {}
      BY <3>2 DEF Holders, Open
    <3>4. QED
      BY <2>2, <2>3, <3>1, <3>3, FS_EmptySet
  <2>6. QED
    BY <2>4, <2>5
<1>2. ASSUME NEW t \in Targets, NEW live \in BOOLEAN, HandleBackendLiveChange(t, live)
      PROVE  ActiveExact'
  <2>1. \A u \in DOMAIN backends : backends[u] \in Backend
    BY DEF TypeOK
  <2>2. \A u : Open(u)' = Open(u)
    BY <1>2 DEF HandleBackendLiveChange, Open
  <2>3. /\ DOMAIN backends' = DOMAIN backends
        /\ \A u \in DOMAIN backends : backends'[u].active = backends[u].active
    BY <1>2, <2>1 DEF HandleBackendLiveChange, Backend
  <2>4. QED
    BY <2>2, <2>3
<1>3. ASSUME NEW c \in Conns, \/ TakeBackend(c)
                             \/ TakeNothing(c)
                             \/ IncrementRefused(c)
      PROVE  ActiveExact'
  <2>1. \A u : Open(u)' = Open(u)
    BY <1>3 DEF TakeBackend, TakeNothing, MayElect, IncrementRefused, Open, TypeOK
  <2>2. backends' = backends
    BY <1>3 DEF TakeBackend, TakeNothing, IncrementRefused
  <2>3. QED
    BY <2>1, <2>2
<1>4. ASSUME NEW c \in Conns, IncrementConnection(c) PROVE ActiveExact'
  <2>1. SUFFICES ASSUME NEW t \in DOMAIN backends'
                 PROVE  backends'[t].active = Cardinality(Open(t)')
    OBVIOUS
  <2>2. AddActive(taken[c], 1)
    BY <1>4 DEF IncrementConnection
  <2>3. t \in DOMAIN backends
    BY <2>1, <2>2, AddActiveKeeps
  <2>4. CASE t = taken[c]
    <3>1. /\ Cardinality(Open(t)') = Cardinality(Open(t)) + 1
          /\ Cardinality(Open(t)) < Cardinality(Conns)
      BY <1>4, <2>4, OpenAdds
    <3>2. backends'[t].active = (Cardinality(Open(t)) + 1) % (UintMax + 1)
      BY <2>2, <2>3, <2>4, AddActiveKeeps
    <3>3. /\ UintMax \in Nat /\ Cardinality(Conns) \in Nat
          /\ Cardinality(Conns) <= UintMax /\ Cardinality(Open(t)) \in Nat
      BY ConstantsAssumption, OpenFinite, FS_CardinalityType
    <3>4. QED
      BY <3>1, <3>2, <3>3
  <2>5. CASE t # taken[c]
    BY <1>4, <2>2, <2>3, <2>5, OpenAdds, AddActiveKeeps
  <2>6. QED
    BY <2>4, <2>5
<1>5. ASSUME NEW c \in Conns, DecrementConnection(c) PROVE ActiveExact'
  <2>1. SUFFICES ASSUME NEW t \in DOMAIN backends'
                 PROVE  backends'[t].active = Cardinality(Open(t)')
    OBVIOUS
  <2>2. AddActive(taken[c], -1)
    BY <1>5 DEF DecrementConnection
  <2>3. t \in DOMAIN backends
    BY <2>1, <2>2, AddActiveKeeps
  <2>4. CASE t = taken[c]
    <3>1. /\ Cardinality(Open(t)') = Cardinality(Open(t)) - 1
          /\ Cardinality(Open(t)) > 0
      BY <1>5, <2>4, OpenRemoves
    <3>2. backends'[t].active = (Cardinality(Open(t)) + (-1)) % (UintMax + 1)
      BY <2>2, <2>3, <2>4, AddActiveKeeps
    <3>3. /\ UintMax \in Nat /\ Cardinality(Conns) \in Nat
          /\ Cardinality(Conns) <= UintMax /\ Cardinality(Open(t)) \in Nat
          /\ Cardinality(Open(t)) <= Cardinality(Conns)
      BY ConstantsAssumption, OpenFinite, FS_CardinalityType
    <3>4. QED
      BY <3>1, <3>2, <3>3
  <2>5. CASE t # taken[c]
    BY <1>5, <2>2, <2>3, <2>5, OpenRemoves, AddActiveKeeps
  <2>6. QED
    BY <2>4, <2>5
<1>6. CASE UNCHANGED vars
  BY <1>6 DEF vars, Open
<1>7. QED
  BY <1>1, <1>2, <1>3, <1>4, <1>5, <1>6
     DEF QuietNext, QuietUpdate, HealthStep, ConnStep

\* ActiveConnections counts the open connections of each known backend.
THEOREM ExactAccounting == QuietSpec => []ActiveExact
<1>1. QED
  BY ExactInit, ExactStep, QuietTypeCorrect, PTL DEF QuietSpec

-----------------------------------------------------------------------------
(***************************************************************************)
(* Draining.  With exact counters, an update removes the idle backends it  *)
(* does not list and no others, which is what BackendPool says without     *)
(* counters.                                                               *)
(***************************************************************************)
LEMMA ActiveMeansOpen ==
  ASSUME TypeOK, ActiveExact, NEW t \in DOMAIN backends
  PROVE  backends[t].active > 0 <=> Open(t) # {}
<1>1. backends[t].active = Cardinality(Open(t)) /\ IsFiniteSet(Open(t))
  BY OpenFinite DEF ActiveExact
<1>2. Cardinality(Open(t)) \in Nat /\ (Cardinality(Open(t)) = 0 <=> Open(t) = {})
  BY <1>1, OpenFinite, FS_EmptySet
<1>3. QED
  BY <1>1, <1>2

\* An update, seen as BackendPool sees it.
LEMMA UpdateDrains ==
  ASSUME TypeOK, ActiveExact, NEW l \in Listings, HandleBackendsUpdate(l)
  PROVE  /\ DOMAIN backends' = DOMAIN l \cup {t \in DOMAIN backends : Open(t) # {}}
         /\ Listed' = DOMAIN l
<1> DEFINE known == DOMAIN backends \cup DOMAIN l
           kept  == {t \in known : Merged(l, t).discovered \/ Merged(l, t).active > 0}
<1>1. backends' = [t \in kept |-> Merged(l, t)]
  BY DEF HandleBackendsUpdate
<1>2. ASSUME NEW t \in known
      PROVE  /\ Merged(l, t).discovered <=> t \in DOMAIN l
             /\ t \in DOMAIN backends => Merged(l, t).active = backends[t].active
  <2>1. CASE t \in DOMAIN backends
    <3>1. backends[t] \in Backend
      BY <2>1 DEF TypeOK
    <3>2. QED
      BY <2>1, <3>1 DEF Merged, Backend
  <2>2. CASE t \notin DOMAIN backends
    BY <1>2, <2>2 DEF Merged
  <2>3. QED
    BY <2>1, <2>2
<1>3. kept = DOMAIN l \cup {t \in DOMAIN backends : Open(t) # {}}
  BY <1>2, ActiveMeansOpen
<1>4. Listed' = DOMAIN l
  BY <1>1, <1>2, <1>3 DEF Listed
<1>5. QED
  BY <1>1, <1>3, <1>4

\* A healthcheck result touches neither the map's domain nor the listed set.
LEMMA LiveChangeKeeps ==
  ASSUME TypeOK, NEW t \in Targets, NEW live \in BOOLEAN, HandleBackendLiveChange(t, live)
  PROVE  DOMAIN backends' = DOMAIN backends /\ Listed' = Listed
<1>1. \A u \in DOMAIN backends : backends[u] \in Backend
  BY DEF TypeOK
<1>2. DOMAIN backends' = DOMAIN backends
  BY DEF HandleBackendLiveChange
<1>3. \A u \in DOMAIN backends : backends'[u].discovered = backends[u].discovered
  BY <1>1 DEF HandleBackendLiveChange, Backend
<1>4. QED
  BY <1>2, <1>3 DEF Listed

\* Only an update changes which backends are known and which are listed.
LEMMA ConnStepKeeps ==
  ASSUME TypeOK, NEW c \in Conns, ConnStep(c)
  PROVE  DOMAIN backends' = DOMAIN backends /\ Listed' = Listed
<1>1. CASE TakeBackend(c) \/ TakeNothing(c) \/ IncrementRefused(c)
  BY <1>1 DEF TakeBackend, TakeNothing, IncrementRefused, Listed
<1>2. CASE IncrementConnection(c)
  BY <1>2, AddActiveKeeps DEF IncrementConnection
<1>3. CASE DecrementConnection(c)
  BY <1>3, AddActiveKeeps DEF DecrementConnection
<1>4. QED
  BY <1>1, <1>2, <1>3 DEF ConnStep

LEMMA DrainStep ==
  TypeOK /\ ActiveExact /\ [QuietNext]_vars => [RemovesOnlyIdle /\ KeepsOnlyBusy]_vars
<1> SUFFICES ASSUME TypeOK, ActiveExact, QuietNext
             PROVE  RemovesOnlyIdle /\ KeepsOnlyBusy
  OBVIOUS
<1> USE DEF RemovesOnlyIdle, KeepsOnlyBusy
<1>1. ASSUME NEW l \in Listings, HandleBackendsUpdate(l)
      PROVE  RemovesOnlyIdle /\ KeepsOnlyBusy
  BY <1>1, UpdateDrains
<1>2. ASSUME NEW t \in Targets, NEW live \in BOOLEAN, HandleBackendLiveChange(t, live)
      PROVE  RemovesOnlyIdle /\ KeepsOnlyBusy
  BY <1>2, LiveChangeKeeps
<1>3. ASSUME NEW c \in Conns, ConnStep(c)
      PROVE  RemovesOnlyIdle /\ KeepsOnlyBusy
  BY <1>3, ConnStepKeeps
<1>4. QED
  BY <1>1, <1>2, <1>3 DEF QuietNext, QuietUpdate, HealthStep

\* No update removes a backend that a connection is proxying to.
THEOREM RemovalSafe == QuietSpec => RemovedOnlyWhenIdle
<1>1. [RemovesOnlyIdle /\ KeepsOnlyBusy]_vars => [RemovesOnlyIdle]_vars
  OBVIOUS
<1>2. QED
  BY <1>1, DrainStep, QuietTypeCorrect, ExactAccounting, PTL
     DEF QuietSpec, RemovedOnlyWhenIdle

\* No update keeps a backend it does not list, unless a connection is.
THEOREM RemovalComplete == QuietSpec => UndiscoveredIsBusy
<1>1. [RemovesOnlyIdle /\ KeepsOnlyBusy]_vars => [KeepsOnlyBusy]_vars
  OBVIOUS
<1>2. QED
  BY <1>1, DrainStep, QuietTypeCorrect, ExactAccounting, PTL
     DEF QuietSpec, UndiscoveredIsBusy

LEMMA PoolInit == Init => Pool!Init
<1> SUFFICES ASSUME Init PROVE Pool!Init
  OBVIOUS
<1>1. DOMAIN backends = {} /\ Listed = {}
  BY DEF Init, Listed
<1>2. QED
  BY <1>1 DEF Init, Pool!Init

LEMMA PoolStep == TypeOK /\ ActiveExact /\ [QuietNext]_vars => [Pool!Next]_(Pool!vars)
<1> SUFFICES ASSUME TypeOK, ActiveExact, [QuietNext]_vars
             PROVE  Pool!Next \/ UNCHANGED Pool!vars
  OBVIOUS
<1> USE DEF Pool!Next, Pool!vars
<1>1. ASSUME NEW l \in Listings, HandleBackendsUpdate(l)
      PROVE  Pool!Next
  <2>1. \A t : Pool!Open(t) = Open(t)
    BY DEF Pool!Open, Open
  <2>2. Pool!Update(DOMAIN l)
    BY <1>1, <2>1, UpdateDrains DEF Pool!Update, HandleBackendsUpdate
  <2>3. DOMAIN l \in SUBSET Targets
    BY ConstantsAssumption
  <2>4. QED
    BY <2>2, <2>3
<1>2. ASSUME NEW t \in Targets, NEW live \in BOOLEAN, HandleBackendLiveChange(t, live)
      PROVE  UNCHANGED Pool!vars
  BY <1>2, LiveChangeKeeps DEF HandleBackendLiveChange
<1>3. ASSUME NEW c \in Conns, ConnStep(c)
      PROVE  Pool!Next
  <2>1. DOMAIN backends' = DOMAIN backends /\ Listed' = Listed
    BY <1>3, ConnStepKeeps
  <2>2. CASE TakeBackend(c)
    <3>1. PICK t \in Eligible : taken' = [taken EXCEPT ![c] = t]
      BY <2>2 DEF TakeBackend
    <3>2. t \in Listed /\ t \in Targets
      BY <3>1 DEF Eligible, Listed, TypeOK
    <3>3. Pool!Take(c, t)
      BY <2>1, <2>2, <3>1, <3>2 DEF TakeBackend, MayElect, Pool!Take
    <3>4. QED
      BY <3>2, <3>3
  <2>3. CASE TakeNothing(c) \/ IncrementRefused(c) \/ DecrementConnection(c)
    <3>1. Pool!Ended(c)
      BY <2>1, <2>3 DEF TakeNothing, MayElect, IncrementRefused, DecrementConnection, Pool!Ended
    <3>2. QED
      BY <3>1
  <2>4. CASE IncrementConnection(c)
    <3>1. Pool!Opened(c)
      BY <2>1, <2>4 DEF IncrementConnection, Pool!Opened
    <3>2. QED
      BY <3>1
  <2>5. QED
    BY <1>3, <2>2, <2>3, <2>4 DEF ConnStep
<1>4. CASE UNCHANGED vars
  BY <1>4 DEF vars, Listed
<1>5. QED
  BY <1>1, <1>2, <1>3, <1>4 DEF QuietNext, QuietUpdate, HealthStep

\* The scheduler implements draining without counters.
THEOREM ImplementsPool == QuietSpec => PoolSpec
<1>1. QED
  BY PoolInit, PoolStep, QuietTypeCorrect, ExactAccounting, PTL
     DEF QuietSpec, PoolSpec, Pool!Spec

-----------------------------------------------------------------------------
(***************************************************************************)
(* Static discovery.  When the listed targets never change, no backend is  *)
(* ever removed, so every return is quiet and Spec is QuietSpec.           *)
(***************************************************************************)
StaticInv ==
  \/ /\ DOMAIN backends = {}
     /\ \A c \in Conns : phase[c] \in {"new", "done"}
  \/ /\ \A l \in Listings : DOMAIN backends = DOMAIN l
     /\ \A t \in DOMAIN backends : backends[t].discovered

LEMMA StaticStep ==
  FixedTargets /\ TypeOK /\ StaticInv /\ [Next]_vars => StaticInv' /\ [QuietNext]_vars
<1> SUFFICES ASSUME FixedTargets, TypeOK, StaticInv, [Next]_vars
             PROVE  StaticInv' /\ [QuietNext]_vars
  OBVIOUS
<1>1. ASSUME NEW l \in Listings, HandleBackendsUpdate(l)
      PROVE  StaticInv' /\ [QuietNext]_vars
  <2> DEFINE known == DOMAIN backends \cup DOMAIN l
             kept  == {t \in known : Merged(l, t).discovered \/ Merged(l, t).active > 0}
  <2>1. QuietReturn(l)
    BY DEF StaticInv, QuietReturn, Holders
  <2>2. known = DOMAIN l
    BY DEF StaticInv
  <2>3. ASSUME NEW t \in known PROVE Merged(l, t).discovered
    <3>1. CASE t \in DOMAIN backends
      <4>1. backends[t] \in Backend
        BY <3>1 DEF TypeOK
      <4>2. QED
        BY <2>2, <2>3, <3>1, <4>1 DEF Merged, Backend
    <3>2. CASE t \notin DOMAIN backends
      BY <3>2 DEF Merged
    <3>3. QED
      BY <3>1, <3>2
  <2>4. kept = DOMAIN l
    BY <2>2, <2>3
  <2>5. backends' = [t \in kept |-> Merged(l, t)]
    BY <1>1 DEF HandleBackendsUpdate
  <2>6. DOMAIN backends' = DOMAIN l /\ \A t \in DOMAIN backends' : backends'[t].discovered
    BY <2>2, <2>3, <2>4, <2>5
  <2>7. \A k \in Listings : DOMAIN backends' = DOMAIN k
    BY <2>6 DEF FixedTargets
  <2>8. StaticInv'
    BY <2>6, <2>7 DEF StaticInv
  <2>9. QED
    BY <1>1, <2>1, <2>8 DEF QuietNext, QuietUpdate
<1>2. ASSUME NEW t \in Targets, NEW live \in BOOLEAN, HandleBackendLiveChange(t, live)
      PROVE  StaticInv' /\ [QuietNext]_vars
  <2>1. DOMAIN backends' = DOMAIN backends /\ Listed' = Listed
    BY <1>2, LiveChangeKeeps
  <2>2. StaticInv'
    BY <1>2, <2>1 DEF StaticInv, Listed, HandleBackendLiveChange
  <2>3. QED
    BY <1>2, <2>2 DEF QuietNext, HealthStep
<1>3. ASSUME NEW c \in Conns, ConnStep(c)
      PROVE  StaticInv' /\ [QuietNext]_vars
  <2>1. DOMAIN backends' = DOMAIN backends /\ Listed' = Listed
    BY <1>3, ConnStepKeeps
  <2>2. CASE DOMAIN backends = {} /\ \A d \in Conns : phase[d] \in {"new", "done"}
    <3>1. TakeNothing(c)
      BY <1>3, <2>2 DEF ConnStep, TakeBackend, IncrementConnection, IncrementRefused,
                        DecrementConnection, Eligible
    <3>2. phase' = [phase EXCEPT ![c] = "done"]
      BY <3>1 DEF TakeNothing
    <3>3. QED
      BY <1>3, <2>1, <2>2, <3>2 DEF TypeOK, StaticInv, QuietNext
  <2>3. CASE /\ \A l \in Listings : DOMAIN backends = DOMAIN l
             /\ \A t \in DOMAIN backends : backends[t].discovered
    BY <1>3, <2>1, <2>3 DEF StaticInv, Listed, QuietNext
  <2>4. QED
    BY <2>2, <2>3 DEF StaticInv
<1>4. CASE UNCHANGED vars
  BY <1>4 DEF vars, StaticInv
<1>5. QED
  BY <1>1, <1>2, <1>3, <1>4 DEF Next, HealthStep

LEMMA StaticIsQuiet ==
  ASSUME FixedTargets
  PROVE  Spec => QuietSpec
<1>1. Init => StaticInv
  BY DEF Init, StaticInv
<1>2. TypeOK /\ StaticInv /\ [Next]_vars => StaticInv' /\ [QuietNext]_vars
  BY FixedTargets, StaticStep
<1>3. QED
  BY <1>1, <1>2, TypeCorrect, PTL DEF Spec, QuietSpec

\* Under static discovery the accounting is exact, with no assumption on
\* when backends return.
THEOREM StaticExactAccounting ==
  ASSUME FixedTargets
  PROVE  Spec => []ActiveExact
BY FixedTargets, StaticIsQuiet, ExactAccounting, PTL

-----------------------------------------------------------------------------
(***************************************************************************)
(* The limit.  max_connections is compared at the election and the counter *)
(* moves after the dial.  With one dial at a time and limits that do not   *)
(* change, a connection that is dialing t has room at t (RoomWhileDialing),*)
(* so its increment stays within the limit.                                *)
(***************************************************************************)
OneDial == \A c, d \in Conns : phase[c] = "dialing" /\ phase[d] = "dialing" => c = d

MaxIsListed ==
  \A t \in DOMAIN backends :
    \E l \in Listings : t \in DOMAIN l /\ backends[t].max = l[t]

RoomWhileDialing ==
  \A t \in DOMAIN backends : backends[t].max > 0 =>
    /\ backends[t].active <= backends[t].max
    /\ \A c \in Conns : phase[c] = "dialing" /\ taken[c] = t
                          => backends[t].active < backends[t].max

LimitInv == OneDial /\ MaxIsListed /\ RoomWhileDialing

LEMMA AddActiveKeepsMax ==
  ASSUME TypeOK, NEW t, NEW n \in Int, AddActive(t, n)
  PROVE  \A u \in DOMAIN backends : backends'[u].max = backends[u].max
<1>1. \A u \in DOMAIN backends : backends[u] \in Backend
  BY DEF TypeOK
<1>2. QED
  BY <1>1 DEF AddActive, Backend

LEMMA LimitStep ==
  ASSUME FixedLimits, OneAtATime
  PROVE  TypeOK /\ ActiveExact /\ LimitInv /\ [QuietNext]_vars => LimitInv'
<1> SUFFICES ASSUME TypeOK, ActiveExact, LimitInv, [QuietNext]_vars PROVE LimitInv'
  OBVIOUS
<1> USE DEF LimitInv
<1>a. \A u \in DOMAIN backends : backends[u] \in Backend
  BY DEF TypeOK
<1>1. ASSUME NEW l \in Listings, QuietReturn(l), HandleBackendsUpdate(l)
      PROVE  LimitInv'
  <2>1. phase' = phase /\ taken' = taken
    BY <1>1 DEF HandleBackendsUpdate
  <2>2. l \in [DOMAIN l -> Nat]
    BY ConstantsAssumption
  <2>3. ASSUME NEW t \in DOMAIN backends'
        PROVE  \/ /\ t \in DOMAIN backends
                  /\ backends'[t].max = backends[t].max
                  /\ backends'[t].active = backends[t].active
               \/ /\ t \in DOMAIN l \ DOMAIN backends
                  /\ backends'[t].max = l[t]
                  /\ backends'[t].active = 0
    <3>1. t \in DOMAIN backends \cup DOMAIN l /\ backends'[t] = Merged(l, t)
      BY <1>1, <2>3 DEF HandleBackendsUpdate
    <3>2. CASE t \in DOMAIN backends
      <4>1. t \in DOMAIN l => l[t] = backends[t].max
        BY <3>2, FixedLimits DEF FixedLimits, MaxIsListed
      <4>2. QED
        BY <1>a, <3>1, <3>2, <4>1 DEF Merged, Backend
    <3>3. CASE t \notin DOMAIN backends
      BY <3>1, <3>3 DEF Merged
    <3>4. QED
      BY <3>2, <3>3
  <2>4. MaxIsListed'
    BY <2>3 DEF MaxIsListed
  <2>5. RoomWhileDialing'
    <3>1. SUFFICES ASSUME NEW t \in DOMAIN backends', backends'[t].max > 0
                   PROVE  /\ backends'[t].active <= backends'[t].max
                          /\ \A c \in Conns : phase[c] = "dialing" /\ taken[c] = t
                                => backends'[t].active < backends'[t].max
      BY <2>1 DEF RoomWhileDialing
    <3>2. CASE t \in DOMAIN backends
      BY <2>3, <3>1, <3>2 DEF RoomWhileDialing
    <3>3. CASE t \notin DOMAIN backends
      BY <2>2, <2>3, <3>1, <3>3
    <3>4. QED
      BY <3>2, <3>3
  <2>6. QED
    BY <2>1, <2>4, <2>5 DEF OneDial
<1>2. ASSUME NEW t \in Targets, NEW live \in BOOLEAN, HandleBackendLiveChange(t, live)
      PROVE  LimitInv'
  <2>1. /\ DOMAIN backends' = DOMAIN backends
        /\ \A u \in DOMAIN backends : /\ backends'[u].max = backends[u].max
                                      /\ backends'[u].active = backends[u].active
    BY <1>2, <1>a DEF HandleBackendLiveChange, Backend
  <2>2. phase' = phase /\ taken' = taken
    BY <1>2 DEF HandleBackendLiveChange
  <2>3. QED
    BY <2>1, <2>2 DEF OneDial, MaxIsListed, RoomWhileDialing
<1>3. ASSUME NEW c \in Conns, TakeBackend(c)
      PROVE  LimitInv'
  <2>1. PICK t \in Eligible : taken' = [taken EXCEPT ![c] = t]
    BY <1>3 DEF TakeBackend
  <2>2. /\ backends' = backends
        /\ phase' = [phase EXCEPT ![c] = "dialing"]
        /\ \A d \in Conns : phase[d] # "dialing"
    BY <1>3, OneAtATime DEF TakeBackend, MayElect
  <2>3. OneDial'
    BY <2>2 DEF OneDial, TypeOK
  <2>4. \A d \in Conns : phase'[d] = "dialing" => d = c
    BY <2>2 DEF TypeOK
  <2>5. taken'[c] = t
    BY <2>1 DEF TypeOK
  <2>6. backends[t].max > 0 => backends[t].active < backends[t].max
    BY <1>a, <2>1 DEF Eligible, Backend
  <2>7. QED
    BY <2>2, <2>3, <2>4, <2>5, <2>6 DEF MaxIsListed, RoomWhileDialing
<1>4. ASSUME NEW c \in Conns, TakeNothing(c) \/ IncrementRefused(c)
      PROVE  LimitInv'
  <2>1. /\ backends' = backends /\ taken' = taken
        /\ phase' = [phase EXCEPT ![c] = "done"]
    BY <1>4 DEF TakeNothing, IncrementRefused
  <2>2. \A d \in Conns : phase'[d] = "dialing" => phase[d] = "dialing"
    BY <2>1 DEF TypeOK
  <2>3. QED
    BY <2>1, <2>2 DEF OneDial, MaxIsListed, RoomWhileDialing
<1>5. ASSUME NEW c \in Conns, IncrementConnection(c)
      PROVE  LimitInv'
  <2>1. /\ phase[c] = "dialing" /\ taken' = taken /\ AddActive(taken[c], 1)
        /\ phase' = [phase EXCEPT ![c] = "open"]
    BY <1>5 DEF IncrementConnection
  <2>2. \A d \in Conns : phase'[d] # "dialing"
    BY <2>1 DEF OneDial, TypeOK
  <2>3. DOMAIN backends' = DOMAIN backends
    BY <2>1, AddActiveKeeps
  <2>4. \A u \in DOMAIN backends : backends'[u].max = backends[u].max
    BY <2>1, AddActiveKeepsMax
  <2>5. MaxIsListed'
    BY <2>3, <2>4 DEF MaxIsListed
  <2>6. ASSUME NEW t \in DOMAIN backends, backends[t].max > 0
        PROVE  backends'[t].active <= backends[t].max
    <3>1. CASE t = taken[c]
      <4>1. backends[t].active < backends[t].max
        BY <2>1, <2>6, <3>1 DEF RoomWhileDialing
      <4>2. backends[t].active < Cardinality(Conns)
        BY <1>5, <3>1, OpenAdds DEF ActiveExact
      <4>3. UintMax \in Nat /\ Cardinality(Conns) \in Nat /\ Cardinality(Conns) <= UintMax
        BY ConstantsAssumption, FS_CardinalityType
      <4>4. backends[t].active \in Nat /\ backends[t].max \in Nat
        BY <1>a, ConstantsAssumption DEF Backend
      <4>5. backends'[t].active = (backends[t].active + 1) % (UintMax + 1)
        BY <2>1, <3>1, AddActiveKeeps
      <4>6. backends'[t].active = backends[t].active + 1
        BY <4>2, <4>3, <4>4, <4>5
      <4>7. QED
        BY <4>1, <4>4, <4>6
    <3>2. CASE t # taken[c]
      <4>1. backends'[t].active = backends[t].active
        BY <2>1, <3>2, AddActiveKeeps
      <4>2. QED
        BY <2>6, <4>1 DEF RoomWhileDialing
    <3>3. QED
      BY <3>1, <3>2
  <2>7. QED
    BY <2>2, <2>3, <2>4, <2>5, <2>6 DEF OneDial, RoomWhileDialing
<1>6. ASSUME NEW c \in Conns, DecrementConnection(c)
      PROVE  LimitInv'
  <2>1. /\ phase[c] = "open" /\ taken' = taken /\ AddActive(taken[c], -1)
        /\ phase' = [phase EXCEPT ![c] = "done"]
    BY <1>6 DEF DecrementConnection
  <2>2. \A d \in Conns : phase'[d] = "dialing" => phase[d] = "dialing"
    BY <2>1 DEF TypeOK
  <2>3. DOMAIN backends' = DOMAIN backends
    BY <2>1, AddActiveKeeps
  <2>4. \A u \in DOMAIN backends : backends'[u].max = backends[u].max
    BY <2>1, AddActiveKeepsMax
  <2>5. MaxIsListed'
    BY <2>3, <2>4 DEF MaxIsListed
  <2>6. ASSUME NEW t \in DOMAIN backends
        PROVE  backends'[t].active <= backends[t].active
    <3>1. CASE t = taken[c]
      <4>1. backends[t].active > 0
        BY <1>6, <3>1, OpenRemoves DEF ActiveExact
      <4>2. backends[t].active \in 0..UintMax /\ UintMax \in Nat
        BY <1>a, ConstantsAssumption DEF Backend
      <4>3. backends'[t].active = (backends[t].active + (-1)) % (UintMax + 1)
        BY <2>1, <3>1, AddActiveKeeps
      <4>4. QED
        BY <4>1, <4>2, <4>3
    <3>2. CASE t # taken[c]
      <4>1. backends'[t].active = backends[t].active /\ backends[t].active \in 0..UintMax
        BY <1>a, <2>1, <3>2, AddActiveKeeps DEF Backend
      <4>2. QED
        BY <4>1, ConstantsAssumption
    <3>3. QED
      BY <3>1, <3>2
  <2>7. \A t \in DOMAIN backends' : backends'[t].active \in Int /\ backends'[t].max \in Int
    <3>1. TypeOK'
      BY <1>6, TypeStep DEF Next, ConnStep
    <3>2. QED
      BY <3>1, ConstantsAssumption DEF TypeOK, Backend
  <2>8. \A t \in DOMAIN backends : backends[t].active \in Int
    BY <1>a, ConstantsAssumption DEF Backend
  <2>9. QED
    BY <2>1, <2>2, <2>3, <2>4, <2>5, <2>6, <2>7, <2>8 DEF OneDial, RoomWhileDialing
<1>7. CASE UNCHANGED vars
  BY <1>7 DEF vars, OneDial, MaxIsListed, RoomWhileDialing
<1>8. QED
  BY <1>1, <1>2, <1>3, <1>4, <1>5, <1>6, <1>7 DEF QuietNext, QuietUpdate, HealthStep, ConnStep

\* A server that elects, dials and counts one client at a time (UDP) never
\* has more than max_connections connections open to a backend.
THEOREM LimitHolds ==
  ASSUME FixedLimits, OneAtATime
  PROVE  QuietSpec => []LimitRespected
<1>1. Init => LimitInv
  BY DEF Init, LimitInv, OneDial, MaxIsListed, RoomWhileDialing
<1>2. TypeOK /\ ActiveExact /\ LimitInv /\ [QuietNext]_vars => LimitInv'
  BY FixedLimits, OneAtATime, LimitStep
<1>3. ActiveExact /\ LimitInv => LimitRespected
  BY DEF ActiveExact, LimitInv, RoomWhileDialing, LimitRespected
<1>4. QED
  BY <1>1, <1>2, <1>3, QuietTypeCorrect, ExactAccounting, PTL DEF QuietSpec

\* Under static discovery, with no assumption on when backends return.
THEOREM StaticLimitHolds ==
  ASSUME FixedTargets, FixedLimits, OneAtATime
  PROVE  Spec => []LimitRespected
<1>1. Spec => QuietSpec
  BY FixedTargets, StaticIsQuiet
<1>2. QuietSpec => []LimitRespected
  BY FixedLimits, OneAtATime, LimitHolds
<1>3. QED
  BY <1>1, <1>2, PTL
=============================================================================
