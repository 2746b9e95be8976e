-------------------------- MODULE HealthcheckProofs --------------------------
(* Theorems about modules HealthWorker, Healthcheck and HealthHistory, for  *)
(* any thresholds, targets and worker slots.                                *)
EXTENDS HealthHistory, TLAPS

-----------------------------------------------------------------------------
(* What counting one result comes to, for each kind of result.             *)

Counters == [last : Statuses, passes : Nat, fails : Nat]

LEMMA FailureCounts ==
  ASSUME NEW n \in Counters, n.last # "unhealthy"
  PROVE  /\ Confirms(n, "unhealthy") <=> n.fails + 1 >= Fails
         /\ Processed(n, "unhealthy") =
              [last |-> IF n.fails + 1 >= Fails THEN "unhealthy" ELSE n.last,
               passes |-> 0, fails |-> n.fails + 1]
BY CountingAssumption DEF Counters, Confirms, Processed, Ignores, Counted

LEMMA PassCounts ==
  ASSUME NEW n \in Counters, n.last # "healthy"
  PROVE  /\ Confirms(n, "healthy") <=> n.passes + 1 >= Passes
         /\ Processed(n, "healthy") =
              [last |-> IF n.passes + 1 >= Passes THEN "healthy" ELSE n.last,
               passes |-> n.passes + 1, fails |-> 0]
BY CountingAssumption DEF Counters, Confirms, Processed, Ignores, Counted

LEMMA EqualIsIgnored ==
  ASSUME NEW n, NEW r, r = n.last
  PROVE  Processed(n, r) = n /\ ~Confirms(n, r)
BY DEF Processed, Confirms, Ignores

\* The third status touches no counter, whether it is confirmed or not.
LEMMA OddCounts ==
  ASSUME NEW n \in Counters, n.last # "initial"
  PROVE  Processed(n, "initial") =
           IF Confirms(n, "initial") THEN [n EXCEPT !.last = "initial"] ELSE n
BY DEF Counters, Processed, Ignores, Counted

LEMMA ProcessedType ==
  ASSUME NEW n \in Counters, NEW r \in Results
  PROVE  /\ Processed(n, r) \in Counters
         /\ Processed(n, r).last = IF Confirms(n, r) THEN r ELSE n.last
<1>1. r \in {"initial", "unhealthy", "healthy"}
  BY ResultsAssumption DEF Statuses
<1>2. CASE r = n.last
  BY <1>2, EqualIsIgnored
<1>3. CASE r = "unhealthy" /\ r # n.last
  BY <1>3, FailureCounts, CountingAssumption DEF Counters, Statuses
<1>4. CASE r = "healthy" /\ r # n.last
  BY <1>4, PassCounts, CountingAssumption DEF Counters, Statuses
<1>5. CASE r = "initial" /\ r # n.last
  BY <1>5, OddCounts DEF Counters, Statuses
<1>6. QED
  BY <1>1, <1>2, <1>3, <1>4, <1>5

-----------------------------------------------------------------------------
(* A worker and the results it is given (module HealthWorker).             *)

Count == worker[Watched].count

\* LastResult is what was last sent.
VerdictIsLast ==
  \/ verdict = Count.last
  \/ verdict = "none" /\ Count.last = "initial"

\* A run of equal results that has not turned the verdict is in the counter,
\* and the counter is short of its threshold.
StreakIsCounted ==
  /\ streak.of = "unhealthy" /\ Count.last # "unhealthy" =>
       streak.length <= Count.fails /\ Count.fails < Fails
  /\ streak.of = "healthy" /\ Count.last # "healthy" =>
       streak.length <= Count.passes /\ Count.passes < Passes

\* The counter against the verdict is never ahead of the votes against it,
\* and where no check reports "initial", no verdict is "initial".
CounterIsVoted ==
  /\ verdict # "initial"
  /\ Count.last # "unhealthy" =>
       Count.fails <= votes["unhealthy"] /\ Count.fails < Fails
  /\ Count.last # "healthy" =>
       Count.passes <= votes["healthy"] /\ Count.passes < Passes

\* Both modules count with module HealthCounting.
LEMMA SameCounting ==
  /\ TheWorker!Statuses = Statuses /\ TheWorker!NewCounters = NewCounters
  /\ \A n, r : TheWorker!Processed(n, r) = Processed(n, r)
  /\ \A n, r : TheWorker!Confirms(n, r) = Confirms(n, r)
BY DEF Statuses, TheWorker!Statuses, NewCounters, TheWorker!NewCounters,
       Processed, TheWorker!Processed, Confirms, TheWorker!Confirms,
       Counted, TheWorker!Counted, Ignores, TheWorker!Ignores

\* The steps of module HealthWorker in terms of this module's counting.
LEMMA ProcessFacts ==
  ASSUME NEW r \in Results
  PROVE  TheWorker!Process(r) <=>
           /\ Count' = Processed(Count, r)
           /\ verdict' = IF Confirms(Count, r) THEN r ELSE verdict
           /\ streak' = [of |-> r, length |-> IF r = streak.of
                                             THEN TheWorker!Saturated(streak.length) ELSE 1]
           /\ votes' = IF Confirms(Count, r) THEN [s \in Statuses |-> 0]
                       ELSE [votes EXCEPT ![r] = TheWorker!Saturated(@)]
BY SameCounting DEF TheWorker!Process, Count

LEMMA WorkerTypeFacts ==
  TheWorker!TypeOK <=>
    /\ Count \in Counters
    /\ verdict \in Statuses \cup {"none"}
    /\ streak \in [of : Statuses \cup {"none"}, length : 0..TheWorker!Enough]
    /\ votes \in [Statuses -> 0..TheWorker!Enough]
BY SameCounting DEF TheWorker!TypeOK, Counters, Count

LEMMA WorkerInitFacts ==
  TheWorker!Init <=>
    /\ Count = NewCounters
    /\ verdict = "none"
    /\ streak = [of |-> "none", length |-> 0]
    /\ votes = [s \in Statuses |-> 0]
BY SameCounting DEF TheWorker!Init, Count

LEMMA EnoughFacts ==
  /\ TheWorker!Enough \in Nat \ {0}
  /\ TheWorker!Enough >= Fails /\ TheWorker!Enough >= Passes
  /\ \A n \in 0..TheWorker!Enough :
       /\ TheWorker!Saturated(n) \in 0..TheWorker!Enough
       /\ TheWorker!Saturated(n) <= n + 1 /\ TheWorker!Saturated(n) >= n
       /\ n < TheWorker!Enough => TheWorker!Saturated(n) = n + 1
BY CountingAssumption DEF TheWorker!Enough, TheWorker!Saturated

LEMMA WorkerTypeInit == TheWorker!Init => TheWorker!TypeOK
BY EnoughFacts, WorkerInitFacts, WorkerTypeFacts DEF NewCounters, Statuses, Counters

LEMMA WorkerTypeStep ==
  TheWorker!TypeOK /\ [TheWorker!Next]_(TheWorker!vars) => TheWorker!TypeOK'
<1> SUFFICES ASSUME TheWorker!TypeOK, [TheWorker!Next]_(TheWorker!vars)
             PROVE  TheWorker!TypeOK'
  OBVIOUS
<1>1. ASSUME NEW r \in Results, TheWorker!Process(r) PROVE TheWorker!TypeOK'
  <2>1. r \in Statuses
    BY ResultsAssumption
  <2>2. verdict' \in Statuses \cup {"none"}
    BY <1>1, <2>1, ProcessFacts, WorkerTypeFacts
  <2>3. streak' \in [of : Statuses \cup {"none"}, length : 0..TheWorker!Enough]
    BY <1>1, <2>1, EnoughFacts, ProcessFacts, WorkerTypeFacts
  <2>4. votes' \in [Statuses -> 0..TheWorker!Enough]
    <3>1. /\ 0 \in 0..TheWorker!Enough
          /\ TheWorker!Saturated(votes[r]) \in 0..TheWorker!Enough
      BY <2>1, EnoughFacts, WorkerTypeFacts
    <3>2. QED
      BY <1>1, <3>1, ProcessFacts, WorkerTypeFacts
  <2>5. Count' \in Counters
    BY <1>1, ProcessedType, ProcessFacts, WorkerTypeFacts
  <2>6. QED
    BY <2>2, <2>3, <2>4, <2>5, SameCounting DEF TheWorker!TypeOK, Count, Counters
<1>2. CASE UNCHANGED TheWorker!vars
  BY <1>2 DEF TheWorker!TypeOK, TheWorker!vars
<1>3. QED
  BY <1>1, <1>2 DEF TheWorker!Next

LEMMA VerdictStep ==
  TheWorker!TypeOK /\ VerdictIsLast /\ [TheWorker!Next]_(TheWorker!vars)
    => VerdictIsLast'
<1> SUFFICES ASSUME TheWorker!TypeOK, VerdictIsLast, [TheWorker!Next]_(TheWorker!vars)
             PROVE  VerdictIsLast'
  OBVIOUS
<1>1. ASSUME NEW r \in Results, TheWorker!Process(r) PROVE VerdictIsLast'
  <2>1. Count'.last = IF Confirms(Count, r) THEN r ELSE Count.last
    BY <1>1, ProcessedType, ProcessFacts, WorkerTypeFacts
  <2>2. verdict' = IF Confirms(Count, r) THEN r ELSE verdict
    BY <1>1, ProcessFacts
  <2>3. QED
    BY <2>1, <2>2 DEF VerdictIsLast
<1>2. CASE UNCHANGED TheWorker!vars
  BY <1>2 DEF TheWorker!vars, VerdictIsLast, Count
<1>3. QED
  BY <1>1, <1>2 DEF TheWorker!Next

LEMMA StreakStep ==
  /\ TheWorker!TypeOK /\ VerdictIsLast /\ StreakIsCounted
  /\ [TheWorker!Next]_(TheWorker!vars)
  => StreakIsCounted'
<1> SUFFICES ASSUME TheWorker!TypeOK, VerdictIsLast, StreakIsCounted,
                    [TheWorker!Next]_(TheWorker!vars)
             PROVE  StreakIsCounted'
  OBVIOUS
<1>a. Count \in Counters /\ streak.length \in 0..TheWorker!Enough
  BY WorkerTypeFacts
<1>b. Count.fails \in Nat /\ Count.passes \in Nat
  BY <1>a DEF Counters
<1>c. /\ TheWorker!Saturated(streak.length) <= streak.length + 1
      /\ TheWorker!Saturated(streak.length) \in Nat
  BY <1>a, EnoughFacts
<1>1. ASSUME NEW r \in Results, TheWorker!Process(r)
      PROVE  StreakIsCounted'
  <2>1. /\ streak'.of = r
        /\ streak'.length = IF r = streak.of THEN TheWorker!Saturated(streak.length) ELSE 1
        /\ Count' = Processed(Count, r)
    BY <1>1, ProcessFacts
  <2>2. r \in {"initial", "unhealthy", "healthy"}
    BY ResultsAssumption DEF Statuses
  <2>3. CASE r = Count.last
    BY <2>1, <2>3, EqualIsIgnored DEF StreakIsCounted
  <2>4. CASE r = "initial" /\ r # Count.last
    BY <2>1, <2>4 DEF StreakIsCounted
  <2>5. CASE r = "unhealthy" /\ r # Count.last
    BY <1>a, <1>b, <1>c, <2>1, <2>5, FailureCounts, CountingAssumption
       DEF StreakIsCounted
  <2>6. CASE r = "healthy" /\ r # Count.last
    BY <1>a, <1>b, <1>c, <2>1, <2>6, PassCounts, CountingAssumption
       DEF StreakIsCounted
  <2>7. QED
    BY <2>2, <2>3, <2>4, <2>5, <2>6
<1>2. CASE UNCHANGED TheWorker!vars
  BY <1>2 DEF TheWorker!vars, StreakIsCounted, Count
<1>3. QED
  BY <1>1, <1>2 DEF TheWorker!Next

\* The votes against the verdict when the counter moves against it.
LEMMA VotesCount ==
  ASSUME TheWorker!TypeOK, NEW r \in Results, ~Confirms(Count, r), TheWorker!Process(r)
  PROVE  /\ votes' \in [Statuses -> Nat]
         /\ votes'[r] = TheWorker!Saturated(votes[r])
         /\ \A s \in Statuses : s # r => votes'[s] = votes[s]
<1>1. r \in Statuses /\ votes \in [Statuses -> 0..TheWorker!Enough]
  BY ResultsAssumption, WorkerTypeFacts
<1>2. votes' = [votes EXCEPT ![r] = TheWorker!Saturated(@)]
  BY ProcessFacts
<1>3. QED
  BY <1>1, <1>2, EnoughFacts

LEMMA VotesStep ==
  ASSUME Results \subseteq {"unhealthy", "healthy"}
  PROVE  /\ TheWorker!TypeOK /\ VerdictIsLast /\ CounterIsVoted
         /\ [TheWorker!Next]_(TheWorker!vars)
         => CounterIsVoted' /\ [TheWorker!TurnsOnVotes]_(TheWorker!vars)
<1> SUFFICES ASSUME TheWorker!TypeOK, VerdictIsLast, CounterIsVoted,
                    [TheWorker!Next]_(TheWorker!vars)
             PROVE  CounterIsVoted' /\ [TheWorker!TurnsOnVotes]_(TheWorker!vars)
  OBVIOUS
<1>a. /\ Count \in Counters
      /\ votes["unhealthy"] \in 0..TheWorker!Enough
      /\ votes["healthy"] \in 0..TheWorker!Enough
      /\ "unhealthy" \in Statuses /\ "healthy" \in Statuses
  BY WorkerTypeFacts DEF Statuses
<1>b. /\ TheWorker!Enough \in Nat /\ Fails \in Nat \ {0} /\ Passes \in Nat \ {0}
      /\ TheWorker!Enough >= Fails /\ TheWorker!Enough >= Passes
      /\ Count.fails \in Nat /\ Count.passes \in Nat
  BY <1>a, EnoughFacts, CountingAssumption DEF Counters
<1>1. ASSUME NEW r \in Results, TheWorker!Process(r)
      PROVE  CounterIsVoted' /\ TheWorker!TurnsOnVotes
  <2>1. r \in {"unhealthy", "healthy"} /\ r \in Statuses
    BY ResultsAssumption
  <2>2. /\ Count' = Processed(Count, r)
        /\ verdict' = IF Confirms(Count, r) THEN r ELSE verdict
    BY <1>1, ProcessFacts
  <2>3. CASE r = Count.last
    <3>1. Count' = Count /\ verdict' = verdict /\ ~Confirms(Count, r)
      BY <2>2, <2>3, EqualIsIgnored
    <3>2. \A s \in Statuses : s # r => votes'[s] = votes[s]
      BY <1>1, <3>1, VotesCount
    <3>3. verdict' = r
      BY <2>1, <2>3, <3>1 DEF VerdictIsLast
    <3>4. CounterIsVoted'
      BY <1>a, <2>1, <2>3, <3>1, <3>2 DEF CounterIsVoted
    <3>5. QED
      BY <2>1, <3>1, <3>3, <3>4 DEF TheWorker!TurnsOnVotes
  <2>4. CASE r = "unhealthy" /\ r # Count.last
    <3>1. /\ Count'.passes = 0 /\ Count'.fails = Count.fails + 1
          /\ Confirms(Count, r) <=> Count.fails + 1 >= Fails
          /\ Count'.last = IF Confirms(Count, r) THEN r ELSE Count.last
      BY <1>a, <2>2, <2>4, FailureCounts
    <3>2. Count.fails <= votes["unhealthy"] /\ Count.fails < Fails
      BY <2>4 DEF CounterIsVoted
    <3>3. CASE Confirms(Count, r)
      <4>1. votes' = [s \in Statuses |-> 0]
        BY <1>1, <3>3, ProcessFacts
      <4>2. QED
        BY <1>a, <1>b, <2>2, <2>4, <3>1, <3>2, <3>3, <4>1
           DEF CounterIsVoted, TheWorker!TurnsOnVotes
    <3>4. CASE ~Confirms(Count, r)
      <4>1. votes'["unhealthy"] >= Count.fails + 1 /\ votes' \in [Statuses -> Nat]
        BY <1>1, <1>a, <1>b, <2>4, <3>1, <3>2, <3>4, VotesCount, EnoughFacts
      <4>2. votes'["healthy"] >= 0
        BY <1>a, <4>1
      <4>3. QED
        BY <1>b, <2>2, <2>4, <3>1, <3>4, <4>1, <4>2
           DEF CounterIsVoted, TheWorker!TurnsOnVotes
    <3>5. QED
      BY <3>3, <3>4
  <2>5. CASE r = "healthy" /\ r # Count.last
    <3>1. /\ Count'.fails = 0 /\ Count'.passes = Count.passes + 1
          /\ Confirms(Count, r) <=> Count.passes + 1 >= Passes
          /\ Count'.last = IF Confirms(Count, r) THEN r ELSE Count.last
      BY <1>a, <2>2, <2>5, PassCounts
    <3>2. Count.passes <= votes["healthy"] /\ Count.passes < Passes
      BY <2>5 DEF CounterIsVoted
    <3>3. CASE Confirms(Count, r)
      <4>1. votes' = [s \in Statuses |-> 0]
        BY <1>1, <3>3, ProcessFacts
      <4>2. QED
        BY <1>a, <1>b, <2>2, <2>5, <3>1, <3>2, <3>3, <4>1
           DEF CounterIsVoted, TheWorker!TurnsOnVotes
    <3>4. CASE ~Confirms(Count, r)
      <4>1. votes'["healthy"] >= Count.passes + 1 /\ votes' \in [Statuses -> Nat]
        BY <1>1, <1>a, <1>b, <2>5, <3>1, <3>2, <3>4, VotesCount, EnoughFacts
      <4>2. votes'["unhealthy"] >= 0
        BY <1>a, <4>1
      <4>3. QED
        BY <1>b, <2>2, <2>5, <3>1, <3>4, <4>1, <4>2
           DEF CounterIsVoted, TheWorker!TurnsOnVotes
    <3>5. QED
      BY <3>3, <3>4
  <2>6. QED
    BY <2>1, <2>3, <2>4, <2>5
<1>2. CASE UNCHANGED TheWorker!vars
  BY <1>2 DEF TheWorker!vars, CounterIsVoted, Count
<1>3. QED
  BY <1>1, <1>2 DEF TheWorker!Next

\* The initial counters satisfy every part of the invariant.
LEMMA WorkerInit ==
  TheWorker!Init => TheWorker!TypeOK /\ VerdictIsLast /\ StreakIsCounted /\ CounterIsVoted
<1>1. TheWorker!Init => VerdictIsLast /\ StreakIsCounted
  BY WorkerInitFacts DEF NewCounters, VerdictIsLast, StreakIsCounted
<1>2. TheWorker!Init => CounterIsVoted
  BY WorkerInitFacts, CountingAssumption DEF NewCounters, CounterIsVoted, Statuses
<1>3. QED
  BY <1>1, <1>2, WorkerTypeInit

LEMMA ResponsiveFollows ==
  TheWorker!TypeOK /\ VerdictIsLast /\ StreakIsCounted => Responsive
BY CountingAssumption, WorkerTypeFacts
   DEF Counters, VerdictIsLast, StreakIsCounted, Responsive, TheWorker!Responsive

\* A worker's counters, verdict and histories stay in their ranges.
THEOREM WorkerTypeCorrect == TheWorker!Spec => []TheWorker!TypeOK
<1>1. QED
  BY WorkerTypeInit, WorkerTypeStep, PTL DEF TheWorker!Spec

\* fails failures in a row mark the backend unhealthy and passes passes in a
\* row mark it healthy: for every kind of check, exec included.
THEOREM WorkerResponsive == TheWorker!Spec => []TheWorker!Responsive
<1>1. TheWorker!TypeOK /\ VerdictIsLast /\ StreakIsCounted => TheWorker!Responsive
  BY ResponsiveFollows DEF Responsive
<1>2. QED
  BY <1>1, WorkerInit, VerdictStep, StreakStep, WorkerTypeCorrect, PTL DEF TheWorker!Spec

\* Ping and probe checks report a pass or a failure, nothing else: then no
\* verdict turns on fewer results than its threshold.
THEOREM WorkerVerdictsAreVoted ==
  ASSUME Results \subseteq {"unhealthy", "healthy"}
  PROVE  TheWorker!Spec => TheWorker!NoHastyVerdict
<1>1. /\ TheWorker!TypeOK /\ VerdictIsLast /\ CounterIsVoted
      /\ [TheWorker!Next]_(TheWorker!vars)
      => CounterIsVoted' /\ [TheWorker!TurnsOnVotes]_(TheWorker!vars)
  BY Results \subseteq {"unhealthy", "healthy"}, VotesStep
<1>2. QED
  BY <1>1, WorkerInit, VerdictStep, WorkerTypeCorrect, PTL
     DEF TheWorker!Spec, TheWorker!NoHastyVerdict

-----------------------------------------------------------------------------
(* The workers and the scheduler's flags (module Healthcheck).             *)

\* A slot without a goroutine is as new, the others have a target.
SlotsOK ==
  \A w \in Slots : IF worker[w].state = "free" THEN worker[w] = FreeWorker
                   ELSE worker[w].target \in Targets

\* A worker that has none of its own fields touched but what it counts.
SameLife(w) ==
  worker'[w].state = worker[w].state /\ worker'[w].target = worker[w].target

LEMMA WorkerFacts ==
  ASSUME TypeOK, NEW w \in Slots
  PROVE  /\ worker[w] \in Worker
         /\ worker[w].state \in {"free", "running", "stopped"}
         /\ worker[w].target \in Targets \cup {None}
         /\ worker[w].count \in Counters
         /\ worker[w].checks \in [Results -> Nat]
         /\ worker[w].slot \in Results \cup {None}
         /\ worker[w].sending \in Results \cup {None}
BY DEF TypeOK, Worker, Counters

LEMMA FreeWorkerFacts ==
  /\ FreeWorker \in Worker
  /\ FreeWorker.state = "free" /\ FreeWorker.count = NewCounters /\ FreeWorker.sending = None
<1>1. NewCounters \in Counters
  BY DEF NewCounters, Counters, Statuses
<1>2. QED
  BY <1>1 DEF FreeWorker, Worker, Counters

LEMMA NewWorkerFacts ==
  ASSUME NEW t \in Targets
  PROVE  /\ NewWorker(t) \in Worker
         /\ NewWorker(t).state = "running" /\ NewWorker(t).target = t
         /\ NewWorker(t).count = NewCounters /\ NewWorker(t).sending = None
BY FreeWorkerFacts DEF NewWorker, Worker

\* What UpdateWorkers does to the workers: a running one whose target is gone
\* is stopped, a free slot may get a new worker for a target that has none,
\* no two of them the same target; every listed target has a worker then.
LEMMA SyncIs ==
  ASSUME TypeOK, NEW T \in SUBSET Targets, SyncWorkers(T)
  PROVE  /\ worker' \in [Slots -> Worker]
         /\ \A w \in Slots :
              \/ /\ worker[w].state = "running" /\ worker[w].target \notin T
                 /\ worker'[w] = [worker[w] EXCEPT !.state = "stopped"]
              \/ /\ worker[w].state = "free"
                 /\ \E t \in T : Running(t) = {} /\ worker'[w] = NewWorker(t)
              \/ /\ worker[w].state = "running" => worker[w].target \in T
                 /\ worker'[w] = worker[w]
         /\ \A v, w \in Slots :
              /\ worker[v].state = "free" /\ worker'[v].state = "running"
              /\ worker[w].state = "free" /\ worker'[w].state = "running"
              /\ worker'[v].target = worker'[w].target
              => v = w
         /\ \A t \in T : Running(t)' # {}
<1> DEFINE missing == {t \in T : Running(t) = {}}
           gone(w) == worker[w].state = "running" /\ worker[w].target \notin T
<1>1. PICK home \in [missing -> Free] :
        /\ \A t, u \in missing : home[t] = home[u] => t = u
        /\ worker' = [w \in Slots |->
                        IF gone(w) THEN [worker[w] EXCEPT !.state = "stopped"]
                        ELSE IF \E t \in missing : home[t] = w
                             THEN NewWorker(CHOOSE t \in missing : home[t] = w)
                        ELSE worker[w]]
  BY DEF SyncWorkers
<1>2. \A t \in missing : /\ home[t] \in Slots /\ worker[home[t]].state = "free"
                         /\ (CHOOSE u \in missing : home[u] = home[t]) = t
  BY <1>1 DEF Free
<1>3. \A t \in missing : worker'[home[t]] = NewWorker(t)
  <2>1. TAKE t \in missing
  <2>2. ~gone(home[t])
    BY <1>2
  <2>3. QED
    BY <1>1, <1>2, <2>2
<1>4. \A w \in Slots : gone(w) => worker'[w] = [worker[w] EXCEPT !.state = "stopped"]
  BY <1>1
<1>5. \A w \in Slots : ~gone(w) /\ ~(\E t \in missing : home[t] = w) => worker'[w] = worker[w]
  BY <1>1
<1>6. missing \subseteq Targets /\ missing \subseteq T
  OBVIOUS
<1>7. \A w \in Slots :
        \/ /\ worker[w].state = "running" /\ worker[w].target \notin T
           /\ worker'[w] = [worker[w] EXCEPT !.state = "stopped"]
        \/ /\ worker[w].state = "free"
           /\ \E t \in T : Running(t) = {} /\ worker'[w] = NewWorker(t)
        \/ /\ worker[w].state = "running" => worker[w].target \in T
           /\ worker'[w] = worker[w]
  <2>1. TAKE w \in Slots
  <2>2. CASE gone(w)
    BY <1>4, <2>2
  <2>3. CASE \E t \in missing : home[t] = w
    BY <1>2, <1>3, <2>3
  <2>4. CASE ~gone(w) /\ ~(\E t \in missing : home[t] = w)
    BY <1>5, <2>4
  <2>5. QED
    BY <2>2, <2>3, <2>4
<1>8. \A w \in Slots : worker'[w] \in Worker
  <2>1. TAKE w \in Slots
  <2>2. worker[w] \in Worker
    BY WorkerFacts
  <2>3. [worker[w] EXCEPT !.state = "stopped"] \in Worker
    BY <2>2 DEF Worker
  <2>4. QED
    BY <1>7, <2>2, <2>3, NewWorkerFacts
<1>9. worker' \in [Slots -> Worker]
  BY <1>1, <1>8
<1>10. \A v, w \in Slots :
         /\ worker[v].state = "free" /\ worker'[v].state = "running"
         /\ worker[w].state = "free" /\ worker'[w].state = "running"
         /\ worker'[v].target = worker'[w].target
         => v = w
  <2>1. \A w \in Slots : worker[w].state = "free" /\ worker'[w].state = "running"
                         => \E t \in missing : home[t] = w /\ worker'[w].target = t
    BY <1>3, <1>5, <1>6, NewWorkerFacts
  <2>2. QED
    BY <2>1
<1>11. \A t \in T : Running(t)' # {}
  <2>1. TAKE t \in T
  <2>2. CASE t \in missing
    BY <1>2, <1>3, <1>6, <2>2, NewWorkerFacts DEF Running
  <2>3. CASE t \notin missing
    <3>1. PICK w \in Slots : worker[w].state = "running" /\ worker[w].target = t
      BY <2>3 DEF Running
    <3>2. worker'[w] = worker[w]
      BY <1>2, <1>5, <3>1
    <3>3. QED
      BY <3>1, <3>2 DEF Running
  <2>4. QED
    BY <2>2, <2>3
<1>12. QED
  BY <1>7, <1>9, <1>10, <1>11

\* Every other step of a worker leaves the lives of the workers as they are,
\* but for the one that returns.
LEMMA StepLives ==
  ASSUME TypeOK, SlotsOK, NEW w \in Slots, WorkerStep(w)
  PROVE  /\ \A v \in Slots \ {w} : worker'[v] = worker[v]
         /\ \/ Return(w) /\ worker'[w] = FreeWorker
            \/ worker[w].state # "free" /\ SameLife(w)
         /\ inbox' = inbox
<1>1. CASE LiveChange(w)
  <2>1. worker[w].state # "free"
    BY <1>1, FreeWorkerFacts DEF LiveChange, SlotsOK
  <2>2. QED
    BY <1>1, <2>1 DEF LiveChange, SameLife, TypeOK, Worker
<1>2. CASE StartCheck(w)
  BY <1>2 DEF StartCheck, SameLife, TypeOK, Worker, AtSelect, Alive, Free
<1>3. CASE FinishCheck(w)
  BY <1>3 DEF FinishCheck, SameLife, TypeOK, Worker, Alive, Free
<1>4. CASE Process(w)
  BY <1>4 DEF Process, SameLife, TypeOK, Worker, AtSelect, Alive, Free
<1>5. CASE Return(w)
  BY <1>5 DEF Return, TypeOK
<1>6. QED
  BY <1>1, <1>2, <1>3, <1>4, <1>5 DEF WorkerStep

LEMMA SlotsStep == TypeOK /\ SlotsOK /\ [Next]_vars => SlotsOK'
<1> SUFFICES ASSUME TypeOK, SlotsOK, [Next]_vars PROVE SlotsOK'
  OBVIOUS
<1>1. ASSUME UNCHANGED worker PROVE SlotsOK'
  BY <1>1 DEF SlotsOK
<1>2. CASE UpdateWorkers
  <2>1. PICK T \in inbox : SyncWorkers(T)
    BY <1>2 DEF UpdateWorkers
  <2>2. T \in SUBSET Targets
    BY DEF TypeOK
  <2>3. ASSUME NEW w \in Slots
        PROVE  IF worker'[w].state = "free" THEN worker'[w] = FreeWorker
               ELSE worker'[w].target \in Targets
    <3>1. CASE worker[w].state = "running" /\ worker'[w] = [worker[w] EXCEPT !.state = "stopped"]
      BY <3>1, WorkerFacts DEF SlotsOK, Worker
    <3>2. CASE \E t \in T : worker'[w] = NewWorker(t)
      BY <2>2, <3>2, NewWorkerFacts
    <3>3. CASE worker'[w] = worker[w]
      BY <3>3 DEF SlotsOK
    <3>4. QED
      BY <2>1, <2>2, <3>1, <3>2, <3>3, SyncIs
  <2>4. QED
    BY <2>3 DEF SlotsOK
<1>3. ASSUME NEW w \in Slots, WorkerStep(w) PROVE SlotsOK'
  <2>1. \A v \in Slots \ {w} : worker'[v] = worker[v]
    BY <1>3, StepLives
  <2>2. IF worker'[w].state = "free" THEN worker'[w] = FreeWorker
        ELSE worker'[w].target \in Targets
    BY <1>3, StepLives, FreeWorkerFacts DEF SameLife, SlotsOK
  <2>3. QED
    BY <2>1, <2>2 DEF SlotsOK
<1>4. QED
  BY <1>1, <1>2, <1>3 DEF Next, vars, Update, Flip

LEMMA TypeInit == Init => TypeOK /\ SlotsOK
<1> SUFFICES ASSUME Init PROVE TypeOK /\ SlotsOK
  OBVIOUS
<1>1. SlotsOK /\ worker \in [Slots -> Worker]
  BY FreeWorkerFacts DEF Init, SlotsOK
<1>2. {} \in SUBSET Targets /\ live \in [{} -> BOOLEAN]
  BY DEF Init
<1>3. QED
  BY <1>1, <1>2 DEF Init, TypeOK

\* One field after the other of the worker that moves.
LEMMA WorkerTypeKept ==
  ASSUME TypeOK, SlotsOK, NEW w \in Slots, WorkerStep(w)
  PROVE  worker' \in [Slots -> Worker]
<1> DEFINE r == worker[w]
<1>0. worker \in [Slots -> Worker] /\ r \in Worker
  BY DEF TypeOK
<1>1. CASE LiveChange(w)
  <2>1. [r EXCEPT !.sending = None] \in Worker
    BY <1>0 DEF Worker
  <2>2. QED
    BY <1>0, <1>1, <2>1 DEF LiveChange
<1>2. CASE StartCheck(w)
  <2>1. Finding(r.target) \in Results
    BY <1>2, HealthcheckAssumption
       DEF StartCheck, AtSelect, Alive, Free, SlotsOK, TypeOK, Finding
  <2> DEFINE more == [r.checks EXCEPT ![Finding(r.target)] = @ + 1]
  <2>2. more \in [Results -> Nat]
    <3>1. r.checks \in [Results -> Nat]
      BY <1>0 DEF Worker
    <3>2. QED
      BY <2>1, <3>1
  <2>3. worker' = [worker EXCEPT ![w].checks = more]
    BY <1>2 DEF StartCheck
  <2>4. [r EXCEPT !.checks = more] \in Worker
    <3> HIDE DEF more
    <3>1. QED
      BY <1>0, <2>2 DEF Worker
  <2>5. QED
    <3> HIDE DEF more
    <3>1. QED
      BY <1>0, <2>3, <2>4
<1>3. CASE FinishCheck(w)
  <2>1. PICK c \in Results :
          /\ r.checks[c] > 0
          /\ worker' = [worker EXCEPT ![w].checks[c] = @ - 1,
                                      ![w].slot = IF @ = None THEN c ELSE @]
    BY <1>3 DEF FinishCheck
  <2>2. r.checks \in [Results -> Nat] /\ r.checks[c] - 1 \in Nat
    BY <1>0, <2>1 DEF Worker
  <2>3. [r EXCEPT !.checks[c] = @ - 1, !.slot = IF @ = None THEN c ELSE @] \in Worker
    BY <1>0, <2>2 DEF Worker
  <2>4. QED
    BY <1>0, <2>1, <2>3
<1>4. CASE Process(w)
  <2>1. r.slot \in Results /\ r.count \in Counters
    BY <1>0, <1>4 DEF Process, Worker, Counters
  <2>2. Processed(r.count, r.slot) \in Counters
    BY <2>1, ProcessedType
  <2>3. [r EXCEPT !.slot = None, !.count = Processed(r.count, r.slot),
                  !.sending = IF Confirms(r.count, r.slot) THEN r.slot ELSE None] \in Worker
    BY <1>0, <2>1, <2>2 DEF Worker, Counters
  <2>4. QED
    BY <1>0, <1>4, <2>3 DEF Process
<1>5. CASE Return(w)
  BY <1>0, <1>5, FreeWorkerFacts DEF Return
<1>6. QED
  BY <1>1, <1>2, <1>3, <1>4, <1>5 DEF WorkerStep

LEMMA TypeStep == TypeOK /\ SlotsOK /\ [Next]_vars => TypeOK'
<1> SUFFICES ASSUME TypeOK, SlotsOK, [Next]_vars PROVE TypeOK'
  OBVIOUS
<1>1. ASSUME NEW T \in SUBSET Targets, Update(T) PROVE TypeOK'
  <2>1. live' \in [T -> BOOLEAN]
    BY <1>1, HealthcheckAssumption DEF Update, TypeOK, Tracked
  <2>2. QED
    BY <1>1, <2>1 DEF Update, TypeOK
<1>2. CASE UpdateWorkers
  BY <1>2, SyncIs DEF UpdateWorkers, TypeOK
<1>3. ASSUME NEW w \in Slots, WorkerStep(w) PROVE TypeOK'
  <2>1. \E D \in SUBSET Targets : live' \in [D -> BOOLEAN]
    <3>1. CASE LiveChange(w)
      BY <3>1 DEF LiveChange, TypeOK, Tracked
    <3>2. CASE live' = live
      BY <3>2 DEF TypeOK
    <3>3. QED
      BY <1>3, <3>1, <3>2 DEF WorkerStep, StartCheck, FinishCheck, Process, Return
  <2>2. health' = health /\ section' = section /\ inbox' = inbox
    BY <1>3 DEF WorkerStep, LiveChange, StartCheck, FinishCheck, Process, Return
  <2>3. QED
    BY <1>3, <2>1, <2>2, WorkerTypeKept DEF TypeOK
<1>4. ASSUME NEW t \in Targets, Flip(t) PROVE TypeOK'
  BY <1>4 DEF Flip, TypeOK
<1>5. CASE UNCHANGED vars
  BY <1>5 DEF vars, TypeOK
<1>6. QED
  BY <1>1, <1>2, <1>3, <1>4, <1>5 DEF Next

LEMMA TypeInvariant == Spec => [](TypeOK /\ SlotsOK)
<1>1. QED
  BY TypeInit, TypeStep, SlotsStep, PTL DEF Spec

\* The flags, the list on its way and every worker keep their types.
THEOREM TypeCorrect == Spec => []TypeOK
<1>1. QED
  BY TypeInvariant, PTL

LEMMA OneRunningStep ==
  TypeOK /\ SlotsOK /\ OneRunningWorker /\ [Next]_vars => OneRunningWorker'
<1> SUFFICES ASSUME TypeOK, SlotsOK, OneRunningWorker, [Next]_vars
             PROVE  OneRunningWorker'
  OBVIOUS
<1>1. ASSUME UNCHANGED worker PROVE OneRunningWorker'
  BY <1>1 DEF OneRunningWorker
<1>2. CASE UpdateWorkers
  <2>1. PICK T \in inbox : SyncWorkers(T)
    BY <1>2 DEF UpdateWorkers
  <2>2. T \in SUBSET Targets
    BY DEF TypeOK
  <2>3. ASSUME NEW w \in Slots, worker'[w].state = "running"
        PROVE  \/ worker[w].state = "running" /\ worker'[w] = worker[w]
               \/ worker[w].state = "free" /\ Running(worker'[w].target) = {}
    <3>1. worker'[w] # [worker[w] EXCEPT !.state = "stopped"]
      BY <2>3, WorkerFacts DEF Worker
    <3>2. CASE \E t \in T : Running(t) = {} /\ worker'[w] = NewWorker(t)
      BY <2>1, <2>2, <2>3, <3>1, <3>2, SyncIs, NewWorkerFacts
    <3>3. CASE worker'[w] = worker[w]
      BY <2>3, <3>3
    <3>4. QED
      BY <2>1, <2>2, <3>1, <3>2, <3>3, SyncIs
  <2>4. ASSUME NEW w \in Slots, worker[w].state = "running"
        PROVE  Running(worker[w].target) # {}
    BY <2>4 DEF Running
  <2>5. \A v, w \in Slots :
          /\ worker[v].state = "free" /\ worker'[v].state = "running"
          /\ worker[w].state = "free" /\ worker'[w].state = "running"
          /\ worker'[v].target = worker'[w].target
          => v = w
    BY <2>1, <2>2, SyncIs
  <2>6. ASSUME NEW v \in Slots, NEW w \in Slots,
               worker'[v].state = "running", worker'[w].state = "running",
               worker'[v].target = worker'[w].target
        PROVE  v = w
    <3>1. CASE worker[v].state = "running" /\ worker[w].state = "running"
      BY <2>3, <2>6, <3>1 DEF OneRunningWorker
    <3>2. CASE worker[v].state = "free" /\ worker[w].state = "free"
      BY <2>5, <2>6, <3>2
    <3>3. CASE worker[v].state = "free" /\ worker[w].state = "running"
      BY <2>3, <2>4, <2>6, <3>3
    <3>4. CASE worker[v].state = "running" /\ worker[w].state = "free"
      BY <2>3, <2>4, <2>6, <3>4
    <3>5. QED
      BY <2>3, <2>6, <3>1, <3>2, <3>3, <3>4
  <2>7. QED
    BY <2>6 DEF OneRunningWorker
<1>3. ASSUME NEW w \in Slots, WorkerStep(w) PROVE OneRunningWorker'
  BY <1>3, StepLives, FreeWorkerFacts DEF OneRunningWorker, SameLife
<1>4. QED
  BY <1>1, <1>2, <1>3 DEF Next, vars, Update, Flip

\* UpdateWorkers (healthcheck.go:141) keeps one worker per target, whatever
\* the scheduler lists and however long stopped workers linger.
THEOREM OneWorkerPerTarget == Spec => []OneRunningWorker
<1>1. Init => OneRunningWorker
  BY FreeWorkerFacts DEF Init, OneRunningWorker
<1>2. QED
  BY <1>1, OneRunningStep, TypeInvariant, PTL DEF Spec

-----------------------------------------------------------------------------
(* The scheduler's flag is the verdict of the target's worker.             *)

\* A list on its way is the scheduler's latest; none on its way means every
\* running worker checks a target the scheduler knows.
Synced ==
  /\ inbox \in {{}, {Tracked}}
  /\ inbox = {} => \A w \in Slots : worker[w].state = "running" => worker[w].target \in Tracked

\* A known target has no worker from an earlier life, and one that has no
\* worker yet has the initial flag.
NoLeftover ==
  \A t \in Tracked : Stopped(t) = {} /\ (Running(t) = {} => live[t] = InitialLive)

\* What a worker sends is its verdict.
SendsItsVerdict ==
  \A w \in Slots : worker[w].sending # None => worker[w].count.last = worker[w].sending

QuietInv ==
  TypeOK /\ SlotsOK /\ OneRunningWorker /\ Synced /\ NoLeftover /\ SendsItsVerdict
    /\ LiveIsVerdict

\* An unexpected status (exec.go:41) clears the flag: LiveIsVerdict reads
\* LastResult "initial" as the initial flag, which is then the same.
InitialIsDown == "initial" \in Results => ~InitialLive

LEMMA UpdateQuiet ==
  ASSUME QuietInv, QuietUpdate
  PROVE  Synced' /\ NoLeftover' /\ SendsItsVerdict' /\ LiveIsVerdict'
<1>1. PICK T \in SUBSET Targets :
        (\A t \in T \ Tracked : Stopped(t) = {}) /\ Update(T)
  BY DEF QuietUpdate
<1>2. /\ live' = [t \in T |-> IF t \in Tracked THEN live[t] ELSE InitialLive]
      /\ Tracked' = T /\ inbox' = {T} /\ worker' = worker /\ inbox = {}
  BY <1>1 DEF Update, Tracked
<1>3. \A t : Running(t)' = Running(t) /\ Stopped(t)' = Stopped(t)
  BY <1>2 DEF Running, Stopped
<1>4. \A t \in T \ Tracked : Running(t) = {}
  BY <1>2 DEF QuietInv, Synced, Running
<1>5. Synced'
  BY <1>2 DEF Synced
<1>6. NoLeftover'
  BY <1>1, <1>2, <1>3 DEF QuietInv, NoLeftover
<1>7. SendsItsVerdict'
  BY <1>2 DEF QuietInv, SendsItsVerdict
<1>8. LiveIsVerdict'
  BY <1>2, <1>3, <1>4 DEF QuietInv, LiveIsVerdict
<1>9. QED
  BY <1>5, <1>6, <1>7, <1>8

LEMMA SyncQuiet ==
  ASSUME QuietInv, UpdateWorkers
  PROVE  Synced' /\ NoLeftover' /\ SendsItsVerdict' /\ LiveIsVerdict'
<1>1. PICK T \in inbox : SyncWorkers(T)
  BY DEF UpdateWorkers
<1>2. /\ T = Tracked /\ T \in SUBSET Targets /\ live' = live /\ Tracked' = Tracked
      /\ inbox' = {}
  BY <1>1 DEF QuietInv, Synced, TypeOK, UpdateWorkers, Tracked
<1>3. TypeOK /\ NewCounters.last = "initial"
  BY DEF QuietInv, NewCounters
\* What became of each worker.
<1>4. ASSUME NEW w \in Slots
      PROVE  \/ /\ worker'[w].state = "stopped" /\ worker[w].target \notin T
                /\ worker[w].state = "running"
                /\ worker'[w] = [worker[w] EXCEPT !.state = "stopped"]
                /\ worker'[w].target = worker[w].target
                /\ worker'[w].count = worker[w].count
                /\ worker'[w].sending = worker[w].sending
             \/ /\ worker[w].state = "free" /\ worker'[w].state = "running"
                /\ worker'[w].target \in T /\ Running(worker'[w].target) = {}
                /\ worker'[w].count = NewCounters /\ worker'[w].sending = None
             \/ /\ worker[w].state = "running" => worker[w].target \in T
                /\ worker'[w] = worker[w]
  <2>1. CASE /\ worker[w].state = "running" /\ worker[w].target \notin T
             /\ worker'[w] = [worker[w] EXCEPT !.state = "stopped"]
    <3>1. /\ worker'[w].state = "stopped" /\ worker'[w].target = worker[w].target
          /\ worker'[w].count = worker[w].count /\ worker'[w].sending = worker[w].sending
      BY <1>3, <2>1, WorkerFacts DEF Worker
    <3>2. QED
      BY <2>1, <3>1
  <2>2. CASE /\ worker[w].state = "free"
             /\ \E t \in T : Running(t) = {} /\ worker'[w] = NewWorker(t)
    BY <1>2, <2>2, NewWorkerFacts
  <2>3. CASE /\ worker[w].state = "running" => worker[w].target \in T
             /\ worker'[w] = worker[w]
    BY <2>3
  <2>4. QED
    BY <1>1, <1>2, <1>3, <2>1, <2>2, <2>3, SyncIs
<1>5. Synced'
  <2>1. ASSUME NEW w \in Slots, worker'[w].state = "running"
        PROVE  worker'[w].target \in Tracked
    BY <1>2, <1>4, <2>1
  <2>2. QED
    BY <1>2, <2>1 DEF Synced
<1>6. NoLeftover'
  <2>1. ASSUME NEW t \in Tracked, NEW w \in Slots,
               worker'[w].state = "stopped", worker'[w].target = t
        PROVE  FALSE
    BY <1>2, <1>4, <2>1 DEF QuietInv, NoLeftover, Stopped
  <2>2. \A t \in Tracked : Running(t)' # {}
    BY <1>1, <1>2, <1>3, SyncIs
  <2>3. QED
    BY <1>2, <2>1, <2>2 DEF NoLeftover, Stopped
<1>7. SendsItsVerdict'
  <2>1. ASSUME NEW w \in Slots, worker'[w].sending # None
        PROVE  worker'[w].count.last = worker'[w].sending
    BY <1>4, <2>1 DEF QuietInv, SendsItsVerdict
  <2>2. QED
    BY <2>1 DEF SendsItsVerdict
<1>8. LiveIsVerdict'
  <2>1. ASSUME NEW t \in Tracked, NEW w \in Slots, worker'[w].state = "running",
               worker'[w].target = t, worker'[w].sending = None
        PROVE  live[t] = IF worker'[w].count.last = "initial" THEN InitialLive
                         ELSE worker'[w].count.last = "healthy"
    <3>1. CASE worker'[w] = worker[w]
      BY <2>1, <3>1 DEF QuietInv, LiveIsVerdict, Running
    <3>2. CASE Running(worker'[w].target) = {} /\ worker'[w].count = NewCounters
      BY <1>3, <2>1, <3>2 DEF QuietInv, NoLeftover
    <3>3. QED
      BY <1>4, <2>1, <3>1, <3>2
  <2>2. QED
    BY <1>2, <2>1 DEF LiveIsVerdict, Running
<1>9. QED
  BY <1>5, <1>6, <1>7, <1>8

\* A step of a worker that keeps its life, by what it does to the flags and
\* to the worker's verdict.
LEMMA SameLifeQuiet ==
  ASSUME QuietInv, NEW w \in Slots, worker[w].state # "free", SameLife(w),
         \A v \in Slots \ {w} : worker'[v] = worker[v],
         inbox' = inbox, Tracked' = Tracked,
         \A t \in Tracked : t # worker[w].target => live'[t] = live[t],
         worker[w].target \in Tracked /\ Running(worker[w].target) = {}
           => live'[worker[w].target] = live[worker[w].target],
         worker'[w].sending # None => worker'[w].count.last = worker'[w].sending,
         worker[w].target \in Tracked /\ worker[w].state = "running" /\ worker'[w].sending = None
           => live'[worker[w].target] =
                IF worker'[w].count.last = "initial" THEN InitialLive
                ELSE worker'[w].count.last = "healthy"
  PROVE  Synced' /\ NoLeftover' /\ SendsItsVerdict' /\ LiveIsVerdict'
<1>1. \A v \in Slots : worker'[v].state = worker[v].state /\ worker'[v].target = worker[v].target
  BY DEF SameLife
<1>2. \A t : Running(t)' = Running(t) /\ Stopped(t)' = Stopped(t)
  BY <1>1 DEF Running, Stopped
<1>3. Synced'
  BY <1>1 DEF QuietInv, Synced
<1>4. NoLeftover'
  BY <1>2 DEF QuietInv, NoLeftover
<1>5. SendsItsVerdict'
  BY DEF QuietInv, SendsItsVerdict
<1>6. LiveIsVerdict'
  <2>1. ASSUME NEW t \in Tracked, NEW v \in Running(t), worker'[v].sending = None
        PROVE  live'[t] = IF worker'[v].count.last = "initial" THEN InitialLive
                          ELSE worker'[v].count.last = "healthy"
    <3>1. v \in Slots /\ worker[v].state = "running" /\ worker[v].target = t
      BY <2>1 DEF Running
    <3>2. CASE v = w
      BY <2>1, <3>1, <3>2
    <3>3. CASE v # w /\ t = worker[w].target
      <4>1. worker[w].state = "stopped"
        BY <3>1, <3>3, WorkerFacts DEF QuietInv, OneRunningWorker
      <4>2. w \in Stopped(t)
        BY <3>3, <4>1 DEF Stopped
      <4>3. QED
        BY <4>2 DEF QuietInv, NoLeftover
    <3>4. CASE v # w /\ t # worker[w].target
      BY <2>1, <3>4, <3>1 DEF QuietInv, LiveIsVerdict
    <3>5. QED
      BY <3>2, <3>3, <3>4
  <2>2. QED
    BY <1>2, <2>1 DEF LiveIsVerdict
<1>7. QED
  BY <1>3, <1>4, <1>5, <1>6

LEMMA WorkerQuiet ==
  ASSUME InitialIsDown, QuietInv, NEW w \in Slots, WorkerStep(w)
  PROVE  Synced' /\ NoLeftover' /\ SendsItsVerdict' /\ LiveIsVerdict'
<1> DEFINE r == worker[w]
<1>0. TypeOK /\ SlotsOK /\ r \in Worker /\ worker \in [Slots -> Worker]
  BY DEF QuietInv, TypeOK
<1>1. /\ \A v \in Slots \ {w} : worker'[v] = worker[v]
      /\ Return(w) \/ (r.state # "free" /\ SameLife(w))
      /\ inbox' = inbox
  BY <1>0, StepLives
<1>2. CASE LiveChange(w)
  <2>1. /\ worker'[w] = [r EXCEPT !.sending = None]
        /\ live' = [u \in Tracked |-> IF u = r.target THEN r.sending = "healthy" ELSE live[u]]
        /\ Tracked' = Tracked
    BY <1>0, <1>2 DEF LiveChange, Tracked
  <2>2. worker'[w].sending = None /\ worker'[w].count = r.count /\ r.sending \in Results
    BY <1>0, <1>2, <2>1 DEF LiveChange, Worker
  <2>3. r.count.last = r.sending
    BY <1>2 DEF LiveChange, QuietInv, SendsItsVerdict
  <2>4. r.state # "free" /\ SameLife(w)
    BY <1>0, <1>1, <1>2, FreeWorkerFacts DEF LiveChange, Return, AtSelect
  <2>5. r.target \in Tracked => r.state = "running"
    BY <1>0, <2>4, WorkerFacts DEF QuietInv, NoLeftover, Stopped
  <2>6. r.target \in Tracked => Running(r.target) # {}
    BY <2>5 DEF Running
  <2>7. r.target \in Tracked =>
          live'[r.target] = IF r.count.last = "initial" THEN InitialLive
                            ELSE r.count.last = "healthy"
    BY <2>1, <2>2, <2>3, HealthcheckAssumption DEF InitialIsDown
  <2>8. QED
    BY <1>1, <2>1, <2>2, <2>4, <2>6, <2>7, SameLifeQuiet
<1>3. CASE StartCheck(w) \/ FinishCheck(w)
  <2>1. /\ worker'[w].sending = r.sending /\ worker'[w].count = r.count /\ live' = live
        /\ SameLife(w)
    <3>1. CASE StartCheck(w)
      BY <1>0, <3>1 DEF StartCheck, Worker, SameLife
    <3>2. CASE FinishCheck(w)
      BY <1>0, <3>2 DEF FinishCheck, Worker, SameLife
    <3>3. QED
      BY <1>3, <3>1, <3>2
  <2>2. r.state # "free"
    BY <1>3 DEF StartCheck, FinishCheck, AtSelect, Alive, Free
  <2>3. QED
    BY <1>1, <2>1, <2>2, SameLifeQuiet
       DEF QuietInv, SendsItsVerdict, LiveIsVerdict, Tracked, Running
<1>4. CASE Process(w)
  <2>1. r.slot \in Results /\ r.count \in Counters /\ r.sending = None /\ r.state # "free"
    BY <1>0, <1>4 DEF Process, Worker, Counters, AtSelect, Alive, Free
  <2>2. /\ worker'[w].count = Processed(r.count, r.slot)
        /\ worker'[w].sending = IF Confirms(r.count, r.slot) THEN r.slot ELSE None
        /\ live' = live
    BY <1>0, <1>4 DEF Process, Worker
  <2>3. worker'[w].count.last = IF Confirms(r.count, r.slot) THEN r.slot ELSE r.count.last
    BY <2>1, <2>2, ProcessedType
  <2>4. r.slot # None
    BY <1>4 DEF Process
  <2>5. SameLife(w)
    BY <1>0, <1>4 DEF SameLife, Process, Worker
  <2>6. r.target \in Tracked /\ r.state = "running" =>
          live[r.target] = IF r.count.last = "initial" THEN InitialLive
                           ELSE r.count.last = "healthy"
    BY <2>1 DEF QuietInv, LiveIsVerdict, Running
  <2>7. QED
    BY <1>1, <2>1, <2>2, <2>3, <2>4, <2>5, <2>6, SameLifeQuiet DEF Tracked
<1>5. CASE Return(w)
  <2>1. worker'[w] = FreeWorker /\ r.state = "stopped" /\ live' = live /\ Tracked' = Tracked
    BY <1>0, <1>5 DEF Return, Tracked
  <2>2. \A t : Running(t)' = Running(t) /\ Stopped(t)' \subseteq Stopped(t)
    BY <1>1, <2>1, FreeWorkerFacts DEF Running, Stopped
  <2>3. Synced'
    BY <1>1, <2>1, FreeWorkerFacts DEF QuietInv, Synced
  <2>4. NoLeftover'
    BY <2>1, <2>2 DEF QuietInv, NoLeftover
  <2>5. SendsItsVerdict'
    BY <1>1, <2>1, FreeWorkerFacts DEF QuietInv, SendsItsVerdict
  <2>6. LiveIsVerdict'
    <3>1. \A t, v : v \in Running(t) => worker'[v] = worker[v]
      BY <1>1, <2>1 DEF Running
    <3>2. QED
      BY <2>1, <2>2, <3>1 DEF QuietInv, LiveIsVerdict
  <2>7. QED
    BY <2>3, <2>4, <2>5, <2>6
<1>6. QED
  BY <1>2, <1>3, <1>4, <1>5 DEF WorkerStep

LEMMA QuietIsNext == QuietNext => Next
BY DEF QuietNext, QuietUpdate, Next

LEMMA QuietStep ==
  ASSUME InitialIsDown
  PROVE  QuietInv /\ [QuietNext]_vars => QuietInv'
<1> SUFFICES ASSUME QuietInv, [QuietNext]_vars PROVE QuietInv'
  OBVIOUS
<1>1. TypeOK' /\ SlotsOK' /\ OneRunningWorker'
  BY QuietIsNext, TypeStep, SlotsStep, OneRunningStep DEF QuietInv
<1>2. Synced' /\ NoLeftover' /\ SendsItsVerdict' /\ LiveIsVerdict'
  <2>1. CASE QuietUpdate
    BY <2>1, UpdateQuiet
  <2>2. CASE UpdateWorkers
    BY <2>2, SyncQuiet
  <2>3. ASSUME NEW w \in Slots, WorkerStep(w)
        PROVE  Synced' /\ NoLeftover' /\ SendsItsVerdict' /\ LiveIsVerdict'
    BY <2>3, InitialIsDown, WorkerQuiet
  <2>4. CASE UNCHANGED <<live, inbox, worker>>
    BY <2>4 DEF QuietInv, Synced, NoLeftover, SendsItsVerdict, LiveIsVerdict, Tracked,
                Running, Stopped
  <2>5. QED
    BY <2>1, <2>2, <2>3, <2>4 DEF QuietNext, Flip, vars
<1>3. QED
  BY <1>1, <1>2 DEF QuietInv

LEMMA QuietInit == Init => QuietInv
<1> SUFFICES ASSUME Init PROVE QuietInv
  OBVIOUS
<1>1. Tracked = {} /\ inbox = {} /\ \A w \in Slots : worker[w] = FreeWorker
  BY DEF Init, Tracked
<1>2. QED
  BY <1>1, TypeInit, FreeWorkerFacts
     DEF QuietInv, OneRunningWorker, Synced, NoLeftover, SendsItsVerdict, LiveIsVerdict

\* The scheduler's flag (HandleBackendLiveChange) is the verdict of the
\* target's worker unless a change is just being sent, whatever the order of
\* lists, results and sends, provided a target is not listed again before its
\* old worker has returned.
THEOREM FlagIsVerdict ==
  ASSUME InitialIsDown
  PROVE  QuietSpec => []LiveIsVerdict
<1>1. QuietInv /\ [QuietNext]_vars => QuietInv'
  BY InitialIsDown, QuietStep
<1>2. QuietInv => LiveIsVerdict
  BY DEF QuietInv
<1>3. QED
  BY <1>1, <1>2, QuietInit, PTL DEF QuietSpec

-----------------------------------------------------------------------------
(* The lives of one slot's workers, each a behaviour of HealthWorker.      *)

\* Every step of the healthchecks is, for the watched slot, a step of module
\* HealthWorker, the start of another worker's life, or none of its business.
LEMMA WatchedLives ==
  TypeOK /\ SlotsOK /\ [HistoryNext]_<<vars, history>>
    => [TheWorker!Next]_(TheWorker!vars) \/ TheWorker!Init'
<1> SUFFICES ASSUME TypeOK, SlotsOK, [HistoryNext]_<<vars, history>>
             PROVE  [TheWorker!Next]_(TheWorker!vars) \/ TheWorker!Init'
  OBVIOUS
<1>0. Watched \in Slots /\ worker \in [Slots -> Worker]
  BY WatchedAssumption DEF TypeOK
<1>1. CASE WatchedProcess
  <2>1. worker[Watched].slot \in Results
    BY <1>0, <1>1, WorkerFacts DEF WatchedProcess, Process
  <2>2. QED
    BY <1>1, <2>1 DEF WatchedProcess, TheWorker!Next
<1>2. CASE WatchedReturn
  <2>1. Count' = NewCounters
    BY <1>0, <1>2, FreeWorkerFacts DEF WatchedReturn, Return, Count
  <2>2. QED
    BY <1>2, <2>1, SameCounting DEF WatchedReturn, TheWorker!Init, Count
<1>3. ASSUME Others, UNCHANGED history PROVE UNCHANGED TheWorker!vars
  <2>1. Count' = Count
    <3>1. CASE UNCHANGED worker
      BY <3>1 DEF Count
    <3>2. CASE UpdateWorkers
      <4>1. PICK T \in SUBSET Targets : SyncWorkers(T)
        BY <3>2 DEF UpdateWorkers, TypeOK
      <4>2. CASE worker'[Watched] = [worker[Watched] EXCEPT !.state = "stopped"]
        BY <1>0, <4>2, WorkerFacts DEF Worker, Count
      <4>3. CASE /\ worker[Watched].state = "free"
                 /\ \E t \in T : worker'[Watched] = NewWorker(t)
        BY <1>0, <4>3, NewWorkerFacts, FreeWorkerFacts DEF SlotsOK, Count
      <4>4. CASE worker'[Watched] = worker[Watched]
        BY <4>4 DEF Count
      <4>5. QED
        BY <1>0, <4>1, <4>2, <4>3, <4>4, SyncIs
    <3>3. ASSUME NEW w \in Slots, Unwatched(w) PROVE Count' = Count
      <4>1. CASE LiveChange(w)
        BY <1>0, <4>1 DEF LiveChange, Worker, Count
      <4>2. CASE StartCheck(w)
        BY <1>0, <4>2 DEF StartCheck, Worker, Count
      <4>3. CASE FinishCheck(w)
        BY <1>0, <4>3 DEF FinishCheck, Worker, Count
      <4>4. CASE w # Watched /\ (Process(w) \/ Return(w))
        BY <1>0, <4>4 DEF Process, Return, Count
      <4>5. QED
        BY <3>3, <4>1, <4>2, <4>3, <4>4 DEF Unwatched
    <3>4. QED
      BY <1>3, <3>1, <3>2, <3>3 DEF Others, QuietUpdate, Update, Flip
  <2>2. QED
    BY <1>3, <2>1 DEF TheWorker!vars, history, Count
<1>4. CASE UNCHANGED <<vars, history>>
  BY <1>4 DEF vars, history, TheWorker!vars
<1>5. QED
  BY <1>1, <1>2, <1>3, <1>4 DEF HistoryNext

LEMMA HistoryIsNext == [HistoryNext]_<<vars, history>> => [QuietNext]_vars
BY WatchedAssumption
   DEF HistoryNext, WatchedProcess, WatchedReturn, Others, Unwatched, QuietNext, WorkerStep, vars

LEMMA HistoryTypes == HistorySpec => [](TypeOK /\ SlotsOK)
<1>1. [QuietNext]_vars => [Next]_vars
  BY QuietIsNext
<1>2. QED
  BY <1>1, HistoryIsNext, TypeInit, TypeStep, SlotsStep, PTL DEF HistorySpec, HistoryInit

LEMMA HistoryWorker == HistorySpec => [](TheWorker!TypeOK /\ VerdictIsLast)
BY HistoryTypes, WatchedLives, WorkerInit, WorkerTypeStep, VerdictStep, PTL
   DEF HistorySpec, HistoryInit

\* fails failures in a row mark the backend unhealthy and passes passes in a
\* row mark it healthy (worker.go:107), for a worker among others, behind slow
\* checks and its channel, and whatever kind of check.
THEOREM ResponsiveAlways == HistorySpec => []Responsive
<1>1. QED
  BY HistoryTypes, HistoryWorker, WatchedLives, WorkerInit, StreakStep,
     ResponsiveFollows, PTL
     DEF HistorySpec, HistoryInit

\* No verdict turns on fewer results against it than its threshold, counted
\* since it last turned (worker.go:115): ping and probe checks.
THEOREM VerdictsAreVoted ==
  ASSUME Results \subseteq {"unhealthy", "healthy"}
  PROVE  HistorySpec => NoHastyVerdict
<1>1. /\ TheWorker!TypeOK /\ VerdictIsLast /\ CounterIsVoted
      /\ [TheWorker!Next]_(TheWorker!vars)
      => CounterIsVoted' /\ [TheWorker!TurnsOnVotes]_(TheWorker!vars)
  BY Results \subseteq {"unhealthy", "healthy"}, VotesStep
<1>2. TheWorker!Init' => TheWorker!TurnsOnVotes
  BY DEF TheWorker!Init, TheWorker!TurnsOnVotes
<1>3. QED
  BY <1>1, <1>2, HistoryTypes, HistoryWorker, WatchedLives, WorkerInit, PTL
     DEF HistorySpec, HistoryInit, NoHastyVerdict, TheWorker!NoHastyVerdict
=============================================================================
