---------------------------- MODULE Healthcheck ----------------------------
(***************************************************************************)
(* Healthchecks of one server: the healthcheck goroutine that keeps one    *)
(* worker per target (src/src/healthcheck/healthcheck.go), the workers and *)
(* the check goroutines they start (worker.go, ping.go, probe.go, exec.go),*)
(* and the part of the scheduler they talk to, the Live flag of each       *)
(* backend (scheduler.go).                                                 *)
(*                                                                         *)
(* Three things happen at different times: the scheduler changes its map,  *)
(* the healthcheck goroutine changes its workers, and a worker that was    *)
(* told to stop returns.  A result can be on its way through any of them.  *)
(***************************************************************************)
EXTENDS HealthCounting, CheckKinds, FiniteSets, FiniteSetsExt

CONSTANTS
  Targets,      \* host:port of every backend that discovery may ever list
  Slots,        \* bound on the worker goroutines that exist at once
  MaxChecks,    \* bound on the checks a worker has under way at once
  Sections,     \* healthcheck sections that the server may have
  Behaviours,   \* what the targets may do when they are checked
  InitialLive,  \* healthcheck.initial_status = "healthy"
  None

ASSUME HealthcheckAssumption ==
  /\ InitialLive \in BOOLEAN
  /\ None \notin Statuses /\ None \notin Targets
  /\ MaxChecks \in Nat
  /\ \A c \in Sections : \A b \in Behaviours : Finds(c, b) \in Results

VARIABLES
  live,         \* scheduler: the known targets and their Stats.Live
  inbox,        \* the target list taken from Healthcheck.In and not yet synced
  worker,       \* the worker goroutines
  section,      \* the healthcheck section, which does not change
  health        \* environment: how each target behaves

vars == <<live, inbox, worker, section, health>>

(***************************************************************************)
(* A worker is free (no goroutine), running (in Healthcheck.workers) or    *)
(* stopped (its stop channel is closed, its goroutine has not returned).   *)
(* checks counts what check goroutines have found and not yet reported,    *)
(* slot is the worker's channel of capacity 1, and sending is    *)
(* the result that process has confirmed and blocks on Healthcheck.Out     *)
(* with.                                                                   *)
(***************************************************************************)
Worker == [state : {"free", "running", "stopped"}, target : Targets \cup {None},
           count : [last : Statuses, passes : Nat, fails : Nat],
           checks : [Results -> Nat], slot : Results \cup {None}, sending : Results \cup {None}]

FreeWorker == [state |-> "free", target |-> None, count |-> NewCounters,
               checks |-> [r \in Results |-> 0], slot |-> None, sending |-> None]

NewWorker(t) == [FreeWorker EXCEPT !.state = "running", !.target = t]

TypeOK ==
  /\ \E D \in SUBSET Targets : live \in [D -> BOOLEAN]
  /\ inbox \in {{}} \cup {{T} : T \in SUBSET Targets}
  /\ worker \in [Slots -> Worker]
  /\ section \in Sections
  /\ health \in [Targets -> Behaviours]

Tracked == DOMAIN live

Running(t) == {w \in Slots : worker[w].state = "running" /\ worker[w].target = t}
Stopped(t) == {w \in Slots : worker[w].state = "stopped" /\ worker[w].target = t}
Free == {w \in Slots : worker[w].state = "free"}
Alive == Slots \ Free

UnderWay(w) == MapThenSumSet(LAMBDA r : worker[w].checks[r], Results)

\* What a check of t finds as t is now.
Finding(t) == Finds(section, health[t])

Init ==
  /\ live = [t \in {} |-> FALSE]
  /\ inbox = {}
  /\ worker = [w \in Slots |-> FreeWorker]
  /\ section \in Sections
  /\ health \in [Targets -> Behaviours]

-----------------------------------------------------------------------------
(* The scheduler.                                                          *)

\* HandleBackendsUpdate, then Healthcheck.In <- Targets(), which waits for
\* the healthcheck goroutine to be back at its select.  Which targets stay
\* depends on their connections: any set may result.
Update(T) ==
  /\ inbox = {}
  /\ live' = [t \in T |-> IF t \in Tracked THEN live[t] ELSE InitialLive]
  /\ inbox' = {T}
  /\ UNCHANGED <<worker, section, health>>

\* The scheduler receives from Healthcheck.Out what worker w sends, and
\* HandleBackendLiveChange ignores it if the target is not known.
LiveChange(w) ==
  /\ worker[w].sending # None
  /\ LET t == worker[w].target
     IN live' = [u \in Tracked |-> IF u = t THEN worker[w].sending = "healthy" ELSE live[u]]
  /\ worker' = [worker EXCEPT ![w].sending = None]
  /\ UNCHANGED <<inbox, section, health>>

-----------------------------------------------------------------------------
(* The healthcheck goroutine.                                              *)

\* Mutant: a worker for every target of the list, known or not.
SyncWorkersAlwaysNew(T) ==
  LET gone(w) == worker[w].state = "running" /\ worker[w].target \notin T
  IN \E home \in [T -> Free] :
       /\ \A t, u \in T : home[t] = home[u] => t = u
       /\ worker' = [w \in Slots |->
                       IF gone(w) THEN [worker[w] EXCEPT !.state = "stopped"]
                       ELSE IF \E t \in T : home[t] = w
                            THEN NewWorker(CHOOSE t \in T : home[t] = w)
                       ELSE worker[w]]

\* UpdateWorkers: a worker for every target that has none, and the workers
\* of targets that are gone are told to stop.
SyncWorkers(T) ==
  LET missing == {t \in T : Running(t) = {}}
      gone(w) == worker[w].state = "running" /\ worker[w].target \notin T
  IN \E home \in [missing -> Free] :
       /\ \A t, u \in missing : home[t] = home[u] => t = u
       /\ worker' = [w \in Slots |->
                       IF gone(w) THEN [worker[w] EXCEPT !.state = "stopped"]
                       ELSE IF \E t \in missing : home[t] = w
                            THEN NewWorker(CHOOSE t \in missing : home[t] = w)
                       ELSE worker[w]]

UpdateWorkers ==
  /\ \E T \in inbox : SyncWorkers(T)
  /\ inbox' = {}
  /\ UNCHANGED <<live, section, health>>

-----------------------------------------------------------------------------
(* A worker's goroutine, at its select unless it is sending.  Between a    *)
(* closed stop channel and another ready case the select picks either.     *)

AtSelect(w) == w \in Alive /\ worker[w].sending = None

\* The ticker (or the start of the worker) starts a check, which finds the
\* target as it is now and may report it much later.
StartCheck(w) ==
  /\ AtSelect(w)
  /\ UnderWay(w) < MaxChecks
  /\ worker' = [worker EXCEPT ![w].checks[Finding(worker[w].target)] = @ + 1]
  /\ UNCHANGED <<live, inbox, section, health>>

\* A check reports; if the slot is full the result is discarded.
FinishCheck(w) ==
  /\ w \in Alive
  /\ \E r \in Results :
       /\ worker[w].checks[r] > 0
       /\ worker' = [worker EXCEPT ![w].checks[r] = @ - 1,
                                   ![w].slot = IF @ = None THEN r ELSE @]
  /\ UNCHANGED <<live, inbox, section, health>>

\* The worker takes the slot's result and processes it, up to its send.
Process(w) ==
  /\ AtSelect(w)
  /\ worker[w].slot # None
  /\ LET r == worker[w].slot
         n == worker[w].count
     IN worker' = [worker EXCEPT ![w].slot = None,
                                 ![w].count = Processed(n, r),
                                 ![w].sending = IF Confirms(n, r) THEN r ELSE None]
  /\ UNCHANGED <<live, inbox, section, health>>

\* The goroutine returns; nobody reads its channel any more.
Return(w) ==
  /\ AtSelect(w)
  /\ worker[w].state = "stopped"
  /\ worker' = [worker EXCEPT ![w] = FreeWorker]
  /\ UNCHANGED <<live, inbox, section, health>>

-----------------------------------------------------------------------------
\* The environment: a target starts or stops answering.
Flip(t) ==
  /\ \E b \in Behaviours : health' = [health EXCEPT ![t] = b]
  /\ UNCHANGED <<live, inbox, worker, section>>

WorkerStep(w) ==
  \/ LiveChange(w)
  \/ StartCheck(w)
  \/ FinishCheck(w)
  \/ Process(w)
  \/ Return(w)

Next ==
  \/ \E T \in SUBSET Targets : Update(T)
  \/ UpdateWorkers
  \/ \E w \in Slots : WorkerStep(w)
  \/ \E t \in Targets : Flip(t)

Spec == Init /\ [][Next]_vars

\* A removed target is not listed again before its old worker has returned.
\* Discovery runs every few seconds and a stopped worker returns as soon as
\* it is scheduled, but nothing in the code waits for it.
QuietUpdate ==
  \E T \in SUBSET Targets :
    /\ \A t \in T \ Tracked : Stopped(t) = {}
    /\ Update(T)

QuietNext ==
  \/ QuietUpdate
  \/ UpdateWorkers
  \/ \E w \in Slots : WorkerStep(w)
  \/ \E t \in Targets : Flip(t)

QuietSpec == Init /\ [][QuietNext]_vars

\* The goroutines run: the healthcheck loop, the ticker of every worker, its
\* check goroutines (each check has a timeout), and the worker, whose select
\* takes a ready case sooner or later whatever else is ready (SF).
Fairness ==
  /\ WF_vars(UpdateWorkers)
  /\ \A w \in Slots :
       /\ WF_vars(LiveChange(w))
       /\ WF_vars(StartCheck(w))
       /\ SF_vars(FinishCheck(w))
       /\ SF_vars(Process(w))
       /\ SF_vars(Return(w))

FairQuietSpec == QuietSpec /\ Fairness

-----------------------------------------------------------------------------
(* Properties.                                                             *)

\* UpdateWorkers keeps one worker per target: two would send the scheduler
\* alternating verdicts.
OneRunningWorker ==
  \A v, w \in Slots :
    worker[v].state = "running" /\ worker[w].state = "running"
      /\ worker[v].target = worker[w].target => v = w

\* The scheduler's Live flag is the verdict of the target's worker, unless
\* that worker is just sending it.  A worker sends a verdict only when it
\* changes, so a flag that disagrees would stay wrong.
LiveIsVerdict ==
  \A t \in Tracked : \A w \in Running(t) :
    worker[w].sending = None =>
      live[t] = IF worker[w].count.last = "initial" THEN InitialLive
                ELSE worker[w].count.last = "healthy"

\* A target that stays known and stays healthy is live in the end, and one
\* that stays unhealthy is not, whatever stale readings are still on the way.
Converges ==
  \A t \in Targets :
    /\ <>[](t \in Tracked /\ Finding(t) = "healthy") => <>[](t \in Tracked /\ live[t])
    /\ <>[](t \in Tracked /\ Finding(t) = "unhealthy") => <>[](t \in Tracked /\ ~live[t])
=============================================================================
