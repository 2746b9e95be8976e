--------------------------- MODULE HealthHistory ---------------------------
(***************************************************************************)
(* Module Healthcheck with the history that module HealthWorker keeps, for *)
(* the workers of one slot: the results are those that come through the    *)
(* slow checks and the channel of capacity 1.                              *)
(***************************************************************************)
EXTENDS Healthcheck

CONSTANT Watched    \* the slot whose worker is looked at

ASSUME WatchedAssumption == Watched \in Slots

VARIABLES verdict, streak, votes

history == <<verdict, streak, votes>>

TheWorker == INSTANCE HealthWorker WITH counters <- worker[Watched].count

HistoryInit == Init /\ TheWorker!Init

\* The watched worker processes a result; when it has returned, its slot is
\* for another worker.
WatchedProcess == Process(Watched) /\ TheWorker!Process(worker[Watched].slot)

WatchedReturn ==
  /\ Return(Watched)
  /\ verdict' = "none"
  /\ streak' = [of |-> "none", length |-> 0]
  /\ votes' = [s \in Statuses |-> 0]

Unwatched(w) ==
  \/ LiveChange(w)
  \/ StartCheck(w)
  \/ FinishCheck(w)
  \/ w # Watched /\ Process(w)
  \/ w # Watched /\ Return(w)

Others ==
  \/ QuietUpdate
  \/ UpdateWorkers
  \/ \E w \in Slots : Unwatched(w)
  \/ \E t \in Targets : Flip(t)

HistoryNext == WatchedProcess \/ WatchedReturn \/ (Others /\ UNCHANGED history)

HistorySpec == HistoryInit /\ [][HistoryNext]_<<vars, history>> /\ Fairness

\* fails failures in a row, as the worker got them, mark the backend
\* unhealthy and passes passes in a row mark it healthy (worker.go:107).
Responsive == TheWorker!Responsive

\* No verdict turns on fewer results against it than its threshold, counted
\* since it last turned: one stray result is not enough (worker.go:115).
NoHastyVerdict == TheWorker!NoHastyVerdict
=============================================================================
