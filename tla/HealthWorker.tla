---------------------------- MODULE HealthWorker ----------------------------
(***************************************************************************)
(* One healthcheck worker and the results it is given, with a record of    *)
(* what it was given: does the verdict the scheduler hears follow from the *)
(* checks in the way the configuration file says it does?                  *)
(***************************************************************************)
EXTENDS HealthCounting

VARIABLES
  counters,   \* Worker.LastResult.Status, passes and fails
  verdict,    \* the last result sent to the scheduler, "none" before any
  streak,     \* history: the latest result and how many in a row were equal
  votes       \* history: results of each kind since the verdict last changed

vars == <<counters, verdict, streak, votes>>

\* The history counters saturate here: no property looks further.
Enough == IF Fails > Passes THEN Fails ELSE Passes

Saturated(n) == IF n >= Enough THEN Enough ELSE n + 1

TypeOK ==
  /\ counters \in [last : Statuses, passes : Nat, fails : Nat]
  /\ verdict \in Statuses \cup {"none"}
  /\ streak \in [of : Statuses \cup {"none"}, length : 0..Enough]
  /\ votes \in [Statuses -> 0..Enough]

Init ==
  /\ counters = NewCounters
  /\ verdict = "none"
  /\ streak = [of |-> "none", length |-> 0]
  /\ votes = [s \in Statuses |-> 0]

\* The worker takes result r from its channel and processes it.
Process(r) ==
  /\ counters' = Processed(counters, r)
  /\ verdict' = IF Confirms(counters, r) THEN r ELSE verdict
  /\ streak' = [of |-> r, length |-> IF r = streak.of THEN Saturated(streak.length) ELSE 1]
  /\ votes' = IF Confirms(counters, r) THEN [s \in Statuses |-> 0]
              ELSE [votes EXCEPT ![r] = Saturated(@)]

Next == \E r \in Results : Process(r)

Spec == Init /\ [][Next]_vars

-----------------------------------------------------------------------------
(* Properties.                                                             *)

\* fails checks in a row mark the backend unhealthy and passes checks in a
\* row mark it healthy, whatever came before them.
Responsive ==
  /\ streak.of = "unhealthy" /\ streak.length >= Fails => verdict = "unhealthy"
  /\ streak.of = "healthy" /\ streak.length >= Passes => verdict = "healthy"

\* The verdict turns only on enough results against it, counted since it
\* last turned: one late or stray result is not enough.
TurnsOnVotes ==
  /\ verdict' = "unhealthy" /\ verdict # "unhealthy" => votes["unhealthy"] + 1 >= Fails
  /\ verdict' = "healthy" /\ verdict # "healthy" => votes["healthy"] + 1 >= Passes
  /\ verdict' # "initial"

NoHastyVerdict == [][TurnsOnVotes]_vars

\* "consecutive number of checks that should fail, to mark backend as
\* unhealthy": not so, a pass between two failures does not restart the count.
ConsecutiveFails ==
  [][verdict' = "unhealthy" /\ verdict # "unhealthy" => streak'.length >= Fails]_vars

\* The scheduler takes a backend out on any verdict but "healthy".  It hears
\* one only after a failed check: not so for an exec check's odd output.
DownOnlyAfterFailure ==
  [][verdict = "healthy" /\ verdict' # "healthy" => streak'.of = "unhealthy"]_vars
=============================================================================
