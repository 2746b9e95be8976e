--------------------------- MODULE HealthCounting ---------------------------
(***************************************************************************)
(* How a healthcheck worker counts (src/src/healthcheck/worker.go,         *)
(* Worker.process): a pure step from the worker's counters and one check   *)
(* result to its new counters.                                             *)
(***************************************************************************)
EXTENDS Integers

CONSTANTS
  Fails,    \* healthcheck.fails
  Passes,   \* healthcheck.passes
  Results   \* what the check of the configured kind can report

\* The configuration loader replaces anything below 1 by 1.
ASSUME CountingAssumption == Fails \in Nat \ {0} /\ Passes \in Nat \ {0}

\* "initial" is also what an exec check with unexpected output reports.
Statuses == {"initial", "unhealthy", "healthy"}

ASSUME ResultsAssumption == Results \subseteq Statuses

NewCounters == [last |-> "initial", passes |-> 0, fails |-> 0]

\* A result equal to LastResult returns at once and leaves the counters alone.
Ignores(w, r) == r = w.last

\* Mutant: a failure leaves the passes standing.
CountedKeepsPasses(w, r) ==
  CASE r = "unhealthy" -> [last |-> w.last, passes |-> w.passes, fails |-> w.fails + 1]
    [] r = "healthy"   -> [last |-> w.last, passes |-> w.passes + 1, fails |-> 0]
    [] OTHER           -> w

\* The counters after result r has been counted.
Counted(w, r) ==
  CASE r = "unhealthy" -> [last |-> w.last, passes |-> 0, fails |-> w.fails + 1]
    [] r = "healthy"   -> [last |-> w.last, passes |-> w.passes + 1, fails |-> 0]
    [] OTHER           -> w

\* Mutant: one failure too early.
ConfirmsEarly(w, r) ==
  /\ ~Ignores(w, r)
  /\ LET n == Counted(w, r)
     IN \/ n.passes = 0 /\ n.fails >= Fails - 1
        \/ n.fails = 0 /\ n.passes >= Passes

\* Whether the counted result becomes LastResult and goes to the scheduler.
Confirms(w, r) ==
  /\ ~Ignores(w, r)
  /\ LET n == Counted(w, r)
     IN \/ n.passes = 0 /\ n.fails >= Fails
        \/ n.fails = 0 /\ n.passes >= Passes

\* Mutant: LastResult is set before the threshold is reached.
ProcessedEagerly(w, r) ==
  IF Ignores(w, r) THEN w ELSE [Counted(w, r) EXCEPT !.last = r]

\* The counters when process(r) comes to its send or returns.
Processed(w, r) ==
  IF Ignores(w, r) THEN w
  ELSE IF Confirms(w, r) THEN [Counted(w, r) EXCEPT !.last = r]
  ELSE Counted(w, r)
=============================================================================
