---------------------------- MODULE MCScheduler ----------------------------
(* Small instances of module Scheduler.                                    *)
EXTENDS Scheduler

CONSTANTS t1, t2, c1, c2, c3

\* Every subset of the targets can be listed, with limits that change from one
\* result to the next.
AnyLimits == UNION {[D -> {0, 2}] : D \in SUBSET Targets}
=============================================================================
