---------------------------- MODULE BackendPool ----------------------------
(***************************************************************************)
(* What the scheduler promises to the operator of a gobetween server, with *)
(* no counters in it: a backend that discovery stops listing is drained,   *)
(* that is, it takes no new connection and it stays in the pool exactly as *)
(* long as connections that were opened to it are still open (and until    *)
(* discovery speaks next).                                                 *)
(*                                                                         *)
(* Module Scheduler keeps a counter per backend in place of the set of     *)
(* open connections; it implements this specification when discovery never *)
(* lists a removed backend again while a connection still holds it.        *)
(***************************************************************************)
CONSTANTS
  Targets,    \* host:port of every backend that discovery may ever list
  Conns,      \* the client connections (or UDP sessions) of one server
  None        \* the backend of a connection that was given none

VARIABLES
  listed,     \* the targets in the last discovery result
  pool,       \* the targets the server knows
  phase,      \* where each connection is in its life
  taken       \* the backend each connection was given

vars == <<listed, pool, phase, taken>>

Phases == {"new", "dialing", "open", "done"}

Open(t) == {c \in Conns : taken[c] = t /\ phase[c] = "open"}

Init ==
  /\ listed = {}
  /\ pool = {}
  /\ phase = [c \in Conns |-> "new"]
  /\ taken = [c \in Conns |-> None]

\* Discovery speaks: what it lists is in, what it does not list is drained.
Update(L) ==
  /\ listed' = L
  /\ pool' = L \cup {t \in pool : Open(t) # {}}
  /\ UNCHANGED <<phase, taken>>

Take(c, t) ==
  /\ phase[c] = "new"
  /\ t \in listed
  /\ phase' = [phase EXCEPT ![c] = "dialing"]
  /\ taken' = [taken EXCEPT ![c] = t]
  /\ UNCHANGED <<listed, pool>>

\* The dial succeeded.
Opened(c) ==
  /\ phase[c] = "dialing"
  /\ phase' = [phase EXCEPT ![c] = "open"]
  /\ UNCHANGED <<listed, pool, taken>>

\* No backend could be taken, the dial failed, or the connection ended.
Ended(c) ==
  /\ phase[c] # "done"
  /\ phase' = [phase EXCEPT ![c] = "done"]
  /\ UNCHANGED <<listed, pool, taken>>

Next ==
  \/ \E L \in SUBSET Targets : Update(L)
  \/ \E c \in Conns :
       \/ \E t \in Targets : Take(c, t)
       \/ Opened(c)
       \/ Ended(c)

Spec == Init /\ [][Next]_vars
=============================================================================
