---------------------------- MODULE MCTcpServer ----------------------------
(* A small instance of module TcpServer.                                   *)
EXTENDS TcpServer, TLC

CONSTANTS t1, a1, a2, a3

SmallListings == { t1 :> 0 }

\* a2 is denied before its network, with a1 in it, is allowed; a3 matches
\* no rule.
SmallRules == << [allow |-> FALSE, matches |-> {a2}], [allow |-> TRUE, matches |-> {a1, a2}] >>
=============================================================================
