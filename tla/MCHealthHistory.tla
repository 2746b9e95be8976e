-------------------------- MODULE MCHealthHistory --------------------------
(***************************************************************************)
(* One section of each kind, and a target that is well, refuses, or takes  *)
(* connections and gives the wrong answer.                                 *)
(***************************************************************************)
EXTENDS HealthHistory

MCSections == {[kind |-> "ping",  proxy |-> "1",    over |-> "tcp"],
               [kind |-> "probe", proxy |-> "2",    over |-> "udp"],
               [kind |-> "exec",  proxy |-> "none", over |-> "tcp"]}

MCBehaviours == {[accepts |-> TRUE,  takes |-> TRUE,  says |-> "right"],
                 [accepts |-> TRUE,  takes |-> FALSE, says |-> "wrong"],
                 [accepts |-> FALSE, takes |-> FALSE, says |-> "nothing"]}
=============================================================================
