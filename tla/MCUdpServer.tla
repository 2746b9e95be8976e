---------------------------- MODULE MCUdpServer ----------------------------
(* Small instances of module UdpServer: static discovery of backends that  *)
(* take one session each.                                                  *)
EXTENDS UdpServer

OneEach == {[t \in Targets |-> 1]}
=============================================================================
