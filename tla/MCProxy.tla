------------------------------ MODULE MCProxy ------------------------------
(* A small instance of module Proxy.                                       *)
EXTENDS Proxy

\* Two writes, so that sums are built, and a direction that has just one.
SmallWriteBound == [d \in Directions |-> IF d = "rx" THEN 2 ELSE 1]
=============================================================================
