---------------------------- MODULE MCLifecycle ----------------------------
(* Small instances of module Lifecycle.                                    *)
EXTENDS Lifecycle
=============================================================================
