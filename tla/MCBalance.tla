----------------------------- MODULE MCBalance -----------------------------
(* Small instances of module Balance.                                      *)
EXTENDS Balance

Profile(p, w, a, m, b, sni) ==
  [priority |-> p, weight |-> w, active |-> a, max |-> m, bandwidth |-> b, sni |-> sni]

\* Two priorities, weight 0, a full backend, and sni "*" for a regular
\* expression that matches every name.
SomeProfiles ==
  {Profile(0, 2, 1, 0, 5, "a"), Profile(0, 0, 0, 1, 3, "a"), Profile(1, 1, 1, 1, 0, "a"),
   Profile(1, 3, 2, 4, 3, ""), Profile(0, 1, 0, 0, 1, "*")}

SomeMatches ==
  {<<"a", "a">>, <<"", "">>, <<"*", "a">>, <<"*", "">>}

SomeHashes == {h \in [Targets -> 1..Cardinality(Targets)] : IsInjective(h)}
=============================================================================
