----------------------------- MODULE Expansion -----------------------------
(***************************************************************************)
(* From the [servers] sections of a file to one configuration per listen   *)
(* address (src/src/manager/manager.go: expandBinds, formatBindAddress,    *)
(* rewriteStaticListPorts, rawExpandedServers).                            *)
(*                                                                         *)
(* An address is <<host, port>>.  A section is a record with the fields    *)
(* bind, binds, ips, ports, template, matchPort and discovery; whatever    *)
(* other fields it has are passed on.  A template is known by the form of  *)
(* the names it makes: "address", "index", "bare", or it is "unparsable".  *)
(***************************************************************************)
EXTENDS Integers, Sequences, FiniteSetsExt

CONSTANTS
  None,        \* no address, no port, or an address that cannot be split
  Bracketed    \* IP addresses that are written in brackets already

HasIPsPorts(s) == s.ips # <<>> \/ s.ports # <<>>

\* The three ways to give addresses exclude each other.
Conflicting(s) ==
  \/ s.bind # None /\ s.binds # <<>>
  \/ s.bind # None /\ HasIPsPorts(s)
  \/ s.binds # <<>> /\ HasIPsPorts(s)

\* JoinHostPort puts brackets around brackets, and SplitHostPort refuses that.
formatBindAddress(ip, port) == IF ip \in Bracketed THEN None ELSE <<ip, port>>

\* Every IP address with every port, in the order of the two loops.
Product(ips, ports) ==
  [k \in 1..(Len(ips) * Len(ports)) |->
     formatBindAddress(ips[((k - 1) \div Len(ports)) + 1], ports[((k - 1) % Len(ports)) + 1])]

Listed(s) == IF HasIPsPorts(s) THEN Product(s.ips, s.ports) ELSE s.binds

\* "address" is the default; a template that fails at execution makes index
\* names; a "bare" one leaves out the section's name.
ChildName(n, s, i) ==
  CASE s.template = "address" -> <<n, Listed(s)[i][1], Listed(s)[i][2]>>
    [] s.template = "index"   -> <<n, i - 1>>
    [] OTHER                  -> <<i - 1>>

\* Every backend gets the listener's port, but those written without one.
rewriteStaticListPorts(d, port) ==
  IF d.kind # "static" THEN d
  ELSE [d EXCEPT !.list =
          [i \in DOMAIN @ |-> IF @[i][2] = None THEN @[i] ELSE <<@[i][1], port>>]]

\* Mutant: the static list is rewritten in place, for all children.
ChildShared(s, addr) ==
  [s EXCEPT !.bind = addr, !.binds = <<>>, !.ips = <<>>, !.ports = <<>>,
            !.discovery = IF s.matchPort
                          THEN rewriteStaticListPorts(@, Listed(s)[Len(Listed(s))][2])
                          ELSE @]

Child(s, addr) ==
  [s EXCEPT !.bind = addr, !.binds = <<>>, !.ips = <<>>, !.ports = <<>>,
            !.discovery = IF s.matchPort THEN rewriteStaticListPorts(@, addr[2]) ELSE @]

\* A name that two addresses would get is an error.
UniqueNames(n, s) ==
  \A i, j \in DOMAIN Listed(s) : ChildName(n, s, i) = ChildName(n, s, j) => i = j

\* The section gives no error.
Expandable(n, s) ==
  /\ ~Conflicting(s)
  /\ HasIPsPorts(s) => s.ips # <<>> /\ s.ports # <<>>
  /\ Listed(s) # <<>> =>
       /\ s.template # "unparsable"
       /\ \A i \in DOMAIN Listed(s) : Listed(s)[i] # None
       /\ UniqueNames(n, s)

\* A section without a list is passed through, with match_port or without.
expandBinds(n, s) ==
  IF Listed(s) = <<>> THEN [m \in {<<n>>} |-> s]
  ELSE [m \in {ChildName(n, s, i) : i \in DOMAIN Listed(s)} |->
          Child(s, Listed(s)[Max({i \in DOMAIN Listed(s) : ChildName(n, s, i) = m})])]

\* rawExpandedServers returns no error: every section is expanded, and no two
\* make the same name.
NoError(secs) ==
  /\ \A n \in DOMAIN secs : Expandable(n, secs[n])
  /\ \A m, n \in DOMAIN secs :
       m # n => DOMAIN expandBinds(m, secs[m]) \cap DOMAIN expandBinds(n, secs[n]) = {}

rawExpandedServers(secs) ==
  LET of(c) == CHOOSE n \in DOMAIN secs : c \in DOMAIN expandBinds(n, secs[n])
  IN [c \in UNION {DOMAIN expandBinds(n, secs[n]) : n \in DOMAIN secs} |->
        expandBinds(of(c), secs[of(c)])[c]]
=============================================================================
