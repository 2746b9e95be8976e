----------------------------- MODULE MCManager -----------------------------
(* Small instances of module Manager, whose files come from sections.      *)
EXTENDS Manager, Sequences, TLC

CONSTANTS o1, o2, h1

\* An IPv4 address, and an IPv6 address that is written in brackets.
INSTANCE Expansion WITH Bracketed <- {"[::1]"}

b1 == <<"127.0.0.1", 80>>

b2 == <<"127.0.0.1", 81>>

SmallBinds == {b1, b2}

\* A server that says little: static backends, no checks.
Plain ==
  [bind |-> None, binds |-> FALSE, protocol |-> "unset", proxy |-> "none", tls |-> "none",
   backendsTls |-> "none", limited |-> FALSE, transparent |-> FALSE, balance |-> "unset",
   health |-> None, sni |-> None,
   discovery |-> [from |-> None, kind |-> "other", failpolicy |-> "unset", times |-> "unset",
                  protocol |-> "unset", address |-> FALSE, names |-> "unset",
                  addressType |-> "unset"],
   options |-> [p \in Parameters |-> None], sources |-> None]

Backends == [kind |-> "static", list |-> <<<<"db", 70>>, <<"web", None>>>>]

\* A section: what module Expansion looks at, and the server it asks for.
Section(bind, cfg) ==
  [bind |-> bind, binds |-> <<>>, ips |-> <<>>, ports |-> <<>>,
   template |-> "address", matchPort |-> FALSE, discovery |-> Backends, cfg |-> cfg]

WithLimit(v) == [Plain EXCEPT !.options["limit"] = v]

Probing ==
  [Plain EXCEPT !.health =
     [kind |-> "probe", interval |-> "other", timeout |-> "unset", thresholds |-> "unset",
      initial |-> "unset", over |-> "known", strategy |-> "unset", sized |-> FALSE,
      probe |-> "escaped"]]

Acme == [Plain EXCEPT !.protocol = "tls", !.tls = h1]

Udp == [Plain EXCEPT !.protocol = "udp", !.limited = TRUE, !.options["keepalive"] = o2]

Raw(limit, secs) ==
  [defaults |-> [options |-> [p \in Parameters |-> IF p = "limit" THEN limit ELSE None],
                 sources |-> None],
   sections |-> secs]

\* Section 0 with two listeners, whose backends follow the ports.
Matching(list, ips, ports, template) ==
  [Section(None, Plain) EXCEPT !.binds = list, !.ips = ips, !.ports = ports,
                               !.template = template, !.matchPort = TRUE]

\* Two servers; their addresses exchanged, and UDP on one; one with an ACME host;
\* one with a probe that has an escape; and two files that fail at a creation: by
\* sources that cannot be parsed, by two servers on one address.
RawFiles ==
  { Raw(None, 0 :> Section(b1, Plain) @@ 1 :> Section(b2, WithLimit(o1))),
    Raw(o1, 0 :> Section(b2, Udp) @@ 1 :> Section(b1, WithLimit(o1))),
    Raw(o1, 1 :> Section(b1, Acme)),
    Raw(o1, 1 :> Section(b1, Probing)),
    [Raw(o2, 0 :> Section(b1, Plain)) EXCEPT !.defaults.sources = "wrong"],
    Raw(o2, 0 :> Section(b1, Plain) @@ 1 :> Section(b1, WithLimit(o1))) }

\* Lists: two addresses, named by their index, with other defaults; a product,
\* with default names; a list with a probe that has an escape.
ListFiles ==
  { Raw(o2, 0 :> Matching(<<b2, b1>>, <<>>, <<>>, "bare")),
    Raw(o1, 0 :> Matching(<<>>, <<"127.0.0.1">>, <<80, 81>>, "address")),
    Raw(o2, 0 :> [Matching(<<b1, b2>>, <<>>, <<>>, "bare") EXCEPT !.cfg = Probing]) }

\* Sections that are errors: an address and a list, IP addresses without ports,
\* brackets within brackets, a template that cannot be parsed; a name that two
\* sections make.
BadFiles ==
  { Raw(o1, 0 :> [Section(b1, Plain) EXCEPT !.binds = <<b2>>]),
    Raw(o1, 0 :> Matching(<<>>, <<"127.0.0.1">>, <<>>, "index")),
    Raw(o1, 0 :> Matching(<<>>, <<"[::1]">>, <<80>>, "index")),
    Raw(o1, 0 :> Matching(<<b1>>, <<>>, <<>>, "unparsable")),
    Raw(o1, 0 :> Section(b1, Plain)
            @@ 1 :> [Section(None, Plain) EXCEPT !.binds = <<b2>>, !.template = "bare"]) }

\* Servers that prepareConfig rejects, one for each of its errors.
Checked(h) == [Plain EXCEPT !.health = h]

Check == [Probing.health EXCEPT !.kind = "ping"]

HostNames == [wait |-> "unset", unexpected |-> "other", matching |-> "unset"]

Rejected ==
  { [Plain EXCEPT !.discovery = None],
    [Plain EXCEPT !.balance = "wrong"],
    [Plain EXCEPT !.sources = "wrong"],
    [Plain EXCEPT !.protocol = "wrong"],
    [Plain EXCEPT !.protocol = "tls"],
    [Plain EXCEPT !.tls = "bare"],
    [Plain EXCEPT !.backendsTls = "half"],
    [Plain EXCEPT !.proxy = "1"],
    [Plain EXCEPT !.proxy = "unset", !.protocol = "tcp"],
    [Udp EXCEPT !.proxy = "1"],
    [Udp EXCEPT !.backendsTls = "whole"],
    [Udp EXCEPT !.limited = FALSE],
    [Udp EXCEPT !.transparent = TRUE, !.sources = "pool"],
    [Udp EXCEPT !.health = Check],
    [Plain EXCEPT !.sni = [HostNames EXCEPT !.wait = "wrong"]],
    [Plain EXCEPT !.discovery.failpolicy = "wrong"],
    [Plain EXCEPT !.discovery.kind = "srv", !.discovery.protocol = "wrong"],
    [Plain EXCEPT !.discovery.kind = "lxd"],
    Checked([Check EXCEPT !.kind = "wrong"]),
    Checked([Check EXCEPT !.interval = "unset"]),
    Checked([Check EXCEPT !.timeout = "wrong"]),
    Checked([Check EXCEPT !.initial = "wrong"]),
    Checked([Probing.health EXCEPT !.over = "wrong"]),
    Checked([Probing.health EXCEPT !.sized = TRUE]),
    Checked([Probing.health EXCEPT !.probe = "missing"]) }

RejectedFiles ==
  {Raw(o1, 0 :> Section(b1, cfg)) : cfg \in Rejected} \cup {Raw(o1, 0 :> Section(None, Plain))}

\* Names as numbers.
Number(name) ==
  IF Len(name) = 1 THEN name[1]
  ELSE IF Len(name) = 2 THEN 2 ELSE name[3] - 79

\* The server of a section that was expanded.  The children of one section share
\* its healthcheck: the second to be prepared finds the probe unquoted.
Kept(s, alone) ==
  [s.cfg EXCEPT
     !.bind = s.bind,
     !.health = IF @ = None \/ alone THEN @
                ELSE [@ EXCEPT !.probe = IF @ = "escaped" THEN "unquoted" ELSE @],
     !.discovery = IF @ = None THEN @ ELSE [@ EXCEPT !.from = s.discovery]]

File(raw) ==
  LET all == rawExpandedServers(raw.sections)
  IN [defaults |-> raw.defaults,
      servers |-> [n \in {Number(c) : c \in DOMAIN all} |->
                     Kept(all[CHOOSE c \in DOMAIN all : Number(c) = n],
                          Cardinality(DOMAIN all) = Cardinality(DOMAIN raw.sections))]]

Raws == RawFiles \cup ListFiles \cup BadFiles \cup RejectedFiles

\* A file with an error is rejected before the manager looks at its servers.
Loadable == {raw \in Raws : NoError(raw.sections)}

SmallFiles == {File(raw) : raw \in Loadable}

\* The discovery sections of servers that have one.
SmallDiscoveries ==
  {d.from : d \in UNION {{f.servers[n].discovery : n \in DOMAIN f.servers} : f \in SmallFiles}
                   \ {None}}

\* A server with an ACME host; one for UDP whose section [tls] has it too; one
\* with a list of addresses, which the REST API does not expand.
SmallPosted ==
  { Kept(Section(b2, cfg), TRUE) :
      cfg \in {[Acme EXCEPT !.options["limit"] = o1], [Udp EXCEPT !.tls = h1],
               [Plain EXCEPT !.binds = TRUE]} }

-----------------------------------------------------------------------------
\* The listeners a section asks for, each with its backends.
Asked(s) ==
  LET Matched(b) == [s.discovery EXCEPT !.list =
                       [i \in DOMAIN @ |-> <<@[i][1], IF @[i][2] = None THEN None ELSE b[2]>>]]
      addresses  == {s.binds[i] : i \in DOMAIN s.binds}
                      \cup {<<s.ips[i], s.ports[j]>> : i \in DOMAIN s.ips, j \in DOMAIN s.ports}
  IN IF addresses = {} THEN {<<s.bind, s.discovery>>}
     ELSE {<<b, IF s.matchPort THEN Matched(b) ELSE s.discovery>> : b \in addresses}

\* A reload that reports success listens on every address that the sections of
\* its file list or multiply, no other, and each listener has the backends with
\* the ports that are its own: no server has taken the name of another, and
\* none has the rewritten list of another (manager.go:893).
ServesSections ==
  reload.at = "apply" /\ reload'.outcome = "ok" =>
    \E raw \in Loadable :
      /\ reload.file = File(raw)
      /\ {<<Configs'[n].bind, Configs'[n].discovery.from>> : n \in DOMAIN Configs'}
           = UNION {Asked(raw.sections[m]) : m \in DOMAIN raw.sections}

SectionsServed == [][ServesSections]_vars
=============================================================================
