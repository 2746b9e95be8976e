---------------------------- MODULE Preparation ----------------------------
(***************************************************************************)
(* Preparing the configuration of one server (src/src/manager/manager.go:  *)
(* prepareConfig, normalizeDefaults): what is rejected, what is filled in, *)
(* and what of it is written into the sections that the prepared copy      *)
(* shares with the original.                                               *)
(*                                                                         *)
(* A setting is not given, has its default, has another value that the     *)
(* code accepts, or one that it refuses.  Settings that are treated alike  *)
(* share a field: `thresholds' are fails and passes, `times' interval and  *)
(* timeout of a discovery, "idle" both idle timeouts, "keepalive" the four *)
(* settings of TCP keepalive, "limit" max_connections and the timeout of   *)
(* connecting.                                                             *)
(***************************************************************************)
CONSTANTS
  Binds,        \* listen addresses
  Options,      \* values of a connection option
  Usual,        \* the built-in one
  Hosts,        \* ACME hosts
  Discoveries,  \* where backends come from
  None          \* no address, no value, no section

Setting == {"unset", "default", "other", "wrong"}

Defaulted(v) == IF v = "unset" THEN "default" ELSE v

-----------------------------------------------------------------------------
(* Configurations.                                                         *)

\* What a probe compares with needs no unquoting, has an escape, or has been
\* unquoted: it has, say, a newline then, which strconv.Unquote refuses.  With
\* strategy "other" it is a regular expression; `sized': probe_recv_len is given.
Health ==
  [kind : {"none", "ping", "probe", "exec", "wrong"},
   interval : Setting, timeout : Setting, thresholds : Setting, initial : Setting,
   over : {"known", "wrong"}, strategy : Setting, sized : BOOLEAN,
   probe : {"missing", "plain", "escaped", "unquoted"}]

Sni == [wait : Setting, unexpected : Setting, matching : Setting]

\* The names and addressType are those of LXD, the protocol that of SRV.
Discovery ==
  [from : Discoveries, kind : {"srv", "lxd", "other"},
   failpolicy : Setting, times : Setting, protocol : Setting,
   address : BOOLEAN, names : Setting, addressType : Setting]

Parameters == {"limit", "idle", "keepalive"}

Sources == {"empty", "pool", "wrong"}

\* The section [tls]: absent, without paths, with both, or with an ACME host.
Config ==
  [bind : Binds \cup {None}, binds : BOOLEAN,
   protocol : {"unset", "tcp", "udp", "tls", "wrong"},
   proxy : {"none", "unset", "1", "2", "wrong"},
   tls : Hosts \cup {"none", "bare", "keys"},
   backendsTls : {"none", "whole", "half"},
   limited : BOOLEAN,        \* udp.max_requests or max_responses
   transparent : BOOLEAN, balance : Setting,
   health : Health \cup {None}, sni : Sni \cup {None},
   discovery : Discovery \cup {None},
   options : [Parameters -> Options \cup {None}],
   sources : Sources \cup {None}]

GivenDefaults ==
  [options : [Parameters -> Options \cup {None}], sources : Sources \cup {None}]

Defaults == [options : [Parameters -> Options], sources : Sources]

ASSUME PreparationAssumption ==
  /\ Usual \in Options
  /\ None \notin Options /\ None \notin Sources
  /\ None \notin Health /\ None \notin Sni /\ None \notin Discovery

-----------------------------------------------------------------------------
(* Defaults.                                                               *)

Filled(options, from) ==
  [p \in Parameters |-> IF options[p] = None THEN from[p] ELSE options[p]]

normalizeDefaults(d) ==
  [options |-> Filled(d.options, [p \in Parameters |-> Usual]),
   sources |-> IF d.sources = None THEN "empty" ELSE d.sources]

-----------------------------------------------------------------------------
(* Sections: what is accepted, and what they are after it.                 *)

\* An interval of 0, the default, is for servers without checks only.
ValidHealth(h) ==
  /\ "wrong" \notin {h.kind, h.interval, h.timeout, h.initial}
  /\ h.kind # "none" => h.interval = "other"
  /\ h.kind = "probe" =>
       /\ h.over # "wrong" /\ h.strategy # "wrong"
       /\ h.probe \notin {"missing", "unquoted"}
       /\ h.sized <=> h.strategy = "other"

PreparedHealth(h) ==
  LET probes == h.kind = "probe"
  IN [h EXCEPT !.interval = Defaulted(@), !.timeout = Defaulted(@),
               !.thresholds = Defaulted(@),
               !.strategy = IF probes THEN Defaulted(@) ELSE @,
               !.probe = IF probes /\ @ = "escaped" THEN "unquoted" ELSE @]

NoHealthcheck ==
  [kind |-> "none", interval |-> "default", timeout |-> "default",
   thresholds |-> "default", initial |-> "unset", over |-> "wrong",
   strategy |-> "unset", sized |-> FALSE, probe |-> "missing"]

ValidSni(s) == "wrong" \notin {s.wait, s.unexpected, s.matching}

PreparedSni(s) ==
  [s EXCEPT !.wait = Defaulted(@), !.unexpected = Defaulted(@), !.matching = Defaulted(@)]

ValidDiscovery(d) ==
  /\ d.failpolicy # "wrong"
  /\ d.kind = "srv" => d.protocol # "wrong"
  /\ d.kind = "lxd" => d.address /\ d.addressType # "wrong"

PreparedDiscovery(d) ==
  [d EXCEPT !.failpolicy = Defaulted(@), !.times = Defaulted(@),
            !.protocol = IF d.kind = "srv" THEN Defaulted(@) ELSE @,
            !.names = IF d.kind = "lxd" THEN Defaulted(@) ELSE @,
            !.addressType = IF d.kind = "lxd" THEN Defaulted(@) ELSE @]

-----------------------------------------------------------------------------
(* The server.                                                             *)

\* The protocol must be given with it, if only as the default one.
ValidProxyProtocol(cfg) ==
  cfg.proxy # "none" =>
    /\ cfg.proxy \in {"1", "2"} /\ cfg.protocol \in {"tcp", "udp"}
    /\ cfg.protocol = "udp" => cfg.proxy = "2"

ValidTls(cfg) == cfg.tls # "bare" /\ cfg.backendsTls # "half"

\* Looked at before the defaults come in: neither an inherited idle timeout nor
\* inherited sources count here.
ValidProtocol(cfg) ==
  /\ cfg.protocol # "wrong"
  /\ cfg.protocol = "tls" => cfg.tls # "none"
  /\ cfg.protocol = "udp" =>
       /\ cfg.backendsTls = "none"
       /\ cfg.limited \/ cfg.options["idle"] # None
       /\ ~(cfg.transparent /\ cfg.sources = "pool")
       /\ cfg.health # None => cfg.health.kind # "ping"

\* prepareConfig returns no error.
Valid(cfg) ==
  /\ cfg.bind # None /\ ~cfg.binds /\ cfg.discovery # None
  /\ cfg.health # None => ValidHealth(cfg.health)
  /\ cfg.sni # None => ValidSni(cfg.sni)
  /\ ValidDiscovery(cfg.discovery)
  /\ ValidProxyProtocol(cfg) /\ ValidTls(cfg) /\ ValidProtocol(cfg)
  /\ "wrong" \notin {cfg.sources, cfg.balance}

\* What prepareConfig leaves in the configuration it was given: the sections
\* behind pointers are prepared in place.
Touched(cfg) ==
  [cfg EXCEPT !.health = IF @ = None THEN @ ELSE PreparedHealth(@),
              !.sni = IF @ = None THEN @ ELSE PreparedSni(@),
              !.discovery = IF @ = None THEN @ ELSE PreparedDiscovery(@)]

\* TCP keepalive is not for UDP: reloads shall not see a difference in it.
PreparedOptions(cfg, defaults) ==
  LET filled == Filled(cfg.options, defaults.options)
  IN [p \in Parameters |->
        IF cfg.protocol = "udp" /\ p = "keepalive" THEN None ELSE filled[p]]

prepareConfig(cfg, defaults) ==
  [Touched(cfg) EXCEPT
     !.health = IF @ = None THEN NoHealthcheck ELSE @,
     !.protocol = IF @ = "unset" THEN "tcp" ELSE @,
     !.balance = Defaulted(@),
     !.options = PreparedOptions(cfg, defaults),
     !.sources = IF @ = None THEN defaults.sources ELSE @]
=============================================================================
