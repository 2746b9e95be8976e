--------------------------- MODULE ManagerProofs ---------------------------
(* Proofs about module Manager: for any names, files and posted servers.   *)
EXTENDS Manager, TLAPS

-----------------------------------------------------------------------------
(* Partial functions.                                                      *)

\* A partial function is a function whose domain is a part of the whole.
LEMMA PartialIs ==
  ASSUME NEW D, NEW R, NEW f
  PROVE  f \in Partial(D, R) <=> DOMAIN f \subseteq D /\ f \in [DOMAIN f -> R]
BY DEF Partial

\* With and Without change a partial function at one argument.
LEMMA WithIs ==
  ASSUME NEW D, NEW R, NEW f \in Partial(D, R), NEW n \in D, NEW v \in R
  PROVE  /\ With(f, n, v) \in Partial(D, R)
         /\ DOMAIN With(f, n, v) = DOMAIN f \cup {n}
         /\ With(f, n, v)[n] = v
         /\ \A m \in DOMAIN f \ {n} : With(f, n, v)[m] = f[m]
<1>1. DOMAIN f \subseteq D /\ f \in [DOMAIN f -> R]
  BY PartialIs
<1>2. With(f, n, v) \in [DOMAIN f \cup {n} -> R]
  BY <1>1 DEF With
<1>3. DOMAIN With(f, n, v) = DOMAIN f \cup {n}
  BY DEF With
<1>4. With(f, n, v) \in Partial(D, R)
  BY <1>1, <1>2, <1>3, PartialIs
<1> QED
  BY <1>3, <1>4 DEF With

\* Without takes one argument away and keeps the others.
LEMMA WithoutIs ==
  ASSUME NEW D, NEW R, NEW f \in Partial(D, R), NEW n \in D
  PROVE  /\ Without(f, n) \in Partial(D, R)
         /\ DOMAIN Without(f, n) = DOMAIN f \ {n}
         /\ \A m \in DOMAIN f \ {n} : Without(f, n)[m] = f[m]
<1>1. DOMAIN f \subseteq D /\ f \in [DOMAIN f -> R]
  BY PartialIs
<1>2. Without(f, n) \in [DOMAIN f \ {n} -> R]
  BY <1>1 DEF Without
<1>3. DOMAIN Without(f, n) = DOMAIN f \ {n}
  BY DEF Without
<1>4. Without(f, n) \in Partial(D, R)
  BY <1>1, <1>2, <1>3, PartialIs
<1> QED
  BY <1>3, <1>4 DEF Without

-----------------------------------------------------------------------------
(* Preparing one configuration.                                            *)

\* A setting that has its default is not given another one.
LEMMA DefaultedIs ==
  ASSUME NEW v \in Setting
  PROVE  Defaulted(v) \in Setting /\ Defaulted(Defaulted(v)) = Defaulted(v)
BY DEF Setting, Defaulted

\* A healthcheck section is complete after it was prepared once.
LEMMA HealthIs ==
  /\ \A h \in Health : /\ PreparedHealth(h) \in Health
                       /\ PreparedHealth(PreparedHealth(h)) = PreparedHealth(h)
  /\ NoHealthcheck \in Health /\ PreparedHealth(NoHealthcheck) = NoHealthcheck
<1>1. ASSUME NEW h \in Health
      PROVE  /\ PreparedHealth(h) \in Health
             /\ PreparedHealth(PreparedHealth(h)) = PreparedHealth(h)
  <2>1. PreparedHealth(h) \in Health
    BY DefaultedIs DEF Health, PreparedHealth
  <2>2. PreparedHealth(PreparedHealth(h)) = PreparedHealth(h)
    BY DefaultedIs DEF Health, PreparedHealth
  <2> QED
    BY <2>1, <2>2
<1>2. NoHealthcheck \in Health
  BY DEF NoHealthcheck, Health, Setting
<1>3. PreparedHealth(NoHealthcheck) = NoHealthcheck
  BY DEF NoHealthcheck, PreparedHealth, Defaulted
<1> QED
  BY <1>1, <1>2, <1>3

LEMMA SniIs ==
  ASSUME NEW s \in Sni
  PROVE  PreparedSni(s) \in Sni /\ PreparedSni(PreparedSni(s)) = PreparedSni(s)
BY DefaultedIs DEF Sni, PreparedSni

LEMMA DiscoveryIs ==
  ASSUME NEW d \in Discovery
  PROVE  /\ PreparedDiscovery(d) \in Discovery
         /\ PreparedDiscovery(PreparedDiscovery(d)) = PreparedDiscovery(d)
BY DefaultedIs DEF Discovery, PreparedDiscovery

\* Options come from the server or from the defaults.
LEMMA FilledIs ==
  ASSUME NEW options \in [Parameters -> Options \cup {None}],
         NEW from \in [Parameters -> Options]
  PROVE  Filled(options, from) \in [Parameters -> Options]
BY DEF Filled

\* The defaults of a file are complete once they were normalized.
LEMMA NormalizedIs ==
  ASSUME NEW d \in GivenDefaults
  PROVE  normalizeDefaults(d) \in Defaults
<1>1. [p \in Parameters |-> Usual] \in [Parameters -> Options]
  BY PreparationAssumption
<1>2. Filled(d.options, [p \in Parameters |-> Usual]) \in [Parameters -> Options]
  BY <1>1, FilledIs DEF GivenDefaults
<1>3. (IF d.sources = None THEN "empty" ELSE d.sources) \in Sources
  BY DEF GivenDefaults, Sources
<1> QED
  BY <1>2, <1>3 DEF normalizeDefaults, Defaults

\* Options that were filled in stay; those that UDP does not have stay away.
LEMMA OptionsIs ==
  ASSUME NEW cfg \in Config, NEW d \in Defaults
  PROVE  /\ PreparedOptions(cfg, d) \in [Parameters -> Options \cup {None}]
         /\ \A c, e : /\ c.options = PreparedOptions(cfg, d)
                      /\ c.protocol = "udp" <=> cfg.protocol = "udp"
                      => PreparedOptions(c, e) = PreparedOptions(cfg, d)
<1>1. Filled(cfg.options, d.options) \in [Parameters -> Options]
  BY FilledIs DEF Config, Defaults
<1>2. PreparedOptions(cfg, d) \in [Parameters -> Options \cup {None}]
  BY <1>1 DEF PreparedOptions
<1>3. ASSUME NEW c, NEW e, c.options = PreparedOptions(cfg, d),
             c.protocol = "udp" <=> cfg.protocol = "udp"
      PROVE  PreparedOptions(c, e) = PreparedOptions(cfg, d)
  <2>1. ASSUME NEW p \in Parameters
        PROVE  PreparedOptions(c, e)[p] = PreparedOptions(cfg, d)[p]
    <3>1. CASE cfg.protocol = "udp" /\ p = "keepalive"
      BY <1>3, <3>1 DEF PreparedOptions
    <3>2. CASE ~(cfg.protocol = "udp" /\ p = "keepalive")
      <4>1. PreparedOptions(cfg, d)[p] = Filled(cfg.options, d.options)[p]
        BY <3>2 DEF PreparedOptions
      <4>2. PreparedOptions(c, e)[p] = Filled(c.options, e.options)[p]
        BY <1>3, <3>2 DEF PreparedOptions
      <4>3. c.options[p] # None
        BY <1>1, <1>3, <4>1, PreparationAssumption
      <4> QED
        BY <1>3, <4>2, <4>3 DEF Filled
    <3> QED
      BY <3>1, <3>2
  <2> QED
    BY <2>1 DEF PreparedOptions
<1> QED
  BY <1>2, <1>3

\* What preparing leaves behind is a configuration, and stays as it is.
LEMMA TouchedIs ==
  ASSUME NEW cfg \in Config
  PROVE  Touched(cfg) \in Config /\ Touched(Touched(cfg)) = Touched(cfg)
<1> DEFINE health == IF cfg.health = None THEN None ELSE PreparedHealth(cfg.health)
           sni == IF cfg.sni = None THEN None ELSE PreparedSni(cfg.sni)
           discovery == IF cfg.discovery = None THEN None ELSE PreparedDiscovery(cfg.discovery)
<1>1. Touched(cfg) = [cfg EXCEPT !.health = health, !.sni = sni, !.discovery = discovery]
  BY DEF Touched
<1>2. /\ health \in Health \cup {None}
      /\ (IF health = None THEN None ELSE PreparedHealth(health)) = health
  BY HealthIs, PreparationAssumption DEF Config
<1>3. /\ sni \in Sni \cup {None}
      /\ (IF sni = None THEN None ELSE PreparedSni(sni)) = sni
  BY SniIs, PreparationAssumption DEF Config
<1>4. /\ discovery \in Discovery \cup {None}
      /\ (IF discovery = None THEN None ELSE PreparedDiscovery(discovery)) = discovery
  BY DiscoveryIs, PreparationAssumption DEF Config
<1> HIDE DEF health, sni, discovery
<1> DEFINE t == [cfg EXCEPT !.health = health, !.sni = sni, !.discovery = discovery]
<1>5. health \in Health \cup {None} /\ sni \in Sni \cup {None} /\ discovery \in Discovery \cup {None}
  BY <1>2, <1>3, <1>4
<1>6. /\ t \in Config
      /\ t.health = health /\ t.sni = sni /\ t.discovery = discovery
  BY <1>5 DEF Config
<1> HIDE DEF t
<1>7. Touched(t) = [t EXCEPT !.health = health, !.sni = sni, !.discovery = discovery]
  BY <1>2, <1>3, <1>4, <1>6 DEF Touched
<1>8. [t EXCEPT !.health = health, !.sni = sni, !.discovery = discovery] = t
  BY <1>6 DEF Config
<1> QED
  BY <1>1, <1>6, <1>7, <1>8 DEF t

\* The record that prepareConfig returns.
LEMMA PreparedRecord ==
  ASSUME NEW cfg \in Config, NEW d \in Defaults
  PROVE  LET p == prepareConfig(cfg, d)
         IN /\ p \in Config
            /\ p.bind = cfg.bind
            /\ p.protocol = IF cfg.protocol = "unset" THEN "tcp" ELSE cfg.protocol
            /\ p.balance = Defaulted(cfg.balance)
            /\ p.options = PreparedOptions(cfg, d)
            /\ p.sources = IF cfg.sources = None THEN d.sources ELSE cfg.sources
            /\ p.health = IF cfg.health = None THEN NoHealthcheck ELSE PreparedHealth(cfg.health)
            /\ p.sni = IF cfg.sni = None THEN None ELSE PreparedSni(cfg.sni)
            /\ p.discovery = IF cfg.discovery = None THEN None ELSE PreparedDiscovery(cfg.discovery)
<1> DEFINE p == prepareConfig(cfg, d)
           t == Touched(cfg)
<1>1. t \in Config
  BY TouchedIs
<1>2. /\ t.bind = cfg.bind /\ t.protocol = cfg.protocol /\ t.balance = cfg.balance
      /\ t.sources = cfg.sources
      /\ t.health = IF cfg.health = None THEN None ELSE PreparedHealth(cfg.health)
      /\ t.sni = IF cfg.sni = None THEN None ELSE PreparedSni(cfg.sni)
      /\ t.discovery = IF cfg.discovery = None THEN None ELSE PreparedDiscovery(cfg.discovery)
  BY DEF Touched, Config
<1>3. p = [t EXCEPT !.health = IF @ = None THEN NoHealthcheck ELSE @,
                    !.protocol = IF @ = "unset" THEN "tcp" ELSE @,
                    !.balance = Defaulted(@),
                    !.options = PreparedOptions(cfg, d),
                    !.sources = IF @ = None THEN d.sources ELSE @]
  BY DEF prepareConfig
<1> DEFINE health == IF t.health = None THEN NoHealthcheck ELSE t.health
           protocol == IF t.protocol = "unset" THEN "tcp" ELSE t.protocol
           balance == Defaulted(t.balance)
           options == PreparedOptions(cfg, d)
           sources == IF t.sources = None THEN d.sources ELSE t.sources
<1>4. /\ health \in Health \cup {None}
      /\ options \in [Parameters -> Options \cup {None}]
      /\ balance \in Setting
      /\ sources \in Sources \cup {None}
      /\ protocol \in {"unset", "tcp", "udp", "tls", "wrong"}
  BY <1>1, HealthIs, OptionsIs, DefaultedIs DEF Config, Defaults
<1>5. p = [t EXCEPT !.health = health, !.protocol = protocol, !.balance = balance,
                    !.options = options, !.sources = sources]
  BY <1>3
<1> HIDE DEF t, p, health, protocol, balance, options, sources
<1>6. /\ p \in Config /\ p.bind = t.bind /\ p.sni = t.sni /\ p.discovery = t.discovery
      /\ p.protocol = protocol /\ p.balance = balance /\ p.options = options
      /\ p.sources = sources /\ p.health = health
  BY <1>1, <1>4, <1>5 DEF Config
<1>7. p.health = IF cfg.health = None THEN NoHealthcheck ELSE PreparedHealth(cfg.health)
  BY <1>2, <1>6, HealthIs, PreparationAssumption DEF Config, health
<1> QED
  BY <1>2, <1>6, <1>7 DEF protocol, balance, options, sources, p

\* A configuration whose parts are complete is its own preparation.
LEMMA CompleteIs ==
  ASSUME NEW c \in Config, NEW e \in Defaults,
         c.health # None, PreparedHealth(c.health) = c.health,
         c.sni = None \/ PreparedSni(c.sni) = c.sni,
         c.discovery = None \/ PreparedDiscovery(c.discovery) = c.discovery,
         c.protocol # "unset", Defaulted(c.balance) = c.balance,
         PreparedOptions(c, e) = c.options, c.sources # None
  PROVE  prepareConfig(c, e) = c
<1>1. Touched(c) = c
  BY DEF Touched, Config
<1> QED
  BY <1>1 DEF prepareConfig, Config

\* Preparing a valid configuration completes it and leaves its address alone.
LEMMA PreparedIs ==
  ASSUME NEW cfg \in Config, NEW d \in Defaults
  PROVE  /\ Touched(cfg) \in Config
         /\ prepareConfig(cfg, d).bind = cfg.bind
         /\ Valid(cfg) => prepareConfig(cfg, d) \in Ready
<1> DEFINE p == prepareConfig(cfg, d)
<1>1. /\ p \in Config /\ p.bind = cfg.bind
      /\ p.protocol = IF cfg.protocol = "unset" THEN "tcp" ELSE cfg.protocol
      /\ p.balance = Defaulted(cfg.balance)
      /\ p.options = PreparedOptions(cfg, d)
      /\ p.sources = IF cfg.sources = None THEN d.sources ELSE cfg.sources
      /\ p.health = IF cfg.health = None THEN NoHealthcheck ELSE PreparedHealth(cfg.health)
      /\ p.sni = IF cfg.sni = None THEN None ELSE PreparedSni(cfg.sni)
      /\ p.discovery = IF cfg.discovery = None THEN None ELSE PreparedDiscovery(cfg.discovery)
  BY PreparedRecord
<1> HIDE DEF p
<1>2. ASSUME NEW e \in Defaults PROVE prepareConfig(p, e) = p
  <2>1. p.health # None /\ PreparedHealth(p.health) = p.health
    BY <1>1, HealthIs, PreparationAssumption DEF Config
  <2>2. p.sni = None \/ PreparedSni(p.sni) = p.sni
    BY <1>1, SniIs DEF Config
  <2>3. p.discovery = None \/ PreparedDiscovery(p.discovery) = p.discovery
    BY <1>1, DiscoveryIs DEF Config
  <2>4. p.protocol # "unset"
    BY <1>1
  <2>5. Defaulted(p.balance) = p.balance
    BY <1>1, DefaultedIs DEF Config
  <2>6. PreparedOptions(p, e) = p.options
    BY <1>1, OptionsIs
  <2>7. p.sources # None
    BY <1>1, PreparationAssumption DEF Defaults
  <2> QED
    BY <1>1, <2>1, <2>2, <2>3, <2>4, <2>5, <2>6, <2>7, CompleteIs
<1>3. Valid(cfg) => cfg.bind # None
  BY DEF Valid
<1> QED
  BY <1>1, <1>2, <1>3, TouchedIs DEF Ready, p

\* Preparing a second time changes nothing but the chance to fail.
LEMMA PreparedTwice ==
  ASSUME NEW cfg \in Config, NEW d \in Defaults
  PROVE  prepareConfig(Touched(cfg), d) = prepareConfig(cfg, d)
<1>1. Touched(Touched(cfg)) = Touched(cfg)
  BY TouchedIs
<1>2. Touched(cfg).options = cfg.options /\ Touched(cfg).protocol = cfg.protocol
  BY DEF Touched, Config
<1>3. PreparedOptions(Touched(cfg), d) = PreparedOptions(cfg, d)
  BY <1>2 DEF PreparedOptions
<1> QED
  BY <1>1, <1>3 DEF prepareConfig

\* A file of Files and what is made of it.
LEMMA FileIs ==
  ASSUME NEW file \in Files
  PROVE  /\ DOMAIN file.servers \subseteq Names
         /\ \A n \in DOMAIN file.servers : file.servers[n] \in Config
         /\ Loaded(file) \in [defaults : Defaults, servers : Partial(Names, Config)]
         /\ DOMAIN Prepared(file) = DOMAIN file.servers
         /\ \A n \in DOMAIN file.servers :
              Prepared(file)[n] = prepareConfig(file.servers[n], Loaded(file).defaults)
         /\ DOMAIN Loaded(file).servers = DOMAIN file.servers
         /\ \A n \in DOMAIN file.servers :
              Loaded(file).servers[n] = Touched(file.servers[n])
<1>1. PICK S \in SUBSET Names : file \in [defaults : GivenDefaults, servers : [S -> Config]]
  BY ManagerAssumption
<1>2. DOMAIN file.servers \subseteq Names /\ file.servers \in [DOMAIN file.servers -> Config]
  BY <1>1
<1> DEFINE raw == [n \in DOMAIN file.servers |-> Touched(file.servers[n])]
<1>3. raw \in [DOMAIN file.servers -> Config]
  BY <1>2, TouchedIs
<1>4. raw \in Partial(Names, Config)
  BY <1>2, <1>3, PartialIs
<1>5. normalizeDefaults(file.defaults) \in Defaults
  BY <1>1, NormalizedIs
<1>6. Loaded(file) = [defaults |-> normalizeDefaults(file.defaults), servers |-> raw]
  BY DEF Loaded
<1> QED
  BY <1>2, <1>4, <1>5, <1>6 DEF Prepared

-----------------------------------------------------------------------------
(* One server.                                                             *)

\* What create does to the map: it adds at most the one server, prepared.
LEMMA CreateIs ==
  ASSUME TypeOK, NEW n \in Names, NEW cfg \in Config, NEW d \in Defaults,
         NEW from \in {"file", "api"}, create(n, cfg, d, from)
  PROVE  /\ servers' \in Partial(Names, Running)
         /\ DOMAIN servers \subseteq DOMAIN servers'
         /\ DOMAIN servers' \subseteq DOMAIN servers \cup {n}
         /\ \A m \in DOMAIN servers : servers'[m] = servers[m]
         /\ n \in DOMAIN servers' \ DOMAIN servers =>
              servers'[n].cfg = prepareConfig(cfg, d) /\ servers'[n].from = from
         /\ acme' \subseteq Hosts /\ closing' \subseteq Binds /\ foreign' \subseteq Binds
<1> DEFINE new == [cfg |-> prepareConfig(cfg, d), from |-> from]
<1>1. servers \in Partial(Names, Running)
  BY DEF TypeOK
<1>2. acme' \subseteq Hosts /\ closing' \subseteq Binds /\ foreign' \subseteq Binds
  BY DEF create, TypeOK, EnabledHosts
<1>3. CASE Creatable(n, cfg, d)
  <2>1. new \in Running
    BY <1>3, PreparedIs DEF Creatable, Constructed, Running
  <2>2. servers' = With(servers, n, new) /\ n \notin DOMAIN servers
    BY <1>3 DEF create, Creatable, Constructed
  <2> HIDE DEF new
  <2>3. /\ With(servers, n, new) \in Partial(Names, Running)
        /\ DOMAIN With(servers, n, new) = DOMAIN servers \cup {n}
        /\ With(servers, n, new)[n] = new
        /\ \A m \in DOMAIN servers \ {n} : With(servers, n, new)[m] = servers[m]
    BY <1>1, <2>1, WithIs
  <2>4. new.cfg = prepareConfig(cfg, d) /\ new.from = from
    BY DEF new
  <2> QED
    BY <1>2, <2>2, <2>3, <2>4
<1>4. CASE ~Creatable(n, cfg, d)
  <2>1. servers' = servers
    BY <1>4 DEF create
  <2> QED
    BY <1>1, <1>2, <2>1
<1> QED
  BY <1>3, <1>4

\* Deleting a server keeps the types, the other servers and their configurations.
LEMMA DeleteIs ==
  ASSUME TypeOK, NEW n \in DOMAIN servers, deleteServer(n)
  PROVE  /\ servers' \in Partial(Names, Running)
         /\ DOMAIN servers' = DOMAIN servers \ {n}
         /\ \A m \in DOMAIN servers \ {n} : servers'[m] = servers[m]
         /\ acme' \subseteq Hosts /\ closing' \subseteq Binds /\ foreign' \subseteq Binds
<1>1. servers \in Partial(Names, Running) /\ servers' = Without(servers, n)
  BY DEF TypeOK, deleteServer
<1>2. servers \in [DOMAIN servers -> Running]
  BY <1>1, PartialIs
<1>3. servers[n] \in Running
  BY <1>2
<1>4. servers[n].cfg.bind \in Binds
  BY <1>3 DEF Running, Ready, Config
<1>5. acme' \subseteq Hosts /\ closing' \subseteq Binds /\ foreign' \subseteq Binds
  <2>1. acme \subseteq Hosts /\ closing \subseteq Binds /\ foreign \subseteq Binds
    BY DEF TypeOK
  <2>2. /\ closing' = closing \cup {servers[n].cfg.bind}
        /\ acme' = acme \ {servers[n].cfg.tls}
        /\ foreign' = foreign
    BY DEF deleteServer
  <2> QED
    BY <1>4, <2>1, <2>2
<1>6. /\ Without(servers, n) \in Partial(Names, Running)
      /\ DOMAIN Without(servers, n) = DOMAIN servers \ {n}
      /\ \A m \in DOMAIN servers \ {n} : Without(servers, n)[m] = servers[m]
  <2>1. n \in Names /\ servers \in Partial(Names, Running)
    BY <1>1, PartialIs
  <2> QED
    BY <2>1, WithoutIs
<1> QED
  BY <1>1, <1>5, <1>6

\* The configurations of the running servers, as a function.
LEMMA ConfigsIs ==
  ASSUME TypeOK
  PROVE  /\ Configs \in Partial(Names, Config)
         /\ DOMAIN Configs = DOMAIN servers
         /\ \A n \in DOMAIN servers : Configs[n] = servers[n].cfg
<1>1. DOMAIN servers \subseteq Names /\ servers \in [DOMAIN servers -> Running]
  BY PartialIs DEF TypeOK
<1>2. \A r \in Running : r.cfg \in Config
  BY DEF Running, Ready, Config
<1>3. Configs \in [DOMAIN servers -> Config]
  BY <1>1, <1>2 DEF Configs
<1>4. DOMAIN Configs = DOMAIN servers
  BY DEF Configs
<1> QED
  BY <1>1, <1>3, <1>4, PartialIs DEF Configs

\* A reload that is over is a Plan.
LEMMA EndedIs ==
  ASSUME NEW outcome \in {"none", "ok", "rejected", "restored", "lost"}
  PROVE  Ended(outcome) \in Plan /\ Ended(outcome).at = "idle"
<1>1. [n \in {} |-> None] \in Partial(Names, Config)
  BY PartialIs
<1> QED
  BY <1>1 DEF Ended, Plan

-----------------------------------------------------------------------------
(* The inductive invariant: what a plan has done and has still to do.      *)

\* The servers that the plan leaves alone.
Kept == DOMAIN reload.before \ reload.replaced

PlanOK ==
  ~Idle =>
    /\ reload.file \in Files /\ reload.outcome = "none"
    /\ reload.replaced = {n \in DOMAIN reload.before :
                            n \notin DOMAIN Desired \/ reload.before[n] # Desired[n]}
    /\ \A n \in Kept : n \in DOMAIN servers /\ servers[n].cfg = reload.before[n]
    /\ reload.deletes \subseteq DOMAIN servers \ Kept
    /\ reload.creates \cap Kept = {}

ApplyOK ==
  reload.at = "apply" =>
    /\ DOMAIN servers = Kept \cup reload.deletes \cup reload.created
    /\ reload.creates \cup reload.created = DOMAIN Desired \ Kept
    /\ reload.creates \cap reload.created = {}
    /\ reload.created # {} => reload.deletes = {}
    /\ \A n \in reload.created : servers[n].cfg = Desired[n]

Inv == TypeOK /\ PlanOK /\ ApplyOK

\* Initialize leaves no reload behind.
LEMMA InitInv == Initialize => Inv
<1> SUFFICES ASSUME NEW file \in Files,
                    \A n \in DOMAIN file.servers : Valid(file.servers[n]),
                    servers = [n \in DOMAIN file.servers |->
                                 [cfg |-> Prepared(file)[n], from |-> "file"]],
                    closing = {}, foreign = {},
                    acme = UNION {EnabledHosts(file.servers[n]) : n \in DOMAIN file.servers},
                    originalCfg = Loaded(file), dumping = FALSE, reload = Ended("none")
             PROVE  Inv
  BY DEF Initialize
<1>1. \A n \in DOMAIN file.servers : Prepared(file)[n] \in Ready
  BY FileIs, PreparedIs
<1>2. \A n \in DOMAIN file.servers :
        [cfg |-> Prepared(file)[n], from |-> "file"] \in Running
  BY <1>1 DEF Running
<1>3. servers \in [DOMAIN file.servers -> Running] /\ DOMAIN servers \subseteq Names
  BY <1>2, FileIs
<1>4. servers \in Partial(Names, Running)
  BY <1>3, PartialIs
<1>5. acme \subseteq Hosts
  BY DEF EnabledHosts
<1>6. reload \in Plan /\ reload.at = "idle"
  BY EndedIs
<1> QED
  BY <1>4, <1>5, <1>6, FileIs DEF Inv, TypeOK, PlanOK, ApplyOK, Idle

\* An operation that ends, or does not touch, the plan keeps the invariant
\* when it keeps the types.
LEMMA IdleInv ==
  ASSUME TypeOK', reload'.at = "idle"
  PROVE  Inv'
BY DEF Inv, PlanOK, ApplyOK, Idle

\* A server of the REST API is created between reloads only.
LEMMA CreateInv ==
  ASSUME Inv, NEW n \in Names, NEW cfg \in Posted, Create(n, cfg)
  PROVE  Inv'
<1>1. cfg \in Config /\ originalCfg.defaults \in Defaults
  BY ManagerAssumption DEF Inv, TypeOK
<1>2. TypeOK'
  BY <1>1, CreateIs DEF Inv, TypeOK, Create
<1> QED
  BY <1>2, IdleInv DEF Create, Idle

\* A server is deleted for the REST API between reloads only.
LEMMA DeleteInv ==
  ASSUME Inv, NEW n \in Names, Delete(n)
  PROVE  Inv'
<1>1. TypeOK'
  BY DeleteIs DEF Inv, TypeOK, Delete
<1> QED
  BY <1>1, IdleInv DEF Delete, Idle

\* A rejected file changes nothing but the outcome.
LEMMA RejectedInv ==
  ASSUME Inv, NEW file \in Files, ReloadRejected(file)
  PROVE  Inv'
<1>1. TypeOK'
  BY EndedIs DEF Inv, TypeOK, ReloadRejected
<1> QED
  BY <1>1, EndedIs, IdleInv DEF ReloadRejected

\* Making a plan: the servers it keeps are those that are as the file wants.
LEMMA ReloadInv ==
  ASSUME Inv, NEW file \in Files, Reload(file)
  PROVE  Inv'
<1> DEFINE replaced == Modified(file) \cup Removed(file)
<1>1. reload' = [at |-> "apply", file |-> file,
                 deletes |-> replaced,
                 creates |-> Added(file) \cup Modified(file),
                 created |-> {}, replaced |-> replaced,
                 currentRaw |-> originalCfg.servers, before |-> Configs,
                 outcome |-> "none"]
  BY DEF Reload
<1>2. DOMAIN servers \subseteq Names
  BY PartialIs DEF Inv, TypeOK
<1>3. replaced \subseteq Names /\ Added(file) \cup Modified(file) \subseteq Names
  BY <1>2, FileIs DEF Modified, Removed, Added
<1>4. reload' \in Plan
  BY <1>1, <1>3, ConfigsIs DEF Plan, Inv, TypeOK
<1>5. TypeOK'
  BY <1>4 DEF Inv, TypeOK, Reload
<1>6. Desired' = Prepared(file)
  BY <1>1 DEF Desired, Prepared
<1>7. replaced = {n \in DOMAIN servers : n \notin DOMAIN file.servers
                                         \/ servers[n].cfg # Prepared(file)[n]}
  BY DEF Modified, Removed
<1>8. /\ reload'.before = Configs /\ reload'.file = file /\ reload'.outcome = "none" /\ reload'.created = {}
      /\ reload'.replaced = replaced /\ reload'.deletes = replaced
      /\ reload'.creates = Added(file) \cup Modified(file) /\ reload'.at = "apply"
  BY <1>1
<1>9. servers' = servers
  BY DEF Reload
<1>10. /\ DOMAIN Configs = DOMAIN servers
       /\ \A n \in DOMAIN servers : Configs[n] = servers[n].cfg
  BY ConfigsIs DEF Inv
<1>11. DOMAIN Prepared(file) = DOMAIN file.servers
  BY FileIs
<1>12. Kept' = DOMAIN servers \ replaced
  BY <1>8, <1>10 DEF Kept
<1> HIDE DEF replaced
<1>13. PlanOK'
  BY <1>6, <1>7, <1>8, <1>9, <1>10, <1>11, <1>12 DEF PlanOK, Added, Modified
<1>14. ApplyOK'
  BY <1>6, <1>7, <1>8, <1>9, <1>10, <1>11, <1>12 DEF ApplyOK, Added, Modified
<1> QED
  BY <1>5, <1>13, <1>14 DEF Inv

\* The plan deletes replaced servers only.
LEMMA ReloadDeleteInv ==
  ASSUME Inv, ReloadDelete
  PROVE  Inv'
<1>1. PICK n \in reload.deletes :
        /\ reload.at = "apply"
        /\ deleteServer(n)
        /\ reload' = [reload EXCEPT !.deletes = @ \ {n}]
        /\ originalCfg' = originalCfg /\ dumping' = dumping
  BY DEF ReloadDelete, NextOf
<1>2. reload \in Plan /\ TypeOK
  BY DEF Inv, TypeOK
<1>3. n \in DOMAIN servers \ Kept
  BY <1>1 DEF Inv, PlanOK, Idle
<1>4. /\ servers' \in Partial(Names, Running)
      /\ DOMAIN servers' = DOMAIN servers \ {n}
      /\ \A m \in DOMAIN servers \ {n} : servers'[m] = servers[m]
      /\ acme' \subseteq Hosts /\ closing' \subseteq Binds /\ foreign' \subseteq Binds
  BY <1>1, <1>2, <1>3, DeleteIs
<1>5. /\ reload'.at = "apply" /\ reload'.file = reload.file /\ reload'.outcome = reload.outcome
      /\ reload'.before = reload.before /\ reload'.replaced = reload.replaced
      /\ reload'.deletes = reload.deletes \ {n}
      /\ reload'.creates = reload.creates /\ reload'.created = reload.created
      /\ reload' \in Plan
  BY <1>1, <1>2 DEF Plan
<1>6. TypeOK'
  BY <1>1, <1>2, <1>4, <1>5 DEF TypeOK
<1>7. Desired' = Desired /\ Kept' = Kept
  BY <1>5 DEF Desired, Prepared, Kept
<1>8. PlanOK'
  BY <1>1, <1>3, <1>4, <1>5, <1>7 DEF Inv, PlanOK, Idle
<1>9. reload.created = {}
  BY <1>1 DEF Inv, ApplyOK
<1>10. ApplyOK'
  BY <1>1, <1>3, <1>4, <1>5, <1>7, <1>9 DEF Inv, ApplyOK
<1> QED
  BY <1>6, <1>8, <1>10 DEF Inv

\* The plan creates, or fails and leaves to the rollback what it has created.
LEMMA ReloadCreateInv ==
  ASSUME Inv, ReloadCreate
  PROVE  Inv'
<1>1. PICK n \in reload.creates :
        /\ reload.at = "apply" /\ reload.deletes = {}
        /\ create(n, Loaded(reload.file).servers[n], Loaded(reload.file).defaults, "file")
        /\ reload' = IF n \in DOMAIN servers'
                     THEN [reload EXCEPT !.creates = @ \ {n}, !.created = @ \cup {n}]
                     ELSE [reload EXCEPT !.at = "undo", !.deletes = reload.created,
                                         !.creates = reload.replaced]
        /\ originalCfg' = originalCfg /\ dumping' = dumping
  BY DEF ReloadCreate, NextOf
<1>2. reload \in Plan /\ TypeOK
  BY DEF Inv, TypeOK
<1> DEFINE file == reload.file
           raw == file.servers[n]
<1>3. file \in Files /\ n \in DOMAIN file.servers /\ n \notin Kept /\ n \notin reload.created
  BY <1>1, FileIs DEF Inv, PlanOK, ApplyOK, Idle, Desired
<1>4. /\ n \in Names /\ raw \in Config /\ Loaded(file).defaults \in Defaults
      /\ Loaded(file).servers[n] = Touched(raw)
      /\ Desired[n] = prepareConfig(raw, Loaded(file).defaults)
  BY <1>3, FileIs DEF Desired
<1>5. prepareConfig(Touched(raw), Loaded(file).defaults) = Desired[n] /\ Touched(raw) \in Config
  BY <1>4, PreparedTwice, PreparedIs
<1>6. n \notin DOMAIN servers
  BY <1>1, <1>3 DEF Inv, ApplyOK
<1>7. /\ servers' \in Partial(Names, Running)
      /\ DOMAIN servers \subseteq DOMAIN servers'
      /\ DOMAIN servers' \subseteq DOMAIN servers \cup {n}
      /\ \A m \in DOMAIN servers : servers'[m] = servers[m]
      /\ n \in DOMAIN servers' => servers'[n].cfg = Desired[n]
      /\ acme' \subseteq Hosts /\ closing' \subseteq Binds /\ foreign' \subseteq Binds
  <2>1. create(n, Touched(raw), Loaded(file).defaults, "file")
    BY <1>1, <1>4
  <2> HIDE DEF file, raw
  <2> QED
    BY <1>2, <1>4, <1>5, <1>6, <2>1, CreateIs
<1>8. /\ reload'.file = reload.file /\ reload'.before = reload.before
      /\ reload'.outcome = reload.outcome
      /\ reload'.replaced = reload.replaced /\ reload' \in Plan
      /\ n \in DOMAIN servers' =>
           /\ reload'.at = "apply" /\ reload'.deletes = reload.deletes
           /\ reload'.creates = reload.creates \ {n}
           /\ reload'.created = reload.created \cup {n}
      /\ n \notin DOMAIN servers' =>
           /\ reload'.at = "undo" /\ reload'.deletes = reload.created
           /\ reload'.creates = reload.replaced
  <2>1. CASE n \in DOMAIN servers'
    BY <1>1, <1>2, <1>4, <2>1 DEF Plan
  <2>2. CASE n \notin DOMAIN servers'
    BY <1>1, <1>2, <2>2 DEF Plan
  <2> QED
    BY <2>1, <2>2
<1>9. TypeOK'
  BY <1>1, <1>2, <1>7, <1>8 DEF TypeOK
<1>10. Desired' = Desired /\ Kept' = Kept
  BY <1>8 DEF Desired, Prepared, Kept
<1> HIDE DEF file, raw
<1>11. PlanOK'
  <2>1. reload'.deletes \subseteq DOMAIN servers' \ Kept'
    BY <1>1, <1>7, <1>8, <1>10 DEF Inv, PlanOK, ApplyOK, Idle
  <2>2. reload'.creates \cap Kept' = {}
    BY <1>1, <1>8, <1>10 DEF Inv, PlanOK, Idle, Kept
  <2>3. \A m \in Kept' : m \in DOMAIN servers' /\ servers'[m].cfg = reload'.before[m]
    BY <1>1, <1>7, <1>8, <1>10 DEF Inv, PlanOK, Idle
  <2> QED
    BY <1>1, <1>8, <1>10, <2>1, <2>2, <2>3 DEF Inv, PlanOK, Idle
<1>12. ApplyOK'
  <2> SUFFICES ASSUME n \in DOMAIN servers'
               PROVE  ApplyOK'
    BY <1>8 DEF ApplyOK
  <2>1. DOMAIN servers' = DOMAIN servers \cup {n}
    BY <1>7
  <2>2. \A m \in reload'.created : servers'[m].cfg = Desired'[m]
    BY <1>1, <1>7, <1>8, <1>10 DEF Inv, ApplyOK
  <2> QED
    BY <1>1, <1>3, <1>8, <1>10, <2>1, <2>2 DEF Inv, ApplyOK
<1> QED
  BY <1>9, <1>11, <1>12 DEF Inv

\* A finished reload leaves a file in memory.
LEMMA ReloadEndsInv ==
  ASSUME Inv, ReloadEnds
  PROVE  Inv'
<1>1. reload.file \in Files
  BY DEF Inv, PlanOK, Idle, ReloadEnds
<1>2. TypeOK'
  BY <1>1, FileIs, EndedIs DEF Inv, TypeOK, ReloadEnds
<1> QED
  BY <1>2, EndedIs, IdleInv DEF ReloadEnds

\* The rollback deletes what the reload created, which was not kept.
LEMMA RollbackDeleteInv ==
  ASSUME Inv, RollbackDelete
  PROVE  Inv'
<1>1. PICK n \in reload.deletes :
        /\ reload.at = "undo"
        /\ deleteServer(n)
        /\ reload' = [reload EXCEPT !.deletes = @ \ {n}]
        /\ originalCfg' = originalCfg /\ dumping' = dumping
  BY DEF RollbackDelete
<1>2. reload \in Plan /\ TypeOK
  BY DEF Inv, TypeOK
<1>3. n \in DOMAIN servers \ Kept
  BY <1>1 DEF Inv, PlanOK, Idle
<1>4. /\ servers' \in Partial(Names, Running)
      /\ DOMAIN servers' = DOMAIN servers \ {n}
      /\ \A m \in DOMAIN servers \ {n} : servers'[m] = servers[m]
      /\ acme' \subseteq Hosts /\ closing' \subseteq Binds /\ foreign' \subseteq Binds
  BY <1>1, <1>2, <1>3, DeleteIs
<1>5. /\ reload'.at = "undo" /\ reload'.file = reload.file /\ reload'.outcome = reload.outcome
      /\ reload'.before = reload.before /\ reload'.replaced = reload.replaced
      /\ reload'.deletes = reload.deletes \ {n}
      /\ reload'.creates = reload.creates
      /\ reload' \in Plan
  BY <1>1, <1>2 DEF Plan
<1>6. TypeOK'
  BY <1>1, <1>2, <1>4, <1>5 DEF TypeOK
<1>7. Desired' = Desired /\ Kept' = Kept
  BY <1>5 DEF Desired, Prepared, Kept
<1>8. PlanOK'
  BY <1>1, <1>3, <1>4, <1>5, <1>7 DEF Inv, PlanOK, Idle
<1>9. ApplyOK'
  BY <1>5 DEF ApplyOK
<1> QED
  BY <1>6, <1>8, <1>9 DEF Inv

\* A server of the old file is created with the old defaults, or skipped.
LEMMA RollbackCreateInv ==
  ASSUME Inv, RollbackCreate
  PROVE  Inv'
<1>1. PICK n \in reload.creates :
        /\ reload.at = "undo" /\ reload.deletes = {}
        /\ IF n \in DOMAIN reload.currentRaw
           THEN create(n, reload.currentRaw[n], originalCfg.defaults, "file")
           ELSE UNCHANGED <<servers, closing, foreign, acme>>
        /\ reload' = IF n \in DOMAIN reload.currentRaw => n \in DOMAIN servers'
                     THEN [reload EXCEPT !.creates = @ \ {n}]
                     ELSE Ended("lost")
        /\ originalCfg' = originalCfg /\ dumping' = dumping
  BY DEF RollbackCreate, NextOf
<1>2. reload \in Plan /\ TypeOK /\ n \in Names
  BY <1>1 DEF Inv, TypeOK, Plan
<1>3. /\ servers' \in Partial(Names, Running)
      /\ DOMAIN servers \subseteq DOMAIN servers'
      /\ \A m \in DOMAIN servers : servers'[m] = servers[m]
      /\ acme' \subseteq Hosts /\ closing' \subseteq Binds /\ foreign' \subseteq Binds
  <2>1. CASE n \in DOMAIN reload.currentRaw
    <3>1. reload.currentRaw \in Partial(Names, Config)
      BY <1>2 DEF Plan
    <3>2. reload.currentRaw[n] \in Config
      BY <2>1, <3>1, PartialIs
    <3>3. originalCfg.defaults \in Defaults
      BY <1>2 DEF TypeOK
    <3> QED
      BY <1>1, <1>2, <2>1, <3>2, <3>3, CreateIs
  <2>2. CASE n \notin DOMAIN reload.currentRaw
    BY <1>1, <1>2, <2>2 DEF TypeOK
  <2> QED
    BY <2>1, <2>2
<1>4. CASE n \in DOMAIN reload.currentRaw => n \in DOMAIN servers'
  <2>1. /\ reload'.at = "undo" /\ reload'.file = reload.file /\ reload'.outcome = reload.outcome
        /\ reload'.before = reload.before /\ reload'.replaced = reload.replaced
        /\ reload'.deletes = {} /\ reload'.creates = reload.creates \ {n}
        /\ reload' \in Plan
    BY <1>1, <1>2, <1>4 DEF Plan
  <2>2. TypeOK'
    BY <1>1, <1>2, <1>3, <2>1 DEF TypeOK
  <2>3. Desired' = Desired /\ Kept' = Kept
    BY <2>1 DEF Desired, Prepared, Kept
  <2>4. PlanOK'
    BY <1>1, <1>3, <2>1, <2>3 DEF Inv, PlanOK, Idle
  <2>5. ApplyOK'
    BY <2>1 DEF ApplyOK
  <2> QED
    BY <2>2, <2>4, <2>5 DEF Inv
<1>5. CASE ~(n \in DOMAIN reload.currentRaw => n \in DOMAIN servers')
  <2>1. reload' \in Plan /\ reload'.at = "idle"
    BY <1>1, <1>5, EndedIs
  <2>2. TypeOK'
    BY <1>1, <1>2, <1>3, <2>1 DEF TypeOK
  <2> QED
    BY <2>1, <2>2, IdleInv
<1> QED
  BY <1>4, <1>5

\* A finished rollback leaves the configuration alone.
LEMMA RollbackEndsInv ==
  ASSUME Inv, RollbackEnds
  PROVE  Inv'
<1>1. TypeOK'
  BY EndedIs DEF Inv, TypeOK, RollbackEnds
<1> QED
  BY <1>1, EndedIs, IdleInv DEF RollbackEnds

\* A dump keeps the configuration in memory a configuration.
LEMMA DumpIs ==
  ASSUME TypeOK, DumpStarts \/ DumpFills
  PROVE  /\ originalCfg' \in [defaults : Defaults, servers : Partial(Names, Config)]
         /\ originalCfg'.defaults = originalCfg.defaults
         /\ dumping' \in BOOLEAN /\ servers' = servers /\ reload' = reload
         /\ DumpFills => \A n \in DOMAIN servers :
              n \in DOMAIN originalCfg'.servers /\ originalCfg'.servers[n] = servers[n].cfg
<1> DEFINE old == originalCfg.servers
           all == [n \in DOMAIN servers \cup DOMAIN old |->
                     IF n \in DOMAIN servers THEN servers[n].cfg ELSE old[n]]
<1>1. originalCfg \in [defaults : Defaults, servers : Partial(Names, Config)]
  BY DEF TypeOK
<1>2. CASE DumpStarts
  <2>1. [n \in {} |-> None] \in Partial(Names, Config)
    BY PartialIs
  <2>2. ~DumpFills
    BY <1>2 DEF DumpStarts, DumpFills
  <2> QED
    BY <1>1, <1>2, <2>1, <2>2 DEF DumpStarts
<1>3. CASE DumpFills
  <2>1. DOMAIN old \subseteq Names /\ old \in [DOMAIN old -> Config]
    BY <1>1, PartialIs
  <2>2. /\ DOMAIN servers \subseteq Names
        /\ \A n \in DOMAIN servers : servers[n].cfg \in Config
    BY ConfigsIs, PartialIs DEF TypeOK
  <2>3. all \in [DOMAIN servers \cup DOMAIN old -> Config]
    BY <2>1, <2>2
  <2>4. all \in Partial(Names, Config)
    BY <2>1, <2>2, <2>3, PartialIs
  <2>5. originalCfg' = [originalCfg EXCEPT !.servers = all]
    BY <1>3 DEF DumpFills
  <2> QED
    BY <1>1, <1>3, <2>4, <2>5 DEF DumpFills
<1> QED
  BY <1>2, <1>3

\* Steps of others: addresses, and the file in memory.
LEMMA OthersInv ==
  ASSUME Inv, Environment \/ DumpStarts \/ DumpFills \/ UNCHANGED vars
  PROVE  Inv'
<1>1. servers' = servers /\ reload' = reload /\ acme' = acme
  BY DEF Environment, Release, Occupy, Vacate, DumpStarts, DumpFills, vars
<1>2. PlanOK' /\ ApplyOK'
  BY <1>1 DEF Inv, PlanOK, ApplyOK, Idle, Kept, Desired, Prepared
<1>3. closing' \subseteq Binds /\ foreign' \subseteq Binds
  BY DEF Inv, TypeOK, Environment, Release, Occupy, Vacate, DumpStarts, DumpFills, vars
<1>4. /\ originalCfg' \in [defaults : Defaults, servers : Partial(Names, Config)]
      /\ dumping' \in BOOLEAN
  <2>1. CASE DumpStarts \/ DumpFills
    BY <2>1, DumpIs DEF Inv
  <2>2. CASE Environment \/ UNCHANGED vars
    BY <2>2 DEF Inv, TypeOK, Environment, Release, Occupy, Vacate, vars
  <2> QED
    BY <2>1, <2>2
<1>5. TypeOK'
  BY <1>1, <1>3, <1>4 DEF Inv, TypeOK
<1> QED
  BY <1>2, <1>5 DEF Inv

\* The invariant is inductive.
LEMMA NextInv == Inv /\ [Next]_vars => Inv'
<1> SUFFICES ASSUME Inv, [Next]_vars
             PROVE  Inv'
  OBVIOUS
<1>1. CASE ApiRequest \/ ReloadRequest
  BY <1>1, CreateInv, DeleteInv, RejectedInv, ReloadInv DEF ApiRequest, ReloadRequest
<1>2. CASE ReloadStep
  BY <1>2, ReloadDeleteInv, ReloadCreateInv, ReloadEndsInv, RollbackDeleteInv,
     RollbackCreateInv, RollbackEndsInv DEF ReloadStep
<1>3. CASE Environment \/ DumpStarts \/ DumpFills \/ UNCHANGED vars
  BY <1>3, OthersInv
<1> QED
  BY <1>1, <1>2, <1>3 DEF Next

\* The invariant holds in every reachable state.
LEMMA Invariance == Spec => []Inv
<1>1. Initialize => Inv
  BY InitInv
<1>2. Inv /\ [Next]_vars => Inv'
  BY NextInv
<1> QED
  BY <1>1, <1>2, PTL DEF Spec

-----------------------------------------------------------------------------
(* What follows from it.                                                   *)

\* Types: among others, that what runs was completely prepared.
THEOREM TypeCorrect == Spec => []TypeOK
<1>1. Inv => TypeOK
  BY DEF Inv
<1> QED
  BY <1>1, Invariance, PTL

\* README.md:77: servers whose configuration does not change keep running
\* through a reload and its rollback, whatever fails and whoever dumps.
THEOREM UnchangedUntouched == Spec => []UnchangedKeepRunning
<1>1. Inv => UnchangedKeepRunning
  BY DEF Inv, PlanOK, Kept, UnchangedKeepRunning
<1> QED
  BY <1>1, Invariance, PTL

\* A successful reload makes the running servers those of the file.
THEOREM SuccessMeansApplied == Spec => SuccessApplies
<1>1. Inv /\ [Next]_vars => AppliesFile
  <2> SUFFICES ASSUME Inv, [Next]_vars, reload.at = "apply", reload'.outcome = "ok"
               PROVE  Configs' = Desired
    BY DEF AppliesFile
  <2>1. reload.outcome = "none" /\ reload \in Plan
    BY DEF Inv, TypeOK, PlanOK, Idle
  <2>2. ReloadEnds
    <3>1. /\ ~ApiRequest /\ ~ReloadRequest
          /\ ~RollbackDelete /\ ~RollbackCreate /\ ~RollbackEnds
      BY DEF ApiRequest, ReloadRequest, Create, Delete, ReloadRejected, Reload, Idle,
             RollbackDelete, RollbackCreate, RollbackEnds
    <3>2. ~ReloadDelete
      BY <2>1 DEF ReloadDelete, Plan
    <3>3. ~ReloadCreate
      BY <2>1 DEF ReloadCreate, Plan
    <3>4. ~Environment /\ ~DumpStarts /\ ~DumpFills /\ ~UNCHANGED vars
      BY <2>1 DEF Environment, Release, Occupy, Vacate, DumpStarts, DumpFills, vars
    <3> QED
      BY <3>1, <3>2, <3>3, <3>4 DEF Next, ReloadStep
  <2>3. DOMAIN servers = DOMAIN Desired
    BY <2>2, FileIs DEF ReloadEnds, Inv, PlanOK, ApplyOK, Idle, Kept, Desired
  <2>4. \A n \in DOMAIN servers : servers[n].cfg = Desired[n]
    BY <2>2 DEF ReloadEnds, Inv, PlanOK, ApplyOK, Idle, Kept
  <2>5. Configs' = [n \in DOMAIN servers |-> servers[n].cfg]
    BY <2>2 DEF ReloadEnds, Configs
  <2>6. Desired = [n \in DOMAIN Desired |-> Desired[n]]
    BY DEF Desired, Prepared
  <2> QED
    BY <2>3, <2>4, <2>5, <2>6
<1> QED
  BY <1>1, Invariance, PTL DEF Spec, SuccessApplies

\* In a reload an address goes to its next server only when the servers that the
\* file moves away from it, changes or removes are no longer in the map: who is
\* there is a server that the same file wants on that address.
THEOREM AddressesMove == Spec => []AddressesHandedOver
<1>1. Inv => AddressesHandedOver
  <2> SUFFICES ASSUME Inv, reload.at = "apply", reload.deletes = {},
                      NEW n \in reload.creates,
                      NEW m \in DOMAIN servers, servers[m].cfg.bind = Desired[n].bind
               PROVE  m # n /\ m \in DOMAIN Desired /\ servers[m].cfg = Desired[m]
    BY DEF AddressesHandedOver, Holders
  <2> QED
    BY DEF Inv, PlanOK, ApplyOK, Idle, Kept
<1> QED
  BY <1>1, Invariance, PTL

-----------------------------------------------------------------------------
(* The configuration in memory, when nobody dumps it during a reload.      *)

\* What runs as n is what the configuration in memory makes of n.
Backed(n) ==
  /\ n \in DOMAIN originalCfg.servers
  /\ prepareConfig(originalCfg.servers[n], originalCfg.defaults) = servers[n].cfg

\* A reload keeps the configuration it may have to go back to, and the servers
\* it leaves alone go on being described by it.
MemoryOK ==
  ~Idle =>
    /\ reload.currentRaw = originalCfg.servers
    /\ \A n \in Kept : servers[n].from = "file" => Backed(n)

\* A rollback deletes before it creates; what runs then is kept, or still to be
\* deleted, or brought back, and whatever could be brought back and is no
\* longer waiting to be was.
UndoOK ==
  reload.at = "undo" =>
    /\ reload.creates \subseteq reload.replaced
    /\ reload.deletes # {} => reload.creates = reload.replaced
    /\ \A n \in DOMAIN servers \ (Kept \cup reload.deletes) :
         n \in reload.replaced \ reload.creates /\ Backed(n)
    /\ \A n \in reload.replaced \ reload.creates :
         n \in DOMAIN reload.currentRaw => n \in DOMAIN servers

CalmInv == Inv /\ (dumping => Idle) /\ DescribesServers /\ MemoryOK /\ UndoOK

\* A calm step is a step; so Inv goes on holding.
LEMMA CalmIsNext == [CalmNext]_vars => [Next]_vars
BY DEF CalmNext, Next

\* A complete configuration is its own preparation.
LEMMA ReadyIsPrepared ==
  ASSUME NEW cfg \in Ready, NEW d \in Defaults
  PROVE  prepareConfig(cfg, d) = cfg
BY DEF Ready

LEMMA CalmInit == Initialize => CalmInv
<1> SUFFICES ASSUME Initialize PROVE CalmInv
  OBVIOUS
<1>1. PICK file \in Files :
        /\ servers = [n \in DOMAIN file.servers |->
                        [cfg |-> Prepared(file)[n], from |-> "file"]]
        /\ originalCfg = Loaded(file) /\ dumping = FALSE /\ reload = Ended("none")
  BY DEF Initialize
<1>2. reload.at = "idle"
  BY <1>1, EndedIs
<1>3. ASSUME NEW n \in DOMAIN servers PROVE Backed(n)
  <2>1. n \in DOMAIN file.servers /\ servers[n].cfg = Prepared(file)[n]
    BY <1>1
  <2>2. /\ file.servers[n] \in Config /\ originalCfg.defaults \in Defaults
        /\ originalCfg.servers[n] = Touched(file.servers[n])
        /\ n \in DOMAIN originalCfg.servers
        /\ Prepared(file)[n] = prepareConfig(file.servers[n], originalCfg.defaults)
    BY <1>1, <2>1, FileIs
  <2> QED
    BY <2>1, <2>2, PreparedTwice DEF Backed
<1>4. DescribesServers
  BY <1>3 DEF DescribesServers, Backed
<1> QED
  BY <1>2, <1>4, InitInv DEF CalmInv, MemoryOK, UndoOK, Idle

\* Between reloads only the description of the servers matters.
LEMMA CalmIdle ==
  ASSUME Inv', reload'.at = "idle",
         ~dumping' => \A n \in DOMAIN servers' : servers'[n].from = "file" => Backed(n)'
  PROVE  CalmInv'
BY DEF CalmInv, DescribesServers, MemoryOK, UndoOK, Idle, Backed

LEMMA CalmRequest ==
  ASSUME CalmInv, Inv', ApiRequest \/ (~dumping /\ ReloadRequest)
  PROVE  CalmInv'
<1>0. /\ TypeOK
      /\ Idle /\ ~dumping =>
           \A n \in DOMAIN servers : servers[n].from = "file" => Backed(n)
  BY DEF CalmInv, Inv, DescribesServers, Backed
<1>1. ASSUME NEW n \in Names, NEW cfg \in Posted, Create(n, cfg) PROVE CalmInv'
  <2>1. cfg \in Config /\ originalCfg.defaults \in Defaults
    BY <1>0, ManagerAssumption DEF TypeOK
  <2>2. /\ create(n, cfg, originalCfg.defaults, "api") /\ Idle
        /\ originalCfg' = originalCfg /\ dumping' = dumping /\ reload' = reload
    BY <1>1 DEF Create
  <2>3. ASSUME ~dumping, NEW m \in DOMAIN servers', servers'[m].from = "file"
        PROVE  Backed(m)'
    <3>1. CASE m \in DOMAIN servers
      BY <1>0, <2>1, <2>2, <2>3, <3>1, CreateIs DEF Backed
    <3>2. CASE m \notin DOMAIN servers
      <4>1. m = n
        BY <1>0, <2>1, <2>2, <3>2, CreateIs
      <4>2. servers'[m].from = "api"
        BY <1>0, <2>1, <2>2, <3>2, <4>1, CreateIs
      <4> QED
        BY <2>3, <4>2
    <3> QED
      BY <3>1, <3>2
  <2> QED
    BY <2>2, <2>3, CalmIdle DEF Idle
<1>2. ASSUME NEW n \in Names, Delete(n) PROVE CalmInv'
  <2>1. /\ n \in DOMAIN servers /\ deleteServer(n) /\ Idle
        /\ originalCfg' = originalCfg /\ dumping' = dumping /\ reload' = reload
    BY <1>2 DEF Delete
  <2>2. \A m \in DOMAIN servers' : m \in DOMAIN servers /\ servers'[m] = servers[m]
    BY <1>0, <2>1, DeleteIs
  <2> QED
    BY <1>0, <2>1, <2>2, CalmIdle DEF Idle, Backed
<1>3. ASSUME NEW file \in Files, ReloadRejected(file) PROVE CalmInv'
  <2>1. /\ Idle /\ servers' = servers /\ originalCfg' = originalCfg
        /\ dumping' = dumping /\ reload'.at = "idle"
    BY <1>3, EndedIs DEF ReloadRejected
  <2> QED
    BY <1>0, <2>1, CalmIdle DEF Backed
<1>4. ASSUME ~dumping, NEW file \in Files, Reload(file) PROVE CalmInv'
  <2>1. /\ Idle /\ servers' = servers /\ originalCfg' = originalCfg
        /\ reload'.at = "apply" /\ reload'.currentRaw = originalCfg.servers
        /\ ~dumping'
    BY <1>4 DEF Reload
  <2>2. \A n \in Kept' : n \in DOMAIN servers
    BY <2>1 DEF Inv, PlanOK, Idle
  <2>3. MemoryOK'
    BY <1>0, <1>4, <2>1, <2>2 DEF MemoryOK, Backed
  <2> QED
    BY <2>1, <2>3 DEF CalmInv, DescribesServers, UndoOK, Idle
<1> QED
  BY <1>1, <1>2, <1>3, <1>4 DEF ApiRequest, ReloadRequest

\* What the steps of a reload that goes on leave alone: the configuration in
\* memory, what the plan keeps and how it runs.
LEMMA CalmMemory ==
  ASSUME CalmInv, Inv', ~Idle, originalCfg' = originalCfg,
         reload'.currentRaw = reload.currentRaw, Kept' = Kept,
         \A n \in Kept : servers'[n] = servers[n]
  PROVE  MemoryOK'
BY DEF CalmInv, MemoryOK, Backed

LEMMA CalmReloadDelete ==
  ASSUME CalmInv, Inv', ReloadDelete
  PROVE  CalmInv'
<1>1. PICK n \in reload.deletes :
        /\ reload.at = "apply"
        /\ deleteServer(n)
        /\ reload' = [reload EXCEPT !.deletes = @ \ {n}]
        /\ originalCfg' = originalCfg /\ dumping' = dumping
  BY DEF ReloadDelete, NextOf
<1>2. /\ reload'.at = "apply" /\ reload'.currentRaw = reload.currentRaw
      /\ Kept' = Kept /\ ~Idle
  BY <1>1 DEF CalmInv, Inv, TypeOK, Plan, Kept, Idle
<1>3. n \in DOMAIN servers \ Kept
  BY <1>1, <1>2 DEF CalmInv, Inv, PlanOK
<1>4. \A m \in DOMAIN servers \ {n} : servers'[m] = servers[m]
  BY <1>1, <1>3, DeleteIs DEF CalmInv, Inv
<1>5. \A m \in Kept : m \in DOMAIN servers
  BY <1>2 DEF CalmInv, Inv, PlanOK
<1>6. MemoryOK'
  BY <1>1, <1>2, <1>3, <1>4, <1>5, CalmMemory
<1> QED
  BY <1>1, <1>2, <1>6 DEF CalmInv, DescribesServers, UndoOK, Idle

LEMMA CalmReloadCreate ==
  ASSUME CalmInv, Inv', ReloadCreate
  PROVE  CalmInv'
<1>1. PICK n \in reload.creates :
        /\ reload.at = "apply" /\ reload.deletes = {}
        /\ create(n, Loaded(reload.file).servers[n], Loaded(reload.file).defaults, "file")
        /\ reload' = IF n \in DOMAIN servers'
                     THEN [reload EXCEPT !.creates = @ \ {n}, !.created = @ \cup {n}]
                     ELSE [reload EXCEPT !.at = "undo", !.deletes = reload.created,
                                         !.creates = reload.replaced]
        /\ originalCfg' = originalCfg /\ dumping' = dumping
  BY DEF ReloadCreate, NextOf
<1>2. reload \in Plan /\ TypeOK /\ ~Idle
  BY <1>1 DEF CalmInv, Inv, TypeOK, Idle
<1>3. n \in Names /\ Loaded(reload.file).servers[n] \in Config
      /\ Loaded(reload.file).defaults \in Defaults
  <2>1. reload.file \in Files /\ n \in DOMAIN reload.file.servers
    BY <1>1, <1>2, FileIs DEF CalmInv, Inv, PlanOK, ApplyOK, Desired
  <2> QED
    BY <2>1, FileIs, PreparedIs
<1>4. /\ DOMAIN servers \subseteq DOMAIN servers'
      /\ DOMAIN servers' \subseteq DOMAIN servers \cup {n}
      /\ \A m \in DOMAIN servers : servers'[m] = servers[m]
  BY <1>1, <1>2, <1>3, CreateIs
<1>5. /\ reload'.before = reload.before /\ reload'.replaced = reload.replaced
      /\ reload'.currentRaw = reload.currentRaw
      /\ IF n \in DOMAIN servers' THEN reload'.at = "apply"
         ELSE /\ reload'.at = "undo" /\ reload'.deletes = reload.created
              /\ reload'.creates = reload.replaced
  <2>1. CASE n \in DOMAIN servers'
    BY <1>1, <1>2, <2>1 DEF Plan
  <2>2. CASE n \notin DOMAIN servers'
    BY <1>1, <1>2, <2>2 DEF Plan
  <2> QED
    BY <2>1, <2>2
<1>6. Kept' = Kept /\ \A m \in Kept : m \in DOMAIN servers
  BY <1>2, <1>5 DEF Kept, CalmInv, Inv, PlanOK
<1>7. MemoryOK'
  BY <1>1, <1>2, <1>4, <1>5, <1>6, CalmMemory
<1>8. UndoOK'
  <2>1. CASE n \in DOMAIN servers'
    <3>1. reload'.at = "apply"
      BY <1>5, <2>1
    <3> QED
      BY <3>1 DEF UndoOK
  <2>2. CASE n \notin DOMAIN servers'
    <3>1. DOMAIN servers = Kept \cup reload.created
      BY <1>1 DEF CalmInv, Inv, ApplyOK
    <3>2. DOMAIN servers' = DOMAIN servers
      BY <1>4, <2>2
    <3> QED
      BY <1>5, <1>6, <2>2, <3>1, <3>2 DEF UndoOK
  <2> QED
    BY <2>1, <2>2
<1> QED
  BY <1>1, <1>2, <1>5, <1>7, <1>8 DEF CalmInv, DescribesServers, Idle

LEMMA CalmReloadEnds ==
  ASSUME CalmInv, Inv', ReloadEnds
  PROVE  CalmInv'
<1> DEFINE file == reload.file
<1>1. /\ reload.at = "apply" /\ originalCfg' = Loaded(file) /\ servers' = servers
      /\ reload.deletes = {} /\ reload.creates = {} /\ reload'.at = "idle"
  BY EndedIs DEF ReloadEnds
<1>2. file \in Files
  BY <1>1 DEF CalmInv, Inv, PlanOK, Idle
<1>3. ASSUME NEW n \in DOMAIN servers PROVE Backed(n)'
  <2>1. n \in DOMAIN Desired /\ servers[n].cfg = Desired[n]
    BY <1>1 DEF CalmInv, Inv, PlanOK, ApplyOK, Kept, Idle
  <2>2. /\ n \in DOMAIN file.servers /\ file.servers[n] \in Config
        /\ Loaded(file).defaults \in Defaults
        /\ Desired[n] = prepareConfig(file.servers[n], Loaded(file).defaults)
        /\ n \in DOMAIN Loaded(file).servers
        /\ Loaded(file).servers[n] = Touched(file.servers[n])
    BY <1>2, <2>1, FileIs DEF Desired
  <2> QED
    BY <1>1, <2>1, <2>2, PreparedTwice DEF Backed
<1> QED
  BY <1>1, <1>3, CalmIdle

LEMMA CalmRollbackDelete ==
  ASSUME CalmInv, Inv', RollbackDelete
  PROVE  CalmInv'
<1>1. PICK n \in reload.deletes :
        /\ reload.at = "undo"
        /\ deleteServer(n)
        /\ reload' = [reload EXCEPT !.deletes = @ \ {n}]
        /\ originalCfg' = originalCfg /\ dumping' = dumping
  BY DEF RollbackDelete
<1>2. /\ reload'.at = "undo" /\ reload'.currentRaw = reload.currentRaw
      /\ reload'.replaced = reload.replaced /\ reload'.creates = reload.creates
      /\ reload'.deletes = reload.deletes \ {n}
      /\ Kept' = Kept /\ ~Idle
  BY <1>1 DEF CalmInv, Inv, TypeOK, Plan, Kept, Idle
<1>3. n \in DOMAIN servers \ Kept
  BY <1>1, <1>2 DEF CalmInv, Inv, PlanOK
<1>4. /\ \A m \in DOMAIN servers \ {n} : servers'[m] = servers[m]
      /\ DOMAIN servers' = DOMAIN servers \ {n}
  BY <1>1, <1>3, DeleteIs DEF CalmInv, Inv
<1>5. \A m \in Kept : m \in DOMAIN servers
  BY <1>2 DEF CalmInv, Inv, PlanOK
<1>6. MemoryOK'
  BY <1>1, <1>2, <1>3, <1>4, <1>5, CalmMemory
<1>7. UndoOK'
  BY <1>1, <1>2, <1>4 DEF CalmInv, UndoOK, Backed
<1> QED
  BY <1>1, <1>2, <1>6, <1>7 DEF CalmInv, DescribesServers, Idle

LEMMA CalmRollbackCreate ==
  ASSUME CalmInv, Inv', RollbackCreate
  PROVE  CalmInv'
<1>1. PICK n \in reload.creates :
        /\ reload.at = "undo" /\ reload.deletes = {}
        /\ IF n \in DOMAIN reload.currentRaw
           THEN create(n, reload.currentRaw[n], originalCfg.defaults, "file")
           ELSE UNCHANGED <<servers, closing, foreign, acme>>
        /\ reload' = IF n \in DOMAIN reload.currentRaw => n \in DOMAIN servers'
                     THEN [reload EXCEPT !.creates = @ \ {n}]
                     ELSE Ended("lost")
        /\ originalCfg' = originalCfg /\ dumping' = dumping
  BY DEF RollbackCreate, NextOf
<1>2. reload \in Plan /\ TypeOK /\ n \in Names /\ ~Idle
  BY <1>1 DEF CalmInv, Inv, TypeOK, Plan, Idle
<1>3. reload.currentRaw = originalCfg.servers /\ \A m \in Kept : m \in DOMAIN servers
  BY <1>2 DEF CalmInv, MemoryOK, Inv, PlanOK
<1>4. n \notin DOMAIN servers /\ n \in reload.replaced
  BY <1>1, <1>2 DEF CalmInv, Inv, PlanOK, UndoOK, Kept
<1>5. /\ DOMAIN servers \subseteq DOMAIN servers'
      /\ DOMAIN servers' \subseteq DOMAIN servers \cup {n}
      /\ \A m \in DOMAIN servers : servers'[m] = servers[m]
      /\ n \in DOMAIN servers' => Backed(n)'
  <2>1. CASE n \in DOMAIN reload.currentRaw
    <3>1. reload.currentRaw[n] \in Config /\ originalCfg.defaults \in Defaults
      BY <1>2, <2>1, PartialIs DEF Plan, TypeOK
    <3> QED
      BY <1>1, <1>2, <1>3, <1>4, <2>1, <3>1, CreateIs DEF Backed
  <2>2. CASE n \notin DOMAIN reload.currentRaw
    BY <1>1, <1>4, <2>2
  <2> QED
    BY <2>1, <2>2
<1>6. \A m \in DOMAIN servers \ Kept :
        m \in reload.replaced \ reload.creates /\ Backed(m)
  BY <1>1 DEF CalmInv, UndoOK
<1>7. CASE n \in DOMAIN reload.currentRaw => n \in DOMAIN servers'
  <2>1. /\ reload'.at = "undo" /\ reload'.currentRaw = reload.currentRaw
        /\ reload'.before = reload.before /\ reload'.replaced = reload.replaced
        /\ reload'.deletes = {} /\ reload'.creates = reload.creates \ {n}
    BY <1>1, <1>2, <1>7 DEF Plan
  <2>2. Kept' = Kept
    BY <2>1 DEF Kept
  <2>3. MemoryOK'
    BY <1>1, <1>2, <1>3, <1>5, <2>1, <2>2, CalmMemory
  <2>4. UndoOK'
    <3>0. reload'.deletes = {}
      BY <2>1
    <3>1. reload'.creates \subseteq reload'.replaced
      BY <1>1, <2>1 DEF CalmInv, UndoOK
    <3>2. \A m \in DOMAIN servers' \ Kept :
            m \in reload'.replaced \ reload'.creates /\ Backed(m)'
      BY <1>1, <1>4, <1>5, <1>6, <2>1 DEF Backed
    <3>3. \A m \in reload'.replaced \ reload'.creates :
            m \in DOMAIN reload'.currentRaw => m \in DOMAIN servers'
      BY <1>1, <1>5, <1>7, <2>1 DEF CalmInv, UndoOK
    <3> QED
      BY <2>2, <3>0, <3>1, <3>2, <3>3 DEF UndoOK
  <2> QED
    BY <1>1, <1>2, <2>1, <2>3, <2>4 DEF CalmInv, DescribesServers, Idle
<1>8. CASE ~(n \in DOMAIN reload.currentRaw => n \in DOMAIN servers')
  <2>1. reload'.at = "idle"
    BY <1>1, <1>8, EndedIs
  <2>2. DOMAIN servers' = DOMAIN servers
    BY <1>5, <1>8
  <2>3. ASSUME NEW m \in DOMAIN servers, servers'[m].from = "file" PROVE Backed(m)'
    <3>1. CASE m \in Kept
      BY <1>1, <1>2, <1>5, <2>3, <3>1 DEF CalmInv, MemoryOK, Backed
    <3>2. CASE m \notin Kept
      BY <1>1, <1>5, <1>6, <3>2 DEF Backed
    <3> QED
      BY <3>1, <3>2
  <2> QED
    BY <2>1, <2>2, <2>3, CalmIdle
<1> QED
  BY <1>7, <1>8

LEMMA CalmRollbackEnds ==
  ASSUME CalmInv, Inv', RollbackEnds
  PROVE  CalmInv' /\ UndoesReload
<1>1. /\ reload.at = "undo" /\ reload.deletes = {} /\ reload.creates = {}
      /\ servers' = servers /\ originalCfg' = originalCfg /\ reload'.at = "idle"
  BY EndedIs DEF RollbackEnds
<1>2. ~Idle /\ reload.currentRaw = originalCfg.servers
  BY <1>1 DEF Idle, CalmInv, MemoryOK
<1>3. ASSUME NEW n \in DOMAIN servers, servers[n].from = "file" PROVE Backed(n)
  BY <1>1, <1>2, <1>3 DEF CalmInv, MemoryOK, UndoOK
<1>4. CalmInv'
  BY <1>1, <1>3, CalmIdle DEF Backed
<1>5. DOMAIN servers \subseteq DOMAIN reload.before
  BY <1>1, <1>2 DEF CalmInv, UndoOK, Inv, PlanOK, Kept
<1>6. ASSUME NEW n \in Described
      PROVE  n \in DOMAIN servers /\ servers[n].cfg = reload.before[n]
  <2>1. CASE n \in Kept
    BY <1>2, <2>1 DEF CalmInv, Inv, PlanOK
  <2>2. CASE n \notin Kept
    <3>1. /\ n \in reload.replaced /\ n \in DOMAIN reload.currentRaw
          /\ prepareConfig(reload.currentRaw[n], originalCfg.defaults) = reload.before[n]
      BY <2>2 DEF Described, Kept
    <3>2. n \in DOMAIN servers /\ Backed(n)
      BY <1>1, <2>2, <3>1 DEF CalmInv, UndoOK
    <3> QED
      BY <1>2, <3>1, <3>2 DEF Backed
  <2> QED
    BY <2>1, <2>2
<1>7. DOMAIN Configs' = DOMAIN servers /\ \A n \in DOMAIN servers : Configs'[n] = servers[n].cfg
  BY <1>1 DEF Configs
<1> QED
  BY <1>1, <1>4, <1>5, <1>6, <1>7 DEF UndoesReload

\* Other programs' addresses, a dump between reloads, or nothing.
LEMMA CalmOthers ==
  ASSUME CalmInv, Inv', Environment \/ (Idle /\ DumpStarts) \/ DumpFills \/ UNCHANGED vars
  PROVE  CalmInv'
<1>1. CASE Environment \/ UNCHANGED vars
  <2>1. /\ servers' = servers /\ reload' = reload /\ originalCfg' = originalCfg
        /\ dumping' = dumping
    BY <1>1 DEF Environment, Release, Occupy, Vacate, vars
  <2> QED
    BY <2>1 DEF CalmInv, DescribesServers, MemoryOK, UndoOK, Idle, Kept, Backed
<1>2. CASE Idle /\ DumpStarts
  <2>1. dumping' /\ reload' = reload
    BY <1>2 DEF DumpStarts
  <2> QED
    BY <1>2, <2>1, CalmIdle DEF Idle
<1>3. CASE DumpFills
  <2>1. Idle
    BY <1>3 DEF CalmInv, DumpFills
  <2>2. ASSUME NEW n \in DOMAIN servers' PROVE Backed(n)'
    <3>1. /\ servers' = servers /\ n \in DOMAIN originalCfg'.servers
          /\ originalCfg'.servers[n] = servers[n].cfg
          /\ originalCfg'.defaults \in Defaults
      BY <1>3, DumpIs DEF CalmInv, Inv, DumpFills
    <3>2. servers[n].cfg \in Ready
      <4>1. servers \in [DOMAIN servers -> Running]
        BY PartialIs DEF CalmInv, Inv, TypeOK
      <4> QED
        BY <3>1, <4>1 DEF Running
    <3> QED
      BY <3>1, <3>2, ReadyIsPrepared DEF Backed
  <2>3. reload' = reload
    BY <1>3 DEF DumpFills
  <2> QED
    BY <2>1, <2>2, <2>3, CalmIdle DEF Idle
<1> QED
  BY <1>1, <1>2, <1>3

LEMMA CalmStep == CalmInv /\ [CalmNext]_vars => CalmInv'
<1> SUFFICES ASSUME CalmInv, [CalmNext]_vars
             PROVE  CalmInv'
  OBVIOUS
<1>1. Inv'
  BY CalmIsNext, NextInv DEF CalmInv
<1>2. CASE ReloadStep
  BY <1>1, <1>2, CalmReloadDelete, CalmReloadCreate, CalmReloadEnds, CalmRollbackDelete,
     CalmRollbackCreate, CalmRollbackEnds DEF ReloadStep
<1> QED
  BY <1>1, <1>2, CalmRequest, CalmOthers DEF CalmNext

LEMMA CalmInvariance == CalmSpec => []CalmInv
BY CalmInit, CalmStep, PTL DEF CalmSpec

\* Between operations the configuration in memory describes every server that
\* came from a file, with the defaults it runs with: the reload that ends, the
\* rollback that ends, fails or skips, and a dump all leave it so.
THEOREM MemoryDescribes == CalmSpec => []DescribesServers
<1>1. CalmInv => DescribesServers
  BY DEF CalmInv
<1> QED
  BY <1>1, CalmInvariance, PTL

\* rollbackReload: a rollback that reports no error has deleted everything the
\* reload created and has every described server back as it ran.
THEOREM RollbackUndoes == CalmSpec => RollbackRestores
<1>1. CalmInv /\ [CalmNext]_vars => UndoesReload
  <2> SUFFICES ASSUME CalmInv, [CalmNext]_vars, reload.at = "undo",
                      reload'.outcome = "restored"
               PROVE  UndoesReload
    BY DEF UndoesReload
  <2>1. reload.outcome = "none" /\ reload \in Plan
    BY DEF CalmInv, Inv, TypeOK, PlanOK, Idle
  <2>2. RollbackEnds
    <3>1. /\ ~ApiRequest /\ ~ReloadRequest /\ ~Idle
          /\ ~ReloadDelete /\ ~ReloadCreate /\ ~ReloadEnds
      BY DEF ApiRequest, ReloadRequest, Create, Delete, ReloadRejected, Reload, Idle,
             ReloadDelete, ReloadCreate, ReloadEnds
    <3>2. ~RollbackDelete
      BY <2>1 DEF RollbackDelete, Plan
    <3>3. ~RollbackCreate
      <4>1. Ended("lost").outcome = "lost"
        BY DEF Ended
      <4>2. \A n : [reload EXCEPT !.creates = @ \ {n}].outcome = "none"
        BY <2>1 DEF Plan
      <4> QED
        BY <4>1, <4>2 DEF RollbackCreate
    <3>4. ~Environment /\ ~DumpFills /\ ~UNCHANGED vars
      BY <2>1 DEF Environment, Release, Occupy, Vacate, DumpFills, vars
    <3> QED
      BY <3>1, <3>2, <3>3, <3>4 DEF CalmNext, ReloadStep
  <2>3. Inv'
    BY CalmIsNext, NextInv DEF CalmInv
  <2> QED
    BY <2>2, <2>3, CalmRollbackEnds
<1> QED
  BY <1>1, CalmInvariance, PTL DEF CalmSpec, RollbackRestores
=============================================================================
