------------------------------ MODULE Manager ------------------------------
(***************************************************************************)
(* The manager of gobetween (src/src/manager/manager.go): the map of       *)
(* running servers and the operations on it.  Create and Delete come from  *)
(* the REST API, Reload from SIGHUP; the mutex `operations' lets one of    *)
(* them run at a time, DumpConfig (REST) does not take it.                 *)
(*                                                                         *)
(* Deleting a server only asks it to stop: its listener closes later, and  *)
(* until then its address is busy.  prepareConfig (module Preparation)     *)
(* works on a copy of a configuration whose sections are shared with the   *)
(* original, so a probe string with an escape in it is unquoted in the     *)
(* original too and cannot be prepared a second time.                      *)
(*                                                                         *)
(* The servers of a file are those that module Expansion makes of its      *)
(* sections.                                                               *)
(***************************************************************************)
EXTENDS Preparation, Integers, FiniteSets

CONSTANTS
  Names,     \* server names, as numbers, which sort like strings do
  Files,     \* the configuration files that may be loaded
  Posted     \* the server configurations that the REST API may post

Partial(D, R) == UNION {[S -> R] : S \in SUBSET D}

ASSUME ManagerAssumption ==
  /\ Names \subseteq Nat /\ IsFiniteSet(Names)
  /\ Posted \subseteq Config
  /\ \A f \in Files :
       \E S \in SUBSET Names : f \in [defaults : GivenDefaults, servers : [S -> Config]]

VARIABLES
  servers,      \* servers.m: the configuration each running server was
                \* created with, and who asked for it
  closing,      \* addresses of stopped servers that are not released yet
  foreign,      \* addresses that other programs listen on
  acme,         \* AcmeService.hosts
  originalCfg,  \* the servers and defaults of the last file that was applied
  dumping,      \* a dump has emptied originalCfg.servers and not filled it yet
  reload        \* the Reload that is running, or the outcome of the last one

vars == <<servers, closing, foreign, acme, originalCfg, dumping, reload>>

\* A prepared configuration is complete: preparing it again changes nothing.
Ready == {c \in Config : c.bind # None /\ \A d \in Defaults : prepareConfig(c, d) = c}

Running == [cfg : Ready, from : {"file", "api"}]

Without(f, n) == [m \in DOMAIN f \ {n} |-> f[m]]

With(f, n, v) == [m \in DOMAIN f \cup {n} |-> IF m = n THEN v ELSE f[m]]

Configs == [n \in DOMAIN servers |-> servers[n].cfg]

-----------------------------------------------------------------------------
(* Preparing the servers of a file.                                        *)

\* prepareExpandedServers
Prepared(file) ==
  [n \in DOMAIN file.servers |->
     prepareConfig(file.servers[n], normalizeDefaults(file.defaults))]

\* A loaded file, as it is in memory once it was prepared.
Loaded(file) ==
  [defaults |-> normalizeDefaults(file.defaults),
   servers |-> [n \in DOMAIN file.servers |-> Touched(file.servers[n])]]

-----------------------------------------------------------------------------
(* Starting and stopping one server.                                       *)

Holders(b) == {n \in DOMAIN servers : servers[n].cfg.bind = b}

Busy(b) == Holders(b) # {} \/ b \in closing \/ b \in foreign

\* Sources that a server has from [defaults] are looked at by its constructor.
Constructed(n, cfg, defaults) ==
  /\ n \notin DOMAIN servers
  /\ Valid(cfg)
  /\ prepareConfig(cfg, defaults).sources # "wrong"

\* Enabling the ACME service, which leaves UDP out, fails if a host is known.
EnabledHosts(cfg) == IF cfg.protocol = "udp" THEN {} ELSE Hosts \cap {cfg.tls}

Creatable(n, cfg, defaults) ==
  /\ Constructed(n, cfg, defaults)
  /\ EnabledHosts(cfg) \cap acme = {}
  /\ ~Busy(cfg.bind)

\* The hosts stay enabled when the server then fails to start.
create(n, cfg, defaults, from) ==
  /\ servers' = IF Creatable(n, cfg, defaults)
                THEN With(servers, n, [cfg |-> prepareConfig(cfg, defaults), from |-> from])
                ELSE servers
  /\ acme' = IF Constructed(n, cfg, defaults) THEN acme \cup EnabledHosts(cfg) ELSE acme
  /\ UNCHANGED <<closing, foreign>>

\* Disabling does not leave UDP out.
deleteServer(n) ==
  /\ servers' = Without(servers, n)
  /\ closing' = closing \cup {servers[n].cfg.bind}
  /\ acme' = acme \ {servers[n].cfg.tls}
  /\ UNCHANGED foreign

\* The stopped server's goroutine gets to listener.Close().
Release(b) ==
  /\ b \in closing
  /\ closing' = closing \ {b}
  /\ UNCHANGED <<servers, foreign, acme, originalCfg, dumping, reload>>

\* Another program starts or stops listening on an address.
Occupy(b) ==
  /\ ~Busy(b)
  /\ foreign' = foreign \cup {b}
  /\ UNCHANGED <<servers, closing, acme, originalCfg, dumping, reload>>

Vacate(b) ==
  /\ foreign' = foreign \ {b}
  /\ b \in foreign
  /\ UNCHANGED <<servers, closing, acme, originalCfg, dumping, reload>>

-----------------------------------------------------------------------------
(* The operations of the REST API.                                         *)

Idle == reload.at = "idle"

Create(n, cfg) ==
  /\ Idle
  /\ create(n, cfg, originalCfg.defaults, "api")
  /\ UNCHANGED <<originalCfg, dumping, reload>>

Delete(n) ==
  /\ Idle
  /\ n \in DOMAIN servers
  /\ deleteServer(n)
  /\ UNCHANGED <<originalCfg, dumping, reload>>

\* A dump puts the running servers, prepared as they are, in the place of those
\* of the file.  It takes no mutex, and empties the map before it takes the lock
\* of the running servers.  Bound: one dump at a time.
DumpStarts ==
  /\ ~dumping
  /\ originalCfg' = [originalCfg EXCEPT !.servers = [n \in {} |-> None]]
  /\ dumping' = TRUE
  /\ UNCHANGED <<servers, closing, foreign, acme, reload>>

\* A reload that has ended since has put the file's map there: the servers are
\* added to it.  One that ends between two of these writes is not modelled.
DumpFills ==
  /\ dumping
  /\ originalCfg' = [originalCfg EXCEPT !.servers =
                       [n \in DOMAIN servers \cup DOMAIN @ |->
                          IF n \in DOMAIN servers THEN servers[n].cfg ELSE @[n]]]
  /\ dumping' = FALSE
  /\ UNCHANGED <<servers, closing, foreign, acme, reload>>

-----------------------------------------------------------------------------
(* Reload.  A plan is carried out name by name, each under the lock of the *)
(* map, with which DumpConfig and the stopped servers can take turns.      *)

Plan == [at : {"idle", "apply", "undo"},
         file : Files \cup {None},
         deletes : SUBSET Names, creates : SUBSET Names,
         created : SUBSET Names, replaced : SUBSET Names,
         currentRaw : Partial(Names, Config),   \* what rollback would create
         before : Partial(Names, Config),       \* what was running
         outcome : {"none", "ok", "rejected", "restored", "lost"}]

Ended(outcome) ==
  [at |-> "idle", file |-> None, deletes |-> {}, creates |-> {}, created |-> {},
   replaced |-> {}, currentRaw |-> [n \in {} |-> None],
   before |-> [n \in {} |-> None], outcome |-> outcome]

Desired == Prepared(reload.file)

\* Mutant: the running servers are compared with the file as it was written.
ModifiedUnprepared(file) ==
  {n \in DOMAIN servers \cap DOMAIN file.servers :
     servers[n].cfg # file.servers[n]}

\* Mutant: only a new address makes a server a modified one.
ModifiedAddress(file) ==
  {n \in DOMAIN servers \cap DOMAIN file.servers :
     servers[n].cfg.bind # file.servers[n].bind}

\* planReload: servers whose prepared configurations differ are modified.
Modified(file) ==
  {n \in DOMAIN servers \cap DOMAIN file.servers :
     servers[n].cfg # Prepared(file)[n]}

Removed(file) == DOMAIN servers \ DOMAIN file.servers

Added(file) == DOMAIN file.servers \ DOMAIN servers

\* The next of a list of names: those of `first' come before the others, and
\* each part is sorted.
NextOf(S, first) ==
  {n \in S : \A m \in S : IF m \in first <=> n \in first THEN n <= m
                           ELSE n \in first}

\* An invalid file is rejected before anything is touched.
ReloadRejected(file) ==
  /\ Idle
  /\ \E n \in DOMAIN file.servers : ~Valid(file.servers[n])
  /\ reload' = Ended("rejected")
  /\ UNCHANGED <<servers, closing, foreign, acme, originalCfg, dumping>>

Reload(file) ==
  LET replaced == Modified(file) \cup Removed(file)
  IN /\ Idle
     /\ \A n \in DOMAIN file.servers : Valid(file.servers[n])
     /\ reload' = [at |-> "apply", file |-> file,
                   deletes |-> replaced,
                   creates |-> Added(file) \cup Modified(file),
                   created |-> {}, replaced |-> replaced,
                   currentRaw |-> originalCfg.servers, before |-> Configs,
                   outcome |-> "none"]
     /\ UNCHANGED <<servers, closing, foreign, acme, originalCfg, dumping>>

ReloadDelete ==
  \E n \in NextOf(reload.deletes, DOMAIN Desired) :
     /\ reload.at = "apply"
     /\ deleteServer(n)
     /\ reload' = [reload EXCEPT !.deletes = @ \ {n}]
     /\ UNCHANGED <<originalCfg, dumping>>

\* The configuration was prepared once to make the plan, and is again here.
\* When a creation fails, the rollback takes over.
ReloadCreate ==
  \E n \in NextOf(reload.creates, Names \ DOMAIN reload.before) :
     /\ reload.at = "apply" /\ reload.deletes = {}
     /\ create(n, Loaded(reload.file).servers[n], Loaded(reload.file).defaults, "file")
     /\ reload' = IF n \in DOMAIN servers'
                  THEN [reload EXCEPT !.creates = @ \ {n}, !.created = @ \cup {n}]
                  ELSE [reload EXCEPT !.at = "undo", !.deletes = reload.created,
                                      !.creates = reload.replaced]
     /\ UNCHANGED <<originalCfg, dumping>>

\* Mutant: the old defaults stay.
ReloadEndsOldDefaults ==
  /\ reload.at = "apply" /\ reload.deletes = {} /\ reload.creates = {}
  /\ originalCfg' = [originalCfg EXCEPT !.servers = Loaded(reload.file).servers]
  /\ reload' = Ended("ok")
  /\ UNCHANGED <<servers, closing, foreign, acme, dumping>>

\* mergeReloadableConfig, and the new defaults.
ReloadEnds ==
  /\ reload.at = "apply" /\ reload.deletes = {} /\ reload.creates = {}
  /\ originalCfg' = Loaded(reload.file)
  /\ reload' = Ended("ok")
  /\ UNCHANGED <<servers, closing, foreign, acme, dumping>>

RollbackDelete ==
  \E n \in reload.deletes :
     /\ reload.at = "undo"
     /\ deleteServer(n)
     /\ reload' = [reload EXCEPT !.deletes = @ \ {n}]
     /\ UNCHANGED <<originalCfg, dumping>>

\* Mutant: the rollback works with the defaults of the new file.
RollbackCreateNewDefaults ==
  \E n \in NextOf(reload.creates, DOMAIN Desired) :
     /\ reload.at = "undo" /\ reload.deletes = {}
     /\ IF n \in DOMAIN reload.currentRaw
        THEN create(n, reload.currentRaw[n], Loaded(reload.file).defaults, "file")
        ELSE UNCHANGED <<servers, closing, foreign, acme>>
     /\ reload' = IF n \in DOMAIN reload.currentRaw => n \in DOMAIN servers'
                  THEN [reload EXCEPT !.creates = @ \ {n}]
                  ELSE Ended("lost")
     /\ UNCHANGED <<originalCfg, dumping>>

\* A server that no file describes is not brought back; the first one that
\* cannot be created ends the rollback.
RollbackCreate ==
  \E n \in NextOf(reload.creates, DOMAIN Desired) :
     /\ reload.at = "undo" /\ reload.deletes = {}
     /\ IF n \in DOMAIN reload.currentRaw
        THEN create(n, reload.currentRaw[n], originalCfg.defaults, "file")
        ELSE UNCHANGED <<servers, closing, foreign, acme>>
     /\ reload' = IF n \in DOMAIN reload.currentRaw => n \in DOMAIN servers'
                  THEN [reload EXCEPT !.creates = @ \ {n}]
                  ELSE Ended("lost")
     /\ UNCHANGED <<originalCfg, dumping>>

RollbackEnds ==
  /\ reload.at = "undo" /\ reload.deletes = {} /\ reload.creates = {}
  /\ reload' = Ended("restored")
  /\ UNCHANGED <<servers, closing, foreign, acme, originalCfg, dumping>>

-----------------------------------------------------------------------------
\* Initialize: every server of the first file was created, each on an address
\* and with a host of its own, or the program would have ended.
Initialize ==
  \E file \in Files :
    /\ \A n \in DOMAIN file.servers :
         Valid(file.servers[n]) /\ Prepared(file)[n].sources # "wrong"
    /\ \A m, n \in DOMAIN file.servers :
         m # n => /\ file.servers[m].bind # file.servers[n].bind
                  /\ EnabledHosts(file.servers[m]) \cap EnabledHosts(file.servers[n]) = {}
    /\ servers = [n \in DOMAIN file.servers |->
                    [cfg |-> Prepared(file)[n], from |-> "file"]]
    /\ closing = {} /\ foreign = {}
    /\ acme = UNION {EnabledHosts(file.servers[n]) : n \in DOMAIN file.servers}
    /\ originalCfg = Loaded(file)
    /\ dumping = FALSE
    /\ reload = Ended("none")

ReloadStep ==
  \/ ReloadDelete
  \/ ReloadCreate
  \/ ReloadEnds
  \/ RollbackDelete
  \/ RollbackCreate
  \/ RollbackEnds

ApiRequest ==
  \/ \E n \in Names, cfg \in Posted : Create(n, cfg)
  \/ \E n \in Names : Delete(n)

ReloadRequest == \E file \in Files : ReloadRejected(file) \/ Reload(file)

Environment == \E b \in Binds : Release(b) \/ Occupy(b) \/ Vacate(b)

Next ==
  \/ ApiRequest
  \/ ReloadRequest
  \/ ReloadStep
  \/ Environment
  \/ DumpStarts
  \/ DumpFills

Spec == Initialize /\ [][Next]_vars

\* No dump is under way while a reload is.
CalmNext ==
  \/ ApiRequest
  \/ ~dumping /\ ReloadRequest
  \/ ReloadStep
  \/ Environment
  \/ Idle /\ DumpStarts
  \/ DumpFills

CalmSpec == Initialize /\ [][CalmNext]_vars

-----------------------------------------------------------------------------
(* Properties.                                                             *)

TypeOK ==
  /\ servers \in Partial(Names, Running)
  /\ closing \subseteq Binds /\ foreign \subseteq Binds /\ acme \subseteq Hosts
  /\ originalCfg \in [defaults : Defaults, servers : Partial(Names, Config)]
  /\ dumping \in BOOLEAN
  /\ reload \in Plan

\* "unchanged listeners keep running": whatever happens to a reload, a server
\* whose prepared configuration is that of the new file is never stopped, not
\* by the plan and not by a rollback.
UnchangedKeepRunning ==
  ~Idle => \A n \in DOMAIN reload.before \cap DOMAIN Desired :
             reload.before[n] = Desired[n] =>
               n \in DOMAIN servers /\ servers[n].cfg = Desired[n]

\* A reload that reports success has made the running servers those of the
\* file, with its defaults, whatever was created or deleted before.
AppliesFile == reload.at = "apply" /\ reload'.outcome = "ok" => Configs' = Desired

SuccessApplies == [][AppliesFile]_vars

\* What a rollback knows how to bring back: the servers that the last file
\* (or dump) still describes as they ran.
Described ==
  {n \in DOMAIN reload.before \cap DOMAIN reload.currentRaw :
     prepareConfig(reload.currentRaw[n], originalCfg.defaults) = reload.before[n]}

\* A rollback that reports no error has undone everything the reload created
\* and has brought every described server back as it was.
UndoesReload ==
  reload.at = "undo" /\ reload'.outcome = "restored" =>
    /\ DOMAIN servers' \subseteq DOMAIN reload.before
    /\ \A n \in Described : n \in DOMAIN servers' /\ Configs'[n] = reload.before[n]

RollbackRestores == [][UndoesReload]_vars

\* Addresses can move between servers in one reload: when a server is about
\* to be created, a server of the map that holds its address is one that the
\* file itself puts there, not one that the file moves or removes.
AddressesHandedOver ==
  reload.at = "apply" /\ reload.deletes = {} =>
    \A n \in reload.creates : \A m \in Holders(Desired[n].bind) :
      m # n /\ m \in DOMAIN Desired /\ servers[m].cfg = Desired[m]

\* Between operations and dumps the configuration in memory describes every
\* server that came from a file, with the defaults it runs with: the next
\* rollback depends on it.
DescribesServers ==
  Idle /\ ~dumping => \A n \in DOMAIN servers :
            servers[n].from = "file" =>
              /\ n \in DOMAIN originalCfg.servers
              /\ prepareConfig(originalCfg.servers[n], originalCfg.defaults)
                   = servers[n].cfg

\* What the code does not ensure (a probe string with an escape, an address
\* that is not released yet or an ACME host that a failed start left enabled
\* makes the rollback fail as well): no reload loses a server.
NothingLost == reload.outcome # "lost"
=============================================================================
