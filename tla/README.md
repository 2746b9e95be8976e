# Formal models of gobetween

gobetween is an L4 load balancer: each configured server accepts TCP connections
or UDP datagrams, elects a backend for each client and copies bytes both ways,
while discovery refreshes the list of backends and healthchecks mark them live
or not. This directory models its concurrent core in TLA+, checks the models
with TLC and proves the central facts with TLAPS. Paths are relative to the
repository's root.

## 1. Inventory

| Component | State | Operations | Talks to |
|---|---|---|---|
| Scheduler (`src/server/scheduler`) | map of backends: live, discovered, counters, limits | discovery update, live change, stats change, election, counter operations, stop | all below; one goroutine, unbuffered channels |
| TCP server and proxy (`src/server/tcp`) | map of clients, listener; per connection two copiers and two collectors of statistics | accept and wrap, connect, disconnect, handle, stop | scheduler (elect, count), stats handler |
| UDP server and sessions (`src/server/udp`) | map of sessions; per session a queue, an idle timer, a stop token | datagram, cleanup, session loop, response listener, stop | scheduler, stats handler |
| Healthcheck (`src/healthcheck`) | workers; per worker the last verdict, passes, fails | sync workers, tick, check, process, stop | scheduler (`In`, `Out`) |
| Discovery (`src/discovery`) | cached list | fetch, send, wait, retry, stop | scheduler |
| Stats (`src/stats`) | totals per server and backend, store of handlers | tick, traffic, update counters, stop | scheduler, servers, REST API |
| Balancers, middlewares (`src/balance`) | round robin position | elect | called by the scheduler |
| Manager (`src/manager`) | map of servers, configuration, defaults | create, delete, reload with rollback, dump | servers, ACME service, REST API |
| ACME service (`src/service`) | hosts that may have certificates | enable, disable | manager |
| Access rules (`src/server/modules/access`) | rules, a default | allows | called by TCP and UDP servers |
| REST API, metrics, logging, config, cmd, utils | none that is read back | | |

What is hard here: every goroutine talks over unbuffered channels, so what was
read at one step is stale at the next; connections hold a *copy* of a backend
while discovery changes the original; results of slow checks arrive late and out
of order; three goroutines send to each other in a circle; timers race with
datagrams; the two directions of a connection end each other while what they
counted is still on its way; stopping a server takes all of this apart in some
order; and a reload stops and starts servers one by one, any of which may fail.
`PROJECT.json` lists these hazards at their lines.

What makes each part correct: the scheduler's counters equal the connections that
are open, drained backends stay exactly as long as they are needed, limits hold;
every client that got a place gives it back on every way out, and a stop closes
all that are handled; every byte written is counted; the live flag says what the
checks say; sessions end and give their place back; totals are those of the
backend they are shown for, and the goroutines never stop for each other; a
balancer's choice is that of its definition and of the permitted backends only; a
reload leaves unchanged servers alone and either applies the file or puts back
what was there; a stopped server gives its address back and disturbs neither its
successor nor the other servers.

## 2. Modules

| Module | Models | Code |
|---|---|---|
| `Scheduler` | the backends map, elections, counters, connections as processes | `scheduler.go`, `core/backend.go`, `maxconnections.go`, the protocol of `tcp/server.go` `handle` |
| `BackendPool` | abstract: draining without counters | implemented by `Scheduler` |
| `SchedulerProofs` | TLAPS | |
| `HealthCounting` | pure: one check result against a worker's counters | `worker.go` `process` |
| `CheckKinds` | pure: what one check finds, from its section and the target's behaviour | `ping.go`, `probe.go`, `exec.go` |
| `HealthWorker` | one worker with a history of its results | `worker.go` |
| `Healthcheck` | scheduler's live flags, the healthcheck loop, workers, overlapping checks | `healthcheck.go`, `worker.go` |
| `HealthHistory` | `Healthcheck` with `HealthWorker`'s history for one worker | |
| `HealthcheckProofs` | TLAPS, for all four | |
| `TcpServer` | accepting, hello, the loop and its map of clients, handlers, the stop, access rules; extends `Scheduler` | `tcp/server.go`, `access` |
| `Proxy` | the two copiers, the two collectors and the handler of one connection | `tcp/proxy.go`, the end of `handle` |
| `TcpServerProofs` | TLAPS, for `TcpServer` and `Proxy` | |
| `UdpServer` | main loop, session map, session loops, listeners, cleanup; extends `Scheduler` | `udp/server.go`, `udp/session/session.go` |
| `UdpServerProofs` | TLAPS | |
| `Stats` | scheduler, backends counter, counters, forwarding goroutines | `stats/handler.go`, `stats/counters` |
| `StatsProofs` | TLAPS | |
| `Balance` | all balancers and middlewares | `balance` |
| `BalanceProofs` | TLAPS | |
| `Manager` | the map of servers, addresses, ACME hosts; create, delete, dump, reload and rollback | `manager.go`, `acme.go` |
| `Preparation` | pure: what is rejected, filled in and changed in place when a server's configuration is prepared | `prepareConfig`, `normalizeDefaults` in `manager.go` |
| `Expansion` | pure: from the sections of a file to one server per address | `expandBinds`, `rawExpandedServers` in `manager.go` |
| `ManagerProofs` | TLAPS | |
| `Lifecycle` | the goroutines of one server while it is stopped, and its successor | `tcp/server.go`, `udp/server.go`, `scheduler.go`, `discovery.go`, `stats` |
| `LifecycleProofs` | TLAPS | |
| `MC...` | constants for TLC | |

How state and actions correspond to the code:

* **Scheduler.** `backends` is `Scheduler.backends` with the fields that decide
  anything; `phase` and `taken` are a connection's program counter and its copy
  of the backend. Sending on an unbuffered channel and handling the message is
  one action, because the sender waits for the goroutine's select.
  `HandleBackendsUpdate` merges, marks and removes in one step, as the handler
  does. `TakeBackend`/`TakeNothing` are the two answers of an election; the second
  may come while backends are eligible, since a middleware or the balancer can
  refuse them all;
  `IncrementConnection`, `IncrementRefused` and `DecrementConnection` the three
  ways on. `ActiveConnections` is a Go `uint`: arithmetic is modulo
  `UintMax + 1`. `OneAtATime` says that one goroutine elects, dials and counts in
  turn, which is what the UDP server does and the TCP server does not.
* **Healthcheck.** `live` is the map's `Stats.Live`; `inbox` the list between the
  scheduler's send and the worker sync; a `worker` is a goroutine with its
  counters, how many checks with each finding are under way, the channel of
  capacity 1 and the verdict it blocks on. What a check finds follows from the
  healthcheck section, which stays, and the target's behaviour at the time
  (`CheckKinds`), which the target's environment changes (`Flip`). A worker that
  was told to stop keeps its goroutine until its select takes the stop case, and
  may send before that. `HealthWorker` is one worker that may get any results,
  with a history of them; `HealthHistory` gives the worker of one slot that
  history, so that its results are those that come through slow checks and a
  channel of capacity 1.
* **TcpServer.** A connection (`conn`) is first a goroutine of `wrap` (`hello`,
  `queued`), then a handler, which is a connection of `Scheduler`: `phase` and
  `taken` are those of that module, and `Elected`, `CountIn`, `DialFails` and
  `CountOut` are its operations with what the server adds. `leaving` is the send
  to the loop at the end. A stop is two steps, the scheduler's and then that of
  the listener and the clients, since everything between can go on in between.
  `client` and `backend` are this program's two sockets.
* **Proxy.** `rx` is from the backend to the client, as in `IncrementRx`. A
  `collector` is at its select, blocked on `outStats`, or has closed it;
  `flushed` is the variable of that name; a `final` send is the one after the
  copier has closed `stats`. Each send over an unbuffered channel is one step
  with its receipt. `written`, `reported` and `idled` are histories.
* **UdpServer.** A session is a connection of `Scheduler`. `main` is the main
  loop; between `ReadNew` and the session it holds the map's mutex, so `Cleanup`
  waits. A session's `timer` is `received` after `<-tC` and before it is armed
  again; `Stop()` on such a timer returns false and `<-t.C` waits: `at = "stuck"`.
* **Stats.** `sched.at = "in"` is the scheduler blocked in
  `BackendsCounter.In <-`; `bc` is the backends counter at its select, blocked
  on a counter's `Traffic` or on a counter's `stop`; `counter[t] = "out"` a
  counter blocked on `Out`. Handler and server counter always get back to
  their selects, so sends to them are part of the sender's step.
* **Balance.** An operator per balancer and middleware, on a sequence of
  backends in any order; it gives the set of possible outcomes. Loops over the
  backends are folds (`Keep` is the loop that appends), and `sort.SliceStable`
  is what it does: the one ascending order of the backends. Round robin's
  position is the only state; `turns` is a history.
* **Manager.** `servers` is `servers.m`; `closing` holds the addresses of servers
  that were told to stop and have not closed their listeners (`Stop()` returns
  when the request is taken); `foreign` those that other programs took.
  `originalCfg` is that variable with the defaults, which change together. The
  mutex `operations` makes Create, Delete and Reload exclude each other
  (`reload.at = "idle"`); within a reload each deletion and each creation is a
  step, as each takes the lock of the map anew. `DumpStarts` empties the servers of
  `originalCfg` and `DumpFills` puts the running ones in, with anything in between
  (`dumping`). An ACME host is enabled for TCP servers only, and disabled with any
  server whose section `[tls]` names it, as in `acme.go`.
* **Preparation.** `Valid` is the absence of every error of `prepareConfig`, one
  operator per section; `prepareConfig` gives what it returns. `Touched` is what the
  caller's configuration is afterwards: sections are pointers, which copies share,
  so that defaults of a section and the unquoted probe string stay, while options
  of the connection do not. Preparing twice is therefore not preparing once: a
  string with an escape is refused the second time.
* **Expansion.** Operators named as the functions: `expandBinds` gives the servers
  of one section, keyed by the name its template makes, `Expandable` and `NoError`
  are the absence of every error on the way. `MCManager` makes the files of
  `Manager` from sections, and `SectionsServed` compares what listens after a
  reload with the sections.
* **Lifecycle.** Each goroutine's place is a variable; `todo` is what the server's
  goroutine has still to stop, in the order of its protocol. A send to a
  goroutine is one step with its receipt. Channels that are closed while somebody
  is at a send to them are the states `SchedulerPanics` and `ForwardPanics`: the
  program ends there. `once` is discovery with interval 0. `replacement` is the
  next server of the same name, created by a reload at any time after the stop
  request was taken.

`TcpServer` and `UdpServer` are composed with `Scheduler` by `EXTENDS`, and both are
shown to implement it, the UDP server with `OneAtATime = TRUE` (`SerialSpec`):
what is proved of the scheduler is then true within either server.
`Scheduler` is shown to implement `BackendPool` (`PoolSpec`). `TcpServer` makes one
step (`ProxyEnds`) of what `Proxy` models: that this step leaves nothing behind is
a theorem about `Proxy`.

## 3. Runs

| Run | Bounds | Shows |
|---|---|---|
| `sched_drain` | 2 targets, 3 connections, limits 0 or 2 | counters exact, nothing removed too early or kept too long, refinement of `BackendPool`, drained backends forgotten |
| `health_verdict` | 1 target, 2 slots for workers, 2 checks under way, fails 2, passes 3, a section of each kind | one running worker per target; the live flag is its verdict, and ends up right though checks overtake each other; a run of equal results always decides, and a verdict never turns on too few |
| `tcp_serve` | 1 target, 3 connections, 3 addresses, room for 2, hello and header, 2 rules | the map of clients is that of the handlers, the limit holds, a stop closes what is handled, every place is given back |
| `proxy_copy` | 2 writes from the backend, 1 from the client, reports to 2 before ticks stop | bytes reported are bytes written, one end ends the other, a stop reaches the backend |
| `udp_sessions` | 2 targets of 1 session, 2 clients, 2 sessions, queue of 1 | live sessions are mapped, limits hold for UDP, refinement of the serialised scheduler, `max_responses` ends sessions |
| `udp_idle` (violated) | 1 client, 2 sessions | a datagram after the idle timeout wedges a session |
| `stats_flow` | 2 targets, 2 units of traffic | totals belong to the backend's present life; all that was sent for a backend that stays reaches its total, all that was sent the server's; the only way to stop is the circle |
| `stats_gridlock` (violated) | 1 target, 1 unit | the circle closes: scheduler, backends counter and a counter wait for each other |
| `balance_elect` | 3 backends, 5 profiles, 2 names, 4 elections | each balancer and middleware against its definition, for every order |
| `manager_reload` | 3 names, 2 addresses, 2 default limits, 1 ACME host, 40 files (8 that load, 5 with errors in their sections, 27 that `prepareConfig` refuses), 3 posted servers | unchanged servers untouched, success means the file and all addresses of its sections, rollback means what was there |
| `life_tcp` | 1 backend, 1 forwarding goroutine | no send of the scheduler to closed channels, the successor's stats stay, the address is given back, healthchecks end |
| `life_udp` (violated) | as above | the UDP order of stopping lets the scheduler send to a closed channel: a panic |

Why the bounds are enough: the scheduler's hazards need one connection between
election and increment while another is open, and two lists, one without and one
with the backend; a third connection adds a second counter value. A limit is at
stake with two connections. Health results matter up to the thresholds, and two
checks under way are enough for a late one to be overtaken (`MaxChecks`; a worker
starts a check per tick, without a bound). Under `QuietUpdate` a target that
returns finds its old worker gone: the run has at most one worker alive, in either
of two slots. That several workers linger and still only one runs is the theorem
`OneWorkerPerTarget`, for the unrestricted `Spec`. The circle of `Stats` needs one
target, and traffic or a second list; two targets add a counter that is not part
of it. A third client finds the server full, a third address is the denied one.
Two writes in one direction are one that a tick has passed on and one that it has
not, the one write of the other waits meanwhile. The files exchange two addresses,
remove, add and modify servers, change a server to UDP, change the defaults.
Creations fail by a busy address, two servers on one address, sources that only
the constructor parses, a host, and a string that cannot be prepared again. One
file is refused for each error of `prepareConfig` and of the expansion. Three have
a list or a product of two addresses, whose backends follow the ports. One dump is
under way at a time. A third server would only lengthen the lists. A second
backend would repeat the counter of `Lifecycle`, a second forwarding goroutine the
first. Three backends make every order, tie and wrap-around of the balancers
happen. `UintMax = 3` is above every number of connections, so a wrap is never a
correct count. The bounds `MaxTraffic`, `MaxTurns`, `WriteBound` and `ReportBound`
stop counters that have no other end.

Fairness:

* `Scheduler`: weak fairness of discovery (interval > 0 sends for ever) and of
  each connection (timeouts and peers end it).
* `Healthcheck`: weak fairness of goroutines, tickers and sends; strong fairness
  of what a select may pass over, since Go's select chooses at random.
* `TcpServer`: weak fairness of each connection's goroutine (hello and dial have
  timeouts, a proxied connection ends or falls silent one day), of the loop for
  each connection that waits for it, and of the end of a stop.
* `Proxy`: weak fairness of copiers, collectors' ends and the handler; a write
  ends, nothing is assumed of data and ticks.
* `UdpServer`: weak fairness of each session's goroutine and of the main loop
  within one datagram; nothing of clients, backends and the timer.
* `Stats`: tickers weak, cases of a select strong; nothing of discovery.
* `Lifecycle`: goroutines with one thing to wait for weak, cases of a select
  strong; nothing of tickers, traffic and new fetches.

Assumptions on the environment, each an operator of its own: `QuietUpdate` in
`Scheduler` (no removed backend returns while a connection still holds it) and in
`Healthcheck` (nor before its old worker has returned). The code ensures neither
(section 5); static discovery gives the first (`StaticExactAccounting`). Hazards
whose own case these exclude say so in their notes. `FreshSpec` of `TcpServer`
lets no client come back from an address before the loop has heard of the end of
its last connection; ephemeral ports make that the rule. `CalmSpec` of `Manager`
lets no dump be under way during a reload: `DumpConfig` does not take the mutex.
What Go does when a map is written while it is read (the program may end) is not
modelled. `stats_flow` has `CHECK_DEADLOCK FALSE` because the code does stop
there: `Gridlocked`; so have the runs of `Lifecycle`, `TcpServer` and `Proxy`,
where a server or a connection comes to its end.

The exceptions in `AddressGivenBack` and `HealthchecksEnd` are what the code does:
`Gridlocked` (the circle of `Stats`), `Crashed` (a forwarding goroutine that
outlives its counter), and `Stranded`, a discovery that does not listen: blocked
in its send to the scheduler that is stopping it, or, with interval 0 as for
static discovery, returned long ago. In the last case the scheduler's goroutine
and the healthchecks of every deleted server stay for ever.

## 4. Proofs

`SchedulerProofs`, for any targets, connections, listings and `UintMax` not below
the number of connections:

* `TypeCorrect`: types, for `Spec`.
* The inductive invariant adds to the types that an open connection's backend is
  in the map and that its counter is the number of open connections. Without the
  first, an update could drop a counted connection; without the second, nothing
  ties a removal to connections. From it `ExactAccounting`, `RemovalSafe`,
  `RemovalComplete` and `ImplementsPool`, under `QuietSpec`.
* `StaticExactAccounting`: with one fixed set of targets, for the unrestricted
  `Spec`, because a listed backend is never removed: `Spec` then implements
  `QuietSpec` (`StaticIsQuiet`), and every other theorem follows too.
* `LimitHolds`: with `OneAtATime` and fixed limits, the connections open and
  dialing to a backend never exceed its limit: the strengthening counts the one
  connection that was elected and not yet counted. `StaticLimitHolds` is the same
  for static discovery and the unrestricted `Spec`.

`HealthcheckProofs`, for any thresholds, targets and worker slots:

* One worker given any results: `WorkerTypeCorrect`, `WorkerResponsive` (the
  invariant ties the counters to the streak), and `WorkerVerdictsAreVoted` (the
  counters never exceed the votes since the verdict turned; needs results of two
  kinds, which is what ping and probe checks report).
* `ResponsiveAlways` and `VerdictsAreVoted`: the same of a worker among others, in
  each life of its slot. A step of `HealthHistory` is one of `HealthWorker`, or
  leaves that worker alone, or makes its slot free, which is where its history
  starts again.
* `OneWorkerPerTarget`, for `Spec`: `UpdateWorkers` starts a worker only where none
  runs, and two targets never share a slot.
* `FlagIsVerdict`, for `QuietSpec`. The inductive invariant `QuietInv` adds that the
  running workers check targets of the last list, or that list is still on its way
  (`Synced`); that a target without a running worker has no stopped one either and
  has the initial flag (`NoLeftover`), since a worker that lingers would send its
  old verdict over that of its successor; and that what a worker sends is its
  verdict. `InitialIsDown` says that an exec check's third status, which clears
  the flag, is read as the initial flag only if that one is down.

`TcpServerProofs`, for any number of connections, addresses, rules and limits:
`TcpTypeCorrect`, for `TcpSpec`; `MapIsHandled`, `StopDrops` and `LimitIsKept`, for
`FreshSpec`. The inductive invariant says that every handled connection is in the
map under its address and nothing else is, that connections before the loop and
after it are not, and that no two connections that are not over share an address.
The limit follows since the map is then an injection of the handled connections,
and only `HandleClientConnect` adds to it.

* Every step of `TcpSpec` is one of `Scheduler` or leaves the scheduler alone.
  `ServerCountsExactly`: so `ActiveConnections` is exact within the server where
  backends return quietly, and it is the number of handlers between their
  increment and their decrement (`WayAndPhase` ties a connection's place in the
  server to its phase at the scheduler). `StaticServerCountsExactly`: so it is
  under static discovery with no assumption.
* The proxying of one connection, for any amount of data and any ticks:
  `ProxyTypeCorrect`, `AllIsReported`, `NothingReportedTwice`. The invariant
  balances what was written with what was reported and what is at the copier, in a
  buffer not passed on yet, and at the handler; and it says that a direction ends
  at its copier first, then at its collector, then at the handler, so that nothing
  is on the way at the end. `ProxyEndsClean`: both sockets are closed then, and
  both copiers and collectors have ended.

`UdpServerProofs`, for any clients, sessions and limits: `LiveAreMapped`, and
`SessionsAreSerial`, the refinement of the scheduler with `OneAtATime`. The
invariant says that only the main loop dials, one connection at a time, for a
client without a session that could take its datagrams, and that sessions only
age: a session that is done stays so until its connection is dialled. Without it
an election could find another one under way, and a second session could push a
live one out of the map. `SessionsWithinLimit`: a backend's limit is respected by
the sessions of a UDP server under static discovery, which is the scheduler's
theorem for one connection at a time, carried over by the refinement.

`StatsProofs`, for any targets and any traffic: `CountersAreKnown` and
`TotalsArePresent`. The invariant says that a list on its way is that of the map,
that the counters less those still to be stopped are the map as soon as the list
is taken, and that a removed backend has no bytes left: a target that returns
before its old counter was stopped starts from zero.

`ManagerProofs`, for any names, addresses, files and posted servers, and for
`Spec`, with dumps at any time: `TypeCorrect`, `UnchangedUntouched`,
`SuccessMeansApplied`, `AddressesMove` (whoever holds the address a reload creates
on was put there by the same file; no file is assumed to give each server an
address of its own). Running servers are compared with loaded ones by their
prepared configurations; the lemmas on `Preparation` show that a prepared
configuration is its own preparation, under any defaults (`PreparedTwice`). The
inductive invariant says of a running reload which servers are still to be
deleted, to be created and already created, and that the servers outside of the
plan run as they did before it; a deletion or creation outside of the plan would
break it. For `CalmSpec`, where no dump falls into a reload: `MemoryDescribes` and
`RollbackUndoes`. `CalmInv` adds that no dump is under way while a reload is, that
a reload keeps the configuration it may have to go back to, that the servers it
leaves alone are those this configuration describes (`MemoryOK`), and that a
rollback deletes before it creates, so that what runs then was kept, is still to
be deleted, or was brought back as described (`UndoOK`). A dump in a reload would
replace what is gone back to by servers that are half replaced.

`BalanceProofs`, for any number of backends, in any order, and any elections:

* `WeightsAreShares`: of the numbers the weight balancer may draw, as many fall to a
  backend of the lowest priority as its weight says, and none to another. The
  weights summed up to each place of the group cut the range into pieces of that
  length.
* `OrderPlaysNoPart`, `ClientsStay`: the best of a list by usage or by hash does not
  depend on its order, nor on those that are not the best.
* `PassedOnAsConfigured`: for each strategy, the middlewares leave what the
  configuration says.
* `TurnsAreEven`: the invariant `Rotates` says that while all clients are passed to
  one set of backends, each has had k turns, and those from the place where the
  round robin came in to its present place have had one more. A lap may begin
  anywhere, since the place it came in at was left behind by other lists.
* `TypeCorrect`.

What a loop computes is proved by induction over the list. The library's
induction theorems take an operator, which the provers cannot instantiate; so
`Induct` and `InductOver` state induction for a set of numbers and for the subsets
of a finite set, from the library's theorem that a well-founded order has
minimal elements (`WFMin`), and `FoldExists` and `SumsExist` give the function that
a fold is.

`LifecycleProofs`: `TypeCorrect` (needs that the scheduler's traffic has room in
the bound), `TcpStopsInOrder` (for TCP, from: the handler stops only after the
scheduler has left its select, and the backends counter only after the handler's
request), `NewerHandlerStays`.

Only model-checked: `SectionsServed` of `MCManager`, which is about the sections
that module makes its files from; and every liveness property
(`DrainedIsForgotten`, `Converges`, `PlacesReturned`, `EndsTogether`,
`StopReachesBackend`, `RespondedEnds`, `RefreshedOrGridlocked`, `TrafficCounted`,
`AddressGivenBack`, `HealthchecksEnd`), which is beyond the prover. Every other
property of a passing run is a theorem, under the hypotheses named above. The type
invariants are proved and belong to no run.

## 5. Known differences between code and documents

Shown by the violated runs: see `findings` in `PROJECT.json`. Seen while
modelling, and not run:

* An increment that arrives while its backend is removed is dropped
  (`scheduler.go:317`). Listed again, the backend is one short, and the next list
  without it removes it under an open connection, against the comment at
  `scheduler.go:255`; the decrement alone wraps the unsigned counter.
  `RemovedOnlyWhenIdle` under the full `Spec` of `Scheduler`.
* A client that was denied is closed by its handler before the loop hears of it;
  if it comes back from the same address in between, the loop deletes the new
  connection from the map (`tcp/server.go:229`), which is then neither limited nor
  closed by a stop. `ClientsAreHandled` under `TcpSpec`.
* `Stop, dropping all connections` (`tcp/server.go:255`) does not drop those whose
  hello is being read or that wait for the loop; nobody closes them, and their
  goroutines stay. A handler that dials at the stop keeps its backend connection:
  its increment waits for a scheduler that has returned.
* A proxy protocol header that fails ends the handler without closing the
  connection to the backend (`tcp/server.go:398`).
* A tick that finds nothing new in a direction reports its last bytes again, and
  every further one too (`proxy.go:51-55`): traffic is counted too high on
  connections that pause (`ReportedOnce` leaves them out).
* An IP address in `bind_ips` that has its brackets already is refused, though
  `formatBindAddress` looks out for it (`manager.go:987`): `JoinHostPort` adds
  another pair.

* `fails` is documented as consecutive (`config/gobetween.toml:227`); a pass
  between two failures does not restart the count (`HealthWorker!ConsecutiveFails`).
* An exec check with unexpected output turns a healthy backend off at once
  (`HealthWorker!DownOnlyAfterFailure`).
* `max_requests` above 1 is logged when exceeded, and the session goes on
  (`UdpServer!RequestsLimited`).
* `max_connections` of a backend (`CHANGELOG.md:6`) is compared at the election with
  a counter that goes up after the dial: concurrent TCP handlers exceed it
  (`LimitRespected` under the full `Spec`).
* Round robin has one position for all hostnames: with the sni middleware,
  interleaved hostnames get the same backend again and again (`Balance!Circular`).
* A reload can lose a server (`Manager!NothingLost`): the creation fails and so
  does the rollback, because the listener of the stopped server is still open,
  because the probe string has an escape and was unquoted already, or because a
  failed start left an ACME host enabled. For the second reason a server with a
  list of addresses and such a string does not start at all.
* Two servers of a file on one address, and IPv6 sources in `[defaults]` that cannot
  be parsed, are found only when a reload creates (`manager.go:411` prepares each
  server alone, before it inherits), after its deletions: the reload fails and
  rolls back.
* ACME leaves UDP servers out of `Enable` and not of `Disable` (`acme.go`): deleting
  a UDP server whose section `[tls]` names a host takes that host from the TCP
  server that enabled it.
* The weight balancer panics when an invalid backend hides all valid ones
  (`Balance!NoPanic`).

## 6. Not modelled, and the plan

Left out for good: what a check or a fetch does on the network, parsing and
encoding, metrics, logging, the REST routes, certificates, bytes. Planned, in this
order:

1. Rates of the counters, access rules for UDP, fire-and-forget and transparent UDP.
2. The errors of the constructors besides sources: access rules, TLS files.
3. An abstract specification of reload (old file, new file, nothing between),
   implemented by `Manager` where `NothingLost` holds.
4. Proofs: the operators of `Expansion` (an address is served by one section, names
   do not clash), from which `SectionsServed` would follow for any sections; and
   those of what 1 to 3 add.
