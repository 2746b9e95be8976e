------------------------------- MODULE Proxy -------------------------------
(***************************************************************************)
(* One proxied TCP connection of gobetween (src/src/server/tcp/proxy.go    *)
(* and the end of handle in src/src/server/tcp/server.go).                 *)
(*                                                                         *)
(* Each direction has two goroutines: a copier that reads from one socket  *)
(* and writes to the other, and a collector that adds up what was written  *)
(* and passes the sum on once a second.  The handler takes the sums of     *)
(* both directions and sends them to the scheduler until both have ended.  *)
(* All channels are unbuffered, so whoever waits for the scheduler makes   *)
(* those behind it wait as well.                                           *)
(*                                                                         *)
(* A successful write counts one byte.  Deadlines are one of the reasons   *)
(* why there is nothing more to read from a socket; time is not modelled.  *)
(***************************************************************************)
EXTENDS Integers

CONSTANTS
  WriteBound,    \* bound on the writes of each direction, a function of it
  ReportBound    \* bound on what is reported of each before its ticks stop

\* rx is what the backend sends: proxy(client, backend); tx the other way.
Directions == {"rx", "tx"}

Ends == {"client", "backend"}

ASSUME ProxyAssumption == WriteBound \in [Directions -> Nat] /\ ReportBound \in Nat

From(d) == IF d = "rx" THEN "backend" ELSE "client"

To(d) == IF d = "rx" THEN "client" ELSE "backend"

VARIABLES
  open,       \* the sockets that this program has not closed
  finished,   \* those that give no more data: EOF, an error, the deadline
  copier,     \* of each direction: where it is, and if it ends after this
  collector,  \* of each direction: its buffer, and if that was passed on
  handler,    \* where it is, and the directions that have not ended
  scheduler,  \* is it running?
  written,    \* history: bytes written in each direction
  reported,   \* bytes the scheduler was told of, IncrementRx and IncrementTx
  idled       \* history: directions that a tick found with nothing new

proxyVars == <<open, finished, copier, collector, handler, scheduler, written,
          reported, idled>>

Copier == [at : {"read", "write", "report", "closing", "done"}, last : BOOLEAN]

Collector == [at : {"select", "sending", "closed"}, buffer : Nat,
              flushed : BOOLEAN, final : BOOLEAN]

Handler == [at : {"select", "count", "returned"}, from : Directions, count : Nat,
            listens : SUBSET Directions]

ProxyTypeOK ==
  /\ open \subseteq Ends /\ finished \subseteq Ends
  /\ copier \in [Directions -> Copier]
  /\ collector \in [Directions -> Collector]
  /\ handler \in Handler
  /\ scheduler \in BOOLEAN
  /\ written \in [Directions -> Nat] /\ reported \in [Directions -> Nat]
  /\ idled \subseteq Directions

ProxyInit ==
  /\ open = Ends /\ finished = {}
  /\ copier = [d \in Directions |-> [at |-> "read", last |-> FALSE]]
  /\ collector = [d \in Directions |-> [at |-> "select", buffer |-> 0,
                                        flushed |-> FALSE, final |-> FALSE]]
  /\ handler = [at |-> "select", from |-> "rx", count |-> 0, listens |-> Directions]
  /\ scheduler = TRUE
  /\ written = [d \in Directions |-> 0] /\ reported = [d \in Directions |-> 0]
  /\ idled = {}

-----------------------------------------------------------------------------
(* Copy: read, write, tell the collector, and again.                       *)

socketVars == <<open, finished, scheduler>>

ReadData(d) ==
  /\ copier[d].at = "read"
  /\ From(d) \in open
  /\ written[d] < WriteBound[d]
  /\ copier' = [copier EXCEPT ![d].at = "write"]
  /\ UNCHANGED <<socketVars, collector, handler, written, reported, idled>>

ReadEnds(d) ==
  /\ copier[d].at = "read"
  /\ From(d) \in finished \/ From(d) \notin open
  /\ copier' = [copier EXCEPT ![d].at = "closing"]
  /\ UNCHANGED <<socketVars, collector, handler, written, reported, idled>>

\* All that was read is written, or less: then the direction ends after that.
WriteSome(d) ==
  /\ copier[d].at = "write"
  /\ To(d) \in open
  /\ \E short \in BOOLEAN : copier' = [copier EXCEPT ![d] = [at |-> "report", last |-> short]]
  /\ written' = [written EXCEPT ![d] = @ + 1]
  /\ UNCHANGED <<socketVars, collector, handler, reported, idled>>

WriteNothing(d) ==
  /\ copier[d].at = "write"
  /\ copier' = [copier EXCEPT ![d].at = "closing"]
  /\ UNCHANGED <<socketVars, collector, handler, written, reported, idled>>

\* Mutant: the collector starts anew with every write.
ReportForgets(d) ==
  /\ copier[d].at = "report"
  /\ collector[d].at = "select"
  /\ collector' = [collector EXCEPT ![d].buffer = 1, ![d].flushed = FALSE]
  /\ copier' = [copier EXCEPT ![d].at = IF copier[d].last THEN "closing" ELSE "read",
                              ![d].last = FALSE]
  /\ UNCHANGED <<socketVars, handler, written, reported, idled>>

\* ch <- rwc, which the collector takes at its select: what was passed on is
\* forgotten only now.
Report(d) ==
  /\ copier[d].at = "report"
  /\ collector[d].at = "select"
  /\ collector' = [collector EXCEPT ![d].buffer = IF collector[d].flushed THEN 1 ELSE @ + 1,
                                    ![d].flushed = FALSE]
  /\ copier' = [copier EXCEPT ![d].at = IF copier[d].last THEN "closing" ELSE "read",
                              ![d].last = FALSE]
  /\ UNCHANGED <<socketVars, handler, written, reported, idled>>

\* Mutant: only the socket read from is closed.
CloseSource(d) ==
  /\ copier[d].at = "closing"
  /\ open' = open \ {From(d)}
  /\ copier' = [copier EXCEPT ![d].at = "done"]
  /\ UNCHANGED <<finished, scheduler, collector, handler, written, reported, idled>>

\* Both sockets are closed, which ends the other direction too, and stats.
CloseBoth(d) ==
  /\ copier[d].at = "closing"
  /\ open' = {}
  /\ copier' = [copier EXCEPT ![d].at = "done"]
  /\ UNCHANGED <<finished, scheduler, collector, handler, written, reported, idled>>

-----------------------------------------------------------------------------
(* The collector.                                                          *)

\* A buffer that was passed on already is passed on again: only the next
\* write resets it.
Tick(d) ==
  /\ collector[d].at = "select"
  /\ reported[d] < ReportBound
  /\ collector' = IF collector[d].buffer # 0
                  THEN [collector EXCEPT ![d].at = "sending", ![d].final = FALSE]
                  ELSE [collector EXCEPT ![d].flushed = TRUE]
  /\ idled' = IF collector[d].flushed /\ collector[d].buffer # 0
              THEN idled \cup {d} ELSE idled
  /\ UNCHANGED <<socketVars, copier, handler, written, reported>>

\* Mutant: it is sent whether a tick has sent it or not.
StatsClosedAgain(d) ==
  /\ copier[d].at = "done"
  /\ collector[d].at = "select"
  /\ collector' = IF collector[d].buffer # 0
                  THEN [collector EXCEPT ![d].at = "sending", ![d].final = TRUE]
                  ELSE [collector EXCEPT ![d].at = "closed"]
  /\ UNCHANGED <<socketVars, copier, handler, written, reported, idled>>

\* The copier has closed stats.
StatsClosed(d) ==
  /\ copier[d].at = "done"
  /\ collector[d].at = "select"
  /\ collector' = IF ~collector[d].flushed /\ collector[d].buffer # 0
                  THEN [collector EXCEPT ![d].at = "sending", ![d].final = TRUE]
                  ELSE [collector EXCEPT ![d].at = "closed"]
  /\ UNCHANGED <<socketVars, copier, handler, written, reported, idled>>

-----------------------------------------------------------------------------
(* The handler's loop.                                                     *)

\* outStats <- rwcBuffer, which the handler takes at its select.
Receive(d) ==
  /\ handler.at = "select" /\ d \in handler.listens
  /\ collector[d].at = "sending"
  /\ handler' = [handler EXCEPT !.at = "count", !.from = d, !.count = collector[d].buffer]
  /\ collector' = [collector EXCEPT ![d].at = IF collector[d].final THEN "closed" ELSE "select",
                                    ![d].flushed = TRUE, ![d].final = FALSE]
  /\ UNCHANGED <<socketVars, copier, written, reported, idled>>

\* IncrementRx or IncrementTx, while the scheduler is there to receive it.
Count ==
  /\ handler.at = "count"
  /\ scheduler
  /\ reported' = [reported EXCEPT ![handler.from] = @ + handler.count]
  /\ handler' = [handler EXCEPT !.at = "select", !.from = "rx", !.count = 0]
  /\ UNCHANGED <<socketVars, copier, collector, written, idled>>

\* A closed channel is not listened to any more; after the second the handler
\* returns.
ReceiveClosed(d) ==
  /\ handler.at = "select" /\ d \in handler.listens
  /\ collector[d].at = "closed"
  /\ handler' = [handler EXCEPT !.listens = @ \ {d},
                                !.at = IF handler.listens = {d} THEN "returned" ELSE @]
  /\ UNCHANGED <<socketVars, copier, collector, written, reported, idled>>

-----------------------------------------------------------------------------
(* The peers, and a server that stops.                                     *)

Finish(e) ==
  /\ e \notin finished
  /\ finished' = finished \cup {e}
  /\ UNCHANGED <<open, scheduler, copier, collector, handler, written, reported, idled>>

SchedulerStops ==
  /\ scheduler
  /\ scheduler' = FALSE
  /\ UNCHANGED <<open, finished, copier, collector, handler, written, reported, idled>>

\* After its scheduler, a server that stops closes its clients.
DropClient ==
  /\ ~scheduler
  /\ "client" \in open
  /\ open' = open \ {"client"}
  /\ UNCHANGED <<finished, scheduler, copier, collector, handler, written, reported, idled>>

-----------------------------------------------------------------------------
Write(d) == WriteSome(d) \/ WriteNothing(d)

Copy(d) == ReadData(d) \/ ReadEnds(d) \/ Write(d) \/ Report(d) \/ CloseBoth(d)

Collect(d) == Tick(d) \/ StatsClosed(d)

Listen(d) == Receive(d) \/ ReceiveClosed(d)

ProxyNext ==
  \/ \E d \in Directions : Copy(d) \/ Collect(d) \/ Listen(d)
  \/ Count
  \/ \E e \in Ends : Finish(e)
  \/ SchedulerStops
  \/ DropClient

ProxySpec == ProxyInit /\ [][ProxyNext]_proxyVars

CopierGoesOn(d) == ReadEnds(d) \/ Write(d) \/ Report(d) \/ CloseBoth(d)

HandlerGoesOn == Count \/ \E d \in Directions : Listen(d)

\* The goroutines run, and a write ends: the peer reads, or its connection
\* breaks.  A select that has several cases ready takes each of them sooner or
\* later; here the bounds on data and ticks see to that.  Nothing is assumed of
\* ticks, and nothing of data.
ProxyFairness ==
  /\ WF_proxyVars(HandlerGoesOn)
  /\ \A d \in Directions : WF_proxyVars(CopierGoesOn(d)) /\ WF_proxyVars(StatsClosed(d))

FairProxySpec == ProxySpec /\ ProxyFairness

-----------------------------------------------------------------------------
(* Properties.                                                             *)

\* No byte is lost between a copier and the scheduler, whatever the ticks, a
\* short write or the end of the other direction came between: a handler that
\* has returned has reported all that was written.
AllReported ==
  handler.at = "returned" => \A d \in Directions : reported[d] >= written[d]

\* And no byte is reported twice, unless a tick found the direction idle:
\* then it reports its last bytes again (proxy.go:51-55).
ReportedOnce ==
  handler.at = "returned" =>
    \A d \in Directions \ idled : reported[d] = written[d]

\* The end of one direction is the end of the connection: once a socket gives
\* no more data or is closed, both are closed and the handler returns, as
\* long as the scheduler listens.
EndsTogether ==
  finished # {} \/ open # Ends ~> (open = {} /\ handler.at = "returned") \/ ~scheduler

\* A copier that cannot go on: its collector waits for the handler, which
\* waits for the scheduler.
Blocked(d) ==
  copier[d].at = "report" /\ collector[d].at = "sending" /\ handler.at = "count"

\* A server that stops closes its clients only; the backend's side follows,
\* unless what the client sent last waits behind the stopped scheduler.
StopReachesBackend ==
  ~scheduler /\ "client" \notin open ~> "backend" \notin open \/ Blocked("tx")
=============================================================================
