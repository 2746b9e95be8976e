------------------------------ MODULE Balance ------------------------------
(***************************************************************************)
(* How a backend is elected (src/src/balance): the balancers, and the      *)
(* middlewares that narrow down what they choose from.                     *)
(*                                                                         *)
(* The scheduler hands over its live and discovered backends in the order  *)
(* of a Go map, which is any order: an operator below takes a sequence of  *)
(* targets and gives the set of its possible outcomes.  The only state is  *)
(* the position of the round robin balancer.  Targets are numbers in the   *)
(* order of their host:port strings; hash values are inputs.               *)
(***************************************************************************)
EXTENDS Integers, SequencesExt

CONSTANTS
  Targets,      \* live and discovered backends there may be
  Profiles,     \* what discovery and the counters may say of a backend
  Names,        \* hostnames a client may ask for, of bounded length; "" for none
  SniMatches,   \* pairs of a backend's sni and a name it matches
  Hashes,       \* hash values: functions from Targets to numbers
  MaxTurns      \* bound on the elections while the pool stays the same

ASSUME BalanceAssumption ==
  /\ Targets \subseteq Nat /\ IsFiniteSet(Targets)
  /\ "" \in Names /\ IsFiniteSet(Names) /\ MaxTurns \in Nat
  /\ \A n \in Names : <<"", n>> \in SniMatches <=> n = ""
  /\ \A b \in Profiles : /\ b.priority \in Int /\ b.weight \in Int /\ b.max \in Int
                        /\ b.active \in Nat /\ b.bandwidth \in Nat
  /\ \A h \in Hashes : h \in [Targets -> Nat \ {0}] /\ IsInjective(h)

VARIABLES
  pool,         \* the live and discovered backends and their properties
  strategy,     \* sni.unexpected_hostname_strategy, "none" without sni
  current,      \* RoundrobinBalancer.current
  turns         \* history: elections per name and target since pool changed

vars == <<pool, strategy, current, turns>>

Strategies == {"none", "reject", "any", "default"}

\* Results of an election that are not a backend.
Error == -1
Panic == -2

\* What HandleBackendElect has filtered for the balancer.
Known == DOMAIN pool

NoTurns == [n \in Names |-> [t \in Targets |-> 0]]

TypeOK ==
  /\ \E D \in SUBSET Targets : pool \in [D -> Profiles]
  /\ strategy \in Strategies
  /\ current \in 0..Cardinality(Targets)
  /\ turns \in [Names -> [Targets -> 0..MaxTurns]]

-----------------------------------------------------------------------------
(* The balancers, on a sequence s of at least one backend.                 *)

Ascending(r) == \A i, j \in DOMAIN r : i < j => r[i] < r[j]

\* iphash and roundrobin put the backends in order first.
Sorted(s) == CHOOSE r \in SetToSeqs(ToSet(s)) : Ascending(r)

\* Mutant: a better priority keeps the weights summed up so far.
GroupWithKeepsSum(g, t) ==
  LET b == pool[t]
  IN IF b.priority > g.min \/ b.priority < 0 \/ b.weight < 0 THEN g
     ELSE IF b.priority < g.min
          THEN [min |-> b.priority, group |-> <<t>>, sum |-> g.sum + b.weight]
          ELSE [g EXCEPT !.group = Append(@, t), !.sum = @ + b.weight]

\* One step of the weight balancer's first pass: invalid backends are passed
\* over, and a lower priority starts a new group.
GroupWith(g, t) ==
  LET b == pool[t]
  IN IF b.priority > g.min \/ b.priority < 0 \/ b.weight < 0 THEN g
     ELSE IF b.priority < g.min
          THEN [min |-> b.priority, group |-> <<t>>, sum |-> b.weight]
          ELSE [g EXCEPT !.group = Append(@, t), !.sum = @ + b.weight]

WeightGroup(s) == FoldLeft(GroupWith, [min |-> pool[s[1]].priority, group |-> <<>>, sum |-> 0], s)

\* The position after the i-th backend of the group.
WeightUpTo(group, i) == FoldLeft(LAMBDA n, t : n + pool[t].weight, 0, SubSeq(group, 1, i))

\* The backend of the group that the drawn number r falls to.
Drawn(group, r) ==
  LET over == {i \in 1..Len(group) : r < WeightUpTo(group, i)}
  IN IF over = {} THEN Error ELSE group[Min(over)]

\* WeightBalancer, with the random number it draws; an empty group makes
\* rand.Intn(0) panic.
WeightDraw(g, r) == IF g.sum = 0 THEN g.group[r + 1] ELSE Drawn(g.group, r)

WeightRange(g) == IF g.sum = 0 THEN Len(g.group) ELSE g.sum

WeightElect(s) ==
  LET g == WeightGroup(s)
  IN CASE Len(g.group) = 0 -> {Panic}
       [] Len(g.group) = 1 -> {g.group[1]}
       [] OTHER -> {WeightDraw(g, r) : r \in 0..(WeightRange(g) - 1)}

LeastconnElect(s) ==
  FoldLeft(LAMBDA l, t : IF pool[t].active <= pool[l].active THEN t ELSE l, s[1], s)

LeastbandwidthElect(s) ==
  FoldLeft(LAMBDA l, t : IF pool[t].bandwidth < pool[l].bandwidth THEN t ELSE l, s[1], s)

\* Mutant: the order of the map decides.
IphashUnsorted(s, hash) == s[(hash % Len(s)) + 1]

IphashElect(s, hash) == Sorted(s)[(hash % Len(s)) + 1]

\* Mutant: the place in the list is hashed in.
Iphash1ByPlace(s, h) ==
  FoldLeft(LAMBDA best, t : IF h[t] + Len(s) > 2 * best THEN t ELSE best, s[1], s)

\* The highest hash of client and backend together wins (all are above 0).
Iphash1Elect(s, h) ==
  FoldLeft(LAMBDA best, t : IF h[t] > h[best] THEN t ELSE best, s[1], s)

\* Mutant: it starts over one backend too early.
PositionTooEarly(s) == IF current >= Len(s) - 1 THEN 0 ELSE current

\* RoundrobinBalancer starts over when it has come to the end.
Position(s) == IF current >= Len(s) THEN 0 ELSE current

RoundrobinElect(s) == Sorted(s)[Position(s) + 1]

-----------------------------------------------------------------------------
(* The middlewares.                                                        *)

matchSni(n, t) == <<pool[t].sni, n>> \in SniMatches

\* A middleware appends what it keeps to a new list, in the old order.
Keep(s, T) == FoldLeft(LAMBDA kept, t : IF t \in T THEN Append(kept, t) ELSE kept, <<>>, s)

matchingBackends(n, s) == Keep(s, {t \in Known : matchSni(n, t)})

\* What SniMiddleware hands on; nothing at all is an error further down.
SniPasses(n, s) ==
  LET matched == matchingBackends(n, s)
  IN CASE strategy = "none"    -> s
       [] strategy # "none" /\ matched # <<>> -> matched
       [] strategy = "reject" /\ matched = <<>>  -> <<>>
       [] strategy = "any" /\ matched = <<>>     -> s
       [] strategy = "default" /\ matched = <<>> ->
            IF n = "" THEN <<>> ELSE matchingBackends("", s)

UnderLimit(t) == pool[t].max > 0 => pool[t].active < pool[t].max

\* Mutant: the middlewares are applied the other way round.
PassedLimitFirst(n, s) == SniPasses(n, Keep(s, {t \in Known : UnderLimit(t)}))

\* MaxConnectionsMiddleware comes after SNI: it never sees other backends
\* than the matching ones, and is an error if none of these is left.
Passed(n, s) == Keep(SniPasses(n, s), {t \in Known : UnderLimit(t)})

-----------------------------------------------------------------------------
(* The state: discovery and the counters change the pool, and elections    *)
(* move the round robin position.                                          *)

Init ==
  /\ pool = [t \in {} |-> {}]
  /\ strategy \in Strategies
  /\ current = 0
  /\ turns = NoTurns

Change(t) ==
  /\ \/ \E b \in Profiles : pool' = [u \in Known \cup {t} |-> IF u = t THEN b ELSE pool[u]]
     \/ pool' = [u \in Known \ {t} |-> pool[u]]
  /\ turns' = NoTurns
  /\ UNCHANGED <<strategy, current>>

Turns(n) == SumFunctionOnSet(turns[n], Targets)

AllTurns == SumFunctionOnSet([n \in Names |-> Turns(n)], Names)

\* An election under roundrobin.
Elect(n) ==
  /\ AllTurns < MaxTurns
  /\ \E s \in SetToSeqs(Known) :
       LET passed == Passed(n, s)
       IN /\ passed # <<>>
          /\ turns' = [turns EXCEPT ![n][RoundrobinElect(passed)] = @ + 1]
          /\ current' = Position(passed) + 1
  /\ UNCHANGED <<pool, strategy>>

Next ==
  \/ \E t \in Targets : Change(t)
  \/ \E n \in Names : Elect(n)

Spec == Init /\ [][Next]_vars

-----------------------------------------------------------------------------
(* Properties, for every order in which the backends may come.             *)

Orders == SetToSeqs(Known) \ {<<>>}

Valid == {t \in Known : pool[t].priority >= 0 /\ pool[t].weight >= 0}

Best == {t \in Valid : \A u \in Valid : pool[t].priority <= pool[u].priority}

\* "according to RFC we should use backends with lowest priority": whatever
\* the order, only a backend of the lowest priority is elected, in proportion
\* to the weights of these, and evenly if they have none.  Backends with a
\* negative priority or weight are ignored by this; see NoPanic.
WeightByRFC ==
  \A s \in Orders :
    LET g == WeightGroup(s)
        draws == 0..(WeightRange(g) - 1)
        shares(t) == Cardinality({r \in draws : WeightDraw(g, r) = t})
    IN Valid = Known =>
         /\ ToSet(g.group) = Best
         /\ Len(g.group) > 1 =>
              /\ \A r \in draws : WeightDraw(g, r) \in Best
              /\ \A t \in Best : shares(t) = IF g.sum = 0 THEN 1 ELSE pool[t].weight

\* An election by weight finds a backend when there is a valid one: not so
\* when an invalid one of a better priority comes first.
NoPanic == Valid # {} => \A s \in Orders : Panic \notin WeightElect(s)

\* The least used backend is elected wherever it stands in the list.
LeastIsLeast ==
  \A s \in Orders : \A t \in Known :
    /\ pool[LeastconnElect(s)].active <= pool[t].active
    /\ pool[LeastbandwidthElect(s)].bandwidth <= pool[t].bandwidth

\* A client goes to the same backend as long as the pool stays the same.
IphashSticky ==
  \A s \in Orders : \A hash \in 0..Cardinality(Targets) :
    IphashElect(s, hash) = IphashElect(SetToSeq(Known), hash)

\* The random order of a map decides at most which of the equally used
\* backends is elected (leastconn, leastbandwidth), and nothing of iphash.
OrderIrrelevant == LeastIsLeast /\ IphashSticky

\* iphash1 also keeps every client whose backend is still there when another
\* one is removed.
Iphash1Stable ==
  \A h \in Hashes : \A s \in Orders : \A t \in Known :
    t # Iphash1Elect(s, h) =>
      Iphash1Elect(SetToSeq(Known \ {t}), h) = Iphash1Elect(s, h)

\* A client is passed on to the backends that match its name and have room;
\* only when no backend matches at all, full or not, may it go elsewhere.
PassedAsConfigured ==
  \A n \in Names : \A s \in Orders :
    LET match == {t \in Known : matchSni(n, t)}
        may == CASE strategy = "none"                  -> Known
                 [] strategy # "none" /\ match # {}    -> match
                 [] strategy = "any" /\ match = {}     -> Known
                 [] strategy = "default" /\ match = {} -> {t \in Known : n # "" /\ matchSni("", t)}
                 [] OTHER                              -> {}
    IN ToSet(Passed(n, s)) = {t \in may : pool[t].max > 0 => pool[t].active < pool[t].max}

PassedSet(n) == ToSet(Passed(n, SetToSeq(Known)))

TurnsOf(t) == SumFunctionOnSet([n \in Names |-> turns[n][t]], Names)

\* "select backend from pool in circular order": over a pool that stays the
\* same, backends that serve the same names get their turns evenly.
Circular ==
  \A t, u \in UNION {PassedSet(n) : n \in Names} :
    (\A n \in Names : t \in PassedSet(n) <=> u \in PassedSet(n)) =>
      TurnsOf(t) <= TurnsOf(u) + 1

\* It is so while all clients are passed to the same backends.
CircularIfAlike ==
  (\A n, m \in Names : Turns(n) > 0 /\ Turns(m) > 0 => PassedSet(n) = PassedSet(m)) => Circular
=============================================================================
