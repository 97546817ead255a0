# Specifications of hookline and saturn

The repository holds two programs. **hookline** (`hookline/`) is a server that
delivers webhooks: a queue in SQLite, workers that send, an HTTP API beside
them. **saturn** (`src/`) is an optimizer that rewrites terms by equality
saturation in an e-graph. This directory models them in TLA+: TLC checks the
modules on small instances, and TLAPS checks the theorems for every value of
the constants.

## The system

### hookline

| component | state | operations | what makes it hard |
|---|---|---|---|
| queue (`queue.rs`, `store.rs`) | `deliveries` (status, attempts, next_at, lease_until), `attempts`, `endpoint_health`, `endpoints` | claim, settle, enqueue, replay, cancel, bulk replay, resume, enable, disable, delete, prune, reclaim | several workers and an operator write one row; a lease is all that tells them apart; processes crash and restart |
| workers (`worker.rs`) | permits, the job each task holds, a stored wake | the claimer's loop, deliver, drain | counts taken before an await and used after it; wakes that get lost |
| breaker, schedule (`breaker.rs`, `backoff.rs`) | failures in a row and open-until, per endpoint | decide on each failure; delay per attempt | exponents, caps, ends of ranges; results of several workers at once |
| secrets (`store.rs`, `api/endpoints.rs`) | `endpoint_secrets.expires_at` | rotate, revoke, capture at claim | a revoke's check and write are two statements; requests in flight |
| database pool (`db.rs`) | permits, idle connections | `call` | callers that are dropped while a blocking task runs for them |
| server (`server.rs`) | serving, closing, stopped | start, graceful stop | the order in which requests, workers and tasks end |
| API (`api/*`) | `apps`, `endpoints`, `messages` in the database, none of its own | handlers, each a chain of database calls | state found by one call and used by the next; clients that retry or go away |
| sender, guard, sign, auth, config, ids | none | pure functions and I/O | |

Requests and workers meet only in the database, through `Db::call`; the API
pokes the claimer after it has queued something; `Server::run_on` tells the
workers to stop through a watch channel.

### saturn

| component | state | operations | what makes it hard |
|---|---|---|---|
| e-graph (`egraph.rs`, `unionfind.rs`) | union-find, hashcons, classes with nodes and parents, worklists, history | add, union, rebuild, explain | invariants that hold only after rebuild; a parent list that is missed |
| runner (`runner.rs`, `rewrite.rs`) | pass, bans, limits | search, apply, rebuild, stop | what may be called saturated; budgets that cut anywhere |
| patterns (`pattern.rs`) | none that lasts | match, instantiate | commutative nodes, repeated variables, caps |
| extraction (`extract.rs`) | a selection | lower costs to a fixpoint, build a term | cyclic classes; classes made free |
| explanations (`explain.rs`) | none that lasts | the path through the history, congruences taken apart | the graph of today, the history of yesterday |
| analyses (`analysis.rs`, `interval.rs`, `assume.rs`) | a fact per class | make, merge, modify; interval arithmetic; constraints of the user | facts over a cyclic graph; signed zeros, overflow and NaN |
| rules (`rules/*`) | none | identities with side conditions | right for numbers, wrong for a zero's sign or NaN |
| compiler and machine (`vm.rs`) | slots and their last use | compile, eval, batch | a slot recycled too early |
| code generator, bundles (`codegen.rs`, `bundle.rs`) | temporaries | C, Rust, Python | the same token means different things |
| language, parser (`lang.rs`, `eval.rs`, `sym.rs`, `parser.rs`, `lexer.rs`) | none | read, print, interpret | precedence, lets, signs |

`PROJECT.json` lists every component with its status, and under `hazards` what
each is exposed to, at its line.

## Modules

| module | models |
|---|---|
| `DeliveryLifecycle` | the abstract promise for one delivery: queued once, one count per attempt, an end after `MaxAttempts`, undone only by a replay |
| `Backoff`, `Breaker` | the retry delays and the circuit breaker's decision as operators |
| `DeliveryQueue` | the database's queue with workers, operators, crashes, restarts and a clock; extends the two above, implements the first |
| `Secrets` | the secrets of one endpoint, revokes in two steps and requests in flight |
| `DbPool` | permits and connections, with callers that go away |
| `ServerLoop` | the claimer's loop, sending tasks, posting requests, faults and shutdown around an instance of `DbPool`; carries the liveness properties |
| `Api` | applications, endpoints and messages under concurrent handlers, each a chain of calls, with clients that retry and go away |
| `UnionFind` | the forest of parent pointers with path halving and union by size, as operators |
| `EGraph` | the e-graph's add, union and rebuild with the constant half of the analysis |
| `EGraphOnTrees` | `EGraph` composed with the forest it keeps; carries rebuild's fairness |
| `Ordered` | finite sets laid out in an order, where the code sorts |
| `Pattern` | patterns, matching under its caps, instantiation, and the definition of a match; extends `EGraph` |
| `Saturation` | the runner: passes, bans, limits, and how a run ends; extends `Pattern` |
| `Extraction` | the cost fixpoint, the term it selects, extraction with sharing; extends `EGraph` |
| `Explanations` | the path through the history and the unfolding of congruences; extends `EGraph` |
| `Results` | what a run of saturation ends with: composes `Saturation`, `Extraction` and `Explanations` and states what must hold of their results |
| `Floats` | doubles, as an IEEE format small enough to enumerate |
| `Terms` | expressions as hashconsed sequences of nodes, and the interpreter |
| `Syntax` | the parser and the printers, on tokens |
| `Compiler` | folding, slots, constants, and the machine |
| `Emitter` | bundles and the code generator, and how C, Rust and Python read what it writes |
| `Intervals`, `Assumptions` | the interval analysis and the constraints a caller states |
| `Rules` | every rule as written, the side conditions, and what applying one gives |
| `RealValues` | values and slopes over the rationals: what the fast rules and the derivatives are held to, not part of the program |
| `Pipeline` | from source text through assumptions and a rewrite to results, code or text; composes the eight above |
| `MCDeliveryQueue`, `MCSecrets`, `MCApi`, `MCEGraph`, `MCSaturation`, `MCExplanations`, `MCPipeline` | instances for TLC |
| `DeliveryQueue_proofs`, `ServerLoop_proofs`, `Secrets_proofs`, `Api_proofs`, `EGraph_proofs`, `EGraphOnTrees_proofs`, `Pattern_proofs`, `Saturation_proofs` | the theorems |

**DeliveryQueue and the code.** `row`, `attemptLog`, `mode` and `health` are the
tables; `job` is what a task has in memory, by permit (`Slot`) of its process.
Each write transaction is one action: `Claim` is `queue::claim` with both of its
passes, `SettleSuccess` and `SettleFailure` are `queue::settle` with the audit
row, the breaker and the drain it may cause, `SettleFails` is the transaction
that is rolled back. Cancel is the exception, a read and then a write without a
transaction, hence `CancelCheck` and `CancelWrite`. Handlers read the clock
before they wait for the database, so the instant they write is any of the last
`ClockLag` (`Recent`); a worker's is the one at which its answer came in. The
clock is one counter: processes of one machine share it. `overtaken` is a history
variable: the workers whose delivery an operator has decided about since.

**Secrets and the code.** `expires` is the column. A request keeps the secrets
that were active when its delivery was claimed, which is when `queue::claim`
reads them.

**ServerLoop and the code.** `loop` is the program counter of `Workers::run`,
`task` what `Workers::deliver` is doing, `request` the handler of
`messages::create`; every database access goes through `Ask`, `TakeConnection`,
the closure, `GiveBack`, `Return` of `DbPool`. It has no clock: what is due, how
long a lease runs and which delivery is claimed first is the business of
`DeliveryQueue`, here everything due may be claimed, and a retry, a poll or a
lapsed lease happens eventually. A task is named by its delivery and the number
of its attempt: once the settlement is written the delivery may be retried and
claimed again while the task that wrote it has yet to return its permit.

**Api and the code.** `apps`, `endpoints` and `messages` are the tables, `queued`
how many deliveries a message has to each endpoint. `request` is what a client's
handler is doing and what it knows: `Ask` is the request arriving, `Resolve` the
call that finds the application by id or uid (`app_id`), and the rest are the
second calls. A handler that is dropped at an await (`HangUp`) leaves the call it
had started to happen or not, as `spawn_blocking` does. `messages::create` is a
transaction, hence one action with two outcomes, `PostAgain` and `PostNew`;
`endpoints::update` is a read and a write, hence `UpdateRead` and `UpdateWrite`.
A uid may spell another application's id (`Uid` and `App` overlap). `apps::get` then
takes the first row, which is the id's own: SQLite looks into the two indexes
in the order of the OR, as `hookline/tests/zz_uid_probe.rs` asserts (`Named`).
`apps::delete` does not delete by the id it is given. It looks that id up once more, by
the same lookup, and deletes what it found in a second statement, without a
transaction around the two, hence `FindDoomed` and `DeleteApp`. `apps::update` is
given the URL's reference, so that its lookup is `Resolve`; it, and a delete that has
begun, finish although the client has gone away. A null in a body is a value where a column may be
cleared (`SaidOrNull`), and elsewhere reads as left out (`Coalesce`). Authentication, API
keys and listings are left out.

**EGraph and the code.** `graph` is the struct: `leader` is `find` of every id
at once, `nodes`, `uses` (parents) and `fact` are the classes, `memo`, `pending`,
`learned` (`analysis_pending`) and `history` the fields of those names. `Add`
and `Union` are the calls, `phase` the `clean` flag and, within `rebuild`, the
place in it: `TakePending`, `BeginRepair`, `RepairParent` and `EndRepair` are
`restore_congruence` and `repair`, `BeginFacts`, `PopClass` and `EndFacts` are
`propagate_analysis`, `Modify` is `MathAnalysis::modify`, `NextRound` the cap on
rounds, `Finish` compression and `reindex`. Ids and facts are taken in the
code's order; parents, which come out of a hash map, in any. A rule and a user
declare equal only what is equal: `Union` asks for two classes of one `value`,
where `value` remembers what each id's own term is worth under `Env`. `term`,
`value` and `curtailed` are history variables and guide nothing else.
A record of a `Rule` is one more asserted union. Left out are the interval in a
fact, which feeds no constant and can only make more classes count as moved;
`by_op` and the totals, which rebuild does not read; `find`'s halving inside
`EGraph`, which `EGraphOnTrees` adds as `FindMut` of any id at any time, a
superset of the finds the code makes.

**Saturation and the code.** `step`, `pass` and `rule` are where `Runner::run`
is; `found` are the matches a pass froze, `banned` the scheduler's table. One
search of one rule is one action (`SearchRule`), since the graph does not change
under it; applying one match is one (`ApplyMatch`); the rebuild is that of
`EGraph`, step by step (`RebuildOn`), in one of the orders its worklists may have:
the run `EGraph` has already shown the others. Time is a choice: where the limit is
set it may be found exceeded at any look at the clock. A pattern is the sequence of
its nodes, as `from_expr` makes it: arguments before what they are arguments of, and
each but the root referred to. A rule's condition names holes whose classes must have
a known constant. `unseen` is a history variable: some match of this pass was cut
off, or banned for no pass at all, which the scheduler does not report where bans
have length 0.

The matcher (`Matcher`) is a function from calls to outcomes, one for each position
of the pattern, defined from those of the positions below; `Denoted` says what a
pattern means in a graph without the matcher. `Extraction` and `Explanations` are
operators on a graph, asked of the graph a run ends with; `solve` is as many sweeps
as the graph has classes, and that this is enough is one of the theorems. Costs
are whole numbers, so `DagExtractor`'s "improves" is exact; even a leaf is charged a
token amount, as in the code (`NothingIsFree`).

**The pipeline and the code.** `Floats` has three bits of significand and three
binades: subnormals, normals, a largest finite number, two infinities, two zeros
and one NaN (the code makes NaNs one, `CANON_NAN`), with rounding to nearest,
ties to even. What the rules, the intervals and the machine claim of doubles
nowhere depends on 53 bits, and every corner that breaks such claims occurs; a
difference that needs many digits would not show. `sin`, `exp` and the others of
the library are stand-ins that have the values and bounds at zeros, infinities
and NaN the standard gives them. Expressions are sequences, text is tokens. One
`Rewrite` at the root of an expression stands for what the e-graph records as one
union: whether it is found, and what is extracted, is `Saturation`. A pattern is
read by the same parser as a source, as in `rw!`. `RealValues` is a reference: exact
fractions with a slope, sine and cosine by rational points of the circle.

Left out everywhere: payloads, URLs, headers, listings, counts, metadata, logging.

## Runs

| run | instance | shows |
|---|---|---|
| `QueueSending` | one delivery, two workers, lease 3, a request that starts up to a unit after its claim, two attempts, clock to 6; every operation but cancel, delete and bulk | one request at a time, waits within the policies, no circuit without failures, one result per attempt, and the life cycle |
| `QueueLimits` | two messages to a limited and an unlimited endpoint | claims of the limited one are spaced; an endpoint that is off keeps nothing pending |
| `QueueOperator` | one delivery; cancel, bulk replay, disable, delete, prune | a pending delivery's lease has a holder; an overtaken result undoes nothing the operator decided |
| `SecretsRotation` | three secrets, two revokes at once, two requests in flight, grace 0 or 2 | a permanent secret remains, deadlines stand, revoked secrets fall silent |
| `ServerLoop` | two deliveries, two permits, two connections, a batch of one, two attempts, one failure of the database | a permit means a connection, claims have room, leases are carried; due deliveries are settled and a stop ends |
| `Api` | two clients, three application ids, two endpoints, two messages, eleven requests | a key names one message; an update keeps the rest; a request touches only what its URL named, but for a delete that is misled |
| `EGraph` | four classes of callers over a variable, two numbers, a literal and a commutative operator; one unit of fuel a class, one extra round | congruence and hashcons after rebuild, facts that are sound, the forest, rebuild's end |
| `Saturation` | 25 expressions, 4 sets of rules, 5 sets of limits | what is matched, joined, called saturated, extracted and explained; the node limit; the run's end |
| `Pipeline` | every rule on instances of its left side, with and without the assumptions it asks for; 41 texts and 8 that are refused, 4 bundles, 9 sets of constraints | rules keep the value, ranges hold, constraints mean what they say, the machine, the emitted code and the printed text agree with the interpreter |
| `CancelInFlight`, `CircularReason`, `SafeRules` | as small as the case allows | each a disagreement of code and documentation, listed under `findings` |

Bounds. Two workers are enough for every race between an attempt and the one
that takes over from it, and for a third party the operator is there. Two
attempts separate the first, the last and the one past the last. The lease is
one unit longer than an attempt, so it can lapse while a result waits for the
database; the clock runs far enough for a claim, a lapse, a second claim and
its answer, and one unit further. In `QueueSending` a request may start one unit after its
claim, under a lease that covers this as well (`LeaseOutlastsAttempt`); elsewhere it
starts at once. With a lease of 2 there, which outlasts the timeout of 1 as the
configuration asks (`config.rs:157`) but not both, TLC finds two requests open at
once. Cooldown, its cap and the retry delay differ,
so that each can be the later one. In `QueueLimits` two deliveries wait for one
limited endpoint. In `ServerLoop` two requests, the claimer and two
tasks share two connections, so that all of them wait for one another, and two
permits are what lets one attempt of a delivery overlap the return of the one
before it. The same properties were found to hold with a batch of two, which
takes longer than a run should.

In `Api` two clients are every race the handlers have, since each writes once; a
client may ask again, so a retry after a lost answer, and a uid that moves from
one application to the other and back, are among its behaviours. A third
application id is the one whose uid spells the first one's id. Requests of
one kind differ in what tells them apart: two updates mention different fields,
one of them with nulls, where a null is a value and where it is not.

In `EGraph` the four classes are enough for a variable, a literal and two
products over them, which is what a congruence between unlike nodes, with
swapped arguments, a repair that meets the class it repairs and a fold above a
fold take. Fuel and rounds are cut from 32 per class plus 1024, and 100, to 1 per
class and 1, so that each runs out within the instance: fuel with classes still
queued, rounds with congruences still to restore. `MaxIds` is what `CallerIds`
leaves callers and a literal per number for folding, so `HasRoom` never blocks;
`RebuildEnds` would fail if it did.

In `Saturation` the limits have the code's proportions and are small enough to
be met: 14 nodes or 8, a look at the budget after 2 matches or 256, a scheduler
that bans after one match for one pass, 12 steps of matching and one match a class
(`Capped`). `Full` has the code's own caps on matching, which such graphs do not
reach. `CallerIds` is never reached. Bans double up to `MaxShift` as in the code;
nothing runs long enough to be at the cap.

In `Pipeline` a rule is instantiated with plain variables, with square roots
(operands that may be NaN) and, among the logical rules, comparisons; what may be
said of them is each predicate and comparison the side conditions know. An
expression of one variable is tried on every float, of two on 13, of three on 7,
of four on 5, always with the zeros of both signs and a NaN.

Queues stop where the clock or the messages run out, the pipeline at its result,
a server that has stopped stops: deadlock is checked in `Saturation` only, where
only a finished run may stop.

### Exceptions the properties name

Each is a definition beside its property, and the property holds outside it.

- `ToldApart` (`DecisionStands`): count and lease are what tell one attempt from
  another. A replay during the first attempt resets neither (`queue.rs:277`, where
  `docs/api.md:152-155` promises it does what was asked), and two claims within
  one unit of the clock carry one lease.
- `SwitchesOff` (`DecisionStands`): a late failure may be the one after which the
  endpoint is disabled, and then everything pending at it is drained, also what an
  operator has just replayed (`queue.rs`, settle).
- `crossed` (`UpdateKeepsTheRest`): of two updates of one endpoint at once, a filter
  or a limit one of them set is undone by the other (`store.rs:170`); a URL is not.
- `Misled` (`ActsOnWhatWasMeant`): a delete that was confirmed for one application
  destroys another when the first is deleted by somebody else before the second
  lookup, and the other one's uid spells its id. See below.
- `MinMaxOfNumbers` (`RewritesPreserve`, `RangesHold`): see the finding `SafeRules`.
- `PrintsAnotherThing`: a NaN literal is printed as a name, and a base of -0 without
  the brackets that other negative bases get.
- `Captures`: shared terms are named `t0`, `t1`, ..., also where a variable is.
- `Decrements`: in C a minus before a minus is written `--`, which decrements.
- `DropsZeroSign`: Python's `floor` and `ceil` return integers.

### Fairness

`EGraph`: `rebuild` is one call on a `&mut self`: nothing runs between its steps,
and `Add`, `Union` and `Rebuild` are not enabled there. Weak fairness of
`RebuildStep` says that the call goes on. Nobody has to call anything.

`Saturation`: `Runner::run` is one call as well. Its fairness is weak fairness of
`Loop`, spelled without ENABLED: the loop goes on unless it is done. A state in
which it could not go on would be excluded by that, and is found by the check for
deadlock instead. The clock need not ever exceed the limit.

`ServerLoop`: weak fairness of the claimer's steps (the runtime polls a task that
can run, and the poll interval elapses); each sending task, whose request has a
timeout; each handler; each database task; a retry coming due and a lease lapsing
(the clock); the graceful stop. Nobody has to post, hang up or ask the server to
stop, a stored wake need not be what ends a wait, and the database may fail
`MaxFaults` times. `DueIsSettled` therefore rests on the poll alone: a wake is
lost when it arrives while all permits are taken (it is used up by a loop that
can claim nothing, and the end of a delivery wakes nobody) and is never sent when
the client hangs up after the commit. The comment that a poke turns a poll
interval of latency into none (`worker.rs`) holds only with a permit free. The
configuration accepts a `batch_size` of 0, with which nothing is ever delivered;
the assumption excludes it.

## Findings

- `CancelInFlight`: `cancel` clears a live lease; replayed, the delivery goes out a
  second time while the first request is open.
- `CircularReason`: `explain` pairs the arguments of a congruence by the classes of
  today. Once all four are one class, it may have to explain a pair by the very
  congruence it is explaining, and leaves that argument out.
- `SafeRules`: the range of a minimum or maximum is bounded by both operands although
  the result of one NaN operand is the other; a safe rule then folds
  `max(sqrt(x), -1) < 0` to 0, which is 1 at `x = -1`.

Seen while modelling, without a run of its own: two confirmed deletes of one application
at once, and another one whose uid spells its id, and the second delete takes that
other one, with everything under it (`store.rs:88`), although it answers that it
deleted the first; `api/apps.rs:109-114` wants the name repeated so that a wrong id
does not destroy an application. `Misled` is exactly this case: without it TLC finds
the behaviour in the instance of `Api`, in ten steps. Further: a second process clears the live
leases of the first (`worker.rs:249`, against `worker.rs:240` and
`docs/deploy.md:95-98`); when a cooldown lapses every due delivery goes out, where
`breaker.rs:8-12` speaks of one probe (`queue.rs:117`); a request is signed with
the secrets of its claim (`queue.rs:89`), so one that is sent late may lack a
secret rotated in since; with a literal 1, `x` and `neg(x)` in a clean graph,
`union(1, x)` leaves `neg(x)` unfolded (`egraph.rs:385`), while `union(x, 1)` folds it; with
bans of length 0 a rule over its threshold is banned for no pass at all, and a run may
call itself saturated although its matches were dropped (`runner.rs:193-218`), which
`unseen` counts as a cut.

## Proofs

Of the queue (`DeliveryQueue_proofs`):

| theorem | statement | rests on |
|---|---|---|
| `TypeCorrect` | `[]TypeOK` | one lemma per action |
| `ImplementsLifecycle` | every step is a step of `DeliveryLifecycle` or a stutter | `Inv`: an answered job that will be retried has an attempt left |
| `OneRequestAtATime` | `OneInFlight`, with one process and no cancel | `LeaseInv` |
| `CircuitsHaveCauses` | `CircuitHasCause` | what one step does to an endpoint's health (`NextHealth`) |
| `WaitsAreBounded` | `WaitIsBounded` | `WaitInv`: an answer carries nothing from the future and no retry beyond the longest delay |
| `AttemptsCountOnce` | `CountedOnce` | what one step does to a row and to a job (`NextRow`, `NextJob`) |
| `OffIsDrained` | `OffMeansDrained`, without replays | nothing but a post or a replay makes a row pending, and a post skips what is off |
| `DeletedIsGone` | what is deleted stays deleted and empty | the same for `gone`, with every operation |
| `LimitsAreSpacing` | `RateSpacing`, without enabling | `RateInv`: the next allowed instant lies a spacing after every claim still worked on |
| `NoLeaseIsStranded` | `LeasesAreHeld`, without crashes and failed transactions | `HeldInv`: every live lease is some worker's, of any delivery |
| `DecisionsStand` | `DecisionStands`, without crashes and failed transactions | `DecisionInv` |

Of the secrets, the server and the API (`Secrets_proofs`, `ServerLoop_proofs`, `Api_proofs`):

| theorem | statement | rests on |
|---|---|---|
| `SecretsTypes`, `KeepsOnePermanent`, `KeepsGrace`, `SignsWithoutRevoked` | types and the invariants of `SecretsRotation` | a revoke that has been checked leaves another permanent secret, and no secret becomes permanent again |
| `ServerTypes`, `PermitsAreConnections` | types and `PermitFindsConnection` | `PoolInv`: permits and those who hold one add up, and so do connections |
| `ClaimsHaveRoom` | `ClaimHasRoom` | `RoomInv`: while a claim is under way the batch it asked for is free |
| `LeasesHaveCarriers` | `LeasesAreCarried` | `CarryInv`: who holds what, for each delivery and each attempt |
| `ApiTypes` | types | `TablesFit`, `RequestsFit` |
| `ActsAsMeant`, `UpdatesKeepTheRest`, `OneMessagePerKey` | the properties of the run `Api` | the invariants below |

Of the matcher, the runner and its results (`Pattern_proofs`, `Saturation_proofs`):

| theorem | statement | rests on |
|---|---|---|
| `MatcherIsExact`, `SearchFindsMeanings` | a search finds what a pattern means, all of it unless it was cut short or dropped something | positions of the pattern, counted upwards; what a list of calls finds is what each of them finds |
| `TermsAreWorthIt` | a class that has a term of a pattern is worth what the pattern is | `Sound` |
| `InstantiatedStands` | building a right side keeps the graph sound and congruent up to what is pending | `AddedIsSound`, and its counterpart for `Closed` |
| `SearchesAreExact` | `MatchesAreMeant` | `SearchFindsMeanings`; `SInv` |
| `NoPassJoinsDifferentValues` | `ClassesHoldOneValue` | `SInv` |
| `PassesSearchCongruence` | `CongruenceRestored` and `FactsAreSound`, of a run | `SInv` |
| `TheNodeLimitIsKept` | `StaysNearTheLimit` | `SInv` and `Near`, which counts the nodes since the last look |
| `SaturatedRunsAreClosed` | `SaturatedIsClosed` | `SInv` and `PassesClose`, which follows one pass through search, application and rebuild |
| `ExtractedIsCheapest` | `ExtractionIsCheapest` | `SInv`; sweeps against depths of terms |
| `SharedIsCheaper` | `SharingNeverCosts` | the above and `RootIsMade` |
| `EqualsAreExplained` | `EqualIsExplained` | `SInv` and `RecordSpells` |

Of the e-graph (`EGraph_proofs`, `EGraphOnTrees_proofs`):

| theorem | statement | rests on |
|---|---|---|
| `EGraphTypes` | types | `IInv`, for the rounds of rebuild |
| `FactsStaySound` | `FactsAreSound` | `IInv` |
| `CongruenceIsRestored` | `CongruenceRestored` | `IInv` and `CInv` |
| `OnTreesIsAnEGraph` | `EGraphOnTrees` implements `EGraph` | the forest's part of a step holds nothing up |
| `TreesStayAgreed` | `TreesAgree` | `IInv` and `Fits`; well-founded induction on sizes |

**The queue.** `OneInFlight` is not inductive: a row could be free while a worker
sends. The strengthening (`LeaseInv`) says that a worker whose request is open, or
about to be, holds the lease of its row, unexpired until the request has timed
out, and that no two such workers hold one row. It needs
`Lease > StartDelay + Timeout`, which is stronger than what the configuration
enforces (`lease > request_timeout`): the time between a claim and the start of
its request counts too. Without one process or with cancels the property is
false: `CancelInFlight` shows how, and a second process clears the leases of the
first.

The other promises are proved from what one step can do to one row (`RowStep`),
one job (`JobStep`), one endpoint's health and mode (`HealthStep`, `ModeStep`),
each shown once for all actions. Three of them hold for some sets of operations
only, which the theorems assume by name. A replay queues a delivery without
looking at its endpoint's mode, so `OffMeansDrained` is about what nobody replays
(`NoReplay`). Enabling an endpoint forgets its next allowed instant, so
`RateSpacing` is about endpoints that nobody enables in between (`NoEnable`). A
worker that dies, or whose transaction fails, leaves its lease behind until it
runs out, so `LeasesAreHeld` is about what happens without (`NoLoss`). These are
the sets the runs check them with. `DecisionsStand` needs `NoLoss` for its invariant:
where an overtaken worker's row carries its lease after all, another worker who
claimed in the same instant must still be there to be told apart from, or the row
starts again from zero (`OvertakenIsDecided`).

**The server.** `PoolInv` counts: a permit is free or somebody's, a connection is
idle or in use, and everybody who waits is in the line once. A caller that hangs up
leaves its place, or its permit, in the step in which it goes. `ClaimHasRoom`
alone is not inductive, since permits are counted before the await and used after
it; that only the claimer takes permits away (`RoomInv`) is what makes it so.
`LeasesAreCarried` needs that an attempt whose outcome is open is the one the row
counts, that what the claimer holds is nobody's yet, and that a task which has
written its settlement no longer stands for its delivery (`CarryInv`). All three
hold for every number of deliveries, permits, connections, attempts and failures.

**The e-graph.** `IInv` says of every node the graph
holds anywhere, in a class, in a parent list, as a hashcons key, or in the hands
of repair, that it is worth what the class beside it is worth, that the ids of a
class are worth one value, and that a known fact is that value. `FactsAreSound`
alone is not inductive: a recomputed fact is only as sound as the node lists and
leaders it is made of, and a congruence union only as sound as the parents that
repair holds out of the graph. Soundness needs no order of the worklists and no
fuel, so that the theorem covers a rebuild that is cut short anywhere, with any
operators, numbers and evaluation that meet `EvalIsAFunction`.

`CongruenceRestored` speaks of a clean graph, and its invariant `CInv` of every
state between. A class is dirty when it has absorbed another since its parents
were last looked at. Two terms of one form are in one class, and the hashcons has
the form, unless the form is over a dirty class (`CongruentTerms`, `MemoCovers`);
each class has, for each term over it, a parent that speaks for that term, in its
list or in the hands of repair (`UsesCover`). What repair has seen is one entry a
form, in a form that is still canonical or is over a class that has become dirty
meanwhile (`SeenIsCanonical`). That last alternative is the repair of a class that
is absorbed, or absorbs, while it is being repaired. When nothing is
dirty the exceptions are empty, and `reindex` keeps what is left.

`Fits` says that a parent pointer stays within its class, that exactly the
leaders point at themselves, that sizes grow on the way up, and that the size at a
root is the number of ids of its class. `find` therefore ends, at the leader
(`RootsAreLeaders`). The function that climbs is recursive; that it satisfies its
equation, and that the equation has one solution, follow from the least size among
the ids for which it fails (`NatHasLeast`), which needs induction over a set only
and no operator as a parameter. Halving keeps all of it wherever and whenever it
is done, which is why `FindMut` may be any find.

**The matcher.** That a search finds what a pattern means has to be shown of what a
call does to everything that was found before it, within its room and its steps. The
lemmas say of one call that what it adds extends the substitution it was given and
is a match of the node, and that unless it ran dry or short everything of that kind
is there (`MatcherIsExact`). From the positions of a node's arguments this follows
for the node: through the frontier of substitutions, the two orders of a commutative
node, and the list of nodes of a class. Recursion is over positions, so that
induction over a set of numbers is enough.

**The runner.** `SInv` is `IInv` and `CInv` of the e-graph at every step of a run,
and besides: what the loop is doing fits what the graph is doing, ids are worth what
the rules are identities over, and `found` holds piles of matches whose class is
worth what the left side is. That last part is why a pass may apply, in a graph
that has changed, what it matched in one that had not: worth does not change, while
classes do, and facts a condition asks for only ever say more. The rules must be
identities (`RulesAreIdentities`), over the numbers or, if operators may have no
value, over the numbers and none.

`Near` counts: since the last look at the budget at most `checkEvery` matches were
applied, each of which added at most the operators of its right side, and at the
look there were no more nodes than allowed.

That a saturated run is closed (`PassesClose`) takes a pass apart. While it searches
the graph does not move, and what each rule that has had its turn means is
waiting, unless the rule was banned or its matches were cut off (`Searching`). While it
applies and has joined nothing (`Applying`), the graph is still the one that was searched: building
a right side whose last node turns out to be an old id adds no node on the way, and
that id's class has the right side already (`InstantiatedMirrors`, by a walk over the
positions of the pattern). So when the last match is gone, each match whose rule
is not banned has its right side where it belongs, or the pass was cut short by
time or nodes. The rebuild that follows starts from a graph that is tidy: nothing is
pending, nodes are canonical, the hashcons agrees. It may still fold a value that
only now became known, and here the comparison of the extent before and after
(`Progressed`) has to carry the argument: a fold adds a literal that no class had,
which is one node more, or joins two classes, and what follows never brings the
old numbers back (`Touched`). If the extent is the same, no class gained
or lost a node, so that meanings are what they were; and a fact that a condition asks for
was either known when the rules were applied, or would have been folded and shown
(`Firm`). `CanStop` lets no ban outlive the pass, hence no rule was skipped (`Final`).

**The results.** Each sweep of `solve` settles the classes whose cheapest term is
one level deeper. What is selected never costs less than some term (`Covers`), and
after as many sweeps as there are classes nothing moves, since a cheapest term does
not go through a class twice (`LeastIsLess`): the nodes below a class cost
strictly less than it does, as nothing is free. A least counterexample then shows
that the term that is built ends (`CostsGround`) and costs what was computed. The
sharing extractor starts from that selection, and replaces it only by one that can
be built and costs no more.

`RecordSpells` is what the recorded unions have to do with the classes: each joins
what is one class, and a set of ids that no recorded union leads out of holds whole
classes. Both survive a union because it records the two classes as they were
before. A breadth-first search that takes in one more id a round until nothing leads on
has then reached the class (`WaysReach`), by ways whose hops are recorded unions.

**The secrets and the API.** `KeepsOnePermanent` holds although a revoke checks and
writes in two statements: only rotations make permanent secrets, each makes exactly
one and puts a deadline on the rest, so a revoke is accepted only for a secret that
has a deadline already.

Of the API's three properties two speak of steps and one of answers, and none
stands alone. A request acts on what its URL named only if the application it
has resolved was so named at some moment since (`AllMeant`); the uid may name
another one by then. A delete looks up twice: what the second lookup finds is either the
application the name was repeated for, or that one is gone, for good, since ids are
given once. An update keeps the rest only if what it holds from its
read is what is stored, unless another has written since (`AllCurrent`), which
needs that an endpoint never comes back under an id that was used. One message
per key needs that a key is stored once while its application lives, that a
message goes with its application, that ids of applications are given once, and
that a handler that still owes an answer owes the stored message (`KeysKept`).

**What the proofs assume** of the constants is what the modules' `ASSUME`s say, and
the three named sets of operations above, one process and no cancel for
`OneRequestAtATime`. Nothing else. Of saturation the `ASSUME`s are that problems are
what the parsers make (`ProblemsAreRules`), that rules are identities
(`RulesAreIdentities`), that operators are charged something (`NothingIsFree`), that
an explanation may have a depth (`DepthIsPositive`), and that names differ
(`HolesAreNoOperators`, `NoneIsNoReason`).

**What the attempts showed of the model.** A first `ServerLoop` named a task by its
delivery; the proof of `LeasesAreCarried` stopped at a settlement that is written
while its task still holds a permit, where that model forbade the next claim of a
delivery that the code allows. Tasks are named by attempt since, and two permits
and connections are what the run needs to see it.

**Only model-checked**: liveness (`DueIsSettled`, `StopsWhenAsked`, `RebuildEnds`
and `RunEnds`), which is outside the prover's fragment; and the properties of `Pipeline`, whose modules define the
interpreter, the parsers, the compiler and the rules with RECURSIVE operators, in
which the prover loses its SMT backend, over data whose induction is out of its reach.

## Not modelled

Cryptography, address classification, configuration, I/O and the two command
lines have no state to check. Of hookline's API the keys, authentication and
listings are left out; of the database migrations and SQLite's own locking. Of
saturn: how characters make tokens, interning of symbols, the random terms and
numeric comparison its tests use, the layout of emitted code, and the interval
half of the fact a class keeps (intervals are modelled on expressions).

## Plan

Every safety property of hookline that a run checks is proved, and of saturn every
one of the e-graph, the matcher, the runner, the extractors and the explanations. Left
for proofs is, of the operators, that `Backoff`'s delays grow and `Breaker`'s cooldowns
stay below their cap for every count of failures. Left for models are the interval in an e-graph's fact and the listings and keys of the API.
