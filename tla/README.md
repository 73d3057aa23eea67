# A verification project for aihub-auto

aihub-auto is a local router in front of the AIHub API: it proxies the requests of a
user's tools to one of many upstream *groups*, and decides per request which group to
use. In *pool mode* each group is reached with an API key of its own; in *single mode*
there is one key, whose group is changed by PUT. This directory models the router's
core in TLA+, checks small instances with TLC and proves the main safety properties,
for all values of the constants, with TLAPS.

Paths below are relative to the repository (`src/` of this checkout); line numbers are
those of the checked-out commit.

## 1. Inventory

| Component | State | Operations | Modelled by |
|---|---|---|---|
| Circuit breaker, `packages/core/src/breaker.ts` | per group: state, consecutive failures, outcome window, `openedAt`, `openCount`, `probeInFlight` | `allowRequest`, `releaseRequest`, `recordSuccess/Failure`, `isTripped`, `snapshot`, `toJSON/fromJSON` | `CircuitBreaker` |
| Proxy, `apps/router/src/proxy.ts` | per request: attempt, failed groups, group, timers, stream | `handleProxyRequest` with its retry loop and stream settlement | `ProxyRequests` (pool), `SingleKeyMode` (single) |
| Traffic, `apps/router/src/traffic.ts` | in-flight and reserved counts per group, 5-minute window; FIFO lease of single mode | `begin`, `end`, `reserve`, `SingleKeyGate.acquire` | `ProxyRequests`, `SingleKeyMode` |
| Session affinity, `apps/router/src/session.ts` | session bindings with revision and cache evidence, response aliases, revision counter | `resolve`, `bindForRoute` and its `rollback`, `invalidate`, `isCurrent`, `recordCache`, `bindResponse`, `resolveResponse`, `forgetGroup`, pruning | `SessionAffinity` |
| Key pool, `apps/router/src/executor.ts` | pool record, creating map, reservations, mutation chain | `ensureKey`, `acquireKey`, `invalidatePoolKey`, `switchTo`, `trimPool`, `evictLru`, `reconcile`, `cleanup`; `switchSingle` | `KeyPool`; `SingleKeyMode` |
| Persistence, `apps/router/src/config.ts`, `main.ts`, `startup.ts` | `config.json`, `state.json`, `credentials.json`, pending writes, debounce timer | `FileStore.write`, `persistState(Soon)`, load with overrides, shutdown | `Persistence` |
| Control plane, `apps/router/src/daemon.ts` | current group, last switch, manual lock with revision, model blocks, statistics cache, the chain `controlMutation` | `runOnce`, `dryRun`, `updateManualLock`, `routePool`, `routeSingle`, account refresh | `ControlPlane`; routing in `ProxyRequests`, `SingleKeyMode` |
| Control API, `apps/router/src/server.ts` | - | status, route lock, config, login, route once, shutdown | `ControlPlane`, `Persistence` |
| Decision and scoring, `packages/core/src/{decision,scoring}.ts` | - | `decide`, `evaluate` | `Decision`, `Scoring` |
| Observations, `packages/core/src/observe.ts` | observation store | record latency and outcomes, confidences | an input of `Scoring` |
| Client, `packages/core/src/client.ts` | tokens | AIHub calls, each with a 30 s timeout | its failures are choices of the models |
| Koishi plugin, `packages/koishi-plugin-aihub-auto/src` | result cache, in-flight map, cooldowns | `recommend`, middleware | not modelled |
| Desktop shell, `apps/desktop/src-tauri/src/lib.rs` | child process, shutdown token, startup error | start, stop, update, autostart | not modelled |
| Logger, Sentry, console page | - | I/O and markup | not modelled |

**How they interact.** JavaScript runs one callback at a time, so the code between
two `await`s is atomic, and everything interesting happens between such pieces. In pool
mode a request asks `routePool` for a group; routing consults statistics (await), the
breaker, session affinity and traffic, then awaits a key from the pool and binds the
session. The proxy sends the attempt and, when it ends, reports to breaker, affinity and
traffic, and perhaps routes again. In single mode a request first waits for the lease,
holds it to the end of its response and may change the group of the key in between.
Rounds, manual locks and configuration updates of the control plane queue in one promise
chain and run beside the requests: they change the current group, shrink the pool or, in
single mode, take the lease. Whatever changes marks the state for a debounced write, and
a restart resumes from the last file.

**What is hard.** Attempts that overlap and report in any order; times captured before
an await and used after it; a probe slot that must be returned on about ten different
exits; bindings restored by a rollback after the world moved on; victims of an eviction
that become needed while earlier victims are being deleted; lost answers of creates,
deletes and PUTs; a lock compared before an await and set after it; a write that fails
behind a change in memory; the debounce against changes during a write; a shutdown; a
restart from a file that is older than the crash. `PROJECT.json` lists these hazards at
their lines with the properties that cover them.

**What makes each component correct.** Breaker: an outage is timed, its cooldown is
not disturbed and escalates, one recovery ends it. Proxy: each request ends, reports
once and is counted exactly. Single mode: the key keeps its group under a response, a
response comes from the group it is said to come from, the lease always comes round.
Affinity: only the newest attempt of a session owns its binding; evidence belongs to the
bound group; records are bounded. Pool: one creation per group at a time, no key deleted
under a request, no record lost without cause, nobody waits for ever. Persistence: files never
go back, no change is forgotten, overrides are not written. Control plane: no lock is
overwritten unseen, a confirmed lock is on disk, rounds obey locks and keep dwell times,
an operation that fails does not block the next. Scoring: no healthy group is lost and
no candidate is beaten by another in both price and latency.

## 2. Modules

| Module | Models |
|---|---|
| `CircuitBreaker` | the breaker, one action per public method |
| `AbstractBreaker` | what a breaker promises: phases and the end of an outage; `CircuitBreaker` implements it (`RefinesAbstractBreaker`) |
| `ProxyRequests` | EXTENDS `CircuitBreaker`: requests in pool mode with the breaker and the traffic counters |
| `AbstractGate` | what a lease promises: a line of callers, let in one at a time; `SingleKeyMode` implements it (`RefinesAbstractGate`) |
| `SingleKeyMode` | the lease, routing, PUT and response of requests that share one key, and the switch of a round |
| `SessionAffinity` | bindings, aliases and the attempts that hold versioned bindings |
| `AbstractBinding` | what a versioned binding promises: a session has one owner, and only it gives the session back; `SessionAffinity` implements it (`RefinesAbstractBinding`) |
| `KeyPool` | the pool's promise chain, its callers, the remote account |
| `Scoring` | `evaluate`: exclusions, scores, the order of candidates |
| `Decision` | EXTENDS `Scoring`: `decide`, with stickiness, dwell time and cache penalty |
| `AbstractLock` | what the manual lock promises: a register with revisions and its written copy; `ControlPlane` implements it (`RefinesAbstractLock`) |
| `ControlPlane` | EXTENDS `Decision`: rounds, manual lock, configuration, their chain, failing writes and crashes |
| `Persistence` | files, debounce, overrides, shutdown, crash |
| `CircuitBreakerProofs`, `ProxyRequestsProofs`, `SingleKeyModeProofs`, `SessionAffinityProofs`, `KeyPoolProofs`, `ScoringProofs`, `ControlPlaneProofs`, `PersistenceProofs` | the theorems, each beside its component |
| `MC*` with their `.cfg` files | the instances TLC checks |

Definitions named *Slip* in comments are plausible mistakes in the neighbouring
definition (a forgotten guard, a wrong time, a missing reset). No specification
uses them; each is substituted for its neighbour to see that a property notices.

**CircuitBreaker.** `groups` is the code's `Map`; a group that is not in the map is
the fresh breaker `group()` creates. The outcome window, an array of timestamps,
is kept as counts per instant, which is all the code computes from it. Each method
takes the time its caller passes: routing captured it before awaiting statistics, so
`CallTimes` allows it to trail the clock by `MaxLag`. `saved` is the copy in the
state file; `FromJSON` is a restart from it at any moment.

**ProxyRequests.** A request runs through `keying` (admitted, key awaited), `sent`
(first byte awaited), `streaming` or `passing`, and possibly `dropping` and
`retrying`. Each action is the code from one await to the next: e.g. `AttemptFails`
is a connection error, TTFB timeout, 429, 5xx or billing 403 with its breaker report
and the decision to retry. `Route` leaves open which admissible group is preferred,
since scores and affinity do not matter to these properties. Each report also
decides whether the copy it produced is what a later restart finds; `ControlRound`
is everything that looks at or saves the breakers besides. `lent` is a
history variable that remembers whether the admission took a half-open slot.

**SingleKeyMode.** `gate` is the chain of `SingleKeyGate`, its holder first; a request
holds it from `Enter` to its end (`Ends`), a round around its switch only. `remote` is
the group of the key at AIHub, `current` what the router believes. A PUT is repeated
once; one that timed out after 30 s may take effect much later (`late`,
`LateArrives`). `lost` is a history variable: since the last answered PUT such a
one took effect, or the process came back with another current group; what a response
says of its group is only promised while it is false. The breaker is reduced to what
admits and returns half-open slots, which is where `routeSingle` can leak one. Seen as
`AbstractGate`, the line is `gate`, and its first is inside once beyond `waiting`.

**SessionAffinity.** Actions are the methods, plus the attempt's use of them:
`BindForRoute` starts an attempt, `Rollback`, `Commit`, `Invalidate`, `Complete` end
or advance it. Pruning runs inside the actions where the code runs it; the code
breaks ties of the oldest entries by insertion order, the model leaves them open.
Evidence carries, as history, the group whose response showed it. `bind`, `rebind`
and `clear`, which only tests call, are left out.

**KeyPool.** `queue` is the promise chain; `calls` are the requests and the control
plane. Keys are numbers in order of creation, `older` the order of `lastUsedAt`. A
create or delete may fail, or take effect and lose its answer; keys may be revoked
or created outside. Upstream may refuse any key that is in use, also one the account still
has: `invalidatePoolKey` then drops its record, as long as it is the refused key's. `Settled` says that continuations of resolved promises run before the next
network answer. Which groups affinity protects and which are idle long enough is
chosen anew at each place the code asks, because both change meanwhile. The startup
reconcile is not awaited: rounds and requests run beside it. It reads the account in
pages (`ListPage`, `ListReturns`), newest key first as `listAllKeys` asks for them, each page
as the account is when it answers: a key deleted on a page already read moves the older ones
up, and the first of the next page is never seen. `ListCutShort` is an answer without a list
of items or a number of pages, which ends the listing. `job.torn` is a history variable: a
page already read has lost a key. `Shutdown` queues `cleanup`
behind what is under way; `Exit` writes the state once more and ends the process.

**Scoring, Decision.** The code scores by `log2` of rate and latency ratios, so a rate is
kept as its logarithm plus one (0 is a free group) and a latency as its logarithm;
scores are then integers with the code's weights. What local observations say of a
group is one of `fine`, `unstable`, `failing`, which is all the exclusions distinguish;
the latency is the conservative one into which the code fuses public and local figures.
Reasons of exclusion are kept as three lists: hard, circuit open, and weak (the two
soft reasons of economy mode). `Decide` is the whole of `decide` but for the failover
option, which the router never sets; whether a cache is warm is told by
`traffic` (streams open, or the time since the last request), and the penalty falls
linearly with it as in `trafficRecency`. The configuration accepts a `cacheIdleMs` of 0,
where the code divides by zero: no idle time at all makes `NaN`, which no advantage fails
to exceed, and any other makes a penalty of 0, so the stickiness decides alone
(`Exceeds`).

**ControlPlane.** `chain` is `controlMutation`: the first call in it runs, in stages
that end where the code awaits (`fetching` statistics and account, `keying` the new
group's key, `adopting` while `switchTo` writes, `saving`). `state` and `disk` are the
current group, last switch and lock in memory and in the file. What a fetch shows is
any member of `Situations` at the moment it is used. `StartLock` and `JudgeLock` are the
two halves of `updateManualLock`; `FollowedByRound` is the round a handler appends,
behind what has queued up meanwhile, before it answers. `moved` is a history variable,
the time of the last switch that was completed; `plan.unusable` is history for
`LockObeyed`. `Restart` resumes from the disk with any configuration. `Imagined` are
further situations in which the two properties about evaluations try them; no step
depends on it.

**Persistence.** The runtime state is represented by its version; `writes` are the
texts in the per-file queue of `FileStore`. The overridable setting stands for port,
host, password and the other settings of `startup.ts` and `config.ts`. `Exit` waits
for all texts queued for `state.json`; the code waits for its own last one only, so that
something a round still changes after that is lost as in a `Crash`, and nothing is promised
of it here.

## 3. Runs

| Run | Instance | What it shows |
|---|---|---|
| `breaker` | 1 group, instants 0..5, lag 1, threshold 2, window 2, cooldown 1 doubling to 3 | types; closed is clean; outages timed; cooldowns undisturbed and escalating; only a failure trips; refinement of `AbstractBreaker` |
| `proxy` | 2 groups, 2 requests (one not repeatable), 1 retry, instants 0..1, threshold 1, fairness | `ProbeSlotHeld`, `TrafficExact` over all exits and restarts; `ProbeComesBack`, `RequestEnds` |
| `proxy_single_probe` | 1 group, 2 requests | *violation*: two probes at once |
| `single_key` | 2 groups, 2 requests (one not repeatable) and a round, 1 retry, fairness | `ServedAsRouted`, `SlotWithLease`, `NoRegroupInFlight`, `LeaseComesRound` with refused, lost and late PUTs, failing writes, crashes |
| `session_bindings` | 1 session, 2 groups, 2 attempts, 4 revisions | `OneOwner`, `EvidenceMatchesGroup`, refinement of `AbstractBinding` |
| `session_capacity` | 2 sessions, 3 responses, limits 1 and 2 | `CapacityBound` with stale times |
| `session_forgotten` | 1 session, 2 groups, 2 attempts | *violation*: a rollback brings a forgotten group back |
| `pool_safety` | 2 groups, 2 requests and the daemon, room for 1, 2 keys | `DeletesNoKeyInUse`, `DeletesNoKeyWanted`, `SingleFlight`, `RecordsLeaveForCause`, with lost answers, refused keys, keys deleted and created outside, a listing in pages of one key, failing writes, restarts and a cleanup at shutdown |
| `pool_liveness` | 2 groups, 2 requests, room for 0, 1 key, pages of one, fairness | `CallsReturn` |
| `control_plane` | 2 groups, 12 situations, economy and balanced, 2 calls, instants 0..1, 2 lock revisions, fairness; and, for evaluations, all pairs of groups drawn from a set of candidates (`Imagined`) | `AnsweredLockIsSaved`, refinement of `AbstractLock`, `LockObeyed`, `DwellKept`, `OperationsReturn`; `EvaluationSound`, `ConsoleOffersOnlyLockable` |
| `persistence` | 3 changes, 3 pending writes, fairness | `NothingForgotten`, `NeverBackwards`, `EverSaved` |
| `persistence_overrides` | 2 ports, 2 modes | *violation*: an override is written back |

**Why these bounds are enough.** The breaker treats groups independently, so one
group suffices; five instants hold two outages with a doubled cooldown in between,
a third, capped one, and a window that forgets. In `proxy` two requests give every
pair of overlapping attempts, the second group is what a retry goes to, threshold 1
makes each failure an outage, and two instants hold a trip and the probe after its
cooldown; the rate trip is switched off there because `breaker` checks it. In
`single_key` two requests and a round are a holder, one who waits first and one who
waits behind; the second group is what is switched to. Two attempts make every race
about a binding, and four revisions let it be made, lost and made again after a restart.
Two groups with room for one key force an eviction for each creation, and the second key
can replace a rejected one; with no room the pool evicts on every operation, which is
the hardest case for waiting. With pages of one key, two keys are two pages: the newer one
may be deleted between them, or the listing be cut short after the first. In `control_plane` the situations contain each way in
which a group is preferred, lost or excluded; two calls are one that runs and one behind
it, two revisions let a page be overtaken once, and with `MinDwell = 1` the two instants
lie on both sides of the dwell time. Three changes let one fall before, into and after a
write. `MaxPerInstant`, `MaxNow`, `MaxRevision`, `MaxCalls`, `MaxKeys`, `MaxChanges` and
`MaxPending` are bounds of the models, not of the code. The properties proved in section
5 hold whatever these bounds are.

Deadlock checking is off in the runs: the models may end when the clock, the keys or the
revisions are used up, and a router without clients is idle.

**Fairness.**
`ProxyRequests!FairPathSpec`: a request whose key is awaited, whose attempt is out, or
which is about to route again, moves on. Key preparation ends because the client
library times every call out; an attempt is cut by the TTFB timer; that a stream
which has started ends is an assumption about upstreams and clients, for the proxy
has no idle timeout after the first byte. Nothing is assumed about arrivals, ticks
or restarts.
`SingleKeyMode!FairSpec`: the same for the calls of single mode, whose PUTs and writes
return and whose responses end; waiting for the lease is *not* assumed to end, that is what is checked.
`ControlPlane!FairSpec`: the running call of the chain moves on, because every fetch, key
call and write returns or throws. Nothing is assumed about pages or the loop's timer.
`KeyPool!FairSpec`: pending continuations run (weak), and an awaited answer comes, even
though in the model it has to wait whenever continuations become pending (strong).
Clients need not release keys, no key need be revoked.
A hanging stream or response is thus outside what the liveness properties can show; the
hazards say so.
`Persistence!FairSpec`: timers fire, file operations end and a shutdown goes on. That
writes succeed is *not* assumed; `excused` records that one failed.
`PlainFairPathSpec` and `PlainFairSpec` of the MC modules are these formulas with WF and SF
written out by the step that is enabled, which TLC evaluates much faster; their comments
say why they are the same.

## 4. What the violations say

* **Two probes.** `ALGORITHM.md:142` (under `packages/core`) and the comment at
  `breaker.ts:96` promise one half-open probe at a time. `releaseRequest`
  (`breaker.ts:111`) frees the slot for whoever calls it. A request admitted while
  the group was closed may end neutrally after the group went half-open, and frees the
  slot another request holds. What does hold is `ProbeSlotHeld`: slots never leak.
* **Forgotten groups return.** `session.ts:361` says a forced reclaim clears the
  affinity of the group. A `rollback` whose captured previous binding names that group
  writes it back (`session.ts:255`). Routing then finds no key and creates a new one.
* **Overrides are written.** `README.md:132` and `startup.ts:18` say that command line
  and environment override a single start only. `POST /ctl/config` writes the whole
  configuration in memory, overrides included (`server.ts:578`, `main.ts:171`).

**Worth knowing, although no run refutes a sentence of the repository.**

* In single mode a PUT that timed out after 30 s may take effect at AIHub while a later
  response is under way; the router cannot prevent it. `NoRegroupInFlight` excludes it by
  name, and `lost` remembers it. After such a PUT `routeSingle` does not set the key right
  as long as the group it believes current stays usable: it only compares with its own
  record.
* A round of single mode carries out a decision it made before it waited for the lease
  (`SingleKeyMode!RoundDecides`); a request may have changed the group meanwhile.
* When the write inside `switchTo` fails, or the process dies in it, the group has changed
  but the dwell time counts from the switch before (`ControlPlane!AdoptFails`).
* A lock set in memory whose write failed stays in force until a crash; after one its
  revision is given out again (`ControlPlane!LockNotSaved`, `Restart`).
* The comment at `executor.ts:310` says that the reconcile at startup only clears records
  that are no longer valid. It also drops the record of a living key when a newer key of the
  account is deleted between two of the pages it reads, or an answer lacks the number of
  pages (`client.ts:425`). The key stays on the account, and the next request of its group
  creates another. `RecordsLeaveForCause` names both cases (`torn`, `ListCutShort`), and it
  shows that there is no third one.
* With a `cacheIdleMs` of 0 the cache penalty disappears while no stream is open, also right
  after a request (`decision.ts:32`).
* The status of a half-open locked group says `effective: false`, although rounds obey
  the lock: `Lockable` admits half-open groups, the round's list does not.
* `pruneOutcomes` (`observe.ts:82`) drops outcomes whose time is after the captured `now`,
  although `ALGORITHM.md:44` keeps outcomes for three hours.
* A failed login restores the credentials it had captured before two awaits
  (`server.ts:598`), over a token refresh that happened in between.

## 5. Proofs

All theorems hold for any sets and numbers that the assumptions of the modules allow
(`BreakerAssumption`, `RequestAssumption`, `SingleKeyAssumption`, `AffinityAssumption`,
`ScoringAssumption`, `DecisionAssumption`, `ControlAssumption`, `PersistenceAssumption`);
TLC evaluates each assumption in a run.

**Breaker** (`CircuitBreakerProofs`). `TypeOK` alone is not inductive: that a closed
breaker is clean after a restart needs the same of the saved copy, and that
`openedAt` is an instant of the past needs the state it belongs to. The invariant
`Inv` therefore says `Good(b, now)` of every live and saved breaker: typed, clean
when closed, timed when not. One lemma per helper (`RefreshGood`, `AskedGood`,
`ReleasedGood`, `SucceededGood`, `FailedGood`, `SerializedGood`) shows that it keeps
`Good` for any time argument; `NextInv` has one step per action.

* `BreakersStayGood`: `Spec => []Inv`, and from it `TypeCorrect`,
  `ClosedStaysClean`, `OutageStaysTimed`.
* `CooldownKept`: `Spec => CooldownUndisturbed`, an action property, from `Inv` and
  the lemma that each helper leaves a cooling outage as it is.
* `FailureTripsOnly`: `Spec => OnlyFailureTrips`, from the lemma `ClosedOpens`: only
  `Failed` opens a closed breaker, and the window still holds the failure it counted.
* `BackoffGrows`: `Spec => BackoffEscalates`. The code doubles with `2 ** (n - 1)`, and
  the only thing the provers know of powers of two is what the library says of the number
  of subsets: `SubsetsDouble` counts the subsets of sets of n - 1 and n elements. The library's
  theorem it cites (`FS_SUBSET` of `FiniteSetTheorems`) is proved in the distribution up to
  one arithmetic lemma, that 2^(n+1) = 2 * 2^n, which is stated there without proof.
* `ImplementsAbstractBreaker`: `Spec => RefinesAbstractBreaker`; each helper maps to a
  step of the abstract breaker or to none. A report and the write of its result can be one
  step here, so every abstract step may be written at once (`MayWrite`).

**Requests** (`ProxyRequestsProofs`). `ProbeSlotHeld` is not inductive either: to see
that a neutral report frees the slot one must know that only a half-open breaker
holds one, and to see that a restart does not resurrect a slot, that no saved copy
holds one. `SlotInv` adds both, and that a request with an attempt has a group. The
argument: a step of request `r` changes the slot of its own group only, and leaves
it free (`ReportedKeeps`), or taken by `r` (`RouteKeeps`); all other slots keep the
requests that took them (`FreedKeeps`).

* `NoSlotLeaks`: `PathSpec => []ProbeSlotHeld`.
* `TrafficStaysExact`: `PathSpec => []TrafficExact`; each step of one request moves
  each counted set by at most that request (`CountsFollow`), and the counters by as
  much.
* `PathTypeCorrect`, `BreakersStayGoodInUse`: types and `Inv` of the composition.
* `ImplementsBreakerInUse`: `PathSpec => RefinesAbstractBreaker`. The abstract breaker also
  holds when one step looks at every breaker, asks one and reports to another; that a
  request reports only to a group it was routed to before is `RoutedBefore`.
* `RequestsRunOut`: `PathSpec => StepsRunOut`, the safety half of `RequestEnds`. With
  `StepsLeft`, four steps for each attempt left and a rank for the phase, every step of a
  request leaves fewer than before. What liveness adds is that none is waited for in vain.

**Single mode** (`SingleKeyModeProofs`). The key of the argument is `OneBusy`: whoever
has gone beyond waiting is the first of `gate`, so there is only one, and a step of it
cannot disturb another. `PassingIsFree` (a response that is passed through has returned
its slot) makes `SlotWithLease` inductive, and `Moved` extends `ServedAsRouted` to the
write after an answered PUT, when `current` has changed but no response exists yet.

* `Invariant`, `TypesHold`, `SlotsAreHeld` (`SlotWithLease`), `RoutedIsServed`
  (`ServedAsRouted`), `ResponsesKeepTheirGroup` (`NoRegroupInFlight`).
* `NoWaiterIsLost`: `Spec => []LineOk`. The callers that are not idle are exactly those in
  `gate`, each once. For the lease all steps of callers are of three kinds, to ask, to go
  on and to give back (`Turns`); the following three use the same lemma.
* `ImplementsAbstractGate`: `Spec => RefinesAbstractGate`. That asking again before the end
  is impossible, and that the next in line is not inside when the holder leaves, is
  `LineOk` with `OneBusy`.
* `TurnsEnd` (`TurnsRunOut`) and `WaitersKeepTheirTurn` (`NobodyOvertakes`): the safety half
  of `LeaseComesRound`. A turn is at most `6 * MaxRetries + 7` steps long, and nobody gets
  before a waiter.

**Affinity** (`SessionAffinityProofs`). That at most one attempt owns a binding needs the
past: revisions in use were issued (`Issued`), by this process, and those of attempts
under way are distinct (`Distinct`), so an attempt whose revision is the binding's made
it (`OwnsItsBinding`). Evidence and capacity must also hold of what a rollback would
restore and of what is saved (`AllEvident`, `AllWithin`), since both come back.

* `Invariant`, `TypesHold`, `BindingHasOneOwner` (`OneOwner`), `EvidenceStays`
  (`EvidenceMatchesGroup`), `RecordsBounded` (`CapacityBound`), `RevisionsOnlyGrow`
  (`RevisionsGrow`).
* `ImplementsAbstractBinding`: `Spec => RefinesAbstractBinding`. A session's owners are the
  attempts that `isCurrent` would say yes to. When an owner ends, the binding it leaves is
  gone, or carries a revision above all issued, so nobody else owns it afterwards
  (`OwnerMaps`); that the end of a stream can only delete needs `Settled`, that `rollback` is
  given up with the first byte. Pruning takes an owner its session (`DropMaps`), never gives
  it one.

**Key pool** (`KeyPoolProofs`). That no key in use is deleted is a statement about keys;
what the code protects are groups. `KeysOk` connects them: no key serves two groups, in
memory or in the file, so a held key belongs to the group it was asked for. `JobOk` says
what makes the check before the delete last until its answer: nobody but requests waiting
behind the operation comes to the victim (`Spared`), since no creation of it can begin
while its record is there, and only a request beside a trim, never the control plane, can
get on while keys are evicted. That needs `QueueOk`: there is one trim at most, and the
control plane waits for it. `QueueOk` also says who asked for an
invalidation, and that it holds the very key to be dropped. `ListOk` is the argument about
the pages: as long as none of those read has lost a key, every key of the pool that would
stand on them now is listed, for keys only move back, and those created meanwhile are not
of this pool. So at the last page every key of the pool that the account has is listed
(`ListingIsComplete`), and a record that goes then is of a key that has gone; with the check
of `expectedSk` this is `RecordsLeaveForCause`.

* `Invariant`, `TypesHold`, `KeysInUseStay` (`DeletesNoKeyInUse`), `WantedKeysStay`
  (`DeletesNoKeyWanted`), `CreationsAreSingle` (`SingleFlight`), `RecordsGoForCause`
  (`RecordsLeaveForCause`).

**Evaluations** (`ScoringProofs`). `EvaluationsAreSound` says of every situation, mode,
blacklist and set of open circuits what the run checks for pairs of groups
(`SoundEvaluation`). Minima exist because `<` is well-founded on `Nat`; the first
candidate exists because the order compares finitely many numbers in turn
(`FirstExists` picks the least score difference, then rate, latency and id); that no
candidate beats it follows from the signs of the weights (`ScoreFacts`).

Of `decide` it is shown, for any state, time and traffic, and for a `cacheIdleMs` of 0 too: `DecisionsAreUsable` (a round
ends with a usable group as long as there is one, in economy mode with one of the
cheapest), `DecisionsSettle` (the next round does not undo the switch while the evaluation
stays as it is, so two groups of close scores do not alternate) and `ScoreSwitchesPay` (a
switch by score gains more than the stickiness). `Outcomes` lists what a decision can be.

**Control plane** (`ControlPlaneProofs`). `ChainOk`: only the first call of the chain has
started. `FirstOk` remembers of this call what was decided or compared before an await:
while it waits for its key, its plan obeys the lock and the dwell time; while a lock waits
for data, its page has seen the revision in memory. Since no other call runs, nothing in
between changes lock, current group or last switch, so `FirstOk` is kept (`Advances`,
`Leaves`, `Stays`). `MovedOk` connects the history variable with the time `decide` looks
at. `told` below the revision in memory, and that below no smaller one on disk, give the
promise to pages. `Decided` is the lemma about `RoundDecision`; it uses
`ScoringProofs!TopIsFirst`.

* `Invariant`, `TypesHold`, `LockIsObeyed` (`LockObeyed`), `DwellIsKept` (`DwellKept`),
  `NoLockIsLost` (`NoLostLockUpdate`), `AnsweredLocksAreSaved` (`AnsweredLockIsSaved`).
* `ImplementsAbstractLock`: `Spec => RefinesAbstractLock`. A lock that is set has passed the
  comparison before its await, and `FirstOk` says that what was compared still is so when
  it is set; therefore its revision is the next one and its group another one.
* `RevisionsNameLocks`: from the refinement, `RevisionNamesLock` (memory and disk never hold
  two locks under one revision) and `WrittenLockStays` (what is on disk is only replaced
  under a later revision). A page that shows a written lock therefore never takes another one
  for it, restarts included; of a lock that was never written, a crash lets the revision be
  given again.
* `CallsEnd` (`CallsRunOut`): the safety half of `OperationsReturn`. A call queues up behind
  the others; only the first goes on, for at most five steps (`StepsLeft`), answered or
  failed; when it leaves, the others move up in their order. So nobody overtakes.
* `EvaluationsStaySound` (`EvaluationSound`): `ScoringProofs` applied to every situation in
  `Imagined`, which may be any set of situations.
* `ConsoleOffersHold` (`ConsoleOffersOnlyLockable`): a group the console offers is only
  softly excluded, so among itself alone, as `updateManualLock` judges it in balanced mode,
  nothing excludes it (`OfferedIsPre`, `AloneIsWorthy`, `ForceableIsLockable`).

**Files** (`PersistenceProofs`). The texts pending for `state.json` are versions in
ascending order between the file and the memory (`Ascends`); the last one is the memory
unless the timer is set or, with nothing pending, a write failed (`OnItsWay`); nothing is
pending when the process is down (`DownIsQuiet`).

* `Invariant`, `TypesHold`, `NoneForgotten` (`NothingForgotten`), `FileNeverBack`
  (`NeverBackwards`).

**Only model-checked.** Every safety property of the runs is proved. Liveness
(`ProbeComesBack`, `RequestEnds`, `LeaseComesRound`, `CallsReturn`, `OperationsReturn`,
`EverSaved`) is out of this prover's reach; for `RequestEnds`, `LeaseComesRound` and
`OperationsReturn` the bound on the steps is proved, and only that each step is eventually
taken is left to TLC. `NoLostLockUpdate` and the theorems without a property of a run
(`StepsRunOut`, `LineOk`, `RefinesAbstractGate`, `TurnsRunOut`, `NobodyOvertakes`,
`RevisionNamesLock`, `WrittenLockStays`, `CallsRunOut`, `RevisionsGrow`, those about `decide`) are proved only.

## 6. Not modelled

* Observations: decayed averages over real time, out of TLC's reach. What evaluations
  make of them is an input (`Situations`).
* The order of preference in `routePool` (manual lock, affinity, load, score): in
  `ProxyRequests` any admissible group may be chosen. Model blocks only narrow this.
* Login, the token refresh and the 401 retry over shared credentials; the client's
  parsing; the reconcile of single mode with the account.
* The Koishi plugin, a separate program that shares pure functions with the router, and
  the desktop shell, which starts and stops the router as a process.
* HTTP parsing, header handling, response probing for ids and usage, logging, error
  reports, the console page and its read-only endpoints, and the validation of
  configuration files are I/O or text.

## 7. What is left of the plan

1. The composition of `KeyPool` with `SessionAffinity` through protection and
   `forgetGroup`.
2. `Credentials`: login, refresh and the 401 retry with the snapshot that a failed login
   restores. Property: a newer session is never replaced by an older one.
3. `Recommend` (Koishi single flight and cooldown) and `DesktopSidecar` (start, stop,
   update).
4. The preference order of `routePool` with model blocks.
