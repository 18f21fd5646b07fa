# Verification of rank-activities

TLA+ modules that model the parts of this service in which the order of events
matters, TLC configurations that check them on small instances, and proofs
about them for every instance.  Paths below are relative to the repository;
the program's own code is in `src/`.

## 1. The system

A request asks how well a set of activities suits a place on the coming days.
`RankingService.rank` resolves the place, finds what is known about it, plans
the metrics to fetch, fetches them, scores every activity for every day and
records the run.  One process is one Node event loop: a step runs to its next
`await` undisturbed, and everything else may happen at that `await`.  Several
processes share one PostgreSQL database.

| Part | State it keeps | Operations |
|---|---|---|
| **Series cache** `modules/weather/decorators/cached-series.port.ts`, `common/cache/*` | records by key with `storedAt`, `freshUntil`, `expiresAt`; running promises by key | fetch: hit, stale and refresh, miss; join or start a call; store; evict |
| **Resilient port** `decorators/resilient-series.port.ts` | a breaker, a bulkhead with a queue, retries and their delays | fetch, attempt, retry, time out, open, half-open, close |
| **Outbound budget** `modules/weather/outbound-budget/*` | a token bucket for each window | `tryConsume`, `remaining`, refill |
| **Location profiles** `modules/geo/location-profile.service.ts`, `adapters/db-profile.store.ts` | rows of `location_profiles` and `marine_probes`, a mirror in memory, one computation per place | find, gather, probe, save, read back |
| **Audit buffer** `modules/ranking/audit/*` | the buffer, the write in flight, two counts | record, flush, shut down |
| **Place lookup cache** `decorators/cached-place-lookup.port.ts` | names that resolved, and that did not | lookup |
| **Location resolver** `modules/geo/location-resolver.service.ts`, `adapters/db-location.store.ts` | rows of `locations` | resolve, save |
| **Activity catalogue** `modules/activities/adapters/store-catalogue.ts`, `infrastructure/db/seed/publish.ts` | an index of published versions, a check in flight | find, refresh, publish |
| **Ranking** `modules/ranking/ranking.service.ts` | nothing between requests | gather, merge, assemble |
| **Domain** `domain/weather`, `domain/scoring`, `domain/ranking` | nothing | windows, slicing, merging, aggregation, normalising, scoring, ordering, applicability |
| **Declarations** `domain/activity` | nothing | load, validate |
| **Source adapters** `modules/weather/adapters/*` | connections, fixtures | plan a call, fetch, interpret, rebase a recording |
| API, configuration, metrics | connections and counters | expose, read, count |

How they are put together: for every source and capability `weather.module.ts`
builds *cache ( resilience ( adapter ) )*.  The budget is one object that all
resilient ports share, and an attempt pays it inside its bulkhead slot.  The
marine probe of the profiles goes through the same cached marine port as the
forecasts.  A ranking hands its record to the audit buffer and does not wait.

### What is hard

* **Interleavings at awaits.** A caller reads the cache, awaits, judges what it
  read by a later clock, then joins a call or starts one; meanwhile others do
  the same and calls end.
* **Several policies around one call.** Breaker, retry, bulkhead, budget and
  timeout each have a way to end an attempt, and each must leave the others
  consistent.
* **Partial failure.** Saving a place, saving its profile and reading it back
  fail separately; a commit may succeed and its answer be lost; a cache may
  refuse reads or writes.
* **Several instances over the same rows**, each with its own mirror, cache and
  idea of the day.
* **Clocks.** Intervals on a grid, two readings of a clock in one decision, UTC
  midnight against local midnight, a clock set back.
* **Limits.** A full buffer, a full queue, an empty bucket.

`PROJECT.json` lists each such place with its line under `hazards`, and the
property that covers it or the reason none does yet.

### What makes each part correct

* Series cache: one call per key; nobody left waiting; every horizon asked for
  is covered by the shared entry; an answer is honest about its age; data never
  goes back in time; a stale answer leaves a refresh behind it.
* Resilient port: slots and queue balance on every way out; the breaker opens
  after that many fetches, not attempts; every fetch returns.
* Outbound budget: what leaves is paid for in every window; no window exceeds
  its rate and burst.
* Location profiles: known means durably stored; evidence is never invented;
  a place is probed again on a day only when what a probe found was lost;
  observed coverage is never taken back.
* Audit buffer: no run goes missing uncounted; memory is bounded; the newest
  survive; shutdown ends, as long as writes come back.
* Place lookup: a negative answer is short-lived, a failure is not cached.
* Location resolver: a row goes by the name of the place its identifier says,
  and what is known of a place is never lost.
* Catalogue: a request sees rules that were published; versions never change;
  two publishers agree; the newest version comes into force.
* Ranking: a failed capability costs only the activities that need it; the audit
  record names a version that was published, no older than the one judged.
* Domain and declarations: what the loader lets pass the engine can judge, but
  for a bell too narrow for the machine; a
  refusal outlives knowledge; a score is what its breakdown adds up to; fewer
  days asked for are the first of the longer answer.
* Source adapters: quantities keep their scale; a host that leaves out what was
  asked for has failed; a port never throws.

## 2. The modules

| Module | Models | Checked by | Proved in |
|---|---|---|---|
| `Freshness` | `freshUntil`, `expiresAt` | through `SeriesCache`, `Places` | |
| `SeriesCache` | the series cache | `MCSeriesCache`, 2 configurations | `SeriesCache_proofs` |
| `ResilientPort` | the resilient port | `MCResilientPort` | `ResilientPort_proofs` |
| `OutboundBudget` | the budget | `MCOutboundBudget` | `OutboundBudget_proofs` |
| `ProfileService` | location profiles and their store | `MCProfileService`, 3 configurations | `ProfileService_proofs` |
| `LossyLog` | what an audit log promises, abstractly | as a property of `AuditBuffer` | |
| `AuditBuffer` | the audit buffer and its writer | `MCAuditBuffer` | `AuditBuffer_proofs` |
| `Places` | place lookup cache, resolver, rows of places | `MCPlaces` | `Places_proofs` |
| `Catalogue` | published versions, an instance's copy, deploys | through `Ranking` | `Ranking_proofs` |
| `Ranking` | a request, over `Catalogue` | `MCRanking` | `Ranking_proofs` |
| `Weather` | dictionary, series, slicing, merging, days, derived metrics | through `Assessment` | `Domain_proofs` |
| `Verdicts` | three-valued constraints | through `Assessment` | `Domain_proofs` |
| `Normalizers` | the curves | through `Assessment` | `Domain_proofs` |
| `Scoring` | aggregation, features, gates, the score of a day, the order of a day | through `Assessment` | `Domain_proofs` |
| `Declarations` | loading and validating rules | through `Assessment` | `Domain_proofs` |
| `OpenMeteo` | live and recorded sources | through `Assessment` | `Domain_proofs` |
| `Assessment` | declarations, sources and scoring together | `MCAssessment`, 2 configurations | `Domain_proofs` |

What is composed with what: `Ranking` EXTENDS `Catalogue`, so that a request
awaits while deploys publish and the copy is reloaded, and implements it
(`RankingIsAReader`: a request is one more reader).  `Assessment` EXTENDS
`Declarations`, which EXTENDS `Scoring` over `Normalizers` over `Weather`, and
`OpenMeteo`, also over `Weather`: it takes rules and answers through the whole
data path.  `AuditBuffer` implements `LossyLog` under the mapping of its fates.
`SeriesCache` and `Places` share `Freshness`.  What one module leaves to another
is a choice there over everything the other can do: an attempt of
`ResilientPort` may find the budget spent at any time, a call of `SeriesCache`
may end in any answer or error and takes any time, a call of `Ranking` settles
with any series or failure, and a place of `Ranking` is resolved or refused.

Definitions named `X_something` beside a definition `X` are mutants: `X` with a
plausible bug.  They are used nowhere in the specifications; for each property
`PROJECT.json` names one that makes TLC find it violated.

### SeriesCache

A caller goes `idle → reading → deciding → idle`, or through `waiting`.  `Ask`
is the entry of `fetch`, `Read` the `await` of `cache.get`, and `Hit`,
`AnswerStale` and `Miss` the three ways on from it.  `Run` is
`SingleFlight.run`: the map `running` points each key at a promise in `Calls`.
A call goes `out → arriving → storing → settling`, which are the awaits inside
`obtain`; `Settle` is the promise settling, the `.finally` that releases the
key and the continuations of those who joined.  A series is reduced to the moment it was produced (`asOf`)
and the days it covers; this is what the properties distinguish.  `newest` and
`floor` are history variables: the youngest data a write has stored for a key,
and what that was when a caller asked.  Keys are model values: that `seriesKey` is
injective on requests is assumed.  Eviction, by the bounds of lru-cache or its
timer, may hit any record at any time.

### ResilientPort

One fetch goes from `Enter` (the breaker lets it in, refuses it, or puts it
behind a half-open test) through attempts (`TakeSlot`, `BudgetSpent`,
`WaitForSlot`, `SourceAnswers`, `TimesOut`) and delays (`Retry`) to `Judge`,
where the breaker sees its result and it returns.  The policies come from
cockatiel; they are modelled from how the port uses them and marked external.
The budget is a choice: an attempt may find it spent at any time, which
`OutboundBudget` refines.  Results are the classes of failure that the two
classification functions tell apart.  A call that timed out is forgotten, as the code
forgets it.

### OutboundBudget

`TryConsumeGranted` has the two readings of the clock the code has: `remaining`
of every bucket in the check, `tryConsume` of every bucket in the payment, and
the clock may move between them in either direction.  Tokens are kept as exact integers,
a token being as many units as its window has milliseconds, where the code has
doubles: rounding is not modelled.

### ProfileService

One place and several instances; keys of the single flight are places, so in an
instance at most one computation is under way and a second request joins it.
Each `await` of `compute` ends a step: `FindRow` and `FindProbes` (two selects
without a transaction), `SavePlace`, `GatherSnow`, `Probe`, `Save` (the
transaction), `ReadBackRow`, `ReadBackProbes`.  `FindDegraded`, `Unprofilable`, `SaveFails`, `ReadBackFails` are the paths
on failure, and `Restart` loses all an instance holds.  `SaveFails` may or may
not have committed.  The marine port in front of the probe is the cached one: it
gives a new answer of the source, a fault, or an answer it keeps from up to
`CacheDays` midnights ago.  `spent` and `mishaps` are history: the probes an
instance made for its latest day, and what it met on that day, kept apart by kind
(a read or the save of the place, the transaction of the profile, a restart),
because only the last two cost a probe.  Evidence is reduced to what the computation
branches on: for snow its basis and the day it was attempted, for the sea the
all-null days, the last day tried and whether coverage was seen.

### AuditBuffer and LossyLog

`Record` is `record` with the drop of the oldest, `TimerFlush` the interval,
`WriteSucceeds` and `WriteFails` the end of the write in flight,
`ShutdownBegins` and `ShutdownEnds` the two halves of
`onApplicationShutdown`.  `fate` and `handed` are history variables, `rows` the
database: `WriteFails` may leave a batch committed that the buffer was told had
failed.  A run may still be recorded while the process stops and after, as
`record` does not ask.  `LossyLog` says what any audit log of this kind promises: a run that
was taken is held until it is either kept or lost, and its fate never changes
again.

### Places

A name stands for its cache key and a cell for a pair of rounded coordinates.
`AskName` reads the cache; `Hit` and `Miss` judge what was read and go on, and
`Miss` joins the call for the name or starts one; `SourceAnswers` and
`SourceFails` end it for all who wait; `Save` is the upsert of the place, with
`Merged` its `COALESCE`s column by column.  `SourceLearns` lets the source
change its mind.  The columns that are kept in one and the same way
(country, region, elevation, population) are one.

### Catalogue and Ranking

`Consult` is a request reading the copy, which starts a check when the copy is
old and none is under way; `Compare` and `ReadRows` are the two selects of
`refresh`, `Reload` the replacement of the copy, `RefreshFails` any failure.
`StartPublishing`, `Look`, `Insert` and `PublishFails` are a deploy, version by
version.  A version is a code and a number; contents are model values, of which
some cannot be read by this build.  One row like that makes a reload fail as a
whole, as it does in the code, and keeps newer versions of everything out:
`NewestComesIntoForce` excepts it and says so.

A request goes `Ask`, `Locate`, `Plan`, one `Settles` for each capability, and
`Answer`.  `Plan` reads the copy and `Answer` reads it again for the stamp of
what was not ranked, as the code does, an activity that was judged and came out
without data among it (`Stamps`); the two may be different copies.
`MergeInto` is one turn of the loop in `gather`, with its containment of
failures: a failed capability, or a series on another axis, is lost with its
reason.  The loop goes over the capabilities in the order of the plan, so which
of two series on different axes is kept is the order's choice.

### The data path

`Weather`, `Scoring`, `Declarations` and `OpenMeteo` are operators: each function
of the code is one, and an early return is a disjunct or a case of it.  Values
are integers, absent values `None`; a division rounds down, a score is an
integer in `0..One`, and the two bell curves are another curve with the same peak
and bounds; a distance below `Underflow` squares to 0 in it, as one below about
1e-162 does in a double, so it divides 0 by 0 where the code does.  A constraint or predicate, a recursive type in the code, is the
sequence of the nodes of its tree, each after its branches and the root last: a
walk over it is a recursive function of the position, about which proofs are
possible.  The positions of a series that a day or a window selects are a set;
`Kept` is the walk over them in order.  `Written` is what the schemas make of a
declaration and `IsResponse` what a body parses to; a load comes with the versions
published so far and their fingerprints, which only tests of the repository pass: the assumptions on what
`Assessment` is given say that its inputs have passed those, and no more.
`Assessment` puts the operators behind actions: `Load`, `Plan`, `Decline`,
the stages of an HTTP call (`NoAnswer`, `Headers`, `Body`, `BodyBreaks`),
`Recorded` and `Assess`.  `Assessment` checks the operators against properties of
the whole path and not one by one.

## 3. The runs

Passing runs, with their bounds:

| Run | Bounds | Shows |
|---|---|---|
| `series_cache` | 2 callers, 1 rolling key, 2 calls, interval 1, tolerated age 2, 2 ticks; reads and writes may fail | call sharing, horizons, ages and order of data; every fetch returns, every key is released |
| `outbound_budget` | 2 windows, 8 instants, 10 attempts | payment, rate, no time paid twice |
| `resilient_port` | 3 callers, 1 slot, a queue of 2, 2 attempts, threshold 2, 5 fetches | slots, tests, breaker, return of every fetch |
| `profile` | 2 instances, 2 days, 3 computations, 1 mishap a day | durability, evidence, pacing, settled coverage |
| `audit_buffer` | room for 2, 6 runs | counts against rows, bounds, progress, refinement |
| `places` | 2 callers, 1 name, 1 cell with 2 places, a third off the grid, lifetimes 3 and 2, 4 ticks | absence is recent, names match, nothing known is lost |
| `ranking` | 1 request, 2 activities with 2 versions, 2 deploys that disagree, 2 checks, 2 axes, 2 profiles | containment, the audit stamp, immutability, progress of the copy |
| `assessment` | two activities after the seeds, one declaration for each kind of fault, a curve of every kind over equal and unequal parameters, a bell that vanishes among them; live and recorded answers, complete, with gaps, mislabelled or failed; 3 horizons, 3 days of unequal length | the data path |

Why the bounds are enough: two callers are a race, and with the third fetch of
`resilient_port` one attempt is out while two wait, so that a slot given back
must go on to somebody, and five fetches in all let a test outlive its
half-open period and meet a breaker another test has closed; one key is enough
because keys share nothing but the store, whose evictions are unrestricted; in
two ticks a record is met in its own interval, stale in the next, and expired in the
third; two days are a confirmation, and three computations
are one for each instance and one that comes after; six runs overflow a
buffer for two while a batch is out, and again after it; two deploys that name the
same version with different contents are the conflict, and one of them publishes
something else before it and so is cut off in the middle; one request is enough
for `Ranking` because requests share nothing but the copy, which is also read by
`Consult` at any time; two axes are two local days.  The proofs below lift
the bounds where they cover the property.

What each property does not say:

* `AnswersNeverGoBack` measures answers against what was *stored* when a caller
  asked.  When a write fails, the older record outlives the answer meant to replace
  it, and later callers are served it: the code accepts that (a cache that cannot
  answer is a miss).
* `ProbesArePaced` lets an instance probe again for a day after the transaction
  with what it had found failed, and after a restart; `profile_unsaved` shows that
  this is not what is written.  Instances do not share their single flight, so each
  is paced on its own.
* `CountsBoundTheStore` lets a run be both a row and counted as lost: the commit
  went through and its answer did not.  The loss may be overstated, never hidden.
* `NoRunWaitsForever` and `ShutdownCompletes` assume that every write comes back.  A
  write that hangs blocks every later flush and the shutdown; nothing bounds its
  time, and no property covers it.
* `NewestComesIntoForce` is about stores whose rows this build can all read, and
  about the highest version of each activity; a version published below it is not
  noticed by the code.
* `OnlyNarrowBellsThrow` says nothing of a definition with a bell whose sigma
  squares to 0.  There the run reaches the exception.
* `RefusalSurvivesKnowledge` fills what is missing on a day among the hours only,
  and every slot with one of four values; the theorem `NoRefusalIsOverturned` is
  about the same filling.

Runs whose property is violated, each a sentence of the repository that the
code does not keep (`PROJECT.json`, `findings`, quotes them):

| Run | Property | What happens |
|---|---|---|
| `series_day` | `AnswerBeginsToday` | a series kept across local midnight is sliced from yesterday |
| `profile_unsaved` | `LostEvidenceWaitsForTomorrow` | the save of what a probe found fails, and the next request of the same day probes again |
| `profile_midnight` | `ConfirmedOnDifferentDays` | one cached all-null answer counts on both sides of midnight |
| `source_throws` | `SourceNeverThrows` | a connection that breaks while the body is read rejects the port's promise |

Other places where the code and what is written about it differ, which the models
contain as the code has them and no run is spent on:

* A timed-out call is still on the wire when its slot is used again, so calls in
  flight are not bounded by `concurrency` (`resilient-series.port.ts:45`, 105).
* A stated `Retry-After` longer than the local maximum is cut to it
  (`failure-classification.ts:74`, `.env.example:88`).
* A test let in by a half-open breaker may outlive that period: a fetch from
  before re-opens the breaker, another test closes it, and then the first one's
  fault opens the closed breaker alone.  `OpensAfterThreshold` excepts it.
* A rule nobody declares any more makes every read of a profile a write
  (`location-profile.service.ts:226`).
* A shutdown during a flush does not flush the rest (`audit-buffer.service.ts:123`).
* `scoring-engine.ts:35-36` speaks of coverage of every feature; `checkCoverage`
  judges those of policy `fail`.
* `asked-variables.ts:31-34` asks for presence per axis; the check is over both.
* `recorded-response.ts:13-14` names another order of choosing a recording than
  the one it is chosen in.
* `gaussian.ts:13-14` says that `sigma > 0` keeps the exponent from a division by
  zero.  A sigma such as 1e-170 passes that schema and its square is 0, so at the
  centre the curve is 0/0 and `clamp01` throws, in a request, from a declaration
  that loaded without a fault.
* A second probe of one place on one day is said to be impossible
  (`openspec/specs/data-persistence/spec.md:57`), not issued
  (`location-applicability/spec.md:143-144`) or to be made at most once a day
  (`location-profile.ts:229-233`).  Two instances may each make it, one may after a
  restart, and one does at every request while saves fail (run `profile_unsaved`);
  what is impossible is a second *row*.
* `checkSupported` of `source-router.ts` is called by nobody.

### Fairness

* `SeriesCache`: continuations that are due run; a call settles, because the
  resilient port bounds attempts and their time.  No fairness on asking, on the
  clock or on eviction.
* `ResilientPort`: continuations and timers that are due run, the timer of an
  attempt that is out among them (`TimesOut`), and the clock goes on while a
  delay or an open breaker waits for it.  No fairness on fetching, nor on the
  source: it may never answer anything.
* `AuditBuffer`: the interval fires and a shutdown whose await is over goes on.
  There is **no** fairness on the writer, because nothing bounds a write
  (`database.module.ts` sets no timeout); the two liveness properties say "if
  every write comes back" instead.

* `Catalogue`: requests keep coming and the clock runs (`Consult`, `Tick`), a
  reload that is due is done, and a store that is asked again and again does not
  fail every time (strong fairness of the two selects).  No fairness on deploys.

`OutboundBudget`, `ProfileService`, `Places` and `Assessment` state no liveness:
the first never waits, and the others wait on nothing but single awaits and calls.

`CHECK_DEADLOCK FALSE` appears where the system may really stop or a bound on
work runs out: after a shutdown, after the last fetch, after the last
computation, and in `Assessment` after the one question it asks.

## 4. The proofs

All are checked by TLAPS for every value of the constants that satisfies the
named assumptions of the module (`LifetimeAssumption`, `HorizonAssumption` and
so on, which TLC evaluates on every run).

* **`SeriesCache_proofs`.** Four layers, each inductive given the ones before.
  `Inv1`: types; a caller that is not idle has asked, and awaits a call exactly
  while it waits; `running` and the live calls agree in both directions; every
  waiter's call is live and has the key it asked for.  None of these is
  inductive alone: that a waiter's call stays live needs to know that `Settle`
  resumes everyone who awaits that call, and that two live calls do not share a
  key follows only from `running` being the inverse of the calls' keys.
  `Inv2`: every record, and every call on its way to one, holds the widest
  horizon of its key, and its lifetimes follow from its stamp.  `Inv3`: a record
  was produced before it was stored, and what a live call brings is at least as
  young as what is stored under its key, which holds because no other call can
  write there meanwhile (`Inv1`).  `Inv4`: an unexpired record is as young as
  anything yet stored for its key, and so is what a call brings; a record
  that is not written because it has expired on arrival leaves only records that
  have expired too (`UnwrittenOutlives`).  From them: `TypeCorrect`,
  `FlightsAreTracked`, `OneCallEach`, `WaitersAreServed`; `AnswersCover`,
  `AgesAreHonest`; `StoreKeepsOrder`; `NobodyGoesBack`, whichever
  operations of the store fail; and `StaleRefreshes`.
* **`OutboundBudget_proofs`.** `Inv` says that every granted attempt is paid in
  every window, and that in each window what was paid since the mark, plus the
  tokens left, is within its capacity plus what was earned since; the mark is an
  arbitrary earlier moment, and without the tokens left the bound would not
  survive a refill.  The crux is that a bucket that passed the check still has a
  token at the payment: refills never take tokens away.  From it: `TypeCorrect`,
  `PaysInEveryWindow`, `RateIsSustained`; `TimeIsPaidOnce` is an action property.
* **`ResilientPort_proofs`.** `Books` ties the bulkhead together: the slots in use
  are the calls that are out, the queue holds those who wait once each, whoever
  waits for a slot has an attempt left, and only those who are held up behind a
  test have anybody to wait for.  The last two are there because a freed slot and
  a judged test move *other* fetches, and those must have been where they are
  taken from.  `TestsAreUnderWay` is inductive on top of it: the end of a test
  opens or closes the breaker, or finds that another outcome has, and calls
  everybody who waits for that very test.  From them and `CountIsHistory` (the
  count of the breaker is the history of faults): `PortIsTyped`,
  `BulkheadKeepsItsBooks`, `TestsAreMade`, `BreakerOpensOnFaults`.
* **`ProfileService_proofs`.** What an instance holds between two awaits has to be
  durable and founded as well: `DurableAt` says that whoever has found, written or
  mirrored a profile has a row behind it, `FoundedAt` that every piece of marine
  evidence held anywhere rests on an answer heard.  `Timely` adds that nothing is
  known of days to come, and `PacedAt` that each probe spent has been lost, in a save
  or by a restart, but for one at most; and that one is `Done`: about to be saved,
  or among the rows and in the mirror, so that whatever a later computation of the
  day finds, in the store or in its stead, is of that day.  From
  them: `ProfileServiceIsTyped`, `KnowledgeIsDurable`, `EvidenceIsHeard`,
  `CoverageStaysSettled`, `ProbesStayPaced`.
* **`AuditBuffer_proofs`.** `AInv` ties the buffer, the batch and the fates
  together: `Balance` (what was accepted is what is written, lost or held),
  `HeldIsBounded`, `NewestAreKept`, `HandedAreOlder` (what was handed to the
  writer is older than what is still buffered) and `FatesFollow` (a run's fate
  follows from where it is).  That no run is handed twice needs `HandedAreOlder`,
  and the refinement needs `FatesFollow`.  `CInv` says that the counters are the
  cardinalities of the sets of fates, and `RowsFollow` ties fates to rows: what is
  kept is a row, what is a row is kept or lost, so that a run missing from the store
  and from memory has been lost and counted.  From them: `AuditTypeCorrect`,
  `AuditIsBounded`, `NewestSurvive`, `HandedOnce`, `CountersBoundTheStore`, and
  `AuditImplementsLossyLog`, the refinement.
* **`Places_proofs`.** `ChosenIsFirstOfTheLargest` justifies the choice among
  candidates.  The invariant keeps, with the types, that a remembered absence
  expires no later than a negative lifetime after the source last knew nothing, for
  records stored and for those a caller still holds.  From it: `TypeCorrect`,
  `NamesAlwaysMatchTheirIds`, `KnowledgeIsNeverLost`, `AbsenceIsAlwaysRecent`.
* **`Ranking_proofs`.** For the catalogue, `CatInv`: the rows a check holds lie
  between the copy and the store, and at most one check is alive, so that a reload
  cannot undo another.  From it `CatalogueIsTyped`, `PublishedNeverChanges`,
  `SuccessMeansStored`, `NothingReachableIsLost`.  `RankingIsAReader` is the
  refinement of the catalogue by the composition, fairness included, through which
  these hold of `Ranking` (`RankingKeepsPublished`, `RankingKeepsSuccess`,
  `RankingKeepsReachable`).  `RankingInv` adds that a plan names versions the copy
  can reach, no newer than its newest, from which `AuditNamesPublishedVersions`;
  and `RankingIsTyped`.
  `OnlyTheAffectedLoseAnything` follows the merge: while the three calls are merged
  one after another, what is lost is what failed or does not fit the days that came
  first (`OneMore`, `GatherLoses`), which is what `Usable` says of all three at once
  (`LostIsUnusable`).  `GatheringInv` ties the answer to it: whatever a possible
  activity needs was asked for and has settled, and an answer stays the answer to
  what was gathered and judged.
* **`Domain_proofs`.** First facts about single operators: `DecidedStaysDecided`
  and `DenyingAChoice` (three-valued constraints), `AcceptedCurvesScore` (a curve
  its schema accepts never divides zero by zero, unless it is a bell that vanishes), `AngleIsPlausible` and
  `AngleIsSymmetric` (the derived direction), `KeptSlotsLineUp` and
  `MergedChannelsLineUp` (slicing and merging), and `RefusalStands`: the verdict of
  any tree of constraints survives knowledge, which `DecidedStaysDecided` is a step
  of.

  Then the whole path, along one argument.  `AssessmentInv` says that the catalogue
  is what the load made of its input, that a result that serves is what the mapping
  made of a response its host may give or of a recording, and that an outcome is the
  judgement of those.  From the way in, *what validation finds no fault with is
  clean* (`ResolvedIsClean`): every reader is of a known metric in a way it is served
  in, every curve is accepted and numeric, every share is a natural number, bounds are
  in order.  From the other way in, *what a source serves is sound*
  (`ServedIsSound`): all metrics asked for, with a number or nothing for every slot of
  the axis, and cutting and merging keep it so.  The two meet in `ValueIsNumber`:
  what a clean reader reads of a sound series is a number or nothing.  None of the
  properties follows from one side alone.  From both:
  `OnlyNarrowBellsMayThrow`, `WhatIsReadArrives`, `ScaleSurvivesTheSource` (of
  recordings too: neither choosing nor moving one in time touches its numbers,
  `SameArrays`),
  `NoRefusalIsOverturned` (filling what is missing changes no window and no value that
  was there, so every leaf that was decided stays decided; `RefusalStands` does the
  rest) and `ScoreIsExplained` (each share loses less than one part of `One`, and the
  losses add up along the features; outside the bounds the score is a bound, inside
  it is the combined one, rounded).

  They hold for every load the schemas accept, every answer that parses, all
  recordings and bindings.  What is assumed: `AssessmentAssumption` (as above, and
  that the profile's threshold and neutral score are scores), `DeclarationsAssumption`
  (`None` is no reason), `NormalizersAssumption` (`None` and `NaN` are not numbers,
  `One` and `Underflow` are positive) and `AbsenceAssumption` (`None` is no list and no channel).

  `ShortAnswersArePrefixes` has a hypothesis, `SourcesKeepTheCalendar`: the stamps
  of every axis run in order from one first day on without a gap, and an axis of
  days, where there is one, reaches as far as the hours.  Hosts see to that and no
  line of the code checks it, so the property is not true of every answer that
  parses: where the axis of days misses one, the hours of that day are dropped from
  the middle.  `MCAssessment` has TLC check that the answers and recordings of the
  run meet it (`AnswersKeepTheCalendar`), answers whose hours end a day early and
  answers without a slot among them.  The argument: on the calendar the dates of an
  axis are an interval (`CalendarDates`), so cutting to some days is cutting after
  one date on both axes (`CutIsUpTo`), whichever axis the days are read off; that
  commutes with the merge (`MergeOfTheCut`); what is left is the beginning of each
  channel (`CutBegins`), derived ones included (`ComputedBegins`); a day both series
  have has the same window in both (`SameWindows`), and every reader reads the same
  there (`ReadingBegins`), so the same is said of it (`JudgementBegins`).

Only model-checked: every liveness property, because fairness and `ENABLED` are out
of the prover's reach.

## 5. Not modelled

* The API surface (`modules/api`, `main.ts`, `bootstrap.ts`): GraphQL types,
  resolvers, health checks and the throttler of the framework, input and output
  around `RankingService`.
* Configuration and wiring: read once at startup; the values are `CONSTANTS`.
* Metrics, trace and logging: read by nobody inside the system, except the counts
  of the audit buffer, which are modelled.
* Of the source adapters, the geocoding source (names to candidates, which
  `Places` takes as given) and the reading of fixture files.
* Tools of the developer: the recorder of fixtures and the conformance suites,
  which are tests.
* Of the profiles, the heuristic that guesses a snow season from latitude and
  elevation, and the arithmetic of the archive behind it: `ProfileService`
  takes its verdict as given.
* Of the catalogue, publishing reference data and demonstration places, which are
  upserts nothing modelled here reads.
* Floating point: tokens, scores and quantities are integers; of its effects only
  the square that vanishes is there.

## 6. What may follow

1. An abstract specification of the cached port, *an answer is some series the
   source produced, no older than the tolerated age*, which `SeriesCache`
   implements and `ProfileService` and `Ranking` use.
2. A catalogue that drops a rule between two runs of `ProfileService`.
3. A bound on the time of a write to the audit store, once the code has one.
4. The order of a day (`RankDay`): sorting is left to the library here.
