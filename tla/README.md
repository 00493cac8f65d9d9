# A TLA+ model of eksp

`eksp` is an EKS platform kept in one repository. Most of it is declarative:
Terraform, ArgoCD applications, manifests, documents. The programs in it are
small. **costwatch** is a dashboard that sells AWS Cost Explorer data to a
browser through a cache, because every Cost Explorer request is billed.
**sample-api** is the workload used for scaling and rollout demonstrations; its
point is how it dies. CI builds, publishes and promotes both. This directory
models the parts with state, concurrency or arithmetic that a test hardly
reaches. Paths below are relative to the repository; `costs/` abbreviates
`apps/costwatch/backend/internal/costs/`.

## Inventory

| Part | State | Operations | Interacts with |
|---|---|---|---|
| Cost cache, `costs/cache.go` | `entries`, `inflight`, hit and miss counters, one mutex | `do`, `sweepLocked`, `stats` | handler goroutines, the upstream closure `fn`, `/api/health` |
| Cost service and handlers, `costs/service.go`, `costs/summary.go`, `internal/api/handlers.go` | none beyond the cache; a fetch's pages while it runs | `Costs`, `Summary`, `normalize`, page loops, error to status | the cache, Cost Explorer, the browser |
| Summary and query windows, the same files | none: a function of the clock | `fetchSummary`, `fetchCosts` | Cost Explorer or the demo client |
| Totals and movers, `costs/summary.go` | the maps of `byService` | `fetchSummary`, `byService` | paged results, the Overview tiles |
| Aggregation, `costs/aggregate.go` | the series under construction | `aggregate` | paged results, the charts |
| Demo client, `costs/demo.go` | none (seeded formula) | `GetCostAndUsage`, `GetCostForecast` | the service |
| costwatch process, `cmd/costwatch/main.go` | the signal, the server, requests in flight | start, serve, shut down | the kubelet |
| Front end, `apps/costwatch/frontend/src/` | filters, fetches, the answer shown; colour slots of the session | picks, the fetching effect, CSV export, `seriesColor` | the API |
| sample-api drain, `apps/sample-api/main.go` | `ready`, the listener, requests in flight | `shutdown`, `/readyz` | kubelet, endpoints, load balancer |
| sample-api requests, same file | a chain's goroutines and results; the metrics | `/`, `/work`, `/chain`, `instrument` | the worker, the mesh, Prometheus |
| Drift detection, `.github/workflows/drift.yml` | queued and running runs; open issues | plan, list, create, close | GitHub, Terraform state, `terraform-apply.yml` |
| App publish and promotion, `.github/workflows/app.yml` | image tags, promotion PRs | build, push, open a PR | ECR, GitHub, ArgoCD |
| GitOps, Terraform, scripts, load tests | configuration only | none of their own | external controllers |

The browser asks the handlers; the handlers ask the cache; the cache runs the
service's fetch, which makes several calls to Cost Explorer (or the demo). The two
processes live under the same kubelet rules but shut down differently. The drift
workflow shares Terraform state with `terraform-apply.yml` and nothing else.

What is hard, and what would be correct:

- **The cache** is three critical sections and several unlocked steps run by
  any number of goroutines. A key must be bought once at a time, a fresh value
  never bought again, an error never stored, a failed flight never left behind,
  nobody answered from the past, and everyone answered in the end. The leader's
  context, its panic, and the cap of the map are where it could go wrong.
- **The service** buys an answer in pages and, for the summary, in three reports.
  Half an answer must never be shown or cached; two questions that normalise alike
  share an answer, two that do not never do; the status must blame the right party
  even when the error belongs to another request's flight.
- **The windows** are calendar arithmetic: month lengths, leap years, the first
  and the last day of a month.
- **Totals, movers and aggregation** add up services and groups that come and go, over
  maps in random order and sorts that are not stable, then cut or fold the tail.
- **Stopping** is several clocks of several parties: probe, propagation,
  `SHUTDOWN_DELAY`, the timeout of `Shutdown`, the grace period; in costwatch it is also a race
  between main and the goroutine that serves.
- **The chain** waits for goroutines on an unbuffered channel; nothing but the client's
  timeout and the context ends a call. No goroutine may be left, 200 needs all calls,
  and metrics must survive panics.
- **The front end** gets answers out of order, and its colours outlive its views.
- **Drift detection** lists, decides and creates in separate calls, next to runs, people and
  applies that do what they like.

`PROJECT.json` lists every hazard at its line with the properties that watch it, and
says of an uncovered one why.

## Modules

| Module | What it is |
|---|---|
| `CostCache` | `cache.do` and `sweepLocked`, one action per critical section or externally visible step |
| `CacheRegister` | what the cache promises: one atomic register per key |
| `CostCacheRefinement` | the refinement mapping from `CostCache` to `CacheRegister` |
| `CostService` | handlers, `normalize`, keys, page loops and statuses, composed with `CostCache`, which it EXTENDS |
| `CostServiceProofs` | theorems about `CostCache` and its refinement, then about `CostService` |
| `CostWindows` | the windows asked of Cost Explorer on every day of a calendar, and how the demo cuts a month |
| `CostWindowsProofs` | the calendar in lemmas, and theorems about the windows |
| `SummaryTotals` | `byService`, the two totals, the top movers |
| `SeriesAggregate` | `aggregate`, period by period, then sort and fold |
| `AggregationProofs` | a theory of finite sums, and theorems about `SeriesAggregate` and `SummaryTotals` |
| `CostwatchProcess` | main and the serving goroutine of costwatch, from start to exit |
| `CostwatchProcessProofs` | theorem about `CostwatchProcess` |
| `SampleDrain` | SIGTERM to exit of one sample-api pod, with kubelet and balancer |
| `SampleDrainProofs` | theorems about `SampleDrain` |
| `ChainFanout` | sample-api's handlers inside `instrument`, and the goroutines of `/chain` |
| `ChainFanoutProofs` | theorems about `ChainFanout` |
| `ExploreView` | the Explore view's filters, effect, `live` flag and CSV export |
| `SeriesColors` | the session's map from series keys to colour slots |
| `Dashboard` | `ExploreView` and `SeriesColors` composed: what a commit draws is coloured |
| `DashboardProofs` | theorems about `Dashboard` |
| `DriftIssue` | `drift.yml`: runs, plans, listing and deciding on issues, against applies and people |
| `DriftIssueProofs` | theorem about `DriftIssue` |
| `MC*` | constants and symmetry for TLC |

A definition named as a mutant by its comment (`FreshTooShort`, `WakeEarly`, ...)
is a plausible wrong version of the definition after it. No specification uses
one; `PROJECT.json` names the property that breaks when it takes the place of
the right one.

### CostCache

A request is one call of `do`. `pc` says where it is:

    called -> hit -> done                         lookup found a fresh entry
    called -> waiting -> done                     joined a registered flight
    called -> leading -> fetching -> closing -> storing -> done
    called -> direct -> done                      TTL <= 0

An arrow is one atomic step. The boundaries are those another goroutine can see:
a release of the mutex, an atomic counter, the return of `fn`, `close(done)`.
`Lead`, for instance, is lines 67-69 together with the lookups that failed
before it in the same critical section, and the counter of line 70 is a step of
its own. `outcome[r]` is `val` and `err` of the `inflightCall` that `r`
allocates (and the `e.val` a hit captured); `call[r]` is the flight it leads or
joined. The data is abstracted to the instant it was read from Cost Explorer, so
"older" and "the same purchase" can be said and nothing else. `fn` returns data,
fails, is cancelled (only when the client of the request that runs it is gone,
for it is a closure over that request's context), or panics when `FnMayPanic`.
`sweepLocked` is `Swept`, which allows any tie between equal expiries since Go's
map order is random. Whether `fn` reads the clock at its start or its end does not
matter to the properties, only the order of purchases: the read is the step that
returns. `floor` is a history variable: the newest data of a key that anyone had
been answered with when the request began.

### CostService

`CostCache` has one step in which `fn` returns. Here `fn` is taken apart: `UsagePage` is one
call of `GetCostAndUsage` in a page loop (`fetchCosts`, `byService`), `UsageFails` the return of
its error, `ForecastAnswers` the summary's third call, whose error `fetchSummary` swallows. Other
goroutines, the clock and leaving clients interleave between them. The last call of a fetch is
also `CostCache`'s step `FetchReturns` (or `DirectReturns` with TTL 0): the composition
*is* the cache with a slower `fn`, by the way it is written. `Normal`
is `normalize`, `Key` the string each method builds. A page is known by its place in the answer; adding
it up is the business of `SummaryTotals` and `SeriesAggregate`. `filler`, `source` and `earlier` are
history: whose fetch an answer came from, and who had been answered when a request came.

An error is why a call failed and what its text speaks of. The causes are the missing opt-in (hourly or
`RESOURCE_ID` questions only), the credentials, anything else upstream (throttling, a 5xx, a rejected window, the
network), and the context of a client that has left. costwatch never sees the cause: it looks for words in the
text, and `Errors` is any set of pairs of a cause and a set of `Words`, so a text may speak of several of them, or
of none, whatever the cause. `StatusOf` is `mapCEError` followed by `writeServiceError`, in the
order of the tests: *hourly* gives 409, then *unsupported* 400, then credentials 403, anything else 502.

### CostWindows, SummaryTotals, SeriesAggregate

In `CostWindows` a day is a number and a window is half open; Go's `time.Date`
with its overflow rules is the operator `Date`. Cost Explorer's hourly windows
are not dates and are left out. `DemoPeriods` is the monthly loop of `demo.go`.

`SummaryTotals` reads the rows of both reports one at a time (period and page boundaries make
no difference to the loop), then ranges over the maps in any order and chooses any result a
sort that is not stable may leave (`Orders`).

`SeriesAggregate` takes a period at a time and a group at a time, as the nested
loops do, over every well-formed input: a group occurs at most once in a period.
`reported` is history, and is the reference the result is compared with. Amounts are
integers in both, so floating-point rounding is not modelled, and rows skipped for
missing fields are left out.

### CostwatchProcess, SampleDrain

`SampleDrain` counts seconds from SIGTERM. `Sigterm`, `CloseListener`,
`ExitDrained` and `ExitForced` are `shutdown`; `Probe` is the kubelet's readiness
probe in every phase relative to SIGTERM; `Deregister` may come at any time after
SIGTERM (deletion of the pod) and must come `Propagation` seconds after the
probe has failed often enough. Time cannot pass an event that is due (`Overdue`),
except that timers of the process may fire `Slack` late. `Send` and `Deregister`
model external parties. SIGKILL is not an action: `ExitsBeforeKill` says it
would find the process gone. The clocks of the deployment must fit together, and the module says how in
two assumptions with the places that claim it: `GraceAssumption` (the delay and the timeout, each timer
`Slack` late, end before the grace period) and `ProbeAssumption` (failing probes and propagation end before
the delay). The arithmetic that the code gives in words, *terminationGracePeriodSeconds > SHUTDOWN_DELAY + ALB deregistration
delay* (`sample-api/main.go:9-10`), is not what is assumed: with the deployment's numbers it would be 45 > 15 + 30, which is
false. What the stop itself needs is the 25 s of `Shutdown` in that place.

`CostwatchProcess` has no delay before it closes its listener, so refused requests are not
its subject; what it has is a goroutine that may start to listen, fail or return at any
point relative to main, and a signal that may come before main asked for it. `ListenerBreaks` is an error of
`ListenAndServe` other than `ErrServerClosed`, before it listens or while requests are in flight; `Fatal` is the
`os.Exit(1)` after it, which may come when main is already in `Shutdown`. `SampleDrain` has the same two steps
(`ListenerBreaks`, `Die`).

### ChainFanout

A request is one call of `instrument`. `Chain` starts the goroutines, `CallReturns` is the
return of `Do` with the write to the goroutine's own element of `results`, `Signal` the
rendezvous on the unbuffered channel, `Respond` the handler after its loop, `Count` and
`Leave` the deferred functions. The calls of a request start at once, so they share one deadline.
A call that the worker answers takes at least the work asked for; it may fail at any moment. The
context of the request ends its calls (`gone`), `/work` does not look at it. `CallPanics` is the
`nil` request after `http.NewRequest` failed on a malformed `WORKER_URL`: the panic is in a goroutine
of its own, which the recovery in `instrument` does not cover, and ends the process.

### ExploreView, SeriesColors, Dashboard

A pick, the render that commits its filters and the effect of that commit are one step, because React flushes
the effects of a click before it returns to the event loop. What is set inside the effect (`setSeries(null)`,
`setError(null)`), like what an answer sets, is only `queued`: a later `Render` commits it to `shown`. Between the
two the screen has the new filters with the old answer, and its csv button works, so `ExportCsv` may come there
(`early`). `fetches` is every fetch of the session with the `live` flag its closure holds; `series` and `error` are the
fetches they are the answers of. `Return` after `Leave` is a fresh mount. In `Dashboard`, `Draw` is what a commit adds
to the screen: a chart when there is an answer, no error and no table (`ChartOnScreen`), whether a render, a pick or the toggle
brings it there; its keys ask `seriesColor` for a colour in order. `DrawElsewhere` is what
the other views draw, for the map is a module variable that outlives them.

### DriftIssue

A `job` is a run and goes through the matrix one environment at a time (`max-parallel: 1`, and no
`fail-fast`). `Plan`, `List` and `Close`/`Create`/`Leave` are separate steps with the world in
between; `ScriptFails` is any API call that throws. The plan runs without a lock, so beside an apply
half way it may see either state. `Close` closes one issue with the title, the one `find` has found
(`Without`), and people close one at a time. `Killed` are exit codes that are none of terraform's.

## Runs

| Run | Bounds | Question |
|---|---|---|
| `cache` | 3 requests, 3 keys, cap 2, TTL 2, clock to 3, panics | coalescing, registry, freshness, monotonic answers, agreement on a flight, the cap and eviction, and the register refinement |
| `cache_uncached` | 3 requests, 2 keys, TTL 0, clock to 2, panics | with the cache off nobody shares a flight or suffers from another's client |
| `service` | 2 requests, 7 questions, 2 pages a report, TTL 1, clock to 1, panics, no opt-in, 6 errors | right, whole answers; bought once per TTL; no error kept; which status each is told, its own error or another's; every question answered |
| `cost_windows` | every day of four years including a leap year | which windows degenerate, and when exactly |
| `same_window_last_month` | as `cost_windows` | a statement of the repository that the code does not meet |
| `aggregate` | 3 groups, amounts -1 and 2, 3 periods, `maxGroups` 1 | aligned, exact, conserved, capped |
| `summary_totals` | 3 services, amounts -3, 1, 2, 2 rows a report, 2 movers | tiles and movers exact; the largest changes shown |
| `sample_drain` | clocks of `deployment-api.yaml`, requests of 5 s and 40 s | no request refused; who is cut; the process is gone before SIGKILL; every request ends; a listener that breaks at any time |
| `costwatch_process` | 3 requests, timeout 10 s, grace 30 s | who is cut, with which exit code, and that the process is gone before SIGKILL; a listener that breaks at any time |
| `chain_fanout` | 2 requests, 0 or 3 calls clamped to 1 or 2, work of 0 or 9 s clamped to 2 s, timeout 1 s, any `WORKER_URL` | results, goroutines, time limits, metrics; every request ends |
| `dashboard` | 3 fetches, the ranges of the menus, 4 keys for 3 slots, charts of 2 | what is shown, asked, exported and coloured; the skeleton goes away |
| `drift` | 2 environments, 2 runs at once if they could, 1 foreign issue, one foreign exit code | one issue per environment; what lasts is reported |

Why the bounds suffice.

- *Cache.* Three requests are a leader, a waiter, and one that arrives between
  `close(done)` and the store or begins after either was answered; a fourth repeats a role.
  Keys interact only through the cap, and three keys for two places give
  eviction a choice. The clock passes every expiry boundary: stored, one before expiry, at
  expiry, after.
- *Service.* A question is bought once and then asked again, or asked twice at once; two pages are
  a first and a last one, and the summary has two reports, so a failure can come before, between and after
  successes. `MCQuestions` has the summary, two spellings of one question, one that differs in its
  grouping only, one clamped, both kinds that need the opt-in, and both refusals. `MCErrors` has an error of each cause,
  texts that are empty, to the point, about two things, and about the wrong one. The map has room for every
  key (cap 5; a cap below the number of keys in use is the subject of `cache`), which `BoughtOncePerTTL`
  needs and says. The service is run with the cache on; that a request may also fetch for itself
  (TTL 0, the second half of `FnReturns`) is run for the cache alone.
- *Arithmetic.* Four years contain every pair of consecutive month lengths. One group more than `maxGroups`
  folds and two more make a sum; with three periods a group can be absent before, between and after. Two
  rows can be of one service or of two, three services for two movers cut one, and -3 against 1 and 2
  tells absolute from signed order.
- *Stopping.* The real values, in seconds. Requests interact only through "is any in flight".
- *Chain.* Two calls are one that fails and one that does not; the works lie below and above the timeout,
  and above the clamp, which lets 2 s through against a timeout of 1 s, as 5 s against 2 s in the code.
- *Dashboard.* Three fetches, each with a queued clear and a queued answer, can be overtaken by the next and the one
  after; four keys for three slots pass the wrap.
- *Drift.* Two environments show that one does not hide the other, two slots that two runs could meet
  without the concurrency group.

The runs that set `CHECK_DEADLOCK FALSE` do so because a request is used once, clocks are bounded and
functions return: the models do stop. That nobody waits for ever is what the liveness properties say.
Symmetry is used in `cache`, `cache_uncached` and `costwatch_process` only, whose properties are safety properties.

**Fairness**, and why the code justifies it:

- `service` assumes weak fairness of `Serve(r)`, the steps of a goroutine inside a handler, for its steps
  other than a panic: the Go scheduler runs a runnable goroutine, a mutex in
  starvation mode is granted in order, and the SDK's HTTP calls have bounded retries. Clients need not come, stay or
  leave and the clock need not move. `EveryQuestionAnswered` then says that each is answered or waits on a flight
  whose `fn` panicked. The exception is real: `net/http` recovers the panic, nothing in `do` is deferred,
  and the key stays wedged until a restart.
- `sample_drain` assumes that the clock advances, timers fire, probes come, an unready pod is deregistered,
  handlers respond, main runs on and the goroutine of a listener that broke ends the process (`Die`); neither SIGTERM nor a
  broken listener is assumed.
- `chain_fanout` assumes that goroutines run and the clock advances. That the worker answers is *not*
  assumed: the client's timeout is what ends a call.
- `dashboard` assumes that a fetch settles and that React renders what is queued; nothing of the user.
- `drift` assumes that the schedule goes on and runners run, and (strong fairness) that the plan, the list
  and the last step of each environment get through now and then, however often they fail.

## What the checks show

- Coalescing is sound. The window between `close(done)` and the second critical
  section does no harm, because the flight is still registered: a latecomer joins
  a finished flight and is answered at once. Deregistering first (mutant
  `CloseAndForget`) lets a later request be answered with older data.
- The cache is linearisable: it implements one register per key, in which a
  leader and its waiters decide in the step where `fn` returns.
- A disconnecting client fails others: everyone on the flight of a leader whose
  client is gone may be answered "cancelled", usually a 502. `FlightAgreement` and `StatusBlamesRightly` say
  this is the only way to see a cancellation. But an error is told to that flight only: whoever asks after it was
  reported to anyone gets another fetch (`FailuresNotKept`).
- The missing opt-in is told as 409 whenever the text speaks of hourly data, whatever else it speaks of: the test for it
  comes first, and with the next test before it (mutant) an error that speaks of an unsupported query hides it.
  `StatusBlamesRightly` claims no more than the texts carry, see below.
- The drain needs `Propagation < SHUTDOWN_DELAY - period * failures`: with the
  deployment's 15 s, 5 s and 2, the balancer may hear up to 4 s after the second
  failed probe. With 5 s TLC finds a request refused at the instant the listener
  closes. The 4 s are an assumption about the environment.
- costwatch's goroutine can neither outlive main's `Shutdown` nor start to listen after it. A request is cut by
  main, with exit code 0, after the whole timeout; or with 1 because the listener broke, which may happen during
  `Shutdown` too when the error came just before `Shutdown` began.
- Of a chain nothing is left when its handler returns, and work that outlasts the client's timeout never
  succeeds: `/chain?ms=` above 2000 always answers 502, although the clamp allows 5000.
- The `live` flag is enough: once the queued updates of a pick are rendered, an answer that was overtaken is never shown.
- Runs of the drift workflow never duplicate an issue, thanks to the concurrency group alone.

One statement of the repository is refuted by a run: *"MTD vs same window last month"*
(`costs/types.go:69`). The comparison window is as many days as have passed this month, counted from the
first of last month, and is not clipped: on 30 and 31 March (after a leap February, 31 March only) it
runs into March. `SummaryWindows` shows that no other day is affected.

Met while modelling, and no property of a run:

- `internal/api/handlers_test.go:39` fails with *"summary looks empty"* on the first of a month: the
  month-to-date window is empty, the demo answers with nothing. (Cost Explorer itself rejects an empty
  window.) `EmptyOnlyOnTheFirst` shows that it is no other day.
- `costs/summary.go:58` skips the forecast *"when the API has nothing to extrapolate"*; line 68 skips it on every
  error, also a cancelled context, and the summary without it is cached for a TTL.
- `docs/COST.md:78-79` counts one request per query shape; a summary makes three.
- `docs/COST.md:73` calls the delta tile a tripwire; `summary.go:54` leaves it 0 when last month's window cost nothing.
- `costs/demo.go:19` promises the same dashboard for the same inputs; `summary.go:48` adds floats up in map order.
- `sample-api/main.go:150` gives `instrument` the *panic recovery*; a panic in a chain's goroutine
  (line 243, a malformed `WORKER_URL`) is outside it and ends the process (`CallPanics`, `EveryRequestLeaves`).
- `theme.ts:36-37` has a *fixed order, never cycled* and the ninth series folded by the server; line 53 takes the slot
  modulo eight and `service.go:16` folds after twelve groups. `ColorFollowsEntity` says what does hold.
- `internal/api/handlers.go:53` knows *the account state* as the cause of a 409, but takes any text with *hourly* in
  it for that, also of a throttled call; line 59 gives a 400 to an error of Cost Explorer whose text says
  *unsupported*; an opt-in error that does not speak of hours is a 502. The run has texts of the first two kinds;
  `StatusBlamesRightly` is stated so that it is true of all.
- `Resources.tsx:34` titles every error, a 502 as well, *"Resource-level data isn't enabled"*.
- `Explore.tsx:62` names a file after the filters of the commit on screen and fills it from its series. Between the
  commit of a pick and the render that clears the old answer the two disagree; `ShownAsAsked` excepts files exported
  there (`early`).
- `drift.yml:6` closes an issue on *exit 0*; line 63 fails the job on 1 only, so a plan that was killed (137, say) counts as
  clean and closes the issue. `LastingDriftReported` therefore asks that no plan is killed any more.

## What is proved

Every theorem holds for every value of the constants that satisfies the named assumptions of its module;
TLC evaluates these assumptions on each run. Each follows from an inductive invariant that was first checked
by TLC on the instance of the corresponding run. Where a theorem needs more than the module's assumptions,
it says so in an `ASSUME` of its own.

### The cache (`CostServiceProofs`)

From `CacheAssumption` alone: naturals, a cap of at least one, and the two placeholder values outside their sets.

- `TypeCorrect`: `TypeOK`. It carries that a request past `idle` has a key.
- `RegistryCorrect`: `RegistryExact`, which is inductive together with `TypeOK`. A
  leader registers itself when nothing is registered for its key and only it
  removes that entry.
- `SingleFlightCorrect`: follows from `RegistryExact`, since the registry is a
  function of the key.
- `NoPurchaseWhileFreshCorrect`: inductive relative to `RegistryExact`. A flight starts
  only when the entry has expired; only the flight itself stores one for its key,
  and it ends in the same step.
- `CapCorrect`: `CapHolds` is not inductive by itself, for a cardinality says nothing of
  an infinite set; `CapInv` adds that the domain is finite.
- `FreshEntriesKeptCorrect`: the action property, from `CapInv`, `TypeOK` and the lemma
  `OnlyStoreOkWrites`; `FlightsAreCached` excludes a store with TTL 0.
- `FlightAgreementCorrect`: from `FlightInv`, which ties the outcome of a flight to the
  place of its leader, a closed channel to a decided outcome, and a waiter to a leader.
- `OwnFateWhenOffCorrect`: from `OffInv`, that with TTL 0 nobody is at a place of a shared flight.
- `MonotonicReadsCorrect`: what a request is committed to (`decided`) is fixed long before it is
  returned, so the invariant is about commitments. `NewestInv` says that nobody is committed to newer data of a key
  than the flight that is landing with it or, when none is, than its entry; `FloorInv`, that
  the floor of a request is data somebody is committed to. A flight that lands is newer than both.
- `ImplementsRegisterCorrect`: every step of the cache is one of `CacheRegister` under the mapping, or a
  stutter. `FetchReturns` decides for the leader and all its waiters at once; `Hit` and `Join` of a
  finished flight read the register, which `NewestInv` makes exact; all other steps leave `decided` alone.

### The service (`CostServiceProofs`)

From `CacheAssumption`, `ServiceAssumption` and `KeysAssumption` (`Keys` holds the key of every question).

- The lemma `ServiceIsOfTheCache`, `ServiceSpec => Spec`, carries every theorem about the cache over to the service.
  It holds by the shape of the composition and is no result about the handlers.
- `OnlyWholeAnswersCorrect`, `AnswersMatchQuestionCorrect` and `StatusBlamesRightlyCorrect`: from `ServiceInv`.
  `FetchInv` ties what was bought to the cursor of the page loops, so that a fetch that succeeds has every page;
  `SourceInv` says whose fetch an answer, an entry or an outcome came from, and that it asked for the same key;
  `StatusInv` ties a status to the failure of that fetch. The statuses are proved for every set of errors, with any
  texts.
- `FailuresNotKeptCorrect`: from `EarlierInv`, that nobody who had been answered when a request came leads its flight: a
  flight is joined while it is registered, and then its leader has not returned. Only a hit has another source, and a hit is
  no error.
- `BoughtOncePerTTLCorrect`, for finitely many keys and a map with room for them all: from `SalesInv`, that the data
  of a successful flight is about to be stored, or served until it is a TTL old. Without room it is false
  (eviction), which is why the hypothesis is there.

### The sums (`AggregationProofs`)

From `AggregateAssumption` and `TotalsAssumption` alone: the sets of groups and services may be infinite, amounts are any
integers. The two modules share one theory of finite sums, which is why their theorems share a module.

The library adds a function up by a recursive choice of elements, and there is no induction to say what that yields. `Part` is
the partial sums as one function on the subsets of the domain. `PartExists` shows that it exists: were there a number of
elements up to which it cannot be built, there would be a least one, and `OneMoreIndex` builds it for one element more. `PartTakesOff`
shows, from a counterexample of least size, that any element may be taken off first. What is used later are its consequences: a sum ignores zeros (`SumOfZeros`) and the order in which
it is taken (`SumRenamed`), can be split (`SumInParts`), taken difference by difference (`SumOfDifferences`), and moves with
one of its terms (`SumChanged`).

- `GroupsExactCorrect`, `CostConservedCorrect` and `LargestKeepTheirNamesCorrect`: from `AggregateInv`. Until `aggregate`
  returns, there is one group for each key reported, and each is `UpToDate`: its values are what its key has cost, up to the
  last period that reported it, and its total is their sum. `Finish` then takes three steps, a lemma for each: the trailing
  zeros make every group complete (`FilledLineup`), the sort is a permutation, because a group's rank is a place and no two
  groups have the same (`RanksAreThePlaces`, `SortedPermutes`), and the fold keeps the front and adds up the rest
  (`FoldShape`, `FoldSums`).
- `MoversExplainTheChangeCorrect` and `LargestChangesShownCorrect`: from `TotalsInv`. The map of a report holds for
  each service the sum over its rows so far (`MapExact`), and what is summed and what is left of a range make up the
  map (`Tallied`). Any order that the unstable sort may leave lists each mover once, larger changes first, and a cut
  keeps its front (`OrderOfMovers`, `CutShape`), so none is left out that is larger than one that is shown.

### The windows (`CostWindowsProofs`)

For every first and last year and every set of ranges. `DaysBeforeYear` and `DaysBeforeMonth` are taken apart
once, in `YearLength`, `MonthInYear`, `MonthsInOrder` and `MonthLength`; `Today` says what they give for today
and the months around it, and nothing later looks inside the calendar. The invariant is that
today is a date and that the windows on record are those of a request that came today.

- `SummaryWindowsCorrect`, `EmptyOnlyOnTheFirstCorrect`.
- `DemoTilesWindowCorrect`: every window asked for is `Usual` (it starts in a month not more than a year back, where that
  month starts if it is empty, and ends with this one at the latest), and the demo tiles a usual window.
- `MonthlyPointsCorrect`: the months touched by the window are an interval, and months that differ begin on
  different days.

### The two processes (`SampleDrainProofs`, `CostwatchProcessProofs`)

- `OrderlyStopCorrect`, one in each: `StopInv` bounds the clock by the timer that main waits for, at each place of
  main, and says that only a listener that broke ends the process in another way. The attempt showed that the
  assumption of `CostwatchProcess` has to allow for two late timers, the signal's and the timeout's.
- `TrafficStopsFirstCorrect`: `ProbeClock` bounds the next probe by the failures counted, and, once they are enough,
  the deregistration; `Routing` says that the balancer sends no longer than that. Together with
  `ProbeAssumption`, it has stopped when the delay ends, unless the listener broke.

### The chain (`ChainFanoutProofs`)

From `FanoutInv`: a handler has received as many signals as goroutines have exited (`Exited`), whoever has returned
has written its result, and the clock is bounded by the deadline of a handler that is still at work.

- `OkOnlyIfAllOkCorrect`, `NoGoroutineLeftCorrect` (as many signals as calls, so none is left: `AllGone`),
  `HandlersEndInTimeCorrect`, for any numbers of calls.
- `MetricsExactCorrect`, for finitely many requests, since the gauge is a cardinality.

### The front end (`DashboardProofs`)

- `ShownAsAskedCorrect` and `OnlyOfferedRangesCorrect`: from `ViewInv`. Only the last fetch is live, it asks for
  what the filters say, and what is queued came from a live fetch; what is shown is what was queued at the last render.
- `ColorFollowsEntityCorrect`: the action property, for charts of any length. A chart is a fold of `Assign`;
  `FoldExists` builds the function that the library's fold chooses, and `ChartColours` carries `Coloured` (the
  colours there are kept, distinct while the slots last) through it.

### Drift detection (`DriftIssueProofs`)

- `AtMostOneIssueCorrect`, for any matrix, while everything that may be open fits on the page that the script
  lists (`MaxOthers + Len(Matrix) <= PageSize`). Without that hypothesis an open issue can hide behind
  the page and be opened again. `IssueInv` says that only one job is past `Plan`, that what it has
  listed is still so, and that no more is open than the page holds.

### Model-checked only

- The liveness properties (`EveryQuestionAnswered`, `EveryRequestAnswered`, `EveryRequestLeaves`,
  `LoadingEnds`, `LastingDriftReported`): fairness and ENABLED are beyond the proof system.

## Plan

The modules of the plan are written. Every safety invariant and every action property of a passing run is stated by a
theorem, and so is the refinement. What is left to TLC is liveness, for the reason given above.

## Not watched

- A waiter that ignores its own context (`cache.go:63`) is modelled, and answered late; the code promises nothing to
  a client that has left, so no property tells its answer from another.
- A plan that is killed (`drift.yml:63`) is excepted from `LastingDriftReported`, see above.

## Not modelled

- App publish and promotion (`app.yml`) are a straight line of steps; what a cancelled or repeated run
  does is decided by ECR's immutable tags, GitHub's merge and the pull-request action, none of which is in
  this repository.
- GitOps manifests, Terraform, scripts, load tests and documents configure external
  controllers and have no steps of their own; the values that matter to the drain are
  constants of `SampleDrain`.
- Start-up, flags, embedded assets, static files, logging, `/api/health` and the layout of the views are plain input
  and output. Overview and Resources fetch once when they mount, which is `ExploreView` without picks.
- Hourly windows, currency units, floating-point rounding and the value of `DeltaPct` are left out of the
  windows, the totals and the aggregation; the demo's amounts are a seeded formula and are data.
