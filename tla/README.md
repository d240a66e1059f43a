# TLA+ model of go-health-dashboard

The dashboard is a Go library that an application embeds next to a health
probe (`go-healthcheck`). It shows the probe's answers as an HTML page, keeps
the page current over server-sent events (SSE), announces changes by webhook,
remembers a little history, and answers container health checks about itself.
Two programs come with it: a federation hub and an example. This directory
models the part of it that decides something: which goroutine may do what when,
what is remembered, what is shown, what is admitted, how a process starts and
ends. TLC checks the models on small instances; TLAPS proves the theorems that
matter most for every value of the constants.

All source references below are relative to `src/`.

## How to run

    tlc -workers 2 -config MCSSEPush_Shutdown.cfg MCSSEPush   # one run
    tlapm SSEPushProofs.tla                                   # one proof module

`PROJECT.json` lists every run, the theorems, the hazards, the mutations that
each property is known to detect, and for every definition the source lines it
models. No run takes longer than about three minutes on two workers, no proof
module longer than about one and a half.

## The system

### Components and the state they keep

| Component | Source | State | Operations |
|---|---|---|---|
| Dashboard lifecycle | `dashboard.go` | `push` (atomic pointer to the published pusher), `started` (atomic bool) | `New`, `Start`, `Shutdown`, `Handler`s |
| Pusher | `pusher.go` | `lastStatus`, `lastFingerprint`, `ticksSinceBroadcast` (loop-local), `lastBroadcast`, `connections` (atomics), go-sse broadcaster, `cancel` | push loop (`start`, `broadcast`, `shouldBroadcast`), SSE handler (`sseHandler`, `atCapacity`) |
| Health check | `dashboard.go` | none of its own | `HealthCheck`, `SubscriberCount`, … |
| Webhook notifier | `webhook.go` | last announced status and fingerprint (mutex), `inFlight` (atomic) | `fireOnChange`, `post` |
| Rate limiter | `ratelimit.go` | `tokens`, `last` (mutex) | `Allow`, `retryAfter`, `applyRateLimit` |
| Trend ring | `history.go`, `trend.go` | circular buffer of samples (mutex) | `record`, `snapshot`, `transitions`, page, trend and export handlers |
| Evidence log | `evidence.go` | map from check name to last non-pass time, capped (mutex) | `observe`, `snapshot`, `populateEvidence` |
| Latency histogram, gauges | `metrics.go` | one atomic per bucket, a count, a sum | `observe`, `renderNamed`, `MetricsHandler` |
| View model | `status.go`, `evidence.go` | none; a function of three reads | grouping, worst-of, escalation, banner, badges, anonymization, collapse policy, filter expressions |
| Page and patches | `view.templ`, `page_scripts.templ`, `handlers.go`, `pusher.go`, `csp.go` | in the browser: the live region, the healthy section, `localStorage` | first page, patches, click, storage event; scripts and their nonces |
| Options, routes, HTTP handlers | `options.go`, `routes.go`, `handlers.go` | `Config`, immutable after `New` | options, `resolveRoutes`, `RegisterRoutes`, content negotiation |
| Hub | `cmd/health-hub/main.go` | the signal's context, readiness, listener | configuration, start, gate, listen, mark and hold, `dash.Shutdown`, `server.Shutdown` |
| Example | `example/main.go`, `di.go` | the same, and the injector | the same, with `server.Shutdown` first and `injector.Shutdown` deferred |
| The rest | `favicon.go`, `introspect.go`, `pkg/version`, `doc.go` | none | pure rendering |

### How they interact

* `Start` builds a fresh pusher, **stores** it in `push`, sets `started`, and
  launches its goroutine. `Shutdown` **swaps** the pointer with nil, optionally
  waits for `connections` to reach zero, closes the broadcaster, and cancels the
  loop's context. It does not wait for the loop.
* An SSE handler **loads** the pointer once and then works with that pusher for
  the rest of its life, whatever `Start` and `Shutdown` do meanwhile.
* Each tick of the loop stamps `lastBroadcast`, reads the probe, feeds the
  evidence log, the ring and the histogram, decides whether to broadcast, fires
  the webhook and hands the patch to the broadcaster. `Dashboard.Observe` feeds
  log and ring from any other goroutine.
* Pages, trend, export and metrics handlers read the same structures, each
  under its own lock hold or load.
* A patch replaces the live region of every open page; a script of the page then
  reapplies the visitor's choice, which tabs share through `localStorage`.
* The dashboard's own routes, except the embedded SDK's, share one rate limiter;
  the kubelet probes and healthz bypass it.
* A program reads its environment, starts the dashboard under the context that a
  signal ends, waits at a gate for the sources' first answers, listens, and on
  the signal turns readiness to 503, holds, and takes dashboard and server down,
  the hub in this order, the example in the other. The loop, the open streams and
  `server.Shutdown` wait for each other in ways that the code must get right.

### What is hard about it

No test drives these deliberately: a `Start` overlapping a `Shutdown`; handlers
that loaded a pusher just before it was swapped out; a check followed by an
increment; a patch sent before the subscription; a broadcast still running
when the next loop starts; two snapshots behind one answer; a wrap-around
between two reads; a denial and its hint under separate locks; a page and a
patch built by different functions; a signal at the gate; a server that waits
for streams that wait for the dashboard. `PROJECT.json` ("hazards") lists 40 of
them, each at its line, with the properties that cover it or the reason why none
does.

## The modules

    PusherLifecycle ◁── refined by ── SSEPush ◁── EXTENDS ── Process
         ▲                               ▲                     the two programs
         └── EXTENDS ── HealthCheck      └── MCSSEPush
    History ◁── EXTENDS ── Observation                   what is remembered
    View ◁── EXTENDS ── Page                             what is shown
    Webhook      RateLimiter      Serving                the other components

A module that is run has an `MC` module with its model values and one `.cfg`
per run; proofs live in `…Proofs` modules. PusherLifecycle is checked through
the two modules next to it, History through Observation, View through Page. One
action is what a goroutine does between two points at which another can see, or
change, what it works on: an atomic operation, a lock hold, a channel operation.
Loads and stores that must not be merged stay apart.

**PusherLifecycle**: the abstract promise of `Start` and `Shutdown`. Per pusher:
where its loop is, whether its context is done, whether its broadcaster is
closed, how far the `Shutdown` that took it out has got. Every `Start` makes a
new pusher, so `Pusher` is the set of pushers a run may create and a restart is a
second element. `StartStore` and `StartLaunch` are apart because the pointer is
published before `started` is set and the goroutine exists.

**SSEPush**: the machinery itself. `HandlerStep` follows `sseHandler` statement
by statement: load, capacity check (its 503 is a way of `Admit`), increment, first
patch, subscribe, forward, and every way out; `ClientGone` also stands for
`WithMaxConnectionLifetime`, which ends the request's context in the same way.
`LoopStep` follows `start`, `broadcast` and `shouldBroadcast`;
`ShutdownStep` follows `Shutdown` with its drain. A response is a pair: `fp`,
what change detection compares, and `src`, what the page shows besides (per-source
verdicts); `Send` reads `src` again, as `renderPatch` does. go-sse is external
and modelled from its use: bounded buffers that drop, a `Close` after which
`Broadcast` does nothing and channels come closed. Not modelled: heartbeat
comments (they change nothing) and the markup of a patch. `Lifecycle ==
INSTANCE PusherLifecycle WITH …` maps the live states of a loop to "running" and
the two halves of a drain to "draining".

**Process** EXTENDS `SSEPush` with the main goroutine of the hub and of the
example, from the environment to the exit. `StartProbe` is the example's alone: its
probe runs before its options are parsed. `Configure` and `Refuse` judge the list
of remotes (`parseRemotes`, each entry against the names before it) and every other variable by
the kind of value it has; `StartDashboard`, `LaunchLoop` and `HubStopsDashboard`
or `InjectorStopsDashboard` are the lifecycle's own actions, called at the
program's places; `HubGateOver` and `ExampleGateOver` are apart because the code is.
`LoopTold` is the signal reaching the loop: both programs start the dashboard under
the signal's context. A handler starts only while the listener is open
(`ServedStep`). net/http is external: a server listens or fails to, its `Shutdown`
stops accepting and returns when no handler runs or its grace is over. A failed
bind ends the example at once (`log.Fatalf`) and the hub by way of its `unwind`.

**HealthCheck** EXTENDS `PusherLifecycle` with discrete time, the stamps, loops that
wedge, and the health check as the separate reads that it is: the pointer
(`CheckLoad`), then `started` (`CheckNil`) or the stamp (`CheckStamp`,
`dashboard.go:318`) and after it the clock (`CheckAge`, `:323`). A stamp goes through
`UnixNano` and so is the wall clock's: `Elapse` moves that clock forward at any
moment, also past a tick, `ClockBack` sets it back. A tick, too, reads the clock
before it stores, so its stamp can be of any age up to its predecessor's. `live`
and `pause` are history variables.

**Webhook**: the loops as far as they lead to `fireOnChange`, the notifier they
share across restarts, and one goroutine per delivery. `Job` bounds the delivery
goroutines alive at a time: with all of them busy, `Announce` waits. In the code
goroutines are unlimited and it never waits; three jobs against a limit of two
are enough for the over-limit path.

**RateLimiter**: the bucket in exact arithmetic (one unit of time refills one
unit), with `Allow`, the header's hint and the body's hint as three separate lock
holds. `quiet`, `due`, `spent` and `mark` are history variables that no action of
the code reads. The code's float rounding is abstracted.

**History** has the ring as pure operators; **Observation** runs them with the evidence
log and the histogram, recorders and one reader, each lock hold or atomic an
action. A stamp numbers the observations in the order in which recorders
read the clock; `log` is the history of the ring that `RingIsWindow` speaks of.

**View** renders a page in the three reads that `buildData` and `renderPatch` make
(response; verdicts and rendering; evidence), with the probe and the recorders
going on in between. **Page** EXTENDS it with what becomes of that model in a
browser: `PageModel` and `PatchModel` are the two models that `buildData` and
`renderPatch` fill in, option by option; `Region` is the live region either renders
to, an element being a record of what can differ between two renders; `Gauges` is
what a scrape shows of the same response; `RowHidden`, `HintShown` and `Pressed` are the
expressions of the client-side filter; `Allowed` is `script-src` of
`RecommendedCSP`. `Load`, `Click`, `StorageEvent` and `Patch` are the tabs in which
a visitor opens and closes the healthy section; a patch reaches any subset of
them. `choice` is a history variable.

In both of these there is an evidence log from `Init` on: `New` makes it
(`dashboard.go:162`), with the time of that as its `Since` (`evidence.go:46-51`). The
guards `log == nil` (`evidence.go:135`) and `!evidence.Since.IsZero()`
(`status.go:980`) therefore never decide anything, and `Prove` has neither.

**Serving** applies options one by one, in any order, then `resolveRoutes`,
`RegisterRoutes` (or its panic) and one request. A route is an optional place, a
path a prefix and a place; `Slashed` are the places that end in a slash, which
`embeddedSDKHandler` does not answer (`Found`, `ServeNotFound`).

## The runs

| Run | Shows | Bounds |
|---|---|---|
| `sse_shutdown` | no shut-down pusher published; no broadcaster closed without cause; every `Shutdown` ends, and with it the loop and all streams that hold the pusher; refinement of `PusherLifecycle`, fairness included | 2 pushers, 1 client, limit 1, drain, buffer 1 |
| `sse_converge` | with `WithPushOnChangeTTL`, a connected client ends up showing a response that stays, through failed renders, drops, missed and mixed patches | 1 pusher, 1 client, 2×2 responses, TTL 2, buffer 2 |
| `sse_no_ttl` | *violation*: without TTL a change between first patch and subscription is never shown | 1 pusher, 1 client, 2 responses, buffer 3 |
| `process` | both programs: remotes namespaced, refusals early, dashboard shut down on every return, clean exits, and an exit after every signal without the server's grace; the connection counter exact on every path; the limit exceeded by fewer connections than raced past its check together (`OvershootBounded`, an implication between two temporal formulas) | 1 pusher, 2 browsers, limit 1, drain, buffer 1, 9 lists of remotes, 4 settings |
| `webhook` | in-flight counter exact, limit kept, last announcement catches up | 1 loop, 3 deliveries, limit 2 |
| `webhook_restart` | *violation*: after a restart the old loop can have the last word | 2 loops, 2 deliveries |
| `health_watchdog` | no loop found live is called stale as long as delays of ticks and checks stay within the slack (`NoFalseAlarm`, also an implication between temporal formulas); a dead or wedged one ends up being called stale | 1 pusher, interval 1, floor 4, clock set back twice, cascade |
| `health_sentinel` | *violation*: `ErrPusherShutDown` without a `Shutdown` | 1 pusher |
| `observation` | ring is the window of its log, evidence is real, failures shown are backed by evidence, order, trend and scrape agree as far as the locks allow | 1 loop, `Observe` hook, 3 names, ring 2, log 2, 2 bounds, 4 observations |
| `page` | cards show the worst signal; banner, cards and gauges tell one story; the strip counts the badges; patches show what pages show; rows differ; problems in sight; the filter's hint is truthful; scripts may run; tabs keep the visitor's choice | 3 checks (two with one short name), 2 sources, stride 2, 2 changes, 5 set-ups, 2 tabs around 1 change |
| `serving` | routes independent of the options' order, links lead, negotiation; beside it the bucket: no window admits more than burst plus refill; hints are enough | 3 options, 6 tables, 2 stems, 0 to 2 slashes, all `Accept` headers of up to 2 ranges; 2 requests, token 3, burst 2, second 2, clock to 8 |
| `serving_empty` | *violation*: an empty favicon or introspection route becomes the bare prefix | 2 options, the same tables |

`serving` checks two modules in one run that stand one behind the other in the code
and share no state: a behaviour of `FrontSpec` is one of `Serving` or one of
`RateLimiter`, so neither multiplies the other's states.

Why the bounds are enough. Two pushers are one restart, in any overlap; a third
could only meet the second as the second meets the first, as no state is
per pair. A program starts once, so one pusher is all it has; two browsers against
a limit of one make admission, its race and its rejection happen; a buffer of one
drops. The lists of remotes hold one that is fine and one for each way in which an
entry or a list can be wrong; the settings, one in which nothing is set, one that only
the hub refuses, one that both refuse and one, all values at the edge, that neither
does. TTL 2 is the smallest the option
accepts (`TTL \in Nat \ {1}`: `WithPushOnChangeTTL` counts ticks and ignores
values below 2). An interval of 1 under a floor of 4 leaves a slack of 3, which
`NoFalseAlarm` divides between ticks and checks in every way and to the last unit;
two settings of the clock are one more than a stamp and its check need to be on
different sides of one. The health check works with the one pusher it has loaded, and what
a second would do to it is only to have been loaded instead: the proofs are for any
number. The rate limiter's units are chosen so that a token is
neither a multiple nor a divisor of a second; its clock allows the bucket
to fill, empty and fill again. A ring of two wraps with three of the four
observations, an evidence log of two fills with three names. In `page`, a group of
three outgrows a stride of two, every status occurs, an unknown one too, and two
tabs are the least in which a storage event crosses a click; the set-ups pair both
groupings with private and public pages and, among them, take each option both
ways. Three options are one more than any two that interact.

`CHECK_DEADLOCK FALSE` is set for `process`, which exits (that it does is
`ProcessEnds`), and for
`serving`, which answers one request and is done (handlers keep nothing between
requests) or whose clock stops at `MaxTime`. Everywhere else a deadlock would be reported. In `webhook`, where loops
can exit, the probe goes on, so the absence of deadlock says nothing there; the
liveness property does.

Model bounds that the code does not have: `Pusher`, `Loop`, `Job`, `MaxTime`,
`MaxObs`, `MaxChanges` (and `changes` of a set-up), `MaxOptions`, `Setbacks`, `MaxAge`.
The last one only merges ages that no comparison distinguishes, with room for every
setting back to come.

## Fairness

* Goroutines that can run do run, tickers fire, a drain's deadline passes, a
  webhook POST ends within `webhookTimeout`: weak fairness per goroutine and step.
* `SF` for `LoopExit`: with the context done and the ticker ready, Go's `select`
  picks uniformly, so the exit is chosen eventually. `SF` for `Send`: rendering does
  not fail for ever.
* A send to a browser returns (`InitialPatch`, `Forward`): the browser reads, or TCP gives it
  up. This is an assumption about clients rather than about the code, which sets no
  write deadline, and whose two programs set no `WriteTimeout`. A browser that stays connected
  without ever reading can fill the socket's buffers and hold its handler in `Send`,
  and with it `ShutdownEndsStreams` and `ProcessEnds` (which then ends by `GraceOver`
  only) have nothing to say about that handler.
* `HealthCheck`: checks are polled and the clock goes on. Loops need not tick.
* `Process`: the main goroutine goes on, and the deadlines of gate, hold and drain pass.
  Not relied on: the ten seconds that `server.Shutdown` is given (`GraceOver`), so
  `ProcessEnds` says that the streams let the server go.
* None for the environment: what the probe answers, who calls `Start` or
  `Shutdown`, cancels a context, connects or disconnects; signals, and the socket.
* `RateLimiter`, `Observation`, `Page` and `Serving` state safety only.

## Proofs

Every theorem holds for all values of the constants that satisfy the named
assumptions, which are those of the modules and which the code or its documents
justify. Those that say more than a type: `ServingAssumption`, a header has finitely
many ranges, a script's address at the CDN is not a path of this mux, and no default
route ends in a slash;
`RemoteAssumption`, the names are the non-empty ones (an entry may have the empty one
besides), and which of them hold a separator is given. Finiteness of `Client` and `Job` is that of goroutines at a time.

Where a liveness property is out of the prover's reach, the step it rests on is
proved as an action property or an invariant (`HandlersWindDown`, `SilenceIsBounded`,
`DeathIsForGood`), so that what remains for the model checker is that goroutines
which can run do run. Where a run refutes a property, a theorem with a hypothesis
about the behaviour says that the overlap shown there is all that breaks it
(`TurnsStayInStep`, `UndisturbedSentinelIsTrue`); without the hypothesis both are false.

| Theorem | Says | Inductive invariant |
|---|---|---|
| `HealthCheckProofs!HealthCheckOnlyReads` | under health checks the lifecycle takes its own steps or none, so what is proved of it holds there | a step simulation |
| `HealthCheckProofs!CheckTypeCorrect`, `WatchdogIsSound` | types; no false alarm, however the slack is divided between late ticks and slow checks | a check that loaded a live loop holds a stamp that is no older than `Interval`, the ticks' share and the time since its load (`HeldInTime`): when it took the stamp, the loop had either ticked in time, or had stopped or been taken down since the load, and from then on the stamp aged no faster than the check's own clock ran. A loop not yet launched has no stamp (`Unstamped`) |
| `HealthCheckProofs!DeathIsForGood` | a dead loop stays dead, its stamp gets younger only when the clock is set back, and a check that holds one too old ends with the stale sentinel | an action property from the types of ages |
| `HealthCheckProofs!UndisturbedSentinelIsTrue` | if no `Start` is recorded between the two reads of a check that found no pusher, `ErrPusherShutDown` comes only after a `Shutdown` | `Sentinels`: a pusher is published before its start is recorded, and only a `Shutdown` takes it back |
| `SSEPushProofs!TypeCorrect`, `ConnectionsAreExact` | `connections` is the number of handlers between increment and decrement | types, exactness and `HoldsPusher` (a handler past its load holds a pusher) need each other: the decrement stays natural only because the counter is exact. Cardinality lemmas add and remove one holder. |
| `SSEPushProofs!OvershootIsBounded`, `ProcessProofs!ProgramsKeepLimit` | if at most k handlers are ever between check and increment, the limit is exceeded by at most k - 1, also in the programs | `Committed(k)`: connections and the handlers about to be counted stay, together, under the limit plus k - 1. An admission found a connection fewer than the limit and leaves at most k in the gap; the increment moves one across. |
| `SSEPushProofs!SilenceIsBounded` | with a TTL, fewer than TTL silent ticks in a row | inductive with the types: a tick that would reach the TTL fires |
| `SSEPushProofs!HandlersWindDown` | on a closed pusher a handler gets only nearer to its end | an action property from types and `HoldsPusher`: the measure is stages left (`StagesLeft`), then buffered events; `Deliver` adds none when closed |
| `SSEPushProofs!NoShutDownPusherPublished`, `ClosesHaveACause` | the two safety promises of the lifecycle, kept by the detailed model | types, both, and: a pusher not yet created is untouched (`UnbornUntouched`). Without it a new pusher could be born shut down. The step is proved of `PusherLifecycle`, whose steps are all that the detailed model takes (`LifecycleSimulation`) |
| `SSEPushProofs!RefinesLifecycle` | every step of the detailed model is a step of `PusherLifecycle` or a stutter: the safety half of `ImplementsLifecycle` | a step simulation, one case per action |
| `ProcessProofs!ProgramsCountExactly` | the counter is exact in the programs, too | each of their steps is one of `SSEPush` or leaves it alone (the lemma `ProgramsUseDashboard`); then `SSEPushProofs`' invariant |
| `ProcessProofs!RemotesAreNamespaced` | whatever the list, accepted names are distinct and hold no separator | `RemotesJudged`: the remotes in use are the entries of a list that `RemotesParse` accepts; `ParseIsNamespaced` is the lemma about that operator |
| `ProcessProofs!ProcessTypeCorrect`, `RefusesEarly`, `ReturnsShutDown`, `SuccessIsClean` | for any environment and any browsers | what each stage of the main goroutine has behind it: an accepted configuration, a pusher of its own, a dashboard that is stopped, a listener that is closed |
| `WebhookProofs!TypeCorrect`, `NoSlotLeaks`, `DeliveriesAreBounded` | types, counter exact, limit kept, for any limit and any number of fires | both, with the counter only an integer: those sending are among those counted, so the one who finds room leaves the limit intact |
| `WebhookProofs!TurnsStayInStep` | with loops that take turns, what was announced last is the waiting loop's last sample, across restarts | `InStep`: a loop past its first announcement relies on the notifier remembering what it remembers itself; only another loop alive at the same time can break that |
| `RateLimiterProofs!BucketTypeCorrect`, `AdmissionsAreBounded`, `HintsAreHonoured` | bucket in bounds, window bound, hints | `Accounted`: what was spent since the mark plus what is left came from the bucket then and the refill since. `HintCovers`: until a hint is due, the bucket lacks no more than flows in. `CeilDivCovers` does the rounding. |
| `ObservationProofs!SnapshotIsWindow` | the snapshot is the log's last `RingSize` samples | `Holds`: slots below `next` are the newest, the others the oldest kept; `RecordHolds` shows that each record keeps it |
| `ObservationProofs!ObservationTypeCorrect`, `RingsAreWindows`, `EvidenceIsAlwaysReal`, `FailuresAreAlwaysBacked` | with any recorders | `Holds` for the ring; for the last, that a recorder about to write a sample has entered its evidence, so every sample in the ring is backed (`SamplesProven`), and that evidence never shrinks (`Grows`) |
| `ObservationProofs!SamplesNearlyChronological` | fewer late samples than recorders | `FewLate`: with the late samples, count the recorders that still hold an older stamp; recording moves one from the latter to the former, and the recorder of the sample itself was never among them |
| `ObservationProofs!TrendsCohere` | transitions of a trend document | the samples are the ring's window at some earlier length of the log (`SamplesShown`), the second snapshot a window that starts and ends no earlier; stamps name samples (`StampsDiffer`) |
| `ObservationProofs!ScrapesNearlyCumulative` | a scrape is cumulative but for the loops at work | `NearlyCumulative`: a counter is ahead of the next only by the loops due there; and what was scraped was no larger than it is now |
| `PageProofs!TabsKeepTheChoice` | however many tabs | `TabInv`: what is stored is the choice, and only tabs that are told of it show anything |
| `PageProofs!PageTypeCorrect`, `CardsShowTheWorst`, `PatchesShowThePage`, `RowsDiffer`, `ProblemsAreShown`, `OneAccount`, `StripCountsTheBadges`, `HintIsTruthful`, `ScriptsMayRun` | for any checks, sources, verdicts, names and options | `ViewInv`: between its reads, the page is that of the response that was read and of verdicts and evidence as old as their reads; the rest are lemmas about the operators |
| `ServingProofs!ServingTypeCorrect`, `RoutesResolve` | types; a route that was given a place is that place under the last prefix, and five that may be empty stay so, for any options in any order | while options are applied, each field is what the last option of its kind gave (`Given`, `OneMoreOption`), whatever came in between; `resolveRoutes` then reads only those. The two routes of `serving_empty` are not among the five |
| `ServingProofs!LinksLeadSomewhere` | page and mux agree on what is there, and a script that comes from here is found exactly when its route has no trailing slash | registration did not panic, so no two routes coincide and the mux is the inverse of the resolved ones (`MuxLeads`); the page links by the same ones |
| `ServingProofs!NegotiatesAsRFC` | the answer is the RFC's, for headers of any length that are orderly | no state: `QualityIsMax` and `SpecificIsBest` say that in an orderly header the best range that fits is the most specific one |

Type invariants that are theorems (`SSEPushProofs!TypeCorrect`, `WebhookProofs!TypeCorrect`,
`HealthCheckProofs!CheckTypeCorrect`, `RateLimiterProofs!BucketTypeCorrect`,
`PageProofs!PageTypeCorrect`, `ProcessProofs!ProcessTypeCorrect`,
`ServingProofs!ServingTypeCorrect`) are not repeated in the runs.

Only model-checked: all liveness (`ShutdownEndsStreams`, `ShutdownEndsLoop`,
`Converges`, `AnnouncedCatchesUp`, `DeathIsReported`, `ProcessEnds`) and the fairness
half of `ImplementsLifecycle`, since the prover does not handle liveness under
fairness or `ENABLED`. Every invariant and every safety property over steps that a
passing run checks is a theorem.

## Where code and words part

Shown by a run that TLC finds violated:

* **`ConnectCatchesUp`** (`pusher.go:303`). The first patch goes out before the
  subscription; a change in between is shown by neither. `FEATURES.md:66` says the
  initial state on connect handles missed updates. `WithPushOnChangeTTL` repairs it
  (`sse_converge`).
* **`AnnouncedCatchesUp`** (`webhook.go:130`). After a restart the old loop may
  announce its older sample last. The new loop has no reason to announce again.
* **`ShutDownIsTrue`** (`dashboard.go:308`). `HealthCheck` loads the pusher before
  `started`; a `Start` in between makes it report a shutdown nobody asked for.
* **`EmptyRoutesStayEmpty`** (`options.go:474`). Under a base path, an empty `Favicon`
  or `Introspect` becomes the bare prefix, although `options.go:464-465`, `:484-485`
  and `dashboard.go:181-182` say that empty routes stay empty. With both empty, and
  introspection on, registration panics.

Seen while modelling. The models follow the code; no run is spent on these.

The library's goroutines:

* The connection limit is check-then-act (`pusher.go:285`, `:290`), so handlers
  that connect at once can exceed what `options.go:427` promises. The model has
  the race; `OvershootBounded` says how far it can lead.
* `Start` twice leaves two loops (`pusher.go:39` speaks of one), and a
  context cancelled by the caller leaves the pusher published with its loop gone: the
  active gauge (`metrics.go:142-145`) stays 1, `HealthCheck` reports it stale
  (`DeathIsReported`).
* The stamp that `HealthCheck` compares is the wall clock's, so setting the clock forward
  past the floor makes it call a live loop stale until the next tick, and setting it
  back makes it take longer to notice a dead one.
* `evidence.go:36-39` says that the evidence log starts with `Start`, resets on restart and
  is nil before; `New` makes one, and it is kept (`dashboard.go:162`, `pusher.go:84`).
* Samples can be recorded out of the chronological order that
  `history.go:19-20` speaks of; `NearlyChronological` says by how much.
* The JSON body of a 429 computes its hint anew and can be zero or less; the
  header's hint and the body's can differ.
* An announcement dropped at the in-flight limit has been marked as announced,
  and posts being rejected count towards the limit while they are.
* A metrics scrape overlapping an observation is not cumulative; nor need its `+Inf` bucket
  equal its count. `ScrapeNearlyCumulative` bounds the former.

Routes and negotiation:

* `WithEmbeddedDatastarSDK` (`options.go:525-531`) promises the SDK at
  `Routes.DatastarJS`. A route that ends in a slash is mounted and linked as given, but
  `embeddedSDKHandler` compares the path with the route stripped of it
  (`handlers.go:305`) and answers 404.
* `WithEmbeddedDatastarSDK` with an empty `DatastarJS` route replaces the source given to
  `WithDatastarSrc` by the CDN's. The SDK's route is not rate-limited.
* `wantsJSON` takes the best quality of any matching range, where RFC 7231 takes
  the most specific range's (`text/html;q=0.5, */*;q=0.9` is read as an HTML quality of 0.9).

The page:

* On public pages, badges look evidence up under anonymized names and show every
  passing check as unproven; with more than 100 rows in a group labels repeat.
  Metrics number anonymized checks through, the page by group (100, 200, …), so a
  label does not lead from one to the other.
* `status.go:321-322` says the summary reads "N of N services reporting pass."; the
  code counts problems ("0 of N", which `status_test.go:272` pins).
* A text and a chip together can hide every row without the hint, which looks at each
  alone.
* With `localStorage` blocked, a visitor's choice lasts until the next patch.
* The connection pill reads "Live" after a stream that ended without error, too.
* The latency tone's comment says that a patch always derives the same judgment;
  the latency and uptime cards lie outside the region a patch replaces.

The programs:

* The signal's context is also the push loop's: the loop ends and closes all streams
  at once, before readiness turns 503 and before any drain
  (`HEALTH_HUB_SSE_DRAIN`, `DEMO_DRAIN`) could wait for them. The drain has an effect
  only on a `Shutdown` without a signal, and connected browsers never see the
  shutting-down banner.
* During the hold that follows, the broadcaster is already closed but the pusher still
  published: new streams are accepted with 200, get their first patch and end, and the
  browser tries again. The 503 comes only with `dash.Shutdown`.
* A signal during the gate still opens the listener, for the hold. The example's
  comment (`example/main.go:549-553`) says that the listener opens only after every
  source has answered; the gate gives up after 15 seconds.
* `DEMO_DRAIN_GRACE` is parsed after the signal: a bad value ends the example by
  `log.Fatalf`, without `server.Shutdown` and deferred calls (`RefusalIsEarly` admits
  exactly this), and `0` means the default of two seconds. `HEALTH_HUB_SSE_DRAIN=0s`
  is refused, `DEMO_DRAIN=0s` is not.
* The documentation of the example's `parseRateLimit` allows "5/s"; the code hands "s"
  to `time.ParseDuration`, which refuses it.
* With several sources merged into one page, the example hands each source's own
  response to `Observe` (`example/main.go:358`), so the history mixes statuses of parts with
  those of the whole.

## What is not modelled, and why

Favicon, version, introspection text and package documentation: pure functions
of a configuration that is fixed, without state. From modelled components:

* *Push machinery*: heartbeats and what does not depend on the response.
* *History*: the timeline's length cap and maximum age, sparkline and CSV layout, the
  histogram's sum.
* *Metrics*: the gauges that are one plain read each (uptime, connections, active).
* *View and page*: stat cards, trend and timeline cards, latency tone, ages and
  wording, theme toggle, connection pill, directives of the policy other than
  `script-src`, the browser's SDK.
* *Serving*: middleware, cache headers, options that only set a field another component
  reads.
* *Programs*: logging, version output, the transport's construction, the example's
  synthetic checks and its choice between three kinds of probe. Their endpoints
  besides the dashboard's are plain reads.

## Plan

Done, in this order: `PusherLifecycle`, `SSEPush` with the refinement,
`HealthCheck`, `Webhook`, `RateLimiter`, `History` and `Observation`, `View`,
`Serving`, `Process`, `Page`; proofs for all of them.

Next:

1. **Timeline** cap and maximum age on `Observation`.
2. **Gauges** of the pusher (`metrics.go:124-145`) against what a health check says, on
   `HealthCheck`.
3. **Proofs**: how late an announcement can be when loops overlap (a bound like
   `OvershootBounded` for `TurnsStayInStep`).
