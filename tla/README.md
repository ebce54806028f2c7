# A verification project for klaviyo-mcp

TLA+ models of the service in `src/`, the TLC runs that check them on small
instances, and TLAPS proofs of what holds for every instance. File and line
references are to the repository's source.

The service answers analytical questions about Klaviyo accounts. Two front
ends, an MCP server on stdio and a Flask REST API, translate calls for one
`KlaviyoService`, which turns each call into a series of rate-limited requests
made by one `KlaviyoClient`, behind a small response cache.

## 1. Inventory

| Component | State it keeps | Operations | Status |
|---|---|---|---|
| Response cache, `cache.py` | `_store`, an `OrderedDict` of at most 256 entries, and a clock | `get`, `set`, `cache_key` | modelled |
| Klaviyo client, `client.py` | `_clients_by_key`, the cache | `get`, `post`, `get_paginated`, `close` | partly: `close` is not |
| Reporting periods, `service.py` | none between calls | `_resolve_period`, `_validated_period`, `_resolve_prior_period`, `_period_chunks`, `_build_buckets` | modelled |
| Values reports, `service.py` | per call: chunks, rows, trend slots | campaign and flow performance, roll-up, `compare_periods`, campaign trend | partly: no rates, no choice of trend statistics |
| Flow series, `service.py` | per call: chunks, dates, arrays | `_flow_series` | modelled |
| List growth, `service.py` | per call: metric ids, sums, list rows | `get_list_growth`, `..._by_list`, `get_list_breakdown`, bulk list health | partly: no shape of rows |
| Names, flows, flow structure, `service.py` | per call: names found so far | `get_flows`, `get_flow_structure`, `get_list_health`, `_with_campaign_names`, `_with_message_names` | modelled |
| Account registry, `registry.py` | the accounts, fixed at startup | `build_registry`, `resolve` | modelled |
| Configuration, paths, logging | a frozen `Config` | `load_config`, `validate_config` | partly: validation and startup |
| Errors, `errors.py` | none | `map_exception`, `to_envelope` | partly: the codes |
| MCP server, `server.py` | the service | startup, tool table, handlers, `call_tool` | modelled |
| REST API, `api/` | the service, the accepted tokens | auth hook, routes, handlers, error handlers | modelled |
| Metrics, `metrics.py` | none | rates and deltas | partly: deltas |
| Schemas, installer, smoke test, container | none | layout and one-shot I/O | not modelled |

**How they interact.** `call_tool` runs each handler with `asyncio.to_thread`
(`server.py:587`), so several calls run in threads of one process and share one
service, one client, one cache. Nothing in them takes a lock. REST runs under
gunicorn sync workers: each process has its own cache and serves one request at
a time. A service call resolves its account and its period, cuts the period into
chunks Klaviyo accepts (a year at most), posts a report for each with a pause in
between, and merges. The client looks in the cache, builds or finds the httpx
client of the account's key, sends with retries, follows `links.next`, and
stores the whole answer.

**What is hard.**
- *Interleaving*: the cache's and the client table's check-then-act sequences
  under threads (`cache.py:77-94`, `client.py:89-93`).
- *Failure of one step of many*: a page, a chunk, a bucket, a metric or a list
  fails. Some failures must end the call, others must only blank a figure, and
  none may leave something partial in the cache or in the answer.
- *Retries and time*: the retry budget, the backoff and its cap, entries that
  expire while they are read, pauses between reports.
- *Boundaries*: months, leap days, year chunks, caps on spans and buckets.
- *Merging*: sums keyed differently for campaigns and flows, arrays that must
  stay aligned to dates over chunks with gaps.

**What makes each component correct.**
- Cache: a hit is a value stored under that very key and live when the clock was
  read; the store is bounded; entries go only by expiry or, least recently used
  first, by eviction.
- Client: bodies are cached and returned whole and for the right account; requests carry the
  account's own key; leaks are bounded; every call ends.
- Periods: what is accepted is in order and within the span cap; windows
  partition the period and fit Klaviyo's limit; the comparison period is
  adjacent and as long.
- Reports: an answer has all counts once, in the period they belong to, and
  groups, slots and arrays stay aligned.
- Growth: a count is whole or null, a warning is true, no list is lost, rows add
  up to totals.
- Names and structure: a failed lookup costs its own row its value and no other
  row anything; no name is asked for twice.
- Registry: Klaviyo is asked with the key of the account that was named, and an
  account is never chosen where the manifest leaves a choice; nothing is served
  on a bad environment or manifest.
- Front ends: the same arguments lead to the same call; every call gets one reply,
  and every exception ends in it.

`PROJECT.json` lists the hazards at their lines and the properties that cover
them.

## 2. Modules

| Module | Models | State and actions, and the code they stand for |
|---|---|---|
| `ResponseCache` | the protocol a client relies on | `held`, and per thread the call in progress: the key it asked for (`asked`), the entry a get found or a set brings (`pick`); abstract |
| `TTLCache` | `TTLCache` | `store` and `order` are the `OrderedDict`; a `get` or `set` is split where another thread can run, at each operation on `_store` |
| `MCTTLCache` | – | history of use (`since`) and of overlap (`alone`), constraining nothing |
| `Client` | `KlaviyoClient` | a `pc` per thread: `client`, `build` (`_client_for`), `send`, `sleep` (`_request_with_retry`), `decode` (`_decode`, `_paginate`), `keep` (cache fill) |
| `Calendar` | `datetime.date`, presets, caps | ordinals of a proleptic Gregorian calendar; `OneYearCap`, `WeekEnd`, `MonthEnd`, `PresetWindow` |
| `Windows` | the loop of `_period_chunks` and `_build_buckets` | `cursor`, `windows`; the caps are a parameter |
| `Periods` | resolution of the date arguments | `stage`, one action per way of asking; string comparison of dates included |
| `Pipeline` | a call's dates, to the windows it fetches | `leg` says which period `Windows` is cutting; for a comparison the current one, then the prior; the caps are the calendar's (`LastDay`) |
| `Report` | a call that needs values reports | `chunks` and `rows` of its legs (periods or buckets), `slots` of a trend, `change` of a comparison, `rested` for the pauses |
| `Series` | `_flow_series` and its merge | `chunks`, `dates`, `series`; each value says where it came from |
| `Growth` | the growth tools | `stage`, `counts` and `unresolved` per metric, `health` per list |
| `Sweep` | the promise of a tool that decorates rows | `phase` of each call, its `rows` and `out`; abstract |
| `Enrich` | `_with_campaign_names`, `_with_message_names`, flow structure, list health | a `pc` per thread; `found` is the dictionary of names, or the loop over rows |
| `Sums` | the sums of `Report` and `Growth` | `SumOver` a set, `Sum` of a function; no state |
| `Registry` | `load_config`, `validate_config`, `build_registry`, `resolve` | `boot` is the point startup has reached, `accounts` the table it fills entry by entry |
| `Frontends` | `server.py`, `api/` | `stage` of each caller; `TurnAway` and `CallService` are hook, route or dispatcher and handler, `Reply` the result or the envelope |

`MCClient`, `MCPipeline`, `MCReport`, `MCSeries`, `MCGrowth` and `MCFrontends` hold
instances only. The proofs are in `TTLCacheProofs` (with `MCTTLCache`),
`ClientProofs`, `PipelineProofs` (with `Windows` and `Calendar`), `ReportProofs`,
`SeriesProofs`, `GrowthProofs`, `FrontendsProofs` (with `Enrich` and `Registry`) and
`SumsProofs`, which the three about reports, series and growth rest on.

How they compose. `Client` uses the cache by what `ResponseCache` says, no more:
a lookup may miss, an entry may vanish (`Forget`), and a call may raise when
another thread is inside. `TTLCache` implements `ResponseCache` (`KeepsContract`,
a refinement mapping): a hit is a value that a set of the asked key stored, which is
why `cached[c]` of `Client` is what was kept under `c`, and what holds of `Client`
does not depend on how the cache evicts. `Pipeline` joins `Periods` and `Windows`: what the one accepts, the other
cuts with the caps of `Calendar`, and its `AcceptedInOrder` is the assumption
under which there is at least one window. `Report` and `Series` take the number of
chunks as an input, which is what `Pipeline` bounds, and `Report`, `Series`,
`Growth` and `Enrich` take a request to succeed or fail, which is how a `Client`
call ends; in `Enrich` it may also raise the cache's `KeyError` while another call
is inside. `Enrich` implements `Sweep` (`KeepsPromise`). `Frontends` extends
`Registry` and `Enrich`: its steps from `CallService` to `Reply` are those of
`Enrich`, on which its own proofs rest.

## 3. What is checked

Twelve runs: eight pass, and four end in a violation and are findings.

| Run | States | Question it answers |
|---|---:|---|
| `cache_shared` | 192 k | Two threads, three keys, two values, a cap of two, a TTL of one tick: does the cache keep its contract, stay bounded, and treat a call that is alone properly even after collisions? |
| `cache_race_keyerror` | – | Does a call ever raise? Yes (finding). |
| `client_shared` | 583 k | Two threads, two accounts, a collection of two pages: is what is cached, and what is returned, whole and own, whatever fails? |
| `client_liveness` | 20 k | A `links.next` that points to itself, throttling without end: does every call end? |
| `pipeline` | 45 k | Every preset on boundary days; dates that begin around month, year and leap-day boundaries, up to the span cap and past it; compared by default or explicitly; cut into chunks and, up to a year, into days, weeks and months |
| `periods_mixed_forms` | – | The same when one date is written YYYYMMDD: accepted in the wrong order (finding) |
| `report` | 621 k | Reports of no, one and two chunks; roll-up, comparison and trend; every set of rows; any request failing |
| `report_trend` | – | Does a trend slot hold all of a campaign? Not when it has two channels (finding) |
| `series` | 241 k | Chunks with missing groups, statistics, values or dates |
| `growth` | 170 k | Each growth tool, any metric absent, any request failing, lists that share a name |
| `growth_null` | – | Is every null explained by a warning? Not when a request failed (finding) |
| `frontends` | 283 k | Two callers of either front end from startup to reply: is each answered once, by the account named, with the same call behind both front ends, and does a lookup that fails cost its own row only? |

Every property of a passing run has a mutant in `PROJECT.json`, a plausible bug
in the code it is about, that makes the run fail.

### Bounds, and why they are enough
- *Threads*: two. Every race here is between one thread between two steps and
  another that completes some; the proofs cover any number. Three keys over a
  cap of two make an eviction of another thread's key possible.
- *Cache*: cap 2, TTL 1, clock up to 2: entries can be live, expire at exactly
  their instant, and be replaced; `MaxTime` is there for TLC only. Two values and
  three keys tell an entry of the asked key from another one. States that differ by
  the names of threads, keys or values only are explored once (`Symmetric`): nothing
  compares or orders them, and the run has no liveness property.
- *Client*: one retry and a graph of two pages reach every exit of both loops.
  `client_liveness` has `MaxPages` 2 over a cycle, so the cap is what ends it.
  `MaxBackoff` 2 with `Base` 1 reaches the cap.
- *Pipeline*: the lengths at which the number of windows changes, from every day
  near a boundary of 2023 and 2024, and presets on eight boundary days; the
  proofs cover all other days, spans and calendars. Calendar years 2015 to 2031 hold every
  period asked for and its baseline. Trend buckets are cut of periods of at most
  a year (`MaxBucketed`, for TLC).
- *Report, Series, Growth*: two chunks (three in a small `Series` instance) are
  first and later; two ids, one of them with two parts, tell the merge keys
  apart; a bucket cap of 2 is met and exceeded. Counts 1 and 2, and in `Growth`
  a chunk's own number, make a lost or doubled row change a sum.

- *Frontends*: two callers with a call each, because a collision takes two, and so
  does waiting for a sync worker; the proofs cover any number. The three
  deployments are the MCP server, the threaded Flask server and the gunicorn
  worker of the Dockerfile. One listing has two rows of one id, a row whose id does
  not fit into a path, one without an id and one that does not send. The manifests
  include a missing and an unreadable one, two names that differ in blanks, a
  missing key and a name that is no slug; the settings a bad one of each kind; the
  requests every tool, options of the wrong kind, and every sort of credential.

### Fairness
`Client`: `FairSpec` assumes weak fairness of each thread's `Request` and
`Conclude`: the interpreter schedules every thread, an httpx request ends by an
answer or its 30 s timeout, and a sleep ends. Nothing is assumed of what Klaviyo
answers, nor that callers call.

`Frontends`: `FairFrontends` assumes weak fairness of each thread's `Handles`:
threads are scheduled, and each request to Klaviyo ends, which is what
`EveryCallEnds` shows of `Client`. That startup goes on, or that anyone sends a
request, is not assumed. Weak fairness is enough for a caller who waits for the
sync worker: each caller makes one call, so once the worker is free it stays free
until the waiting one is served.

The other modules have no liveness to speak of: their loops end because they move
along a finite sequence, which `WindowsProgress` proves for the one where that is
not obvious.

### What the checks found
- `TTLCache` raises `KeyError` when threads collide (`cache.py:82-92`):
  `cache_race_keyerror`. A tool call that has already paid for its data may end
  as INTERNAL_ERROR. `KeyErrorTakesTwo` and `BoundedStore` say what remains true:
  a call that is alone is safe, and nothing leaks.
- Dates are compared as strings (`service.py:1428`): `periods_mixed_forms`. A
  period in the wrong order is accepted and its report is silently empty.
- A trend keeps one of a campaign's channels per bucket (`service.py:1180`):
  `report_trend`.
- A failed aggregate request is a null without a warning (`service.py:656`), and
  the README says it degrades like an absent metric: `growth_null`.

- Behind both front ends the same `KeyError` ends a call in its lookups, though the
  docstring says that a lookup "never blocks the metrics" (`service.py:1778`,
  `service.py:1799-1800`). It has the cause of `cache_race_keyerror` and no run of
  its own; `KeepsPromise` allows it, to a call that another overlaps.

Seen in the code while modelling and not given a run: two threads can each build
an httpx client for one key, though `client.py:10` says one is built
(`LeakBounded` bounds the damage); `Retry-After` is cut to 30 s although the
docstring promises to honor it (`client.py:179`, `client.py:244-257`), and a NaN
in it raises out of the loop; `compare_periods` does not pause between its two
periods; a campaign's rows are per channel for a period within a year and merged
for a longer one; a period at the ends of the calendar overflows `datetime.date`;
unique opens and clicks are added over chunks although they are not additive;
weeks and months that a chunk boundary cuts come as two buckets of a series;
concurrent identical calls all go to Klaviyo; `current_entity_count` of
`compare_periods` counts rows, of which a campaign has one per channel; a path that
REST has no route for answers INTERNAL_ERROR, as does a credential that is not
ASCII; the text "false" in a JSON body switches an option on; two account names
that differ in blanks are one account, the later entry of the manifest.

## 4. What is proved

TLAPS proves these for every value of the constants, from the named assumptions
in the modules. They are: finitely many threads, keys, groups and partitions; natural
bounds; a page graph that stays within its paths; caps that leave no window empty, and
for `Pipeline` those of the calendar; dates that lie in the calendar together with the
baseline before them, and a span cap of at least 365 days, which has room for every
preset; plans with as many legs as their tool has; manifests, chunks and lists that are
sequences; a null that is not a number. TLC evaluates each assumption on the instance of
a run. Every invariant that a passing run checks is proved.

`TTLCacheProofs`
- `TypeCorrect`: the type invariant, which is inductive as it stands.
- `StoreBounded`: the store exceeds its cap by at most the sets in flight. The
  obvious count is not inductive: a set whose `move_to_end` raises leaves without
  evicting. It is harmless because its key has left the store, so the invariant
  (`SettledBound`) counts only keys that no thread has yet to promote, against the
  threads that are evicting; an injection from unpromoted keys to threads gives
  the rest.
- `ContractKept`: `TTLCache` implements `ResponseCache`, step by step: a set stores its
  own value under its own key, and a hit is the value of the entry found under the
  asked key, approved while it was live. `Held` and `Phase` are the mapping, with
  `key` for `asked` and `entry` for `pick`; a get picks what it will return when it
  reads the store, long before it answers, and keeps to it whatever others do to the
  key meanwhile. `TypeOK` is all it needs of the state.
- `AloneNeverRaises`, `AloneRemovesWithCause`: the invariant `Solo` says that a call
  that is alone finds the store as it left it (`Undisturbed`), whatever state
  earlier collisions left behind.
- `UsedSurvives`: `InUseOrder` relates the order of the `OrderedDict` to the history
  of uses: a key has been followed by a use of each key behind it, so the one at the
  front is evicted only after as many others as the cache holds.

`ClientProofs`, one invariant building on another:
- `Typed` (`ClientTyped`): types, and no loop beyond its retry budget.
- `Keyed` (`ClientOwnKey`): a pooled client carries the key it is filed under, and
  a client is held only from sending to decoding, for the call's account.
- `Collected` (`ClientCachesWhole`): until its last page a call holds an unbroken
  prefix of its collection, shorter than the cap, whose continuation is the next
  target; at the cache fill it is whole. `WalkOn` is the lemma for one more page.
  `ClientAnswersWhole` follows: a body is returned only at the cache fill or out of
  the cache.
- `Leaking` (`ClientLeakBounded`): clients built for a key plus threads about to
  build one are at most the threads, and none are built while the table has none.
  So a race costs a client per thread that found none, and never more.

`PipelineProofs`
- `WindowsPartition`: windows are contiguous, non-empty, inside the period and within
  their caps, for any caps; when the loop has ended, they therefore reach the period's
  last day (`WindowedCovers`). `WindowsProgress`: every round moves the cursor. The invariant `Windowed` adds
  that the period lies inside the calendar, where the caps are defined.
- The calendar. `YearLength` gives a year 365 or 366 days by Python's formula,
  `YearsInOrder` and `MonthsInOrder` put years and months in order, and so each day has
  one date (`YearIs`, `CivilIs`), and days are ordered as their dates are
  (`BeforeIsLex`). `YearCap`, `MonthCap` and `PresetBounds` say what the caps and the
  presets are on any day.
- `PipelinePartitions`, `ChunksWithinYear`, `BucketsAlwaysFit`, `PresetsAlwaysFit`: the
  invariant `Piped` carries `Windowed` through a call. `Resolved` says what the period
  and the baseline were resolved from, `Legs` which of them is being cut, and that the
  windows of the other are all there (`Whole`). `Reaching` says that a window ends at
  its cap or with the period, which `WithinCap` does not imply, and `Weekly` that weeks
  begin every seventh day; the buckets need both.
- `AcceptsInOrder`, `BaselineAlwaysMeets`: under `OneForm`, that the two dates of a
  period are written in one form, YYYY-MM-DD or YYYYMMDD. Without it the first is false,
  which is what `periods_mixed_forms` shows, and so is the second, since a period accepted
  backwards has no windows.
  With it the comparison of strings is one of years and then of days, and it puts days
  in order because years are (`ValidInOrder`).

`ReportProofs`
- `ReportsPaced`: the invariant `Resting` says that a call that has just posted is
  inside a leg or past its first one, so that a pause is due before the next.
- `TrendAligned`: `Slotting` says the same of the buckets fetched so far, and that
  later slots are zero. It needs that a bucket is a single chunk.
- `ReportTyped`, `AnswerIsWhole`, `FlowRowsKept`: the invariant `Gathered` says what the
  rows are at any point of a call: those of the legs merged so far have, for each group,
  the sum over the chunks of the leg; the chunks of the leg in progress are its first
  ones, whole. `AnswerIsWhole` then adds up the rows by what they are shown under
  (`SumByKey`).

`SeriesProofs`, from the invariant `Collected`, that the chunks fetched are the first
of the period, in order, and the answer is made of all of them:
- `SeriesTyped`, `SeriesAligned`, `SeriesWhole`. `FlattenInStep` is the lemma: two
  concatenations whose parts have the same lengths have the same length, and each
  position of both comes from the same position of the same part. `PaddedShape` is why
  it applies: what a group has of a chunk is as long as the dates of the chunk, whether
  Klaviyo gave it values, values that do not fit, or none.

`GrowthProofs`, from the invariant `GrowthInv`:
- `GrowthTyped`, and `WarnsOfAbsent`: `Counted` says that a metric is unresolved
  exactly when it was gone through and the account does not have it.
- `KeepsEveryList`: `Kept` says that the rows so far are the lists so far, in order.
- `CountsWholeOrNull`, `RowsMakeTotals`, with the invariant `Summed`: a count in the
  making is the sum of the chunks it has gone through, and a count that is there is of
  all of them. `CellsAddUp` turns the sum over chunks and partitions into that over rows.

`SumsProofs` says of `SumOver` and `Sum` what the above need: the sum of no value, of one
more, of two disjoint sets, of two functions, over a renaming, and by key. A sum is
defined by recursion over a finite set, and an induction theorem would take the
statement as an operator, which the provers cannot instantiate. Instead, each lemma looks
at a smallest counterexample, which exists because inclusion of finite sets and the order
of numbers are well-founded (`SmallestSubset`, `LeastNat`, from the library's `WFMin`).
`FlattenInStep` is proved in the same way.

`FrontendsProofs`, of `Enrich`:
- `LookedUpOnce` and `NullsHaveCause`: `Tracked` says that each lookup is filed when
  it is made and that a null among them is the fault of its own id; `Answered`
  that an answer is what the lookups gave, with none left to make.
- `EnrichKeepsPromise`: `Enrich` implements `Sweep`.

`FrontendsProofs`, of `Frontends`:
- `FrontendsAreEnrich`: every step of the front ends is one of `Enrich` or leaves it
  alone. `FrontendsKeepPromise` follows, through both refinements.
- `ServesOnlySound`, `CallsOwnAccount`: `Loaded` says that the table holds, for each
  name seen so far, the last entry that has it, and `Routed` that a call that is
  asking Klaviyo has the account that its request resolves to.
- `FrontendsTyped`, `CallsAlike`: `Placed` says that a call is with the front end, in
  the service, or answered, and that what is asked of Klaviyo is what the request
  translates to.
- `WorkersDoNotCollide` (`OneAtATime`): `Alone` says that a sync worker is inside the
  service for one caller at a time, so that nothing is raised by the cache, and that
  an INTERNAL_ERROR has its cause in the request. It rests on the client raising no
  `KlaviyoServiceError` of that code (`ServiceAssumption`): the one it has, after its
  retry loop, is unreachable (`client.py:193-194`).

Only model-checked: liveness (`EveryCallEnds`, `EveryCallAnswered`), which rests on
fairness and is beyond the prover; that the instances of the runs satisfy the
assumptions; and what the runs that end in a violation show.

## 5. What is left out

Formatting, logging, wording and layout throughout. In `Client` the jitter of the
backoff (at most a tenth) and `close()`, which nothing in production calls. In
`Periods` ISO week dates and the ends of the calendar. In `Report` the
rates and all rounding, which statistics a trend may ask for, and the order of rows;
a row's statistics are one count. In `Growth` and `Enrich` the shape of a row. In `Registry` which file the
settings and the manifest are read from, and default values. In `Frontends` the
schemas of the tools, which nothing in the server checks, the HTTP status, which is
a table by code, the redaction of messages and the request id of the log; callers
give sound dates there, since dates are the business of `Pipeline`.

Not modelled: the rates of `metrics.py`, quotients of two counts of one row, each
null for a zero denominator, which unit tests cover; the result schemas, the
installer, the smoke test and the container, which keep no state. `datetime.date` and Klaviyo itself are
modelled from how the code uses them.

## 6. Plan

Done, in this order: the cache and its contract, the client, the windows, the
periods, the reports, the series, the growth tools; then the lookups, the registry,
the front ends, the pipeline from dates to windows, and the proofs above. The
order is by how much else rests on a component and how little a test reaches it.

What is left, most useful first:
1. Rows with two counts in `Report`, so that the rates of a roll-up or a total can be
   told from sums of rates.
2. The baseline of `compare_periods` and its reports in one module, so that the totals
   compared are those of the periods that `Pipeline` resolves.
3. Which files the settings and the manifest are read from.
