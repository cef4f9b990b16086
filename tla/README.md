# ReverseShield in TLA+

ReverseShield detects bots on web sites. A browser agent and server-side
packages (Laravel, WordPress) watch for signals: a filled honeypot field, too
many logins, odd behaviour. They send events to a reporting API, which stores
them in SQLite, summarises them for a dashboard and scores them with a Rust
engine compiled to WebAssembly. The weights of the signals are in one YAML file.

This directory holds TLA+ modules for the parts of ReverseShield whose
correctness depends on order, concurrency, failure or arithmetic, TLC
configurations that check them on small instances, and proofs, checked by
TLAPS, of theorems about nine of the modules for every value of their constants.
`PROJECT.json` lists the components, the runs, the source lines behind every
definition, the hazards and which property covers each, and, for each property,
a defective variant of a definition (a "mutant") under which TLC finds the
property violated. The variants stand next to the definitions they replace,
marked `Defect:` in their comment; no `Next` reaches them.

## Inventory of the system

Paths are relative to the repository.

### Core engine (`packages/core/src`)

- **Rule file and hot reload** (`rules.rs`). *State:* the rules, the path and
  `last_loaded_mtime`. *Operations:* `load_from_path`, `reload_if_changed`, both
  stat - read - stat - parse. *Interacts* with the operator, who saves, replaces
  and removes the file at any time. *Hard:* an edit between two system calls;
  the mtime as the only change detector; a file caught in the middle of a save;
  a file that does not parse. *Correct when* a poll skips only what it has
  loaded, no failure damages the rules in memory, and edits arrive.
- **Validation and scoring** (`rules.rs`, `scoring.rs`, `wasm.rs`). *State:*
  none but the rule set. *Operations:* `validate_rules`, `rules_for_signal`,
  `score_signals`, `score_from_weights`, `ScoreBand::from_score`. *Hard:* sums
  past 100 and past 32 bits, repeated signals, several rules for a signal.
  *Correct when* the score is 100 less the weights triggered, floored at 0, and
  the ids attribute the penalty.
- `canary.rs` and `event.rs` are empty.

### Reporting API (`services/reporting/api/src`)

- **Ingestion and store** (`routes/events.ts`, `routes/sites.ts`, `db/`).
  *State:* the tables `sites` and `events`, in WAL mode with
  `synchronous=NORMAL`. *Operations:* POST /sites, POST /events, opening,
  checkpointing and closing the database. *Interacts* with agents and packages
  over the network, which retry, duplicate, reorder and lose requests and
  answers. *Hard:* idempotency by `event_id`, crashes of the process and of the
  machine, inserts that fail. *Correct when* an event counts once, has its
  site, and the answers tell the truth.
- **Summaries and lists** (`routes/sites.ts`, `routes/events.ts`, SQL in
  `db/index.ts`). *State:* the events table and the clock. *Hard:* windows and
  order compare text of two timestamp formats; events arrive late and out of
  order. *Correct when* the parts of a summary agree, the window and the list
  are right to the second, and no late event clears a session.
- **Scoring and rules endpoints** (`routes/score.ts`, `routes/rules.ts`,
  `scoring/engine.ts`). *State:* `cached` and `loadingPromise` of the lazy
  loader, suspended handlers. *Interacts* with the rules file and the WASM build
  on disk. *Hard:* requests during the first load, rules read before an await
  and used after it, a throw in an async handler, shutdown and kill. *Correct
  when* the engine is loaded once, every request is answered, and no score
  comes from rules older than its request.
- **Wiring, configuration, start and shutdown** (`server.ts`, `config.ts`,
  `index.ts`). Middleware order, error handler, signals. Only the error
  handler, SIGTERM/SIGINT and the forced exit matter to the state; they are in
  the modules above. **Recommendations** is a stub.

### Server packages

- **Laravel** (`packages/middleware-laravel/src`). *State:* the two counters
  `rs_login_<ip>` and `rs_api_<ip>` of Laravel's RateLimiter. *Operations:*
  `handle()` with its checks `checkLoginRateLimit`, `checkHoneypot`,
  `monitorApiRate`, each wrapped in a catch-all, and the decoy controller
  behind it. *Interacts* with the reporting
  API by blocking calls with a timeout whose failures are swallowed. *Hard:*
  workers racing between `tooManyAttempts` and `hit`, window ends, a cache or
  a bound reporter that throws. *Correct when* the limit holds up to racing
  workers and exceptions, nobody is refused early, the failure of one check does
  not disable the next and every hit on a honeypot or a decoy is reported.
- **WordPress** (`packages/middleware-wordpress/reverseshield.php`). *State:*
  one transient per IP for logins, one per IP and one per session for the REST
  monitor. *Operations:* the hooks `check_login_rate_limit`, `on_login_failed`,
  `monitor_rest_rate`, `check_comment_honeypot`, the decoy routes, `send_event`
  with `fetch_score`. *Hard:* reading and writing a transient are two calls;
  either may throw; scoring may fail or time out before the event is sent.
  *Correct when* nobody is past a limit unnoticed by requests that do not
  overlap, nobody is refused or reported without enough of them in a row,
  detections are reported with or without a score, and filled comments are not
  posted.

### Clients

- **Browser agent** (`packages/agent-js/src`). *State:* `initialized`, the
  session id, the `triggered` flag of each honeypot, the telemetry counters,
  the cached scorer promise. *Operations:* `init`, honeypot events, the canary,
  the telemetry flush (timer and `pagehide`), `transport.send` (beacon with
  fetch as fallback), `initScoring` with `fetchRules` and its abort timer.
  *Hard:* `init` called twice or before the DOM is ready, two flushes in either
  order, pages that come back from the back/forward cache, a rules server that
  stalls. *Correct when* a page speaks for one site, a honeypot reports once,
  the snapshots cover the visit, and a rules fetch ends.
- **Dashboard** (`services/reporting/dashboard/src`). *State:* of the page
  `sites`, `selectedSiteId`, `summary`, `events`, `refreshTick`, `loading` and
  `error`; of each run of its effect a `cancelled` flag; the fetches on their
  way, with what they close over. *Operations:* `refreshSites`,
  `handleRegister`, the effect that loads the selected site and its cleanup,
  the site pills, Refresh. *Interacts* with the read endpoints, POST /sites and
  whoever else writes. *Hard:* answers that come late, overtake each other or
  fail, for a site or a list that is no longer wanted; effects that run some
  time after the state they depend on was set; callbacks that close over the
  state of an older render. *Correct when* what is shown belongs to the
  selected site and is as new as its selection, the spinner tells the truth and
  the selected site can be found in the picker.

### How they interact

```
agent ---------- beacon/fetch ----------+
Laravel, WordPress -- events, score --> reporting API --> SQLite (WAL)
operator -- edits --> core-rules.yaml ---+     |  lazy WASM engine
                                               +--> dashboard
```

All clients are fire-and-forget: an event that is lost is lost, one that is
sent twice is refused the second time. The summary bands of the dashboard come
from the `score_delta` that clients inline, POST /score from the rules file.

## The modules

| Module | Models | State <-> code |
|---|---|---|
| `RuleReload` | `load_from_path`, `reload_if_changed` | `mem`, `last`: the two fields of `RuleSet`; `pc`, `buf`: a call in progress; `file`, `clock`, `saving`: the file system |
| `Scoring` | `validate_rules`, `score_signals` and below | operators; `rules`, `signals`: what is scored |
| `ScoringSession`, `MCScoring` | a `RuleSet` that is loaded anew while signals come in | `rules`, `signals` of `Scoring` |
| `EventLog` | what ingestion promises (abstract) | `sites`, `events`, `durable` |
| `ReportingApi`, `MCReportingApi` | POST /sites, POST /events, SQLite | `commits`: the transactions; `checkpointed`: how many are in the database file |
| `EventQueries`, `MCEventQueries` | summary and event list | `table`: the events; `now`: the server's clock. Uses `Scoring` for the engine's view |
| `ScoreEndpoint` | POST /score, GET rules.json, `engine.ts`, shutdown | `cached`, `loading`: the two variables of engine.ts; `awaiting`, `ready`: suspended handlers; `file`, `built`: the disk |
| `LaravelMiddleware` | `handle()` and `DecoyController` in several PHP workers | `logins`, `api`: the counters; `at`: where each worker is; `sent`, `thrown`: the detections of its request that were reported, or whose report threw; `passed`: when login POSTs were let through, and whether they were counted |
| `WordPressPlugin` | the hooks in several PHP workers | `transient`: the three counters; `at`, `seen`, `reported`: each worker; `checked`, `rests`: when passwords were checked and REST requests counted; `run`, `last`: the uses of each counter without a pause |
| `Agent` | `init` and all it installs, in one page | `config`, `ready`: `init`; `triggered`: the honeypots; `moves`, `timer`, `listening`: telemetry; `scorer`, `abort`: `initScoring`; `sent`: events given to the transport |
| `Dashboard`, `MCDashboard` | `App.tsx` and `api.ts` over `EventLog` | `shown`, `selected`, `summary`, `rows`, `loading`, `error`, `ticked`: the `useState`s; `ran`, `effects`: the effect; `call`: `refreshSites` and `handleRegister` waiting for an answer; `load`: the effect's fetches |
| `RuleReload_proofs`, `ReportingApi_proofs`, `ScoreEndpoint_proofs`, `EventQueries_proofs`, `LaravelMiddleware_proofs`, `WordPressPlugin_proofs`, `Agent_proofs`, `Dashboard_proofs` | theorems and proofs | |

`ReportingApi` implements `EventLog`, and `Dashboard` is composed with
`EventLog`: what holds of the page holds over the store, whatever the store does
inside.

**RuleReload.** Every system call of a reload is an action, and so is every
step of an operator: saving in place (truncate, then write), renaming another
file over the path with an mtime of its own, removing it. Two history variables
name the two cases in which the code's mtime test cannot see a change: `race`
(the file changed between the read and the second stat) and `stamp` (the file
was changed and carries the very mtime remembered). Properties are stated up to
these two excuses, and the `reload_mtime` run exhibits the first.

**Scoring.** The arithmetic is operators; the two loops of `score_signals` are
folds over the lists, each step pushing at most one rule. `ScoreIsReference`
compares the loops of the code with a definition that counts occurrences and so
does not depend on order. The operators are a module apart from the session
(`ScoringSession`) because `EventQueries` takes them too. A u64 sum is a natural number: no rule set that fits in memory overflows
it. u32::MAX is a constant and the pool of rules has a weight of that size.

**ReportingApi.** An Express handler that never awaits is one action. A crash
of the process keeps the log, one of the machine keeps some prefix of it that
includes what was checkpointed: SQLite's documented behaviour for WAL with
`synchronous=NORMAL`, an assumption of the model. The module implements
`EventLog` under the mapping `sites`, `events` |-> the rows in the log,
`durable` |-> the rows among the first `checkpointed` transactions.

**EventQueries.** Timestamps are instants with a format; `TextKey` is their
place in the order of the text. Rows have any delta, as the API takes any
integer. `ClientDelta` is what the clients of this repository send: no delta
lifts a score and a honeypot costs 80. What the summary says of a honeypot rests
on it and is stated of sessions with such deltas only; what the engine says is
stated of all.

**ScoreEndpoint.** A handler is split at its await. Microtasks (`ready`) run in
the order in which they became ready, all of them before the next callback:
`EventLoop` says so. A load may end with an engine or with null, at any time.

**LaravelMiddleware.** Calls on the RateLimiter are steps, and every one may
throw, the `availableIn` in front of the 429 included, and so may the report of
an `EventReporter` that was bound in place of the package's own, which catches
everything. `Throw` is what `safeCheck` and `safeExecute` do, and each check has
its own action for it: a login POST whose check throws goes on without being
counted (`passed` has it with `counted` FALSE), a filled form whose check throws
reaches the application. A call that throws is taken to have had no effect on
the counter. `Application` is `$next`: the routes that the
package registers itself have `DecoyController`, which reports and answers. The
RateLimiter (first hit starts a window) is Laravel's own and modelled from its
documented behaviour.

**WordPressPlugin.** `get_transient` and `set_transient` are separate steps,
and each may throw (an object cache that is down), upon which the hook gives up
as its catch-all has it. `send_event` posts its event with the score that
`fetch_score` got or without one; which of the two changes nothing else, so the
model keeps the kind of the event only. The WP_Error of `check_login_rate_limit`
comes at priority 5 of `authenticate` and does not end the login: WordPress's
own check, at priority 20, passes over a WP_User only, so that `Credentials`
follows a refusal as it follows a pass, and `wp_login_failed` is called for a
wrong password in either case. A REST request is counted for its IP and its
session; one without the session cookie has a session of its own. The history
variable `lenient` notes an excuse: two requests of a kind overlapped, or a
transient threw. `checked` and `rests` are sequences of times, so that the
limits can be stated for every window of time, not only for those that the
transients happen to keep. `run` counts the uses of a counter, each lasting from
its read to its write, that overlap or follow each other within `Window`: as
every write starts the expiry anew, that is what a transient may count at most.

**Agent.** JavaScript runs callback after callback, so each callback is an
action, and an `await` ends one. The page loads, is left into the back/forward
cache or for good, comes back, is dropped or crashes. `transport.send` neither
retries nor reports back, so `sent` is what the page has done; what becomes of
it on the network is `ReportingApi`'s. Its counter `moves` stands for the four
counters of the telemetry, which only grow.

**Dashboard.** A fetch is three steps: the page asks, the server handles the
request, the answer arrives; it may fail before or after the server has done
its part. What a query over the events of a site returns is the set of events it
saw. Setting state and running the effect are different steps (`Pending`,
`Effect`), with answers and clicks in between, as React has it. Each run of the
effect cancels the one before, so `Cancelled(k)` is `k # effects`. A call keeps
what its closure has seen: `picked`, whether a site was selected in the render
it comes from. Other dashboards, agents and a power loss of the server change
the log at any time. `asOf` is history, the events of the site when the effect
ran last; `lenient` notes the excuses for the picker (a list failed, came after
a later one or power was lost).

## Runs

| Run | Instance | Shows |
|---|---|---|
| `reload` | 3 valid contents (one of them blank), 1 invalid, 3 edits, 3 mtimes | skips are safe, reloads never regress, edits arrive, up to the two excuses |
| `reload_mtime` | same | violated: `MtimeNotNewerThanContent` |
| `scoring` | all valid lists of at most 2 of 8 rules, up to 4 signals | the score is the reference score, ids attribute it |
| `ingest` | 2 sites, 2 event ids, 5 requests, 3 transactions, 2 stops | `Integrity`: one row per event, after its site; honest answers; implements `EventLog`, whose checkpoints are for good |
| `ingest_os_crash` | same | violated: `LosesAtMostLastTransaction` |
| `queries` | 3 events of 11 kinds, one of them with a delta that lifts the score, 2 sites, 2 sessions, 4 instants of the clock | consistent summaries, window and list right to the second, only a delta that lifts the score clears |
| `score` | 3 score requests, 1 rules request, 1 refused one, 3 kinds of rules file, 1 edit, 2 starts | one load, one verdict, fresh rules, no going back, every request answered |
| `score_throw` | same, no `ApiOnly` file | violated: `ThrowIsAnswered` |
| `laravel` | 2 workers, 2 logins and 1 API call per 2 s, clock to 2 s, filled logins and API calls to a decoy, cache and reporter throwing, 1 login let through by an exception | bounded overshoot, no early refusal, filled forms stopped up to exceptions of their own check, they and the decoys reported |
| `wordpress` | 2 workers, 2 logins and 1 REST call per 2 s, clock to 3 s, 3 counted requests, symmetric workers | nobody past a limit unnoticed without overlap, nobody refused or reported without enough uses, detections reported, filled comments stopped |
| `agent` | 2 sites, with and without local scoring, 2 fields, 2 interactions, 2 leavings | one site per page, one event per field, snapshots cover the visit, the rules fetch ends |
| `dashboard` | 2 sites, 1 event, the 2 list calls of a mount in StrictMode and 1 more call, 2 loads, power loss | what is shown is the selected site's and current, the spinner follows the last load, the selected site is listed |

*Why the bounds are enough.* Each hazard needs few actors. A stale reload needs
one edit during a call and one after it; the third leaves room for an in-place
save, which is two. Two transactions make an event with its site, the third a
second event to duplicate or lose, and two stops make a crash after a recovery.
The queries compare two events at a time, a session with two events against
another one makes three. Three score requests are the owner of a load, one that
joins and one that comes later; two starts show that nothing survives a
process. A stale answer needs two loads, a stale list the two of the mount or one
of them and a registration, and an event on one of two sites tells their panels
apart. A race needs two workers; with a clock that reaches 2 and a window of
two seconds a limiter's window ends and the next one begins. One exception among
the logins shows what it costs, and a filled login and an API call to a decoy
take a request through every check. Three counted requests are one more than
the WordPress limits, and at second 3 the first of them is out of the window
while what was written after it is not. `MaxCounted` bounds `run`, too, which
uses that throw would raise for ever.

A page needs two leavings to be left, shown and left again, two interactions to
have one on either side of the first snapshot, two fields so that one may be
reported while the other is not. Workers of the `wordpress` run are symmetric:
its properties are invariants and one action property that treat all alike.

*Deadlock* is checked in every run but `agent` and `dashboard`: the bounded actions stop, but a
poll, a duplicate request, a checkpoint, an edit of the disk or a request that
no limit counts is always possible. A page that is gone does nothing, so `agent`
has `CHECK_DEADLOCK FALSE`, and so has `dashboard`: a page whose bounded calls and
loads are over rests when there is nothing to select.

## Fairness

- `RuleReload`: `WF(ReloadCall)`. The embedding program polls and a call once
  made runs on. Needed by `EditsReachMemory`. Nothing makes the operator act,
  and nothing makes a program whose first load failed try again.
- `ScoreEndpoint`: `WF(EngineStep)`. Node runs its microtasks, and an import
  ends with a module or an exception. Needed by `EveryRequestAnswered`. Nothing
  makes requests arrive, processes stop or start.
- `LaravelMiddleware`: `WF(Handle(w))` for each worker. PHP code runs on, and
  the HTTP calls have timeouts. Needed by `DetectionsAreReported`.
- `Agent`: `WF(RulesTimeout)`. A timer that is armed fires in a page that stays
  on the screen. Needed by `RulesFetchEnds`. Nothing makes a server answer, a
  visitor act or a page stay.
- All other specifications have no fairness and only safety properties.

## Proofs

`RuleReload_proofs` proves, for all contents, edits and clocks and for file
systems with and without mtimes (`FsReportsMtime`, TRUE in the run):

- `TypeCorrect`: `[]TypeOK`. It needs no strengthening: `TypeOK` itself says
  that the rules exist once a load has succeeded (`pc = "idle" => mem # None`).
- `SkipIsSafe`: `[]SkippedOnlyWhenCurrent`. Not inductive: a load that ends
  compares what it installs with a file it read earlier. `BufCurrent` says that
  the buffer is never newer than the file and is the file unless `dirty`;
  `MemBehind` says that the rules in memory are never newer than the file, that
  they are the file's own only while its mtime is the one remembered, and that
  a call past its first stat is about to install something newer.
- `NoRegress`: `ReloadNeverRegresses`, an action property, from the last part
  of `MemBehind`: equal versions have equal mtimes, so the first stat stops a
  call that has nothing newer to read.

`ReportingApi_proofs` proves, for all sites, events and requests:

- `TypeCorrect`, `Intact` (`Integrity`) from its parts `CountedOnce` and
  `NoOrphans`, `Honest` (`AnswersHonest`), `CheckpointStays`, `Implements`
  (`ImplementsEventLog`) and `Consistency`, which carries `Consistent` of
  `EventLog` over to the tables. Two lemmas
  about `EventsIn` and `SitesIn` say what appending a row and cutting to a
  prefix do to the sets of rows; the invariants then follow action by action.
  `AnswersHonest` needs the history variable `forgotten`: what a power loss
  took back. The refinement maps an insert to `Accept` or `Register`, a
  checkpoint to `Harden`, a power loss to `PowerLoss` and everything else to a
  stutter. `PowerLoss` demands that no event outlives its site, and that is
  exactly the second half of `Integrity` in the prefix that is left.

`ScoreEndpoint_proofs` proves, for all requests, rules files and bounds:

- `TypeCorrect` (`TypeOK`), `Once` (`LoadedOnce`), `Fresh`
  (`AsFreshAsTheRequest`) and `OneVerdict` (`EngineVerdictStays`). The invariant
  `IInv` adds three facts: `LoadCounted` ties the number of loads to the two
  variables of engine.ts (0 exactly while there is neither a verdict nor a load
  in flight), `OneOrTheOther` says that a load is only in flight while there is
  no verdict, and `HandlersFresh` that every suspended handler, awaiting or
  ready, holds rules no older than its request. The last is what makes
  freshness survive the await; the first two are why `cached` is written once.
- `NeverBack` (`ScoresNeverGoBack`). `OrderInv` says that of two suspended
  handlers the later holds rules no older, that none holds rules newer than the
  file or older than a score already answered, and that a handler is ready only
  once there is a verdict, after which nobody awaits any more.

`EventQueries_proofs` proves, for every table, clock and length of a second in
units, from `TableInv` (the table is finite and has what clients sent):

- `Window` (`WindowWithinASecond`) and `List` (`ListWithinASecond`). The heart
  is two lemmas about `TextKey`, the order of the text: what sorts no earlier is
  less than a second older (`SortedLater`), and a time with milliseconds sorts
  before all that is no older (`NewerSortsLater`). What a query selects then
  lies between two sets of events given by instants. `ListExists` shows that
  there is a list for every filter and limit, so that `List`, which speaks of
  every order among equal timestamps, never speaks of none.
- `SummaryAgrees` (`SummaryAddsUp`): every event has one type and every session
  one band, and classes that share nothing add up to the whole (`ClassesAddUp`).
- `NeverCleared` (`LateEventsNeverClear`), an action property, for any table,
  positive deltas included. What a step adds to a window, its deltas not lifting
  the score, can only lower the sum of a session (`SumOfPart`), and a score
  between the bounds follows its sum (`WorseStays`), so that the likely bots
  before the step are among those after it (`MoreBots`).
- `Honeypot` (`HoneypotIsBot`): one honeypot brings the sum of a session to -80
  or less when its deltas are the clients' (`CaughtInBand`), and, whatever they
  are, for the engine, with the weights of core-rules.yaml and
  whichever order `SetToSeq` gives the events, the penalty to 80 or more
  (`EngineCatches`).

The same module has the theorems about `ScoringSession`, for any rules and any
session, as they rest on the same sums; `Session` is its instance of that
module, and each theorem assumes `SessionAssumption`:

- `SessionTyped`: rules in use are always valid ones (`SessionIInv`).
- `Reference` (`ScoreIsReference`) and `Attribution` (`TriggeredIdsAttribute`).
  Both are `TriggerTotal`: for any measure of the rules, the two nested loops
  push rules that add up to the measure of each rule times the occurrences of
  its signal. With the weights as measure this is the reference score; with the
  measure that is 1 for one id it counts that id, and unique ids leave one rule
  to count.
- `ScoreNeverRises`: while the rules stay, a further signal never raises the
  score.

Sums and loops are recursive functions over subsets of a finite set (`FoldLeft`
and `SumFunction` of the community modules). Their lemmas are proved by
induction without an induction theorem: strict inclusion is well-founded on the
subsets of a finite set, so that there is a smallest counterexample
(`SmallestSubset`), and removing an element of it gives a smaller one. From that
follow that the recursive functions exist (`Recursion`), that a sum does not
depend on the order in which it is taken (`SumRemove`), and the rest.

`LaravelMiddleware_proofs` proves, for any number of workers, limits and
windows, with a cache and a reporter that may throw:

- `TypeCorrect`, `FilledStopped` (`FilledFormPassesOnlyByThrow`) from
  `FilledHeld`: a worker past the honeypot check has a filled form only when that
  very check threw.
- `Overshoot` (`AtMostMaxPlusRacing`). `CounterExact` says that the counter of a
  running window is the number of logins counted in it; those that an exception
  let through come on top. `Bounded`, that the
  counter and the workers between check and hit together stay below the maximum
  and the number of workers. A worker enters that gap only while the counter is
  below the maximum, and then there is one worker at least that is not in it.
- `RefusedInTime` (`NeverRefusedEarly`), an action property from the same
  invariant: the limiter's window lies within the last `Window` seconds.

`WordPressPlugin_proofs` proves, for any number of workers, limits and windows:

- `TypeCorrect`, `FilledStopped` (`FilledCommentNeverPosted`) and `Reports`
  (`EveryDetectionReported`): `Endings` says with what a worker gets to the steps
  that a detection ends at.
- `RefusedInTime` (`NeverRefusedEarly`): `CountsEarned` says that a transient
  expires at most a window after it was last written and counts until then at
  most the uses of its run (`run`), and that a count which a worker has read and
  not written yet is below that. A run falls only when nobody uses the counter
  and the transient has expired (`Used`), and so takes nothing from the others
  (`OthersEarned`).
- `SerialClients` (`SerialClientsReported`). `SerialInv` says, as long as there
  is no excuse, that at most one worker has a login and one a REST request
  (`Alone`); that the transient outlives every failure it has to count and has
  them all counted (`LoginsCounted`), but for the one that a worker is about to
  write (`LastUncounted`); and the same of the REST counter. That every write
  starts the expiry anew is what makes a limit hold in windows of any position.

`Agent_proofs` proves, for all sites, fields and bounds:

- `TypeCorrect`, `FirstSite` (`OneSitePerPage`), `ReportedOnce`
  (`FieldReportedOnce`) and `VisitCovered` (`SnapshotsCoverTheVisit`). In
  `SentInv` a field that was reported is triggered, a page without a
  configuration has sent nothing, and the snapshots sent together with those
  that timer and listener are still armed for are at most two (`Armed`).

`Dashboard_proofs` proves, for all sites, requests and bounds, with answers in
any order, failures and power losses:

- `TypeCorrect`, `Current` (`ShownIsCurrent`) and `Spinner` (`SpinnerHasALoad`)
  from `LoadInv`: only runs of the effect have loads, that of the last run is
  for the site it ran for and its answers contain `asOf`, and so does what is
  on the screen once it has succeeded.
- `Listed` (`SelectedIsListed`) from `PickerInv`: without an excuse, a site that
  was registered from this page is on the server, and in every list that the
  server gives for that registration.

The proofs assume the ASSUMEs of the modules (contents and payloads are
distinct from the markers, request and content sets are disjoint, bounds are
naturals, the default of ?limit is within its cap), which TLC evaluates in the runs. Every invariant and every
action property of the runs, and the refinement of `EventLog`, is a theorem.
Model-checked only is liveness (`EditsReachMemory`, `EveryRequestAnswered`,
`DetectionsAreReported`, `RulesFetchEnds`): liveness under fairness and ENABLED
are out of TLAPS's reach here.

## Where the code and its documentation differ

Three statements are refuted by a run of their own.

1. `rules.rs:277`: the order of read and stat is said to make a newer mtime
   than the content impossible. It is the order that makes it possible
   (`reload_mtime`): an edit in between is never loaded until the next edit.
2. `db/index.ts:103`: "Loses at most the last transaction on OS crash". It may
   lose all since the last checkpoint (`ingest_os_crash`).
3. `docs/api-reference.md:378`: an uncaught exception is answered with 500. In
   POST /score it is an unhandled rejection that ends Node (`score_throw`).

Others were met while modelling; the modules follow the code.

- `rules.rs:112`: an mtime that is not reported is said to mean "always
  reload"; `reload_if_changed` returns an error.
- `rules.rs:185`: a reload never leaves the engine worse off; a file read in
  the middle of an in-place save parses to the empty rule set and is installed
  until the next poll.
- `scoring.rs:65`: `triggered_rule_ids` in the order of the rules file; they
  are in the order of the signals.
- `docs/architecture.md:86`: the backup is a copy of the database file, which
  lacks what is only in the log.
- `docs/api-reference.md:263`: most recent first; the order is that of the
  text, in which "05Z" comes after "05.250Z". `ListWithinASecond` is what holds.
- `core-rules.yaml:3`: weights are nowhere else; the summary's bands use the
  deltas of the clients, with other values.
- `validators.ts:59`: served rules deserialize on the WASM side; a weight over
  u32::MAX or an id of blanks does not (the `score` run has such a file).
- `docs/security.md:24`: 5 failed attempts per 5 minutes. WordPress workers
  that race check more: both read the count before either writes it. Every
  failure renews the expiry there, so that an attempt may be refused although no
  5 minutes had 5 failures in them: `NeverRefusedEarly` says that it takes 5 in a
  row without a pause of 5 minutes, where a failure lasts from its read to its
  write. Laravel's window is fixed, so nearly twice the maximum fits around its
  end, and it counts successful logins, too. `AtMostMaxPlusRacing` is stated per
  window of the limiter.
- `reverseshield.php:326`, `:138` and `docs/security.md:23`: the WP_Error of the
  login limiter is said to short-circuit the login before credentials are
  checked. At priority 5 it does not: WordPress's check at priority 20 skips
  for a WP_User only, so that passwords are checked past the limit, and the
  right one logs in. What holds is that such an attempt is reported
  (`SerialClientsReported`, `EveryDetectionReported`).
- `packages/middleware-laravel/README.md:125`: a detected breach is still
  refused with 429 and a filled honeypot with 403; not when the cache fails in
  `availableIn` or a bound reporter throws (`Throw`). For the honeypot the same
  README lists it among the failures that let requests through, and
  `FailOpenTest.php:92` expects it: `FilledFormPassesOnlyByThrow` names the case.
- `validators.ts:40`: `score_delta` is any integer, documented as one that
  reduces trust (`reverseshield.php:442`); a positive one lifts the score of a
  session in the summary and may clear it. `LateEventsNeverClear` says that
  nothing else does.
- `packages/middleware-wordpress/README.md:54`: requests that fill a honeypot
  are blocked; the field in the login form is never looked at.
- `docs/architecture.md:48` and `:52`: the agent keeps its session id in a
  cookie and batches events; the id lives as long as the page, and every event
  is sent at once.
- `docs/architecture.md:152`: the telemetry is flushed on `pagehide`; the
  listener is registered with `once`, so a page that comes back from the
  back/forward cache sends nothing when it is left again.
  `SnapshotsCoverTheVisit` speaks of the first leaving.
- `docs/architecture.md:99`: the panels are for the selected site. A load that
  fails leaves those of the site before under the new selection, with an error
  above them. `ShownIsCurrent` excepts pages that show an error.
- `docs/architecture.md:98`: lists registered sites. When the first list fails
  and a registration follows, the effect for the new site clears the error of
  the list: an empty picker, and nothing that says why.
- `App.tsx:49`: `refreshSites` tests the `selectedSiteId` of the render that
  called it. The mount's list, when it comes late, takes the selection to the
  first site although the viewer has chosen another one by then.
- `docs/api-reference.md:392`: of the endpoints under /api/v1 only the events
  endpoint allows any origin; score and rules.json do so, too. The answer to the
  Private Network Access preflight (line 402) is in no code.
- Laravel's middleware, when it is global, and its decoy routes run without a
  started session, so that each event has a new session id
  (`EventReporter::getSessionId`) and `LateEventsNeverClear` is about sessions
  of one event.

## Not modelled

Text formats (JSON, YAML, ISO-8601 beyond the order of the two formats used),
HTML and snippet injection, CORS and headers, logging, environment variables,
Retry-After; timestamps with offsets and sums of deltas beyond 64 bits; the names
of honeypot fields and canary tokens; configs that `init` refuses and calls
outside a browser; the form, the install snippet and the layout of the
dashboard. These hold no state that the properties are about, or are input that
no client of this repository makes.

The session ids that WordPress and Laravel events carry are not modelled:
`get_session_id` sets a cookie that its own request does not see, so that two
calls in one request may give two ids, and Laravel falls back to a new one. No
document of the repository promises more than that events have one, so there is
nothing to check them against. `routes/recommendations.ts` is a stub,
`canary.rs` and `event.rs` are empty files, and the directories
`packages/bindings-php`, `middleware-express`, `middleware-django` and
`proxy-standalone` are empty.

## Plan

Done, in this order: `RuleReload`, `ReportingApi` with `EventLog`, `Scoring`,
`EventQueries`, `ScoreEndpoint`, `LaravelMiddleware`, `WordPressPlugin`,
`Agent`, `Dashboard`, and the proofs above. What could follow:

1. The session ids of the server packages, once it is decided what a session of
   theirs is meant to be.
2. Configuration reloads of the packages, should they ever be cached between
   requests.
