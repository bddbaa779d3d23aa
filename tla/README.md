# Market Kill3r: a formal model of the backend

TLA+ modules that model the backend in `src/app`, TLC configurations that check
them on small instances, and theorems about them proved with TLAPS. Line
numbers below are those of the files under `src/`.

Contents: [the system](#the-system), [modules](#modules), [runs](#runs),
[bounds](#bounds), [fairness](#fairness), [proofs](#proofs),
[disagreements](#disagreements-with-the-documentation),
[not modelled](#not-modelled), [plan](#plan).

## The system

A FastAPI application over SQLAlchemy: SQLite in development, PostgreSQL in
production (`render.yaml`), one uvicorn process (`Procfile`). Two facts about
it decide what can interleave:

- `def` routes run on a pool of threads, each request with a database session
  of its own (`database/session.py`). Sessions do not flush before a query, and
  PostgreSQL's default isolation is READ COMMITTED, so a handler sees what is
  committed when it queries, not what it has queued itself, and writes
  everything at its commit. An UPDATE of a loaded row names the row's id only.
  A handler is therefore a few atomic steps, one per query and one per commit.
- `async def` routes are coroutines of one event loop and are interrupted only
  where they await. Between two of them synchronous code is atomic; against the
  threads it is not.

No code takes a lock, retries a conflict or compares a version: row locks and
unique keys of the database are the only coordination.

| Component | State | Operations | What must hold |
|---|---|---|---|
| Signal bridge, `api/routes/mt5.py` | `signals`, `trade_executions` | poll pending signals, report an execution | only setups reach the EA; a signal is handed out once; its final status was reported and is kept |
| Analysis persistence, `services/analysis_persistence.py` | `signals`, `analysis_runs` and evidence rows | one commit per run | a new signal is PENDING and untouched |
| Registration, `api/routes/auth.py` | `users`, `registration_codes` | register, resend, verify | approval is bought by a code of one's own; only the newest code is valid; nobody is left without a code |
| Login and sessions, `api/routes/auth.py` | `login_otps`, `refresh_tokens` | login, verify the one-time password, refresh, logout | passwords and tokens are used once; a session has one usable token; logout ends it |
| Notification delivery, `notifications/` | background tasks | Telegram, else e-mail | a reported success is true; what is given up does not arrive later |
| Confluence, `engine/pipeline.py` | none | classify a market | a setup is supported by technical evidence; no side is preferred; every input is classified |
| Bar store, `services/bar_ingest.py`, `mt5.py` ingest, `analysis.py` `_load_bars` | `market_bars` | ingest a payload, backfill, read | all or nothing; accepted bars are stored; an analysis reads what it fetched |
| Rate limiter, `api/middleware/rate_limit.py` | a deque per client | dispatch | no window lets more through; insisting does not lock out |
| Detectors, `engine/*.py` | none | swings, structure, blocks, gaps, sweeps, divergence | no look-ahead; the past is not revised |
| Analysis request, `api/routes/analysis.py` | none of its own | backfill, read, calendar, news, classify, store | the stored signal belongs to what was read |
| Economic calendar, `services/economic_calendar.py` | none | upcoming events, blackout | the blackout covers both sides of an event |
| Providers, news, AI text, read-only routes, set-up | none | HTTP and tables | inputs of the others |

How they interact: the EA and the providers fill the bar store; an analysis
request tops it up, reads it, classifies the market and stores a signal; the EA
polls the signal and reports on it. Registration produces the accounts that log
in. The rate limiter stands in front of every route. They share the database
and nothing else.

The behaviours that are hard to test here are listed, line by line, as
`hazards` in `PROJECT.json`, each with the properties that would catch it. In
short: reads followed by a commit in another step (bridge, one-time passwords,
refresh); commits that undo or split what belongs together (issuing a code,
verify-otp); responses and deliveries that are lost; two feeds of one table;
ties and thresholds of the classification.

## Modules

| Module | Models | Extended by |
|---|---|---|
| `SignalBridge` | `pending_signals`, `execution_report`, the signal of `persist_analysis`; the EA as environment | `MCSignalBridge`, `SignalBridgeProofs` |
| `SignalBridgeProofs` | theorems about `SignalBridge` | |
| `Registration` | `register`, `resend_registration_notice`, `verify_registration`, `_create_and_send_registration_code` | `MCRegistration`, `RegistrationProofs` |
| `LoginSession` | `login`, `verify_login_otp`, `_issue_tokens`, `refresh`, `logout` | `MCLoginSession`, `LoginSessionProofs` |
| `Courier` | what `Registration` and `LoginSession` assume of delivery: a code handed over arrives once or is given up | `Delivery` (INSTANCE) |
| `Delivery` | the background tasks of `notifications/`: Telegram, else e-mail | `MCDelivery`, `EdgeProofs` |
| `Confluence` | the classification of `analyze_multi_timeframe` | `MCConfluence`, `ConfluenceProofs`; `Pipeline` (INSTANCE) |
| `ConfluenceProofs` | theorems about `Confluence` | |
| `LiveStructure` | what `structure.py` promises: market structure as bars arrive | `Detectors` (INSTANCE) |
| `Detectors` | swings, structure, displacement, gaps, blocks and sweeps of `engine/` | `Pipeline` |
| `Pipeline` | `Detectors` and `Confluence` composed on one timeframe; divergence, dealing range, swing labels, entry zone and levels | `MCPipeline`, `PipelineProofs` |
| `PipelineProofs` | theorems about `Detectors` and `Pipeline` | |
| `BarStore` | `ingest`, `upsert_market_bars`, `ensure_recent_bars`, `_load_bars` | `MCBarStore`, `BarStoreProofs` |
| `AnalysisRun` | the awaits of `run_analysis`, with `get_upcoming_events` and `is_blackout_window` | `MCAnalysisRun`, `AnalysisRunProofs` |
| `RateLimit` | `RateLimitMiddleware.dispatch` | `MCRateLimit`, `EdgeProofs` |
| `RegistrationProofs`, `LoginSessionProofs`, `BarStoreProofs`, `AnalysisRunProofs` | theorems about these modules | |
| `EdgeProofs` | theorems about `RateLimit` and `Delivery`, the two ends of the service | |

Conventions. A request is a slot whose `pc` names the point in the handler it
has reached and whose other fields are the local variables it will still use;
a `...Read` action is the handler up to its commit, `...Commit` is the commit
and what follows. `Killed`, `...Abort` and `...Lost` are a process that dies or
a connection that breaks. Variables marked *history* are not in the code; no
guard reads them. An operator whose comment begins with "Variant" is a
plausible mistake in the definition below it; nothing uses it, and
`PROJECT.json` (`mutants`) pairs it with the property that must fail when it
takes that definition's place.

**SignalBridge.** `signal` is the table (status, setup_status, direction,
symbol; the ids are ordered like `created_at`), `executions` the statuses of a
signal's `trade_executions` rows. `poll` and `report` are the requests in
flight. `PollRead` is the query (135-142), `PollCommit` the loop and commit
(146-148), `PollReply` / `PollReplyLost` the response. `ReportRead` is `db.get`,
`ReportCommit` inserts the execution and writes the status, unless it equals the
one loaded, in which case the ORM issues no UPDATE. The EA is external: it acts
on every signal it receives, and reports what happened, several times and in any
order if it likes. It polls with or without a symbol.

**Registration.** `account` is `users`, `code` is `registration_codes`; codes
are numbered as they are committed. The transaction that issues a code is
modelled statement by statement because its UPDATE holds row locks: `RevokeStart`
picks the rows, `RevokeRow` locks them one by one, `IssueCommit` inserts and
commits, `IssueRollback` is a failed commit, which gives up the revocations as
well; the next attempt inserts only, as the loop does. `VerifyCommit` waits for
a locked row. Delivery is the background task; a failed one is not repeated.

**LoginSession.** `otp` is `login_otps`, `token` is `refresh_tokens` (a token is
its row, its signature is always good); `parent` and `code` of a token, and
`redeemed`, `ended` and `contested`, are history. `contested` collects the rows
that one request read while another had read them and not yet committed: the
properties that hold for undisturbed rows are stated for the others. verify-otp
is two transactions, `RedeemCommit` and `IssueTokens`. Suspension
(`users.is_active`) is an operator's update; no code makes it.

**Confluence.** Evidence is what the classification reads: per timeframe the
direction of the last structure event; which directions have an unmitigated
block or an unfilled gap, on any timeframe and on the primary one; sweeps, zone,
displacement, divergence, session hour, news and blackout. `Possible` keeps the
combinations the detectors can produce (a block needs a structure event and a
displacement candle of its timeframe, a gap a displacement candle). The analysis
is a pure function, so the specification is one step from any evidence to its
result. Confidence is kept in quarter points: 0.75 of a whole score is exact.

**Detectors.** `bars` is the series of one timeframe, `analysis` what the
detectors make of it (and the two protected swings the loop of `structure.py`
ends with). The detectors are functions of the whole series; `NewBar` appends a
bar and analyses again, so that successive analyses can be compared. Prices are
ticks and the tolerance of the liquidity levels, a percentage in the code, a
distance. `LiveStructure` is the abstract specification: an observer who holds
the last `2 * Lookback + 1` bars and two levels. `ImplementsLiveStructure` maps
the tail of `bars`, the protected swings, the trend and the events to its
variables, so the batch computation cannot have looked ahead.
`ClosesStayBetweenLevels` shows that a close never lies beyond both levels: the
tie rule at `structure.py:75-79` is dead code. `Learned` are the swings a bar
confirms, `by_confirmation` in the code; `Before` is the slice of bars whose
average range a candle is measured against.

**Pipeline.** `evidence` is what the classification reads and `result` the
`AnalysisResult`, for one timeframe, which is `analyze` of
`engine/confluence.py`. `PipelineNext` is a new bar and the whole analysis of
the series, with `Confluence` instantiated on the evidence. `market` is the
correlated symbol's series; bar `i` of both is taken to be of the same time, as
the code compares times. A separate query loads each series, so in production
the other one may lack the newest bar, which is the same as a shorter `Printed`.
The last bar is in a session and there are no news and no event; `Confluence`
and `AnalysisRun` cover these. Levels are kept in twentieths of a tick, so that
the midpoint of a zone and a tenth of its width are exact; the smallest width,
a share of the price in the code, is a distance. `EvidenceIsPossible` discharges
for one timeframe what `Confluence!Possible` assumes, and
`ImplementsLiveStructure` and the other properties of `Detectors` are checked
here, on the same markets.

**Delivery.** `task` is the background task of each code, numbered in the order
of the commits. A post is on the `wire` until Telegram takes or refuses it, and
the task may have stopped waiting by then: `NotConfirmed` is the timeout as well
as a bad answer. An answer may be lost or be a 2xx without `ok` ("odd"). A mail
server may have accepted a message whose session then breaks
(`EmailUnconfirmed`). Tasks live in memory: `Crash` ends them, while the wire
goes on. The chat and the inbox are the administrator's; the e-mail of a
one-time password goes to the user, which changes nothing here. `Courier` is the
abstract specification and what `Deliver` and `DeliveryFails` of the two
authentication modules stand for; the mapping takes a code for delivered when it
is in either place, and for on its way while its task or its post is.

**BarStore.** One symbol and timeframe, since every query names both. `store`
says which request inserted a bar. A request is answered once and keeps its last
state. `LookUp` is one SELECT, `Commit` / `CommitFails` the flush of all queued
rows against the unique key. `LoopFree` is the event loop: an analysis does not
take a step while another is between two awaits. Prices are the OHLC check only.

**AnalysisRun.** `run` is the frame of each coroutine of `run_analysis`, `pc`
the await it is at; `latest` the newest bar of each timeframe, `signals` what
was stored, with the frame it was stored from. One action per step between two
awaits: the two calls of the calendar (`ListEvents`, `CheckBlackout`) read the
clock separately and send requests of their own. Each request falls back by
itself from JBlanked to FMP (`Told`), and each feed may answer each call with any
list, or fail: the feeds need not know the same events, and one may revise its
list in between. `listReport` and `testReport` keep what the calls were told,
`listedAt` and `checkedAt` when. The rest of the evidence is free,
so `Classify` may give any result the blackout allows; `Confluence` has the
details. The correlated symbol's bars are read like the others and left out.

**RateLimit.** One step per request. The loop of `popleft` is the part of the
deque from its first young entry on. Time is in ticks; `admitted` and `response`
are history.

## Runs

Every run is an `MC` module with a `.cfg`; the properties are described where
they are defined.

| Run | Question | Result |
|---|---|---|
| `signalbridge_safety` | two polls and a report interleave, one killed or one response lost: does the EA see only setups, is a PENDING row unknown downstream, is a final status one that was reported, does no status return to PENDING, is the number of hand-outs bounded by the polls at once | holds |
| `signalbridge_live` | one poll at a time: is a signal handed out once, does it keep a final status, does every setup reach an EA that keeps polling | holds |
| `signalbridge_twice` | two polls at once: is a signal handed out once, as the comment says | violated |
| `analysisrun_safety` | two analyses of two timeframes around an event, with a feed of bars, a provider and two calendar feeds that may fail or answer each call differently, requests that die: can only the awaits after the blackout test make a setup late, does a stored list contradict the blackout only over an event that one of the two calls was not told of, do successive analyses never go back to older bars | holds |
| `analysisrun_blackout` | one analysis: is there no setup in the whole window around an event | violated |
| `registration_safety` | two requests at once, a failed commit, a killed request: are approval and the used code one fact, has a revoked code a newer one, is approval kept, does every wait for a row lock end | holds |
| `loginsession_safety` | two requests at once, two passwords, three tokens, a fault: do sessions go back to consumed passwords, does rotation leave no usable predecessor, and do single use, one usable token and the end by logout hold for every row that two requests do not use at once | holds |
| `confluence_safety` | all evidence on two timeframes: does technical evidence favour a setup's direction without the news, is the mirrored market classified as the mirror image, does more evidence keep a setup | holds |
| `delivery_safety` | three codes, any channels configured, replies lost, late or odd, a crash: is a reported success true, is delivery what the authentication modules assume, does every task end | holds |
| `pipeline_safety` | every market of six bars out of seven shapes beside two correlated ones: does the batch structure implement the observer of one bar at a time, is nothing said of the past revised except fills and mitigations by the new bar, do closes stay between the protected levels, does dropping the oldest bar disturb only the left edge, is the evidence what `Confluence` assumes, is a divergence settled until the primary has a new swing, can only a leap of the market leave a setup beyond its stop | holds |
| `barstore_safety` | a payload and two analyses, bars malformed or repeated: all or nothing, accepted bars stored, fetched bars read, backfills separate | holds |
| `ratelimit_window` | no window of `window_seconds`, wherever it begins, lets more than `max_requests` through; a client is refused only for requests that got through | holds |

Deadlock is checked in all runs but those of `Confluence`, where a
classification ends, `Pipeline`, whose series is bounded, `Delivery`, where all
tasks may have ended, and `BarStore` and `AnalysisRun`, where each of the given
requests is answered once.

No type invariant belongs to a run, as they say little. Those of `SignalBridge`,
`AnalysisRun`, `Detectors`, `Registration`, `LoginSession`, `BarStore`,
`RateLimit` and `Delivery` are proved, the first three as theorems of their own
and the others as a conjunct of the inductive invariant; that of `Confluence`
holds when added to the configuration.

## Bounds

- *Concurrency.* Two requests of a kind at once. All handlers read and commit
  once per row, so a conflict is between a reader and one commit; a third
  request repeats one of the two roles. The hand-out bounds of the bridge are
  proved for any number.
- *Rows.* Two signals and LIMIT 1 make a query leave a row behind. Four codes
  let two requests revoke two codes each, the smallest case in which the order
  of row locks matters. Three tokens allow two rotations and a race for one.
- *Faults.* `MaxFaults` and `MaxRollbacks` bound killed requests, lost responses
  and failed commits; one is enough to separate two commits or to lose a
  revocation.
- *Ids.* `CodeLeft`, `OtpLeft`, `TokenLeft` let a request start only if it will
  find a free id, so that no request is stuck for want of one.
- *Evidence.* Two timeframes have ties and a non-primary one. News takes a value
  at the threshold on one side and one beyond it on the other: at the threshold
  the two news factors differ. The minimum confidence of 20 admits weak setups,
  where the margin of the conflict test matters most.
- *Evidence, left out.* At most one direction of divergence, and a blackout only
  outside the session and without divergence (`MCConfluence!Studied`): a blackout
  rules a setup out whatever else holds.
- *Series.* Six bars at `Lookback` 1 (the tests' value; the default is 2) reach
  two events, a CHoCH, a block mitigated, a gap filled, sweeps of both sides, and
  setups of both directions with a block and with a gap. The shapes have quiet
  bars, displacement both ways and wicks both ways; with `Tolerance` 2, unequal
  highs form one level. `RangeWindow` 2 and `RangeBars` 5 let bars leave the
  average and the dealing range within the series; `SearchWindow` 4 lets a block
  be looked for before the swing. A `MinConfidence` of 45 makes some setups fail
  it.
- *Correlated market.* One series has swings of both kinds all along, the other
  gets its second swing with its last bar: a comparison may be possible from the
  start or become so late.
- *Leaps.* Seven shapes reach a market that opens beyond a block. `JumpShapes`
  are larger leaps, with which a block may be older than the swing and lie
  beyond it: the exception `IsOld` of `StoppedByJumpOnly`. They are for the
  definitions below whose configuration names them; `StoppedByJumpOnly` holds
  with them too.
- *Delivery.* Three tasks are one more than a conflict needs, so that a third
  can be posted between; one crash may hit them in any states.
- *Bars.* Two times and two bars a batch give a hit, a miss, a repetition and a
  malformed row; `BarLimit` 1 makes the read leave a bar out; `StaleAfter` 0
  makes the older time stale.
- *Clock.* In `AnalysisRun` a tick is half an hour: the window opens one tick
  before the event and closes one after, the test looks two ticks ahead
  (`Soon`), and so does the list (`Ahead`; 60 minutes and 24 hours in the code).
  Bars are there from tick 1 on. The event is at 4 and the clock ends at 3, so
  that analyses run before and in its run-up, and the hypothesis of
  `ContradictionIsInTheReports` can fail: a test at 3 finds the event that a list
  of tick 1 does not reach. In `analysisrun_blackout` the event is at 3 and the
  clock ends one tick later, inside the second half of the window. Awaits may
  last a tick, far longer than a request does, which only adds behaviours.
- *Calendar.* One event suffices for two reports that differ, with it and without
  it, and for an unanswered call, which is told of none; the theorems are for any
  events.
- *Window.* Two requests per window of two ticks and seven ticks: three windows
  and every alignment of them.

## Fairness

`SignalBridge!Fairness`: a request the server has accepted commits or dies, and
its response arrives or is lost (weak fairness of each); the EA polls again and
again without a symbol, acts on what it received and reports it (strong
fairness, as the slot of a request may be busy in between). Nothing is assumed
about polls with a symbol, reports succeeding, or new signals.
`EverySetupIsHandedOut` is for a finite number of signals: a stream of new
setups that fills every response would starve an old one.

`Registration!Fairness`: the server goes on with a request it has accepted, with
strong fairness because a lock may be taken and released repeatedly and the
database queues its waiters. Nothing is assumed about new requests or delivery.

`Delivery!Fairness`: a thread of the pool goes on with its task (weak fairness).
Nothing is assumed about Telegram or the mail server: the task stops waiting
after 15 seconds of silence (`telegram.py:71`, `email.py:45`), so that a step of it is
always possible. The timeouts are those of one socket operation: a server that
goes on sending a byte now and then keeps the task for as long as it likes, and
is outside what `EveryTaskEnds` says.

## Proofs

`SignalBridgeProofs` holds for every set of signals, symbols, requests, limit
and number of faults. The assumptions are those of `ConstantsAssumption`; the
last two theorems assume a single poller.

The invariant `IInv` adds to type correctness what the handlers carry between
their steps: a batch in the hands of a poll, a signal the EA received, an event
or an execution all belong to rows that are past "none" (and past PENDING, once
a poll has committed), and such rows are directional setups. `PendingIsUntouched`
alone is not inductive: a poll that has committed and not yet replied, or a
report that has read and not yet committed, would break it in the next step.
Rows only advance (`RowsOnlyAdvance`), which gives the action property. The
bound on hand-outs is a second induction: a commit moves one poll from "in
flight" to "handed out", a read adds one poll in flight and is possible only
while the row is PENDING, when nothing was handed out. With one poller the bound
is 1, and no stale acknowledgement can follow a report.

`ConfluenceProofs` holds for every set of timeframes, every evidence and every
minimum confidence. `NewsNeverDecides`: a setup's direction has the stronger
technical evidence. The argument is arithmetic: the two news factors are worth
10 points together, which is the margin below which the scores conflict, and a
setup has the structure factor and two more technical hits, so that its
technical score also exceeds the fixed floor of 20. `Mirrored`: the mirrored
evidence has each side's factors and score exchanged, and no tie is broken
towards a side. `EvidenceHelps`: a factor more adds its weight to one score
(`MoreSum`), which raises the confidence, keeps the scores apart and takes no
factor away, so that the setup stays one (`SetupStays`).

`RegistrationProofs` holds for any accounts, codes, finite set of requests, failed
commits, attempts and faults. Two facts make its invariant inductive: a request that
accepts or revokes carries rows of its own account (`AcceptsOwn`,
`IssuesTouchOwn`), also after a wait for their locks; and ids are handed out in
order (`IssuedAreFirst`), so that the code that is inserted is newer than those
its transaction revokes. `WaitsAreOrdered` is the safety half of `RequestsEnd`:
a transaction locks rows in the order of their ids (`LocksInOrder`), so the row
that a waiting request needs lies before the row that the holder needs; if all
of some requests waited for each other, these rows would ascend for ever, while
the requests are finitely many.

`LoginSessionProofs` holds for any users, passwords, tokens, finite set of
requests and faults, with one-time passwords on or off. What a request has read
of a row's owner stays true whatever is committed meanwhile (`RequestsSound`),
which gives the first two theorems. The bound on redemptions counts: the requests that
hold a password and the redemptions it had are together at most the requests,
as a password can be read only while it is unused. Single use, one live token
and the end by logout are about uncontested rows: such a row is with one request
at most, first to be redeemed and then to open the session (`OtpUsedByOne`), or
to be rotated or ended (`TokenUsedByOne`); hence a login has one token that is
not revoked (`OneUnrevoked`), and none after a logout (`EndedIsRevoked`), which
says more than "usable" and is what survives a token's expiry.

`BarStoreProofs` holds for any bar times, payloads, analyses and limits.
`ScanSound` says what a half-done scan means: each sane bar looked up so far was
stored or is queued, and nothing else is queued. The event loop is held by one
analysis at most (`OneOnLoop`), so that while it scans only ingests store any of
its bars (`QueuedByAnalysis`) and after its commit what it fetched is there
(`LoadsStored`). That the newest `BarLimit` rows are read is a lemma on finite
sets of numbers (`NewestProperties`). `FirstCopyStays` adds that no stored bar
is written again.

`AnalysisRunProofs` holds for any analyses, timeframes, events, windows and any
end of the clock. The frame of a request is the record that ends up in the
signal, so the invariant says one thing of a record (`LocalInv`) and says it of
the frames and of the signals' copies: the list and the blackout follow from what
their calls were told and when (`Tested`), what was read is stored (`Rests`) and is as
new as what every signal rests on that was there before the request (`Newer`).
Each of these survives the growth of the clock, the bars and the signals, and
each action is then a statement about one record. Nothing is assumed about
how the two reports of an analysis are related: `ReportsAreEvents` is all that is
used of the feeds. `ContradictionInReports` needs that
the test follows the list by at most `Ahead - Before`, 23.5 hours in the code:
the property fails without it, as a later test sees further than the list.

`EdgeProofs`, of the limiter, holds for any clients, limit and window. The deque is the end
of the list of admitted requests, and what it has forgotten is older than the
window (`Faithful`); a request is let through only if the deque is shorter than the
limit, so that the one `max_requests` before it has been forgotten (`Spaced`).
The bound follows for a window laid anywhere: the admitted requests in it are
consecutive, fewer than any stretch that is `Spaced`.

`EdgeProofs`, of the delivery, holds for any set of codes and any number of
crashes.
`SuccessTrue` states `SuccessIsTrue`: its induction needs that Telegram's "ok"
is in the chat already, that a post on the wire is unanswered, and that a mailed
code's task has ended. `DeliveryImplementsCourier` states `ImplementsCourier`:
with the same invariant every step is one of `Courier` or a stutter. The
arrival of a code that the other channel had brought before is a stutter; giving
up the task of a post that is still on the wire is one as well, and the crash
gives up all tasks without a post at once.

`PipelineProofs` holds for any set of bars the market can print, of any length,
any windows, lookback, tolerance and thresholds. Two difficulties decide its
shape.

*Structure is a recursion over the series*, and the provers cannot do an
induction over data. The specification does the induction instead: the market
grows by a bar at a time. `HasWalk` says that the recursive function exists for
the present series, and `WalkGrows` that it then exists for the next one, with
one more turn of the loop. What the loop has found is the rest of the
invariant (`WalkHolds`): no close since the bar of a protected level lies beyond
it, an event is the first close beyond the swing it breaks, and the trend is the
last event's direction.
`ClosesStayBetweenLevels` speaks of the last close only, which is too little for a
turn of the loop: a level that the new bar brings is an older bar's, and the two
levels are in order only because the close before the new bar lay between them.
`NewLevels` is that case: the bars that confirm a swing lie inside it. `NoLookAhead`
adds that the observer's window of `2 * Lookback + 1` bars decides the same swing
(`MiddleOfWindow`), and `BreaksOfSwings` that every level is a reported swing.

*The other detectors are sets picked from the whole series.* A lemma for each says that
on a longer series the same bars qualify (`SwingsOfPrefix`, `GapOfPrefix`,
`BlockOfPrefix`, `SweepsOfPrefix`), hence what is new is the new bar's
(`GapsGrow`, `BlocksGrow`, `SweepsGrow`): this is `NoRepainting`. A first fill
or mitigation is a least element, which stays least (`FirstGrows`). The lemmas
`...Shift` compare with the series without its oldest bar (`TailLacks`) in the same
way, away from the edge: `WindowForgets`.

The pipeline adds what it makes of the evidence. `DivergenceSettled` rests on
swings being finitely many, each at a bar of its own (`LatestIsOne`), and on a
new swing of the other market being later than the primary's last one
(`UpToIsSettled`). `StoppedByJump` goes through the bars from the break to the
last: a gap that was closed through is filled, so it is not active (`GapHolds`);
a block no older than the swing is not behind the close that broke it, and the
first bar that closes beyond it has either touched it or jumped over it
(`BlockIsJumped`); the stop is a tenth of the zone's width further
(`StopIsBeyond`). `OneTimeframeAgrees` shows that two promises `Confluence`
violates (below) are kept when the primary timeframe is the only one, and
`ProfitableTargets` that `TargetsAreProfits` needs no more than a target ratio of
one or more and a smallest zone width above zero, which a share of the price is.

| Module | Theorem | States |
|---|---|---|
| `SignalBridgeProofs` | `TypeCorrect` | `TypeOK` |
| | `PendingUntouched` | `PendingIsUntouched` |
| | `OnlySetups` | `OnlySetupsReachEA` |
| | `PendingOnce` | `NeverPendingAgain` |
| | `OutcomeReported` | `OutcomeWasReported` |
| | `HandoutsBounded` | `HandoutsBoundedByPolls` |
| | `SerialPollsHandOutOnce` | one poller: `HandedOutOnce` |
| | `SerialPollsKeepOutcome` | one poller: `ReportedIsFinal` |
| `RegistrationProofs` | `ApprovedByCode` | `ApprovedByOwnCode` |
| | `RevokedReplaced` | `RevokedWasReplaced` |
| | `ApprovalKept` | `ApprovalIsKept` |
| | `WaitsAreOrdered` | `NoDeadlock`, which also holds when added to the run |
| `LoginSessionProofs` | `SessionConsumedOtp` | `SessionHasConsumedOtp` |
| | `RotationTraceable` | `RotationIsTraceable` |
| | `RedemptionsBounded` | `RedemptionsBoundedByRequests` |
| | `RedeemedOnce` | `RedeemedOnceUnlessContested` |
| | `OneLiveToken` | `OneLiveTokenPerLogin` |
| | `LogoutEnds` | `LogoutEndsSession` |
| `EdgeProofs` | `SuccessTrue` | `SuccessIsTrue` |
| | `DeliveryImplementsCourier` | `ImplementsCourier` |
| `ConfluenceProofs` | `NewsNeverDecides` | `NewsNeverDecidesDirection` |
| | `Mirrored` | `MirrorSymmetry` |
| | `EvidenceHelps` | `MoreEvidenceKeepsSetup` |
| `BarStoreProofs` | `IngestIsAtomic` | `AllOrNothing` |
| | `AcceptedStored` | `AcceptedBarsAreStored` |
| | `ReadsFetched` | `AnalysisReadsWhatItFetched` |
| | `NoBackfillCollision` | `BackfillsDoNotCollide` |
| | `FirstCopyStays` | a stored bar stays, with its first writer |
| `AnalysisRunProofs` | `TypeCorrect` | `TypeOK`: a signal rests on enough stored bars |
| | `LateByAwaits` | `LateOnlyByAwaits` |
| | `ContradictionInReports` | `ContradictionIsInTheReports` |
| | `AnalysesAdvance` | `SequentialAnalysesAdvance` |
| `EdgeProofs` | `Bounded` | `WindowIsBounded` |
| | `RefusedWhenFull` | `RefusedOnlyWhenFull` |
| `PipelineProofs` | `NoLookAhead` | `ImplementsLiveStructure` |
| | `ClosesBetween` | `ClosesStayBetweenLevels` |
| | `NoRepainting` | `NothingIsRepainted` |
| | `WindowForgets` | `WindowForgetsOnlyItsEdge` |
| | `BreaksOfSwings` | every break is of a reported swing |
| | `AnalysisTypes` | `Detectors!TypeOK` |
| | `PossibleEvidence` | `EvidenceIsPossible` |
| | `DivergenceSettled` | `DivergenceIsSettled` |
| | `StoppedByJump` | `StoppedByJumpOnly` |
| | `OneTimeframeAgrees` | one timeframe: `AlwaysClassified`, `BiasAgrees` |
| | `ProfitableTargets` | a target ratio of one or more: `TargetsAreProfits` |
| | `PipelineAnalyses` | the pipeline's analyses are those of `Detectors` |

The assumptions on constants are each module's `ConstantsAssumption` and
`PipelineAssumption`: sizes and
times are naturals, the requests in progress are finitely many where they are
counted or wait for each other, limits are what the settings allow, the values that stand
for "no row" (`NoOne`, `None`) are not ids, the timeframes of a request are a list
without repetitions (`analysis.py:128`).

Of the properties the passing runs check, only liveness
(`EverySetupIsHandedOut`, `RequestsEnd`, `EveryTaskEnds`) has no theorem: the
provers reach neither fairness nor ENABLED. `NoDeadlock` is the safety half of
the second. What the average range adds up to is not proved either, nor needed:
the theorems use that it is the same for the same slice of bars.

## Disagreements with the documentation

Two have a run of their own (`findings` in `PROJECT.json`): overlapping polls
hand out a signal twice; the half of the blackout window after an event never
blocks, because the calendar leaves out what is past.

The modules state further promises the code does not keep. Each is a definition
that TLC refutes when it is added to the named configuration:

| Definition | Configuration | Promise | What happens |
|---|---|---|---|
| `SignalBridge!FillIsNotForgotten` | `SignalBridge_safety` | `models/signal.py:30-31` | an overlapping poll commits ACKNOWLEDGED over EXECUTED |
| `SignalBridge!RejectedWasRefused` | `SignalBridge_safety` | `models/signal.py:33` | "closed" turns EXECUTED into REJECTED |
| `SignalBridge!AcknowledgedEnds` | `SignalBridge_live` | `models/signal.py:32` | nothing sets EXPIRED, a lost response leaves the signal ACKNOWLEDGED |
| `Registration!OnlyNewestIsValid` | `Registration_safety` | `auth.py:92-93` | two resends at once leave two valid codes; so does a commit that fails once, as the next attempt inserts without revoking (`auth.py:112`) |
| `LoginSession!NoLoginWhileSuspended` | `LoginSession_safety` | `models/user.py:43-44` | a password sent before the suspension completes the login after it |
| `LoginSession!OtpRedeemedOnce` | `LoginSession_safety` | `README.md:119-122` | two verifications at once both get tokens |
| `LoginSession!RotatedOnce` | `LoginSession_safety` | `README.md:113-115` | two refreshes at once both rotate the token |
| `LoginSession!LogoutIsFinal` | `LoginSession_safety` | `README.md:116-117` | a refresh in progress issues a token after the logout |
| `Confluence!SetupHasLevels` | `Confluence_safety` | `README.md:43` | factors from any timeframe, entry zone from the primary only |
| `Confluence!BiasAgrees` | `Confluence_safety` | `README.md:39` | a tie of votes is a bullish bias beside a bearish setup |
| `Confluence!ThreeCategoriesAgree` | `Confluence_safety` | `README.md:38` | displacement and session count for both directions |
| `Confluence!AlwaysClassified` | `Confluence_safety` | `pipeline.py:4-5` | structure on another timeframe than the primary makes the reasons index an empty list (`pipeline.py:334`) |
| `Detectors!SweepAfterPool` | `Pipeline_safety` | `liquidity.py:4-6` | a swing confirmed by a bar joins the pool that the same bar sweeps |
| `Pipeline!SetupIsAlive` | `Pipeline_safety` | `README.md:43` | a bar opens beyond the block, which only a touch mitigates: the setup's stop lies behind the market |
| `Pipeline!LabelsNameTheirSwing` | `Pipeline_safety` | `README.md:16` | a bar that is a swing high and a swing low has one label, the low's |
| `Pipeline!LaterBarsNeverMatter` (PROPERTY) | `Pipeline_safety` | `smt.py:10-11` | the second swing of the other market, however late, switches the comparison on (`smt.py:27`) |
| `Pipeline!TargetsAreProfits` | `Pipeline_safety`, `RiskReward = -1` | `schemas/signal.py:31` | the target ratio is not validated |
| `Pipeline!RangeIsOrdered` | `Pipeline_safety`, `BarShapes <- JumpShapes`, `CorrelatedMarkets <- JumpMarkets`, `RangeBars = 6` | `premium_discount.py:4-6` | the last swing high may be below the last swing low |
| `Delivery!NeverBoth` | `Delivery_safety` | `dispatch.py:4-7` | Telegram takes a post whose answer is late or lost: the e-mail goes out too |
| `Delivery!FailureIsTrue` | `Delivery_safety` | `dispatch.py:72` | the same post arrives, the e-mail fails |
| `Delivery!LastInChatIsNewest` | `Delivery_safety` | `auth.py:92-93` | tasks run on several threads: an older, revoked code arrives last |
| `AnalysisRun!BlockedRunNamesItsEvent` | `AnalysisRun_safety` | `analysis.py:4-10` | the list and the test are separate requests: told by FMP after a failure of JBlanked, or by nobody, the run's list lacks the event by which the test blocks it |
| `BarStore!FeedsDoNotCollide` | `BarStore_safety` | `bar_ingest.py:7-10` | of two feeds that write one bar at once the later fails and loses its batch |
| `BarStore!OneRowFailsNoAnalysis` | `BarStore_safety` | `bar_ingest.py:73-75` | a bar given twice fails the request |

## Not modelled

- The text of `api/routes/analysis.py` does not parse at this commit: a stray
  end of an import (533-535) begins a second, pasted copy (537-1014). The first
  copy is the one the modules follow.
- Session windows: the code stores them and nothing reads them; whether the last
  bar is in a session is an input of `Confluence`. Their `swept` is never
  set, though `sessions.py:3` speaks of a sweep status. The branch of `smt.py`
  for markets that are not inverse is never called.
- The wording of reasons and of the stored evidence, and how a time is written:
  an ingest stores the timeframe as given (`mt5.py:104`) while the reads
  capitalise it, so bars given with a small "m15" are never read.
- Age. A signal never expires (`mt5.py:135`): a poll may hand out an old one,
  even in a blackout. `ensure_recent_bars` counts all rows, however old
  (`bar_ingest.py:190`), so one fresh bar after a long gap makes a series look
  complete. The limiter's dictionary keeps an entry for every address seen.
- Which of two overlapping analyses stores its signal last: nothing orders them,
  so the newer signal may rest on the older bars, and no text promises otherwise.
- Login without one-time passwords (`OtpEnabled = FALSE`) is modelled, and the
  runs have it on.
- Hashing, tokens' signatures and code collisions: a code or token is its row,
  and a collision is one of the reasons for a failed commit.
- PostgreSQL deadlock detection: the order of row locks makes it unnecessary for
  codes; for bars, two inserts in opposite order could be aborted by it, which
  `Killed` covers.
- News feeds, quotes, AI text, health and read-only routes, settings and
  migrations: input and output without state.

## Plan

What is left, in order of worth:

1. `OneTime`: an abstract item that is consumed once, implemented by the bridge,
   the one-time passwords and the refresh tokens where their rows are not
   contested.
2. `AnalysisRun` composed with `SignalBridge`, whose `PersistSignal` it would
   drive.
