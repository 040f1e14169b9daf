# TLA+ specifications of ohMyStock

ohMyStock is a single-user trading agent for the Taiwan stock market: an LLM
decides on entries, a confirm gate (a human, or auto-execute behind breakers)
sends them to a paper broker, an exit engine closes positions, a monthly review
of five LLM nodes proposes changes to the strategy, and a walk-forward
validation decides which proposals a person gets to see.  All of it is Python
(`src/src/ohmystock/`); requests come from a FastAPI application, whose
synchronous endpoints run in a thread pool, and from CLI processes that share
the sqlite database and the files with it.

This directory holds TLA+ modules of the parts whose correctness depends on the
order in which those requests, threads and processes take their steps, TLC
configurations that check them on small instances, and TLAPS proofs of what
matters most for every size of instance.  `PROJECT.json` is the index: the
components, the runs, the source lines of every definition, the hazards and the
findings.

Paths below are relative to `src/src/ohmystock/` unless they begin with `src/`.

    tlc -workers 2 -config GateRaces.cfg MCConfirmGate
    tlapm ConfirmGate_proofs.tla

## 1. Inventory

### 1.1 Parts that keep state and race

| Part | Source | State it keeps | Operations | Talks to |
|---|---|---|---|---|
| Trade journal | `journal/schema.py`, `journal/__init__.py` | tables `journal_entries` (one row per fact: entry, reject, expire, exit, auto_execute_audit; the payload is a JSON column) and `llm_costs` | insert; update of the payload of the *latest* entry row of a decision id | written by the four parts below; `emit_journal_written` announces a row after its commit |
| Entry decider | `decider/` | nothing of its own; a decision id and a `created_at` held over the LLM call | `decide_entry` | LLM, validator, journal, event bus |
| Confirm gate | `safety/confirm_gate.py`, `api/routes/confirm_gate.py`, `cli/_confirm.py` | nothing of its own | `confirm`, `reject`, `sweep_expired`, `list_pending` | journal (`BEGIN IMMEDIATE`), broker inside the transaction, bus after it |
| Auto-execute | `safety/auto_execute.py`, `safety/sizing_clamp.py` | settings | `try_auto_execute`: nine numbered steps, of which only `confirm` is a transaction over read and write | journal, confirm gate, bus |
| Exit engine | `exit_engine/evaluator.py` | nothing of its own; a list of open positions read once | `evaluate_open_positions` | bars, journal (one transaction per position), bus |
| Paper broker | `paper/broker.py` | none in the code; the orders it took are what the journal has to account for | `submit_market_order` | called by confirm |
| Proposal store | `proposal/` | `proposals/*.md` and the subdirectories `PENDING_REVIEW`, `merged`, `rejected`; status in the front matter, directory by status | `write_proposal`, `transition_proposal`, look-up by slug | reviews write, the admin API and the validator move |
| Walk-forward validation | `validation/` | `*.validation.json` beside the proposal | `run_validation`, with or without the transition its verdict calls for | proposal store, backtest engine |
| Review pipeline | `review/` | `reviews/<period>/` with six files, `reviews/_index.json`, cost rows | `run_review` | five nodes, LLM, proposal store, bus |
| Swarm runs | `swarm_runs/` | table `swarm_runs` | `run_swarm` | wraps the review pipeline; infers from files how far a failed run got |
| Chat sessions | `chat/`, `api/routes/chat.py` | sessions, messages, cost rows, titles; a generator per stream on the event loop | create, delete, stream a question with its tool turns, name a session in the background | LLM, read-only tools |
| Event bus and public stream | `eventbus/`, `api/routes/public_events.py` | a bounded queue per subscriber (1024 events), the table of masked symbols | emit, subscribe, unsubscribe, mask | every part emits; the public stream subscribes |
| Market data and chip data | `data/`, `chip/` | cache tables of bars and institutional rows | cache-aside fetch with sources in order | external sources |
| Market risk gate | `swarm/market_risk_gate.py` | a colour by day with a time to live | evaluate, read | market data, futures |
| Screener | `screener/` | roster of a day (`universe_daily`); reads `bars_daily` | `screen_universe` | FinMind, bus |
| RS ratings | `sepa/rs.py`, `sepa/rs_loader.py`, `src/scripts/backfill_rs_rating.py` | table of percentiles by day and symbol | `compute_rs_rating`, the backfill | bars and roster of the screener |
| Backtest engine | `backtest/`, `api/routes/backtest.py` | cash, settled cash, positions, pending orders of one run; the stored job | the day loop, metrics, detail page | bars, strategies |

### 1.2 Parts without state of their own, or out of reach

The scoring engine and the SEPA patterns are pure functions of a row of bars;
they are modelled as operators and checked inside the runs of the parts that
call them.  The journal repository and the read endpoints (joins for pages), swarm
input assembler, skill registry, cost tracking (sums), memory store (single
inserts), configuration and authentication, application wiring, Shioaji
connector, the web applications and the scripts are not modelled.  `PROJECT.json`
lists each with the reason.

### 1.3 How the parts interact

    decide_entry ──► journal(entry|reject, cost) ──► bus
                        ▲        ▲         ▲
          confirm/reject/sweep   │         │
             │    ▲        try_auto_execute│
             ▼    └──────────────┘         │
          broker (inside the transaction)  evaluate_open_positions

    run_swarm(API) ─┐
                    ├─► run_review ─► reviews/<period>/*, _index.json, llm_costs
    ohmystock review┘        └─► write_proposal ─► proposals/*.md
                                     transition_proposal (admin API) ┤
                                     run_validation (CLI, API)       ┘

    screen_universe ─► universe_daily, bars_daily ─► compute_rs_rating ─► ratings
          │                     └──► stage, template, score_watchlist ◄──┘
          └─► bus ─► queue of each public stream ─► mask ─► browser

    get_kline, chip rows ─► cache ─► reader, index snapshot, risk light
    run_backtest ─► day loop ─► trades, equity ─► metrics, detail page
    chat stream ─► messages, cost rows ─► title task

Three facts shape every model here.

* **A transaction is one step, everything else is not.** Each request has its
  own sqlite connection.  `confirm`, `reject`, the body of `sweep_expired`, the
  write of `decide_entry` and the close of one position run between
  `BEGIN IMMEDIATE` and `COMMIT` and are single actions.  A clock read before
  `BEGIN`, an LLM call, a payload read on the way to a later write and every
  event after the commit are separate actions, with other requests in between.
* **The event loop interleaves at `await`.** Chat streams and the public stream
  are coroutines: what lies between two awaits is one step, and a client that
  has gone away closes the generator at the next one.  Emitters and the synchronous
  endpoints run in threads beside it.
* **Files have no transactions.** A proposal or review is a set of files;
  looking, reading, replacing and unlinking are separate actions.

### 1.4 What is hard here

*Confirm gate.*  Three ways out of `pending_confirm` race; the broker is called
before the commit; the sweep decides with a clock value that is older than its
lock; every update picks "the latest row of this id"; events are sent after the
commit, by a request that may have died.

*Auto-execute.*  Reads, breakers, patch, confirm and audit are separate steps.
The patch writes a whole payload back.  Two breakers count rows that others
write.

*Exit engine.*  The list of positions is read once; nothing looks again.

*Proposals.*  A transition is read, replace, unlink; a process can die between;
names are reused; the verdict belongs to what was read when the run began.

*Reviews.*  Several processes fill one directory; a file exists before it is written;
the index is read, extended and replaced; the node that failed is guessed from the files.

*Backtest.*  Booked cash runs two days ahead of settled cash; an order waits for
a day with a bar while the strategy is asked again; two parts of the code
reconstruct the same round trips and drawdowns by rules of their own.

*Chat.*  Two questions stream into one session; a stream ends by "done", by an
error, by a disconnect that is noticed, or closed at any await; the session may
be deleted at any statement; the title task outlives its request.

*Market data.*  Callers miss the same days at once and fetch them from different
sources, some before the close; evaluations of the light overlap.

*Screening.*  One table of bars is filled and read by several threads; ratings of
one day are computed from rosters of different moments; a queue is filled by several
threads while it may be full, and its reader may leave; the walk over the queues ends
where waking a reader raises.

The hazards in `PROJECT.json` give each of these its line and the properties
that would fail if the code got it wrong; hazards without a property say why.

## 2. Modules

| Module | Models | Kind |
|---|---|---|
| `TradeJournal` | the shared state: rows, broker orders, bus, clock, requests; emit, return, crash | base of the trading core |
| `EntryDecider` | `decide_entry` | component |
| `ConfirmGate` | `confirm`, `reject`, `sweep_expired`; the gate's properties | component |
| `AutoExecute` | `try_auto_execute` and its breakers | component |
| `ExitEngine` | `evaluate_open_positions` | component |
| `TradingCore` | decider + gate + auto-execute + exit engine on one journal | composition |
| `EntryLifecycle` | what the core promises about one decision | abstract specification |
| `ProposalStore` | proposal files, transitions, validation reports | component |
| `ProposalLifecycle` | the five-state workflow of `src/proposals/README.md` | abstract specification |
| `ReviewRuns` | `run_review` and `run_swarm` | component |
| `Backtest` | the day loop of the engine, the crossing strategy, the stored job | component |
| `BacktestReport` | round trips and drawdowns, twice each | operators |
| `ChatSessions` | sessions, questions, streams, answers, costs, titles | component |
| `MarketData` | `get_kline`, the chip rows, the index snapshot | component |
| `RiskGate` | the risk light with its cache, on the market data | extends `MarketData` |
| `EventStream` | the bus and the public stream with its mask | component |
| `Screener` | `screen_universe` with its tables, on the bus | extends `EventStream` |
| `Patterns` | moving averages, stage, trend template, technical sub-scorers | operators |
| `RsRatings` | ratings of a day and the page of a symbol | extends `Screener` |
| `Scoring` | `score_watchlist`; closes the screening system | extends `RsRatings` |
| `MCConfirmGate`, `MCTradingCore`, `MCProposalStore`, `MCReviewRuns`, `MCBacktest`, `MCChatSessions`, `MCRiskGate`, `MCScreening` | sets, symmetry, initial states for TLC | instances |
| `ConfirmGate_proofs` ← `TradingCore_proofs`; `ProposalStore_proofs`, `ReviewRuns_proofs`, `Backtest_proofs`, `ChatSessions_proofs`, `RiskGate_proofs`, `Screening_proofs` | theorems | proofs |

Each component module begins with the helpers and actions, named for the
functions they translate, and ends with its properties.  Operators with a
comment "Mutant" are plausible bugs of the definition below them; no
specification uses them, they show that the properties can fail.

### 2.1 The trading core

*State.*  `entries` is the sequence of `kind='entry'` rows in id order, because
the code asks for "the latest entry row of this decision id"
(`ORDER BY id DESC LIMIT 1`).  A row keeps what decisions depend on: decision id,
`created_at`, status, the class of its sizing, the fill, `auto_executed` and
`human_confirmed_at`.  `exits` and `audits` are sequences, since auto-execute
reads them back; reject, expire and cost rows are counted per decision.
`orders` are the orders the broker took, `lost` those whose transaction was
rolled back afterwards: neither is in the code's database, which is the point.
`emitted` holds what reached a subscriber.  `now` is the clock in whole seconds,
the resolution the code stores.  `undone` is a history variable: the decisions whose
row a sizing patch has put back to what it was before another request changed it.

*Requests.*  `req[w]` is one call of decider or gate: its position, the decision
id and the clock value it carries from one step to the next, the events it
still has to send.  `auto[a]` and `eval[e]` are the same for auto-execute and the
exit engine; the API and the command line can evaluate the open positions at the same
time.  Any of them may stop between two steps (`Crash`, `AutoRaise`,
`EvalEnd`), which also stands for "database is locked" and errors of callees.

| Action | Code |
|---|---|
| `DecideStart`; `DecideEnter`, `DecideReject` | id and `created_at` before the LLM call; one transaction with entry or reject row *and* cost row, also when the answer does not parse |
| `Confirm` = `ConfirmFills` or `ConfirmRolledBack`; `Refuse` | `confirm`: status checked, broker called and row updated under one lock; a commit that fails after the broker filled; all refusals |
| `Reject` | `reject` |
| `SweepStart`; `Sweep` | the clock read; then, under the lock, an expire row for each due row and the status of the *latest* row of its decision |
| `Emit`, `Return`, `Crash` | `safe_emit_sync` one by one after the commit; the end of a call; its death |
| `AutoParse` … `AutoWarn`, `AutoRaise` | the steps of `try_auto_execute`, one action per read or commit: payload breakers, daily count, lockout, patch read, patch write, confirm, event, audit row, events |
| `EvalStart`, `EvalPass`, `EvalClose`, `EvalEmit`, `EvalEnd` | the SELECT of open positions; a position that stays; one that is closed; its event; the end |

*Data abstraction.*  What the LLM answered is one of five classes of sizing, the
ones the breakers tell apart: below the confidence threshold, above the
notional limit, above or below the system's own sizing, or fitting it.  The
validator brings "above the cap of the stage" down before the row is written
(`Capped`), so the clamp of auto-execute is a second line of defence for it, and its
write-back (`AutoPatchWrite`) is reached by sizings that are *below*.  Prices, quantities and the single
exit rules are left out, except that an exit is a gain or a loss.

### 2.2 Proposals

`files` maps a place (directory, name) to a complete document: the draft it is
of, the status in its front matter and its changelog.  `reports` are the
`.validation.json` files by the place of their proposal.  All drafts of an
instance have one date and topic, since only those compete for a name.
`WriteStart`/`WriteFile` are the search for a free name and the write;
`TransitionStart`, `Read`, `Replace`, `Unlink` the look-up, the read with the
checks, `os.replace` of the next version, and the unlink of the old file;
`ValidateStart`, `ValidateStop`, `WriteReport`, `FileReport` the validator around
the same transition.  `Crash` kills a request between any two.  `os.replace`
makes content appear whole; `write_text` of a new proposal does not, and a half
written file is refused by every reader, so only complete files are kept.

Nothing locks these files, and requests do hit each other.  Two history variables say
whom: `overwritten` are the drafts whose file a request for *another* draft replaced or
removed without having seen it, since it came to that name only after the request
had looked; `overtaken` those a request acted on although another had changed what it had
looked at (two transitions read one version, a validator files its verdict on
a name that was used again).  A proposal in one of them (`Raced`) can be lost, lie in two places or be
approved by the verdict on another; the properties say what holds of it anyway (its
files, the final ones among them), and what holds of all others.

### 2.3 Reviews

`files[v]` is the set of the six outputs in the directory of review `v`; its
domain says which directories exist.  A run goes through `Check`, `MakeDir`,
then `Work`, `Open` and `Write` per node, `IndexRead` and `IndexWrite`.  `run_swarm`
blocks the event loop of the API while it runs, so there is at most one run
"api"; any number of CLI processes run beside it.  `Path.write_text` is two steps:
`Open` creates or empties the file, `Write` fills it, and a run that raises (`Break`, a full
disk) or dies between them leaves the file behind, listed in `partial`.  `Fail` infers the failed node
from the files as `_infer_failed_node` does, by their existence; `Store` inserts the row.  `raised`
and `cut` are history variables: where a run really failed, and which runs
died.  A dry run writes no file and no cost row, but it does have its
`swarm_runs` row.

### 2.4 Backtest

The state is that of the engine: booked and settled cash, sums that settle on a
day, positions, the orders still to be looked at today and those that wait.
`OpenDay` is `advance_to` with the bars of a day, which are *chosen* when the day
opens: a symbol may have none.  `Fill` looks at one order (`Postpone`, `FillBuy`,
`FillSell`, with limits, slippage, the fee with its floor, the tax, and every
refusal), `CloseBars` lets the strategy see the close, `Signal` is one call of
`on_bar`, `CloseDay` a point of the equity curve; `Fail`, `Refuse` and `StoreJob`
are what the API makes of it.  The strategy either asks for anything at all or is
`SmaCross`, whose crosses are chosen and whose intents are not.  Amounts are
integers, rounded down, and the rates are fractions of integers.

`BacktestReport` holds the two reconstructions of round trips
(`backtest/metrics.py`, `api/routes/backtest.py`) and the two drawdowns, and
compares them over every sequence of rows and every curve the engine can
produce.  The two functions for round trips keep different rows, filled ones
or filled ones with a quantity and a fill date, and pair them by the same loop (`Trips`); of the drawdowns, one
returns on the day the curve has recovered and the other goes on.  A ratio to a peak that is not
positive is no drop in either.  A loop is a function on the number of its
rounds, not a `RECURSIVE` operator, so that it can be reasoned about.

### 2.5 Chat

A request goes from `Check` (session active) over `StoreQuestion` and `Prepare` to
turns of `Answer` (one response of the model, with the events it becomes) and
`Deliver` (one event at a time, an await each).  `Disconnect` has the three ways in
which a client that left is noticed.  `StoreAnswer` … `StartTitle` are the
`finally` of the stream, `CloseConnection` the dependency, `FinishTitle` the task.
`loop` is the request that runs without awaiting: other coroutines wait for it, a
deletion, which runs in a thread, does not.  Texts are counted, not kept.
`messages` is the table with its ids; what a statement selects of a session is a set of ids,
whose order is the order in which the code reads the rows (`RowsOf`, `Trimmed`).

### 2.6 Market data and the risk light

`cached` maps a series and a day to the source that supplied its row and whether
the day was over then: that is all by which two rows of one day can differ.  A call looks for
missing days, asks its sources in order (`FetchFails`, `FetchRows`), inserts
without replacing (`Store`) and reads its envelope.  `NextDay` may come between
any two.  `RiskGate` adds the conditions of the light, each a verdict over such an
answer, and the kept colours; `clock` is `time.monotonic()` in ticks.

### 2.7 Screening

Five modules that extend one another, because the program composes them in this
way: requests run in worker threads (`Callers`), emit to the bus and use the same tables.
`EventStream` splits `put_nowait` of an `asyncio.Queue` into its check and its
append (`Look`, `Put`), since the emitters are threads.  After the append `put_nowait` wakes the reader, and off the
loop that may raise (`InvalidStateError` from a getter that was cancelled meanwhile,
`RuntimeError` in the debug mode of asyncio): the event is in this queue, but the handler is
the one around the loop, so the second disjunct of `Put` ends the walk and all remaining streams
miss the event.  `missed` holds both kinds of loss.  `Screener` is
`screen_universe` statement by statement.  `RsRatings` reads and makes the ratings
of a day; `Scoring` calls it from one of its sub-scorers, the only one that can fail in the
model: the others are pure functions of rows that are there, and their own `except` is not
modelled.  The sub-scorers, the stage and the template are operators of `Patterns` over a row of
bars, with windows that an instance can shorten.

## 3. Runs

Instances are small in the number of actors and complete in their
interleavings: every transaction, event, file operation and death is a step of
its own.  The states are those of one exhaustive search.

| Run | Instance | States | Question |
|---|---|---|---|
| `gate_races` | 2 decisions, 2 requests, clock 0..2 with timeout 1, 2 orders, every event observed, symmetry | 1.2 M | Do decider, confirm, reject and sweep, in any order, with deaths and failed commits, leave one story per decision, every order accounted for, and events true? |
| `gate_liveness` | 2 decisions, 1 request, clock 0..3, 1 order, fairness | 10 k | Does no entry stay pending past its timeout if sweeps keep coming? |
| `core_races` | 1 decision with a sizing that is clamped; 1 human request, 2 auto-execute calls and 2 exit runs; 2 orders possible; up to the first undone row, symmetry | 2.3 M | Is one decision bought once and audited truthfully whoever gets there first, is it closed exactly when it was sold, and does the core implement `EntryLifecycle`? |
| `unattended` | 3 decisions, one of them bought by auto-execute in second 0; 1 auto-execute call at a time, every setting, every class of sizing, daily limit 1, no human | 855 k | Is nothing bought that a breaker should have stopped, and by how much is the daily limit overrun? |
| `two_evaluators` | the instance of `core_races` with a sizing that fits | to the trace | The two exit rows of section 5 |
| `losing_streak` | starts with three auto-executed entries sold at a loss | 89 | The lockout of section 5 |
| `backtest` | 5 days, 2 symbols, opens at both limits, capital for two lots, 3 intents, any strategy or the crossing one | 5.6 M | Is no money made or lost, no intent lost or filled twice, and do the two reports agree? |
| `chat` | 1 session, 2 questions, 1 deletion, 2 turns, 3 rows read, 2 sent, fairness | 915 k | Is what was seen what is stored, what was asked what is sent, and does every question end? |
| `market_data` | 2 callers, 2 series, 4 days with a weekend day, window 2, 2 calls, time to live 2, symmetry | 3.0 M | Is everybody told the same, and no colour too old? |
| `proposal_races` | 2 drafts of one topic, 2 requests, 1 name, 1 death; until both drafts are raced for, symmetry | 2.4 M | Whatever races, does every file tell one legal story in its directory, is nothing lost or changed but by a request that could not have seen it, and until the death, does what was not raced for lie beside its verdict and implement `ProposalLifecycle`? |
| `review_runs` | 2 periods, the API and 1 CLI process, 2 runs, 1 death, every mix of force and dry run, fairness | 768 k | Are only complete reviews listed, do outputs appear in order and whole, is the node that raised reported, or the one after the file it opened, does each API run end with a row? |
| `screening` | 2 threads, 2 streams with a queue of 1, 2 events sent, 9 days, 3 symbols, 2 calls of any kind, shortened windows, symmetry | 3.1 M | Do streams lose nothing but what did not fit or what a walk that raised did not bring, are screens and scans published and ranked as they are answered, do ratings of a day settle, do stage, template and scores agree? |

*Why the bounds are enough.*  Two decisions are what it takes for one sweep to
expire several rows and for a row of one decision to be mistaken for another's;
two requests, for a lock to matter; in `core_races` two callers, a human and two
evaluations meet on the one row they all want, with two orders so that a second
buy is possible, with audit rows for both, and with a patch that can be written back over any
of their commits.  A clock of 0..2
with a timeout of 1 has entries that are due, just not due, and that become due
between the clock read and the lock (`gate_liveness` needs one more second for
an entry written after the first sweep).  Three decisions and one bought at
the start make a day that is full, a purchase in the very second that is not counted,
and the day after.  One name and two drafts make a name
free again while its old file lies in another directory, so that a later proposal of that name meets
it there; two requests can race for one draft or for that name, and a death
leaves two copies, which the other request, or the next, goes on with.  Two review runs are two runs of one
period, or of two.  Five days are the shortest period in which a buy, its sale,
the settlement of that and a purchase from it follow one another, with a day on
which a symbol has no bar; the capital pays for two lots and not for three.  Two
questions and a third row read make a session that is longer than what is read;
two turns are one with tools and the limit.  Four days with a weekend day and
windows of two overlap in one day and in none, and span a day nobody asked
for.  A queue of one is full whenever two emit, and a stream that
sends two events can send a start and the completion that belongs to it.  `MaxOrders`, `MaxAudits`, `MaxAttempts`,
`MaxIntents`, `MaxCalls`, `MaxOps` and `MaxTaken` cut the state space and not a step of
the code; `MaxAttempts = 1` is a condition of use as well
(section 4.3).  `DailyLimit` 1, `DayLength` 2 and `LockoutTime` 1 replace 5 a day
and 24 hours, and the windows of `MCScreening` those of 252 days: their order and
proportions matter.

*Choices of the instances.*  `core_races` takes the one sizing that reaches the patch, `below`: it
passes the breakers as `fits` does, and is written back.  A decision whose row was put back that way is
in `undone`, and nothing is claimed of it from then on (section 5 says what happens to it); with
one decision, the constraint `MCNothingUndone` therefore does not go on from such a
state, of which all properties are still checked.  Likewise `MCOneUnraced` does not
go on when both drafts have been raced for; without it the run has 6.8 M states and the
same answer.  `unattended` has every sizing, one auto-execute call at a time and no human
beside it.  `unattended` and `losing_streak` start in states that are
reachable but far from the initial one.
Symmetry is used in safety runs only, and no property there names a decision,
a request or a thread.

*Deadlock* is checked where the system goes on for ever (the gate, the core, the
proposals).  It is switched off in `Unattended.cfg`, `Backtest.cfg`,
`ChatSessions.cfg`, `MarketData.cfg`, `ReviewRuns.cfg` and `Screening.cfg`: a
back-test ends, and in the others everybody has returned when the bounded number of
calls is used up.

*Fairness.*  `FairSpec` of the gate assumes that the clock goes on and that a
request that has its result sends its events and returns, which the thread pool and
the CLI processes do by themselves.  Nothing in the code calls `sweep_expired`: it is a
button of the admin page and a CLI option.  So `PendingResolved` has that as
its premise, `SweptForever`, and is a promise to an operator who schedules the
sweep.  For reviews, a started run goes on (`WF(Proceed)`), since the LLM client
ends each call with an answer or an error.  For chat, the same of each request: the
client of the model has a timeout, and the event loop runs every coroutine that
is ready.  What the model answers is never assumed: `QuestionsEnd` holds for one
that asks for tools each time.

*Mutants.*  Every property of a passing run has a plausible bug of a mapped
definition that it catches, for instance: confirm does not look at the status
again; the event goes out before the commit; the sweep is a second early; the old
file is not unlinked; a buy is paid with cash that is not settled; what the last day asks for
waits for ever; only finished answers are stored; a fetched row replaces the
cached one; the colour is stamped after its evaluation; the best are cut
before they are ranked.

## 4. Proofs

The theorems hold for every set of decisions, requests, drafts, reviews, callers, evaluators,
series, symbols and CLI processes, and for every bound.  Their assumptions are the
named ones of the modules (`BoundsAssumption`, `StoreAssumption`, `RunsAssumption`,
`BacktestAssumption`, `MarketDataAssumption`, `RiskGateAssumption`,
`EventStreamAssumption`, `ScreenerAssumption`, `ScreenEventsPublic`, `RsRatingsAssumption`,
`ScoringAssumption`, `WindowsAssumption`: bounds are natural numbers, the timeout is positive, "api"
is not the name of a CLI process, bars have positive prices, every series has a source,
emitters are finitely many and a queue has room for one event; symbols and days are numbers
and finitely many, requests are for such days, the whitelist lets the two numbers of a screen
through, and a window of bars is as long as what is averaged over it), and in sections 4.3,
4.7 (of one theorem) and 4.9 those stated there.

### 4.1 `ConfirmGate_proofs`: `TypeCorrect`

One step per action; the lemmas `RequestTypes`, `RowTypes`, `AppendRow`,
`SetRowFacts` and `SweepFacts` say what the helpers of the specification return
and are used in the next two sections and for the core too.

### 4.2 `ConfirmGate_proofs`: `EveryOrderAccounted`, `EventsAnnounceCommits`

`OrdersAccounted` is not inductive: confirm overwrites the fill of the row it
finds pending.  `OrdersInv` adds that a pending row has no fill
(`PendingUnfilled`).  Every step except a confirm `KeepsFills`; a confirm adds one
order and either the one row that carries it, or a lost order.

An event is sent long after the transaction that it announces.  `EventsInv` says
that every event *still queued* in a request is true already
(`QueuesAnnounced`), and `AnnouncedStays` that it stays so because the journal
only grows and a row that was bought stays bought (`JournalGrows`).  Neither
theorem limits how often an id is decided.  `EventsInv(X)` leaves out what was announced of
the decisions X; it is used with none of them here, and with the undone ones in section 4.9.

### 4.3 `ConfirmGate_proofs`: `BoughtIffConfirmed`, `OneStory`, `ExpiryWaits`, `BoughtOnce`, `LifecycleKept`

These assume `MaxAttempts = 1`: a decision id is decided once.  The id is made
of the trigger's second and the symbol, and nothing in the journal refuses a
second row.  With two rows the statements are false: a sweep that finds the
older row pending expires the *latest* one (`safety/confirm_gate.py:548`), which may be
confirmed, and the older one is swept again the next time
(`src/openspec/specs/trade-journal-schema/spec.md:118` calls expired final, line 241 asks for
at most one expire row).

`OnceInv` consists of `IdsOnce` (an id is being decided by one request, or was
rejected by the LLM, or has its one row), `RowStory` (the counts of the other
rows as a function of the status of that row), `ClocksBehind` (a clock value
held by a request is not ahead of the clock, hence a sweep with an old value
expires too little and never too much), and `OrdersInv`.  `RowStep` says what any step does to a
row; `Lifecycle` and the invariants about rows follow from it.

### 4.4 `ProposalStore_proofs`: `StoreTypes`, `StoriesLegal`, `DirectoryIsStatus`

With any number of racing requests and deaths.  `StoreInv` adds `Sound`:
a request about to write holds a version with a legal story and a legal next
step, and found the place of the next version free, or the same.  That stays true
whatever others do to the files meanwhile, because the
request writes a continuation of *what it read*, to the directory of the
status it writes; races can duplicate a proposal or write over another but never leave a file
with a changelog that contradicts its status.

### 4.5 `ProposalStore_proofs`: `ProposalsKept`, `FinalIsFinal`, `VerdictsBeside`, `StoreImplementsWorkflow`

For any number of requests in flight: there is no lock between the threads of the API and the
CLI (`proposal/writer.py:67`, `proposal/state.py:143`), and no theorem assumes one.
What a race can do is said by what the requests had *seen*.  A request is unlucky when the file it writes
over or unlinks is not one that it had looked at, and the model records whose proposal
that was, in `overwritten` (it was another draft's) and `overtaken` (it was another
version, or a verdict about another draft); `Raced` is both.  The first two
theorems are about every proposal and hold with deaths, the last two claim nothing of the drafts in `Raced`, or once a
request has died: a death between replace and unlink leaves two copies.

* `FinalIsFinal` is a step lemma, `FinalStep`: a final file has no legal next status, so the version a
  request writes beside it or over it comes from another file whose place it had found free.
* `ProposalsKept`: `KeptInv` says that a request about to unlink a file has left the proposal a
  file further on (`Higher`: from the root to `PENDING_REVIEW` or a final directory).  Two requests
  that unlink copies of one proposal cannot remove both, since no copy is further
  on than the last.  `WorksForOne` and `OthersSpared` say that a request changes the files of one
  draft, or else records the other in `overwritten`.
* `BornInv` (`Known`): what a request reads, moves or judges has been written before, and one
  request at most creates a draft.  So `Raced` are drafts that exist, and drop out of the workflow from one of its
  stages (`RacedAreWritten`).
* `VerdictsBeside`: `CalmInv` says of each other draft that it is in one place, or
  that one request has its next version in another and still has to unlink the last one (`Single`,
  `Moving`), and that a version the validator wrote has its verdict beside it, or the request that
  is about to bring it (`Reported`, `Pending`).  A second transition of the draft would break
  `Single`; at the step in which it does, the draft is in `Raced`.
* `StoreImplementsWorkflow`: the stage of a draft in `ProposalLifecycle` is the status of its newest file, the one
  with the longest changelog, or `"raced"`.  `CalmInv` makes that file unique (`StatusIsOne`);
  writing a draft is `Create`, a replace is `Move` along the edge that the request checked, a step that
  overtakes is `Race`, and unlinking the older file or moving the report is a
  stutter (`StoreStepsAreMoves`).

### 4.6 `ReviewRuns_proofs`: `ReviewTypes`, `OnlyCompleteListed`, `NodeByNode`, `NodesAsReported`

The files of a review only grow, so what a run has learnt of them stays true.
`RunOK` says what that is at each step: a run working on node k knows the outputs
before k are there, one about to write the index knows that all are, and each
review in the index it read was complete.  So a lost update of the index can drop
a complete review but never list an incomplete one.

`NodesReported` relates three things no step changes together: events on the bus,
the files, and the row that is stored at the very end, from which the API tells
whether a run was dry.  `ReportInv` therefore says of an event whose run has no row yet
that its output is there, or that its run is dry and about to be stored, or died
(`EventsInv`); that a run is in flight, dead or stored, one of them and once
(`IdsInv`); and of a run that is alone on its review, at each step, which files are
there and which node raised (`AloneOK`), because the failed node is guessed from files.

`Path.write_text` creates or empties the file before it writes, so `Open` and `Write` are
two steps, and `partial` holds the files of a run that failed or died between them.  The
guess looks at names only, and takes such a file for an output: the node named
is the one that raised, or, when that one had opened its file, the one after it (`FailedNode`; the
fifth stays the fifth).  That is what `NodesReported` says, and why it does not say more
(section 5).  `WholeBefore` is the part of `ReportInv` for `OutputsInOrder`: where only one run was
started for a review, all outputs before the last are written in full.

### 4.7 `Backtest_proofs`: `NeverShort`, `MoneyConserved`, `NoIntentLost`, `CrossingHoldsOneLot`, `AccountIsItsRows`, `OnlySettledCash`, `DrawdownsAlwaysAgree`, `TripsAlwaysFifo`

For any bars and any strategy, with no bound on days.  `Conserved` needs only that a
sale settles on one of the next two days (`SettlesSoon`), also where the key
is "sentinel".  `IntentsAccounted` is not inductive: that what waits at the end had
no bar on the last day depends on what waited that morning.  `WaitingOK` says
of each phase where a waiting order comes from (it was looked at today and its symbol
had no bar, or it was made today), `DaysInTurn` that no order or row is of a day
to come, and `ListsOK` what the lists hold.

`SmaHoldsOneLot`: the strategy looks at the position when it is called, and its order
is filled or refused on a later day.  `SmaInv` says that every order there is, in
either list, is the one the position calls for *now* (`AllFit`), and that a symbol
never has two, in one list or in both (`OneEach`, `Apart`).  A call adds an order only for a
symbol with a bar today (`CallsOK`), so whatever waited for it has been looked at.

`AccountIsItsRows` is about sums over all trade rows.  A `Total` is a recursive function on the
positions of a sequence, and what it adds up to is shown by the least-number principle: if two
such functions differed there would be a first position where they do (`LeastNatural`,
`RunningAgrees`).  That gives the two facts needed: one number more adds that number
(`TotalAppend`), and the total of a sum is the sum of the totals (`TotalPlus`).  A *column* is a
function from the rows there can be to numbers: what a row paid, what it earned,
what settles up to a day or on it, how many shares of a symbol.  `BookedInv` equates each
variable of the account with the totals of its columns; available cash counts the sales whose
day of settlement has come, and what settles on a later day the sales due on it, so that as a day
opens one column splits into two (`BookedOpenDay`).  It has no premise.

`OnlySettledCash` adds that available cash is never negative.  The engine checks that for a
buy, but a sale of less than the floor of the fee brings less than nothing and settles all the
same; that is excluded by the premise `SalesPay`, which the instance of the run assumes too.

The reports are loops over all rows or over the whole curve.  `LoopRuns` says once that such a
function is what its rounds say, and `EveryRound` that what holds before the first round and
is kept by each holds after the last (the least-number principle again).  What a job needs for its
reports is `ReportInv`, four facts about the engine:

* `OfLots`: every order is of at least one lot;
* `RowsCounted`: hence every filled row has a quantity, and a fill date.  The two reports
  leave out different rows, and this is why they leave out the same;
* `Covered`: up to no row was more sold of a symbol than bought.  Otherwise a sale
  would close all lots and have shares left, which no trip accounts for.  It is not inductive: that
  it holds of the last row is `NeverShort` together with `BookedInv`, that it holds of the rows
  before is `Covered` of the state before;
* `CurveInv`: a job is completed only when its run is, and then the curve has a day.

`DrawdownsAlwaysAgree`: after n days (`DropsUpTo`) the worst drop so far is a point of the
chart and no point is deeper; once the metrics have returned, that is still so of the
days up to the one on which they did, and that day had recovered.  Ratios are compared by
multiplication, so what this needs of them is proved too (`DeeperOrder`).

`TripsAlwaysFifo` numbers the shares of each symbol in the order in which they were bought, and
those sold likewise (`Flow`); a row stands for an interval of numbers.  `Open` says of the
lots, when x shares are sold, that they are the intervals of the buys from x on, without a
gap.  Within a sale (`Selling`) the x grows by what each round takes, and every trip is an
overlap of two intervals; `OpenTail` and `OpenHead` are the two cases of a round, a lot
used up or a part of it.  `SaleDone` closes the sale: since it was covered, nothing
remains.  `Paired` adds row to row, for all symbols, with the order of the trips.

### 4.8 `RiskGate_proofs`: `ToldOnce`, `NeverStale`

A row that is cached stays (`INSERT OR IGNORE`), so an answer, once given, is a part of the cache
*as it is now* (`PartOf`), and two answers agree because both are parts of one cache.
`CallOK` says what a call holds at each position; that it survives the steps of all other callers
is one lemma (`OwnStep`).  For the light, `KeptOK` says that a kept colour carries
the time at which its evaluation *began*, under the day it is of: the order in which
evaluations end then does not matter.

### 4.9 `TradingCore_proofs`: `CoreTypeCorrect`, `BreakersHold`, `CoreBuysOnce`, `PassesHonest`, `CoreAnnouncesCommits`, `ClosedOnce`, `CoreImplementsLifecycle`, `OverrunByCallers`

The core adds two kinds of actor to the gate that act on what they read some steps
before: a call of auto-execute and an evaluation of the open positions.  All but `CoreTypeCorrect` and
`OverrunByCallers` assume `MaxAttempts = 1`, for the reason of section 4.3, and nothing else:
any callers, any evaluators at a time, every sizing.

*`BreakersHold`.*  A call looks at the sizing of a row and, many
steps later, buys the latest row of that decision as it is by then.  `Guarded` says
that past the payload breakers there is a row of the decision whose sizing passed; with
one row per decision (`IdsOnce`) it is the row that is bought, and a row keeps its
sizing (`RowsKept`) except for a patch, which writes one that passed too.

*`CoreBuysOnce`, `PassesHonest`, `CoreAnnouncesCommits`.*  A clamped call writes a whole payload back that
it read some steps earlier, so it can turn a bought row into a pending one, which is bought again (section 5).
The history variable `undone` records the decision when that happens, that is, when the row that a patch
writes over is no longer the row it read, and the statements are about the decisions that are not in it:
the write-back can do no other harm.
`Agreed` is what a call knows: the sizing it holds is that of its row, and the row it would put
back is the one that is there, unless the row was decided meanwhile or the decision is undone already.  So each
step of a call is one of five (`CallKinds`: it thinks, patches, buys, loses its order or
reports), and for rows that are not undone every step of the core moves them along the edges of the
gate (`RowsFollow`, `Moved`), fills them with at most one order (`OrderStep`) and changes
nothing else.  `StoryInv` is closed under such steps: fill and status agree (`RowsSound`), each
surviving order has its row (`OrdersKept`), and what an evaluation still has to look at
was bought (`TodoBought`).

`PassesUnique` adds that a call between its confirm and its audit row is the only one
to report a pass for its decision, and that none is reported yet.  So a call that has
confirmed and not yet emitted stands beside a bought row, which is what
`CoreAnnouncesCommits` needs of auto-execute; the evaluations announce only exit rows
(`ExitsQueued`), and the rest is `EventsInv(undone)` of the gate.  Its statement, `EventsStayTrue`, is
`EventsFollowCommits` but for the `order_sent` of an undone decision, the one event that
the core can make untrue.  Of the core it is proved only; the run that checks the stronger property is the gate's.

*`ClosedOnce`.*  A sale looks at no status, so two evaluations that took up one
position both sell it.  But an evaluation takes up only positions that are not closed *yet*:
those that can still sell a closed one were in flight when it was closed.  `SoldInv` therefore bounds the
exit rows of a decision together with the evaluations that still have its row on their list (`Selling`)
by the number of evaluators; a sale moves one from the second summand to the first.  A position is
closed exactly when it has an exit row, and has at most one per evaluator: one, when one runs at a time
(`ClosedIffExited`).  `journal/repository.py:4` asks for one in any case, and the run
`two_evaluators` shows that there are two.

*`CoreImplementsLifecycle`.*  The stage of a decision is the status of its one row (`StageFacts`),
and `"undone"` once that row was written back.  Each step of the core is `Enter`, `Buy`, `PutAside`, `Expire`,
`Sell`, `Undo` or a stutter of `EntryLifecycle`; a second sale of a closed position is a stutter.

*`OverrunByCallers`: any number of decisions of an id, any finite set of callers, but if
there are two callers then nothing is clamped* (`OneCaller \/ "below" \notin Sizings`).  The
purchases of a day beyond a limit that was reached at t are not the thing to count: a
call that has counted and not yet bought is one that may still come.  `LimitInv`
bounds the sum of both by the number of callers (`OverrunAt`); a purchase moves a call from
one summand to the other, and a call that counts later than t is stopped.  The count
moves with the clock, so `Stamped` says that no row is bought in a second to come.  The
premise is needed because a clamp with two callers writes back an old row and makes a
purchase of the day disappear from the count (`PatchesFresh` is what a lone caller keeps).

### 4.10 `ChatSessions_proofs`: `AnswersStored`, `TitlesChangeEarned`, `ModelHears`

For any number of sessions, of requests that stream into one of them, of deletions and
of turns, with no premise beyond the bounds of the module.

*`AnswersStored`.*  What was shown is compared with rows that are written much later.
`SeenInv` follows the answer on its way: while it streams, what was shown is what
was gathered (`InStep`), from its end to its row, at most that (`Gathered`), and after that
the row has it (`Answered`, `AnswerThere`); its question is a row since the first step
(`Asked`).  Rows of other requests come in between and change none of it (`OtherRows`).

*`TitlesChangeEarned`.*  The title task outlives its request.  `TitleInv` says that while
it runs the session still has a title that may be replaced, and the answer it works
for is stored and unmarked (`Earned`).  That others do not spoil this is `Stays`
(sessions and rows stay, a title is only replaced by a generated one) and `Onward` (a request
never goes back in its program).

*`ModelHears`.*  A request holds the event loop from its row to its read (`HeardInv`), so
its question is the last row when the history is read.  `RowsRead` says what is read
then: `LIMIT` keeps the first rows in order, the trimming keeps the last of these, and both
are sets without gaps that end with the question.  Where trimming cuts is a least number,
which exists by well-founded induction over the natural numbers (`LeastNatural`,
`LastRows`).  Later rows of other requests come after the question and take no part in
its history (`HeardStays`).

### 4.11 `Screening_proofs`: `RatingsOnce`, `StreamsStayFaithful`, `ScreensAlwaysPublished`, `ScansAlwaysRanked`, `StagesAlwaysAgree`

`RatingsSettle` is an action property over the whole screening system: bus, streams, screens,
pages, scans, ratings.  Only a call that found no ratings of its day goes to the places between
the look and the write (`RatingPlaces`), it keeps its day there, and only such a call writes.
Every other step is one of three kinds (`QuietStep`, `RatingStep`, `OtherStep`); `Calls` says no
more than that a call has a place and a day.

`StreamsStayFaithful` proves the whole of `StreamsFaithful` for any callers, streams, queue
size, whitelist and requests: that nothing else is lost, the order, the bound of the queues
and the labels.  The invariant `BusInv` reads a stream as *one* sequence, its `Line`: what it has
sent, followed by what waits.  `Serve` moves the border inside that sequence and leaves the
sequence alone; `Put` extends it by one event; nothing else touches it.  `LineDue` is the
part of the property about lines; the rest follows from three more facts:

* an emitter walks over a copy in which no stream occurs twice (`EmissionWalks`), so that
  after `Look` or `Put` its event is no longer on its way to the stream it left, and is
  still on its way to the others; that event is the last of its caller, hence
  later than all that the line holds of that caller, and no stream that
  the walk has yet to reach has lost it;
* `QueueShort` counts, with the events that wait, the emitters that looked and found room
  (`Fitting`).  The first of them needs a free place, each further one adds one event at
  most, which gives `QueueSize - 1 + Cardinality(Callers)`: the overrun that an
  `asyncio.Queue` filled by threads can really reach;
* `LabelsOwn`: the table of labels has no symbol twice and only grows at its end, so a
  label that was sent stays that symbol's.

The screens, pages, scans and ratings reach the bus only through their emissions;
`StepsOfTheBus` shows that each of their actions is one step of the bus (`BusStep`) or leaves it
alone, and one lemma per step of the bus (`EmitKeeps` ... `ServeKeeps`) does the rest.

The other three are about answers.  None of them is inductive, for an answer says nothing of the
call before.  `StandingInv` does: `Calls`, `BusInv`, and of each call what it has made
of its request so far (`CallStands`) together with what its caller has told (`Pairs`).

`ScreensAlwaysPublished`: while a screen is filtered, the last event of its caller is its start
with the size of its universe (`Started`), and what is left of that is no larger (`Fits`); from
the completion to the answer, the last two events are that start and that completion
(`Finished`).  So one follows directly on the other in all that a caller told.  That a *stream* was
sent them in this way is a second invariant, `SentInv`: each frame is of an event
that was emitted, with its public fields (`FramesOwn`); a stream that has lost nothing leaves
out none between two frames of a caller (`Gapless`), which takes from `BusInv` that
a line is in order and complete; and once a caller's events are for an open stream, the later ones
are too (`ForGrows`).  The theorem needs `ScreenEventsPublic`: the two numbers that it
compares are in the frames only because the whitelist lets them through.

`ScansAlwaysRanked`: `Sorted` is what a stable sort does, the row at each place is the one
with as many rows ahead.  `AheadOrders` shows that *ahead*, by score, by symbol and by
position, is a strict linear order, so that each place is taken once (`EveryPlace`);
then the list is a permutation in order (`SortedFacts`), and its beginning the best (`Best`).
`Announced` says where in the caller's events each pivot was told, counted from the
end while the announcements are still going on.

`StagesAlwaysAgree` is about arithmetic: for any bars and any windows that `WindowsAssumption`
allows.  The bars of a page are a sequence of bars (`PageWindow`), so the averages of a window
that is long enough are natural numbers (`AverageIn`, from `Sum` as a recursive function),
and then the conditions of stage, sub-scorers and template are compared, one after the
other (`StagesOfWindow`).

### 4.12 Only model-checked

*Liveness.*  `PendingResolved`, `RowEitherWay` and `QuestionsEnd` depend on fairness, which is
beyond the proof system used here.  Every other property of a run that passes is
stated by a theorem as well, some with the premises named above.  `OneExitPerEntry` and
`LockoutHolds` are false, and their runs show it.

The type invariants of the gate, the core, the proposal store, the reviews, the engine
and the chat are proved and therefore no run repeats them.

## 5. Where the code and its documents disagree

Two disagreements are shown by a run, the exit rows and the lockout.  The others were
met while modelling and are the reason for a choice of an instance
(section 3) or for a premise of a property; `PROJECT.json` has the ones a property
bounds among the hazards.

| The code | The document |
|---|---|
| `safety/auto_execute.py:511` looks for exit rows with `source=auto`; the exit engine writes no `source`, so the lockout never trips (run `losing_streak`) | `src/docs/workflow-cheatsheet.md:469`: a lockout after three losses in a row |
| `safety/auto_execute.py:481` counts confirmations *before* the current second, and not in the transaction that confirms; `LimitOverrunBounded` says by how much the limit is overrun | `src/docs/workflow-cheatsheet.md:466`: at most 5 a day |
| `safety/auto_execute.py:437` reads a payload and writes all of it back in a later step; a confirm that commits in between is overwritten, the row is pending again, whatever `order_sent` told, and is bought a second time | `src/openspec/specs/confirm-gate/spec.md:31`: `BEGIN IMMEDIATE` is there to avoid races of concurrent confirms |
| `exit_engine/evaluator.py:254` closes a position without looking at its status inside the transaction; two runs that both selected it, one of the API and one of the CLI, write two exit rows (run `two_evaluators`) | `journal/repository.py:4`: one entry has 0 or 1 matching exits |
| `proposal/writer.py:67` looks for a free name and writes to it in two steps, so two writers of one topic leave one proposal; a transition that read one of them (`proposal/state.py:143`) moves or unlinks whatever is at that name by then | `src/openspec/specs/proposal-writer/spec.md:56`: never overwrites an existing file |
| `review/pipeline.py:187`, `:202`, `:217` and `:298` write outputs with `write_text`, which creates the file first; when it fails, on a full disk, `swarm_runs/runner.py:432` finds the file there and reports the *next* node as the failed one (`NodesReported`) | `src/openspec/specs/swarm-runs/spec.md:106`: the failed node is the one that raised |
| `eventbus/__init__.py:59` catches a full queue per subscriber, and any other exception around the whole loop: a `put_nowait` whose waking raises ends the walk, and later streams never get the event (`missed` in `StreamsFaithful`) | `src/docs/backend-eventbus.md:83`: each subscriber has its own catch, none affects the others |
| `review/llm_client.py:198` raises on an answer that does not parse before its cost row is written | `src/openspec/specs/post-trade-review-pipeline/spec.md:182`: one row in `llm_costs` for each call |
| `chat/agent.py:290` reports the usage of the calls only with `done`, so an answer whose later turn fails has no cost row | `src/openspec/specs/chat-agent-runtime/spec.md:22`: one row in `llm_costs` once the stream has ended |
| `api/routes/chat.py:425` marks an answer as interrupted only when the loop itself notices the disconnect; when the generator is closed at an await, which is what the server does to a stream whose client is gone, the partial answer is stored without the mark | `src/openspec/specs/admin-chat-endpoints/spec.md:122`, `:155`: the content ends with the mark |
| `backtest/metrics.py:70` stops the maximum drawdown at the first recovery | `src/openspec/specs/backtest-engine/spec.md:197`: the largest drawdown |
| `chat/storage.py:417` reads the *oldest* 200 rows of a session, so that in a longer one the question is not sent (`api/routes/chat.py:404`); `QuestionHeard` holds up to there | `src/openspec/specs/chat-agent-runtime/spec.md:20`: the latest `max_history` messages |

Other behaviour that the models show and no document rules out:

* *Core.*  An order survives the rollback of its confirm (`lost`), and the entry
  can be confirmed again; a crash after a confirm leaves a purchase without an
  audit row; a quantity in shares is later multiplied as lots
  (`journal/repository.py:188`).
* *Proposals and reviews.*  Concurrent approval and rejection leave one copy of a
  proposal in each directory (`proposal/state.py:143`); a death between replace and
  unlink leaves the old copy, which is the one a look-up finds; two reviews that
  end together lose one index entry (`review/index.py:28`); the failed node of a
  *repeated* run is guessed from the files of the earlier one
  (`swarm_runs/runner.py:433`).
* *Market data.*  A bar fetched before the close is kept for ever
  (`data/cache.py:67`); a weekday without trading is wanted by every window that
  contains it, so such a window is refetched each time and never available; a
  colour made of unknowns is kept as long as one made of answers
  (`swarm/market_risk_gate.py:237`); the snapshot's `STALE_DATA` cannot be reached.
* *Screening.*  The five-day average of the volume filter takes the last five bars
  however old they are (`screener/filters.py:49`); a screen that finds an older roster
  within reach fetches none, so there is no roster for the ratings of the day;
  two ratings of one day that overlap leave rows of both; a percentile of 99 is only
  reached with 99 symbols or more (`sepa/rs.py:131`).
* *Scoring.*  A scan asks for 250 weekdays while two sub-scorers need 252 bars, so
  they only count when weekend rows are in between (`scoring/_engine.py:135`); with
  fourteen sub-scorers deferred nobody gets above 49 points and every candidate is
  "red", which `ScansRanked` includes; the processes of the command line wire no
  loader for the ratings.

## 6. What is not modelled

*Abstracted in modelled parts.*  Prices, quantities, confidence values and the
reject rules of the validator (classes of sizings instead); the exit rules
(gain or loss); the window split and the arithmetic of the verdict
in `validation/wfa.py` (any verdict); the contents of review files and the
statistics of the aggregator; the parsing of front matter (files are complete
or refused); the crosses of the moving averages in a back-test (any strategy call may
find one); the thresholds of the risk light over closes (any verdict); the texts
of a chat and the results of its tools, which only read; rounding: amounts of the
back-test are integers that are rounded down, averages of `Patterns` are whole numbers
because its prices are multiples of the periods.  A partly modelled component says in
`PROJECT.json` which side of it is data.

*Out of scope.*  Read-only endpoints, configuration, application wiring, the
external broker and data sources, the Sharpe and Sortino ratios and the other
floating-point indicators, the Mansfield line, the memory store and the
cost sums (single statements), the web applications and scripts.

## 7. Plan

Done in this order: `TradeJournal`, `EntryDecider`, `ConfirmGate` and their
proofs; `AutoExecute`, `ExitEngine`, `TradingCore`, `EntryLifecycle`;
`ProposalStore`, `ProposalLifecycle`, `ReviewRuns` and their proofs; `Backtest`,
`BacktestReport`, `ChatSessions`, `MarketData`, `RiskGate`, `EventStream`, `Screener`,
`Patterns`, `RsRatings`, `Scoring`; the proofs of the back-test, of the risk light,
of the composed core with clamping and overlapping evaluations, of the chat, of the ratings, of the
proposal store with racing requests, of the public streams, and of the core's events; of the two
reports of a back-test; of screens, scans and stages.

Next, most important first:

1. **Sizing** — quantities as integers: shares in `confirm`, lots in the repository,
   overrides that are not whole lots (`safety/confirm_gate.py:305`), the stage caps and the
   clamp as operators, compared with the formulas of the cheatsheet over bounded inputs.
2. **Validation arithmetic** — the windows of `validation/wfa.py` and the verdict as
   operators.
3. **Journal repository** — the joins of entry and exit rows for the pages, on the journal
   that the core leaves behind.
