# A TLA+ model of skhy_derivatives

This directory specifies the parts of the repository on which its research results
rest: the store that keeps what the providers sent, the processes that fill it, the gates
they wait for, the engine that replays it, the studies that judge it, and the sizing of an
order. The modules are translated from the Python source; `PROJECT.json`
maps every definition to the lines it stands for, lists the TLC runs, the hazards the
properties are aimed at, the disagreements found, and the theorems TLAPS has checked.

1. [The system](#1-the-system)
2. [Modules and code](#2-modules-and-code)
3. [Runs](#3-runs)
4. [Fairness](#4-fairness)
5. [Theorems](#5-theorems)
6. [Where code and documents disagree](#6-where-code-and-documents-disagree)
7. [What is not modelled](#7-what-is-not-modelled)
8. [Plan](#8-plan)

## 1. The system

The program collects market data for leveraged products on two Korean shares, keeps
every answer as a canonical raw record, derives normalized records and parquet snapshots
from them, and tests a closing-auction strategy (H1) on the result. Nothing here sends an
order to a broker. Each command is one process with one asyncio loop; processes share a
PostgreSQL database and a data directory. Concurrency is therefore between processes (two
collectors, two backfills, a backfill and a collector), between a process and its
provider, and between a process and its clock, signals and supervisor.

| Component | State | Operations | Interacts with | What is hard | What makes it correct |
|---|---|---|---|---|---|
| Canonical raw store (`raw_recorder.py`) | `raw_record_catalog`, gzip payload files, checkpoints | `store`, `get_checkpoint`, `advance_checkpoint` | every collector; the unique constraint decides races | file and row are not one transaction; losers delete files; the outcome of a commit may be unknown | the first payload of a key is canonical for good and readable; verdicts are true; no stray files |
| H1 collection scheduler (`h1_collection_scheduler.py`, `run_scheduler.py`) | `_completed_dates`, `_stop_event`, the run in progress | the daily loop, one run, stop, restart | launchd, KIS approval and websocket, the collector | time passes during each await; failures inside the window; signals; a cache that is pruned | the whole window of each trading day is collected, once, and nothing outside it |
| H1 collector and decoder (`h1_shared_raw_collector.py`, `h1_websocket.py`) | the frame in hand | `store_frame`, `store_packet` | scheduler above, raw store below | several records in a frame, late frames, other symbols | each valid record stored, each stored record belongs to the window |
| KRX stock backfill (`krx_backfill_runner.py`, `historical_data_provider.py`) | `_daily_cache`, catalogs, snapshot | prefetch, store, cover, normalize, link, snapshot | KRX, raw store, normalized store, gates | repeated and overlapping runs while KRX corrects its data; death between two transactions | snapshots complete and traceable; reruns agree |
| KRX ETP backfill (`krx_etp_backfill_runner.py`, `leverage_universe_discovery.py`) | as above, one day after another | fetch ETF and ETN, store, discover products, save and link each | KRX, gates G-04 and G-06, raw store | KRX corrects an answer between two runs; a product in both lists; death between save and link | a snapshot names the canonical record that holds its row |
| General-flow files (`krx_general_flow_backfill.py`) | three files for each csv: raw, normalized, lineage | parse, read again, create or compare | the user's csv | the csv changes between two reads; a file half written by a process that died or still runs | a lineage file vouches for the other two |
| Normalized records, manifests, lineage | normalized catalog, `lineage_edge`, run manifests | idempotent save, edge, trace | backfills, studies | select-then-insert races; orphans | every derived record has a raw parent |
| Gates (`gate_decision_*.py`, `gate_registry*.py`) | journal of decisions (gate, time) | decide, seed, load, expire | backfills | the latest by recorded time, not by insert; expiry; one bad row; seeds that race and die | only a confirmed, unexpired decision opens a gate; a seed leaves its gates settled |
| Risk engine (`risk/engine.py`) | none (pure), kill switches as inputs | evaluate, size | order intents | 28-digit quotients rounded down to lots | an approved order is within every limit and keeps the ratio of its legs |
| Backtest engine (`engine/`) | clock, order states, ledger | advance, offer a quote, fill, book | studies | partial fills, quotes out of order, positions that change sign | fills and ledger agree; no fill from before the order |
| H1 strategy and live snapshot (`h1_live_snapshot.py`, `strategies/`) | inputs of a decision | fetch from two providers, check, build the feature, decide | KIS, Toss | answers arrive one by one while the clock runs; flows missing or late | no input later than the decision; no missing flow decides |
| Experiment governance | cost models, trade statistics, verdicts | split, score, promote | studies | the order of the days | a day is scored once, and out of sample |
| Research studies (`h1_prefalsification_study.py`, `general_flow_study.py`, `h1_continuous_ofi_proxy.py`, `h1_daily_proxy_walk_forward.py`, `h1_original_validation.py`) | observations, rows, models, verdict | collect or load, build rows, fit, judge | collected data, engine | values known later than the moment they speak of; lags counted in days of files with holes | a row uses what was known; a verdict has all its inputs |
| KIS, Toss, KRX clients | access token, pacing | request, refresh, retry | collectors | a cached token that the provider has dropped | bounded retries, no request without a valid token |
| Reference data and providers | instruments, aliases, provider health | register, resolve, choose | normalizers | overlapping validity, flapping health | one instrument per alias and time |
| Calendars | static tables | is it a trading day | scheduler, backfills | none: data | the tables are right |
| Discovery, cross-checks, configuration | offline jobs | one pass over a snapshot | all of the above | numerical, not behavioural | see section 7 |

## 2. Modules and code

```
CanonicalStore  <--- RawRecorder          (refinement: ImplementsCanonicalStore)
      ^  ^---------- H1Collection         (uses Put and Verdict for its store calls)
      +------------- KrxBackfill          (the same)
GateJournal <------- EtpBackfill <---+
FlowBackfill <-----------------------+--- MCCollection   (one database, one disk)
Backtest <---------- MCBacktest           (order books and quotes for TLC)
KrxBackfill <------- MCKrxBackfill        (answers of KRX for TLC)
Experiments <------- H1Replay, WalkForward, OfiValidation <----+
H1Live, Prefalsification, FlowStudy, OfiFeature, RiskSizing <--+--- MCResearch
InOrder  <---------- Experiments, FlowStudy, OfiFeature  (a finite set in its order)
XProofs  ----------> X, TLAPS             (theorems about X; Sums: lemmas about sums and folds)
CollectionProofs --> EtpBackfill, FlowBackfill      ResearchProofs --> the research modules
```

**CanonicalStore** is the promise of the raw store to its callers: a table from keys to
payloads, `Put` and `Verdict`, and requests that are answered *stored*, *duplicate*,
*conflict* or *failed*. The collectors above the store are modelled against it.

**RawRecorder** is `RawRecorder.store` statement by statement, for several processes.
`catalog` holds committed rows only; a call that has inserted but not committed is at
`pc = "inserted"`. `WriteFile` is the gzip file, `Insert` the `INSERT ... ON CONFLICT`
statement, which waits while another transaction holds the key (`Blocked`), `LoseInsert`
and `DropCandidate` are the loser's path, `Verify` is `_verify_stored_payload`,
`TxnFails`, `CommitAckLost` and `CleanUp` the exception handler. `Faults` selects from
process death, disk errors, database errors, and a commit whose acknowledgement is lost.
A payload stands for its SHA-256; the other columns are functions of the call.

**H1Collection** is `H1CollectionScheduler.run` and `_execute_collection` as one process
on a clock of ticks, with `store_frame` under it. `mode` says at which await the loop is;
time moves only there. A tick is longer than the 5 s sleep and the 1 s receive timeout and
shorter than the window. `canon` is a `CanonicalStore` table; a record's key has neither
its receive time nor its frame. `Crash`, `Exit` and `Start` are the process, launchd
and an empty `_completed_dates`.

**KrxBackfill** is `execute_krx_backfill` for several runs that share the catalogs: the
prefetch backwards over weekdays with bounded retries, the raw record for each answer, the
coverage check, then one save and one edge for each bar in transactions of their own, then
the snapshot. KRX publishes days late and corrects them (`Publish`, `Revise`). A run may
die between any two steps.

**Backtest** is `run_backtest`: events in the order of their sort key, each quote offered
to each order state in turn (`FillOrder`, `PassOrder`), `apply_fill` on the ledger.
Average costs are reduced fractions and so exact, where the code has 28-digit decimals. An
order is its first leg, the only one the engine fills; prices are in one currency.

**GateJournal** is the journal of decisions. A row carries the time its writer took, and
rows are appended when they are saved, so the order of the times is not the order of the
journal. `Latest` is `load_all_decisions`, `Loadable` the validation that makes
`load_gate_registry` raise, `IsResolved` the effective status at a time. `StartSeed`,
`LoadExisting`, `SeedGate` (one transaction for each gate) and `EndSeed` are the command
"gate seed", `RecordReview` a reviewer, `RestartSeed` a death or a repetition.

**EtpBackfill** extends it with `execute_krx_etp_backfill` for several runs: `CheckGates`
reads the journal once, then each day is two rounds of `FetchEtp` and `StoreEtp`, and one
`SaveEtp` and one `LinkEtp` for each product, each a transaction. `Discovered` and
`Observed` are the discovery over both answers. A run keeps its answers and the ids that
`store()` gave it (`answers`, `ids`), and what it has left to do (`left`).

**FlowBackfill** is `krx_general_flow_backfill.py`: `LoadCsv` reads and parses, `Reread` reads the
csv again and compares, `CreateOrCompare` opens each of the three files exclusively or
compares it with what is there, `WriteContent` fills it. Between the two the file is
`Half`. The csv of a data set may be replaced at any time.

**H1Live** is one trading day of the strategy: `FetchPrimary` asks KIS for one instrument
after another, each answer with rows of its own moment, `FetchSecondary` asks Toss in one
call, `BuildFeature` checks quality, references, fund inputs and the lookahead guard at the
moment the last answer arrived, `DecideSignal` is the strategy. The flows of a fund are
`program`, `creation` and `multiplier`, each with the moment it became available.

**Experiments** has what the studies share: cost components, transaction costs, profit
factor, drawdown, share of the best day, the promotion verdict. **H1Replay** audits the
stored data and replays a round trip a day; **WalkForward** loads the daily catalog, makes
candidates and executes one fold after another; **OfiValidation** is the order flow
validation from its source gate over the sealed test to the walk-forward blocks.

**Prefalsification** collects days backwards from KRX or loads a file, admits values by the
moment they happened and the moment they were known, and judges. **FlowStudy** is the
general-flow study over files that each lack some days. **OfiFeature** computes the ten
minute order flow feature; an event without a time is `NoTime`. **RiskSizing** is
`RiskEngine.evaluate`: kill switches first, then one factor for all legs, and lots. A decimal
is a numerator over a power of ten from `Tens`; `Rounded` is the nearest one, half to even,
with a numerator of at most `MaxCoefficient`, 10^28 in Python.

In these modules a regression, a bootstrap or a permutation test is a choice among its
possible outcomes; the guards around it, what goes in, and what its outcome decides are
the code's.

## 3. Runs

| Run | Question | Instance | Result |
|---|---|---|---|
| `raw_store` | Does `store()` keep its promise under every fault? | 2 collectors, 1 key, 2 payloads, 4 record ids, every fault, 1 orphan | 8 properties hold |
| `raw_ack_lost` | Is a redelivery always skipped silently? | the same, 3 ids, lost acknowledgements only | violated |
| `h1_days` | Is what is stored, and recorded as completed, right? | 3 days, 2 of them trading days, all faults, at most 2; 2 frames of up to 2 records; delays up to 2 ticks | 4 properties hold |
| `h1_recovery` | Is the window collected in the end? | 2 trading days with a window of 6 ticks, 3 faults | holds |
| `h1_socket_closed` | Does a day end only with its window? | one closed socket | violated |
| `h1_partial_frame` | Is a frame stored whole? | one frame, no fault | violated |
| `krx_backfill` | Are snapshots complete and traceable, reruns harmless? | 2 runs, 2 targets, 4 days (2 trading days, one published late), 2 possible answers, 1 correction, 1 retry | 6 properties hold |
| `krx_untraced` | Has every normalized record a raw parent? | 1 run that may die | violated |
| `backtest` | Do fills, positions, cash and averages agree? | 4 order books, 2 instruments, 7 quotes, 5 events, participation 1/2 | 5 properties hold |
| `backtest_switch` | Does a reversed position start with a new average? | the same | violated |
| `collection` | Do gates, ETP backfills and flow files stay sound when their commands race and die? | 2 seeds of 2 gates, 1 of 3 reviews; 2 backfills over 2 days, 2 answers for each list, 1 correction, 1 retry; 2 loaders, 2 data sets, 4 csv files, 2 downloads | 4 properties hold |
| `research` | Does a signal, feature, row or verdict use what was not known, and is an approved order within its limits? | one command at a time, each over the inputs listed in `MCResearch` | 12 properties hold |

Why the bounds are enough for the interesting cases:

- *raw store*. The unique constraint serializes the calls for one key and calls for
  different keys share nothing (no two calls share a file), so one key and two collectors
  show every race; four ids let a key be stored, lost, stored again and contradicted, with
  a file left behind by a crash in between. `MaxOrphans` bounds crashes that leave a file,
  not other crashes.
- *h1 collection*. Three days make the set of completed dates exceed `PruneAbove` = 1 (10 in
  the code), so pruning happens. Delays of two ticks let a run start late enough to
  outlast its window of two ticks. Two frames are enough for a repeated record and a frame
  with one bad record; two faults for a failure during recovery from a failure. In
  `h1_recovery` the window is long enough for three faults and a complete run.
- *backfill*. A second run is needed for reruns and overlap, a third meets no new state:
  runs meet only in the catalogs, which are first-writer-wins. `MinDays` = 2 and a day
  published late make too few, enough and incomplete days possible; the second target may
  be suspended.
- *backtest*. Quantity 3 at sizes that give 1 or 3 has partial and full fills of entry and
  exit, closings that leave, flatten and switch a position, to a larger and to a smaller
  one. One book has several orders open on one quote. Delays let quotes arrive out of order.

- *collection*. A backfill reads the journal in one step and never again, and the flow study
  shares nothing with the rest. `MCCollection` uses this to keep the run small: the journal
  moves only until the first backfill has read it, two backfills go on only over the
  plainest journal that lets them, and files move alone. The theorems about `GateSpec`,
  `EtpSpec` and `FlowFileSpec` have none of these restrictions. The clock has two values:
  the shipped confirmation of G-04 expires at the second, that of G-06 later; the third gate
  the code seeds behaves as these. The reviews are a rejection, a confirmation, and a
  confirmation without evidence, which makes the journal unloadable. The answers have one
  product in both lists with different figures, one without shares, rows of another target,
  date or kind.
- *research*. The commands keep nothing in memory for each other, so one at a time loses no
  behaviour; what they share, the stored data, is an input here. Inputs are chosen so that
  each guard of each module both passes and fails and every verdict is reached. The clock
  of the live capture runs past the cutoff between any two answers. Order flow windows
  place up to three quotes and up to three program events at every combination of moments
  before, in and after the window. Sizing uses four digits in place of 28, which makes the
  rounding of quotients visible at quantities up to 7. `SizesAssumption` asks that products of
  an order's amounts stay below `MaxCoefficient`: TLC checks it of the instance, and with
  28 digits any amount the program trades meets it.

Deadlock checking is off in the backfill, backtest, `collection` and `research` runs, because
runs and commands end there, and on in the others. Each property of a passing run has a mutant, a plausible bug in one mapped
definition (`\* Mutant:` in the modules), under which TLC finds it violated.

## 4. Fairness

Only liveness runs use it, and none of it covers a fault.

- *RawRecorder*: `WF` on a process's own next statement (a running process keeps running)
  and `SF` on `Insert`: PostgreSQL wakes the waiters when a transaction ends, so a waiting
  insert is not passed over for ever. A crashed process need not return; its call is over.
- *H1Collection*: `WF` on the steps of the loop, the restart by launchd (`KeepAlive`), and
  the clock. Every await of the code has a timeout, which is what `Tick` models.
  `WindowCollected` speaks of the time until the next fault.
- *KrxBackfill*: `WF` on the steps of each run: requests have timeouts, waits are finite.
  Failure is always possible and never forced.

## 5. Theorems

The proofs are in `*Proofs.tla` and `Sums.tla`. Each holds for every value of the constants
under the assumptions named in the modules, which TLC evaluates in each run: disjoint
sentinels, calendars inside the days, counts and amounts in Nat, finite inputs, symbols that
are ordered, and for sizing amounts that are small beside 10^28. Every safety and action
property of the passing runs has a theorem.

**RawRecorder.** Type correctness; then three inductive invariants, each on top of the one
before. `TxnInv`: at most one uncommitted row for a key, on a key without a
committed row, and a loser has seen the canonical row. This gives `CanonicalKept`. `IdInv`:
calls in progress have different record ids, and a file that was dropped is gone. With it
`FilesAccountedFor`. `FileInv` needs both: an acknowledged row has its complete file,
because the only steps that remove files belong to calls whose id is in no
acknowledged row. It contains `CanonicalReadable` and `AckedRedeliveryNeverFails`, which hold
under all faults; `RedeliveryTheorem` needs the assumption `"ack" \notin Faults`, and
`raw_ack_lost` shows why. `ImplementsCanonicalStoreTheorem` is the refinement: the canonical
payload of a key is that of its committed row, a winner settles when it commits (or fails,
with its payload settled, when the acknowledgement is lost), a loser when it has verified.
`VerdictsStandTheorem` carries `VerdictsHold`, proved of the abstract store, over to it.

**CanonicalStore.** Types, first writer wins, verdicts hold.

**H1Collection.** `CanonIsTable`, then `StoredInsideWindow`: the catalog changes in one
step, and that step has checked both times against the window. For the schedule the
invariant `H1Inv` has the types and three parts. `ModeInv`: a run is in progress exactly in
the modes of a run. `CompletedInv`: the recorded days have begun, and for each day ever
finished the list still holds one that is not before it, which is why pruning forgets no day
that could come due again. `ScheduleInv`: a run is for a day that is not finished and will
last to the end of the window. Hence `NoRunAfterCompletion` and
`CompletedEarlyOnlyWhenCut`.

**KrxBackfill.** Types with the shape of a run's local state in each phase. `Agreement`:
what the cache of a run holds, and every normalized record, is what the raw catalog holds,
including the time of receipt; an answer that differs never gets past `RawConflict`. Hence
`RerunsNeverConflict`. For `SnapshotTraceable` the invariant adds progress: what a run has
passed in its order of targets and days is saved and linked, and no step undoes it.
`CompleteInv` says what the prefetch has done: the cache holds exactly the weekdays from the
cursor to the end date, the open days among them number `MinDays` once it is over, and every
target passed has a bar on each open day. It gives `OneRequestPerDay` and `SnapshotComplete`.

**Backtest.** `NeverOverfilled`, and `FilledAfterCreation`: a quote on offer has happened by
the simulated clock, so comparing an order's creation with the quote's own time suffices.
`LedgerInv` writes the ledger as sums over the orders: the position of an instrument is what
its orders have bought less what they have sold, and the cash is no worse than the same fills
at their limits. It gives `PositionsMatchOrders` and `LimitsHonoured`. `MoneyInv` keeps the
averages and profits fractions with positive denominators, which is the rest of `TypeOK`.
`BalanceInv` is behind `LedgerBalances`: over a common denominator K of the averages there
are whole numbers V, the cost of each position, and the profit is the cash and their sum. A
fill changes one of them, and `FillBalances` is the identity between what it adds to profit,
cost and cash in each of the ways `apply_fill` has to book it.

**GateJournal.** `JournalInv`: each gate has a newest decision, and a gate and a time name
one decision, because the primary key refuses a second one. `SeederInv`: what a seed has
loaded was newest among the first n rows of the journal, for an n not before the row at
which the seed began, and all rows before that are not newer than the seed's own time; so
what it skips is still the newest or overridden by a later row, and what it inserts is only
older than rows saved after it began. Hence `SeedSettlesGates`.

**EtpBackfill.** `RunsUnderStandingConfirmation` on top of that invariant: what a run saw in
the journal is a prefix of it, which later appends do not touch, and no step past the gates
changes what the run saw or the time it judged by. `EtpSnapshotsTraced` rests on
`EtpTraceInv`: what a run holds in `answers` and `ids` is what the raw records of its day
hold, a product that has left `left` has its snapshot and edge, and no catalog entry is ever
replaced.

**FlowBackfill.** `LineageVouches`. A file has one content once it is complete, and its name
is the checksum of the csv, so every process that works on one csv writes the same
(`FilesStay`); a process that has come to a layer leaves those before it complete
(`Progress`), so a lineage file comes after both others (`LineageLast`).

**Sums.** The sums and folds of the community modules are recursive functions over sets, and
an induction over sets cannot be cited here. Each lemma takes, among the subsets for which
it fails, one without a smaller such subset, and adds one element to what holds below it.

**Research** (`ResearchProofs`, one section for each command).

- *H1Live*. `LiveInv`: what is kept of the answers, the feature and the signal is from before
  the decision, and the feature was computed from it. `SignalFromThePast`, `DirectionFromFullFlow`.
- *FlowStudy*. Lags are counted along the common days, which ascend (`InOrder`), and published
  before the next one opens: `FlowRowsKnownAtOpen`.
- *OfiValidation*. `ScoredInv`: scored days run on without a gap, behind the days of their
  model: `ScoredOutOfSample`.
- *Prefalsification*. An admitted value has its time of availability at or before the cutoff,
  so removing later ones changes no choice: `FeatureIgnoresLaterValues`. `StudyInv`: without
  the semiconductor series no row has its control: `CompletedStudyHadEveryDataset`.
- *H1Replay*. `ReplayInv`: position and cash are sums over the days replayed, the rest of
  `PassedReplayIsSettled` is what the verdict requires.
- *OfiFeature*. Events after the window are a suffix of each sorted list, and nothing that
  reads the list up to the end of the window meets them: `FeatureIgnoresLaterEvents`. The
  weights telescope from the start of the window to its end: `WeightsCoverTheWindow`.
- *WalkForward*. `WalkInv`: the days traded so far belong to the test windows of the folds
  done, which do not meet: `TestDaysCountedOnce`.
- *RiskSizing*. The factor, its product with the quantity of a leg and the number of lots are
  each rounded to 28 digits, up as well as down. The lemmas bound the three errors; since
  they add up to less than what separates two multiples of a limit's unit, rounding the lots
  down brings every leg to its limit or below, and the sum over the legs below the budget:
  `ApprovedWithinEveryLimit`. The same bounds, for two legs at one scale, give
  `LegsKeepTheirRatio`. The proof showed that the ratio is kept to within one lot and not to
  less: a third of 6 and 27 is cut to 2 and 8, because 0.333... of 6 rounds up to 2 and of 27
  does not round up to 9.

*Model-checked only.* Liveness (`EveryCallReturns`, `WindowCollected`, `RunsEnd`): the
prover has no fairness rules for it. The disagreements of section 6 are
counterexamples, and TLC's.

## 6. Where code and documents disagree

- `raw_ack_lost`: if the acknowledgement of a commit is lost, the exception handler deletes
  the file of a committed row; every redelivery of it raises instead of being skipped.
- `h1_socket_closed`: a socket closed by the provider ends the day, while the runbook says
  that the collector reconnects and collects the rest of the window.
- `h1_partial_frame`: the first rejected record of a frame discards the valid ones after it.
- `krx_untraced`: a run that dies between a normalized record and its lineage edge leaves a
  derived record without a parent.
- `backtest_switch`: a fill that turns a position into one that is not larger keeps the
  average cost of the old direction. `LedgerBalances` therefore holds only until that
  happens, which the history variable `flipped` records. The studies do not read the average.

`PROJECT.json`, "findings", quotes the lines.

## 7. What is not modelled

- Wire formats and field mappings of KIS, Toss and KRX; the collision of hashes and ids;
  text encodings of csv files; the provider clients' token cache and pacing.
- The statistics of the studies (regression, bootstrap, permutation): their outcome is a
  choice. The diagnostics and reports that decide nothing, and the premium study (h2), whose
  single pass has no control beyond its formula.
- Configuration, secrets, logging, the command line: no state outlives a call.
- Holiday tables: data, and constants of the modules.
- Code that only the tests call: the ingestion checkpoint, the registry of seeds and the seal
  of the test set, the method validation harness, the trace over lineage edges.
- Reference data (instruments, aliases) and provider selection: tables in memory that one
  call reads or writes; no run combines them with the rest.
- The cross-check of live prices and the fund snapshots: single passes that keep no state.
- Of modelled components: the reconciliation with a second provider (the runner does not ask
  for it), half-written parquet files, the journal hash, several currencies, order legs after
  the first (the engine ignores them), the instrument master of a backfill, new each day.

`PROJECT.json`, "hazards", also lists what no property covers, with the reason. Two of these
are worth knowing: a flow file left half written by a process that died is never completed,
and every later run on the same csv reports a conflict; and a backfill that has read the
journal does not notice a decision that is revoked while it runs.

## 8. Plan

The model covers the stateful parts of the program and every safety property has its
theorem. What would say more:

1. The hazards without a property, where a claim of the code can be stated: two orders that
   share one quote, and a quote available after the expiry of the order it fills.
2. The ingestion checkpoint (`advance_checkpoint`), if a command comes to use it.
3. Liveness stays with TLC.
