# TLA+ models of FaultLens

FaultLens stores the telemetry of a microservice shop, detects anomalies in it,
turns them into incidents, blames a root cause and has an LLM explain it. These
modules model what `backend/app` does with that state, and the cart, checkout and
message codec of the demo shop that it watches.
TLC checks small instances; TLAPS proves every safety property that a passing run
checks for every value of the constants.

Check a run with `tlc -config scan.cfg MCAnomalyScan`, a proof with
`tlapm PipelineProofs.tla`. `PROJECT.json` lists the runs, the mutants that show
each property can fail, the source lines behind every definition, the hazards
and the theorems.

## 1. Inventory

| Component | State | Operations | Interacts with |
|---|---|---|---|
| Ingest (`api/v1/ingest.py`, `normalise.py`) | `spans`, `metric_points`, `log_records` | POST /traces, /metrics, /logs: one transaction per batch, 3 attempts on a lock conflict, then dropped, always 200 | calls discovery and graph in its transaction |
| Discovery (`discovery.py`), graph (`graph.py`) | `services`, `service_dependencies` | sorted upserts in savepoints | ingest; read by RCA, evidence, dashboard |
| Anomaly scan (`anomaly.py`) | `anomalies` | run the detectors, load the active rows, insert / update / resolve | reads telemetry; called by the pipeline (locked) and POST /anomalies/scan (unlocked) |
| Incident engine (`incident.py`) | `incidents` | read active anomalies, evaluate rules, read open incidents, create / update / resolve | called by the pipeline (locked) and POST /incidents/run (unlocked) |
| RCA (`rca.py`) | `root_cause_analyses` | per open incident: load graph and anomalous services, score, upsert | pipeline (locked); POST /rca/run, /rca/{id}/run (unlocked) |
| AI (`ai.py`, `api/v1/ai.py`) | `ai_explanations`, `_ai_paused_until` | explain new incidents (loop), all open ones (run-with-ai), one (POST /ai/explain) | Groq; evidence |
| Pipeline (`scheduler.py`, `api/v1/pipeline.py`) | `PIPELINE_LOCK`, `_task`, `last_report` | detect, incidents, RCA, AI with a commit after each; loop every N seconds; two manual runs | all of the above |
| Retention (`scheduler.py`) | deletes old telemetry | every 10th cycle, batches of 20 000 | ingest |
| Sessions (`db/session.py`) | connection pool | session per request, roll-back on exception | all |
| Read APIs, evidence, correlation | none | queries | the dashboard polls them |
| Dashboard's live page (`frontend/hooks/useFaultLens.js`, `app/demo/page.js`) | list of incidents, error, loading, selected incident | poll every 10 s and on request, select | the backend's read API |
| Shop: cart (`demo/src/frontend/providers`, `pages/api/cart.ts`, `demo/src/cart`) | cart in Valkey; the copy each tab shows | GET, add, change a quantity, empty | web tier over gRPC; TanStack Query in the tab |
| Shop: checkout (`pages/api/checkout.ts`, `demo/src/checkout`, `payment`) | payments and shipments made | prepare, charge, ship, empty the cart | cart, payment, shipping |
| Shop: codec (`demo/src/frontend/protos/demo.ts`, `react-native-app/protos/demo.ts`) | none | encode, decode, JSON, partial objects, per message | every gRPC call of web tier and app |
| Rest of `demo`, other pages of `frontend` | flags, samples | emit telemetry, inject faults, display | not modelled |

Hard behaviours: read-then-write sections across `await`s with and without the
lock, one commit per stage (a run can fail between them), restarts, seconds-long
Groq calls inside a session, duplicates left by unlocked calls, the cool-down's
clock. What makes each component correct:

- scan: one active row per key, the cool-down, no revival of resolved rows, a
  lasting fault ends up reported, a quiet key ends up clear;
- detectors: a minority of bad minutes does not shift what is normal;
- rules: a service that gets worse is not rated milder;
- engine: one open incident per service, no resolution while anomalies are
  active, incidents of quiet services drain;
- RCA: a service that is anomalous is blamed;
- pipeline: mutual exclusion, tables consistent after each stage, no starvation;
- AI: rate limits kept, an answered incident not left without an answer, every
  lasting incident explained;
- ingest: no deadlock, no lost update, stored and counted once, each table all
  or nothing; discovery and graph: what a batch adds depends neither on the
  order of its rows nor, for services, on where the stream is cut;
- live page (not modelled): it ends up current whatever order the polls come
  back in;
- shop: the customer is told the truth about an order whichever call failed, and
  the cart shown is the cart stored once its calls are through;
- codec: two separately generated copies of one schema understand each other;
- retention (not modelled): nothing young deleted, sweeps end.

## 2. Modules

| Module | Models | State | Actions |
|---|---|---|---|
| `AnomalyScan` | `run_anomaly_scan` up to its commit, calls in flight at once | `firing` (what the detectors see), `anomalies`, `scan` (per call) | `ScanDetect` (stamp, detectors), `ScanLoad` (SELECT of active rows and the decision), `ScanCommit`, `ScanAbort`, `Tick`, `TelemetryShifts` |
| `IncidentRules` | `evaluate_rules` | none | operators |
| `IncidentEngine` | `run_incident_engine`, calls in flight beside scans | + `incidents`, `engine` (per call) | `EngineMatch` (read anomalies), `EngineLoad` (read open incidents), `EngineCommit`, `EngineAbort` |
| `RootCause` | `backward_graph_traversal`'s choice | constant `Calls` | operators |
| `Pipeline` | `PIPELINE_LOCK`, `run_cycle`, manual runs | + `lock`, `waiters`, `stage` | `Request`, `Acquire`, one action per step of a stage, `Analyse`, `ExplainDone`, `Fail`, `Restart`, `World` |
| `Explain` | the writers of `ai_explanations` | `status`, `explanations`, `groq`, `paused`, `ai`, `post` | `LoopSelects`, `LoopExplains` (one request), `ManualSelects`, `ManualExplains`, `CommitAI`, `AIFails`, `PostArrives`, `PostExplains`, `PostCommits`, `EngineRuns`, `PauseEnds`, `GroqChanges`, `Restart` |
| `SpanBatch` | `_aggregate_spans`, `_service_names_from_rows`, `extract_dependencies` | none | operators |
| `Ingest` | concurrent batches, their transactions and row locks | `at`, `attempt`, `todo`, `pending` (uncommitted versions; its rows are the ones locked), `stored`, `table`, `counted` (history) | `Arrive`, `InsertRows`, `Upsert` (one row), `Release` (savepoint), `SavepointFails`, `Commit` (it lands), `Confirm`, `CommitLost`, `AttemptFails`, `Retry`, `Crash` |
| `Alerts` | the abstract promise of the pipeline | `telemetry`, `sample`, `reports`, `alerts` | `Shift`, `Observe`, `Discard`, `Report`, `Triage`, `Blame`, each atomic |
| `RedDetector` | `evaluate_red`, `_median`, the history of `_span_based_detections` | none | operators |
| `ProtoCodec` | the generated functions of a message, once for all messages | none | operators, the recursion written out by height |
| `WebProto`, `AppProto` | the 43 messages and 10 services of the two copies of `demo.ts` | none | tables |
| `Shop` | a user's tabs, the cart service, the checkout | `store`, `view`, `fetch` (each tab's cached cart and its query), `req` (each call's progress), `charged`, `shipped` | `AddItem`, `UpdateItemQuantity`, `Empty`, `PlaceOrder`; `AddRead`, `AddWrite`, `EmptyWrite`; `Prepare`, `Decline`, `Charge`, `PaymentUnreachable`, `Ship`, `EmptyAfter`, `Breaks`; `Answer`, `AnswerFails`; `FetchRead`, `FetchDone`, `FetchFails`, `Focus` |

`MC*` modules hold the values of the constants or let inputs come and go.
`MCOperators` extends the ones without state of their own, side by side
(`RedDetector`, `IncidentRules`, `SpanBatch`, `ProtoCodec`); one part moves while
the others rest, since they share nothing. `MCExplain` runs `Explain` under two
values of its cap.

`Pipeline` implements `Alerts` (`ImplementsAlerts == A!Spec`, where `A` is
`INSTANCE Alerts`): `telemetry` is `firing`, `sample` what the scan under way has
seen, `reports` the active anomalies per key, `alerts` the open incidents per
service with their rule and root cause. `ScanDetect` is `Observe`, a scan's
commit is `Report`, an engine call's commit `Triage`, `Analyse` is `Blame`, a
failure or restart with a scan under way `Discard`; every other step (lock,
queue, loads, clock) changes nothing that `Alerts` sees. `Pipeline` extends
`IncidentEngine`, which extends `AnomalyScan` and `IncidentRules`: the pipeline's
stages are the very actions of the component modules, guarded by the stage.

`AnomalyScan` and `IncidentEngine` are specified twice over: by themselves
(`ScanSpec`, `EngineSpec`) with calls that overlap freely, which is what
POST /anomalies/scan and /incidents/run do, and inside `Pipeline`, where the lock
serialises them. `Pipeline` has no unlocked callers: with one, its properties of
uniqueness fail exactly as the run `scan_duplicates` shows.

### Abstractions

- Time is relative. A row carries the time since it last fired and a scan the
  time since its stamp, both saturating (`MaxAge`, `MaxLag`), so that the state
  space is finite and behaviours are not. `CooledDown` subtracts the two as
  the code subtracts the two stamps.
- Stamp and detectors are one step: the detectors read committed telemetry, so
  what they answer is some state of it between stamp and load.
- A session's writes are applied at the commit (autoflush is off), with changed
  columns only, as SQLAlchemy's UPDATE does: `is_active` loaded as true is not
  written again. Hence `Written` and `Triaged` leave a row alone that another
  call resolved meanwhile.
- Rows are slots. A slot whose row is resolved and that no call holds is used
  again; nothing in the modelled code reads a resolved row.
- A z-score is one of the values the rules tell apart. Titles, descriptions and
  statistics are left out. Severity is a function of the rule.
- A run's RCA is one step: what it reads is written by scan and engine only,
  which the lock excludes. The dependency graph is a constant, although ingest
  may add edges: no property depends on its being the same from run to run,
  and the theorem about root causes holds for every graph.
- The AI stage in `Pipeline` only holds the lock; what it writes is in `Explain`,
  where in turn scan, triage and RCA are one action, `EngineRuns`.
- Explanations: a row is what it says and its `ai_available`, told apart because
  an UPDATE writes each only if it differs from the row loaded. What it says is an
  answer, of the loop or asked for by a request, or the placeholder; no two
  answers say the same. A call of `generate_explanation` is one request or two, each
  a step: the first may be rejected (`BadRequestError`), the second goes without
  JSON mode. Any other error, and an answer that is no JSON, is `failed`. The
  groq library repeats a request by itself when a connection breaks; a request
  here is one with those repetitions.

- Ingest: a batch is the function `Share` of what it adds to each row; `MCIngest`
  gives the rows of each batch and checks, as an assumption, that the shares are
  what `SpanBatch` computes from them. Rows of both tables are numbered in the
  code's sort order. The two tables' statistics are one record, their four
  columns. Which exception a failure is does not matter beyond "retryable"; a
  pool timeout is an `AttemptFails` at the insert. A database that breaks a
  deadlock would be a `SavepointFails`, so `Answered` assumes no failure at all.
  COMMIT landing and its confirmation are two steps: between them the connection
  may break or the backend stop, and the batch stays stored. A connection that
  breaks before COMMIT lands is an `AttemptFails`.
- Detectors: a median is found by rank instead of by sorting, and the values of
  some minutes are a function on those minutes. Rates are thousandths, latencies whole milliseconds, and comparisons
  are multiplied out, so they are exact where the code rounds floats. How large a
  z-score is beyond "it fires" is left out; the rules' classes are in `AnomalyScan`.
- Codec: a message is a function of its fields, an encoding a sequence of tagged
  payloads. Varints, lengths and UTF-8 are the library's. A field is written
  under one tag and read under the same number and wire type; packed and
  unpacked numbers do not occur in `demo.proto`. The functions of a message call
  those of its submessages, down to messages without any; no message of
  `demo.proto` is higher than four, so four calls into each other are written out
  (`Encode1` to `Encode`, and so on) where the code recurses, and the decoder's
  limit of 100 is never met. `MCProtoCodec` states this and what else is true of
  the tables as assumptions, which TLC evaluates on both copies of `demo.ts`:
  `CopiesAgree` (same messages, fields, tags and methods), `FieldsDiffer` (a
  field's names and number are its own), `TablesNest` (the height; lists hold
  messages or strings) and `MethodsCarryMessages`.
- Shop: one user, whose id all calls carry. The steps of a call are where it
  reads or writes shared state or may fail; `Prepare` stands for the cart,
  catalogue, quote and currency calls, all of which must answer. A call may do
  its work and lose the answer (`Charge`, `Ship`, `AnswerFails`); a lost answer reaches
  the caller as Unavailable or Internal, since with a code that `checkout.ts` takes
  for a declined card the customer would be told so. TanStack
  Query is modelled as its documentation and defaults have it: invalidation
  cancels a query under way and asks again, except a first one, which is shared.
- The versions an open transaction has written are kept apart from the committed
  ones and computed when the row is upserted, so that a lost update is possible
  in the model; that there is none is a property (`NoLostUpdate`).

## 3. Runs

| Run | Bounds | Shows |
|---|---|---|
| `scan` | 1 key, 2 calls, 3 rows, cool-down 2, lag 1 | types; no revival; duplicates drain; a lasting fault is reported for good |
| `scan_duplicates` (violation) | same | two overlapping scans leave two active rows of one key |
| `operators` | up to 7 minutes of 4 kinds; sets of up to 4 of 9 kinds of anomaly rows; batches of up to 3 spans, 2 services, rows without id, parent or service, spans sent twice; every message of every method, fields at their default or not, lists of up to 2, int64 at and beyond the safe range | a minority of bad minutes is ignored; a service that gets worse is not rated milder; the graph of a batch is its calls, a cut loses only the calls across it; both copies of the codec agree |
| `rules_documented_order` (violation) | sets of up to 4 anomaly rows | the docstring's order and the code's differ |
| `incidents` | 1 service, 1 scan, 2 engine calls, 2 anomaly rows, 3 incident rows | incidents of a quiet service drain; a lasting fault keeps an incident |
| `pipeline` | 2 services (caller, callee), 2 keys, loop and one manual run, cool-down 2, lag 1 | all safety properties under the lock; refinement of `Alerts` |
| `pipeline_live` | 1 service, 2 kinds of fault, 1 row each (enough, since the lock makes rows unique), cool-down 1 | drain, no starvation, root cause found |
| `explain` | 2 incidents, loop, manual run, 1 POST handler, 2 or 1 per cycle | cap, requests and pause; the loop leaves no answered incident unanswered; every lasting incident gets a row |
| `explain_placeholder` (violation) | same, 2 per cycle | a stored placeholder is never retried |
| `ingest` | 2 trace batches and a metric batch on 2 services and their edge, 3 attempts | no deadlock, no lost update, exact rows, each table all or nothing, every batch answered |
| `first_seen` (violation) | as `ingest` | a metric batch registers a service with a first_seen that is not its earliest |
| `shop` | 1 tab, 3 calls, 1 product, quantities up to 2 | the tab ends up with the stored cart; outcomes told are true; a change of quantity lands |

Why the bounds are enough: each hazard needs two actors on one row; keys and
services interact only through triage (two rows of one service) and RCA (caller
and callee), which the instances contain. A cool-down of two ticks separates
"too early" from "in time", a lag of one tick separates the scan's stamp from
the clock. Three rows let a duplicate, the original and a fresh one exist at once.
A cycle of waiting batches needs two rows and two batches; the third is there
because a commit between a read and a write needs a writer of its own. Three
spans are a caller and its callee with one more on either side of a cut.
Seven minutes are the five a baseline needs with room for quiet minutes or bad
ones among them, at an even and an odd number. A call, one that overlaps it and
one after both are three; a second tab only adds readers of the same cart, of
which `ViewCatchesUp` promises nothing. Under a cap of two the loop commits two
answers at once, of which a conflict loses both; under a cap of one the two
incidents exceed it, so the `LIMIT` has something to leave out.

No run disables the deadlock check.

### Fairness

- Scans and engine calls (`scan`, `incidents`): calls keep coming (weak fairness
  of the first step) and, although one may fail, not all of them fail for ever
  (strong fairness of the later steps). The clock ticks (strong, because calls
  at the `MaxLag` bound hold it back).
- `Pipeline`: `_loop` never ends, so its request is weakly fair; every `await`
  returns or raises, so each run's next step is weakly fair; the loop survives
  exceptions and does not fail for ever (strong, for its own steps only); the
  process is not restarted for ever. Nothing is assumed of manual requests.
- `Explain`: `LoopSelects` is strongly fair because the lock is FIFO and the loop
  keeps asking; a manual run goes on; the pause is finite. The loop's cycles are not
  cut off for ever between a request and its end, nor before the commit (strong
  fairness of these steps). `EveryIncidentGetsARow` assumes that Groq is back for
  good, not that any given call succeeds, and that no prompt is always rejected
  (`Unanswerable` is empty).
- `Ingest`: a handler that can go on does (weak fairness of `Progress`): the event
  loop runs it and the database grants a free lock. No batch has to arrive and
  nothing has to fail.
- `Shop` has safety properties only.

## 4. Proofs

Assumptions: keys are pairs of a service and a metric, slots are positive
numbers, the cool-down is at least one tick, engine calls and scans of the
pipeline are its runs, the loop is one of them; no finiteness is assumed there.
Of ingestion: the batches are finitely many, rows are numbers with the services
before the edges, a batch's shares are statistics of such rows, and there is at
least one attempt.

- `IncidentEngineProofs`: type invariants of `ScanSpec` and `EngineSpec`, and
  `NoRevival`: a commit writes only to rows it loaded as active and that still are,
  or to slots that no call holds.
- `IncidentRulesProofs`: that triage yields a rule needs `EvaluateRulesIsFirst`: the
  `CHOOSE` of the first match has a witness, because the last rule matches every
  non-empty set. `CriticalIff` says what "critical" means and `AtLeastHighIff` what
  "high", over all anomalies. Both are about a strongest row or about there being
  several, so they pass from a set to any that is as bad: `AsBadAsSevere`.
- `OperatorsProofs`, on what `MCOperators` puts in, one part at a time
  (`RunIsTheParts`, in `CodecProofs`: a behaviour of the run `operators` is one of
  each part):
  - `WorseNeverMilder`, from `AsBadAsSevere`, for any number of anomalies at once:
    a set with one more row, or with a row that has grown, is as bad as it was.
  - `MinorityIgnored`, for every history in which a minute has a latency exactly
    if it has requests, and every threshold (`MinorityNeverCounts`); along the
    minutes of `MCRedDetector` for a baseline of any length. The k-th smallest value
    is the only one with fewer than k below it and at least k not above it; what
    more than half of the values are is that one in the middle, hence the median,
    and 0 is the median of the deviations from it (`MedianOfMany`,
    `DeviationOfMany`). Nothing else of the history enters the verdict on a window
    with requests. Assumed: None is not a number.
  - The operators of `SpanBatch` are folds of the community modules. Each is
    unfolded to a run, one row after the other, and the rest is counting up the
    rows. `CutServices` holds because adding statistics is associative.
    `GraphByCalls` needs `IdsInv`, that a span's id is used for that span and its
    copies only, whence the lookup finds exactly the spans of the batch; then the
    edges after m rows are the calls among them (`EdgesAreCalls`, for any batch of
    such spans, wherever it comes from). `CutDependencies` is this theorem used three times, on the batch and on
    either part of it. Assumed: a missing id or service is neither a number nor a
    name, and the batch is bounded by some number.
- `PipelineProofs` goes in layers, each resting on the ones before:
  1. `TypeOK`.
  2. `LockInv`: a run past its queue is the lock's holder, and a scan or engine
     call is under way only in its own stage. `MutualExclusion` follows; by
     itself it is not inductive, since it does not mention the lock.
  3. `ScanInv` = `OneActivePerKey` and `SnapshotCurrent`: what a loaded scan is
     about to write still fits the table. Uniqueness alone is not inductive: a
     commit keeps it only if the key it inserts is still free. Time only makes a
     resolution more justified, which carries the cool-down over to the commit.
  4. `EngineInv` = `OneOpenIncidentPerService`, `MatchCurrent` (an engine call's
     match is what the rules say now, the incident it holds is the open one) and
     `TriageCurrent`. `CommitOutcome` computes what a commit leaves.
  5. `RootCauseKnown`, from `TriageCurrent`: an open incident has an active row,
     so its service is anomalous, and the choice stays among anomalous services.
  The action properties `CooldownRespected` and `ResolvedWhenClear` follow from
  layers 3 and 4.

- `IngestProofs`: the inductive invariant is `LocksInv`: types, no row with two
  holders, and `InOrder`, which says that what a batch holds lies below what it
  still has to lock and how far each statement has come. `NoWaitCycle` is not
  inductive itself; it follows because along `WaitsFor` the wanted row grows
  (`WaitsUpwards`) and a finite set of batches has one that wants the greatest
  (`GreatestExists`, by a smallest counterexample). With `LocksInv`,
  `NoLostUpdate` and `BatchAtomic` are inductive: a batch is tried again only
  before its COMMIT has landed, and only what has landed is logged as persisted.
  Nothing is said of a batch that is dropped or lost but that it is whole, since it
  may have landed. `RowsExact` speaks of the sum
  over all batches counted in a row, so its invariant `ExactInv` has all of these,
  that a batch is counted only in rows it touches, and that every row is exact so
  far: a commit adds one batch to what is counted and its share to the row. That
  a sum grows that way (`SumExtended`) is an induction over finite sets, carried
  out with a set of subsets (`TotalsExist`), since the library's induction cannot
  be cited.

- `CodecProofs`. `EveryMessageComesBack` and `EveryObjectComesBack` are about any
  message of either copy, with any numbers and strings and lists of any length:
  what one copy writes, the other reads as it was sent.
  - One level, with what the calls inside return taken as given. On the wire, the
    entries of the first n fields are those of the first n - 1 and one for each
    value of the next, and reading entry after entry adds value after value to
    the field they belong to (`ReadBack`); it rests on the tags of the tables
    being different. An entry no field reads leaves what was read as it is,
    wherever it comes (`SkippedIsNothing`). In JSON, what toJSON leaves out is
    what fromJSON and fromPartial put back (`ObjectLevel`).
  - Four levels, by counting up the height of a message (`AllComeBack`,
    `AllObjectsComeBack`); the calls of a height are one operator of it
    (`EncodeAt(h, ..)`). A value that fails inside fails the message, so "safe" is
    decided at every depth.
  - That the messages tried are messages of the tables (`SamplesFit`) and that a
    call is of a method both copies have (`CallInvariant`) bring both to
    `CopiesAgreeOnTheWire` and `CopiesAgreeOnJSON`. Under the names of the
    `.proto` file a field is found exactly if the reader has that name for it
    (`UnderComesBack`), which is what the app lacks for the fields with two names.

  Assumed: `Undefined` and `Failed` are neither numbers, Booleans, functions nor
  one of the strings tried, as model values are not. The proofs use of the tables
  only the four assumptions above.

- The refinement, in `PipelineProofs`. A step of `Report` needs more than `ScanInv`:
  what a scan plans for a key must be what `Alerts` allows for the z it saw, on
  the rows there are at the commit. `PlanCurrent` says so and is inductive under
  the lock. With it and layers 1 to 4 above, `RefinementStep` takes every action
  of `Pipeline` to an action of `Alerts` or a stutter; `Blame` needs
  `TriageCurrent`, since causes are promised for current alerts only. It holds
  for every set of keys, runs, rows and dependency graph.
- `ExplainProofs`: `TypeOK`, then `GentleInv`, which adds to `LoopIsGentle` a `Budget`
  of two requests for every incident still to come, and that what a loop stage has
  staged are answers, never placeholders. That the selected incidents are within
  the cap is a counting argument: those with fewer than `MaxPerCycle` pending ones
  before them are at most `MaxPerCycle`, although the incidents may be infinitely
  many. `LoopKeepsAnswers` follows: a commit either finds the row it inserts taken
  and fails, or writes an answer; an UPDATE that leaves `ai_available` alone leaves
  it true where it is true at the commit, whatever it was when the row was loaded.
  `LoopIsGentle` is proved for every cap; the run checks it for two of them
  (`GentleAtEitherCap`).
- `ShopProofs`, of `Shop`'s own specification, any number of tabs, calls and
  products. `CallsInv` says what was paid and shipped at each step of an order;
  `OutcomeTold` only speaks of calls that are over. `ViewInv` says of a tab that
  is "undisturbed" that a stale view is owed to an answer on its way, which will
  invalidate it; "undisturbed" can only be lost, so each step is checked against
  a tab that was undisturbed before it. `LandInv`, for `ChangesLand`: while calls
  are made one at a time, the one in flight is the latest, what it has read is
  still stored and its difference leads to what was chosen; the latest change that
  is through is what is stored. A call counts as made alone only if its tab showed
  the stored cart, which starts the argument; that it is the latest, and stays so,
  carries it on.

Only model-checked: all liveness properties, since fairness and `ENABLED` are
outside TLAPS here. Every other property of a run that TLC passes is a theorem
(`GentleAtEitherCap` as `LoopIsGentle`, for every cap). What is said of the tables
of `WebProto` and `AppProto` in the four assumptions of `MCProtoCodec` is evaluated
by TLC, completely, as they are finite and have no parameters. Strings are
opaque to the proofs: that a value of a string field is a string is not used.

`MinorityIgnored` compares verdicts of `evaluate_red` with one another, so its
thresholds and `MinBuckets` are the code's on both sides: that they have the
values they should is not checked.

## 5. Disagreements found

- `scan_duplicates`: `models/anomaly.py` promises one active row per key; the
  unlocked endpoint breaks it. `DuplicatesDrain` shows it heals once the key is quiet.
- `rules_documented_order`: the docstring's table has HIGH_ERROR_RATE before
  LATENCY_SPIKE_CRITICAL; the code tries them the other way round.
- `first_seen`: `models/service.py` promises the earliest time; a metric or log
  batch that registers a service stores the latest of its times.
- Not a run, since discovery.py itself says so: `ingest.py` has "either the whole
  batch lands or none of it", but a failed savepoint keeps the telemetry and
  drops the counters of one table. `BatchAtomic` states what does hold. A
  deadlock of an upsert would end there too and never reach the retry.
- `explain_placeholder`: the loop's "retried after the pause" fails once another
  writer has stored a placeholder.
- Not a run, since what disagrees is an interface: `useFaultLens.js:68` asks for
  `/v1/incidents?limit=50` and `/v1/services`, which the backend does serve
  (`PrefixCompatMiddleware`, `main.py:129-139`). But line 74 maps the answer as a
  list, newest first, while `incidents.py:74-96` answers an object with the list
  under `incidents`, open incidents only and sorted by severity. Every poll fails at
  `rawIncidents.map`, the error is set and never cleared, and the page never shows
  an incident. Hence the live page is not modelled.
- Not a run, since nothing depends on it: `models/service.py:33-34` calls the spans
  "where status_code != 2" requests; `discovery.py:57` counts every span as one,
  failed ones too. `SpanBatch` does as the code.
- Not a run: `scheduler.py:75` explains "open incidents that don't have one yet",
  but the row is looked for again after Groq has answered (`scheduler.py:57`), and an
  answer that a POST has stored meanwhile is overwritten by the loop's. What the
  loop does keep is `LoopKeepsAnswers`.
- Not a run, since nothing says which of two writers wins: an UPDATE writes
  `ai_available` only if it differs from the row loaded. A loop or manual run that
  loaded an answer, and commits its own after a POST has stored a placeholder, leaves
  an answer with `ai_available` false. `Explain` has these rows.
- Met while modelling, for which no test or comment promises anything else: two
  quick changes of a quantity send two differences computed from one view, and a
  quantity of zero or less is converted to uint32 at the checkout (`main.go:357`);
  a tab's first cart query is not repeated when a call is answered meanwhile; the
  page shows "No incidents yet" when a poll has failed (`page.js:168`).

## 6. Plan

Built in this order: scan, engine, pipeline, explanations, ingest, which writes
what they read; then the abstract promise and its refinement, the detectors, the
codec and the shop. What is left, in order:

1. `Rca`: the BFS path as a recursive function checked against reachability in
   the graph; the unlocked endpoints beside a pipeline run; tie-breaking.
2. A run of `Explain` with an `Unanswerable` incident at the head of the line.
3. `Retention` with ingest in between; rows without a timestamp.
4. The live page (polls that overlap, the incident selected), once it reads the
   list the backend answers.

Not modelled: read APIs (pure queries), normalisation (field conversion), the live
page (section 5), static pages and forms of the frontend, which share no state; the demo's other
services, which answer from constants; fault injection, whose effect on telemetry
is an input (`TelemetryShifts`), on the payment service an action (`Decline`,
`PaymentUnreachable`).
