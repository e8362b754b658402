# Verification of the rsigma streaming daemon

TLA+ models of the parts of rsigma whose correctness depends on the order in
which things happen: the daemon that reads log events, evaluates Sigma rules
over them and delivers the results (`rsigma engine daemon`). TLC checks the
models on small instances; TLAPS proves the central safety properties for every
value of the constants. Paths below are relative to `src/crates/` unless they
begin with `docs/`, which is `src/docs/content/`; "server.rs" is
`rsigma-cli/src/daemon/server.rs` throughout.

Contents: [1 System](#1-the-system) · [2 Modules](#2-the-modules) ·
[3 Runs](#3-what-the-runs-check) · [4 Fairness](#4-fairness) ·
[5 Proofs](#5-what-is-proved) · [6 Differences](#6-where-code-and-documents-differ) ·
[7 Limits](#7-what-is-not-modelled) · [8 Plan](#8-plan)

## 1 The system

rsigma is a toolkit of nine crates. Six of them are, for this purpose, pure
functions or request handlers: the parser, linter and formatter
(`rsigma-parser`), the condition IR (`rsigma-ir`), the query backends
(`rsigma-convert`), the language server and the MCP server (`rsigma-lsp`,
`rsigma-mcp`), the STIX library (`rstix`) and most of the command line. The
behaviour that depends on time, order and failure is in three places: the
stateful engines of `rsigma-eval` (correlation) and `rsigma-runtime` (alert
pipeline, risk, dispositions), the pipeline of tasks that `run_daemon` builds
(`rsigma-cli/src/daemon/server.rs`), and the delivery layer
(`rsigma-runtime/src/io/delivery.rs`).

### 1.1 The pipeline

```
 sources --> event channel --> engine task --> reducer --> dispatch task --> sink channel
 (NATS,        (bounded)       JoinSet of      restores    parse errors,      (bounded)
  stdin,                       detection       the order   empty results          |
  HTTP,                        workers              \         \                   v
  OTLP,                                              \         \              sink task
  unix)                                               \         \     enrich, risk, alert pipeline,
    ^                                                  \         \    Dispatcher::dispatch
    |                                                   \         \          |  one bounded queue
    |                                                    v         v         v  per sink
    +------------------- ack task <--- AckGuard dropped by the last holder -- sink workers
                            |                                                 | terminal failures
                            v                                                 v
                    high-water position                    failure channel -> bridge -> DLQ writer
                            |
                            v
     state saver: one cut {position, correlation, alert, risk} --> SQLite --> restore decision
```

| Component | State it keeps | Operations | What is hard | What makes it correct |
|---|---|---|---|---|
| Delivery layer, `io/delivery.rs` | per sink a bounded queue, a batch, an attempt counter; per result the clones of its `AckGuard` | `dispatch`, `dispatch_incident`, `worker_loop`, `deliver_one`, `shutdown` | fan-out with one ack for all sinks; batches; full queues; retries; failure channel back-pressure | an acknowledged result is settled at every sink; one outcome per sink; nothing stuck |
| Dead-letter path, server.rs | two bounded channels | bridge, DLQ writer | both channels full while tasks stop one by one | a failure is never lost between worker and writer |
| Ack task, server.rs:2356 | high-water sequence and time | `fetch_max`, then `ack` | acks arrive in any order, and may not reach the server | position and acks agree with the saved state |
| Evaluation stage, server.rs:1609–2009 | event channel, `JoinSet`, sequence numbers, reducer backlog | receive a batch, spawn, join, reorder, dispatch | workers finish out of order, panic, or are swapped under by a reload | results and acks leave in input order; none passes a lost batch |
| `LogProcessor`, `processor.rs` | `ArcSwap` of the engine, `processing_order` lock | batch evaluation, `prepare_reload`, `commit_reload`, export and import of state | an `Arc` loaded before a lock is stale after it | no window update is lost in a reload |
| State saver and store, server.rs:1480–1526, 2503–2572, `store.rs` | SQLite rows, one per kind of state | `capture_cut`, `save_all`, `load` | the cut is read in steps while the pipeline runs; saves overlap; crash at any point | what was acknowledged is in the saved state; saved state does not regress |
| Restore decision, server.rs:627–830, 2905–3038 | none | `decide_state_restore` | replay flags against a stored position | a replay does not count an event twice |
| NATS source, `nats_source.rs` | the JetStream consumer (external) | `connect`, `recv`, ack | redelivery, replay policies, blank payloads | every message is eventually acknowledged |
| Sink task, server.rs:2101–2330 | none of its own | enrich, score, fold, dispatch, 1 s tick | several places that acknowledge | each result takes exactly one of them |
| Alert pipeline, `alert_pipeline/` | dedup entries, silences, inhibition sources, incident groups | process, tick, silence API, snapshot, restore | caps, timers, merges, rules that inhibit each other, a reload between the load of the pipeline and the lock | bounded; no alert neither shown nor counted; inhibited only with a cause |
| Correlation engine, `rsigma-eval/src/correlation*` | per rule and group key a window; suppression; event buffers | process, chain, evict, export | timestamps out of order, caps, chained rules | a window holds what its mode says, fires at most once per suppression window |
| Risk layer, `risk/` | per entity a window of contributions and its last incident | record, tick, reload, restore | threshold crossing, cooldown, caps | an incident when due, none within the cooldown |
| Dispositions, `dispositions/`, `rsigma-cli/src/daemon/dispositions.rs` | per rule verdict counts in time buckets; the keys seen | ingest from API and source, prune, snapshot, restore | the same verdicts read again and again; keys and buckets expire apart | counted once, and in the end |
| Dynamic sources, `sources/` | cached values, refresh timers | refresh, on-error policy | stale cache, failing source, pushes | on-error policy kept |
| Enrichment | response cache, semaphore | enrich with deadline | slow or failing lookups | never blocks, keeps order |
| Capture ring, tap, tail | bounded rings | push, drain | loss is allowed, stall is not | never blocks the pipeline |

`PROJECT.json` lists these and the remaining components with their sources, and
under "hazards" each place where the order of steps can go wrong.

### 1.2 Interaction

Tasks share nothing but channels, with four exceptions, and these are where
most of the hazards are: the `AckGuard` (one reference count shared by the
dispatcher and all sink workers), the engine `ArcSwap` with its
`processing_order` lock (shared by evaluation, reloads and the saver), the two
high-water atomics (ack task and saver), and the SQLite connection (periodic
and final saver). At shutdown each task ends because the task before it dropped
the last sender of its channel, so a single sender kept alive hangs the drain.

## 2 The modules

| Module | Models | Size |
|---|---|---|
| `AckJoin` | the abstract promise of the delivery layer to the source | 4 actions |
| `Delivery` | sink task (dispatch), sink workers, bridge, DLQ writer, ack task, shutdown order, crash | 21 actions |
| `Evaluation` | event channel to sink channel, worker pool, reducer, reloads, panics | 24 actions |
| `Recovery` | NATS consumer, acks, position, savers, SQLite, restart with every replay policy | 17 actions |
| `CorrelationWindow` | the window of one group of one correlation rule: eviction, rollover, cap, aggregate, condition | operators |
| `CorrelationEngine` | an event through all its correlations, chain rounds, the state limit, reload | 6 actions |
| `AlertPipeline` | inhibition, silences and dedup, with tick, silence API, reload, restart | 12 actions |
| `IncidentGroups` | the abstract promise of entity grouping: a scan of the open incidents, no index | 2 actions |
| `IncidentStore` | incident grouping of the alert pipeline: assignment in both modes, merge, caps, tick, reload, restart | 7 actions |
| `RiskAccumulator` | the windows and cooldowns of entities, with tick, reload, restart | 9 actions |
| `Dispositions` | verdict counts over a rolling window, from API, polled and pushed source, prune, save, restart | 11 actions |
| `DeliveryProofs`, `EvaluationProofs`, `RecoveryProofs`, `CorrelationProofs`, `AlertProofs`, `IncidentProofs`, `RiskProofs`, `DispositionProofs` | theorems about `Delivery`, `Evaluation`, `Recovery`, `CorrelationEngine`, `AlertPipeline`, `IncidentStore`, `RiskAccumulator` and `Dispositions` | |
| `MCDelivery`, `MCEvaluation`, `MCRecovery`, `MCCorrelation`, `MCAlertPipeline`, `MCIncidentStore`, `MCRiskAccumulator`, `MCDispositions` | the instances TLC explores | |

`Evaluation`, `Delivery` and `Recovery` follow the pipeline, cut where a channel or
a token passes between them, and each represents its neighbours by their
weakest description. `Evaluation` ends with the sink task taking a result from the
sink channel, which is where `BeginDispatch` of `Delivery` starts. `Recovery`
spans the whole pipeline but keeps of the evaluation stage only that it is in
order (what `OutputInOrder` says), and of the delivery layer only that a result
is acknowledged at some time after it was dispatched (what `AckedIsSettled` and
`AckEventually` say), in any order.

The other models look at the stores from inside. `CorrelationEngine` (which
extends `CorrelationWindow`) is what a worker of `Evaluation` does between
taking and releasing the order lock, so it is sequential, and its state is what
`Recovery` counts in `counted`. `RiskAccumulator`, `AlertPipeline` and
`IncidentStore` are the three stores a result passes in the sink task, in this
order, which `Recovery` counts in `scored`; a result that `AlertPipeline` emits
or folds is one that `IncidentStore` assigns or not, and the incidents and
repeats they emit are the `Synthetic` results of `Delivery`. `Dispositions` is
apart from the pipeline and only reads which incidents are open.

Names follow the code: `queue`, `batch`, `guard`, `staged`, `pending`, `next`,
`hw`, and so on are the fields and locals of the same name. Operators whose name
ends in `Mutant` are faulty variants of the definition that follows them; no
specification uses them, they show that each property can fail.

### 2.1 Delivery

A `Result` is one `ProcessResult`; the ones in `Synthetic` carry no ack tokens
(`dispatch_incident`: incident lines and repeats). `guard[r]` is the set of
holders of a clone of r's `AckGuard`: the dispatcher (0) and the sinks in whose
queue or batch r is. `DropGuards` is the drop of clones, with the last one
sending the tokens. A worker is a small state machine:

| `phase[s]` | The worker is | Actions |
|---|---|---|
| `idle` | in `rx.recv()` | `Receive`, `WorkerExit` |
| `fill` | in the `try_recv` loop, up to `batch_max` | `Fill`, `StartBatch` |
| `deliver` | in `deliver_one` of item `pos[s]`, attempt `retries[s] + 1` | `AttemptOk`, `AttemptRetry`, `AttemptFail`, `FinishBatch` |
| `park` | in `dlq.send(failure).await` | `Park` |
| `exited` | gone: channel closed and drained | |

`Dispatcher::dispatch` is one action per sink it visits, for it waits inside the
loop for a full blocking queue. The backoff sleep of a retry is not a state of
its own: nothing else happens to the worker in it. `Shutdown`, `WorkerExit`,
`BridgeExit`, `WriterExit` and `AckExit` are the chain of exits that
`run_daemon` awaits. `Crash` loses all memory and lets the source redeliver
whatever it was not told to forget; what a sink or the DLQ took stays.

### 2.2 Evaluation

Events are numbered in the order of the event channel. A batch goes through
`none`, `spawned`, then (`LoadEngine`) `shared` if the engine it loaded is
detection-only or `waiting` if it has correlation rules, from there
(`LockOrder`) to `exclusive`, then `evaluated`, and `forwarded` to the reducer.
A panic leads to `panicked` and, once the engine task has joined it, to `lost`.
`engine` is the sequence of all engines there have been; the last is the one
in the `ArcSwap`, and `bound[b]` is the `Arc` batch b holds, which may be an older one. An engine's
window is the sequence of events it counted: this distinguishes any two orders
of counting, any loss and any repetition, which is what the locks are for, and leaves
what a window concludes from its events to `CorrelationEngine`. An exclusive
batch counts event by event (`Count`, with `done` of its events behind it, those
that do not parse being passed over), so that a panic leaves the windows with
any part of the batch.

A reload is `PrepareReload` (load beside the live engine, without the lock) and
`CommitReload` (export, import, swap under the lock), with the new rule set
detection-only or not as it pleases. The engine task's `select!` is biased:
finished workers are joined before an event is received, hence the conjunct
`Finished = {}` of `TakeBatch` and `StopPulling`. With a pool of one the code
evaluates inline in `spawn_blocking` and awaits it; the same actions describe
this with at most one batch running.

### 2.3 Recovery

State is counted per event: `counted[e]` is how often the correlation windows
have seen e, `scored[e]` how often the risk and alert stores have. The two stores
share one snapshot here: it stands for what both have. An event
leaves the pipeline through one of four places that acknowledge it: an empty
result in the dispatch task, a result that enrichment suppressed, one that the
alert pipeline folded into an existing alert, one that all sinks have settled.
`AckToken` first raises the high-water position, then acknowledges; the
acknowledgement may be lost (`sent = FALSE`), as `message.ack()` may fail.

`StateSources::capture` reads the position, then the correlation snapshot, then
the stores, one action for each, so that the pipeline can move between them;
`SaveAll` is the transaction, which leaves a row alone when its snapshot is
`None`, and `SaveFails` its roll-back. There are two savers, the periodic task
and the final save of `run_daemon`, which overlap at a shutdown and commit in either
order. `Restart` ends the process in any state and starts another with any of the
configured flags: `Restores` and `Decide` are the decision, `RestoreWindows` and
`RestoreStores` what follows from it. How the rows are read (`Loads`) is left open:
the correlation row is imported, cannot be read (then no decision is made), or is of
an incompatible version (the decision is made and nothing imported); the rows of
the stores are restored or, for either reason, not. The process then runs with
fresh state, and its next save goes over the row. The durable consumer is found
and resumes, or it is gone and is created by the policy of the start, `resume`
included, which then hands out the whole stream.

`settled` and its copies in `save`, `db` and `start` are history variables: no guard reads
them. They record, for the windows and for the stores, which acknowledged events
a saved state is answerable for. So are `base` (the rows stored when a capture
began), `db.by` (the last to commit) and `start` (what this process restored, and
which events a replay that was compared with the stored position hands out of it).

### 2.4 Incidents

`open` is the key set of `incidents`, `entities[i]` the (selector, value) pairs
of `Incident.entities`, `index` the `entity_index`, `counts` the
`value_counts`. An id is a UUID of entity_graph mode (`Surrogates`, which the
model uses again once closed) or the fingerprint of a group_by key (`Keys`).
`AssignEntityGraph`, `Refuse` and `AssignGroupBy` are `assign` in its two modes;
`Tick` is the sink task's tick of the store, `Reload` and `Restart` what follows
from a new configuration: `Trim` is `enforce_caps`.

*Time.* The code compares `now` with `first_seen`, `last_seen` and
`last_emitted`. The model keeps the three differences `age`, `idle` and
`since`, and stops counting each at the largest threshold it is compared with.
`Advance` is a second of the clock; ticks and results come at any time. A merge
takes the older `first_seen`, and so the larger age. Backward steps of the clock
are left out.

*Restart.* What a process does after its last save is lost with it. The state
a restart finds is therefore that of the store at the save, older by the time
that has passed, and since a restart may come at any moment, `Restart` starts
from the current state and ages it. The counters are not in the snapshot.

*Choices.* Which touched incident survives a merge depends on the order of the
configured selectors, and which values beyond a lowered cap go on their order
in the `BTreeSet`: either is left open. The four timers are constants, a reload
changes caps and mode.

`owed` is a history variable: the incidents with results that no emission has
reported.

### 2.5 Correlation

`state` is the map of windows, `buffer` the event buffers and `lastAlert` the
suppression map, each under the key (correlation, group). A window is its
variant and, per slot, the deque of its entries in order of arrival; every
variant but the temporal ones has the one slot `Plain`. `Opened` is
`apply_window_open`, `Late` and `RollsOver` the decisions `Discard` and `Reset`,
`Truncate` is `truncate_oldest`.

One event is one call in the code. The model takes it in steps: `Receive` makes
room (`evict_all`, when the limit is reached) and lists the updates of
`feed_detections` in the code's order (`DirectWork`), each with the group that the
event has for this correlation and this rule (`EventGroup`): with group-by aliases one
event can update a correlation in several groups. Each `Count` or `Discard`
does one of them; `Chain` begins a round of `chain_correlations` with its
`seen` set (`ChainWork`); `Return` ends the call, also when the depth limit cuts
it off. Nothing else runs between these steps, and properties that speak of a
whole event are stated between calls (`Idle`). `Reload` is
`export_state`, `import_state`, by the identifiers of the correlations.

Timestamps are absolute and come from the events, late by up to `MaxLate`:
nothing in this engine reads a clock. `arrived` and `alerted` are history
variables, the first with every entry a key was due since its own firing reset
it or the limit took it; the firings of a round are due to it when the round begins
(`FiringsDue`), however `ChainWork` lists them: of the firings of one child
the first, which is all the code passes on (section 6). `WindowIsReference` computes
from it what the window of each mode should hold, by a definition that knows nothing
of the steps.

### 2.6 Alert pipeline

`alerts` is the map of `DedupStore`, `sources` that of `InhibitStore`, `static`
and `api` the two kinds of silences. A result takes one of the four ways through
`process`: `Inhibit`, `Silence`, `Fold`, `Emit`. Every one that is not inhibited
becomes a source (`Record`), a silenced one too. `Load` is the sink task taking the `ArcSwap` before it waits for the
state lock; the batch reads it again under the lock and the tick does not,
which is why results use `pipeline` and `Tick` uses `loaded`. `StartCreate` and
`FinishCreate` are the silence handler, which reads the limit before the lock.
`EnforceCaps` closes a reload and a restore.

*Time* is kept in ages as in section 2.4. *Names.* A rule without a name is known
by its place in the file, so a name is all that ties a source to a rule after
a reload. `through` and `missed` are history variables: when a result of each
kind last got past inhibition, and which rules may lack a source for want of
room or because they were not loaded.

### 2.7 Risk

`hits[e]` is the deque of an entity's window, `fired[e]` its `last_fired`; an
entity is tracked when it has an entry. `Record`, `Refuse` and `Pass` are what a
result does to one entity, for a layer `loaded` ahead of the lock; `Tick`
slides the windows and drops empty entities. A reload is in two steps,
`StartReload` (clear under the lock) and `FinishReload` (publish after it), with
anything in between. `Restart` keeps any subset up to the cap, for the snapshot
has no order. A threshold that is not configured is one no window reaches.
`seen` and `since` are history variables: what was recorded of an entity within
the window, and the age of its last incident.

### 2.8 Dispositions

`buckets` are the counts per rule, time bucket and verdict, `seen` the queue
`seen_order` whose keys are the dedup set. `Post` is the API handler and `Take`
the source task; each is a `worker` that reads the clock once for a payload and
then takes the lock of the store per disposition (`Apply`), so the two
interleave, with each other, the pruner (`Prune`) and the saver (`Save`).
`Refresh` is the scheduler: it reads the whole source and puts it in its cache
and in a watch channel, over whatever was not taken yet. When the fetch fails the
cache answers (`RefreshFails`; under `fail`, or with nothing cached, nothing
happens). A second source pushes single records (`Push`) past the cache into the
same channel. The cache is in memory and does not survive a restart. A verdict on an incident becomes one
for each contributing rule, which may be any rules here, also none.
`accepted` is a history variable, the dispositions that were counted.

## 3 What the runs check

Ten runs that pass and two that end in a counterexample; each property of a
passing run has a mutant, a plausible bug in the code it speaks of,
that makes the same run fail.

| Run | Properties | States | What it shows |
|---|---|---|---|
| `delivery_crash` | `AckedIsSettled`, `CleanShutdown`, `ImplementsAckJoin`, no deadlock | 3.9 M | At-least-once with a crash in any state and redelivery, a result and an incident together; an orderly shutdown strands nothing; no cycle of full queues stops the layer, which implements `AckJoin`. |
| `delivery_live` | `OneOutcome`, `NoFailureVanishes`, `AckEventually`, `DrainCompletes`, `LossyNeverStalls` | 42 k | Each sink gives each result one outcome and a terminal failure always reaches the DLQ writer. Every dispatched result is acknowledged, shutdown ends, and a lossy sink that never answers does not hold up dispatch. |
| `evaluation` | `OutputInOrder`, `NothingPassesAPanic`, `NoWindowUpdateLost`, `WindowsContiguous`, `NothingStranded`, `DrainEnds`, no deadlock | 459 k | Order, a panic and a reload, together. Finished batches leave the pool with no further input; the stage drains, with or without the panic. |
| `recovery_cut` | `CutCoversAcks`, `ForwardReplayIsSafe`, `SavesForgetNothing`, `OrderlyRestartKeepsState` | 4.64 M | Both savers between any two steps and across each other, a crash anywhere, a shutdown in time or not, rows that cannot be read or imported, one restart under every replay policy, by the stored position or told to keep the state. |
| `recovery_drain` | `EveryMessageAcked` | 652 k | No message is stuck, on any of the four ways to the ack task, across a redelivery, a restart and a shutdown. |
| `incidents` | `TypeOK`, `IndexAgrees`, `WithinMaxOpen`, `ImplementsGroups`, `EveryResultReported`, `IdleResolves`, no deadlock | 125 k | Merges, caps, timers, reloads that change the mode and a restart, together: index and incidents agree, grouping by the index is grouping by a scan, every result is reported, idle incidents close. |
| `correlation` | `WindowIsReference`, `OneBucket`, `BufferIsSuffix`, `OrderIsExistential`, `StateBounded`, `SuppressionHolds` | 894 k | Windows of three modes, one correlation updated in two groups by one event and one fed by two others, at the state limit, over late events and a reload: each holds what its definition says, alerts carry the newest events of their window and keep apart, and the limit holds. |
| `alerts` | `WithinCaps`, `InhibitionIsExact`, `FoldsReported`, no deadlock | 300 k | Two rules that inhibit each other's sources, silences, repeats, reloads that drop stages, a tick under a retired pipeline: a result is inhibited exactly when it has a cause that itself got through, caps hold, folded fires are reported. |
| `risk` | `WindowIsReference`, `CooldownHolds`, `IncidentWhenDue`, `EntitiesAgeOut`, no deadlock | 260 k | Two thresholds, both caps, reloads and restarts: windows are exact, incidents come when due and no sooner, silent entities leave. |
| `dispositions` | `CountsAreExact`, `VerdictsArrive`, no deadlock | 1.03 M | The same verdicts by API, poll and push, again and again, across failed fetches, prunes and a crash that falls back to a snapshot: inside the window each is counted once, and a polled one in the end, whatever overwrites it in the channel. |
| `evaluation_reload`, `recovery_regress` | one each, violated | | Section 6. |

### Bounds

Every bound is a CONSTANT, and each was chosen as the least that lets the
hazards meet.

*Delivery.* Two sinks, one durable and one lossy, with capacities of one (the
configured 0 is one too), a batch of two, retries 1 and 0, and failure channels
of one. With a crash, one result and one incident: the result can be
redelivered to sinks that have partly settled it, while the incident, which
carries no tokens, takes its place in queue or batch. Without, two results fill
a queue, a batch and both failure channels at once, so that every wait in the
layer can be on every other. The proofs of `DeliveryProofs` cover any number of
each.

*Evaluation.* Four events, batches of up to two, up to two in flight: while one
worker is slow the other finishes batch after batch, which the reducer must hold
back. The event and the sink channel hold two, so that batches of two form. One
reload of any kind lets correlation rules come or go. One malformed event and one panic; a second panic, which the code answers by
leaving the drain, differs from the first only in that batches run on, and
`JoinPanicked` covers it. The daemon starts with or without correlation rules.

*Recovery.* Two events, with distinct sequence numbers and times, are enough
for an ack out of order, and for a cut that has one of them. `recovery_cut` has
both savers, every replay policy and every kind of load; a start told to clear the
state, which restores nothing, is in `recovery_drain`. It has no redelivery to a
running daemon, which counts an event a second time: its properties do not tell
twice from once. Two restarts are needed only for
`recovery_regress`, where the position saved by the second process misleads the
third. `recovery_drain` is about the flow, which neither savers nor restored
state touch: it has three events, one of them blank, one redelivery, starts
that restore nothing, and of the savers the final one, with which a process ends.

*Incidents.* Two selectors and four values: a result can join two incidents (a
merge), add a value, find its incident full, or offer a stop value. Two UUIDs
are what a merge needs, and one group_by key gives the third id a change of
mode can meet. The caps are two, or one, so that each is hit and can be
lowered. The timers are the least with all four branches of the tick distinct
in order; `Repeat` is below `GroupInterval`, which the configuration allows and
is the harder case. One restart, after any number of ticks up to the timeout.

*Correlation.* Four events at times 0 to 3, each late by up to one: enough for a
bucket or session to pass and a straggler of it to come. Four correlations: a
tumbling count with a buffer, whose group-by alias stands for another field with
each of its rules; a sliding value count that suppresses and resets; a session
that wants two rules in order and has a cap of two; and a parent of the first
two, which the reload makes ungrouped. An event has a group in either field or
both: one that matches both rules updates the count in two groups, which can both
fire in one round. The keys meet a limit of three windows, whose nine tenths are
two. The reload drops two of the four or brings them in. Chains have one level;
the depth limit of 10 is not reached.

*Alerts.* Three kinds of results, two rules that inhibit each other's sources,
one result that is source and target of one rule, two fingerprints, one silence that is
static or not. Caps of two, one and none; `Repeat` 1 and `Resolve` 2 are the
least with a repeat before the resolution, the durations 1 and 2 the least that
expire apart. Restarts are not bounded, nor are reloads, requests and ticks.

*Risk.* Two entities at a cap of one or two, two kinds that cross the score and
the tactics threshold in different ways, a window cap of two that makes the
third contribution push out the first. A cooldown longer than the window is the
harder case: `last_fired` leaves with the entity. Four contributions, the only
bounded thing, cross, cool down, age out and cross again.

*Dispositions.* A window of 1 in buckets of 2: the window begins inside a bucket,
where keys expire before counts. One verdict, polled, has its own time, the other, pushed, is on an incident and
gets the time it is read; the API may bring both. Three ticks take both out of the window and the bucket;
one save and one crash suffice for a snapshot that is older than its source. A
counter stops at two, which shows a second count. `MaxSeen` is never exceeded
(`RoomLeft` holds in every state): past it the property fails, as it must (section 6).

The runs of `Recovery` and `CorrelationEngine` set `CHECK_DEADLOCK FALSE`: with
the stream empty, the events processed or the restarts spent, the model stops
where the daemon waits for the next message.

## 4 Fairness

Weak fairness of a task's step says that Tokio polls a ready task, or the
blocking pool runs a spawned closure; both schedulers are fair. Beyond that:

* *Sinks.* `WF_vars(WorkerStep(s))` also says that a sink call returns. For
  OTLP, webhook and NATS sinks the code sets a deadline; files, stdout and unix
  sockets write synchronously. `FairSpec` of `Delivery` assumes it of durable
  sinks only. `AckEventually` and `DrainCompletes` need it of lossy sinks too
  (a lossy sink that has accepted an item holds its ack), which is the antecedent
  `LossyAnswer`; `LossyNeverStalls` holds without. That a retry ends needs no
  assumption: attempts are counted.
* *Channels.* Weak fairness of an action that waits for room is enough, since
  each channel has one producer that waits, or a permit per producer in order.
* *Evaluation.* The order lock is a `parking_lot` mutex (`processor.rs:43`), held
  while one batch evaluates. It is not granted in FIFO order, but it is fair in the
  end (an unlock hands it over once a waiter has waited long enough), and there is
  little to wait for: the workers are at most the pool, and reloads are finitely
  many. Nothing is assumed of sources, reloads and panics.
* *Alerts, risk.* The clock runs (`WF_vars(Advance)`) and the sink task takes its
  pipeline or layer again (`WF_vars(Load)`). Of what it then does, a batch or
  the tick, the tick comes again and again: `SF_vars(Tick)`, since every batch
  that is taken disables it for the moment, and `tokio::select!` polls its
  branches in random order, so that a tick which is ready over and over is
  taken with probability one. In risk a reload that has begun ends
  (`WF_vars(FinishReload)`). Nothing is assumed of results, requests, reloads
  and restarts.
* *Dispositions.* The interval timer of the source keeps refreshing and the
  fetch succeeds again and again (`WF_vars(Refresh)`), the source task takes what is published and goes
  through it (`WF_vars(Take)`, `WF_vars(Worker("source"))`). Crashes are bounded.
* *Incidents.* The clock runs (`WF_vars(Advance)`) and the tick branch of the
  sink task's `select!` is polled (`WF_vars(Tick)`): the `select!` picks among
  ready branches at random, and handling one result ends. Nothing is assumed of
  results, reloads or restarts.
* *Recovery.* The pipeline runs and every result is settled in the end
  (`AckEventually`). Nothing is assumed of redelivery, of the acks reaching the
  server, of publication or of shutdown.

The tick of `AlertPipeline` and `RiskAccumulator` is the only place where strong
fairness is used.

## 5 What is proved

`DeliveryProofs` and `RecoveryProofs` hold for any number of sinks, results,
events, savers, queue depths, retries, crashes and redeliveries,
`IncidentProofs` for any ids, values, results, configurations, timers and
restarts, `RiskProofs` for any entities, kinds of contributions, layers, caps, window and
cooldown, `AlertProofs` for any results, rules, pipelines, caps and timers, and
`EvaluationProofs` for any number of events, workers, reloads and panics and any
capacities. `CorrelationProofs` holds for any rules, groups and events, any rule files
a reload may load, limits, depth of chains and lateness, and `DispositionProofs`
for any rules and records, contents of the two sources, window, bucket width and
limits, saves and crashes. The only assumptions are the
`ConstantsAssumption` of each module and the `RulesAssumption` of
`CorrelationEngine`, which TLC evaluates on every run: ranges
of the constants, `DlqDepth` at least one, publication times that do not decrease
with the sequence number, finitely many incident ids of two disjoint
kinds, one value per selector in a result, finitely many entities and tactics,
a risk window and cap of at least one, durations and timers up to `Forever`,
correlation rules with a timespan of at least one (the parser rejects zero) that
refer to rules and correlations that exist, and
that the sentinels are no values. `InhibitionCorrect` has the hypothesis
`OneNameOneRule` besides: no two pipelines give one name to different rules
(section 6 says what happens otherwise). The theorems of `RecoveryProofs` hold for
either saver, both or none, with and without correlation rules.
`ForwardReplaySafe` is about behaviours in which a process that was restored is
not restarted once more (`OnceRestored`). What happens when it
is, `recovery_regress` shows; `ForwardReplaySafeOnce` is the case of `recovery_cut`,
where `MaxRestarts <= 1` implies `OnceRestored`.
`BucketsHold` and `SuppressionCorrect` assume `RulesKept`: a correlation that two
rule files have keeps its mode, timespan and suppression. `BufferCorrect` assumes
`BuffersKept`: its type, cap and buffering too, and no correlation feeds one that
keeps an event buffer. `WindowsExact` assumes `WindowsKept`: a correlation that two
rule files have keeps its type, mode, timespan, gap and cap, and no session has a cap
of one (section 6). The code demands none of this; after a reload that changes the
timespan, the entries kept were put in buckets by the old one, and a firing that
counts in a window is no event its buffer could hold. TLC evaluates the three for
the rules of the run (`Hypotheses` in `MCCorrelation`). `CountsCorrect` assumes
`RoomLeft` of every state, not of the constants: a verdict about to be counted is
remembered already or its key still fits within `max_seen_ids`, and no count of a
bucket inside the window is at the bound of the model. TLC finds both true in all
states of the run, so the theorem speaks of it.

| Theorem | Says |
|---|---|
| `DeliveryProofs!TypeCorrect` | `Spec => []TypeOK` |
| `DeliveryProofs!AckSafety` | `Spec => []AckedIsSettled` |
| `DeliveryProofs!Refinement` | `Spec => ImplementsAckJoin` |
| `DeliveryProofs!FailuresReachTheWriter` | `Spec => []NoFailureVanishes` |
| `DeliveryProofs!OutcomesExclude` | `Spec => []OneOutcome` |
| `DeliveryProofs!ShutdownClean` | `Spec => []CleanShutdown` |
| `EvaluationProofs!TypeCorrect` | `Spec => []TypeOK` |
| `EvaluationProofs!UpdatesSurvive` | `Spec => []NoWindowUpdateLost` |
| `EvaluationProofs!OrderCorrect` | `Spec => []OutputInOrder` |
| `EvaluationProofs!PanicStops` | `Spec => []NothingPassesAPanic` |
| `EvaluationProofs!WindowsCorrect` | `Spec => []WindowsContiguous` |
| `RecoveryProofs!TypeCorrect` | `Spec => []TypeOK` |
| `RecoveryProofs!CutSafety` | `Spec => []CutCoversAcks` |
| `RecoveryProofs!NothingForgotten` | `Spec => []SavesForgetNothing` |
| `RecoveryProofs!OrderlyRestartExact` | `Spec => OrderlyRestartKeepsState` |
| `RecoveryProofs!ForwardReplaySafe` | `Spec /\ OnceRestored => []ForwardReplayIsSafe` |
| `CorrelationProofs!TypeCorrect` | `Spec => [](TypeOK /\ CallOK)` |
| `CorrelationProofs!LimitHolds` | `Spec => []StateBounded` |
| `CorrelationProofs!BucketsHold` | `RulesKept /\ Spec => []OneBucket` |
| `CorrelationProofs!SuppressionCorrect` | `RulesKept /\ Spec => SuppressionHolds` |
| `CorrelationProofs!BufferCorrect` | `BuffersKept /\ Spec => []BufferIsSuffix` |
| `CorrelationProofs!WindowsExact` | `WindowsKept /\ Spec => []WindowIsReference` |
| `CorrelationProofs!OrderCorrect` | `Spec => []OrderIsExistential` |
| `AlertProofs!TypeCorrect` | `Spec => []TypeOK` |
| `AlertProofs!CapsHold` | `Spec => []WithinCaps` |
| `AlertProofs!InhibitionCorrect` | `OneNameOneRule /\ Spec => []InhibitionIsExact` |
| `IncidentProofs!TypeCorrect` | `Spec => []TypeOK` |
| `IncidentProofs!IndexCorrect` | `Spec => []IndexAgrees` |
| `IncidentProofs!CapHolds` | `Spec => []WithinMaxOpen` |
| `IncidentProofs!Refinement` | `Spec => ImplementsGroups` |
| `RiskProofs!TypeCorrect` | `Spec => []TypeOK` |
| `RiskProofs!WindowCorrect` | `Spec => []WindowIsReference` |
| `RiskProofs!CooldownCorrect` | `Spec => CooldownHolds` |
| `RiskProofs!DueCorrect` | `Spec => IncidentWhenDue` |
| `DispositionProofs!TypeCorrect` | `Spec => []TypeOK` |
| `DispositionProofs!CountsCorrect` | `Spec /\ []RoomLeft => []CountsAreExact` |

*AckSafety.* `AckedIsSettled` is not inductive: the last clone of a guard is
dropped by a worker that knows only about its own sink. The invariant `Safe`
adds that as long as some clone of r's guard is alive, every sink the dispatch
of r has passed holds a clone or has settled r (`Covered`), that the dispatcher
holds one during its loop, so that r cannot be released before the loop has
visited every sink (`DispatcherHolds`), and that a worker has settled the part
of its batch it has walked over, so that its clones may go when the batch ends
(`BatchDone`). A guard with no clone left has then been settled by all. The
refinement follows: each action is a `Settle`, `Release`, `Acknowledge`,
`Restart` or a stutter, and `Release` needs `AckedIsSettled` in the next state.

*FailuresReachTheWriter.* The property is inductive on top of `TypeOK`, once
the range of a queue after `Append` and `Tail` is known (`RangeOfQueue`).

*OutcomesExclude.* A result is in one place of a sink, once: still to come from the
dispatcher, in the queue, in the part of the batch the worker has not reached, or
settled (`Single`). Each step moves it to the next.

*ShutdownClean.* Whoever holds a clone of a guard has the result in hand (`Held`,
the converse of what `Covered` says), a task that has exited left its channel empty
and the one before it has exited too (`Exits`), and a result that is neither
upstream nor held has sent its tokens (`Accounted`).

*UpdatesSurvive.* `Locked` ties the holder of `processing_order` to the live
engine: it loaded it under the lock, and a swap needs the lock. Hence only the
live window moves, and a commit copies it as it stands.

*OrderCorrect, PanicStops.* Batches cut the input into consecutive intervals,
which together with the event channel make up all that has arrived (`Cut`). The
reducer's channel and backlog hold each forwarded batch from `next` on once and
none before it (`Reduced`). So what goes to the dispatch task are the batches
before `next`, in order, and what it has disposed of is an initial segment that
ends where its batch in hand begins (`InOrder`). A batch that panicked is never
forwarded, `next` never gets past it, and the segment ends before it.

*WindowsCorrect.* With a pool of one there is one batch between the event
channel and the reducer (`Serial`), and a lost one ends the engine task. The
last event of the live window is therefore compared with how far that batch has
come (`Contiguous`): between the two lie malformed events only. An engine that
has not counted yet, or has become live without the windows of its predecessor, has an empty
window, for which there is nothing to compare.

*InhibitionCorrect.* The store of sources is compared with the history `through`
from both sides: a source is there only because a result of its rule and key got
past inhibition at that time (`Caused`), and what got through within the
duration is there unless the history says the store missed it (`Complete`).
A tick under a retired pipeline removes by that pipeline's durations; that this
takes no source a later result needs rests on the names (`Kept`).

*CutSafety.* The cut is read in three steps, so the invariant `Covered` follows
an acknowledged event through them. Every event past the evaluation (in `sinkq`,
`delivering`, `ackq` or `settled`) is in the windows, and every hit past the
scoring is in the stores (`FlowCovered`); the position is of a settled event
(`PositionCovered`); a cut in a given phase includes what was settled when its
position was read in as many snapshots as it has read (`CutCovered`); and the
database likewise (`DbCovered`). What is settled is kept for the windows and for
the stores apart, since a start may restore the one and not the other. The order of the reads is what the step from
`position` to `windows` rests on, and the reason a saver may overlap another,
fail, or run during and after the drain timeout.

*NothingForgotten, OrderlyRestartExact.* A cut lies between the rows that were
stored when it was begun and the running state (`Between`): it has what the first
have, and the second has what it has. With a process that restored its rows the
running state has what is stored (`Grown`), so that this holds when a cut is begun.
It compares a cut with its own base and not with what a saver that overlaps it has
written since, which is why it needs nothing of the other saver; what one loses to
the other's older cut is in section 6. For `OrderlyRestartKeepsState` the drained
pipeline stands still from the time the final cut is begun (`Last`, `LastCut`):
what the final save writes is the state with which the process ends, whatever the periodic
saver wrote before it.

*IndexCorrect, Refinement.* `IndexAgrees` and `TypeOK` are inductive only
together. That no index entry names a closed incident (a conjunct of `TypeOK`)
is preserved by a resolution because the index holds nothing for the incident
but its values (`IndexAgrees`); and a merge repoints exactly the victims'
values because every entry it meets names an open incident. In return a value
belongs to one incident at most, hence the trim of one incident takes no index entry
from another. The refinement rests on this invariant alone: by it the incidents
that the index finds for a result are those a scan would find, so that every
assignment is a `Join`, and a tick, reload or restart a `Shrink` or a stutter.
It also shows that the branch of the code for stale index entries is never
taken, and `Refuse` changes nothing. `CapHolds` needs of the sets only that
they are finite.

*WindowCorrect.* The store prunes a window when it is next touched and cuts it to
the cap, while the history prunes with every tick and cuts nothing, so the two
sequences agree only from their newest end. The invariant `WindowInv` compares
them there (`Matches`): the pruned window is the newest part of the history, all
of which is inside the window (`Fresh`), and both are in order of age (`Sorted`),
so that pruning takes a prefix. Ages stop growing at `Longest`, the larger of window and cooldown,
and the lemmas on `Older` and `Prune` need only that ageing keeps the order and
commutes with being counted as fresh.

*CooldownCorrect, DueCorrect.* That two incidents keep their distance could fail
in one way: the entity is dropped by a tick together with its `last_fired` and
comes back. The invariant `CooldownInv` says why it does not happen sooner than
a window: the contribution that raised an incident is as old as the incident, so
while it is in the window, the newest one, which is at most as old, keeps the
entity tracked. Hence the distance is the smaller of cooldown and window.
With `WindowInv`, the decision of `Record` is the one the history calls for.

*LimitHolds.* The bound lets a call exceed the limit by the windows its event
touches, at most one per loaded correlation and field, and is not inductive alone: a
reload that drops a correlation lowers it. `Room` says which windows those are: all
but fewer than `max_state_entries` are told apart by their correlation and a field
(`ToldApart`), and during a call they are of groups its event has in that field. What a
reload takes from the bound it takes from them (`FewerToldApart`).

*BucketsHold.* `AllBucketed` covers every window of a tumbling correlation, with
one entry or many: an event that is neither late nor rolls over is in the bucket
of the latest entry, and one that rolls over finds the window emptied.

*SuppressionCorrect.* While events come in order, `Alerting` holds: the engine
remembers the last alert of a key, or its suppression is past; `lastAlert` goes
with the eviction of a key only when it is. `Due` then refuses every firing that
would be too soon, in whatever round of the chain it comes.

*BufferCorrect.* The buffer of an `event_count` and the deque of its window are
evicted, cleared and dropped by different code. `BufferOK` says that the buffer
holds the times of the newest entries of the deque (`Ends`). Eviction keeps that:
both are in order of arrival, not of time, both lose their front up to the first
entry within the span, and the buffer, being the shorter, stops no sooner than
the deque does. A rule that is not buffered has an empty buffer, and with
`BuffersKept` each entry of a buffered window comes from an event, not a firing.

*WindowsExact.* `WindowIsReference` speaks of the times between calls and of an event
that comes now; neither survives a step. `Exact` says of a window and a sequence of
arrivals that each deque holds what the definition takes from it, capped, and
`Faithful` that every window, once opened for the present time, is exact for what
has come of its arrivals: in a round of the chain `arrived` already has all of the
round's firings, and `Pending`, what the updates still to do will bring, is the part
that has not come. The proof then goes by the operations on one window. Time that passes takes the
same entries from the window and from the definition (`ExactLater`), and it does not
matter whether entries went before, by age at the limit (`AgedOpened`); what an
arrival adds, it adds to both (`ExactPush`); and the cap can be applied at once or with
every arrival (`ExactTruncate`). An event that reaches a window through two rules arrives
twice, and through an alias in another window. For a session the definition segments all arrivals
from the first on, and the window knows only the front and the back of its deques: they
are where the last segment begins and ends (`ExactSession`, `ExactEnds`), as the
cap takes neither when it is not one. That a round brings a window what its firings are due is
a statement about positions in the list of all pairs of firings and correlations (`DueChain`).
The selections of positions are compared by enumerating them in order (`Enum`),
which the least-element principle supplies, not an induction over sequences.

*OrderCorrect.* The scan takes for each rule the earliest hit not before the one taken
for the rule before it. What it takes is a choice in order (`GreedySound`), and
none of its times is later than that of any other choice at the same place
(`GreedyComplete`): otherwise look at the first place where it is. So when there
is any choice, the scan reaches the end.

*ForwardReplaySafe.* Until a process is restored, whatever is acknowledged is at or
before the high-water position, in sequence and in time: now, in a cut
under way (the position is read before the windows), and in the database
(`PositionsAhead`), for the windows and the stores alike. A replay that was compared
with the stored position (`Compared`) and restored starts after it. The step that
would break this is the start of a process that restores the state and not
the position, after which `PositionsAhead` says nothing.

*CountsCorrect.* Counts and keys age by different rules: a bucket goes when it ends
before the window, a key when its verdict is older than the window and it has come
to the front of the queue. `Sound` joins them, for the running store and for the last snapshot
alike: a verdict that was counted and is still in the window has its key in the
queue, at most one such has a given key, and past the bucket in which the window
begins a count is the number of its verdicts. A worker prunes by the time at
which it began, which is earlier and so takes less; a snapshot stays sound as
time passes, and the restore prunes it by the clock. A verdict counted again
within the window would have found its key.

The type invariants of `Delivery`, `Evaluation`, `Recovery`, `CorrelationEngine`,
`AlertPipeline`, `RiskAccumulator` and `Dispositions` are proved and in no run; the
proofs rest on them.

*Model-checked only.* Liveness (`AckEventually`, `DrainCompletes`,
`LossyNeverStalls`, `NothingStranded`, `DrainEnds`, `EveryMessageAcked`,
`EveryResultReported`, `IdleResolves`, `FoldsReported`, `EntitiesAgeOut`,
`VerdictsArrive`) is out of the prover's reach. Every other property of a passing
run is the subject of a theorem, `ForwardReplayIsSafe` as far as it holds: it is false
when a restored process is restarted (`recovery_regress`).

## 6 Where code and documents differ

Two runs end in a counterexample, for which `PROJECT.json` quotes the lines.

1. `evaluation_reload`: the pool size is decided once, from the first rule
   set. After a reload that adds correlation rules batches still run in
   parallel and reach the windows in any order, where
   `docs/reference/environment-variables.md:24` has the pool forced to 1.
   A daemon started with correlation rules is not affected
   (`WindowsContiguous`).
2. `recovery_regress`: the high-water position starts from zero in each process
   although the state it belongs to is restored, so a redelivery after a
   restart can move the stored position back, and a replay from between the two
   positions counts events twice.

More were met while modelling. They follow from the source without a run.

*Delivery, evaluation and recovery*

* Acks leave the pipeline out of order (an empty result is acknowledged in the
  dispatch task, server.rs:1707, while an earlier one waits to be scored) and the position is
  their maximum (server.rs:2368), so it can pass an event that the risk and
  alert stores have not seen. `docs/guide/nats-streaming.md:113` has the saved
  state cover every event up to the position. What does hold is `CutCoversAcks`.
* The periodic saver is not stopped for the final save (server.rs:1509), and a
  cut it captured earlier can be written last, where
  `docs/cli/engine/daemon.md:446` has the final snapshot written at shutdown.
  The state of the events between the two cuts, already acknowledged, is then lost.
  `OrderlyRestartKeepsState` is about the other order, in which the final save is the
  last to commit (`db.by`); without that condition it fails.
* Without correlation rules there is no correlation row, the decision is not
  made (server.rs:638–650), and risk and alert state is restored where
  `docs/guide/nats-streaming.md:121` says "Clear". `Recovery` models it with
  `Correlating = FALSE`. The same happens when the row cannot be read
  (server.rs:669–671; `load.windows = "error"`), also under line 119.
* A row that cannot be read, or is of an incompatible version, is not kept: the
  process starts fresh (server.rs:656–660, 669–671, 752–760, 828–836) and its next
  save overwrites the row, though a later version of the daemon, or a read that
  succeeds, could have restored it. `SavesForgetNothing` excepts a process that starts
  fresh beside a row.
* Under `resume` a durable consumer that is gone is created with
  `DeliverPolicy::All` (`nats_source.rs:77–78`), and the whole stream is handed out on
  top of the restored state, since the decision asks the flag and not the consumer.
  Line 116 of `docs/guide/nats-streaming.md` has "Resume" restore state, with no such
  exception, and what was acknowledged is then counted twice. `ForwardReplayIsSafe` is
  about replays that were compared with a position.
* Nothing rejects a `repeat_interval` below `group_interval`. An incident that
  was updated is then emitted as a `repeat`, and with its new results, before
  the "minimum delay before emitting an updated incident" of
  `docs/guide/alert-pipeline.md:178` is over (`RepeatDue`). The run `incidents`
  has such timers.
* An incident that was reported as open and is then merged into another ends
  without a `resolved` record (`grouping.rs:378`). Evictions without one are
  documented (`docs/guide/alert-pipeline.md:164`), this is not.
* A blank NATS payload is skipped without an acknowledgement
  (`nats_source.rs:108–116`), so it comes back after each `ack_wait`.
  `docs/guide/nats-streaming.md:82` promises that unparseable data is acked;
  blank lines are not mentioned. `SkipBlank` models it and `EveryMessageAcked`
  excepts it.
* A process that has acknowledged nothing yet saves a NULL position over the
  stored one (server.rs:3028, `store.rs:160–168`); the next forward replay then
  clears the windows where `docs/guide/nats-streaming.md:117` says "Restore".
  It has the same cause as 2 above.
* The comments at server.rs:2027 and `io/webhook/mod.rs:15` say that a webhook
  never blocks the release of tokens. It holds the ack of a result it has
  accepted until its batch is done (`delivery.rs:448–467`), as
  `docs/guide/webhooks.md:13` describes; what it never blocks is dispatch
  (`LossyNeverStalls`).

*Correlation* (E is `correlation_engine/mod.rs`, W is `correlation/window.rs`)

* The event buffer of a tumbling or session window is cleared when the window
  starts over, and an empty window never does. An event without the aggregated
  field goes into the buffer only, so it can stay there beside events of a later
  bucket, where E:959–961 has the two aligned. `BufferIsSuffix` is about
  `event_count`, which counts every event.
* A reload that changes the `type` of a correlation and keeps its identifier
  restores a window of the old variant. It is never satisfied, and not
  replaced, until it is evicted (E:1467; W:14 has each variant match the type).
  The rule sets of the model change no correlation they keep.
* A session is measured from the front and back of its deques, which are not the
  earliest and latest timestamps when events come late (W:104–108), so its span may exceed the
  `timespan` that `docs/guide/streaming-detection.md:102` calls a hard cap.
* A session with a `max_group_entries` of one keeps its anchor and drops every later
  entry (W:124–130), so the gap too is measured from the anchor, and a session that goes on
  starts over. W:130 says that truncation can only under-count, which it does;
  `WindowsKept` leaves that cap out.
* A round of chaining updates a parent once per child and name by which the parent
  refers to it, whatever groups the child fired for (`seen`, E:1123–1130). A child
  that fires twice for one event, through two rules or, with group-by aliases, in two groups,
  raises two alerts and updates its parent once, in the group of the first, where the comment
  at E:1094 has "any correlation that references it" updated when one fires. `FiringsDue`
  counts what the code passes on.
* A sliding window keeps an entry that is exactly `timespan` old (W:57, W:397: only
  older ones are evicted), where `docs/guide/streaming-detection.md:100` evaluates
  `(t - timespan, t]`. `InWindow` follows the code, which agrees with the same sentence's
  "within `timespan` of each other".
* The identifier by which a reload hands windows over falls back to the title
  (E:1567–1582), which need not be unique; of correlations with one identifier the
  last is handed the windows. In the model an identifier is a correlation.
* The comment at E:1400 has suppression forgotten when the window is gone; the
  code keeps it, and `SuppressionHolds` needs that it does.
* With `max_state_entries` of 1 the nine tenths are none, and every window goes.
  The limit is checked before an event and can be passed by it (`StateBounded`).

*Alert pipeline*

* A rule without a name is known by its place in the file
  (`config.rs:420`). After a reload or restart that moves it, the sources of
  one rule inhibit for another, against `docs/guide/alert-pipeline.md:19`. The model assumes
  pipelines in which a name keeps its rule.
* A reload that drops the dedup or inhibit stage strands the entries of its
  store, where server.rs:1388–1391 has stale entries age out; the next pipeline
  with the stage finds them.
* A silence is created under a limit read before the lock; API silences beyond
  a lowered limit stay until they expire. DELETE also removes a silence of the
  file, until the next reload, and every silence of the id.
* A restore drops alerts that have expired, without a resolved record.
* A result folded by dedup does not refresh its incident (`mod.rs:257`), which
  can resolve while its alert goes on.

*Risk*

* A reload that drops `incident` clears the store under its lock and publishes
  the layer after (server.rs:1431–1440). A batch in between fills it again, and
  what it adds lingers until a layer accumulates again, which the comment there
  wants to avoid (`EntitiesAgeOut` excepts it).
* A cooldown longer than the window ends with a window of silence, because the
  entity leaves with its `last_fired` (`risk/accumulator.rs:64`,
  `docs/guide/risk-based-alerting.md:40`); hence the smaller of the two in
  `CooldownHolds`.
* A lowered `max_open_entities` is enforced only as entities age out, and a
  restore at the cap keeps arbitrary ones.

*Dispositions*

* A verdict's key leaves `seen` when its own time leaves the window, while its
  bucket stays as long as the window begins inside it. A verdict read again in
  between is counted a second time in that bucket, against
  `dispositions/store.rs:195–196`, `docs/guide/triage-feedback.md:56` ("never
  double counts") and `rsigma-cli/src/daemon/dispositions.rs:239`.
  `CountsAreExact` leaves this bucket out; with it the run fails.
* Beyond `max_seen_ids` keys leave inside the window, and their verdicts count again.
* A record with neither identity nor timestamp has the time of ingestion for a
  key, and counts again at each reading. Two verdicts of one rule at one time
  without identity and with one analyst are one, whatever they say.
* A payload not yet taken is overwritten in the watch channel. A polled source
  returns it again (`VerdictsArrive`); a NATS push is lost, where
  `dispositions.rs:237` ingests each.
* The gauge is set after the lock under which its ratio was read, so a late set
  can leave an old value, or the gauge of a rule pruned meanwhile, until the next prune.

*Dynamic sources*

* The scheduler of the main daemon has no receiver for results
  (server.rs:553–600): a refresh updates the cache alone, and a NATS push
  neither cache nor pipelines, against `docs/reference/dynamic-sources.md:197`
  and `:343`.
* A reload resolves sources beside the scheduler on the same cache, and the older
  fetch may be stored last.

## 7 What is not modelled

*Abstracted in what is modelled.* The contents of events, results and
snapshots. Backoff times. Metrics and logs. Event filters that turn one line
into none or several events. The 1 s tick of the
sink task appears in `Delivery` as `Synthetic` results that come at any time,
and in the models of the stores as `Tick`. The results of a batch are processed under
one lock and are steps of their own here. Of an incident, its samples, counters and
level; of a risk incident, its score and contributors; of a firing, its entities
and its score, a contribution has a kind. Of correlation, the reference mode of
buffers and the aggregates over floating-point numbers but the sum. Of
dispositions, the gauges, the capture spool and the `numerator` setting. Of a
reload, enrichers and the watcher's debounce; of the disposition sources, the
first fetch of a pushed one, `use_default` and optional sources; of incidents, one without a group
block. Clocks that step back, and dispositions dated ahead of the clock: the
code accepts them (`dispositions/store.rs`), the records of the model are of the
present or the past. `AckToken` raises sequence and
time in one step, which the code does in two (server.rs:2368–2369). The outcome
of a DLQ write is not told apart: persisted, refused or dropped, the failure is
gone from the channel.

*Constant here, not in the code.* Whether there are correlation rules
(`Correlating`) does not change across the restarts of `Recovery`, though
rule files may. A reload or restart can change `repeat_interval` and
`resolve_timeout` (server.rs:1388–1391), the timers of incident grouping, and the risk
layer's window, cooldown and cap on results (server.rs:1423–1426, where contributions
"age out via the new window"); in `AlertPipeline` (`Repeat`, `Resolve`), `IncidentStore` and
`RiskAccumulator` (`Window`, `Cooldown`, `MaxResults`) these are constants, and the
properties that compare with them speak of one value throughout. The correlations of a group
of chained ones are grouped by fields of the same names, so that the group of a
child is that of its parent (`GroupKey::from_pairs` matches by name), and a rule or
correlation has one identifier.

*Not reached.* The branches of `Dispatcher` for a worker that is gone
(`delivery.rs:293–297`, `306`) and of a worker for a closed failure channel
(`518–524`) are left out of `Delivery`: a worker ends only when its channel is
closed, and the bridge after all workers, unless one of them panics.

*Left out*, with the reason in `PROJECT.json`: pure functions of their input
(parser, IR, conversion, pipelines, input formats, the detection matcher), I/O
without a protocol of its own (TLS, listeners, the other sources and sinks,
audit, metrics), request handlers (API, language server, MCP), offline tools.
They are most of the repository's lines. Enrichment, the capture ring, and the
dynamic sources of pipelines do keep state, and are next (section 8).

## 8 Plan

1. `SourceRefresh`: the dynamic sources of pipelines, whose cache a reload and
   enrichers share with the scheduler; of the scheduler and the cache,
   `Dispositions` has what its own sources use.
2. `Enrichment` (the response cache and its deadline) and `CaptureRing`, if they
   have properties of their own.
3. The three stores of the sink task in one module, for what a result folded by one
   means to the next.

Running everything: `tlc -config <cfg> <module>` for each run of
`PROJECT.json`, `tlapm <module>` for the eight proof modules. The longest run
takes about three minutes with two workers, the proofs about a quarter of an hour,
most of it for `CorrelationProofs`.
