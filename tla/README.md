# Network Drift Detection Tool: a verification development

TLA+ models of the tool's own logic, the TLC runs that check them on small
instances, and theorems about them that TLAPS checks for every value of the
constants. `PROJECT.json` lists components, runs, mutants, theorems and hazards,
and maps every definition to the lines of `src/` it stands for. All paths below are
relative to `src/src/netdrift/` unless they start with `docs/` or `tests/`.

    tlc -workers 2 -config SlaEdges.cfg MCSlaEvaluation
    tlapm AutoApplyProofs.tla

## 1. The system

A **scheduler** process polls each network device on an interval. A *drift check*
(`pipeline.py`) reads the device's intended state from NetBox or Nautobot, collects
its real state, compares the two (`differ.py`), stores the differences in
`drift_events` and, when it is allowed to, pushes the intended state back
(`auto_apply.py`, `appliers/`). Syslog messages and one-shot re-polls start further
checks of the same device, which may overlap. Other jobs evaluate SLA rules, probe
reachability, synchronise lifecycle dates and prune old drift. An **API** process
(FastAPI, a thread pool) reads the same Postgres database, edits known issues, arms
and disarms their unattended repair, and applies fixes on request. Processes share
nothing but the database: there is no lock between them beyond Postgres's READ
COMMITTED, and almost every endpoint and job is a read followed by a later write.

| Component | State it keeps | Operations | Talks to | What makes it correct |
|---|---|---|---|---|
| Auto-apply loop | none of its own; reads and writes `known_issues`, `remediation_events` | `run_auto_apply`: gate, match, vet, apply, audit, breaker | applier, audit log, API | unattended repair only of confirmed issues, one audit event for each session, a breaker that trips |
| Known issues (API) | `known_issues` | create, patch, enable, disable, apply, dry-run | applier, re-poll | the confirm gate; only `restore_intent` is armed |
| Re-poll | one-shot jobs in memory, each with an id of its own (device and time) | schedule, run, miss | drift check | a fix is looked at again |
| SLA evaluation | `sla_breach_state` | scan, compare, fire, commit | webhooks | one alert for each edge, mutes neither page nor resolve |
| Webhook dispatcher | bounded queue, worker thread | `fire`, `start`, `stop`, worker loop | HTTP receiver | accepted events are posted once, in order |
| Drift retention | `drift_events` | prune by cutoff | audit log's foreign key | audited drift is kept, old drift goes |
| Device settings | `device_settings` | collection, probe, lifecycle, pause upserts | four writers | none overwrites another's columns |
| Differ | none | `diff` | pipeline | complete and sound, one record for a field |
| Appliers | a device session | refuse, render, commit, verify, roll back | device | success means the device had the change |
| Pattern library | YAML files, `known_issues` | validate, import, export | API, loop | the round trip; an import is idempotent |
| Fingerprints | none | exact, normalised, similarity, best match | everything that matches | equal drift has equal fingerprints |
| Scheduler | interval jobs, a pool of ten threads, all in memory | submit, drop, miss, run | every job | no device falls silent unless runs were lost or hung |
| Syslog receiver | last trigger per device | message to check | drift check | at most one check per cooldown |
| API process, keys | `api_keys`, event loop, connection pool | verify, mint, revoke, serve | every request | an expired or revoked key is refused; the loop is freed |
| AI explanations | `drift_explanations` | explain, upsert, triage | check, a language model | best effort: never costs a check its alerts |
| Accuracy report | none; two queries | `inventory_accuracy` | device settings, drift | what it says was so |
| Collectors, NetBox/Nautobot | none | `get_reality`, `get_intent` | differ | what is as documented shows no drift |
| Inventory, lifecycle | none | pure functions of lists and dates | scheduler, API | both processes mean the same devices |
| Probe, CLI, demo, dashboard | none | I/O | | |

**What is hard here.** Reads and writes of one request are apart, so requests, loops
and importers interleave (`api/app.py:724-788`, `auto_apply.py:124-240`). Two checks
of one device fix the same drift with intents read at different times. A process dies
between a device's commit and its audit event, or after a webhook and before the
commit that remembers it. Mutes start and end between any two steps. Old rows outlive
the drift they recorded. A bulk DELETE fails because of one referenced row. Several
upserts of the same row run at once. More jobs are due than threads are free, and late
runs are dropped (`scheduler.py:148`); a read of the intent has no timeout, and a run that hangs has every later
run of its job skipped (`netbox_client.py:86`). The API's only event loop waits for a connection
that a handler holds (`api/app.py:311`). Two checks hold row locks on each other's
explanations while a model thinks (`pipeline.py:92`). `PROJECT.json` lists these hazards at their lines.

## 2. The modules

| Module | What it models | Runs | Proofs |
|---|---|---|---|
| `AutoApply` | the loop, the API's issue endpoints, importer, mutes, re-polls, crashes | 2 + 1 | `AutoApplyProofs` |
| `SlaEvaluation` | the evaluation job and everything that changes its tables | 1 + 1 | `SlaProofs` |
| `EdgeAlerts` | the abstract contract of edge-triggered alerts | `SlaEdges` (as `EdgeTriggered`) | `SlaProofs` |
| `Polling` | interval jobs, the thread pool, re-polls, syslog, restarts | 1 | `PollingProofs` |
| `WebhookDispatcher` | queue, worker, `stop()`, exit | in `CheckTail` | `CheckTailProofs` |
| `CheckTail` | what a check does after it stored its drift, around the dispatcher | 1 | `CheckTailProofs` |
| `DriftRetention` | pruning against audited drift | in `ApiServer` + 1 | `DriftRetentionProofs` |
| `ApiServer` | event loop, connection pool and keys around the requests of `DriftRetention` | 1 | `DriftRetentionProofs` |
| `DeviceSettings` | four writers of one row as transactions | in `InventoryAccuracy` | `DeviceSettingsProofs` |
| `InventoryAccuracy` | a report of two queries beside those writers | 1 | `DeviceSettingsProofs` |
| `Differ` | `diff()` as operators | through `Remediation` | `RemediationProofs` |
| `Remediation` | checks and API fixes of one device: collect, compare, session, verify, roll back | 1 + 1 | `RemediationProofs` |
| `Fingerprints` | identity and similarity of drift | | `OperatorProofs` |
| `Patterns` | validation, import, export | | `OperatorProofs` |
| `Readings` | what `get_intent` and each collector make of one network | | `OperatorProofs` |
| `Inventory` | the polled list, the served list, lifecycle classes | | `OperatorProofs` |
| `Triage` | new or chronic, and the assessment with its fallback | | `OperatorProofs` |

`Remediation` extends `Differ`: the drift its checks find is `ObjectDiff` of the two
documents; `Readings` extends it too, and says where the two documents come from.
`CheckTail`, `ApiServer` and `InventoryAccuracy` each extend a table or a queue with the
processes around it, and their runs check the properties of both. `Patterns` extends `Fingerprints`. `SlaEvaluation` instantiates
`EdgeAlerts` with a refinement mapping. `AutoApply` and `Remediation` look at the
same loop from two sides: the first follows issues, flags and audit events and takes
a session's outcome as given; the second follows the device and takes the armed
issues as given. The `MC*` modules only give constants their values.

### AutoApply
`row[i]` is the `known_issues` row of fingerprint `i` (kind of its payload, flag),
`events` the committed audit log, `clock` the next `applied_at`. A worker is a thread
that may check its device (`DeviceOf`, `Trigger`); its `pc` walks `run_auto_apply`:
`Gate` (pause, window), `MatchIssue`, `Vet`
(platform, acknowledgement, payload), `ApplyFix` (the session), `SaveEvent` (flush), `CommitEvent`,
`CountFailures` (a SELECT over history), `ClearFlag`. A client is an API request split
where the code loads and where it writes (`LoadForPatch`/`WritePatch`, ...); an
importer likewise. `ApplyByOperator` runs the session; then `RecordApply` writes the event, or
`RecordRefused` is the foreign key's error because retention deleted the drift event meanwhile (`PruneDrift`).
`CONFIRM_THRESHOLD`, `FAILURE_THRESHOLD` are the code's. `rearmed`,
`late`, `attempts` and `lost` (sessions whose event a crash or a pruning prevented) are history that only properties read.

### SlaEvaluation and EdgeAlerts
`Scan` reads rules, windows, acknowledgements, drift rows and collection stamps;
`FireEdges` compares with `tracked` (`sla_breach_state`) and fires the webhooks;
`Commit` stores; `Abort` is a process that dies, or a commit that fails, in between. Detections, silence,
retention, rules, windows and acknowledgements change at any time. `EdgeAlerts` promises,
for each breach, one start and one end in turn; `Lose` is a sender that
dies before it remembered what it announced.

### Polling
APScheduler is modelled from how `main()` configures it: `Submit` hands an interval job that
is due to the pool unless its last run is not over, `PickUp` runs it or misses it if it is
late, and `Tick` passes only when nothing is left to do at once (`Quiet`), which is what makes durations
mean something. A check is `Collect` (its stamp is committed), then `Finish`, where
a fix may ask for a re-poll; `FailCheck` is the swallowed error. `Hang` is a read of the intent that is
never answered, for which the clients have no timeout: the run stays in its thread in phase "hung" until a restart. `Message` is a syslog packet,
`ListenerEnds` the `OSError` that ends its loop, `Restart` the loss of everything in memory.
`silent` is the age of `last_collected_at`; `slack` is history: the silence that lost runs explain.

### CheckTail
`Persist` stores a check's drift; `Report` fires what the auto-apply loop
did; `BeginExplain`, `Ask`, `Write`, `CommitExplanations` are `generate_explanations` as one
transaction, a row lock from the flush to the commit; `GiveUp` is its `except`, for any error of the block; `Alert` fires
`critical_drift` one by one. `WaitsFor` is the graph of lock waits; Postgres dooms one of a
cycle (`Deadlocked`), and the second INSERT of a key (`Conflict`): a check that is `Doomed` does give up, any other may.

### WebhookDispatcher
Events are numbered as they are accepted, 0 is the sentinel; `thread` outlives a
worker as "dead", as the object does in Python.

### DriftRetention
`BeginRetention` computes the cutoff; `DeleteOlder` runs the DELETE later and fails as a
whole when an audit event references one of the rows; an apply holds the drift it
loaded while the device works.

### ApiServer
`Arrive` to `Respond` is a request: the loop runs `Middleware`, `SelectKey` and `StampKey` without
yielding (`LoopIsFree` is false meanwhile), a handler thread takes a connection (`StartFix`, `Mint`, `Revoke`),
`Reload` is the read after its commit, and the loop closes the session (`Close`). Who finds the pool
empty waits, at most up to `PoolTimeout`. Fixes are the requests of `DriftRetention`, under a key.

### DeviceSettings and InventoryAccuracy
A transaction of `tx` loads the row (`Select`), sends its statement (`Flush`: an INSERT,
or an UPDATE of the columns that differ from what was loaded) and commits; in between
the row or the key is locked. `WaitsFor` is the graph of lock waits. Only devices of `Listed` (devices.yml)
can be paused. A report is `QueryDrift`, then `QueryStamps`; its `truth` is history: for
each device, all that a report in one instant would have said between the two.

### Differ and Remediation
A document is a function from objects to functions from fields to values. The device (`reality`) has the same shape, but
holds *settings*: an access VLAN and a list of trunk VLANs are set whatever the port's mode is, and `Shown` is what the
collectors read of them in that mode. `StartCheck`
reads the intent, `Collect` reads `Shown` of the device, compares and stores, `NextFix` takes the next
armed record; `OpenSession`, `Commit`, `Verify` and `Rollback` follow `appliers/*.py`, beside what may go wrong (`CommitRejected`, `CommitIgnored`,
`SessionFails`, `RollbackFails`). Platforms differ in the fields they can render, in the setting a field is rendered to (`Setting`: JunOS has one list of
members for tagged and untagged VLANs), in the verification and rollback (IOS-XE alone), and in lists (JunOS adds members,
it removes none). What a device makes of a stanza is not in `src/`: that it refuses one for an object it does not have, or one
without a value (`Rejected`, `Void`), is an assumption, marked external in the map. Others edit
NetBox and the device meanwhile.

### Fingerprints and Patterns
Pure operators: a fingerprint is a triple, a normalised one has a token for the
identifier; a table is a function from fingerprints to rows, a bundle a function on its positions.
The regular expression and YAML appear as what they return (`Class`, equality of functions).

### Readings, Inventory and Triage
A truth is a network that is configured as it is documented. `IntentObjects` is what a source makes of
its documentation, `RealityObjects` what a platform's collector makes of its configuration, and
`FalseDrift` the differ's answer, which should be empty. What a collector overlooks is in the truth: whether a port is a
link aggregation (`bundle`), whether an access VLAN is encapsulated, the unit an address or an adjacency is listed under. The parsers of vendor text appear
as what they return for a device's state; a block whose read fails is in `empty`.
`Polled` and `Served` are the devices of the two processes. `Triage` takes the rows of an
identity as the minutes at which they were stored.

## 3. What the runs show

A `pass` run ends with no error over the complete state space of its instance. A
`violation` run has one property, which restates a sentence of the documentation, and a
counterexample in what the code does. Every property of a passing run has a *mutant* in
`PROJECT.json`: a plausible bug in one definition (an operator of the same module, marked
`Mutant`) that makes TLC report that property.

| Run | Question | Answer |
|---|---|---|
| `AutoApplyBreaker` | Do failures stop unattended repair, when two threads, an operator and a crash interleave? | `CircuitBreaker`: a failure streak always has a worker about to disarm the issue. `BoundedOvershoot`: after the flag is cleared each worker applies at most once more. `ConfirmedBeforeUnattended`: nothing ran unattended before it was confirmed. `AuditTrail`: one audit event for each session, a crash before it is written and a drift event that retention deletes meanwhile being the only exceptions. |
| `AutoApplySkips` | Do pauses, windows, acknowledgements, an unsupported device, an importer and re-polls leave the gate and the breaker whole? | `ConfirmGate`: no interleaving arms an issue nobody confirmed. `BreakerTrips`: a tripped issue is disarmed. |
| `AutoApplyRace` (violation) | Is a flag only ever set on a `restore_intent`? | `ArmedOnlyForRestoreIntent` fails: two PATCH requests, each reading before the other writes (`storage/models.py:80`). |
| `SlaEdges` | Is alerting edge-triggered through mutes, retention, silence and dying cycles? | `EdgeTriggered` (refinement), `PagesFollowTracked`, `NoRepageAfterMute`; with fairness `LastingBreachIsPaged`, `EndedBreachIsResolved`. |
| `SlaStale` (violation) | Does `sla_resolved` come when the drift clears? | `ResolvedWhenCleared` fails: it comes when retention deletes the old rows (`sla.py:9-10`). |
| `PollingDay` | Can a device fall silent, or its checks multiply, beside a lifecycle sync, re-polls and syslog checks, with runs that hang and a restart? | `SilenceIsExplained`: an interval and a check, plus one interval per lost run. `MessagesAreThrottled`, `RepollsDoNotMultiply`. `PollingGoesOn`: a device is checked again and again, unless a run of its own check hangs or the pool is short of threads over and over when that check is due. |
| `WebhookQueue` | Does a bounded queue with a failing receiver lose or reorder what it accepted, and can explanations cost a check its alerts? | `NoLossInOrder`, `StopDrains`, `EverythingIsPosted`; `AlertsSurvive` and `NoCheckHangs` through lock waits and deadlocks. |
| `ApiRetention` | Does a key let anything in after its end, does the loop hang, and can pruning break the audit log? | `RevokedIsOut`, `StampsNeverGoBack`, `LoopIsFreed`; `AuditedDriftIsKept`, `UnauditedIsPruned`. Types are proved, not run. |
| `RetentionBlocked` (violation) | Is old drift pruned? | `OldIsPruned` fails: one audited old row fails the DELETE of all (`docs/PROJECT_PLAN.md:592`). |
| `SettingsWriters` | Do four unlocked writers of a row lose updates or deadlock, and is the accuracy report true? | `NoLostUpdate`, `StampsAreChecks`, `NoCircularWait`; `ReportWasTrue`, but for one race. |
| `RemediationLoop` | What do overlapping checks and API fixes do to a device? | `SuccessMeansApplied`: the setting was on the device, which is not to say that the drift is gone. `UnattendedRestoresIntent`, `LastingLossIsStored`; `ArmedDriftIsRestored`, for the fields whose fix can show. |
| `RemediationUndocumented` (violation) | Is an object that the intent does not document protected? | `UndocumentedIsBlocked` fails: the differ writes "absent" where the applier looks for an empty value (`docs/remediation.md:58-59`). |

### Bounds, and why they are enough
* **AutoApply**: one issue, because rows, audit events and counters of different issues
  never meet except in a loop's own order, which two drift records of one issue already
  give; two workers, the fewest that race on a counter; a client beside them, or two clients
  beside no worker, the fewest for a read-write race; thresholds 1 and 2, so that a streak is more than one event. `MaxEvents`
  bounds the audit log: 3 is a confirmation and a full streak; no
  guard of the code depends on a longer log. `MaxCrashes` 1: a second crash
  meets the state the first one left. `MaxLost` 1: one fix whose drift event is pruned beneath it. `Operated` limits which devices are muted.
  The two passing runs divide the endpoints and the skips between them; two clients race in `AutoApplyRace`,
  and that their races cannot pass the gate is proved for any number (`ConfirmGateHolds`).
* **SlaEvaluation**: one device and one fingerprint (breaches are independent rows; rules
  and mutes of one device relate them, which two overlapping rules show), windows of 1 and
  2 ticks, retention after 1, silence after 2, `MaxTime` 3 so that each deadline
  passes with time left, one cycle that dies. `MaxTime` 4 in `SlaStale`.
* **Polling**: a tick is an interval of drift checks; a device with its check and a lifecycle sync of twice the
  period, on two threads. A hung sync and a running re-poll leave the check without a thread, a hung check has its own
  later runs skipped: each exception of `PollingGoesOn` happens, and so does each case it is about. `GRACE` 0: a re-poll
  a tick late is missed, as 30 s are less than an interval. `COOLDOWN` 1 lets syslog checks overlap. `Horizon` 5: silence
  is measured through three lost intervals. One re-poll that has not begun, one restart.
* **WebhookDispatcher, CheckTail**: a queue of 2 and 3 events: it fills, drops, drains and
  fills again. One `stop()`; see the gaps for two. Two checks with the same two drifts in opposite orders,
  the fewest that deadlock, one critical; the model answers one of them and not the other.
* **DriftRetention, ApiServer**: one drift, two clients, two ticks with retention 1: the drift can
  be young, old, audited or neither. A pool of one connection is empty as soon as it is used, which stands
  for fifteen; two keys, one from the command line; one client fixes, the other manages keys. Only dry-runs, two drifts and three ticks in `RetentionBlocked`.
* **DeviceSettings, InventoryAccuracy**: one writer of each kind on the same row, and a sync over two rows, so
  that a lock is held while another is awaited. `MaxBegun` 4 lets each kind run once. `WINDOW` 0 of two
  ticks, so that a row can be stale, and one report.
* **Remediation**: a trunk that may be missing, whose tagged VLANs or native VLAN are edited, and a management port whose
  `enabled` is: one object that is fixable, in one field whose fix shows and one whose fix does not, and one that is
  blocked. EOS, IOS-XE and JunOS. Two checks and one client overlap; one edit by others and two faults. SR Linux is not
  in the run: it behaves as EOS does with fewer fields. Snippets only in `RemediationUndocumented`.

Where a clock or counter reaches its bound the guard stops that action, not the others;
liveness is stated so that a stopped clock does not satisfy it (`<>[]` of a condition on the
left). `CHECK_DEADLOCK FALSE` appears once: in `WebhookQueue` the process may exit, and then
nothing is left to do.

### Fairness, and what justifies it
* `AutoApplySkips`: weak fairness of a worker's own steps: a thread that runs
  continues, and calls of devices end with a timeout. Starting a worker is
  not fair, nor is any operator. (The intent is read before the loop; that this may hang is a matter of `Polling`.)
* `SlaEdges`: weak fairness of the job's steps (`Evaluate`): the scheduler runs it every
  poll interval (`scheduler.py:386-440`). Aborts are bounded, not fair.
* `PollingDay`: weak fairness of `Progress`: time passes, the pool works, and a run that does not hang ends. pynetbox
  (`netbox_client.py:86`), its session (`:168`) and pynautobot (`nautobot_client.py:82`) are called without a timeout, hence
  `Hang`, which is free to happen to each read of the intent and to the sync. `MaxRun` bounds what is not such a read: calls of devices
  and of the database. Hanging, messages, the listener's end and restarts are not fair.
* `WebhookQueue`: weak fairness of the worker thread, as posts have a timeout, and of the steps of each check:
  calls of the model time out and the database resolves lock waits. `GiveUp` is fair only for a check that is `Doomed`.
* `ApiRetention`: weak fairness of what the event loop has begun and of the pool's timeout for it, and of the retention
  job's start and DELETE. Handlers have none: a device may hold them for as long as it likes.
* `RemediationLoop`: weak fairness of checks and of their sessions, as calls of devices time out; clients,
  editors and faults have none. That an intent read never returns is left to `Polling`.

## 4. What is proved

Theorems hold for all values of the constants that satisfy the modules' named
assumptions (which TLC evaluates on each run). There are no unproved steps.

**AutoApplyProofs**, under `CoreAssumption` and `ProcessAssumption` (workers and clients are finitely many,
and a thread is one or the other).
* `TypeCorrect`: `TypeOK`. It is not inductive: `SaveEvent` takes the
  head of `todo`. `TypeInv` adds `HoldsDrift`: a worker past `MatchIssue` holds a record.
* `ConfirmGateHolds`, `ConfirmedFirst`. `ConfirmGate` is not inductive: `WriteEnable` sets the flag from a
  check made earlier. `GateInv` says of every place where "confirmed"
  was established and is still to be used that it is *proven by manual events
  written before*: for the armed rows (`Armed`), for requests between check and write
  (`Enabling`), for workers between match and commit (`Working`), and for each scheduler
  event in the log (`Logged`); `LogInv` has the log finite and in the past. The crux is
  `ConfirmedIsProven`: the code counts *all* successes, the scheduler's too, but a
  scheduler's success lies after enough manual ones by `Logged`. `ProvenLasts` carries a proof
  through growing logs.
* `BreakerHolds`. `CircuitBreaker` with the types and a finite log is inductive: only a committed scheduler event can trip an issue
  (`TrippedBefore`), its worker then stands at `count_failures`, and it leaves only by
  clearing the flag or by seeing no streak.
* `OvershootIsBounded`. With `NothingLate` (no late apply of an armed issue) the bound is inductive: no
  worker newly matches a disarmed issue (`NoNewFlight`), and each late apply takes one worker out of flight.
* `AuditIsComplete`, crashes and prunings included. A commit adds one event to the count only if the event is new, which
  `StampInv` says: a flushed event's `applied_at` is its own. Then sessions, events, writers and lost sessions
  balance (`Balanced`): a session opens (`SessionOpens`), its event is written (`EventIsWritten`), or its writer ends
  without one (`SessionsAreLost`); all other steps leave the four alone.

**SlaProofs**, under `SlaAssumption`: `SlaTypeCorrect`; `PagesFollow` (inductive with the types); `AlertsAreEdgeTriggered`:
`SlaEvaluation` implements `EdgeAlerts` with `open <- Settled`, `saved <- tracked`. Firing maps
to `Announce`, committing to `Save`, dying to `Lose`, everything else stutters.
`MutesNeverRepage`: that a key pages again without having been found over is an action property of `FireEdges`, which
sees only the scan. `ClearedInv` is what it needs: a key *not* found over since its page is tracked, or among those that
the commit of the running cycle will write; so the cycle that pages it again is one after a crash.

**DriftRetentionProofs**, under `RetentionAssumption`: `RetentionTypes`; `AuditedIsKept`, inductive
as it stands because the DELETE and the INSERT both look at the foreign key when they run, not when the
request or the cutoff began. And under `ServerAssumption`, for the server around it:
* `ServerServes`: every step of `ApiServer` is one of `DriftRetention` or leaves its variables alone, so
  all of the above holds behind the middleware. `ServerTypesHold`.
* `RevokedKeysAreOut`. `RevokedIsOut` is not inductive: a handler starts on what the middleware found
  earlier. `KeysAreJudged` says what is known of a key on the way: one that was not good when its request
  came has, until the clock is read, no row beyond `now`, and from then on none beyond that reading (`RowsLast`:
  ids are not used again and expiries not changed).
* `StampsOnlyGoForward`, from `StampsArePast`: while one request is being verified, which the loop does one
  at a time, no row has a stamp later than the clock reading that request has taken.

**RemediationProofs**, first of the differ, for all documents: `NoDriftIffEqual` (soundness and completeness),
`OneRecordPerField`; and `FixRemovesItsDrift`: on EOS and IOS-XE the fix of a setting that the collector reads in the port's
mode (`Reads`) removes exactly its record from the next diff, which is why the auto-apply loop makes progress
(`PutRemovesItsDrift` of the documents, `ReadShows` of what is read of the device). Then of the loop, under `RemediationAssumption`, for any threads that overlap:
* `LoopTypeCorrect`, `SuccessWasApplied`, `UnattendedRestores`, from one invariant. `LoopInv` says that both documents stay
  well formed (`RealityOK`) and of each thread (`ThreadsOK`) that the records it has still to repair are `Owed`, that is,
  armed attributes with the value of the intent it read, and that a session is open only on a record which may
  be restored and has no result before it ended. `RecordsAreOwed` says it of what `Collect` stores, and
  `CommitRestores` of the commit; `OnlyItsCommit` that a thread's step out of its commit changes the device by its own edit or not at all.
* `SuccessWasApplied` is about settings: a native VLAN rendered as an access VLAN is applied, and the drift stays.
  `UnattendedRestores` lets the fix of an armed `untagged_vlan` change the list of members on JunOS, and nothing else.
  A success is the commit's own answer where the applier trusts it, and then `EditIsIdempotent` says that the edit is in
  effect after the commit; on IOS-XE it is what `Verify` read back, after whatever other sessions did meanwhile.

**DeviceSettingsProofs**, under `SettingsAssumption`. One invariant carries all of it: `Types` says which rows a
transaction may have loaded and written at each phase, `Locks` that a row is written by one open transaction at most, and
`Disjoint` that a written row differs from the committed one in its writer's own columns only.
* `SettingsTypeCorrect`; `SeenIsLastAnswer`: the reachability stamp, unconditionally. `NoUpdateLost` adds the kill-switch,
  and a hypothesis, `OneClientPerDevice`: the pause requests of one device come one at a time. Without it the property
  is false (section 6). `SeenInv` and `PausedInv` say that what a transaction loaded of its own column is still there.
* `StampsMatchChecks`, from `StampInv`: a stamp written and not yet committed is its check's own, or the committed one.
* `NeverCircular`: only the sync holds one row and waits for another, and it takes its rows in one order; a transaction
  further along that order cannot wait for one behind it.
* `ReportsWereTrue`: between its queries a report keeps in `truth` a status that was true when it read the drift, unless
  the device was stale then and has been checked since (`ReportInv`).

**CheckTailProofs**, under `DispatcherAssumption` and `TailAssumption`.
* `DispatcherTypeCorrect`, `NothingLost`: what was posted, is in hand and is queued is, in this order, exactly what was
  accepted, event by event, through any number of stops and restarts.
* `StopHasDrained`, for a process that calls `stop()` once (`MaxStops <= 1`), as with two calls it is false (section 6).
  `DrainInv`: until that call there is no sentinel in the queue, and whatever gets behind it was accepted later.
* `TailImplementsDispatcher`: the steps of `CheckTail` are those of `WebhookDispatcher` or leave its variables alone, so the
  theorems above hold with checks, explanations and the SLA job around it. `TailTypeCorrect`.
* `AlertsAlwaysSurvive`. `TailInv` says that a check in its alerting phase has fired as many alerts as it has passed
  critical records, so that it has fired all of them when it ends; no way through the explanations avoids that phase.

**PollingProofs**, under `PollingAssumption`, for all periods, delays, cooldowns, pools and restarts.
* `PollingTypeCorrect`.
* `SilenceHasReasons`. A bound on the silence alone is not inductive; `Explained` looks ahead: the silence and the
  wait for the next interval job are together within an interval and the slack, unless that job has come due and is
  queued or collecting, and then the silence was within it when the job was due, and has grown by the age of the run
  at most. A job that is skipped or missed adds its interval to the slack in the same step.
* `ThrottleHolds`. `Spaced`: the checks that messages started for a device are a cooldown apart, the
  youngest no younger than the listener's own count; then no interval of a cooldown holds two of them, and a run
  lasts `MaxRun` at most.
* `RepollsStayFew`: an action property, by counting what each step puts into and takes out of the three places where a
  re-poll may be: pending, queued, running.

**OperatorProofs**, about pure functions. Of drift identity: `BackfillIsFuzzy`, `FuzzyRefinesExact`, and `FuzzyFallbackIsIdle`:
with a threshold above 3/5, hence at the default 0.7, enabling fuzzy matching changes no
match, because two fingerprints of at most four words that are as similar as
that contain one another, and then agree in type, field and kind; the exact match has
been tried before. The hypotheses (`Vocabulary`, `IsDrift`) say that a word has one role.

Of the tables: `ExportIsImportable`, `RoundTrip` (if no body carries an explicit null), `ImportIsIdempotent`.

Of the sources, for every network, list and date:
* `FalseDriftIsKnown`: when a device is configured as documented, a poll stores drift for exactly the
  objects that one side cannot see and the fields that `Misread` lists. The proof goes field by field and
  platform by platform (`PortMisread`, `OtherMisread`), then through the differ's three kinds of
  record. `SwitchesAgree` says what Arista and Cisco devices must keep to so that there is none (no Arista link aggregation that
  is a switchport, for one);
  `FailedReadIsLoss` that an optional block that cannot be read is stored as lost.
  Its hypotheses, `IsTruth` and `Collects`, say that the documentation is well formed and that the Arista
  collector does not raise.
* `OneOldRowIsChronic`, `PruningKeepsChronic` (retention alone does not make a lasting drift new),
  `TriageIsSafe` (no answer of a model leaves the three assessments or plays a critical drift down
  by being unusable).
* `LaterEntryWins`: of NetBox devices with one name the last listed is polled, and an address that only an earlier one has
  is polled under no name. `ApiSeesDevicesYmlOnly`, `LifecycleWorsens`. `LaterEntryWins` (through `LastEntry`), as
  `OneOldRowIsChronic`, rests on `FirstExists`: a set of numbers has a least one.

### Only model-checked
Liveness (`BreakerTrips`, `LastingBreachIsPaged`, `EndedBreachIsResolved`, `EverythingIsPosted`,
`UnauditedIsPruned`, `ArmedDriftIsRestored`, `LastingLossIsStored`, `PollingGoesOn`, `LoopIsFreed`, `NoCheckHangs`) needs
fairness and ENABLED, which are out of this prover's reach, as is induction over data. Every invariant and every action
property of a passing run is also a theorem.

## 5. Not modelled

The probe (one TCP connection, whose outcomes are inputs of `DeviceSettings`), the command line, the demo
data and the dashboard keep no state of their own. Of the collectors and the source-of-truth clients the models have
what is kept, not how it is fetched or parsed: vendor text, HTTP, retries of the libraries, the map from
slugs to platforms, `running_config` and the software version. Of the AI features, prompts, digests,
suggestions and the causes of `diagnose.py` are text. Read endpoints other than the accuracy report and the triage
copy rows into JSON. Within modelled parts: stanza text (a fix is the setting it changes and the value, an empty value included), severities beyond the
differ's own, URL validation, the webhook rate limit (stored, never enforced), key hashing (equality),
and SQLAlchemy's session cache beyond what a request loaded. `_get_dispatcher` and `_get_scheduler` are taken
as made once.

## 6. Known gaps of the code

The four violations of section 3 are entries of `findings`. Met while modelling, and left
visible in the models or stated as exceptions of properties:

* an import replaces the payload of an armed issue and keeps its flag (`storage/repository.py:338`);
  confirmations of an earlier payload arm a later one (`api/app.py:763`);
* a crash between a device's commit and its audit event leaves no trace (`auto_apply.py:215`), and neither does an apply
  whose drift event retention deletes meanwhile (`api/app.py:1051`), though `docs/remediation.md:92` promises an event
  for every attempt: these are the exceptions of `AuditTrail`;
* pause and windows are read once, before a loop that may take minutes (`auto_apply.py:135`);
* webhooks are fired before the commit that remembers them (`sla.py:174`): after a crash they repeat;
* a breach is announced as resolved when its device falls silent, its rule is deleted or retention
  takes its rows, and `device_unreachable` is sent inside a maintenance window (`sla.py:184`);
* `main()` never calls the dispatcher's `stop()`, so queued events are lost at exit; with two calls
  of `stop()` a stale sentinel ends a later worker early (`webhook.py:188`);
* in that second case the device is changed, the client sees an error, and no re-poll is asked for;
* a pause and a resume at once may leave `paused_at` of the other; two first writers of a
  `device_settings` row collide and one loses its whole transaction (`storage/repository.py:684`);
* the apply endpoint does not compare the drift's fingerprint with the issue's; its refusals
  leave no audit event, the applier's own refusal is recorded as a failure (`api/app.py:915`);
* `tunnel_state` is operational to the pattern schema and not to the appliers (`appliers/base.py`);
* the native VLAN of an EOS or IOS-XE trunk is rendered as `switchport access vlan` (`appliers/arista.py:61`,
  `appliers/cisco.py:82`): the apply succeeds and the drift stays; a VLAN that should be empty is rendered as
  `access vlan None`, which a device refuses; on JunOS the fix of an `untagged_vlan` adds it to the tagged ones
  (`appliers/junos.py:70-84`), whether or not these may be repaired unattended;
* on JunOS a removed VLAN member is not removed by a fix; on IOS-XE a rollback undoes
  concurrent commits, two may undo each other until the breaker trips, and a commit
  whose verification fails to run is not rolled back (`appliers/cisco.py:141-152`);
* an export of a body that the API stored with an explicit null differs after the round trip (`api/app.py:714`);
* imported issues have no normalised fingerprint, and interface issues that were backfilled have a
  generic one; at the default threshold the fuzzy fallback finds nothing at all (`fingerprint.py:38`).
* a read of the intent that hangs silences its device for good: its run keeps its thread, `max_instances` skips all later
  ones, and nothing reports it but the accuracy report and the SLA job's `device_unreachable` (`netbox_client.py:86`, `:168`,
  `nautobot_client.py:82`); as many of them as there are threads, and no job runs at all;
* a pool with fewer threads than jobs that are due together drops the late ones, and may drop the same ones each time,
  because an interval job's grace is a second (`scheduler.py:148`);
* a process that restarts more often than its interval never polls, as every first run is an interval away
  (`scheduler.py:455`), and a syslog listener that met an `OSError` stays off without a word (`syslog_receiver.py:80`);
* a check that commits between the two queries of the accuracy report makes a device that was stale
  and is drifted "accurate", against `storage/repository.py:198` (`storage/repository.py:224`);
* "explained exactly once" (`pipeline.py:72`) does not hold for checks that overlap: the later one writes over the
  earlier, a fallback over a model's text perhaps; a fallback stored while the model was down stays for good; row
  locks are held while the model thinks (`pipeline.py:92-105`);
* an exception of the auto-apply loop after the drift is stored costs the check its `critical_drift` alerts (`scheduler.py:118`);
* a fix or a new key that is committed may be answered by a 500 when the reload after it finds no connection; the
  key is then active and known to nobody (`api/app.py:1064`); and revoking the last key locks every client out until the command line makes one;
* with `DEVICE_SOURCE=netbox` a device that `devices.yml` does not list is polled and remediated, and cannot be
  paused: the API answers 404 (`api/app.py:164`, `docs/deployment.md:66`);
* an optional read that fails is stored as the loss of every object in its block, critical for tunnels. For a Juniper
  without ELS, `collectors/junos.py:15-16` and `:33` promise "no drift on vlans block": every VLAN of the site is drift;
* permanent false drift: JunOS layer 2, units other than 0 and adjacencies documented with a unit (`irb.10` is read as `irb`),
  Arista link aggregations that are switchports (read as routed), SR Linux trunks, untagged ports and VLAN names, native VLANs,
  trunks that allow all VLANs, IPv6 addresses, OSPF areas documented as a number (`Misread` has the list); a failed
  interface read on SR Linux is every port missing;
* one port of an unknown switchport mode makes an Arista device uncollectable (`collectors/arista.py:77`);
* `get_intent` reads a device in several requests, so an edit in between gives an intent that never was (`netbox_client.py:291`);
* a drift that was fixed and returns is chronic at once, and unless it is critical "noise" (`api/app.py:401`);
* pages of `/drifts` have no order among the drifts of one check (`storage/repository.py:104`).

## 7. Plan

Order of work, most important first; a new component joins an existing run or comes with theorems.

1. *Done*: `AutoApply` with its proofs, `SlaEvaluation` with its abstract contract, `Differ`,
   `Remediation`, the tables with concurrent writers and their readers, the check's tail and the webhook queue, polling, the API
   process, `Fingerprints`, `Patterns`, and the pure functions of the sources with their theorems.
2. *Done*: every invariant and action property of the passing runs is proved, and two refinements.
3. *Prove*: the safety half of `NoCheckHangs` and `LoopIsFreed`: a measure that every step of a check's tail, or of a
   request in the loop, makes smaller.
4. *Extend*: payload identities in `AutoApply` (confirmations of an earlier payload); two `stop()` calls;
   an abstract audit log that `AutoApply` and `DriftRetention` both implement.
