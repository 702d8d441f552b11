# Kernmux in TLA+

Kernmux manages Multikernel instances (several kernels on one machine).
`kernmuxd`, a root daemon, accepts mutations over a Unix socket, checks them
against a snapshot of the host, runs the Kerf command-line tool to make the
change and observes the host again to say what happened. Beside it stand an
image store, console sessions on the instances, a client library, `kernmuxctl`
and a gateway for browsers. This directory holds a TLA+ model of these parts,
TLC configurations that check it on small instances, and TLAPS proofs of the
safety properties for every value of the constants.

`PROJECT.json` lists the components, the runs, the mutated definitions that each
property must detect, the source lines of every definition, the disagreements
between documentation and code, the hazards and the theorems.
Source paths below are relative to `crates/kernmux-daemon/src/` unless they say
otherwise.

## 1. The system

| Part | State | What is hard about it |
|---|---|---|
| Operation registry (`operations.rs`) | two bounded histories, id and sequence counters, latest generation | eviction, generations that arrive out of order |
| Event subscription (`operations.rs`) | a cursor per reader | slow readers, the boundary of the overflow |
| Scheduler (`scheduler.rs`), submit handlers (`host_api.rs`), limits (`security.rs`) | workers with cancellation tokens, permits, three mutexes | a thread runs before it is listed; panics; permits on every path; when a cancellation is still looked at |
| Plans (`lifecycle.rs`, `placement.rs`, `resource_pool.rs`) | none; functions of a snapshot | ownership over long sequences of legal requests |
| Executors and Kerf runner (`lifecycle_executor.rs`, `resource_pool.rs`) | a pending Kerf process per runner | deadlines, processes that outlive them, exit codes that lie |
| Inventory (`inventory.rs`, `kernmux-core/src/multikernel.rs`) | last good snapshot, generation, a hung probe | torn reads, probes that hang, restart |
| Image store and catalog (`image_store.rs`) | blobs and records on disk; catalog generation | crash between two publications |
| Console (`console.rs`), transport (`transport.rs`), bridge (gateway `browser_console.rs`) | leases, permits, devices, two socket buffers | release on half-failed upgrades; request and reply streams; full buffers |
| Uploads (gateway `lib.rs`), wait loop (`kernmux-client`) | upload files, polling tasks | answers lost after the daemon accepted; ids reused after a restart |
| Request path (client, CLI, gateway filter, `transport.rs`, `host_api.rs`) | one call | four tables of the same routes; callers that give up |
| Parsers, compatibility, storage inventory, configuration, web UI | none shared | nothing for a model checker |

How a mutation travels: a handler takes a permit and calls `submit`, which
creates the operation record, spawns a thread and lists it. The thread marks the
record running, takes the executor's mutex, and `execute` refreshes the
inventory, compares generations, plans, runs Kerf, refreshes again and
reconciles. The result goes into the record, and every change of a record is an
event for subscribers. Lifecycle and pool requests use different executors with
different mutexes; both share one inventory behind a mutex of its own.

## 2. Modules

| Module | Models | State to code |
|---|---|---|
| `OperationRegistry` | `OperationRegistry` | `next_operation`, `next_sequence`, `latest_generation`, `operations`, `events` are the fields of `RegistryState`; each method is one action, since it holds the mutex throughout |
| `OperationLedger` | what the registry promises to a holder of an id | `status` per id; abstract |
| `EventStream` | the registry with `EventSubscription`s | a cursor per reader, the one it came with, what it has been given |
| `Scheduler` | `OperationScheduler`, the submit handlers, the mutation permits | `permits` is `LimitState.mutations`; `submitter` and `thread` are the program counters of handler and worker; `holder` the three mutexes; a step is what happens between two lock operations |
| `Lifecycle` | the plans, and Kerf as an external | `host` is the state behind sysfs; a request changes it when its plan accepts the snapshot of it |
| `HostControl` | both executors, their Kerf runners and the inventory | `current`, `probe`, `hung` are the inventory; `kerf` the live or pending process of each runner; `step`, `saw`, `request`, `process`, `result` follow one mutation |
| `ImageStore` | `ImageStore`, `ImageCatalog` and the import handlers | `blobs` and `records` are the directories, with what is synced; `import` is the holder of the catalog mutex and how far it has come |
| `Console` | a console session from browser to device | `held` are the RAII values a connection owns, so each drop is a step; `up` and `down` the socket's buffers; `gate` and `carry` the bridge; `stage` the daemon's side |
| `Uploads` | browser uploads, their cleanup task, `wait_operation` | `handler`, `file`, `poller` per upload; `records` is the registry as far as an id lookup sees it; both services restart |
| `RequestPath` | one API call from front end to report | the tables of library, CLI, gateway and daemon as operators; `answer`, `effects`, `audits`, `report` what became of the call |
| `*Proofs` | theorems about the module they are named after; `OperationRegistryProofs` also covers `EventStream` and the ledger | |
| `MC*` | values of constants for TLC | |

`EventStream` and `Scheduler` extend `OperationRegistry`, so the registry's
actions are the very ones their handlers take. `HostControl` extends
`Lifecycle`: the plans it evaluates at preflight, and the effect of Kerf, are
those of `Lifecycle`. Definitions named `X_Something` are faulty variants of `X`;
nothing uses them except the mutation of `X` listed in `PROJECT.json`.

Kerf, the kernel and the process table are external. Kerf may fail without
effect, may apply its command at any moment of its life, and exits with a code
that says nothing certain. The kernel refuses only what makes no sense for the
instance it finds. Create is placed in any free pool memory. A pool command may
change CPUs and fail on memory, as `fixtures/v1/kerf/partial-pool-release.json`
records. In `Lifecycle` a resource replacement is taken over as asked, so the
ownership invariants rest on the plans.

## 3. Runs

Passing runs:

| Run | Configuration | Shows |
|---|---|---|
| `event_stream` | `EventStream.cfg` | 2 operations, a history of 1, a queue of 2, a reader that comes with a cursor at, inside or ahead of the stream and may fall behind at any point: histories are ordered, a step that changes a record pushes one event with the generation reached, records only move forward, the ledger is implemented, nothing is lost silently, a reader catches up |
| `scheduler` | `Scheduler.cfg` | 2 operations of any of the five classes, a permit for each, a history of 1 (so running records are evicted): permits, worker list and records agree, executions are serialised, cancellation is honoured, every operation settles |
| `placement` | `Lifecycle.cfg` | 2 usable instance ids and one invalid, 2 CPUs and an ambiguous one, 3 devices in and out of an IOMMU group, two memory layouts: ownership of CPUs, memory, devices and names |
| `host_control` | `HostControl.cfg` | 3 mutations out of a create, an update and a pool change, so over both executors, with Kerf time-outs, failed spawns and failed or hung probes: the inductive invariant `ControlInv`, outcomes agree with what was observed, stale requests are refused |
| `host_control_liveness` | `HostControlLiveness.cfg` | 2 conflicting mutations, all faults and a restart: each is answered or lost to the restart; an executor in charge acts as planned |
| `image_store` | `ImageStore.cfg` | 2 clients import one file, as a kernel and as an OS image under 2 labels, with its digest pinned and not, with 2 faults of any kind (edit, I/O error, death of the daemon, power loss): the catalog stays readable, acknowledged imports survive, records never change, retrying helps |
| `console` | `Console.cfg` | one browser that sends every frame up to 3 ahead, or two that compete for a console; buffers of 1, one permit of each kind, shutdown and restart: resources follow sessions, one reader per instance, replies match requests, bridge and daemon block each other only when a browser runs ahead of both buffers, sessions end, shutdown completes |
| `uploads` | `Uploads.cfg` | 2 uploads for 1 permit, 2 polls, a history of 1, a restart of each service: accepted imports find their file, waits report the right operation, files whose body has arrived are removed |
| `request_path` | `RequestPath.cfg` | every call of library, CLI and browser, for every role, with callers that give up: the tables agree, reports are truthful, effects are authorized, calls are audited |

Runs that end in a violation, each a disagreement with a sentence of the
repository (quoted under `findings`):

| Run | What happens |
|---|---|
| `restart_generation` | generations start again at 1 after a restart and then match old requests |
| `two_executors` | a lifecycle and a pool mutation pass preflight together; the later one acts on a state its plan did not see |
| `timed_out_kerf` | a mutation is recorded `failed`, and the Kerf process that outlived its deadline then makes it |

Further observations that follow from the models and have no run of their own:

- Creating an operation raises `latest_generation`, documented as "observed",
  to the generation its client named, checked or not (`operations.rs:253`).
- A history at capacity evicts the oldest operation even while it runs, so a
  client told to wait for its terminal state may find no record, and `cancel`
  may answer that there is no such operation after it has flagged its worker.
- The error of an indeterminate operation has `retryable = true`
  (`scheduler.rs:348`), while `docs/operations.md:29` says "Never treat
  `indeterminate` as retryable."
- `publish_blob` and `publish_record` accept a link that is already there
  without syncing its directory. When the import that made the link ended
  before its own sync, a later import can put a durable record beside it, and a
  power loss can then remove the blob alone. `unsynced` in `ImageStore` marks
  the histories where this can happen; `CatalogStaysReadable` and
  `SuccessfulImportsAreDurable` show that, in a store whose directories are on
  disk, nothing else leads there. `prepare_layout` makes those directories
  without syncing their parents, so a store just made can still go as a whole.
- Bridge and daemon can wait for each other: the bridge in `write_all` towards a
  full socket while the daemon writes to a full socket the bridge does not read
  (`MutualWait`). It is the one exception in `SessionsEnd`, and takes a browser
  with more requests open than both buffers hold (`OnlyRunningAheadBlocks`).
- A subscriber that brings a cursor from before a restart of the daemon is ahead
  of the new registry. It is told nothing, no overflow either, until the
  sequences have passed its cursor; what `LossesAreReported` accounts for starts
  there.
- The gateway has no timeout for an upload whose body stalls, nor for a console
  whose browser falls silent or stops reading: permit, file, lease and device
  stay with them until the connection ends.
- Upload files outlive a browser that disconnects mid-upload, a restart of the
  gateway, and polling that gives up; the next start of the gateway removes them
  once they are a day old. When the daemon's answer to an accepted import is
  lost, the file goes although the import still needs it: the exception in
  `ImportsFindTheirFile`. Process ids of two lives of the gateway are assumed to
  differ.
- The gateway takes a request ID with a colon that the daemon refuses with 400.
- Bodies are decoded with unknown fields ignored, so a body meant for another
  handler would lose them silently; `TablesAgree` shows no front end sends one.
- A caller that disconnects while its handler runs can leave an effect without
  an audit record: the exception in `CallsAreAudited`.
- At the connection limit the daemon closes without an answer, which the library
  reports as a protocol error.
- Every `saturating_sub` on a permit counter is proved never to saturate
  (scheduler, console and upload permits).

### Bounds and why they are enough

- Histories of one or two entries meet every relation between a position and the
  capacity (empty, filling, full, evicting).
- Two operations compete for every lock and history slot, and one can evict the
  other. Both get a permit, since a limit of one would keep them from running
  side by side: the run shows that permits are given back, not that the limit
  refuses a third; `PermitsMatch` is proved for every limit. Fairness between
  several waiters for one lock is not examined.
- A reader that comes with cursor 0 meets the overflow, one with 1 starts inside
  the stream, and one with 5 is ahead of it until the sixth event.
- Three jobs in `HostControl` let one be queued behind another of its executor
  while the third runs on the other. Kerf's life, the probe's life and the
  executors interleave freely.
- Two faults in `ImageStore` are what a crash after a failed step needs; two
  clients compete for the catalog and share a blob between two kinds.
- Buffers of one frame in `Console` are full as soon as anything is under way;
  a window of three puts a request in the buffer, one in the bridge's hands and
  one in the daemon's.
- `AddressLimit` = 6 puts the end of a region at the end of the address space,
  the case where `checked_add` fails.
- `MaxOperations`, `MaxProgressSequence`, `MaxTasks` and `MaxRestarts` bound
  counters and occur in guards only. `JobSymmetry` permutes jobs, which no
  constant tells apart; it is used without liveness.
- The safety properties do not depend on these sizes: section 4 proves all but
  `TablesAgree` for every value of the constants.
- Deadlock is not checked in these runs: every one ends when its bounded supply
  of requests is used up, which is a legitimate end. Progress is what the
  liveness properties check.

### Fairness

- Scheduler: weak fairness of each handler and of each worker. The operating
  system schedules threads, and what a worker does under a lock ends because
  Kerf and the probe have deadlines. Weak fairness suffices for the locks
  because the runs have too few operations for one to be overtaken for ever.
- HostControl: weak fairness for a probe that runs and for a job that can go
  on. Strong fairness for getting the inventory's lock: it is released
  again and again, and Rust's mutex, while not a queue, does not starve a thread
  for ever on a system that schedules it. No fairness for the death of blocked
  processes, for clients, or for Kerf having an effect.
- EventStream: weak fairness for readers only. A batch is all a reader needs, so
  `ReadersCatchUp` asks that it reaches the end of the stream again and again.
- ImageStore: weak fairness for the steps of an import and for clients, which
  start over after a failure; strong fairness for getting the catalog's lock, as
  above. Faults are bounded, never fair.
- Console: weak fairness for the threads and tasks of gateway and daemon, and
  for the handshake timer. None for browsers, the device's answers or SIGTERM,
  and none for the bridge's sends to the browser, which block while it does not
  read. `SessionsEnd` starts when the connection of the browser has ended.
  `ShutdownCompletes` therefore has a proviso: dropping the runtime waits for
  the blocking threads, so a browser that stays attached holds the daemon up
  until systemd's stop timeout kills it.
- Uploads: weak fairness for calls to the daemon, which have timeouts, and for
  cleanup tasks. None for the arrival of a body, the daemon, restarts, other
  clients or the passing of days.

## 4. Theorems

All are proved by TLAPS, for every value of the constants that satisfies the
named assumptions of the modules. These only say what the code's types say
(capacities and limits are positive, inputs have their types, `None` is none of
the values it stands beside, the sets of clients and uploads are finite so that
permits can be counted).

| Module | Theorems | The argument |
|---|---|---|
| `OperationRegistryProofs` | `HistoriesOrdered`, `AllChangesPublished`, `OperationsMoveForward` | `RegistryInv`: ids and sequences are consecutive and end at their counters, so a position in a history tells the id; a record that is queued has no progress, without which "progress never regresses" is not inductive. Every method ends in `publish_operation_event`, whose push shows in the queue's last place |
| | `LossesReported`, `StreamIsContiguous` | `StreamInv`: a cursor lies within the sequences issued or is still the one its reader brought; delivered and missed sequences partition what lies between that one and where the reader is |
| | `ReadersAreServed`, `ReadersCatchUpAtOnce` | `NewestIsRetained`: pushing follows evicting, so the queue is empty only before the first event; then a reader that is behind has a batch, and it ends with the newest event |
| | `RegistryImplementsLedger`, `ReadersLeaveRegistry` | `IdsInRange` and `RegistryInv` give each step its abstract counterpart: creating accepts the next id and forgets the oldest of a full history, an update is one edge of the status graph or a stutter |
| `SchedulerProofs` | `PermitsMatch`, `WorkersListed`, `RecordsMatch`, `Serialised`, `CancelHonoured` | `SchedulerInv`: one row for the control state of each id (what its handler and thread hold, whether it is listed) and one for its record; a task's record is the one its stage says unless it was evicted |
| | `SchedulerDrivesRegistry`, `SchedulerImplementsLedger` | every step of a handler or worker is a registry action or leaves the registry alone, so the refinement carries over |
| | `SchedulerNeverSticks`, `SchedulerProgress` | from `SchedulerInv`: a lock is held by an executing thread only, and the record is always in a state that `start` and `finish` accept |
| `LifecycleProofs` | `OneOwner`, `RunningInstancesKeep` | `PlacementInv`: memory lies within a region of the pool and disjoint from other instances', whatever the order of requests |
| `HostControlProofs` | `ControlInvariant`, `Rejections`, `OutcomesShow`, `OneKerf`, `StaleFailsClosed` | `ControlInv`: a row for the inventory, one for each runner, one for each job by its step |
| | `ActsAsPlanned`, `OwnershipCarriesOver` | refinement: as long as a single executor is in charge and no Kerf process has outlived its runner or its daemon, a change of the host is a step of `Lifecycle`; with `OneOwner`, ownership then holds through probes, Kerf processes killed at their deadline and restarts. `InChargeInv` says why: nobody else changes the host, so the probe of a preflight reads one state |
| | `JobsNeverStick`, `JobsMoveOn` | executor, then inventory: the two locks are taken in this order, and whoever holds the second needs nothing else |
| | `AnswersAreFinalWithoutTimeouts` | `LiveProcessesAreKnown`, a conjunct of `ControlInv`: a live process whose runner no longer waits for it has outlived its deadline |
| `ImageStoreProofs` | `StaysReadable`, `ImportsAreDurable`, `DigestIsHonoured`, `RecordsStay`, `ActsOnSeenCatalog` | `StoreInv`: what the import under way has linked and synced at each of its steps; that its blob is linked before its record is the strengthening the crash steps need |
| | `ImportsNeverStick`, `ImportsMoveOn`, `FailuresHaveCauses` | `KernelInv`: all records of kernels carry the same metadata, so an import of a kernel never conflicts with a record a crash left behind; disk images carry labels and may |
| `ConsoleProofs` | `ResourcesMatch`, `OneReader` | at each stage a connection holds exactly what `StageHolds` says; counters are the cardinalities of the sets of holders, so taking and dropping are additions and removals of one element |
| | `RepliesMatch` | `StreamInv`, a row for each client: which ends of the socket are open at which stage; before the bridge runs the socket holds at most the answer to the upgrade and the attachment; from then on the replies written and not yet read are, one by one, answers to the oldest open requests, and the requests not yet served follow in the order sent. What a reader takes off one end is what the writer put on the other, so each action moves the border between the two by at most one |
| | `OnlyRunningAhead` | counting with the same rows: in a mutual wait `Capacity + 1` requests are on their way and at least `Capacity` replies |
| | `SessionsStickOnlyInMutualWait`, `MutualWaitIsForever`, `SessionsDrainAway` | the same rows tell at each stage which guard is open; the bound adds the daemon's stages, the values to drop, the gateway's steps, one for each frame towards the gateway and three for each towards the daemon (reply, its transport, the next read) |
| `UploadsProofs` | `FilesAreThere`, `WaitsAreTrue`, `PermitsMatch` | `UploadsInv`: a handler past its submission owns a file and an id of this life of the daemon, and a poller is told an end only by that id's record |
| | `NoFileIsForgotten`, `UploadsWindDown` | `Kept`: rounds are counted up to the limit, and a file that outlives its handler has a cleanup task |
| `RequestPathProofs` | `AuthorizedEffects`, `AuditedCalls`, `TruthfulReports` | `PathInv`: at each stage of a call, which answer, effect and audit record there can be |

Each invariant was checked by TLC before it was proved. A proof goes action by
action: frame lemmas say what an action does not touch, one lemma per action
shows the rows it disturbs.

`OutcomesShow`, `StaleFailsClosed` and `ActsOnSeenCatalog` hold within one life
of the daemon, as their properties say; `restart_generation` shows what happens
across two.

### The safety half of liveness

The prover does not reason about fairness and ENABLED, so no liveness property
is proved. What it can prove, for every value of the constants, are the two
facts that such an argument rests on:

- nobody is stuck: in every reachable state, work under way has an actor whose
  guard holds. The guards are written out (`HandlerReady`, `WorkerReady`,
  `RefreshReady`, `JobReady`, `ImportReady`, `Attended`, ...) in place of
  ENABLED;
- nobody goes round in circles: a natural number (`StepsLeft`, `Work`) bounds
  the steps still to come, never grows, and falls with each step of the actor.

| Liveness property | Not stuck | Bounded |
|---|---|---|
| `ReadersCatchUp` | `ReadersAreServed` | `ReadersCatchUpAtOnce` |
| `OperationsSettle` | `SchedulerNeverSticks` | `SchedulerProgress` |
| `JobsFinish` | `JobsNeverStick` | `JobsMoveOn` |
| `RetriesSucceed` | `ImportsNeverStick` | `ImportsMoveOn`, `FailuresHaveCauses` |
| `SessionsEnd`, `ShutdownCompletes` | `SessionsStickOnlyInMutualWait` | `SessionsDrainAway` |
| `FilesAreRemoved` | `NoFileIsForgotten` | `UploadsWindDown` |

The exceptions in the liveness properties turn up here too:
`SessionsStickOnlyInMutualWait` is an equivalence, and `MutualWaitIsForever`
shows that the mutual wait of bridge and daemon is not a delay but an end. That
the fair scheduler picks the actor whose guard holds, and that a waiter for a
lock is not overtaken for ever, is left to TLC.

### Only model-checked

- The liveness properties named above.
- `TablesAgree`. It has no parameter to generalise over: the tables are finite
  and TLC evaluates all of them.

## 5. Abstractions

- A catalog, a snapshot or a file content is compared for equality and otherwise
  opaque. Contents are named by what `sha256` tells apart; hash collisions are
  left out.
- Error values carry their code and `retryable`; messages, logs and formats are
  left out. Progress percentages are kept, since their clamping is.
- A mutex is its holder. The code takes a poisoned lock anyway (`into_inner`), so
  it is a released lock here. A panic is modelled while a task executes, where it
  holds a lock. `drain` of the scheduler is used by tests only and left out.
- Times are left out. A deadline is a step that may be taken whenever the work it
  bounds is under way. A file grows a day old (`DayPasses`) only when no upload,
  call, poll or import is under way: that these take less than
  `STALE_UPLOAD_AGE` is assumed, the code does not enforce it.
- Consecutive steps of one thread that touch nothing shared are one step.
- The filter of a subscriber's batch is stated by position in the retained
  events, which is what iterating from a sequence number selects.
- Registry: descriptive fields, timestamps and the saturation of u64 counters are
  left out.
- Plans: which error code is returned, argument vectors, file paths and kernel
  command lines are left out.
- HostControl: sysfs transactions belong to what makes a generation change; they
  are left out, which makes generations change less often than they do. The
  topology is read together with the pool; then each instance is read on its
  own, before or after what Kerf does meanwhile, but all its files at once. An
  error of `try_wait` itself is not
  modelled. Cancellation inside `execute` is in `Scheduler`.
- ImageStore: the store's directories are on disk from the start (see section 3).
  Initrds are stored as kernels are. File modes, symbolic links,
  temporary files, label syntax and later damage to files are left out;
  cancellation before the import starts is in `Scheduler`. That the recorded
  geometry describes the stored bytes is not claimed: the source file is
  inspected first and copied later.
- `RejectedNeverRan` deserves a remark. `execute` returns the error used for
  requests that were rejected before execution also when the refresh after Kerf
  fails. The property holds because preflight has published a snapshot, and an
  inventory that has one answers with it.
- `RequestPath` follows one call; what calls do to each other is in the modules
  of the state they share. Multipart uploads are in `Uploads`.
- The Multikernel and host parsers, storage inventory, compatibility report,
  configuration files and the web UI are not modelled: they read text and
  compute a value, with no state that a later step depends on.
