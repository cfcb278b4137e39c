# RackMCP: TLA+ specifications

RackMCP lets an assistant work on a patch of the VCV Rack modular synthesiser.
A TypeScript MCP server (`src/apps/mcp-server`, over `src/packages/protocol`)
talks over a local TCP connection to a Rack plugin
(`src/plugins/RackMCP`), and the plugin performs the work on Rack's UI thread.
These modules specify the parts of that system whose correctness depends on
orders of events: threads of the plugin, requests that are retried, plans that
fail half-way, edits of the user in between, overlapping tool calls of the
server. They also specify its algorithms over patches, and its recipes.

## The system

| Part | State | Operations | Hard because |
|---|---|---|---|
| Bridge service (`core/service.cpp`, `tcp.cpp`) | sessions, slots, outbound queues, handles | accept, handshake, frames, teardown, `stop`/`start` | accept, reader, writer and UI threads; peers that never read or never speak |
| Writer lease (`core/lease.cpp`) | one holder, expiry | acquire, renew, release, drop at disconnect | expires on its own; checked on one thread and used on another |
| Command queue and pump (`RackBridge.cpp`, `CommandPump.cpp`) | bounded queue, the command being run | enqueue, take, execute, pairing reset | a command outlives the checks made when it was queued |
| Operation cache (`Handlers.cpp`, `RackBridge.cpp`) | recent results by operation id | look up, execute, record | retries, expiry, capacity, failures that may have changed something |
| Transaction engine (`Transaction.cpp`, `rollback.hpp`) | Rack's patch and undo history, last transaction | preview, commit, rollback, undo last | third-party code throws between edits; the user undoes and redoes |
| Plan validation (`validate.cpp`, `plan.cpp`, `layout.cpp`) | the patch a plan would make | validate one operation, classify risk | must agree with what the commit will do |
| Patch files (`PatchFiles.cpp`) | patch epoch, watermark of the patch | save, load, clear, notice a replacement by the user | the replacement is inferred from a poll |
| Telemetry (`queues.hpp`, `telemetry.hpp`, `Telemetry.cpp`, `ProbeModule.cpp`) | seqlock, accumulators, subscriptions | publish, read, poll | audio thread against UI thread without a lock |
| Activity and chat rings (`activitylog.hpp`, `RackBridge.cpp`) | bounded rings | push, read since | entries pushed out before they are read |
| Discovery and secrets (`manifest.cpp`, `secret.cpp`) | files | heartbeat, prune stale, create secret | a crash leaves a manifest behind |
| Protocol client (`client.ts`, `framing.ts`, `discovery.ts`) | socket, pending requests | connect, authenticate, request, teardown | timeouts against late answers |
| Connection manager (`connection.ts`) | selected instance, client, lease | connect, reconnect, ensure lease | overlapping calls at `await` points |
| Transaction manager, patch files (`transactions.ts`, `patchfiles.ts`) | previewed plans, tokens, checkpoints | preview, commit, checkpoint, load, restore | a token is checked, awaited on, and then used |
| Rate limiter, audit log (`ratelimit.ts`, `audit.ts`) | sliding window, log files | admit, append, rotate, expire | limits and rotation at their boundaries; what a restart forgets |
| Tool calls (`server.ts`, `tools.ts`, `errors.ts`) | calls in progress | receive, preview, commit, answer, record | an error after an execution must say so |
| Probe tools, catalog scan (`telemetry.ts`, `resources.ts`) | slots chosen, pages read | attach, detach, scan | a snapshot is read, awaited on, and then used |
| Analysis (`analysis.ts`) | none: stacks of three loops | describe, validate | iterative depth-first searches with a memory |
| Recipes, adapters (`packages/recipes`, `packages/adapters`) | tables | resolve, expand | ids and values written by hand for modules far away |
| VCV Rack | engine, scene, history | used by the plugin | external |

The server's calls become request frames; a reader thread of the plugin checks
them, queues mutations and reads for the pump, and the pump, once per frame of
the UI, runs them through the operation cache into the transaction engine, the
patch files or a query. Answers go to the session's writer thread.

## What each part has to get right

* Service: limits on slots, orderly teardown, no thread left behind by `stop()`,
  frames that reach their own peer, silent peers that cannot hold a slot.
* Lease, queue, pump: the mutations of two writers never interleave; nothing
  sent under an old pairing secret changes the patch; every admitted request is
  answered; the UI thread never waits for itself.
* Operation cache: a remembered result is replayed and not executed again, to
  its own request only.
* Transactions: all of a plan or none of it, an honest report when that cannot
  be had, one step of undo history, an undo that takes nothing else with it.
* Patch epoch: references die with the patch they were read from, the poll
  invents no replacement, the manager's path is the file of the patch in the rack.
* Discovery and pairing: the secret file and the manifests are whole whenever
  they are read, a process serves the secret it wrote, a client gets in again
  after a reset.
* Confirmations: what was previewed is what is committed, one confirmation
  replaces the patch once, a recovery copy exists and stays.
* Client: every request settles once, an answer is of its own execution, a
  refusal is of none, and everything else says that the change may have happened.
* Connection manager: attempts are serialized and leave no socket behind; calls
  go to the instance dialled last; every call ends.
* Rate limiter and audit log: no window holds more changes than the limit;
  rotation loses only what is old or large, and the view of the log has no gap.
* Tool calls: an error after an execution says so; no commit without the
  confirmation that its plan needs.
* Analysis: what the loops find is exact, in whatever order they meet it.
* Recipes: a plan made of a recipe never fails, and what it builds has no
  avoidable finding; a role is not called missing while its model is installed.
* Probe tools: a commit takes away no cable that its preview did not show.
* Plan validation: the preview's diff lists all that the commit takes away, and the plan
  is then confirmed; what it refuses for a conflict the commit would refuse.
* Telemetry (planned): a snapshot the UI reads was published as one.

## Modules

Three groups are composed: `CommandPath` uses `WriterLease` and implements
`WriterTenure`; `ToolCalls` runs `RateLimiter` and `AuditLog` together and
`BridgeClient` implements `Settlement`; `Workbench` joins `PatchGraph`,
`PatchReport`, `Adapters`, `Recipes` and `PlanPreview`. Otherwise the modules share what they
assume of one another through their interfaces: an answer of the operation cache
in `Confirmations` is the one `OperationCache` describes, a request executed in
`OperationCache` is one `CommandPath` admitted, an executed commit is one run of
`Transaction`, an executed load is one `LoadPatch` of `PatchEpoch`, the
connections of `Connection` and the requests of `ToolCalls` behave as
`BridgeClient` does, and a plan of `Workbench` is previewed and committed as in
`Confirmations`.

| Module | Code | Kind |
|---|---|---|
| `WriterLease` | `core/lease.cpp` | operators on the lease record, one per method |
| `WriterTenure` | what the lease is for | abstract specification, implemented by `CommandPath` |
| `CommandPath` | `service.cpp` (handshake, lease methods, gate), `RackBridge.cpp` (queue, reset), `CommandPump.cpp` | state machine |
| `OperationCache` | `Handlers.cpp` (`executeCommand`), `RackBridge.cpp` (`lookupOperation`, `recordOperation`) | state machine |
| `Sessions` | `service.cpp` (threads, slots, queues, `stop`), `tcp.cpp` (handles) | state machine |
| `SessionsProofs` | | theorems about `Sessions` |
| `Transaction` | `Transaction.cpp` (`Applier`, `txnCommit`, `txnUndoLast`), `rollback.hpp`, `barrier.hpp` | state machine |
| `MutationProofs` | | theorems about `CommandPath` and `Transaction`, whether a mutation may run and what it does to the patch |
| `PatchEpoch` | `PatchFiles.cpp`, `epochGuardOk` | state machine |
| `RequestGuardsProofs` | | theorems about `OperationCache` and `PatchEpoch`, the two things a request is tested against before it runs |
| `Pairing` | `secret.cpp`, `manifest.cpp`, `RackBridge.cpp` (start, stop, heartbeat, reset), `discovery.ts`, `connectTo` | state machine |
| `PairingProofs` | | theorems about `Pairing` |
| `Confirmations` | `transactions.ts`, `patchfiles.ts`, `paths.ts` (reservations), `executeCommand` | state machine |
| `Settlement` | what `client.ts` is for | abstract specification, implemented by `BridgeClient` |
| `BridgeClient` | `client.ts` | state machine |
| `OrchestrationProofs` | | theorems about `Confirmations` and `BridgeClient`, the requests of the server and what it may ask of the plugin |
| `Connection` | `connection.ts`, `index.ts` (shutdown) | state machine |
| `RateLimiter` | `ratelimit.ts` | state machine |
| `AuditLog` | `audit.ts` | state machine |
| `ToolCalls` | `server.ts`, the mutating handlers of `tools.ts` and `telemetry.ts`, `errors.ts` | composes the two above |
| `ToolCallsProofs` | | theorems about `RateLimiter`, `AuditLog` and `ToolCalls` |
| `PatchGraph` | the graph loops of `analysis.ts` | state machine |
| `PatchGraphProofs` | | theorems about `PatchGraph` |
| `PatchReport` | the rules of `validate_patch` (`analysis.ts`) | operators on a patch |
| `Adapters`, `Recipes` | `packages/adapters`, `packages/recipes` | tables and operators |
| `PlanPreview` | `validate.cpp`, `plan.cpp` (cables, Bridges, risk), `layout.cpp`, `txnPreview`, what makes the `Applier` throw | state machine |
| `Workbench` | `buildRecipe` (`tools.ts`), `scanInstalledModels` (`resources.ts`), `telemetry.ts` | composes the five above |
| `McpServerProofs` | | theorems about `Connection` and about `Workbench` with all that it composes |
| `MCConfirmations`, `MCConnection`, `MCToolCalls`, `MCWorkbench` | | the sets and symmetries of these runs |

### CommandPath

Steps are critical sections. A reader's gate (`handleRequest`, the lease check at
`service.cpp:388`) and its push onto the queue are two actions, `GateAdmitted`
(or `GateRefused`) and `EnqueueCommand`, because other readers, the clock and the pump run in between.
The pump's admission (`PumpTake`: deadline and lease, `CommandPump.cpp:38-90`) and
the execution (`PumpExecute`) are two actions for the same reason. The pairing
reset shares the UI thread with the pump, so it never overlaps an execution; it
drops sessions and leaves the queue alone, as the code does.

`owner`, `applied`, `revoked` and `pairedWith` are history variables.
`WriterTenure` is stated over the first three: a tenure is one grant, mutations
never go back to an earlier tenure, and a reset revokes all tenures issued before
it. `WriterTenures` is `Tenure!Spec` under that mapping, checked by
TLC as a property and proved.

### OperationCache

One UI thread, so a lookup, the dispatch and the record are separated only by the
clock. A handler is any outcome its code can answer; which outcomes are
remembered is `Cacheable`. Results are numbered as they are stored (`log`), so the
vector `opCache_` is a set of numbers, lowest first. `executed` records what was ever
run, which is what the properties compare the answers with. The definitions are called
`CacheInit`, `CacheSpec` and so on because one module proves about this one and `PatchEpoch`;
those of `Transaction`, `BridgeClient` and `Workbench` have names of their own for the same reason.

### Sessions

Accept thread, reaper, one reader and one writer per session, and the thread that
calls `stop()`. Handles are numbers the operating system gives out again, lowest
first, which is how a frame can go astray. A thread's timed wait is a count of ticks.

### Transaction

A plan is a sequence of operations; each operation is the sequence of edits the
applier makes, each recorded with its inverse before the next, and each may
throw. Rollback runs the inverses newest first; an inverse may throw too. Rack's
undo history holds whole transactions and the user's own edits. A worker thread
may set a parameter at any time. `order`, the engine's list of modules, is part of the
patch because the fingerprint follows it.

### PatchEpoch

A handler of the UI thread is one action. Rack's patch, its history and its path
are modelled as `PatchFiles.cpp` reads and writes them; File > New, Open, Save and
Save As are the user's actions. `Poll` compares with the watermark at any moment,
which covers the frame count that paces it. History variables (`generation`,
`since`, `rewound`, `home`) say what really happened to the patch, for the
properties to compare the epoch and the path with.

### Pairing

The UI thread of each process goes through `start`, `resetPairing` and `stop` step by
step while its heartbeat thread publishes; both use one temporary name per
file. Files have a content and a mark for what a loss of power would keep. The
MCP server's `connectTo` is three steps: scan, read the secret, connect and
authenticate.

### Confirmations

A tool call is a record with a phase, and every `await` of the code is a
boundary between two phases. The plugin answers from a queue, in order; an answer
reaches its call only if the call still waits for that request. `Timeout`
abandons the wait and leaves the request queued. The
user's edits, undos and opened patches (`UserActs`) come at any time.

### BridgeClient and Settlement

A callback runs to completion, and what it settles resumes before the next one. A
chunk of data may hold several frames, so a turn may be several steps. The state
is the coroutine of the handshake, the queue of its waiters, the entries of
`pending`, what every promise holds, and the peer: frames on their way, requests
written, executed, owed. `Settlement` has the promises and the executions only.

A frame that is too long or no JSON is a frame of its own kind (`Garbled`). `onData` tears
the client down when it meets one, in the middle of a chunk, so that a coroutine which an
earlier frame of the chunk has settled goes on in a closed client (`DispatchGarbled`). A push
that would overflow the decoder's buffer needs a chunk longer than a frame may be, and is
left out. One claim fails here: see `ClosedIsQuiet` under Disagreements.

### Connection

A tool call is a coroutine with a depth, since an attempt to connect polls with
requests of its own. The chain of attempts, the current client, the selected
instance and the lease are the fields of `ConnectionManager`; connections are numbered
as they are dialled, and one whose handshake timed out stays with its callbacks.
Instances appear and stop at any time. A client that was closed in the chunk that admitted it is
still made the current one (`connection.ts:135`); every use asks `isConnected` first, so
in the model that is `SetupSucceeds` and then `Lost`.

### RateLimiter, AuditLog, ToolCalls

The limiter is the sequence of times of admitted changes. The log is three
numbers: records are numbered, so the files are intervals between them. A tool
call goes through the phases of the pipeline and of its handler, one step per
await; its request may be answered, refused or lost, executed or not. The server
may restart between any two steps, which forgets calls, limiter and byte count and
leaves the files.

### PatchGraph, PatchReport, Adapters, Recipes, Workbench

`PatchGraph` has one action per turn of the three loops, with their stacks. The
order of modules and cables in a snapshot is not fixed. A chain is the path and the
cables that feed it: that its description ends at a thousand characters, and its list
of modules at 256 (`analysis.ts:264-276`), is left out. `PatchReport` is the
report of `validate_patch`, as the set of rules with a finding, over a patch of
modules, cables and parameter values. The tables are the data of the packages in
hundredths; texts are left out.

`Workbench` runs calls of `build_recipe`, `attach_probe` and `detach_probe`
against a patch that the user edits. A call is a phase and what it has read: the
pages of the catalog, the plan, the patch its preview saw. The plan is performed
operation by operation (`Applied`), and committed only on the patch of its
preview; the whole patch stands for its fingerprint. Which calls are made is a parameter
(`Asks`). `Analyse` hands a snapshot
to `PatchGraph`; nothing else runs during the loops, which have no await.

### PlanPreview

The preview and the commit of one plan, side by side, one operation at a time. `told`
holds the accumulators of `PreviewState`; `live` is the patch under the applier. The cables
of either are a set, with ids in the order in which they are met (`Ordered`). `Unfit`
and `Conflicts` are the refusals of `validateOne`, `Noted` what it records, `Throws` and
`Performed` the same operation in the applier. Where Rack decides where panels go (a
`force` move, a new module, `nearest`) every layout without overlap is possible. A plan of
`Workbench` uses the part of this that adding, connecting and disconnecting need; here any
plan starts from an initial state of its own, with no tool call beside it. `PreviewTells`
compares the two for as long as the preview can know: the refusals only while no module was
added, every panel is where it has it and, once the plan has plugged a cable, the cables
listed are those gone and each claimed input has its own (`Followed`). A cable of the plan that goes
again leaves its input claimed, and `top` on an output with a new cable lists an old one: from
there on the preview may be wrong either way. What it never sees is that `fail_if_connected`
guards a module which only the plan has connected (`RemovesPlugged`).

## Runs

Every passing run checks with TLC the whole state space under its bounds. The
bounds are chosen so that the events a property is about can happen at least once
more than the code expects: a lease can expire and be granted again, a queue of
one can be full, a cache of two can evict.

| Run | Bounds | Shows |
|---|---|---|
| `command_path` | 2 connections, 2 requests, 2 grants, 1 reset, a queue of 1, a lease of 1 tick, deadline in its tick | writers never interleave; the reset revokes; the authenticated count and the lease holder are exact; each admitted request is answered; each reset completes |
| `operation_cache` | 3 ids, 2 requests, 2 entries, lifetime 2 of 3 ticks, 3 executions | a remembered result is replayed and not run again, to its own request only |
| `sessions` | 2 sessions, 2 slots (1 unauthenticated), 2 handles, 1 stop and start | slot limits; nothing left when `stop()` returns; the second granted to writers; ended sessions are reaped, silent peers dropped, `stop()` returns |
| `transaction` | 1 module and 1 new id, 2 transactions of up to 2 operations, a history of 1, 1 worker's touch | recorded edits invert; a failure not flagged changed nothing; one history entry per success, none per failure; undo takes back its own transaction |
| `patch_epoch` | 2 files, 3 module ids, 1 replacement, 1 action per patch | references refuse after a replacement; no invented replacement; the path is the patch's file |
| `pairing` | 2 processes, 2 ports, 2 secrets, crash and power loss at every step | whole files, true manifests, a process serves what it wrote; a server that keeps trying is paired in the end |
| `confirmations` | 2 calls, 2 ids, 2 tokens, 2 contents, 1 patch opened, 2 names | one replacement per confirmation, of what was confirmed; the recovery copy holds the loss and stays; a plan runs only on what its preview saw |
| `bridge_client` | 3 requests, 3 frames on their way | a client is ready only when admitted, in a closed one nothing waits, an open one has its heartbeat while ready; `Settlement`; every promise is settled |
| `connection` | 2 instances, of which one runs at first, 2 calls of six kinds, 2 connections | no orphan but those of handshake timeouts; calls are served by the instance dialled last; every call ends |
| `tool_calls` | 2 calls, 3 received, limit 2 per 2 ticks, records of 1 or 2 bytes, files of 2 | no gap in the audit view and bounded files; no burst; an error after an execution says so |
| `workbench` | 8 recipes, 4 catalogs over pages of 6 (at most 2), 4 patches, 2 calls, 1 edit; every graph of 3 modules with up to 5 cables and of 4 with up to 3; plans of 3 operations over 3 modules, 2 cables, 4 columns and 1 new module | the loops are exact; recipes build clean or say truly what is missing; commits take away only what was shown; a preview says of any plan what committing it does |

`recovery_gap` is a run that ends in a violation; see Disagreements.

Two of each actor suffice for the races here, which are between two steps of one
actor and one step of another; the third id or request exists where
something has to be taken over from a second one. Identity bounds
(`MaxSessions`, `MaxId`, `MaxGrants`, `MaxCalls`, `MaxConns`, `MaxEdits`) limit how often an event occurs
in one behaviour. TLC shows nothing about more commands, connections or grants
than these; the proofs do.

The bounds of `workbench` are those of its data: all recipes, and catalogs with one
page and a part, exactly the pages scanned, more, and a model missing. The graphs
hold every shape in which the loops can go wrong on three modules: self-loops, loops
of two and three, a closed component met again, two ways of different length.

`CHECK_DEADLOCK FALSE` is set, except for `transaction`, because those systems
may stop: the clock, the ids and the requests are bounded, and peers, users and
processes may do nothing more.
The absence of the deadlocks that matter is stated as liveness (`ResetCompletes`,
`StopCompletes`, `RequestsResolve`, `RePairs`, `PromisesSettle`, `CallsEnd`).

`confirmations` uses symmetry over calls, operation ids, names and contents,
`tool_calls` over calls. No definition distinguishes their elements, and these
runs check no liveness.

### Fairness

* `CommandPath`: weak fairness of the push (the queue's mutex is held only
  briefly, and a full queue is answered, not waited on), of a reader's exit once a
  reset has shut its socket, of the pump, which Rack calls every
  frame, and of the end of a reset. Clients, the clock and users owe nothing.
* `Sessions`: weak fairness of the threads: reaping, joining, flushing, the exit of
  a reader that is overdue or shut down, of a writer woken by its queue, and of a
  blocked `send` once its socket is closed. Of the peer nothing is assumed: a `send`
  to a peer that does not read may block for good.
* `Pairing`: the threads run, and the server tries again. Resets, crashes and losses
  of power are unfair, and bounded by the number of secrets and launches.

* `BridgeClient`: timers fire and settled promises resume. The peer owes nothing.
* `Connection`: coroutines resume, and every request is settled in the end, which
  is `PromisesSettle` of the client. Instances and callers owe nothing.

## Disagreements

Each property below is taken from a comment or a document of the repository, and
the model has a behaviour without it. The first is a bug of the code and has a
run. The others are kept as definitions: with the definition added to the
configuration of the module's passing run, TLC prints the behaviour (`SaveGoesHome`
needs `MaxGeneration = 2`).

| Property | Of | What happens |
|---|---|---|
| `NothingLostUncopied` | `Confirmations` (run `recovery_gap`) | an edit between the recovery copy and the load is in no copy |
| `SaveGoesHome` | `PatchEpoch` | after a failed load, an emptied rack keeps the path of the file it no longer holds |
| `SelectsWhatWasAsked` | `Pairing` | a reused port can leave another instance selected than the one asked for |
| `MutationRunsUnderHeldLease` | `CommandPath` | "Mutating work must never run on a lease the caller no longer holds" (`CommandPump.cpp:62`): the lease can end between the check at line 59 and the execution at line 92 |
| `FlaggedNotRerun` | `OperationCache` | a retry after "the change may already have landed" (`troubleshooting.md:12`) is executed again, except for `txn.commit`: only `handleTxnCommit` remembers such failures (`Handlers.cpp:333`) |
| `EvictsLeastRecentlyUsed` | `OperationCache` | ADR-0001 calls the cache LRU; `recordOperation` erases the oldest entry, and a replay does not make an entry younger |
| `FramesReachOwnPeer` | `Sessions` | a writer that loaded a handle (`tcp.cpp:166`) before the close can write to the next connection |
| `DiffersMeansChanged` | `Transaction` | a rollback re-creates a removed module at the end of the engine's list, which the fingerprint follows (`Snapshot.cpp:266`), so a complete rollback is reported as indeterminate |
| `BridgeAfterReplacement` | `PatchEpoch` | a clear that throws (`PatchFiles.cpp:439-452`) restores no Bridge module, and a load or clear goes on without one that cannot be made (`PatchFiles.cpp:50-63`) |
| `GrowthIsEditing` | `PatchEpoch` | a patch opened and edited between two polls is not noticed (`PatchFiles.cpp:150`) |
| `ReportedMeansSwapped` | `PatchEpoch` | undoing can look like a replacement (`PatchFiles.cpp:158`) |
| `OnePairingSecret` | `Pairing` | two processes over one directory can hold different secrets (`secret.cpp:217`, `resetPairing`) |
| `OneConfirmationOneCommit` | `Confirmations` | one previewed plan can be committed twice: it is dropped after the answer (`transactions.ts:266`) |
| `NeverRefusesWhatCommits` | `PlanPreview` (run `workbench`) | "A preview must never reject a plan that would have committed" (`validate.cpp:211`): after a `force` move the preview keeps the neighbours in the boxes they were pushed out of, and refuses a `fail` move into one that has become free |
| `ClosedIsQuiet` | `BridgeClient` | "teardown handles it" (`client.ts:271`), of the heartbeat whose send fails: an `authResult` and, in the same chunk, a frame that does not decode close the client before `authenticate` goes on, and the interval that it then starts is never cleared |
| `CommitsInPreviewedEpoch` | `Confirmations` | a plan is not bound to the patch epoch it was previewed in (`transactions.ts:8`, `:234`) |

The rest were read in the code, and are excluded by the wording of the properties
or lie outside what the modules hold. A load
or clear that throws what is no `std::exception` passes both handlers
(`PatchFiles.cpp:385`, `:439`) and leaves the epoch as it was
(`LoadThrowsForeign`, `ClearThrowsForeign`; `OwnReplacementsRefuse` does not
count them). A load preview reads whether the patch is saved and its fingerprint in two
requests (`patchfiles.ts:224`, `:228`), so the facts shown may be older than the patch the
token binds; `PreviewLoad` models the latter only.

* After `commit_attach_probe` has committed, the snapshot in which it looks for the
  cable (`telemetry.ts:158`) can fail, and its error does not say that a mutation
  happened.
* A result that is too large becomes an `INTERNAL` error with
  `mutationMayHaveOccurred` false (`server.ts:69`), although `ERROR_DEFAULTS` has it
  true for `INTERNAL`, and `RESULT_TOO_LARGE` exists.
* `detach_probe` reports the cables that its own snapshot saw at the input
  (`telemetry.ts:174`). If the cable is exchanged before the preview, it removes the
  new cable and reports the old one; `telemetry.ts:188` promises "exactly the cable the
  caller named". `attach_probe` looks for the cable it made in the same way.
* `limits.ts:29` bounds "simultaneously attached probe channels"; `telemetry.ts:97` counts
  probe modules, of eight channels each, and only when one is added. Two calls can
  count before either adds.
* The test that a remembered path does not hold the module it would be joined to
  (`analysis.ts:115`) never fails: a module is remembered when it is finished, and is
  never on the stack again (`NeverRepeats`). The comment there expects otherwise.
* `select_rack_instance` and a call that reconnects can meet so that the queued
  reconnect drops the instance just selected (`connection.ts:172`, against the
  comment at 101); the port of a manifest may have gone to another instance, and
  `welcome.instanceId` is not compared (`connection.ts:129`).
* A connect attempt that times out in its handshake leaves its socket open, and an
  event of it disconnects the current client (`connection.ts:124`).
* The pages of one scan of the catalog may come from two instances, if the
  selection changes between them (`resources.ts:61`).
* `AuditLog.sinceCheck` begins at 0 in every process, so short sessions never rotate
  the log; two servers over one directory can rotate a small file over the larger
  generation (`audit.ts:107`).
* The limiter bounds admissions, not applications, and a retry is charged again.

## Proofs

`MutationProofs` has two parts. Of `CommandPath` it proves, for any number of connections, requests, grants,
resets and ticks, and any lease time, deadline and queue capacity (the only
assumption is `PathAssumption`: these are naturals, and the capacity is positive):

* `TypeCorrect`: `Spec => []TypeOK`, and with it `ConsistentCorrect`.
* `AuthedCountCorrect`: the counter is the number of ready sessions.
* `LeaseHolderLiveCorrect`: the lease never outlives its session or its secret.
* `PairedPeersOnly`: no command of a session dropped by a reset mutates the patch
  after it, although the reset leaves the command queue as it is.
* `WriterTenuresCorrect`: `CommandPath` implements `WriterTenure`.

None of the last three is inductive. What a command may do when it runs depends on what
was true when the pump took it, which depends on the lease, which depends on the
session that held it. `IInv` states the chain: connections not accepted yet are
untouched (`FreshConns`); a ready session has authenticated with the current
secret (`ReadyPaired`); nothing is about to be executed while a reset is under
way (`ResetExclusive`); the lease belongs to a ready session
(`LeaseHolderLive`); no mutation and no revocation has a tenure beyond the grants
made, and a held lease is newer than the last revocation (`TenureBounds`); and the
command the pump is about to execute carries a lease newer than the latest
mutation's and than the last reset (`RunningAdmissible`). One lemma per conjunct shows that every action keeps it;
`Invariance` puts them together. The count needs its own lemma
(`ReadyCount`) about the cardinality of a set from which one member leaves or to which one comes.

Of `Transaction` it proves, for any modules given and fresh, any number of transactions and
of settings changed behind Rack's back, any length of plans and of the undo history
(`IdAssumption`: the ids are finitely many and the fresh ones new; `BoundAssumption`: the
bounds are naturals), `TxnConsistentCorrect`, `UnflaggedFailureChangedNothingCorrect` and
`UndoLastRestoresCorrect`. Three steps lead there:

* Edits. `Moves(c, a, d, seen)` says that the edit `a` leads from the contents `c` to `d`:
  its inverse finds what it needs, and gives back what was there. One lemma each shows that
  `Redo` and `Undo` of such an edit do what it says (`RedoMoves`, `UndoMoves`).
  `Leads` is a sequence of them; that `UndoAll` and `RedoAll`, recursive functions over a
  list, go all the way is shown by the library's well-founded induction.
* Operations. The edits of each of the ten operations of a plan form such a sequence from the
  patch it is applied to (`OperationDone`), and keep cables on modules that exist and one to an input.
* Steps. That the recorded edits lead back is not inductive, since it says nothing of the
  pending ones, nor of entries the user has undone and may redo. `TxnInv` says
  that the recorded edits of the open transaction lead from the patch it found to the live one
  and the pending ones on from there (`Transacting`); that the entries of the history, undone
  ones included, lead from one to the next and through the patch (`Known`); and that the
  entry of the transaction remembered as the last leads to the patch remembered (`Remembered`),
  which has its own number (`Numbered`), so that an equal fingerprint means that undoing it restores.

The set `seen` is how much of the patch this is about. A worker thread that sets a
parameter takes the settings out of it, an edit that was lost also the cables; which
modules there are remains, and is what the types of the patch need for the rest of the rollback (`Undoable`).

`SessionsProofs` proves for any number of sessions, handles and calls of `stop()`, any
slot limits and waits (`SessionsAssumption`) `ConsistentCorrect` and
`WritersGetTheirSecondCorrect`. That everything is joined when `stop()` has returned is not
inductive: the invariant says that a session of which a thread or socket is left is in
the map, being reaped or on the list of `stop()` (`InSight`), and what has been emptied by
each point of `stop()` (`Emptied`). That a writer gets its second needs that no wait, of
the reader or of `stop()`, is ahead of the time the queue has been closed (`WaitsSinceClosed`).

`PairingProofs` proves for any processes and ports, any number of secrets, and crashes and
losses of power at any step (`PairingAssumption`) `ConsistentCorrect`,
`AdvertisesTrulyCorrect` and `ServesWhatItWroteCorrect`. The invariant follows each process from
place to place: what it is about to rename is whole and flushed (`Rotation`), the file, if
it is its own, holds the secret it uses or is about to adopt (`OwnFile`), and one thread at
a time writes its manifest, with the port of the listener that is open meanwhile
(`OneWriter`, `TrueManifest`). A step of another process can only take the file away
(`Undisturbed`).

`RequestGuardsProofs` has two parts. For any ids, requests, lifetime and positive capacity
(`CacheAssumption`) it proves `CacheConsistentCorrect` and `RememberedNotRerunCorrect` of
`OperationCache`. A lookup that finds
nothing does not show by itself that nothing is remembered: the invariant `KeepsRecent`
says that a live result followed by fewer than `CacheCap` others is still in the cache. It
holds when the oldest is dropped for room, because if the oldest were that recent there
would have been room (`RoomKeepsRecent`).

Of `PatchEpoch` it proves, for any modules, paths and numbers of actions and epochs
(`EpochAssumption`), `ConsistentCorrect`, `OwnReplacementsRefuseCorrect`, `PollNeverInventsCorrect` and
`UnrelatedPatchNoticedCorrect`. The poll compares a watermark with the patch and the undo
history it finds; the invariant relates the three by what has happened since: nothing
(`Untouched`), edits without undo, past which the history only grows (`Growing`), or a swap
(`Followed`, which also ties the patch a client read to both). The steps of user and plugin
have four shapes, `Edits`, `Swaps`, `Replaces` and `Rearms`, and one lemma each.

`OrchestrationProofs` has two parts. Of `Confirmations` it proves, for any number of calls, operation ids, plans, previews and
checkpoint names (`ConfirmationsAssumption`: the bounds are naturals, and `None` is none
of the values):

* `ConsistentCorrect`: a confirmation replaces the patch once at most, however many calls
  present it, and no written checkpoint is overwritten or removed.
* `ReplacesWhatWasConfirmedCorrect`, `RecoveryCopyHoldsLossCorrect` and
  `CommitsWhatWasPreviewedCorrect`, the three action properties of the run.

A call that stops waiting leaves a request behind that knows what the call knew, so the
invariant is about records, of calls and of requests alike. `Sound` says what a
record in each phase knows of its preview, its checkpoint and the patch; `Distinct` and
`OwnRequests` that no two are of one call or have one name, which is why a copy lands
under no other call's name and an unlink removes no checkpoint; `Asked` that a
request is what its call had come to; `Unused` that a confirmation is live and
unused, or burned for one request and unused until that runs. The operation cache
is no part of the argument.

Of `BridgeClient` it proves, for any set of requests and any number of frames in flight
(`ClientAssumption`: at least one), `BridgeConsistentCorrect` and `CallsSettledOnceCorrect`, the
refinement of `Settlement`. Of a closed client it says that nothing waits, and nothing of its
heartbeat, which may go on (`ClosedIsQuiet`). The invariant accounts for each request: what its
promise holds, its entry, its place on the wire, what the peer owes for it and the
answers on their way determine one another. In particular an answer on its way is of
an executed request, and a request refused is nowhere any more.

`ToolCallsProofs` proves of the limiter and the tool calls that use it, for any limit and
window, and any number of calls, kinds of plan and sizes of entries:

* `LimiterNoBurst`: the admitted changes of the process in a window are among `hits`, which
  the limit bounds, since what was expired lies before every later window.
* `CallsUseLimiter`: the tool calls implement `LimiterSpec`, so that they inherit
  `NoBurst` (`NoBurstCorrect`).
* `AnswersTrulyCorrect`, from an invariant on each call (`Truthful`): what it has been
  checked for by the phase it is in, and that only the last two phases follow an execution.
* `ConsistentCorrect`: with type correctness, that the entries kept are the latest
  ones, in order, across rotations, expiries and restarts (`RecentHistory`), and that no file
  outgrows its limit by more than a check's interval (`LogBounded`). The limiter's bound is not
  part of it, and the operations on files do not fail. The bytes of a file are a function over its lines, so
  `Bytes` is followed line by line, by the library's well-founded induction over the length
  (`Reaches`). `AuditInv` numbers the lines and says that a line that left without expiring
  left behind a rotated file that is full; `Arrivals` bounds the lines by the calls received.

`PatchGraphProofs` proves for every snapshot, of any size and with its cables met in any order:

* `FeedsCorrect`: the search behind the destinations ends with exactly the modules
  that lead into one. What it has visited and has yet to visit covers the
  destinations and the sources of the visited, and lies in every set that does.
* `CyclesCorrect`: Tarjan's search on an explicit stack marks exactly the modules on a loop.
  The findings are not inductive; `Searching` says what the two stacks hold. Both are sorted by the
  first visit (`Stacked`); no cable leads out of the closed components (`ClosedApart`); every open
  module leads to a frame visited before it, and every frame to the open modules visited after it
  (`LeadsBack`, `LeadsOn`); `low` is the visit of an open module that is really reached
  (`LowTrue`), and no later than what the followed cables of a frame, and of the modules that
  are done above it, lead to (`LowEnough`). So a frame whose `low` is its own visit
  leads nowhere below itself, and what lies above it is one component.
* `ChainsCorrect`: with or without feedback in the patch, every path the last loop remembers goes
  along cables, ends at its module and repeats none.
* `NeverRepeats`: no path offered to a frame holds the frame's module. The invariant
  `Paths` has the reason: a path passes finished modules only, and the modules of the
  frames are not finished.
* `PathsCorrect`: the chain for the one destination is such a path, and without feedback none is longer.
  `Lengths` says that the path of a module is longer by one than the longest of its
  sources', and that each source of a frame is yet to come, on the stack above, or no further
  than the best path. Without feedback the loop never skips a cable, as the
  frames lead to one another (`Chained`). That such lengths are those of `Depth` is shown
  over routes, paths that repeat no module: they are finitely many, so one is the longest
  (`LongestIs`), and by well-founded induction all functions that obey the
  equation agree.

A path is stated as the least set closed under sources (`Leads`), which needs no induction
over paths.

`McpServerProofs` has two parts. Of `Connection` it proves, for any instances, calls and
workloads and any number of connections (`ConnectionAssumption`), `ConsistentCorrect` and
`ServesDialledLastCorrect`. `NoOrphans` is not inductive by itself because calls remember
where they sent their last request, and a lease may be noted from that memory later. The
invariant says that each such memory is of the current connection or of a closed one
(`Harmless`, `CallOK`, `Held`), that an attempt that dials is the first of the chain and
there is no current connection meanwhile (`Locked`, `CallOK`), and whose each connection
is (`Owned`). Most steps move one call and leave the connections alone (`Moves`); the
others close connections, and perhaps add one (`ClosesFor`). One lemma shows of each shape that it keeps the
invariant, and one of each action which shape it has.

Of `Workbench` it proves, for any calls, patches to start from, snapshots, catalogs and
numbers of edits, probes and pages, in any order of steps:

* `AnalysisExactCorrect`: the invariant of each loop, and that no step of another part touches
  it. What `Analyse` hands over has its cables between its modules because the patch
  has (`Sound`), through every edit and every commit.
* `ProbesKeepCablesCorrect`. A commit puts in place what the preview computed, operation by
  operation. `Foreseen` says of a planned call that whatever its base has and its result lacks went into
  the input of an operation that may take a cable, which follows from one lemma per operation along the
  `Stages` of the plan; `Shaped` that the plan of a recipe has none
  and that of a probe only its last. All eight recipes are
  covered by their operations (`RecipesPlain`). `Working` is the invariant.
* `PreviewTellsCorrect`, for any snapshot and any plan. While the preview accepts and the
  commit goes on, `Noticed` relates the accumulators to the patch: the modules removed are those
  gone, the others are what they were, the cables that the preview believes kept are there
  still, and all there are unless the plan has plugged some, and a Bridge is left unless the plan let
  the last one go. Cables are believed kept, not known: the preview has no id for a cable that the plan
  makes. Where the preview follows the plan (`Followed`), the patch has the cables believed kept and
  the plan's own (`FollowedCables`), so that refusing and throwing agree. That `top` picks no other of the believed cables than of the real ones needs
  that the newer cables have the higher ids (`Ordered`).

The assumptions: patches have finitely many modules and cables join them (`BasesAssumption`,
`SketchesAssumption`), a recipe asked for is one of the eight (`AsksAssumption`), the ids of a
snapshot are no names a plan gives, and its cables are numbered (`SnapshotsAssumption`).

`Consistent` has `TypeOK` as a conjunct, so `ConsistentCorrect` of each module includes
type correctness. Some proofs needed more of a model than its runs did: bounds on
constants, named in its `ASSUME`, and names for the sets its records are built from.

Model-checked only, and why:

* Liveness (`RequestsResolve`, `ResetCompletes`, `SlotsComeBack`, `StopCompletes`, `RePairs`,
  `PromisesSettle`, `CallsEnd`): out of the prover's reach under fairness.
* `RecipesBuildClean`: it is about the values of eight recipes, and its report folds over the
  modules of the patch; TLC enumerates them all. For values that are fixed in the code a
  theorem would be the same enumeration.
* Everything in the violating run.

## Plan

In order; each item is a module with its runs.

1. Done: `WriterLease`, `WriterTenure`, `CommandPath`, `OperationCache`,
   `Sessions`, `Transaction`, `PatchEpoch`, `Pairing`, `Confirmations`, `Settlement`,
   `BridgeClient`, `Connection`, `RateLimiter`, `AuditLog`, `ToolCalls`, `PatchGraph`,
   `PatchReport`, `Adapters`, `Recipes`, `PlanPreview`, `Workbench`; proofs about every state
   machine, and of every safety property of the runs but `RecipesBuildClean`.
2. `SnapshotBuffer` (`queues.hpp:95-135`): the seqlock at the level of loads,
   stores and fences, 32-bit sequence taken modulo a small number; abstract
   specification: an atomic register.
3. `Rings` (`activitylog.hpp`, chat, notifications), the lease hint of
   `service.hpp:175`, the temporary file of `savePatchAtomic`.
4. Theorems about the tables: that every plan of a recipe succeeds on every sound patch that
   has the models it names.

## Not modelled

* Framing, canonical JSON, cryptography and socket calls: transformations
  of bytes without state of their own. In the models an HMAC matches exactly when
  the keys are equal, and a frame arrives whole, or not at all, or cannot be read.
* Snapshots, schemas, the tutorial, panels and widgets: read-only views and
  declarations. The adapters of eleven models that no recipe uses are data like the others.
* Path policy: rules about strings. The models assume a path that passed them.
* The bodies of the other reads (`query`, `projections`, resources): they change
  nothing. Of `validate_patch` the rules on positions and expanders, which need a layout.
* VCV Rack itself appears only as the plugin uses it.
