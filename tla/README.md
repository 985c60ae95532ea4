# NeoTavern: verification of the kernel, the data root, the plugin host and the chats

This directory holds TLA+ models of the parts of NeoTavern whose correctness depends
on the order of things: threads and callbacks, processes and their messages, crashes,
retries, file operations that are not atomic together.  TLC checks the models on small
instances; TLAPS proves the most important results for every value of the constants.
`PROJECT.json` lists, for each definition, the source lines it stands for.

| Module | What it is |
|---|---|
| `Generation` | the durable generation workflow on the kernel's writer thread |
| `GenerationLedger` | abstract specification: what the workflow promises a caller |
| `GenerationProofs`, `GenerationRunsProofs` | proofs about `Generation`: types, gapless logs, final ends; silence after a cancel, `RunsSound`, the refinement |
| `Restore` | opening a data root, its lease, backup and staged restore |
| `Assets` | the asset store |
| `HostStreams` | event streams that the desktop WebView and the HTTP adapter serve from the log |
| `PluginJobs`, `JobsProofs` | background jobs of a plugin: files, scan, acks, DLQ; proofs |
| `Chats`, `ChatsProofs` | chats and messages of the Node server, and its generation request; proofs |
| `KernelSession` | the RPC session between a plugin and its host: calls and streams |
| `DraftWriter` | text that a plugin streams into a message draft |
| `EventRelay` | event subscriptions over a bounded history |
| `WindowRoles` | the election of the window that does background work |
| `PluginFrames` | sandbox frames of frontend plugins: mounts, crashes, removals |
| `PluginGrants` | grants of a plugin and the services and workers that rest on them |
| `BrokerCalls` | capability calls from a sandboxed worker through the broker |
| `RuntimeService` | the sandbox runtime: server, runtime process, worker supervisor |
| `BackendHost` | backend plugin processes, their lifecycle lock and the governor |
| `RouteStreams` | HTTP routes that a backend plugin answers, streamed bodies |
| `PluginPackages` | install, update, delete, safe mode and restart |
| `NativeProofs` | proofs about `HostStreams`, `Restore` and `Assets` |
| `KernelProofs` | proofs about `KernelSession`, `DraftWriter`, `EventRelay`, `WindowRoles`, `PluginGrants` and `PluginFrames` |
| `ServerProofs` | proofs about `BackendHost`, `RouteStreams` and `PluginPackages` |
| `SandboxProofs` | proofs about `RuntimeService` and `BrokerCalls` |
| `MCGeneration`, `MCNative`, `MCPluginJobs`, `MCChats`, `MCKernel`, `MCFrontend`, `MCRuntime`, `MCServer` | instances for TLC |

## 1. The system and its parts

NeoTavern is a local-first chat front end for language models.  A Rust kernel
(`crates/`) owns a *data root* (SQLite database, assets, backups) and is embedded by
thin adapters (desktop, Android, HTTP, CLI).  A TypeScript server (`apps/server`)
hosts plugins and the older REST API; plugins run in workers (`apps/plugin-runtime`);
`apps/web` is the user interface and `packages/` are shared contracts and SDKs.

### Kernel: generation workflow (`crates/runtime-kernel/src/generation.rs`, `lib.rs`)

*State.*  Durable: `generation_runs` (status, revision, cancel flag, last event
sequence, lease), `generation_events`, `messages`.  Volatile: the command channel, the
streams that wait, the executor's local copy of its row, the notice channels.
*Operations.*  `generation.start`, `retry`, `regenerate`, `cancel`, `keep`, `discard`,
`characters.delete`; `shutdown` when the last handle is dropped; `recover` at open.
*Interaction.*  Callers block on a reply.  One writer thread owns the database.  It
executes a generation inline and serves other commands only in *drains*, from inside
the provider's `emit` callback.  *Hard.*  A drain changes the row under the executor's
local copy; a shutdown or a kill may come between any two commits; leases outlive the
process.  *Correct when* the event log is gapless and closed once, a run delivers its
output once and whole, no output is logged after a cancel, and every caller is answered.

### Storage: data root, lease, restore (`crates/storage/src/open.rs`, `lease.rs`, `restore.rs`, `backup.rs`)

*State.*  The root directory, candidate directories beside it, retained previous
roots, one pending marker, a lock file in each root.  *Operations.*  `open`, close,
`create_backup`, `restore_backup` (stage, check, finalize, activate),
`resolve_pending_restore` within every open.  *Interaction.*  Processes share the file
system and exclude one another by the lock.  *Hard.*  The swap is two renames; `open`
gives up its lease in the middle; the check of a candidate is itself an `open`.
*Correct when* at every instant exactly one verified database would be served next, one
kernel has the root open, and the previous root is there until a kernel is.

### Storage: assets (`crates/storage/src/assets.rs`)

*State.*  Registry rows and files, changed in separate steps.  *Operations.*
`publish_asset`, `delete_asset`, `gc_orphans`.  *Hard.*  A kill between file and row;
a conflict found after the rename.  *Correct when* every row has its bytes and every
file without a row is collected.

### Hosts of the kernel (`crates/adapters/tauri-local`, `remote-http`, `desktop-remote`)

*State.*  One mutex around the kernel handle; per stream a cursor, a mode (live, resumed,
WebView) and a cancellation flag; the count of open streams; pairing credentials; the
running adapter, if any.  *Operations.*  Start or resume a stream, poll and write a page
of the log, abort; pair, revoke, start and stop of the HTTP adapter.  *Interaction.*  Each
stream has a thread that polls through the same mutex as every other call.  *Hard.*  A
start waits for the writer with the mutex held; a client leaves in the middle of a page
and resumes; credentials are revoked and the adapter is stopped under open streams.
*Correct when* a consumer sees the log in order and without a gap, a slot is given back
however a stream ends, a revoked stream ends, and a WebView that goes away does not leave
its run running while the kernel answers.

### Server: plugin jobs (`apps/server/src/plugins/pluginJobs.ts`, `lib/cron.ts`)

*State.*  One JSON file per job.  *Operations.*  `schedule`, `ack`, `retry`, `cancel`,
`remove`, and the scan that a timer starts each second.  *Interaction.*  Each reads a
file, awaits, and writes the whole record back; nothing locks a file.  *Hard.*  Lost
updates, late and repeated acks, a restart between marker and event.  *Correct when*
a job is either delivered, retried or visible in the DLQ, and fires when it is due.

### Server: chats and generation (`apps/server/src/plugins/chats.ts`, `generate.ts`, `packages/db`)

*State.*  Chats with branches, messages with a revision, variants and positions, one
prompt audit per chat.  *Operations.*  Create, edit with an expected revision, swipe,
restore, delete, branch, copy, trash, purge; a generation that builds a prompt, asks the
frontend's interceptors, streams, post-processes and saves.  *Interaction.*  better-sqlite3
is synchronous, so a route that only uses the database is one step; a generation is
suspended at each await and everything else runs in between.  *Hard.*  Whatever a
generation read before its awaits may be stale when it saves.  *Correct when* no edit is
lost, variants fill their positions, counts and audits tell the truth.

### Plugin SDK and web client (`packages/plugin-sdk`, `apps/web/src/plugins`)

*State.*  Pending and remote calls and streams of a session; drafts and their rows;
the event history and the subscriptions; claims of windows; frames, timers and crash
records per plugin; grants, services, connections and workers.  *Interaction.*  Message
ports and a broadcast channel that keep order, HTTP requests that may fail and arrive
all the same, timers, lifecycle hooks.  *Hard.*  A removal that waits while the plugin
list changes; answers and revocations on different connections; throttled windows.
*Correct when* a call ends once, a reader gets what was written, nothing outlives what
it depends on, every removal and every draft ends.

### Plugin host of the server (`apps/server/src/plugin`, `plugins.ts`, `apps/plugin-runtime`)

*State.*  Backend processes by plugin, routes, the governor's ledger; invocations and
stream bodies on both sides of an IPC channel; packages on disk and the registry; for
sandboxed plugins the runtime process, worker records, pending activations and broker
calls.  *Operations.*  Install, update, activate, disable, delete, safe mode; invoke and
stream; spawn, load, terminate; call, answer, revoke.  *Hard.*  Overlapping lifecycle
requests, process exits at any time, outboxes that drop frames when full, deadlines that
race answers, a crash between two renames.  *Correct when* every process, route and
worker has an owner, every request and termination ends, streamed bodies are whole and
bounded, and a package and its registry row change together.

### Not modelled

| Part | State and operations | Why not |
|---|---|---|
| product CRUD (`product.rs`) | tables; create, update, delete, cursor paging | single transactions; the cascade of `characters.delete` is in `Generation` |
| provider registry, provider-sdk, built-in providers | adapters, deadlines, cancel tokens | in `Generation` as what an adapter may do |
| migrations, schema, baseline | ledger of migrations, `user_version` | one transaction per migration over fixed tables |
| snapshots, recovery diagnosis | snapshot files; read-only checks | one file write; the diagnosis only reads |
| export and import (`export.rs`) | containers, id remapping, conflict policies | data conversion in one transaction |
| legacy converter | table-by-table conversion | data conversion; its activation is `Restore`'s |
| contracts-generated | wire checkers | generated code |
| envelope, mobile-ffi, android-jni, cli; rate limit, CORS and audit of remote-http | encoding, handles, token buckets | transport over `Kernel::dispatch`; the desktop service configures no rate limit |
| sandbox document, worker bootstrap, memory host | text of a page; SES hardening; a sequential store | JavaScript semantics outside TLC's reach |
| prompt pipeline | text assembly, token counts | pure text |
| imports, themes, profiles, providers, auth routes | files and tables | single database steps and third-party formats |
| user interface, contracts, android, desktop | components, schemas, platform glue | no state of their own |

## 2. How the modules correspond to the code

**Generation.**  One action is one transaction with the reads before it and the
notices after it; nothing else touches the database, so a crash between two
transactions is a crash before the second.  `Dispatch`, `DropKernel` are the callers'
side; `ServeUnary*`, `ServeShutdown`, `DeferStream`, `TakeStream` are `writer_main` and
`drain_pending`; `StreamStart`, `CasStatus`, `CommitDelta`, `TerminalCommit`,
`CommitShutdownProgress` are the executor's commits; the `Adapter*` actions are what a
provider may do inside `generate`; `Crash`, `LeaseExpires`, `Open` are the process.  A
row is a record with the columns that any guard or property reads; text is the set of
delta sequence numbers it is concatenated from; `regenerate` is `start` on the same
chat.  `*Row` operators are the UPDATE statements.

**GenerationLedger** has one entry per run: open, produce, request cancel, close,
deliver, discard, gone.  `Generation!Ledger` instantiates it with the mapping `Entry`
(phase and outcome from the status, output from the log, delivery from the messages).

**Restore.**  One action is one change of the file system.  A directory is its
database, its ready file, its backups and the holder of its lock; a database is named
by the last backup taken of it, so two databases are equal only when they have the
same content.  A lock stays with the lock file when its directory is renamed.  `host`,
chosen in the initial state from `Hosts`, says what the embedding host does: with `{}` it opens the root after each restore and
starts one kernel while a marker is pending; `"restore_unopened"` and `"open_pending"`
drop these two.  `Acquire`, `Retain` and `Swap` are each used at the two places where
the code calls them; `Fault` stands for every `?` on the path.

**Assets.**  One action is one file operation or one transaction.  Callers may publish
under a key that is registered; `reused` remembers, for the properties only, the keys
whose file such a publish replaced.  A blob stands for content, size and checksum.

**HostStreams.**  A unary call of the kernel is one step (the writer answers it at its next
boundary) that needs the mutex free; a start is `TakeLock` and, when no run executes,
`Launch`, with the mutex held between them.  A worker's round is `Recheck`, `Poll`, for a
resumed stream whose page is empty `Probe` (`run_finished`, under a lock of its own), and
`Write`; a poller's is `LocalCheck`, `LocalPoll` or `LocalPollFails`, `Emit` or `EmitFails`.
`CancelOnce` is a poller's best-effort cancel, which may fail and whose error nobody looks at;
`unheeded` remembers the runs of which a poller's own call failed.  Of a run only its status
and the length of its log are kept.  `DrainTimesOut` is a stop that gives up on busy workers: they
keep their old store and counter.  Old and new adapter share the set `Workers`.

**PluginJobs.**  One action is the code between two awaits.  `files` is the directory;
`calls` are requests that have read and not yet written; `scan` is the scan with the
batch it read.  `Write` remembers in `lost` that the record it replaced is not the one
that was read, and `Unwritten` that a scan published a job and then failed before its write:
the properties of the passing run hold for every job without such a
lost update.  A cron expression
is the set of times it matches.  The clock does not go backwards, and a job's `runAt`
is now or a second later.

**Chats.**  A route that uses only the database is one action.  A generation `gens[g]`
is a record with the place where it is suspended and what it read.  A text is a number;
`ever`, `dropped`, `blind` record, for the properties only, what a message has shown and
what a write replaced.  `Stall` is a client, of the generations in `Slow`, that does not read: the
route waits in `waitForDrain`, after an error event too (`told`), until the client reads
(`Drained`) or its connection closes (`Released`).  `Copied` is the copy of branches and snapshots.

**KernelSession.**  The port is one queue per direction; A calls and writes, B serves
and reads.  Chunk sizes come from `Sizes`, so that a writer meets its credit, its buffer
limit and the total quota.  Every envelope type has its `On...` action.

**DraftWriter.**  Text is its length.  A request that fails at the client stays on its
way and may arrive later.  `SweepRow` is the server's periodic sweep.

**EventRelay.**  What is retained of one event is an interval of sequence numbers;
`OthersRecorded` are events of other names that push it out of the shared history.

**WindowRoles.**  Windows are numbered in the order of their ids.  Claims are on time
except in a throttled window; the channel delivers in order.

**PluginFrames.**  `wanted[p]` is the version in the plugin list (0: disabled), `frames[p]`
the frame with its timers, hook and probe, `left[p]` what the host keeps for it.

**PluginGrants.**  Grants are pairs of plugin and capability.  The server has a set of them,
and so has every plugin object in the browser: `client` is the objects of the frames,
`listed` those of the last plugin list, `upcoming` those that a removal in progress will
mount; `holding` says whose frame has the very object of the list, so that an event which
edits one edits the other.  `Mount` and `FinishUpdate` use an object as it is, however old.
Answers and revocations travel separately, and `RevocationLost` is an event that a broken or
closed event stream did not deliver; `missed` and `overtaken` remember the grants that a
revocation did not reach.

**BrokerCalls.**  Control and data pipes are queues with the code's limits; a frame that
does not fit is dropped, as there.  A streamed answer is `Chunks` parts sent on credit.

**RuntimeService.**  Process generations and activations are numbered.  A frame of the
control channel is lost when the outbox is full.  Continuations that run as microtasks
of one event share its step.  A second deactivate of a worker that is ending is left
out.

**BackendHost.**  One plugin; `queue` is its chain of lifecycle promises and `step` where
the head is.  A process that dies has sent its messages before its exit is seen.  The
CPU watchdog and the usage reports used where /proc is missing are left out.

**RouteStreams.**  Counts are in chunks.  The pipe between host and client is external:
it buffers up to its high-water mark and is destroyed when the client goes away.

**PluginPackages.**  Every file operation of an install, its rollback and a delete is a
step that may fail; the registry is synchronous.  One plugin; a version runs in the host
or, with apiVersion 3, in a worker of the sandbox runtime, and `running` has both places.
`EndBackends` is `deactivate`, which an install calls of the sandbox runtime only when the
*new* version is for it, and which gives up waiting for a worker (`left`, `WorkerEnds`).
`Disable` and `InstallRefused` (a version that is incompatible with the host) deactivate and
write the registry in one step.  The child's `error` event, on which backendHost.ts:126
takes a process for exited, is left out here and in BackendHost.

## 3. What TLC checks

The instances `MCNative`, `MCKernel`, `MCFrontend` and `MCServer` hold several modules
that share no state.  A behaviour runs one of them (`slice`, chosen in `Init`), so the
state space is the sum and not the product of the parts.  Most properties are named
conjunctions; their parts are definitions of the component modules with a comment each.

| Run | Instance | Shows |
|---|---|---|
| `generation_safety` | 2 runs, 1 chat, 2 callers, 4 commands, 1 shutdown, 1 crash, 1 fault, a checkpoint every 2nd delta | type invariant; log gapless; the executor's copy is fresh; `RunsSound`: log closed once, checkpoints, notices match, one message per run, retry chains, no abandoned run, one reply per command; ended runs stay ended; no delta event after a cancel |
| `generation_ledger` | 3 commands, 1 shutdown, 1 crash, no fault, fairness of the writer | `Generation` implements `GenerationLedger`; every caller is answered; every queued run ends |
| `native` | 2 processes, 3 containers, 3 restores, 2 kills, 1 fault under a careful host, 2 restores and 1 kill under any host; 2 asset ids, keys and blobs, 4 calls, 1 kill, 1 fault; 2 workers, 1 poller, 2 credentials, 1 slot, pages of 1 event, 1 run with 2 or 3 upsets or 2 runs with 1 | `RestoreSafety`: kill safety, opens serve what survived, previous root retained, an open leaves no pending activation, one kernel per root, and no lock outlives its process; registered assets intact (but for a reused key), orphans reclaimed; `HostStreamsSound`: no gap, live streams close with the terminal event, slots exact, revocation prompt, a clean stop leaves nothing; `StreamsLetGo`: due streams end, the run of a lost WebView goes on only when the kernel failed its poller |
| `jobs` | 1 job of any kind, interval 2, 2 requests in flight, 1 restart or failing scan; time to 3 with 3 requests and 2 dispatches, to 5 with 2 and 2, to 6 with 1 and 3 | `JobsSound`: DLQ, in-flight marker, no bursts of an interval job, also when its scans come late; `DispatchHeld`: held until the ack, and not for ever; a due job is published |
| `chats` | 2 chats, 4 messages, 2 greetings, 2 branches; 2 generations (the client of one may stop reading) and 1 request, 1 and 2, or 3 requests | `ChatRowsSound`: types and foreign keys, variant positions, counts; `EditsSafe`: no text lost, none replaced unread; audits truthful; generations end, unless a client does not read |
| `kernel` | 2 calls; a stream of 3 chunks of 1 and one of 4, window 4, buffer and total 6, 3 messages in the port; 3 appends; 5 events, history 3, 2 in flight, 1 resume; 3 windows, 4 openings, crashes or stalls | `SessionSound`, `CallsEndOnce`; a commit holds all text unless an append overlapped a flush; `DraftsEnd`; `RelaySound`, delivery restarts; `RolesSettle` |
| `frontend` | 1 plugin, 2 versions, 3 frames, 1 restart; 2 plugins, 5 mounts, lists, grants or revocations, 1 worker allowed, 2 spawns | `FramesSound`, `RemovalsDue`; `GrantsGovern` |
| `runtime` | 1 plugin, 2 activations, 2 processes, 1 shutdown, 1 fault, an outbox of 1 frame | `WorkersTracked`: no unknown worker, index and list agree; `WorkersEnd`: activations are answered, failed workers end, terminated workers are unlisted |
| `server` | 3 lifecycle requests, 2 processes, 3 samples, 1 crash; 1 invocation, bodies of 1 and 6 chunks, window 3, quota 5; 2 package requests, 1 server crash; 2 broker calls, outboxes of 1 | `BackendsAccounted`, `LifecycleDrains`; `StreamsSound`, `StreamsEnd`; `PackagesSafe`; `AnswersSound`, `CallsSettled` |

Properties with an exception name it: `VariantHole` leaves out greetings, `TextKept` what
a late regeneration replaced, `CommitWholeUnlessOverlapped` overlapping appends,
`WorkersReachable` a process forgotten while it was starting, by a shutdown or by the exit
of an earlier one, `FramesSound` a list entry that changed during a removal,
`ClientFollowsServer` a revocation that overtook its answer or missed the plugin object,
`RegisteredIntact` a reused key, `NeverAbandoned` a failed call of the poller,
`GenerationEnds` a client that does not read, `InFlightVisible`, `NoBurst` and
`HeldUntilAck` a lost update (`NoBurst` also retry(), which asks for a run),
`InstallConsistent` overlapping requests, a failure after
the swap, a failed rollback step, a server crash and a worker that was left over,
`KeepsACopy` the first two of these, `SafeModeQuietUnlessRaced` requests in
flight and restarts by a rollback.  Each is among the "Disagreements" below.

*Bounds.*  Every bound is a constant in a guard.  Two runs and two callers are what a
drain needs (one run executing, one command of the other caller, one stream waiting);
two deltas make one checkpoint and a log that goes on after it; one crash and one fault
reach every commit, since they may happen at any step.  Three restores are needed for
two prunes; two kills let a recovery be killed.  Four calls let an asset be published,
deleted, published again and collected.  Jobs meet only in the quota and in the turns
of one scan, so one job with two overlapping requests and the scan has every race on a
file; a budget of one and two dispatches reach the DLQ.

A time of five lets an interval job run twice while requests overlap, one of six lets scans
miss two of its runs.  Three small chunks wait for credit together, so that an end or a
failure finds them queued; the fourth finds the buffer full, waits for a wake-up and
exceeds the total.

Two calls, activations, generations or requests are what any of the races in the
server and the client needs; a body of six chunks passes window, high-water mark and
quota; an outbox of one frame is full while a second is sent; a history of three with
five events loses records; two events before the terminal one let a revoked stream write
one page too many; three windows leave two when the primary dies.

*Deadlock* is checked only for `PluginJobs`, whose clock and requests go on: everywhere
else the system may rest when its users ask nothing and the bounds are used up.

*Fairness.*  `Generation!FairSpec`: weak fairness of the writer thread's steps - the
thread is scheduled and adapters return, which `run_timeout` and the stop status of
`emit` give.  `MCNative`: asset calls in progress go on, time passes, the host runs the
collector; the writer ends its run, and the threads of open streams run.  `PluginJobs!FairSpec`: the timer starts scans, file operations complete, time
passes.  `Chats`: prompts are built, interceptors answer, are cancelled or time out,
provider streams end (they have a timeout), and a closed connection ends the wait for its
client; that a connected client reads is not assumed.  `MCKernel`: ports deliver, timers fire,
requests on their way arrive, the sweep runs, a sandbox acknowledges what it was given.
`MCFrontend`: hooks settle or time out, probes end, deferred removals run.  `MCRuntime`
and `MCServer`: event loops run and channels deliver, timers fire, a process that was
killed is seen to exit; a worker's own code is not fair.  No fairness is assumed of
users, plugins, crashes or faults.

### Disagreements between code and documents

Three have a run that is expected to be violated; the trace is the scenario.

| Run | What happens |
|---|---|
| `cancel_overwritten` | a cancel served in the executor's first drain is overwritten by `preparing`/`streaming`; a provider that then fails ends the run `failed` |
| `restore_concurrent_open` | two kernels resolve one pending activation; one serves an empty database |
| `stream_disconnect` | a client that leaves during a streamed answer: nothing tells the worker, the invocation stays |

The models also contain the following, for which there is no run of its own.  Where a
definition is named, TLC refutes it when it is added to the run of its module:

* a kernel reopened within the lease of its dead predecessor: a cancelled run stays
  `cancelling` until a later open (`CancellingEnds`, generation.rs:1318);
* the second restore and open delete the backups that were in the first root, although
  "user backups are never deleted silently" (`BackupsKept`, restore.rs:209);
* a refused publish under a registered key destroys the registered file
  (`ImmutableAtRest`, assets.rs:112; tests/assets.rs:47 publishes so);
* "`emit` returns `Err` when the consumer is gone; the run is then cancelled durably (never
  silently abandoned mid-flight)" (tauri-local lib.rs:199): the cancel's error is ignored,
  so a cancel whose transaction fails leaves the run going, and it is not repeated
  (lib.rs:325, 387); a page that cannot be read ends the poller without a cancel and tells
  the consumer that the stream is complete (lib.rs:335);
* a request that read a job's file writes it back whole, so it undoes what was written
  between: a cancel (`CancelSticks`, pluginJobs.ts:510), a marker, a count or a next run.
  A scan that fails after its event and before its write publishes the job again;
* "honor backpressure instead of buffering without bound for slow clients" (sse.ts:38):
  the wait has no timeout, so a client that keeps its connection and does not read
  suspends its generation, and the provider's stream, for ever (generate.ts:379);
* greetings are inserted without the variant columns, so the first swipe leaves a
  position out (`VariantHoleAlways`); a regeneration whose target was edited meanwhile
  replaces the edited text without archiving it (`NothingDropped`, generate.ts:438);
* pumpOutbound never subtracts what it sends from the credit, so a producer sends more
  than was granted (`CreditRespected`, session.ts:617 against the file's header);
* text appended while a PATCH is under way is no longer dirty when the PATCH returns; a
  commit then leaves it out (`CommitWhole`, chat.ts:206);
* a cursor taken before the history of an event became empty is accepted although
  events after it were lost (`CursorSound`, events.ts:202);
* a window role manager that stopped with its last session is found again and not
  restarted: its window counts itself as primary beside the real one (`OneBackground`);
* a plugin that is disabled while its removal for an update waits is mounted again
  (`DisabledIsGone`, runtime.ts:1805);
* a removed provider's connections stay, because its registry entries are deleted
  before they are looked up (`NoDanglingConnection`, runtime.ts:743); a revocation that
  overtakes the answer to its consent is not applied (`ClientFollowsServerAlways`); the
  same when it is lost with its event stream, or comes after the plugin list was fetched
  and before the frame is there: the frame is created from the older object
  (runtime.ts:1800, 1874, 598), although "server and browser agree"
  (capabilityBroker.ts:17); the worker ledger is not told of a revocation (`RevokedHasNoWorkers`, workers.ts:77);
* a call whose data frame the outbox refused waits for its deadline
  (`BackpressureFails`, hostForwardingCore.ts:297), and the stream of a call that failed
  stays in the streamer (`StreamsReleased`);
* the exit of a runtime process that a shutdown ended can reset the state of its
  successor (`OldExitHarmless`): the next start sets `shuttingDown` back before that
  exit is seen (vnextRuntime.ts:335, 377).  When the successor was still starting, a
  third process may be started beside it and both become the client in turn, so workers
  of the first are listed that nobody can reach; the proof of `WorkersTracked` showed
  this case, which takes three processes.  A worker that became ready while it was
  terminated counts as a crash (`AckedNotCounted`, supervisor.ts:375);
* a termination that the governor queued behind an update ends the new process
  (`GovernorEndsMeasured`), and the ledger entry of an activation that failed is never
  removed (`PressureClears`);
* a deadline before the stream of a route is announced leaves the worker's pump waiting
  for ever (`FailureStopsPump`);
* the rollback of a failed update starts the old version in safe mode
  (`SafeModeQuiet`, plugins.ts:495), and a request that is in flight when safe mode is
  entered starts its backend afterwards (plugins.ts:447, 767 look at the flag before);
* "atomically replace any previous installation with rollback on failure"
  (plugins.ts:346) does not hold in these cases.  Nothing looks for a package set aside by
  an update that a server crash interrupted (`InstallAtomic`, plugins.ts:411).  A rollback
  step that fails is logged and the next one is tried (plugins.ts:471), and a delete whose
  directory cannot be moved back leaves it aside (plugins.ts:880): package and row
  differ.  Storing the grants may throw after the swap and the registry row are done: the
  catch then puts the old package, if it is still there, under the new row
  (plugins.ts:442, 466).  Requests for one plugin are not serialised: two installs, or an
  install and a delete, that overlap mix their steps;
* an update from apiVersion 3 to 2, or a refused one, leaves the worker of the old version
  running, because the *new* manifest decides whether the sandbox runtime is told
  (plugins.ts:370, 390).  Activating a plugin whose worker still runs is refused as
  `already-active`, which disables the plugin while the worker runs on
  (vnextRuntime.ts:657, plugins.ts:800); a deactivation stops waiting for a worker after a
  while (vnextRuntime.ts:724).  These are the workers `InstallConsistent` calls `left`;
* a cancel and a shutdown in one drain: `commit_shutdown_progress` uses the revision
  from before the drain, loses its compare-and-swap and leaves the lease live
  (generation.rs:1142);
* with a host that restores without opening (`"restore_unopened"`) `KillSafe` fails: a restore repeated after a kill
  checks its candidate with `open`, which resolves the marker of the first restore
  against the candidate's path (backup.rs:504);
* a restore killed after its marker is completed by the next open, as the tests expect;
  two comments of restore.rs (lines 14 and 124) say that it is discarded;
* a resumed stream whose run commits its terminal event between the empty poll and
  `run_finished` is closed without that event (`ClosedIsComplete`, remote-http
  lib.rs:1363);
* `dispatch_stream` waits for the writer with the kernel mutex held, so a second start
  stops every poll, cancel and start of both hosts until the first run ends, although
  the mutex is "never held across a wait" (remote-http lib.rs:1022, 1277);
* `error` and `stream.closed` frames carry the id after the last event: a client that
  resumes from such an id skips an event (lib.rs:1468); the model's client resumes from
  the last event frame;
* a live stream whose run failed and was discarded before its poll, or whose executor
  failed, polls for ever and, as it writes nothing, never notices that its client left:
  it keeps its slot and its worker.  `DueStreamsEnd` leaves such runs out;
* `RemoteAccessService::stop` forgets the adapter also when the shutdown fails: the
  streams it abandoned can no longer be revoked (desktop-remote lib.rs:374);
* a late or repeated failed ack is charged to the dispatch now in flight
  (pluginJobs.ts:488);
* a fire-and-forget cron job without a further match is published at every scan, and
  the jobs behind it wait (pluginJobs.ts:586).

## 4. What is proved

All theorems hold for arbitrary sets of runs, chats, callers, ids, workers, plugins and
so on and for all bounds.  What they assume is named in the component modules and
evaluated by TLC on every run: sizes, windows and limits are numbers, where the code
needs it at least 1; a value that stands for "none" is no member of the set it extends;
names of directories differ (`NamesAssumption`); plugins (`FrameAssumption`) and workers
of the hosts (`HostStreamsAssumption`) are finitely many.  Each proof follows one
pattern: an inductive invariant, one lemma per action (or group of actions that change
the same things), and the step to the property.  What follows says why the property
needs the invariant.

### Generation (`GenerationProofs`, `GenerationRunsProofs`)

* `TypeCorrect`: `Spec => []TypeOK`, inductive as it stands.
* `LogGapless`, `NoCasLost`, `EndIsFinal`: `EventLogGapless`, `CasFresh` and
  `TerminalIsFinal`.  Gaplessness is not inductive: a commit computes the next sequence
  number from the executor's local row, so one has to know that this row is the row of
  the table.  That is `ExecInv`: while the executor is past its first drain, its run
  exists, is active, and the local revision and sequence are the table's; a kernel that
  is down executes nothing.  `LogInv` states gaplessness row by row and says which rows
  have an empty log.  `SafetyInv == TypeOK /\ ExecInv /\ LogInv` is inductive: a drain may
  change the row, but the executor reloads it in the same action before it goes on.
* `SilentAfterCancel`, `RunsAreSound`, `RunsImplementLedger`: every step is of one of a
  few kinds (a row is made, moved, given output, closed, kept, discarded, ...; lemma by
  lemma), and each kind is shown to keep `RunInv` (per run: how status, log, messages,
  checkpoint and retry chain belong together), to be a step of `GenerationLedger` or a
  stutter, and to log no delta behind a cancel flag (`SilentAfterCancel` is about the log's
  delta events: a run whose cancel was overwritten may still complete and insert its
  message).  `ChannelInv` says where a command
  is on its way, which gives one answer per command.

### Desktop and HTTP hosts, data root, assets (`NativeProofs`)

* `HostStreamsAreSound`, `RunsAreNotAbandoned`: `HostInv` relates a worker's place to the
  mutex, to its slot and to how far it has written.  That slots are exact is a statement
  about a count, so it carries the set that is counted.
* `RestoreIsSafe`: `RestoreInv` states for every place of an open or a restore which
  directories hold what (`Shape`, `Resolves`, `Restores`, `Holds`) and that nobody else
  holds a lock there; `Survivor` names the directory that is served next, wherever a kill
  falls between two renames.
* `OpensAreVerified` holds for the careful host (`host = {}`), which opens the root after
  each restore and starts one kernel while a marker is pending; the careful part of the
  invariant says that while a marker is pending all processes but one are idle (`Lone`).  For
  any other host the property is false: run `restore_concurrent_open`.
* `RegistrySound`: `Spec => []RegisteredIntact`.  `StoreInv` adds that keys are unique and
  that the key of a publish in progress is not registered or was reused: then neither the
  rename, nor the undo, nor the removal in `delete_asset` can reach the registered file of
  another key.  For a reused key it is false (`ImmutableAtRest`).

### Plugin SDK and web client (`KernelProofs`)

* `CommitsAreWhole`, `RowsOnlyGrow`: `DraftInv` says that texts grow with their sequence
  numbers, on the wire (`WireInv`) and in the row (`RowInv`), up to the draft's own, so
  the order in which PATCHes arrive does not matter.
* `RelayIsSound`: `RelayInv` says of each subscription that what left the history since
  it started was delivered, evicted or lost, and accounted for (`LeftAccounted`).
* `SessionIsSound`, `CallsSettleOnce`: that the reader has a prefix of what was written
  (`StreamInOrder`) is not inductive, as nothing in it speaks of what is in the port.
  `SessionInv` follows the stream through its places: what A wrote is what it sent and
  what it queues (`Produced`), the chunks in the port continue one another
  (`Travelling`) and start where B expects them (`Contiguous`), B's buffer is what it
  received and has not read (`Consumed`), the port opens a stream once (`Opening`), and
  a disposed side has settled its calls (`DisposeSettles`).
* `GrantsDoGovern`: `GrantInv` adds that an answer under way is of a grant the server
  has, or whose revocation is under way or came first (`ObjectsBacked`), the same of the
  grants in every plugin object that a frame has or may get, and that what
  runs and what is about to run stay together below the quota plus the largest overlap
  so far (`SpawnsCounted`).
* `FramesAreSound`: a crash is counted once because ids of frames differ and no frame has
  the id of a counted crash (`IdsDistinct`); a disabled plugin keeps no frame because
  `Replacements` says what each frame is replaced by: nothing if no removal was started,
  and else what the list wants, unless the entry changed during the removal.
* `RemovalsAreDue`: that only frames which are due go (`OnlyDueRemovals`) needs to know
  what a removal that waits for a hook is about when the hook has ended.  `DeferredDue`
  says that its id was given and that the frame which has it, if it is still there, is
  being removed or has failed.  Every step is then of one kind (`Advances`): a frame
  lasts or was to go, a new one has a new id, and only a frame that is to go is put on
  the list of deferred removals.
* `RolesAreTold`: `ToldItsRole`, inductive with the types: a role depends on the window's
  own manager and claims alone (`RoleIs`), and each action that changes them recomputes
  it or ends the session.

### Plugin host of the server (`ServerProofs`, `SandboxProofs`)

* `BackendsSound`: that no worker is orphaned, that routes belong to a process in the map
  and that the governor watches what runs are not inductive by themselves, because the
  lifecycle lock runs one task at a time and a termination may be decided while an
  activation is under way.  `BackendInv` adds `ChainInv` (the process being ended has
  left the map, the one being started is in it, and the map is empty while the
  activation still resolves its package) and `TerminationQueued` (a decided termination
  waits *behind* the activation under way, so the task that finishes is never the one
  that serves it).
* `StreamsAreSound`: `RouteInv` keeps, per invocation, that a request reaches the worker
  once, that messages of one invocation are in order, that received, travelling and
  unread chunks are the whole stream (`Whole`), and the account of the window
  (`InWindow`): chunks on their way, chunks the pipe has not drained and chunks
  acknowledged without the worker knowing it are together at most what the worker
  counts as in flight.  Sums over the queue of acknowledgements are stated by the
  existence of a function of suffix sums (`Acked`), which needs no recursion.
* `PackagesAreSafe`: `PackagesInv` says that only one request is inside an install, an
  update or a delete (`OneAtATime`) when requests do not overlap, where the version that
  was set aside is (`CopyKept`), and how package, row and backend belong together at
  each place of a request (`AllAgree`).  It names what the request has turned off before
  it moves files (`Idle`: nothing in the host, and no worker but one left over).
* `WorkersAreTracked`: `ServiceInv` adds that the service talks to one process
  (`OneProcess`) and that, unless activations of a plugin overlapped, one of it waits or
  one runs (`OneWorker`).  The first attempt failed on a case TLC's two processes do not have; it
  is listed above, and `startCut` now says which of the two ways of forgetting a process
  that is starting has happened.
* `AnswersAreSound`: `BrokerInv` says that a call on its way is in one place, once
  (`AskedOnce`), that of a waiting streamed answer one part or one credit is under way
  (`OneUnderWay`), which keeps parts in order, and that the first message in the port
  about a call the runtime revoked says that it failed (`CutFirst`).
* `CallsAreFinal`: `CallSettlesOnce`, action by action, from the type of `outcome`.

### Plugin jobs (`JobsProofs`)

* `JobsAreSound`, `DispatchesAreHeld`: `JobsSound` speaks of files, but what the scan and
  the requests have read outlives the files it came from.  `JobsInv` says of the record
  in the scan's hands (`BatchSound`) that unless an update was lost the file still has its
  budget, and that of a fire-and-forget job it is the file; of a request (`CallSound`)
  that it writes what it read with the budget and the run count unchanged; that
  the run count is the number of events, plus the marker whose event is still to come
  (`Counted`); and that the next run is an interval after the last one, except between
  the event and the write that follows it (`Spaced`).

### Chats (`ChatsProofs`)

`ChatRowsAreSound`, `EditsAreSafe` and `AuditsAreTruthful` follow from one invariant,
`ChatsInv`, which joins four:

* `RowsInv`: a message has a chat and a branch there; its variants stand at all positions
  but the active one (`Hole`), unless it was inserted without the variant columns, as a
  greeting is (`unseeded`); a chat that no PATCH has switched counts the messages of its
  active branch; and what a message has ever shown it still has, or dropped (`ever`,
  `dropped`).
  That a swipe and a late reply find their position free, and that their text is
  not lost, is the same fact: the old active position is not taken by a variant.
* `GensInv`: a generation writes to the branch that was active when it started.  Without
  this the count is not inductive: a save adds a row to the generation's branch and
  recounts, which is right only if that branch is still the active one; a PATCH of
  `activeBranchId` makes it another, which is why `CountRight` leaves those chats
  (`switched`) out.  `GensInv` also says that the message a regeneration replaces and
  the text it captured have existed.
* `AuditsInv`: the audit of a chat names a generation that has sent its prompt, in this
  chat if it still runs.  `AuditTruthful` alone is not inductive: a generation
  finishes the audit of its own chat, and nothing in it says that the audit which names
  the generation is that one.
* `EditorInv`: the revision a client has read is not above the row's, and while they are
  equal so are the texts; every write of a text raises the revision.

Each action is shown to move texts only within a row (`Moves`), to keep the rows it
does not write and to add rows that are sound.  What `createSnapshot` copies is ordered
by `InOrder`, a function from ranks to ids.  The theorems assume that `None` is no number,
row or chat (`NoneAssumption`), and of the bounds only that they are numbers.
`MaxTexts` bounds the positions of variants too (`Positions`): `Save` needs a free one,
and as each further position comes with a new text it never lacks one in the runs.

### Only model-checked

All invariants of the passing runs are proved, and so are their action properties and
the safety halves of the properties that join one with a liveness half (`HeldUntilAck`,
`SettlesOnce`, `NoRollback`, `OnlyDueRemovals`, `CallSettlesOnce`, `NeverAbandoned`,
`ToldItsRole`).  Liveness stays with TLC, since the prover has no rules for fairness and
ENABLED: `CallerAnswered`, `EveryRunEnds`, `OrphansReclaimed`, `DueStreamsEnd`,
`NoAckNoBlock`, `DueIsPublished`, `GenerationEnds`, `NoRunaway`, `DraftSwept`,
`DeliveryRestarts`, `OnePrimary`, `RemovalEnds`, `WorkersEnd`, `CallsSettle`,
`LifecycleDrains` and `StreamsEnd`.  So do the runs that expect a violation, and what
recursive definitions compute.

## 5. Plan

Next theorems: the abstract specifications' own safety (what `GenerationLedger` promises
a client, stated on the ledger and carried over by `RunsImplementLedger`), and the
safety that follows from composing components whose invariants are proved (a package
update while its worker streams a body).

Next models: the handles, streams and retries of mobile-ffi and the Android host (a call
repeated after NT_ERR_BUFFER runs its operation again); backup containers against the
asset collector, composing `Assets` and `Restore`; data imports of the server.
