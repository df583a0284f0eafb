# TLA+ models of tokn

tokn is a local LLM gateway. Clients talk to it in one of three protocols (Chat
Completions, Responses, Messages), directly or through a forward proxy that may
open their TLS connections; it picks a provider account from a pool, sends the
request in that provider's own protocol, translates the answer back, streams it,
and records what happened. A gateway is one process with an async runtime and a
handful of OS threads. Its files (credentials, configuration, certificate
authority, SQLite databases, the configuration files of linked agents) are
shared with the commands of `tokn` that run beside it.

This directory holds specifications of the parts whose correctness depends on
order: tasks that interleave, processes that share files, crashes between two
writes, events that come late or not at all. Paths below are relative to `src/`.

1. [Inventory](#1-inventory)
2. [Plan](#2-plan)
3. [Modules and the code they model](#3-modules-and-the-code-they-model)
4. [Runs](#4-runs)
5. [Fairness](#5-fairness)
6. [Proofs](#6-proofs)
7. [Where code and text disagree](#7-where-code-and-text-disagree)
8. [What is not modelled](#8-what-is-not-modelled)

## 1. Inventory

How a request flows:

```
 client --> listener (router/src/server.rs, proxy/) -- ServerDrain, ConnectSession
              |  rules of the listener -- ListenerPolicy; leaf certificate -- LeafCache, ProxyCa
              v
          current generation -- LiveRuntime, Discovery
              v
          PipelineRunner::run_with -- RequestPipeline --------------+
              |  Resolve: v2 selector -- AccountPool                |
              |              `--> AffinityMap -- Affinity           |
              |  Send --> provider; API token -- TokenCache         |
              |              `--> credentials -- AuthStore          |
              |  ConvertResponse: translation -- SseTranslate       |
              |     PipelineStream --> accumulator, tap tasks ------+--> EventBus
              v                                                     |     |
          body to the client                     finalizers --------+     v
                                        dispatcher thread, one worker thread per handler:
                                          requests/<day>.db -- RequestStore
                                          usage.db          -- UsageRecorder
                                          sessions.db       -- SessionRecorder
                                          console           -- Progress
```

Beside it run commands: `config` edits (ConfigEdit), `agent link/sync/unlink`
(AgentMigration), history import (HistoryImport), `migration --rollback`
(SchemaMigrations), `account` commands (AuthStore), prune (RequestStore) and
session playback (SessionRecorder).

| Component | State | Operations | What is hard about it | What makes it correct |
|---|---|---|---|---|
| Session affinity (`crates/accounts/src/affinity.rs`) | a locked map of stamped values, an atomic operation counter | `lookup`, `record`, opportunistic sweep | the lock is released between read and removal; the counter's reset is not atomic with its increment; two expiry ages with exact boundaries | observably a map that expires on time; the counter stays bounded; stale entries go away |
| Account pool (`crates/accounts/src/link/selection.rs`, `crates/router/src/v2/selector.rs`) | per binding: failure count and deadline; a cursor per tier; the affinity map | `acquire_ranked`, `record_success`, `record_failure`; routing passes | decisions on an old snapshot; reports of concurrent requests in any order; queries with different keys share sessions and cursors | nobody uses what its key or route excludes; affinity is earned; deadlines fit the failures; a refusal is justified; every request settles; bindings take turns |
| Request pipeline (`crates/requests/src/pipeline/`, `stages/`) | the attempt under way, the terminal guard, two channels with their tasks, the body | stages, `fail`, retry, hand-off of a stream, polling or dropping it | the caller may be dropped at any await, the client at any poll; tasks record after the fact | one `Completed` for each attempt; no retry of an answer; the record is what the client got; finalizers cover the tail |
| Event bus (`crates/core/src/event.rs`, `crates/gateway-cli/src/server_runtime.rs`) | a broadcast ring, a dispatcher thread, a thread and queue per handler, a finalizer count | `emit`, `begin_finalizer`, `shutdown`, `finish_events` | lag overwrites events, the shutdown event too; handlers are slow or panic | only overwritten events are lost; handlers are independent; `shutdown` drains and comes back |
| Server and drain (`crates/router/src/server.rs`, `crates/gateway-cli/src/cli/serve.rs`) | listeners, connection tasks, the stop signal, the outcome | accept, drain, abort, supervise, flush | one listener fails while others serve; requests that never end; two timers | nothing is emitted behind the shutdown marker; siblings are drained; success means complete; it exits |
| Forward proxy (`crates/router/src/proxy/`) | a connection's task, a channel of one upgrade, the tunnel; the CA files; a cache of leaf certificates | CONNECT, tunnel, intercept, TLS handshake; load or make the CA; sign and cache | a reload or the shutdown signal at each of six waits; signing without the lock; several processes on one CA directory | a CONNECT is run as it was decided; what the target sends arrives; sessions end; one authority; the cache keeps its bound and its fresh leaves |
| Listener rules (`crates/config/src/v2/compile/listeners.rs`, `crates/router/src/v2/mod.rs`) | compiled rules | compile; decide by the first match | the compiler reasons about the text of rules, the proxy about requests | what is refused as unreachable is; what is kept is reached; interception has a CA, a request has its profile's runtime |
| Live runtime and discovery (`crates/router/src/v2/`) | the current generation, model caches, two refresh tasks | reload, refresh, list models | a reload while a fetch or another reload is under way; a dropped request holds a gate | an answered reload stands; results reach the current generation; routing sees the union of what accounts list |
| Request, usage and session handlers (`crates/persistence/src/requests/`, `usage.rs`, `sessions/`) | pending rows by attempt, a cache of open day files, the tree of messages | handle event, archive, prune, playback | lost events, records after `Completed`, failed writes; other processes delete and write the same files | a write that returned is kept; the row has the last figures heard; the head is the newest node |
| History import, schema migrations (`crates/persistence/src/history_import.rs`, `migrate.rs`) | databases, backups, temporary files | import; back up, migrate, roll back | a death between any two file operations; a serving router; two openers | all or nothing; no half file under a name that is opened; the history is somewhere |
| Credential store (`crates/auth/src/store.rs`, `store/lock.rs`), token refresh (`crates/provider-copilot/src/github_copilot.rs`) | a root file, shards and a lock file; a cached token and a refresh lock | load, save, rotate; `ensure_api_token`, `refresh`, `invalidate_api_token` | optimistic validation, several renames, editors without the lock; a time read before a wait | no lost update; the token on disk is the one the provider accepts; one exchange serves all |
| Configuration edits (`crates/config/src/lib.rs`) | a document, its lock file | edit, guarded edit, init | the lock file is replaced; a foreign editor; death while holding the lock | acknowledged edits are in the document; nothing unseen is overwritten |
| Agent migration (`crates/agent-migration/src/`) | manifests, backups, the agent's files, the shard | plan, apply, sync, unlink | ten writes, each of which may be the last; plans made without the lock; token refresh meanwhile | the credentials are always somewhere; edits are kept; an undone link leaves nothing |
| Progress display (`crates/gateway-cli/src/progress.rs`) | bars, pending completions, grace threads, counters | handle event, grace over, flush | three parties may print one line; events are lost | one line, with the usage; a closing line that accounts for all |
| Stream translation (`crates/convert/src/sse/`) | accumulated response, open item, terminal flags | translate an event, finish | a stream may break off, declare its reason early or twice, send parts in pieces | one terminal event, only when complete; items one after another; the stream says what a buffered answer would |
| TypeScript native client (`bindings/typescript/native/`) | a table of active operations, a cancellation with its cleanup for each, a slot per stream | register, cancel, read and close a stream, reload, close the client | the JavaScript thread and the runtime's workers race; the stream is out of its slot while it is read; waiters are woken without a permit | the table has what is going on; a cancelled stream is dropped; `close` comes back, and nothing runs then |
| API surface, access keys, registry and linking, value conversion, viewer, other commands, SDK, desktop app, providers, headers | mostly immutable after start | parsing, translation, I/O | little concurrency of their own | functional correctness, covered by their unit tests |

At shutdown these meet: `serve` joins the listeners (each waits up to 30 s for
its connections, then aborts them), stops the model refresh, and calls
`finish_events`, which waits for the bus for up to five seconds. An aborted
connection is, to the pipeline, a caller dropped at an await or a client that
drops its body; to `ConnectSession` it is the end of the model.

## 2. Plan

The order is that of the harm done when it goes wrong: who is sent where, what
is answered twice, what is recorded, what survives the end of the process, then
the files that processes share.

| Step | Modules | Composes | State |
|---|---|---|---|
| 1 | `AffinityMap` (abstract), `Affinity` | `Affinity` implements `AffinityMap` | checked, proved |
| 2 | `AccountPool` | the abstract affinity map (its map expires on time, which step 1 justifies) | checked; safety proved |
| 3 | `RequestPipeline` | runner, send stages, accumulator and tap tasks | checked; safety proved |
| 4 | `EventBus` | producers with finalizers, as step 3 shows them to behave | checked; safety proved |
| 5 | `ServerDrain` | supervisor, listeners, finalizers of step 3, shutdown of step 4; safety in `History` | checked; safety proved |
| 6 | `ListenerPolicy` | compiler and first-match decision | checked; proved |
| 7 | `RequestStore`, `UsageRecorder`, `SessionRecorder` | fed with the logs step 3 allows, with the losses step 4 allows; composed in `History` | checked; safety proved |
| 8 | `AuthStore`, `TokenCache`, `ConfigEdit`, `AgentMigration`, `ProxyCa` | processes over shared files; composed in `Files` | checked; safety proved |
| 9 | `HistoryImport`, `SchemaMigrations` | with the lock of `RequestStore`; openers of several releases; composed in `History` | checked; safety proved |
| 10 | `LiveRuntime`, `Discovery`, `LeafCache`, `ConnectSession`, `Progress`, `SseTranslate` | the rest of a serving process; composed in `Serving` | checked; safety proved |
| 11 | `NativeClient` | a client inside a JavaScript process; composed in `Serving` | checked; safety proved |

No safety property that a run checks is left to TLC alone; liveness is (section 6
says why).

## 3. Modules and the code they model

Each component has a module with its state, actions, specification and
properties. The first six have an `MC…` module of their own, and all of these but
`ServerDrain` a `…Proofs` module. The others, and the safety of `ServerDrain`, are
put together in `History`, `Files`, `Serving` and `MCLiveness` (section 4). The
first three have parameters like any component, so that `HistoryProofs`,
`FilesProofs` and `ServingProofs` prove about all their instances what
`MCHistory`, `MCFiles` and `MCServing` check of one. A component that is looked at
in more than one setting is instantiated for a record of its constants
(`Session(k)`, `Schema(k)`, `Store(k)`, `Config(k)`, `Ca(k)`, `Native(k)`).

Operators whose comment begins with "Mutant of" (`SweepOffByOne`,
`ChooseSameIndex`, …) are not part of any specification: they are slips in the
definition that follows them, listed in `PROJECT.json`, and show that the properties can fail. Where a module says "external" of a
definition in `PROJECT.json`, it stands for something outside `src/`: SQLite,
the file system, tokio, hyper, the clock, a user.

### AffinityMap and Affinity

`Affinity` models `crates/accounts/src/affinity.rs` at the grain of its lock
sections and atomics. A task in `lookup` or `record` passes through

| `pc[t]` | Step | Code |
|---|---|---|
| `count` | `CountOp` | `fetch_add` in `maybe_sweep_expired` |
| `reset` | `ResetOps` | the store of 0 by the task that reached `gc_every` |
| `sweep` | `Sweep` | the write-locked `retain` |
| `read` | `ReadLocked` | the read-locked look of `lookup`: hit, expired, unknown, or stale |
| `recheck` | `WriteLocked` | the second look under the write lock and the removal |
| `insert` | `Insert` | the write-locked insert of `record` |

Time is a counter; `Tick` may happen between any two steps, and each step reads
the clock inside its section, as the code does. An entry is live below `Ttl`,
reported as expired below `RetainedTtl`, stale from then on.

`AffinityMap` is what callers may rely on: `Lookup` and `Record` are one step
each and stale entries vanish with the tick that makes them stale.
`ImplementsMap` is the refinement, with stale entries hidden by the mapping.

### AccountPool

Requests (`Requests` is a set of slots, reused) share one pool. `Arrive` gives
a request a session, if any, and a query: a sequence of routing passes, each
with the bindings it matches and their ranks; the bindings the API key allows;
whether policy refuses it outright. What matches and how it scores is data the
selector computes from immutable configuration, so it is enumerated, not
computed.

| Action | Code |
|---|---|
| `Snapshot` | `acquire_ranked` collects the cooling bindings. The clock was read by the caller before the lock; `ReadLag` bounds how old that reading may be |
| `UseAffinity` | the affinity lookup: a live binding that is eligible and was not cooling wins over every rank |
| `Choose` | `select_tier`: best rank, `fetch_add` of the tier's cursor modulo the candidates, active before fallback |
| `NextPass`, `TurnAway` | the passes of `select_managed`, `select_relay` and `V2ProxyResolve`; `managed_unavailable_outcome` |
| `RecordSuccess`, `RecordAffinity` | `record_success`: the cooldown is cleared under its lock, then the affinity recorded in a second step |
| `Retry`, `GiveUp` | `record_failure` and the runner's retry or final error; both in one step, as no other state is read in between |
| `RelayStatus` | an error status that a relay passes on |
| `Abandon` | the request is dropped or fails in a way that reports nothing |

`FailureLimit` stands for `u32::MAX`, at which the count saturates, and
`CursorModulus` for `2^64`, at which the cursor wraps. Not modelled: the clamp
of `saturating_instant_add` at the end of the representable time. The
`retry_at` of `PoolAcquire::CoolingDown` is computed by the code and discarded
by its callers, so the model leaves it out. A pool without affinity has
`Sessions = {}`.

### RequestPipeline

One call of `PipelineRunner::run_with`, its attempts, and what it leaves behind.
`pc` is where the caller's future is; every value of it but `idle`, `stream`
and `done` has an await, and `Cancel` may drop the future there, upon which
`AttemptTerminalGuard` completes the attempt (unless it is disarmed or the run
is between attempts). `log[a]` is the history of what attempt `a` emitted.

| Action | Code |
|---|---|
| `Start`, `RetryAfterBackoff` | `run_with`, the head of `run_attempt` |
| `Prepare`, `PrepareFails`, `DryRun`, `Dispatch` | the stages up to Send; `fail` |
| `ProviderFails`, `ErrorStatus`, `ErrorBody`, `Answered` | `DefaultSend`, `ProxySend`: transport errors, an error status and the read of its body, an answer; which of them may be retried |
| `Buffered`, `BufferedFails`, `OpenStream` | the response stages: a whole body, a failed conversion, or the hand-off of a stream to `AccumHelper` and the tap |
| `PollFrame`, `PollPending`, `PollError`, `PollUnconvertible`, `PollRest`, `PollEnd`, `DropBody` | `PipelineStream`: one poll by the client each; a frame becomes zero to two items, and items wait in `pending` |
| `AccumRecv`, `AccumEmit`, `AccumDone` | the accumulator task: gather notes, compute the verdict, emit the epilogue one event at a time, release the finalizer |
| `TapRecv`, `TapDone` | the observer task: usage, parsed output, relay errors |

A frame is one of the few kinds the verdict tells apart; the content of a body
is the sequence of its frames. `call` fixes the client's protocol, the
upstream's, and whether the request is a relay, streams, may be replayed, or is a dry
run. `StreamProgress` events and the length of the back-off are left out. A relay with a status of 400 or more is buffered
(`stages/convert_response/passthrough.rs`), which is the `Answered`, `Buffered`
path. `AccumHelper::spawn` runs before `convert_stream` is awaited; an error
there would complete an attempt twice, but it needs an unresolved endpoint,
which the earlier stages refuse, so the model has no such step.

### EventBus

The broadcast channel is the sequence of all events sent, with a read position
and a `Capacity`: an event is readable until `Capacity` newer ones are behind
it. That is how a tokio broadcast channel behaves for one receiver; the
repository sets the capacity to at least 256.

| Action | Code |
|---|---|
| `BeginFinalizer`, `EmitStream`, `FinishFinalizer` | a stream: `begin_finalizer`, `emit`, then `finish` or drop |
| `EmitPlain` | any other `emit` |
| `Dispatch`, `Lag`, `Drain`, `Join` | the dispatcher of `spawn_event_loop`: receive and pass on, `Lagged`, leave on `Event::Shutdown` (dropping the senders), join the workers and signal |
| `Handle`, `Panic`, `Flush` | a worker thread: handle the next event, die in a handler, or flush when its queue is closed and empty |
| `CallShutdown`, `FinalizersDone`, `SendShutdown`, `Return` | `shutdown`: poll the count, send, await the signal (also when its sender is dropped) |
| `TimeOut` | `finish_events` gives up; only at an await |

`RequestPipeline!FinalizersCoverStream` is what makes a stream here (begin,
emit, finish) a fair picture of the accumulator and tap tasks there.

### ServerDrain

The end of a serving process. A connection is a task with one request;
`fin` is the finalizer of its record.

| Action | Code |
|---|---|
| `Serve` (`Bind`, `Stop`, `Drained`, `GraceExpires`), `AcceptFails` | a listener: `serve_http`, `serve_v2_policy`, `drain_connections` with its grace period, which aborts what is left and waits for it |
| `Accept`, `Request`, `Respond`, `Close`, `Finalize` | a connection, its request and the detached task that finishes the record |
| `Signal`, `Collect`, `Supervised` | `supervise_listeners`: the first reason to stop, the results of the listeners, the outcome |
| `Mark`, `Flushed`, `CleanupTimeout` | `finish_events` with its timeout, over the bus of `EventBus` |

Both timers may fire at any time once started.

### ListenerPolicy

`CompileBinding` and `CompileConnectRule` add one rule or refuse it, for each
of the reasons `compile_listeners` has, `Finish` makes the plan. `HttpMatches`,
`ConnectMatches`, `HttpAction` and `ConnectAction` are what the running proxy
does with it (`router/src/v2/mod.rs`). A host is the sequence of its labels from
the root, so that a subdomain is an extension; a path is a sequence of pieces; a
method is a name and a case. An operation is what the proxy derives from a
method and a path. Parsing of authorities and of paths is left out.

### RequestStore

Day files as inodes, so that a connection to a deleted file is told apart from
one to the file that has its name now; contents are facts (request, table,
event).

| Action | Code |
|---|---|
| `EmitEvent`, `LoseEvent` | the dispatcher hands an event over, or lag overwrote it |
| `Handle` (`OnStarted`, `OnUpdate`, `OnCompleted`, `OnOrphan`, `WriteFails`) | `RequestEventHandler::handle`: take the maintenance lock, route to the request's day, open or reuse a connection, write |
| `ArchiveScan`, `ArchiveStep`, `Cancel` | the archive worker: scan, compress to a temporary file, rename, stop at a cancellation |
| `PruneScan`, `PruneStep` | the prune command of another process: compare digests twice, rename to a quarantine name, delete or restore |
| `ServerCrash`, `PrunerCrash`, `NextDay` | either process dies; midnight |

### UsageRecorder

One row of `usage.db` for each attempt. A record is what its columns were
filled from: the kinds of events, the event its time is of, and which figures it
has. Any event may be lost and any write may fail (`Faulty`).

### SessionRecorder

The live handler and the playback command over `sessions.db`. A message's id
hashes its content and its parent, so an id is a path. The handler gathers
`Started`, `Extract`, `UpstreamBody`, `ConvertedBody` and records at `Completed`;
`prune_stale` is part of the `Started` step, as in the code. `PlayRow` reads a
row and looks for the node, `PlayRecord` records it, with other steps in between.

### HistoryImport

`Load`, `Acquire`, `Prepare` (missing days), `Attach`, `Insert`, `CheckKeys`,
`Commit` or `Rollback`, `Clean` (the `Drop` of `CreatedDays`), `Release`; beside
it `RouterWrite`, `ArchiveDay`, `Restore` and `Crash`. A row is a stable identity
and its other columns. One transaction covers all attached databases and is
atomic over them, which SQLite provides.

### SchemaMigrations

`Open`, `Decide`, `Backup`, `RemoveBak`, `RenameBak`, `Bootstrap` or `Migrate`,
then `Record`s; and the rollback `Rollback`, `RestoreCopy`, `RestoreRemove`,
`RestoreRename`, `RestoreDone`. Each file operation is a step, `Die` may come
between any two and tears the copy under way. The rollback assumes that no other
process has the database open, as its documentation asks.

### AuthStore

A process runs a command: `Start` (with or without the lock), `LoadSource` for
each source, a change (`Upsert`, `Update`, `RemoveAccount`), an `Exchange` of the
refresh token, then a save: `AcquireLock`, `Validate`, `Stage`, `Commit` of one
source after another. `Crash` and `UserEdit` (an editor without the lock) may
come anywhere. A credential is its generation: the provider accepts the last one
it issued.

### TokenCache

`Call` (fast path), `Acquire` (the queue of the lock), `Recheck`, `Exchanged` or
`ExchangeFails`, `Snapshot` (what `refresh` saves), `Cancel`, `Invalidate`, and a
clock. The time a caller compares with is the one it read at `Call`. What runs
without an await takes less than a unit of the clock, an exchange at most
`Delay`.

### ConfigEdit

A document is its schema and the edits it carries. A writer goes through
`OpenLock`, `ValidateLock`, `TryLock`, `Read`, `Verify`, `Commit`; guarded
writers compare with a preimage that they read before the lock. Beside them:
`ExternalWrite` (an editor without the lock), `RemoveLockFile`, `Die`.

### AgentMigration

The largest component. A file is its text and who wrote it; a credential is the
generation of its token. `Plan` reads without the lock; `Begin` checks the plan
under it; then `Backup`, `SaveShard`, `ShardMoved`, `Bind`, `Bound`, `WriteFile`
and `Checkpoint` for each file, `Strip`, `Complete`. Unlink: `Resolve`,
`StartUnlink`, `LoadCredentials`, `RestoreCredentials`, `HandedOff`,
`RestoreFile`, `RestoreShard`, `Unbind`, `Unlinked`. `EditConfig`, `Login`,
`Refresh` and `Crash` come anywhere. An unlink walks the chain of manifests from the
newest to the oldest for the files and the bindings and back for the marks; `do`
is what it does next and `at` at which manifest. A comparison and the write it guards are one
step (the window is the one `ConfigEdit` examines), and a manifest is written
whole.

### ProxyCa

`Look`, `LookKey`, `ReadCrt`, `ReadKey`, or `WriteCrt` and `WriteKey`, each write
a truncation and the bytes; `EnsureBundle`; `Die`. A file is the process that
made it.

### LiveRuntime

A generation has a number, the version of the files it was built from and the
catalogue its caches know. Reload: `AskReload`, `Lock`, `Load`, `Build`,
`Replace`, `Answer`; `Disconnect` drops the administrator's request at one of its
awaits, with the lock if it holds it. The two refresh tasks: `CatalogueTick`, `Publish`, `ApplyCatalogue`,
`LookupLatest`; `UpstreamTick`, `UpstreamChanged`, `UpstreamLookup`,
`UpstreamRefreshed`.

### Discovery

A refresher holds the gate and asks at most `REFRESH_CONCURRENCY` accounts at a
time (`Ask`, `Answered`, `Failed`); a listing that finds the gate taken answers
from what is known. `publish_upstream` is part of `Answered`. `Refreshed`
ends a refresh, for a listing also by its timeout; `Dropped` is a future that is
dropped, with the gate if it holds it.

### LeafCache

`Begin` reads the clock, `Look` looks under the lock, `Sign` signs without it,
`Store` takes it again: hit, expiry, eviction and insertion in one step.

### ConnectSession

One client connection of the proxy. `World`: `Reload`, `Shutdown`,
`TargetSends`, a broken socket. `Http`: a request arrives, is admitted,
authenticated and decided (`Authenticated`), prepared (`Prepared` dials or makes
a certificate), put into the channel (`Send`), answered. `Session`: `Recv`,
`Upgraded`, `Pump`, `TunnelEnds`, `HandshakeDone`, `HandshakeTimeout`,
`InnerArrive`, `InnerDispatched`, and the ways each wait looks at the shutdown
signal (`Notice`, `GiveUp`, `InnerNotice`). `Route` says how the upstream is
reached; the dialogue with an outbound proxy is one step, of which only what it
reads ahead matters.

### Progress

The event handler, the grace threads (`GraceOver`), the handler's own printing
after the lock was released (`FinishWaiting`), and `flush` in three parts
(`FlushBars`, `FlushOne`, `FlushSummary`). A line is its kind and the facts that
were merged into it; colours, widths and rates are left out.

### SseTranslate

The provider sends a response in pieces: `OpenPart`, `SendPiece`, `ClosePart`,
`Declare` (a reason), `SendUsage`, `MessageStop`, `Done`, `BadEvent`, `Eof`. Each
is decoded to deltas as the endpoint's decoder does, accumulated, and emitted for
the target; all six pairs of endpoints. A piece of text is a number. The two
events that open an item are one, and so are those that close it. A chunk of
several deltas is taken as several events.

### NativeClient

The operations of a client of the TypeScript binding. `Register` and `Insert`
are the two looks of `ClientState::register`; `Answer`, `Open`, `BeginReload` and
`EndReload` what becomes of a request, a stream or a reload. `cancel()` is
`SetReason` (the compare-and-exchange, by the caller, a reader, `close` of the
stream or of the client), then `TakeCleanup`, `NotifyWaiters` and `RunCleanup`.
`cancelled()` is `Arm` (a `Notified` is made), `Park` (the reason is read) and
`Wake`; the other arm of a biased select is polled only by a task that is
parked. `CallNext` to `ReturnExhausted` are a call of `next()`, `CallClose` and
`CloseStream` one of `close()`, also by the object's destructor; `BeginClose` to
`Drained` are the client's. Taking the lock of `next` and taking the stream out
are one step, and so are the check and the store of `set_cleanup` and of the
put-back, which each hold the lock the other side needs.

## 4. Runs

| Run | Config | Checks | Distinct states |
|---|---|---|---|
| `affinity` | `MCAffinity.cfg` | `OpsBounded`, `ImplementsMap`, `StaleSwept` | 0.56 M |
| `pool_routing` | `MCAccountPool.cfg` | `RoutingSafe`, `CooldownBounded`, `FailureNeverShortens` | 3.5 M |
| `pool_shared_cursor` | `MCAccountPoolSharedCursor.cfg` | `RoundRobinRetained` is violated | |
| `pipeline` | `MCRequestPipeline.cfg` | `AttemptsSound`, `RecordIsWhole`, `StreamVerdictExact`, `FinalizersCoverStream` | 2.1 M |
| `pipeline_translated` | `MCRequestPipelineTranslated.cfg` | `CompleteStreamSucceeds` is violated | |
| `event_bus` | `MCEventBus.cfg` | `DeliverySound`, `ShutdownSound`, `ShutdownReturns` | 1.9 M |
| `server_drain` | `MCServerDrain.cfg` | `Terminates` | 22 k |
| `listener_policy` | `MCListenerPolicy.cfg` | `RefusalSound`, `PlanSound` | 0.72 M |
| `history` | `MCHistory.cfg` | `WritesKept`, `UsageRecorded`, `SessionTreeSound`, `ImportAtomic`, `MigrationsSafe`, `DrainSafe`, `CopiesFaithful` | 2.2 M |
| `files` | `MCFiles.cfg` | `CredentialsKept`, `TokenUsable`, `EditsSerial`, `AgentRecoverable`, `AuthorityAgreed`, `NoBlindWrite` | 1.9 M |
| `serving` | `MCServing.cfg` | `ReloadStands`, `CachesSound`, `ConnectSound`, `ProgressExact`, `TranslationFaithful`, `NativeClientQuiet`, `NothingTakenBack` | 2.6 M |
| `liveness` | `MCLiveness.cfg` | `EveryoneAnswered`, `RoundRobinRetained`, `ReloadSettles`, `SessionsEnd` | 58 k |

Each takes from seconds to about four minutes with two workers.

**Properties and their parts.** A property of a run is a conjunction of
invariants (or step predicates) that the modules define and comment one by one;
each part has its own mutated definition in `PROJECT.json`, so that no part is
carried by another:

| Property | Parts |
|---|---|
| `RoutingSafe` | `TypeOK`, `SelectionAllowed`, `AffinityEarned`, `RefusalJustified` |
| `AttemptsSound` | `TypeOK`, `OneTerminalEvent`, `RetryOnlyUnanswered` |
| `DeliverySound`, `ShutdownSound` | `TypeOK`, `NothingSkipped`, `HandlersIndependent`; `ShutdownDrains`, `OpenStreamsRecorded` |
| `DrainSafe` | `TypeOK`, `NothingAfterMark`, `SiblingsDrained`, `SuccessIsComplete` |
| `RefusalSound`, `PlanSound` | `HttpRefusalSound`, `ConnectRefusalSound`; `TypeOK`, `ConnectReachable`, `NoAlternativeRedundant`, `InterceptHasCa`, `ProfileBuilt` |
| `WritesKept` | `RequestStore`: `NothingLost`, `OneDayPerRequest`, `CacheBounded` |
| `UsageRecorded` | `UsageRecorder`: `RowCurrent`, `RowWritten`, `ForgottenWithUsage` |
| `SessionTreeSound` | `SessionRecorder`: `HeadIsNewest`, `ThreadSpansNodes`, `TreeWhole`, `SuccessRecorded` |
| `ImportAtomic` | `HistoryImport`: `AckedKept`, `AllOrNothing`, `OneRowPerKey`, `NoEmptyDay`, `NoFileBesideArchive` |
| `MigrationsSafe` | `SchemaMigrations`: `WholeFiles`, `OriginalKept`, `AppliedOnce` |
| `CopiesFaithful` | steps: `RequestStore!ArchiveCopies`, `SchemaMigrations!BackupIsPreSequence` |
| `CredentialsKept` | `AuthStore`: `RotationKept`, `UniqueAccounts` |
| `TokenUsable` | `TokenCache`: `ExchangeNeeded`, `HandedOutUnexpired`, `SavedPairMatches` |
| `EditsSerial` | `ConfigEdit`: `OneWriterInside`, `NoLostEdit` |
| `AgentRecoverable` | `AgentMigration`: `CredentialHeld`, `LiveCredentialHeld`, `EditsKept`, `NoTraceLeft`, `OneChain` |
| `AuthorityAgreed` | `ProxyCa`: `OneAuthority`, `DeathRepaired`, `PairMatches` |
| `NoBlindWrite` | steps: `AuthStore!NoLostUpdate`, `ConfigEdit!SchemaFixed`, `!MissingNeverClobbers`, `!LostOnlyInWindow` |
| `ReloadStands` | `LiveRuntime`: `AnswerStands`, `ServedAsStarted` |
| `CachesSound` | `Discovery!PublishedIsUnion`, `LeafCache!Bounded` |
| `ConnectSound` | `ConnectSession`: `SendNeverBlocks`, `OneGeneration`, `InnerIsCurrent`, `TunnelOpaque` |
| `ProgressExact` | `Progress`: `OneLine`, `SummaryComplete`, `FooterDrift`, `LineCarriesUsage` |
| `TranslationFaithful` | `SseTranslate`: `ItemsSequential`, `OneTerminal`, `NotCompletedEarly`, `VerdictCarried`, `StreamAgrees` |
| `NativeClientQuiet` | `NativeClient`: `GuardsExact`, `ClosedIsQuiet`, `CancelledNotKept` |
| `NothingTakenBack` | steps: `Discovery!OnceListedStaysListed`, `LeafCache!ReturnsValid`, `!FreshKept`, `ConnectSession!EndsIdle` |
| `EveryoneAnswered` | `EveryAttemptEnds`, `RequestSettles`, `CallsEnd`, `EventHandled`, `CompletionPrinted` |
| `ReloadSettles`, `SessionsEnd` | `CatalogueReturns`, `ReloadRefreshed`; `ShutdownEnds`, `HandshakeBounded`, `NativeClient!CloseReturns`, `!ReadInterrupted` |

The type invariants of the instantiated modules are parts of the properties
about them.

**Composed runs.** `history`, `files`, `serving` and `liveness` put several
components together in one module (`History`, `Files`, `Serving`,
`MCLiveness`). These components share no variable, so a behaviour of their
composition is an interleaving of one behaviour of each and a property of one is
decided by its own behaviours. A variable `part`, chosen at the start, says which
of them moves; the others stay at an initial state. The state count is then the
sum of the components' and not their product, and nothing is lost for the
properties, none of which relates two parts. Where one component is looked at in
two settings, these share its variables and differ in constants; the settings
are parameters, records named `Tree` and `Lone`, `Upgrade` and `Race` in `History`,
`Rotation` and `Crashing`, `Locked` and `Outside`, `Authority` and `Renewal` in
`Files`, `Reading` and `Reloading` in `Serving`.

Bounds, and why they are enough:

- **affinity.** Two tasks, because every race is between two of them (one
  between its two looks, the other inserting or sweeping); two sessions, so
  that a sweep removes an entry nobody looks up; ages 1 and 2 with a clock to 3,
  so that every entry can be live, expired, exactly at each boundary, and
  stale; a sweep every second operation, so that both tasks reach the reset.
- **pool_routing.** Two requests of one session whose keys and routes differ,
  one active and one fallback binding, two passes, a relay that is served and
  one that is refused, one retry each. The affinity one request earns is what
  the other must not follow. The clock runs to 1 with a base cooldown and an
  affinity age of 1, so that either can end between a request's snapshot and its
  choice; the exponent is capped at 1 and failures saturate at 2, so that both
  caps are reached.
- **pipeline.** One retry suffices for everything a second attempt can disturb;
  two frames for a frame and a terminal frame in either order, and for items
  still pending when the source ends. The six calls of `EveryCall` cover a
  native and a translated stream, a buffered answer, a relay of a known and of
  an unknown protocol (one replayable, one not) and a dry run; a cancellation
  or a dropped body may happen at every await.
- **event_bus.** Four producers and two slots, so that the channel laps and the
  shutdown event itself can be overwritten; two handlers, so that one may panic
  or lag behind the other. `ShutdownDrains` states the exact condition: with
  `Capacity` or more events emitted after `Event::Shutdown` before it is read,
  its slot is reused, the reply sender in it is dropped, and `shutdown()`
  returns without a drain. In the gateway at least 256 events would have to be
  emitted in that window, after the listeners have been joined. A stream that
  begins between the last look at the count and the send is not waited for;
  `OpenStreamsRecorded` is about those open at the call.
- **server_drain.** An API listener with two connections and a proxy with one:
  one listener can fail with the other busy, and one connection can end while
  the other is aborted.
- **listener_policy.** Up to three rules, because the union check differs from
  the pairwise one from two earlier rules on. Forty-four bindings, the empty one
  included: thirty-two without a host (four sets of paths of which one is under
  the other, four sets of methods, an operation or none) and twelve with one; and
  forty CONNECT rules (ten sets of exact hosts and wildcards, four sets of
  ports). A host one label deeper than a wildcard's base and a port that no rule
  names are requests only, which is what `RichAssumption` asks for (section 6).
  The constraint `Small` (`ByAction` or `ByRule`) lets either the rules or the
  listener's actions vary freely, never both: a rule's reachability does not
  depend on its action.
- **history.** Two requests, two days, a cache of one connection, so that it is
  evicted and reopened; one crash of either process; three files. Two figures of
  usage; a session with two requests of one conversation, and one request over
  several; a capture over one shared database and two days, with a row that was
  already imported, one that collides and one of the router's own; releases with
  one, two and three migrations, and two openers at once. The end of the process
  has the listeners and connections of `server_drain`.
- **files.** Two processes and one account in one of two sources: every lost
  update is between two writers, and the second source is where a crash between
  renames shows. Three callers of a token, so that one holds the lock and two
  wait; a lifetime below and one above the skew. Four writers of the
  configuration. Two commands on an agent with two providers, two plans, one
  edit, one refresh: a link or sync and its unlink, or two racing links. Four
  starts on a CA directory, two of which die.
- **serving.** Two reloads with one edit and one new catalogue; three accounts
  of two providers, two listings and the background task; three hosts for a
  cache of two, one host asked for twice; a connection with two requests, two
  reloads and two bytes of tunnel; two requests with one retry each and two lost
  events; responses of three parts in six events, between all endpoints. A native
  client with a stream that two calls of `next()` read while two of `close()`
  run, and one with two reloads and a request: the two readers contend for a
  stream, the reloads for their lock.
- **liveness.** Smaller instances of the components in which something has to
  happen. Round robin has three bindings with a cursor that wraps at 4, which is
  not a multiple of 3: the wrap may repeat a binding but starves none; no time
  passes and the base back-off is 0, so that every binding is always healthy,
  which is what the property is about.

Symmetry is used for interchangeable requests and processes, in runs that check
no liveness. Deadlock is checked in the pool's and the drain's runs. The other
models may stop: the clock at its bound, a run when it is over, a bus that was
shut down, a process that has ended.

## 5. Fairness

- `Affinity!FairSpec`: a call that was entered runs to its end, since no section
  blocks on another task for long; and requests keep arriving, the "normal
  traffic" the doc comment of the sweep speaks of.
- `AccountPool`: the runtime runs a ready task; a provider call comes back,
  breaks or is dropped. For round robin, requests keep arriving in each slot and
  are not dropped each time before they reach the pool (strong fairness), which
  is the premise of any statement about turns.
- `RequestPipeline`: tasks that are ready run. That a provider answers, or its
  connection breaks, or the caller gives up is an assumption about the
  environment: the gateway's HTTP clients have no total timeout
  (`crates/core/src/util/http.rs`).
- `EventBus!FairSpec`: threads are scheduled, a handler returns or panics, an
  open stream ends. The timeout is not fair: `ShutdownReturns` does not rest on
  it.
- `ServerDrain!FairSpec`: the main task and the listeners run, and their timers
  fire. Nothing is assumed of clients or of finalizers.
- `RequestStore`: the archive worker and the prune command go on (or die); the
  handler gets the maintenance lock if it is free again and again (strong
  fairness), which a blocking `flock` wait gives.
- `TokenCache`: time passes, and a caller whose lock or exchange is there goes on.
- `LiveRuntime`: a reload, a fetch and a refresh end, with or without success.
- `Progress`: a grace thread wakes up, and the handler and `flush` go on.
- `ConnectSession`: the task runs; dialling the upstream and handling a request
  end. The first is an assumption where an outbound proxy is used, as the
  dialogue with it has no time limit (`connect_proxy.rs:89`). Nothing is assumed
  of the client or of the target.
- `NativeClient`: tasks that are ready and calls that have begun go on, and a
  reload, which reads files, ends. Nothing is assumed of an upstream or of a
  caller: a stream that nobody reads does not hold up `close`.

## 6. Proofs

Everything here holds for every value of the constants that satisfies the named
assumptions of the module (`TtlAssumption`, `TierAssumption`,
`CapacityAssumption`, `HistoryAssumption`, `FilesAssumption`, …): any number of
tasks, sessions, bindings, queries, retries, frames, handlers, processes,
accounts, sources, any capacity. The clock bound `MaxTime`, the frame bound
`MaxFrames` and the other bounds on counters are such constants, too. TLC
evaluates each assumption for the instance it checks.

**AffinityProofs.** `TypeCorrect` is inductive as it stands. For `OpsBounded`
each increment that reaches `GcEvery` adds its task to those about to reset and
each reset removes one and sets the counter to 0; the argument is about the
cardinality of that set, which needs the set of tasks to be finite.
`ImplementsMapCorrect` maps every step: `Insert` to `Record`; `ReadLocked` (a
hit, an expired or an unknown answer) and `WriteLocked` to `Lookup`; `Tick` to
the tick that drops what becomes stale; the rest stutter, because a removal of
a stale entry is invisible under the mapping.

**AccountPoolProofs.** `SelectionAllowed` and `RefusalJustified` are not
inductive: the first needs that the pass a request is in exists, the second
that the passes it left behind offered only bindings it saw cooling.
`RequestInv` says this for each request, and `TypeOK /\ RequestInv` is
inductive. `AffinityEarned` and `CooldownBounded` are inductive relative to it;
the latter, and the action property `FailureNeverShortens`, rest on the lemma
that `CooldownDuration` is monotone in the number of failures, at the cap and at
saturation as well.

**RequestPipelineProofs.** `PipelineInv` has four parts: the types; `LogInv`
(attempts to come are empty, those left behind are given up, nobody has
completed the one under way while the runner is at it); `TaskInv` (the two tasks
start together, only after the runner is finished; what the accumulator has
left to emit ends with the completion and has no other); `FinalizersInv` (the
count is the number of tasks not yet done). From it follow `OneTerminalEvent`,
`RetryOnlyUnanswered` and the action property `FinalizersCoverStream`. The
lemmas about concatenation (`WellFormed` of a log extended by records, by a
stage event, by a completion) carry the steps. `RecordIsWhole` relates what the
client received to a record that another task writes later. `RecordInv` accounts
for every item on the way: the notes that wait in the channel take what the
accumulator has gathered to what the stream has received and handed out
(`Counts`, `Tracked`), and `Finish` comes last. For `StreamVerdictExact`,
`VerdictInv` says what the accumulator may have left to emit when what it
gathered is flawed (`Flawed`, `FailedRest`) and when it is not (`OkRest`), and
that nothing before contradicts it.

**EventBusProofs.** `BusInv`: the count is the number of open streams; a worker
that is gone has an empty queue, and no worker outlives the dispatcher's
signal; `Event::Shutdown` is on the channel once, `late` counts what is behind
it, and the dispatcher leaves its loop only for it. `HandlersIndependent` is
inductive relative to it, `ShutdownDrains` follows from it. `NothingSkipped`
needs that the read position is at most one beyond the end (`SkipInv`). `OpenStreamsRecorded` needs
`EarlyInv`: the event of a stream open at the call is before `Event::Shutdown`,
so it was passed on or overwritten.

**ListenerPolicyProofs.** The question is one about the two decision procedures,
not about steps: a rule whose atoms are all covered by earlier rules is matched
by nothing that no earlier rule matches. The lemmas go up one level at a time:
a host pattern that subsumes another matches what it matches (wildcards are
prefixes of label sequences, and being a prefix is transitive); likewise for
paths; a request that a dimension admits has an atom of that dimension such that
whatever covers the atom admits it; hence `CoveredIsUnreachable` for bindings
and for CONNECT rules, and the pairwise check is a special case
(`ShadowedIsCovered`). `IInv` is `Typed`, the rules compiled so far are rules,
and `Sound`, a refusal names a rule that is covered; `RefusalIsSound` follows for
any hosts, paths, ports, methods, operations and any number of rules.

`PlanIsSound` is about the rules that are kept. That a CONNECT rule the compiler
keeps is reached means to exhibit a request that it matches and no earlier rule
does. An atom that no earlier rule covers gives it: a host under the atom's
pattern that no other pattern singles out, and a port. Such a request exists if
hosts and ports are rich enough (`RichAssumption`): some host is under no
pattern, each wildcard's base has a host one label below it that no pattern
names, and there is a port that no rule names. Names and ports are plentiful in
the program; in an instance of few they have to be put there. The other parts
(`NoAlternativeRedundant`, `InterceptHasCa`, `ProfileBuilt`) follow from
`KeptInv`, an invariant on the plan under construction.

**HistoryProofs.** `HistoryInv` has one conjunct per component of `History`, and
`HistoryInvariant` proves it; one theorem per property follows.

- *Day files* (`StoreInv`, for `WritesAreKept`): the maintenance lock is held
  exactly while a worker is at work (`LockHeld`), so that no write of the handler
  comes between two steps of a worker. `Pruning`: from the first comparison to the
  deletion, the archive has what the file under the knife has; deleting the file
  takes nothing away, and restoring it adds nothing. `Archiving`: what the worker is about
  to rename is what its database holds, of a day without an archive. `FilesApart`:
  two days never share an inode. `Routed` is the invariant behind
  `OneDayPerRequest`: what there is of a request without a late record is on one
  day, the one it is pinned to while it lasts, and an event in the handler's hands
  finds it pinned there. The cache's bound is an argument about the sequence `order`
  alone (`WithoutDay`, `OpenDayKeeps`, `CloseDayKeeps`).
- *Usage rows* (`UsageInv`): before an attempt has a row its record has all that was
  heard (`Gathered`), afterwards the row has (`Written`), and a record beside the row
  waits for figures only.
- *Session trees* (`SessionInv(k)`): the pending record of a live request has what was
  heard of it, a stored row has what the request had, and what a playback read
  between its two steps still agrees with the request when it records it; the
  heads, threads and paths are invariants of `record_tree` whoever calls it.
- *Import* (`ImportInv`): `Inserted` says, for each database the transaction is done
  with, that all of the capture is there or about to be and that nothing of it
  collides; `CreatedDays`, that nobody fills a day which the import has created
  while the import may still remove it.
- *Schema* (`SchemaInv(k)`, `UpgradeInv(k)`): every file under a name is a prefix of the
  migrations, whole or torn (`Consistent`), which suffices for `AppliedOnce` with any
  number of openers. With one opener at a time, `UpgradeProc` says for each of its
  steps which of the database, the backup and the two temporary files has the
  history as it was.
- *The end of the process* (`DrainInv`): `Attached` (a live connection's listener has
  not ended, so when all have ended none is left), `Reported` (a listener that
  failed or cut a connection off has made, or will make, the outcome an error) and
  `Recorded` (once the marker is sent no finalizer is active).

`HistoryAssumption` collects the components' assumptions; beyond bounds and types it
asks that `Upgrade` has one process (the exceptions of section 7, items 12 and 13, for openers that
race) and that a capture has one row per identity, which its tables' primary keys
give.

**FilesProofs.** Of `Files`, one theorem per property: `AuthorityIsAgreed`,
`EditsAreSerial`, `TokenIsUsable`, `CredentialsAreKept`, `AgentIsRecoverable` and, of steps,
`NothingIsClobbered`. `PartStep` says that the part that moves takes a step of its
own and the rest stays, so that each invariant is proved of a component in the
setting it needs, whatever the constants of the others.

- *The authority.* With starts one after another (`OneCalls`), a call that is
  under way knows how far it is: `AuthorityProc` relates what it has read or
  written to the two files. `AuthorityFiles` says that there is no key without a
  certificate and that a whole key is its certificate's, so that what a process
  read or made stays what the files hold. `RenewalInv` is the counterpart where
  one start regenerates and none dies.
- *The configuration.* `FlockInv` is the heart: a writer has the lock exactly
  from `TryLock` to its release, on the inode it opened; an inode has one
  holder; and the inode of a writer that got past the second comparison
  (`Entered`) is the one the lock file names. Mutual exclusion follows
  (`OneWriterInside`). `StageInv` says that what a writer has staged has all the
  edits of the document but those that came from outside since it looked, and
  `ExactInv`, where nobody writes without the lock, that it is the document and
  the writer's edit: no edit is lost.
- *The token.* `TokenTyped` (one caller has the lock, the queue has those who
  wait, once each), `QueueInv` (who waits has read the clock no earlier than
  whom it waits for), `CacheInv` (the cached pair is one token's own), `TimeInv`
  (an exchange was needed by the time its caller read, and no reading on which a
  caller may still rely makes a token look fresh that has expired) and
  `SnapshotInv` (between a return and what `refresh` saves no exchange ends).
- *The store.* `StoreInv`: the lock is held by the process that is at a step that
  needs it (`LockOf`), what a process has in memory are accounts of the sources it
  loaded (`MemOf`), the sources that a save under way has yet to write include
  all it changed (`SaveOf`), and no account is in two sources (`Apart`). `RotInv`
  adds, for the commands that lock before they rotate and without edits by hand,
  that a process that saves finds the files as it read them, and that
  the newest token is in a file, or in the memory of the process that rotated it
  and has yet to save it, or lost by its death (`RotOf`, `TokensKept`).
- *The agent* (`AgentInv`, for `AgentIsRecoverable`). The property speaks of the disk at
  every moment, in the middle of a link or an unlink that may never go on, and
  is far from inductive. `LockOk`: a command at work holds the lock, so that one
  step is made at a time though plans are made without it. `LinkOk`: from
  `Backup` on the command's manifest is the latest and says what the plan
  says, which is why the next link, or an unlink, can trust it when the command
  dies. `Returnable` is the heart for the credentials: one the agent lacks was
  imported by the latest manifest and stripped by one that has yet to hand it
  back; `HandoverOk` says that what a link is about to strip is in the shard,
  and `UndoOk` that what an unlink is about to give back is what it read there.
  `TextOk`: the text of the config only grows, so a file that compares equal
  with the plan or a backup carries every edit. `UndoOk` has a conjunct for each
  place of an unlink, up to `Traceless`. `ManifestOk` ties a manifest without
  predecessor to the untouched installation, so that restoring the oldest
  backup leaves no trace. The chain is a recursive function; what is needed of it
  (`WalkFacts`: it descends, each manifest is its successor's `previous`, it ends at
  one without; `ChainsKept`: a write that leaves the `previous` fields alone leaves it as it is)
  follows from the least manifest at which it would fail (`LeastOf`), without
  induction.

`FilesAssumption` names what the two settings of a component must satisfy:
`Rotation` is without `refresh` and edits by hand, `Locked` without foreign
writers, the authority's starts do not overlap. The first and the last are the
exceptions of section 7 (items 7 and 16). What an editor that takes no lock may
lose is in `NoBlindWrite`, which is proved with such editors (`LostOnlyInWindow`).

**ServingProofs.** `ServingInv` has one conjunct per part, and
`ServingInvariant` proves it; `ReloadsStand`, `CachesAreSound`,
`SessionsAreSound`, `ProgressIsExact`, `NativeClientIsQuiet` and, of steps,
`NothingIsTakenBack` follow. The translation has an invariant of its own, for
`TranslationIsFaithful`.

- *Reload* (`LiveInv`): `RequestInv` says that what the holder of the reload lock
  has read is no older than the generation in use nor than what its request saw
  on disk when it was asked.
- *Discovery* (`ModelsInv`): accounts that are asked, or still to be asked, are those
  of the refresher with the gate, at most `REFRESH_CONCURRENCY` at a time; what
  is published for a provider is the union of what is cached for its accounts;
  a listing that was answered has what it listed.
- *Leaf certificates* (`LeafInv`): `EntryInv`, a cached leaf is one that a call has
  signed and returned, to be refreshed from that call's time on; `CacheInv`, the
  bound, which holds with all handshakes at once because eviction and insertion
  are one critical section; and no call in progress is older than `MaxDelay`.
- *A CONNECT session* (`ConnectInv`): `PlaceInv` says in which combinations the
  connection's task, its handler, the channel and the tunnel are; `RequestOk`
  and `UpgradeInv` that the decision each carries is that of the generation that
  authenticated it, with nothing of the target's stream read ahead; `InnerOk`
  that a request inside TLS is run by a generation no older than itself;
  `StreamOk` that the client has got the target's bytes in their order.
  `ServingAssumption` has `Route` direct or SOCKS5, the exception of section 7,
  item 20.
- *Progress* (`BarInv`): `OneLineEach`; `AttemptsInv` (its line is missing as long as
  a bar or a pending completion is there to give it, and where no event was lost
  an attempt that has started has the one or the other); `UsageInv` (usage that
  came while the line was owed is in the state, and in the line); `FlushInv` (what
  each part of `flush` leaves behind); `CountInv` (the counters against the bars
  and, where nothing was lost, against the attempts).
- *The native client* (`NativeInv(n)`, for any setting `n` that satisfies
  `NativeAssumption`): `GuardsExact` needs to know who has a stream:
  `ReaderShape` (a reader has it exactly while it reads or puts it back, and
  nobody has one that is not open) and `OpShape` (which kind of operation is
  where). `CancelledNotKept` needs `CancelShape`: as long as there is a stream to
  drop, its cleanup is stored, or with the cancellation that took it. `Quiet`,
  that after a finished `close()` the table is empty, is inductive because
  `Insert` looks at `closed` again; with `GuardsExact` it gives `ClosedIsQuiet`.
- *The translation* (`SseInv`), where `TranslationIsFaithful` assumes `~Interleaved`,
  the exception of section 7, item 14. `SseLog`: of the events sent so far, the
  emitter's current item is the one added and not done, and the items added are
  as many as those closed and the current one. `SseAgrees`: of each call the
  accumulated name and arguments are in one item, closed or current, and the
  text accumulated is what the closed items say with the current one.
  `SseTurn`: if the provider's open part is a tool call it is the current item,
  and every call accumulated comes before the index the next one will have, so
  that a piece finds its item and a new call finds its index unused. `SseEnd` and
  `SseVerdict` relate the flags, the terminal event, the finish events and the
  reason to what the provider declared. The lemmas go from one event appended to
  the log (`SseAppended`) to one delta (`SseOneDelta`), the end of the stream
  (`SseEnds`) and each action. What the items say (`Said`) is a recursive
  function; that appending an item adds what it says (`SaidAppend`) is shown by
  the least number at which two such functions could differ, as the library's
  rules of induction cannot be instantiated here.

The properties of the runs that are conjunctions (`RoutingSafe`,
`AttemptsSound`, `DeliverySound`, `ShutdownSound`, `DrainSafe`, `RefusalSound`,
`PlanSound` and those of `history`, `files` and `serving`) are theorems that
combine those of their parts.

**Model-checked only.** Liveness is out of the prover's reach, because it needs
fairness and ENABLED: `StaleSwept`, `ShutdownReturns`, `Terminates` and the
properties of `liveness`.

## 7. Where code and text disagree

Two disagreements have runs that show them, the rest was met while the models
were written; the properties that hold are stated with the exception.

1. `README.md:544` says equal-scored healthy accounts "retain round-robin
   behavior". `select_tier` (`selection.rs:260`) indexes the candidates of each
   query with one cursor for the tier. When requests of two kinds alternate,
   one with two candidates and one with one, the first kind always meets the
   same parity and uses the same binding (run `pool_shared_cursor`). With one
   kind of request the statement holds (`RoundRobinRetained` of `liveness`).
2. `AccumHelper` validates the end of a stream against the client's protocol
   (`pipeline/stages.rs:59`, `:112`), while the bytes it gathered are the
   upstream's. A translated stream that ended properly is recorded as failed
   (run `pipeline_translated`); the client is not affected.
3. `StageEvent::Completed` is documented as "emitted once at the end" of a run
   (`core/src/request_event/stage.rs:223`); a retried run emits it once for
   each attempt. `OneTerminalEvent` is the statement that holds. The header of
   `pipeline/mod.rs` (lines 11–12) gives its `success` as `!err.stop`, whereas
   `fail` always reports `false`.
4. `requests/stages.rs:4` promises one row for each attempt. A record that
   arrives after `Completed` pins the request again, under its own time
   (`:174`); past midnight the attempt is in two day files. `OneDayPerRequest`
   excepts these requests.
5. A test (`usage.rs:817`) has usage after `Completed` update the row. That is
   true of the first figures only: once a completed record has seen usage it is
   dropped (`usage.rs:308`), and later figures go to a new record without a
   model, which is neither written nor removed. `RowCurrent` excepts them.
6. Playback promises to leave existing nodes alone without `--force`
   (`cli/sessions.rs:27`). It looks for the node outside the transaction that
   replaces it (`sessions.rs:848`), so a node that a server records in between
   is overwritten.
7. `account refresh`, `list` and `status` exchange refresh tokens before they
   take the lock (`cli/account.rs:278`), although the code is arranged so that a
   "later failure cannot lose a rotated refresh token" (`:311`): a save that
   then fails loses it. `RotationKept` is checked for the commands that lock
   first, and without hand edits, as an edit of the file during a probe makes its
   save fail, too.
8. `model_refresh.rs:110` looks the generation up again because "a reload may
   have replaced the destination caches during the fetch". A generation built
   before the publication and installed after that look still misses the
   catalogue until the next interval. `CatalogueReturns` is the statement that
   holds.
9. An unlink that dies after it restored files cannot be repeated: the retry
   wants the digests the link recorded (`reconcile.rs:1098`), while for the
   binding the same state is treated as idempotent (`:1346`).
10. A link that dies between a write and its checkpoint leaves a file that
    unlink refuses as edited (`reconcile.rs:1107`), while planning advises to run
    unlink (`:971`).
11. A token refreshed between unlink's copy of the shard and its removal is lost
    (`reconcile.rs:1245`), against the comment at `:1081`. `LiveCredentialHeld`
    excepts a refresh while an unlink runs.
12. The backup of a database is renamed "so we never leave a half-written .bak"
    (`migrate.rs:194`), but all openers share one temporary name, so one may
    rename what another has half written. `WholeFiles` is checked with one
    process at a time.
13. Of two openers, the later may back up the database the other has already
    migrated (`migrate.rs:52`), so the backup is not the "pre-sequence state"
    (`:16`).
14. `ResponsesEmitter` closes a tool call when a piece of another arrives; a
    later piece of the first opens a second item without its name
    (`responses_emit.rs:338`), where the buffered response has one call.
    `StreamAgrees` is checked, and proved, without such interleaving.
15. A buffered conversion of a Responses stream that failed, was cancelled or
    was cut reports a stop (`value/responses.rs:289`); the streaming translator
    carries the reason, as its test asserts.
16. Two processes that start on an empty CA directory both make an authority and
    one replaces the other's files (`ca.rs:50`); `README.md:841` has clients
    trust the file. `OneAuthority` is checked for starts that do not overlap.
17. Bars are kept by request and attempt, the bytes streamed are looked up by
    request alone (`progress.rs:537`), so the bar of a retry shows none.
18. The compiler keeps a binding by operation behind one for POST although it can
    never decide (`listeners.rs:92`; the test at `listeners/tests.rs:268`
    expects such bindings to be refused), because it treats method and operation
    as independent. Hence `ConnectReachable` has no counterpart for bindings.
19. "Methods are case-sensitive" (`listeners.rs:731`), but `http_matches` ignores
    case (`router/src/v2/mod.rs:1722`).
20. A tunnel is to be "an opaque byte stream" (`topology.rs:468`). Behind an HTTP
    proxy, bytes read together with its answer are dropped
    (`connect_proxy.rs:87`); behind an HTTPS proxy the TLS session is dropped and
    raw records are copied (`:68`). `TunnelOpaque` is checked for a direct and a
    SOCKS5 route.

## 8. What is not modelled

Hazards met in the code that no property covers:

- a manifest of agent migration is truncated and rewritten in place
  (`manifest.rs:565`): torn writes of it are not modelled;
- the access database is in WAL mode (`access.rs:68`), and a copy of the main
  file misses the log: SQLite's log is not modelled;
- `sessions.last_seen_ts` may move back (`sessions.rs:218`); only the viewer's
  order depends on it;
- a connection that closes without a CONNECT waits until shutdown
  (`v2_transport.rs:66`); `ShutdownEnds` covers only its end;
- an outbound proxy that never answers holds the handler (`connect_proxy.rs:89`);
- a token exchange whose answer comes after its 20 s is lost
  (`management.rs:340`);
- a rollback that died is followed by an opener that starts an empty database,
  whose next upgrade replaces the backup (`migrate.rs:60`); `OriginalKept` excepts
  it;
- regenerating the authority dies between its two files (`ca.rs:51`), and nothing
  compares certificate and key on load; `PairMatches` is checked without deaths;
- tool calls streamed to a Messages client go to a block that was never started
  (`value/messages.rs:309`);
- `config init` creates the document and then saves the accounts
  (`config_cmd.rs:426`).

Parts without a module:

- access keys and the API surface: stateless parsing; a key is created, read or
  revoked by one SQL statement each;
- the legacy pool: legacy configurations are projected onto the v2 pool, and the
  reporting functions of the legacy pool are called by its tests alone; likewise
  the legacy proxy transport;
- registry, inventory and linking, provider and pool compilation: they build
  immutable values, which are the constants of `AccountPool`;
- translation of whole requests and responses field by field: functions over
  large JSON documents;
- the parsing of authorities, paths and headers; the adapters' knowledge of each
  agent's file format;
- OAuth device and browser logins, the history viewer, the archive's progress
  reports, command line parsing and printing, SDK, the other bindings, the
  TypeScript wrapper, its stream of request events and the desktop application:
  I/O and presentation;
- headers, URLs, bodies, log messages and formatting, in all modules.

`PROJECT.json` names the lines of code each definition stands for. They are a
part of the repository only: most of its lines are the parts just listed, tests
and tables.
