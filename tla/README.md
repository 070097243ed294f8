# Specifications of the Ollama server and its companions

The repository holds two programs: `src/ollama`, the model server (Go) with its
desktop application, and `src/WinBridgeAgent`, a Windows agent (C++) that offers
desktop services over HTTP and MCP. These TLA+ modules model stateful parts of them,
those where goroutines, processes, files and time meet:

- the scheduler of the model server, on which everything else in the server depends;
- the llama-server process behind one of the scheduler's runners;
- the download of a blob, which survives its callers and the process;
- the pulls and pushes of models whose tensors are blobs of their own;
- the models on disk, which concurrent requests change without a lock;
- the prefix cache of the MLX runner, a trie over three kinds of layer caches;
- the Windows agent's update of itself, beside the watchdog that restarts it.

Contents: [Inventory](#inventory), [Plan](#plan), [The scheduler](#the-scheduler),
[The llama-server process](#the-llama-server-process), [The download](#the-download),
[The transfer of tensor layers](#the-transfer-of-tensor-layers),
[The models on disk](#the-models-on-disk), [The prefix cache](#the-prefix-cache),
[The agent's update](#the-agents-update), [Runs](#runs), [Bounds](#bounds), [Fairness](#fairness),
[Disagreements](#where-the-code-and-its-documentation-disagree), [Proofs](#proofs),
[Not modelled](#not-modelled), [How to run](#how-to-run).

## Inventory

Each entry: state; operations; who it meets; what is hard; what makes it correct.

**Model scheduler** (`ollama/server/sched.go`). State: the map `loaded` from model
keys to `runnerRef`s under `loadedMu`, `activeLoading`, four channels of capacity
`OLLAMA_MAX_QUEUE`, in each `runnerRef` a mutex, a reference count, a session
duration and an expiry timer. Operations: `GetRunner`, `processPending`,
`processCompleted`, `load`, `useLoadedRunner`, `findRunnerToUnload`,
`evictAllAndWait`, `expireRunner`, `unloadAllRunners`. Meets: HTTP handlers (calls,
two result channels, request contexts), model subprocesses, timers, the signal
handler. Hard: five kinds of goroutines, locks dropped between a check and the use
of what was checked, events that carry no identity, timers that cannot be recalled,
loads that fail half way. Correct if references are counted exactly, nobody's runner
is unloaded, idle runners are, limits hold, no server is lost, requests get an answer.

**HTTP handlers** (`server/routes.go`). Stateless but for the scheduler and the model
directory; `scheduleRunner` waits for a grant, a few handlers expire runners, others
pull, create, copy, delete and list models, `Serve` orders the shutdown. *Modelled as
the scheduler and the model directory see them.*

**llama-server supervision** (`llm/llama_server.go`, `llm/status.go`). State: the
subprocess, its reaper, what its output said (errors, memory), whether the load was
retried, a semaphore of parallel requests. Operations: start, `Load` with one retry
with the projector on the CPU, `WaitUntilRunning`, `Completion`, `Embedding`, `Close`.
Meets: the scheduler (load, close), handlers (requests), the shutdown. Hard: stalls
against slow progress, death of the process at any time, output of one process read
while the next one starts, a close that races with a retry. Correct if a stalled load
ends, the verdict on a process rests on its own output, a closed runner has no process,
every slot comes back. *Modelled.*

**Blob transfer** (`server/download.go`, `server/upload.go`, `x/transfer`). State: a
process-wide map of running transfers with reference counts, parts with their
progress on disk, retries. Hard: several callers share a transfer and give up
independently, a watchdog cancels stalled parts, a crash leaves part files, the
directory of blobs is shared with pruning. Correct if a published blob is complete
and verified, if every waiter is woken, if only the last one to leave cancels. `x/transfer`
is a second implementation for models with tensor layers: no shared transfers, many blobs
at a time under one context, token and set of slots. *`download.go` and `x/transfer` are
modelled, `upload.go` is not.*

**Registry client and blob cache** (`server/internal/cache/blob`,
`server/internal/client`, `server/internal/internal/syncs`). State: blobs and links
on disk, chunked writers, a ticket line. Correct if a link never names a blob that is
missing or partial, and if the line admits in order.

**Models, manifests, layers** (`manifest`, `server/images.go`, `server/create.go`).
State: manifests and blobs on disk, shared by all names. Operations: pull, create, copy,
delete, import from the command line, pruning at the start. Hard: all of them run at
the same time without a lock, each in many file operations, and each decides what to
remove by a pass over manifests that others are writing. Correct if every manifest
that can be read names blobs that are there and are what their digests say.
*Modelled, but for pushing and converting.*

**Model caches** (`server/model_*_cache.go`, `model_recommendations.go`). State: the
list cache behind `/api/tags` (entries, hydrated or not), the show cache, snapshots with
a refresh in flight. Hard: entries made from manifests read earlier. Correct if a quiet
server lists the models there are. *The list cache is modelled.*

**KV cache** (`kvcache`). State: cells with a position and a set of sequences,
recurrent slots and their checkpoints. Hard: eviction under sliding windows, shift,
copy on write. Correct if a sequence sees exactly the positions it stored.

**MLX runner** (`x/mlxrunner`). State: a trie of prompt prefixes with snapshots, one
live path, per layer a cache that may or may not be rewound. Operations: begin, prefill,
decode, speculate, close; split, merge, page out, page in, evict. Hard: layers of
different kinds cannot be restored to the same offset, lazy snapshots name live
buffers, requests end anywhere. Correct if what the layers hold is always the beginning
of the current conversation, and if the bytes paged out are counted exactly.
*The prefix cache is modelled.*

**Desktop application** (`app`). State: the server process it restarts, staged
updates, a SQLite store. Correct if one server runs and a partial download is never
installed.

**Agent** (`WinBridgeAgent/src`, `WinBridgeAgent/updater`). State: MCP sessions, a
per-address request limit, a scheduled shutdown, downloads, the updater and watchdog
processes with the files, mutexes and event they share, the audit log. The policy guard, the licence and the quota of this
edition always allow and keep no state that decides anything. Correct if limits are
enforced at boundaries, sessions are neither leaked nor reused, and an update leaves
a program that starts. *The watchdog and the update are modelled.*

**Data code**: parsers, templates, tokenizers, conversion and file formats, API
translation; pure functions, of which the streaming parsers are candidates for
function-level checks. **User interface**: command line, launchers, windows, tray.

`PROJECT.json` lists all components with their files, and the hazards of those that
are modelled with the line at which each bites.

## Plan

1. `Scheduler`, `SchedulerProps`, `MCScheduler`: the scheduler whole. *Done.*
2. `SchedulerProofs`: all safety invariants of
   the scheduler, the last with the inductive invariants that relate grants, watchers,
   both queues and the map. *Done.*
3. `Download`, `DownloadProps`, `DownloadProofs`: shared downloads, parts, stall
   watchdog, crash and resume. *Done*, all safety properties
   proved. Left: `Upload`, which has the same structure.
4. `ModelStore`, `ModelStoreProps`, `ModelStoreProofs`: pull, create, copy, delete,
   list, import, prune and restart on the directory of models, with the list cache.
   *Done*, with the proofs that manifests stay whole and that lists are exact. Left: the show cache.
5. `LayerCache`, `PrefixCache`, `PrefixCacheProps`, `PrefixCacheProofs`,
   `PrefixContentProofs`, with the abstract specification `Conversation` that
   `PrefixCache` implements. *Done*, all its safety properties and the refinement proved.
6. `LlamaServer`, `LlamaServerProps`, `LlamaServerProofs`: start, load, retry, stall,
   requests and close of one runner. *Done*, all its safety properties proved. Left: the
   composition with `Scheduler`, which sees a server as none, open or closed.
7. `RunnerService`: what a client of the scheduler is promised (a request is queued,
   granted one runner or refused, and released), and `Scheduler` shown to implement
   it under a refinement mapping.
8. `Placement`: the pure functions of `sched.go` that choose GPUs, batch and context
   sizes, checked against what their results must satisfy.
9. `BlobCache`, `TicketLine`: publication of links and blobs, order of admission.
10. `KVCache`, `RecurrentCheckpoints`: cells and slots against the positions each
    sequence stored.
11. `AgentUpdate`, `AgentUpdateProps`, `AgentUpdateProofs`: self-update with its
    watchdog. *Done*, all its safety properties proved. Left: `AgentSessions`, the
    MCP sessions and the scheduled shutdown.

12. `Transfer`, `TensorPull`, `TensorPush`, their composition `TensorTransfer`,
    `TensorTransferProps` and `TensorTransferProofs`: the package `x/transfer`. *Done*,
    all its safety properties proved.
    Left: the composition with `ModelStore`, which knows whole pulls only.

Theorem worth having next, with `Upload`: that the pushes of one blob share one upload.

## The scheduler

`Scheduler.tla` models `server/sched.go` and, from `server/routes.go`, what calls it.
A request inserts at most one runner, so a runner and its subprocess are named by the
request that loaded them (`Runners == Requests`); this makes "another runner of the
same model" (the comparison of pids in `processCompleted`) a comparison of names.

| Variable | In the code |
|---|---|
| `req[r]` | an `LlmRequest` and its handler: where it is in `GetRunner`, whether its context is done, what `successCh` and `errCh` carry, the goroutine that waits for `ctx.Done()`, `oomRetryAttempted` |
| `run[n]` | a `runnerRef`: who holds `refMu` across steps, `refCount` (modulo `RefMod`), `sessionDuration`, `expireTimer`, callbacks and retries under way, the `llm.LlamaServer` |
| `loaded`, `activeLoading` | the fields of `Scheduler` |
| `pendingCh`, `finishedCh`, `expiredCh`, `unloadedCh` | the channels; the last carries nothing and is a count |
| `pend`, `comp` | program counter and locals of the two loops |
| `api` | handlers that expire runners |
| `phase` | the process: serving, cancelled, closing what is loading, what is loaded, exited, crashed |
| `raced` | history: a request was given a runner whose server is closed |

**Grain.** A critical section that cannot block is one step. `loadedMu` is held across
steps by `unloadAllRunners` only. `refMu` is held across steps by the goroutine that
waits until a new server runs, by `processCompleted` while it waits for memory to be
released, and by a sender that finds `expiredCh` full; `run[n].mu` says which. Two
mutexes taken one inside the other, the inner one free, are one step.

**Actions.** `GetRunner`, `HandlerCheck`, `HandlerUse` and `HandlerEnqueue` are the
parts of `GetRunner` between locks; `CtxDone` and `Watch` the end of a request.
`Pend*` is `processPending` with `load`, `updateFreeSpace`, `findRunnerToUnload` and
`evictAllAndWait`; `Loader*` the goroutine that `load` starts; `Comp*` is
`processCompleted`; `TimerFires`, `TimerCallback` and `RetryExpired` are the timers;
`BlockedSend` ends any send that had to wait; `Api*` are `ollama stop` and the
handling of an out-of-memory error; `Signal` to `Exit` and `LoopsStop` the shutdown.

**Abstracted.** Options and pings (`NeedsReload` may always say yes, and no if the
server is open), memory arithmetic (a load may fit, need room or fail), the names that
break ties in the eviction order, the contents of requests and errors.

`SchedulerProps.tla` holds the properties, each with what it says of the code.
`MCScheduler.tla` defines the workloads of the instances.

## The llama-server process

`LlamaServer.tla` models one `llamaServerRunner`: `llm/llama_server.go`,
`llm/status.go`, and how the scheduler uses it (`Load`, then `WaitUntilRunning` once
more, requests, `Close`; at shutdown `Close` at any time). The retry happens at most
once, so there are two processes, 1 and 2.

| Variable | In the code |
|---|---|
| `state`, `pipe` | the processes, and what they printed that was not read yet |
| `reap` | the goroutine of `startProcess`: in `cmd.Wait`, past `ProcessState` while output is still copied, `done` closed |
| `cur` | the process that `cmd`, `port` and `done` belong to |
| `error` | `StatusWriter.lastErrMsg`, as what the code asks of its text: nothing about memory, out of memory, out of memory followed by a recoverable line |
| `seen`, `counted` | `memoryParsingWriter.buffers`, `vramByDevice` |
| `retried`, `projector` | `mmprojOffloadOOMRetried`, whether there is a projector on the GPU |
| `load`, `stage`, `result`, `loop` | where `Load` or the second wait is, its result, and the deadline, activity and last status of the wait loop |
| `comp` | `Completion` and `Embedding` calls, from the semaphore to the end of the stream |
| `closer`, `awaited` | the calls of `Close`, and the process whose `done` each waits for |
| `left` | what remains of the bounds |
| `said`, `mixed`, `overtaken` | history: what each process said of memory; the two races described below |

**Grain.** A step is one look at the process, the map of a health answer to a decision,
one line of output, or one field. That `cmd`, `port` and `done` are assigned is one
step, after the step in which the process starts; `stopProcess` kills in one step and
reads `done` in the next, since the retry may replace it in between.

**Actions.** `Says`, `BecomesReady`, `Dies` are the process; `Copy`, `WaitedFor`,
`CloseDone` its reaper; `BeginWait` to `PollReady` are `WaitUntilRunning`; `Judge` to
`AssignProcess` are `Load` and `retryWithMMProjCPUOffload`; `Stop`, `AwaitExit`,
`Stopped` are `Close`; `Ask` to `Closed` the requests.

**Two races are in the code and are exceptions of the properties.** `mixed`: when the
first process has been waited for, `stopProcess` returns at once although its output is
still being copied, and a late line counts after `resetLoadAccounting`. `overtaken`: a
`Close` concurrent with the retry kills one process and may wait for the other's `done`,
which nobody ends, or return while the next process starts. Also, `resetLoadAccounting`
leaves `memoryParsingWriter.buffers` alone, so that after a retry `vramByDevice` counts
the first process's projector again with the next line (`seen`).

**Abstracted.** `doneErr` (what it says of memory the last error says too), a `Kill`
that fails, the truncation of long errors, reuse of ports, tokens and payloads.

## The download

`Download.tla` models `server/download.go` for one digest, with what `PullModel` does
with the blob (`server/images.go`) and what `PruneLayers` may do to its files at a
restart. Digests do not interact: the shared map and all file names are per digest. A
call creates at most one download, so a download is named by the call.

| Variable | In the code |
|---|---|
| `call[c]` | a `PullModel` call: where it is in `downloadBlob` and `Wait`, the `blobDownload` it holds, whether its client left |
| `stage[d]` | where the creator is in `Prepare`, then where the goroutine of `run` is |
| `dl[d]` | the `blobDownload`: `references`, whether `CancelFunc` is set and was called, `err`, `Parts`, `Completed`; per part its worker, `Completed`, what the attempt received, the try, whether `lastUpdated` is set |
| `manager` | `blobDownloadManager` at this digest |
| `partial`, `partFile`, `blob` | the files `-partial`, `-partial-N` and the blob, block by block |
| `manifest` | a manifest that names the blob was written |
| `faults` | how many faults of each kind happened |

**Grain.** A step is one file operation, one operation on the map, or the arrival of a
block. Writing a part file takes two steps since it is truncated first.

**Actions.** `Begin`, `Join` are `downloadBlob`; `Glob`, `Head`, `CreatePart`,
`EncodePart`, `NewPartFails` are `Prepare`; `Acquire`, `Answered`, `GiveUp`,
`ReportToNobody`, `Panic` are `Wait` with `acquire` and `release`; `Start`, `Direct`,
`AllEnded`, `RemovePartFile`, `Rename`, `Close` are `Run`; the actions on a part are
`downloadChunk` and its retries; `Verify`, `RemoveMismatch`, `Install` are the end of
`PullModel`; `Crash` ends the process at any point and prunes any set of old files.

**Abstracted.** Blocks stand for byte ranges; the registry's redirects and tokens are
one request that works or fails; back-off times are left out. Of the part files read
by `Glob` only the recorded progress differs, since offsets follow from the number.

**A rollback that is not one.** `downloadChunk` copies through a `TeeReader`, so that
`Write` of the part adds what was read to `b.Completed` before the partial file is
written. When that write fails, `CopyN` returns what was written, and "rollback progress"
(`download.go:347`) takes back no more than that: the buffer whose write failed stays
counted. In the model a buffer is one block, and `WriteFails` leaves it counted.

## The transfer of tensor layers

`x/transfer` moves the blobs of models with tensor layers (`pullWithTransfer`,
`pushWithTransfer` in `server/images.go`). `Transfer.tla` has what its two directions
share: a *job* (a pull or a push) has one task per blob, under an `errgroup`, with two
semaphores and a token. `TensorPull.tla` is `download.go`, `TensorPush.tla` is
`upload.go`, and `TensorTransfer.tla` puts both into one server that may be restarted.

| Variable | In the code |
|---|---|
| `job[j]` | a call of `Download` or `Upload`: its blobs, how far it is, whether its context is done, what was there from the start, `progressTracker.completed`, the token and the one that the registry takes |
| `task[w]` | the goroutine of a job for a blob: its step, attempt, bytes reported in it, slot, error, and the token that was refused |
| `fetch[w]` | of `downloadOnce`, `save` and `copy`: `existingSize`, where the body begins, the offset in the file, whether the hash is right so far, the open file, what the watchdog said, `slowRetries` |
| `disk`, `installed` | the `.tmp` file and the file of each blob, unit by unit; the pulls whose manifest is written |
| `send[w]` | of `initUpload`, `putDirect`, `putChunked`: attempts, `lastErr`, units in the storage, the part |
| `registry` | blobs that it has recorded, manifests that it took (another program, it survives) |
| `faults` | how much may still go wrong |
| `noted`, `marked` | history: the exceptions named below |

**Grain.** A step is a request with its answer, an operation on a file, a unit of a body,
or the decision after an attempt. A partial file is opened and hashed in one step.

**Actions.** `Download`, `Settle`, `Wait`, `WriteManifest` are a pull and its attempts;
`Resolve` to `Rename` one attempt, `Watchdog`, `Drain` its stall detection. `Upload`,
`Exists`, `StartUploads`, `UploadsEnd`, `PushManifest` are a push; `InitUpload` and
`InitGivesUp` announce a blob; `Put`, `PutEnds`, `Commit` send it in one piece, `Patch`
to `RetryPart` in parts. `RefreshToken`, `GetToken`, `SemAcquire`, `HoldBody` and
`BackedOff` serve both. Everything that may go wrong in an action of its own (`Break`,
`FallSilent`, `InitFails`, `CommitFails`...) takes one of the `faults`.

**What the properties except is in the code**, and TLC finds a behaviour for each
exception that is left out. `lost`: `copy` drops the result of `dst.Write`, and the hash
is of what was received. `shared`: two pulls of a blob write the same `.tmp` file, remove
it and rename it under each other. `presumed`: when every attempt to announce a blob was
answered with 401 and a new token, `initUpload` returns its zero value without an error,
which means "the server already has the blob". `readOn`: the transport reads on from a
body when its request has been answered, and nobody takes that back. And a pull may wait
for ever on a silent connection: the watchdog cancels a context that the request does not
have, and a body that is given up is read to its end before it is closed.

**Abstracted.** Units stand for bytes, and a part of an upload is one unit. Errors are
told apart as `download` and `upload` do. The rounds of a redirect are one request. The
names in a manifest are a set: a manifest that lists a digest twice is left out.
Writing the manifest is one step (`ModelStore.tla` has the detail). Pushes find their
files whole. Of the contents only matters which unit is where it belongs.

## The models on disk

`ModelStore.tla` models the directory of models: `manifest/`, and what
`server/images.go`, `create.go`, `routes.go` and `cmd/` do to it. None of these
operations takes a lock, so each is a *job* that goes through its file operations one
by one, beside the others. A manifest is the set of its blobs.

| Variable | In the code |
|---|---|
| `manifest`, `folder` | one file per name (absent, torn, or a set of blobs), and the directories that hold them |
| `blobs`, `bad`, `fresh` | the blob files; those whose content is not what the digest says; those younger than `layerPruneGracePeriod` |
| `entries`, `ready` | the list cache: `entries`, `ready` and `hydrateErr` |
| `job`, `at` | what each worker was asked to do and the step it is at |
| `has`, `got` | the layers it counts on; those it downloaded and will verify |
| `scan` | its pass over the manifests: files to read, what was read, what it may remove |
| `adrift` | which of its open files were unlinked under it |
| `left`, `raced`, `calm` | bounds; history: a removal ran beside a job that had yet to write its manifest (`Overlap`); the only job that ran since it began |

**Actions.** `Pull`, `Create`, `Copy`, `Delete`, `List` begin a request and `Import` an
`ollama create` that writes layers itself. `Base`, `Drop`, `Layer`, `Layered`, `Verify`,
`GiveUp` get the layers; `MkdirAll`, `Open`, `Truncate`, `Write` write a manifest (it is
empty between the last two); `Unlink`, `Glob`, `Scan`, `Scanned`, `Remove` are removals
and passes; `Forget`, `Refresh`, `Enter`, `Diff`, `Apply`, `Read`, `Fill`, `Filled` the
list cache. `Age` lets the grace period pass, and `Restart` ends the process at any
point and prunes.

**Abstracted.** A worker downloads a layer in one step (`Download.tla` has the detail).
`Age` forgets all recent blobs at once. Pruning at a restart is one step, as nothing
else runs but imports. A create that replaces several layers makes one pass for all.
Left out: creating from a model that is absent or from uploaded files, temporary files
of new layers, pulls with tensor layers, the canonical spelling of names, uploads of
blobs by clients, the show cache.

## The prefix cache

`LayerCache.tla` models the three kinds of layer caches of `x/mlxrunner/cache`
(append-only, rotating window, recurrent state) with their snapshots;
`PrefixCache.tla` the trie of prompts and the sessions over it (`cache.go`,
`cache_trie.go`) with the pipelines that drive them (`pipeline.go`, `mtp.go`). What a
model computes for a token depends on every token before it, so the content of a slot
*is* the sequence of tokens it was computed from; any mix-up is visible.

| Variable | In the code |
|---|---|
| `cache` | `kvCache`: the trie as the set of its paths, `user` marks, `lastUsed`, the frontier, and per layer its offset, buffer, snapshots on nodes, snapshots of the current schedule and bytes paged out |
| `session` | `cacheSession`: inputs, outputs, restore points still to come |
| `phase`, `left` | where the pipeline is; bounds |

One goroutine runs one request at a time, so the steps are whole operations: `Begin`
(match, page out, rewind, page in, align, evict), `Prefill`, `StartDecode` (attach
snapshots, evict, seed), `Decode`, `Speculate` (write drafts, keep some of them),
`Close` (at any round). What is hard is not their interleaving but their sequence.

`Conversation.tla` is the abstract specification: what the layers hold is the beginning
of the current conversation and grows with it. `PrefixCache` implements it with a
mapping that is defined only if *every* layer holds exactly the same beginning.

The branch of `switchToPath` that frees all layers when they cannot be aligned
(`cache.go:225-240`) is out of reach of the run's instance; a longer one reaches it (see
"Visible in the models"). Eviction does not look at `user`, as in the code. Numbers of
heads, types and strides, and the arithmetic of attention are left out.

## The agent's update

`AgentUpdate.tla` models three Windows programs that meet in files and named kernel
objects only: the agent (`src/main.cpp`, `tray_app.cpp`,
`support/download_manager.cpp`), its watchdog (`src/daemon_main.cpp`) and the updater it
starts (`updater/updater.cpp`).

| Variable | In the code |
|---|---|
| `main[m]` | a process of the program: waiting for the mutex, telling that it did not get it, before and behind `StartDaemonIfNeeded`, in its message loop, leaving |
| `posted[m]` | messages to its window, and `g_running` turned false |
| `asked[m]`, `loading[m]` | "Install now?" boxes; its download: without a known hash, with one, renamed but not compared yet |
| `daemon`, `exitSet`, `enabled` | the watchdog's loop, its exit event, `daemon_enabled` |
| `exe`, `backup`, `dest` | the three files: absent, part of a program (or something else), whole |
| `updater[u]` | the step of each updater: wait, backup, delete, move, rollback, start |
| `left`, `noted` | bounds; history: the exceptions named below |

A handle on a mutex keeps it in existence, so a process that only waits for it, or shows
a box about it, counts as the program for the watchdog (`IsMainRunning`), but not for
the next process that wants to own it (`Owned`).

**Grain.** A step is one operation on a file or kernel object, or the handling of one
message. `ReplaceFile` is two steps, as the program is absent between them.

**Actions.** `Opening`, `Dispatch` and `Ends` are a process of the program from
`wWinMain` to its exit, `People` what users do with it, `Fetch` its download; `Watch` is
the watchdog; `Update` the updater. `Fails`, `InstallFails`, `StepFails` and
`UpdaterDies` are the faults.

**What the properties except is in the code**, and TLC finds a behaviour for each
exception that is left out of its property. `lost`: the signal to exit finds a watchdog
that has not made its event yet (and resets it when it does), or one that has decided to
start the program; or `GET /exit` ends the message loop before the handler that gives
the signal. `doubled`: two boxes, or two processes one after the other, start two
updaters, which share the backup. `unverified`: a download whose hash is not known is
installed as it is. `crashed`: a process ended between writing a file and what makes it
good.

**Abstracted.** Versions are not told apart: an update to an old download is one to a
whole file. The search for releases, resumed downloads and their chunks (a fetch ends
with the program or with something else under its name), thread by thread detail of the
download, and all time spans: waits that may time out may do so at any moment. The
watchdog itself does not crash, and nobody edits the files.

## Runs

"Model" below means a key of `loaded`.

| Run | Instance | Shows |
|---|---|---|
| `shared_runner` | 3 requests, two of them for one model and one for an MLX model, room for one runner, channels of capacity 1, one stop request | `TypeOK`, `RefCountExact`, `HeldRunnerStaysLoaded`, `IdleRunnerWillExpire`, `OpenServersWithinLimit` |
| `shutdown` | 2 requests for any of 2 models (one MLX), a signal at any time | `LoadingIsExclusive`, `NoOrphanServer`, `WaitIsJustified`, `AnsweredOnce` |
| `liveness` | 2 models, room for one, `FairSpec` | `RequestsAreAnswered`, `ModelsAreUnloaded` |
| `unload_in_use` | 3 requests for one model | violates a comment of the scheduler |
| `llama_server` | a server that prints, one that is closed while it loads, one that serves 2 requests with one slot and is closed | `ServerTypeOK`, `OneProcess`, `ClosedMeansStopped`, `VerdictIsOwn`, `ReportedMemoryIsCounted`, `CallsReturn` |
| `download_pull` | 2 calls, a blob of 3 blocks in 2 parts, 2 tries, one fault of any kind | `TypeOK`, `OneWriter`, `ProgressExact`, `ResumeSkipsNothing`, `PublishedIsWhole`, `PullsAreAnswered` |
| `download_stranded` | the same | violates a statement of the API documentation |
| `tensor_transfer` | a pull of one or two blobs, a push of one, each with 2 faults; a push of two, two pulls of the same blob, with 1 | `TensorTypeOK`, `PulledIsWhole`, `PushedIsComplete`, `DoneReportsAll`, `TokensAreShared`, `JobsEnd` |
| `model_store` | 2 names, 2 requests and an import, one restart or fault, models that share a layer | `ManifestsAreWhole`, `ListAloneIsExact` |
| `used_layer_removed` | the same | violates a comment of the manifests |
| `prefix_cache` | one layer of each kind; 3 requests that reuse prefixes or 2 that generate and speculate | `PrefixTypeOK`, `SnapshotsMatchNodes`, `PagedOutBytesExact`, `ImplementsConversation` |
| `agent_update` | 2 processes of the program, 2 updaters; 3 acts of users and 1 fault, or 2 and 2 | `AgentTypeOK`, `CanBeRestored`, `InstalledIsWhole`, `UpdateIsLeftAlone`, `WatchdogRestarts` |

`RefCountExact` says that the counter is the number of those who hold the runner,
which the code never writes down: three places count up (a handler, the pending loop,
the load waiter) and one counts down after finding the runner in another way, by key.
`HeldRunnerStaysLoaded` is the purpose of the counter. Both hold until a request is
handed a runner that was unloaded between check and use (`raced`); what happens then
is shown by `unload_in_use`. `IdleRunnerWillExpire` is the absence of a lost wakeup
among four sources of expiry events. `WaitIsJustified` says that the loop which makes
room waits only for events that come, although events carry no runner.

`VerdictIsOwn` and `ReportedMemoryIsCounted` are about the moment when one process is
replaced by another under the same writers. `ClosedMeansStopped`, and the part of
`CallsReturn` about a close, are what the scheduler relies on when it gives the memory
of a closed runner to the next. That a load returns assumes nothing of the process:
output and the first "loading model" move the deadline, silence and a status that stays
do not.

`ProgressExact` and `ResumeSkipsNothing` compare what is counted in three places (the
part, the download, the part file) with each other and with the file, across attempts
that are kept, rolled back, stalled or cancelled. The count of the download is exact
until a write to the partial file fails, never too low, and too high by at most a block
for each failed write. `TypeOK` of the downloads also says that a part holds and records
no more than its own size, and that `references` is the number of calls that wait.
`ResumeSkipsNothing` and `PublishedIsWhole` are claimed only while no file operation
failed and the process did not die: otherwise they are false, because `Prepare` takes
whatever part files it finds for the whole blob (after a failed `newPart`, an
interrupted removal or a prune that took some of them). `PullsAreAnswered` has two
exceptions, which are real: a preparation that failed, and a connection that never
brought a byte, which the watchdog ignores because `lastUpdated` is zero.

`PulledIsWhole` rests on the hash of what was received being the hash of what the file
has, through attempts that continue, start again, or find the file gone; nobody reads
the file again before it is published. `DoneReportsAll` compares a sum to which tasks add
and from which three functions take back, each its own share. `JobsEnd` says that slots,
the two semaphores and the lock of the token come back on every way out.

`ManifestsAreWhole` holds through any interleaving of the jobs, faults and restarts
*except* a removal beside a job that has not written its manifest yet and a job that
takes another's unverified blob for good; those are real and the first is the run
`used_layer_removed`. `ListAloneIsExact` says that whatever stale entries concurrent
requests leave behind, the next list request that runs alone repairs.

`ImplementsConversation` is the promise of the prefix cache; `SnapshotsMatchNodes` and
the trie's shape in `PrefixTypeOK` (every node hangs under its parent and siblings part
at their first token) are what it rests on; `PagedOutBytesExact`
compares a running sum, adjusted wherever a snapshot is taken, copied, split, merged,
replaced or evicted, with what it stands for. They hold
until a lazy snapshot has been overwritten, two that overlap have been joined or the
layers have been freed under a path that was kept (`spoiled`, see below).

`CanBeRestored` is what the updater's backup is for, through any failure, kill or power
cut at any of its steps. `UpdateIsLeftAlone` is why the agent stops its watchdog before
an update: a program that runs cannot be replaced, and one that is started while it is
being moved may be half of itself. `WatchdogRestarts` is what the watchdog is for; it
goes on after a crash of the program, of an updater, or a failure of either.

## Bounds

Scheduler:
- `Requests`: 2 or 3. Two requests can share a runner, replace each other's, and race a
  third party (timer, stop request); three are needed where one of them has to need
  the room (`shared_runner`), and for a dead grant, its successor and a victim
  (`unload_in_use`). `WaitIsJustified` also holds with three models and room for all,
  where evicting all awaits two events (1.3 million states), without a run of its own.
- `Keys`, `MaxRunners`: as many models as compete, one runner fewer, so that making
  room happens. `shutdown` has room for both, so that its evictions follow a lack of
  memory and not the limit.
- `MaxQueue`: 1 in `shared_runner`, so that every channel is often full; 2 or 4
  elsewhere. With `MaxQueue = 1` the scheduler can lock itself up: `processCompleted`
  is the only receiver of `expiredCh` and also sends to it (when the last reference
  to a runner without keep-alive goes), so a full channel stops it for ever with
  `refMu` locked. The same can happen at any capacity with as many expiry events
  under way as the channel holds (512 by default). The liveness run gives channels
  enough room for it not to happen; the safety runs include it.
- `RefMod` (8) stands for 2^64: larger than any count reached, so that an excess
  decrement shows as a very large count, as in the code.
- `KeepAlives`: 0 (unload at once), 1 (some time; timers fire at any moment, so one
  value is enough), and `Forever`, which never elapses.
- `MaxApiCalls`: how many stop requests there are; one is enough for it to meet every
  state of a runner.
- `Workloads`: which models the requests ask for, up to renaming.
- Deadlock is not checked: the set of requests is finite, so the loops are idle in
  the end; that the work is done then is what the liveness run checks.

llama-server: `Limits` is a set of bounds, one of which a behaviour has: lines printed
(2: a buffer and an error, or an error and a recoverable line; all of them may come
from either process), changes of the health to "loading model", requests, and calls of
`Close` other than a request's own. Two requests compete for one slot. 225 thousand states.

Download: two calls are enough to share, to leave one after the other, and to resume
what the first left; two parts, one of two blocks, give parts that are done, begun
and untouched at once, and a last part that is shorter. `MaxRetries` (6 in the code)
is 2. `MaxFaults` = 1 leaves all clients' choices free, since leaving is not a fault.
The invariants of `download_pull` hold with `MaxFaults = 2` as well (4.3 million
states); the run keeps to one fault because it also checks liveness.

Tensor layers: a blob of two units can be cut in the middle, two tasks compete for one
slot, and two attempts (of everything that has a limit: blobs, announcements, parts, slow
downloads) are a failure and a retry. `b1` is above the threshold for resuming, `b2` below.
`Each` lists the workloads; a workload has two faults where one has to be followed by
another (a write lost and a cut, a refused token and a failure). 345 thousand states. Two
jobs meet in files only, so that a pull and a push at a time add nothing; what they share
is checked with two pulls.

Models on disk: two names are enough for one to lose what the other shares; one
published model, one that a create makes of it, with a shared layer, a config and a
template of its own; `MaxRequests` = 2 jobs and one fault among two requests, an import
and the hydration, 2.9 million states. One job writes while the other removes; a third
would have to interfere with both.

Prefix cache: prompts of 3 tokens over an alphabet of 2 split, extend, repeat and
diverge at every length; `PrefillChunk`, `SnapshotInterval` and `Window` are 2, so that
chunks, restore points and the wrapped window all occur in them; `MaxPagedOut` is 4, so
that eviction occurs with three requests. `Limits` again gives a behaviour one of two
sets of bounds. 308 thousand states.

Agent: two processes of the program (the one that leaves, and one that the user, the
watchdog or an updater starts) and two updaters (the pair that shares a backup). An
update takes two acts, the download and the consent; the third starts a second process,
exits, changes the settings, or consents again. 452 thousand states. The invariants hold
with four acts and one fault as well (1.9 million states).

In all of these the runs end when their bounds are used up, so deadlock is not checked.

## Fairness

`Fairness` in `Scheduler.tla`: strong fairness of each loop, of each kind of `select`
case of `processCompleted`, of each runner's timers and delayed events, of each
request's goroutines. Strong and not weak because these compete for mutexes and
channel slots which others take in between; Go justifies it: a mutex is handed to a
waiter that waited for more than a millisecond, blocked senders are served in order,
`select` picks among ready cases at random. Loads and waits for memory end because
they have timeouts. A granted or refused request ends; a client that waits is *not*
assumed to give up, nor to stay.

`Fairness` in `LlamaServer.tla`: weak fairness of the goroutines (load, reaper, closers,
each request), of time, of the copying of output, and of a killed process's exit;
strong fairness of `Acquire`, as the semaphore serves waiters in order. Not assumed:
that a process gets ready, exits or prints, nor that anybody closes it. A ready process
ends a request, whose tokens are bounded by `num_predict`.

`Fairness` in `Download.tla`: weak fairness of each call, each `run` goroutine and each
worker, none of which competes for a lock. Receiving belongs to a worker's steps: a
connection either goes on, breaks or falls silent, and the latter two are faults, of
which nothing is assumed. That clients leave is not assumed either.

`TensorFairness` in `TensorTransfer.tla`: weak fairness of each task's own steps and of
each job's. Only tasks of one job compete, for a slot that its holder gives back, so
a task can be overtaken no more often than there are tasks and attempts. A silent
connection is not assumed to speak again, nor a client to leave.

`Fairness` in `AgentUpdate.tla`: weak fairness of the watchdog, of each updater, and of
each process of the program in opening, dispatching, downloading and leaving: processes
run, and every wait has a time-out. Nobody is assumed to act, nor to dismiss a box.

The other modules state no liveness: jobs on the model directory and operations of the
prefix cache are sequential code that returns.

## Where the code and its documentation disagree

1. `unload_in_use`. `GetRunner` and `processPending` check a runner (`needsReload`),
   release `refMu`, and then use it. If it is unloaded in between, the request is
   granted a closed server, and when it ends, `processCompleted` counts down the
   runner that is loaded for the key *now*. That one may be serving another request
   and is unloaded under it ("prevent unloading if > 0").
2. `download_stranded`. A call joins a download that is still being prepared. If the
   preparation fails, or the client that created it leaves during it, the map entry is
   deleted and `done` is never closed: the other call waits for ever, with no download
   under way. When its client gives up, `release` calls a `CancelFunc` that was never
   set and the server panics (`Panic`). ("multiple calls will share the same download
   progress".)
3. `used_layer_removed`. A removal reads all manifests, leaving out those it cannot
   parse, and then removes the files no manifest named. A manifest that a concurrent copy
   or create is writing is empty at that moment or not there yet, and loses its layers
   ("Remove layers not used by any other manifest").

Visible in the models, without a run of their own:

- Scheduler: the self-deadlock on a full `expiredCh` (Bounds); an unload event of an
  earlier unload ends `evictAllAndWait` early; an expired event is honoured though the
  runner was used and its timer restarted since; a queued request whose context is done
  is dropped without an answer, and `scheduleRunner` waits on; a request with
  `keep_alive: -1` that reuses a runner marked for eviction keeps it for ever; `load`
  closes `activeLoading` after `unloadAllRunners` cleared it (`PendLoadFailsNil`); a load
  that finishes after `unloadAllRunners` leaves its subprocess behind.
- llama-server: `mixed`, `overtaken` and the buffers counted twice, see its section.
- Download: the block that a failed write leaves counted, so that the progress of a
  download which then succeeds ends above its total; the panic of item 2 when the last
  client leaves before `run` has begun; a call that joins a download just cancelled is
  answered with that cancellation; after an interrupted removal of part files each later
  pull fails at the first that is missing, and after an interrupted write of one each
  later pull fails to read it, until they are pruned.
- Tensor layers: the five exceptions above. "cancels on no data (stall)"
  (`x/transfer/transfer.go:22`) is true only when data comes again; the test of it
  (`TestDownloadStallDetection`) stalls the answer to `resolve`, which is read to its
  end. A partial file of the full size is fetched again, although
  "fi.Size() == blob.Size handled in save" (`download.go:248`). A cancelled upload takes
  nothing back from its progress, and a pull that finds all blobs reports nothing.
- Models: a pull that finds the blob installs it unverified, though the job that
  downloaded it may be about to remove it; a hydration that failed is never repeated;
  a torn manifest cannot be deleted by its name and stops all pruning.
- Prefix cache: after a rewind, the first append copies out only the lazy snapshots it
  overlaps and clears `rewound`; a lazy snapshot further on is overwritten by the next
  append, against "one that has stayed lazy was never clobbered" (`kvcache.go:247`).
- Prefix cache: the captures of a prefill are attached to nodes "so its node edges
  [prev, offset) match the edge-local ranges the caches captured" (`cache.go:329-331`).
  They need not match: when the path has a node already that one layer has no snapshot of
  (a regenerated answer that splits an edge leaves the upper half without one in the
  recurrent and rotating layers), all layers go back behind that node, the prefill
  captures from there, and the capture is attached to a node whose edge begins at that
  node. When eviction merges the two, `KVCache.Merge` concatenates data that overlap, and
  a later restore gives the append-only layer a wrong history. A longer instance than
  the run's (seven requests, append-only and recurrent layers) reaches it; the model marks the
  layer `spoiled`.
- Prefix cache: when the layers cannot be aligned all of them are freed, but the path is
  cut back to the offset they had before, so it may end at a node of which no layer holds
  anything; captures that the next prefill takes before the end of that node are attached
  to it. It takes a capture attached late: the node where the request branched is evicted
  first, the append-only layer's capture starts behind the parent that is left, a later
  request restores the rotating layer to its end and cannot restore the other one
  (rotating and append-only layers, a window of 3; the prompts `abb`, `aaa`, `abaaa`,
  `bb`, and `abaab` cancelled). The model marks the layers `spoiled`.
- Prefix cache: eviction takes nodes marked as the user's restore points like any other.
- Agent: an updater that has waited 30 seconds gives up without a word, with the watchdog
  told to exit and the program closed, so nothing runs any more; the program may need
  longer, as it joins a timer thread that sleeps up to a minute. After a rollback nothing
  starts the program either. `GET /exit` ("Shutdown server", `README.md:265` of the agent)
  may leave the watchdog untold, and the program comes back. A program that is started
  while the previous watchdog still closes its mutex stays unwatched. The second process
  that shows its box keeps the watchdog from restarting the first.

## Proofs

TLAPS proves the following for every value of the constants that satisfies the named
assumption: any number of requests, runners, parts, faults and restarts.

| Theorem | Property | Argument |
|---|---|---|
| `TypeCorrect` | `TypeOK` of the scheduler | inductive with `ControlOK`: what each program counter says of the locals (the pending loop has a request unless it is idle, a send under way belongs to the step that waits for it, a wait for unloads has a positive count) |
| `LoadingExclusive` | `LoadingIsExclusive` | inductive as `LoadingInv`, which adds where the loop can be while a server that did not fit is kept, and that a key found free stays free: only this loop inserts |
| `ServersAreTracked` | `NoOrphanServer` | inductive relative to `LoadingInv`: inserting a runner can lose a server only by replacing one |
| `OneAnswer` | `AnsweredOnce` | `LineInv`: a request is in one place at a time, in a queue, in the pending loop or with the goroutine of its load, and is answered when it leaves |
| `ReferencesAreCounted` | `RefCountExact` | `CountInv`: with `KeyInv` (a loaded runner is filed under its key), `WatchInv` (who holds a runner has a watcher, or its end is in `finishedReqCh`), `SendingInv` (what a full channel holds back) and `RefInv`. The count is a `uint`: the hypothesis `FewRequests` is that fewer than 2^64 requests were made |
| `RunnersAreKept` | `HeldRunnerStaysLoaded` | from `CountInv` too: only a runner without references is unloaded |
| `IdleRunnersExpire` | `IdleRunnerWillExpire` | `IdleInv`: a loaded runner that nobody holds is `Tended` by a timer, an entry of `expiredCh`, the end of its last request or a step of a loop. It excepts `raced`, as the property does |
| `WaitsEnd` | `WaitIsJustified` | `WaitInv`: while the pending loop waits for an unload, an unload is to come or `Announced`, once for each wait (`Awake`) |
| `LimitHolds` | `OpenServersWithinLimit` | `LimitInv`: while a load is under way or a server is kept there is room in the map; with `NoOrphanServer`, the open servers are among the loaded ones and the one being loaded |
| `OneWriterAtATime` | `OneWriter` | `WriterInv`: a download that works is the one in the map. `OneWriter` alone is not inductive, as it does not stop `Join` from starting a second download |
| `NothingIsSkipped` | `ResumeSkipsNothing` | `FilesInv`, claimed while nothing was disturbed: the part files are there for all parts or for none unless the one download that works (`WriterInv`) is writing or removing them, and what they record and its workers count is in the partial file |
| `PublishedBlobsAreWhole` | `PublishedIsWhole` | `FilesInv`: when all workers have ended well each part is full; the parts cover the blob (`PartOfBlock`) and their lengths add up to its length (`TotalOfParts`) |
| `StoredModelsAreWhole` | `ManifestsAreWhole` | `raced \/ Sound`: manifests are whole, a job that has yet to write has what it counts on or will verify it (`Held`), and a pass that may remove has read every manifest as it is, or will (`Covered`). Each of the three needs the others |
| `ServerTypes` | `ServerTypeOK` | `Shape`, and of `Order` and `Closing` what binds a step to a process |
| `NeverTwoProcesses` | `OneProcess` | `Order`: the second process exists only after the retry, which begins once, and only when the first has been waited for |
| `ClosedIsStopped` | `ClosedMeansStopped` | `Closing`: who closes waits for the current process, and it has exited when he returns, unless `overtaken` |
| `VerdictsAreOwn` | `VerdictIsOwn` | `Own`: an error about memory was said by the newest process, and the reset comes when the pipe of the first is empty, unless `mixed` |
| `MemoryIsCounted` | `ReportedMemoryIsCounted` | `Counted`: what a process said is counted or in its pipe; the reset precedes all that the second says |
| `AgentTypes` | `AgentTypeOK` | inductive; that one process owns the mutex is part of it, as the next one gets it only when nobody does |
| `OldVersionSurvives` | `CanBeRestored` | `FilesInv`: a program that runs is whole, and unless two updaters worked, there is at most one, the program is whole until it has deleted it, the backup from its copy on |
| `BrokenIsExcused` | `InstalledIsWhole` | `FilesInv`: a download, a program or a backup that is not whole has an exception or is about to be compared with its hash |
| `WatchdogLeavesUpdate` | `UpdateIsLeftAlone` | `WatchInv` (of the agent): while an updater works the watchdog has been told, or a window is open (`Guards`) in which it will be before it acts |
| `TokensShared` | `TokensAreShared` | `TokenInv`: a task keeps no token newer than its job's, and the job none newer than the registry's |
| `PushIsComplete` | `PushedIsComplete` | `PushInv`: the server that announces a manifest has every blob recorded, or the task of the blob ended without an error, which is after the commit unless `presumed` |
| `PullIsWhole` | `PulledIsWhole` | `PullInv`: while an attempt writes, what the hash has seen is what the partial file holds, unless `lost` or `shared`; what is renamed was hashed whole |
| `TensorTypes` | `TensorTypeOK` | `Counting` (`Measured`): what a task reports fits the step it is at (`Fit`), the part it sends and where its body began (`Offsets`), hence is bounded; a token is refreshed with the slot of the step that is repeated (`Slotted`) |
| `DoneIsReported` | `DoneReportsAll` | `Counting` (`Booked`): what a job has counted is what was there before and the `Sum` of what its tasks report, unless one has failed for good or the transport read on; a task that ended well reports its whole blob |
| `ListsAreExact` | `ListAloneIsExact` | `AloneInv`: a job that is said to run alone (`calm`) does, and at each step knows what the directory says of every model it has passed (`Knows`); what it keeps of the cache fits the manifests (`Right`) |
| `DownloadTypes` | `TypeOK` of the downloads | with `CallInv` (who waits for which download), `RefInv`: the count of references is the number of calls that hold the download (`Holding`), and `CountInv`: what a part has and has read fits into it (`Counts`), as do the part files (`PartFiles`) |
| `ProgressIsExact` | `ProgressExact` | `ProgressInv`: `ContentInv` relates parts to their workers, `CountInv` the sum over parts (`SumOverParts`), with what a worker has received and not yet saved, to what was counted: equal but for a block per failed write (`Near`, `MoreFaults`) |
| `PrefixTypes` | `PrefixTypeOK` | `PrefixInv`: the nodes are a `Trie` (siblings part at their first token), every layer and every snapshot is in shape for a restore (`LayerOK`, `TakenFits`), all layers hold as many tokens (`Even`), and outside a prefill nothing is scheduled (`Calm`) |
| `BytesExact` | `PagedOutBytesExact` | `PrefixInv` too: the count is part of `LayerOK`, as it changes where snapshots do |
| `SnapshotsMatch` | `SnapshotsMatchNodes` | `PrefixInv` with `ContentInv`: unless a layer is spoiled, every snapshot carries what its node says (`Right`), every layer holds what it was told up to its offset (`Filled`) and the captures of a prefill hold its prompt (`Took`) |
| `Converses` | `ImplementsConversation` | `ContentInv` too: a step that spoils nothing is `Reuse`, `Evaluate`, `Generate` or `End` of `Conversation`, or changes nothing of it; a step that spoils a layer makes it `broken` |

The assumptions are `ConfigAssumption` (`Scheduler`), `DownloadAssumption` (`Download`),
`StoreAssumption` (`ModelStore`), `ServerAssumption` (`LlamaServer`), `AgentAssumption`
(`AgentUpdate`), `TransferAssumption` (`Transfer`), `PushAssumption` (`TensorPush`) and `PrefixAssumption`
(`PrefixCache`), all about constants only; the one hypothesis on states, `FewRequests`, is that of the
counting. The inductive invariants were checked with TLC before they were proved, those
of the scheduler on the instances of `shared_runner` (4.07 million states) and `shutdown`
(1.48 million), the others on the instance of their module (the download's with two
faults). Sums over parts, and over the reports of tasks, are counted as pairs
(`SumOverParts`, `Sum`).

In the prefix cache, `PrefixTypeOK` alone is not inductive: what a step does to the trie
follows what the layers hold. A node is attached at the offset the layers have reached
(`Even`: else `close` would put a node beyond what some layer holds); a layer
can be brought to an offset only if its snapshot's slots exist and its write position
fits its length (`SnapFits`: else a restored window would be written past its end); and a
schedule that survived its prefill would be drained at the next. The bytes need
as much, as a copy out changes them wherever a layer is written.

The operators of that model loop over layers, nodes and offsets, as the code does:
`EnforceEvictionPolicy`, `PageIn` and `Attached` are recursive functions on the number of
rounds, sums are folds over sets. The induction theorems of the library cannot be
instantiated by the provers, so `PrefixCacheProofs` argues by least counterexamples
(`LeastElement`): a recursion has a solution of every length, as there is no least
length without one (`RecursionExists`); what each round keeps holds after every round, as
there is no first at which it fails (`AlongRecursion`); and a fold over a finite set is
unfolded by one element in the same way, with a smallest subset (`SmallestSubset`). From
these come `SumSplit`, `EnforceOK`, `PageInOK` and `AttachedOK`.

`PrefixContentProofs` adds what the slots hold. The content of position i is the first i
tokens (`Text`), as the keys and values of a position depend on all tokens before it, so
one formula says of a row of slots (`Run`), of a window that wraps (`RotRight`), of a
recurrent state, of a snapshot of each kind (`Carries`) and of a layer (`Live`) which
text they were computed from, and what holds of one text holds of all that agree with it
up to there (`CarriesAgrees`): a snapshot survives a request that continues differently.
Each operation of a layer is proved to keep the data of the snapshots it does not make
(`KeepsSnaps`), by a copy out or because it writes none of their slots; where the code
does neither, the model marks the layer. An operation of the cache then `Goes` (snapshots that are
right stay right) or `Moves` (the layers hold the new text, too), each unless it spoils a
layer, and both chain. `ContentInv` needs more than the contents: the active path is no longer
than what the layers hold, and a capture to be attached lies behind its end.

`IdleRunnerWillExpire` excepts `raced` for a reason the proof makes plain: a handler that
stops a runner ends its timer and its session before the pending loop has it, and four
requests are enough for one to be handed a runner nobody tends any more.

A step that changes several fields of a record writes them as one nested update,
`[f EXCEPT ![w] = [@ EXCEPT !.a = x, !.b = f[w].b + 1]]`, with old values spelled out:
version 1.4.5 of the prover mistranslates several paths through one `![w]` and an `@`
below another, and would prove what is false from them.

The scheduler's proofs use lemmas on what each group of steps leaves alone: handlers,
timers, load waiters and stop requests start and stop no server (`OthersLeaveServers`),
`processCompleted` stops one only where it unloads (`CompletedLeavesServers`), the
pending loop only where it loads (`PendLeavesServers`), and no step changes a request's
model (`KeysNeverChange`). `ModelStoreProofs` has a lemma per action for the shape of
the state and one for soundness; in `LlamaServerProofs` requests are dealt with at once,
as none of their steps touches a process but by closing it (`ServeMoves`).

Only model-checked are the liveness properties, which are beyond the prover.
The typing of the models on disk is an inductive invariant of `ModelStoreProofs`
(`Shape`) and no run's property.

## Not modelled

Of `sched.go`: the pure functions that choose GPUs, batch and context sizes and mmap
(their results are free choices of `PendPreflight`, `PendSpawn`, `PendLoadFails`),
logging, metrics, and the race of `/api/ps` on the map (a read without the lock).
Of `download.go`: that at most 16 parts are fetched at a time, and the text of
progress reports. Of the other modelled components: what their sections name as
abstracted or left out. All other components of the inventory; the plan says which come
next, and `PROJECT.json` gives the reason for those that are not planned. Most of the
repository's lines are data code (model architectures, converters, parsers, API
translation), the numerical work of the runners and user interface, in which no state
is shared and time plays no part.

## How to run

    tlc -config Scheduler_shared_runner.cfg MCScheduler.tla
    tlc -config LlamaServer_life.cfg MCLlamaServer.tla
    tlc -config Download_pull.cfg MCDownload.tla
    tlc -config TensorTransfer_jobs.cfg MCTensorTransfer.tla
    tlc -config ModelStore_whole.cfg MCModelStore.tla
    tlc -config PrefixCache_reuse.cfg MCPrefix.tla
    tlc -config AgentUpdate_replace.cfg MCAgentUpdate.tla
    tlapm SchedulerProofs.tla
    tlapm LlamaServerProofs.tla
    tlapm DownloadProofs.tla
    tlapm ModelStoreProofs.tla
    tlapm PrefixCacheProofs.tla
    tlapm PrefixContentProofs.tla
    tlapm TensorTransferProofs.tla
    tlapm AgentUpdateProofs.tla

Each configuration belongs to the MC module of its prefix (`PrefixCache_*` to
`MCPrefix`). Runs: `Scheduler_<run>.cfg`, `Download_<run>.cfg` is run `download_<run>`,
`LlamaServer_life.cfg` is `llama_server`, `ModelStore_whole.cfg` and `_spared.cfg` are
`model_store` and `used_layer_removed`, `PrefixCache_reuse.cfg` is `prefix_cache`, `AgentUpdate_replace.cfg` is `agent_update`,
`TensorTransfer_jobs.cfg` is `tensor_transfer`.
The mutants, named above the definitions they replace, are bugs one could plausibly
write; each breaks the property that `PROJECT.json` pairs it with.
