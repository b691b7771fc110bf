# A TLA+ verification of ee-eq-cli

ee-eq-cli runs a PipeWire equalizer from the command line: it creates a virtual sink, moves
matching application streams onto it, runs convolver, equalizer and limiter between the
virtual sink and a real one, and is controlled through a daemon on a Unix socket. This
directory holds TLA+ models of its concurrent parts, TLC configurations that check them on
small instances, and proofs that TLAPS checks for every instance.

The reference for every definition is the code (`src/src/`). `PROJECT.json` maps each
definition to the lines it models, lists the runs, the hazards, the findings, the theorems,
and for each checked property a mutant of the code that the property catches.

    cd tla
    tlc -workers 2 -config MCDaemonController.cfg MCDaemonController
    tlapm DaemonControllerProofs.tla

## 1. Inventory

| Component | State | Operations | Hard because |
|---|---|---|---|
| Daemon controller (`daemon_controller.cpp`) | `desired_`, `status_`, `init_error_degraded_` | the nine commands, `status_locked`, rollback | the session changes while a stored status describes it; a start and its rollback may both fail |
| Session backend (`daemon_backend.cpp`) | `router_`, `worker_`, `stop_requested_`, `worker_failed_`, `stop_fd_` | `start_session`, `stop_session`, `worker_loop`, `snapshot` | a thread sleeping in poll must be woken, joined, and not stopped by a stale signal |
| Router task queue (`pipewire_router.cpp`) | `scheduled_tasks_`, `wake_fd_` | `schedule_task`, `next_task_timeout`, `run_due_tasks` | push and wake-up are two steps |
| Accept loop (`daemon_ipc.cpp`) | listening socket, signalfd, `done` | accept, bounded read, handle, reply | one thread, clients that stall, signals |
| Socket life (`daemon_ipc.cpp`) | the path `daemon.sock` | bind, probe, remove, rebind, listen, close, remove | several processes, crashes, calls that fail |
| Filter initialisation (`EqFilterNode`, `LimiterFilterNode`, `ConvolverFilterNode`) | `init_state_`, `rate_`, `n_samples_`, host, buffers | `on_process`, `schedule_initialization`, `initialize_on_worker` | real-time thread and worker without a lock |
| Sink selection (`PipeWireRouter`) | `selected_sink_`, `startup_sink_locked_`, `created_links_` | `wait_for_startup_sink`, callbacks, `reconnect_to_sink` | three threads, multi-step reconnect with rollback |
| Stream patching (`PipeWireRouter`) | `patched_streams_`, `pending_patch_streams_`, `recent_patch_attempts_`, `loop_guard_` | callbacks, queued patches, `patch_existing_streams`, `clear_patched_streams` | a match tested 150 ms before it is used, streams that vanish, recreate loops |
| Router teardown and proxies (`PipeWireRouter`) | `bound_nodes_`, `NodeData.removed`, the loop lock, the pointers to PipeWire's objects | `setup_core`, `list_sinks`, `stop`, the node callbacks, `destroy_proxy_sync` | two locks, two owners of one node, waits for a server that may be gone |
| Convolver host (`convolver_host.cpp`) | the queues of `BlockAdapter`, `ready_`, `conv_` | `ensure_ready`, `process`, `stop` | fixed blocks over variable quanta, a real-time thread that must not allocate |
| Presets (`ee_eq_preset_parser.cpp`), AutoEQ, kernels | files | parse, import, render, resolve | what one call writes another one runs |
| Standalone mode (`main.cpp`, `cli_args.cpp`), start of the router | arguments, the filters and links that exist | parse the options, convert, list, dry run, nine stages of a start, wait for a signal | any stage may fail, one of them without ending the start |
| LV2 host core, wire protocol, port mappers | a plugin instance; none; none | create an instance, JSON, assignments | not concurrent of themselves |

How they interact. A client's request travels through the accept loop to the controller,
which holds `mutex_` and calls the backend. The backend owns one router and one worker
thread; the router owns PipeWire's thread and the real-time callbacks. PipeWire's callbacks
and the real-time thread never do slow work: they push a task and write `wake_fd_`, and the
worker runs it (initialisations, patches, reconnects, proxy destruction). `stop_session`
writes `stop_fd_`, joins the worker and only then stops the router. What makes each part
correct is stated with the runs in section 3.

## 2. Modules

Each module has its state as variables, one action per handler or per atomic step of a
thread, and its properties at the end. An operator named `X_Something` with a comment
"Mutant" is a wrong version of `X`; it is used by no specification.

* **DaemonController** - `desired`, `status`, `initDegraded` are `desired_`, `status_` and
  `init_error_degraded_`; `session` is the backend's. Handlers run under `mutex_`, so each is
  one action, followed by `Adopt` (the snapshot that
  `set_runtime_state_from_backend_locked` stores, after a successful start) and `Respond`
  (the snapshot that `status_locked` answers with). `Environment` changes the session between
  any two of these: the worker fails, a filter fails or recovers, the default sink moves.
  `Up` and `Down` are the two ends of a start. `session.sink` is the sink of
  `selected_sink_`. `BootIdle`, `BootApply`, `SignalExit` are `handle_daemon_mode` and the
  ends of the accept loop. The environment variables `handle_request` refuses to run with
  accept everything or nothing for the life of the process and are left out.
* **SessionWorker** - the controller's thread through `stop_session` and `start_session` step
  by step, a producer in `schedule_task` between its push and its write, and the worker
  through `worker_loop`. Descriptors are their counters. Due times are abstracted to due or
  not yet due; `ComesDue` is the clock, and a timeout may end early, as the code truncates it
  to milliseconds.
* **DaemonServer** - the accept loop against clients that may send part of a request, too
  much, garbage, all of it or nothing. The content of a request is DaemonController's.
* **DaemonSocket** - the system calls on the socket path, one action each, for several
  processes. Any of them may fail: a daemon that cannot bind at all is `broken`, a probe that
  cannot be made counts as no answer, a removal may leave the path, a failing `listen` leads to
  the way out, and an exit whose removal fails leaves the path as a crash does. The history
  `raced` remembers whether a start has overlapped with another start or an exit, and `errs`
  whether a probe of a daemon that served, or a removal, has failed, so that the properties can
  say what holds of orderly use, of races and of failures.
* **FilterInit** - one filter node: `on_process` by its loads and stores of `init_state_`,
  and `initialize_on_worker` by its writes to the host and the buffers. The three node
  classes have the same control. Sequential consistency is adequate for `init_state_`
  although some stores are relaxed: they are ordered by the task queue's mutex, and the
  publishing store and the load use release and acquire. `fmt` is `rate_` and `n_samples_`.
* **SinkRouting** - `selected_sink_` between the thread in `start`, PipeWire's callbacks and
  the worker's reconnects; every access under `state_mutex_` is one action. `owner` is a
  history of which node had which serial, `calm` one of whether anything failed or overlapped.
  The selector is a name; a numeric selector pins one node in the same way.
* **StreamPatching** - the record of moved streams, the queue of patches, the loop guard and
  the metadata (`meta`), with `patch_stream` split where it releases the mutex and the
  clearing and patching loops split by stream. A reconnect is split where `selected_sink_`
  changes. PipeWire's metadata object is assumed to be there. `Limits` is a set of profiles:
  a behaviour is either about reconnects and targets or about one application that recreates
  its stream, so that neither pays for the other's bounds.
* **RouterTeardown** - the control thread through `setup_core`, `list_sinks` and `stop`, and
  PipeWire's thread through its callbacks, with what the server has sent in `wire`. What the
  control thread does under the loop lock is one step; `pw_thread_loop_wait` is a state that a
  core event ends. `state_mutex_` is a property of where the threads are. The server announces
  and removes nodes, answers each sync after what it sent before, may send a core error, and
  may go away, with an error for its last event.
* **BlockAdapter** - the convolver's two queues as numbers of frames, `ensure_ready` on the
  worker and `process` on the real-time thread, step by step. `zeros` and `debt` are histories
  of what was played in place of output and of what failed calls left.
* **Session** - what the backend promises the controller, without threads and descriptors: a
  session is off, starting, on, failed or ending. `SessionWorker!BehavesAsSession` instantiates
  it with a refinement mapping and says that SessionWorker implements it.
* **Preset** - no state: the parser of Easy Effects presets, the importer of AutoEQ texts and
  the writer. A document is a record of what the parser asks of it, in the order in which it
  asks; a band is its type and where its numbers come from. The importer is what it does with
  one line (`parse_line`) and what follows the loop (`parse_autoeq_preset`). `Keep` selects from
  a list by counting places rather than by recursion, so that it can be reasoned about;
  MCStandalone has TLC compare it with `SelectSeq`.
* **Standalone** - extends Preset: the user's calls of `eq-cli` one after the other, over what
  they have on disk. There is one text; a conversion loads it, reads it line by line into the
  parser's locals (`import`) and writes the preset, wholly or in part, under a name of the user's
  choice (`converted` is the history of these). `PipeWireRouter::start` goes through its stages;
  one that fails leads to `Stop`, which stands for the `stop` of the branch and for that of the
  destructor (what it does, object by object, is RouterTeardown's). `links` is the chain as
  `connect_chain` makes it. The signal mask is set only after the start, and only in the main
  thread, when `setup_core` has long started PipeWire's: a signal kills the process, at whichever
  point, unless the call has inherited a mask that blocks it (`masked`).

The backend and the router are also run without their descriptors: in SessionWorker `has_stop_fd` and
`has_wake_fd` say whether `eventfd` succeeded. In DaemonServer `exposed` says whether threads
were created before the signals were blocked, as they are by `daemon start --preset`.

The MC modules hold symmetry sets and the documents, texts, command lines, formats and limits
of an instance. The Proofs modules hold theorems.

## 3. Runs

Bounds are chosen so that every action fires and each interesting order of two or three
occurrences exists. Every one of these systems may come to rest (a process that has ended, a
worker asleep, a quantum of 0), so deadlock is not an error in any run; that nothing gets
stuck is what the liveness properties say.

| Run | Instance | What it shows |
|---|---|---|
| `controller` | 2 presets, 2 sinks, 4 volume arguments, symmetric; no bound on the number of commands | `SessionFollowsDesired`: a session is the remembered configuration, through starts, rollbacks and settings. `ReportsAreTruthful`: every answer is consistent in itself. `ConfigFollowsRequests`: only a successful request changes what is remembered, each its own part |
| `worker` | 4 calls, 3 tasks, 2 faults, with and without each descriptor | `NoZombieSession` (a stale stop signal does not end the next session), `RouterOutlivesWorker`, `NoLostWakeup`; under fairness `CallsReturn`, `TasksRun`; `BehavesAsSession`: all of it is a behaviour of Session |
| `server` | 3 clients, backlog 2, with and without exposed threads | `OnlyWholeRequests`; under fairness `EveryClientHears`, `SignalEnds` |
| `socket` | 4 daemons, starts, exits, crashes and failing calls in any order | Of daemons that start one at a time, `OrderlyDaemonReached` (one serves, and the path is its own) until a probe of a daemon that serves fails, and `StaleSocketRecovered` (only a daemon that serves keeps another from starting) until a removal fails. `RaceEndsReachable`: starts that overlap end with a daemon that answers, whichever probes and removals fail, if nobody leaves, breaks or crashes |
| `filter` | 4 formats around the preallocated size, one without a quantum, 4 changes | `HostNotShared`, `RunsConfigured`, `SmallQuantaHold`; under fairness `Settles` |
| `sinks` | 2 sinks, with each or no selector, 3 nodes, 3 changes, failures anywhere | `ChainOnSelected`, `SelectorPinned`; under fairness `FollowsDefault` |
| `streams` | 2 streams, a reconnect, a change of target and a tick; or 3 streams of a name one at a time and 3 ticks | `RecordIsRight`, `StopRestoresStreams`, `SuppressionHolds`; under fairness `EventuallyPatched` |
| `teardown` | 2 nodes, 1 link or virtual sink, 3 events, 1 error | `NoUseAfterFree`: stop, the tasks and the callbacks never touch a freed node, and stop never frees a description a callback uses; the one exception, stated in the property, is a node bound since stop took its list, which the disconnect may free under its callback. `StopCleansUp`: what is left to the disconnect is only what stop cannot know of. `ListIsComplete`: `list_sinks` sees every node that was there. Under fairness `CallsEnd`: no call is stuck on a lock or an answer |
| `adapter` | quanta of 32, 64, 96, 160, 1000 and 1024 frames, blocks from 64, 3 set-ups and stops, 3 failures | `FramesConserved`: nothing lost, repeated or kept from an earlier format. `LatencyBound`: the delay is below a block plus what failures left. `ReserveHolds`: no allocation until a block fails |
| `standalone` | 2 calls; every order of up to 3 plugins, AutoEQ texts with every code and combination of values, 16 command lines; 2 bands for the code's 32 | `ConvertedPlaysAsMeant`: a converted preset a later call runs is the text. `ChainIsThePreset`: an active chain is the preset's order without an unavailable convolver, each filter linked once, and one of them has the volume. |

Two daemons or sinks are the fewest that can disagree, a third one meets the remains of two
others. Three nodes let a sink vanish and return under a new serial. Four calls allow a
start, a failed start, a stop and another start. Three streams of a name pass the loop guard's
threshold (2 in the run, 3 in the code) and appear before, during and after a suppression.
In `teardown` one node is bound before the router and one later, each with an event of its
own and one to spare. The quanta of `adapter` lie below the smallest block, on a power of two,
between two, and just below one. Two bands allow a text and a document with one band too many.
Frames in `filter` are counted in units of 4096, so the 8192 preallocated frames are 2.

The type invariant of every module but Preset and Standalone is proved (section 4); those of
SessionWorker, StreamPatching and RouterTeardown are checked by their runs as well. Preset and
Standalone have none: their values are the records their constants and operators make, and what
the proofs need of them is part of the invariants there (`OnDisk`, `Chain`, `ReadRight`).

Some properties hold only under a condition that the module makes explicit. `FollowsDefault`
needs `calm`, changes one at a time among them: when the default goes from A to B and back to A while the
reconnect to B is still queued, the second event is compared with a sink not yet left,
dropped, and the chain ends on B. `SuppressionHolds` needs one stream at a time under a name:
with two, one queued before the suppression began is still moved. `CallsEnd` excepts a lost
server, `ListIsComplete` a core error, `CallsReturn`, `NoLostWakeup` and `TasksRun` a missing descriptor,
`SignalEnds` a signal that some thread does not block. `OrderlyDaemonReached` excepts a failed
probe, `StaleSocketRecovered` a failed removal, `RaceEndsReachable` a failed bind, and
`NoUseAfterFree` a callback that `pw_core_disconnect` runs into; without these exceptions they
do not hold.

### Fairness

Weak fairness of the worker, the controller's thread, the daemon's thread and the router's
control thread (`Control`): they are ordinary threads and their system calls and tasks return. Weak fairness of `ComesDue`, `Tick` and `ReadTimeout`
(part of the server): time passes. Weak fairness of PipeWire's callbacks (`PwThread` in
RouterTeardown): the loop thread delivers what the server sent. Of `on_process`: the graph
calls it every quantum. Nothing is assumed of clients, applications, users, signals or faults,
nor of the PipeWire server beyond its answers to syncs while it is there.

### Findings

Two runs are expected to end in a violation: they state what a document or a comment says and
the code does not keep; `PROJECT.json` quotes both.

| Run | Refuted | Shortest story |
|---|---|---|
| `controller_enable` | `EnableRestarts` | apply; the worker fails; `enable` sees the stored Enabled and answers ok without a working session |
| `server_signal` | `SignalsAreHandled` | `daemon start --preset` has a session whose threads do not block the signals; a signal kills the daemon instead of shutting it down |

The models reach these states as well. No run is devoted to them; each is why some property
above is not stated more strongly.

* After an apply whose rollback fails too, `desired_` is still enabled without a session, and
  `bypass` answers ok.
* `volume nan` passes both comparisons of the range test.
* A rollback that adopts a session with a filter error is reported ok once that error ends.
* Two starts that overlap may both serve: a daemon probed between its bind and its listen is
  taken for dead (`tests/test_daemon.cpp:441` tests a second start that comes later).
* A daemon on its way out removes the path of one that has just bound it
  (`OrderlyDaemonReached` has the condition `~raced`).
* A probe whose `socket()` fails, or whose `connect` fails for any reason, takes a daemon that
  serves for dead (`daemon_ipc.cpp:94`): its path is removed and bound again, and two serve
  though no starts overlapped. If that second bind fails too, one serves and nobody reaches it.
* A socket file that cannot be removed (the error of `daemon_ipc.cpp:105` is not looked at) keeps
  a daemon from starting though nobody serves.
* Without `stop_fd_`, `stop_session` hangs on a worker that sleeps without a timeout.
* A first quantum above 8192 frames takes a span past the dummy buffers of a port without a
  buffer (`pipewire_router.cpp:261`; `SmallQuantaHold` is about quanta within them).
* A default that changes after the startup serial is resolved and before the lock replaces the
  name only; name and serial are then of two sinks.
* A reconnect whose rollback fails too leaves a session without a chain that is reported
  active (`ChainOnSelected` allows no chain, `EventuallyPatched` excepts it).
* A stream that changes its target within the 150 ms of a queued patch is moved anyway.
* A stream that appears while its name is suppressed is not moved when the suppression ends
  (`EventuallyPatched` excepts names that were ever suppressed).
* When the PipeWire server goes away its error ends one wait; a `stop` with more proxies to
  destroy waits for ever.
* `pw_core_disconnect` does not take the loop lock (`pipewire_router.cpp:1337`): a node that was
  bound since `stop` took its list is freed by it, possibly while its info or removed callback
  is running.
* A convolution block that fails is kept and the quantum after it grows the queue on the
  real-time thread; the delay it leaves stays until the next set-up.
* SIGINT or SIGTERM kills a standalone session, during its start and, as PipeWire's thread does
  not block it, during its wait too: no stream is given back. Only under an inherited mask does
  the wait read the signal and `stop` run. A failing `poll` or `read` in the wait ends the session
  by an exception nobody catches. The repository says no more than "until interrupted", so no run
  is expected to refute anything here.
* A conversion whose write fails only as the stream is flushed is reported as a success (the
  file is then no JSON and never runs).
* A dry run does not look for the convolver's kernel; AutoEQ texts of more than 32 filters are
  cut without a warning; bands a document gives beyond its `num-bands` stay active.

## 4. Proofs

All proofs are for every value of the constants under the named assumptions, which say what
kind of value each constant is; that of RouterTeardown also says that the nodes are finitely
many, each with an identity of its own; that of BlockAdapter also says that a block is at least the
smallest one, no larger than a quantum unless it is the smallest, and more than half of it.
`LargestPower` is recursive, so this is not proved from its definition; TLC evaluates it for
the quanta of the run.

* **DaemonControllerProofs**: `TypeCorrect`, `SessionFollows`, `Truthful`, `ConfigFollows`.
  The inductive invariant adds `StoredConsistent` to the three invariants: answers are built
  from the stored status whenever the configuration is not enabled, so what an earlier
  handler stored has to be consistent too (an ok health without an error, no active session,
  no transitional state). Lemmas for `Up`, `Down` and the replay of settings are cited by
  every handler. `ConfigFollows` is an action property and follows from types alone.
* **FilterProofs**: the two modules of what runs on the real-time thread. Of FilterInit:
  `TypeCorrect`, `HostExclusive`, `RunsOnlyConfigured`, `OneInit`, `DummyBuffers`. The
  invariant `Handover` says where the one outstanding initialisation is (claimed, queued or on
  the worker, for exactly the format in `rate_` and `n_samples_`), `RtKnows` that a loaded
  state other than InitPending cannot change behind `on_process`, `Built` what Ready stands
  for. `DummyBuffers` adds that no resize makes the dummy buffers smaller than they were at
  first. Of BlockAdapter: `AdapterTypeCorrect`, `Conserved`, `LatencyBounded`,
  `ReserveIsEnough`. Inside a call the queues hold one quantum more than between calls;
  `Balance` says what they hold at every step, `Calls` that a call runs only while the host is
  ready and leaves less than a block of input. The bounds on delay and room follow from it.
* **SinkRoutingProofs**: `TypeCorrect`, `ChainFollowsSelection`, `LockedSinkIsReal`,
  `SelectorIsKept`. A reconnect links the sink it remembers, so the invariant (`Resolved`,
  `Remembered`, `Linked`, `Pinned`) relates what is remembered to what is selected, and shows
  that no callback writes a selection that has a serial, apart from its name.
* **SessionWorkerProofs**: `TypeCorrect`, `NoZombie`, `RouterOutlives`, `WakeupsArrive`,
  `Implements`. The invariant goes along the controller's thread: at each of its steps
  `RouterAt` and `WorkerAt` say which router and which worker there are, `NoStopLeft` where a
  stop that was written still is (nowhere once the session it is not meant for is up: the
  descriptor is drained before the worker is spawned), `Failure` that a worker which ended
  between two calls has failed. `NoLostWakeup` is inductive beside these. `Implements` is the
  refinement of Session: the initial states map to its initial state, and every step of the
  controller's thread and of the worker maps to a step of Session or to a stutter.
* **RouterTeardownProofs**: `TypeCorrect`, `FreedOnce`, `CleansUp`, `Lists`, for any finite
  number of nodes and any number of links, events and errors. Two threads may free a node, so
  the invariant has to say which: `Owned` gives every live node one owner (the list of bound
  nodes, the list that stop took, stop itself, or the queued task of a removed node).
  `Places` says where the control thread is, in a wait too, and which of the router's objects
  exist there; `Delivering` what a callback that has begun may rely on; `Once` that the server
  announces and removes a node once, so that no node is bound or queued for destruction twice.
  `Complete` adds the order of what is on the wire: until a wait has ended, a node that was
  there first is bound or announced before any answer the wait could end with. `Late`, beside
  these, says of the callback that the disconnect may run into that it is of a node still in the
  list of bound nodes, which is the exception `FreedOnce` names.
* **StreamPatchingProofs**: `TypeCorrect`, `RecordRight`, `StopRestores`, `SuppressionKept`,
  for any number of streams, reconnects and ticks and any constants of the loop guard. The
  worker records a stream under the mutex and sets its metadata after it; `Moved` says how
  far the two are apart while it is between them, or clears one stream after the other,
  whatever PipeWire's thread removes meanwhile. `Calm` says that of a name with one stream at
  a time no live stream is both queued and suppressed: a suppression begins with the removal
  of the name's only stream, and a later one is not queued before it ends.
* **DaemonIpcProofs**: the two modules of `daemon_ipc.cpp`. Of DaemonServer: `TypeCorrect`,
  `WholeRequests`, for any number of clients and any backlog. `Waiting` says that nobody in
  the backlog is there twice, is served or was handled; `Current` and `Handled` follow a
  connection from there to its answer. Of DaemonSocket: `SocketTypeCorrect`,
  `OrderlyReached`, `RaceReachable`, `StaleRecovered`, for any number of daemons. Orderly
  starts keep `Alone` (while a daemon starts no other one is on its way in or out), `Known` (what
  a starting daemon knows of the path still holds, of a removed path as long as no removal
  failed) and, as long as no probe failed, `Served` (the path is that of the one that serves).
  Of races, `Claimed` says that a free path has a daemon about to bind it.
* **StandaloneProofs**: `ChainFollowsThePreset`, `ConversionIsFaithful`, for all presets, texts
  and command lines and any number of bands and calls. The assumption is that a text is a list of
  lines and the order of a document a list. `Built` says that no filter is there before the
  equalizer's. `Chain` follows the preset through the stages: the order loses the convolver in two places and
  in no other, and from the limiter's stage on the filters are those of the order
  (`FiltersOfTheOrder`), so that `connect_chain` leaves none out. `Imported` is the invariant of
  the import's loop: each line read is at its place among the bands (`OnLines` counts the places),
  no line was misread, and the gain is that of the only preamp. `ConvertedRight` says that every
  file a conversion wrote is rejected or plays as the text says; `RoundTrip` shows it of the whole
  file, `CutIsRejected` of a part. The lemmas on lists (`Counting`, `KeepIs`, `KeepAll`,
  `FirstErrorIs`) rest on counting: a finite set of indices is in bijection with `1..n` by rank,
  which needs no induction.

Only model-checked: everything under fairness (`CallsReturn`, `TasksRun`, `EveryClientHears`,
`SignalEnds`, `Settles`, `FollowsDefault`, `EventuallyPatched`, `CallsEnd`),
which is out of the prover's reach.

## 5. Plan

Done: the modules above, in the order: controller, worker and queue, server, socket, filter,
sinks, streams; then teardown, adapter, the abstract session, presets and the standalone mode;
and the proofs: every safety invariant and action property that a run checks is a theorem, and
so is the refinement of Session.

Left, of the model: the bootstrap composed with the socket (a second daemon starts a session
before it finds the socket taken), and node ids that PipeWire uses again (StreamPatching has
serials for them).

## 6. Not modelled

* Port mappers and small helpers: straight-line assignments, constants and formatting.
* The JSON encoding of requests and answers, which is nlohmann::json's, and the formatting of
  messages.
* The DSP itself, in LV2 plugins and zita-convolver; reading, resampling and normalising a
  kernel; the look-up of LV2 plugins and ports through lilv.
* The properties and ports handed to `pw_filter` and the search for ports: stages of the
  start that succeed or fail.
* `on_registry_global_remove` and ports: the router keeps a list of ports for linking only.
* Which of several payloads (`equalizer#0`, `equalizer#1`) the parser takes: the first one; a
  document has one payload of a kind.
* A second metadata object of the name `default`, which PipeWire does not have.
* The message that `init_error()` may read while a new initialisation changes it: a data race
  on a string, which only concerns the message.
* A conversion whose output is the text itself, and conversions of several texts: there is one
  text, and it stays.
* A failing `accept4`, which is retried at once; the environment variables with which the
  daemon refuses every request for the life of the process.
