# TLA+ models of XPolicyLab and its VITRA policy

The repository trains a robot policy (VITRA) and runs it in two processes. A *policy
server* owns the model and serves it over a WebSocket; an *evaluation client* runs
next to the simulator or the robot, sends observations and receives actions. Around
them stand the VITRA adapter, which remembers each environment between calls, the
loop that runs evaluation episodes, the scripts that start the two processes, and the
training program that writes the checkpoints the server loads.

What makes this code hard is seldom arithmetic. One event loop interleaves several
connections, a retry must not run the model twice, a model that hangs must not hang
the server; a training job crashes between two files of one checkpoint; a hand of an
action row fails when the other one has already moved; a label is one row later than
the state it belongs to. The models keep this control and abstract the data to what
the properties tell apart.

Paths below are relative to `src/XPolicyLab/` unless they start with `src/`; `vitra/`
stands for `policy/VITRA/VITRA/vitra/`.

1. Inventory · 2. Modules · 3. Runs · 4. PolicyServer · 5. PolicyEvalClient ·
6. ManoSession and EvalLoop · 7. The rest of the serving side · 8. Training ·
9. What is proved · 10. Findings · 11. Not modelled

## 1. Inventory

| Component | State it keeps | Operations | Module | Status |
|---|---|---|---|---|
| WebSocket policy server `client_server/ws/model_server.py` | `_response_cache`, `_inflight`, `_model_lock`; per connection `pending`, `send_lock` | `start`, `stop`, `_handle_connection`, `respond`, `process_frame`, `_execute_once`, `_execute_frame`, `_dispatch_frame`, `_handle_infer` | `PolicyServer` | modelled |
| WebSocket client `ws/protocol/client.py`, `ws/model_client.py` | `_ws`, `_recv_task`, `_pending`, `_server_instance_id`, `_closed` | `connect`, `request`, `_recv_loop`, `close`, the wrapper's loop thread | `PolicyEvalClient` | partly |
| Wire format `ws/protocol/{codec,schemas,messages}.py` | none | encode, decode, validate | frames of `PolicyServer` | partly |
| VITRA adapter `policy/VITRA/model.py` | for every environment: tick, waiting key frames, solver seed, last encoding; the loaded run | constructor, `reset`, `update_obs_batch`, `get_action_batch`, camera preparation | `ManoSession`, `ModelSetup`, `HeadCamera` | partly |
| Evaluation loop `policy/VITRA/deploy.py` | running indices, action chunks, previous command and live observation | `eval_one_episode`, `eval_one_episode_batch` | `EvalLoop` | modelled |
| H1 Inspire retargeting `policy/VITRA/h1_*.py` | warm starts of both conversions | `h1_to_wuji`, `wuji_to_h1`, snapshot and restore | `HandAdapter` | partly |
| MANO45 runtime `policy/VITRA/mano45_*.py` | the last committed row | decoding of a chunk | `ManoDecode` | partly |
| Fitted inverses (fitting scripts and loaders) | artifacts on disk and in memory | fit, write, resolve, load, compare | `InverseArtifact` | partly |
| Checkpoint selection `utils/checkpoint_resolver.py` | files of a run | resolve root, weights, statistics | `ModelSetup` | modelled |
| Launch scripts `policy/VITRA/eval.sh`, `utils/*.sh`, `setup_policy_server.py` | a port, two processes | choose, start, wait, run, stop | `Launch` | modelled |
| Demo policy, debug client `debug_env_client.py` | an episode counter | run episodes | client of `Launch` | partly |
| Legacy TCP transport `client_server/tcp/` | socket, a thread for each connection | connect, call, serve | `LegacyTcp` | modelled |
| Training, checkpoints and resume `vitra/training/`, `scripts/train.py`, `train.sh` | files of a save, optimizer, schedule, counters | save, crash, resume, step | `Checkpoint`, `TrainingRun`, `LrSchedule` | partly |
| Checkpoint verification `policy/VITRA/verify_checkpoints.py` | none | accept or refuse directories | `Checkpoint` | modelled |
| Batch sampler and mixture `vitra/datasets/dataset.py` | epoch and position of each rank | `set_epoch`, `__iter__` | `BatchSampler` | partly |
| Datasets and augmentation `vitra/datasets/` | file handles, caches | build, `__getitem__`, augment, encode, decode | `EpisodeWindows`, `HumanWindows`, `ActionCodec` | partly |
| Preparation of training data `src/data_scripts/`, the checks of `train.sh` | the files of a data root | discover, wrap, link, manifest, statistics, checksums, marker, accept | `DataPreparation` | partly |
| Networks, diffusion, action models `vitra/models/` | tensors | forward, loss, sampling | none | not modelled |
| Format converters `scripts/`, `src/data_scripts/convert_*` | none that outlives a run | convert a data set | none | not modelled |
| Observation helpers and templates | none | decode images, placeholders | none | not modelled |

How they interact. The launch script finds a port, starts the server and, when
somebody listens, the client. The evaluation loop calls the client synchronously
(`call(func_name=..., obs=...)`); the client wraps each call into one request with a
fresh `request_id` and sends it as one frame. The server calls the method of the
adapter that the frame names and answers with the same id. The adapter keeps state of
each environment from call to call, so running one call twice, or two at once,
corrupts it: that is what the retry, cache and lock machinery in between has to
exclude. Inside a call the adapter converts the robot's hands to the hand the network
knows and back, by iterative solvers that start from their last result. The
constructor of the adapter reads the run that training wrote: checkpoint,
configuration, statistics and, when asked for, a fitted inverse, all of which are
separate files that other jobs rewrite.

### Behaviours that are hard, and what must hold

* **Server.** Connections, respond tasks, executions and `stop()` interleave on one
  loop; a connection is lost while its request executes; a retry arrives while the
  first copy is executing, cached, or just evicted; the model hangs; a result cannot
  be encoded after it has been cached. *Must hold:* one execution for each id at a
  time and, while its entry is cached, one for ever; the model is never entered twice
  at once; all copies of a request get the same answer, of their own id and type; the
  respond tasks are bounded; a lost connection and `stop()` end.
* **Client.** Connecting, the handshake, the single retry, timeouts, the receive loop
  of an older connection and `close()` overlap. *Must hold:* at most two copies of a
  request, none after a timeout and none after `close()`; all requests reach one
  server process; an answer resolves the request it belongs to; nothing leaks; every
  call returns.
* **Adapter and loop.** Every second observation is a key frame, fitted later, from
  the fit before it; a batch may fail half way; environments end at different times.
  *Must hold:* the solver seed is the chain of all even ticks, whatever failed and was
  repeated; queries land on key frames; an action is executed in the environment and
  at the moment it was predicted for.
* **Hands.** One hand of a frame, or of a late row, fails when others have moved.
  *Must hold:* a frame or a chunk is converted whole or leaves no trace; one hand
  never moves alone.
* **Checkpoints and training.** A crash falls between two files of one save, or a
  write fails on one rank; a resume counts batches where the checkpoint counts steps.
  *Must hold:* what a resume loads belongs together; no rank is stranded; batches are
  used once and in order; the learning rates follow the schedule.
* **Data.** Rows, labels and texts are numbered in several ways. *Must hold:* a label
  is the motion from its state to the next; mirrored samples are mirrored in all
  parts; what the network was trained with comes back as the recorded commands.
* **Preparation.** A data root is filled by programs that may stop anywhere and are
  started again, over more recordings or others. *Must hold:* what training accepts is
  of one piece.
* **Starting.** Ports, statistics and artifacts are looked at in one step and used in
  another. *Must hold:* nothing outlives an evaluation; what is served is of one run.

The full list, with the line each hazard bites at, is `hazards` in `PROJECT.json`.

## 2. Modules

| Module | Models | Built on |
|---|---|---|
| `PolicyServer` | the server | |
| `PolicyEvalClient` | the client, with server processes and network as environment | |
| `ManoSession` | the calls of one MANO45 session | |
| `EvalLoop` | the evaluation loop composed with the session | extends `ManoSession` |
| `HandAdapter`, `ManoDecode`, `InverseArtifact` | hands: solvers, chunk decoding, artifacts | |
| `ModelSetup`, `HeadCamera` | what is loaded, which camera the model is given | |
| `LegacyTcp`, `Launch` | the older transport, one evaluation from shell to exit | |
| `DurableTraining` | abstract: one lineage of training, of which a prefix is kept | |
| `Checkpoint` | all ranks saving, crashes, resume, readers | implements `DurableTraining` |
| `TrainingRun`, `LrSchedule`, `BatchSampler` | the loop over batches, the rates, the draws | |
| `EpisodeWindows`, `HumanWindows`, `ActionCodec` | the samples of robots and of human videos, and the vectors made of them | |
| `DataPreparation` | from recordings to a data root that training accepts | |
| `Serving` | the parts of the serving side, one at a time | extends `EvalLoop`, instances of `ManoSession`, `HandAdapter`, `ManoDecode`, `LegacyTcp`, `Launch`, `ModelSetup`, `HeadCamera`, `InverseArtifact` |
| `Training` | the parts of a training job, one at a time | extends `Checkpoint`, instances of the other modules of training |

`MCPolicyServer`, `MCPolicyEvalClient`, `MCTrainingRun`, `MCLrSchedule`, `MCManoDecode` and
`MCHumanWindows` give the constants values for TLC; `MCServerLoad` runs two loads on
one server. `MCServing` and `MCTraining` do the same for `Serving` and `Training`, which
bring together the parts of the serving side and of a training job. Those parts share
no variable, so a behaviour of the composed specification exercises one part, chosen
by `part` at Init, while the others rest: this explores the same states as one run for
each part, and the theorems about it hold for each part by itself. `EvalLoop` with `ManoSession`
is a real composition, of parts that interact.

The modules named `...Proofs` hold the theorems (section 9). Definitions that no
specification uses and whose comment begins with "Mutant of" are bugs that might have
been written; `PROJECT.json` pairs each with the property that catches it.

## 3. Runs

| Run | Instance | Question |
|---|---|---|
| `ServerLoad` | 3 frames, 2 ids, 2 connections, a cache of 1, a cap of 1 | retries, evictions, drops, stops; ids reused for several types; results that cannot be encoded; INFER pairs |
| `ServerLive` | 2 frames, 2 ids, 1 connection, a cap of 2; fair loop, a model that may hang | is every accepted frame answered unless the model hangs, and do lost connections and `stop()` end? |
| `ServerStopHangs` | the same at a cap of 1: a violation | section 10 |
| `ClientRetry` | 2 requests, 3 connections, 2 attempts to connect, 2 server processes, `close()` at any point | copies, identity, answers, timeouts, leaks |
| `ClientLive` | 1 request, 2 connections; fair loop | do every request and `close()` return? |
| `Serving` | nine parts, below | the rest of the serving side |
| `Training` | eight parts, below | training |
| `TrainEpochEnd`, `LrResume`, `HumanRephrase`, `ManoOffset`, `ManoHold` | small instances of one module: violations | section 10 |

**ServerLoad.** Three frames are enough for a first copy, its retry and one request
that evicts it; a cache of one entry makes eviction happen at once where the code's
256 would need 257 ids; a cap of one makes the reader answer inline. Two connections
tell the lost one from the one the retry uses. Frames of every type with every result
are mixed in behaviours of two frames (`MixedFrames`); behaviours of three have calls
that succeed. That is where the pairs happen: one id used for two types, two copies of
an unencodable result, two INFERs at once.

**ClientRetry.** Three connections are one for the first copy, one that fails during
the reconnect and one for the retry; two processes allow a restart between any two of
them.

**Serving.** *loop*: 3 environments, 8 observations, chunks of 4 — an environment may
end inside a chunk, twice, and the first or the middle one may leave. *session*: 2
environments, 4 observations, so that a replay of two key frames, a failed one and a
repeated one all happen. *hands*: 2 environments, 2 rows, 2 retries, 5 frames, errors on
both sides of the gate and not-a-number. *decode*: 3 rows, errors on either side of
each limit. *legacy*: 3 calls of which one raises, 3 lost connections. *launch*: 2
ports, 2 episodes, other programs that take and leave ports, signals. *setup*: three
candidates for a run's directory and a place elsewhere for statistics, 2 checkpoints, 2
contents, and 4 changes of the disk before, between and after the steps of the constructor
— enough for two runs that are started, of which one saves or has its statistics
rewritten. *camera*: two allowed sizes and one that is not. *inverse*: two artifacts
written, trees replaced once, two runs, two hands, each at any step of a loader.

**Training.** *save*: 2 ranks, 3 saves, 3 launches, 2 failed writes, started by `train.sh`
or `train.py`. *loop*: 10 batches an epoch, an optimizer step every 2, a save every 2 steps,
6 steps and the one a finished run makes when it is started again, 4 launches — the epoch
boundary falls between two saves. *sampler*: datasets of 2, 4 and 3 samples with weights 2,
0.5 and 1, so that an epoch goes more than once, half and exactly once through one; 2 ranks,
batches of 2, padded and cut, 3 epochs. *rates*: four schedules, a warm-up of 3, 6 steps, 4
launches: a resume may fall inside the warm-up, behind it, and into the second one. *robot*:
episodes of 2, 3, 2 rows and of 3, 1 (refused), a trainer and a worker with 2 open files.
*human*: 4 frames, the other hand with no clip, one, or two in a row. *codec*: 3 frames
whose turns do not commute, a camera that stands or moves, every mapping table of two
joints. *data*: five recordings in two sources, among them two of one name and two that meet
at one place; four pipelines, each started twice, with 2 episodes expected.

`CHECK_DEADLOCK FALSE` is said where the program stops for good: after `close()`, after
the last episode, the last launch or the last row, and where a bound ends a behaviour.
The server's runs check deadlock.

Fairness. `LoopFairness` of the server and `Fairness` of the client say the event loop runs
every ready task and every expired timer. The model lock needs strong fairness
(`AcquireLock`): `asyncio.Lock` serves its waiters in order, so a waiter is not
overtaken for ever. That the model returns is assumed nowhere; `AnsweredUnlessHung`
has it as a premise. Peers, server processes and the network are not fair at all. For
`LeaveTogether`, ranks and writer threads run (`WF_vars(Write)`, `WF_vars(Save(r))`);
nobody promises a launch or a crash.

## 4. PolicyServer

| Variable | Code (`client_server/ws/model_server.py`) |
|---|---|
| `server` | `start()`/`stop()`: *closing* is `close()` + `wait_closed()`, *draining* the wait for the in-flight snapshot |
| `sock`, `inbox`, `handler` | the transport, its buffered frames and the coroutine `_handle_connection` |
| `inline` | the attempt the handler answers itself when the connection is at `_MAX_INFLIGHT_RESPONSES` |
| `frame`, `pc`, `awaits`, `reply` | one *attempt*: a frame a peer sent, and its `respond` task |
| `task`, `outcome` | the execution task the attempt leads (`_execute_frame`) |
| `inflight`, `lock` | `_inflight`, `_model_lock` |
| `cache`, `recency`, `evicted` | `_response_cache`: what is stored, the position in the `OrderedDict`, how often an id fell out |
| `drainSet`, `abandoned` | what `stop()` waits for, and what it logged as still running |
| `calls` | history: executions of an id that entered the model |

One action is the code between two awaits. Ready tasks run in any order, which
includes the order of asyncio's queue. `TakeFrame` is the head of the reader
loop, `ReplayCached`/`JoinInflight`/`LeadExecution` the three ways through
`process_frame` and `_execute_once` (no await lies between the cache look-up,
the in-flight look-up and the registration, so each is one step), `Resume`,
`CloseSocket` and `SendReply` the rest of `respond`, `Dispatch` to `InferActs`
the branches of `_dispatch_frame`, `PopInflight` the done callback, and
`CloseServer` to `StopTimeout` the stages of `stop()`.

Abstractions. Message payloads are left out; what a model call returns is *ok*,
*bad* (the codec cannot encode it) or *error*. `Pending` counts the tasks that
have not ended; the code's set drops a task one loop turn later, which only makes
the reader answer inline earlier. Messages on one socket arrive in order. A
restart inside one process keeps the cache, as the same object does. A peer
opens each connection once.

## 5. PolicyEvalClient

| Variable | Code (`client_server/ws/protocol/client.py`, `ws/model_client.py`) |
|---|---|
| `epoch`, `up`, `link`, `peer`, `unanswered` | the server process and the network, external |
| `ws`, `recvTask`, `recv` | `_ws`, `_recv_task`, and the `_recv_loop` of each connection |
| `pinned`, `closed`, `pending` | `_server_instance_id`, `_closed`, `_pending` |
| `fut` | the future the caller awaits, and the frame that resolved it |
| `stage`, `req`, `attempts`, `retried`, `recheck`, `on`, `joining`, `after` | where the caller is in `connect()`/`request()` and its locals |
| `closer`, `closerJoins` | progress of `close()` |
| `copies`, `seenBy`, `expired`, `result` | history, and how requests ended |

The caller is one coroutine: `WsModelClient` submits one request at a time and
waits for it, and only a `KeyboardInterrupt` leaves one behind while `close()`
runs. `Reset` is the synchronous half of `_reset_connection_state`; the
stage *reset* is its second half, which waits for the cancelled loop. A HELLO
has a fresh id on a fresh connection, so the connection stands for its id.

Left out: the branch for servers that send no instance id (this server always
does), replies of an unexpected type (this server sends none), a receive loop
ended by a frame its decoder rejects.

## 6. ManoSession and EvalLoop

| Variable | Code (`policy/VITRA/model.py`) |
|---|---|
| `tick`, `keys` | `_mano_next_tick`, `_mano_pending_keyframes` |
| `fit` | `_mano_fit_previous`: the fitted ticks the seed is the result of; absent is `<<>>` |
| `encoded` | `_observations`: the tick of the observation that was encoded |
| `op`, `todo`, `history`, `saved` | the method that runs, the environments it has still to serve, the key frames it has still to replay, `previous_before` |
| `answer`, `failed` | what the running or last call returned |
| `torn` | history: environments that lost a key frame since the reset |

| Variable | Code (`policy/VITRA/deploy.py`) |
|---|---|
| `stage` | the statement of the loop: a query, the wait for one of its three calls, the execution of an action |
| `running` | `TASK_ENV.get_running_env_idx_list()` |
| `group`, `chunks`, `idx` | `env_idx_list`, `actions`, `action_idx` |
| `previous`, `live` | `previous_original_by_env`, `live_obs_by_env` |

`Buffer` is one round of the loop in `update_obs_batch`; `AlreadyEncoded` to
`Predict` are the stages of one round in `get_action_batch`, each with the action
that is its failure. The methods run under the lock of the server, so a call
begins only when none runs. `EvalLoop` extends the session and starts its
calls. `Abort` is a call that raises and also a call the client gives up on while the
session goes on: the next episode's `reset` then waits for the lock. A call that is
lost before the session sees it is `ConversionFails`, or `Abort` before the next
call begins.

Abstractions. The data of an observation is its tick, a prediction is the tick
it was made from, a command is its place in the chunk of a prediction. An
episode may end after any action and does end before `MaxTick` observations
of an environment. The index list that `get_action` falls back on is left out:
the loop with one environment always falls back on that environment.
Two things the code allows are outside: a snapshot that raises
(`SnapshotFails`) loses a key frame and keeps the previous encoding, so both
properties of the session except the environments in `torn` until the reset; and
an `update_obs` the client gave up on while its images were being decoded may
reach the model after the next reset.

## 7. The rest of the serving side

**HandAdapter** (`h1_inspire_retarget.py`, `model.py` around it). `seed` is the cache of
warm starts (`_previous_wuji`, `_previous_inspire`), `snapshot` the copy the model takes
before an observation or a chunk, `attempt`/`best` the retries from other starts, `stage`
the statement: first solve, retry, gate, linear fallback. `Call`, `FirstSolve`, `Retry`,
`Commit` and `Raise` follow the call through environments, rows and sides: when a hand
raises, the environment's starts are put back, and only the environment's: an earlier
environment of the batch keeps what it was served. Frames are numbered; a start is the
number of the frame whose fit it is. Of a fit only its flag and its error are kept, so every
solver result is possible. `HandsTransactional` is the claim of the snapshot and, in
`Serving`, that of the search too (`GoodFitServed`): an acceptable candidate is not
displaced by a smaller error that was refused.

**ManoDecode** (`mano_action_chunk_to_xpolicy`, `mano45_runtime.py`). Rows are decoded left
then right; `tried` says which inverses were asked, `candidate` holds the left hand until
the right one is decoded, `current` the roots the next row is relative to, `output` the
commands. `ChunksDecodeWhole`: both hands of a row or none, the last complete command to
the end of the chunk after a failure, each row starting from the last committed one.

**InverseArtifact** (the fitting scripts and three loaders). `file` is the artifact on disk,
`forest` the decoder's trees, `saved` what a run's configuration says of the artifact,
`asked` what the deployment resolved, `base` the run and the hand of the process that loads,
`loaded` what is in memory. Fitting scripts write in place (a digest of 0 is half a file),
runs and hands are replaced. Every look at a file is a step of its own: `Hash` takes the
digest of the artifact and `Read` opens it again, `HashForest` and `LoadForest` do the same
with the trees, and `HashHand` takes the digests of the hand and of its sources, which are
those on disk and not those the process imported (`h1_paired12_inverse.py:36-43`). Files may
be replaced between any two of them; `InverseFits` says what is in memory then: the file of
the digest unless the artifact was replaced between the two (`swapped`), the trees the
artifact was fitted with unless they were (`regrown`), the hand of the process unless
another was installed meanwhile (`exchanged`). The trees of the two sides are two files, of
which the model has one. The MANO inverse records no run, so that it was fitted for the
served run is not claimed, nor that the generic fit (`mano45_linear_inverse.py`) passed a
test, which nobody looks at.

**ModelSetup** (constructor of the model, `checkpoint_resolver.py`). The disk has `weights`,
`config` and `stats` of each candidate directory, and training jobs and tools change them at
any moment (`StartRun`, `ResumeRun`, `SaveStep`, `RewriteStats`). The constructor goes
through four steps, with what it found so far in `plan`: `Select` takes the first root and
its newest checkpoint, `Configure` the configuration and the statistics — those a deployment
names (`model_config_path`, `statistics_path`), else those of the configuration's directory,
else those beside the weights — `Bind` opens the configuration again, decides the
representation and compares the digest, and `Load` opens the statistics again; `Raise` gives
up at any of them. A deployment may name the configuration of another run than the one whose
weights it loads (`model.py:488-495`), and nothing compares the two; `ServedIsOneRun` says
what is bound all the same: the representation is the configuration's, the statistics are
those whose digest it recorded unless they were rewritten between comparison and reading
(`rewritten`), and where it recorded none they are a file of the configuration's run or of
the weights'. Once loaded, everything is in memory, so the disk rests while the model
serves. The statistics are opened once more in between, to check their shape
(`model.py:1246`), which can only refuse, as `Raise` does.
**HeadCamera** (`model.py`, head camera): validation, stretching with the intrinsics, and
the calibration profile that only a simulator may fall back on. The scaled matrix is stored
under `intrinsics` whatever its field was called, which is part of `Resize`.

**LegacyTcp** (`client_server/tcp/`): no request ids. `Call`, `Receive`, `ReceiveFails` and
the single reconnect on one side, a thread for each connection without a lock on the
other. It keeps its caller's answers apart by closing the socket, may execute a call
twice, even at once, and never three times. It is for adapters that were not migrated
(`README.md:141`); the VITRA server uses WebSocket.

**Launch** (`eval.sh` to the exit trap). `listener` says who listens on each port. The port
is found free, not kept: `_port_is_listening` cannot tell whether the server or another
program listens, so `ClientMeetsListener` claims no more than that somebody did while the
server was alive, not that it was the server of this launch. `NothingLeftBehind` holds but
for a signal between the start of the server and the assignment of its process id, which the
property states.

## 8. Training

**Checkpoint** (`fsdp.py` `save_checkpoint`; `train.sh`, `make_train_config.py`,
`scripts/train.py`, `verify_checkpoints.py`, the adapter's start). `phase` is where each
rank is inside a save, `writer` the two threads of rank zero, `verdict` what it broadcasts,
`disk` the directories. Time is counted in saves; the content of a state is the sequence of
launches that trained it, so equal contents have one history. `Train` makes the directory
and reuses an old one with all it holds. When the `mkdir` raises (`NoDirectory`,
`fsdp.py:198-199`) rank zero leaves alone: the call stands before the collectives and
outside `save_errors`, so nobody tells the other ranks, which stay at the gathering until
`torchrun` ends the job. `LeaveTogether` is therefore the claim of the comment at the
broadcast, about a *writer* that failed, and says of the failed `mkdir` what is left: the
others have written nothing. What each launcher takes for a checkpoint differs: `train.sh`
wants all files, `train.py` (`find_last_checkpoint`, `torch_utils.py:115`) takes a directory
with `weights.pt` only. The claims are made for `train.sh`, the documented way
(`policy/VITRA/README.md:103-120`).

**DurableTraining** is the promise: one lineage, of which a prefix is kept; a save keeps
all of it at once, a crash loses the rest, a resume goes on there. `SavesAtomically`
says that `Checkpoint` implements it: `Lineage` is the memory, `Kept` the newest
complete directory, and the writing threads, barriers, failed writes and quarantined
directories in between are stutters.

**TrainingRun** (`run_training`, resume in `scripts/train.py`): a batch is named by epoch and
position; `pending` are the batches whose gradients wait; a resume calls `set_epoch` with
the step times the accumulation. `TrainsInOrder`: crashes leave no trace in the sequence
of batches behind the weights. The head of each epoch drops `pending` (`fsdp.py:494`),
while `train_idx` runs on: when an epoch is not a multiple of the accumulation, its last
batches are lost and the sequence is no longer the uninterrupted one. The run has an epoch
that is a multiple; the other case is known and not claimed.

**BatchSampler**: the draws of all epochs are whole permutations end to end, of which each
rank takes every `Replicas`-th. A rotation stands for `torch.randperm`.
**LrSchedule**: optimizer, schedule and what is saved of them, for every step of every launch.
`StepsUseTheirRate` gives each step its rate as the code does, which is not as the docstring at
`fsdp.py:53` has it ("zero for the first `num_warmup_steps` steps"): the freeze schedule acts on
optimizers of its own (`fsdp.py:422`) and reaches the groups only with its first step, so step
1 trains the backbone at its full rate; the first step of a resumed launch has the rate the
launch before would have used next, because the optimizer is restored; and from the second
on the schedule counts from its beginning, so a resumed backbone is frozen a second time.
The three other schedules make rank zero raise when it logs (`metrics.py:322` takes a rate that
only the freeze schedule commits): `died`, and `OthersEndAtOnce` says that none of them gets
beyond its first step or to a checkpoint.

**EpisodeWindows** (`spark0_dataset.py`, its copy `egovla_inspire_dataset.py`,
`FrameDataset`): poses are named by the time they were recorded at, so a label `[from |-> 3,
to |-> 4]` is right and `[from |-> 3, to |-> 3]` is the off-by-one. File handles belong to a
process: a forked worker has its parent's and must not read through them. For wuji20 and
inspire12 the last frame of an episode is a sample too, and its window has no row that
counts.
**HumanWindows** (`human_dataset.py`, `augment_utils.py`): windows clipped to the clip of
each hand, and the steps of the augmentation, any of which may raise. A clip ends before its
end frame; the frame after a window repeats the last one there. Left out, and known from the
reading: the mirrored text is made by word replacement, which turns "bright" into "bleft"
(`augment_utils.py:400-410`), and the text of the other hand may be dropped ("None.") while
its actions still count.
**ActionCodec**: a recording, the vector it becomes, and the commands made from what the
network answers, which here is what it was trained to. A rotation is a permutation of the
axes, enough for the side on which one is applied to matter. `ActionsReturn` says that the
recorded poses and hand commands come back. It assumes one mapping table for training and
serving: inspire12 training has the wrist calibration of identity in code
(`egovla_inspire_dataset.py:852-854`) where the runtime reads it from the mapping file, and
nothing binds that file to a run.

**DataPreparation** (`data_scripts/`, the checks at the head of `train.sh`). A root is filled by
one of four pipelines: `process` (`prepare_vitra_data.py`), `bench`
(`convert_spark0_real_bench.py`, through wrapper files), `inspire` and `humanoid`, which refuse a
root that exists. `tree` is what is read at each place, `manifest`, `stats`, `sums` and
`marker` the files written one after the other; `Stop` falls between any two of them, and
nothing is undone; a wrong link is repaired by `Unlink` and then `Link`, with a stop between the
two possible. `train.sh` compares representations, digests and counts, not the
episodes: a run that changed links or wrappers and ended before its statistics leaves
the older ones, which still look right. `behind` remembers that, and
`AcceptedIsConsistent` claims agreement of manifest, statistics and episodes where it is
false, and that what they speak of is there in any case but one: a run of
`prepare_vitra_data.py --replace-wrong-symlinks` that is broken off between the unlink and the
link of lines 234 and 235 leaves a root whose manifest names an episode that is gone, and
`train.sh` accepts it. `validate_vitra_data.py` is left
out: nothing reads its report.

## 9. What is proved

Every proof is checked by TLAPS to its last leaf, for all values of the constants that
satisfy the named assumptions of the modules: known message types, a cache of at least
one entry, `None` no value of anything else, bounds that are numbers, an even chunk
(`ChunkAssumption`, as the constructor of the model demands), a writing rank among the
ranks, datasets with samples, windows and rates that are numbers, recordings whose poses
are poses. TLC evaluates them in the runs. The invariants below are the strengthenings that
make the properties inductive.

| Module | Theorems |
|---|---|
| `PolicyServerProofs` | `TypeCorrect`, `Inductive`, `SingleFlightHolds`, `ModelMutexHolds`, `CacheBoundedHolds`, `InferPairAtomicHolds`, `AtMostOncePerResidenceHolds`, `AnswersOwnRequestHolds`, `LoadInductive`, `StopDrainsHolds`, `BackpressureHolds`, `OneAnswerHolds` |
| `PolicyEvalClientProofs` | `ClientTypes`, `AlwaysOneServer`, `NeverThreeCopies`, `AlwaysOwnAnswer`, `NothingLeaks`, `TimeoutsAreFinal`, `ClosedIsSilent` |
| `ManoSessionProofs` | `SessionTypes`, `AlwaysFollowsEvenTicks`, `AlwaysPredictsLatest` |
| `EvalLoopProofs` | `TypeCorrect`, `Inductive`, `QueriesEvenTicksHolds`, `ActsInStepHolds`, `RebasesOwnCommandHolds` |
| `HandAdapterProofs` | `HandsAlwaysTransactional`, `GoodFitAlwaysServed` |
| `CheckpointProofs` | `CheckpointTypes`, `PairAlwaysMatches`, `ServedIsAlwaysWhole`, `FinishedAlwaysVerifies`, `SavesAreAtomic` |
| `ServingProofs` | `SessionAlwaysFollowsTicks`, `HandsAlwaysTransactional`, `InverseAlwaysFits`, `LaunchIsAlwaysClean`, `ChunksAlwaysDecodeWhole`, `InputsAlwaysConsistent`, `LegacyAlwaysAnswered` |
| `TrainingProofs` | `TrainsAlwaysInOrder`, `EpochsAlwaysShared`, `RatesAlwaysFollow`, `RobotSamplesAlwaysRight`, `HumanSamplesAlwaysRight`, `ActionsAlwaysReturn`, `DataAlwaysConsistent` |

**Server.** An attempt that waits points to a leader of its own id and type; an active or
just ended execution is the one registered under its id; an id in flight is not cached
before it ends; the holder of the lock is inside the model. `SingleFlight` alone is not
inductive: `LeadExecution` preserves it only because every active execution is
registered. `AtMostOncePerResidence` ties `calls` to the residence: an id that is neither
cached nor in flight was called at most `evicted` times. `AnswersOwnRequest` follows whatever
a task or the cache holds back to an execution of the same id and type.

**Server under load.** `Inboxes`: a frame in a transport was sent on it. `Handled`: a respond
task lives only while its handler does. `Quiesced`: once `stop()` has taken its snapshot no
handler is left, so nothing begins, and what runs is in the snapshot or was given up. `Capped`:
`Pending` is finite and within the cap; the inline path is what keeps it there.
`OneAnswerPerRequest` needs what a peer is told at each moment: an execution runs only while its
never-evicted id is uncached, what it leaves is what is cached, and a cached answer
changes only by the repair of one that could not be encoded, which is the same for all.

**Client.** `Links`: a connection that is open, or whose loop runs, is the current one, and
`close()` leaves none. `Pinned`: requests go out on connections to the pinned process only.
`Asking`: a request that has not ended was delivered no more often than its budget, one
for the retry it has used and one for the wait it is in, and the future resolved by its own id.

**Session and loop.** While key frames are replayed, the seed and what is left of them make
up what was there before (`Replaying`); what is encoded is the latest observation and no
key frame waits behind it (`Latest`); a latest key frame that is not encoded waits (`Waiting`).
The loop adds that at a query all running ticks are even, that `group` lists the running
environments once each, that the live observation is the last one buffered or about to
be, and that answers so far and environments still to be served make up `group`. That
`Chunk` is even is used once, from the last action to the next query.

**Hands.** Between calls both starts of an environment are of the frame last
served; inside one, of the row before, and the snapshot is what was last served.

**Checkpoints.** `Protocol`: how far the ranks are apart inside one save, by what rank zero
has told. `Dirs`: weights have the length of the step they are named after. `OneHistory`:
under `train.sh` all directories but the newest are complete and nothing newer than the
current step exists. `Newest`: what the directory of the running save holds. The refinement
maps the writing of `meta.json`, after both threads have joined without error, to the
atomic save, a crash to `Lose`, the two launches to `Resume` and `Train` to itself; the
barriers, the writing threads, the broadcast and the operator's quarantine are stutters.
Files are replaced whole because `save_with_time` writes a temporary file and renames it.

**Around a server.** In `Serving` one part moves in each behaviour, so a step of a part is a
step of its own specification or a stutter (`PartSteps`), and a part's invariant is proved
of its own steps. The launch (`LaunchInv`): what listens as ours is the server of the launch
on the port it was told; the shell reaches the environment only after somebody listened
there. The decoder (`DecodeInv`): while a row is decided the output is the rows before it
and the safe command the last of them, and a left hand that was decoded is of this row. The
choice of run (`SetupInv`): saved checkpoints have a newest one (`HasNewest`), whatever
trains meanwhile; what was selected was the first and the newest until a run moved on
(`Selected`); statistics that were not named are the configuration's or the weights'
(`Configured`); and what was compared still is, or is noted as rewritten (`BoundTo`). The
camera (`CameraInv`): an image kept its size, or was stretched together with its one matrix.
The legacy transport (`LegacyInv`): the client's connection carries the call under way and
nothing else, and what ran of a call and what still waits of it, on any connection, is no
more than was sent. The inverses (`InverseInv`): from `Hash` to `Read`, and from
`HashForest` to `LoadForest`, a digest that was compared is that of the file unless it was
replaced since, and the hand that was found is the process's unless another was installed.

**Around a training job.** The same split. `TrainsAlwaysInOrder` has the one condition
without which it is false: `SavesInsideEpochs`, accumulations end with the epochs, and no
checkpoint but the last is made where an epoch ends (the run `TrainEpochEnd` shows the other
case). Its invariant gives every checkpoint the position it is resumed at
(`GoodCheckpoint`). The rates (`RatesInv`) say of which step of which launch's schedule each
rate is, those of the checkpoint included. The robot's samples (`RobotInv`): handles are of
the process that uses them, and the samples before a sample are counted by a bijection with
the numbers below its own. Running totals are recursive functions over the naturals: that
one exists, and that it is the one defined, is proved from a least counterexample (`Least`,
`AllNumbers`), since the induction theorems of the library cannot be instantiated. The human
samples (`HumanInv`): rows and words are of the frame, and augmentation works on copies
until they are handed over in one step. The codec (`CodecInv`): poses form a group, and the
poses integrated from the rows of a sample are the recorded ones (`PathFollows`). The
preparation (`PrepInv`): what manifest and statistics speak of is in the tree, in every
pipeline that never unlinks, and they are of one piece unless the run that changed the tree
is behind with them.

**The sampler.** That the draws of an epoch are whole permutations (`RangeIsDraws`) holds by
arithmetic alone: a draw's number tells its round and its place. What the ranks do is in
`Shares`: of every epoch a rank has yielded the batches of its shard from one to another,
the latter being where it is, or the epoch's end for an epoch it has left; the former is the
first but for the epoch it was resumed in. `Yield` makes such a share longer (`ShareGrows`),
the end of an epoch begins an empty one. `ShardsDisjoint` follows from an injection: the place
in the list that an entry was taken from tells the rank by its remainder and the number in
the shard by its quotient. Batch size, ranks, lengths and draws are any numbers; nothing is
assumed of the permutations but their lengths, nor of the order the datasets are mixed in.

**Only model-checked.** Liveness (`AnsweredUnlessHung`, `HandlerEnds`, `StopReturns`,
`CallEnds`, `CloseEnds`, `LeaveTogether`) needs fairness and ENABLED, which TLAPS does not
support; the six runs that expect a violation show what they show on their instances.

## 10. Findings

Each is a run that expects a violation.

* `ServerStopHangs`: the comment at `client_server/ws/model_server.py:41-43` says a hung
  model must not block `stop()`. At the in-flight cap the handler answers a frame
  itself (line 211) and awaits the model, so `wait_closed()` (line 119) waits for that
  handler without a bound. Below the cap `ServerLive` shows that `stop()` returns.
* `TrainEpochEnd`: a checkpoint of a finished epoch is named after that epoch; a resume
  wraps its step to position 0 of the same epoch, which is trained again
  (`scripts/train.py:263`).
* `LrResume`: `load_optimizer_and_scheduler` loads no scheduler and none is saved
  (`vitra/training/fsdp.py:295`), so the schedule starts again after a resume.
* `HumanRephrase`: a rephrasing is looked up by the position of the clip among those that
  cover the frame (`human_dataset.py:441`), so a frame of the second clip may be told in the
  words of the first.
* `ManoOffset`: the palm offset of a later row is computed from the joints solved for
  the row before, where `mano45_runtime.py:641` says it is frozen to the observation's.
* `ManoHold`: a linear result within the limit of its artifact but beyond the codec's
  tolerance holds both hands without the geometric solver having been asked;
  `policy/VITRA/README.md:29` says only a failure of that fallback does.

Smaller observations, which no run states: a snapshot of a key frame that raises loses that
key frame until the reset (`model.py:1690`; the session's properties except such
environments, `torn`); an `update_obs` the client gave up on while its images were being
decoded may reach the model after the next reset; `load_datasets` lets every rank write the
same statistics file; a `mkdir` that fails in a save strands the other ranks
(`fsdp.py:199`); the backbone's first step is made at its full rate and it is frozen again
after a resume (`StepsUseTheirRate`); a repaired link is gone for a moment
(`prepare_vitra_data.py:234`); the weights of one run may be served with the configuration
of another (`model.py:488-495`); the digest of the hand's sources is that of the files on
disk (`h1_paired12_inverse.py:36`); the solver seed is kept in float64 as
`model.py:1551-1555` asks, but was cast to float32 by the converter
(`spark0_dataset.py:878`).

## 11. Not modelled

* Networks, diffusion, losses, kinematics, projections, colours, camera motion of human
  videos, regressions: tensor arithmetic, which is a matter of numbers and not of order or
  state, and out of what TLC can enumerate. Where their result steers control (a fit, an
  error, a refusal) every result is possible in the models.
* Scaling by statistics, undone by the same ones, and padding (`ActionCodec`); that they are
  the same ones is `ServedIsOneRun`.
* The byte format of the wire, configuration parsing, logging, the payload shaping of the
  client's named calls: no state.
* The format converters, which read one directory and write another and leave nothing
  behind; `validate_vitra_data.py` and `validate_mano45_linear_inverse_runtime.py`, which
  only report.
* The cache of episodes (`lru_cache`), which is a function of its argument; the index list
  that `get_action` falls back on, because the bundled loop with one environment always
  falls back on that environment.
* `wait_for_port.sh`, which `eval.sh` does not use; GPU, seed and environment names that the
  scripts pass on.
* In the client: the branch for servers that send no instance id, and a receive loop ended by
  a frame its decoder rejects; this server does neither.
