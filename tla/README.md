# A TLA+ model of video-preprocess

video-preprocess turns a video into scenes, key frames, transcripts, a timeline
and a searchable index.  An asyncio scheduler drives a DAG of Stages through an
executor; manifests on disk let an interrupted run be resumed and results be
reused; a service keeps public runs across process deaths; models sit behind
local providers or behind an HTTP server with its own job registry and threads;
scenes of a run can be found by a query and processed again.  This directory
models those parts, checks them with TLC and proves the most important facts
with TLAPS.

Paths below are relative to `src/src/video_preprocess/` unless they start with
`src/`.

## 1. The system

```
 CLI / REST (api/server.py)
   -> PipelineRunService             public runs, idempotency, retention      PipelineRuns
        -> PipelineApplicationService, LocalPipelineRuntimeFactory            OutputWorkspace
             -> planner, registry    order, selection, boundary inputs        StagePlanner, LegacyBindings
             -> PipelineEngine       DAG scheduler, retries, journal          PipelineEngine
                  |   |                     implements DagRun
                  |   +-> LocalRunStore, cache evaluator, LocalArtifactStore  OutputWorkspace
                  +-> LocalExecutor  jobs, slots, cancellation                LocalExecutor
                        |                   implements ExecutorPort
                        +-> LegacyStageTaskRunner                             LegacyPipeline
                              +-> Stage algorithms      SceneOverlays, AudioSpans, SceneCards, SceneSearch
                              +-> inference services -> InferenceGateway
                                    -> local providers                        LocalInference
                                    -> HTTPInferenceProvider                  InferenceCalls
                                         ~ network ~                          (uses JobServer)
                                            InferenceHTTPService              InferenceJobs
                                                                              implements JobServer
 query / reprocessing
   -> QueryService                   search, fusion, context budget           SceneSearch
   -> SceneReprocessingPlanner, ReprocessingArtifactImporter, overlays        SceneReprocessing
```

### Components, their state and what makes them correct

| component | state | operations | hard behaviour | what must hold |
|---|---|---|---|---|
| `executors/local.py` LocalExecutor | `_jobs`, `_idempotency`, `_attempts`, the semaphore, one background coroutine per job | submit, cancel, status, result, `_execute` | cancelled while queued or running, duplicate and conflicting submissions, loop teardown | bounded slots, at most one run per key and attempt, results final and truthful |
| `engine/pipeline.py` PipelineEngine + `engine/persistence.py` RunJournal | `pending`, `active`, `results`, `available`, two cancellation tokens, `stage_references` | run, preview, `_run_stage`, `_await_executor_result`, record_stage, finish | several coroutines end in one round; result, timeout and cancellation race; retries; write failures; crash and re-execution | dependencies first, justified verdict, no work after stop, lineage of resumed results, termination |
| `storage/local_runs.py` LocalRunStore, `engine/cache.py` | stage and run manifests, cache index files | save_stage, save_run, find_stages_by_cache_key, evaluate | crash between two writes, reused run ids, stale results | manifests reference what exists; a hit equals a recomputation; what can be reused is found |
| `services/pipeline_runs.py` PipelineRunService, repository, progress reader | snapshot files, `_tasks`, `_cancellations` | create, get, cancel, shutdown, `_execute`, `_refresh`, `_reconcile_interrupted_runs` | polls rewrite the snapshot a task also writes; retention on every save; process death anywhere | one run per key, verdicts final and the engine's, live runs never forgotten, capacity |
| `inference/http/server.py` InferenceHTTPService | `_jobs`, `_idempotency` under a lock, a loop thread, handler threads | submit, poll, cancel, `_execute`, prune, close | publication before the future exists, cancel against completion, pruning at capacity, reused ids | consistent bounded registry, accepted jobs answered, terminal jobs unchanged |
| `inference/http/provider.py` HTTPInferenceProvider | circuit breaker, retry and deadline state of each call | infer, capabilities, cancel | lost responses, Retry-After, timeouts, best-effort cancel | polls and cancels reach the right job, an open circuit is silent |
| `inference/gateway.py` InferenceGateway | `_active` requests | infer, cancel | capability check and call share a deadline | no leaked entries |
| `storage/local_artifacts.py` LocalArtifactStore | the files, `_pending` copies | put, publish, discard, register_existing, verify, materialize | crash around rename, files replaced in place | a reference never verifies against other bytes |
| `engine/planner.py`, `engine/registry.py`, `engine/defaults.py` | none (immutable) | plan | cycles, boundary inputs, partial plans | order respects dependencies, boundary inputs complete |
| `services/pipeline.py`, `services/local.py` | the ingested video | run, preview, restore of boundary inputs | a video replaced between runs, refused requests | a partial plan reads verified inputs of the same video |
| `api/server.py` | one event-loop thread | HTTP handlers | calls that time out while the coroutine goes on; close | delegates to PipelineRunService |
| `adapters/legacy_stages.py` | the shared PipelineContext, one lock per Stage, the folder | one binding per Stage | Stages in parallel on one context and folder, skips, leftovers | settings and inputs stay what the task was given; outputs are this run's |
| local providers and batching (`inference/local`, `inference/*.py`) | lock, lazily loaded model, response cache, load error | infer, warmup, health | callers that give up leave threads, shared keys, failing loads, batches | answers belong to questions, work is kept, no caller hangs |
| query, reprocessing (`services/query.py`, `services/reprocessing*.py`) | plan, pending copies | plan, import_plan, query | the source run changes under an awaited query or between copies | an import is one snapshot or nothing |
| Stage algorithms (`src/src/pipeline/stages`) | none | key frames, audio events, transcript, timeline, index, context | half-open interval edges, ties, budgets, merges by position | everything assigned once, nothing lost, budgets kept |
| media stages, runner, CLIs | none | ffmpeg, model and file I/O | - | - |
| `domain/*` | immutable values | validation | - | - |

`PROJECT.json` lists every component with its status, and every hazard at its
line with the properties that watch it.

## 2. The modules

Between two awaits asyncio code is atomic, so in `LocalExecutor`,
`PipelineEngine` and `PipelineRuns` an action is the code from one await to the
next.  The model server uses threads and a lock, so in `InferenceJobs` an action
is one critical section or one call between two of them; `LocalInference` has
threads behind a lock and an action for each step that may fail.  In
`InferenceCalls` the client is asyncio again, and its requests travel in worker
threads.

### ExecutorPort (abstract) and LocalExecutor

`ExecutorPort` states what the engine may rely on: an accepted task is run at
most once, under a bounded concurrency; its result appears once and stays; a
task withdrawn before it started ends cancelled.  `Abandon` is the end of the
event loop, which ends everything that is open except some tasks that had not
begun.

`LocalExecutor` has the job table (`state`, `completion`, `cancelRequested`,
`token`), the two dictionaries of `submit` (`idempotency`, `attempts`), the FIFO
queue of coroutines behind the semaphore (`waiting`), the runners at work
(`executing`) and a history variable counting runner calls (`invocations`).
`Submit` appends the new coroutine to the queue, `Acquire` is the body of
`_execute` up to the runner (the recheck of a completed job and of the
cancellation included), `RunnerReturns` the rest with `_normalize_result`;
`Cancel` finishes a queued job at once and leaves a running one to its runner;
`SignalToken` is the caller's CancellationToken; `Close` and `OrphanEnds` are the
teardown of the loop, which a runner in a worker thread outlives.  A coroutine
that is cancelled before its first step never enters the `try` of `_execute`:
`Close` leaves the jobs behind some position of the queue without a result.
`ImplementsPort` is the refinement, with `result <- completion`.

### DagRun (abstract) and PipelineEngine

`DagRun` is the promise of one run: a Stage is launched once, after all its
dependencies ended well and never after a Stage went wrong; the run is closed
only when nothing runs, with a verdict the Stage results justify.

`PipelineEngine` composes the engine with the *abstract* executor
(`Exec == INSTANCE ExecutorPort`): what is checked of the engine thus uses only
what the port promises, and `ExecutorImplementsPort` (proved) says the local
executor keeps that promise.  `EngineImplementsDagRun` is proved, too.  `Start`
and `Collect` are the scheduler loop (all
coroutines that have ended by the time `asyncio.wait` returns are handled in
one round), `CloseAfterError` its exception path, `Finish` the journal's final
manifest with the check of `LocalRunStore.save_run`.  `StageBegins`, `Observe`,
`Interrupt`, `Drain` and `NextAttempt` are `_run_stage` and
`_await_executor_result`: missing inputs, the candidate of an earlier
execution, a failing submit, the race of result, timeout and cancellation, the
wait for a withdrawn job, and the backoff.  Every attempt passes through
`RecordStage`: stage manifest, cache index, running manifest, any of which may
fail.  `Restart` is a process death (or the end) followed by another execution
of the same run id: the manifests stay, everything else is lost.

A skipped Stage registers its outputs like any other
(`LegacyStageTaskRunner.__call__`) and `run` passes them on: `Skipped(v)` is a reply
with documents, or with none, and lineage is claimed of both kinds of producers.
Artifacts are members of `Values`; a manifest keeps the inputs of its task and,
as history, the inputs the runner that produced the result really read
(`basis`), which is what the lineage part of `HistoryCoherent` compares.  Which
candidate the evaluator accepts is left open here except for the one thing
lineage depends on: the task, hence the inputs, must be equal.  The evaluator
itself is in `OutputWorkspace`.

### StagePlanner and LegacyBindings

`StagePlanner` has what `StageRegistry` and `DAGPlanner` compute, as recursive
functions over any registry: what is refused, Kahn's order with the smallest
name first, `stage`/`from`/`to` selections and the boundary inputs of a partial
plan.  `LegacyBindings` has the program's two registries (fourteen Stages, and
six for reprocessing), and which settings and overlay fields each Stage's
binding copies into the shared context.  An `ASSUME` of `OutputWorkspace` and of
`LegacyPipeline` makes TLC confirm that the planner accepts the registries used.

### OutputWorkspace

One output directory over several executions: whole and partial plans, forced
Stages and two settings, under run ids that are used again.  Contents are
recorded by how they were made (`Compute`), so a checksum is the content itself,
and equality of contents is equality of lineage.  `Begin` is
`PipelineApplicationService.run` with the factory's `create`: the video is copied
in, the boundary restored from the manifests of the same run and video, the
request refused if an input is missing (the copy stays).  `Evaluate` is
`_evaluate_cache` with the candidates of this run and of the cross-run index;
`Execute`, `Complete` and `Abort` are the Stage, which overwrites its file in
place; `Record` the three writes of a result, any of which may be the last one
before a crash; `Finish` the final manifest.  Between steps the user replaces the
video, files are damaged, models are deployed.  `preview` is evaluated at each
start and its answer kept as history.  Stages run one after the other here; their
interleavings are `PipelineEngine`'s and `LegacyPipeline`'s.

### LegacyPipeline

The real DAGs on one folder and one `PipelineContext`, for several requests after
each other.  A world says what is in a video and what its tools and services
will do; a file remembers the execution that wrote it.  `Begin`, `Succeed` and
`Raise` are `LegacyStageTaskRunner.__call__`: inputs verified, settings set and
restored, hooks that put the frames of a bundle in place, the module's product,
registered outputs and the outcome, under one lock per Stage, so
all Stages the engine allows run at once.  The six `...Skip` operators are the
reasons of the Stage modules.

### JobServer (abstract) and InferenceJobs

`JobServer` is what a client may rely on: a job is found under its request id and
under its idempotency key, lives queued, running, ended, never moves back, and
is forgotten only once it has ended.

`InferenceJobs` is the job registry of the model server.  `Submit`, `Dispatch` and `AttachFuture`
are the three steps of a submit handler; `CoroutineStarts`,
`CoroutineFinishes`, `CoroutineCancelled` are `_execute`, which looks its job up
by request id each time; `CancelBegins`, `CancelSignals`, `CancelMarks`,
`CancelAnswers` are one cancel handler.  Job objects are numbered in the order of
their creation, so that an old coroutine and a new job under the same request id
can be told apart.  `ImplementsJobServer` maps each id to the status of the job
filed under it.  It holds while request ids are used once (`Reuse = FALSE`), and
is then proved for any number of ids and threads.

### InferenceCalls

`HTTPInferenceProvider.infer` under the deadline of `InferenceGateway.infer`, for
several calls at once, composed with the *abstract* server (`Server == INSTANCE
JobServer`).  A call is a record: the operation of `_request_json` it is in
(capabilities, POST, GET, DELETE), the tries used, its request or the reply,
the id the server named (`remote`), the id in the path of its DELETE (`target`)
and what it will return.  The helper operators (`Attempt`, `Pausing`, `Retried`,
`Raised`, `CancelBestEffort`) are the pieces of code between two awaits and
return pairs of the call and the circuit breaker; an action combines them
(`Begin`, `Resume`, `TryFails`, `Receive...`, `Drop`, `GatewayTimeout`).  `Serve` is
the server's handler; the reply may be read, or the try may time out before.
`urllib` requests cannot be stopped: one that was given up stays in `late` and
may arrive at any later moment (`LateArrives`).  Time is not measured; a timeout,
the deadline and the end of a delay may come whenever the code is at a point
where it looks at the clock.  Two approximations: of a shielded DELETE nobody
waits for any more the request in flight goes on, its retries do not; replies that
end a call at once and say nothing of a job are left out: 401 (a wrong or missing
token, which the server sends before it looks at the registry), statuses the
reference server never sends (408, 403, 5xx other than 502-504) and malformed ones.
What the server does by itself is all that `JobServer` allows: a job may end
cancelled though no client asked, since the gateway behind it may answer CANCELLED
and its teardown cancels coroutines.

### LocalInference

The seven local providers are one machine and one module: `infer` puts
`_infer_sync` on a thread which holds the inference lock from the lookup of the
idempotency key to the store of the response (`Enter`, `Proceed`, `Fail`,
`Complete`); `...Steps` says what each of them does in between, in its order, and
`...Request` what each service sends next.  Callers are Stages (`asyncio.run`,
which joins the thread even after a timeout), queries inside a loop, which leave
it behind, and clients of the model server, who choose their own keys.  OCR is
the exception throughout: its "model" is the version of a command, looked up
once and for good.

### SceneOverlays and SceneReprocessing

`SceneOverlays` has the algorithms of the visual Stages: how many key frames a
scene gets, deduplication by perceptual hash (abstracted to numbers with their
distance), and how frames, captions and OCR of a second pass over some scenes
are merged into the documents of the first, by position.  The code's filters
over entries are `At`, the entries at given positions: unlike `SelectSeq` and the
folds of the library it can be expanded in a proof.  `SceneReprocessing`
puts the path around them: a plan whose refs are held while the query is awaited,
the import (verify all, copy all, publish all, then the manifest), failures and
crashes at each copy, retries, and the source run that is rewritten meanwhile;
then the three visual Stages over what was imported.

### AudioSpans, SceneCards, SceneSearch and StageAlgorithms

Pure operators: windows, batches and merging of audio events, transcript
chunks; the assignment of lines, cues, events and chapters to scenes and the
text of a card in index, query and context; ranking, reciprocal rank fusion,
neighbours and the two token budgets.  `StageAlgorithms` runs them on every input
of a set and states what the results promise together.  A text is the number of
its tokens: those of the parts plus `join` for each separator, and a text cut to
`n` tokens counts `n + slack` when encoded again (a tokenizer's decode need not
be exact).  Reciprocal ranks are integers in a common denominator.

## 3. The runs

| run | shows |
|---|---|
| `executor` | four tasks (two with one key, two for one attempt, one apart) on two slots, every order of submissions, cancellations, token signals, runner results and loop teardown: bookkeeping exact, one run per key and attempt, no result while the runner works, no run after a result, cancellation decides, the port is implemented, every accepted job ends unless the loop goes first |
| `engine_join` | two parallel Stages and a join with failures, retryable failures, undeclared outputs, skips with and without documents, submit errors, timeouts and an external cancel at any moment: attempts follow durable failures, `DagRun` is implemented, a started run ends |
| `engine_crash` | a Stage read by two chains, two artifact values, skips that hand on documents, executed twice under one run id with a crash or a failing write anywhere: dependencies of everything that runs are on disk, lineage is coherent through succeeded and skipped producers, nothing runs and nothing is written once `run()` is over, no attempt is recorded twice, verdicts are justified |
| `engine_retry` | finding: a run that needed a retry cannot be stored as succeeded |
| `runs` | two runs, two keys, one slot, retention 1, two restarts, snapshot writes of one run that may fail: live runs visible, one run per key, truthful and final verdicts, progress kept, retention that forgets the oldest, capacity neither exceeded nor leaked, every run gets a verdict |
| `http_calls` | two calls with one key, retries, lost, late and duplicated requests, caller cancellation and deadline, a shared circuit breaker, a server that forgets: an answered DELETE means the named job has ended and stays so, "not found" is only told of forgotten jobs, the result a call brings home is and stays that of a job with its key, calls of one key are told the same, an open circuit starts no request |
| `jobs` | three ids and keys, a registry of one, two concurrent cancellers, close at any moment: the registry is consistent and bounded, implements `JobServer`, accepted jobs are kept and answered |
| `output_workspace` | three executions of a two-Stage plan or of its second half, two videos, settings and model revisions, damaged files and crashes: no manifest or cached result lies, what can be reused is found, previews keep their promise, no run mixes videos |
| `legacy_pipeline` | the fourteen-Stage DAG over four kinds of video, one request after another, then a partial plan, and the reprocessing DAG: settings never cross between parallel Stages, verified inputs stay, published outputs are this run's, and no skip makes another Stage fail |
| `local_inference` | each provider under a Stage, a query and a client with its own keys, up to three items in batches of two, two failing steps, a cache of two responses: right answers, of one model, computed once, health without stale errors, every call ends |
| `scene_reprocessing` | two source stories, two reruns of the source, one failure or crash, scenes found in any order: imports are snapshots and leave nothing pending, overlays are accepted and exact, duplicates justified |
| `algorithms` | every input of small sets (`MCStageAlgorithms`): events are exactly what was heard, speech is told once, assignments are the best with the tie rule, what is findable is shown, fusion respects both rankings, budgets are kept |

Several properties are conjunctions of named parts (`RegistryExact`, `StoreTrue`,
`CardsTrue`, ...), each with its own comment in the module; the type invariant of
a module is one of the parts.

Deadlock checking is off in every configuration: each model reaches states
where the system has nothing left to do (all jobs ended, the run is over, the
bounds are used up).  That nobody waits for ever is checked by `EveryJobEnds`,
`RunEnds`, `EveryRunEnds`, `EveryJobAnswered` and `CallsEnd` instead.

### Bounds

* Tasks, requests: four each, chosen so that every kind of conflict exists
  (same key, same attempt or id, independent).  Conflicts are between two
  tasks; a third and fourth job are there to wait for a slot or to fill the
  registry.
* `MaxConcurrency = 2` lets a runner and a queue exist at once with
  two jobs executing; with four tasks three can be accepted.
* `MaxAttempts = 2`: one retry, so every attempt is either followed by another
  one or the last.
* `MaxRuns = 2` (engine): one crash and one re-execution.  A third execution
  meets only manifests of the kinds the second meets.
* Plans: the join has a Stage with two dependencies of which one is also an
  input, the diamond a Stage whose inputs come from two levels, which is where
  lineage can break.
* `MaxActive = 1`, `Retain = 1`, two run ids (runs): a run can be live while the
  other is retained, or both ended and one forgotten.  `MaxTime = 2`: two runs
  complete at the same or at different instants.  `MaxRestarts = 2`: also a run
  interrupted by a restart is met by another one.  `Steps = 1`: progress is before
  or after the only Stage.  `FaultyRuns = {1}`: one run with and one without
  failing snapshot writes, so that safety is checked with and liveness without
  them.  Run ids are ordered (retention breaks ties by them) and not symmetric.
* `MaxJobs = 1`, `MaxCreated = 2` (registry): every further submission must prune
  or be refused.  `Reuse = FALSE`: ids are fresh UUIDs in the code.  The proofs
  cover reused ids and every capacity.
* `MaxTries = 2`, `Threshold = 1` (HTTP calls): a try is repeated or is the last
  one; every failure opens the circuit, which closes by time or by the success of
  the other call, so retries, DELETEs and calls meet it in each state.
  `MaxLate = 1`: one request given up by its call travels while everything else
  goes on, further ones are lost.  Two calls are what a shared key needs.  The
  run uses symmetry over the calls, which no definition distinguishes, and checks
  no liveness property.
* `MaxExecs = 3`, `MaxChanges = 2` (workspace): a result is computed, made stale,
  and met by a later execution under its own or another run id, and replaced
  manifests are met by a third.  Two Stages give a model-bound producer and a
  reader that may be skipped.  Symmetric in videos, revisions and run ids, which
  no definition orders; only invariants are checked.
* Requests (legacy pipeline): a first whole run, a second one of the same or of
  another video, which may die at the key frames, and a partial plan over what both left; a third whole
  run meets no new kind of file.  The worlds take every skip branch.
* `ProviderMax = 2`, `ServiceMax = 3`, up to three items: one batch, two batches,
  and a batch that equals another call's input.  `MaxResponses = 2` evicts.
  `MaxCalls = 2`, `MaxFailures = 2`: a failed load is met by a later success or by
  another failure.
* `MaxScenes = 2`, `MaxReruns = 2`, `MaxFailures = 1` (reprocessing): stories of two
  scenes and of one, one of them long enough for three frames; two reruns can put
  a new generation on both sides of an import.  The looks are alike, all
  different, or alike only next to each other.
* Algorithms: geometries in which the hop divides the duration and in which it
  does not, a hop above the window (refused), all ways to hear two labels; all sets of up to
  three segments in six seconds over all cuts into up to three scenes; all scores 0..2
  of three scenes; budgets below, at and above the sum of the parts.

### Fairness

* `LocalExecutor`: weak fairness of `Acquire` and of each `RunnerReturns`.  The
  event loop resumes the waiter a released semaphore wakes, and a runner is a
  function that returns.  Cancellation and teardown are not fair.
* `PipelineEngine`: weak fairness of the scheduler steps, of each Stage's
  coroutine (its start, its result, its drain, the next attempt after a backoff
  of bounded length), of jobs getting slots and of runners.  Timeouts, the
  caller's cancellation, its forwarding and crashes are not fair: a run must end
  without them.
* `PipelineRuns`: weak fairness of `_execute` (begin, the engine's end, the
  save).  That `application.run` ends is `RunEnds` of the engine.
* `InferenceJobs`: weak fairness of handler threads and coroutines; the gateway
  answers because every request carries a timeout.
* `LocalInference`: weak fairness, for each caller, of asking, of getting the lock,
  of a thread inside it, of receiving and of joining.  A caller makes at most
  `MaxCalls` calls, so a waiting thread is not overtaken for ever.  Models and tools
  return.  Timeouts are not fair.
* The other modules check no liveness property and state no fairness.

## 4. The proofs

All eight proof modules follow one argument: an inductive invariant `IInv` stronger
than what is wanted, `Init => IInv`, one lemma per action (or per piece of code the
actions share) for `IInv /\ Action => IInv'`, a lemma `IInv /\ [Next]_vars => IInv'`,
and the theorems from it.  Every bound is a constant, so what is proved holds for
any number of tasks, Stages, attempts, restarts or failures.  Each `IInv` was checked
by TLC first, on the instance of the module's run.  The assumptions are
the named `ASSUME`s of the modelled modules, which TLC evaluates in every run: the
tables are functions on their sets, the bounds are naturals (positive where the
code refuses zero), and the value that stands for Python's `None` is none of the
others.

**LocalExecutorProofs**, from `ExecutorAssumption` (`CancelledResult` has status
cancelled, slots are a positive number; `Tasks` may be any set).
`IInv == TypeOK /\ IndexesAgree /\ JobShape /\ QueueShape /\ SlotShape`.  `JobShape`
ties a job's state to its result and its runner calls, `QueueShape` says that
the queue holds a waiting job once and that its runner was not called,
`SlotShape` that the executing set is what the RUNNING jobs are.  None of the
checked invariants is inductive alone: "at most one run" needs the indexes (no
second job for a key), the queue (a job's coroutine reaches the semaphore once)
and the job's shape (a started job is not queued).  Proved: `BookkeepingAlwaysExact`
(from `TypeCorrect`, `IndexesAlwaysAgree`, `CapacityKept`), `AtMostOneRun`,
`NoVerdictWhileRunning`, `VerdictsAlwaysHold` (from `NoLateRun`,
`CancellationDecides`) and `ExecutorImplementsPort`, the full safety refinement
`Spec => Port!Spec`, for any tasks, keys, results and number of slots: every
safety property the `executor` run checks.

**PipelineEngineProofs**, from `EngineAssumption` (among it: dependencies come
earlier in the plan, which `PlansAreOrdered` below proves of the planner) and
`NoneIsNothing`.  `IInv` has parts about the scheduler (`RunOK`, `TerminalOK`,
`AvailableOK`, `ManifestsOK`, `LineageCoherent`, `VerdictJustified`) and about
each Stage (`StageOK`, `JobsOK`, `HistoryOK`, `RecordedOK`).  The two halves need each
other: a lineage is coherent because what a running Stage has read is
still what is available (`StageOK`), that because `available` changes only when a
dependency is collected, and no Stage is launched before its dependencies are; what
is on disk when the run is closed follows from what each Stage had recorded
before it reported (`RecordedOK`), and a crash keeps exactly the parts that speak of the
disk.  Proved: `RetriesAlwaysDurable`, `HistoryAlwaysCoherent`, `AlwaysClosedHonestly`,
`RecordsAlwaysStand` (a coroutine records only the attempt it is in, which is not
referenced yet, and when `run()` is over every Stage is idle or has reported), and
`EngineImplementsDagRun`, the refinement of the
abstract run, for any DAG, any replies and any number of crashes: every safety
property of the runs `engine_join` and `engine_crash`.

**PipelineRunsProofs**, from `RunsAssumption` and `NoneIsNoRecord`.
`IInv == RunsConsistent /\ IdsUsed /\ JournalShape /\ ProgressShown /\ CapacityTaken`.
`JournalShape` says what the engine's manifest of a run can be while its task is in
each phase; without it a poll could write progress the run has not made, or the task
could find no verdict to save.  That retention keeps the bound and
forgets the oldest rests on lemmas about `Expired` for any content of the store:
completion time and run id order all runs without ties, so a newest run exists
among those that ended, and what was expired stays expired as newer ones end.
Proved: `RunsAlwaysConsistent`, `NothingIsRevised`, `OnlyTheOldestForgotten`: every
safety property of the run `runs`.

**OutputWorkspaceProofs**, from `WorkspaceAssumption`, which asks of the registry only
that the planner accepts it.  A first part proves what is needed of the
planner: its recursive functions exist (a lemma about iteration over the naturals,
by least elements), Kahn's algorithm ends exactly when there is no cycle, and
`PlansAreOrdered`: every selection's plan names each Stage once, after the Stages
it reads that are planned too.  `IInv == StoreOK /\ (pc # "idle" => ActiveOK)`: `StoreOK` is what the
documents and files are whoever left them there, and `ActiveOK` ties the execution
under way to them: each Stage that ended well has this run's own manifest, made
from this run's artifacts (`ResultKept`), the running manifest names the Stages
that have ended (`RunKept`), and as long as the world has not changed the files are still
what the run made (`Undisturbed`).  `StoreTrue` is not inductive by itself: a new manifest
is true only because the inputs of its key are those the Stage has read, which
takes the verification before the launch and the order of the plan.  For previews
`PreviewInv` adds that some artifacts exist which the preview foretold, which
the run's agree with so far and which are still promised for what it
has not reached; the preview's pass over the plan is a fold, followed step by step
(`Iterated`).  `VideoInv` says that each stored run, and the one under way,
was given and has made only artifacts of the one video it ingested.  What a content was made from is a tree (`Parts` takes it apart by
one level), and as a Stage reads only Stages planned before it, the tree of
the Stage at place n of the plan ends after n levels (`Rank`): no induction over
the content is needed.  Proved:
`StoreAlwaysTrue`, `SucceededRunAlwaysCurrent`, `PreviewAlwaysTruthful` and
`NoVideoIsMixed`, every property of the run `output_workspace`, for any
DAG, settings, videos, models and run ids.

**InferenceJobsProofs**, from `JobsAssumption` (the ids a finite set, the bounds
positive).
`IInv == TypeOK /\ Fresh /\ CancelsKnowIds /\ RegistryConsistent /\ CapacityBound`:
`Fresh` says that job numbers beyond `created` are unused.  `CapacityBound` needs that
the oldest removable job exists (well-foundedness of the job numbers) and is one
(the numbers are distinct).  Proved: `RegistryAlwaysExact` (from `TypeCorrect`,
`RegistryStaysConsistent`, `CapacityKept`) and `NothingIsTakenBack` (from `NoJobLost`,
`CancellationIsFinal`), with `Reuse` either way; and, for `~Reuse` (under
an id sent again a terminal job may change, section 5), `RegistryImplementsJobServer`.  That one needs
`OnceInv == IInv /\ OwnIds /\ Lifecycle`: the job a coroutine finds under its id is its
own, and its status fits where the coroutine stands.

**InferenceCallsProofs**, from `CallsAssumption` and `NoneIsNoOutcome`.
`IInv == TypeOK /\ ServerOK /\ AckedOK /\ \A c : CallOK(c, call[c])`.
`CallOK` says of a reply that travels, and of the result a call returned, what was
true at the server when it was sent and is still, as far as no job of the key was
forgotten; a call and the server are related only through these replies.
That two calls with one key are told the same follows: each was told the status of
a job the server named, the registry names one job of a key, and an ended job keeps
its status (`Lasting`).
The client's code between two awaits is proved once for the pairs of call
and circuit it returns (`Good`), and each action cites these lemmas.  Proved: `CancellationAlwaysReaches`,
`AnswersAlwaysJustified`, `OpenCircuitAlwaysSilent`: every property of the run
`http_calls`, whose instance has two calls.

**LocalInferenceProofs**, from `LocalInferenceAssumption` (inputs are not empty, the
mark of a free lock is no caller).
`IInv == ShapeOK /\ LoadErrorTransient /\ \A c : ThreadOK(c) /\ CallOK(c)`:
only the thread in the lock is busy and nothing is stored under its
key by then; what a call has got is the answer to the first part of its input, and
the thread it waits for works on the next part, also after other callers gave up.
Proved: `AnswersAlwaysSound`, `ProviderStateAlwaysTrue`.

**SceneReprocessingProofs**, from `ReprocessingAssumption` (scene lengths and hashes are
natural numbers, three hashes to a scene) and `ThresholdsAssumption`.
`IInv == TypeOK /\ TreeOK /\ PlanOK /\ VerifiedOK /\ ProgressOK /\ PendingDiscarded`.
Contents of the source run only grow newer; a plan's refs are not newer than what the
awaited query read; verification hence means they are the same, and `ProgressOK`
counts what was copied and published.  Proved: `ImportsAlwaysClean`, for any number of
reruns, failures and retries, that is, an import is one snapshot or nothing.

The documents behind the import need two more invariants.  `StoriesOK`: a succeeded run
and the refs of a plan are about the scenes of one `scenes.json`, whatever reruns
rewrote since, and the selected scenes are among them (with `VerifiedOK`: the index
the query read is that run's).  `DocsOK`: the imported document is one extraction
over all scenes, its captions describe every frame of it and its OCR some frames, and each
document the derived run has written so far is of two passes: the second where a scene
was selected, the first elsewhere (`TwoPasses`).  These follow from a chain of lemmas
about the operators, for sequences of any length.  `Picks` says what `At` returns
(there is one increasing enumeration of the positions), `LaidBy` what `FlattenSeq` returns
(entry k of block b lies behind the blocks before b), `Kept` what deduplication
returns and `DuplicateIsNear` that the frame a removal names was kept and looks like it.  A
keyframe document is thus a row of `SceneBlocks`, in which scene and index name one
frame (`KnownByIndex`); two rows that agree outside the selected scenes
(`Alike`) have each copied frame at the same place of its block (`Counterpart`), which is why
merging by scene and index (`OverlayIs`) is accepted and gives each frame the
entry of its own pass.  Proved: `DuplicatesAlwaysJustified` and
`DerivedAlwaysExact`, for any scenes, hashes, thresholds, OCR modes, numbers of frames and
selections: every property of the run `scene_reprocessing`.

**How the theorems fit together.**  The engine is proved over the abstract executor, and the
local executor to implement it; the engine implements `DagRun`; the calls of
the HTTP provider are proved over the abstract server, and the registry
implements that.  The compositions themselves are instances of the abstract modules, so
nothing is assumed about a neighbour that is not a theorem about it (for the server:
while ids are used once).

**Only model-checked.**  All liveness: TLAPS has no rule for fairness or ENABLED here.
All of `StageAlgorithms` (`EventsAreWhatWasHeard`, `CardsTrue`, `FusionFair`,
`BudgetKept`): it says what some twenty folds and recursive functions over sequences compute
together.  For `SceneOverlays` such functions were proved one by one, by least
elements in place of an induction theorem; here the run checks each input up to its bounds.
`LegacyPipeline` (`Settled`, `OutputsTrue`, `SkipsStopNothing`), which
speaks of the program's fixed registry of fourteen Stages: the run checks that
registry itself, and there is no parameter but the requests to generalize.

## 5. Disagreements between code and documents

One is checked by a run of its own:

* **A successful retry is not storable** (`engine_retry`).  `RunJournal` references
  every attempt; `LocalRunStore.save_run` refuses a SUCCEEDED manifest that
  references an attempt which did not succeed.  With the real store a run
  whose Stage failed once and then succeeded raises `EnginePersistenceError`
  and its manifest stays RUNNING; the engine's tests use a store without the
  check and expect success.

The others are stated as properties of their modules which no run includes; put
into the configuration named, TLC refutes them:

* **A completed run reported as interrupted** (`InterruptedMeansUnfinished`,
  INVARIANT under `MCPipelineRuns.cfg`; `services/pipeline_runs.py:1028`).  After a death
  between the engine's final manifest and the public snapshot, reconciliation
  marks the run RUN_INTERRUPTED without looking at the manifest.  ADR-0025
  (`src/docs/adr/0025-durable-public-pipeline-api.md:23`) speaks of local runs that
  were not completed.
* **A cancel that deletes another call's job** (`CancelledByNamedId`, INVARIANT under
  `MCInferenceCalls.cfg` with `MaxLate = 2`; `inference/http/provider.py:366`).  `cancel` looks
  its argument up in `_active_jobs`, also when it is already an id the server
  named.  Two calls with one key can come to follow each other's id when the server
  forgot a job between their submissions; the DELETE of one then goes to
  the other's job.  `src/docs/07-execution-inference-contracts.md:1022` wants the
  named id polled and cancelled.
* **A response stored in a later job** (`TerminalUnchanged`, PROPERTY under
  `MCInferenceJobs.cfg` with `Reuse = TRUE`, `MaxCreated = 3` and `SPECIFICATION Spec`;
  `inference/http/server.py:320`).  `_execute` keeps
  the request id only and, before it stores a response, tests the job it finds only
  for `cancelled`; under a request id sent again it overwrites a terminal job.
  `src/docs/openapi/inference-v1.yaml:139`: "Terminal jobs are returned unchanged".
* **A cancel that is not answered** (the `keyerror` stage of `CancelAnswers`).  The
  handler reads the registry again after the job was made terminal and hence
  prunable: a submit in between makes it raise KeyError.
* **Lists longer than a provider takes** (`NothingTooLong`, INVARIANT under
  `MCLocalInference.cfg`).  The caption, OCR and audio-event services cut
  their input to the provider's `max_batch_size`; the embedding and STT services
  send everything at once, and the gateway refuses what is longer.
* **A partial plan over another video's audio document** (`BoundarySuffices`,
  INVARIANT under `MCLegacyPipeline.cfg`).  06_stt and 07_diarize look into
  `audio.json`, which is not among their declared inputs; run alone after a run
  of another video they may follow its document and fail.
* **NO_SPEECH** (`NoSpeechMeansNone`, same configuration) is also the reason of a
  transcript skipped although the VAD found speech, when the model heard no words.

## 6. What is not modelled, and why

* `gateway.cancel` and the public `cancel` of the HTTP provider: only the model
  server calls them, around a local provider.
* `warmup()` of the local providers, which loads the model outside the inference lock
  (`inference/local/vad.py:231`, `audio_event.py:446`, `diarization.py:254`): its only
  caller, `src/src/serve_inference.py:49`, is done before the server accepts
  a request.  What `LocalInference` says of the model and of the load error is about
  `infer`; a warmup beside it could leave a stale load error.
* The rounding of window starts in `inference/audio_event.py:388`: the code adds up
  floats, `AudioSpans` counts in whole units, so a last window of almost no length,
  which the sum can produce, does not occur in the model.
* A model server that restarts and so forgets jobs that have not ended: ADR-0024
  promises no recovery, and a client then reads "not found".
* `status`, `result`, `poll`, `health`, `capabilities`: they read only.
* Digest computation, JSON encoding, validation of value types, logging: the
  models use the values' identities.
* Several processes on one data directory: nothing in the code coordinates them.
  The cache index is a read-modify-write under a lock of one store object.
* ffmpeg, scene detection, model libraries, the choice of a device, HTTP framing,
  the REST server: external, or translation without state.
* WebVTT parsing, text normalization for search, retrieval metrics: wording and
  arithmetic without interaction.  The tolerance of `_window_samples` for the last
  audio window is left out: windows end where the sound does.
* The last cut of 11_context (`src/src/pipeline/stages/s11_context.py:185`) when
  the fixed part of the context alone exceeds the budget and the tokenizer's cut
  text counts more when read again: `BudgetKept` excludes this one case.
* Termination of an HTTP call against a silent server: the instance has symmetry
  and a liveness run of it is beyond the time of the others.  `MaxTries` bounds the
  tries of each operation in every reachable state.

## 7. What could follow

1. `StageAlgorithms` the way of `SceneOverlays`: a characterization of each operator
   in the manner of `Picks` and `LaidBy`, filters and merges written as functions over
   0..N, then the four properties for inputs of any length; `EventsAreWhatWasHeard`
   first, since its windows and batches are the most delicate.
2. Whether `LegacyPipeline`'s `Settled` (settings set and restored under locks) can be
   stated for any bindings.
