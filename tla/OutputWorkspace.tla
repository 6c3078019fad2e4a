--------------------------- MODULE OutputWorkspace ---------------------------
(***************************************************************************)
(* One output root through a sequence of executions: the manifests, the     *)
(* cache index and the files of services/local.py, services/pipeline.py,    *)
(* storage/local_runs.py, storage/local_artifacts.py, engine/cache.py and   *)
(* the cache half of engine/pipeline.py.                                    *)
(*                                                                          *)
(* Every Stage writes its output to a fixed path, so each execution         *)
(* overwrites what earlier ones left; the manifests of all runs stay and    *)
(* are believed only as far as checksums and cache keys confirm them.       *)
(* Between two executions the user may change the video, the settings or    *)
(* the deployed model, or damage a file; a crash may hit any write.         *)
(*                                                                          *)
(* A content is a term: what the Stage computed, from which configuration,  *)
(* model and inputs; equal terms are equal bytes, and the checksum and size *)
(* of an ArtifactRef are the term.  Each Stage has one output, named like   *)
(* the Stage; the video is the only external input.  One process at a time  *)
(* uses an output root (there is no lease); its Stages are taken in plan    *)
(* order with one attempt each: PipelineEngine has the concurrency and the  *)
(* retries.                                                                 *)
(*   source, revision      the user's video and the deployed model          *)
(*   files                 00_input/video and the Stages' output files      *)
(*   runManifest, stageManifest, index    the JSON files of LocalRunStore   *)
(*   pc, job, execs        the execution under way, and how many there were *)
(***************************************************************************)
EXTENDS StagePlanner, SequencesExt

CONSTANTS Deps,         \* [Stages -> SUBSET Stages]
          Reads,        \* [Stages -> SUBSET (Stages \cup {Video})]
          ModelBound,   \* Stages with a model binding
          Settings,     \* settings of a request
          Config,       \* [Settings -> [Stages -> configurations]]
          Off,          \* configurations with which a Stage is SKIPPED
          Videos,       \* contents of the user's file
          Revisions,    \* model revisions that may be deployed
          RunIds,
          Selections,   \* bound: the stage/from/to selections asked for
          Forces,       \* bound: the force_stages asked for
          MaxExecs,     \* bound: executions of the program
          MaxChanges    \* bound: what the user changes between executions

Stages == DOMAIN Deps
Video == 0              \* the logical name of the external input
Paths == Stages \cup {Video}
Absent == [absent |-> TRUE]
Damaged == [damaged |-> TRUE]
NoModel == "no model"
Unresolved == "unresolved"
BytesOf(v) == [video |-> v]

Registry == [deps |-> Deps, requires |-> Reads, external |-> {Video},
             outputs |-> [s \in Stages |-> {s}]]

ASSUME WorkspaceAssumption ==
  /\ Stages \subseteq Nat \ {0} /\ IsFiniteSet(Stages)
  /\ ~ PlannerRefuses(Registry)
  /\ ModelBound \subseteq Stages
  /\ Config \in [Settings -> [Stages -> UNION {Range(Config[x]) : x \in Settings}]]
  /\ {NoModel, Unresolved} \cap Revisions = {}
  /\ MaxExecs \in Nat /\ MaxChanges \in Nat

VARIABLES source, revision, files, runManifest, stageManifest, index, pc, job,
          execs, changes

world == <<source, revision>>
stored == <<runManifest, stageManifest, index>>
vars == <<world, files, stored, pc, job, execs, changes>>

NoJob == [idle |-> TRUE]
Nothing == [none |-> TRUE]
Good == {"succeeded", "skipped"}
-----------------------------------------------------------------------------
\* What the module of Stage s writes.
Compute(s, config, model, inputs) ==
  [stage |-> s, config |-> config, model |-> model, inputs |-> inputs]

\* compute_stage_cache_key: the semantics of the task, with the checksums of
\* its inputs and without the run or the model that will run it.
CacheKey(s, config, inputs) == [stage |-> s, config |-> config, inputs |-> inputs]

\* LocalArtifactStore.verify: the file is there with the size and checksum of
\* the reference.
Verified(name, content) == files[name] = content

\* Request and configuration of the execution under way
ConfigOf(s) == Config[job.settings][s]
InputsOf(s, available) == [r \in Reads[s] \cap DOMAIN available |-> available[r]]

\* find_stages_by_cache_key: the runs of the index entry, newest first.  What is
\* filed there by now, a manifest of another key or none, Reusable passes over.
Indexed(key) == IF key \in DOMAIN index THEN Reverse(index[key]) ELSE <<>>

\* _load_cache_candidates: the manifest of this run first, then the indexed
\* ones (a manifest that comes twice decides the same twice).
Candidates(run, s, key) ==
  LET runs == <<run>> \o Indexed(key)
  IN [i \in DOMAIN runs |-> stageManifest[runs[i]][s]]

\* (mutant) an intact file is believed whoever wrote it
ReusableUnkeyed(m, key, models, store) ==
  /\ m # Nothing
  /\ m.status = "succeeded"
  /\ m.model = models
  /\ \A r \in DOMAIN key.inputs : store[r] = key.inputs[r]
  /\ store[m.key.stage] = m.output

\* ManifestCacheEvaluator.evaluate finds no reason against manifest m: same
\* task semantics and key, SUCCEEDED (SKIPPED is always looked at again), the
\* models that would run now are the ones that ran, and the bytes of all inputs
\* and of the output verify in store.
Reusable(m, key, models, store) ==
  /\ m # Nothing /\ m.key = key
  /\ m.status = "succeeded"
  /\ models # Unresolved /\ m.model = models
  /\ \A r \in DOMAIN key.inputs : store[r] = key.inputs[r]
  /\ store[m.key.stage] = m.output

\* The first candidate that is reusable, or Nothing.
FirstHit(candidates, key, models, store) ==
  LET first == SelectInSeq(candidates,
                 LAMBDA m : Reusable(m, key, models, store))
  IN IF first = 0 THEN Nothing ELSE candidates[first]

\* _evaluate_cache: a forced Stage has no hit.
Hit(run, s, key, models, force) ==
  IF s \in force THEN Nothing
  ELSE FirstHit(Candidates(run, s, key), key, models, files)

\* What GatewayEffectiveModelResolver may answer for s: the deployed revision,
\* or nothing when it cannot be told without loading the model.
Resolvable(s) == IF s \in ModelBound THEN {revision, Unresolved} ELSE {NoModel}
-----------------------------------------------------------------------------
\* (mutant) what may be forced is not looked at
ForeseenUnforced(run, s, before, settings, force, model) ==
  LET key == CacheKey(s, Config[settings][s], InputsOf(s, before))
  IN IF Reads[s] \subseteq DOMAIN before THEN Hit(run, s, key, model, {})
     ELSE Nothing

\* One Stage of a preview: nothing if an input is not available
Foreseen(run, s, before, settings, force, model) ==
  LET key == CacheKey(s, Config[settings][s], InputsOf(s, before))
  IN IF Reads[s] \subseteq DOMAIN before THEN Hit(run, s, key, model, force)
     ELSE Nothing

(***************************************************************************)
(* preview: the plan is evaluated without executing anything.  An input that*)
(* is not available blocks a Stage; a hit makes its output available.       *)
(***************************************************************************)
Preview(run, settings, plan, force, given, models) ==
  LET available[n \in 0..Len(plan)] ==
        IF n = 0 THEN given
        ELSE LET s == plan[n]
                 before == available[n - 1]
                 hit == Foreseen(run, s, before, settings, force, models[s])
             IN IF hit = Nothing THEN before
                ELSE [x \in DOMAIN before \cup {s} |->
                        IF x = s THEN hit.output ELSE before[x]]
  IN {s \in Range(plan) : s \in DOMAIN available[Len(plan)] /\ s \notin DOMAIN given}

\* (mutant) the video of the previous run is not compared
BoundaryArtifactsAnyVideo(run, wanted, store) ==
  LET old == runManifest[run]
      known == [x \in DOMAIN old.inputs \cup old.stages |->
                  IF x \in old.stages /\ stageManifest[run][x] # Nothing
                  THEN stageManifest[run][x].output ELSE old.inputs[x]]
      found == {x \in wanted \cap DOMAIN known : store[x] = known[x]}
  IN IF old = Nothing THEN [x \in {Video} |-> source]
     ELSE [x \in found \cup {Video} |-> IF x = Video THEN source ELSE known[x]]

\* _restore_boundary_artifacts and _inspect_boundary_artifacts: from the last
\* manifest of the same run id, if it was about the same video, the inputs and
\* the recorded outputs whose bytes verify.  (Without a previous run or with
\* another video the first raises and the second returns the video alone.)
BoundaryArtifacts(run, wanted, store) ==
  LET old == runManifest[run]
      recorded == {x \in old.stages : stageManifest[run][x] # Nothing}
      known == [x \in DOMAIN old.inputs \cup recorded |->
                  IF x \in recorded THEN stageManifest[run][x].output
                                    ELSE old.inputs[x]]
      found == IF old = Nothing \/ old.inputs[Video] # source THEN {}
               ELSE {x \in wanted \cap DOMAIN known : store[x] = known[x]}
  IN [x \in found \cup {Video} |-> IF x = Video THEN source ELSE known[x]]
-----------------------------------------------------------------------------
Init ==
  /\ source \in {BytesOf(v) : v \in Videos} /\ revision \in Revisions
  /\ files = [x \in Paths |-> Absent]
  /\ runManifest = [r \in RunIds |-> Nothing]
  /\ stageManifest = [r \in RunIds |-> [s \in Stages |-> Nothing]]
  /\ index = <<>>
  /\ pc = "idle" /\ job = NoJob /\ execs = 0 /\ changes = 0

\* The inputs a plan needs and was not given
MissingInputs(plan, given) == BoundaryOf(Registry, Range(plan)) \ DOMAIN given

\* PipelineApplicationService.run: plan, create the runtime (which publishes a
\* copy of the video and restores the boundary), refuse the request if an input
\* is missing, and start the journal.  previewed: what preview() would have
\* answered just before (history).
Begin(run, settings, sel, force) ==
  /\ pc = "idle" /\ execs < MaxExecs
  /\ execs' = execs + 1
  /\ ~ SelectionRefused(Registry, sel)
  /\ LET plan == PlanOf(Registry, sel)
         ingested == [files EXCEPT ![Video] = source]
         wanted == BoundaryOf(Registry, Range(plan))
         given == BoundaryArtifacts(run, wanted, ingested)
         resolved == [s \in Stages |->
                        IF s \in ModelBound THEN revision ELSE NoModel]
         previewed == Preview(run, settings, plan, force,
                              BoundaryArtifacts(run, wanted, files), resolved)
     IN /\ files' = ingested
        /\ IF MissingInputs(plan, given) # {}
           THEN UNCHANGED <<pc, job, runManifest>>
           ELSE /\ runManifest' = [runManifest EXCEPT ![run] =
                     [status |-> "running", inputs |-> given, stages |-> {}]]
                /\ pc' = "choosing"
                /\ job' = [run |-> run, settings |-> settings, plan |-> plan,
                           force |-> force, available |-> given,
                           outcome |-> [s \in Stages |-> "pending"],
                           stage |-> 0, models |-> {revision},
                           changes |-> changes,
                           previewed |-> previewed]
  /\ UNCHANGED <<world, stageManifest, index, changes>>

\* The process dies, or a write fails and the run raises: memory is lost, what
\* was written stays.
Lost == pc' = "idle" /\ job' = NoJob

\* (mutant) a key that has an entry keeps it
IndexedAfterOnce(m) ==
  IF m.status # "succeeded" THEN index ELSE index @@ (m.key :> <<job.run>>)

\* _index_stage: only SUCCEEDED results; the entry for the same attempt, if there
\* is one, moves to the end.
IndexedAfter(m) ==
  IF m.status # "succeeded" THEN index
  ELSE LET entries == IF m.key \in DOMAIN index THEN index[m.key] ELSE <<>>
           latest == Append(RemoveFirst(entries, job.run), job.run)
       IN [k \in DOMAIN index \cup {m.key} |-> IF k = m.key THEN latest ELSE index[k]]

Fails(s) == [job EXCEPT !.outcome[s] = "failed"]

\* The Stage's outputs are available to the rest of the plan.
Ends(s, m) ==
  IF m.status = "failed" THEN Fails(s)
  ELSE [job EXCEPT !.outcome[s] = m.status,
                   !.available = [x \in DOMAIN @ \cup {s} |->
                                    IF x = s THEN m.output ELSE @[x]]]

\* journal.record_stage with LocalRunStore.save_stage, save_run: the Stage
\* manifest (if the outputs verify), the index entry and the running manifest
\* are three files; a crash or an I/O error may stop after any of them.
Record(s, m, store) ==
  \E written \in 0..3 :
     /\ m.status # "failed" => store[s] = m.output
     /\ stageManifest' = IF written < 1 THEN stageManifest
                         ELSE [stageManifest EXCEPT ![job.run][s] = m]
     /\ index' = IF written < 2 THEN index ELSE IndexedAfter(m)
     /\ runManifest' = IF written < 3 THEN runManifest
                       ELSE [runManifest EXCEPT ![job.run].stages = @ \cup {s}]
     /\ IF written < 3 THEN Lost
        ELSE pc' = "choosing" /\ job' = Ends(s, m)

Manifest(key, status, model, output) ==
  [key |-> key, status |-> status, model |-> model, output |-> output]

\* The next Stage whose planned dependencies ended well, unless one failed.
Runnable(s) ==
  /\ job.outcome[s] = "pending" /\ s \in Range(job.plan)
  /\ \A t \in Stages : job.outcome[t] # "failed"
  /\ \A t \in Deps[s] \cap Range(job.plan) : job.outcome[t] \in Good

Next_(s) == Runnable(s) /\ \A t \in Stages : Runnable(t) => s <= t

KeyOf(s) == CacheKey(s, ConfigOf(s), InputsOf(s, job.available))
Failure(s) == Manifest(KeyOf(s), "failed", NoModel, Nothing)

\* _run_stage with _evaluate_cache: a Stage without one of its inputs fails; a hit
\* is recorded under this run's id, with the result of the run that computed it;
\* otherwise the Stage is submitted.
Evaluate(s) ==
  /\ pc = "choosing" /\ Next_(s)
  /\ \E models \in Resolvable(s) :
       LET hit == Hit(job.run, s, KeyOf(s), models, job.force)
       IN IF ~ Reads[s] \subseteq DOMAIN job.available
          THEN Record(s, Failure(s), files)
          ELSE IF hit # Nothing
          THEN Record(s, [hit EXCEPT !.key = KeyOf(s)], files)
          ELSE /\ pc' = "submitted"
               /\ job' = [job EXCEPT !.stage = s]
               /\ UNCHANGED stored
  /\ UNCHANGED <<world, files, execs, changes>>

\* What the module of a Stage reads under a name: the video from the user's path,
\* not from the copy.
Read(r) == IF r = Video THEN source ELSE files[r]

\* _verify_inputs: the files the module will read are the referenced ones.
InputsIntact(s) == \A r \in Reads[s] : Read(r) = job.available[r]

\* LegacyStageTaskRunner: the inputs are verified, then the module overwrites
\* its output file in place.
Execute(s) ==
  /\ pc = "submitted" /\ job.stage = s
  /\ IF InputsIntact(s)
     THEN /\ pc' = "writing"
          /\ files' = [files EXCEPT ![s] = Damaged]
          /\ UNCHANGED <<stored, job>>
     ELSE /\ Record(s, Failure(s), files)
          /\ UNCHANGED files
  /\ UNCHANGED <<world, execs, changes>>

\* The module has read its inputs (they do not change while it works) and
\* finished its file, with the model that is deployed now; the output is
\* registered by inspecting the file.
Complete(s) ==
  /\ pc = "writing" /\ job.stage = s
  /\ LET status == IF ConfigOf(s) \in Off THEN "skipped" ELSE "succeeded"
         model == IF s \in ModelBound /\ status = "succeeded" THEN revision ELSE NoModel
         output == Compute(s, ConfigOf(s), model, [r \in Reads[s] |-> Read(r)])
     IN /\ files' = [files EXCEPT ![s] = output]
        /\ Record(s, Manifest(KeyOf(s), status, model, output), files')
  /\ UNCHANGED <<world, execs, changes>>

\* The Stage raises, times out or is cancelled; its file stays half written.
Abort(s) ==
  /\ pc = "writing" /\ job.stage = s
  /\ Record(s, Failure(s), files)
  /\ UNCHANGED <<world, files, execs, changes>>

Ended == \A s \in Stages : ~ Runnable(s)

\* is_stage_complete
StageComplete(s) ==
  /\ stageManifest[job.run][s] # Nothing
  /\ stageManifest[job.run][s].status \in Good
  /\ Verified(s, stageManifest[job.run][s].output)

\* journal.finish: save_run refuses a SUCCEEDED manifest with incomplete Stages.
Finish ==
  /\ pc = "choosing" /\ Ended
  /\ LET failed == \E s \in Stages : job.outcome[s] = "failed"
         refs == runManifest[job.run].stages
         status == IF failed THEN "failed" ELSE "succeeded"
     IN IF failed \/ \A s \in refs : StageComplete(s)
        THEN /\ runManifest' = [runManifest EXCEPT ![job.run].status = status]
             /\ pc' = "done" /\ UNCHANGED job
        ELSE Lost /\ UNCHANGED runManifest
  /\ UNCHANGED <<world, files, stageManifest, index, execs, changes>>

Exit == pc = "done" /\ Lost /\ UNCHANGED <<world, files, stored, execs, changes>>

Crash ==
  /\ pc \in {"choosing", "submitted", "writing"} /\ Lost
  /\ UNCHANGED <<world, files, stored, execs, changes>>
-----------------------------------------------------------------------------
\* Outside the program: the user replaces the video or damages an output file,
\* between executions or between two Stages of one.
Calm == pc \in {"idle", "choosing"}

ReplaceVideo ==
  /\ Calm /\ changes < MaxChanges /\ changes' = changes + 1
  /\ source' \in {BytesOf(v) : v \in Videos} \ {source}
  /\ UNCHANGED <<revision, files, stored, pc, job, execs>>

DamageFile(x) ==
  /\ Calm /\ changes < MaxChanges /\ changes' = changes + 1
  /\ files[x] \notin {Absent, Damaged}
  /\ files' = [files EXCEPT ![x] = Damaged]
  /\ UNCHANGED <<world, stored, pc, job, execs>>

\* A new model revision is deployed, also while an execution is under way.
Deploy ==
  /\ changes < MaxChanges /\ changes' = changes + 1
  /\ revision' \in Revisions \ {revision}
  /\ job' = IF job = NoJob THEN job
            ELSE [job EXCEPT !.models = @ \cup {revision'}]
  /\ UNCHANGED <<source, files, stored, pc, execs>>

Next ==
  \/ \E r \in RunIds, x \in Settings, sel \in Selections, f \in Forces :
        Begin(r, x, sel, f)
  \/ \E s \in Stages : Evaluate(s) \/ Execute(s) \/ Complete(s) \/ Abort(s)
  \/ Finish \/ Exit \/ Crash
  \/ ReplaceVideo \/ Deploy \/ \E x \in Paths : DamageFile(x)

Spec == Init /\ [][Next]_vars
-----------------------------------------------------------------------------
Contents == {c \in Range(files) : c \notin {Absent, Damaged}}
Manifests == {stageManifest[r][s] : r \in RunIds, s \in Stages} \ {Nothing}
Succeeded == {m \in Manifests : m.status = "succeeded"}

\* Manifests, index and the execution under way have their shapes.
TypeOK ==
  /\ source \in {BytesOf(v) : v \in Videos} /\ revision \in Revisions
  /\ DOMAIN files = Paths
  /\ \A r \in RunIds : runManifest[r] # Nothing =>
        /\ runManifest[r].status \in {"running", "failed", "succeeded"}
        /\ runManifest[r].stages \subseteq Stages
  /\ \A m \in Manifests : m.status \in {"failed"} \cup Good
  /\ \A k \in DOMAIN index :
        index[k] # <<>> /\ Range(index[k]) \subseteq RunIds /\ IsInjective(index[k])
  /\ pc \in {"idle", "choosing", "submitted", "writing", "done"}
  /\ (pc = "idle") = (job = NoJob)
  /\ pc \in {"submitted", "writing"} => job.outcome[job.stage] = "pending"

\* No manifest poisons the cache: what a succeeded manifest records is what its
\* Stage computes from the configuration and the inputs of its own cache key,
\* whatever was replaced, damaged or interrupted since, and also when it was
\* copied from another run (_verify_inputs, record_stage).
ManifestsTrue ==
  \A m \in Succeeded :
     m.output = Compute(m.key.stage, m.key.config, m.model, m.key.inputs)

\* When a run ends SUCCEEDED, every planned Stage has a good outcome and every
\* output file holds what that Stage computes under this request's settings
\* from the run's own artifacts, with a model that was deployed during the run:
\* neither a cached result nor a file left by an earlier execution, by another
\* run or by a crash takes its place (ManifestCacheEvaluator, save_run).
SucceededRunCurrent ==
  (pc = "done" /\ runManifest[job.run].status = "succeeded") =>
     \A s \in Range(job.plan) :
        /\ job.outcome[s] \in Good
        /\ \E model \in IF s \in ModelBound /\ job.outcome[s] = "succeeded"
                        THEN job.models ELSE {NoModel} :
             files[s] = Compute(s, ConfigOf(s), model, InputsOf(s, job.available))

\* A result can be found again: after a successful run in an unchanged world
\* every run, also one under another id, has a reusable candidate for each Stage
\* that succeeded, although run ids were reused and manifests replaced
\* (_index_stage, find_stages_by_cache_key).
CacheComplete ==
  (pc = "done" /\ runManifest[job.run].status = "succeeded" /\ job.changes = changes) =>
     \A s \in Range(job.plan), r \in RunIds :
        job.outcome[s] = "succeeded" =>
           FirstHit(Candidates(r, s, KeyOf(s)), KeyOf(s),
                    IF s \in ModelBound THEN revision ELSE NoModel, files) # Nothing

\* preview does not promise too much: a Stage it showed as a hit is submitted
\* only if the world has changed since, or if the model that would run cannot
\* be told (preview_cache, _evaluate_cache).
PreviewTruthful ==
  (pc = "submitted" /\ job.changes = changes /\ job.stage \in job.previewed) =>
     job.stage \in ModelBound

\* The videos a content was made from.
VideosOf(content) ==
  LET parts[n \in 0..Cardinality(Stages)] ==
        IF n = 0 THEN {content}
        ELSE UNION {IF "inputs" \in DOMAIN c THEN Range(c.inputs) ELSE {c} :
                       c \in parts[n - 1]}
  IN parts[Cardinality(Stages)]

\* A partial run never mixes videos: every artifact available to a run, the
\* restored ones included, was made from nothing but the video this run ingested,
\* although earlier runs left artifacts of another one, or damaged files, at the
\* same paths (_restore_boundary_artifacts).
NoMixedVideo ==
  job # NoJob =>
     \A x \in DOMAIN job.available :
        VideosOf(job.available[x]) \subseteq {job.available[Video]}

\* The three JSON documents can be believed: they have their shapes, no manifest
\* records a result that is not its Stage's, and what the index promises to
\* find is found (LocalRunStore, record_stage, find_stages_by_cache_key).
StoreTrue == TypeOK /\ ManifestsTrue /\ CacheComplete
=============================================================================
