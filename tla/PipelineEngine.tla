--------------------------- MODULE PipelineEngine ---------------------------
(***************************************************************************)
(* engine/pipeline.py: PipelineEngine.run, with the RunJournal of           *)
(* engine/persistence.py and the run store of storage/local_runs.py, over   *)
(* an executor of which only the ExecutorPort contract is used.             *)
(*                                                                          *)
(* One asyncio loop runs the scheduler, one _run_stage coroutine per        *)
(* launched Stage and the cancellation forwarder; the code between two      *)
(* awaits is one action.  Artifacts are members of Values: a Stage yields   *)
(* one of them (or none) and reads those of its producers.                  *)
(*   pc, terminal       the scheduler and its terminal_status               *)
(*   phase, attempt     where each _run_stage coroutine stands              *)
(*   snapshot, available  dict(available) at launch, and the dictionary     *)
(*   result             what a coroutine returned; verdict: what it will    *)
(*                      report for an attempt it is draining                *)
(*   external, internal the caller's CancellationToken and the engine's     *)
(*   job, completion    the executor's jobs, one per <<stage, attempt>>     *)
(*   refs               journal.stage_references                            *)
(*   runFile, stageFile the manifests on disk, which survive a crash        *)
(*   runs               how often the run id was executed                   *)
(***************************************************************************)
EXTENDS Naturals, Sequences, FiniteSets

CONSTANTS Plan,             \* the planned Stages in plan.stages order
          Deps,             \* [Stages -> SUBSET Stages], planned dependencies
          Inputs,           \* [Stages -> SUBSET Stages], required producers
          Values,           \* artifacts a Stage may produce
          Replies,          \* [Stages -> SUBSET Results], runner behaviour
          Flaky,            \* Stages whose executor.submit may raise
          Timed,            \* Stages with a timeout
          MaxAttempts,      \* retry_policy.max_attempts
          MaxConcurrency,   \* executor slots
          MaxRuns,          \* bound: executions of the run id
          Cancellable,      \* the caller may cancel
          StoreFaults,      \* a manifest write may fail
          None

Stages == {Plan[i] : i \in DOMAIN Plan}
Attempts == Stages \X (1..MaxAttempts)
PlanIndex(s) == CHOOSE i \in DOMAIN Plan : Plan[i] = s

\* StageResults: status, the produced artifact, and whether the reason code is
\* in retry_policy.retryable_reason_codes.
Reply(status, output, retryable) ==
  [status |-> status, output |-> output, retryable |-> retryable]
Produced(v) == Reply("succeeded", v, FALSE)
Skipped(v) == Reply("skipped", v, FALSE)    \* its documents exist all the same
Failed == Reply("failed", None, FALSE)
Transient == Reply("failed", None, TRUE)
Cancelled == Reply("cancelled", None, FALSE)
Undeclared == "undeclared"        \* an output the StageSpec does not declare
Outputs == Values \cup {None, Undeclared}
Results == {Produced(v) : v \in Outputs} \cup {Skipped(v) : v \in Outputs}
             \cup {Failed, Transient, Cancelled}

Good == {"succeeded", "skipped"}
Active == {"started", "awaiting", "draining", "backoff", "returned", "raised"}
Phases == Active \cup {"pending", "collected"}

ASSUME EngineAssumption ==
  /\ \A i, j \in DOMAIN Plan : Plan[i] = Plan[j] => i = j
  /\ Deps \in [Stages -> SUBSET Stages]
  /\ Inputs \in [Stages -> SUBSET Stages]
  /\ Replies \in [Stages -> SUBSET Results]
  /\ \A s \in Stages : \A d \in Deps[s] : PlanIndex(d) < PlanIndex(s)
  /\ Flaky \subseteq Stages /\ Timed \subseteq Stages
  /\ MaxAttempts \in Nat \ {0} /\ MaxConcurrency \in Nat \ {0}
  /\ MaxRuns \in Nat \ {0}
  /\ Cancellable \in BOOLEAN /\ StoreFaults \in BOOLEAN
  /\ Undeclared \notin Values /\ None \notin Values

VARIABLES pc, terminal, phase, attempt, snapshot, available, result, verdict,
          external, internal, job, completion, refs, runFile, stageFile, runs

schedVars == <<pc, terminal, available>>
coroVars == <<phase, attempt, result, verdict>>
cancelVars == <<external, internal>>
execVars == <<job, completion>>
storeVars == <<refs, runFile, stageFile>>
vars == <<schedVars, coroVars, snapshot, cancelVars, execVars, storeVars, runs>>

Exec == INSTANCE ExecutorPort WITH
          Tasks <- Attempts, KeyOf <- [a \in Attempts |-> a],
          StatusOf <- [r \in Results |-> r.status],
          state <- job, result <- completion

RunStatuses == {"running", "succeeded", "failed", "cancelled"}
Artifacts == [Stages -> Values \cup {None}]
Manifests == [result : Results, inputs : Artifacts, basis : Artifacts]
RunManifests == [status : RunStatuses, refs : SUBSET Attempts]
JobStates == {"absent", "queued", "running"} \cup Exec!Terminal
ASSUME NoneIsNothing ==
  /\ None \notin {"failed", "cancelled", Undeclared}
  /\ None \notin Results /\ None \notin Manifests /\ None \notin RunManifests

TypeOK ==
  /\ pc \in {"idle", "waiting", "closing", "finishing", "done", "raised", "stalled"}
  /\ terminal \in {None, "failed", "cancelled"}
  /\ phase \in [Stages -> Phases]
  /\ attempt \in [Stages -> 0..MaxAttempts]
  /\ snapshot \in [Stages -> Artifacts]
  /\ available \in Artifacts
  /\ result \in [Stages -> Results \cup {None}]
  /\ verdict \in [Stages -> {Transient, Cancelled, None}]
  /\ external \in BOOLEAN /\ internal \in BOOLEAN
  /\ job \in [Attempts -> JobStates]
  /\ completion \in [Attempts -> Results \cup {None}]
  /\ refs \in SUBSET Attempts
  /\ runFile \in RunManifests \cup {None}
  /\ stageFile \in [Attempts -> Manifests \cup {None}]
  /\ runs \in 0..MaxRuns

Empty == [s \in Stages |-> None]

\* A process that is about to run has nothing in memory.
Init ==
  /\ pc = "idle" /\ terminal = None
  /\ phase = [s \in Stages |-> "pending"] /\ attempt = [s \in Stages |-> 0]
  /\ snapshot = [s \in Stages |-> Empty] /\ available = Empty
  /\ result = Empty /\ verdict = Empty
  /\ external = FALSE /\ internal = FALSE
  /\ Exec!Init
  /\ refs = {}
  /\ runFile = None
  /\ stageFile = [a \in Attempts |-> None]
  /\ runs = 0
-----------------------------------------------------------------------------
(***************************************************************************)
(* Scheduling.  Schedule takes the values the loop has just computed: the   *)
(* phases after this round, the artifacts, the cancellation and the         *)
(* terminal status.                                                         *)
(***************************************************************************)
\* result.status is SUCCEEDED or SKIPPED: such a Stage counts as completed
EndedWell(r) == r.status \in Good

\* (mutant) a Stage starts when one dependency is there
ReadyOnFirstDependency(ph) ==
  {s \in Stages : /\ ph[s] = "pending"
                  /\ Deps[s] # {} => \E d \in Deps[s] : /\ ph[d] = "collected"
                                                       /\ EndedWell(result[d])}

Ready(ph) == {s \in Stages : /\ ph[s] = "pending"
                             /\ \A d \in Deps[s] : /\ ph[d] = "collected"
                                                   /\ EndedWell(result[d])}

\* A cancelled run starts nothing, but a run cancelled before its first Stage
\* starts that one so that the cancellation is recorded.
Launches(ph, cancelled) ==
  IF ~cancelled THEN Ready(ph)
  ELSE IF \A s \in Stages : ph[s] = "pending"
  THEN {s \in Ready(ph) : \A t \in Ready(ph) : PlanIndex(s) <= PlanIndex(t)}
  ELSE {}

\* (mutant) the break of a cancelled run with pending Stages is missing
LoopExitWithoutBreak(ph, cancelled) ==
  IF \A s \in Stages : ph[s] = "collected" THEN "finishing" ELSE "stalled"

\* Where the loop stands when a round launched nothing and nothing is active:
\* the run is over unless Stages are pending without a cancellation.
LoopExit(ph, cancelled) ==
  IF cancelled \/ \A s \in Stages : ph[s] = "collected" THEN "finishing"
                                                         ELSE "stalled"

Schedule(ph, avail, cancelled, term) ==
  LET go == Launches(ph, cancelled)
      busy == go # {} \/ \E s \in Stages : ph[s] \in Active
      left == \E s \in Stages : ph[s] = "pending"
  IN /\ phase' = [s \in Stages |-> IF s \in go THEN "started" ELSE ph[s]]
     /\ snapshot' = [s \in Stages |-> IF s \in go THEN avail ELSE snapshot[s]]
     /\ pc' = IF busy THEN "waiting" ELSE LoopExit(ph, cancelled)
     /\ terminal' = IF ~busy /\ left /\ cancelled /\ term = None
                    THEN "cancelled" ELSE term

SaveRun(status, references) ==
  runFile' = [status |-> status, refs |-> references]

\* run(): the journal writes a RUNNING manifest without Stages, whatever an
\* earlier execution of this run id left, and the loop makes its first round.
Start ==
  /\ pc = "idle" /\ runs < MaxRuns
  /\ runs' = runs + 1
  /\ external' \in {FALSE, Cancellable}
  /\ internal' = external'
  /\ SaveRun("running", {})
  /\ Schedule(phase, available, external', None)
  /\ UNCHANGED <<available, attempt, result, verdict, execVars, refs, stageFile>>

StartFails ==
  /\ StoreFaults /\ pc = "idle" /\ runs < MaxRuns
  /\ runs' = runs + 1
  /\ pc' = "raised"
  /\ UNCHANGED <<terminal, available, coroVars, snapshot, cancelVars, execVars,
                 storeVars>>

Finished == {s \in Stages : phase[s] \in {"returned", "raised"}}

\* The terminal status after the results of D: FAILED replaces anything,
\* CANCELLED only None.
Settled(D) ==
  IF \E s \in D : result[s].status = "failed" THEN "failed"
  ELSE IF terminal = None /\ \E s \in D : result[s].status = "cancelled"
  THEN "cancelled" ELSE terminal

\* asyncio.wait hands over every coroutine that has ended by now; their
\* results are read in plan order and the next round is scheduled.  Reading the
\* result of one that raised leaves the loop.
Collect ==
  /\ pc = "waiting" /\ Finished # {}
  /\ LET ph == [s \in Stages |-> IF s \in Finished THEN "collected" ELSE phase[s]]
     IN IF \E s \in Finished : phase[s] = "raised"
        THEN /\ pc' = "closing" /\ internal' = TRUE
             /\ UNCHANGED <<terminal, available, snapshot, phase>>
        ELSE LET term == Settled(Finished) IN
             /\ available' = [s \in Stages |->
                                IF s \in Finished /\ EndedWell(result[s])
                                THEN result[s].output ELSE available[s]]
             /\ internal' = (internal \/ term # None)
             /\ Schedule(ph, available', internal', term)
  /\ UNCHANGED <<attempt, result, verdict, external, execVars, storeVars, runs>>

\* (mutant) the exception path leaves the active coroutines behind
RaiseAtOnce ==
  /\ pc = "closing"
  /\ pc' = "raised"
  /\ UNCHANGED <<terminal, available, coroVars, snapshot, cancelVars, execVars,
                 storeVars, runs>>

\* The exception path gathers the coroutines that are still active first.
CloseAfterError ==
  /\ pc = "closing"
  /\ \A s \in Stages : phase[s] \notin Active \ {"returned", "raised"}
  /\ pc' = "raised"
  /\ UNCHANGED <<terminal, available, coroVars, snapshot, cancelVars, execVars,
                 storeVars, runs>>

IsComplete(a) == stageFile[a] # None /\ EndedWell(stageFile[a].result)

\* journal.finish.  LocalRunStore.save_run refuses a SUCCEEDED manifest that
\* references an attempt which did not end well.
Finish ==
  /\ pc = "finishing"
  /\ LET status == IF terminal = None THEN "succeeded" ELSE terminal
         refused == status = "succeeded" /\ \E a \in refs : ~IsComplete(a)
     IN \/ ~refused /\ SaveRun(status, refs) /\ pc' = "done"
        \/ (refused \/ StoreFaults) /\ pc' = "raised" /\ UNCHANGED runFile
  /\ UNCHANGED <<terminal, available, coroVars, snapshot, cancelVars, execVars,
                 refs, stageFile, runs>>
-----------------------------------------------------------------------------
(***************************************************************************)
(* _run_stage.                                                              *)
(***************************************************************************)
\* A required input is not among the artifacts at launch.
MissingInput(s) == \E p \in Inputs[s] : snapshot[s][p] = None

TaskInputs(s) == [p \in Stages |-> IF p \in Inputs[s] THEN snapshot[s][p] ELSE None]

\* _validate_result_outputs
Validated(r) == IF r.output = Undeclared THEN Failed ELSE r

\* retry_policy.should_retry after n attempts
ShouldRetry(r, n) == r.retryable /\ n < MaxAttempts

Manifest(s, r, basis) == [result |-> r, inputs |-> TaskInputs(s), basis |-> basis]

\* (mutant) the run manifest is written before the Stage manifest
RecordStageRunFirst(s, n, r, basis, next) ==
  LET a == <<s, n>>
  IN /\ refs' = refs \cup {a}
     /\ SaveRun("running", refs')
     /\ \/ /\ stageFile' = [stageFile EXCEPT ![a] = Manifest(s, r, basis)]
           /\ phase' = [phase EXCEPT ![s] = next]
        \/ /\ StoreFaults
           /\ phase' = [phase EXCEPT ![s] = "raised"]
           /\ UNCHANGED stageFile

\* journal.record_stage writes the Stage manifest and its cache index entry,
\* then the running manifest; if one write fails the coroutine raises.  (basis
\* is history: the inputs the runner that produced r really read.)
RecordStage(s, n, r, basis, next) ==
  LET a == <<s, n>>
      written == [stageFile EXCEPT ![a] = Manifest(s, r, basis)]
  IN \/ /\ stageFile' = written
        /\ refs' = refs \cup {a}
        /\ SaveRun("running", refs')
        /\ phase' = [phase EXCEPT ![s] = next]
     \/ /\ StoreFaults
        /\ phase' = [phase EXCEPT ![s] = "raised"]
        /\ UNCHANGED runFile
        /\ \/ stageFile' = written /\ refs' \in {refs, refs \cup {a}}
           \/ UNCHANGED <<stageFile, refs>>

\* Attempt n of s ended with r: record it, then return or back off.
EndAttempt(s, n, r, basis) ==
  /\ attempt' = [attempt EXCEPT ![s] = n]
  /\ result' = [result EXCEPT ![s] = r]
  /\ RecordStage(s, n, r, basis,
                 IF ShouldRetry(r, n) THEN "backoff" ELSE "returned")

\* Attempt n: a cancelled run records a cancellation, else the task is
\* submitted.
BeginAttempt(s, n) ==
  \/ /\ internal
     /\ EndAttempt(s, n, Cancelled, TaskInputs(s))
     /\ UNCHANGED execVars
  \/ /\ ~internal /\ s \in Flaky
     /\ EndAttempt(s, n, Transient, TaskInputs(s))
     /\ UNCHANGED execVars
  \/ /\ ~internal
     /\ Exec!Accept(<<s, n>>)
     /\ attempt' = [attempt EXCEPT ![s] = n]
     /\ phase' = [phase EXCEPT ![s] = "awaiting"]
     /\ UNCHANGED <<result, storeVars>>

\* (mutant) the inputs of the candidate are not compared
CandidatesAnyInputs(s) == {a \in Attempts : /\ a[1] = s
                                            /\ stageFile[a] # None
                                            /\ stageFile[a].result.status = "succeeded"}

\* Manifests of this run whose task equals the one to run.
Candidates(s) == {a \in Attempts : /\ a[1] = s
                                   /\ stageFile[a] # None
                                   /\ stageFile[a].result.status = "succeeded"
                                   /\ stageFile[a].inputs = TaskInputs(s)}

\* The coroutine's first step.  The evaluator may still reject a candidate (a
\* forced Stage, another model version, a damaged artifact).
StageBegins(s) ==
  /\ phase[s] = "started"
  /\ IF MissingInput(s)
     THEN EndAttempt(s, 1, Failed, TaskInputs(s)) /\ UNCHANGED execVars
     ELSE \/ \E a \in Candidates(s) :
               /\ EndAttempt(s, 1, Validated(stageFile[a].result), stageFile[a].basis)
               /\ UNCHANGED execVars
          \/ BeginAttempt(s, 1)
  /\ UNCHANGED <<schedVars, snapshot, verdict, cancelVars, runs>>

Current(s) == <<s, attempt[s]>>

\* The result wins the race against timeout and cancellation.
Observe(s) ==
  /\ phase[s] = "awaiting" /\ completion[Current(s)] # None
  /\ EndAttempt(s, attempt[s], Validated(completion[Current(s)]), TaskInputs(s))
  /\ UNCHANGED <<schedVars, snapshot, verdict, cancelVars, execVars, runs>>

\* The wait ends without the result.  The attempt's verdict is fixed, the job
\* is cancelled (a queued job ends at once), and the result is awaited.
Interrupt(s) ==
  /\ phase[s] = "awaiting"
  /\ internal \/ s \in Timed
  /\ phase' = [phase EXCEPT ![s] = "draining"]
  /\ verdict' = [verdict EXCEPT ![s] = IF internal THEN Cancelled ELSE Transient]
  /\ IF job[Current(s)] = "queued"
     THEN /\ Exec!Finish(Current(s))
          /\ completion'[Current(s)] = Cancelled
     ELSE UNCHANGED execVars
  /\ UNCHANGED <<schedVars, attempt, result, snapshot, cancelVars, storeVars, runs>>

\* (mutant) the verdict is reported without waiting for the job
DrainAtOnce(s) ==
  /\ phase[s] = "draining"
  /\ verdict' = [verdict EXCEPT ![s] = None]
  /\ EndAttempt(s, attempt[s], verdict[s], TaskInputs(s))
  /\ UNCHANGED <<schedVars, snapshot, cancelVars, execVars, runs>>

\* The job's own result is dropped for the verdict.
Drain(s) ==
  /\ phase[s] = "draining" /\ completion[Current(s)] # None
  /\ verdict' = [verdict EXCEPT ![s] = None]
  /\ EndAttempt(s, attempt[s], verdict[s], TaskInputs(s))
  /\ UNCHANGED <<schedVars, snapshot, cancelVars, execVars, runs>>

\* The backoff elapsed or was cut short by a cancellation.
NextAttempt(s) ==
  /\ phase[s] = "backoff"
  /\ BeginAttempt(s, attempt[s] + 1)
  /\ UNCHANGED <<schedVars, snapshot, verdict, cancelVars, runs>>
-----------------------------------------------------------------------------
\* The caller's token, and the task that copies it to the engine's.
ExternalCancel ==
  /\ Cancellable /\ pc = "waiting" /\ ~external
  /\ external' = TRUE
  /\ UNCHANGED <<schedVars, coroVars, snapshot, internal, execVars, storeVars, runs>>

ForwardCancellation ==
  /\ pc = "waiting" /\ external /\ ~internal
  /\ internal' = TRUE
  /\ UNCHANGED <<schedVars, coroVars, snapshot, external, execVars, storeVars, runs>>

\* The executor: a job gets a slot, its runner answers.  A job whose token is
\* set ends cancelled.
JobBegins(a) ==
  /\ Exec!Begin(a)
  /\ UNCHANGED <<schedVars, coroVars, snapshot, cancelVars, storeVars, runs>>

JobEnds(a) ==
  /\ job[a] = "running"
  /\ Exec!Finish(a)
  /\ completion'[a] \in IF phase[a[1]] = "draining" THEN {Cancelled}
                                                    ELSE Replies[a[1]]
  /\ UNCHANGED <<schedVars, coroVars, snapshot, cancelVars, storeVars, runs>>

\* The process dies, or ended, and the run id is executed again by another.
Restart ==
  /\ pc # "idle" /\ runs < MaxRuns
  /\ pc' = "idle" /\ terminal' = None
  /\ phase' = [s \in Stages |-> "pending"] /\ attempt' = [s \in Stages |-> 0]
  /\ snapshot' = [s \in Stages |-> Empty] /\ available' = Empty
  /\ result' = Empty /\ verdict' = Empty
  /\ external' = FALSE /\ internal' = FALSE
  /\ job' = [a \in Attempts |-> "absent"]
  /\ completion' = [a \in Attempts |-> None]
  /\ refs' = {}
  /\ UNCHANGED <<runFile, stageFile, runs>>

StageStep(s) == \/ StageBegins(s) \/ Observe(s) \/ Interrupt(s)
                \/ Drain(s) \/ NextAttempt(s)

Next ==
  \/ Start \/ StartFails \/ Collect \/ CloseAfterError \/ Finish
  \/ ExternalCancel \/ ForwardCancellation \/ Restart
  \/ \E s \in Stages : StageStep(s)
  \/ \E a \in Attempts : JobBegins(a) \/ JobEnds(a)

Spec == Init /\ [][Next]_vars
-----------------------------------------------------------------------------
LastAttempt(R, s) == LET N == {n \in 1..MaxAttempts : <<s, n>> \in R}
                     IN <<s, CHOOSE n \in N : \A m \in N : m <= n>>

Referenced(R) == {a[1] : a \in R}

\* The status a manifest with references R shows for s.
Shown(R, s) ==
  IF s \in Referenced(R) /\ stageFile[LastAttempt(R, s)] # None
  THEN stageFile[LastAttempt(R, s)].result.status ELSE "none"

\* A runner executes only while every dependency of its Stage is on disk, in
\* the run's manifest and well ended, so that a crash never leaves the work of
\* a Stage without the record of what it was based on.
DependenciesDurable ==
  \A a \in Attempts : job[a] \in {"queued", "running"} =>
     \A d \in Deps[a[1]] : Shown(runFile.refs, d) \in Good

\* ADR-0021: attempts of one Stage never overlap, and attempt n+1 is submitted
\* only after attempt n stopped and its failure is on disk.
AttemptsFollowDurableFailures ==
  \A s \in Stages, n \in 1..MaxAttempts : job[<<s, n>>] # "absent" =>
     \A m \in 1..(n - 1) :
        /\ job[<<s, m>>] \notin {"queued", "running"}
        /\ <<s, m>> \in runFile.refs
        /\ stageFile[<<s, m>>].result = Transient

\* The attempts of the Stages are of their types and in order.
RetriesDurable == TypeOK /\ AttemptsFollowDurableFailures

\* A terminal run manifest is justified by the Stage manifests it references,
\* which all exist: nothing but successes for SUCCEEDED, a failed Stage for
\* FAILED, and for CANCELLED no failure but a Stage that did not end well.
VerdictJustified ==
  runFile # None =>
    /\ \A a \in runFile.refs : stageFile[a] # None
    /\ runFile.status = "succeeded" =>
         \A s \in Stages : Shown(runFile.refs, s) \in Good
    /\ runFile.status = "failed" =>
         \E s \in Stages : Shown(runFile.refs, s) = "failed"
    /\ runFile.status = "cancelled" =>
         /\ \A s \in Stages : Shown(runFile.refs, s) # "failed"
         /\ \E s \in Stages : Shown(runFile.refs, s) \notin Good

\* Lineage: within one run manifest the artifacts a Stage's result was computed
\* from are the outputs its producers' manifests record, also when some results
\* were taken over from an interrupted execution of the run, and when a producer
\* was skipped: such a Stage is executed anew by every execution and may then
\* register something else.
LineageCoherent ==
  runFile # None =>
    \A s \in Referenced(runFile.refs) : Shown(runFile.refs, s) \in Good =>
      \A p \in Inputs[s] :
        /\ Shown(runFile.refs, p) \in Good
        /\ stageFile[LastAttempt(runFile.refs, s)].basis[p]
             = stageFile[LastAttempt(runFile.refs, p)].result.output

\* What is on disk explains what runs, and itself.
HistoryCoherent == DependenciesDurable /\ LineageCoherent

\* When run() returned or raised, no runner of it is still writing artifacts.
QuietWhenOver ==
  pc \in {"finishing", "done", "raised", "stalled"} =>
     \A a \in Attempts : job[a] \notin {"queued", "running"}

\* A run is closed with nothing left running and a verdict its records justify.
ClosedHonestly == QuietWhenOver /\ VerdictJustified

\* What an attempt has recorded no later step of the execution rewrites, no retry
\* and no other coroutine, and once run() returned or raised nothing is written
\* any more: a coroutine left behind would reopen the run's manifest or replace
\* a result that a next execution reads.
RecordsStand ==
  [][/\ \A a \in refs : stageFile'[a] = stageFile[a]
     /\ pc \in {"done", "raised", "stalled"} => UNCHANGED <<runFile, stageFile>>]_vars

\* The engine implements the abstract DAG run.
Dag == INSTANCE DagRun WITH
         status <- [s \in Stages |->
                      CASE phase[s] = "pending" -> "waiting"
                        [] phase[s] \in {"returned", "collected"} -> result[s].status
                        [] phase[s] = "raised" -> "broken"
                        [] OTHER -> "running"],
         verdict <- CASE pc = "idle" -> "idle"
                      [] pc \in {"waiting", "closing", "finishing"} -> "open"
                      [] pc = "done" -> runFile.status
                      [] OTHER -> "aborted"
ImplementsDagRun == Dag!Spec

\* What the tests of retries expect: when every Stage ended well, the run ends
\* SUCCEEDED, earlier failed attempts notwithstanding.
RetriedRunSucceeds ==
  pc = "raised" => \E s \in Stages : phase[s] # "collected"
                                       \/ ~EndedWell(result[s])
-----------------------------------------------------------------------------
\* Every ready coroutine is eventually resumed and every runner returns; jobs
\* are given slots.  Timeouts, cancellations and crashes may happen or not.
Fairness ==
  /\ WF_vars(Collect) /\ WF_vars(CloseAfterError) /\ WF_vars(Finish)
  /\ \A s \in Stages : WF_vars(StageBegins(s) \/ Observe(s) \/ Drain(s)
                                \/ NextAttempt(s))
  /\ \A a \in Attempts : WF_vars(JobBegins(a)) /\ WF_vars(JobEnds(a))
FairSpec == Spec /\ Fairness

\* A started run comes to an end: it returns or raises, it never stays waiting
\* for a Stage and never finds pending Stages that nobody can start.
RunEnds == (pc = "waiting") ~> (pc \in {"done", "raised"})
=============================================================================
