---------------------------- MODULE PipelineRuns ----------------------------
(***************************************************************************)
(* services/pipeline_runs.py: PipelineRunService (durable public runs) with *)
(* its LocalPipelineRunRepository and LocalPipelineProgressReader.  All of  *)
(* it runs on the single event loop of api/server.py; the code between two  *)
(* awaits is one action.  The engine behind application.run is reduced to   *)
(* the run manifest it leaves on disk and to how it ends.                   *)
(*   store      the public snapshots on disk, by run id                     *)
(*   manifest   the engine's run manifest on disk: status, the number of    *)
(*              Stages that ended well, and of those that ended otherwise   *)
(*   phase      the _execute task of a run: "none" when the id is not in    *)
(*              _tasks, "saving" between journal.finish and the snapshot,   *)
(*              "ended" until the done callback releases it                 *)
(*   token      _cancellations[run_id].cancelled                            *)
(*   issued     run ids handed out so far (uuids never repeat)              *)
(*   now        the clock; terminal snapshots are ordered by it             *)
(*   restarts   process deaths so far                                       *)
(***************************************************************************)
EXTENDS Naturals, FiniteSets

CONSTANTS RunIds,           \* finite set of naturals: uuids, in their order
          Keys,             \* idempotency keys
          Steps,            \* planned Stages per run
          MaxActive,        \* max_active_runs
          Retain,           \* retain_terminal_runs
          MaxTime,          \* bound on the clock
          MaxRestarts,      \* bound on process deaths
          FaultyRuns,       \* runs of which a snapshot write in _execute may fail
          None

ASSUME RunsAssumption ==
  /\ RunIds \subseteq Nat /\ IsFiniteSet(RunIds)
  /\ Steps \in Nat \ {0} /\ MaxActive \in Nat \ {0} /\ Retain \in Nat \ {0}
  /\ MaxTime \in Nat /\ MaxRestarts \in Nat
  /\ FaultyRuns \subseteq RunIds
  /\ None \notin Keys \cup Nat \cup {"running", "succeeded", "failed", "cancelled",
                               "PIPELINE", "INTERNAL", "RUN_INTERRUPTED"}

VARIABLES store, manifest, phase, token, issued, now, restarts

vars == <<store, manifest, phase, token, issued, now, restarts>>

Ends == {"succeeded", "failed", "cancelled"}
Codes == {"PIPELINE", "INTERNAL", "RUN_INTERRUPTED", None}
Live == {"created", "running", "saving"}

Snapshots == [status : Ends \cup {"queued", "running"}, key : Keys,
              done : 0..Steps, code : Codes, completedAt : 0..MaxTime \cup {None}]
Manifests == [status : Ends \cup {"running"}, done : 0..Steps, open : 0..1]

\* A missing file is no record.
ASSUME NoneIsNoRecord == None \notin Snapshots \cup Manifests

IsTerminal(snapshot) == snapshot.status \in Ends

Stored == {r \in RunIds : store[r] # None}
Terminal == {r \in Stored : IsTerminal(store[r])}
Unfinished == Stored \ Terminal

\* PipelineRunSnapshot.__post_init__ is part of the type: at most the planned
\* Stages are completed, and completed_at is there exactly on terminal runs.
TypeOK ==
  /\ store \in [RunIds -> Snapshots \cup {None}]
  /\ \A r \in Stored : (store[r].completedAt # None) = IsTerminal(store[r])
  /\ manifest \in [RunIds -> Manifests \cup {None}]
  /\ phase \in [RunIds -> Live \cup {"none", "ended"}]
  /\ token \in [RunIds -> BOOLEAN]
  /\ issued \in SUBSET RunIds
  /\ now \in 0..MaxTime
  /\ restarts \in 0..MaxRestarts

Init == /\ store = [r \in RunIds |-> None]
        /\ manifest = [r \in RunIds |-> None]
        /\ phase = [r \in RunIds |-> "none"]
        /\ token = [r \in RunIds |-> FALSE]
        /\ issued = {}
        /\ now = 0
        /\ restarts = 0
-----------------------------------------------------------------------------
(***************************************************************************)
(* The repository.  s ranges over contents of the store.                    *)
(***************************************************************************)
\* Retention order: by (completed_at, run_id).
Newer(s, q, r) == \/ s[q].completedAt > s[r].completedAt
                  \/ s[q].completedAt = s[r].completedAt /\ q > r

Ended(s) == {r \in RunIds : s[r] # None /\ IsTerminal(s[r])}

\* (mutant) the sort is not reversed
ExpiredNewest(s) ==
  {r \in Ended(s) : Cardinality({q \in Ended(s) : Newer(s, r, q)}) >= Retain}

\* _prune_terminal_locked: the terminal records behind the newest Retain ones.
Expired(s) ==
  {r \in Ended(s) : Cardinality({q \in Ended(s) : Newer(s, q, r)}) >= Retain}

Pruned(s) == [r \in RunIds |-> IF r \in Expired(s) THEN None ELSE s[r]]

\* save(): write the record, then prune.  A terminal record is dated `now`, and
\* time may pass.
Save(r, snapshot) == store' = Pruned([store EXCEPT ![r] = snapshot])

TimePasses == now' \in {now, now + 1} \cap (0..MaxTime)

\* (mutant) only runs that have not ended count
KeyTakenByUnfinished(k) == \E r \in Unfinished : store[r].key = k

\* find_by_idempotency_key
KeyTaken(k) == \E r \in Stored : store[r].key = k
-----------------------------------------------------------------------------
(***************************************************************************)
(* Snapshots the service writes.                                            *)
(***************************************************************************)
Queued(k) == [status |-> "queued", key |-> k, done |-> 0, code |-> None,
              completedAt |-> None]

Verdict(snapshot, status, done, code) ==
  [snapshot EXCEPT !.status = status, !.done = done, !.code = code,
                   !.completedAt = now]

\* _mark_interrupted
Interrupted(snapshot) ==
  Verdict(snapshot, "failed", snapshot.done, "RUN_INTERRUPTED")

\* completed_stage_names of an ended run: all Stages with a record, the one
\* that failed or was cancelled included.
Completed(m) == m.done + m.open

CodeOf(status) == IF status = "succeeded" THEN None ELSE "PIPELINE"

Registered(r) == phase[r] # "none"          \* run_id in self._tasks

\* (mutant) a stored verdict is not looked at first
RefreshedAlways(r) ==
  LET old == store[r]
      m == manifest[r]
  IN IF ~Registered(r) THEN Interrupted(old)
     ELSE IF m = None THEN old
     ELSE IF m.status = "running" THEN [old EXCEPT !.status = "running", !.done = m.done]
     ELSE Verdict(old, m.status, Completed(m), CodeOf(m.status))

\* _refresh: terminal snapshots stay, a run without a task was interrupted, and
\* otherwise the engine's manifest is projected.
Refreshed(r) ==
  LET old == store[r]
      m == manifest[r]
  IN IF IsTerminal(old) THEN old
     ELSE IF ~Registered(r) THEN Interrupted(old)
     ELSE IF m = None THEN old
     ELSE IF m.status = "running"
     THEN [old EXCEPT !.status = "running", !.done = m.done]
     ELSE Verdict(old, m.status, Completed(m), CodeOf(m.status))
-----------------------------------------------------------------------------
(***************************************************************************)
(* The service.  Nothing else runs on the loop while a run is "saving".     *)
(***************************************************************************)
LoopFree == \A r \in RunIds : phase[r] # "saving"

\* create counts the snapshots that are not terminal.
ActiveCount == Cardinality(Unfinished)

\* create with an unknown key.  (With a known key it is Get of that run, or an
\* idempotency conflict that changes nothing.)
Create(k) ==
  /\ LoopFree
  /\ ~KeyTaken(k)
  /\ ActiveCount < MaxActive
  /\ \E r \in RunIds \ issued :
       /\ issued' = issued \cup {r}
       /\ Save(r, Queued(k))
       /\ phase' = [phase EXCEPT ![r] = "created"]
  /\ UNCHANGED <<manifest, token, now, restarts>>

\* get, and create with the key of r.
Get(r) ==
  /\ LoopFree
  /\ r \in Stored
  /\ Save(r, Refreshed(r))
  /\ TimePasses
  /\ UNCHANGED <<manifest, phase, token, issued, restarts>>

\* cancel: the run is refreshed first; a run that has ended keeps its verdict.
Cancel(r) ==
  /\ LoopFree
  /\ r \in Stored
  /\ Save(r, Refreshed(r))
  /\ token' = [token EXCEPT ![r] = @ \/ ~IsTerminal(Refreshed(r))]
  /\ TimePasses
  /\ UNCHANGED <<manifest, phase, issued, restarts>>

Shutdown ==
  /\ LoopFree
  /\ token' = [r \in RunIds |-> token[r] \/ Registered(r)]
  /\ UNCHANGED <<store, manifest, phase, issued, now, restarts>>

\* _execute saves the RUNNING snapshot outside its try block.
ExecuteBegins(r) ==
  /\ LoopFree
  /\ phase[r] = "created"
  /\ \/ /\ Save(r, [Queued(store[r].key) EXCEPT !.status = "running"])
        /\ phase' = [phase EXCEPT ![r] = "running"]
     \/ /\ r \in FaultyRuns
        /\ phase' = [phase EXCEPT ![r] = "ended"]
        /\ UNCHANGED store
  /\ UNCHANGED <<manifest, token, issued, now, restarts>>

Journal == [status |-> "running", done |-> 0, open |-> 0]

\* The engine starts its journal, then records one Stage after the other.
EngineProgress(r) ==
  /\ LoopFree
  /\ phase[r] = "running"
  /\ \/ /\ manifest[r] = None
        /\ manifest' = [manifest EXCEPT ![r] = Journal]
     \/ /\ manifest[r] # None /\ manifest[r].done < Steps
        /\ manifest' = [manifest EXCEPT ![r].done = @ + 1]
  /\ UNCHANGED <<store, phase, token, issued, now, restarts>>

\* journal.finish writes the engine's verdict; nothing awaits until the public
\* snapshot is saved too.
EngineReturns(r) ==
  /\ LoopFree
  /\ phase[r] = "running" /\ manifest[r] # None
  /\ \E status \in Ends, open \in 0..1 :
       /\ IF status = "succeeded" THEN manifest[r].done = Steps /\ open = 0
                                  ELSE manifest[r].done < Steps
       /\ status = "failed" => open = 1
       /\ status = "cancelled" => token[r]
       /\ manifest' = [manifest EXCEPT ![r].status = status, ![r].open = open]
  /\ phase' = [phase EXCEPT ![r] = "saving"]
  /\ UNCHANGED <<store, token, issued, now, restarts>>

SaveResult(r) ==
  /\ phase[r] = "saving"
  /\ phase' = [phase EXCEPT ![r] = "ended"]
  /\ LET m == manifest[r]
     IN \/ Save(r, Verdict(store[r], m.status, Completed(m), CodeOf(m.status)))
        \/ r \in FaultyRuns /\ UNCHANGED store
  /\ TimePasses
  /\ UNCHANGED <<manifest, token, issued, restarts>>

\* (mutant) an exception of the application is not recorded
EngineRaisesUnsaved(r) ==
  /\ LoopFree
  /\ phase[r] = "running"
  /\ phase' = [phase EXCEPT ![r] = "ended"]
  /\ UNCHANGED <<store, manifest, token, issued, now, restarts>>

\* application.run raises: _save_failure replaces the snapshot taken when the
\* run started, without the progress stored since.
EngineRaises(r) ==
  /\ LoopFree
  /\ phase[r] = "running"
  /\ phase' = [phase EXCEPT ![r] = "ended"]
  /\ \/ Save(r, Verdict(store[r], "failed", 0, "INTERNAL"))
     \/ r \in FaultyRuns /\ UNCHANGED store
  /\ TimePasses
  /\ UNCHANGED <<manifest, token, issued, restarts>>

\* The done callback of the task.
Release(r) ==
  /\ LoopFree
  /\ phase[r] = "ended"
  /\ phase' = [phase EXCEPT ![r] = "none"]
  /\ token' = [token EXCEPT ![r] = FALSE]
  /\ UNCHANGED <<store, manifest, issued, now, restarts>>

\* The process dies, between two disk writes if need be; the next one prunes
\* and marks every run that has no verdict as interrupted before it serves.
Restart ==
  /\ restarts < MaxRestarts
  /\ restarts' = restarts + 1
  /\ phase' = [r \in RunIds |-> "none"]
  /\ token' = [r \in RunIds |-> FALSE]
  /\ store' = Pruned([r \in RunIds |-> IF r \in Unfinished
                                       THEN Interrupted(store[r]) ELSE store[r]])
  /\ TimePasses
  /\ UNCHANGED <<manifest, issued>>

Next == \/ \E k \in Keys : Create(k)
        \/ \E r \in RunIds : \/ Get(r) \/ Cancel(r) \/ ExecuteBegins(r)
                             \/ EngineProgress(r) \/ EngineReturns(r)
                             \/ SaveResult(r) \/ EngineRaises(r) \/ Release(r)
        \/ Shutdown \/ Restart

Spec == Init /\ [][Next]_vars
-----------------------------------------------------------------------------
\* A run whose task is at work is on disk without a verdict: retention never
\* drops it, and nobody ever reads it as interrupted while it goes on.
LiveRunsVisible ==
  \A r \in RunIds : phase[r] \in Live => r \in Unfinished

\* The capacity of the service: at most MaxActive tasks are at work, and as
\* long as the writes of a run succeed it takes capacity only while somebody
\* works on it: a snapshot without verdict has a live task.
CapacityExact ==
  /\ Cardinality({r \in RunIds : phase[r] \in Live}) <= MaxActive
  /\ \A r \in Unfinished \ FaultyRuns : phase[r] \in Live

\* ADR-0025: two stored runs never share an idempotency key, so a resend is
\* always answered with the one run that key started.
OneRunPerKey ==
  \A r, q \in Stored : store[r].key = store[q].key => r = q

\* A stored verdict of the engine is the verdict in the engine's manifest, an
\* INTERNAL one belongs to a run without engine verdict.
VerdictTruthful ==
  \A r \in Terminal :
     /\ store[r].code \in {None, "PIPELINE"} =>
          manifest[r] # None /\ store[r].status = manifest[r].status
     /\ store[r].code = "INTERNAL" =>
          manifest[r] = None \/ manifest[r].status = "running"

\* Retention keeps the store bounded.
RetentionBound == Cardinality(Terminal) <= Retain

\* At any time the store, the tasks and the engine's manifests agree: on which
\* runs live, which key is whose, what a verdict was, what was forgotten and
\* what capacity is taken.
RunsConsistent ==
  /\ TypeOK /\ LiveRunsVisible /\ OneRunPerKey /\ VerdictTruthful /\ RetentionBound
  /\ CapacityExact

\* A client that saw a verdict never sees another one, not after a restart,
\* a late cancel or a poll that races with the end of the run.
VerdictFinal ==
  [][\A r \in Terminal : store'[r] \in {store[r], None}]_vars

\* ADR-0025: retention forgets a run only while Retain runs that completed no
\* earlier are kept, so never one whose end lies in the future.
ForgetsOnlyOldest ==
  [][\A r \in Stored : store'[r] = None =>
       LET since == IF r \in Terminal THEN store[r].completedAt ELSE now
       IN Cardinality({q \in Ended(store') : store'[q].completedAt >= since})
            >= Retain]_vars

\* The number of completed Stages a client sees never goes back, except when
\* an exception of the application replaced the snapshot.
ProgressKept ==
  [][\A r \in Stored : store'[r] # None =>
       store'[r].code = "INTERNAL" \/ store'[r].done >= store[r].done]_vars

\* What a client was told stands: its verdict, its progress.
NothingRevised == VerdictFinal /\ ProgressKept

\* ADR-0025: RUN_INTERRUPTED is what a restart makes of a run that was not
\* completed.
InterruptedMeansUnfinished ==
  \A r \in Terminal : store[r].code = "RUN_INTERRUPTED" =>
     manifest[r] = None \/ manifest[r].status = "running"
-----------------------------------------------------------------------------
\* The loop resumes ready tasks, and application.run ends (see RunEnds of
\* PipelineEngine).
Fairness ==
  \A r \in RunIds : /\ WF_vars(ExecuteBegins(r))
                    /\ WF_vars(EngineReturns(r) \/ EngineRaises(r))
                    /\ WF_vars(SaveResult(r))
FairSpec == Spec /\ Fairness

\* Every accepted run whose snapshots can be written gets a verdict, whatever crashes, cancels and polls
\* happen, or is so old that retention dropped it.
EveryRunEnds ==
  \A r \in RunIds \ FaultyRuns : (r \in Unfinished) ~> (r \notin Unfinished)
=============================================================================
