---------------------------- MODULE LocalExecutor ----------------------------
(***************************************************************************)
(* executors/local.py: LocalExecutor, the in-process Executor.              *)
(*                                                                          *)
(* Everything runs on one asyncio loop, so the code between two awaits is   *)
(* one action.  An execution id is a hash of the task's identity, key and   *)
(* attempt; a job is therefore named by the StageTask that created it.      *)
(*   state, completion, cancelRequested   the fields of _Job                *)
(*   token          job.control.cancellation, which the caller shares       *)
(*   idempotency, attempts                the two lookup dictionaries       *)
(*   waiting        the _execute coroutines queued on the semaphore (FIFO)  *)
(*   executing      the tasks whose runner code is on the CPU               *)
(*   invocations    history: how often a task's runner was called           *)
(*   closed         the loop has been torn down                             *)
(***************************************************************************)
EXTENDS Naturals, Sequences, FiniteSets

CONSTANTS Tasks, Keys, AttemptIds,
          KeyOf,            \* [Tasks -> Keys], task.idempotency_key
          AttemptOf,        \* [Tasks -> AttemptIds], (stage_run_id, attempt)
          Results, StatusOf,
          CancelledResult, FailedResult,
          MaxConcurrency,
          None

Terminal == {"succeeded", "skipped", "failed", "cancelled"}

ASSUME ExecutorAssumption ==
  /\ KeyOf \in [Tasks -> Keys]
  /\ AttemptOf \in [Tasks -> AttemptIds]
  /\ StatusOf \in [Results -> Terminal]
  /\ CancelledResult \in Results /\ StatusOf[CancelledResult] = "cancelled"
  /\ FailedResult \in Results /\ StatusOf[FailedResult] = "failed"
  /\ MaxConcurrency \in Nat \ {0}
  /\ None \notin Results \cup Tasks

VARIABLES state, completion, cancelRequested, token,
          idempotency, attempts, waiting, executing, invocations, closed

jobVars == <<state, completion, cancelRequested, token>>
indexVars == <<idempotency, attempts>>
vars == <<state, completion, cancelRequested, token, idempotency, attempts,
          waiting, executing, invocations, closed>>

States == {"absent", "queued", "running"} \cup Terminal

TypeOK ==
  /\ state \in [Tasks -> States]
  /\ completion \in [Tasks -> Results \cup {None}]
  /\ cancelRequested \in [Tasks -> BOOLEAN]
  /\ token \in [Tasks -> BOOLEAN]
  /\ idempotency \in [Keys -> Tasks \cup {None}]
  /\ attempts \in [AttemptIds -> Tasks \cup {None}]
  /\ waiting \in Seq(Tasks)
  /\ executing \in SUBSET Tasks
  /\ invocations \in [Tasks -> Nat]
  /\ closed \in BOOLEAN

Init ==
  /\ state = [t \in Tasks |-> "absent"]
  /\ completion = [t \in Tasks |-> None]
  /\ cancelRequested = [t \in Tasks |-> FALSE]
  /\ token = [t \in Tasks |-> FALSE]
  /\ idempotency = [k \in Keys |-> None]
  /\ attempts = [a \in AttemptIds |-> None]
  /\ waiting = <<>>
  /\ executing = {}
  /\ invocations = [t \in Tasks |-> 0]
  /\ closed = FALSE
-----------------------------------------------------------------------------
(***************************************************************************)
(* Mutated forms of some definitions below (PROJECT.json, "mutants").       *)
(***************************************************************************)
\* submit without the attempt index
AdmissibleByKeyOnly(t) == idempotency[KeyOf[t]] = None

\* the result is published, the job stays RUNNING
FinishForgetsState(t, r) ==
  /\ completion' = [completion EXCEPT ![t] = IF @ = None THEN r ELSE @]
  /\ UNCHANGED state

\* a late success is reported for a cancelled job
NormalizeIgnoresCancel(t, r) == r

\* cancel() finishing a job whatever its state
CancelFinishesRunning(t) ==
  /\ state[t] \in {"queued", "running"}
  /\ cancelRequested' = [cancelRequested EXCEPT ![t] = TRUE]
  /\ token' = [token EXCEPT ![t] = TRUE]
  /\ state' = [state EXCEPT ![t] = "cancelled"]
  /\ completion' = [completion EXCEPT ![t] = CancelledResult]
  /\ UNCHANGED <<indexVars, waiting, executing, invocations, closed>>

\* a slot is given only to a job that is still queued
AcquireStuckOnCancelled ==
  /\ waiting # <<>>
  /\ Cardinality(executing) < MaxConcurrency
  /\ LET t == Head(waiting) IN
       /\ state[t] = "queued"
       /\ waiting' = Tail(waiting)
       /\ state' = [state EXCEPT ![t] = "running"]
       /\ executing' = executing \cup {t}
       /\ invocations' = [invocations EXCEPT ![t] = @ + 1]
  /\ UNCHANGED <<completion, cancelRequested, token, indexVars, closed>>
-----------------------------------------------------------------------------
\* The caller sees a fresh handle only if neither index knows the task; a known
\* key returns the existing handle or raises, a known attempt raises.
Admissible(t) == /\ idempotency[KeyOf[t]] = None
                 /\ attempts[AttemptOf[t]] = None

Submit(t) ==
  /\ ~closed
  /\ Admissible(t)
  /\ state' = [state EXCEPT ![t] = "queued"]
  /\ idempotency' = [idempotency EXCEPT ![KeyOf[t]] = t]
  /\ attempts' = [attempts EXCEPT ![AttemptOf[t]] = t]
  /\ waiting' = Append(waiting, t)
  /\ UNCHANGED <<completion, cancelRequested, token, executing, invocations,
                 closed>>

\* _finish: the state always follows, the completion future is set once.
Finish(t, r) ==
  /\ state' = [state EXCEPT ![t] = StatusOf[r]]
  /\ completion' = [completion EXCEPT ![t] = IF @ = None THEN r ELSE @]

\* The caller sets the shared token of a job without calling cancel().
SignalToken(t) ==
  /\ state[t] # "absent"
  /\ token' = [token EXCEPT ![t] = TRUE]
  /\ UNCHANGED <<state, completion, cancelRequested, indexVars, waiting,
                 executing, invocations, closed>>

Cancel(t) ==
  /\ state[t] \in {"queued", "running"}
  /\ cancelRequested' = [cancelRequested EXCEPT ![t] = TRUE]
  /\ token' = [token EXCEPT ![t] = TRUE]
  /\ IF state[t] = "queued" THEN Finish(t, CancelledResult)
                            ELSE UNCHANGED <<state, completion>>
  /\ UNCHANGED <<indexVars, waiting, executing, invocations, closed>>

Cancelled(t) == cancelRequested[t] \/ token[t]

\* _execute gets the semaphore.  A job that was finished while it waited gives
\* the slot straight back; a cancelled one is finished without its runner.
Acquire ==
  /\ waiting # <<>>
  /\ Cardinality(executing) < MaxConcurrency
  /\ LET t == Head(waiting) IN
       /\ waiting' = Tail(waiting)
       /\ IF completion[t] # None
          THEN UNCHANGED <<state, completion, executing, invocations>>
          ELSE IF Cancelled(t)
          THEN Finish(t, CancelledResult) /\ UNCHANGED <<executing, invocations>>
          ELSE /\ state' = [state EXCEPT ![t] = "running"]
               /\ executing' = executing \cup {t}
               /\ invocations' = [invocations EXCEPT ![t] = @ + 1]
               /\ UNCHANGED completion
  /\ UNCHANGED <<cancelRequested, token, indexVars, closed>>

\* What a runner hands back once normalised: its StageResult, or FailedResult
\* for an exception, a foreign value or a mismatched identity.
Normalize(t, r) == IF Cancelled(t) THEN CancelledResult ELSE r

RunnerReturns(t) ==
  /\ ~closed
  /\ t \in executing
  /\ \E r \in Results : Finish(t, Normalize(t, r))
  /\ executing' = executing \ {t}
  /\ UNCHANGED <<cancelRequested, token, indexVars, waiting, invocations,
                 closed>>

\* The loop is torn down and every background task receives CancelledError.  A
\* coroutine runner stops with it, a runner in a worker thread goes on.  The first
\* n coroutines in the queue have begun to wait; a later one is cancelled before
\* its first step, outside the try of _execute, and its job is left as it is.
Close ==
  /\ ~closed
  /\ closed' = TRUE
  /\ \E n \in 0..Len(waiting) :
       LET stopped == {t \in Tasks : /\ completion[t] = None
                                     /\ \/ state[t] = "running"
                                        \/ \E i \in 1..n : waiting[i] = t}
       IN /\ state' = [t \in Tasks |-> IF t \in stopped THEN "cancelled" ELSE state[t]]
          /\ completion' = [t \in Tasks |-> IF t \in stopped THEN CancelledResult
                                                             ELSE completion[t]]
  /\ waiting' = <<>>
  /\ executing' \in SUBSET executing
  /\ UNCHANGED <<cancelRequested, token, indexVars, invocations>>

\* A worker thread that outlived the loop ends; nobody reads its result.
OrphanEnds(t) ==
  /\ closed
  /\ t \in executing
  /\ executing' = executing \ {t}
  /\ UNCHANGED <<jobVars, indexVars, waiting, invocations, closed>>

Next == \/ \E t \in Tasks : \/ Submit(t) \/ SignalToken(t) \/ Cancel(t)
                            \/ RunnerReturns(t) \/ OrphanEnds(t)
        \/ Acquire
        \/ Close

Spec == Init /\ [][Next]_vars
-----------------------------------------------------------------------------
\* Capacity: while the loop lives, the jobs in state RUNNING are exactly those
\* whose runner code runs, cancelled ones included, and they fit the slots.
SlotsBounded ==
  ~closed => /\ executing = {t \in Tasks : state[t] = "running"}
             /\ Cardinality(executing) <= MaxConcurrency

\* Idempotency: of all tasks sharing an idempotency key, or an attempt, at most
\* one ever reaches its runner, and that one reaches it once.
RunsAtMostOnce ==
  \A t, u \in Tasks :
     /\ invocations[t] <= 1
     /\ (/\ invocations[t] > 0 /\ invocations[u] > 0
         /\ KeyOf[t] = KeyOf[u] \/ AttemptOf[t] = AttemptOf[u]) => t = u

\* A result is visible to a waiter only after the runner stopped touching its
\* artifacts (the loop teardown of Close is the one exception).
VerdictMeansStopped ==
  ~closed => \A t \in executing : completion[t] = None

\* submit keeps its two dictionaries and the job table in step.
IndexesAgree ==
  /\ \A t \in Tasks : state[t] # "absent" =>
        idempotency[KeyOf[t]] = t /\ attempts[AttemptOf[t]] = t
  /\ \A k \in Keys : idempotency[k] # None =>
        KeyOf[idempotency[k]] = k /\ state[idempotency[k]] # "absent"
  /\ \A a \in AttemptIds : attempts[a] # None =>
        AttemptOf[attempts[a]] = a /\ state[attempts[a]] # "absent"

\* The tables of submit, the semaphore's slots and the runners describe the
\* same jobs.
BookkeepingExact == TypeOK /\ IndexesAgree /\ SlotsBounded

\* Once a caller could see a result, that job's runner is never started (a job
\* cancelled while queued stays unexecuted although its coroutine is alive).
NoRunAfterVerdict ==
  [][\A t \in Tasks : completion[t] # None => invocations'[t] = invocations[t]]_vars

\* A cancellation accepted before the runner came back decides the result: a
\* late success is never reported for it.
CancelDecides ==
  [][\A t \in Tasks : (Cancelled(t) /\ completion[t] = None /\ completion'[t] # None)
                         => StatusOf[completion'[t]] = "cancelled"]_vars

\* A verdict holds: no run after it, and a cancellation decides it.
VerdictsHold == NoRunAfterVerdict /\ CancelDecides

\* The executor implements its port.
Port == INSTANCE ExecutorPort WITH result <- completion
ImplementsPort == Port!Spec
-----------------------------------------------------------------------------
\* The loop keeps running its ready callbacks and every runner returns.
Fairness == WF_vars(Acquire) /\ \A t \in Tasks : WF_vars(RunnerReturns(t))
FairSpec == Spec /\ Fairness

\* Every accepted job gets a result, whatever is cancelled around it, unless the
\* loop is torn down before its runner was called.
EveryJobEnds ==
  \A t \in Tasks :
     (state[t] = "queued") ~> (completion[t] # None \/ (closed /\ invocations[t] = 0))
=============================================================================
