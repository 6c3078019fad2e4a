---------------------------- MODULE InferenceJobs ----------------------------
(***************************************************************************)
(* inference/http/server.py: InferenceHTTPService, the job registry of the  *)
(* model server.  HTTP handler threads (submit, cancel) and one event-loop  *)
(* thread (_execute) share it under a lock: every critical section, and     *)
(* every call between two of them, is one action.                           *)
(*                                                                          *)
(* Job objects are numbered in the order of their creation; the registry    *)
(* finds them by request id, and so do the coroutines and cancel threads,   *)
(* which keep the id, not the object.                                       *)
(*   jobs, index   _jobs and _idempotency                                   *)
(*   request, status   of each job object                                   *)
(*   submit        the handler thread that created the job: before          *)
(*                 runtime.submit, before job.future = future, done         *)
(*   coroutine     the _execute(request_id) started for the job             *)
(*   signalled     its future was cancelled                                 *)
(*   cancels       the cancel handler threads                               *)
(*   source        history: the job whose coroutine set the status          *)
(*   created       job objects so far;  closed: runtime.close was called    *)
(***************************************************************************)
EXTENDS Naturals, FiniteSets

CONSTANTS Requests,         \* InferenceRequests clients send
          Ids, IdOf,        \* [Requests -> Ids], request.request_id
          Keys, KeyOf,      \* [Requests -> Keys], request.idempotency_key
          Cancellers,       \* handler threads that cancel
          MaxJobs,          \* max_jobs
          MaxCreated,       \* bound on the job objects
          Reuse,            \* a request may be accepted again once forgotten
          None

ASSUME JobsAssumption ==
  /\ IdOf \in [Requests -> Ids] /\ KeyOf \in [Requests -> Keys]
  /\ IsFiniteSet(Ids)
  /\ MaxJobs \in Nat \ {0} /\ MaxCreated \in Nat \ {0}
  /\ Reuse \in BOOLEAN
  /\ None \notin Requests \cup Ids

VARIABLES jobs, index, request, status, source, submit, coroutine, signalled,
          cancels, created, closed

registryVars == <<jobs, index, request, created>>
loopVars == <<submit, coroutine, signalled, closed>>
vars == <<registryVars, status, source, loopVars, cancels>>

Objects == 1..MaxCreated
Terminal == {"succeeded", "failed", "cancelled"}
NoCancel == [stage |-> "idle", id |-> None, future |-> 0]

TypeOK ==
  /\ jobs \in [Ids -> Objects \cup {0}]             \* 0: no such request id
  /\ index \in [Keys -> Ids \cup {None}]
  /\ request \in [Objects -> Requests \cup {None}]
  /\ status \in [Objects -> Terminal \cup {"none", "queued", "running"}]
  /\ source \in [Objects -> Objects \cup {0}]
  /\ submit \in [Objects -> {"none", "created", "dispatched", "done"}]
  /\ coroutine \in [Objects -> {"none", "scheduled", "executing", "ended"}]
  /\ signalled \in [Objects -> BOOLEAN]
  /\ cancels \in [Cancellers ->
                    [stage : {"idle", "calling", "marking", "answering", "keyerror"},
                     id : Ids \cup {None}, future : Objects \cup {0}]]
  /\ created \in 0..MaxCreated
  /\ closed \in BOOLEAN

Init == /\ jobs = [d \in Ids |-> 0]
        /\ index = [k \in Keys |-> None]
        /\ request = [i \in Objects |-> None]
        /\ status = [i \in Objects |-> "none"]
        /\ source = [i \in Objects |-> 0]
        /\ submit = [i \in Objects |-> "none"]
        /\ coroutine = [i \in Objects |-> "none"]
        /\ signalled = [i \in Objects |-> FALSE]
        /\ cancels = [c \in Cancellers |-> NoCancel]
        /\ created = 0
        /\ closed = FALSE

Known == {d \in Ids : jobs[d] # 0}
IdOfJob(i) == IdOf[request[i]]
-----------------------------------------------------------------------------
(***************************************************************************)
(* submit.                                                                  *)
(***************************************************************************)
Removable == {d \in Known : status[jobs[d]] \in Terminal}

\* Without room submit answers 429.
HasRoom == Cardinality(Known) < MaxJobs \/ Removable # {}

\* _prune_terminal_jobs: a full registry drops its oldest terminal job ...
Dropped ==
  IF Cardinality(Known) < MaxJobs THEN {}
  ELSE {d \in Removable : \A e \in Removable : jobs[d] <= jobs[e]}

\* (mutant) the idempotency record of a dropped job stays
ForgottenKeysNone == {}

\* ... and the idempotency record it was filed under.
ForgottenKeys == {KeyOf[request[jobs[d]]] : d \in Dropped}

\* A request whose key and id are unknown.  (A known key is answered with its
\* job, or with 409 for another body; a known id with 409.)
Submit(q) ==
  /\ index[KeyOf[q]] = None /\ jobs[IdOf[q]] = 0
  /\ HasRoom
  /\ created < MaxCreated
  /\ Reuse \/ \A i \in 1..created : IdOfJob(i) # IdOf[q]
  /\ created' = created + 1
  /\ jobs' = [d \in Ids |-> IF d = IdOf[q] THEN created'
                            ELSE IF d \in Dropped THEN 0 ELSE jobs[d]]
  /\ index' = [k \in Keys |-> IF k = KeyOf[q] THEN IdOf[q]
                              ELSE IF k \in ForgottenKeys THEN None ELSE index[k]]
  /\ request' = [request EXCEPT ![created'] = q]
  /\ status' = [status EXCEPT ![created'] = "queued"]
  /\ submit' = [submit EXCEPT ![created'] = "created"]
  /\ UNCHANGED <<source, coroutine, signalled, cancels, closed>>

\* The handler thread hands _execute to the loop, outside the lock ...
Dispatch(i) ==
  /\ submit[i] = "created" /\ ~closed
  /\ submit' = [submit EXCEPT ![i] = "dispatched"]
  /\ coroutine' = [coroutine EXCEPT ![i] = "scheduled"]
  /\ UNCHANGED <<registryVars, status, source, signalled, closed, cancels>>

\* ... and only then stores the future in the job.
AttachFuture(i) ==
  /\ submit[i] = "dispatched"
  /\ submit' = [submit EXCEPT ![i] = "done"]
  /\ UNCHANGED <<registryVars, status, source, coroutine, signalled, closed, cancels>>
-----------------------------------------------------------------------------
(***************************************************************************)
(* _execute(request_id) of job i.  It finds the job that has the id now.    *)
(***************************************************************************)
Found(i) == jobs[IdOfJob(i)]

CoroutineStarts(i) ==
  /\ coroutine[i] = "scheduled" /\ ~closed
  /\ IF Found(i) = 0 \/ status[Found(i)] \in Terminal
     THEN /\ coroutine' = [coroutine EXCEPT ![i] = "ended"]
          /\ UNCHANGED status
     ELSE /\ coroutine' = [coroutine EXCEPT ![i] = "executing"]
          /\ status' = [status EXCEPT ![Found(i)] = "running"]
  /\ UNCHANGED <<registryVars, source, submit, signalled, closed, cancels>>

\* (mutant) a late response is stored although the job was cancelled
CoroutineOverwrites(i) ==
  /\ coroutine[i] = "executing" /\ ~closed
  /\ coroutine' = [coroutine EXCEPT ![i] = "ended"]
  /\ IF Found(i) = 0 THEN UNCHANGED <<status, source>>
     ELSE \E st \in Terminal : /\ status' = [status EXCEPT ![Found(i)] = st]
                               /\ source' = [source EXCEPT ![Found(i)] = i]
  /\ UNCHANGED <<registryVars, submit, signalled, closed, cancels>>

\* The gateway answered (an exception is a failed response).
CoroutineFinishes(i) ==
  /\ coroutine[i] = "executing" /\ ~closed
  /\ coroutine' = [coroutine EXCEPT ![i] = "ended"]
  /\ IF Found(i) = 0 \/ status[Found(i)] = "cancelled"
     THEN UNCHANGED <<status, source>>
     ELSE \E st \in Terminal : /\ status' = [status EXCEPT ![Found(i)] = st]
                               /\ source' = [source EXCEPT ![Found(i)] = i]
  /\ UNCHANGED <<registryVars, submit, signalled, closed, cancels>>

\* _mark_cancelled(request_id)
MarkCancelled(d, by) ==
  IF jobs[d] = 0 \/ status[jobs[d]] \in Terminal
  THEN UNCHANGED <<status, source>>
  ELSE /\ status' = [status EXCEPT ![jobs[d]] = "cancelled"]
       /\ source' = [source EXCEPT ![jobs[d]] = by]

\* The task is cancelled: before its first step it just ends, later its
\* handler marks the job.
CoroutineCancelled(i) ==
  /\ signalled[i] /\ coroutine[i] \in {"scheduled", "executing"}
  /\ coroutine' = [coroutine EXCEPT ![i] = "ended"]
  /\ IF coroutine[i] = "executing" THEN MarkCancelled(IdOfJob(i), i)
                                   ELSE UNCHANGED <<status, source>>
  /\ UNCHANGED <<registryVars, submit, signalled, closed, cancels>>

\* close(): the loop stops and cancels the tasks it still has.
Close ==
  /\ ~closed
  /\ closed' = TRUE
  /\ signalled' = [i \in Objects |->
                     signalled[i] \/ coroutine[i] \in {"scheduled", "executing"}]
  /\ UNCHANGED <<registryVars, status, source, submit, coroutine, cancels>>
-----------------------------------------------------------------------------
(***************************************************************************)
(* cancel(request_id), one handler thread per call.                         *)
(***************************************************************************)
FutureOf(i) == IF submit[i] = "done" THEN i ELSE 0

\* An unknown id is answered 404, a terminal job with its response.
CancelBegins(c, d) ==
  /\ cancels[c].stage = "idle"
  /\ d \in Known /\ status[jobs[d]] \notin Terminal
  /\ cancels' = [cancels EXCEPT ![c] = [stage |-> "calling", id |-> d,
                                        future |-> FutureOf(jobs[d])]]
  /\ UNCHANGED <<registryVars, status, source, loopVars>>

Goes(c, stage) == cancels' = [cancels EXCEPT ![c].stage = stage]

\* gateway.cancel was called, whatever came of it; future.cancel().
CancelSignals(c) ==
  /\ cancels[c].stage = "calling"
  /\ Goes(c, "marking")
  /\ signalled' = [i \in Objects |-> signalled[i] \/ i = cancels[c].future]
  /\ UNCHANGED <<registryVars, status, source, submit, coroutine, closed>>

\* (mutant) the job is left to the cancelled coroutine
CancelMarksNothing(c) ==
  /\ cancels[c].stage = "marking"
  /\ Goes(c, "answering")
  /\ UNCHANGED <<registryVars, status, source, loopVars>>

CancelMarks(c) ==
  /\ cancels[c].stage = "marking"
  /\ Goes(c, "answering")
  /\ MarkCancelled(cancels[c].id, 0)
  /\ UNCHANGED <<registryVars, loopVars>>

\* The answer is read from the registry again: a KeyError if the id is gone.
CancelAnswers(c) ==
  /\ cancels[c].stage = "answering"
  /\ IF cancels[c].id \in Known THEN cancels' = [cancels EXCEPT ![c] = NoCancel]
                                ELSE Goes(c, "keyerror")
  /\ UNCHANGED <<registryVars, status, source, loopVars>>

Next ==
  \/ \E q \in Requests : Submit(q)
  \/ \E i \in 1..created : \/ Dispatch(i) \/ AttachFuture(i)
                           \/ CoroutineStarts(i) \/ CoroutineFinishes(i)
                           \/ CoroutineCancelled(i)
  \/ \E c \in Cancellers : \/ \E d \in Ids : CancelBegins(c, d)
                           \/ CancelSignals(c) \/ CancelMarks(c) \/ CancelAnswers(c)
  \/ Close

Spec == Init /\ [][Next]_vars
-----------------------------------------------------------------------------
\* The two dictionaries describe the same jobs: a key leads to a job that was
\* submitted with it, and every job is found under its own id and key.  (submit
\* indexes _jobs with what _idempotency returns, without a check.)
RegistryConsistent ==
  /\ \A k \in Keys : index[k] # None =>
       index[k] \in Known /\ KeyOf[request[jobs[index[k]]]] = k
  /\ \A d \in Known : /\ jobs[d] \in 1..created
                      /\ IdOfJob(jobs[d]) = d
                      /\ index[KeyOf[request[jobs[d]]]] = d

\* ADR-0024: the registry never holds more than max_jobs jobs.
CapacityBound == Cardinality(Known) <= MaxJobs

\* The registry is well formed, consistent and within its capacity.
RegistryExact == TypeOK /\ RegistryConsistent /\ CapacityBound

\* A job the server accepted can be polled until it has its response.
AcceptedJobsKept ==
  [][\A d \in Known : status[jobs[d]] \notin Terminal => jobs'[d] = jobs[d]]_vars

\* A cancelled job stays cancelled, however late the provider answers and
\* whoever uses its request id again.
CancelledStays ==
  [][\A i \in Objects : status[i] = "cancelled" => status'[i] = "cancelled"]_vars

\* The server takes back neither a job nor a cancellation.
NothingTakenBack == AcceptedJobsKept /\ CancelledStays

\* As long as no request id comes back, the threads and coroutines together
\* implement the job server that clients see: every job is queued, then running,
\* then has one status it keeps, and only ended jobs are forgotten.
Server == INSTANCE JobServer WITH
            job <- [d \in Ids |-> IF jobs[d] = 0 THEN "unknown"
                                  ELSE status[jobs[d]]],
            owner <- index
ImplementsJobServer == Server!Spec

\* docs/openapi/inference-v1.yaml: terminal jobs are returned unchanged, also
\* when a client sends a request again whose job the registry has dropped.
TerminalUnchanged ==
  [][\A i \in Objects : status[i] \in Terminal => status'[i] = status[i]]_vars
-----------------------------------------------------------------------------
\* Handler threads and the loop run; the gateway answers within the request's
\* timeout.
Fairness ==
  /\ \A i \in Objects : /\ WF_vars(Dispatch(i)) /\ WF_vars(CoroutineStarts(i))
                        /\ WF_vars(CoroutineFinishes(i))
                        /\ WF_vars(CoroutineCancelled(i))
  /\ \A c \in Cancellers : /\ WF_vars(CancelSignals(c)) /\ WF_vars(CancelMarks(c))
                           /\ WF_vars(CancelAnswers(c))
FairSpec == Spec /\ Fairness

\* Every accepted job gets a response unless the server is closed first.
EveryJobAnswered ==
  \A i \in Objects : (status[i] = "queued") ~> (status[i] \in Terminal \/ closed)
=============================================================================
