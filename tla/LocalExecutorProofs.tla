------------------------- MODULE LocalExecutorProofs -------------------------
(***************************************************************************)
(* Proofs about LocalExecutor for every set of tasks, every assignment of   *)
(* keys and attempts, every result type and every number of slots.          *)
(***************************************************************************)
EXTENDS LocalExecutor, FiniteSetTheorems, TLAPS

\* A result is there exactly in the terminal states, and the runner was called
\* once at most, never for a job that still waits.
JobShape ==
  \A t \in Tasks : /\ state[t] \in Terminal <=> completion[t] # None
                   /\ invocations[t] <= 1
                   /\ state[t] \in {"absent", "queued"} => invocations[t] = 0

\* The semaphore queue holds distinct jobs whose runner was not called.
QueueShape ==
  /\ \A i \in 1..Len(waiting) : /\ state[waiting[i]] \notin {"absent", "running"}
                                /\ invocations[waiting[i]] = 0
  /\ \A i, j \in 1..Len(waiting) : waiting[i] = waiting[j] => i = j

\* Slots in use, and what is left once the loop is gone.
SlotShape ==
  /\ IsFiniteSet(executing)
  /\ SlotsBounded
  /\ closed => /\ waiting = <<>>
               /\ \A t \in Tasks : state[t] # "running"

\* The inductive invariant.
IInv == TypeOK /\ IndexesAgree /\ JobShape /\ QueueShape /\ SlotShape

-----------------------------------------------------------------------------
\* Finish leads from a job of the type to a terminal job with a result.
LEMMA FinishEffect ==
  ASSUME TypeOK, NEW t \in Tasks, NEW r \in Results, Finish(t, r),
         completion[t] = None
  PROVE  /\ state' = [state EXCEPT ![t] = StatusOf[r]]
         /\ completion' = [completion EXCEPT ![t] = r]
         /\ state'[t] \in Terminal /\ completion'[t] = r /\ r # None
         /\ state' \in [Tasks -> States]
         /\ completion' \in [Tasks -> Results \cup {None}]
  BY ExecutorAssumption DEF Finish, TypeOK, States

\* The job at the head of the queue is there, is not in the rest of the queue,
\* and waits unless it has its result.
LEMMA HeadOfQueue ==
  ASSUME IInv, waiting # <<>>
  PROVE  /\ Head(waiting) \in Tasks
         /\ ~closed
         /\ invocations[Head(waiting)] = 0
         /\ state[Head(waiting)] # "running"
         /\ completion[Head(waiting)] = None => state[Head(waiting)] = "queued"
         /\ Tail(waiting) \in Seq(Tasks)
         /\ \A i \in 1..Len(Tail(waiting)) :
              /\ Tail(waiting)[i] = waiting[i + 1]
              /\ i + 1 \in 1..Len(waiting)
              /\ Tail(waiting)[i] # Head(waiting)
  <1>1. waiting \in Seq(Tasks) /\ Len(waiting) \in Nat /\ Len(waiting) > 0
    BY DEF IInv, TypeOK
  <1>2. Head(waiting) = waiting[1] /\ Head(waiting) \in Tasks
    BY <1>1
  <1>3. ~closed
    BY DEF IInv, SlotShape
  <1>4. /\ invocations[Head(waiting)] = 0
        /\ state[Head(waiting)] \notin {"absent", "running"}
    BY <1>1, <1>2 DEF IInv, QueueShape
  <1>5. completion[Head(waiting)] = None => state[Head(waiting)] = "queued"
    BY <1>2, <1>4 DEF IInv, JobShape, TypeOK, States
  <1>6. Tail(waiting) \in Seq(Tasks) /\ Len(Tail(waiting)) = Len(waiting) - 1
    BY <1>1
  <1>7. ASSUME NEW i \in 1..Len(Tail(waiting))
        PROVE  /\ Tail(waiting)[i] = waiting[i + 1]
               /\ i + 1 \in 1..Len(waiting)
               /\ Tail(waiting)[i] # Head(waiting)
    BY <1>1, <1>2, <1>6 DEF IInv, QueueShape
  <1> QED BY <1>2, <1>3, <1>4, <1>5, <1>6, <1>7

LEMMA InitIInv == Init => IInv
  <1> SUFFICES ASSUME Init PROVE IInv
    OBVIOUS
  <1>1. TypeOK
    <2>1. waiting \in Seq(Tasks)
      BY DEF Init
    <2>2. /\ executing \in SUBSET Tasks
          /\ closed \in BOOLEAN
          /\ invocations \in [Tasks -> Nat]
      BY DEF Init
    <2>3. /\ state \in [Tasks -> States]
          /\ completion \in [Tasks -> Results \cup {None}]
          /\ cancelRequested \in [Tasks -> BOOLEAN]
          /\ token \in [Tasks -> BOOLEAN]
      BY DEF Init, States
    <2>4. /\ idempotency \in [Keys -> Tasks \cup {None}]
          /\ attempts \in [AttemptIds -> Tasks \cup {None}]
      BY DEF Init
    <2> QED BY <2>1, <2>2, <2>3, <2>4 DEF TypeOK
  <1>2. IndexesAgree
    BY DEF Init, IndexesAgree
  <1>3. JobShape
    BY DEF Init, JobShape, Terminal
  <1>4. QueueShape
    BY DEF Init, QueueShape
  <1>5. SlotShape
    BY FS_EmptySet, ExecutorAssumption DEF Init, SlotShape, SlotsBounded
  <1> QED BY <1>1, <1>2, <1>3, <1>4, <1>5 DEF IInv
-----------------------------------------------------------------------------
LEMMA SubmitIInv ==
  ASSUME IInv, NEW t \in Tasks, Submit(t)
  PROVE  IInv'
  <1>1. /\ ~closed /\ Admissible(t)
        /\ state' = [state EXCEPT ![t] = "queued"]
        /\ idempotency' = [idempotency EXCEPT ![KeyOf[t]] = t]
        /\ attempts' = [attempts EXCEPT ![AttemptOf[t]] = t]
        /\ waiting' = Append(waiting, t)
        /\ UNCHANGED <<completion, cancelRequested, token, executing,
                       invocations, closed>>
    BY DEF Submit
  <1>2. TypeOK
    BY DEF IInv
  <1>3. state[t] = "absent" /\ t \notin executing
    <2>1. state[t] # "absent" => idempotency[KeyOf[t]] = t
      BY DEF IInv, IndexesAgree
    <2>2. t # None
      BY ExecutorAssumption
    <2>3. state[t] = "absent"
      BY <1>1, <2>1, <2>2 DEF Admissible
    <2> QED BY <1>1, <2>3 DEF IInv, SlotShape, SlotsBounded
  <1>4. TypeOK'
    BY <1>1, <1>2, ExecutorAssumption DEF TypeOK, States
  <1>5. IndexesAgree'
    BY <1>1, <1>2, ExecutorAssumption DEF IInv, IndexesAgree, TypeOK, Admissible
  <1>6. JobShape'
    BY <1>1, <1>2, <1>3 DEF IInv, JobShape, TypeOK, Terminal
  <1>7. QueueShape'
    <2>1. waiting \in Seq(Tasks)
      BY <1>2 DEF TypeOK
    <2>2. \A i \in 1..Len(waiting) : waiting[i] \in Tasks /\ waiting[i] # t
      BY <1>3, <2>1 DEF IInv, QueueShape
    <2>3. invocations[t] = 0
      BY <1>3 DEF IInv, JobShape
    <2>4. /\ Len(waiting') = Len(waiting) + 1 /\ Len(waiting) \in Nat
          /\ waiting'[Len(waiting) + 1] = t
          /\ \A i \in 1..Len(waiting) : waiting'[i] = waiting[i]
      BY <1>1, <2>1
    <2> QED BY <1>1, <1>2, <2>2, <2>3, <2>4 DEF IInv, QueueShape, TypeOK
  <1>8. SlotShape'
    <2>1. executing' = {u \in Tasks : state'[u] = "running"}
      BY <1>1, <1>2, <1>3 DEF IInv, SlotShape, SlotsBounded, TypeOK
    <2> QED BY <1>1, <2>1 DEF IInv, SlotShape, SlotsBounded
  <1> QED BY <1>4, <1>5, <1>6, <1>7, <1>8 DEF IInv

LEMMA SignalTokenIInv ==
  ASSUME IInv, NEW t \in Tasks, SignalToken(t)
  PROVE  IInv'
  <1>1. TypeOK'
    BY DEF IInv, TypeOK, SignalToken, indexVars
  <1>2. IndexesAgree' /\ JobShape' /\ QueueShape' /\ SlotShape'
    BY DEF IInv, SignalToken, indexVars, IndexesAgree, JobShape, QueueShape,
           SlotShape, SlotsBounded
  <1> QED BY <1>1, <1>2 DEF IInv

\* A job that gets its result while it is queued or runs keeps the parts that
\* do not speak of the slots.
LEMMA FinishIInv ==
  ASSUME IInv, NEW t \in Tasks, NEW r \in Results, Finish(t, r),
         completion[t] = None, state[t] # "absent",
         UNCHANGED <<indexVars, invocations>>
  PROVE  IndexesAgree' /\ JobShape'
  <1>1. TypeOK
    BY DEF IInv
  <1>2. /\ state' = [state EXCEPT ![t] = StatusOf[r]]
        /\ completion' = [completion EXCEPT ![t] = r]
        /\ state'[t] \in Terminal /\ completion'[t] = r /\ r # None
    BY <1>1, FinishEffect
  <1>3. IndexesAgree'
    BY <1>1, <1>2 DEF IInv, IndexesAgree, TypeOK, indexVars, Terminal
  <1>4. JobShape'
    BY <1>1, <1>2 DEF IInv, JobShape, TypeOK, Terminal
  <1> QED BY <1>3, <1>4

LEMMA CancelIInv ==
  ASSUME IInv, NEW t \in Tasks, Cancel(t)
  PROVE  IInv'
  <1>1. /\ state[t] \in {"queued", "running"}
        /\ cancelRequested' = [cancelRequested EXCEPT ![t] = TRUE]
        /\ token' = [token EXCEPT ![t] = TRUE]
        /\ UNCHANGED <<indexVars, waiting, executing, invocations, closed>>
    BY DEF Cancel
  <1>2. TypeOK /\ completion[t] = None /\ CancelledResult \in Results
    BY <1>1, ExecutorAssumption DEF IInv, JobShape, Terminal
  <1>3. CASE state[t] = "queued"
    <2>1. Finish(t, CancelledResult)
      BY <1>3 DEF Cancel
    <2>2. /\ state' = [state EXCEPT ![t] = "cancelled"]
          /\ state' \in [Tasks -> States]
          /\ completion' \in [Tasks -> Results \cup {None}]
      BY <1>2, <2>1, FinishEffect, ExecutorAssumption
    <2>3. TypeOK'
      BY <1>1, <1>2, <2>2 DEF TypeOK, indexVars
    <2>4. IndexesAgree' /\ JobShape'
      BY <1>1, <1>2, <1>3, <2>1, FinishIInv DEF indexVars
    <2>5. QueueShape'
      BY <1>1, <1>2, <2>2 DEF IInv, QueueShape, TypeOK
    <2>6. {u \in Tasks : state'[u] = "running"} = {u \in Tasks : state[u] = "running"}
      BY <1>2, <1>3, <2>2 DEF TypeOK
    <2>7. SlotShape'
      BY <1>1, <1>2, <2>2, <2>6 DEF IInv, SlotShape, SlotsBounded, TypeOK
    <2> QED BY <2>3, <2>4, <2>5, <2>7 DEF IInv
  <1>4. CASE state[t] = "running"
    <2>1. UNCHANGED <<state, completion>>
      BY <1>4 DEF Cancel
    <2>2. TypeOK'
      BY <1>1, <1>2, <2>1 DEF TypeOK, indexVars
    <2> QED BY <1>1, <2>1, <2>2 DEF IInv, IndexesAgree, JobShape, QueueShape,
                                   SlotShape, SlotsBounded, indexVars
  <1> QED BY <1>1, <1>3, <1>4

LEMMA AcquireIInv ==
  ASSUME IInv, Acquire
  PROVE  IInv'
  <1> DEFINE t == Head(waiting)
  <1>1. /\ waiting # <<>> /\ Cardinality(executing) < MaxConcurrency
        /\ waiting' = Tail(waiting)
        /\ UNCHANGED <<cancelRequested, token, indexVars, closed>>
    BY DEF Acquire
  <1>2. /\ t \in Tasks /\ ~closed /\ invocations[t] = 0 /\ state[t] # "running"
        /\ completion[t] = None => state[t] = "queued"
        /\ waiting' \in Seq(Tasks)
        /\ \A i \in 1..Len(waiting') : /\ waiting'[i] = waiting[i + 1]
                                       /\ i + 1 \in 1..Len(waiting)
                                       /\ waiting'[i] # t
    BY <1>1, HeadOfQueue
  <1>3. TypeOK /\ Len(waiting') \in Nat
    BY <1>2 DEF IInv
  <1>4. \A i, j \in 1..Len(waiting') : waiting'[i] = waiting'[j] => i = j
    BY <1>2, <1>3 DEF IInv, QueueShape
  <1>5. \A i \in 1..Len(waiting') : /\ waiting'[i] \in Tasks
                                    /\ state[waiting'[i]] \notin {"absent", "running"}
                                    /\ invocations[waiting'[i]] = 0
    BY <1>2 DEF IInv, QueueShape
  <1>6. CASE completion[t] # None
    <2>1. UNCHANGED <<state, completion, executing, invocations>>
      BY <1>6 DEF Acquire
    <2>2. TypeOK'
      BY <1>1, <1>2, <1>3, <2>1 DEF TypeOK, indexVars
    <2>3. QueueShape'
      BY <1>4, <1>5, <2>1 DEF QueueShape
    <2> QED BY <1>1, <1>2, <2>1, <2>2, <2>3 DEF IInv, IndexesAgree, JobShape,
                                               SlotShape, SlotsBounded, indexVars
  <1>7. CASE completion[t] = None /\ Cancelled(t)
    <2>1. /\ Finish(t, CancelledResult) /\ CancelledResult \in Results
          /\ UNCHANGED <<executing, invocations>>
      BY <1>7, ExecutorAssumption DEF Acquire
    <2>2. /\ state' = [state EXCEPT ![t] = "cancelled"]
          /\ state' \in [Tasks -> States]
          /\ completion' \in [Tasks -> Results \cup {None}]
      BY <1>2, <1>3, <1>7, <2>1, FinishEffect, ExecutorAssumption
    <2>3. TypeOK'
      BY <1>1, <1>2, <1>3, <2>1, <2>2 DEF TypeOK, indexVars
    <2>4. IndexesAgree' /\ JobShape'
      BY <1>1, <1>2, <1>7, <2>1, FinishIInv
    <2>5. QueueShape'
      BY <1>2, <1>3, <1>4, <1>5, <2>1, <2>2 DEF QueueShape, TypeOK
    <2>6. {u \in Tasks : state'[u] = "running"} = {u \in Tasks : state[u] = "running"}
      BY <1>2, <1>3, <2>2 DEF TypeOK
    <2>7. SlotShape'
      BY <1>1, <1>2, <2>1, <2>6 DEF IInv, SlotShape, SlotsBounded
    <2> QED BY <2>3, <2>4, <2>5, <2>7 DEF IInv
  <1>8. CASE completion[t] = None /\ ~Cancelled(t)
    <2>1. /\ state' = [state EXCEPT ![t] = "running"]
          /\ executing' = executing \cup {t}
          /\ invocations' = [invocations EXCEPT ![t] = @ + 1]
          /\ completion' = completion
      BY <1>8 DEF Acquire
    <2>2. state[t] = "queued" /\ t \notin executing
      BY <1>2, <1>8 DEF IInv, SlotShape, SlotsBounded
    <2>3. TypeOK'
      BY <1>1, <1>2, <1>3, <2>1 DEF TypeOK, indexVars, States
    <2>4. IndexesAgree'
      BY <1>1, <1>2, <1>3, <2>1, <2>2 DEF IInv, IndexesAgree, TypeOK, indexVars
    <2>5. JobShape'
      BY <1>2, <1>3, <1>8, <2>1, <2>2 DEF IInv, JobShape, TypeOK, Terminal
    <2>6. QueueShape'
      BY <1>2, <1>3, <1>4, <1>5, <2>1 DEF QueueShape, TypeOK
    <2>7. executing' = {u \in Tasks : state'[u] = "running"}
      BY <1>2, <1>3, <2>1 DEF IInv, SlotShape, SlotsBounded, TypeOK
    <2>8. /\ IsFiniteSet(executing')
          /\ Cardinality(executing') = Cardinality(executing) + 1
      BY <2>1, <2>2, FS_AddElement DEF IInv, SlotShape
    <2>9. Cardinality(executing') <= MaxConcurrency
      BY <1>1, <2>8, FS_CardinalityType, ExecutorAssumption DEF IInv, SlotShape
    <2>10. SlotShape'
      BY <1>1, <1>2, <2>7, <2>8, <2>9 DEF SlotShape, SlotsBounded
    <2> QED BY <2>3, <2>4, <2>5, <2>6, <2>10 DEF IInv
  <1> QED BY <1>6, <1>7, <1>8

LEMMA RunnerReturnsIInv ==
  ASSUME IInv, NEW t \in Tasks, RunnerReturns(t)
  PROVE  IInv'
  <1>1. PICK q \in Results : Finish(t, Normalize(t, q))
    BY DEF RunnerReturns
  <1> DEFINE r == Normalize(t, q)
  <1>2. r \in Results
    BY ExecutorAssumption DEF Normalize
  <1>3. /\ ~closed /\ t \in executing /\ executing' = executing \ {t}
        /\ UNCHANGED <<cancelRequested, token, indexVars, waiting, invocations,
                       closed>>
    BY DEF RunnerReturns
  <1>4. TypeOK /\ state[t] = "running" /\ completion[t] = None
    BY <1>3 DEF IInv, SlotShape, SlotsBounded, JobShape, Terminal
  <1>5. /\ state' = [state EXCEPT ![t] = StatusOf[r]]
        /\ state'[t] \in Terminal
        /\ state' \in [Tasks -> States]
        /\ completion' \in [Tasks -> Results \cup {None}]
    BY <1>1, <1>2, <1>4, FinishEffect
  <1>6. TypeOK'
    BY <1>3, <1>4, <1>5 DEF TypeOK, indexVars
  <1>7. IndexesAgree' /\ JobShape'
    BY <1>1, <1>2, <1>3, <1>4, FinishIInv
  <1>8. QueueShape'
    <2>1. \A i \in 1..Len(waiting) : waiting[i] \in Tasks /\ waiting[i] # t
      BY <1>4 DEF IInv, QueueShape, TypeOK
    <2> QED BY <1>3, <1>4, <1>5, <2>1 DEF IInv, QueueShape, TypeOK
  <1>9. SlotShape'
    <2>1. executing' = {u \in Tasks : state'[u] = "running"}
      BY <1>3, <1>4, <1>5 DEF IInv, SlotShape, SlotsBounded, TypeOK, Terminal
    <2>2. /\ IsFiniteSet(executing')
          /\ Cardinality(executing') = Cardinality(executing) - 1
      BY <1>3, FS_RemoveElement DEF IInv, SlotShape
    <2>3. Cardinality(executing') <= MaxConcurrency
      BY <1>3, <2>2, FS_CardinalityType, ExecutorAssumption
         DEF IInv, SlotShape, SlotsBounded
    <2> QED BY <1>3, <2>1, <2>2, <2>3 DEF SlotShape, SlotsBounded
  <1> QED BY <1>6, <1>7, <1>8, <1>9 DEF IInv

\* The teardown ends the jobs that run and some of those that wait.
LEMMA CloseStops ==
  ASSUME IInv, Close
  PROVE  \E stopped \in SUBSET Tasks :
           /\ \A t \in stopped : state[t] \in {"queued", "running"}
           /\ \A t \in Tasks : state[t] = "running" => t \in stopped
           /\ state' = [t \in Tasks |-> IF t \in stopped THEN "cancelled" ELSE state[t]]
           /\ completion' = [t \in Tasks |-> IF t \in stopped THEN CancelledResult
                                                              ELSE completion[t]]
  <1> DEFINE stopped(n) == {t \in Tasks : /\ completion[t] = None
                                          /\ \/ state[t] = "running"
                                             \/ \E i \in 1..n : waiting[i] = t}
  <1>1. PICK n \in 0..Len(waiting) :
          /\ state' = [t \in Tasks |-> IF t \in stopped(n) THEN "cancelled" ELSE state[t]]
          /\ completion' = [t \in Tasks |-> IF t \in stopped(n) THEN CancelledResult
                                                                ELSE completion[t]]
    BY DEF Close
  <1>2. waiting \in Seq(Tasks) /\ n \in Nat /\ 1..n \subseteq 1..Len(waiting)
    BY DEF IInv, TypeOK
  <1>3. ASSUME NEW t \in stopped(n) PROVE state[t] \in {"queued", "running"}
    <2>1. state[t] # "absent"
      BY <1>2, <1>3 DEF IInv, QueueShape
    <2>2. state[t] \in States /\ state[t] \notin Terminal
      BY <1>3 DEF IInv, JobShape, TypeOK
    <2> QED BY <2>1, <2>2 DEF States
  <1>4. ASSUME NEW t \in Tasks, state[t] = "running" PROVE t \in stopped(n)
    <2>1. completion[t] = None
      BY <1>4 DEF IInv, JobShape, Terminal
    <2> QED BY <1>4, <2>1
  <1>5. stopped(n) \in SUBSET Tasks
    OBVIOUS
  <1> HIDE DEF stopped
  <1> QED BY <1>1, <1>3, <1>4, <1>5

LEMMA CloseIInv ==
  ASSUME IInv, Close
  PROVE  IInv'
  <1>1. /\ closed' = TRUE /\ waiting' = <<>> /\ executing' \in SUBSET executing
        /\ UNCHANGED <<cancelRequested, token, indexVars, invocations>>
    BY DEF Close
  <1>2. TypeOK
    BY DEF IInv
  <1>3. PICK stopped \in SUBSET Tasks :
          /\ \A t \in stopped : state[t] \in {"queued", "running"}
          /\ \A t \in Tasks : state[t] = "running" => t \in stopped
          /\ state' = [t \in Tasks |-> IF t \in stopped THEN "cancelled" ELSE state[t]]
          /\ completion' = [t \in Tasks |-> IF t \in stopped THEN CancelledResult
                                                             ELSE completion[t]]
    BY CloseStops
  <1>4. TypeOK'
    <2>1. waiting' \in Seq(Tasks)
      BY <1>1
    <2>2. /\ state' \in [Tasks -> States]
          /\ completion' \in [Tasks -> Results \cup {None}]
      BY <1>1, <1>2, <1>3, ExecutorAssumption DEF TypeOK, States, Terminal
    <2>3. executing' \in SUBSET Tasks
      BY <1>1, <1>2 DEF TypeOK
    <2> QED BY <1>1, <1>2, <2>1, <2>2, <2>3 DEF TypeOK, indexVars
  <1>5. IndexesAgree'
    <2>1. \A t \in Tasks : state'[t] = "absent" <=> state[t] = "absent"
      BY <1>2, <1>3 DEF TypeOK
    <2> QED BY <1>1, <1>2, <2>1 DEF IInv, IndexesAgree, TypeOK, indexVars
  <1>6. JobShape'
    BY <1>1, <1>2, <1>3, ExecutorAssumption DEF IInv, JobShape, TypeOK, Terminal
  <1>7. QueueShape'
    BY <1>1 DEF QueueShape
  <1>8. \A t \in Tasks : state'[t] # "running"
    BY <1>2, <1>3
  <1>9. SlotShape'
    BY <1>1, <1>8, FS_Subset DEF IInv, SlotShape, SlotsBounded
  <1> QED BY <1>4, <1>5, <1>6, <1>7, <1>9 DEF IInv

LEMMA OrphanEndsIInv ==
  ASSUME IInv, NEW t \in Tasks, OrphanEnds(t)
  PROVE  IInv'
  <1>1. /\ closed /\ executing' = executing \ {t}
        /\ UNCHANGED <<jobVars, indexVars, waiting, invocations, closed>>
    BY DEF OrphanEnds
  <1>2. TypeOK'
    BY <1>1 DEF IInv, TypeOK, jobVars, indexVars
  <1>3. SlotShape'
    BY <1>1, FS_Subset DEF IInv, SlotShape, SlotsBounded, jobVars
  <1> QED BY <1>1, <1>2, <1>3 DEF IInv, IndexesAgree, JobShape, QueueShape,
                                  jobVars, indexVars

LEMMA NextIInv ==
  ASSUME IInv, [Next]_vars
  PROVE  IInv'
  <1>1. CASE UNCHANGED vars
    BY <1>1 DEF IInv, TypeOK, IndexesAgree, JobShape, QueueShape, SlotShape,
                SlotsBounded, vars
  <1>2. ASSUME NEW t \in Tasks, Submit(t) PROVE IInv'
    BY <1>2, SubmitIInv
  <1>3. ASSUME NEW t \in Tasks, SignalToken(t) PROVE IInv'
    BY <1>3, SignalTokenIInv
  <1>4. ASSUME NEW t \in Tasks, Cancel(t) PROVE IInv'
    BY <1>4, CancelIInv
  <1>5. ASSUME NEW t \in Tasks, RunnerReturns(t) PROVE IInv'
    BY <1>5, RunnerReturnsIInv
  <1>6. ASSUME NEW t \in Tasks, OrphanEnds(t) PROVE IInv'
    BY <1>6, OrphanEndsIInv
  <1>7. CASE Acquire
    BY <1>7, AcquireIInv
  <1>8. CASE Close
    BY <1>8, CloseIInv
  <1> QED BY <1>1, <1>2, <1>3, <1>4, <1>5, <1>6, <1>7, <1>8 DEF Next

LEMMA Invariance == Spec => []IInv
  BY InitIInv, NextIInv, PTL DEF Spec
-----------------------------------------------------------------------------
\* The job table of LocalExecutor has its type in every reachable state.
THEOREM TypeCorrect == Spec => []TypeOK
  BY Invariance, PTL DEF IInv

\* submit's two dictionaries and its job table always describe the same jobs.
THEOREM IndexesAlwaysAgree == Spec => []IndexesAgree
  BY Invariance, PTL DEF IInv

\* The semaphore of LocalExecutor bounds the runners: jobs in state RUNNING are
\* the ones whose code runs, and there are never more than MaxConcurrency.
THEOREM CapacityKept == Spec => []SlotsBounded
  <1>1. IInv => SlotsBounded
    BY DEF IInv, SlotShape
  <1> QED BY <1>1, Invariance, PTL

\* Of all tasks that share an idempotency key or an attempt, at most one reaches
\* its runner, at most once, however often and in what order they are submitted.
THEOREM AtMostOneRun == Spec => []RunsAtMostOnce
  <1>1. IInv => RunsAtMostOnce
    <2> SUFFICES ASSUME IInv, NEW t \in Tasks, NEW u \in Tasks
                 PROVE  /\ invocations[t] <= 1
                        /\ (/\ invocations[t] > 0 /\ invocations[u] > 0
                            /\ KeyOf[t] = KeyOf[u] \/ AttemptOf[t] = AttemptOf[u])
                             => t = u
      BY DEF RunsAtMostOnce
    <2>1. invocations[t] <= 1
      BY DEF IInv, JobShape
    <2>2. /\ invocations[t] > 0 => state[t] # "absent"
          /\ invocations[u] > 0 => state[u] # "absent"
      BY DEF IInv, JobShape
    <2>3. /\ state[t] # "absent" => idempotency[KeyOf[t]] = t /\ attempts[AttemptOf[t]] = t
          /\ state[u] # "absent" => idempotency[KeyOf[u]] = u /\ attempts[AttemptOf[u]] = u
      BY DEF IInv, IndexesAgree
    <2> QED BY <2>1, <2>2, <2>3
  <1> QED BY <1>1, Invariance, PTL

\* While the loop lives, a job whose runner still works on its artifacts has no
\* result a waiter could see.
THEOREM NoVerdictWhileRunning == Spec => []VerdictMeansStopped
  <1>1. IInv => VerdictMeansStopped
    BY DEF IInv, JobShape, SlotShape, SlotsBounded, VerdictMeansStopped, Terminal
  <1> QED BY <1>1, Invariance, PTL

\* A job that has its result, in particular one cancelled in the queue, never
\* reaches its runner any more.
THEOREM NoLateRun == Spec => NoRunAfterVerdict
  <1>1. ASSUME IInv, [Next]_vars, NEW t \in Tasks, completion[t] # None
        PROVE  invocations'[t] = invocations[t]
    <2>1. CASE Acquire
      <3>1. \/ UNCHANGED invocations
            \/ /\ invocations' = [invocations EXCEPT ![Head(waiting)] = @ + 1]
               /\ completion[Head(waiting)] = None
        BY <2>1 DEF Acquire
      <3>2. invocations \in [Tasks -> Nat]
        BY <1>1 DEF IInv, TypeOK
      <3> QED BY <1>1, <3>1, <3>2
    <2>2. CASE ~Acquire
      BY <1>1, <2>2 DEF Next, Submit, SignalToken, Cancel, RunnerReturns,
                        OrphanEnds, Close, vars
    <2> QED BY <2>1, <2>2
  <1>2. IInv /\ [Next]_vars
          => [\A t \in Tasks : completion[t] # None
                                 => invocations'[t] = invocations[t]]_vars
    BY <1>1
  <1> QED BY <1>2, Invariance, PTL DEF Spec, NoRunAfterVerdict

\* A cancellation accepted before the runner came back decides the result.
THEOREM CancellationDecides == Spec => CancelDecides
  <1>1. ASSUME IInv, [Next]_vars, NEW t \in Tasks,
               Cancelled(t), completion[t] = None, completion'[t] # None
        PROVE  StatusOf[completion'[t]] = "cancelled"
    <2>1. TypeOK /\ StatusOf[CancelledResult] = "cancelled"
      BY <1>1, ExecutorAssumption DEF IInv
    <2>2. ASSUME NEW u \in Tasks, Cancel(u) PROVE StatusOf[completion'[t]] = "cancelled"
      BY <1>1, <2>1, <2>2 DEF Cancel, Finish, TypeOK
    <2>3. ASSUME NEW u \in Tasks, RunnerReturns(u)
          PROVE  StatusOf[completion'[t]] = "cancelled"
      <3>1. PICK r \in Results : Finish(u, Normalize(u, r))
        BY <2>3 DEF RunnerReturns
      <3>2. u = t
        BY <1>1, <2>1, <3>1 DEF Finish, TypeOK
      <3>3. Normalize(u, r) = CancelledResult
        BY <1>1, <3>2 DEF Normalize
      <3> QED BY <1>1, <2>1, <3>1, <3>2, <3>3 DEF Finish, TypeOK
    <2>4. CASE Acquire
      <3>1. Head(waiting) \in Tasks
        BY <1>1, <2>4, HeadOfQueue DEF Acquire
      <3> QED BY <1>1, <2>1, <2>4, <3>1 DEF Acquire, Finish, TypeOK
    <2>5. CASE Close
      BY <1>1, <2>1, <2>5 DEF Close
    <2>6. CASE UNCHANGED completion
      BY <1>1, <2>6
    <2> QED BY <1>1, <2>2, <2>3, <2>4, <2>5, <2>6
            DEF Next, Submit, SignalToken, OrphanEnds, jobVars, vars
  <1>2. IInv /\ [Next]_vars
          => [\A t \in Tasks :
                (Cancelled(t) /\ completion[t] = None /\ completion'[t] # None)
                  => StatusOf[completion'[t]] = "cancelled"]_vars
    BY <1>1
  <1> QED BY <1>2, Invariance, PTL DEF Spec, CancelDecides
-----------------------------------------------------------------------------
(***************************************************************************)
(* LocalExecutor implements ExecutorPort, action by action.                 *)
(***************************************************************************)
LEMMA SubmitAccepts ==
  ASSUME IInv, NEW t \in Tasks, Submit(t)
  PROVE  Port!Accept(t)
  <1>1. ASSUME NEW u \in Tasks, KeyOf[u] = KeyOf[t] PROVE state[u] = "absent"
    <2>1. state[u] # "absent" => idempotency[KeyOf[u]] = u
      BY DEF IInv, IndexesAgree
    <2>2. u # None
      BY ExecutorAssumption
    <2> QED BY <1>1, <2>1, <2>2 DEF Submit, Admissible
  <1> QED BY <1>1 DEF Submit, Port!Accept

LEMMA FinishRefines ==
  ASSUME IInv, NEW t \in Tasks, NEW r \in Results, Finish(t, r),
         state[t] \in {"queued", "running"},
         state[t] = "queued" => StatusOf[r] = "cancelled"
  PROVE  Port!Finish(t)
  <1>1. completion[t] = None /\ TypeOK
    BY DEF IInv, JobShape, Terminal
  <1>2. /\ state' = [state EXCEPT ![t] = StatusOf[r]]
        /\ completion' = [completion EXCEPT ![t] = r]
    BY <1>1, FinishEffect
  <1> QED BY <1>2 DEF Port!Finish

LEMMA AcquireRefines ==
  ASSUME IInv, Acquire
  PROVE  [Port!Next]_<<state, completion>>
  <1> DEFINE t == Head(waiting)
  <1>1. /\ t \in Tasks /\ ~closed /\ Cardinality(executing) < MaxConcurrency
        /\ completion[t] = None => state[t] = "queued"
    BY HeadOfQueue DEF Acquire
  <1>2. CASE completion[t] # None
    BY <1>2 DEF Acquire
  <1>3. CASE completion[t] = None /\ Cancelled(t)
    <2>1. Finish(t, CancelledResult) /\ CancelledResult \in Results
          /\ StatusOf[CancelledResult] = "cancelled"
      BY <1>3, ExecutorAssumption DEF Acquire
    <2>2. Port!Finish(t)
      BY <1>1, <1>3, <2>1, FinishRefines
    <2> QED BY <1>1, <2>2 DEF Port!Next
  <1>4. CASE completion[t] = None /\ ~Cancelled(t)
    <2>1. Port!Running = executing
      BY <1>1 DEF IInv, SlotShape, SlotsBounded, Port!Running
    <2>2. Port!Cardinality(executing) = Cardinality(executing)
      BY Zenon DEF Port!Cardinality, Cardinality
    <2>3. Port!Begin(t)
      BY <1>1, <1>4, <2>1, <2>2 DEF Acquire, Port!Begin
    <2> QED BY <1>1, <2>3 DEF Port!Next
  <1> QED BY <1>2, <1>3, <1>4

LEMMA CloseRefines ==
  ASSUME IInv, Close
  PROVE  Port!Next
  <1>1. PICK stopped \in SUBSET Tasks :
          /\ \A t \in stopped : state[t] \in {"queued", "running"}
          /\ \A t \in Tasks : state[t] = "running" => t \in stopped
          /\ state' = [t \in Tasks |-> IF t \in stopped THEN "cancelled" ELSE state[t]]
          /\ completion' = [t \in Tasks |-> IF t \in stopped THEN CancelledResult
                                                             ELSE completion[t]]
    BY CloseStops
  <1> DEFINE lost == {t \in Tasks : state[t] = "queued"} \ stopped
             open == {t \in Tasks : state[t] \in {"queued", "running"}} \ lost
  <1>2. stopped = open
    BY <1>1
  <1>3. CancelledResult \in Results /\ StatusOf[CancelledResult] = "cancelled"
    BY ExecutorAssumption
  <1>4. Port!Abandon(CancelledResult)
    <2>1. lost \in SUBSET {t \in Tasks : state[t] = "queued"}
      OBVIOUS
    <2>2. /\ state' = [t \in Tasks |-> IF t \in open THEN "cancelled" ELSE state[t]]
          /\ completion' = [t \in Tasks |-> IF t \in open THEN CancelledResult
                                                          ELSE completion[t]]
      BY <1>1, <1>2, Zenon
    <2> HIDE DEF lost
    <2> QED BY <1>3, <2>1, <2>2, Zenon DEF Port!Abandon
  <1> QED BY <1>3, <1>4 DEF Port!Next

LEMMA NextRefines ==
  ASSUME IInv, [Next]_vars
  PROVE  [Port!Next]_<<state, completion>>
  <1>1. CASE UNCHANGED <<state, completion>>
    BY <1>1
  <1>2. ASSUME NEW t \in Tasks, Submit(t) PROVE Port!Next
    BY <1>2, SubmitAccepts DEF Port!Next
  <1>3. ASSUME NEW t \in Tasks, Cancel(t) PROVE [Port!Next]_<<state, completion>>
    <2>1. CASE state[t] = "queued"
      <3>1. Finish(t, CancelledResult) /\ CancelledResult \in Results
            /\ StatusOf[CancelledResult] = "cancelled"
        BY <1>3, <2>1, ExecutorAssumption DEF Cancel
      <3>2. Port!Finish(t)
        BY <2>1, <3>1, FinishRefines
      <3> QED BY <3>2 DEF Port!Next
    <2>2. CASE state[t] # "queued"
      BY <1>3, <2>2 DEF Cancel
    <2> QED BY <2>1, <2>2
  <1>4. ASSUME NEW t \in Tasks, RunnerReturns(t) PROVE Port!Next
    <2>1. PICK r \in Results : Finish(t, Normalize(t, r))
      BY <1>4 DEF RunnerReturns
    <2>2. Normalize(t, r) \in Results
      BY ExecutorAssumption DEF Normalize
    <2>3. state[t] = "running"
      BY <1>4 DEF RunnerReturns, IInv, SlotShape, SlotsBounded
    <2>4. Port!Finish(t)
      BY <2>1, <2>2, <2>3, FinishRefines
    <2> QED BY <2>4 DEF Port!Next
  <1>5. CASE Acquire
    BY <1>5, AcquireRefines
  <1>6. CASE Close
    BY <1>6, CloseRefines
  <1> QED BY <1>1, <1>2, <1>3, <1>4, <1>5, <1>6
          DEF Next, SignalToken, OrphanEnds, jobVars, vars

\* LocalExecutor keeps the promises of the Executor Port for any tasks, keys,
\* runners, cancellations and teardown: every step accepts, begins, finishes or
\* abandons jobs the way the port allows, or is invisible to the caller.
THEOREM ExecutorImplementsPort == Spec => ImplementsPort
  <1>1. Init => Port!Init
    BY DEF Init, Port!Init
  <1>2. IInv /\ [Next]_vars => [Port!Next]_Port!portVars
    BY NextRefines DEF Port!portVars
  <1> QED BY <1>1, <1>2, Invariance, PTL DEF Spec, ImplementsPort, Port!Spec

\* The books of the executor are exact in every reachable state: submit's two
\* dictionaries and its job table agree, and the semaphore bounds the runners.
THEOREM BookkeepingAlwaysExact == Spec => []BookkeepingExact
  BY TypeCorrect, IndexesAlwaysAgree, CapacityKept, PTL DEF BookkeepingExact

\* A verdict is final for the runner too: no job runs again after it, and a
\* cancellation accepted before it decides it (_execute, cancel).
THEOREM VerdictsAlwaysHold == Spec => VerdictsHold
  BY NoLateRun, CancellationDecides DEF VerdictsHold
=============================================================================
