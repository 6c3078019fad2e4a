------------------------- MODULE InferenceJobsProofs -------------------------
(***************************************************************************)
(* Proofs about InferenceJobs for any requests, ids and keys, any number of *)
(* cancelling threads, any capacity and any number of job objects.          *)
(***************************************************************************)
EXTENDS InferenceJobs, FiniteSetTheorems, WellFoundedInduction, TLAPS

\* Job objects that were not created yet have no part in anything.
Fresh ==
  \A i \in Objects : /\ i <= created => request[i] \in Requests
                     /\ i > created => status[i] = "none"

\* A cancel thread that is under way has a request id.
CancelsKnowIds == \A c \in Cancellers : cancels[c].stage # "idle"
                                          => cancels[c].id \in Ids

\* The inductive invariant.
IInv == TypeOK /\ Fresh /\ CancelsKnowIds /\ RegistryConsistent /\ CapacityBound
-----------------------------------------------------------------------------
\* A nonempty set of naturals has a smallest member.
LEMMA SmallestOf ==
  ASSUME NEW S \in SUBSET Nat, S # {}
  PROVE  \E m \in S : \A n \in S : m <= n
  <1> DEFINE R == OpToRel(<, Nat)
  <1>1. IsWellFoundedOn(R, Nat)
    BY NatLessThanWellFounded
  <1>2. PICK m \in S : \A n \in S : <<n, m>> \notin R
    <2> HIDE DEF R
    <2> QED BY <1>1, WFMin
  <1>3. \A n \in S : ~(n < m)
    BY <1>2 DEF OpToRel
  <1> QED BY <1>3

\* Facts about the type that most steps need.
LEMMA KnownJobs ==
  ASSUME IInv
  PROVE  /\ \A d \in Known : d \in Ids /\ jobs[d] \in Objects /\ jobs[d] <= created
         /\ \A d \in Ids : d \notin Known => jobs[d] = 0
         /\ \A d \in Known : KeyOf[request[jobs[d]]] \in Keys
         /\ IsFiniteSet(Known) /\ Cardinality(Known) \in Nat
  <1>1. \A d \in Known : d \in Ids /\ jobs[d] \in Objects /\ jobs[d] <= created
    BY DEF IInv, TypeOK, RegistryConsistent, Known, Objects
  <1>2. \A d \in Ids : d \notin Known => jobs[d] = 0
    BY DEF Known
  <1>3. \A d \in Known : KeyOf[request[jobs[d]]] \in Keys
    BY <1>1, JobsAssumption DEF IInv, Fresh
  <1>4. IsFiniteSet(Known) /\ Cardinality(Known) \in Nat
    BY JobsAssumption, FS_Subset, FS_CardinalityType DEF Known
  <1> QED BY <1>1, <1>2, <1>3, <1>4

\* With room for another job, submit leaves fewer than max_jobs jobs behind.
LEMMA DroppedMakesRoom ==
  ASSUME IInv, HasRoom
  PROVE  Cardinality(Known \ Dropped) < MaxJobs
  <1>1. IsFiniteSet(Known) /\ Cardinality(Known) \in Nat /\ MaxJobs \in Nat
    BY KnownJobs, JobsAssumption
  <1>2. CASE Cardinality(Known) < MaxJobs
    <2>1. Known \ Dropped = Known
      BY <1>2 DEF Dropped
    <2> QED BY <1>2, <2>1
  <1>3. CASE ~(Cardinality(Known) < MaxJobs)
    <2>1. Removable # {} /\ Removable \subseteq Known
      BY <1>3 DEF HasRoom, Removable
    <2> DEFINE S == {jobs[d] : d \in Removable}
    <2>2. S \in SUBSET Nat /\ S # {}
      BY <2>1, KnownJobs DEF Objects
    <2>3. PICK m \in S : \A n \in S : m <= n
      BY <2>2, SmallestOf
    <2>4. PICK d \in Removable : m = jobs[d]
      BY <2>3
    <2>5. d \in Dropped /\ d \in Known
      BY <1>3, <2>1, <2>3, <2>4 DEF Dropped
    <2>6. /\ IsFiniteSet(Known \ {d})
          /\ Cardinality(Known \ {d}) = Cardinality(Known) - 1
      BY <1>1, <2>5, FS_RemoveElement
    <2>7. Cardinality(Known \ Dropped) <= Cardinality(Known \ {d})
      BY <2>5, <2>6, FS_Subset
    <2>8. Cardinality(Known \ Dropped) \in Nat
      BY <1>1, FS_Subset, FS_CardinalityType
    <2> QED BY <1>1, <2>6, <2>7, <2>8 DEF IInv, CapacityBound
  <1> QED BY <1>2, <1>3

LEMMA InitIInv == Init => IInv
  <1> SUFFICES ASSUME Init PROVE IInv
    OBVIOUS
  <1>1. TypeOK
    <2>1. /\ jobs \in [Ids -> Objects \cup {0}]
          /\ index \in [Keys -> Ids \cup {None}]
          /\ request \in [Objects -> Requests \cup {None}]
      BY DEF Init
    <2>2. /\ status \in [Objects -> Terminal \cup {"none", "queued", "running"}]
          /\ source \in [Objects -> Objects \cup {0}]
          /\ submit \in [Objects -> {"none", "created", "dispatched", "done"}]
          /\ coroutine \in [Objects -> {"none", "scheduled", "executing", "ended"}]
          /\ signalled \in [Objects -> BOOLEAN]
      BY DEF Init
    <2>3. cancels \in [Cancellers ->
                    [stage : {"idle", "calling", "marking", "answering", "keyerror"},
                     id : Ids \cup {None}, future : Objects \cup {0}]]
      <3>1. NoCancel \in [stage : {"idle", "calling", "marking", "answering", "keyerror"},
                          id : Ids \cup {None}, future : Objects \cup {0}]
        BY DEF NoCancel
      <3> QED BY <3>1 DEF Init
    <2>4. created \in 0..MaxCreated
      BY JobsAssumption DEF Init
    <2>5. closed \in BOOLEAN
      BY DEF Init
    <2> QED BY <2>1, <2>2, <2>3, <2>4, <2>5 DEF TypeOK
  <1>2. Known = {}
    BY DEF Init, Known
  <1>3. Fresh /\ CancelsKnowIds /\ RegistryConsistent
    BY <1>2, JobsAssumption DEF Init, Fresh, CancelsKnowIds, RegistryConsistent,
                                NoCancel, Objects
  <1>4. CapacityBound
    BY <1>2, FS_EmptySet, JobsAssumption DEF CapacityBound
  <1> QED BY <1>1, <1>3, <1>4 DEF IInv
-----------------------------------------------------------------------------
LEMMA SubmitTypeOK ==
  ASSUME IInv, NEW q \in Requests, Submit(q)
  PROVE  TypeOK' /\ Fresh' /\ CancelsKnowIds'
  <1>1. TypeOK /\ Fresh /\ CancelsKnowIds
    BY DEF IInv
  <1>2. created' = created + 1 /\ created' \in Objects /\ created \in Nat
    BY <1>1, JobsAssumption DEF Submit, TypeOK, Objects
  <1>3. /\ IdOf[q] \in Ids /\ KeyOf[q] \in Keys
    BY JobsAssumption
  <1>4. /\ jobs' \in [Ids -> Objects \cup {0}]
        /\ index' \in [Keys -> Ids \cup {None}]
    BY <1>1, <1>2, <1>3 DEF Submit, TypeOK
  <1>5. /\ request' = [request EXCEPT ![created'] = q]
        /\ status' = [status EXCEPT ![created'] = "queued"]
        /\ submit' = [submit EXCEPT ![created'] = "created"]
        /\ UNCHANGED <<source, coroutine, signalled, cancels, closed>>
    BY DEF Submit
  <1>6. /\ request' \in [Objects -> Requests \cup {None}]
        /\ status' \in [Objects -> Terminal \cup {"none", "queued", "running"}]
        /\ submit' \in [Objects -> {"none", "created", "dispatched", "done"}]
        /\ created' \in 0..MaxCreated
    BY <1>1, <1>2, <1>5 DEF TypeOK, Objects
  <1>7. TypeOK'
    BY <1>1, <1>4, <1>5, <1>6 DEF TypeOK
  <1>8. Fresh'
    BY <1>1, <1>2, <1>5 DEF Fresh, TypeOK, Objects
  <1>9. CancelsKnowIds'
    BY <1>1, <1>5 DEF CancelsKnowIds
  <1> QED BY <1>7, <1>8, <1>9

LEMMA SubmitRegistry ==
  ASSUME IInv, NEW q \in Requests, Submit(q)
  PROVE  RegistryConsistent' /\ CapacityBound'
  <1> DEFINE d0 == IdOf[q]
             k0 == KeyOf[q]
  <1>1. /\ index[k0] = None /\ jobs[d0] = 0 /\ HasRoom
        /\ created' = created + 1
        /\ jobs' = [d \in Ids |-> IF d = d0 THEN created'
                                  ELSE IF d \in Dropped THEN 0 ELSE jobs[d]]
        /\ index' = [k \in Keys |-> IF k = k0 THEN d0
                                    ELSE IF k \in ForgottenKeys THEN None
                                    ELSE index[k]]
        /\ request' = [request EXCEPT ![created'] = q]
    BY DEF Submit
  <1>2. /\ d0 \in Ids /\ k0 \in Keys /\ created \in Nat /\ created' \in Objects
        /\ request \in [Objects -> Requests \cup {None}]
    BY JobsAssumption DEF IInv, TypeOK, Submit, Objects
  <1>3. Dropped \subseteq Known
    BY DEF Dropped, Removable
  <1>4. Known' = (Known \ Dropped) \cup {d0} /\ d0 \notin Known
    BY <1>1, <1>2 DEF Known, Objects
  <1>5. ASSUME NEW d \in Known \ Dropped
        PROVE  /\ jobs'[d] = jobs[d] /\ jobs[d] \in 1..created
               /\ request'[jobs[d]] = request[jobs[d]]
               /\ index'[KeyOf[request[jobs[d]]]] = d
               /\ KeyOf[request[jobs[d]]] \in Keys
    <2> DEFINE k == KeyOf[request[jobs[d]]]
    <2>1. d \in Ids /\ d # d0 /\ jobs'[d] = jobs[d]
      BY <1>1, <1>2, <1>4 DEF Known
    <2>2. jobs[d] \in 1..created /\ index[k] = d /\ k \in Keys
      BY <1>5, KnownJobs DEF IInv, RegistryConsistent
    <2>3. request'[jobs[d]] = request[jobs[d]]
      BY <1>1, <1>2, <2>2
    <2>4. k \notin ForgottenKeys
      <3> SUFFICES ASSUME NEW e \in Dropped, KeyOf[request[jobs[e]]] = k
                   PROVE  FALSE
        BY DEF ForgottenKeys
      <3>1. index[k] = e
        BY <1>3 DEF IInv, RegistryConsistent
      <3> QED BY <1>5, <2>2, <3>1
    <2>5. k # k0
      BY <1>1, <2>1, <2>2, JobsAssumption
    <2> QED BY <1>1, <2>1, <2>2, <2>3, <2>4, <2>5
  <1>6. /\ jobs'[d0] = created' /\ request'[created'] = q /\ index'[k0] = d0
        /\ created' \in 1..created'
    BY <1>1, <1>2
  <1>7. ASSUME NEW d \in Known'
        PROVE  /\ jobs'[d] \in 1..created'
               /\ IdOf[request'[jobs'[d]]] = d
               /\ index'[KeyOf[request'[jobs'[d]]]] = d
    <2>1. CASE d = d0
      BY <1>6, <2>1
    <2>2. CASE d # d0
      <3>1. d \in Known \ Dropped
        BY <1>4, <2>2
      <3>2. IdOf[request[jobs[d]]] = d
        BY <3>1 DEF IInv, RegistryConsistent, IdOfJob
      <3> QED BY <1>1, <1>2, <1>5, <3>1, <3>2
    <2> QED BY <2>1, <2>2
  <1>8. ASSUME NEW k \in Keys, index'[k] # None
        PROVE  index'[k] \in Known' /\ KeyOf[request'[jobs'[index'[k]]]] = k
    <2>1. CASE k = k0
      BY <1>4, <1>6, <2>1
    <2>2. CASE k # k0
      <3>1. k \notin ForgottenKeys /\ index'[k] = index[k]
        BY <1>1, <1>8, <2>2
      <3>2. index[k] \in Known /\ KeyOf[request[jobs[index[k]]]] = k
        BY <1>8, <3>1 DEF IInv, RegistryConsistent
      <3>3. index[k] \notin Dropped
        BY <3>1, <3>2 DEF ForgottenKeys
      <3> QED BY <1>4, <1>5, <3>1, <3>2, <3>3
    <2> QED BY <2>1, <2>2
  <1>9. RegistryConsistent'
    BY <1>7, <1>8 DEF RegistryConsistent, IdOfJob
  <1>10. CapacityBound'
    <2>1. /\ IsFiniteSet(Known \ Dropped)
          /\ Cardinality(Known \ Dropped) \in Nat /\ MaxJobs \in Nat
      BY KnownJobs, FS_Subset, FS_CardinalityType, JobsAssumption
    <2>2. Cardinality(Known') = Cardinality(Known \ Dropped) + 1
      BY <1>4, <2>1, FS_AddElement
    <2>3. Cardinality(Known \ Dropped) < MaxJobs
      BY <1>1, DroppedMakesRoom
    <2> QED BY <2>1, <2>2, <2>3 DEF CapacityBound
  <1> QED BY <1>9, <1>10

\* Every other action leaves the registry itself alone.
LEMMA RegistryUntouched ==
  ASSUME IInv, UNCHANGED registryVars
  PROVE  RegistryConsistent' /\ CapacityBound'
  BY DEF IInv, registryVars, RegistryConsistent, CapacityBound, Known, IdOfJob

\* What one writer of a job's status may do to the type.
LEMMA StatusWritten ==
  ASSUME IInv, NEW d \in Known,
         NEW st \in Terminal \cup {"running"}, NEW by \in Objects \cup {0},
         status' = [status EXCEPT ![jobs[d]] = st],
         source' = source \/ source' = [source EXCEPT ![jobs[d]] = by],
         UNCHANGED registryVars
  PROVE  /\ status' \in [Objects -> Terminal \cup {"none", "queued", "running"}]
         /\ source' \in [Objects -> Objects \cup {0}]
         /\ Fresh'
  <1>1. jobs[d] \in Objects /\ jobs[d] <= created
    BY KnownJobs
  <1>2. TypeOK /\ Fresh
    BY DEF IInv
  <1>3. created \in Nat /\ Objects \subseteq Nat
    BY <1>2 DEF TypeOK, Objects
  <1> QED BY <1>1, <1>2, <1>3 DEF TypeOK, Fresh, registryVars

LEMMA MarkCancelledType ==
  ASSUME IInv, NEW d \in Ids, NEW by \in Objects \cup {0}, MarkCancelled(d, by),
         UNCHANGED registryVars
  PROVE  /\ status' \in [Objects -> Terminal \cup {"none", "queued", "running"}]
         /\ source' \in [Objects -> Objects \cup {0}]
         /\ Fresh'
  <1>1. CASE UNCHANGED <<status, source>>
    BY <1>1 DEF IInv, TypeOK, Fresh, registryVars
  <1>2. CASE ~UNCHANGED <<status, source>>
    <2>1. /\ d \in Known
          /\ status' = [status EXCEPT ![jobs[d]] = "cancelled"]
          /\ source' = [source EXCEPT ![jobs[d]] = by]
      BY <1>2 DEF MarkCancelled, Known
    <2> QED BY <2>1, StatusWritten DEF Terminal
  <1> QED BY <1>1, <1>2
-----------------------------------------------------------------------------
\* The steps of handler threads and the loop that leave every status alone.
LEMMA QuietStep ==
  ASSUME IInv, UNCHANGED <<registryVars, status, source>>, TypeOK', CancelsKnowIds'
  PROVE  IInv'
  <1>1. RegistryConsistent' /\ CapacityBound'
    BY RegistryUntouched
  <1>2. Fresh'
    BY DEF IInv, Fresh, registryVars
  <1> QED BY <1>1, <1>2 DEF IInv

LEMMA DispatchIInv ==
  ASSUME IInv, NEW i \in Objects, Dispatch(i)
  PROVE  IInv'
  <1>1. TypeOK'
    BY DEF IInv, TypeOK, Dispatch, registryVars
  <1>2. CancelsKnowIds'
    BY DEF IInv, CancelsKnowIds, Dispatch
  <1> QED BY <1>1, <1>2, QuietStep DEF Dispatch

LEMMA AttachFutureIInv ==
  ASSUME IInv, NEW i \in Objects, AttachFuture(i)
  PROVE  IInv'
  <1>1. TypeOK'
    BY DEF IInv, TypeOK, AttachFuture, registryVars
  <1>2. CancelsKnowIds'
    BY DEF IInv, CancelsKnowIds, AttachFuture
  <1> QED BY <1>1, <1>2, QuietStep DEF AttachFuture

LEMMA CloseIInv ==
  ASSUME IInv, Close
  PROVE  IInv'
  <1>1. TypeOK'
    BY DEF IInv, TypeOK, Close, registryVars
  <1>2. CancelsKnowIds'
    BY DEF IInv, CancelsKnowIds, Close
  <1> QED BY <1>1, <1>2, QuietStep DEF Close

\* A job whose coroutine runs was created, so its request id is one of Ids.
LEMMA CreatedHasId ==
  ASSUME IInv, NEW i \in 1..created
  PROVE  i \in Objects /\ IdOfJob(i) \in Ids /\ (Found(i) # 0 => IdOfJob(i) \in Known)
  <1>1. i \in Objects
    BY JobsAssumption DEF IInv, TypeOK, Objects
  <1>2. request[i] \in Requests
    BY <1>1 DEF IInv, Fresh
  <1> QED BY <1>1, <1>2, JobsAssumption DEF IdOfJob, Found, Known

LEMMA CoroutineStartsIInv ==
  ASSUME IInv, NEW i \in 1..created, CoroutineStarts(i)
  PROVE  IInv'
  <1>1. i \in Objects /\ (Found(i) # 0 => IdOfJob(i) \in Known)
    BY CreatedHasId
  <1>2. /\ UNCHANGED <<registryVars, source, submit, signalled, closed, cancels>>
        /\ coroutine' \in [Objects -> {"none", "scheduled", "executing", "ended"}]
    BY <1>1 DEF IInv, TypeOK, CoroutineStarts
  <1>3. /\ status' \in [Objects -> Terminal \cup {"none", "queued", "running"}]
        /\ Fresh'
    <2>1. CASE UNCHANGED status
      BY <1>2, <2>1 DEF IInv, TypeOK, Fresh, registryVars
    <2>2. CASE ~UNCHANGED status
      <3>1. /\ IdOfJob(i) \in Known
            /\ status' = [status EXCEPT ![jobs[IdOfJob(i)]] = "running"]
        BY <1>1, <2>2 DEF CoroutineStarts, Found
      <3> QED BY <1>1, <1>2, <3>1, StatusWritten
    <2> QED BY <2>1, <2>2
  <1>4. TypeOK'
    BY <1>2, <1>3 DEF IInv, TypeOK, registryVars
  <1>5. CancelsKnowIds'
    BY <1>2 DEF IInv, CancelsKnowIds
  <1> QED BY <1>2, <1>3, <1>4, <1>5, RegistryUntouched DEF IInv

LEMMA CoroutineFinishesIInv ==
  ASSUME IInv, NEW i \in 1..created, CoroutineFinishes(i)
  PROVE  IInv'
  <1>1. i \in Objects /\ (Found(i) # 0 => IdOfJob(i) \in Known)
    BY CreatedHasId
  <1>2. /\ UNCHANGED <<registryVars, submit, signalled, closed, cancels>>
        /\ coroutine' \in [Objects -> {"none", "scheduled", "executing", "ended"}]
    BY <1>1 DEF IInv, TypeOK, CoroutineFinishes
  <1>3. /\ status' \in [Objects -> Terminal \cup {"none", "queued", "running"}]
        /\ source' \in [Objects -> Objects \cup {0}]
        /\ Fresh'
    <2>1. CASE UNCHANGED <<status, source>>
      BY <1>2, <2>1 DEF IInv, TypeOK, Fresh, registryVars
    <2>2. CASE ~UNCHANGED <<status, source>>
      <3>1. PICK st \in Terminal :
              /\ IdOfJob(i) \in Known
              /\ status' = [status EXCEPT ![jobs[IdOfJob(i)]] = st]
              /\ source' = [source EXCEPT ![jobs[IdOfJob(i)]] = i]
        BY <1>1, <2>2 DEF CoroutineFinishes, Found
      <3> QED BY <1>1, <1>2, <3>1, StatusWritten
    <2> QED BY <2>1, <2>2
  <1>4. TypeOK'
    BY <1>2, <1>3 DEF IInv, TypeOK, registryVars
  <1>5. CancelsKnowIds'
    BY <1>2 DEF IInv, CancelsKnowIds
  <1> QED BY <1>2, <1>3, <1>4, <1>5, RegistryUntouched DEF IInv

LEMMA CoroutineCancelledIInv ==
  ASSUME IInv, NEW i \in 1..created, CoroutineCancelled(i)
  PROVE  IInv'
  <1>1. i \in Objects /\ IdOfJob(i) \in Ids
    BY CreatedHasId
  <1>2. /\ UNCHANGED <<registryVars, submit, signalled, closed, cancels>>
        /\ coroutine' \in [Objects -> {"none", "scheduled", "executing", "ended"}]
    BY <1>1 DEF IInv, TypeOK, CoroutineCancelled
  <1>3. /\ status' \in [Objects -> Terminal \cup {"none", "queued", "running"}]
        /\ source' \in [Objects -> Objects \cup {0}]
        /\ Fresh'
    <2>1. CASE coroutine[i] = "executing"
      BY <1>1, <1>2, <2>1, MarkCancelledType DEF CoroutineCancelled
    <2>2. CASE coroutine[i] # "executing"
      BY <1>2, <2>2 DEF CoroutineCancelled, IInv, TypeOK, Fresh, registryVars
    <2> QED BY <2>1, <2>2
  <1>4. TypeOK'
    BY <1>2, <1>3 DEF IInv, TypeOK, registryVars
  <1>5. CancelsKnowIds'
    BY <1>2 DEF IInv, CancelsKnowIds
  <1> QED BY <1>2, <1>3, <1>4, <1>5, RegistryUntouched DEF IInv

\* A cancel thread that moves on keeps its request id.
LEMMA GoesType ==
  ASSUME IInv, NEW c \in Cancellers, cancels[c].stage # "idle",
         NEW stage \in {"calling", "marking", "answering", "keyerror"},
         Goes(c, stage)
  PROVE  /\ cancels' \in [Cancellers ->
                    [stage : {"idle", "calling", "marking", "answering", "keyerror"},
                     id : Ids \cup {None}, future : Objects \cup {0}]]
         /\ CancelsKnowIds'
  BY DEF IInv, TypeOK, CancelsKnowIds, Goes

LEMMA CancelBeginsIInv ==
  ASSUME IInv, NEW c \in Cancellers, NEW d \in Ids, CancelBegins(c, d)
  PROVE  IInv'
  <1> DEFINE call == [stage |-> "calling", id |-> d, future |-> FutureOf(jobs[d])]
  <1>1. /\ cancels' = [cancels EXCEPT ![c] = call]
        /\ UNCHANGED <<registryVars, status, source, loopVars>>
    BY DEF CancelBegins
  <1>2. jobs[d] \in Objects
    BY KnownJobs DEF CancelBegins
  <1>3. call \in [stage : {"idle", "calling", "marking", "answering", "keyerror"},
                  id : Ids \cup {None}, future : Objects \cup {0}]
    BY <1>2 DEF FutureOf
  <1>4. TypeOK'
    BY <1>1, <1>3 DEF IInv, TypeOK, registryVars, loopVars
  <1>5. CancelsKnowIds'
    BY <1>1, <1>3 DEF IInv, TypeOK, CancelsKnowIds
  <1> QED BY <1>1, <1>4, <1>5, QuietStep

LEMMA CancelSignalsIInv ==
  ASSUME IInv, NEW c \in Cancellers, CancelSignals(c)
  PROVE  IInv'
  <1>1. /\ cancels[c].stage # "idle" /\ Goes(c, "marking")
        /\ UNCHANGED <<registryVars, status, source, submit, coroutine, closed>>
    BY DEF CancelSignals
  <1>2. signalled' \in [Objects -> BOOLEAN]
    BY DEF CancelSignals, IInv, TypeOK
  <1>3. TypeOK' /\ CancelsKnowIds'
    BY <1>1, <1>2, GoesType DEF IInv, TypeOK, registryVars
  <1> QED BY <1>1, <1>3, QuietStep

LEMMA CancelMarksIInv ==
  ASSUME IInv, NEW c \in Cancellers, CancelMarks(c)
  PROVE  IInv'
  <1>1. /\ cancels[c].stage # "idle" /\ Goes(c, "answering")
        /\ MarkCancelled(cancels[c].id, 0)
        /\ UNCHANGED <<registryVars, loopVars>>
    BY DEF CancelMarks
  <1>2. cancels[c].id \in Ids
    BY <1>1 DEF IInv, CancelsKnowIds
  <1>3. /\ status' \in [Objects -> Terminal \cup {"none", "queued", "running"}]
        /\ source' \in [Objects -> Objects \cup {0}]
        /\ Fresh'
    BY <1>1, <1>2, MarkCancelledType
  <1>4. TypeOK' /\ CancelsKnowIds'
    BY <1>1, <1>3, GoesType DEF IInv, TypeOK, registryVars, loopVars
  <1> QED BY <1>1, <1>3, <1>4, RegistryUntouched DEF IInv

LEMMA CancelAnswersIInv ==
  ASSUME IInv, NEW c \in Cancellers, CancelAnswers(c)
  PROVE  IInv'
  <1>1. UNCHANGED <<registryVars, status, source, loopVars>>
    BY DEF CancelAnswers
  <1>2. /\ cancels' \in [Cancellers ->
                    [stage : {"idle", "calling", "marking", "answering", "keyerror"},
                     id : Ids \cup {None}, future : Objects \cup {0}]]
        /\ CancelsKnowIds'
    <2>1. CASE Goes(c, "keyerror")
      BY <2>1, GoesType DEF CancelAnswers
    <2>2. CASE cancels' = [cancels EXCEPT ![c] = NoCancel]
      <3>1. NoCancel \in [stage : {"idle", "calling", "marking", "answering", "keyerror"},
                          id : Ids \cup {None}, future : Objects \cup {0}]
        BY DEF NoCancel
      <3>2. NoCancel.stage = "idle"
        BY DEF NoCancel
      <3> QED BY <2>2, <3>1, <3>2 DEF IInv, TypeOK, CancelsKnowIds
    <2> QED BY <2>1, <2>2 DEF CancelAnswers
  <1>3. TypeOK'
    BY <1>1, <1>2 DEF IInv, TypeOK, registryVars, loopVars
  <1> QED BY <1>1, <1>2, <1>3, QuietStep

LEMMA NextIInv ==
  ASSUME IInv, [Next]_vars
  PROVE  IInv'
  <1>1. CASE UNCHANGED vars
    BY <1>1 DEF IInv, TypeOK, Fresh, CancelsKnowIds, RegistryConsistent, IdOfJob,
                CapacityBound, Known, vars, registryVars, loopVars
  <1>2. ASSUME NEW q \in Requests, Submit(q) PROVE IInv'
    BY <1>2, SubmitTypeOK, SubmitRegistry DEF IInv
  <1>3. ASSUME NEW i \in 1..created,
               \/ Dispatch(i) \/ AttachFuture(i) \/ CoroutineStarts(i)
               \/ CoroutineFinishes(i) \/ CoroutineCancelled(i)
        PROVE  IInv'
    BY <1>3, CreatedHasId, DispatchIInv, AttachFutureIInv, CoroutineStartsIInv,
       CoroutineFinishesIInv, CoroutineCancelledIInv
  <1>4. ASSUME NEW c \in Cancellers,
               \/ \E d \in Ids : CancelBegins(c, d)
               \/ CancelSignals(c) \/ CancelMarks(c) \/ CancelAnswers(c)
        PROVE  IInv'
    BY <1>4, CancelBeginsIInv, CancelSignalsIInv, CancelMarksIInv, CancelAnswersIInv
  <1>5. CASE Close
    BY <1>5, CloseIInv
  <1> QED BY <1>1, <1>2, <1>3, <1>4, <1>5 DEF Next

LEMMA Invariance == Spec => []IInv
  BY InitIInv, NextIInv, PTL DEF Spec
-----------------------------------------------------------------------------
\* The registry, its threads and its coroutines have their types.
THEOREM TypeCorrect == Spec => []TypeOK
  BY Invariance, PTL DEF IInv

\* _jobs and _idempotency of the model server describe the same jobs, whatever
\* is submitted, forgotten and submitted again: submit never meets a KeyError.
THEOREM RegistryStaysConsistent == Spec => []RegistryConsistent
  BY Invariance, PTL DEF IInv

\* The registry never outgrows max_jobs.
THEOREM CapacityKept == Spec => []CapacityBound
  BY Invariance, PTL DEF IInv

\* No job is forgotten before it has its response.
THEOREM NoJobLost == Spec => AcceptedJobsKept
  <1>1. ASSUME IInv, [Next]_vars, NEW d \in Known, status[jobs[d]] \notin Terminal
        PROVE  jobs'[d] = jobs[d]
    <2>1. CASE UNCHANGED jobs
      BY <2>1
    <2>2. ASSUME NEW q \in Requests, Submit(q) PROVE jobs'[d] = jobs[d]
      <3>1. d \notin Dropped
        BY <1>1 DEF Dropped, Removable
      <3>2. d # IdOf[q] /\ d \in Ids
        BY <2>2 DEF Submit, Known
      <3> QED BY <2>2, <3>1, <3>2 DEF Submit
    <2> QED BY <1>1, <2>1, <2>2
            DEF Next, Dispatch, AttachFuture, CoroutineStarts, CoroutineFinishes,
                CoroutineCancelled, CancelBegins, CancelSignals, CancelMarks,
                CancelAnswers, Close, registryVars, vars
  <1>2. IInv /\ [Next]_vars
          => [\A d \in Known : status[jobs[d]] \notin Terminal
                                 => jobs'[d] = jobs[d]]_vars
    BY <1>1
  <1> QED BY <1>2, Invariance, PTL DEF Spec, AcceptedJobsKept

\* A job object that was cancelled stays cancelled for good.
THEOREM CancellationIsFinal == Spec => CancelledStays
  <1>1. ASSUME IInv, [Next]_vars, NEW i \in Objects, status[i] = "cancelled"
        PROVE  status'[i] = "cancelled"
    <2>1. status \in [Objects -> Terminal \cup {"none", "queued", "running"}]
      BY <1>1 DEF IInv, TypeOK
    <2>2. ASSUME NEW q \in Requests, Submit(q) PROVE status'[i] = "cancelled"
      <3>1. status[created + 1] = "none" /\ created + 1 \in Objects
        BY <1>1, <2>2, JobsAssumption DEF IInv, TypeOK, Fresh, Submit, Objects
      <3> QED BY <1>1, <2>1, <2>2, <3>1 DEF Submit
    <2>3. ASSUME NEW d, NEW by, MarkCancelled(d, by) PROVE status'[i] = "cancelled"
      BY <1>1, <2>1, <2>3 DEF MarkCancelled
    <2>4. ASSUME NEW j, CoroutineStarts(j) PROVE status'[i] = "cancelled"
      BY <1>1, <2>1, <2>4 DEF CoroutineStarts, Terminal
    <2>5. ASSUME NEW j, CoroutineFinishes(j) PROVE status'[i] = "cancelled"
      BY <1>1, <2>1, <2>5 DEF CoroutineFinishes
    <2>6. CASE UNCHANGED status
      BY <1>1, <2>6
    <2> QED BY <1>1, <2>2, <2>3, <2>4, <2>5, <2>6
            DEF Next, Dispatch, AttachFuture, CoroutineCancelled, CancelBegins,
                CancelSignals, CancelMarks, CancelAnswers, Close, vars
  <1>2. IInv /\ [Next]_vars
          => [\A i \in Objects : status[i] = "cancelled"
                                   => status'[i] = "cancelled"]_vars
    BY <1>1
  <1> QED BY <1>2, Invariance, PTL DEF Spec, CancelledStays

\* The registry of the model server is exact in every reachable state, for every
\* set of jobs and requests, every capacity and also when clients reuse job ids.
THEOREM RegistryAlwaysExact == Spec => []RegistryExact
  BY TypeCorrect, RegistryStaysConsistent, CapacityKept, PTL DEF RegistryExact

\* Nothing the server said is taken back: no job is forgotten before its
\* response, and a cancelled one stays cancelled.
THEOREM NothingIsTakenBack == Spec => NothingTakenBack
  BY NoJobLost, CancellationIsFinal DEF NothingTakenBack
-----------------------------------------------------------------------------
(***************************************************************************)
(* The refinement of JobServer.  As long as a request id is used once, the  *)
(* job a coroutine finds under its id is its own.                           *)
(***************************************************************************)
OwnIds == \A i, j \in 1..created : IdOfJob(i) = IdOfJob(j) => i = j

\* How far a job object, its handler thread and its coroutine have come.
Lifecycle ==
  \A i \in Objects :
    /\ i > created => coroutine[i] = "none" /\ submit[i] = "none"
    /\ i <= created => status[i] # "none"
    /\ submit[i] = "created" => coroutine[i] = "none"
    /\ status[i] = "running" => coroutine[i] \in {"executing", "ended"}
    /\ status[i] \in {"succeeded", "failed"} => coroutine[i] = "ended"
    /\ coroutine[i] = "executing" => status[i] \in {"running", "cancelled"}

OnceInv == IInv /\ OwnIds /\ Lifecycle

LEMMA InitOnceInv == Init => OnceInv
  <1> SUFFICES ASSUME Init PROVE OnceInv
    OBVIOUS
  <1>1. created = 0 /\ Objects \subseteq Nat \ {0}
    BY DEF Init, Objects
  <1>2. OwnIds
    BY <1>1 DEF OwnIds
  <1>3. Lifecycle
    BY <1>1 DEF Init, Lifecycle
  <1> QED BY <1>2, <1>3, InitIInv DEF OnceInv

\* The job that a coroutine finds under its id.
LEMMA FindsOwn ==
  ASSUME OnceInv, NEW i \in 1..created
  PROVE  /\ i \in Objects /\ i <= created
         /\ IdOfJob(i) \in Ids
         /\ Found(i) # 0 => IdOfJob(i) \in Known /\ jobs[IdOfJob(i)] = i /\ Found(i) = i
  <1>1. IInv /\ OwnIds
    BY DEF OnceInv
  <1>2. i \in Objects /\ IdOfJob(i) \in Ids /\ (Found(i) # 0 => IdOfJob(i) \in Known)
    BY <1>1, CreatedHasId
  <1>3. i <= created
    BY <1>1 DEF IInv, TypeOK
  <1>4. ASSUME Found(i) # 0 PROVE jobs[IdOfJob(i)] = i
    <2>1. /\ jobs[IdOfJob(i)] \in 1..created
          /\ IdOfJob(jobs[IdOfJob(i)]) = IdOfJob(i)
      BY <1>1, <1>2, <1>4 DEF IInv, RegistryConsistent
    <2> QED BY <1>1, <2>1 DEF OwnIds
  <1> QED BY <1>2, <1>3, <1>4 DEF Found

\* A job in the registry is queued, running or ended.
LEMMA KnownStatus ==
  ASSUME OnceInv, NEW d \in Known
  PROVE  /\ d \in Ids /\ jobs[d] \in Objects /\ jobs[d] \in 1..created
         /\ status[jobs[d]] \in Terminal \cup {"queued", "running"}
         /\ \A e \in Ids : jobs[e] = jobs[d] => e = d
  <1>1. IInv /\ Lifecycle
    BY DEF OnceInv
  <1>2. d \in Ids /\ jobs[d] \in Objects /\ jobs[d] <= created /\ jobs[d] \in 1..created
    BY <1>1, KnownJobs DEF IInv, RegistryConsistent
  <1>3. status[jobs[d]] \in Terminal \cup {"queued", "running"}
    BY <1>1, <1>2 DEF Lifecycle, IInv, TypeOK
  <1>4. ASSUME NEW e \in Ids, jobs[e] = jobs[d] PROVE e = d
    <2>1. e \in Known
      BY <1>2, <1>4 DEF Known, Objects
    <2>2. IdOfJob(jobs[d]) = d /\ IdOfJob(jobs[e]) = e
      BY <1>1, <2>1 DEF IInv, RegistryConsistent
    <2> QED BY <1>4, <2>2
  <1> QED BY <1>2, <1>3, <1>4

LEMMA SubmitOnce ==
  ASSUME OnceInv, ~Reuse, NEW q \in Requests, Submit(q)
  PROVE  OwnIds' /\ Lifecycle'
  <1>1. /\ created' = created + 1 /\ created \in Nat /\ created' \in Objects
        /\ request' = [request EXCEPT ![created'] = q]
        /\ status' = [status EXCEPT ![created'] = "queued"]
        /\ submit' = [submit EXCEPT ![created'] = "created"]
        /\ coroutine' = coroutine
        /\ \A i \in 1..created : IdOfJob(i) # IdOf[q]
    BY JobsAssumption DEF OnceInv, IInv, TypeOK, Submit, Objects
  <1>2. TypeOK /\ Objects \subseteq Nat \ {0}
    BY DEF OnceInv, IInv, Objects
  <1>3. OwnIds'
    <2>1. ASSUME NEW i \in 1..created
          PROVE  request'[i] = request[i] /\ IdOf[request[i]] # IdOf[q]
      BY <1>1, <1>2 DEF IdOfJob, TypeOK, Objects
    <2>2. request'[created'] = q
      BY <1>1, <1>2 DEF TypeOK
    <2>3. ASSUME NEW i \in 1..created', NEW j \in 1..created',
                 IdOf[request'[i]] = IdOf[request'[j]]
          PROVE  i = j
      <3>1. (i \in 1..created \/ i = created') /\ (j \in 1..created \/ j = created')
        BY <1>1
      <3>2. CASE i \in 1..created /\ j \in 1..created
        BY <2>1, <2>3, <3>2 DEF OnceInv, OwnIds, IdOfJob
      <3>3. CASE i = created' /\ j \in 1..created
        BY <2>1, <2>2, <2>3, <3>3
      <3>4. CASE j = created' /\ i \in 1..created
        BY <2>1, <2>2, <2>3, <3>4
      <3> QED BY <3>1, <3>2, <3>3, <3>4
    <2> QED BY <2>3 DEF OwnIds, IdOfJob
  <1>4. Lifecycle'
    <2>1. ASSUME NEW i \in Objects, i # created'
          PROVE  /\ status'[i] = status[i] /\ submit'[i] = submit[i]
                 /\ i > created' => i > created
                 /\ i <= created' => i <= created
      BY <1>1, <1>2, <2>1 DEF TypeOK
    <2>2. /\ status'[created'] = "queued" /\ submit'[created'] = "created"
          /\ coroutine[created'] = "none" /\ ~(created' > created')
      BY <1>1, <1>2 DEF TypeOK, OnceInv, Lifecycle
    <2> QED BY <1>1, <2>1, <2>2 DEF OnceInv, Lifecycle
  <1> QED BY <1>3, <1>4

\* Steps that write neither the registry nor any status.
LEMMA ThreadStepsOnce ==
  ASSUME OnceInv, NEW i \in 1..created, Dispatch(i) \/ AttachFuture(i)
  PROVE  OwnIds' /\ Lifecycle'
  <1>1. i \in Objects /\ i <= created
    BY FindsOwn
  <1>2. OwnIds'
    BY DEF OnceInv, OwnIds, IdOfJob, Dispatch, AttachFuture, registryVars
  <1>3. created \in Nat /\ Objects \subseteq Nat /\ TypeOK /\ Lifecycle
    BY DEF OnceInv, IInv, TypeOK, Objects
  <1>4. CASE Dispatch(i)
    <2>1. /\ UNCHANGED <<created, status>>
          /\ submit[i] = "created"
          /\ submit' = [submit EXCEPT ![i] = "dispatched"]
          /\ coroutine' = [coroutine EXCEPT ![i] = "scheduled"]
      BY <1>4 DEF Dispatch, registryVars
    <2>2. /\ coroutine'[i] = "scheduled" /\ submit'[i] = "dispatched"
          /\ coroutine[i] = "none" /\ status[i] # "none"
      BY <1>1, <1>3, <2>1 DEF TypeOK, Lifecycle
    <2>3. ASSUME NEW j \in Objects, j # i
          PROVE  coroutine'[j] = coroutine[j] /\ submit'[j] = submit[j]
      BY <1>3, <2>1, <2>3 DEF TypeOK
    <2>4. i \in Nat
      BY <1>1, <1>3
    <2> QED BY <1>1, <1>2, <1>3, <2>1, <2>2, <2>3, <2>4 DEF Lifecycle
  <1>5. CASE AttachFuture(i)
    <2>1. /\ UNCHANGED <<created, status, coroutine>>
          /\ submit[i] = "dispatched"
          /\ submit' = [submit EXCEPT ![i] = "done"]
      BY <1>5 DEF AttachFuture, registryVars
    <2>2. submit'[i] = "done" /\ i \in Nat
      BY <1>1, <1>3, <2>1 DEF TypeOK
    <2>3. ASSUME NEW j \in Objects, j # i PROVE submit'[j] = submit[j]
      BY <1>3, <2>1, <2>3 DEF TypeOK
    <2> QED BY <1>1, <1>2, <1>3, <2>1, <2>2, <2>3 DEF Lifecycle
  <1> QED BY <1>2, <1>4, <1>5

\* _mark_cancelled, alone or as the end of a coroutine.
LEMMA MarkOnce ==
  ASSUME OnceInv, NEW d \in Ids, NEW by, MarkCancelled(d, by),
         UNCHANGED <<registryVars, submit>>,
         \A i \in Objects : \/ coroutine'[i] = coroutine[i]
                            \/ coroutine[i] = "executing" /\ coroutine'[i] = "ended"
  PROVE  OwnIds' /\ Lifecycle'
  <1>1. OwnIds'
    BY DEF OnceInv, OwnIds, IdOfJob, registryVars
  <1>2. TypeOK /\ Lifecycle /\ UNCHANGED created
    BY DEF OnceInv, IInv, registryVars
  <1>3. ASSUME NEW i \in Objects
        PROVE  \/ status'[i] = status[i]
               \/ status'[i] = "cancelled" /\ status[i] # "none"
    <2>1. CASE status' = status
      BY <2>1
    <2>2. CASE status' # status
      <3>1. /\ d \in Known /\ status' = [status EXCEPT ![jobs[d]] = "cancelled"]
        BY <2>2 DEF MarkCancelled, Known
      <3>2. status[jobs[d]] # "none"
        BY <3>1, KnownStatus DEF Terminal
      <3> QED BY <1>2, <3>1, <3>2 DEF TypeOK
    <2> QED BY <2>1, <2>2
  <1>4. Lifecycle'
    BY <1>2, <1>3 DEF Lifecycle
  <1> QED BY <1>1, <1>4

LEMMA CoroutineOnce ==
  ASSUME OnceInv, NEW i \in 1..created, CoroutineStarts(i) \/ CoroutineFinishes(i)
  PROVE  OwnIds' /\ Lifecycle'
  <1>1. i \in Objects /\ i <= created /\ (Found(i) # 0 => Found(i) = i)
    BY FindsOwn
  <1>2. OwnIds'
    BY DEF OnceInv, OwnIds, IdOfJob, CoroutineStarts, CoroutineFinishes, registryVars
  <1>3. created \in Nat /\ Objects \subseteq Nat /\ TypeOK /\ Lifecycle
    BY DEF OnceInv, IInv, TypeOK, Objects
  <1>4. UNCHANGED <<created, submit>>
    BY DEF CoroutineStarts, CoroutineFinishes, registryVars
  <1>5. CASE CoroutineStarts(i)
    <2>1. coroutine[i] = "scheduled"
      BY <1>5 DEF CoroutineStarts
    <2>2. CASE status' = status
      <3>1. coroutine' = [coroutine EXCEPT ![i] = "ended"]
        BY <1>5, <2>2, <1>1, <1>3, <2>1 DEF CoroutineStarts, TypeOK, Lifecycle
      <3> QED BY <1>1, <1>2, <1>3, <1>4, <2>1, <2>2, <3>1 DEF TypeOK, Lifecycle
    <2>3. CASE status' # status
      <3>1. /\ status' = [status EXCEPT ![i] = "running"]
            /\ coroutine' = [coroutine EXCEPT ![i] = "executing"]
        BY <1>1, <1>5, <2>3 DEF CoroutineStarts
      <3> QED BY <1>1, <1>2, <1>3, <1>4, <2>1, <3>1 DEF TypeOK, Lifecycle
    <2> QED BY <2>2, <2>3
  <1>6. CASE CoroutineFinishes(i)
    <2>1. /\ coroutine[i] = "executing"
          /\ coroutine' = [coroutine EXCEPT ![i] = "ended"]
      BY <1>6 DEF CoroutineFinishes
    <2>2. CASE status' = status
      BY <1>1, <1>2, <1>3, <1>4, <2>1, <2>2 DEF TypeOK, Lifecycle
    <2>3. CASE status' # status
      <3>1. PICK st \in Terminal : status' = [status EXCEPT ![i] = st]
        BY <1>1, <1>6, <2>3 DEF CoroutineFinishes
      <3> QED BY <1>1, <1>2, <1>3, <1>4, <2>1, <3>1 DEF TypeOK, Lifecycle, Terminal
    <2> QED BY <2>2, <2>3
  <1> QED BY <1>5, <1>6

LEMMA CancelledOnce ==
  ASSUME OnceInv, NEW i \in 1..created, CoroutineCancelled(i)
  PROVE  OwnIds' /\ Lifecycle'
  <1>1. i \in Objects /\ i <= created /\ IdOfJob(i) \in Ids
    BY FindsOwn
  <1>2. /\ UNCHANGED <<registryVars, submit>>
        /\ coroutine' = [coroutine EXCEPT ![i] = "ended"]
        /\ coroutine[i] \in {"scheduled", "executing"}
    BY DEF CoroutineCancelled
  <1>3. TypeOK /\ Lifecycle
    BY DEF OnceInv, IInv
  <1>4. CASE coroutine[i] = "executing"
    <2>1. MarkCancelled(IdOfJob(i), i)
      BY <1>4 DEF CoroutineCancelled
    <2>2. \A j \in Objects : \/ coroutine'[j] = coroutine[j]
                             \/ coroutine[j] = "executing" /\ coroutine'[j] = "ended"
      BY <1>1, <1>2, <1>3, <1>4 DEF TypeOK
    <2> QED BY <1>1, <1>2, <2>1, <2>2, MarkOnce
  <1>5. CASE coroutine[i] = "scheduled"
    <2>1. UNCHANGED <<status, created, submit>>
      BY <1>2, <1>5 DEF CoroutineCancelled, registryVars
    <2>2. OwnIds'
      BY <1>2 DEF OnceInv, OwnIds, IdOfJob, registryVars
    <2>3. created \in Nat /\ Objects \subseteq Nat
      BY <1>3 DEF TypeOK, Objects
    <2>4. Lifecycle'
      BY <1>1, <1>2, <1>3, <1>5, <2>1, <2>3 DEF TypeOK, Lifecycle
    <2> QED BY <2>2, <2>4
  <1> QED BY <1>2, <1>4, <1>5

LEMMA NextOnceInv ==
  ASSUME OnceInv, ~Reuse, [Next]_vars
  PROVE  OnceInv'
  <1>1. IInv'
    BY NextIInv DEF OnceInv
  <1>2. CASE UNCHANGED <<registryVars, status, submit, coroutine>>
    BY <1>1, <1>2 DEF OnceInv, OwnIds, IdOfJob, Lifecycle, registryVars
  <1>3. ASSUME NEW c \in Cancellers, CancelMarks(c) PROVE OwnIds' /\ Lifecycle'
    <2>1. /\ cancels[c].id \in Ids /\ MarkCancelled(cancels[c].id, 0)
          /\ UNCHANGED <<registryVars, submit, coroutine>>
      BY <1>3 DEF CancelMarks, OnceInv, IInv, CancelsKnowIds, loopVars
    <2> QED BY <2>1, MarkOnce
  <1> QED BY <1>1, <1>2, <1>3, SubmitOnce, ThreadStepsOnce, CoroutineOnce, CancelledOnce
          DEF Next, vars, loopVars, CancelBegins, CancelSignals, CancelAnswers, Close,
              OnceInv
-----------------------------------------------------------------------------
\* What a client sees of the registry.
ShownJob == [d \in Ids |-> IF jobs[d] = 0 THEN "unknown" ELSE status[jobs[d]]]

ServerStep == [Server!Next]_(Server!serverVars)

LEMMA ServerStates ==
  /\ Server!Init <=> ShownJob = [d \in Ids |-> "unknown"] /\ index = [k \in Keys |-> None]
  /\ UNCHANGED Server!serverVars <=> UNCHANGED <<ShownJob, index>>
  BY DEF Server!Init, Server!serverVars, ShownJob

LEMMA ServerSubmit ==
  ASSUME NEW d, NEW k, NEW gone
  PROVE  Server!Submit(d, k, gone) <=>
           /\ ShownJob[d] = "unknown" /\ index[k] = None
           /\ gone \subseteq {e \in Ids : ShownJob[e] \in Terminal}
           /\ ShownJob' = [e \in Ids |-> IF e = d THEN "queued"
                                         ELSE IF e \in gone THEN "unknown"
                                         ELSE ShownJob[e]]
           /\ index' = [l \in Keys |-> IF l = k THEN d
                                       ELSE IF index[l] \in gone THEN None
                                       ELSE index[l]]
  BY DEF Server!Submit, Server!EndedJobs, Server!Ended, Terminal, ShownJob

LEMMA ServerBegin ==
  ASSUME NEW d
  PROVE  Server!Begin(d) <=> /\ ShownJob[d] = "queued"
                             /\ ShownJob' = [ShownJob EXCEPT ![d] = "running"]
                             /\ index' = index
  BY DEF Server!Begin, ShownJob

LEMMA ServerEnd ==
  ASSUME NEW d, NEW st
  PROVE  Server!End(d, st) <=>
           /\ \/ ShownJob[d] = "running" /\ st \in Terminal
              \/ ShownJob[d] = "queued" /\ st = "cancelled"
           /\ ShownJob' = [ShownJob EXCEPT ![d] = st]
           /\ index' = index
  BY DEF Server!End, Server!Ended, Terminal, ShownJob

LEMMA ServerStutters ==
  ASSUME UNCHANGED <<jobs, index, status>>
  PROVE  ServerStep
  <1>1. UNCHANGED <<ShownJob, index>>
    BY DEF ShownJob
  <1> QED BY <1>1, ServerStates DEF ServerStep

\* Whoever writes the status of a job that is filed under an id writes that id's.
LEMMA ShownWritten ==
  ASSUME OnceInv, NEW d \in Known, NEW st, UNCHANGED registryVars,
         status' = [status EXCEPT ![jobs[d]] = st]
  PROVE  /\ ShownJob[d] = status[jobs[d]] /\ d \in Ids
         /\ ShownJob' = [ShownJob EXCEPT ![d] = st]
         /\ index' = index
  <1>1. /\ d \in Ids /\ jobs[d] \in Objects /\ jobs[d] # 0
        /\ \A e \in Ids : jobs[e] = jobs[d] => e = d
    BY KnownStatus DEF Known
  <1>2. /\ status \in [Objects -> Terminal \cup {"none", "queued", "running"}]
        /\ jobs \in [Ids -> Objects \cup {0}]
        /\ jobs' = jobs /\ index' = index
    BY DEF OnceInv, IInv, TypeOK, registryVars
  <1>3. ASSUME NEW e \in Ids
        PROVE  ShownJob'[e] = IF e = d THEN st ELSE ShownJob[e]
    BY <1>1, <1>2 DEF ShownJob
  <1>4. ShownJob' = [e \in Ids |-> ShownJob'[e]] /\ ShownJob = [e \in Ids |-> ShownJob[e]]
    BY DEF ShownJob
  <1>5. ShownJob' = [ShownJob EXCEPT ![d] = st]
    BY <1>3, <1>4
  <1> QED BY <1>1, <1>2, <1>5 DEF ShownJob

LEMMA MarkRefines ==
  ASSUME OnceInv, NEW d \in Ids, NEW by, MarkCancelled(d, by), UNCHANGED registryVars
  PROVE  ServerStep
  <1>1. CASE status' = status
    BY <1>1, ServerStutters DEF registryVars
  <1>2. CASE status' # status
    <2>1. /\ d \in Known /\ status[jobs[d]] \notin Terminal
          /\ status' = [status EXCEPT ![jobs[d]] = "cancelled"]
      BY <1>2 DEF MarkCancelled, Known
    <2>2. status[jobs[d]] \in {"queued", "running"}
      BY <2>1, KnownStatus
    <2>3. Server!End(d, "cancelled")
      BY <2>1, <2>2, ShownWritten, ServerEnd DEF Terminal
    <2>4. "cancelled" \in Server!Ended
      BY DEF Server!Ended
    <2> QED BY <2>3, <2>4 DEF ServerStep, Server!Next
  <1> QED BY <1>1, <1>2

LEMMA StartsRefines ==
  ASSUME OnceInv, NEW i \in 1..created, CoroutineStarts(i)
  PROVE  ServerStep
  <1>1. CASE status' = status
    BY <1>1, ServerStutters DEF CoroutineStarts, registryVars
  <1>2. CASE status' # status
    <2>0. PICK d : d = IdOfJob(i)
      OBVIOUS
    <2>1. Found(i) # 0 /\ status[Found(i)] \notin Terminal
      BY <1>2 DEF CoroutineStarts
    <2>2. d \in Known /\ jobs[d] = i /\ Found(i) = i /\ i \in Objects /\ d \in Ids
      BY <2>0, <2>1, FindsOwn
    <2>3. status' = [status EXCEPT ![jobs[d]] = "running"] /\ UNCHANGED registryVars
      BY <1>2, <2>2 DEF CoroutineStarts
    <2>4. status[i] = "queued"
      <3>1. status[i] \in Terminal \cup {"queued", "running"}
        BY <2>2, KnownStatus
      <3>2. coroutine[i] = "scheduled"
        BY DEF CoroutineStarts
      <3> QED BY <2>1, <2>2, <3>1, <3>2 DEF OnceInv, Lifecycle
    <2>5. Server!Begin(d)
      BY <2>2, <2>3, <2>4, ShownWritten, ServerBegin
    <2> QED BY <2>2, <2>5 DEF ServerStep, Server!Next
  <1> QED BY <1>1, <1>2

LEMMA FinishesRefines ==
  ASSUME OnceInv, NEW i \in 1..created, CoroutineFinishes(i)
  PROVE  ServerStep
  <1>1. CASE status' = status
    BY <1>1, ServerStutters DEF CoroutineFinishes, registryVars
  <1>2. CASE status' # status
    <2>0. PICK d : d = IdOfJob(i)
      OBVIOUS
    <2>1. Found(i) # 0 /\ status[Found(i)] # "cancelled"
      BY <1>2 DEF CoroutineFinishes
    <2>2. d \in Known /\ jobs[d] = i /\ Found(i) = i /\ i \in Objects /\ d \in Ids
      BY <2>0, <2>1, FindsOwn
    <2>3. PICK st \in Terminal :
            status' = [status EXCEPT ![jobs[d]] = st] /\ UNCHANGED registryVars
      BY <1>2, <2>1, <2>2 DEF CoroutineFinishes
    <2>4. status[i] = "running"
      BY <2>1, <2>2 DEF OnceInv, Lifecycle, CoroutineFinishes
    <2>5. Server!End(d, st)
      BY <2>2, <2>3, <2>4, ShownWritten, ServerEnd
    <2>6. st \in Server!Ended
      BY <2>3 DEF Server!Ended, Terminal
    <2> QED BY <2>2, <2>5, <2>6 DEF ServerStep, Server!Next
  <1> QED BY <1>1, <1>2

LEMMA SubmitRefines ==
  ASSUME OnceInv, NEW q \in Requests, Submit(q)
  PROVE  ServerStep
  <1> DEFINE d0 == IdOf[q]
             k0 == KeyOf[q]
  <1>1. /\ index[k0] = None /\ jobs[d0] = 0
        /\ created' = created + 1 /\ created' \in Objects /\ created \in Nat
        /\ jobs' = [d \in Ids |-> IF d = d0 THEN created'
                                  ELSE IF d \in Dropped THEN 0 ELSE jobs[d]]
        /\ index' = [k \in Keys |-> IF k = k0 THEN d0
                                    ELSE IF k \in ForgottenKeys THEN None
                                    ELSE index[k]]
        /\ status' = [status EXCEPT ![created'] = "queued"]
    BY JobsAssumption DEF Submit, OnceInv, IInv, TypeOK, Objects
  <1>2. d0 \in Ids /\ k0 \in Keys /\ None \notin Ids
    BY JobsAssumption
  <1>3. TypeOK /\ IInv
    BY DEF OnceInv, IInv
  <1>4. Dropped \subseteq Removable /\ Removable \subseteq Known
    BY DEF Dropped, Removable
  <1>5. Dropped \subseteq {e \in Ids : ShownJob[e] \in Terminal}
    BY <1>4 DEF Removable, Known, ShownJob
  <1>6. ASSUME NEW e \in Ids
        PROVE  ShownJob'[e] = IF e = d0 THEN "queued"
                              ELSE IF e \in Dropped THEN "unknown" ELSE ShownJob[e]
    <2>1. ShownJob'[e] = IF jobs'[e] = 0 THEN "unknown" ELSE status'[jobs'[e]]
      BY DEF ShownJob
    <2>2. CASE e = d0
      BY <1>1, <1>3, <2>1, <2>2 DEF TypeOK, Objects
    <2>3. CASE e # d0 /\ e \in Dropped
      BY <1>1, <2>1, <2>3
    <2>4. CASE e # d0 /\ e \notin Dropped
      <3>1. jobs'[e] = jobs[e]
        BY <1>1, <2>4
      <3>2. jobs[e] # 0 => jobs[e] \in Objects /\ jobs[e] <= created
        BY <1>3, KnownJobs DEF Known
      <3>3. jobs[e] # 0 => status'[jobs[e]] = status[jobs[e]]
        BY <1>1, <1>3, <3>2 DEF TypeOK, Objects
      <3> QED BY <2>1, <2>4, <3>1, <3>3 DEF ShownJob
    <2> QED BY <2>2, <2>3, <2>4
  <1>7. ShownJob' = [e \in Ids |-> ShownJob'[e]]
    BY DEF ShownJob
  <1>8. ShownJob' = [e \in Ids |-> IF e = d0 THEN "queued"
                                   ELSE IF e \in Dropped THEN "unknown" ELSE ShownJob[e]]
    <2> HIDE DEF d0
    <2> QED BY <1>6, <1>7
  <1>9. ASSUME NEW k \in Keys
        PROVE  k \in ForgottenKeys <=> index[k] \in Dropped
    <2>1. ASSUME NEW d \in Dropped, k = KeyOf[request[jobs[d]]] PROVE index[k] = d
      BY <1>3, <1>4, <2>1 DEF IInv, RegistryConsistent
    <2>2. ASSUME index[k] \in Dropped PROVE k = KeyOf[request[jobs[index[k]]]]
      BY <1>2, <1>3, <1>4, <2>2 DEF IInv, RegistryConsistent, Known
    <2> QED BY <2>1, <2>2 DEF ForgottenKeys
  <1>10. index' = [l \in Keys |-> IF l = k0 THEN d0
                                  ELSE IF index[l] \in Dropped THEN None ELSE index[l]]
    BY <1>1, <1>9
  <1>11. ShownJob[d0] = "unknown"
    BY <1>1, <1>2 DEF ShownJob
  <1>12. PICK gone : gone = Dropped
    OBVIOUS
  <1>13. PICK d \in Ids, k \in Keys : d = d0 /\ k = k0
    BY <1>2
  <1>14. Server!Submit(d, k, gone)
    BY <1>1, <1>5, <1>8, <1>10, <1>11, <1>12, <1>13, ServerSubmit
  <1>15. gone \in SUBSET Server!EndedJobs
    BY <1>14 DEF Server!Submit
  <1> QED BY <1>14, <1>15 DEF ServerStep, Server!Next

LEMMA NextRefines ==
  ASSUME OnceInv, [Next]_vars
  PROVE  ServerStep
  <1>1. CASE UNCHANGED <<jobs, index, status>>
    BY <1>1, ServerStutters
  <1>2. ASSUME NEW i \in 1..created, CoroutineCancelled(i) PROVE ServerStep
    <2>1. CASE coroutine[i] = "executing"
      BY <1>2, <2>1, FindsOwn, MarkRefines DEF CoroutineCancelled
    <2>2. CASE coroutine[i] # "executing"
      BY <1>2, <2>2, ServerStutters DEF CoroutineCancelled, registryVars
    <2> QED BY <2>1, <2>2
  <1>3. ASSUME NEW c \in Cancellers, CancelMarks(c) PROVE ServerStep
    <2>1. /\ cancels[c].id \in Ids /\ MarkCancelled(cancels[c].id, 0)
          /\ UNCHANGED registryVars
      BY <1>3 DEF CancelMarks, OnceInv, IInv, CancelsKnowIds
    <2> QED BY <2>1, MarkRefines
  <1> QED BY <1>1, <1>2, <1>3, SubmitRefines, StartsRefines, FinishesRefines
          DEF Next, vars, registryVars, loopVars, Dispatch, AttachFuture, CancelBegins,
              CancelSignals, CancelAnswers, Close

\* Handler threads, coroutines and cancel calls of the model server together are
\* the job server that clients see, provided request ids are not used again: the
\* safety refinement, for every capacity and any number of jobs and threads.
THEOREM RegistryImplementsJobServer == ~Reuse => (Spec => ImplementsJobServer)
  <1> SUFFICES ASSUME ~Reuse PROVE Spec => ImplementsJobServer
    OBVIOUS
  <1>1. Init => Server!Init
    <2> SUFFICES ASSUME Init PROVE Server!Init
      OBVIOUS
    <2>1. ShownJob = [d \in Ids |-> "unknown"] /\ index = [k \in Keys |-> None]
      BY DEF Init, ShownJob
    <2> QED BY <2>1, ServerStates
  <1>2. OnceInv /\ [Next]_vars => OnceInv'
    BY NextOnceInv
  <1>3. OnceInv /\ [Next]_vars => [Server!Next]_(Server!serverVars)
    BY NextRefines DEF ServerStep
  <1> QED BY <1>1, <1>2, <1>3, InitOnceInv, PTL DEF Spec, ImplementsJobServer, Server!Spec
=============================================================================
