------------------------- MODULE PipelineEngineProofs -------------------------
(***************************************************************************)
(* Proofs about PipelineEngine for any plan, any behaviour of the runners,  *)
(* any number of attempts, slots and executions of a run id, cancellations, *)
(* crashes between any two steps and writes that fail.                      *)
(***************************************************************************)
EXTENDS PipelineEngine, TLAPS

Resting == {"pending", "collected"}
Computing == {"awaiting", "draining"}
Reported == {"returned", "collected"}

\* Where a Stage stands: its attempts count from one, a retry has a retryable
\* failure behind it, it runs only with its inputs, and only after its
\* dependencies; what it reads is what is available still.
StageOK(s) ==
  /\ attempt[s] = 0 <=> phase[s] \in {"pending", "started"}
  /\ phase[s] = "backoff" => attempt[s] < MaxAttempts
  /\ phase[s] = "draining" => verdict[s] # None
  /\ phase[s] \in Computing \cup {"backoff"} => ~ MissingInput(s)
  /\ phase[s] \in Reported => result[s] # None
  /\ result[s] # None => result[s].output # Undeclared
  /\ phase[s] # "pending" =>
       \A d \in Deps[s] : phase[d] = "collected" /\ EndedWell(result[d])
  /\ \A p \in Stages : snapshot[s][p] # None => snapshot[s][p] = available[p]

\* Only the current attempt of a Stage has a job that is not over.
JobsOK(s) ==
  \A n \in 1..MaxAttempts :
    /\ job[<<s, n>>] # "absent" => n <= attempt[s]
    /\ job[<<s, n>>] \in {"queued", "running"} =>
         n = attempt[s] /\ phase[s] \in Computing
    /\ completion[<<s, n>>] # None => job[<<s, n>>] \in Exec!Terminal

\* Earlier attempts failed, and that is on disk.
HistoryOK(s) ==
  \A n \in 1..MaxAttempts :
    n < attempt[s] \/ (n = attempt[s] /\ phase[s] = "backoff") =>
      /\ runFile # None /\ <<s, n>> \in runFile.refs
      /\ stageFile[<<s, n>>] # None /\ stageFile[<<s, n>>].result = Transient

\* What a Stage reported is on disk; and what the journal refers to was written
\* for the inputs of this execution.
RecordedOK(s) ==
  /\ phase[s] \in Reported =>
       /\ runFile # None /\ Current(s) \in runFile.refs
       /\ stageFile[Current(s)] # None /\ stageFile[Current(s)].result = result[s]
  /\ \A n \in 1..MaxAttempts : <<s, n>> \in refs =>
       /\ n <= attempt[s] /\ (phase[s] \in Computing => n < attempt[s])
       /\ stageFile[<<s, n>>] # None /\ stageFile[<<s, n>>].inputs = TaskInputs(s)
       /\ EndedWell(stageFile[<<s, n>>].result) => ~ MissingInput(s)

\* Artifacts are those of Stages that ended well, skipped or not, and were collected.
AvailableOK ==
  \A p \in Stages : available[p] # None =>
     phase[p] = "collected" /\ EndedWell(result[p]) /\ result[p].output = available[p]

\* A result was computed from the inputs its manifest names.
ManifestsOK ==
  \A a \in Attempts : stageFile[a] # None =>
     \A p \in Inputs[a[1]] : stageFile[a].basis[p] = stageFile[a].inputs[p]

\* The terminal status is the one the collected results call for.
TerminalOK ==
  /\ terminal = None => \A s \in Stages : phase[s] = "collected" => EndedWell(result[s])
  /\ terminal = "failed" =>
       \E s \in Stages : phase[s] = "collected" /\ result[s].status = "failed"
  /\ terminal = "cancelled" =>
       /\ \A s \in Stages : phase[s] = "collected" => result[s].status # "failed"
       /\ \E s \in Stages :
            \/ phase[s] = "collected" /\ result[s].status = "cancelled"
            \/ phase[s] = "pending" /\ pc \in {"finishing", "done", "raised"}
  /\ terminal # None => internal

\* Where the scheduler stands, and the run manifest while it works.
RunOK ==
  /\ pc = "idle" =>
       /\ terminal = None /\ refs = {} /\ available = Empty
       /\ \A s \in Stages : phase[s] = "pending"
  /\ pc \in {"finishing", "done", "stalled"} => \A s \in Stages : phase[s] \in Resting
  /\ pc = "raised" => \A s \in Stages : phase[s] \in Resting \cup {"returned", "raised"}
  /\ pc = "finishing" /\ terminal = None => \A s \in Stages : phase[s] = "collected"
  /\ pc \in {"waiting", "closing", "finishing"} =>
       /\ runFile # None /\ runFile.status = "running" /\ runFile.refs \subseteq refs

\* The inductive invariant.
IInv ==
  /\ TypeOK /\ RunOK /\ TerminalOK /\ AvailableOK /\ ManifestsOK
  /\ LineageCoherent /\ VerdictJustified
  /\ \A s \in Stages : StageOK(s) /\ JobsOK(s) /\ HistoryOK(s) /\ RecordedOK(s)
-----------------------------------------------------------------------------
(***************************************************************************)
(* What replies are, and what a manifest shows.                             *)
(***************************************************************************)
LEMMA ReplyFacts ==
  /\ Transient \in Results /\ Cancelled \in Results /\ Failed \in Results
  /\ Transient # Cancelled
  /\ \A r \in Results :
       /\ r.status \in Exec!Terminal /\ r.output \in Values \cup {None, Undeclared}
       /\ r.output # None => EndedWell(r)
       /\ r.retryable => r = Transient
  /\ Transient.output = None /\ Cancelled.output = None /\ Failed.output = None
  /\ Transient.status = "failed" /\ Cancelled.status = "cancelled"
  /\ Failed.status = "failed" /\ ~ Failed.retryable /\ ~ Cancelled.retryable
  <1>1. Transient \in Results /\ Cancelled \in Results /\ Failed \in Results
    BY DEF Results
  <1>2. /\ Transient.output = None /\ Cancelled.output = None /\ Failed.output = None
        /\ Transient.status = "failed" /\ Cancelled.status = "cancelled"
        /\ Failed.status = "failed"
    BY DEF Transient, Cancelled, Failed, Reply
  <1>3. Failed.retryable = FALSE /\ Cancelled.retryable = FALSE
    BY DEF Cancelled, Failed, Reply
  <1>4. ASSUME NEW r \in Results
        PROVE  /\ r.status \in Exec!Terminal /\ r.output \in Values \cup {None, Undeclared}
               /\ r.output # None => EndedWell(r)
               /\ r.retryable => r = Transient
    <2>1. ASSUME NEW v \in Values \cup {None, Undeclared}, r \in {Produced(v), Skipped(v)}
          PROVE  /\ r.status \in Exec!Terminal /\ r.output \in Values \cup {None, Undeclared}
                 /\ r.output # None => EndedWell(r)
                 /\ r.retryable => r = Transient
      <3>1. r.status \in {"succeeded", "skipped"} /\ r.output = v /\ r.retryable = FALSE
        BY <2>1 DEF Produced, Skipped, Reply
      <3> QED BY <3>1 DEF Exec!Terminal, EndedWell, Good
    <2>2. CASE r \in {Failed, Transient, Cancelled}
      BY <1>2, <1>3, <2>2 DEF Exec!Terminal
    <2> QED BY <2>1, <2>2 DEF Results, Outputs
  <1> QED BY <1>1, <1>2, <1>3, <1>4

LEMMA ValidatedFacts ==
  ASSUME NEW r \in Results
  PROVE  /\ Validated(r) \in Results /\ Validated(r).output # Undeclared
         /\ EndedWell(Validated(r)) => Validated(r) = r
         /\ Validated(r).retryable => r = Transient /\ Validated(r) = Transient
  <1>1. None # Undeclared
    BY NoneIsNothing
  <1>2. CASE r.output = Undeclared
    BY <1>1, <1>2, ReplyFacts DEF Validated, EndedWell, Good
  <1>3. CASE r.output # Undeclared
    BY <1>3, ReplyFacts DEF Validated
  <1> QED BY <1>2, <1>3

\* A manifest shows the last attempt of a Stage that it refers to.
LEMMA LastIs ==
  ASSUME NEW s \in Stages, NEW R \in SUBSET Attempts, NEW k \in 1..MaxAttempts,
         <<s, k>> \in R, \A n \in 1..MaxAttempts : <<s, n>> \in R => n <= k
  PROVE  LastAttempt(R, s) = <<s, k>> /\ s \in Referenced(R)
  <1> DEFINE N == {n \in 1..MaxAttempts : <<s, n>> \in R}
             top == CHOOSE n \in N : \A m \in N : m <= n
  <1>1. k \in N /\ \A m \in N : m <= k
    OBVIOUS
  <1>2. top \in N /\ \A m \in N : m <= top
    BY <1>1
  <1>3. top = k
    BY <1>1, <1>2, EngineAssumption
  <1>4. LastAttempt(R, s) = <<s, top>>
    BY DEF LastAttempt
  <1>5. s \in Referenced(R)
    BY DEF Referenced
  <1> QED BY <1>3, <1>4, <1>5

LEMMA ReferencedIs ==
  ASSUME NEW s, NEW R \in SUBSET Attempts, s \in Referenced(R)
  PROVE  s \in Stages /\ \E n \in 1..MaxAttempts : <<s, n>> \in R
  BY DEF Referenced, Attempts

\* What the manifest shows of a Stage that has reported, and of one that has not
\* begun.
LEMMA ShownIs ==
  ASSUME TypeOK, NEW s \in Stages, RecordedOK(s), StageOK(s),
         NEW R \in SUBSET Attempts, R \subseteq refs,
         phase[s] \in Reported => Current(s) \in R
  PROVE  /\ phase[s] \in Reported =>
              /\ s \in Referenced(R) /\ LastAttempt(R, s) = Current(s)
              /\ Shown(R, s) = result[s].status
         /\ phase[s] = "pending" => Shown(R, s) = "none" /\ s \notin Referenced(R)
  <1>1. \A n \in 1..MaxAttempts : <<s, n>> \in R => n <= attempt[s]
    BY DEF RecordedOK
  <1>2. attempt[s] \in 0..MaxAttempts
    BY DEF TypeOK
  <1>3. CASE phase[s] \in Reported
    <2>1. attempt[s] \in 1..MaxAttempts
      BY <1>2, <1>3, EngineAssumption DEF StageOK, Reported
    <2>2. LastAttempt(R, s) = Current(s) /\ s \in Referenced(R)
      BY <1>1, <1>3, <2>1, LastIs DEF Current
    <2>3. stageFile[Current(s)] # None /\ stageFile[Current(s)].result = result[s]
      BY <1>3 DEF RecordedOK
    <2>4. phase[s] # "pending"
      BY <1>3 DEF Reported
    <2> QED BY <1>3, <2>2, <2>3, <2>4 DEF Shown
  <1>4. CASE phase[s] = "pending"
    <2>1. attempt[s] = 0
      BY <1>4 DEF StageOK
    <2>2. ASSUME s \in Referenced(R) PROVE FALSE
      <3>1. PICK n \in 1..MaxAttempts : <<s, n>> \in R
        BY <2>2, ReferencedIs
      <3>2. n \in Nat /\ n >= 1 /\ n <= 0
        BY <1>1, <2>1, <3>1, EngineAssumption
      <3> QED BY <3>2
    <2> QED BY <1>4, <2>2 DEF Shown, Reported
  <1> QED BY <1>3, <1>4 DEF Reported

\* The lineage of a manifest holds by what the execution that writes it knows.
LiveOK ==
  /\ TypeOK /\ AvailableOK /\ ManifestsOK
  /\ \A s \in Stages : StageOK(s) /\ HistoryOK(s) /\ RecordedOK(s)
  /\ runFile # None => runFile.refs \subseteq refs

LEMMA LiveLineage == LiveOK => LineageCoherent
  <1> SUFFICES ASSUME LiveOK, runFile # None,
                      NEW s \in Referenced(runFile.refs),
                      Shown(runFile.refs, s) \in Good,
                      NEW p \in Inputs[s]
               PROVE  /\ Shown(runFile.refs, p) \in Good
                      /\ stageFile[LastAttempt(runFile.refs, s)].basis[p]
                           = stageFile[LastAttempt(runFile.refs, p)].result.output
    BY DEF LineageCoherent
  <1> DEFINE R == runFile.refs
             k == attempt[s]
  <1>1. R \in SUBSET Attempts /\ R \subseteq refs
    BY DEF LiveOK, TypeOK, RunManifests
  <1>2. s \in Stages /\ \E n \in 1..MaxAttempts : <<s, n>> \in R
    BY <1>1, ReferencedIs
  <1>3. p \in Stages
    BY <1>2, EngineAssumption
  <1>4. /\ StageOK(s) /\ HistoryOK(s) /\ RecordedOK(s) /\ StageOK(p) /\ RecordedOK(p)
        /\ TypeOK /\ AvailableOK /\ ManifestsOK
    BY <1>2, <1>3 DEF LiveOK
  <1>5. k \in 0..MaxAttempts /\ MaxAttempts \in Nat
    BY <1>2, <1>4, EngineAssumption DEF TypeOK
  <1>6. \A n \in 1..MaxAttempts : <<s, n>> \in R => n <= k
    BY <1>1, <1>4 DEF RecordedOK
  <1>7. <<s, k>> \in R /\ k \in 1..MaxAttempts
    <2> SUFFICES ASSUME <<s, k>> \notin R PROVE FALSE
      BY <1>2, <1>5, <1>6
    <2>1. k - 1 \in 1..MaxAttempts /\ \A n \in 1..MaxAttempts : <<s, n>> \in R => n <= k - 1
      BY <1>2, <1>5, <1>6
    <2>2. <<s, k - 1>> \in R /\ stageFile[<<s, k - 1>>].result = Transient
      BY <1>4, <1>5, <2>1 DEF HistoryOK
    <2>3. LastAttempt(R, s) = <<s, k - 1>>
      BY <1>1, <1>2, <2>1, <2>2, LastIs
    <2> QED BY <2>2, <2>3, ReplyFacts DEF Shown, Good
  <1>8. LastAttempt(R, s) = <<s, k>>
    BY <1>1, <1>2, <1>6, <1>7, LastIs
  <1>9. /\ stageFile[<<s, k>>] # None /\ stageFile[<<s, k>>].inputs = TaskInputs(s)
        /\ EndedWell(stageFile[<<s, k>>].result) => ~ MissingInput(s)
    BY <1>1, <1>4, <1>7 DEF RecordedOK
  <1>10. ~ MissingInput(s)
    BY <1>8, <1>9 DEF Shown, EndedWell, Good
  <1>11. /\ snapshot[s][p] = available[p] /\ available[p] # None
    BY <1>3, <1>4, <1>10 DEF MissingInput, StageOK
  <1>12. /\ phase[p] = "collected" /\ EndedWell(result[p])
         /\ result[p].output = available[p]
    BY <1>3, <1>4, <1>11 DEF AvailableOK
  <1>13. Current(p) \in R /\ stageFile[Current(p)].result = result[p]
    BY <1>4, <1>12 DEF RecordedOK, Reported
  <1>14. LastAttempt(R, p) = Current(p) /\ Shown(R, p) \in Good
    BY <1>1, <1>3, <1>4, <1>12, <1>13, ShownIs DEF Reported, EndedWell
  <1>15. stageFile[<<s, k>>].basis[p] = TaskInputs(s)[p]
    <2>1. <<s, k>> \in Attempts
      BY <1>2, <1>7 DEF Attempts
    <2> QED BY <1>4, <1>9, <2>1 DEF ManifestsOK
  <1>16. TaskInputs(s)[p] = snapshot[s][p]
    BY <1>3 DEF TaskInputs
  <1> QED BY <1>8, <1>11, <1>12, <1>13, <1>14, <1>15, <1>16
-----------------------------------------------------------------------------
(***************************************************************************)
(* While the scheduler works, the manifests hold by what it knows.          *)
(***************************************************************************)
LEMMA RunningJustified ==
  LiveOK /\ (runFile # None => runFile.status = "running") => VerdictJustified
  <1> SUFFICES ASSUME LiveOK, runFile # None, runFile.status = "running"
               PROVE  \A a \in runFile.refs : stageFile[a] # None
    BY DEF VerdictJustified
  <1>1. TAKE a \in runFile.refs
  <1>2. a \in Attempts /\ a \in refs
    BY DEF LiveOK, TypeOK, RunManifests
  <1>3. PICK s \in Stages, n \in 1..MaxAttempts : a = <<s, n>>
    BY <1>2 DEF Attempts
  <1> QED BY <1>2, <1>3 DEF LiveOK, RecordedOK

LiveInv ==
  /\ TypeOK /\ RunOK /\ TerminalOK /\ AvailableOK /\ ManifestsOK
  /\ \A s \in Stages : StageOK(s) /\ JobsOK(s) /\ HistoryOK(s) /\ RecordedOK(s)
  /\ runFile # None => runFile.status = "running" /\ runFile.refs \subseteq refs

LEMMA WorkingInv == LiveInv => IInv
  <1> SUFFICES ASSUME LiveInv PROVE IInv
    OBVIOUS
  <1>1. LiveOK /\ (runFile # None => runFile.status = "running")
    BY DEF LiveInv, LiveOK
  <1> QED BY <1>1, LiveLineage, RunningJustified DEF LiveInv, IInv

Working == {"started", "awaiting", "draining", "backoff"}

\* A Stage at work is at work in an open run.
LEMMA OpenRun ==
  ASSUME IInv, NEW s \in Stages, phase[s] \in Working
  PROVE  /\ pc \in {"waiting", "closing"} /\ runFile # None
         /\ runFile.status = "running" /\ runFile.refs \subseteq refs
  BY DEF IInv, RunOK, TypeOK, Working, Resting

\* A step of one coroutine or of its job: nothing of the other Stages changes,
\* and the run manifest only grows.
Beside(s) ==
  /\ UNCHANGED <<pc, terminal, available, snapshot, runs>>
  /\ internal => internal'
  /\ \A d \in Stages \ {s} :
       /\ phase'[d] = phase[d] /\ attempt'[d] = attempt[d]
       /\ result'[d] = result[d] /\ verdict'[d] = verdict[d]
       /\ \A n \in 1..MaxAttempts :
            /\ job'[<<d, n>>] = job[<<d, n>>]
            /\ completion'[<<d, n>>] = completion[<<d, n>>]
            /\ stageFile'[<<d, n>>] = stageFile[<<d, n>>]
            /\ <<d, n>> \in refs' <=> <<d, n>> \in refs
  /\ runFile' # None /\ runFile'.status = "running"
  /\ runFile.refs \subseteq runFile'.refs /\ runFile'.refs \subseteq refs'

LEMMA OthersStay ==
  ASSUME IInv, NEW s \in Stages, phase[s] \in Working, Beside(s),
         NEW d \in Stages \ {s}
  PROVE  StageOK(d)' /\ JobsOK(d)' /\ HistoryOK(d)' /\ RecordedOK(d)'
  <1>1. StageOK(d) /\ JobsOK(d) /\ HistoryOK(d) /\ RecordedOK(d)
    BY DEF IInv
  <1>2. /\ phase'[d] = phase[d] /\ attempt'[d] = attempt[d]
        /\ result'[d] = result[d] /\ verdict'[d] = verdict[d]
        /\ snapshot' = snapshot /\ available' = available
        /\ MissingInput(d)' = MissingInput(d) /\ TaskInputs(d)' = TaskInputs(d)
        /\ Current(d)' = Current(d)
    BY DEF Beside, MissingInput, TaskInputs, Current
  <1>3. \A n \in 1..MaxAttempts :
          /\ job'[<<d, n>>] = job[<<d, n>>]
          /\ completion'[<<d, n>>] = completion[<<d, n>>]
          /\ stageFile'[<<d, n>>] = stageFile[<<d, n>>]
          /\ <<d, n>> \in refs' <=> <<d, n>> \in refs
    BY DEF Beside
  <1>4. runFile' # None /\ runFile # None /\ runFile.refs \subseteq runFile'.refs
    BY OpenRun DEF Beside
  <1>5. StageOK(d)'
    <2>1. ASSUME phase[d] # "pending", NEW e \in Deps[d]
          PROVE  phase'[e] = "collected" /\ EndedWell(result'[e])
      <3>1. e \in Stages /\ phase[e] = "collected" /\ EndedWell(result[e])
        BY <1>1, <2>1, EngineAssumption DEF StageOK
      <3>2. e # s
        BY <3>1 DEF Working
      <3> QED BY <3>1, <3>2 DEF Beside
    <2> QED BY <1>1, <1>2, <2>1 DEF StageOK, EndedWell
  <1>6. JobsOK(d)'
    BY <1>1, <1>2, <1>3 DEF JobsOK
  <1>7. HistoryOK(d)'
    BY <1>1, <1>2, <1>3, <1>4 DEF HistoryOK
  <1>8. RecordedOK(d)'
    <2>1. ASSUME phase[d] \in Reported
          PROVE  /\ Current(d) \in runFile.refs
                 /\ stageFile'[Current(d)] = stageFile[Current(d)]
      <3>1. attempt[d] \in 1..MaxAttempts
        BY <1>1, <2>1, EngineAssumption DEF StageOK, Reported, IInv, TypeOK
      <3> QED BY <1>1, <1>3, <2>1, <3>1 DEF RecordedOK, Current
    <2> QED BY <1>1, <1>2, <1>3, <1>4, <2>1 DEF RecordedOK
  <1> QED BY <1>5, <1>6, <1>7, <1>8

LEMMA CoroutineKeeps ==
  ASSUME IInv, NEW s \in Stages, phase[s] \in Working, Beside(s),
         phase'[s] \in Active, TypeOK', ManifestsOK',
         StageOK(s)', JobsOK(s)', HistoryOK(s)', RecordedOK(s)'
  PROVE  IInv'
  <1>1. \A d \in Stages :
          StageOK(d)' /\ JobsOK(d)' /\ HistoryOK(d)' /\ RecordedOK(d)'
    BY OthersStay
  <1>2. AvailableOK'
    <2> SUFFICES ASSUME NEW p \in Stages, available'[p] # None
                 PROVE  /\ phase'[p] = "collected" /\ EndedWell(result'[p])
                        /\ result'[p].output = available'[p]
      BY DEF AvailableOK, EndedWell
    <2>1. /\ phase[p] = "collected" /\ EndedWell(result[p])
          /\ result[p].output = available'[p]
      BY DEF Beside, IInv, AvailableOK
    <2>2. p # s
      BY <2>1 DEF Working
    <2> QED BY <2>1, <2>2 DEF Beside
  <1>3. pc' = pc /\ pc \in {"waiting", "closing"} /\ terminal' = terminal
    BY OpenRun DEF Beside
  <1>4. RunOK'
    BY <1>3 DEF RunOK, Beside
  <1>5. TerminalOK'
    <2>1. /\ phase[s] # "collected" /\ phase'[s] # "collected"
      BY DEF Working, Active
    <2>2. \A d \in Stages : /\ phase'[d] = "collected" <=> phase[d] = "collected"
                            /\ phase[d] = "collected" => result'[d] = result[d]
      BY <2>1 DEF Beside
    <2>3. /\ terminal' = None => \A d \in Stages :
                                   phase'[d] = "collected" => EndedWell(result'[d])
          /\ terminal' # None => internal'
      BY <1>3, <2>2 DEF IInv, TerminalOK, Beside
    <2>4. terminal' = "failed" =>
            \E d \in Stages : phase'[d] = "collected" /\ result'[d].status = "failed"
      BY <1>3, <2>2 DEF IInv, TerminalOK
    <2>5. terminal' = "cancelled" =>
            /\ \A d \in Stages : phase'[d] = "collected" => result'[d].status # "failed"
            /\ \E d \in Stages : phase'[d] = "collected" /\ result'[d].status = "cancelled"
      BY <1>3, <2>2 DEF IInv, TerminalOK
    <2> QED BY <2>3, <2>4, <2>5 DEF TerminalOK, EndedWell
  <1>6. LiveInv'
    BY <1>1, <1>2, <1>4, <1>5 DEF LiveInv, Beside
  <1> QED BY <1>6, WorkingInv, PTL
-----------------------------------------------------------------------------
(***************************************************************************)
(* The end of an attempt.                                                   *)
(***************************************************************************)
\* Attempt n of s may end with r, which was computed from basis.
MayEnd(s, n, r, basis) ==
  /\ n \in 1..MaxAttempts /\ attempt[s] <= n /\ <<s, n>> \notin refs
  /\ \A m \in 1..MaxAttempts :
       /\ m < n => m < attempt[s] \/ (m = attempt[s] /\ phase[s] = "backoff")
       /\ job[<<s, m>>] \notin {"queued", "running"}
  /\ r \in Results /\ r.output # Undeclared /\ (r.retryable => r = Transient)
  /\ EndedWell(r) \/ ShouldRetry(r, n) => ~ MissingInput(s)
  /\ basis \in Artifacts /\ \A p \in Inputs[s] : basis[p] = TaskInputs(s)[p]

\* What recording it leaves behind, whether or not the writes succeed.
LEMMA Recorded ==
  ASSUME IInv, NEW s \in Stages, NEW n, NEW r, NEW basis, MayEnd(s, n, r, basis),
         phase[s] \in Working, EndAttempt(s, n, r, basis)
  PROVE  /\ \/ /\ stageFile' = [stageFile EXCEPT ![<<s, n>>] = Manifest(s, r, basis)]
            \/ stageFile' = stageFile /\ refs' = refs
         /\ refs' \in {refs, refs \cup {<<s, n>>}}
         /\ \/ runFile' = runFile /\ phase' = [phase EXCEPT ![s] = "raised"]
            \/ /\ runFile' = [status |-> "running", refs |-> refs']
               /\ refs' = refs \cup {<<s, n>>}
               /\ stageFile' = [stageFile EXCEPT ![<<s, n>>] = Manifest(s, r, basis)]
               /\ phase' = [phase EXCEPT ![s] = IF ShouldRetry(r, n) THEN "backoff"
                                                                   ELSE "returned"]
         /\ runFile' # None /\ runFile'.status = "running"
         /\ runFile.refs \subseteq runFile'.refs /\ runFile'.refs \subseteq refs'
         /\ refs \subseteq refs' /\ refs' \in SUBSET Attempts
         /\ runFile' \in RunManifests
         /\ <<s, n>> \in Attempts
  <1>1. /\ runFile # None /\ runFile.status = "running" /\ runFile.refs \subseteq refs
        /\ runFile \in RunManifests /\ refs \in SUBSET Attempts
    BY OpenRun DEF IInv, TypeOK
  <1>2. <<s, n>> \in Attempts
    BY DEF MayEnd, Attempts
  <1>3. \/ /\ stageFile' = [stageFile EXCEPT ![<<s, n>>] = Manifest(s, r, basis)]
           /\ refs' = refs \cup {<<s, n>>}
           /\ runFile' = [status |-> "running", refs |-> refs']
           /\ phase' = [phase EXCEPT ![s] = IF ShouldRetry(r, n) THEN "backoff"
                                                               ELSE "returned"]
        \/ /\ phase' = [phase EXCEPT ![s] = "raised"]
           /\ runFile' = runFile
           /\ \/ /\ stageFile' = [stageFile EXCEPT ![<<s, n>>] = Manifest(s, r, basis)]
                 /\ refs' \in {refs, refs \cup {<<s, n>>}}
              \/ stageFile' = stageFile /\ refs' = refs
    BY DEF EndAttempt, RecordStage, SaveRun
  <1>4. ASSUME refs' = refs \cup {<<s, n>>}, runFile' = [status |-> "running", refs |-> refs']
        PROVE  /\ runFile' \in RunManifests /\ runFile' # None
               /\ runFile'.status = "running" /\ runFile'.refs = refs'
    <2>1. runFile' \in RunManifests
      BY <1>1, <1>2, <1>4 DEF RunManifests, RunStatuses
    <2> QED BY <1>4, <2>1, NoneIsNothing
  <1>5. CASE /\ stageFile' = [stageFile EXCEPT ![<<s, n>>] = Manifest(s, r, basis)]
             /\ refs' = refs \cup {<<s, n>>}
             /\ runFile' = [status |-> "running", refs |-> refs']
             /\ phase' = [phase EXCEPT ![s] = IF ShouldRetry(r, n) THEN "backoff"
                                                                 ELSE "returned"]
    BY <1>1, <1>2, <1>4, <1>5
  <1>6. CASE /\ phase' = [phase EXCEPT ![s] = "raised"]
             /\ runFile' = runFile
             /\ \/ /\ stageFile' = [stageFile EXCEPT ![<<s, n>>] = Manifest(s, r, basis)]
                   /\ refs' \in {refs, refs \cup {<<s, n>>}}
                \/ stageFile' = stageFile /\ refs' = refs
    BY <1>1, <1>2, <1>6
  <1> QED BY <1>3, <1>5, <1>6

\* The end of an attempt leaves the executor and the scheduler alone.
Apart == /\ UNCHANGED <<schedVars, snapshot, cancelVars, execVars, runs>>

LEMMA EndAttemptKeeps ==
  ASSUME IInv, NEW s \in Stages, NEW n, NEW r, NEW basis, MayEnd(s, n, r, basis),
         phase[s] \in Working, EndAttempt(s, n, r, basis), Apart,
         verdict' \in {verdict, [verdict EXCEPT ![s] = None]}
  PROVE  IInv'
  <1> DEFINE a == <<s, n>>
             written == [stageFile EXCEPT ![a] = Manifest(s, r, basis)]
             next == IF ShouldRetry(r, n) THEN "backoff" ELSE "returned"
  <1>1. /\ stageFile' = written \/ (stageFile' = stageFile /\ refs' = refs)
        /\ refs' \in {refs, refs \cup {a}}
        /\ \/ runFile' = runFile /\ phase' = [phase EXCEPT ![s] = "raised"]
           \/ /\ runFile' = [status |-> "running", refs |-> refs']
              /\ refs' = refs \cup {a} /\ stageFile' = written
              /\ phase' = [phase EXCEPT ![s] = next]
        /\ runFile' # None /\ runFile'.status = "running"
        /\ runFile.refs \subseteq runFile'.refs /\ runFile'.refs \subseteq refs'
        /\ refs \subseteq refs' /\ refs' \in SUBSET Attempts
        /\ runFile' \in RunManifests
        /\ a \in Attempts
    BY Recorded
  <1>2. /\ attempt' = [attempt EXCEPT ![s] = n] /\ result' = [result EXCEPT ![s] = r]
    BY DEF EndAttempt
  <1>3. TypeOK /\ StageOK(s) /\ JobsOK(s) /\ HistoryOK(s) /\ RecordedOK(s) /\ ManifestsOK
    BY DEF IInv
  <1>4. /\ n \in 1..MaxAttempts /\ n \in 0..MaxAttempts /\ MaxAttempts \in Nat
        /\ attempt[s] \in 0..MaxAttempts /\ attempt[s] <= n /\ a \notin refs
        /\ r \in Results /\ basis \in Artifacts /\ n # 0
    BY <1>3, EngineAssumption DEF MayEnd, TypeOK
  <1>5. /\ TaskInputs(s) \in Artifacts /\ Manifest(s, r, basis) \in Manifests
        /\ Manifest(s, r, basis) # None
        /\ Manifest(s, r, basis).result = r /\ Manifest(s, r, basis).inputs = TaskInputs(s)
        /\ Manifest(s, r, basis).basis = basis
    <2>1. TaskInputs(s) \in Artifacts
      BY <1>3 DEF TaskInputs, TypeOK, Artifacts
    <2>2. Manifest(s, r, basis) \in Manifests
      BY <1>4, <2>1 DEF Manifest, Manifests
    <2>3. Manifest(s, r, basis) # None
      BY <2>2, NoneIsNothing
    <2> QED BY <2>1, <2>2, <2>3 DEF Manifest
  <1>6. /\ TaskInputs(s)' = TaskInputs(s) /\ MissingInput(s)' = MissingInput(s)
        /\ \A d \in Stages : TaskInputs(d)' = TaskInputs(d)
    BY DEF TaskInputs, MissingInput, Apart
  <1>7. phase \in [Stages -> Phases] /\ attempt'[s] = n /\ result'[s] = r
    BY <1>2, <1>3 DEF TypeOK
  <1>8. /\ phase'[s] \in {next, "raised"}
        /\ phase'[s] # "raised" => /\ refs' = refs \cup {a} /\ stageFile' = written
                                   /\ runFile'.refs = refs'
        /\ phase'[s] \in Active /\ phase' \in [Stages -> Phases]
        /\ \A d \in Stages \ {s} : phase'[d] = phase[d]
    <2>1. next \in {"backoff", "returned"}
      OBVIOUS
    <2> HIDE DEF next
    <2> QED BY <1>1, <1>7, <2>1 DEF Phases, Active
  <1>9. /\ \A b \in Attempts : b # a => stageFile'[b] = stageFile[b]
        /\ a \in refs' => stageFile'[a] = Manifest(s, r, basis)
        /\ stageFile'[a] \in {stageFile[a], Manifest(s, r, basis)}
        /\ stageFile' \in [Attempts -> Manifests \cup {None}]
    BY <1>1, <1>3, <1>4, <1>5 DEF TypeOK
  <1> HIDE DEF written, next
  <1>10. TypeOK'
    <2>1. attempt' \in [Stages -> 0..MaxAttempts]
      BY <1>2, <1>3, <1>4 DEF TypeOK
    <2>2. result' \in [Stages -> Results \cup {None}]
      BY <1>2, <1>3, <1>4 DEF TypeOK
    <2>3. verdict' \in [Stages -> {Transient, Cancelled, None}]
      BY <1>3 DEF TypeOK
    <2>4. /\ phase' \in [Stages -> Phases] /\ refs' \in SUBSET Attempts
          /\ runFile' \in RunManifests \cup {None}
          /\ stageFile' \in [Attempts -> Manifests \cup {None}]
      BY <1>1, <1>8, <1>9
    <2> QED BY <1>3, <2>1, <2>2, <2>3, <2>4
            DEF TypeOK, Apart, schedVars, cancelVars, execVars
  <1>11. ManifestsOK'
    <2> SUFFICES ASSUME NEW b \in Attempts, stageFile'[b] # None,
                        NEW p \in Inputs[b[1]]
                 PROVE  stageFile'[b].basis[p] = stageFile'[b].inputs[p]
      BY DEF ManifestsOK
    <2>1. CASE stageFile'[b] = stageFile[b]
      BY <1>3, <2>1 DEF ManifestsOK
    <2>2. CASE b = a /\ stageFile'[b] = Manifest(s, r, basis)
      BY <1>5, <2>2 DEF MayEnd
    <2> QED BY <1>9, <2>1, <2>2
  <1>12. StageOK(s)'
    <2>1. phase'[s] \in {"backoff", "returned", "raised"}
      BY <1>8 DEF next
    <2>2. phase'[s] = "backoff" => n < MaxAttempts /\ ~ MissingInput(s)
      BY <1>8 DEF next, ShouldRetry, MayEnd
    <2>3. r # None /\ r.output # Undeclared
      BY <1>4, NoneIsNothing DEF MayEnd
    <2>4. ASSUME NEW d \in Deps[s]
          PROVE  phase'[d] = "collected" /\ EndedWell(result'[d])
      <3>1. d \in Stages /\ phase[d] = "collected" /\ EndedWell(result[d])
        BY <1>3, EngineAssumption DEF StageOK, Working
      <3>2. d # s
        BY <3>1 DEF Working
      <3> QED BY <1>2, <1>8, <3>1, <3>2
    <2>5. \A p \in Stages : snapshot'[s][p] # None => snapshot'[s][p] = available'[p]
      BY <1>3 DEF StageOK, Apart, schedVars
    <2> QED BY <1>4, <1>6, <1>7, <2>1, <2>2, <2>3, <2>4, <2>5
            DEF StageOK, EndedWell, Computing
  <1>13. JobsOK(s)'
    <2> SUFFICES ASSUME NEW m \in 1..MaxAttempts
                 PROVE  /\ job'[<<s, m>>] # "absent" => m <= n
                        /\ job'[<<s, m>>] \notin {"queued", "running"}
                        /\ completion'[<<s, m>>] # None => job'[<<s, m>>] \in Exec!Terminal
      BY <1>7 DEF JobsOK
    <2>1. job' = job /\ completion' = completion
      BY DEF Apart, execVars
    <2>2. job[<<s, m>>] # "absent" => m <= attempt[s]
      BY <1>3 DEF JobsOK
    <2>3. m \in Nat
      BY <1>4
    <2>4. job[<<s, m>>] # "absent" => m <= n
      BY <1>4, <2>2, <2>3
    <2> QED BY <1>3, <2>1, <2>4 DEF JobsOK, MayEnd
  <1>14. HistoryOK(s)'
    <2> SUFFICES ASSUME NEW m \in 1..MaxAttempts,
                        m < n \/ (m = n /\ phase'[s] = "backoff")
                 PROVE  /\ runFile' # None /\ <<s, m>> \in runFile'.refs
                        /\ stageFile'[<<s, m>>] # None
                        /\ stageFile'[<<s, m>>].result = Transient
      BY <1>7 DEF HistoryOK
    <2>1. CASE m < n
      <3>1. /\ <<s, m>> \in runFile.refs /\ stageFile[<<s, m>>] # None
            /\ stageFile[<<s, m>>].result = Transient
        BY <1>3, <2>1 DEF MayEnd, HistoryOK
      <3>2. <<s, m>> # a /\ <<s, m>> \in Attempts
        BY <1>4, <2>1 DEF Attempts
      <3> QED BY <1>1, <1>9, <3>1, <3>2
    <2>2. CASE m = n /\ phase'[s] = "backoff"
      <3>1. a \in refs' /\ runFile'.refs = refs'
        BY <1>8, <2>2
      <3>2. r = Transient
        BY <1>8, <2>2 DEF next, ShouldRetry, MayEnd
      <3> QED BY <1>1, <1>5, <1>9, <2>2, <3>1, <3>2
    <2> QED BY <2>1, <2>2
  <1>15. RecordedOK(s)'
    <2>1. ASSUME phase'[s] \in Reported
          PROVE  /\ runFile' # None /\ a \in runFile'.refs
                 /\ stageFile'[a] # None /\ stageFile'[a].result = r
      <3>1. phase'[s] # "raised"
        BY <2>1 DEF Reported
      <3> QED BY <1>1, <1>5, <1>8, <1>9, <3>1
    <2>2. ASSUME NEW m \in 1..MaxAttempts, <<s, m>> \in refs'
          PROVE  /\ m <= n
                 /\ stageFile'[<<s, m>>] # None
                 /\ stageFile'[<<s, m>>].inputs = TaskInputs(s)
                 /\ EndedWell(stageFile'[<<s, m>>].result) => ~ MissingInput(s)
      <3>1. CASE m = n
        BY <1>4, <1>5, <1>9, <2>2, <3>1 DEF MayEnd
      <3>2. CASE m # n
        <4>1. <<s, m>> \in refs /\ <<s, m>> # a /\ <<s, m>> \in Attempts
          BY <1>1, <2>2, <3>2 DEF Attempts
        <4>2. m <= attempt[s] /\ m \in Nat
          BY <1>3, <1>4, <4>1 DEF RecordedOK
        <4>3. m <= n
          BY <1>4, <4>2
        <4>4. /\ stageFile[<<s, m>>] # None /\ stageFile[<<s, m>>].inputs = TaskInputs(s)
              /\ EndedWell(stageFile[<<s, m>>].result) => ~ MissingInput(s)
          BY <1>3, <4>1 DEF RecordedOK
        <4> QED BY <1>9, <4>1, <4>3, <4>4
      <3> QED BY <3>1, <3>2
    <2>3. phase'[s] \notin Computing
      BY <1>8 DEF next, Computing
    <2>4. Current(s)' = a
      BY <1>7 DEF Current
    <2> QED BY <1>6, <1>7, <2>1, <2>2, <2>3, <2>4 DEF RecordedOK, EndedWell
  <1>16. Beside(s)
    <2>1. UNCHANGED <<pc, terminal, available, snapshot, runs, internal, job, completion>>
      BY DEF Apart, schedVars, cancelVars, execVars
    <2>2. ASSUME NEW d \in Stages \ {s}
          PROVE  /\ phase'[d] = phase[d] /\ attempt'[d] = attempt[d]
                 /\ result'[d] = result[d] /\ verdict'[d] = verdict[d]
      BY <1>2, <1>3, <1>8 DEF TypeOK
    <2>3. ASSUME NEW d \in Stages \ {s}, NEW m \in 1..MaxAttempts
          PROVE  /\ stageFile'[<<d, m>>] = stageFile[<<d, m>>]
                 /\ <<d, m>> \in refs' <=> <<d, m>> \in refs
      <3>1. <<d, m>> # a /\ <<d, m>> \in Attempts
        BY DEF Attempts
      <3> QED BY <1>1, <1>9, <3>1
    <2> QED BY <1>1, <2>1, <2>2, <2>3 DEF Beside
  <1> QED BY <1>8, <1>10, <1>11, <1>12, <1>13, <1>14, <1>15, <1>16, CoroutineKeeps
-----------------------------------------------------------------------------
(***************************************************************************)
(* The coroutine of a Stage: its first step, a retry, an observed result, a *)
(* drained attempt.                                                         *)
(***************************************************************************)
LEMMA FreshMayEnd ==
  ASSUME IInv, NEW s \in Stages, phase[s] \in {"started", "backoff"}, NEW n,
         n = attempt[s] + 1, NEW r \in Results, NEW basis \in Artifacts,
         r.output # Undeclared, r.retryable => r = Transient,
         EndedWell(r) \/ ShouldRetry(r, n) => ~ MissingInput(s),
         \A p \in Inputs[s] : basis[p] = TaskInputs(s)[p]
  PROVE  MayEnd(s, n, r, basis)
  <1>1. TypeOK /\ StageOK(s) /\ JobsOK(s) /\ RecordedOK(s)
    BY DEF IInv
  <1>2. attempt[s] \in 0..MaxAttempts /\ MaxAttempts \in Nat \ {0}
    BY <1>1, EngineAssumption DEF TypeOK
  <1>3. attempt[s] < MaxAttempts
    BY <1>1, <1>2 DEF StageOK
  <1>4. n \in 1..MaxAttempts /\ attempt[s] <= n
    BY <1>2, <1>3
  <1>5. <<s, n>> \notin refs
    BY <1>1, <1>2, <1>4 DEF RecordedOK
  <1>6. ASSUME NEW m \in 1..MaxAttempts
        PROVE  /\ m < n => m < attempt[s] \/ (m = attempt[s] /\ phase[s] = "backoff")
               /\ job[<<s, m>>] \notin {"queued", "running"}
    <2>1. phase[s] \notin Computing
      BY DEF Computing
    <2>2. phase[s] # "backoff" => attempt[s] = 0
      BY <1>1 DEF StageOK
    <2>3. m \in Nat /\ m >= 1
      BY <1>2
    <2>4. m < n => m < attempt[s] \/ (m = attempt[s] /\ phase[s] = "backoff")
      BY <1>2, <2>2, <2>3
    <2> QED BY <1>1, <2>1, <2>4 DEF JobsOK
  <1> QED BY <1>4, <1>5, <1>6 DEF MayEnd

LEMMA CurrentMayEnd ==
  ASSUME IInv, NEW s \in Stages, phase[s] \in Computing, completion[Current(s)] # None,
         NEW r \in Results, r.output # Undeclared, r.retryable => r = Transient
  PROVE  MayEnd(s, attempt[s], r, TaskInputs(s))
  <1>1. TypeOK /\ StageOK(s) /\ JobsOK(s) /\ RecordedOK(s)
    BY DEF IInv
  <1>2. attempt[s] \in 1..MaxAttempts /\ attempt[s] <= attempt[s]
    BY <1>1, EngineAssumption DEF TypeOK, StageOK, Computing
  <1>3. <<s, attempt[s]>> \notin refs
    BY <1>1, <1>2, EngineAssumption DEF RecordedOK
  <1>4. ASSUME NEW m \in 1..MaxAttempts
        PROVE  job[<<s, m>>] \notin {"queued", "running"}
    <2>1. CASE m = attempt[s]
      BY <1>1, <2>1 DEF JobsOK, Current, Exec!Terminal
    <2>2. CASE m # attempt[s]
      BY <1>1, <2>2 DEF JobsOK
    <2> QED BY <2>1, <2>2
  <1>5. ~ MissingInput(s)
    BY <1>1 DEF StageOK
  <1>6. TaskInputs(s) \in Artifacts
    BY <1>1 DEF TaskInputs, TypeOK, Artifacts
  <1> QED BY <1>2, <1>3, <1>4, <1>5, <1>6 DEF MayEnd

LEMMA ObserveKeeps ==
  ASSUME IInv, NEW s \in Stages, Observe(s)
  PROVE  IInv'
  <1> DEFINE r == Validated(completion[Current(s)])
  <1>1. phase[s] \in Working /\ phase[s] \in Computing
    BY DEF Observe, Working, Computing
  <1>2. completion[Current(s)] \in Results
    <2>1. TypeOK /\ StageOK(s)
      BY DEF IInv
    <2>2. Current(s) \in Attempts
      BY <1>1, <2>1, EngineAssumption DEF Current, Attempts, TypeOK, StageOK, Computing
    <2> QED BY <2>1, <2>2 DEF Observe, TypeOK
  <1>3. r \in Results /\ r.output # Undeclared /\ (r.retryable => r = Transient)
    BY <1>2, ValidatedFacts
  <1> HIDE DEF r
  <1>4. MayEnd(s, attempt[s], r, TaskInputs(s))
    BY <1>1, <1>3, CurrentMayEnd DEF Observe
  <1>5. EndAttempt(s, attempt[s], r, TaskInputs(s)) /\ Apart /\ verdict' = verdict
    BY DEF Observe, Apart, r
  <1> QED BY <1>1, <1>4, <1>5, EndAttemptKeeps

LEMMA DrainKeeps ==
  ASSUME IInv, NEW s \in Stages, Drain(s)
  PROVE  IInv'
  <1>1. phase[s] \in Working /\ phase[s] \in Computing
    BY DEF Drain, Working, Computing
  <1>2. verdict[s] \in {Transient, Cancelled}
    BY DEF IInv, TypeOK, StageOK, Drain
  <1>3. /\ verdict[s] \in Results /\ verdict[s].output # Undeclared
        /\ verdict[s].retryable => verdict[s] = Transient
    BY <1>2, ReplyFacts, NoneIsNothing
  <1>4. MayEnd(s, attempt[s], verdict[s], TaskInputs(s))
    BY <1>1, <1>3, CurrentMayEnd DEF Drain
  <1>5. /\ EndAttempt(s, attempt[s], verdict[s], TaskInputs(s)) /\ Apart
        /\ verdict' = [verdict EXCEPT ![s] = None]
    BY DEF Drain, Apart
  <1> QED BY <1>1, <1>4, <1>5, EndAttemptKeeps

\* A task is submitted.
LEMMA SubmitKeeps ==
  ASSUME IInv, NEW s \in Stages, phase[s] \in {"started", "backoff"}, NEW n,
         n = attempt[s] + 1, ~ MissingInput(s), Exec!Accept(<<s, n>>),
         attempt' = [attempt EXCEPT ![s] = n],
         phase' = [phase EXCEPT ![s] = "awaiting"],
         UNCHANGED <<result, storeVars, schedVars, snapshot, verdict, cancelVars, runs>>
  PROVE  IInv'
  <1> DEFINE a == <<s, n>>
  <1>1. TypeOK /\ StageOK(s) /\ JobsOK(s) /\ HistoryOK(s) /\ RecordedOK(s) /\ ManifestsOK
    BY DEF IInv
  <1>2. phase[s] \in Working
    BY DEF Working
  <1>3. MayEnd(s, n, Transient, TaskInputs(s))
    <2>1. TaskInputs(s) \in Artifacts
      BY <1>1 DEF TaskInputs, TypeOK, Artifacts
    <2> QED BY <2>1, FreshMayEnd, ReplyFacts, NoneIsNothing
  <1>4. /\ attempt[s] \in 0..MaxAttempts /\ MaxAttempts \in Nat
        /\ n \in 1..MaxAttempts /\ n \in 0..MaxAttempts /\ n # 0 /\ attempt[s] < n
    <2>1. attempt[s] \in 0..MaxAttempts /\ MaxAttempts \in Nat /\ n \in 1..MaxAttempts
      BY <1>1, <1>3, EngineAssumption DEF TypeOK, MayEnd
    <2> QED BY <2>1
  <1>5. a \in Attempts
    BY <1>4 DEF Attempts
  <1>6. /\ job[a] = "absent" /\ job' = [job EXCEPT ![a] = "queued"]
        /\ completion' = completion
    BY DEF Exec!Accept
  <1>7. phase'[s] = "awaiting" /\ attempt'[s] = n
    BY <1>1 DEF TypeOK
  <1>8. /\ TaskInputs(s)' = TaskInputs(s) /\ MissingInput(s)' = MissingInput(s)
    BY DEF TaskInputs, MissingInput
  <1>9. TypeOK'
    <2>1. attempt' \in [Stages -> 0..MaxAttempts]
      BY <1>1, <1>4 DEF TypeOK
    <2>2. phase' \in [Stages -> Phases]
      BY <1>1 DEF TypeOK, Phases, Active
    <2>3. job' \in [Attempts -> JobStates]
      BY <1>1, <1>6 DEF TypeOK, JobStates
    <2> QED BY <1>1, <1>6, <2>1, <2>2, <2>3 DEF TypeOK, storeVars, schedVars, cancelVars
  <1>10. ManifestsOK'
    BY <1>1 DEF ManifestsOK, storeVars
  <1>11. StageOK(s)'
    <2>1. ASSUME NEW d \in Deps[s]
          PROVE  phase'[d] = "collected" /\ EndedWell(result'[d])
      <3>1. d \in Stages /\ phase[d] = "collected" /\ EndedWell(result[d])
        BY <1>1, EngineAssumption DEF StageOK
      <3>2. d # s
        BY <3>1
      <3> QED BY <1>1, <3>1, <3>2 DEF TypeOK
    <2>2. /\ result'[s] # None => result'[s].output # Undeclared
          /\ \A p \in Stages : snapshot'[s][p] # None => snapshot'[s][p] = available'[p]
      BY <1>1 DEF StageOK, schedVars
    <2> QED BY <1>4, <1>7, <1>8, <2>1, <2>2 DEF StageOK, EndedWell, Computing, Reported
  <1>12. JobsOK(s)'
    <2> SUFFICES ASSUME NEW m \in 1..MaxAttempts
                 PROVE  /\ job'[<<s, m>>] # "absent" => m <= n
                        /\ job'[<<s, m>>] \in {"queued", "running"} => m = n
                        /\ completion'[<<s, m>>] # None => job'[<<s, m>>] \in Exec!Terminal
      BY <1>7 DEF JobsOK, Computing
    <2>1. <<s, m>> \in Attempts
      BY DEF Attempts
    <2>2. CASE m = n
      <3>1. completion[a] = None
        BY <1>1, <1>4, <1>6 DEF JobsOK, Exec!Terminal
      <3>2. n <= n
        BY <1>4
      <3> QED BY <1>1, <1>6, <2>1, <2>2, <3>1, <3>2
    <2>3. CASE m # n
      <3>1. job'[<<s, m>>] = job[<<s, m>>]
        BY <1>1, <1>5, <1>6, <2>1, <2>3 DEF TypeOK
      <3>2. job[<<s, m>>] \notin {"queued", "running"}
        BY <1>3 DEF MayEnd
      <3>3. job[<<s, m>>] # "absent" => m <= n
        <4>1. job[<<s, m>>] # "absent" => m <= attempt[s]
          BY <1>1 DEF JobsOK
        <4> QED BY <1>4, <4>1
      <3> QED BY <1>1, <1>6, <3>1, <3>2, <3>3 DEF JobsOK
    <2> QED BY <2>2, <2>3
  <1>13. HistoryOK(s)'
    <2> SUFFICES ASSUME NEW m \in 1..MaxAttempts, m < n
                 PROVE  /\ runFile' # None /\ <<s, m>> \in runFile'.refs
                        /\ stageFile'[<<s, m>>] # None
                        /\ stageFile'[<<s, m>>].result = Transient
      BY <1>7 DEF HistoryOK
    <2>1. m < attempt[s] \/ (m = attempt[s] /\ phase[s] = "backoff")
      BY <1>3 DEF MayEnd
    <2> QED BY <1>1, <2>1 DEF HistoryOK, storeVars
  <1>14. RecordedOK(s)'
    <2> SUFFICES ASSUME NEW m \in 1..MaxAttempts, <<s, m>> \in refs'
                 PROVE  /\ m <= n /\ m < n
                        /\ stageFile'[<<s, m>>] # None
                        /\ stageFile'[<<s, m>>].inputs = TaskInputs(s)
      BY <1>7, <1>8 DEF RecordedOK, Reported
    <2>1. /\ m <= attempt[s] /\ stageFile[<<s, m>>] # None
          /\ stageFile[<<s, m>>].inputs = TaskInputs(s)
      BY <1>1 DEF RecordedOK, storeVars
    <2> QED BY <1>4, <2>1 DEF storeVars
  <1>15. Beside(s)
    <2>1. ASSUME NEW d \in Stages \ {s}, NEW m \in 1..MaxAttempts
          PROVE  job'[<<d, m>>] = job[<<d, m>>]
      <3>1. <<d, m>> \in Attempts /\ <<d, m>> # a
        BY DEF Attempts
      <3> QED BY <1>1, <1>6, <3>1 DEF TypeOK
    <2>2. ASSUME NEW d \in Stages \ {s}
          PROVE  phase'[d] = phase[d] /\ attempt'[d] = attempt[d]
      BY <1>1 DEF TypeOK
    <2> QED BY <1>2, <1>6, <2>1, <2>2, OpenRun DEF Beside, schedVars, cancelVars, storeVars
  <1> QED BY <1>2, <1>7, <1>9, <1>10, <1>11, <1>12, <1>13, <1>14, <1>15, CoroutineKeeps
          DEF Active

LEMMA BeginAttemptKeeps ==
  ASSUME IInv, NEW s \in Stages, phase[s] \in {"started", "backoff"}, NEW n,
         n = attempt[s] + 1, ~ MissingInput(s), BeginAttempt(s, n),
         UNCHANGED <<schedVars, snapshot, verdict, cancelVars, runs>>
  PROVE  IInv'
  <1>1. TaskInputs(s) \in Artifacts
    BY DEF TaskInputs, IInv, TypeOK, Artifacts
  <1>2. phase[s] \in Working
    BY DEF Working
  <1>3. ASSUME NEW r \in {Cancelled, Transient}
        PROVE  MayEnd(s, n, r, TaskInputs(s))
    <2>1. r \in Results /\ r.output # Undeclared /\ (r.retryable => r = Transient)
      BY ReplyFacts, NoneIsNothing
    <2> QED BY <1>1, <2>1, FreshMayEnd
  <1>4. ASSUME NEW r \in {Cancelled, Transient}, EndAttempt(s, n, r, TaskInputs(s)),
               UNCHANGED execVars
        PROVE  IInv'
    BY <1>2, <1>3, <1>4, EndAttemptKeeps DEF Apart
  <1>5. CASE internal /\ EndAttempt(s, n, Cancelled, TaskInputs(s)) /\ UNCHANGED execVars
    BY <1>4, <1>5
  <1>6. CASE s \in Flaky /\ EndAttempt(s, n, Transient, TaskInputs(s)) /\ UNCHANGED execVars
    BY <1>4, <1>6
  <1>7. CASE /\ Exec!Accept(<<s, n>>) /\ attempt' = [attempt EXCEPT ![s] = n]
             /\ phase' = [phase EXCEPT ![s] = "awaiting"] /\ UNCHANGED <<result, storeVars>>
    BY <1>7, SubmitKeeps
  <1> QED BY <1>5, <1>6, <1>7 DEF BeginAttempt

LEMMA NextAttemptKeeps ==
  ASSUME IInv, NEW s \in Stages, NextAttempt(s)
  PROVE  IInv'
  <1>1. ~ MissingInput(s)
    BY DEF NextAttempt, IInv, StageOK
  <1> QED BY <1>1, BeginAttemptKeeps DEF NextAttempt

LEMMA StageBeginsKeeps ==
  ASSUME IInv, NEW s \in Stages, StageBegins(s)
  PROVE  IInv'
  <1>1. /\ phase[s] = "started" /\ phase[s] \in Working
        /\ UNCHANGED <<schedVars, snapshot, verdict, cancelVars, runs>>
    BY DEF StageBegins, Working
  <1>2. attempt[s] = 0 /\ 1 = attempt[s] + 1
    BY <1>1 DEF IInv, StageOK
  <1>3. TaskInputs(s) \in Artifacts
    BY DEF TaskInputs, IInv, TypeOK, Artifacts
  <1>4. CASE MissingInput(s)
    <2>1. /\ Failed \in Results /\ Failed.output # Undeclared
          /\ ~ Failed.retryable /\ ~ EndedWell(Failed)
      BY ReplyFacts, NoneIsNothing DEF EndedWell, Good
    <2>2. MayEnd(s, 1, Failed, TaskInputs(s))
      BY <1>1, <1>2, <1>3, <2>1, FreshMayEnd DEF ShouldRetry
    <2>3. EndAttempt(s, 1, Failed, TaskInputs(s)) /\ Apart
      BY <1>4 DEF StageBegins, Apart
    <2> QED BY <1>1, <2>2, <2>3, EndAttemptKeeps
  <1>5. CASE ~ MissingInput(s) /\ BeginAttempt(s, 1)
    BY <1>1, <1>2, <1>5, BeginAttemptKeeps
  <1>6. ASSUME ~ MissingInput(s), NEW a \in Candidates(s),
               EndAttempt(s, 1, Validated(stageFile[a].result), stageFile[a].basis),
               UNCHANGED execVars
        PROVE  IInv'
    <2> DEFINE r == Validated(stageFile[a].result)
    <2>1. /\ a \in Attempts /\ a[1] = s /\ stageFile[a] # None
          /\ stageFile[a].inputs = TaskInputs(s)
      BY DEF Candidates
    <2>2. stageFile[a] \in Manifests
      BY <2>1 DEF IInv, TypeOK
    <2>3. stageFile[a].result \in Results /\ stageFile[a].basis \in Artifacts
      BY <2>2 DEF Manifests
    <2>4. r \in Results /\ r.output # Undeclared /\ (r.retryable => r = Transient)
      BY <2>3, ValidatedFacts
    <2>5. \A p \in Inputs[s] : stageFile[a].basis[p] = TaskInputs(s)[p]
      BY <2>1 DEF IInv, ManifestsOK
    <2> HIDE DEF r
    <2>6. MayEnd(s, 1, r, stageFile[a].basis)
      BY <1>1, <1>2, <1>6, <2>3, <2>4, <2>5, FreshMayEnd
    <2>7. EndAttempt(s, 1, r, stageFile[a].basis) /\ Apart
      BY <1>1, <1>6 DEF r, Apart
    <2> QED BY <1>1, <2>6, <2>7, EndAttemptKeeps
  <1> QED BY <1>4, <1>5, <1>6 DEF StageBegins
-----------------------------------------------------------------------------
(***************************************************************************)
(* The executor's steps, and a wait that ends without the result.           *)
(***************************************************************************)
LEMMA CurrentJob ==
  ASSUME IInv, NEW s \in Stages, NEW n \in 1..MaxAttempts,
         job[<<s, n>>] \in {"queued", "running"}
  PROVE  n = attempt[s] /\ phase[s] \in Computing /\ <<s, n>> = Current(s)
  BY DEF IInv, JobsOK, Current

LEMMA JobStepKeeps ==
  ASSUME IInv, NEW s \in Stages, phase[s] \in Computing,
         NEW j \in {"queued", "running"} \cup Exec!Terminal, NEW r \in Results \cup {None},
         r # None => j \in Exec!Terminal,
         job[Current(s)] # "absent" \/ job' = job,
         job' = [job EXCEPT ![Current(s)] = j] \/ (job' = job /\ completion' = completion),
         completion' = [completion EXCEPT ![Current(s)] = r] \/ completion' = completion,
         completion' = completion => job' = job \/ completion[Current(s)] = None,
         \/ phase' = phase /\ verdict' = verdict
         \/ \E v \in {Transient, Cancelled} :
              /\ phase' = [phase EXCEPT ![s] = "draining"]
              /\ verdict' = [verdict EXCEPT ![s] = v],
         UNCHANGED <<schedVars, attempt, result, snapshot, cancelVars, storeVars, runs>>
  PROVE  IInv'
  <1>1. TypeOK /\ StageOK(s) /\ JobsOK(s) /\ HistoryOK(s) /\ RecordedOK(s) /\ ManifestsOK
    BY DEF IInv
  <1>2. phase[s] \in Working
    BY DEF Working, Computing
  <1>3. attempt[s] \in 1..MaxAttempts /\ MaxAttempts \in Nat /\ attempt[s] <= attempt[s]
    BY <1>1, EngineAssumption DEF TypeOK, StageOK, Computing
  <1>4. Current(s) \in Attempts /\ Current(s) = <<s, attempt[s]>>
    BY <1>3 DEF Current, Attempts
  <1>5. /\ phase'[s] \in Computing /\ phase' \in [Stages -> Phases]
        /\ phase'[s] = "draining" => verdict'[s] # None
        /\ verdict' \in [Stages -> {Transient, Cancelled, None}]
        /\ \A d \in Stages \ {s} : phase'[d] = phase[d] /\ verdict'[d] = verdict[d]
    <2>1. CASE phase' = phase /\ verdict' = verdict
      BY <1>1, <2>1 DEF TypeOK, StageOK
    <2>2. ASSUME NEW v \in {Transient, Cancelled},
                 phase' = [phase EXCEPT ![s] = "draining"],
                 verdict' = [verdict EXCEPT ![s] = v]
          PROVE  <1>5!:
      <3>1. v # None
        BY ReplyFacts, NoneIsNothing
      <3>2. "draining" \in Phases
        BY DEF Phases, Active
      <3>3. phase'[s] = "draining" /\ verdict'[s] = v
        BY <1>1, <2>2 DEF TypeOK
      <3> QED BY <1>1, <2>2, <3>1, <3>2, <3>3 DEF TypeOK, Computing
    <2> QED BY <2>1, <2>2
  <1>6. /\ job' \in [Attempts -> JobStates]
        /\ completion' \in [Attempts -> Results \cup {None}]
    BY <1>1 DEF TypeOK, JobStates
  <1>7. TypeOK'
    BY <1>1, <1>5, <1>6 DEF TypeOK, schedVars, cancelVars, storeVars
  <1>8. ManifestsOK'
    BY <1>1 DEF ManifestsOK, storeVars
  <1>9. /\ TaskInputs(s)' = TaskInputs(s) /\ MissingInput(s)' = MissingInput(s)
        /\ Current(s)' = Current(s)
    BY DEF TaskInputs, MissingInput, Current
  <1>10. /\ phase[s] \notin {"pending", "started", "backoff"} \cup Reported
         /\ phase'[s] \notin {"pending", "started", "backoff"} \cup Reported
    BY <1>5 DEF Computing, Reported
  <1>11. StageOK(s)'
    <2>1. ASSUME NEW d \in Deps[s]
          PROVE  phase'[d] = "collected" /\ EndedWell(result'[d])
      <3>1. d \in Stages /\ phase[d] = "collected" /\ EndedWell(result[d])
        BY <1>1, <1>10, EngineAssumption DEF StageOK
      <3>2. d # s
        BY <1>10, <3>1 DEF Reported
      <3> QED BY <1>5, <3>1, <3>2
    <2>2. /\ result'[s] # None => result'[s].output # Undeclared
          /\ \A p \in Stages : snapshot'[s][p] # None => snapshot'[s][p] = available'[p]
          /\ attempt'[s] # 0 /\ ~ MissingInput(s)
      BY <1>1, <1>3 DEF StageOK, schedVars
    <2> QED BY <1>5, <1>9, <1>10, <2>1, <2>2 DEF StageOK, EndedWell
  <1>12. JobsOK(s)'
    <2> SUFFICES ASSUME NEW m \in 1..MaxAttempts
                 PROVE  /\ job'[<<s, m>>] # "absent" => m <= attempt[s]
                        /\ job'[<<s, m>>] \in {"queued", "running"} => m = attempt[s]
                        /\ completion'[<<s, m>>] # None => job'[<<s, m>>] \in Exec!Terminal
      BY <1>5 DEF JobsOK
    <2>1. <<s, m>> \in Attempts
      BY DEF Attempts
    <2>2. /\ job[<<s, m>>] # "absent" => m <= attempt[s]
          /\ job[<<s, m>>] \in {"queued", "running"} => m = attempt[s]
          /\ completion[<<s, m>>] # None => job[<<s, m>>] \in Exec!Terminal
      BY <1>1 DEF JobsOK
    <2>3. CASE m = attempt[s]
      <3>1. completion'[<<s, m>>] # None => job'[<<s, m>>] \in Exec!Terminal
        BY <1>1, <1>4, <2>1, <2>2, <2>3 DEF TypeOK
      <3> QED BY <1>3, <2>3, <3>1
    <2>4. CASE m # attempt[s]
      <3>1. <<s, m>> # Current(s)
        BY <1>4, <2>4
      <3>2. job'[<<s, m>>] = job[<<s, m>>] /\ completion'[<<s, m>>] = completion[<<s, m>>]
        BY <1>1, <2>1, <3>1 DEF TypeOK
      <3> QED BY <2>2, <3>2
    <2> QED BY <2>3, <2>4
  <1>13. HistoryOK(s)'
    BY <1>1, <1>10 DEF HistoryOK, storeVars
  <1>14. RecordedOK(s)'
    BY <1>1, <1>5, <1>9, <1>10 DEF RecordedOK, storeVars
  <1>15. Beside(s)
    <2>1. ASSUME NEW d \in Stages \ {s}, NEW m \in 1..MaxAttempts
          PROVE  job'[<<d, m>>] = job[<<d, m>>] /\ completion'[<<d, m>>] = completion[<<d, m>>]
      <3>1. <<d, m>> \in Attempts /\ <<d, m>> # Current(s)
        BY DEF Attempts, Current
      <3> QED BY <1>1, <3>1 DEF TypeOK
    <2> QED BY <1>2, <1>5, <2>1, OpenRun DEF Beside, schedVars, cancelVars, storeVars
  <1>16. phase'[s] \in Active
    BY <1>5 DEF Computing, Active
  <1> QED BY <1>2, <1>7, <1>8, <1>11, <1>12, <1>13, <1>14, <1>15, <1>16, CoroutineKeeps

LEMMA FinishedJob ==
  ASSUME TypeOK, NEW a \in Attempts, Exec!Finish(a)
  PROVE  \E r \in Results :
           /\ r # None /\ r.status \in Exec!Terminal
           /\ job' = [job EXCEPT ![a] = r.status]
           /\ completion' = [completion EXCEPT ![a] = r]
  <1>1. PICK r \in Results :
          /\ job' = [job EXCEPT ![a] = [x \in Results |-> x.status][r]]
          /\ completion' = [completion EXCEPT ![a] = r]
    BY DEF Exec!Finish
  <1>2. r # None /\ r.status \in Exec!Terminal
    BY ReplyFacts, NoneIsNothing
  <1> QED BY <1>1, <1>2

LEMMA InterruptKeeps ==
  ASSUME IInv, NEW s \in Stages, Interrupt(s)
  PROVE  IInv'
  <1>1. phase[s] \in Computing
    BY DEF Interrupt, Computing
  <1>2. \E v \in {Transient, Cancelled} : /\ phase' = [phase EXCEPT ![s] = "draining"]
                                          /\ verdict' = [verdict EXCEPT ![s] = v]
    BY DEF Interrupt
  <1>3. UNCHANGED <<schedVars, attempt, result, snapshot, cancelVars, storeVars, runs>>
    BY DEF Interrupt
  <1>4. CASE UNCHANGED execVars
    <2>1. job' = job /\ completion' = completion
      BY <1>4 DEF execVars
    <2>2. "queued" \in {"queued", "running"} \cup Exec!Terminal /\ None \in Results \cup {None}
      OBVIOUS
    <2> QED BY <1>1, <1>2, <1>3, <2>1, <2>2, JobStepKeeps
  <1>5. CASE job[Current(s)] = "queued" /\ Exec!Finish(Current(s))
    <2>1. TypeOK
      BY DEF IInv
    <2>2. Current(s) \in Attempts
      BY <1>1, <2>1, EngineAssumption DEF IInv, StageOK, Computing, TypeOK, Current, Attempts
    <2>3. PICK r \in Results :
            /\ r # None /\ r.status \in Exec!Terminal
            /\ job' = [job EXCEPT ![Current(s)] = r.status]
            /\ completion' = [completion EXCEPT ![Current(s)] = r]
      BY <1>5, <2>1, <2>2, FinishedJob
    <2> DEFINE j == r.status
    <2>4. j \in {"queued", "running"} \cup Exec!Terminal /\ r \in Results \cup {None}
      BY <2>3
    <2>5. completion[Current(s)] = None
      BY <1>5, <2>2 DEF IInv, JobsOK, Current, Attempts, Exec!Terminal
    <2>6. j \in Exec!Terminal /\ job' = [job EXCEPT ![Current(s)] = j]
          /\ job[Current(s)] # "absent"
      BY <1>5, <2>3
    <2> HIDE DEF j
    <2> QED BY <1>1, <1>2, <1>3, <2>3, <2>4, <2>5, <2>6, JobStepKeeps
  <1> QED BY <1>4, <1>5 DEF Interrupt

LEMMA JobBeginsKeeps ==
  ASSUME IInv, NEW a \in Attempts, JobBegins(a)
  PROVE  IInv'
  <1>1. PICK s \in Stages, n \in 1..MaxAttempts : a = <<s, n>>
    BY DEF Attempts
  <1>2. /\ job[a] = "queued" /\ job' = [job EXCEPT ![a] = "running"]
        /\ completion' = completion
        /\ UNCHANGED <<schedVars, coroVars, snapshot, cancelVars, storeVars, runs>>
    BY DEF JobBegins, Exec!Begin
  <1>3. phase[s] \in Computing /\ a = Current(s)
    BY <1>1, <1>2, CurrentJob
  <1>4. completion[Current(s)] = None
    BY <1>1, <1>2, <1>3 DEF IInv, JobsOK, Exec!Terminal
  <1>5. "running" \in {"queued", "running"} \cup Exec!Terminal /\ None \in Results \cup {None}
    OBVIOUS
  <1>6. /\ phase' = phase /\ verdict' = verdict
        /\ UNCHANGED <<schedVars, attempt, result, snapshot, cancelVars, storeVars, runs>>
    BY <1>2 DEF coroVars
  <1>7. job' = [job EXCEPT ![Current(s)] = "running"] /\ job[Current(s)] # "absent"
    BY <1>2, <1>3
  <1> QED BY <1>2, <1>3, <1>4, <1>5, <1>6, <1>7, JobStepKeeps

LEMMA JobEndsKeeps ==
  ASSUME IInv, NEW a \in Attempts, JobEnds(a)
  PROVE  IInv'
  <1>1. PICK s \in Stages, n \in 1..MaxAttempts : a = <<s, n>>
    BY DEF Attempts
  <1>2. /\ job[a] = "running" /\ Exec!Finish(a)
        /\ UNCHANGED <<schedVars, coroVars, snapshot, cancelVars, storeVars, runs>>
    BY DEF JobEnds
  <1>3. phase[s] \in Computing /\ a = Current(s)
    BY <1>1, <1>2, CurrentJob
  <1>4. completion[Current(s)] = None
    BY <1>1, <1>2, <1>3 DEF IInv, JobsOK, Exec!Terminal
  <1>5. PICK r \in Results :
          /\ r # None /\ r.status \in Exec!Terminal
          /\ job' = [job EXCEPT ![Current(s)] = r.status]
          /\ completion' = [completion EXCEPT ![Current(s)] = r]
    BY <1>2, <1>3, FinishedJob DEF IInv
  <1>6. /\ phase' = phase /\ verdict' = verdict
        /\ UNCHANGED <<schedVars, attempt, result, snapshot, cancelVars, storeVars, runs>>
    BY <1>2 DEF coroVars
  <1> DEFINE j == r.status
  <1>7. /\ j \in {"queued", "running"} \cup Exec!Terminal /\ r \in Results \cup {None}
        /\ j \in Exec!Terminal /\ job' = [job EXCEPT ![Current(s)] = j]
        /\ job[Current(s)] # "absent"
    BY <1>2, <1>3, <1>5
  <1> HIDE DEF j
  <1> QED BY <1>3, <1>4, <1>5, <1>6, <1>7, JobStepKeeps
-----------------------------------------------------------------------------
(***************************************************************************)
(* Cancellation, restart, and the ways run() ends.                          *)
(***************************************************************************)
Coroutines == \A s \in Stages : StageOK(s) /\ JobsOK(s) /\ HistoryOK(s) /\ RecordedOK(s)

\* Nothing about the Stages and the disk changes.
LEMMA StagesStay ==
  ASSUME IInv, UNCHANGED <<available, coroVars, snapshot, execVars, refs, stageFile, runFile>>
  PROVE  /\ Coroutines' /\ AvailableOK' /\ ManifestsOK'
         /\ LineageCoherent' /\ VerdictJustified'
  <1>1. \A s \in Stages : /\ MissingInput(s)' = MissingInput(s)
                          /\ TaskInputs(s)' = TaskInputs(s) /\ Current(s)' = Current(s)
    BY DEF MissingInput, TaskInputs, Current, coroVars
  <1>2. ASSUME NEW s \in Stages
        PROVE  StageOK(s)' /\ JobsOK(s)' /\ HistoryOK(s)' /\ RecordedOK(s)'
    <2>1. StageOK(s) /\ JobsOK(s) /\ HistoryOK(s) /\ RecordedOK(s)
      BY DEF IInv
    <2>2. StageOK(s)' /\ JobsOK(s)'
      BY <1>1, <2>1 DEF StageOK, JobsOK, EndedWell, coroVars, execVars
    <2>3. HistoryOK(s)' /\ RecordedOK(s)'
      BY <1>1, <2>1 DEF HistoryOK, RecordedOK, EndedWell, coroVars
    <2> QED BY <2>2, <2>3
  <1>3. AvailableOK' /\ ManifestsOK'
    BY DEF IInv, AvailableOK, ManifestsOK, coroVars
  <1>4. LineageCoherent' /\ VerdictJustified'
    BY DEF IInv, LineageCoherent, VerdictJustified, Shown
  <1> QED BY <1>2, <1>3, <1>4 DEF Coroutines

LEMMA ExternalCancelKeeps ==
  ASSUME IInv, ExternalCancel
  PROVE  IInv'
  <1>1. Coroutines' /\ AvailableOK' /\ ManifestsOK' /\ LineageCoherent' /\ VerdictJustified'
    BY StagesStay DEF ExternalCancel, schedVars, storeVars
  <1>2. TypeOK'
    BY DEF ExternalCancel, IInv, TypeOK, schedVars, coroVars, execVars, storeVars
  <1>3. RunOK'
    BY DEF ExternalCancel, IInv, RunOK, schedVars, coroVars, storeVars
  <1>4. TerminalOK'
    BY DEF ExternalCancel, IInv, TerminalOK, schedVars, coroVars, EndedWell
  <1> QED BY <1>1, <1>2, <1>3, <1>4 DEF IInv, Coroutines

LEMMA ForwardKeeps ==
  ASSUME IInv, ForwardCancellation
  PROVE  IInv'
  <1>1. Coroutines' /\ AvailableOK' /\ ManifestsOK' /\ LineageCoherent' /\ VerdictJustified'
    BY StagesStay DEF ForwardCancellation, schedVars, storeVars
  <1>2. TypeOK'
    BY DEF ForwardCancellation, IInv, TypeOK, schedVars, coroVars, execVars, storeVars
  <1>3. RunOK'
    BY DEF ForwardCancellation, IInv, RunOK, schedVars, coroVars, storeVars
  <1>4. TerminalOK'
    BY DEF ForwardCancellation, IInv, TerminalOK, schedVars, coroVars, EndedWell
  <1> QED BY <1>1, <1>2, <1>3, <1>4 DEF IInv, Coroutines

LEMMA StartFailsKeeps ==
  ASSUME IInv, StartFails
  PROVE  IInv'
  <1>1. Coroutines' /\ AvailableOK' /\ ManifestsOK' /\ LineageCoherent' /\ VerdictJustified'
    BY StagesStay DEF StartFails, storeVars
  <1>2. TypeOK'
    BY EngineAssumption DEF StartFails, IInv, TypeOK, coroVars, execVars, storeVars, cancelVars
  <1>3. RunOK'
    BY DEF StartFails, IInv, RunOK, coroVars, storeVars, Resting
  <1>4. TerminalOK'
    BY NoneIsNothing DEF StartFails, IInv, RunOK, TerminalOK, coroVars, cancelVars, EndedWell
  <1> QED BY <1>1, <1>2, <1>3, <1>4 DEF IInv, Coroutines

LEMMA CloseAfterErrorKeeps ==
  ASSUME IInv, CloseAfterError
  PROVE  IInv'
  <1>1. Coroutines' /\ AvailableOK' /\ ManifestsOK' /\ LineageCoherent' /\ VerdictJustified'
    BY StagesStay DEF CloseAfterError, storeVars
  <1>2. TypeOK'
    BY DEF CloseAfterError, IInv, TypeOK, coroVars, execVars, storeVars, cancelVars
  <1>3. RunOK'
    BY DEF CloseAfterError, IInv, TypeOK, RunOK, coroVars, storeVars, Resting, Phases
  <1>4. TerminalOK'
    BY DEF CloseAfterError, IInv, TerminalOK, coroVars, cancelVars, EndedWell
  <1> QED BY <1>1, <1>2, <1>3, <1>4 DEF IInv, Coroutines

LEMMA RestartKeeps ==
  ASSUME IInv, Restart
  PROVE  IInv'
  <1>1. LineageCoherent' /\ VerdictJustified' /\ ManifestsOK'
    BY DEF Restart, IInv, LineageCoherent, VerdictJustified, ManifestsOK, Shown
  <1>2. TypeOK'
    <2>1. Empty \in Artifacts
      BY DEF Empty, Artifacts
    <2>2. /\ phase' \in [Stages -> Phases] /\ attempt' \in [Stages -> 0..MaxAttempts]
          /\ snapshot' \in [Stages -> Artifacts] /\ available' \in Artifacts
      BY <2>1, EngineAssumption DEF Restart, Phases
    <2>3. /\ result' \in [Stages -> Results \cup {None}]
          /\ verdict' \in [Stages -> {Transient, Cancelled, None}]
          /\ job' \in [Attempts -> JobStates]
          /\ completion' \in [Attempts -> Results \cup {None}]
      BY DEF Restart, JobStates, Empty
    <2> QED BY <2>2, <2>3 DEF IInv, TypeOK, Restart
  <1>3. RunOK' /\ TerminalOK' /\ AvailableOK'
    BY NoneIsNothing DEF Restart, RunOK, TerminalOK, AvailableOK, Empty
  <1>4. ASSUME NEW s \in Stages
        PROVE  StageOK(s)' /\ JobsOK(s)' /\ HistoryOK(s)' /\ RecordedOK(s)'
    <2>1. /\ phase'[s] = "pending" /\ attempt'[s] = 0 /\ result'[s] = None
          /\ \A p \in Stages : snapshot'[s][p] = None
      BY DEF Restart, Empty
    <2>2. \A n \in 1..MaxAttempts : /\ <<s, n>> \in Attempts
                                    /\ job'[<<s, n>>] = "absent"
                                    /\ completion'[<<s, n>>] = None
                                    /\ ~ (n < 0) /\ n # 0
      BY EngineAssumption DEF Restart, Attempts
    <2>3. StageOK(s)' /\ JobsOK(s)'
      BY <2>1, <2>2 DEF StageOK, JobsOK, Computing, Reported
    <2>4. HistoryOK(s)'
      BY <2>1, <2>2 DEF HistoryOK
    <2>5. RecordedOK(s)'
      BY <2>1 DEF RecordedOK, Reported, Restart
    <2> QED BY <2>3, <2>4, <2>5
  <1> QED BY <1>1, <1>2, <1>3, <1>4 DEF IInv
-----------------------------------------------------------------------------
(***************************************************************************)
(* A round of the scheduler: the results of F are read, ready Stages start. *)
(***************************************************************************)
RoundOf(F) == [s \in Stages |-> IF s \in F THEN "collected" ELSE phase[s]]

\* The terminal status after F is what the collected results call for.
LEMMA SettledFacts ==
  ASSUME IInv, pc \in {"idle", "waiting"}, NEW F \in SUBSET Stages,
         \A s \in F : phase[s] = "returned"
  PROVE  /\ Settled(F) \in {None, "failed", "cancelled"}
         /\ Settled(F) = None =>
              \A s \in Stages : RoundOf(F)[s] = "collected" => EndedWell(result[s])
         /\ Settled(F) = "failed" =>
              \E s \in Stages : RoundOf(F)[s] = "collected" /\ result[s].status = "failed"
         /\ Settled(F) = "cancelled" =>
              /\ \A s \in Stages : RoundOf(F)[s] = "collected" => result[s].status # "failed"
              /\ \E s \in Stages : RoundOf(F)[s] = "collected" /\ result[s].status = "cancelled"
  <1>1. TypeOK /\ TerminalOK /\ terminal \in {None, "failed", "cancelled"}
    BY DEF IInv, TypeOK
  <1>2. \A s \in Stages : RoundOf(F)[s] = "collected" <=> s \in F \/ phase[s] = "collected"
    BY DEF RoundOf
  <1>3. \A s \in F : result[s].status \in Exec!Terminal
    <2> TAKE s \in F
    <2>1. result[s] \in Results
      BY <1>1 DEF IInv, StageOK, Reported, TypeOK
    <2> QED BY <2>1, ReplyFacts
  <1>4. /\ None # "failed" /\ None # "cancelled"
    BY NoneIsNothing
  <1>5. \/ (\E s \in F : result[s].status = "failed") /\ Settled(F) = "failed"
        \/ /\ \A s \in F : result[s].status # "failed"
           /\ \/ /\ terminal = None /\ \E s \in F : result[s].status = "cancelled"
                 /\ Settled(F) = "cancelled"
              \/ /\ terminal # None \/ \A s \in F : result[s].status # "cancelled"
                 /\ Settled(F) = terminal
    BY DEF Settled
  <1>6. CASE (\E s \in F : result[s].status = "failed") /\ Settled(F) = "failed"
    BY <1>2, <1>4, <1>6
  <1>7. CASE /\ \A s \in F : result[s].status # "failed"
             /\ terminal = None /\ \E s \in F : result[s].status = "cancelled"
             /\ Settled(F) = "cancelled"
    <2>1. \A s \in Stages : phase[s] = "collected" => result[s].status # "failed"
      BY <1>1, <1>7 DEF TerminalOK, EndedWell, Good
    <2> QED BY <1>2, <1>4, <1>7, <2>1
  <1>8. CASE /\ \A s \in F : result[s].status # "failed"
             /\ terminal # None \/ \A s \in F : result[s].status # "cancelled"
             /\ Settled(F) = terminal
    <2>1. CASE terminal = None
      <3>1. \A s \in F : EndedWell(result[s])
        BY <1>3, <1>8, <2>1 DEF EndedWell, Good, Exec!Terminal
      <3>2. \A s \in Stages : phase[s] = "collected" => EndedWell(result[s])
        BY <1>1, <2>1 DEF TerminalOK
      <3> QED BY <1>2, <1>4, <1>8, <2>1, <3>1, <3>2
    <2>2. CASE terminal = "failed"
      <3>1. \E s \in Stages : phase[s] = "collected" /\ result[s].status = "failed"
        BY <1>1, <2>2 DEF TerminalOK
      <3> QED BY <1>2, <1>4, <1>8, <2>2, <3>1
    <2>3. CASE terminal = "cancelled"
      <3>1. /\ \A s \in Stages : phase[s] = "collected" => result[s].status # "failed"
            /\ \E s \in Stages : phase[s] = "collected" /\ result[s].status = "cancelled"
        BY <1>1, <2>3 DEF TerminalOK
      <3> QED BY <1>2, <1>4, <1>8, <2>3, <3>1
    <2> QED BY <1>1, <2>1, <2>2, <2>3
  <1> QED BY <1>5, <1>6, <1>7, <1>8

\* What the round does to the scheduler and the phases.
LEMMA Scheduled ==
  ASSUME NEW F, NEW term,
         phase \in [Stages -> Phases],
         Schedule(RoundOf(F), available', internal', term)
  PROVE  \E go \in SUBSET Ready(RoundOf(F)) :
           /\ phase' = [s \in Stages |-> IF s \in go THEN "started" ELSE RoundOf(F)[s]]
           /\ snapshot' = [s \in Stages |-> IF s \in go THEN available' ELSE snapshot[s]]
           /\ go # {} => ~ internal' \/ \A s \in Stages : RoundOf(F)[s] = "pending"
           /\ \/ /\ pc' = "waiting" /\ terminal' = term
              \/ /\ go = {} /\ phase' = RoundOf(F)
                 /\ \A s \in Stages : phase'[s] \in Resting
                 /\ pc' \in {"finishing", "stalled"}
                 /\ internal' => pc' = "finishing"
                 /\ pc' = "finishing" =>
                      internal' \/ \A s \in Stages : phase'[s] = "collected"
                 /\ terminal' = IF /\ \E s \in Stages : phase'[s] = "pending"
                                   /\ internal' /\ term = None
                                THEN "cancelled" ELSE term
  <1> DEFINE ph == RoundOf(F)
             go == Launches(ph, internal')
             busy == go # {} \/ \E s \in Stages : ph[s] \in Active
             left == \E s \in Stages : ph[s] = "pending"
  <1>1. /\ go \in SUBSET Ready(ph)
        /\ go # {} => ~ internal' \/ \A s \in Stages : ph[s] = "pending"
    BY DEF Launches
  <1>2. /\ phase' = [s \in Stages |-> IF s \in go THEN "started" ELSE ph[s]]
        /\ snapshot' = [s \in Stages |-> IF s \in go THEN available' ELSE snapshot[s]]
        /\ pc' = IF busy THEN "waiting" ELSE LoopExit(ph, internal')
        /\ terminal' = IF ~ busy /\ left /\ internal' /\ term = None
                       THEN "cancelled" ELSE term
    BY DEF Schedule
  <1>3. ph = [s \in Stages |-> ph[s]] /\ \A s \in Stages : ph[s] \in Phases
    BY DEF RoundOf, Phases
  <1> HIDE DEF ph, go
  <1>4. CASE busy
    BY <1>1, <1>2, <1>4 DEF ph
  <1>5. CASE ~ busy
    <2>1. go = {} /\ phase' = ph
      BY <1>2, <1>3, <1>5
    <2>2. \A s \in Stages : phase'[s] \in Resting
      BY <1>3, <1>5, <2>1 DEF Phases, Resting
    <2>3. pc' = LoopExit(ph, internal')
      BY <1>2, <1>5
    <2>4. /\ pc' \in {"finishing", "stalled"}
          /\ internal' => pc' = "finishing"
          /\ pc' = "finishing" => internal' \/ \A s \in Stages : phase'[s] = "collected"
      BY <2>1, <2>3 DEF LoopExit
    <2>5. terminal' = IF /\ \E s \in Stages : phase'[s] = "pending"
                         /\ internal' /\ term = None
                      THEN "cancelled" ELSE term
      BY <1>2, <1>5, <2>1
    <2> HIDE DEF busy, left
    <2> QED BY <1>1, <1>2, <2>1, <2>2, <2>4, <2>5 DEF ph
  <1> QED BY <1>4, <1>5

LEMMA RoundKeeps ==
  ASSUME IInv, pc \in {"idle", "waiting"}, NEW F \in SUBSET Stages,
         \A s \in F : phase[s] = "returned",
         available' = [s \in Stages |-> IF s \in F /\ EndedWell(result[s])
                                        THEN result[s].output ELSE available[s]],
         Schedule(RoundOf(F), available', internal', Settled(F)),
         internal' \in BOOLEAN, external' \in BOOLEAN, runs' \in 0..MaxRuns,
         Settled(F) # None => internal',
         UNCHANGED <<attempt, result, verdict, execVars, refs, stageFile>>,
         pc = "waiting" => runFile' = runFile,
         pc = "idle" => SaveRun("running", {})
  PROVE  IInv'
  <1> DEFINE term == Settled(F)
             ph == RoundOf(F)
  <1>1. /\ TypeOK /\ AvailableOK /\ RunOK /\ ManifestsOK
        /\ \A s \in Stages : StageOK(s) /\ JobsOK(s) /\ HistoryOK(s) /\ RecordedOK(s)
    BY DEF IInv
  <1>2. /\ term \in {None, "failed", "cancelled"}
        /\ term = None => \A s \in Stages : ph[s] = "collected" => EndedWell(result[s])
        /\ term = "failed" =>
             \E s \in Stages : ph[s] = "collected" /\ result[s].status = "failed"
        /\ term = "cancelled" =>
             /\ \A s \in Stages : ph[s] = "collected" => result[s].status # "failed"
             /\ \E s \in Stages : ph[s] = "collected" /\ result[s].status = "cancelled"
    BY SettledFacts
  <1> HIDE DEF term
  <1>3. PICK go \in SUBSET Ready(ph) :
          /\ phase' = [s \in Stages |-> IF s \in go THEN "started" ELSE ph[s]]
          /\ snapshot' = [s \in Stages |-> IF s \in go THEN available' ELSE snapshot[s]]
          /\ \/ /\ pc' = "waiting" /\ terminal' = term
             \/ /\ go = {} /\ phase' = ph
                /\ \A s \in Stages : phase'[s] \in Resting
                /\ pc' \in {"finishing", "stalled"}
                /\ internal' => pc' = "finishing"
                /\ pc' = "finishing" =>
                     internal' \/ \A s \in Stages : phase'[s] = "collected"
                /\ terminal' = IF /\ \E s \in Stages : phase'[s] = "pending"
                                  /\ internal' /\ term = None
                               THEN "cancelled" ELSE term
    BY <1>1, Scheduled DEF TypeOK, term
  <1>4. \A s \in Stages : ph[s] = IF s \in F THEN "collected" ELSE phase[s]
    BY DEF RoundOf
  <1>5. \A s \in go : /\ s \in Stages /\ phase[s] = "pending" /\ s \notin F /\ attempt[s] = 0
                      /\ \A d \in Deps[s] : ph[d] = "collected" /\ EndedWell(result[d])
    BY <1>1, <1>3, <1>4 DEF Ready, StageOK
  <1> HIDE DEF ph
  <1>6. \A s \in Stages : /\ s \in go => phase'[s] = "started"
                          /\ s \in F => phase'[s] = "collected" /\ phase[s] = "returned"
                          /\ s \notin F /\ s \notin go => phase'[s] = phase[s]
                          /\ phase'[s] = "collected" <=> ph[s] = "collected"
                          /\ phase'[s] = "collected" <=> phase[s] = "collected" \/ s \in F
    BY <1>3, <1>4, <1>5
  <1>7. /\ runFile' \in RunManifests /\ runFile' # None
        /\ runFile'.status = "running" /\ runFile'.refs \subseteq refs
        /\ refs # {} => pc = "waiting"
        /\ (\E s \in Stages : phase[s] # "pending") => pc = "waiting"
    <2>1. CASE pc = "waiting"
      BY <1>1, <2>1 DEF RunOK, TypeOK
    <2>2. CASE pc = "idle"
      <3>1. runFile' \in RunManifests /\ runFile'.status = "running" /\ runFile'.refs = {}
        BY <2>2 DEF SaveRun, RunManifests, RunStatuses
      <3> QED BY <1>1, <2>2, <3>1, NoneIsNothing DEF RunOK
    <2> QED BY <2>1, <2>2
  <1>8. \A s \in Stages : s \notin go =>
          /\ snapshot'[s] = snapshot[s]
          /\ TaskInputs(s)' = TaskInputs(s) /\ MissingInput(s)' = MissingInput(s)
    BY <1>3 DEF TaskInputs, MissingInput
  <1>9. \A s \in Stages : phase[s] \in Reported =>
          /\ result[s] \in Results /\ result[s].output \in Values \cup {None}
    <2> SUFFICES ASSUME NEW s \in Stages, phase[s] \in Reported
                 PROVE  result[s] \in Results /\ result[s].output \in Values \cup {None}
      OBVIOUS
    <2>1. result[s] \in Results /\ result[s].output # Undeclared
      BY <1>1 DEF TypeOK, StageOK
    <2> QED BY <2>1, ReplyFacts
  <1>10. available' \in Artifacts
    <2>1. available \in Artifacts
      BY <1>1 DEF TypeOK
    <2>2. \A s \in F : result[s].output \in Values \cup {None}
      BY <1>9 DEF Reported
    <2> QED BY <2>1, <2>2 DEF Artifacts
  <1>11. TypeOK'
    <2>1. phase' \in [Stages -> Phases]
      BY <1>1, <1>3, <1>4 DEF TypeOK, Phases, Active
    <2>2. snapshot' \in [Stages -> Artifacts]
      BY <1>1, <1>3, <1>10 DEF TypeOK
    <2>3. /\ pc' \in {"waiting", "finishing", "stalled"}
          /\ terminal' \in {None, "failed", "cancelled"}
      BY <1>2, <1>3
    <2> QED BY <1>1, <1>7, <1>10, <2>1, <2>2, <2>3 DEF TypeOK, execVars
  <1>12. AvailableOK'
    <2> SUFFICES ASSUME NEW p \in Stages, available'[p] # None
                 PROVE  /\ phase'[p] = "collected" /\ EndedWell(result[p])
                        /\ result[p].output = available'[p]
      BY DEF AvailableOK
    <2>1. CASE p \in F /\ EndedWell(result[p])
      BY <1>6, <1>9, <2>1, ReplyFacts DEF Reported
    <2>2. CASE ~ (p \in F /\ EndedWell(result[p]))
      BY <1>1, <1>6, <2>2 DEF AvailableOK
    <2> QED BY <2>1, <2>2
  <1>13. ASSUME NEW s \in Stages
         PROVE  StageOK(s)'
    <2>1. \A p \in Stages : snapshot'[s][p] # None => snapshot'[s][p] = available'[p]
      <3>1. CASE s \in go
        BY <1>3, <3>1
      <3>2. CASE s \notin go
        <4> SUFFICES ASSUME NEW p \in Stages, snapshot[s][p] # None
                     PROVE  snapshot[s][p] = available'[p]
          BY <1>8, <3>2
        <4>1. snapshot[s][p] = available[p] /\ phase[p] = "collected"
          BY <1>1 DEF StageOK, AvailableOK
        <4>2. p \notin F
          BY <4>1
        <4> QED BY <4>1, <4>2
      <3> QED BY <3>1, <3>2
    <2>2. ASSUME phase'[s] # "pending", NEW d \in Deps[s]
          PROVE  phase'[d] = "collected" /\ EndedWell(result[d])
      <3>1. d \in Stages
        BY EngineAssumption
      <3>2. CASE s \in go
        BY <1>5, <1>6, <3>1, <3>2
      <3>3. CASE s \notin go
        <4>1. phase[s] # "pending"
          BY <1>6, <2>2, <3>3
        <4> QED BY <1>1, <1>6, <3>1, <4>1 DEF StageOK
      <3> QED BY <3>2, <3>3
    <2>3. attempt[s] = 0 <=> phase'[s] \in {"pending", "started"}
      BY <1>1, <1>5, <1>6 DEF StageOK
    <2>4. /\ phase'[s] \in Computing \cup {"backoff"} => s \notin go /\ phase'[s] = phase[s]
          /\ phase'[s] \in Reported => phase[s] \in Reported
      BY <1>6 DEF Computing, Reported
    <2>5. /\ phase'[s] = "backoff" => attempt[s] < MaxAttempts
          /\ phase'[s] = "draining" => verdict[s] # None
          /\ phase'[s] \in Computing \cup {"backoff"} => ~ MissingInput(s)'
          /\ phase'[s] \in Reported => result[s] # None
          /\ result[s] # None => result[s].output # Undeclared
      BY <1>1, <1>8, <2>4 DEF StageOK, Computing
    <2> QED BY <2>1, <2>2, <2>3, <2>5 DEF StageOK, EndedWell
  <1>14. ASSUME NEW s \in Stages
         PROVE  JobsOK(s)' /\ HistoryOK(s)'
    <2>1. /\ phase[s] \in Computing => phase'[s] \in Computing
          /\ phase'[s] = "backoff" => phase[s] = "backoff"
      BY <1>6, <1>5 DEF Computing
    <2>2. JobsOK(s)'
      BY <1>1, <2>1 DEF JobsOK, execVars
    <2>3. ASSUME NEW n \in 1..MaxAttempts,
                 n < attempt[s] \/ (n = attempt[s] /\ phase'[s] = "backoff")
          PROVE  /\ runFile' # None /\ <<s, n>> \in runFile'.refs
                 /\ stageFile[<<s, n>>] # None /\ stageFile[<<s, n>>].result = Transient
      <3>1. attempt[s] # 0
        BY <2>3, EngineAssumption
      <3>2. pc = "waiting"
        BY <1>1, <1>7, <3>1 DEF StageOK
      <3> QED BY <1>1, <2>1, <2>3, <3>2 DEF HistoryOK
    <2> QED BY <2>2, <2>3 DEF HistoryOK
  <1>15. ASSUME NEW s \in Stages
         PROVE  RecordedOK(s)'
    <2>1. /\ phase'[s] \in Computing => phase[s] \in Computing
          /\ phase'[s] \in Reported => phase[s] \in Reported
      BY <1>6 DEF Computing, Reported
    <2>2. phase'[s] \in Reported =>
            /\ runFile' # None /\ Current(s) \in runFile'.refs
            /\ stageFile[Current(s)] # None /\ stageFile[Current(s)].result = result[s]
      <3>1. phase[s] \in Reported => pc = "waiting"
        BY <1>7 DEF Reported
      <3> QED BY <1>1, <2>1, <3>1 DEF RecordedOK
    <2>3. ASSUME NEW n \in 1..MaxAttempts, <<s, n>> \in refs
          PROVE  /\ n <= attempt[s] /\ (phase'[s] \in Computing => n < attempt[s])
                 /\ stageFile[<<s, n>>] # None
                 /\ stageFile[<<s, n>>].inputs = TaskInputs(s)'
                 /\ EndedWell(stageFile[<<s, n>>].result) => ~ MissingInput(s)'
      <3>1. n <= attempt[s]
        BY <1>1, <2>3 DEF RecordedOK
      <3>2. attempt[s] # 0
        BY <3>1, EngineAssumption
      <3>3. s \notin go
        BY <1>5, <3>2
      <3> QED BY <1>1, <1>8, <2>1, <2>3, <3>3 DEF RecordedOK
    <2>4. Current(s)' = Current(s)
      BY DEF Current
    <2> QED BY <2>2, <2>3, <2>4 DEF RecordedOK, EndedWell
  <1>16. ManifestsOK'
    BY <1>1 DEF ManifestsOK
  <1>17. TerminalOK'
    <2>1. CASE terminal' = term
      <3>1. /\ terminal' = None =>
                 \A s \in Stages : phase'[s] = "collected" => EndedWell(result[s])
            /\ terminal' # None => internal'
        BY <1>2, <1>6, <2>1 DEF term
      <3>2. terminal' = "failed" =>
              \E s \in Stages : phase'[s] = "collected" /\ result[s].status = "failed"
        BY <1>2, <1>6, <2>1
      <3>3. terminal' = "cancelled" =>
              /\ \A s \in Stages : phase'[s] = "collected" => result[s].status # "failed"
              /\ \E s \in Stages : phase'[s] = "collected" /\ result[s].status = "cancelled"
        BY <1>2, <1>6, <2>1
      <3> QED BY <3>1, <3>2, <3>3 DEF TerminalOK, EndedWell
    <2>2. CASE terminal' # term
      <3>1. /\ terminal' = "cancelled" /\ internal' /\ term = None /\ pc' = "finishing"
            /\ \E s \in Stages : phase'[s] = "pending"
        BY <1>3, <2>2
      <3>2. \A s \in Stages : phase'[s] = "collected" => result[s].status # "failed"
        BY <1>2, <1>6, <3>1 DEF EndedWell, Good
      <3> QED BY <3>1, <3>2, NoneIsNothing DEF TerminalOK
    <2> QED BY <2>1, <2>2
  <1>18. RunOK'
    <2>1. pc' \in {"waiting", "finishing", "stalled"}
      BY <1>3
    <2>2. pc' \in {"finishing", "stalled"} => \A s \in Stages : phase'[s] \in Resting
      BY <1>3
    <2>3. ASSUME pc' = "finishing", terminal' = None
          PROVE  \A s \in Stages : phase'[s] = "collected"
      <3>1. CASE \E s \in Stages : phase'[s] = "pending"
        BY <1>3, <2>3, <3>1, NoneIsNothing
      <3>2. CASE ~ \E s \in Stages : phase'[s] = "pending"
        BY <2>2, <2>3, <3>2 DEF Resting
      <3> QED BY <3>1, <3>2
    <2> QED BY <1>7, <2>1, <2>2, <2>3 DEF RunOK
  <1>19. LiveInv'
    BY <1>7, <1>11, <1>12, <1>13, <1>14, <1>15, <1>16, <1>17, <1>18 DEF LiveInv
  <1> QED BY <1>19, WorkingInv, PTL
-----------------------------------------------------------------------------
LEMMA StartKeeps ==
  ASSUME IInv, Start
  PROVE  IInv'
  <1>1. /\ TypeOK /\ terminal = None /\ available = Empty
        /\ \A s \in Stages : phase[s] = "pending"
    BY DEF IInv, RunOK, Start
  <1>2. phase = RoundOf({})
    BY <1>1 DEF RoundOf, TypeOK
  <1>3. Settled({}) = None
    BY <1>1 DEF Settled
  <1>4. available' = [s \in Stages |-> IF s \in {} /\ EndedWell(result[s])
                                       THEN result[s].output ELSE available[s]]
    BY <1>1 DEF Start, TypeOK, Artifacts
  <1>5. Schedule(RoundOf({}), available', internal', Settled({}))
    <2>1. Schedule(phase, available, external', None)
      BY DEF Start
    <2>2. available' = available /\ internal' = external'
      BY DEF Start
    <2> QED BY <1>2, <1>3, <2>1, <2>2
  <1>6. internal' \in BOOLEAN /\ external' \in BOOLEAN /\ runs' \in 0..MaxRuns
    <2>1. runs \in 0..MaxRuns /\ runs < MaxRuns /\ runs' = runs + 1
      BY <1>1 DEF Start, TypeOK
    <2>2. runs' \in 0..MaxRuns
      BY <2>1, EngineAssumption
    <2> QED BY <2>2, EngineAssumption DEF Start
  <1>7. UNCHANGED <<attempt, result, verdict, execVars, refs, stageFile>>
    BY DEF Start
  <1>8. pc = "idle" /\ SaveRun("running", {}) /\ {} \in SUBSET Stages
    BY DEF Start
  <1> QED BY <1>3, <1>4, <1>5, <1>6, <1>7, <1>8, RoundKeeps

LEMMA CollectKeeps ==
  ASSUME IInv, Collect
  PROVE  IInv'
  <1>1. TypeOK /\ pc = "waiting" /\ Finished \in SUBSET Stages
    BY DEF IInv, Collect, Finished
  <1>2. UNCHANGED <<attempt, result, verdict, external, execVars, storeVars, runs>>
    BY DEF Collect
  <1>3. CASE \E s \in Finished : phase[s] = "raised"
    <2>1. /\ pc' = "closing" /\ internal' = TRUE
          /\ UNCHANGED <<terminal, available, snapshot, phase>>
      BY <1>3 DEF Collect
    <2>2. Coroutines' /\ AvailableOK' /\ ManifestsOK' /\ LineageCoherent' /\ VerdictJustified'
      BY <1>2, <2>1, StagesStay DEF coroVars, storeVars
    <2>3. TypeOK'
      BY <1>1, <1>2, <2>1 DEF TypeOK, execVars, storeVars
    <2>4. RunOK'
      BY <1>1, <1>2, <2>1 DEF IInv, RunOK, storeVars
    <2>5. TerminalOK'
      BY <1>1, <1>2, <2>1 DEF IInv, TerminalOK, EndedWell
    <2> QED BY <2>2, <2>3, <2>4, <2>5 DEF IInv, Coroutines
  <1>4. CASE ~ \E s \in Finished : phase[s] = "raised"
    <2>1. \A s \in Finished : phase[s] = "returned"
      BY <1>4 DEF Finished
    <2>2. /\ available' = [s \in Stages |-> IF s \in Finished /\ EndedWell(result[s])
                                           THEN result[s].output ELSE available[s]]
          /\ internal' = (internal \/ Settled(Finished) # None)
          /\ Schedule(RoundOf(Finished), available', internal', Settled(Finished))
      BY <1>4 DEF Collect, RoundOf
    <2>3. /\ internal' \in BOOLEAN /\ external' \in BOOLEAN /\ runs' \in 0..MaxRuns
          /\ Settled(Finished) # None => internal'
      BY <1>1, <1>2, <2>2 DEF TypeOK
    <2>4. /\ UNCHANGED <<attempt, result, verdict, execVars, refs, stageFile>>
          /\ runFile' = runFile /\ pc # "idle"
      BY <1>1, <1>2 DEF storeVars
    <2> QED BY <1>1, <2>1, <2>2, <2>3, <2>4, RoundKeeps
  <1> QED BY <1>3, <1>4

\* The run is closed: its manifest says what the records of its Stages call for.
LEMMA FinishKeeps ==
  ASSUME IInv, Finish
  PROVE  IInv'
  <1>1. /\ TypeOK /\ TerminalOK /\ AvailableOK /\ ManifestsOK
        /\ \A s \in Stages : StageOK(s) /\ JobsOK(s) /\ HistoryOK(s) /\ RecordedOK(s)
    BY DEF IInv
  <1>2. /\ pc = "finishing" /\ \A s \in Stages : phase[s] \in Resting
        /\ terminal = None => \A s \in Stages : phase[s] = "collected"
        /\ runFile # None /\ runFile.refs \subseteq refs
    BY DEF IInv, RunOK, Finish
  <1>3. UNCHANGED <<terminal, available, coroVars, snapshot, cancelVars, execVars,
                    refs, stageFile, runs>>
    BY DEF Finish
  <1>4. CASE pc' = "raised" /\ UNCHANGED runFile
    <2>1. Coroutines' /\ AvailableOK' /\ ManifestsOK' /\ LineageCoherent' /\ VerdictJustified'
      BY <1>3, <1>4, StagesStay
    <2>2. TypeOK'
      BY <1>1, <1>3, <1>4 DEF TypeOK, coroVars, execVars, cancelVars
    <2>3. RunOK'
      BY <1>2, <1>3, <1>4 DEF RunOK, coroVars
    <2>4. TerminalOK'
      BY <1>1, <1>2, <1>3, <1>4 DEF TerminalOK, coroVars, cancelVars, EndedWell
    <2> QED BY <2>1, <2>2, <2>3, <2>4 DEF IInv, Coroutines
  <1>5. CASE /\ SaveRun(IF terminal = None THEN "succeeded" ELSE terminal, refs)
             /\ pc' = "done"
    <2> DEFINE status == IF terminal = None THEN "succeeded" ELSE terminal
    <2>1. /\ status \in RunStatuses
          /\ status = "succeeded" => terminal = None
          /\ status \in {"failed", "cancelled"} => terminal = status
      BY <1>1, NoneIsNothing DEF TypeOK, RunStatuses
    <2> HIDE DEF status
    <2>2. /\ runFile' \in RunManifests /\ runFile'.status = status /\ runFile'.refs = refs
          /\ runFile' # None
      <3>1. runFile' = [status |-> status, refs |-> refs]
        BY <1>5 DEF SaveRun, status
      <3>2. runFile' \in RunManifests
        BY <1>1, <2>1, <3>1 DEF RunManifests, TypeOK
      <3> QED BY <3>1, <3>2, NoneIsNothing
    <2>3. TypeOK'
      BY <1>1, <1>3, <1>5, <2>2 DEF TypeOK, coroVars, execVars, cancelVars
    <2>4. \A s \in Stages : /\ MissingInput(s)' = MissingInput(s)
                            /\ TaskInputs(s)' = TaskInputs(s) /\ Current(s)' = Current(s)
      BY <1>3 DEF MissingInput, TaskInputs, Current, coroVars
    <2>5. ASSUME NEW s \in Stages
          PROVE  StageOK(s)' /\ JobsOK(s)' /\ HistoryOK(s)' /\ RecordedOK(s)'
      <3>1. StageOK(s)' /\ JobsOK(s)'
        BY <1>1, <1>3, <2>4 DEF StageOK, JobsOK, EndedWell, coroVars, execVars
      <3>2. HistoryOK(s)' /\ RecordedOK(s)'
        BY <1>1, <1>2, <1>3, <2>2, <2>4 DEF HistoryOK, RecordedOK, EndedWell, coroVars
      <3> QED BY <3>1, <3>2
    <2>6. AvailableOK' /\ ManifestsOK'
      BY <1>1, <1>3 DEF AvailableOK, ManifestsOK, coroVars
    <2>7. LineageCoherent'
      <3>1. LiveOK'
        BY <1>3, <2>2, <2>3, <2>5, <2>6 DEF LiveOK
      <3> QED BY <3>1, LiveLineage, PTL
    <2>8. \A s \in Stages : /\ phase[s] = "collected" => Shown(refs, s) = result[s].status
                            /\ phase[s] = "pending" => Shown(refs, s) = "none"
      <3> TAKE s \in Stages
      <3>1. refs \in SUBSET Attempts /\ refs \subseteq refs
        BY <1>1 DEF TypeOK
      <3>2. phase[s] \in Reported => Current(s) \in refs
        BY <1>1, <1>2 DEF RecordedOK
      <3>3. /\ phase[s] \in Reported => Shown(refs, s) = result[s].status
            /\ phase[s] = "pending" => Shown(refs, s) = "none"
        BY <1>1, <3>1, <3>2, ShownIs
      <3> QED BY <3>3 DEF Reported
    <2>9. VerdictJustified'
      <3>1. \A s \in Stages : Shown(runFile.refs, s)' = Shown(refs, s)
        BY <1>3, <2>2 DEF Shown
      <3>2. \A a \in refs : stageFile[a] # None
        <4> TAKE a \in refs
        <4>1. PICK s \in Stages, n \in 1..MaxAttempts : a = <<s, n>>
          BY <1>1 DEF TypeOK, Attempts
        <4> QED BY <1>1, <4>1 DEF RecordedOK
      <3>3. ASSUME status = "succeeded", NEW s \in Stages PROVE Shown(refs, s) \in Good
        <4>1. phase[s] = "collected" /\ EndedWell(result[s])
          BY <1>1, <1>2, <2>1, <3>3 DEF TerminalOK
        <4> QED BY <2>8, <4>1 DEF EndedWell
      <3>4. ASSUME status = "failed" PROVE \E s \in Stages : Shown(refs, s) = "failed"
        BY <1>1, <2>1, <2>8, <3>4 DEF TerminalOK
      <3>5. ASSUME status = "cancelled"
            PROVE  /\ \A s \in Stages : Shown(refs, s) # "failed"
                   /\ \E s \in Stages : Shown(refs, s) \notin Good
        <4>1. /\ \A s \in Stages : phase[s] = "collected" => result[s].status # "failed"
              /\ \E s \in Stages : \/ phase[s] = "collected" /\ result[s].status = "cancelled"
                                   \/ phase[s] = "pending"
          BY <1>1, <2>1, <3>5 DEF TerminalOK
        <4>2. \A s \in Stages : Shown(refs, s) # "failed"
          BY <1>2, <2>8, <4>1 DEF Resting
        <4> QED BY <2>8, <4>1, <4>2 DEF Good
      <3> QED BY <1>3, <2>2, <3>1, <3>2, <3>3, <3>4, <3>5 DEF VerdictJustified
    <2>10. RunOK'
      BY <1>2, <1>3, <1>5 DEF RunOK, coroVars
    <2>11. TerminalOK'
      BY <1>1, <1>2, <1>3, <1>5 DEF TerminalOK, coroVars, cancelVars, EndedWell
    <2> QED BY <2>3, <2>5, <2>6, <2>7, <2>9, <2>10, <2>11 DEF IInv
  <1> QED BY <1>4, <1>5 DEF Finish
-----------------------------------------------------------------------------
LEMMA InitIInv == Init => IInv
  <1> SUFFICES ASSUME Init PROVE IInv
    OBVIOUS
  <1>1. /\ job = [a \in Attempts |-> "absent"] /\ completion = [a \in Attempts |-> None]
    BY DEF Init, Exec!Init
  <1>2. TypeOK
    <2>1. Empty \in Artifacts
      BY DEF Empty, Artifacts
    <2>2. /\ phase \in [Stages -> Phases] /\ attempt \in [Stages -> 0..MaxAttempts]
          /\ snapshot \in [Stages -> Artifacts] /\ available \in Artifacts
          /\ runs \in 0..MaxRuns
      BY <2>1, EngineAssumption DEF Init, Phases
    <2>3. /\ result \in [Stages -> Results \cup {None}]
          /\ verdict \in [Stages -> {Transient, Cancelled, None}]
          /\ job \in [Attempts -> JobStates]
          /\ completion \in [Attempts -> Results \cup {None}]
          /\ stageFile \in [Attempts -> Manifests \cup {None}]
      BY <1>1 DEF Init, JobStates, Empty
    <2> QED BY <2>2, <2>3 DEF TypeOK, Init
  <1>3. RunOK /\ TerminalOK /\ AvailableOK /\ ManifestsOK /\ LineageCoherent /\ VerdictJustified
    BY NoneIsNothing DEF Init, RunOK, TerminalOK, AvailableOK, ManifestsOK,
                         LineageCoherent, VerdictJustified, Empty
  <1>4. ASSUME NEW s \in Stages
        PROVE  StageOK(s) /\ JobsOK(s) /\ HistoryOK(s) /\ RecordedOK(s)
    <2>1. /\ phase[s] = "pending" /\ attempt[s] = 0 /\ result[s] = None
          /\ \A p \in Stages : snapshot[s][p] = None
      BY DEF Init, Empty
    <2>2. \A n \in 1..MaxAttempts : /\ <<s, n>> \in Attempts
                                    /\ job[<<s, n>>] = "absent"
                                    /\ completion[<<s, n>>] = None
                                    /\ ~ (n < 0) /\ n # 0
      BY <1>1, EngineAssumption DEF Attempts
    <2>3. StageOK(s) /\ JobsOK(s)
      BY <2>1, <2>2 DEF StageOK, JobsOK, Computing, Reported
    <2>4. HistoryOK(s) /\ RecordedOK(s)
      BY <2>1, <2>2 DEF HistoryOK, RecordedOK, Reported, Init
    <2> QED BY <2>3, <2>4
  <1> QED BY <1>2, <1>3, <1>4 DEF IInv

LEMMA StutterKeeps == IInv /\ UNCHANGED vars => IInv'
  <1> SUFFICES ASSUME IInv, UNCHANGED vars PROVE IInv'
    OBVIOUS
  <1>1. /\ UNCHANGED <<pc, terminal, internal>>
        /\ UNCHANGED <<available, coroVars, snapshot, execVars, refs, stageFile, runFile>>
    BY DEF vars, schedVars, cancelVars, storeVars
  <1>2. Coroutines' /\ AvailableOK' /\ ManifestsOK' /\ LineageCoherent' /\ VerdictJustified'
    BY <1>1, StagesStay
  <1>3. TypeOK'
    BY DEF IInv, TypeOK, vars, schedVars, coroVars, cancelVars, execVars, storeVars
  <1>4. RunOK' /\ TerminalOK'
    BY <1>1 DEF IInv, RunOK, TerminalOK, EndedWell, coroVars
  <1> QED BY <1>2, <1>3, <1>4 DEF IInv, Coroutines

LEMMA NextKeeps == IInv /\ [Next]_vars => IInv'
  <1> SUFFICES ASSUME IInv, [Next]_vars PROVE IInv'
    OBVIOUS
  <1>1. CASE Start BY <1>1, StartKeeps
  <1>2. CASE StartFails BY <1>2, StartFailsKeeps
  <1>3. CASE Collect BY <1>3, CollectKeeps
  <1>4. CASE CloseAfterError BY <1>4, CloseAfterErrorKeeps
  <1>5. CASE Finish BY <1>5, FinishKeeps
  <1>6. CASE ExternalCancel BY <1>6, ExternalCancelKeeps
  <1>7. CASE ForwardCancellation BY <1>7, ForwardKeeps
  <1>8. CASE Restart BY <1>8, RestartKeeps
  <1>9. ASSUME NEW s \in Stages, StageStep(s) PROVE IInv'
    BY <1>9, StageBeginsKeeps, ObserveKeeps, InterruptKeeps, DrainKeeps, NextAttemptKeeps
       DEF StageStep
  <1>10. ASSUME NEW a \in Attempts, JobBegins(a) \/ JobEnds(a) PROVE IInv'
    BY <1>10, JobBeginsKeeps, JobEndsKeeps
  <1>11. CASE UNCHANGED vars BY <1>11, StutterKeeps
  <1> QED BY <1>1, <1>2, <1>3, <1>4, <1>5, <1>6, <1>7, <1>8, <1>9, <1>10, <1>11 DEF Next

\* The engine's knowledge, its journal and the disk agree in every reachable state.
THEOREM Invariance == Spec => []IInv
  BY InitIInv, NextKeeps, PTL DEF Spec
-----------------------------------------------------------------------------
LEMMA IInvRetries == IInv => RetriesDurable
  <1> SUFFICES ASSUME IInv, NEW s \in Stages, NEW n \in 1..MaxAttempts,
                      job[<<s, n>>] # "absent", NEW m \in 1..(n - 1)
               PROVE  /\ job[<<s, m>>] \notin {"queued", "running"}
                      /\ <<s, m>> \in runFile.refs
                      /\ stageFile[<<s, m>>].result = Transient
    BY DEF RetriesDurable, AttemptsFollowDurableFailures, IInv
  <1>1. attempt[s] \in 0..MaxAttempts /\ MaxAttempts \in Nat /\ n <= attempt[s]
    BY EngineAssumption DEF IInv, TypeOK, JobsOK
  <1>2. m \in 1..MaxAttempts /\ m < attempt[s] /\ m # attempt[s]
    BY <1>1
  <1> QED BY <1>2 DEF IInv, JobsOK, HistoryOK

\* Attempts of a Stage never overlap, and the next one is submitted only when
\* the failure of the last is on disk (_run_stage, RunJournal.record_stage): for
\* any plan, any runners and any crash.
THEOREM RetriesAlwaysDurable == Spec => []RetriesDurable
  BY Invariance, IInvRetries, PTL

LEMMA IInvHistory == IInv => HistoryCoherent
  <1> SUFFICES ASSUME IInv, NEW a \in Attempts, job[a] \in {"queued", "running"},
                      NEW d \in Deps[a[1]]
               PROVE  Shown(runFile.refs, d) \in Good
    BY DEF HistoryCoherent, DependenciesDurable, IInv
  <1>1. PICK s \in Stages, n \in 1..MaxAttempts : a = <<s, n>>
    BY DEF Attempts
  <1>2. phase[s] \in Computing /\ d \in Deps[s]
    BY <1>1, CurrentJob
  <1>3. d \in Stages /\ phase[d] = "collected" /\ EndedWell(result[d])
    BY <1>2, EngineAssumption DEF IInv, StageOK, Computing
  <1>4. runFile # None /\ runFile.refs \subseteq refs
    BY <1>2, OpenRun DEF Computing, Working
  <1>5. runFile.refs \in SUBSET Attempts
    BY <1>4 DEF IInv, TypeOK, RunManifests
  <1>6. TypeOK /\ StageOK(d) /\ RecordedOK(d)
    BY <1>3 DEF IInv
  <1>7. Current(d) \in runFile.refs /\ phase[d] \in Reported
    BY <1>3, <1>6 DEF RecordedOK, Reported
  <1>8. Shown(runFile.refs, d) = result[d].status
    BY <1>3, <1>4, <1>5, <1>6, <1>7, ShownIs
  <1> QED BY <1>3, <1>8 DEF EndedWell

\* A runner executes only over dependencies that are on disk and well ended, and
\* the manifests of a run are coherent: what a Stage was computed from is what
\* its producers' manifests record, also across executions of the run id.
THEOREM HistoryAlwaysCoherent == Spec => []HistoryCoherent
  BY Invariance, IInvHistory, PTL

LEMMA IInvClosed == IInv => ClosedHonestly
  <1> SUFFICES ASSUME IInv, pc \in {"finishing", "done", "raised", "stalled"},
                      NEW a \in Attempts, job[a] \in {"queued", "running"}
               PROVE  FALSE
    BY DEF ClosedHonestly, QuietWhenOver, IInv
  <1>1. PICK s \in Stages, n \in 1..MaxAttempts : a = <<s, n>>
    BY DEF Attempts
  <1>2. phase[s] \in Computing
    BY <1>1, CurrentJob
  <1> QED BY <1>2 DEF IInv, RunOK, Computing, Resting

\* A run that is over left nothing running, and its manifest says what the Stage
\* manifests it references justify (run, RunJournal.finish).
THEOREM AlwaysClosedHonestly == Spec => []ClosedHonestly
  BY Invariance, IInvClosed, PTL

\* An attempt ends in a manifest of its own.
LEMMA OthersStand ==
  ASSUME IInv, NEW s \in Stages, NEW n, NEW r, NEW basis, EndAttempt(s, n, r, basis),
         <<s, n>> \notin refs, NEW a \in refs
  PROVE  stageFile'[a] = stageFile[a]
  <1>1. stageFile \in [Attempts -> Manifests \cup {None}] /\ a \in Attempts /\ a # <<s, n>>
    BY DEF IInv, TypeOK
  <1> QED BY <1>1 DEF EndAttempt, RecordStage

\* No coroutine ends an attempt that the journal has.
LEMMA StageStepStands ==
  ASSUME IInv, NEW s \in Stages, StageStep(s)
  PROVE  /\ \A a \in refs : stageFile'[a] = stageFile[a]
         /\ pc \notin {"done", "raised", "stalled"}
  <1>1. phase[s] \in Working
    BY DEF StageStep, StageBegins, Observe, Interrupt, Drain, NextAttempt, Working
  <1>2. pc \in {"waiting", "closing"}
    BY <1>1, OpenRun
  <1> SUFFICES \A a \in refs : stageFile'[a] = stageFile[a]
    BY <1>2
  <1>3. /\ attempt[s] \in 0..MaxAttempts /\ MaxAttempts \in Nat /\ StageOK(s)
        /\ refs \in SUBSET Attempts
    BY EngineAssumption DEF IInv, TypeOK
  <1>4. \A n : <<s, n>> \in refs =>
          n \in 1..MaxAttempts /\ n <= attempt[s] /\ (phase[s] \in Computing => n < attempt[s])
    BY <1>3 DEF IInv, RecordedOK, Attempts
  <1>5. ASSUME stageFile' = stageFile PROVE \A a \in refs : stageFile'[a] = stageFile[a]
    BY <1>5
  <1>6. ASSUME NEW n, <<s, n>> \notin refs, BeginAttempt(s, n)
        PROVE  \A a \in refs : stageFile'[a] = stageFile[a]
    BY <1>5, <1>6, OthersStand DEF BeginAttempt, storeVars
  <1>7. CASE StageBegins(s)
    <2>1. attempt[s] = 0
      BY <1>3, <1>7 DEF StageOK, StageBegins
    <2>2. <<s, 1>> \notin refs
      BY <1>3, <1>4, <2>1
    <2>3. \/ \E r, basis : EndAttempt(s, 1, r, basis)
          \/ BeginAttempt(s, 1)
      BY <1>7 DEF StageBegins
    <2> QED BY <1>6, <2>2, <2>3, OthersStand
  <1>8. CASE NextAttempt(s)
    <2>1. <<s, attempt[s] + 1>> \notin refs
      BY <1>3, <1>4
    <2> QED BY <1>6, <1>8, <2>1 DEF NextAttempt
  <1>9. CASE Observe(s) \/ Drain(s)
    <2>1. phase[s] \in Computing
      BY <1>9 DEF Observe, Drain, Computing
    <2>2. <<s, attempt[s]>> \notin refs
      BY <1>3, <1>4, <2>1
    <2>3. \E r, basis : EndAttempt(s, attempt[s], r, basis)
      <3>1. CASE Observe(s) BY <3>1 DEF Observe
      <3>2. CASE Drain(s) BY <3>2 DEF Drain
      <3> QED BY <1>9, <3>1, <3>2
    <2> QED BY <2>2, <2>3, OthersStand
  <1>10. CASE Interrupt(s)
    BY <1>5, <1>10 DEF Interrupt, storeVars
  <1> QED BY <1>7, <1>8, <1>9, <1>10 DEF StageStep

LEMMA RecordStands ==
  ASSUME IInv, [Next]_vars
  PROVE  /\ \A a \in refs : stageFile'[a] = stageFile[a]
         /\ pc \in {"done", "raised", "stalled"} => UNCHANGED <<runFile, stageFile>>
  <1>1. CASE Start \/ Finish
    BY <1>1 DEF Start, Finish
  <1>2. CASE StartFails \/ Collect \/ CloseAfterError \/ ExternalCancel
               \/ ForwardCancellation \/ Restart \/ UNCHANGED vars
    BY <1>2 DEF StartFails, Collect, CloseAfterError, ExternalCancel,
                ForwardCancellation, Restart, vars, storeVars
  <1>3. ASSUME NEW a \in Attempts, JobBegins(a) \/ JobEnds(a)
        PROVE  UNCHANGED <<runFile, stageFile>>
    BY <1>3 DEF JobBegins, JobEnds, storeVars
  <1>4. CASE \E s \in Stages : StageStep(s)
    BY <1>4, StageStepStands
  <1> QED BY <1>1, <1>2, <1>3, <1>4 DEF Next

\* A recorded attempt is never rewritten in its execution, and after run() nothing
\* is written (_run_stage, the gather of run's exception path, RunJournal).
THEOREM RecordsAlwaysStand == Spec => RecordsStand
  <1>1. IInv /\ [Next]_vars =>
          [/\ \A a \in refs : stageFile'[a] = stageFile[a]
           /\ pc \in {"done", "raised", "stalled"} => UNCHANGED <<runFile, stageFile>>]_vars
    BY RecordStands
  <1> QED BY <1>1, Invariance, PTL DEF Spec, RecordsStand
-----------------------------------------------------------------------------
(***************************************************************************)
(* The engine implements the abstract DAG run.                              *)
(***************************************************************************)
\* What the abstract run sees of a Stage, and of the run.
StageStatus(s) ==
  CASE phase[s] = "pending" -> "waiting"
    [] phase[s] \in {"returned", "collected"} -> result[s].status
    [] phase[s] = "raised" -> "broken"
    [] OTHER -> "running"
RunVerdict ==
  CASE pc = "idle" -> "idle"
    [] pc \in {"waiting", "closing", "finishing"} -> "open"
    [] pc = "done" -> runFile.status
    [] OTHER -> "aborted"
DagStatus == [s \in Stages |-> StageStatus(s)]

DagLaunchable == {s \in Stages : /\ DagStatus[s] = "waiting"
                                 /\ \A d \in Deps[s] : DagStatus[d] \in Good}
DagBad == {"failed", "cancelled", "broken"}

LEMMA DagStates ==
  /\ Dag!Init <=> DagStatus = [s \in Stages |-> "waiting"] /\ RunVerdict = "idle"
  /\ UNCHANGED Dag!dagVars <=> UNCHANGED <<DagStatus, RunVerdict>>
  BY DEF Dag!Init, Dag!dagVars, DagStatus, StageStatus, RunVerdict

\* The steps of the abstract run, in these terms.
LEMMA DagOpen ==
  Dag!Open <=> /\ RunVerdict = "idle" /\ RunVerdict' \in {"open", "aborted"}
               /\ \E S \in SUBSET DagLaunchable :
                    DagStatus' = [s \in Stages |-> IF s \in S THEN "running" ELSE DagStatus[s]]
  BY DEF Dag!Open, Dag!Launchable, Dag!Running, Dag!Good, Good,
         DagLaunchable, DagStatus, StageStatus, RunVerdict

LEMMA DagLaunch ==
  Dag!Launch <=> /\ RunVerdict = "open" /\ RunVerdict' = RunVerdict
                 /\ \A s \in Stages : DagStatus[s] \notin DagBad
                 /\ \E S \in SUBSET DagLaunchable :
                      DagStatus' = [s \in Stages |-> IF s \in S THEN "running" ELSE DagStatus[s]]
  BY DEF Dag!Launch, Dag!Launchable, Dag!Running, Dag!Good, Dag!Bad, Good, DagBad,
         DagLaunchable, DagStatus, StageStatus, RunVerdict

LEMMA DagSettle ==
  ASSUME NEW s
  PROVE  Dag!Settle(s) <=> /\ DagStatus[s] = "running" /\ RunVerdict' = RunVerdict
                           /\ \E st \in Good \cup DagBad : DagStatus' = [DagStatus EXCEPT ![s] = st]
  BY DEF Dag!Settle, Dag!Good, Dag!Bad, Good, DagBad, DagStatus, StageStatus, RunVerdict

LEMMA DagClose ==
  Dag!Close <=> /\ RunVerdict = "open" /\ DagStatus' = DagStatus
                /\ \A s \in Stages : DagStatus[s] # "running"
                /\ \/ RunVerdict' = "succeeded" /\ \A s \in Stages : DagStatus[s] \in Good
                   \/ RunVerdict' = "failed" /\ \E s \in Stages : DagStatus[s] = "failed"
                   \/ /\ RunVerdict' = "cancelled"
                      /\ \E s \in Stages : DagStatus[s] \notin Good
                      /\ \A s \in Stages : DagStatus[s] # "failed"
                   \/ RunVerdict' = "aborted"
  BY DEF Dag!Close, Dag!Quiet, Dag!Justified, Dag!Good, Good, DagStatus, StageStatus, RunVerdict

LEMMA DagRestart ==
  Dag!Restart <=> DagStatus' = [s \in Stages |-> "waiting"] /\ RunVerdict' = "idle"
  BY DEF Dag!Restart, DagStatus, StageStatus, RunVerdict

DagStep == [Dag!Next]_(Dag!dagVars)

LEMMA DagStutters ==
  ASSUME DagStatus' = DagStatus, RunVerdict' = RunVerdict
  PROVE  DagStep
  BY DagStates DEF DagStep

\* The Stages that no step touches look the same.
LEMMA SameStatus ==
  ASSUME NEW s, phase'[s] = phase[s], result'[s] = result[s]
  PROVE  StageStatus(s)' = StageStatus(s)
  BY DEF StageStatus

LEMMA AllSame ==
  ASSUME \A s \in Stages : StageStatus(s)' = StageStatus(s)
  PROVE  DagStatus' = DagStatus
  BY DEF DagStatus

LEMMA StatusIs ==
  ASSUME TypeOK, NEW s \in Stages, StageOK(s)
  PROVE  /\ phase[s] = "pending" => StageStatus(s) = "waiting"
         /\ phase[s] \in Reported => StageStatus(s) = result[s].status
                                     /\ StageStatus(s) \in Exec!Terminal
         /\ phase[s] = "raised" => StageStatus(s) = "broken"
         /\ phase[s] \in Working => StageStatus(s) = "running"
         /\ DagStatus[s] = StageStatus(s)
  <1>1. phase[s] \in Reported => result[s].status \in Exec!Terminal
    BY ReplyFacts DEF TypeOK, StageOK
  <1> QED BY <1>1 DEF StageStatus, DagStatus, Reported, Working
LEMMA IInvParts ==
  ASSUME IInv
  PROVE  /\ TypeOK /\ RunOK /\ TerminalOK
         /\ \A s \in Stages : StageOK(s) /\ phase[s] \in Phases
  BY DEF IInv, TypeOK

\* A coroutine that works is running; when it ends, the Stage is settled.
LEMMA AtWorkRefines ==
  ASSUME IInv, IInv', NEW s \in Stages, phase[s] \in Working, phase'[s] \in Working,
         pc' = pc, \A d \in Stages \ {s} : phase'[d] = phase[d] /\ result'[d] = result[d]
  PROVE  DagStep
  <1>1. StageStatus(s) = "running"
    BY StatusIs, IInvParts
  <1>2. StageStatus(s)' = "running"
    BY DEF StageStatus, Working
  <1>3. DagStatus' = DagStatus
    BY <1>1, <1>2, SameStatus, AllSame
  <1>4. RunVerdict' = RunVerdict
    BY OpenRun DEF RunVerdict
  <1> QED BY <1>3, <1>4, DagStutters

LEMMA EndAttemptRefines ==
  ASSUME IInv, IInv', NEW s \in Stages, NEW n, NEW r \in Results, NEW basis,
         phase[s] \in Working, EndAttempt(s, n, r, basis), pc' = pc
  PROVE  DagStep
  <1>1. /\ phase \in [Stages -> Phases] /\ result \in [Stages -> Results \cup {None}]
        /\ StageStatus(s) = "running" /\ DagStatus[s] = "running"
    BY StatusIs, IInvParts DEF TypeOK
  <1>2. result' = [result EXCEPT ![s] = r]
    BY DEF EndAttempt
  <1>3. \E p \in {"backoff", "returned", "raised"} : phase' = [phase EXCEPT ![s] = p]
    BY DEF EndAttempt, RecordStage
  <1>4. phase'[s] \in {"backoff", "returned", "raised"} /\ result'[s] = r
    BY <1>1, <1>2, <1>3
  <1>5. \A d \in Stages \ {s} : phase'[d] = phase[d] /\ result'[d] = result[d]
    BY <1>1, <1>2, <1>3
  <1>6. CASE phase'[s] = "backoff"
    BY <1>5, <1>6, AtWorkRefines DEF Working
  <1>7. CASE phase'[s] \in {"returned", "raised"}
    <2> DEFINE st == StageStatus(s)'
    <2>1. r.status \in {"succeeded", "skipped", "failed", "cancelled"}
      BY ReplyFacts DEF Exec!Terminal
    <2>2. st \in Good \cup DagBad
      BY <1>4, <1>7, <2>1 DEF StageStatus, Good, DagBad
    <2>3. \A d \in Stages \ {s} : StageStatus(d)' = StageStatus(d)
      BY <1>5, SameStatus
    <2>4. DagStatus' = [DagStatus EXCEPT ![s] = st]
      <3>1. DagStatus' = [d \in Stages |-> StageStatus(d)']
        BY DEF DagStatus
      <3>2. DagStatus = [d \in Stages |-> StageStatus(d)]
        BY DEF DagStatus
      <3> QED BY <2>3, <3>1, <3>2
    <2>5. RunVerdict' = RunVerdict
      BY OpenRun DEF RunVerdict
    <2>6. Dag!Settle(s)
      BY <1>1, <2>2, <2>4, <2>5, DagSettle
    <2> QED BY <2>6 DEF DagStep, Dag!Next
  <1> QED BY <1>4, <1>6, <1>7

LEMMA StageStepRefines ==
  ASSUME IInv, IInv', NEW s \in Stages, StageStep(s)
  PROVE  DagStep
  <1>1. /\ TypeOK /\ StageOK(s) /\ phase \in [Stages -> Phases]
    BY IInvParts DEF TypeOK
  <1>2. CASE Observe(s)
    <2>1. phase[s] \in Working /\ phase[s] \in Computing
      BY <1>2 DEF Observe, Working, Computing
    <2>2. Current(s) \in Attempts
      BY <1>1, <2>1, EngineAssumption DEF Current, Attempts, TypeOK, StageOK, Computing
    <2>3. Validated(completion[Current(s)]) \in Results
      BY <1>1, <1>2, <2>2, ValidatedFacts DEF Observe, TypeOK
    <2>4. pc' = pc
      BY <1>2 DEF Observe, schedVars
    <2>5. EndAttempt(s, attempt[s], Validated(completion[Current(s)]), TaskInputs(s))
      BY <1>2 DEF Observe
    <2> QED BY <2>1, <2>3, <2>4, <2>5, EndAttemptRefines
  <1>3. CASE Drain(s)
    <2>1. phase[s] \in Working /\ verdict[s] \in Results /\ pc' = pc
      BY <1>1, <1>3, ReplyFacts DEF Drain, Working, TypeOK, StageOK, schedVars
    <2>2. EndAttempt(s, attempt[s], verdict[s], TaskInputs(s))
      BY <1>3 DEF Drain
    <2> QED BY <2>1, <2>2, EndAttemptRefines
  <1>4. CASE Interrupt(s)
    <2>1. /\ phase[s] \in Working /\ phase' = [phase EXCEPT ![s] = "draining"]
          /\ result' = result /\ pc' = pc
      BY <1>4 DEF Interrupt, Working, schedVars
    <2>2. phase'[s] \in Working /\ \A d \in Stages \ {s} : phase'[d] = phase[d]
      BY <1>1, <2>1 DEF Working
    <2> QED BY <2>1, <2>2, AtWorkRefines
  <1>5. ASSUME NEW n, BeginAttempt(s, n), phase[s] \in {"started", "backoff"}, pc' = pc
        PROVE  DagStep
    <2>1. phase[s] \in Working
      BY <1>5 DEF Working
    <2>2. CASE EndAttempt(s, n, Cancelled, TaskInputs(s))
      BY <1>5, <2>1, <2>2, ReplyFacts, EndAttemptRefines
    <2>3. CASE EndAttempt(s, n, Transient, TaskInputs(s))
      BY <1>5, <2>1, <2>3, ReplyFacts, EndAttemptRefines
    <2>4. CASE phase' = [phase EXCEPT ![s] = "awaiting"] /\ result' = result
      <3>1. phase'[s] \in Working /\ \A d \in Stages \ {s} : phase'[d] = phase[d]
        BY <1>1, <2>4 DEF Working
      <3> QED BY <1>5, <2>1, <2>4, <3>1, AtWorkRefines
    <2> QED BY <1>5, <2>2, <2>3, <2>4 DEF BeginAttempt
  <1>6. CASE NextAttempt(s)
    BY <1>5, <1>6 DEF NextAttempt, schedVars
  <1>7. CASE StageBegins(s)
    <2>1. phase[s] = "started" /\ phase[s] \in Working /\ pc' = pc
      BY <1>7 DEF StageBegins, schedVars, Working
    <2>2. CASE EndAttempt(s, 1, Failed, TaskInputs(s))
      BY <2>1, <2>2, ReplyFacts, EndAttemptRefines
    <2>3. ASSUME NEW a \in Candidates(s),
                 EndAttempt(s, 1, Validated(stageFile[a].result), stageFile[a].basis)
          PROVE  DagStep
      <3>1. stageFile[a] \in Manifests
        BY <1>1 DEF Candidates, TypeOK
      <3>2. Validated(stageFile[a].result) \in Results
        BY <3>1, ValidatedFacts DEF Manifests
      <3> QED BY <2>1, <2>3, <3>2, EndAttemptRefines
    <2>4. CASE BeginAttempt(s, 1)
      BY <1>5, <2>1, <2>4
    <2> QED BY <1>7, <2>2, <2>3, <2>4 DEF StageBegins
  <1> QED BY <1>2, <1>3, <1>4, <1>6, <1>7 DEF StageStep

\* A round launches Stages, and only while nothing went wrong.
LEMMA RoundStatus ==
  ASSUME IInv, NEW F \in SUBSET Stages, \A s \in F : phase[s] = "returned",
         result' = result, NEW go \in SUBSET Ready(RoundOf(F)),
         phase' = [s \in Stages |-> IF s \in go THEN "started" ELSE RoundOf(F)[s]]
  PROVE  /\ DagStatus' = [s \in Stages |-> IF s \in go THEN "running" ELSE DagStatus[s]]
         /\ go \in SUBSET DagLaunchable
  <1>1. \A s \in Stages : RoundOf(F)[s] = IF s \in F THEN "collected" ELSE phase[s]
    BY DEF RoundOf
  <1>2. \A s \in Stages : DagStatus[s] = StageStatus(s)
    BY DEF DagStatus
  <1>3. ASSUME NEW s \in Stages
        PROVE  StageStatus(s)' = IF s \in go THEN "running" ELSE StageStatus(s)
    <2>1. CASE s \in go
      BY <2>1 DEF StageStatus
    <2>2. CASE s \notin go /\ s \in F
      BY <1>1, <2>2 DEF StageStatus
    <2>3. CASE s \notin go /\ s \notin F
      BY <1>1, <2>3, SameStatus
    <2> QED BY <2>1, <2>2, <2>3
  <1>4. DagStatus' = [s \in Stages |-> StageStatus(s)']
    BY DEF DagStatus
  <1>5. ASSUME NEW s \in go
        PROVE  s \in DagLaunchable
    <2>1. /\ s \in Stages /\ RoundOf(F)[s] = "pending"
          /\ \A d \in Deps[s] : RoundOf(F)[d] = "collected" /\ EndedWell(result[d])
      BY DEF Ready
    <2>2. phase[s] = "pending"
      BY <1>1, <2>1
    <2>3. DagStatus[s] = "waiting"
      BY <1>2, <2>1, <2>2 DEF StageStatus
    <2>4. ASSUME NEW d \in Deps[s] PROVE DagStatus[d] \in Good
      <3>1. d \in Stages
        BY <2>1, EngineAssumption
      <3>2. phase[d] \in {"returned", "collected"}
        BY <1>1, <2>1, <3>1
      <3>3. DagStatus[d] = result[d].status
        BY <1>2, <3>1, <3>2 DEF StageStatus
      <3> QED BY <2>1, <3>3 DEF EndedWell
    <2> QED BY <2>1, <2>3, <2>4 DEF DagLaunchable
  <1> QED BY <1>2, <1>3, <1>4, <1>5

LEMMA StartRefines ==
  ASSUME IInv, Start
  PROVE  DagStep
  <1>1. /\ TypeOK /\ pc = "idle" /\ \A s \in Stages : phase[s] = "pending"
        /\ available' = available /\ internal' = external' /\ result' = result
    BY DEF IInv, RunOK, Start
  <1>2. phase = RoundOf({}) /\ phase \in [Stages -> Phases]
    BY <1>1 DEF RoundOf, TypeOK
  <1>3. Schedule(RoundOf({}), available', internal', None)
    <2>1. Schedule(phase, available, external', None)
      BY DEF Start
    <2> QED BY <1>1, <1>2, <2>1
  <1>4. PICK go \in SUBSET Ready(RoundOf({})) :
          /\ phase' = [s \in Stages |-> IF s \in go THEN "started" ELSE RoundOf({})[s]]
          /\ pc' \in {"waiting", "finishing", "stalled"}
    BY <1>2, <1>3, Scheduled
  <1>5. /\ DagStatus' = [s \in Stages |-> IF s \in go THEN "running" ELSE DagStatus[s]]
        /\ go \in SUBSET DagLaunchable
    BY <1>1, <1>4, RoundStatus
  <1>6. RunVerdict = "idle" /\ RunVerdict' \in {"open", "aborted"}
    BY <1>1, <1>4 DEF RunVerdict
  <1>7. Dag!Open
    BY <1>5, <1>6, DagOpen
  <1> QED BY <1>7 DEF DagStep, Dag!Next

LEMMA StartFailsRefines ==
  ASSUME IInv, StartFails
  PROVE  DagStep
  <1>1. RunVerdict = "idle" /\ RunVerdict' = "aborted"
    BY DEF StartFails, RunVerdict
  <1>2. DagStatus' = DagStatus
    BY SameStatus, AllSame DEF StartFails, coroVars
  <1>3. DagStatus = [s \in Stages |-> DagStatus[s]]
    BY DEF DagStatus
  <1>4. DagStatus' = [s \in Stages |-> IF s \in {} THEN "running" ELSE DagStatus[s]]
    BY <1>2, <1>3
  <1>5. \E S \in SUBSET DagLaunchable :
          DagStatus' = [s \in Stages |-> IF s \in S THEN "running" ELSE DagStatus[s]]
    <2>1. {} \in SUBSET DagLaunchable
      OBVIOUS
    <2> QED BY <1>4, <2>1
  <1>6. Dag!Open
    BY <1>1, <1>5, DagOpen
  <1> QED BY <1>6 DEF DagStep, Dag!Next

\* Closing: nothing runs, and what the abstract run sees does not change.
LEMMA QuietStatus ==
  ASSUME IInv, \A s \in Stages : phase[s] \notin Working
  PROVE  \A s \in Stages : DagStatus[s] # "running"
  <1> TAKE s \in Stages
  <1>1. TypeOK /\ StageOK(s) /\ phase[s] \in Phases
    BY IInvParts
  <1>2. phase[s] \in {"pending", "raised"} \cup Reported
    BY <1>1 DEF Phases, Active, Working, Reported
  <1> QED BY <1>1, <1>2, StatusIs DEF Exec!Terminal

LEMMA AbortRefines ==
  ASSUME IInv, \A s \in Stages : phase[s] \notin Working,
         DagStatus' = DagStatus, RunVerdict = "open", RunVerdict' = "aborted"
  PROVE  DagStep
  <1>1. Dag!Close
    BY QuietStatus, DagClose
  <1> QED BY <1>1 DEF DagStep, Dag!Next

LEMMA CollectRefines ==
  ASSUME IInv, Collect
  PROVE  DagStep
  <1>1. /\ TypeOK /\ TerminalOK /\ pc = "waiting" /\ Finished \in SUBSET Stages
        /\ result' = result /\ phase \in [Stages -> Phases]
    BY DEF IInv, TypeOK, Collect, Finished
  <1>2. CASE \E s \in Finished : phase[s] = "raised"
    <2>1. pc' = "closing" /\ phase' = phase
      BY <1>2 DEF Collect
    <2>2. DagStatus' = DagStatus
      BY <1>1, <2>1, SameStatus, AllSame
    <2>3. RunVerdict' = RunVerdict
      BY <1>1, <2>1 DEF RunVerdict
    <2> QED BY <2>2, <2>3, DagStutters
  <1>3. CASE ~ \E s \in Finished : phase[s] = "raised"
    <2> DEFINE F == Finished
               term == Settled(Finished)
    <2>1. /\ \A s \in F : phase[s] = "returned"
          /\ \A s \in Stages : phase[s] \in {"returned", "raised"} => s \in F
      BY <1>3 DEF Finished
    <2>2. /\ internal' = (internal \/ term # None)
          /\ Schedule(RoundOf(F), available', internal', term)
      BY <1>3 DEF Collect, RoundOf
    <2>3. PICK go \in SUBSET Ready(RoundOf(F)) :
            /\ phase' = [s \in Stages |-> IF s \in go THEN "started" ELSE RoundOf(F)[s]]
            /\ go # {} => ~ internal' \/ \A s \in Stages : RoundOf(F)[s] = "pending"
            /\ \/ pc' = "waiting"
               \/ /\ go = {} /\ \A s \in Stages : phase'[s] \in Resting
                  /\ pc' \in {"finishing", "stalled"}
      BY <1>1, <2>2, Scheduled
    <2>4. /\ term = None =>
               \A s \in Stages : RoundOf(F)[s] = "collected" => EndedWell(result[s])
          /\ \A s \in Stages : RoundOf(F)[s] = IF s \in F THEN "collected" ELSE phase[s]
      BY <1>1, <2>1, SettledFacts DEF RoundOf
    <2>5. F # {} /\ internal \in BOOLEAN
      BY <1>1 DEF Collect, TypeOK
    <2> HIDE DEF F, term
    <2>6. /\ DagStatus' = [s \in Stages |-> IF s \in go THEN "running" ELSE DagStatus[s]]
          /\ go \in SUBSET DagLaunchable
      BY <1>1, <2>1, <2>3, RoundStatus DEF F
    <2>7. DagStatus = [s \in Stages |-> DagStatus[s]]
      BY DEF DagStatus
    <2>8. CASE go = {} /\ pc' \in {"waiting", "finishing"}
      <3>1. DagStatus' = DagStatus
        BY <2>6, <2>7, <2>8
      <3>2. RunVerdict' = RunVerdict
        BY <1>1, <2>8 DEF RunVerdict
      <3> QED BY <3>1, <3>2, DagStutters
    <2>9. CASE go # {} /\ pc' = "waiting"
      <3>1. ~ internal' /\ term = None
        <4>1. PICK s \in F : TRUE
          BY <2>5
        <4>2. s \in Stages /\ RoundOf(F)[s] = "collected"
          BY <1>1, <2>4, <4>1 DEF F
        <4>3. ~ internal'
          BY <2>3, <2>9, <4>2
        <4> QED BY <2>2, <2>5, <4>3
      <3>2. ASSUME NEW s \in Stages PROVE DagStatus[s] \notin DagBad
        <4>1. StageOK(s) /\ phase[s] \in Phases
          BY IInvParts
        <4>2. CASE phase[s] \in Reported
          <5>1. RoundOf(F)[s] = "collected"
            BY <2>1, <2>4, <4>2 DEF Reported
          <5>2. result[s].status \in Good
            BY <2>4, <3>1, <5>1 DEF EndedWell
          <5> QED BY <1>1, <4>1, <4>2, <5>2, StatusIs DEF Good, DagBad
        <4>3. CASE phase[s] = "raised"
          BY <2>1, <4>3
        <4>4. CASE phase[s] \in Working \cup {"pending"}
          BY <1>1, <4>1, <4>4, StatusIs DEF DagBad
        <4> QED BY <4>1, <4>2, <4>3, <4>4 DEF Phases, Active, Reported, Working
      <3>3. RunVerdict = "open" /\ RunVerdict' = RunVerdict
        BY <1>1, <2>9 DEF RunVerdict
      <3>4. Dag!Launch
        BY <2>6, <3>2, <3>3, DagLaunch
      <3> QED BY <3>4 DEF DagStep, Dag!Next
    <2>10. CASE go = {} /\ pc' = "stalled" /\ \A s \in Stages : phase'[s] \in Resting
      <3>1. DagStatus' = DagStatus
        BY <2>6, <2>7, <2>10
      <3>2. RunVerdict = "open" /\ RunVerdict' = "aborted"
        BY <1>1, <2>10 DEF RunVerdict
      <3>3. \A s \in Stages : phase[s] \notin Working
        BY <2>1, <2>3, <2>4, <2>10 DEF Working, Resting
      <3> QED BY <3>1, <3>2, <3>3, AbortRefines
    <2> QED BY <2>3, <2>8, <2>9, <2>10
  <1> QED BY <1>2, <1>3

LEMMA CloseAfterErrorRefines ==
  ASSUME IInv, CloseAfterError
  PROVE  DagStep
  <1>1. RunVerdict = "open" /\ RunVerdict' = "aborted"
    BY DEF CloseAfterError, RunVerdict
  <1>2. DagStatus' = DagStatus
    BY SameStatus, AllSame DEF CloseAfterError, coroVars
  <1>3. \A s \in Stages : phase[s] \notin Working
    BY DEF CloseAfterError, Active, Working
  <1> QED BY <1>1, <1>2, <1>3, AbortRefines

LEMMA FinishRefines ==
  ASSUME IInv, Finish
  PROVE  DagStep
  <1>1. /\ TypeOK /\ TerminalOK /\ pc = "finishing"
        /\ \A s \in Stages : StageOK(s) /\ phase[s] \in Resting
        /\ terminal = None => \A s \in Stages : phase[s] = "collected"
    BY DEF IInv, RunOK, Finish
  <1>2. DagStatus' = DagStatus /\ RunVerdict = "open"
    BY <1>1, SameStatus, AllSame DEF Finish, coroVars, RunVerdict
  <1>3. \A s \in Stages : phase[s] \notin Working
    BY <1>1 DEF Resting, Working
  <1>4. CASE pc' = "raised"
    <2>1. RunVerdict' = "aborted"
      BY <1>4 DEF RunVerdict
    <2> QED BY <1>2, <1>3, <2>1, AbortRefines
  <1>5. CASE /\ SaveRun(IF terminal = None THEN "succeeded" ELSE terminal, refs)
             /\ pc' = "done"
    <2>1. RunVerdict' = IF terminal = None THEN "succeeded" ELSE terminal
      BY <1>5 DEF RunVerdict, SaveRun
    <2>2. \A s \in Stages : /\ phase[s] = "collected" => DagStatus[s] = result[s].status
                            /\ phase[s] = "pending" => DagStatus[s] = "waiting"
      BY <1>1, StatusIs DEF Reported
    <2>3. terminal \in {None, "failed", "cancelled"}
      BY <1>1 DEF TypeOK
    <2>4. CASE terminal = None
      <3>1. \A s \in Stages : DagStatus[s] \in Good
        BY <1>1, <2>2, <2>4 DEF TerminalOK, EndedWell
      <3>2. Dag!Close
        BY <1>2, <1>3, <2>1, <2>4, <3>1, QuietStatus, DagClose
      <3> QED BY <3>2 DEF DagStep, Dag!Next
    <2>5. CASE terminal = "failed"
      <3>1. \E s \in Stages : DagStatus[s] = "failed"
        BY <1>1, <2>2, <2>5 DEF TerminalOK
      <3>2. RunVerdict' = "failed"
        BY <2>1, <2>5, NoneIsNothing
      <3>3. Dag!Close
        BY <1>2, <1>3, <3>1, <3>2, QuietStatus, DagClose
      <3> QED BY <3>3 DEF DagStep, Dag!Next
    <2>6. CASE terminal = "cancelled"
      <3>1. /\ \A s \in Stages : phase[s] = "collected" => result[s].status # "failed"
            /\ \E s \in Stages : \/ phase[s] = "collected" /\ result[s].status = "cancelled"
                                 \/ phase[s] = "pending"
        BY <1>1, <2>6 DEF TerminalOK
      <3>2. \A s \in Stages : DagStatus[s] # "failed"
        BY <1>1, <2>2, <3>1 DEF Resting
      <3>3. \E s \in Stages : DagStatus[s] \notin Good
        BY <2>2, <3>1 DEF Good
      <3>4. RunVerdict' = "cancelled"
        BY <2>1, <2>6, NoneIsNothing
      <3>5. Dag!Close
        BY <1>2, <1>3, <3>2, <3>3, <3>4, QuietStatus, DagClose
      <3> QED BY <3>5 DEF DagStep, Dag!Next
    <2> QED BY <2>3, <2>4, <2>5, <2>6
  <1> QED BY <1>4, <1>5 DEF Finish

LEMMA RestartRefines ==
  ASSUME Restart
  PROVE  DagStep
  <1>1. RunVerdict' = "idle"
    BY DEF Restart, RunVerdict
  <1>2. \A s \in Stages : phase'[s] = "pending"
    BY DEF Restart
  <1>3. DagStatus' = [s \in Stages |-> "waiting"]
    BY <1>2 DEF DagStatus, StageStatus
  <1>4. Dag!Restart
    BY <1>1, <1>3, DagRestart
  <1> QED BY <1>4 DEF DagStep, Dag!Next

LEMMA NextRefines ==
  ASSUME IInv, IInv', [Next]_vars
  PROVE  DagStep
  <1>1. ASSUME pc' = pc, phase' = phase, result' = result, runFile' = runFile
        PROVE  DagStep
    <2>1. DagStatus' = DagStatus
      BY <1>1, SameStatus, AllSame
    <2>2. RunVerdict' = RunVerdict
      BY <1>1 DEF RunVerdict
    <2> QED BY <2>1, <2>2, DagStutters
  <1>2. CASE UNCHANGED vars
    BY <1>1, <1>2 DEF vars, schedVars, coroVars, storeVars
  <1>3. CASE ExternalCancel \/ ForwardCancellation
    BY <1>1, <1>3 DEF ExternalCancel, ForwardCancellation, schedVars, coroVars, storeVars
  <1>4. ASSUME NEW a \in Attempts, JobBegins(a) \/ JobEnds(a) PROVE DagStep
    BY <1>1, <1>4 DEF JobBegins, JobEnds, schedVars, coroVars, storeVars
  <1>5. CASE Start \/ StartFails
    BY <1>5, StartRefines, StartFailsRefines
  <1>6. CASE Collect \/ CloseAfterError \/ Finish
    BY <1>6, CollectRefines, CloseAfterErrorRefines, FinishRefines
  <1>7. CASE Restart
    BY <1>7, RestartRefines
  <1>8. ASSUME NEW s \in Stages, StageStep(s) PROVE DagStep
    BY <1>8, StageStepRefines
  <1> QED BY <1>2, <1>3, <1>4, <1>5, <1>6, <1>7, <1>8 DEF Next

\* PipelineEngine.run keeps the promises of the abstract DAG run whatever its
\* executor, cache, retries, cancellations and crashes do: a Stage is launched
\* once, only after its dependencies ended well and never after some Stage went
\* wrong, and the run is closed with nothing running and a justified verdict.
THEOREM EngineImplementsDagRun == Spec => ImplementsDagRun
  <1>1. Init => Dag!Init
    <2> SUFFICES ASSUME Init PROVE Dag!Init
      OBVIOUS
    <2>1. \A s \in Stages : StageStatus(s) = "waiting"
      BY DEF Init, StageStatus
    <2>2. DagStatus = [s \in Stages |-> "waiting"] /\ RunVerdict = "idle"
      BY <2>1 DEF DagStatus, RunVerdict, Init
    <2> QED BY <2>2, DagStates
  <1>2. IInv /\ IInv' /\ [Next]_vars => [Dag!Next]_Dag!dagVars
    BY NextRefines DEF DagStep
  <1> QED BY <1>1, <1>2, Invariance, PTL DEF Spec, ImplementsDagRun, Dag!Spec
=============================================================================
