---------------------- MODULE SceneReprocessingProofs ----------------------
(***************************************************************************)
(* Proofs about SceneReprocessing: the import of a run that is rewritten     *)
(* under it, for any number of reruns, failures and retries, and the         *)
(* documents the visual Stages make of it, for any scenes, any hashes and    *)
(* any selection.                                                            *)
(***************************************************************************)
EXTENDS SceneReprocessing, SequenceTheorems, FiniteSetTheorems, WellFoundedInduction, TLAPS

Artifacts == ToSet(Names)
Contents == 1 .. MaxReruns + 1

\* Once the manifest is about to be written, and after.
Imported == {"committing", "committed", "keyframes", "captions", "done", "rejected"}
Idle == {"idle", "resolved", "searched"}

\* Every write of the source run leaves a content newer than all before it.
TreeOK ==
  /\ reruns \in 0 .. MaxReruns
  /\ rewriting \in Seq(Artifacts)
  /\ \A n \in Artifacts : succeeded[n] <= parent[n] /\ parent[n] <= reruns + 1

\* The service has answered the query, and the plan has its scenes.
Planned == step \notin Idle /\ (step = "refused" => plan.scenes # << >>)

PlanShape == plan = [refs |-> plan.refs, index |-> plan.index,
                     timeline |-> plan.timeline, scenes |-> plan.scenes]

\* A content that was read after the refs were resolved.
ReadFrom(content, n) ==
  content \in Contents /\ plan.refs[n] <= content /\ content <= parent[n]

\* What a plan was made from is not newer than the tree, and its refs are not
\* newer than what the query read.
PlanOK ==
  /\ PlanShape
  /\ step \in Idle => plan.scenes = << >>
  /\ step # "idle" =>
       /\ plan.refs \in [Artifacts -> Contents]
       /\ \A n \in Artifacts : plan.refs[n] <= parent[n]
  /\ step \notin {"idle", "resolved"} => ReadFrom(plan.index, "search_index")
  /\ Planned => ReadFrom(plan.timeline, "timeline")

\* Artifact k was verified for the import under way.
Passed(k) == \/ step \in Imported \cup {"copying", "publishing"}
             \/ step = "verifying" /\ position > k

\* What was verified is what the query read.
VerifiedOK ==
  /\ Passed(5) => plan.index = plan.refs["search_index"]
  /\ Passed(6) => plan.timeline = plan.refs["timeline"]

Ref(i) == << Names[i], plan.refs[Names[i]] >>

\* How far verifying, copying and publishing have come.
ProgressOK ==
  /\ step \notin {"verifying", "copying", "publishing"} => position = 1
  /\ step = "copying" => /\ Len(pending) = position - 1
                         /\ \A i \in 1 .. Len(pending) : pending[i] = Ref(i)
  /\ step = "publishing" =>
       /\ Len(pending) = 7 - position
       /\ \A i \in 1 .. Len(pending) : pending[i] = Ref(position - 1 + i)
       /\ \A i \in 1 .. position - 1 : /\ Names[i] \in DOMAIN target
                                       /\ target[Names[i]] = plan.refs[Names[i]]
  /\ step \in Imported => target = plan.refs
  /\ manifest => step \in Imported \ {"committing"}

\* The inductive invariant.
IInv == TypeOK /\ TreeOK /\ PlanOK /\ VerifiedOK /\ ProgressOK /\ PendingDiscarded
-----------------------------------------------------------------------------
LEMMA Lengths == /\ Len(Names) = 6 /\ DOMAIN Names = 1 .. 6
                 /\ Len(Written) = 6 /\ DOMAIN Written = 1 .. 6
  BY DEF Names, Written

LEMMA FirstName == 1 \in DOMAIN Names
  BY Lengths

LEMMA NamesAre ==
  /\ Len(Names) = 6 /\ DOMAIN Names = 1 .. 6
  /\ \A i \in 1 .. 6 : Names[i] \in Artifacts
  /\ \A n \in Artifacts : \E i \in 1 .. 6 : n = Names[i]
  /\ \A i, j \in 1 .. 6 : Names[i] = Names[j] => i = j
  /\ Names[5] = "search_index" /\ Names[6] = "timeline"
  /\ "search_index" \in Artifacts /\ "timeline" \in Artifacts
  <1>1. /\ Len(Names) = 6 /\ DOMAIN Names = 1 .. 6
        /\ Names[1] = "captions" /\ Names[2] = "keyframes" /\ Names[3] = "ocr"
        /\ Names[4] = "scenes" /\ Names[5] = "search_index" /\ Names[6] = "timeline"
    BY DEF Names
  <1>2. \A i \in 1 .. 6 : i = 1 \/ i = 2 \/ i = 3 \/ i = 4 \/ i = 5 \/ i = 6
    OBVIOUS
  <1>3. Artifacts = {Names[i] : i \in 1 .. 6}
    BY <1>1 DEF Artifacts, ToSet
  <1>4. \A i, j \in 1 .. 6 : Names[i] = Names[j] => i = j
    BY <1>1, <1>2
  <1> QED BY <1>1, <1>3, <1>4

\* What a run writes are the artifacts of the plan.
LEMMA WrittenAre == Written \in Seq(Artifacts) /\ Len(Written) = 6 /\ DOMAIN Written = 1 .. 6
  <1>1. Len(Written) = 6 /\ DOMAIN Written = 1 .. 6
    BY DEF Written
  <1>2. Artifacts = {"captions", "keyframes", "ocr", "scenes", "search_index", "timeline"}
    BY DEF Artifacts, ToSet, Names
  <1>3. Written \in Seq(Artifacts)
    BY <1>2 DEF Written
  <1> QED BY <1>1, <1>3

\* The bound on contents is a natural number.
LEMMA ContentsAre == /\ MaxReruns \in Nat /\ 1 \in Contents /\ Contents \subseteq Nat
                     /\ MaxFailures \in Nat
  BY ReprocessingAssumption DEF Contents

LEMMA InitIInv == Init => IInv
  <1> SUFFICES ASSUME Init PROVE IInv
    OBVIOUS
  <1>1. /\ parent = [n \in Artifacts |-> 1] /\ succeeded = parent
        /\ rewriting = << >> /\ reruns = 0 /\ step = "idle" /\ plan = Empty
        /\ position = 1 /\ pending = << >> /\ target = << >> /\ manifest = FALSE
    BY DEF Init, Artifacts
  <1>2. parent \in [Artifacts -> Contents] /\ succeeded \in [Artifacts -> Contents]
    BY <1>1, ContentsAre
  <1>3. DOMAIN target \subseteq Artifacts /\ target \in [DOMAIN target -> Contents]
    BY <1>1
  <1>4. pending \in Seq(Artifacts \X Contents)
    BY <1>1
  <1>5. TypeOK
    <2>1. step \in Steps /\ position \in DOMAIN Names /\ manifest \in BOOLEAN
      BY <1>1, FirstName DEF Steps
    <2> QED BY <1>2, <1>3, <1>4, <2>1 DEF TypeOK, Artifacts, Contents
  <1>6. TreeOK
    BY <1>1, ContentsAre DEF TreeOK
  <1>7. PlanOK
    BY <1>1 DEF PlanOK, PlanShape, Empty, Planned, Idle
  <1>8. VerifiedOK /\ ProgressOK /\ PendingDiscarded
    BY <1>1 DEF VerifiedOK, Passed, ProgressOK, PendingDiscarded, Imported
  <1> QED BY <1>5, <1>6, <1>7, <1>8 DEF IInv

\* The facts about types that steps need, with the abbreviations above.
LEMMA TypesAre ==
  ASSUME TypeOK
  PROVE  /\ parent \in [Artifacts -> Contents] /\ succeeded \in [Artifacts -> Contents]
         /\ step \in Steps /\ position \in 1 .. 6
         /\ pending \in Seq(Artifacts \X Contents)
         /\ DOMAIN target \subseteq Artifacts /\ target \in [DOMAIN target -> Contents]
         /\ manifest \in BOOLEAN
  BY NamesAre DEF TypeOK, Artifacts, Contents
-----------------------------------------------------------------------------
(* The source run *)

LEMMA TreeSteps ==
  ASSUME IInv, Rerun \/ Rewrite \/ RerunFails
  PROVE  IInv'
  <1>1. /\ UNCHANGED << step, plan, importVars, failures, stageVars >>
    BY DEF Rerun, Rewrite, RerunFails
  <1>2. TypeOK /\ TreeOK
    BY DEF IInv
  <1>3. /\ parent' \in [Artifacts -> Contents] /\ succeeded' \in [Artifacts -> Contents]
        /\ TreeOK'
        /\ \A n \in Artifacts : parent[n] <= parent'[n]
    <2>1. CASE Rerun
      <3>1. PICK from \in DOMAIN Written : rewriting' = SubSeq(Written, from, Len(Written))
        BY <2>1 DEF Rerun
      <3>2. rewriting' \in Seq(Artifacts)
        <4>1. from \in 1 .. 6 /\ from \in Int /\ 6 \in Int /\ Len(Written) = 6
          BY Lengths
        <4>2. \A i \in from .. 6 : Written[i] \in Artifacts
          <5> SUFFICES ASSUME NEW i \in from .. 6 PROVE Written[i] \in Artifacts
            OBVIOUS
          <5>1. i \in 1 .. Len(Written)
            BY <4>1
          <5> QED BY <5>1, WrittenAre, ElementOfSeq
        <4>3. SubSeq(Written, from, 6) \in Seq(Artifacts)
          BY <4>1, <4>2, SubSeqProperties
        <4> QED BY <3>1, <4>1, <4>3
      <3>3. reruns' \in 0 .. MaxReruns /\ reruns' = reruns + 1 /\ UNCHANGED << parent, succeeded >>
        BY <1>2, <2>1, ContentsAre DEF Rerun, TreeOK
      <3> QED BY <1>2, <3>2, <3>3, TypesAre, ContentsAre DEF TreeOK
    <2>2. CASE Rewrite
      <3>1. /\ Head(rewriting) \in Artifacts /\ rewriting' \in Seq(Artifacts)
        BY <1>2, <2>2, HeadTailProperties DEF Rewrite, TreeOK
      <3>2. /\ parent' = [parent EXCEPT ![Head(rewriting)] = reruns + 1]
            /\ succeeded' = parent' \/ succeeded' = succeeded
            /\ reruns' = reruns
        BY <2>2 DEF Rewrite
      <3>3. reruns + 1 \in Contents
        BY <1>2, ContentsAre DEF TreeOK, Contents
      <3>4. parent' \in [Artifacts -> Contents]
        BY <1>2, <3>1, <3>2, <3>3, TypesAre
      <3>5. \A n \in Artifacts : parent[n] <= parent'[n] /\ parent'[n] <= reruns + 1
        <4> TAKE n \in Artifacts
        <4>1. parent[n] \in Nat /\ parent[n] <= reruns + 1 /\ reruns \in Nat
          BY <1>2, TypesAre, ContentsAre DEF TreeOK
        <4>2. parent'[n] = parent[n] \/ parent'[n] = reruns + 1
          BY <1>2, <3>1, <3>2, TypesAre
        <4> QED BY <4>1, <4>2
      <3>6. \A n \in Artifacts : succeeded'[n] <= parent'[n]
        <4> TAKE n \in Artifacts
        <4>1. parent[n] \in Nat /\ succeeded[n] \in Nat /\ parent'[n] \in Nat
          BY <1>2, <3>4, TypesAre, ContentsAre
        <4>2. succeeded[n] <= parent[n] /\ parent[n] <= parent'[n]
          BY <1>2, <3>5 DEF TreeOK
        <4>3. parent'[n] <= parent'[n] /\ succeeded[n] <= parent'[n]
          BY <4>1, <4>2
        <4>4. succeeded'[n] = parent'[n] \/ succeeded'[n] = succeeded[n]
          BY <3>2
        <4> QED BY <4>3, <4>4
      <3>7. succeeded' \in [Artifacts -> Contents]
        BY <1>2, <3>2, <3>4, TypesAre
      <3> QED BY <1>2, <3>1, <3>2, <3>4, <3>5, <3>6, <3>7 DEF TreeOK
    <2>3. CASE RerunFails
      <3>1. rewriting' = << >> /\ UNCHANGED << parent, succeeded, reruns >>
        BY <2>3 DEF RerunFails
      <3> QED BY <1>2, <3>1, TypesAre, ContentsAre DEF TreeOK
    <2> QED BY <2>1, <2>2, <2>3
  <1>4. TypeOK'
    BY <1>1, <1>2, <1>3 DEF TypeOK, Artifacts, Contents, importVars
  <1>5. PlanOK'
    <2>1. PlanOK /\ UNCHANGED << step, plan >> /\ ("search_index" \in Artifacts) /\ ("timeline" \in Artifacts)
      BY <1>1, NamesAre DEF IInv
    <2>2. \A n \in Artifacts : parent[n] \in Nat /\ parent'[n] \in Nat /\ parent[n] <= parent'[n]
      BY <1>2, <1>3, TypesAre, ContentsAre
    <2>3. step # "idle" => \A n \in Artifacts : plan.refs[n] <= parent'[n]
      <3> SUFFICES ASSUME step # "idle", NEW n \in Artifacts PROVE plan.refs[n] <= parent'[n]
        OBVIOUS
      <3>1. plan.refs[n] \in Nat /\ plan.refs[n] <= parent[n]
        BY <2>1, ContentsAre DEF PlanOK
      <3> QED BY <2>2, <3>1
    <2>0. ASSUME NEW c, NEW n \in Artifacts, ReadFrom(c, n)
          PROVE  c \in Contents /\ plan.refs[n] <= c /\ c <= parent'[n]
      <3>1. c \in Contents /\ c \in Nat /\ c <= parent[n] /\ plan.refs[n] <= c
        BY <2>0, ContentsAre DEF ReadFrom
      <3> QED BY <2>2, <3>1
    <2>4. step \notin {"idle", "resolved"} => ReadFrom(plan.index, "search_index")'
      BY <2>0, <2>1 DEF PlanOK, ReadFrom
    <2>5. Planned => ReadFrom(plan.timeline, "timeline")'
      BY <2>0, <2>1 DEF PlanOK, ReadFrom
    <2>6. PlanShape' /\ (Planned' <=> Planned)
      BY <2>1 DEF PlanOK, PlanShape, Planned
    <2> QED BY <2>1, <2>3, <2>4, <2>5, <2>6 DEF PlanOK
  <1>6. VerifiedOK' /\ ProgressOK' /\ PendingDiscarded'
    BY <1>1 DEF IInv, VerifiedOK, Passed, ProgressOK, Ref, PendingDiscarded, importVars
  <1> QED BY <1>3, <1>4, <1>5, <1>6 DEF IInv
-----------------------------------------------------------------------------
(* The plan *)

\* Steps of the service leave the source run alone.
LEMMA TreeKept ==
  ASSUME IInv, UNCHANGED parentVars
  PROVE  TreeOK' /\ parent' \in [Artifacts -> Contents]
                 /\ succeeded' \in [Artifacts -> Contents]
  BY TypesAre DEF IInv, TreeOK, parentVars

\* What is read from the tree now is not older than refs that were in it.
LEMMA TreeRead ==
  ASSUME TypeOK, NEW n \in Artifacts, NEW refs \in [Artifacts -> Contents],
         \A m \in Artifacts : refs[m] <= parent[m]
  PROVE  parent[n] \in Contents /\ refs[n] <= parent[n] /\ parent[n] <= parent[n]
  <1>1. parent[n] \in Contents /\ parent[n] \in Nat
    BY TypesAre, ContentsAre
  <1> QED BY <1>1

LEMMA ResolveStep ==
  ASSUME IInv, Resolve
  PROVE  IInv'
  <1>1. /\ plan' = [Empty EXCEPT !.refs = succeeded] /\ UNCHANGED parentVars
        /\ target' = << >> /\ manifest' = FALSE /\ pending' = << >> /\ position' = 1
        /\ step' = "resolved"
    BY DEF Resolve
  <1>2. /\ plan'.refs = succeeded /\ plan'.scenes = << >>
        /\ PlanShape'
    BY <1>1 DEF Empty, PlanShape
  <1>3. TypeOK'
    <2>1. DOMAIN target' \subseteq Artifacts /\ target' \in [DOMAIN target' -> Contents]
      BY <1>1
    <2>2. pending' \in Seq(Artifacts \X Contents)
      BY <1>1
    <2>3. step' \in Steps /\ position' \in DOMAIN Names /\ manifest' \in BOOLEAN
      BY <1>1, FirstName DEF Steps
    <2> QED BY <1>1, <2>1, <2>2, <2>3, TreeKept DEF TypeOK, Artifacts, Contents
  <1>4. PlanOK'
    <2>1. succeeded \in [Artifacts -> Contents] /\ parent' = parent
      BY <1>1, TypesAre DEF IInv, parentVars
    <2>2. \A n \in Artifacts : succeeded[n] <= parent[n]
      BY DEF IInv, TreeOK
    <2> QED BY <1>1, <1>2, <2>1, <2>2 DEF PlanOK, Planned, Idle
  <1>5. VerifiedOK' /\ ProgressOK' /\ PendingDiscarded'
    BY <1>1 DEF VerifiedOK, Passed, ProgressOK, PendingDiscarded, Imported
  <1> QED BY <1>1, <1>3, <1>4, <1>5, TreeKept DEF IInv

LEMMA SearchStep ==
  ASSUME IInv, Search
  PROVE  IInv'
  <1>1. /\ step = "resolved" /\ step' = "searched"
        /\ plan' = [plan EXCEPT !.index = parent["search_index"]]
        /\ UNCHANGED << parentVars, importVars >>
    BY DEF Search
  <1>2. /\ plan'.index = parent["search_index"] /\ plan'.refs = plan.refs
        /\ plan'.scenes = plan.scenes
        /\ PlanShape'
    <2>1. plan = [refs |-> plan.refs, index |-> plan.index,
                  timeline |-> plan.timeline, scenes |-> plan.scenes]
      BY DEF IInv, PlanOK, PlanShape
    <2> QED BY <1>1, <2>1 DEF PlanShape
  <1>3. TypeOK'
    BY <1>1, TreeKept DEF IInv, TypeOK, Steps, Artifacts, Contents, importVars
  <1>4. PlanOK'
    <2>1. /\ plan.refs \in [Artifacts -> Contents] /\ parent' = parent
          /\ \A n \in Artifacts : plan.refs[n] <= parent[n]
          /\ plan.scenes = << >>
      BY <1>1 DEF IInv, PlanOK, parentVars, Idle
    <2>2. ReadFrom(plan.index, "search_index")'
      BY <1>2, <2>1, NamesAre, TreeRead DEF ReadFrom, IInv
    <2> QED BY <1>1, <1>2, <2>1, <2>2 DEF PlanOK, Planned, Idle
  <1>5. VerifiedOK' /\ ProgressOK' /\ PendingDiscarded'
    BY <1>1 DEF IInv, VerifiedOK, Passed, ProgressOK, PendingDiscarded, Imported, importVars
  <1> QED BY <1>1, <1>3, <1>4, <1>5, TreeKept DEF IInv

LEMMA AnswerStep ==
  ASSUME IInv, Answer
  PROVE  IInv'
  <1>1. step = "searched" /\ UNCHANGED << parentVars, importVars >>
    BY DEF Answer
  <1>2. /\ step' \in {"refused", "verifying"}
        /\ plan'.refs = plan.refs /\ plan'.index = plan.index
        /\ PlanShape'
        /\ \/ plan' = plan /\ step' = "refused"
           \/ plan'.timeline = parent["timeline"]
    <2>1. plan = [refs |-> plan.refs, index |-> plan.index,
                  timeline |-> plan.timeline, scenes |-> plan.scenes]
      BY DEF IInv, PlanOK, PlanShape
    <2>2. PICK found \in BoundedSeq(ToSet(SceneIds(plan.index)), MaxScenes) :
            \/ step' = "refused" /\ plan' = plan
            \/ /\ plan' = [plan EXCEPT !.scenes = found, !.timeline = parent["timeline"]]
               /\ step' = "verifying"
      BY DEF Answer
    <2> QED BY <2>1, <2>2 DEF PlanShape
  <1>3. TypeOK'
    BY <1>1, <1>2, TreeKept DEF IInv, TypeOK, Steps, Artifacts, Contents, importVars
  <1>4. PlanOK'
    <2>1. /\ plan.refs \in [Artifacts -> Contents] /\ parent' = parent
          /\ \A n \in Artifacts : plan.refs[n] <= parent[n]
          /\ plan.scenes = << >> /\ ReadFrom(plan.index, "search_index")
      BY <1>1 DEF IInv, PlanOK, parentVars, Idle
    <2>2. plan'.timeline = parent["timeline"] => ReadFrom(plan.timeline, "timeline")'
      BY <1>2, <2>1, NamesAre, TreeRead DEF ReadFrom, IInv
    <2>3. Planned' => plan'.timeline = parent["timeline"]
      BY <1>2, <2>1 DEF Planned
    <2>4. ReadFrom(plan.index, "search_index")'
      BY <1>2, <2>1 DEF ReadFrom
    <2>5. step' \notin Idle /\ step' # "idle"
      BY <1>2 DEF Idle
    <2> QED BY <1>2, <2>1, <2>2, <2>3, <2>4, <2>5 DEF PlanOK
  <1>5. VerifiedOK' /\ ProgressOK' /\ PendingDiscarded'
    BY <1>1, <1>2, NamesAre
       DEF IInv, VerifiedOK, Passed, ProgressOK, PendingDiscarded, Imported, importVars
  <1> QED BY <1>1, <1>3, <1>4, <1>5, TreeKept DEF IInv
-----------------------------------------------------------------------------
(* The import *)

\* The steps of the import keep the plan, and change no artifact of the source.
LEMMA PlanKept ==
  ASSUME IInv, UNCHANGED << parentVars, plan >>, step \notin Idle,
         step' \notin Idle, step = "refused" => step' = "refused" \/ plan.scenes # << >>,
         step # "refused" => step' # "refused" \/ Planned
  PROVE  PlanOK' /\ TreeOK' /\ parent' = parent
         /\ parent' \in [Artifacts -> Contents] /\ succeeded' \in [Artifacts -> Contents]
  <1>1. PlanOK /\ parent' = parent /\ plan' = plan
    BY DEF IInv, parentVars
  <1>2. Planned' => Planned
    BY <1>1 DEF Planned
  <1>3. PlanOK'
    BY <1>1, <1>2 DEF PlanOK, PlanShape, ReadFrom, Idle
  <1> QED BY <1>1, <1>3, TreeKept

LEMMA EmptyPending ==
  ASSUME IInv, step \notin {"copying", "publishing", "refused"}
  PROVE  pending = << >> /\ Len(pending) = 0
  <1>1. pending \in Seq(Artifacts \X Contents) /\ Len(pending) <= 0
    BY TypesAre DEF IInv, PendingDiscarded
  <1> QED BY <1>1, EmptySeq, LenProperties

LEMMA VerifyStep ==
  ASSUME IInv, Verify
  PROVE  IInv'
  <1>1. /\ step = "verifying"
        /\ UNCHANGED << parentVars, plan, pending, target, manifest >>
        /\ position \in 1 .. 6 /\ Len(Names) = 6
    BY TypesAre, Lengths DEF Verify, IInv
  <1>2. pending = << >> /\ Len(pending) = 0 /\ Planned
    BY <1>1, EmptyPending DEF Planned, Idle
  <1>3. \/ step' = "refused" /\ position' = 1
        \/ /\ parent[Names[position]] = plan.refs[Names[position]]
           /\ \/ position = 6 /\ step' = "copying" /\ position' = 1
              \/ position < 6 /\ step' = "verifying" /\ position' = position + 1
    BY <1>1 DEF Verify, NextArtifact, Current
  <1>4. /\ PlanOK' /\ TreeOK' /\ parent' = parent
        /\ parent' \in [Artifacts -> Contents] /\ succeeded' \in [Artifacts -> Contents]
    BY <1>1, <1>2, <1>3, PlanKept DEF Idle
  <1>5. position' \in 1 .. 6 /\ step' \in {"verifying", "copying", "refused"}
    BY <1>1, <1>3
  <1>6. TypeOK'
    BY <1>1, <1>4, <1>5, Lengths DEF IInv, TypeOK, Steps, Artifacts, Contents
  <1>7. VerifiedOK'
    <2>1. ASSUME NEW n \in Artifacts, NEW c, ReadFrom(c, n), parent[n] = plan.refs[n]
          PROVE  c = plan.refs[n]
      <3>1. c \in Nat /\ parent[n] \in Nat
        BY <2>1, ContentsAre, TypesAre DEF ReadFrom, IInv
      <3> QED BY <2>1, <3>1 DEF ReadFrom
    <2>2. ReadFrom(plan.index, "search_index") /\ ReadFrom(plan.timeline, "timeline")
      BY <1>1, <1>2 DEF IInv, PlanOK
    <2>3. Passed(5)' => plan.index = plan.refs["search_index"]
      <3>1. CASE position > 5
        BY <1>1, <3>1 DEF IInv, VerifiedOK, Passed
      <3>2. CASE position = 5 /\ step' = "verifying"
        BY <1>3, <2>1, <2>2, <3>2, NamesAre
      <3>3. CASE ~(position > 5) /\ ~(position = 5 /\ step' = "verifying")
        BY <1>1, <1>3, <3>3 DEF Passed, Imported
      <3> QED BY <3>1, <3>2, <3>3
    <2>4. Passed(6)' => plan.timeline = plan.refs["timeline"]
      <3>1. CASE position = 6 /\ step' = "copying"
        BY <1>3, <2>1, <2>2, <3>1, NamesAre
      <3>2. CASE ~(position = 6 /\ step' = "copying")
        BY <1>1, <1>3, <1>5, <3>2 DEF Passed, Imported
      <3> QED BY <3>1, <3>2
    <2> QED BY <1>1, <2>3, <2>4 DEF VerifiedOK
  <1>8. ProgressOK' /\ PendingDiscarded'
    <2>1. ~manifest
      BY <1>1 DEF IInv, ProgressOK, Imported
    <2> QED BY <1>1, <1>2, <1>3, <2>1 DEF ProgressOK, PendingDiscarded, Imported
  <1> QED BY <1>4, <1>6, <1>7, <1>8 DEF IInv

LEMMA CopyStep ==
  ASSUME IInv, Copy
  PROVE  IInv'
  <1>1. /\ step = "copying" /\ UNCHANGED << parentVars, plan, target, manifest >>
        /\ position \in 1 .. 6 /\ Len(Names) = 6
        /\ pending \in Seq(Artifacts \X Contents)
        /\ Len(pending) = position - 1
        /\ \A i \in 1 .. Len(pending) : pending[i] = Ref(i)
    BY TypesAre, Lengths DEF Copy, IInv, ProgressOK
  <1>2. \/ /\ pending' = << >> /\ step' = "refused" /\ position' = 1
        \/ /\ parent[Names[position]] = plan.refs[Names[position]]
           /\ pending' = Append(pending, << Names[position], parent[Names[position]] >>)
           /\ \/ position = 6 /\ step' = "publishing" /\ position' = 1
              \/ position < 6 /\ step' = "copying" /\ position' = position + 1
    BY <1>1 DEF Copy, NextArtifact, Current, Faithful
  <1>3. /\ PlanOK' /\ TreeOK' /\ parent' = parent
        /\ parent' \in [Artifacts -> Contents] /\ succeeded' \in [Artifacts -> Contents]
    BY <1>1, <1>2, PlanKept DEF Planned, Idle
  <1>4. position' \in 1 .. 6 /\ step' \in {"copying", "publishing", "refused"}
    BY <1>1, <1>2
  <1>5. ~manifest
    BY <1>1 DEF IInv, ProgressOK, Imported
  <1>6. CASE step' = "refused"
    <2>1. pending' = << >> /\ position' = 1 /\ Len(<< >>) = 0
      BY <1>2, <1>6
    <2>2. TypeOK'
      <3>1. pending' \in Seq(Artifacts \X Contents)
        BY <2>1
      <3> QED BY <1>1, <1>3, <1>4, <1>6, <3>1, Lengths
              DEF IInv, TypeOK, Steps, Artifacts, Contents
    <2>3. VerifiedOK' /\ ProgressOK' /\ PendingDiscarded'
      BY <1>1, <1>5, <1>6, <2>1
         DEF VerifiedOK, Passed, ProgressOK, PendingDiscarded, Imported
    <2> QED BY <1>3, <2>2, <2>3 DEF IInv
  <1>7. CASE step' # "refused"
    <2> DEFINE copy == << Names[position], parent[Names[position]] >>
    <2>1. /\ copy = Ref(position) /\ pending' = Append(pending, copy)
          /\ \/ position = 6 /\ step' = "publishing" /\ position' = 1
             \/ position < 6 /\ step' = "copying" /\ position' = position + 1
      BY <1>2, <1>7 DEF Ref
    <2>2. copy \in Artifacts \X Contents
      BY <1>1, NamesAre, TypesAre DEF IInv
    <2> HIDE DEF copy
    <2>3. /\ pending' \in Seq(Artifacts \X Contents) /\ Len(pending') = position
          /\ \A i \in 1 .. position : pending'[i] = Ref(i)
      <3>1. /\ pending' \in Seq(Artifacts \X Contents) /\ Len(pending') = Len(pending) + 1
            /\ \A i \in 1 .. Len(pending) : pending'[i] = pending[i]
            /\ pending'[Len(pending) + 1] = copy
        BY <1>1, <2>1, <2>2, AppendProperties
      <3>2. Len(pending) + 1 = position
        BY <1>1
      <3>3. \A i \in 1 .. position : i \in 1 .. Len(pending) \/ i = position
        BY <1>1
      <3> QED BY <1>1, <2>1, <3>1, <3>2, <3>3
    <2>4. TypeOK'
      BY <1>1, <1>3, <1>4, <2>3, Lengths DEF IInv, TypeOK, Steps, Artifacts, Contents
    <2>5. \A i : Ref(i)' = Ref(i)
      BY <1>1 DEF Ref
    <2>6. VerifiedOK'
      BY <1>1, <2>1 DEF IInv, VerifiedOK, Passed, Imported
    <2>7. CASE step' = "publishing"
      <3>1. position = 6 /\ position' = 1 /\ Len(pending') = 7 - position'
        BY <2>1, <2>3, <2>7
      <3>2. \A i \in 1 .. 6 : pending'[i] = Ref(position' - 1 + i)
        BY <2>3, <3>1
      <3>3. ProgressOK' /\ PendingDiscarded'
        BY <1>1, <1>5, <2>3, <2>5, <2>7, <3>1, <3>2
           DEF ProgressOK, PendingDiscarded, Imported
      <3> QED BY <1>3, <2>4, <2>6, <3>3 DEF IInv
    <2>8. CASE step' = "copying"
      <3>1. Len(pending') = position' - 1
        BY <1>1, <2>1, <2>3, <2>8
      <3>2. ProgressOK' /\ PendingDiscarded'
        BY <1>1, <1>5, <2>3, <2>5, <2>8, <3>1 DEF ProgressOK, PendingDiscarded, Imported
      <3> QED BY <1>3, <2>4, <2>6, <3>2 DEF IInv
    <2> QED BY <2>1, <2>7, <2>8
  <1> QED BY <1>6, <1>7

\* The steps that end an import short of its manifest.
LEMMA ImportEnds ==
  ASSUME IInv, step \in {"verifying", "copying", "publishing", "committing"},
         step' = "refused", position' = 1,
         pending' \in Seq(Artifacts \X Contents), Len(pending') <= 1,
         UNCHANGED << parentVars, plan, target, manifest >>
  PROVE  IInv'
  <1>1. /\ PlanOK' /\ TreeOK' /\ parent' = parent
        /\ parent' \in [Artifacts -> Contents] /\ succeeded' \in [Artifacts -> Contents]
    BY PlanKept DEF Planned, Idle
  <1>2. TypeOK'
    BY <1>1, FirstName DEF IInv, TypeOK, Steps, Artifacts, Contents
  <1>3. ~manifest
    BY DEF IInv, ProgressOK, Imported
  <1>4. VerifiedOK' /\ ProgressOK' /\ PendingDiscarded'
    BY <1>3 DEF VerifiedOK, Passed, ProgressOK, PendingDiscarded, Imported
  <1> QED BY <1>1, <1>2, <1>4 DEF IInv

LEMMA FailingSteps ==
  ASSUME IInv, CopyFails \/ PublishFails \/ CommitFails \/ Crash
  PROVE  IInv'
  <1>1. << >> \in Seq(Artifacts \X Contents) /\ Len(<< >>) <= 1
    OBVIOUS
  <1>2. CASE CopyFails \/ Crash
    BY <1>1, <1>2, ImportEnds DEF CopyFails, Crash
  <1>3. CASE PublishFails
    <2>1. /\ step = "publishing" /\ pending' = << Head(pending) >>
          /\ step' = "refused" /\ position' = 1
          /\ UNCHANGED << parentVars, plan, target, manifest >>
      BY <1>3 DEF PublishFails
    <2>2. /\ pending \in Seq(Artifacts \X Contents) /\ position \in 1 .. 6
          /\ Len(pending) = 7 - position
      BY <2>1, TypesAre DEF IInv, ProgressOK
    <2>3. Head(pending) \in Artifacts \X Contents
      BY <2>2, EmptySeq, HeadTailProperties
    <2>4. pending' \in Seq(Artifacts \X Contents) /\ Len(pending') <= 1
      BY <2>1, <2>3
    <2> QED BY <2>1, <2>4, ImportEnds
  <1>4. CASE CommitFails
    <2>1. /\ step = "committing" /\ step' = "refused"
          /\ UNCHANGED << parentVars, plan, importVars >>
      BY <1>4 DEF CommitFails
    <2>2. pending = << >> /\ position = 1
      BY <2>1, EmptyPending DEF IInv, ProgressOK
    <2> QED BY <1>1, <2>1, <2>2, ImportEnds DEF importVars
  <1> QED BY <1>2, <1>3, <1>4

LEMMA RetryStep ==
  ASSUME IInv, Retry
  PROVE  IInv'
  <1>1. /\ step = "refused" /\ plan.scenes # << >>
        /\ step' = "verifying" /\ position' = 1 /\ pending' = << >>
        /\ UNCHANGED << parentVars, plan, target, manifest >>
    BY DEF Retry
  <1>2. /\ PlanOK' /\ TreeOK' /\ parent' = parent
        /\ parent' \in [Artifacts -> Contents] /\ succeeded' \in [Artifacts -> Contents]
    BY <1>1, PlanKept DEF Planned, Idle
  <1>3. TypeOK'
    <2>1. pending' \in Seq(Artifacts \X Contents)
      BY <1>1
    <2> QED BY <1>1, <1>2, <2>1, FirstName DEF IInv, TypeOK, Steps, Artifacts, Contents
  <1>4. ~manifest
    BY <1>1 DEF IInv, ProgressOK, Imported
  <1>5. VerifiedOK' /\ ProgressOK' /\ PendingDiscarded'
    BY <1>1, <1>4 DEF VerifiedOK, Passed, ProgressOK, PendingDiscarded, Imported
  <1> QED BY <1>2, <1>3, <1>5 DEF IInv

LEMMA PublishStep ==
  ASSUME IInv, Publish
  PROVE  IInv'
  <1>1. /\ step = "publishing" /\ UNCHANGED << parentVars, plan, manifest >>
        /\ target' = Published(Head(pending)[1], Head(pending)[2])
        /\ pending' = Tail(pending)
        /\ position \in 1 .. 6 /\ Len(Names) = 6
        /\ pending \in Seq(Artifacts \X Contents)
        /\ Len(pending) = 7 - position
        /\ \A i \in 1 .. Len(pending) : pending[i] = Ref(position - 1 + i)
        /\ \A i \in 1 .. position - 1 : /\ Names[i] \in DOMAIN target
                                        /\ target[Names[i]] = plan.refs[Names[i]]
    BY TypesAre, Lengths DEF Publish, IInv, ProgressOK
  <1>2. \/ position = 6 /\ step' = "committing" /\ position' = 1
        \/ position < 6 /\ step' = "publishing" /\ position' = position + 1
    BY <1>1 DEF Publish, NextArtifact
  <1>3. /\ PlanOK' /\ TreeOK' /\ parent' = parent
        /\ parent' \in [Artifacts -> Contents] /\ succeeded' \in [Artifacts -> Contents]
    BY <1>1, <1>2, PlanKept DEF Planned, Idle
  <1>4. position' \in 1 .. 6 /\ step' \in {"publishing", "committing"}
    BY <1>1, <1>2
  <1>5. /\ Head(pending) = Ref(position)
        /\ pending' \in Seq(Artifacts \X Contents) /\ Len(pending') = 6 - position
        /\ \A i \in 1 .. Len(pending') : pending'[i] = Ref(position + i)
    <2>1. pending # << >> /\ 1 \in 1 .. Len(pending)
      BY <1>1, EmptySeq
    <2>2. /\ pending' \in Seq(Artifacts \X Contents) /\ Len(pending') = Len(pending) - 1
          /\ \A i \in 1 .. Len(pending') : pending'[i] = pending[i + 1]
      BY <1>1, <2>1, HeadTailProperties
    <2>3. Head(pending) = pending[1] /\ position - 1 + 1 = position
      BY <1>1, <2>1
    <2>4. ASSUME NEW i \in 1 .. Len(pending')
          PROVE  i + 1 \in 1 .. Len(pending) /\ position - 1 + (i + 1) = position + i
      BY <1>1, <2>2
    <2> QED BY <1>1, <2>1, <2>2, <2>3, <2>4
  <1>6. /\ Names[position] \in Artifacts
        /\ plan.refs \in [Artifacts -> Contents]
    BY <1>1, NamesAre DEF IInv, PlanOK
  <1>7. /\ target' = [n \in DOMAIN target \cup {Names[position]} |->
                        IF n = Names[position] THEN plan.refs[Names[position]]
                                               ELSE target[n]]
    BY <1>1, <1>5 DEF Published, Ref
  <1>8. /\ DOMAIN target' = DOMAIN target \cup {Names[position]}
        /\ DOMAIN target' \subseteq Artifacts
        /\ target' \in [DOMAIN target' -> Contents]
    BY <1>6, <1>7, TypesAre DEF IInv
  <1>9. \A i \in 1 .. position : /\ Names[i] \in DOMAIN target'
                                 /\ target'[Names[i]] = plan.refs[Names[i]]
    <2> TAKE i \in 1 .. position
    <2>1. i = position \/ i \in 1 .. position - 1
      BY <1>1
    <2> QED BY <1>1, <1>7, <1>8, <2>1
  <1>10. TypeOK'
    BY <1>1, <1>3, <1>4, <1>5, <1>8, Lengths DEF IInv, TypeOK, Steps, Artifacts, Contents
  <1>11. VerifiedOK' /\ ~manifest
    BY <1>1, <1>4 DEF IInv, VerifiedOK, Passed, ProgressOK, Imported
  <1>12. \A i : Ref(i)' = Ref(i)
    BY <1>1 DEF Ref
  <1>13. CASE step' = "publishing"
    <2>1. /\ Len(pending') = 7 - position' /\ position' - 1 = position
          /\ position' = position + 1
      BY <1>1, <1>2, <1>5, <1>13
    <2>2. \A i \in 1 .. Len(pending') : pending'[i] = Ref(position' - 1 + i)
      BY <1>5, <2>1
    <2>3. ProgressOK' /\ PendingDiscarded'
      BY <1>1, <1>9, <1>11, <1>12, <1>13, <2>1, <2>2
         DEF ProgressOK, PendingDiscarded, Imported
    <2> QED BY <1>3, <1>10, <1>11, <2>3 DEF IInv
  <1>14. CASE step' = "committing"
    <2>1. position = 6 /\ position' = 1 /\ Len(pending') <= 0
      BY <1>2, <1>5, <1>14
    <2>2. \A n \in Artifacts : n \in DOMAIN target' /\ target'[n] = plan.refs[n]
      BY <1>9, <2>1, NamesAre
    <2>3. target' = plan.refs
      BY <1>6, <1>8, <2>2
    <2>4. ProgressOK' /\ PendingDiscarded'
      BY <1>1, <1>11, <1>14, <2>1, <2>3 DEF ProgressOK, PendingDiscarded, Imported
    <2> QED BY <1>3, <1>10, <1>11, <2>4 DEF IInv
  <1> QED BY <1>4, <1>13, <1>14

\* The manifest, and the Stages of the derived run behind it.
LEMMA LateSteps ==
  ASSUME IInv, Commit \/ Keyframes \/ Captions \/ Ocr
  PROVE  IInv'
  <1>1. /\ step \in Imported /\ step' \in Imported \ {"committing"}
        /\ UNCHANGED << parentVars, plan, position, pending, target >>
        /\ manifest' \in BOOLEAN
    <2>1. CASE Commit
      BY <2>1 DEF Commit, Imported
    <2>2. CASE Keyframes
      BY <2>2 DEF Keyframes, Imported, IInv, TypeOK, importVars
    <2>3. CASE Captions \/ Ocr
      BY <2>3 DEF Captions, Ocr, Overlay, Imported, IInv, TypeOK, importVars
    <2> QED BY <2>1, <2>2, <2>3
  <1>2. /\ PlanOK' /\ TreeOK' /\ parent' = parent
        /\ parent' \in [Artifacts -> Contents] /\ succeeded' \in [Artifacts -> Contents]
    BY <1>1, PlanKept DEF Imported, Planned, Idle
  <1>3. pending = << >> /\ Len(pending) = 0 /\ position = 1 /\ target = plan.refs
    BY <1>1, EmptyPending DEF Imported, IInv, ProgressOK
  <1>4. TypeOK'
    BY <1>1, <1>2 DEF IInv, TypeOK, Steps, Imported, Artifacts, Contents
  <1>5. VerifiedOK' /\ ProgressOK' /\ PendingDiscarded'
    BY <1>1, <1>3 DEF IInv, VerifiedOK, Passed, ProgressOK, PendingDiscarded, Imported
  <1> QED BY <1>2, <1>4, <1>5 DEF IInv

LEMMA NextIInv ==
  ASSUME IInv, [Next]_vars
  PROVE  IInv'
  <1>1. CASE UNCHANGED vars
    <2>1. UNCHANGED << parentVars, step, plan, importVars >>
      BY <1>1 DEF vars
    <2>2. TypeOK' /\ TreeOK' /\ VerifiedOK' /\ ProgressOK' /\ PendingDiscarded'
      BY <2>1 DEF IInv, TypeOK, TreeOK, VerifiedOK, Passed, ProgressOK, Ref,
                  PendingDiscarded, parentVars, importVars
    <2>3. PlanOK'
      BY <2>1 DEF IInv, PlanOK, PlanShape, ReadFrom, Planned, parentVars
    <2> QED BY <2>2, <2>3 DEF IInv
  <1> QED BY <1>1, TreeSteps, ResolveStep, SearchStep, AnswerStep, VerifyStep, CopyStep,
             FailingSteps, RetryStep, PublishStep, LateSteps DEF Next

LEMMA Invariance == Spec => []IInv
  BY InitIInv, NextIInv, PTL DEF Spec
-----------------------------------------------------------------------------
\* Whatever reruns, failures, crashes and retries come between the answer to
\* the query and the manifest, a committed import holds exactly the artifacts
\* the plan names, its scenes were found in that same run's index and timeline,
\* and no copy is left unpublished.
THEOREM ImportsAlwaysClean == Spec => []ImportClean
  <1>1. IInv => ImportClean
    <2> SUFFICES ASSUME IInv PROVE ImportClean
      OBVIOUS
    <2>1. TypeOK /\ PendingDiscarded
      BY DEF IInv
    <2>2. ImportIsSnapshot
      BY DEF IInv, ImportIsSnapshot, ProgressOK, VerifiedOK, Passed, Imported
    <2> QED BY <2>1, <2>2 DEF ImportClean
  <1> QED BY <1>1, Invariance, PTL
-----------------------------------------------------------------------------
(***************************************************************************)
(* Sequences: what At, FlattenSeq and the other recursive definitions over   *)
(* 0..N compute, by induction over the naturals.                            *)
(***************************************************************************)
\* A set of naturals with 0 that every member's successor belongs to has them all.
LEMMA Induction ==
  ASSUME NEW S \in SUBSET Nat, 0 \in S, \A n \in S : n + 1 \in S
  PROVE  \A n \in Nat : n \in S
  <1> DEFINE R == OpToRel(<, Nat)
             T == Nat \ S
  <1> SUFFICES ASSUME T # {}
               PROVE  FALSE
    OBVIOUS
  <1>1. PICK m \in T : \A n \in T : <<n, m>> \notin R
    <2>1. IsWellFoundedOn(R, Nat)
      BY NatLessThanWellFounded
    <2>2. T \subseteq Nat
      OBVIOUS
    <2> HIDE DEF R, T
    <2> QED BY <2>1, <2>2, WFMin
  <1>2. m # 0 /\ m \in Nat
    OBVIOUS
  <1>3. m - 1 \in Nat /\ m - 1 < m
    BY <1>2
  <1>4. m - 1 \in S
    BY <1>1, <1>3 DEF OpToRel
  <1> QED BY <1>2, <1>4

\* A value of A and a function that gives the next one can be iterated.
StepsIn(A, F) == F \in [Nat -> [A -> A]]

Iterated(A, a, F, N) ==
  \E g \in [0..N -> A] : g[0] = a /\ \A n \in 1..N : g[n] = F[n][g[n - 1]]

LEMMA Iterates ==
  ASSUME NEW A, NEW a \in A, NEW F, StepsIn(A, F)
  PROVE  \A N \in Nat : Iterated(A, a, F, N)
  <1> USE DEF StepsIn
  <1> DEFINE S == {N \in Nat : Iterated(A, a, F, N)}
  <1>1. Iterated(A, a, F, 0)
    <2> DEFINE g == [n \in 0..0 |-> a]
    <2>1. g \in [0..0 -> A] /\ g[0] = a /\ \A n \in 1..0 : FALSE
      OBVIOUS
    <2> HIDE DEF g
    <2> QED BY <2>1 DEF Iterated
  <1>2. ASSUME NEW N \in Nat, Iterated(A, a, F, N)
        PROVE  Iterated(A, a, F, N + 1)
    <2>1. PICK g \in [0..N -> A] :
                 g[0] = a /\ \A n \in 1..N : g[n] = F[n][g[n - 1]]
      BY <1>2 DEF Iterated
    <2> DEFINE h == [n \in 0..(N + 1) |-> IF n <= N THEN g[n] ELSE F[n][g[N]]]
    <2>2. F[N + 1][g[N]] \in A
      BY <2>1
    <2>3. h \in [0..(N + 1) -> A] /\ h[0] = a
      BY <2>1, <2>2
    <2>4. ASSUME NEW n \in 1..(N + 1)
          PROVE  h[n] = F[n][h[n - 1]]
      <3>1. CASE n <= N
        BY <3>1, <2>1
      <3>2. CASE n = N + 1
        BY <3>2, <2>1
      <3> QED BY <3>1, <3>2
    <2> HIDE DEF h
    <2> QED BY <2>3, <2>4 DEF Iterated
  <1>3. S \in SUBSET Nat /\ 0 \in S /\ \A N \in S : N + 1 \in S
    BY <1>1, <1>2
  <1>4. \A N \in Nat : N \in S
    <2> HIDE DEF S
    <2> QED BY <1>3, Induction
  <1> QED BY <1>4

-----------------------------------------------------------------------------
\* h goes through the numbers of I from 1 to n, upwards.
Enumerates(h, n, I) ==
  /\ h \in [1..n -> I]
  /\ \A a, b \in 1..n : a < b => h[a] < h[b]
  /\ \A i \in I : \E a \in 1..n : h[a] = i

\* There is one way to do so.
LEMMA EnumerationIsUnique ==
  ASSUME NEW I \in SUBSET Nat, NEW n \in Nat, NEW m \in Nat, NEW h, NEW g,
         Enumerates(h, n, I), Enumerates(g, m, I)
  PROVE  n = m /\ h = g
  <1> USE DEF Enumerates
  <1> DEFINE Same(k) == k <= n => k <= m /\ \A a \in 1..k : h[a] = g[a]
             S == {k \in Nat : Same(k)}
  <1>1. 0 \in S
    OBVIOUS
  <1>2. ASSUME NEW k \in S
        PROVE  k + 1 \in S
    <2> SUFFICES ASSUME k + 1 <= n
                 PROVE  k + 1 <= m /\ h[k + 1] = g[k + 1] /\ \A a \in 1..k : h[a] = g[a]
      OBVIOUS
    <2>1. k \in Nat /\ k <= n /\ k <= m /\ \A a \in 1..k : h[a] = g[a]
      BY <1>2
    <2>2. PICK b \in 1..m : g[b] = h[k + 1]
      <3>1. k + 1 \in 1..n
        BY <2>1
      <3>2. h[k + 1] \in I
        BY <3>1
      <3> QED BY <3>2
    <2>3. ~ (b <= k)
      <3> SUFFICES ASSUME b <= k PROVE FALSE
        OBVIOUS
      <3>1. b \in 1..n /\ k + 1 \in 1..n /\ b < k + 1 /\ h[b] = h[k + 1]
        BY <2>1, <2>2
      <3>2. h[b] \in Nat /\ h[b] < h[k + 1]
        BY <3>1
      <3> QED BY <3>1, <3>2
    <2>4. k + 1 <= m /\ k + 1 \in 1..m /\ k + 1 \in 1..n
      BY <2>1, <2>2, <2>3
    <2>5. PICK c \in 1..n : h[c] = g[k + 1]
      BY <2>4
    <2>6. ~ (c <= k)
      <3> SUFFICES ASSUME c <= k PROVE FALSE
        OBVIOUS
      <3>1. c \in 1..m /\ c < k + 1 /\ g[c] = g[k + 1]
        BY <2>1, <2>4, <2>5
      <3>2. g[c] \in Nat /\ g[c] < g[k + 1]
        BY <3>1, <2>4
      <3> QED BY <3>1, <3>2
    <2>7. h[k + 1] = g[k + 1]
      <3> SUFFICES ASSUME h[k + 1] # g[k + 1] PROVE FALSE
        OBVIOUS
      <3>1. b # k + 1 /\ c # k + 1
        BY <2>2, <2>5
      <3>2. k + 1 < b /\ k + 1 < c
        BY <2>1, <2>2, <2>3, <2>5, <2>6, <3>1
      <3>3. g[k + 1] < g[b] /\ h[k + 1] < h[c]
        BY <3>2, <2>4, <2>2, <2>5
      <3>4. g[k + 1] \in Nat /\ h[k + 1] \in Nat
        BY <2>4
      <3> QED BY <3>3, <3>4, <2>2, <2>5
    <2> QED BY <2>1, <2>4, <2>7
  <1>3. n \in S
    <2>1. S \in SUBSET Nat
      OBVIOUS
    <2> HIDE DEF S
    <2> QED BY <1>1, <1>2, <2>1, Induction
  <1>4. n <= m /\ \A a \in 1..n : h[a] = g[a]
    BY <1>3
  <1>5. n = m
    <2> SUFFICES ASSUME n < m PROVE FALSE
      BY <1>4
    <2>1. m \in 1..m /\ g[m] \in I
      OBVIOUS
    <2>2. PICK a \in 1..n : h[a] = g[m]
      BY <2>1
    <2>3. a \in 1..m /\ a < m /\ g[a] = g[m]
      BY <1>4, <2>2
    <2>4. g[a] \in Nat /\ g[a] < g[m]
      BY <2>1, <2>3
    <2> QED BY <2>3, <2>4
  <1> QED BY <1>4, <1>5

\* r holds the entries of s at the positions in I, in order.
Picks(r, s, I) ==
  \E h : Enumerates(h, Len(r), I) /\ \A a \in 1..Len(r) : r[a] = s[h[a]]

LEMMA PickedOnce ==
  ASSUME NEW T, NEW r \in Seq(T), NEW q \in Seq(T), NEW s, NEW I \in SUBSET Nat,
         Picks(r, s, I), Picks(q, s, I)
  PROVE  r = q
  <1>1. PICK h : Enumerates(h, Len(r), I) /\ \A a \in 1..Len(r) : r[a] = s[h[a]]
    BY DEF Picks
  <1>2. PICK g : Enumerates(g, Len(q), I) /\ \A a \in 1..Len(q) : q[a] = s[g[a]]
    BY DEF Picks
  <1>3. Len(r) \in Nat /\ Len(q) \in Nat
    OBVIOUS
  <1>4. Len(r) = Len(q) /\ h = g
    BY <1>1, <1>2, <1>3, EnumerationIsUnique
  <1>5. \A a \in 1..Len(r) : r[a] = q[a]
    BY <1>1, <1>2, <1>4
  <1> QED BY <1>4, <1>5

LEMMA PicksMore ==
  ASSUME NEW T, NEW s \in Seq(T), NEW I, NEW n \in 1..Len(s), NEW r \in Seq(T),
         Picks(r, s, I \cap (1..(n - 1)))
  PROVE  LET q == IF n \in I THEN Append(r, s[n]) ELSE r
         IN q \in Seq(T) /\ Picks(q, s, I \cap (1..n))
  <1>1. n \in Nat /\ s[n] \in T /\ Len(r) \in Nat
    OBVIOUS
  <1>2. CASE n \notin I
    <2>1. I \cap (1..n) = I \cap (1..(n - 1))
      BY <1>1, <1>2
    <2> QED BY <1>2, <2>1
  <1>3. CASE n \in I
    <2> DEFINE q == Append(r, s[n])
               J == I \cap (1..(n - 1))
               K == I \cap (1..n)
    <2>1. PICK h : Enumerates(h, Len(r), J) /\ \A a \in 1..Len(r) : r[a] = s[h[a]]
      BY DEF Picks
    <2> DEFINE g == [a \in 1..(Len(r) + 1) |-> IF a <= Len(r) THEN h[a] ELSE n]
    <2>2. /\ q \in Seq(T) /\ Len(q) = Len(r) + 1 /\ q[Len(r) + 1] = s[n]
          /\ \A a \in 1..Len(r) : q[a] = r[a]
      BY <1>1
    <2>3. /\ \A a \in 1..Len(r) : g[a] = h[a] /\ h[a] \in J
          /\ g[Len(r) + 1] = n /\ n \in K
      BY <1>1, <1>3, <2>1 DEF Enumerates
    <2>4. \A a : a \in 1..(Len(r) + 1) <=> a \in 1..Len(r) \/ a = Len(r) + 1
      BY <1>1
    <2>5. g \in [1..(Len(r) + 1) -> K]
      BY <1>1, <2>3, <2>4
    <2>6. \A a, b \in 1..(Len(r) + 1) : a < b => g[a] < g[b]
      <3> SUFFICES ASSUME NEW a \in 1..(Len(r) + 1), NEW b \in 1..(Len(r) + 1), a < b
                   PROVE  g[a] < g[b]
        OBVIOUS
      <3>1. a \in 1..Len(r)
        BY <1>1
      <3>2. CASE b = Len(r) + 1
        <4>1. g[a] \in 1..(n - 1) /\ g[b] = n
          BY <2>3, <3>1, <3>2
        <4> QED BY <1>1, <4>1
      <3>3. CASE b \in 1..Len(r)
        BY <2>1, <2>3, <3>1, <3>3 DEF Enumerates
      <3> QED BY <2>4, <3>2, <3>3
    <2>7. \A i \in K : \E a \in 1..(Len(r) + 1) : g[a] = i
      <3> SUFFICES ASSUME NEW i \in K
                   PROVE  \E a \in 1..(Len(r) + 1) : g[a] = i
        OBVIOUS
      <3>1. CASE i = n
        BY <2>3, <2>4, <3>1
      <3>2. CASE i # n
        <4>1. i \in J
          BY <1>1, <3>2
        <4>2. PICK a \in 1..Len(r) : h[a] = i
          BY <2>1, <4>1 DEF Enumerates
        <4> QED BY <2>3, <2>4, <4>2
      <3> QED BY <3>1, <3>2
    <2>8. \A a \in 1..(Len(r) + 1) : q[a] = s[g[a]]
      BY <2>1, <2>2, <2>3, <2>4
    <2> HIDE DEF q, g, K
    <2>9. Enumerates(g, Len(q), K)
      BY <2>2, <2>5, <2>6, <2>7 DEF Enumerates
    <2>10. Picks(q, s, K)
      BY <2>2, <2>8, <2>9 DEF Picks
    <2> QED BY <1>3, <2>2, <2>10 DEF q, K
  <1> QED BY <1>2, <1>3

LEMMA AtPicks ==
  ASSUME NEW T, NEW s \in Seq(T), NEW I
  PROVE  At(s, I) \in Seq(T) /\ Picks(At(s, I), s, I \cap (1..Len(s)))
  <1> DEFINE N == Len(s)
             A == Seq(T)
             Next1(n, o) == IF n \in I THEN Append(o, s[n]) ELSE o
             F == [n \in Nat |-> [o \in A |-> IF n \in 1..N THEN Next1(n, o) ELSE o]]
             Is(f) == f = [n \in 0..N |-> IF n = 0 THEN << >>
                                          ELSE IF n \in I THEN Append(f[n - 1], s[n])
                                          ELSE f[n - 1]]
             taken == CHOOSE f : Is(f)
  <1>1. N \in Nat /\ << >> \in A
    OBVIOUS
  <1>2. PICK g \in [0..N -> A] : g[0] = << >> /\ \A n \in 1..N : g[n] = F[n][g[n - 1]]
    <2>1. StepsIn(A, F)
      <3>1. \A n \in 1..N, o \in A : Next1(n, o) \in A
        OBVIOUS
      <3> HIDE DEF Next1, A, N
      <3> QED BY <3>1 DEF StepsIn
    <2> DEFINE a == << >>
    <2>2. a \in A
      BY <1>1
    <2> HIDE DEF A, F, N, a
    <2>3. Iterated(A, a, F, N)
      BY <1>1, <2>1, <2>2, Iterates
    <2> QED BY <2>3 DEF Iterated, a
  <1>3. Is(g)
    <2>1. ASSUME NEW n \in 0..N
          PROVE  g[n] = IF n = 0 THEN << >> ELSE Next1(n, g[n - 1])
      <3>1. CASE n = 0
        BY <3>1, <1>2
      <3>2. CASE n # 0
        <4>1. n \in 1..N /\ n - 1 \in 0..N /\ n \in Nat
          BY <3>2, <1>1
        <4>2. g[n] = F[n][g[n - 1]] /\ g[n - 1] \in A
          <5> HIDE DEF A, F, N
          <5> QED BY <4>1, <1>2
        <4> HIDE DEF A, Next1, N
        <4> QED BY <3>2, <4>1, <4>2
      <3> QED BY <3>1, <3>2
    <2> HIDE DEF A, F, N
    <2> QED BY <2>1, <1>2
  <1>4. Is(taken)
    <2> HIDE DEF Is
    <2> QED BY <1>3
  <1>5. At(s, I) = taken[N]
    BY DEF At
  <1> DEFINE Holds(n) == taken[n] \in A /\ Picks(taken[n], s, I \cap (1..n))
             S == {n \in Nat : n <= N => Holds(n)}
  <1> HIDE DEF taken
  <1>6. 0 \in S
    <2>1. taken[0] = << >>
      BY <1>1, <1>4
    <2>2. Enumerates([a \in 1..0 |-> a], 0, {}) /\ I \cap (1..0) = {}
      BY DEF Enumerates
    <2>3. Picks(<< >>, s, I \cap (1..0))
      <3>1. Len(<< >>) = 0
        OBVIOUS
      <3>2. \A a \in 1..Len(<< >>) : FALSE
        BY <3>1
      <3> QED BY <2>2, <3>1, <3>2 DEF Picks
    <2>4. Holds(0)
      BY <1>1, <2>1, <2>3
    <2> HIDE DEF Holds
    <2> QED BY <2>4
  <1>7. ASSUME NEW n \in S
        PROVE  n + 1 \in S
    <2>1. CASE n + 1 <= N
      <3>1. n \in Nat /\ Holds(n) /\ n + 1 \in 1..N /\ (n + 1) - 1 = n /\ n + 1 \in 0..N /\ n + 1 # 0
        BY <2>1, <1>1, <1>7
      <3>2. taken[n + 1] = IF n + 1 \in I THEN Append(taken[n], s[n + 1]) ELSE taken[n]
        BY <1>4, <3>1
      <3>3. PICK r, k : r = taken[n] /\ k = n + 1
        OBVIOUS
      <3>4. PICK q : q = IF k \in I THEN Append(r, s[k]) ELSE r
        OBVIOUS
      <3>5. r \in Seq(T) /\ Picks(r, s, I \cap (1..(k - 1))) /\ k \in 1..Len(s)
        BY <3>1, <3>3
      <3>6. q \in Seq(T) /\ Picks(q, s, I \cap (1..k))
        BY <3>4, <3>5, PicksMore
      <3>7. taken[n + 1] = q
        BY <3>2, <3>3, <3>4
      <3>8. Holds(n + 1)
        BY <3>3, <3>6, <3>7
      <3> HIDE DEF Holds
      <3> QED BY <3>1, <3>8
    <2>2. CASE ~ (n + 1 <= N)
      BY <2>2
    <2> QED BY <2>1, <2>2
  <1>8. N \in S
    <2>1. S \in SUBSET Nat
      OBVIOUS
    <2> HIDE DEF S
    <2> QED BY <1>1, <1>6, <1>7, <2>1, Induction
  <1> QED BY <1>5, <1>8

\* To know what At returns it is enough to have such a sequence.
LEMMA AtIs ==
  ASSUME NEW T, NEW s \in Seq(T), NEW I, NEW r \in Seq(T),
         Picks(r, s, I \cap (1..Len(s)))
  PROVE  At(s, I) = r
  <1>1. PICK J : J = I \cap (1..Len(s))
    OBVIOUS
  <1>2. PICK q : q = At(s, I)
    OBVIOUS
  <1>3. J \in SUBSET Nat
    BY <1>1
  <1>4. q \in Seq(T) /\ Picks(q, s, J)
    BY <1>1, <1>2, AtPicks
  <1>5. Picks(r, s, J)
    BY <1>1
  <1>6. q = r
    BY <1>3, <1>4, <1>5, PickedOnce
  <1> QED BY <1>2, <1>6

LEMMA AtNone ==
  ASSUME NEW T, NEW s \in Seq(T), NEW I, I \cap (1..Len(s)) = {}
  PROVE  At(s, I) = << >>
  <1>1. Enumerates([a \in 1..0 |-> a], 0, {})
    BY DEF Enumerates
  <1>2. PICK r : r = << >>
    OBVIOUS
  <1>3. r \in Seq(T) /\ Len(r) = 0 /\ \A a \in 1..0 : FALSE
    BY <1>2
  <1>4. Picks(r, s, I \cap (1..Len(s)))
    BY <1>1, <1>3 DEF Picks
  <1> QED BY <1>2, <1>3, <1>4, AtIs

LEMMA AtOne ==
  ASSUME NEW T, NEW s \in Seq(T), NEW i \in 1..Len(s), NEW I, I \cap (1..Len(s)) = {i}
  PROVE  At(s, I) = << s[i] >>
  <1> DEFINE r == << s[i] >>
  <1>1. /\ r \in Seq(T) /\ Len(r) = 1
        /\ \A a \in 1..1 : a = 1 /\ r[a] = s[i]
    OBVIOUS
  <1> HIDE DEF r
  <1>2. Enumerates([a \in 1..1 |-> i], 1, {i})
    BY DEF Enumerates
  <1>3. Picks(r, s, I \cap (1..Len(s)))
    <2>1. PICK h : h = [a \in 1..1 |-> i]
      OBVIOUS
    <2>2. \A a \in 1..Len(r) : r[a] = s[h[a]]
      BY <1>1, <2>1
    <2>3. Enumerates(h, Len(r), I \cap (1..Len(s)))
      BY <1>1, <1>2, <2>1
    <2> QED BY <2>2, <2>3 DEF Picks
  <1> QED BY <1>1, <1>3, AtIs DEF r

\* A run of neighbours
LEMMA AtRange ==
  ASSUME NEW T, NEW s \in Seq(T), NEW c \in Nat, NEW r \in Seq(T), NEW I,
         I \cap (1..Len(s)) = (c + 1)..(c + Len(r)),
         \A a \in 1..Len(r) : r[a] = s[c + a]
  PROVE  At(s, I) = r
  <1> DEFINE h == [a \in 1..Len(r) |-> c + a]
             J == (c + 1)..(c + Len(r))
  <1>1. Len(r) \in Nat
    OBVIOUS
  <1>2. h \in [1..Len(r) -> J]
    BY <1>1
  <1>3. \A a, b \in 1..Len(r) : a < b => h[a] < h[b]
    BY <1>1
  <1>4. \A i \in J : i - c \in 1..Len(r) /\ h[i - c] = i
    BY <1>1
  <1>5. \A a \in 1..Len(r) : r[a] = s[h[a]]
    OBVIOUS
  <1> HIDE DEF h, J
  <1>6. Picks(r, s, J)
    BY <1>2, <1>3, <1>4, <1>5 DEF Picks, Enumerates
  <1> QED BY <1>6, AtIs DEF J
-----------------------------------------------------------------------------
\* Block b of B lies in flat behind off[b - 1] entries.
Offsets(off, flat, B) ==
  /\ off \in [0..Len(B) -> Nat] /\ off[0] = 0 /\ Len(flat) = off[Len(B)]
  /\ \A b \in 1..Len(B) : /\ off[b] = off[b - 1] + Len(B[b])
                          /\ \A k \in 1..Len(B[b]) : flat[off[b - 1] + k] = B[b][k]

\* A place in a stretch that ends by y is not behind y.
LEMMA Within ==
  ASSUME NEW x \in Nat, NEW n \in Nat, NEW k \in 1..n, NEW y \in Nat, x + n <= y
  PROVE  x + k \in 1..y /\ x + k <= y
  OBVIOUS

LEMMA FlattenIs ==
  ASSUME NEW T, NEW B \in Seq(Seq(T))
  PROVE  FlattenSeq(B) \in Seq(T) /\ \E off : Offsets(off, FlattenSeq(B), B)
  <1> DEFINE N == Len(B)
             A == Seq(T)
             F == [n \in Nat |-> [o \in A |-> IF n \in 1..N THEN o \o B[n] ELSE o]]
  <1>1. N \in Nat /\ << >> \in A /\ \A n \in 1..N : B[n] \in A
    OBVIOUS
  <1>2. PICK g \in [0..N -> A] : g[0] = << >> /\ \A n \in 1..N : g[n] = F[n][g[n - 1]]
    <2>1. StepsIn(A, F)
      <3>1. \A n \in 1..N, o \in A : o \o B[n] \in A
        BY <1>1
      <3> HIDE DEF A, N
      <3> QED BY <3>1 DEF StepsIn
    <2> DEFINE a == << >>
    <2>2. a \in A
      BY <1>1
    <2> HIDE DEF A, F, N, a
    <2>3. Iterated(A, a, F, N)
      BY <1>1, <2>1, <2>2, Iterates
    <2> QED BY <2>3 DEF Iterated, a
  <1>3. ASSUME NEW n \in 1..N
        PROVE  /\ n - 1 \in 0..N /\ n \in 0..N /\ g[n - 1] \in A /\ g[n] \in A
               /\ g[n] = g[n - 1] \o B[n]
    <2>1. n - 1 \in 0..N /\ n \in 0..N /\ n \in Nat
      BY <1>1
    <2>2. g[n - 1] \in A /\ g[n] \in A /\ g[n] = F[n][g[n - 1]]
      <3> HIDE DEF A, N, F
      <3> QED BY <1>2, <2>1
    <2>3. F[n][g[n - 1]] = g[n - 1] \o B[n]
      <3> HIDE DEF A, N
      <3> QED BY <2>1, <2>2
    <2> QED BY <2>1, <2>2, <2>3
  <1> DEFINE off == [n \in 0..N |-> Len(g[n])]
  <1>4. /\ off \in [0..N -> Nat] /\ off[0] = 0
        /\ \A n \in 1..N : off[n] = off[n - 1] + Len(B[n])
    <2>1. \A n \in 0..N : Len(g[n]) \in Nat /\ off[n] = Len(g[n])
      BY <1>2
    <2>2. off[0] = 0
      <3>1. off[0] = Len(g[0]) /\ Len(<< >>) = 0
        BY <1>1, <2>1
      <3> QED BY <1>2, <3>1
    <2>3. ASSUME NEW n \in 1..N
          PROVE  off[n] = off[n - 1] + Len(B[n])
      <3>1. PICK p : p = g[n - 1]
        OBVIOUS
      <3>2. PICK q : q = B[n]
        OBVIOUS
      <3>3. p \in Seq(T) /\ q \in Seq(T)
        BY <1>1, <1>3, <3>1, <3>2
      <3>4. Len(p \o q) = Len(p) + Len(q)
        BY <3>3
      <3>5. off[n] = Len(g[n]) /\ off[n - 1] = Len(g[n - 1])
        BY <1>3, <2>1
      <3> HIDE DEF off
      <3> QED BY <1>3, <3>1, <3>2, <3>4, <3>5
    <2> HIDE DEF N
    <2>4. off \in [0..N -> Nat]
      BY <2>1
    <2> HIDE DEF off
    <2> QED BY <2>2, <2>3, <2>4
  <1> DEFINE Holds(n) == \A b \in 1..n : /\ off[b] <= off[n]
                                         /\ \A k \in 1..Len(B[b]) : g[n][off[b - 1] + k] = B[b][k]
             S == {n \in Nat : n <= N => Holds(n)}
  <1>5. 0 \in S
    OBVIOUS
  <1>6. ASSUME NEW n \in S
        PROVE  n + 1 \in S
    <2> SUFFICES ASSUME n + 1 <= N
                 PROVE  Holds(n + 1)
      <3> HIDE DEF N, Holds
      <3> QED OBVIOUS
    <2>1. n \in Nat /\ n + 1 \in 1..N /\ n \in 0..N /\ (n + 1) - 1 = n /\ Holds(n)
      <3> HIDE DEF N, Holds
      <3> QED BY <1>1, <1>6
    <2>2. /\ g[n] \in A /\ g[n + 1] = g[n] \o B[n + 1] /\ B[n + 1] \in A
          /\ off[n] = Len(g[n]) /\ off[n + 1] = off[n] + Len(B[n + 1])
      BY <1>1, <1>3, <1>4, <2>1
    <2>3. /\ \A i \in 1..off[n] : g[n + 1][i] = g[n][i]
          /\ \A k \in 1..Len(B[n + 1]) : g[n + 1][off[n] + k] = B[n + 1][k]
      <3>0. PICK p, q : p = g[n] /\ q = B[n + 1]
        OBVIOUS
      <3>1. p \in Seq(T) /\ q \in Seq(T)
        BY <2>2, <3>0
      <3>2. \A i \in 1..Len(p) : (p \o q)[i] = p[i]
        BY <3>1
      <3>3. \A k \in 1..Len(q) : (p \o q)[Len(p) + k] = q[k]
        BY <3>1
      <3> HIDE DEF off
      <3> QED BY <2>2, <3>0, <3>2, <3>3
    <2> HIDE DEF off, A
    <2>4. ASSUME NEW b \in 1..(n + 1)
          PROVE  /\ off[b] <= off[n + 1]
                 /\ \A k \in 1..Len(B[b]) : g[n + 1][off[b - 1] + k] = B[b][k]
      <3>1. CASE b = n + 1
        <4>1. off[b] <= off[b] /\ b - 1 = n
          <5>1. off[n + 1] \in Nat
            <6> HIDE DEF N
            <6> QED BY <1>4, <2>1, <1>1
          <5> QED BY <2>1, <3>1, <5>1
        <4> QED BY <2>3, <3>1, <4>1
      <3>2. CASE b \in 1..n
        <4>1. /\ off[b] <= off[n] /\ off[b] \in Nat /\ off[b - 1] \in Nat /\ off[n] \in Nat
              /\ Len(B[b]) \in Nat /\ Len(B[n + 1]) \in Nat
              /\ off[b] = off[b - 1] + Len(B[b])
          <5>1. b \in 1..N /\ b \in 0..N /\ b - 1 \in 0..N
            BY <2>1, <3>2, <1>1
          <5>2. Len(B[b]) \in Nat /\ Len(B[n + 1]) \in Nat
            <6>1. PICK p, q : p = B[b] /\ q = B[n + 1]
              OBVIOUS
            <6>2. p \in Seq(T) /\ q \in Seq(T)
              BY <1>1, <2>1, <5>1, <6>1 DEF A
            <6> QED BY <6>1, <6>2
          <5> HIDE DEF N
          <5> QED BY <1>4, <2>1, <3>2, <5>1, <5>2
        <4>2. ASSUME NEW k \in 1..Len(B[b])
              PROVE  off[b - 1] + k \in 1..off[n]
          <5>1. PICK x, y, z, w : x = off[b - 1] /\ y = Len(B[b]) /\ z = off[n] /\ w = off[b]
            OBVIOUS
          <5> HIDE DEF S, Holds, F, N
          <5>2. x \in Nat /\ y \in Nat /\ z \in Nat /\ w = x + y /\ w <= z /\ k \in 1..y
            BY <4>1, <5>1
          <5>3. x + k \in 1..z
            BY <5>2
          <5> QED BY <5>1, <5>3
        <4>3. \A k \in 1..Len(B[b]) : g[n + 1][off[b - 1] + k] = B[b][k]
          BY <2>1, <2>3, <3>2, <4>2
        <4>4. off[b] <= off[n + 1]
          <5>1. PICK x, y, z, w : x = off[n] /\ y = Len(B[n + 1]) /\ z = off[n + 1] /\ w = off[b]
            OBVIOUS
          <5> HIDE DEF S, Holds, F, N
          <5>2. x \in Nat /\ y \in Nat /\ w \in Nat /\ z = x + y /\ w <= x
            BY <2>2, <4>1, <5>1
          <5>3. w <= z
            BY <5>2
          <5> QED BY <5>1, <5>3
        <4> QED BY <4>3, <4>4
      <3> QED BY <2>1, <3>1, <3>2
    <2> QED BY <2>4
  <1>7. Holds(N)
    <2>1. S \in SUBSET Nat
      OBVIOUS
    <2>2. N \in S
      <3> HIDE DEF S
      <3> QED BY <1>1, <1>5, <1>6, <2>1, Induction
    <2> HIDE DEF Holds, N
    <2> QED BY <1>1, <2>2
  <1>8. FlattenSeq(B) = g[N]
    <2>1. CASE N = 0
      <3>1. FlattenSeq(B) = << >>
        BY <2>1 DEF FlattenSeq
      <3> QED BY <1>2, <2>1, <3>1
    <2>2. CASE N # 0
      <3> DEFINE Is(f) == f = [i \in 1..N |-> IF i = 1 THEN B[i] ELSE f[i - 1] \o B[i]]
                 h == [i \in 1..N |-> g[i]]
                 flatten == CHOOSE f : Is(f)
      <3>1. ASSUME NEW i \in 1..N
            PROVE  g[i] = IF i = 1 THEN B[i] ELSE h[i - 1] \o B[i]
        <4>1. CASE i = 1
          <5>0. 1 \in 1..N /\ 1 - 1 = 0
            BY <1>1, <4>1
          <5>1. g[1] = << >> \o B[1]
            <6> HIDE DEF N
            <6> QED BY <1>2, <1>3, <5>0
          <5>2. PICK q : q = B[1]
            OBVIOUS
          <5>3. q \in Seq(T)
            BY <1>1, <5>0, <5>2
          <5>4. << >> \o q = q
            BY <5>3
          <5> QED BY <4>1, <5>1, <5>2, <5>4
        <4>2. CASE i # 1
          <5>1. i - 1 \in 1..N
            BY <1>1, <4>2
          <5>2. h[i - 1] = g[i - 1]
            BY <5>1
          <5> QED BY <1>3, <4>2, <5>2
        <4> QED BY <4>1, <4>2
      <3>2. Is(h)
        <4>1. \A i \in 1..N : h[i] = g[i]
          OBVIOUS
        <4> HIDE DEF N
        <4> QED BY <3>1
      <3>3. Is(flatten)
        <4> HIDE DEF Is
        <4> QED BY <3>2
      <3>4. FlattenSeq(B) = flatten[N]
        BY <2>2 DEF FlattenSeq
      <3> DEFINE Q == {n \in Nat : n \in 1..N => flatten[n] = g[n]}
      <3> HIDE DEF flatten
      <3>5. 0 \in Q
        OBVIOUS
      <3>6. ASSUME NEW n \in Q
            PROVE  n + 1 \in Q
        <4> SUFFICES ASSUME n + 1 \in 1..N
                     PROVE  flatten[n + 1] = g[n + 1]
          OBVIOUS
        <4>1. flatten[n + 1] = IF n + 1 = 1 THEN B[n + 1] ELSE flatten[(n + 1) - 1] \o B[n + 1]
          <5> HIDE DEF N
          <5> QED BY <3>3
        <4>2. g[n + 1] = IF n + 1 = 1 THEN B[n + 1] ELSE h[(n + 1) - 1] \o B[n + 1]
          <5> HIDE DEF N, h
          <5> QED BY <3>1
        <4>3. n + 1 # 1 => (n + 1) - 1 \in 1..N /\ (n + 1) - 1 = n
          BY <1>1
        <4>4. n + 1 # 1 => flatten[n] = g[n] /\ h[n] = g[n]
          BY <3>6, <4>3
        <4> HIDE DEF N, h
        <4> QED BY <4>1, <4>2, <4>3, <4>4
      <3>7. \A n \in Nat : n \in Q
        <4>1. Q \in SUBSET Nat
          OBVIOUS
        <4> HIDE DEF Q
        <4> QED BY <3>5, <3>6, <4>1, Induction
      <3>8. N \in 1..N
        BY <1>1, <2>2
      <3> HIDE DEF N
      <3> QED BY <1>1, <3>4, <3>7, <3>8
    <2> QED BY <2>1, <2>2
  <1>9. Offsets(off, g[N], B)
    <2>1. Len(g[N]) = off[N] /\ N \in 0..N
      BY <1>1
    <2> HIDE DEF off
    <2> QED BY <1>4, <1>7, <2>1 DEF Offsets
  <1>10. g[N] \in A
    BY <1>1, <1>2
  <1> HIDE DEF off
  <1> QED BY <1>8, <1>9, <1>10

LEMMA OffsetsGrow ==
  ASSUME NEW T, NEW B \in Seq(Seq(T)), NEW flat \in Seq(T), NEW off, Offsets(off, flat, B),
         NEW b \in 0..Len(B)
  PROVE  \A c \in 0..Len(B) : b <= c => off[b] <= off[c]
  <1> DEFINE S == {c \in Nat : b <= c /\ c <= Len(B) => off[b] <= off[c]}
  <1>1. \A n \in 1..Len(B) : Len(B[n]) \in Nat
    BY DEF Offsets
  <1>2. 0 \in S
    BY DEF Offsets
  <1>3. ASSUME NEW c \in S
        PROVE  c + 1 \in S
    <2> SUFFICES ASSUME b <= c + 1, c + 1 <= Len(B)
                 PROVE  off[b] <= off[c + 1]
      OBVIOUS
    <2>1. c \in Nat /\ c \in 0..Len(B) /\ c + 1 \in 1..Len(B) /\ (c + 1) - 1 = c
      OBVIOUS
    <2>2. off[c + 1] = off[c] + Len(B[c + 1]) /\ off[c] \in Nat /\ off[b] \in Nat
      BY <2>1 DEF Offsets
    <2>3. Len(B[c + 1]) \in Nat
      BY <1>1, <2>1
    <2>4. CASE b = c + 1
      BY <2>2, <2>3, <2>4
    <2>5. CASE b <= c
      <3>1. off[b] <= off[c]
        BY <1>3, <2>1, <2>5
      <3> QED BY <2>2, <2>3, <3>1
    <2> QED BY <2>1, <2>4, <2>5
  <1>4. \A c \in Nat : c \in S
    <2>1. S \in SUBSET Nat
      OBVIOUS
    <2> HIDE DEF S
    <2> QED BY <1>2, <1>3, <2>1, Induction
  <1> QED BY <1>4

\* The blocks of B one after the other make up flat.
LaidBy(T, flat, B, off) ==
  /\ flat \in Seq(T) /\ B \in Seq(Seq(T))
  /\ \A b \in 1..Len(B) : off[b - 1] \in Nat /\ Len(B[b]) \in Nat /\ B[b] \in Seq(T)
  /\ \A b \in 1..Len(B) : \A k \in 1..Len(B[b]) :
        off[b - 1] + k \in 1..Len(flat) /\ flat[off[b - 1] + k] = B[b][k]
  /\ \A i \in 1..Len(flat) :
        \E b \in 1..Len(B) : \E k \in 1..Len(B[b]) : i = off[b - 1] + k
  /\ \A b, c \in 1..Len(B) : \A k \in 1..Len(B[b]), l \in 1..Len(B[c]) :
        /\ b < c => off[b - 1] + k < off[c - 1] + l
        /\ off[b - 1] + k = off[c - 1] + l => b = c /\ k = l

\* Each position of the flat sequence is one of one block; blocks keep their order.
LEMMA Places ==
  ASSUME NEW T, NEW B \in Seq(Seq(T)), NEW flat \in Seq(T), NEW off, Offsets(off, flat, B)
  PROVE  LaidBy(T, flat, B, off)
  <1>1. ASSUME NEW b \in 1..Len(B)
        PROVE  /\ b \in 0..Len(B) /\ b - 1 \in 0..Len(B)
               /\ off[b - 1] \in Nat /\ Len(B[b]) \in Nat /\ B[b] \in Seq(T)
               /\ off[b] \in Nat /\ off[b] = off[b - 1] + Len(B[b])
               /\ \A k \in 1..Len(B[b]) : flat[off[b - 1] + k] = B[b][k]
    <2>1. b \in 0..Len(B) /\ b - 1 \in 0..Len(B)
      OBVIOUS
    <2>2. off[b - 1] \in Nat /\ off[b] \in Nat
      BY <2>1 DEF Offsets
    <2>3. B[b] \in Seq(T)
      OBVIOUS
    <2>4. PICK q : q = B[b]
      OBVIOUS
    <2>5. Len(q) \in Nat
      BY <2>3, <2>4
    <2> QED BY <2>1, <2>2, <2>3, <2>4, <2>5 DEF Offsets
  <1>2. Len(flat) = off[Len(B)] /\ Len(B) \in 0..Len(B) /\ Len(B) \in Nat /\ off[Len(B)] \in Nat
    BY DEF Offsets
  <1>3. ASSUME NEW b \in 1..Len(B), NEW k \in 1..Len(B[b])
        PROVE  off[b - 1] + k \in 1..Len(flat)
    <2>1. off[b] <= off[Len(B)]
      <3>1. b \in 0..Len(B) /\ Len(B) \in 0..Len(B) /\ b <= Len(B)
        BY <1>2
      <3> QED BY <3>1, OffsetsGrow
    <2>2. PICK x, n, y : x = off[b - 1] /\ n = Len(B[b]) /\ y = Len(flat)
      OBVIOUS
    <2>3. x \in Nat /\ n \in Nat /\ y \in Nat /\ off[b] = x + n /\ x + n <= y
      <3>1. x \in Nat /\ n \in Nat /\ off[b] = x + n
        BY <1>1, <2>2
      <3> QED BY <1>2, <2>1, <2>2, <3>1
    <2>4. k \in 1..n
      BY <2>2
    <2>5. x + k \in 1..y
      BY <2>3, <2>4, Within
    <2> QED BY <2>2, <2>5
  <1>4. ASSUME NEW i \in 1..Len(flat)
        PROVE  \E b \in 1..Len(B) : \E k \in 1..Len(B[b]) : i = off[b - 1] + k
    <2> DEFINE S == {n \in Nat : n <= Len(B) /\ i <= off[n] =>
                       \E b \in 1..Len(B) : \E k \in 1..Len(B[b]) : i = off[b - 1] + k}
    <2>1. 0 \in S
      BY DEF Offsets
    <2>2. ASSUME NEW n \in S
          PROVE  n + 1 \in S
      <3> SUFFICES ASSUME n + 1 <= Len(B), i <= off[n + 1]
                   PROVE  \E b \in 1..Len(B) : \E k \in 1..Len(B[b]) : i = off[b - 1] + k
        OBVIOUS
      <3>1. n + 1 \in 1..Len(B) /\ n \in Nat /\ (n + 1) - 1 = n
        OBVIOUS
      <3>2. /\ off[n] \in Nat /\ Len(B[n + 1]) \in Nat /\ off[n + 1] = off[n] + Len(B[n + 1])
        BY <1>1, <3>1
      <3>3. CASE i <= off[n]
        BY <2>2, <3>1, <3>3
      <3>4. CASE ~ (i <= off[n])
        <4>1. i - off[n] \in 1..Len(B[n + 1]) /\ i = off[n] + (i - off[n])
          BY <3>2, <3>4
        <4> QED BY <3>1, <4>1
      <3> QED BY <3>3, <3>4
    <2>3. Len(B) \in S
      <3>1. S \in SUBSET Nat
        OBVIOUS
      <3> HIDE DEF S
      <3> QED BY <1>2, <2>1, <2>2, <3>1, Induction
    <2> QED BY <1>2, <2>3
  <1>5. ASSUME NEW b \in 1..Len(B), NEW c \in 1..Len(B), NEW k \in 1..Len(B[b]),
               NEW l \in 1..Len(B[c]), b < c
        PROVE  off[b - 1] + k < off[c - 1] + l
    <2>1. b <= c - 1 /\ c - 1 \in 0..Len(B)
      BY <1>2, <1>5
    <2>2. off[b] <= off[c - 1]
      BY <1>1, <2>1, OffsetsGrow
    <2>3. /\ off[b - 1] \in Nat /\ Len(B[b]) \in Nat /\ off[c - 1] \in Nat /\ off[b] \in Nat
          /\ off[b] = off[b - 1] + Len(B[b])
      BY <1>1
    <2>4. PICK x, n, y : x = off[b - 1] /\ n = Len(B[b]) /\ y = off[c - 1]
      OBVIOUS
    <2>5. x \in Nat /\ n \in Nat /\ y \in Nat /\ x + n <= y /\ k \in 1..n
      BY <2>2, <2>3, <2>4
    <2>6. x + k <= y
      BY <2>5, Within
    <2>7. l \in Nat /\ 1 <= l /\ x + k \in Nat
      <3>1. Len(B[c]) \in Nat
        BY <1>1
      <3>2. l \in Nat /\ 1 <= l
        BY <3>1
      <3> QED BY <2>5, <3>2
    <2>8. x + k < y + l
      BY <2>5, <2>6, <2>7
    <2> QED BY <2>4, <2>8
  <1>6. ASSUME NEW b \in 1..Len(B), NEW c \in 1..Len(B), NEW k \in 1..Len(B[b]),
               NEW l \in 1..Len(B[c]), off[b - 1] + k = off[c - 1] + l
        PROVE  b = c /\ k = l
    <2>1. b = c
      <3>1. b < c \/ c < b \/ b = c
        OBVIOUS
      <3>2. off[b - 1] + k \in Nat
        <4>1. off[b - 1] \in Nat
          BY <1>1
        <4> QED BY <4>1
      <3>3. b < c => off[b - 1] + k < off[c - 1] + l
        BY <1>5
      <3>4. c < b => off[c - 1] + l < off[b - 1] + k
        BY <1>5
      <3> QED BY <1>6, <3>1, <3>2, <3>3, <3>4
    <2>2. off[b - 1] \in Nat
      BY <1>1
    <2> QED BY <1>6, <2>1, <2>2
  <1>7. /\ \A b \in 1..Len(B) : off[b - 1] \in Nat /\ Len(B[b]) \in Nat /\ B[b] \in Seq(T)
        /\ \A b \in 1..Len(B) : \A k \in 1..Len(B[b]) :
              off[b - 1] + k \in 1..Len(flat) /\ flat[off[b - 1] + k] = B[b][k]
    BY <1>1, <1>3
  <1>8. \A i \in 1..Len(flat) :
          \E b \in 1..Len(B) : \E k \in 1..Len(B[b]) : i = off[b - 1] + k
    BY <1>4
  <1>9. \A b, c \in 1..Len(B) : \A k \in 1..Len(B[b]), l \in 1..Len(B[c]) :
          /\ b < c => off[b - 1] + k < off[c - 1] + l
          /\ off[b - 1] + k = off[c - 1] + l => b = c /\ k = l
    BY <1>5, <1>6
  <1> QED BY <1>7, <1>8, <1>9, Zenon DEF LaidBy
-----------------------------------------------------------------------------
(* Duplicates *)

\* The least of some naturals.
LEMMA Least ==
  ASSUME NEW S \in SUBSET Nat, S # {}
  PROVE  Min(S) \in S /\ \A y \in S : Min(S) <= y
  <1> DEFINE R == OpToRel(<, Nat)
  <1>1. PICK x \in S : \A y \in S : << y, x >> \notin R
    <2>1. IsWellFoundedOn(R, Nat)
      BY NatLessThanWellFounded
    <2> HIDE DEF R
    <2> QED BY <2>1, WFMin
  <1>2. ASSUME NEW y \in S
        PROVE  x <= y
    <2> SUFFICES ASSUME y < x
                 PROVE  FALSE
      OBVIOUS
    <2>1. x \in Nat /\ y \in Nat
      OBVIOUS
    <2>2. << y, x >> \in R
      BY <2>1 DEF OpToRel
    <2> HIDE DEF R
    <2> QED BY <1>1, <2>2
  <1> QED BY <1>2 DEF Min

\* r are candidates up to n, unlike each other; every other one up to n is like
\* one of them that comes before it.
Kept(r, hashes, n) ==
  /\ r \in Seq(Nat) /\ \A a \in 1..Len(r) : r[a] \in 1..n
  /\ \A a, b \in 1..Len(r) : a < b => r[a] < r[b] /\ ~ Near(hashes, r[b], r[a])
  /\ \A i \in 1..n : (\A a \in 1..Len(r) : r[a] # i) =>
        \E a \in 1..Len(r) : r[a] < i /\ Near(hashes, i, r[a])

LEMMA KeptMore ==
  ASSUME NEW hashes, NEW n \in Nat, NEW r, Kept(r, hashes, n)
  PROVE  LET q == IF \E j \in ToSet(r) : Near(hashes, n + 1, j) THEN r ELSE Append(r, n + 1)
         IN q \in Seq(Nat) /\ Kept(q, hashes, n + 1)
  <1>0. r \in Seq(Nat) /\ DOMAIN r = 1..Len(r) /\ Len(r) \in Nat
    BY DEF Kept
  <1>1. ToSet(r) = {r[a] : a \in 1..Len(r)}
    BY <1>0 DEF ToSet
  <1>2. \A i \in 1..(n + 1) : i \in 1..n \/ i = n + 1
    OBVIOUS
  <1>3. CASE \E j \in ToSet(r) : Near(hashes, n + 1, j)
    <2>1. PICK a \in 1..Len(r) : Near(hashes, n + 1, r[a])
      BY <1>1, <1>3
    <2>2. \A b \in 1..Len(r) : r[b] \in 1..n /\ r[b] \in 1..(n + 1) /\ r[b] < n + 1
      BY DEF Kept
    <2>3. ASSUME NEW i \in 1..(n + 1), \A b \in 1..Len(r) : r[b] # i
          PROVE  \E b \in 1..Len(r) : r[b] < i /\ Near(hashes, i, r[b])
      BY <1>2, <2>1, <2>2, <2>3 DEF Kept
    <2> QED BY <1>0, <1>3, <2>2, <2>3 DEF Kept
  <1>4. CASE ~ \E j \in ToSet(r) : Near(hashes, n + 1, j)
    <2> DEFINE q == Append(r, n + 1)
    <2>1. /\ q \in Seq(Nat) /\ Len(q) = Len(r) + 1 /\ q[Len(r) + 1] = n + 1
          /\ \A a \in 1..Len(r) : q[a] = r[a]
      BY <1>0
    <2>2. \A a : a \in 1..(Len(r) + 1) <=> a \in 1..Len(r) \/ a = Len(r) + 1
      BY <1>0
    <2>3. \A a \in 1..Len(r) : r[a] \in 1..n /\ r[a] < n + 1 /\ r[a] \in 1..(n + 1)
      BY DEF Kept
    <2> HIDE DEF q
    <2>4. \A a \in 1..Len(q) : q[a] \in 1..(n + 1)
      BY <2>1, <2>2, <2>3
    <2>5. ASSUME NEW a \in 1..Len(q), NEW b \in 1..Len(q), a < b
          PROVE  q[a] < q[b] /\ ~ Near(hashes, q[b], q[a])
      <3>1. a \in 1..Len(r)
        BY <1>0, <2>1, <2>5
      <3>2. CASE b = Len(r) + 1
        <4>1. q[b] = n + 1 /\ q[a] = r[a] /\ r[a] < n + 1
          BY <2>1, <2>3, <3>1, <3>2
        <4> QED BY <1>1, <1>4, <3>1, <4>1
      <3>3. CASE b \in 1..Len(r)
        BY <2>1, <2>5, <3>1, <3>3 DEF Kept
      <3> QED BY <2>1, <2>2, <3>2, <3>3
    <2>6. ASSUME NEW i \in 1..(n + 1), \A a \in 1..Len(q) : q[a] # i
          PROVE  \E a \in 1..Len(q) : q[a] < i /\ Near(hashes, i, q[a])
      <3>1. i \in 1..n
        BY <1>2, <2>1, <2>2, <2>6
      <3>2. \A a \in 1..Len(r) : r[a] # i
        BY <2>1, <2>2, <2>6
      <3>3. PICK a \in 1..Len(r) : r[a] < i /\ Near(hashes, i, r[a])
        BY <3>1, <3>2 DEF Kept
      <3> QED BY <2>1, <2>2, <3>3
    <2>7. Kept(q, hashes, n + 1)
      BY <2>1, <2>4, <2>5, <2>6 DEF Kept
    <2> QED BY <1>4, <2>1, <2>7 DEF q
  <1> QED BY <1>3, <1>4

LEMMA RetainedAre ==
  ASSUME NEW hashes \in Seq(Nat)
  PROVE  Kept(Retained(hashes), hashes, Len(hashes))
  <1> DEFINE N == Len(hashes)
             A == Seq(Nat)
             Next1(n, o) == IF \E j \in ToSet(o) : Near(hashes, n, j) THEN o ELSE Append(o, n)
             F == [n \in Nat |-> [o \in A |-> IF n \in 1..N THEN Next1(n, o) ELSE o]]
             Is(f) == f = [n \in 0..N |-> IF n = 0 THEN << >>
                                          ELSE IF \E j \in ToSet(f[n - 1]) : Near(hashes, n, j)
                                          THEN f[n - 1] ELSE Append(f[n - 1], n)]
             kept == CHOOSE f : Is(f)
  <1>1. N \in Nat /\ << >> \in A
    OBVIOUS
  <1>2. PICK g \in [0..N -> A] : g[0] = << >> /\ \A n \in 1..N : g[n] = F[n][g[n - 1]]
    <2>1. StepsIn(A, F)
      <3>1. \A n \in 1..N, o \in A : Next1(n, o) \in A
        OBVIOUS
      <3> HIDE DEF Next1, A, N
      <3> QED BY <3>1 DEF StepsIn
    <2> DEFINE a == << >>
    <2>2. a \in A
      BY <1>1
    <2> HIDE DEF A, F, N, a
    <2>3. Iterated(A, a, F, N)
      BY <1>1, <2>1, <2>2, Iterates
    <2> QED BY <2>3 DEF Iterated, a
  <1>3. Is(g)
    <2>1. ASSUME NEW n \in 0..N
          PROVE  g[n] = IF n = 0 THEN << >> ELSE Next1(n, g[n - 1])
      <3>1. CASE n = 0
        BY <3>1, <1>2
      <3>2. CASE n # 0
        <4>1. n \in 1..N /\ n - 1 \in 0..N /\ n \in Nat
          BY <3>2, <1>1
        <4>2. g[n] = F[n][g[n - 1]] /\ g[n - 1] \in A
          <5> HIDE DEF A, F, N
          <5> QED BY <4>1, <1>2
        <4> HIDE DEF A, Next1, N
        <4> QED BY <3>2, <4>1, <4>2
      <3> QED BY <3>1, <3>2
    <2> HIDE DEF A, F, N
    <2> QED BY <2>1, <1>2
  <1>4. Is(kept)
    <2> HIDE DEF Is
    <2> QED BY <1>3
  <1>5. Retained(hashes) = kept[N]
    BY DEF Retained
  <1> DEFINE S == {n \in Nat : n <= N => Kept(kept[n], hashes, n)}
  <1> HIDE DEF kept
  <1>6. 0 \in S
    <2>1. kept[0] = << >>
      BY <1>1, <1>4
    <2>2. Len(<< >>) = 0 /\ << >> \in Seq(Nat)
      OBVIOUS
    <2>3. (\A a \in 1..0 : FALSE)
      OBVIOUS
    <2>4. Kept(<< >>, hashes, 0)
      BY <2>2, <2>3 DEF Kept
    <2> HIDE DEF N
    <2> QED BY <2>1, <2>4
  <1>7. ASSUME NEW n \in S
        PROVE  n + 1 \in S
    <2> SUFFICES ASSUME n + 1 <= N
                 PROVE  Kept(kept[n + 1], hashes, n + 1)
      <3> HIDE DEF N
      <3> QED OBVIOUS
    <2>1. n \in Nat /\ Kept(kept[n], hashes, n)
      <3> HIDE DEF N
      <3> QED BY <1>1
    <2>2. n + 1 \in 0..N /\ n + 1 # 0 /\ (n + 1) - 1 = n
      BY <1>1, <2>1
    <2>3. kept[n + 1] = IF \E j \in ToSet(kept[n]) : Near(hashes, n + 1, j)
                        THEN kept[n] ELSE Append(kept[n], n + 1)
      BY <1>4, <2>2
    <2>4. PICK r : r = kept[n]
      OBVIOUS
    <2> HIDE DEF N
    <2> QED BY <2>1, <2>3, <2>4, KeptMore
  <1>8. N \in S
    <2>1. S \in SUBSET Nat
      OBVIOUS
    <2> HIDE DEF S
    <2> QED BY <1>1, <1>6, <1>7, <2>1, Induction
  <1> QED BY <1>5, <1>8

LEMMA DistanceIs ==
  ASSUME NEW a \in Nat, NEW b \in Nat
  PROVE  Distance(a, b) \in Nat /\ Distance(a, b) = Distance(b, a)
  BY DEF Distance

\* The frame a removal names is one that was kept, and the removed one is like it.
LEMMA DuplicateIsNear ==
  ASSUME NEW hashes \in Seq(Nat), NEW i \in 1..Len(hashes), i \notin ToSet(Retained(hashes))
  PROVE  /\ DuplicateOf(hashes, i) \in ToSet(Retained(hashes))
         /\ Near(hashes, i, DuplicateOf(hashes, i))
  <1>1. PICK r : r = Retained(hashes)
    OBVIOUS
  <1>2. Kept(r, hashes, Len(hashes))
    BY <1>1, RetainedAre
  <1>3. ToSet(r) = {r[a] : a \in 1..Len(r)} /\ ToSet(r) \subseteq 1..Len(hashes)
    <2>1. DOMAIN r = 1..Len(r)
      BY <1>2 DEF Kept
    <2> QED BY <1>2, <2>1 DEF Kept, ToSet
  <1> DEFINE earlier == {j \in ToSet(r) : j < i}
             D(j) == Distance(hashes[i], hashes[j])
             far == {D(j) : j \in earlier}
             near == Min(far)
             nearest == {j \in earlier : D(j) = near}
  <1>4. PICK j0 \in earlier : D(j0) <= Threshold
    <2>1. \A a \in 1..Len(r) : r[a] # i
      BY <1>1, <1>3
    <2>2. PICK a \in 1..Len(r) : r[a] < i /\ Near(hashes, i, r[a])
      BY <1>2, <2>1 DEF Kept
    <2> QED BY <1>3, <2>2 DEF Near
  <1>5. ASSUME NEW j \in ToSet(r)
        PROVE  hashes[j] \in Nat
    <2>1. j \in 1..Len(hashes)
      BY <1>3
    <2> QED BY <2>1
  <1>6. hashes[i] \in Nat
    OBVIOUS
  <1>7. far \in SUBSET Nat /\ far # {}
    <2>1. \A j \in earlier : D(j) \in Nat
      BY <1>5, <1>6, DistanceIs
    <2> HIDE DEF D
    <2> QED BY <1>4, <2>1
  <1>8. near \in far /\ near <= D(j0)
    <2> HIDE DEF D
    <2>1. D(j0) \in far
      OBVIOUS
    <2> HIDE DEF far
    <2> QED BY <1>7, <2>1, Least
  <1>9. near <= Threshold
    <2>1. near \in Nat /\ D(j0) \in Nat /\ Threshold \in Nat
      <3> HIDE DEF near
      <3> QED BY <1>7, <1>8, <1>4, <1>5, <1>6, DistanceIs, ThresholdsAssumption
    <2> HIDE DEF near, D
    <2> QED BY <1>4, <1>8, <2>1
  <1>10. nearest \in SUBSET Nat /\ nearest # {}
    <2>1. nearest # {}
      <3> HIDE DEF near, D
      <3> QED BY <1>8
    <2>2. ToSet(r) \subseteq Nat
      <3>1. 1..Len(hashes) \subseteq Nat
        OBVIOUS
      <3> QED BY <1>3, <3>1
    <2> HIDE DEF near, D
    <2> QED BY <2>1, <2>2
  <1>11. Min(nearest) \in nearest
    <2> HIDE DEF nearest
    <2> QED BY <1>10, Least
  <1>12. DuplicateOf(hashes, i) = Min(nearest)
    BY <1>1 DEF DuplicateOf
  <1>13. PICK j : j = DuplicateOf(hashes, i)
    OBVIOUS
  <1>14. j \in ToSet(r) /\ D(j) = near
    <2> HIDE DEF near, D
    <2> QED BY <1>11, <1>12, <1>13
  <1>15. Near(hashes, i, j)
    <2> HIDE DEF near
    <2> QED BY <1>9, <1>14 DEF Near
  <1> QED BY <1>1, <1>13, <1>14, <1>15
-----------------------------------------------------------------------------
(* Keyframes, scene by scene *)

Passes == {"first", "second"}
Frame == [scene : Nat, index : Nat, count : Nat, path : Nat \X Nat, hash : Nat, pass : Passes]
Hashes == {h \in Seq(Nat) : Len(h) > 0}

LEMMA FlattenLaid ==
  ASSUME NEW T, NEW B \in Seq(Seq(T))
  PROVE  \E off : LaidBy(T, FlattenSeq(B), B, off)
  <1>1. PICK flat : flat = FlattenSeq(B)
    OBVIOUS
  <1>2. flat \in Seq(T) /\ \E off : Offsets(off, flat, B)
    BY <1>1, FlattenIs
  <1>3. PICK off : Offsets(off, flat, B)
    BY <1>2
  <1>4. LaidBy(T, flat, B, off)
    BY <1>2, <1>3, Places
  <1> QED BY <1>1, <1>4

\* Position i is that of entry k of block b.
InBlock(flat, B, off, i, b, k) ==
  /\ b \in 1..Len(B) /\ k \in 1..Len(B[b])
  /\ i = off[b - 1] + k /\ flat[i] = B[b][k]

LEMMA PlaceIn ==
  ASSUME NEW T, NEW flat, NEW B, NEW off, LaidBy(T, flat, B, off), NEW i \in 1..Len(flat)
  PROVE  \E b, k : InBlock(flat, B, off, i, b, k)
  <1>1. PICK b \in 1..Len(B) : \E k \in 1..Len(B[b]) : i = off[b - 1] + k
    BY DEF LaidBy
  <1>2. PICK k \in 1..Len(B[b]) : i = off[b - 1] + k
    BY <1>1
  <1>3. flat[off[b - 1] + k] = B[b][k]
    BY DEF LaidBy
  <1> QED BY <1>2, <1>3 DEF InBlock

LEMMA PlaceOf ==
  ASSUME NEW T, NEW flat, NEW B, NEW off, LaidBy(T, flat, B, off),
         NEW b \in 1..Len(B), NEW k \in 1..Len(B[b])
  PROVE  /\ off[b - 1] + k \in 1..Len(flat) /\ flat[off[b - 1] + k] = B[b][k]
         /\ off[b - 1] \in Nat /\ Len(B[b]) \in Nat
         /\ InBlock(flat, B, off, off[b - 1] + k, b, k)
  <1>1. off[b - 1] + k \in 1..Len(flat) /\ flat[off[b - 1] + k] = B[b][k]
    BY DEF LaidBy
  <1>2. off[b - 1] \in Nat /\ Len(B[b]) \in Nat
    BY DEF LaidBy
  <1> QED BY <1>1, <1>2 DEF InBlock

LEMMA PlacesOrdered ==
  ASSUME NEW T, NEW flat, NEW B, NEW off, LaidBy(T, flat, B, off),
         NEW i, NEW b, NEW k, InBlock(flat, B, off, i, b, k),
         NEW j, NEW c, NEW l, InBlock(flat, B, off, j, c, l)
  PROVE  (b < c => i < j) /\ (i = j => b = c /\ k = l)
  <1>1. /\ b \in 1..Len(B) /\ k \in 1..Len(B[b]) /\ i = off[b - 1] + k
        /\ c \in 1..Len(B) /\ l \in 1..Len(B[c]) /\ j = off[c - 1] + l
    BY DEF InBlock
  <1>2. /\ b < c => off[b - 1] + k < off[c - 1] + l
        /\ off[b - 1] + k = off[c - 1] + l => b = c /\ k = l
    <2>1. \A x, y \in 1..Len(B) : \A u \in 1..Len(B[x]), v \in 1..Len(B[y]) :
             /\ x < y => off[x - 1] + u < off[y - 1] + v
             /\ off[x - 1] + u = off[y - 1] + v => x = y /\ u = v
      BY Zenon DEF LaidBy
    <2> QED BY <1>1, <2>1
  <1> QED BY <1>1, <1>2

\* Block b has the frames of one scene, numbered, and each scene one block.
SceneBlocks(B, ss) ==
  /\ B \in Seq(Seq(Frame)) /\ ss \in Seq(Nat) /\ Len(B) = Len(ss)
  /\ \A a, b \in 1..Len(ss) : ss[a] = ss[b] => a = b
  /\ \A b \in 1..Len(B) : Len(B[b]) > 0
  /\ \A b \in 1..Len(B) : \A k \in 1..Len(B[b]) :
        /\ B[b][k].scene = ss[b] /\ B[b][k].index = k /\ B[b][k].count = Len(B[b])
        /\ B[b][k].path = FramePath(ss[b], k, Len(B[b]))

LEMMA BlockIs ==
  ASSUME NEW B, NEW ss, SceneBlocks(B, ss), NEW b \in 1..Len(B), NEW k \in 1..Len(B[b])
  PROVE  /\ b \in 1..Len(ss) /\ ss[b] \in Nat
         /\ B[b][k].scene = ss[b] /\ B[b][k].index = k /\ B[b][k].count = Len(B[b])
         /\ B[b][k].path = FramePath(ss[b], k, Len(B[b]))
  <1>1. b \in 1..Len(ss) /\ ss[b] \in Nat
    <2>1. ss \in Seq(Nat) /\ Len(B) = Len(ss)
      BY DEF SceneBlocks
    <2> QED BY <2>1
  <1>2. \A a \in 1..Len(B) : \A l \in 1..Len(B[a]) :
        /\ B[a][l].scene = ss[a] /\ B[a][l].index = l /\ B[a][l].count = Len(B[a])
        /\ B[a][l].path = FramePath(ss[a], l, Len(B[a]))
    BY DEF SceneBlocks
  <1>3. /\ B[b][k].scene = ss[b] /\ B[b][k].index = k /\ B[b][k].count = Len(B[b])
        /\ B[b][k].path = FramePath(ss[b], k, Len(B[b]))
    BY <1>2
  <1> QED BY <1>1, <1>3

\* Another block, another scene.
LEMMA OneBlock ==
  ASSUME NEW B, NEW ss, SceneBlocks(B, ss), NEW b \in 1..Len(B), NEW c \in 1..Len(B),
         ss[b] = ss[c]
  PROVE  b = c
  BY DEF SceneBlocks

\* The frames of a scene are its block.
LEMMA FramesOfScene ==
  ASSUME NEW B, NEW ss, SceneBlocks(B, ss), NEW c \in 1..Len(ss)
  PROVE  FramesOf(FlattenSeq(B), ss[c]) = B[c]
  <1>1. PICK flat : flat = FlattenSeq(B)
    OBVIOUS
  <1>2. B \in Seq(Seq(Frame)) /\ Len(B) = Len(ss)
    BY DEF SceneBlocks
  <1>3. PICK off : LaidBy(Frame, flat, B, off)
    BY <1>1, <1>2, FlattenLaid
  <1>4. flat \in Seq(Frame) /\ DOMAIN flat = 1..Len(flat)
    BY <1>3 DEF LaidBy
  <1>5. off[c - 1] \in Nat /\ B[c] \in Seq(Frame) /\ Len(B[c]) \in Nat
    BY <1>2, <1>3 DEF LaidBy
  <1>6. PICK o, r : o = off[c - 1] /\ r = B[c]
    OBVIOUS
  <1> DEFINE I == {i \in DOMAIN flat : flat[i].scene = ss[c]}
  <1>7. ASSUME NEW i \in I
        PROVE  i \in (o + 1)..(o + Len(r))
    <2>1a. PICK b, k : InBlock(flat, B, off, i, b, k)
      BY <1>3, <1>4, PlaceIn
    <2>1. b \in 1..Len(B) /\ k \in 1..Len(B[b]) /\ i = off[b - 1] + k /\ flat[i] = B[b][k]
      BY <2>1a DEF InBlock
    <2>2. b = c
      BY <1>2, <2>1, BlockIs, OneBlock
    <2> QED BY <1>5, <1>6, <2>1, <2>2
  <1>8. ASSUME NEW i \in (o + 1)..(o + Len(r))
        PROVE  i \in I
    <2>0. PICK k : k = i - o
      OBVIOUS
    <2>1. k \in 1..Len(r) /\ i = o + k
      BY <1>5, <1>6, <2>0
    <2>2. c \in 1..Len(B) /\ k \in 1..Len(B[c])
      BY <1>2, <1>6, <2>1
    <2>3. i \in 1..Len(flat) /\ flat[i] = r[k]
      BY <1>3, <1>6, <2>1, <2>2, PlaceOf
    <2>4. r[k].scene = ss[c]
      BY <1>6, <2>2, BlockIs
    <2> QED BY <1>4, <2>3, <2>4
  <1>9. I \cap (1..Len(flat)) = (o + 1)..(o + Len(r))
    BY <1>4, <1>7, <1>8
  <1>10. ASSUME NEW a \in 1..Len(r)
         PROVE  r[a] = flat[o + a]
    <2>1. c \in 1..Len(B) /\ a \in 1..Len(B[c])
      BY <1>2, <1>6
    <2>2. flat[off[c - 1] + a] = B[c][a]
      BY <1>3, <2>1, PlaceOf
    <2> QED BY <1>6, <2>2
  <1> HIDE DEF I
  <1>11. o \in Nat /\ r \in Seq(Frame)
    BY <1>5, <1>6
  <1>12. At(flat, I) = r
    <2>1. \A a \in 1..Len(r) : r[a] = flat[o + a]
      BY <1>10
    <2> QED BY <1>4, <1>9, <2>1, <1>11, AtRange
  <1> QED BY <1>1, <1>6, <1>12 DEF FramesOf, I

LEMMA ScenesOfBlocks ==
  ASSUME NEW B, NEW ss, SceneBlocks(B, ss)
  PROVE  ScenesOf(FlattenSeq(B)) = {ss[b] : b \in 1..Len(ss)}
  <1>1. PICK flat : flat = FlattenSeq(B)
    OBVIOUS
  <1>2. B \in Seq(Seq(Frame)) /\ Len(B) = Len(ss)
    BY DEF SceneBlocks
  <1>3. PICK off : LaidBy(Frame, flat, B, off)
    BY <1>1, <1>2, FlattenLaid
  <1>4. flat \in Seq(Frame) /\ DOMAIN flat = 1..Len(flat)
    BY <1>3 DEF LaidBy
  <1>5. ASSUME NEW i \in DOMAIN flat
        PROVE  flat[i].scene \in {ss[b] : b \in 1..Len(ss)}
    <2>1a. PICK b, k : InBlock(flat, B, off, i, b, k)
      BY <1>3, <1>4, PlaceIn
    <2>1. b \in 1..Len(B) /\ k \in 1..Len(B[b]) /\ i = off[b - 1] + k /\ flat[i] = B[b][k]
      BY <2>1a DEF InBlock
    <2>2. b \in 1..Len(ss) /\ B[b][k].scene = ss[b]
      BY <2>1, BlockIs
    <2> QED BY <2>1, <2>2
  <1>6. ASSUME NEW b \in 1..Len(ss)
        PROVE  \E i \in DOMAIN flat : flat[i].scene = ss[b]
    <2>1. 1 \in 1..Len(B[b])
      <3>1. Len(B[b]) \in Nat /\ Len(B[b]) > 0
        BY <1>2, <1>3 DEF LaidBy, SceneBlocks
      <3> QED BY <3>1
    <2>2. off[b - 1] + 1 \in DOMAIN flat /\ flat[off[b - 1] + 1] = B[b][1]
      BY <1>2, <1>3, <1>4, <2>1, PlaceOf
    <2> QED BY <1>2, <2>1, <2>2, BlockIs
  <1> QED BY <1>1, <1>5, <1>6 DEF ScenesOf

\* Stages accept such keyframes, and one of them is known by its scene and index.
LEMMA BlocksNormalized ==
  ASSUME NEW B, NEW ss, SceneBlocks(B, ss)
  PROVE  Normalized(FlattenSeq(B))
  <1>1. PICK flat : flat = FlattenSeq(B)
    OBVIOUS
  <1>2. B \in Seq(Seq(Frame)) /\ Len(B) = Len(ss)
    BY DEF SceneBlocks
  <1>3. PICK off : LaidBy(Frame, flat, B, off)
    BY <1>1, <1>2, FlattenLaid
  <1>4. flat \in Seq(Frame) /\ DOMAIN flat = 1..Len(flat) /\ Len(flat) \in Nat
    BY <1>3 DEF LaidBy
  <1>5. ASSUME NEW i \in DOMAIN flat, NEW n \in 1..Len(flat)
        PROVE  /\ SubSeq(flat, 1, n) \in Seq(Frame) /\ DOMAIN SubSeq(flat, 1, n) = 1..n
               /\ \A j \in 1..n : SubSeq(flat, 1, n)[j] = flat[j]
    BY <1>4
  <1>6. ASSUME NEW b \in 1..Len(B), NEW n \in Nat, NEW m \in 0..Len(B[b]), n <= Len(flat),
               \A k \in 1..Len(B[b]) : off[b - 1] + k <= n <=> k <= m
        PROVE  Cardinality({j \in 1..n : flat[j].scene = ss[b]}) = m
    <2>1. off[b - 1] \in Nat /\ Len(B[b]) \in Nat
      BY <1>3 DEF LaidBy
    <2>2. PICK o : o = off[b - 1]
      OBVIOUS
    <2>3. {j \in 1..n : flat[j].scene = ss[b]} = (o + 1)..(o + m)
      <3>1. ASSUME NEW j \in 1..n, flat[j].scene = ss[b]
            PROVE  j \in (o + 1)..(o + m)
        <4>1. j \in 1..Len(flat)
          BY <1>4, <1>6
        <4>2a. PICK c, k : InBlock(flat, B, off, j, c, k)
          BY <1>3, <4>1, PlaceIn
        <4>2. c \in 1..Len(B) /\ k \in 1..Len(B[c]) /\ j = off[c - 1] + k /\ flat[j] = B[c][k]
          BY <4>2a DEF InBlock
        <4>3. c = b
          BY <1>2, <3>1, <4>2, BlockIs, OneBlock
        <4>4. k \in 1..Len(B[b]) /\ j = o + k /\ k <= m
          BY <1>6, <2>2, <4>2, <4>3
        <4> QED BY <2>1, <2>2, <4>4
      <3>2. ASSUME NEW j \in (o + 1)..(o + m)
            PROVE  j \in 1..n /\ flat[j].scene = ss[b]
        <4>0. PICK k : k = j - o
          OBVIOUS
        <4>1. k \in 1..Len(B[b]) /\ k <= m /\ j = o + k /\ j \in Nat /\ j >= 1
          BY <2>1, <2>2, <4>0
        <4>2. j <= n
          BY <1>6, <2>2, <4>1
        <4>3. flat[j] = B[b][k]
          BY <1>3, <2>2, <4>1, PlaceOf
        <4>4. B[b][k].scene = ss[b]
          BY <4>1, BlockIs
        <4> QED BY <4>1, <4>2, <4>3, <4>4
      <3> QED BY <3>1, <3>2
    <2>4. Cardinality((o + 1)..(o + m)) = m
      <3>1. o \in Nat /\ m \in Nat
        BY <2>1, <2>2
      <3>2. o + 1 \in Int /\ o + m \in Int
        BY <3>1
      <3>3. PICK x, y : x = o + 1 /\ y = o + m
        OBVIOUS
      <3>4. Cardinality(x..y) = IF x > y THEN 0 ELSE y - x + 1
        BY <3>2, <3>3, FS_Interval
      <3>5. (IF x > y THEN 0 ELSE y - x + 1) = m
        BY <3>1, <3>3
      <3> QED BY <3>3, <3>4, <3>5
    <2> QED BY <2>3, <2>4
  <1>7. ASSUME NEW i \in DOMAIN flat
        PROVE  /\ flat[i].index = Count(SubSeq(flat, 1, i), flat[i].scene)
               /\ flat[i].count = Count(flat, flat[i].scene)
    <2>1a. PICK b, k : InBlock(flat, B, off, i, b, k)
      BY <1>3, <1>4, PlaceIn
    <2>1. b \in 1..Len(B) /\ k \in 1..Len(B[b]) /\ i = off[b - 1] + k /\ flat[i] = B[b][k]
      BY <2>1a DEF InBlock
    <2>2. flat[i].scene = ss[b] /\ flat[i].index = k /\ flat[i].count = Len(B[b])
      BY <2>1, BlockIs
    <2>3. off[b - 1] \in Nat /\ Len(B[b]) \in Nat /\ i \in 1..Len(flat) /\ i \in Nat /\ i <= Len(flat)
      BY <1>3, <1>4, <2>1, PlaceOf
    <2>4. Cardinality({j \in 1..i : flat[j].scene = ss[b]}) = k
      <3>1. \A l \in 1..Len(B[b]) : off[b - 1] + l <= i <=> l <= k
        BY <2>1, <2>3
      <3>2. k \in 0..Len(B[b])
        BY <2>1, <2>3
      <3> QED BY <1>6, <2>1, <2>3, <3>1, <3>2
    <2>5. Cardinality({j \in 1..Len(flat) : flat[j].scene = ss[b]}) = Len(B[b])
      <3>1. \A l \in 1..Len(B[b]) : off[b - 1] + l <= Len(flat) <=> l <= Len(B[b])
        <4>1. \A l \in 1..Len(B[b]) : off[b - 1] + l \in 1..Len(flat)
          BY <1>3, <2>1, PlaceOf
        <4> QED BY <1>4, <2>3, <4>1
      <3>2. Len(B[b]) \in 0..Len(B[b]) /\ Len(flat) <= Len(flat)
        BY <1>4, <2>3
      <3> QED BY <1>4, <1>6, <2>1, <3>1, <3>2
    <2>6. Count(flat, ss[b]) = Cardinality({j \in 1..Len(flat) : flat[j].scene = ss[b]})
      BY <1>4 DEF Count
    <2>7. PICK s : s = SubSeq(flat, 1, i)
      OBVIOUS
    <2>8. DOMAIN s = 1..i /\ \A j \in 1..i : s[j] = flat[j]
      BY <1>5, <2>3, <2>7
    <2>9. Count(s, ss[b]) = Cardinality({j \in 1..i : flat[j].scene = ss[b]})
      <3>1. {j \in DOMAIN s : s[j].scene = ss[b]} = {j \in 1..i : flat[j].scene = ss[b]}
        BY <2>8
      <3> QED BY <3>1 DEF Count
    <2> QED BY <2>2, <2>4, <2>5, <2>6, <2>7, <2>9
  <1> QED BY <1>1, <1>7 DEF Normalized

LEMMA KnownByIndex ==
  ASSUME NEW B, NEW ss, SceneBlocks(B, ss), NEW flat, flat = FlattenSeq(B),
         NEW i \in 1..Len(flat), NEW j \in 1..Len(flat),
         flat[i].scene = flat[j].scene, flat[i].index = flat[j].index
  PROVE  i = j
  <1>1. PICK off : LaidBy(Frame, flat, B, off)
    BY FlattenLaid DEF SceneBlocks
  <1>2a. PICK b, k : InBlock(flat, B, off, i, b, k)
    BY <1>1, PlaceIn
  <1>2. b \in 1..Len(B) /\ k \in 1..Len(B[b]) /\ i = off[b - 1] + k /\ flat[i] = B[b][k]
    BY <1>2a DEF InBlock
  <1>3a. PICK c, l : InBlock(flat, B, off, j, c, l)
    BY <1>1, PlaceIn
  <1>3. c \in 1..Len(B) /\ l \in 1..Len(B[c]) /\ j = off[c - 1] + l /\ flat[j] = B[c][l]
    BY <1>3a DEF InBlock
  <1>4. k = l /\ ss[b] = ss[c]
    BY <1>2, <1>3, BlockIs
  <1>5. b = c
    BY <1>2, <1>3, <1>4, OneBlock
  <1> QED BY <1>2, <1>3, <1>4, <1>5
-----------------------------------------------------------------------------
(* Documents of keyframes *)

LEMMA SceneFramesAre ==
  ASSUME NEW s \in Nat, NEW h \in Hashes, NEW p \in Passes
  PROVE  LET B == SceneFrames(s, h, p)
             r == Retained(h)
         IN /\ B \in Seq(Frame) /\ Len(B) > 0 /\ Len(B) = Len(r)
            /\ \A k \in 1..Len(B) :
                 /\ r[k] \in 1..Len(h) /\ B[k].hash = h[r[k]] /\ B[k].pass = p
                 /\ B[k].scene = s /\ B[k].index = k /\ B[k].count = Len(B)
                 /\ B[k].path = FramePath(s, k, Len(B))
  <1>1. PICK r : r = Retained(h)
    OBVIOUS
  <1>2. h \in Seq(Nat) /\ Len(h) \in Nat /\ Len(h) > 0
    BY DEF Hashes
  <1>3. Kept(r, h, Len(h))
    BY <1>1, <1>2, RetainedAre
  <1>4. r \in Seq(Nat) /\ Len(r) \in Nat /\ DOMAIN r = 1..Len(r)
    BY <1>3 DEF Kept
  <1>5. Len(r) > 0
    <2>1. 1 \in 1..Len(h)
      BY <1>2
    <2>2. \E a \in 1..Len(r) : TRUE
      BY <1>3, <2>1 DEF Kept
    <2> QED BY <1>4, <2>2
  <1> DEFINE B == [k \in 1..Len(r) |->
                     [scene |-> s, index |-> k, count |-> Len(r),
                      path |-> FramePath(s, k, Len(r)), hash |-> h[r[k]], pass |-> p]]
  <1>6. SceneFrames(s, h, p) = B
    BY <1>1, <1>4 DEF SceneFrames
  <1>7. ASSUME NEW k \in 1..Len(r)
        PROVE  /\ B[k] \in Frame /\ r[k] \in 1..Len(h)
               /\ B[k].hash = h[r[k]] /\ B[k].pass = p
               /\ B[k].scene = s /\ B[k].index = k /\ B[k].count = Len(r)
               /\ B[k].path = FramePath(s, k, Len(r))
    <2>1. r[k] \in 1..Len(h)
      BY <1>3 DEF Kept
    <2>2. h[r[k]] \in Nat /\ FramePath(s, k, Len(r)) \in Nat \X Nat /\ k \in Nat
      BY <1>2, <1>4, <2>1 DEF FramePath
    <2> QED BY <1>4, <2>1, <2>2 DEF Frame
  <1>8. B \in Seq(Frame) /\ Len(B) = Len(r)
    <2>1. B \in [1..Len(r) -> Frame]
      BY <1>7
    <2> HIDE DEF B
    <2> QED BY <1>4, <2>1
  <1> HIDE DEF B
  <1> QED BY <1>1, <1>5, <1>6, <1>7, <1>8

\* Hashes and a pass for every scene of ss, each scene once.
Given(ss, H, P) ==
  /\ ss \in Seq(Nat)
  /\ \A a, b \in 1..Len(ss) : ss[a] = ss[b] => a = b
  /\ \A b \in 1..Len(ss) : H[ss[b]] \in Hashes /\ P[ss[b]] \in Passes

Blocks(ss, H, P) == [b \in 1..Len(ss) |-> SceneFrames(ss[b], H[ss[b]], P[ss[b]])]

LEMMA BlocksAre ==
  ASSUME NEW ss, NEW H, NEW P, Given(ss, H, P)
  PROVE  SceneBlocks(Blocks(ss, H, P), ss)
  <1>1. ss \in Seq(Nat) /\ Len(ss) \in Nat
    BY DEF Given
  <1>2. PICK B : B = Blocks(ss, H, P)
    OBVIOUS
  <1>3. ASSUME NEW b \in 1..Len(ss)
        PROVE  /\ B[b] \in Seq(Frame) /\ Len(B[b]) > 0
               /\ \A k \in 1..Len(B[b]) :
                    /\ B[b][k].scene = ss[b] /\ B[b][k].index = k /\ B[b][k].count = Len(B[b])
                    /\ B[b][k].path = FramePath(ss[b], k, Len(B[b]))
    <2>1. ss[b] \in Nat /\ H[ss[b]] \in Hashes /\ P[ss[b]] \in Passes
      BY <1>1 DEF Given
    <2>2. B[b] = SceneFrames(ss[b], H[ss[b]], P[ss[b]])
      BY <1>2 DEF Blocks
    <2>3. PICK s, h, p : s = ss[b] /\ h = H[ss[b]] /\ p = P[ss[b]]
      OBVIOUS
    <2>4. PICK q : q = SceneFrames(s, h, p)
      OBVIOUS
    <2>5. /\ q \in Seq(Frame) /\ Len(q) > 0
          /\ \A k \in 1..Len(q) :
               /\ q[k].scene = s /\ q[k].index = k /\ q[k].count = Len(q)
               /\ q[k].path = FramePath(s, k, Len(q))
      BY <2>1, <2>3, <2>4, SceneFramesAre
    <2> QED BY <2>2, <2>3, <2>4, <2>5
  <1>4. B \in Seq(Seq(Frame)) /\ Len(B) = Len(ss)
    <2>1. B = [b \in 1..Len(ss) |-> B[b]]
      BY <1>2 DEF Blocks
    <2>2. B \in [1..Len(ss) -> Seq(Frame)]
      BY <1>3, <2>1
    <2> QED BY <1>1, <2>2
  <1>5. SceneBlocks(B, ss)
    <2>1. \A a, b \in 1..Len(ss) : ss[a] = ss[b] => a = b
      BY DEF Given
    <2> QED BY <1>1, <1>3, <1>4, <2>1 DEF SceneBlocks
  <1> QED BY <1>2, <1>5

Removals(ss, H, P) == UNION {SceneRemovals(ss[b], H[ss[b]], P[ss[b]]) : b \in 1..Len(ss)}

\* The keyframes and the removals of these scenes, from these candidates.
Document(doc, ss, H, P) ==
  /\ Given(ss, H, P)
  /\ doc.keyframes = FlattenSeq(Blocks(ss, H, P)) /\ doc.removed = Removals(ss, H, P)

LEMMA AdaptiveCountIs ==
  ASSUME NEW length, NEW max \in 1..3
  PROVE  AdaptiveCount(length, max) \in 1..3
  <1>1. PICK n : n = IF length < Short THEN 1 ELSE IF length < Long THEN 2 ELSE 3
    OBVIOUS
  <1>2. n \in 1..3
    BY <1>1
  <1>3. {max, n} \in SUBSET Nat /\ {max, n} # {}
    BY <1>2
  <1>4. Min({max, n}) \in {max, n}
    BY <1>3, Least
  <1> QED BY <1>1, <1>2, <1>4 DEF AdaptiveCount

\* A document all of one pass.
OnePassOver(doc, ss, p) ==
  \E H, P : Document(doc, ss, H, P) /\ \A s \in ToSet(ss) : P[s] = p

\* Scenes, each once, and what was seen of each.
Extractable(ss, look) ==
  /\ ss \in Seq(Nat)
  /\ \A a, b \in 1..Len(ss) : ss[a] = ss[b] => a = b
  /\ \A b \in 1..Len(ss) : look[ss[b]] \in Looks

\* One extraction makes such a document.
LEMMA ExtractedIs ==
  ASSUME NEW ss, NEW look, Extractable(ss, look), NEW lengths, NEW max \in 1..3,
         NEW p \in Passes, NEW doc, doc = Extracted(ss, lengths, max, look, p)
  PROVE  OnePassOver(doc, ss, p)
  <1> DEFINE D == ToSet(ss)
             h(s) == SubSeq(look[s], 1, AdaptiveCount(lengths[s], max))
             H == [s \in D |-> h(s)]
             P == [s \in D |-> p]
  <1>0. /\ ss \in Seq(Nat) /\ \A a, b \in 1..Len(ss) : ss[a] = ss[b] => a = b
        /\ \A b \in 1..Len(ss) : look[ss[b]] \in Looks
    BY DEF Extractable
  <1>1. DOMAIN ss = 1..Len(ss) /\ Len(ss) \in Nat
    BY <1>0
  <1>2. ASSUME NEW b \in 1..Len(ss)
        PROVE  ss[b] \in D /\ h(ss[b]) \in Hashes
    <2>1. ss[b] \in D
      BY <1>1 DEF ToSet
    <2>2. PICK l : l = look[ss[b]]
      OBVIOUS
    <2>3. l \in Seq(Nat) /\ Len(l) = 3
      BY <1>0, <2>2, ReprocessingAssumption
    <2>4. PICK n : n = AdaptiveCount(lengths[ss[b]], max)
      OBVIOUS
    <2>5. n \in 1..3
      BY <2>4, AdaptiveCountIs
    <2>6. SubSeq(l, 1, n) \in Seq(Nat) /\ Len(SubSeq(l, 1, n)) = n
      <3>0. ASSUME NEW i \in 1..n
            PROVE  l[i] \in Nat
        <4>1. i \in 1..3
          BY <2>5
        <4>2. i \in 1..Len(l)
          BY <2>3, <4>1
        <4> QED BY <2>3, <4>2, ElementOfSeq
      <3>1. n \in Int /\ 1 \in Int
        BY <2>5
      <3>2. (IF 1 <= n THEN n - 1 + 1 ELSE 0) = n
        BY <2>5
      <3> QED BY <3>0, <3>1, <3>2, SubSeqProperties
    <2>7. SubSeq(l, 1, n) \in Hashes
      BY <2>5, <2>6 DEF Hashes
    <2> QED BY <2>1, <2>2, <2>4, <2>7
  <1> HIDE DEF h
  <1>3. \A b \in 1..Len(ss) : H[ss[b]] = h(ss[b]) /\ P[ss[b]] = p
    BY <1>2
  <1> HIDE DEF H, P, D
  <1>4. Given(ss, H, P)
    BY <1>0, <1>2, <1>3 DEF Given
  <1>5. doc = [keyframes |-> FlattenSeq([b \in 1..Len(ss) |-> SceneFrames(ss[b], h(ss[b]), p)]),
               removed |-> UNION {SceneRemovals(ss[b], h(ss[b]), p) : b \in 1..Len(ss)}]
    BY <1>1 DEF Extracted, h
  <1>6. [b \in 1..Len(ss) |-> SceneFrames(ss[b], h(ss[b]), p)] = Blocks(ss, H, P)
    BY <1>3 DEF Blocks
  <1>7. {SceneRemovals(ss[b], h(ss[b]), p) : b \in 1..Len(ss)}
          = {SceneRemovals(ss[b], H[ss[b]], P[ss[b]]) : b \in 1..Len(ss)}
    BY <1>3
  <1>8. Document(doc, ss, H, P)
    <2>1. doc.keyframes = FlattenSeq(Blocks(ss, H, P))
      BY <1>5, <1>6
    <2>2. doc.removed = Removals(ss, H, P)
      <3>1. PICK X : X = {SceneRemovals(ss[b], h(ss[b]), p) : b \in 1..Len(ss)}
        OBVIOUS
      <3>2. doc.removed = UNION X
        BY <1>5, <3>1
      <3> QED BY <1>7, <3>1, <3>2, Zenon DEF Removals
    <2> QED BY <1>4, <2>1, <2>2 DEF Document
  <1>9. \A s \in ToSet(ss) : P[s] = p
    BY DEF P, D
  <1> QED BY <1>8, <1>9 DEF OnePassOver
-----------------------------------------------------------------------------
\* In such a document duplicates are justified.
LEMMA DocumentJustified ==
  ASSUME NEW doc, NEW ss, NEW H, NEW P, Document(doc, ss, H, P)
  PROVE  Justified(doc)
  <1> DEFINE B == Blocks(ss, H, P)
  <1>1. PICK flat : flat = FlattenSeq(B)
    OBVIOUS
  <1>2. Given(ss, H, P) /\ doc.keyframes = flat /\ doc.removed = Removals(ss, H, P)
    BY <1>1 DEF Document
  <1>3. SceneBlocks(B, ss)
    BY <1>2, BlocksAre
  <1>4. Len(B) = Len(ss) /\ B \in Seq(Seq(Frame))
    BY <1>3 DEF SceneBlocks
  <1>5. PICK off : LaidBy(Frame, flat, B, off)
    BY <1>1, <1>4, FlattenLaid
  <1>6. ASSUME NEW b \in 1..Len(ss)
        PROVE  /\ ss[b] \in Nat /\ H[ss[b]] \in Hashes /\ H[ss[b]] \in Seq(Nat) /\ P[ss[b]] \in Passes
               /\ B[b] = SceneFrames(ss[b], H[ss[b]], P[ss[b]])
               /\ Kept(Retained(H[ss[b]]), H[ss[b]], Len(H[ss[b]]))
               /\ Len(B[b]) = Len(Retained(H[ss[b]]))
    <2>1. ss[b] \in Nat /\ H[ss[b]] \in Hashes /\ P[ss[b]] \in Passes
      <3>1. ss \in Seq(Nat)
        BY <1>2 DEF Given
      <3> QED BY <1>2, <3>1 DEF Given
    <2>2. H[ss[b]] \in Seq(Nat)
      BY <2>1 DEF Hashes
    <2>3. B[b] = SceneFrames(ss[b], H[ss[b]], P[ss[b]])
      BY DEF Blocks
    <2>4. PICK s, h, p : s = ss[b] /\ h = H[ss[b]] /\ p = P[ss[b]]
      OBVIOUS
    <2>5. Kept(Retained(h), h, Len(h))
      BY <2>2, <2>4, RetainedAre
    <2>6. Len(SceneFrames(s, h, p)) = Len(Retained(h))
      BY <2>1, <2>4, SceneFramesAre
    <2> HIDE DEF B
    <2> QED BY <2>1, <2>2, <2>3, <2>4, <2>5, <2>6
  <1>7. ASSUME NEW b \in 1..Len(ss), NEW k \in 1..Len(B[b])
        PROVE  LET h == H[ss[b]]
                   r == Retained(h)
               IN /\ r[k] \in 1..Len(h) /\ B[b][k].hash = h[r[k]] /\ B[b][k].pass = P[ss[b]]
                  /\ B[b][k].path = FramePath(ss[b], k, Len(r)) /\ B[b][k].scene = ss[b]
                  /\ B[b][k].hash \in Nat
    <2> HIDE DEF B
    <2>1. PICK s, h, p : s = ss[b] /\ h = H[ss[b]] /\ p = P[ss[b]]
      OBVIOUS
    <2>2. s \in Nat /\ h \in Hashes /\ p \in Passes /\ h \in Seq(Nat)
      BY <1>6, <2>1
    <2>3. PICK q, r : q = SceneFrames(s, h, p) /\ r = Retained(h)
      OBVIOUS
    <2>4. q = B[b] /\ k \in 1..Len(q)
      BY <1>6, <2>1, <2>3
    <2>5. /\ r[k] \in 1..Len(h) /\ q[k].hash = h[r[k]] /\ q[k].pass = p
          /\ q[k].path = FramePath(s, k, Len(q)) /\ Len(q) = Len(r) /\ q[k].scene = s
      <3>1. /\ Len(q) = Len(r)
            /\ \A a \in 1..Len(q) :
                 /\ r[a] \in 1..Len(h) /\ q[a].hash = h[r[a]] /\ q[a].pass = p
                 /\ q[a].scene = s /\ q[a].index = a /\ q[a].count = Len(q)
                 /\ q[a].path = FramePath(s, a, Len(q))
        <4>1. LET Q == SceneFrames(s, h, p)
                  R == Retained(h)
              IN /\ Q \in Seq(Frame) /\ Len(Q) > 0 /\ Len(Q) = Len(R)
                 /\ \A a \in 1..Len(Q) :
                      /\ R[a] \in 1..Len(h) /\ Q[a].hash = h[R[a]] /\ Q[a].pass = p
                      /\ Q[a].scene = s /\ Q[a].index = a /\ Q[a].count = Len(Q)
                      /\ Q[a].path = FramePath(s, a, Len(Q))
          BY <2>2, SceneFramesAre
        <4> QED BY <2>3, <4>1
      <3> QED BY <2>4, <3>1
    <2>6. h[r[k]] \in Nat
      BY <2>2, <2>5
    <2> QED BY <2>1, <2>3, <2>4, <2>5, <2>6
  <1>8. ASSUME NEW i \in 1..Len(flat), NEW j \in 1..Len(flat),
               flat[i].scene = flat[j].scene, flat[i] # flat[j]
        PROVE  Distance(flat[i].hash, flat[j].hash) > Threshold
    <2> HIDE DEF B
    <2>1. PICK b, k : InBlock(flat, B, off, i, b, k)
      BY <1>5, PlaceIn
    <2>2. PICK c, l : InBlock(flat, B, off, j, c, l)
      BY <1>5, PlaceIn
    <2>3. /\ b \in 1..Len(B) /\ k \in 1..Len(B[b]) /\ flat[i] = B[b][k]
          /\ c \in 1..Len(B) /\ l \in 1..Len(B[c]) /\ flat[j] = B[c][l]
      BY <2>1, <2>2 DEF InBlock
    <2>4. b = c
      BY <1>3, <1>8, <2>3, BlockIs, OneBlock
    <2>5. PICK h : h = H[ss[b]]
      OBVIOUS
    <2>6. PICK r : r = Retained(h)
      OBVIOUS
    <2>7. Kept(r, h, Len(h)) /\ Len(B[b]) = Len(r) /\ h \in Seq(Nat)
      BY <1>4, <1>6, <2>3, <2>5, <2>6
    <2>8. /\ k \in 1..Len(r) /\ l \in 1..Len(r) /\ k # l
          /\ flat[i].hash = h[r[k]] /\ flat[j].hash = h[r[l]]
          /\ r[k] \in 1..Len(h) /\ r[l] \in 1..Len(h)
      <3>1. k # l
        BY <1>8, <2>3, <2>4
      <3>2. b \in 1..Len(ss) /\ k \in 1..Len(B[b]) /\ l \in 1..Len(B[b])
        BY <1>4, <2>3, <2>4
      <3>3. /\ r[k] \in 1..Len(h) /\ B[b][k].hash = h[r[k]]
            /\ r[l] \in 1..Len(h) /\ B[b][l].hash = h[r[l]]
        BY <1>7, <2>5, <2>6, <3>2
      <3> QED BY <2>3, <2>4, <2>7, <3>1, <3>2, <3>3
    <2>9. ASSUME NEW x \in 1..Len(r), NEW y \in 1..Len(r), x < y
          PROVE  ~ Near(h, r[y], r[x])
      BY <2>7, <2>9 DEF Kept
    <2>10. PICK x, y : x = h[r[k]] /\ y = h[r[l]]
      OBVIOUS
    <2>11. x \in Nat /\ y \in Nat
      <3>1. h[r[k]] \in Nat /\ h[r[l]] \in Nat
        BY <2>7, <2>8, ElementOfSeq
      <3> QED BY <2>10, <3>1
    <2>12. ~ (Distance(x, y) <= Threshold)
      <3>1. k < l \/ l < k
        BY <2>8
      <3>2. CASE k < l
        <4>1. ~ (Distance(y, x) <= Threshold)
          BY <2>8, <2>9, <2>10, <3>2 DEF Near
        <4> QED BY <4>1, <2>11, DistanceIs
      <3>3. CASE l < k
        BY <2>8, <2>9, <2>10, <3>3 DEF Near
      <3> QED BY <3>1, <3>2, <3>3
    <2>13. Distance(x, y) > Threshold
      <3>1. Distance(x, y) \in Nat /\ Threshold \in Nat
        BY <2>11, DistanceIs, ThresholdsAssumption
      <3> QED BY <2>12, <3>1
    <2> QED BY <2>8, <2>10, <2>13
  <1>9. ASSUME NEW r \in Removals(ss, H, P)
        PROVE  \E i \in 1..Len(flat) :
                 /\ flat[i].scene = r.scene /\ flat[i].path = r.of /\ flat[i].pass = r.pass
                 /\ Distance(flat[i].hash, r.hash) <= Threshold
    <2> HIDE DEF B
    <2>1. PICK b \in 1..Len(ss) : r \in SceneRemovals(ss[b], H[ss[b]], P[ss[b]])
      BY DEF Removals
    <2>2. PICK s, h, p : s = ss[b] /\ h = H[ss[b]] /\ p = P[ss[b]]
      OBVIOUS
    <2>3. PICK kept : kept = Retained(h)
      OBVIOUS
    <2>4. h \in Seq(Nat) /\ Kept(kept, h, Len(h)) /\ Len(B[b]) = Len(kept)
      BY <1>6, <2>2, <2>3
    <2>5. kept \in Seq(Nat) /\ DOMAIN kept = 1..Len(kept) /\ DOMAIN h = 1..Len(h)
      BY <2>4 DEF Kept
    <2>6. PICK i \in DOMAIN h \ ToSet(kept) :
            r = [scene |-> s, hash |-> h[i], pass |-> p,
                 of |-> FramePath(s, CHOOSE k \in DOMAIN kept : kept[k] = DuplicateOf(h, i),
                                  Len(kept))]
      BY <2>1, <2>2, <2>3 DEF SceneRemovals
    <2>7. PICK d : d = DuplicateOf(h, i)
      OBVIOUS
    <2>8. d \in ToSet(kept) /\ Near(h, i, d)
      BY <2>3, <2>4, <2>5, <2>6, <2>7, DuplicateIsNear
    <2>9. PICK k : k = CHOOSE l \in DOMAIN kept : kept[l] = d
      OBVIOUS
    <2>10. k \in 1..Len(kept) /\ kept[k] = d
      BY <2>5, <2>8, <2>9 DEF ToSet
    <2>11. b \in 1..Len(B) /\ k \in 1..Len(B[b])
      BY <1>4, <2>4, <2>10
    <2>12. /\ B[b][k].scene = s /\ B[b][k].hash = h[d] /\ B[b][k].pass = p
           /\ B[b][k].path = FramePath(s, k, Len(kept))
      BY <1>7, <2>2, <2>3, <2>10, <2>11
    <2>13. off[b - 1] + k \in 1..Len(flat) /\ flat[off[b - 1] + k] = B[b][k]
      BY <1>5, <2>11, PlaceOf
    <2>14. Distance(h[d], h[i]) <= Threshold
      <3>1. h[d] \in Nat /\ h[i] \in Nat
        <4>1. d \in 1..Len(h) /\ i \in 1..Len(h)
          BY <2>4, <2>5, <2>6, <2>10 DEF Kept
        <4> QED BY <2>4, <4>1
      <3>2. Distance(h[i], h[d]) <= Threshold
        BY <2>8 DEF Near
      <3> QED BY <3>1, <3>2, DistanceIs
    <2>15. r.scene = s /\ r.hash = h[i] /\ r.pass = p /\ r.of = FramePath(s, k, Len(kept))
      BY <2>6, <2>7, <2>9
    <2> QED BY <2>12, <2>13, <2>14, <2>15
  <1>10. flat \in Seq(Frame) /\ DOMAIN flat = 1..Len(flat)
    BY <1>5 DEF LaidBy
  <1>11. ToSet(flat) = {flat[i] : i \in 1..Len(flat)}
    BY <1>10 DEF ToSet
  <1> HIDE DEF B
  <1>12. /\ \A a, b \in ToSet(flat) : a.scene = b.scene /\ a # b
                                        => Distance(a.hash, b.hash) > Threshold
         /\ \A r \in doc.removed :
              \E k \in ToSet(flat) : /\ k.scene = r.scene /\ k.path = r.of /\ k.pass = r.pass
                                     /\ Distance(k.hash, r.hash) <= Threshold
    BY <1>2, <1>8, <1>9, <1>11
  <1> QED BY <1>2, <1>12 DEF Justified
-----------------------------------------------------------------------------
LEMMA BlockOf ==
  ASSUME NEW doc, NEW ss, NEW H, NEW P, Document(doc, ss, H, P), NEW b \in 1..Len(ss)
  PROVE  /\ FramesOf(doc.keyframes, ss[b]) = SceneFrames(ss[b], H[ss[b]], P[ss[b]])
         /\ FramesOf(doc.keyframes, ss[b]) # << >>
  <1>1. PICK B : B = Blocks(ss, H, P)
    OBVIOUS
  <1>2. SceneBlocks(B, ss) /\ doc.keyframes = FlattenSeq(B)
    BY <1>1, BlocksAre DEF Document
  <1>3. FramesOf(doc.keyframes, ss[b]) = B[b]
    BY <1>2, FramesOfScene
  <1>4. Len(B[b]) > 0
    BY <1>2 DEF SceneBlocks
  <1>5. B[b] # << >>
    <2>1. Len(<< >>) = 0
      OBVIOUS
    <2> QED BY <1>4, <2>1
  <1> QED BY <1>1, <1>3, <1>5 DEF Blocks

LEMMA ScenesOfDocument ==
  ASSUME NEW doc, NEW ss, NEW H, NEW P, Document(doc, ss, H, P)
  PROVE  ScenesOf(doc.keyframes) = ToSet(ss)
  <1>1. PICK B : B = Blocks(ss, H, P)
    OBVIOUS
  <1>2. SceneBlocks(B, ss) /\ doc.keyframes = FlattenSeq(B)
    BY <1>1, BlocksAre DEF Document
  <1>3. ss \in Seq(Nat)
    BY <1>2 DEF SceneBlocks
  <1>4. ScenesOf(doc.keyframes) = {ss[b] : b \in 1..Len(ss)}
    BY <1>2, ScenesOfBlocks
  <1> QED BY <1>3, <1>4 DEF ToSet

\* The overlay accepts a second extraction over the selected scenes.
LEMMA DocumentsCovered ==
  ASSUME NEW src, NEW ids, NEW H, NEW P, Document(src, ids, H, P),
         NEW new, NEW sel, NEW G, NEW Q, Document(new, sel, G, Q)
  PROVE  KeyframesCovered(ids, ToSet(sel), new, src)
  <1>1. ScenesOf(new.keyframes) = ToSet(sel)
    BY ScenesOfDocument
  <1>2. ASSUME NEW s \in ToSet(ids)
        PROVE  FramesOf(src.keyframes, s) # << >>
    <2>1. PICK b \in 1..Len(ids) : ids[b] = s
      <3>1. ids \in Seq(Nat)
        BY DEF Document, Given
      <3> QED BY <3>1 DEF ToSet
    <2> QED BY <2>1, BlockOf
  <1> QED BY <1>1, <1>2 DEF KeyframesCovered

\* The second pass's document holds the second extraction where a scene was
\* selected, and the source elsewhere.
Overlaid(doc, ids, H, P, sel, Q) ==
  \E K, R : /\ Document(doc, ids, K, R)
            /\ \A s \in ToSet(ids) : IF s \in ToSet(sel) THEN R[s] = Q[s]
                                     ELSE K[s] = H[s] /\ R[s] = P[s]

LEMMA MergedIs ==
  ASSUME NEW src, NEW ids, NEW H, NEW P, Document(src, ids, H, P),
         NEW new, NEW sel, NEW G, NEW Q, Document(new, sel, G, Q),
         ToSet(sel) \subseteq ToSet(ids)
  PROVE  Overlaid(MergedKeyframes(ids, ToSet(sel), new, src), ids, H, P, sel, Q)
  <1> DEFINE selected == ToSet(sel)
             K == [s \in ToSet(ids) |-> IF s \in selected THEN G[s] ELSE H[s]]
             R == [s \in ToSet(ids) |-> IF s \in selected THEN Q[s] ELSE P[s]]
             doc == MergedKeyframes(ids, selected, new, src)
  <1>1. Given(ids, H, P) /\ Given(sel, G, Q)
    BY DEF Document
  <1>2. /\ ids \in Seq(Nat) /\ DOMAIN ids = 1..Len(ids) /\ ToSet(ids) = {ids[b] : b \in 1..Len(ids)}
        /\ sel \in Seq(Nat) /\ DOMAIN sel = 1..Len(sel) /\ ToSet(sel) = {sel[b] : b \in 1..Len(sel)}
    <2>1. ids \in Seq(Nat) /\ sel \in Seq(Nat)
      BY <1>1 DEF Given
    <2> QED BY <2>1 DEF ToSet
  <1>3. ASSUME NEW b \in 1..Len(ids)
        PROVE  /\ K[ids[b]] = IF ids[b] \in selected THEN G[ids[b]] ELSE H[ids[b]]
               /\ R[ids[b]] = IF ids[b] \in selected THEN Q[ids[b]] ELSE P[ids[b]]
    <2>1. ids[b] \in ToSet(ids)
      BY <1>2
    <2> HIDE DEF selected
    <2> QED BY <2>1
  <1>4. \A s \in ToSet(ids) : IF s \in selected THEN R[s] = Q[s]
                              ELSE K[s] = H[s] /\ R[s] = P[s]
    OBVIOUS
  <1> HIDE DEF K, R
  <1>5. Given(ids, K, R)
    <2>1. ASSUME NEW b \in 1..Len(ids)
          PROVE  K[ids[b]] \in Hashes /\ R[ids[b]] \in Passes
      <3>1. CASE ids[b] \in selected
        <4>1. PICK c \in 1..Len(sel) : ids[b] = sel[c]
          BY <1>2, <3>1
        <4>2. G[sel[c]] \in Hashes /\ Q[sel[c]] \in Passes
          BY <1>1 DEF Given
        <4> QED BY <1>3, <3>1, <4>1, <4>2
      <3>2. CASE ids[b] \notin selected
        <4>1. H[ids[b]] \in Hashes /\ P[ids[b]] \in Passes
          BY <1>1 DEF Given
        <4> QED BY <1>3, <3>2, <4>1
      <3> QED BY <3>1, <3>2
    <2> QED BY <1>1, <2>1 DEF Given
  <1>6. ASSUME NEW b \in 1..Len(ids)
        PROVE  FramesOf(IF ids[b] \in selected THEN new.keyframes ELSE src.keyframes, ids[b])
                 = SceneFrames(ids[b], K[ids[b]], R[ids[b]])
    <2>1. CASE ids[b] \in selected
      <3>1. PICK c \in 1..Len(sel) : ids[b] = sel[c]
        BY <1>2, <2>1
      <3>2. FramesOf(new.keyframes, sel[c]) = SceneFrames(sel[c], G[sel[c]], Q[sel[c]])
        BY BlockOf
      <3> QED BY <1>3, <2>1, <3>1, <3>2
    <2>2. CASE ids[b] \notin selected
      <3>1. FramesOf(src.keyframes, ids[b]) = SceneFrames(ids[b], H[ids[b]], P[ids[b]])
        BY BlockOf
      <3> QED BY <1>3, <2>2, <3>1
    <2> QED BY <2>1, <2>2
  <1>7. doc = [keyframes |-> FlattenSeq([b \in 1..Len(ids) |->
                 FramesOf(IF ids[b] \in selected THEN new.keyframes ELSE src.keyframes, ids[b])]),
               removed |-> {r \in src.removed : r.scene \notin selected} \cup new.removed]
    BY <1>2 DEF MergedKeyframes
  <1>8. doc.keyframes = FlattenSeq(Blocks(ids, K, R))
    <2>1. [b \in 1..Len(ids) |->
             FramesOf(IF ids[b] \in selected THEN new.keyframes ELSE src.keyframes, ids[b])]
            = Blocks(ids, K, R)
      <3> HIDE DEF selected
      <3> QED BY <1>6 DEF Blocks
    <2> HIDE DEF doc
    <2> QED BY <1>7, <2>1
  <1>9. doc.removed = Removals(ids, K, R)
    <2>1. \A s, h, p : \A r \in SceneRemovals(s, h, p) : r.scene = s
      BY DEF SceneRemovals
    <2>2. doc.removed = {r \in src.removed : r.scene \notin selected} \cup new.removed
      <3> HIDE DEF doc
      <3> QED BY <1>7
    <2>3. src.removed = Removals(ids, H, P) /\ new.removed = Removals(sel, G, Q)
      BY DEF Document
    <2> HIDE DEF doc, selected
    <2>4. ASSUME NEW r \in Removals(ids, K, R)
          PROVE  r \in doc.removed
      <3>1. PICK b \in 1..Len(ids) : r \in SceneRemovals(ids[b], K[ids[b]], R[ids[b]])
        BY DEF Removals
      <3>2. CASE ids[b] \in selected
        <4>1. PICK c \in 1..Len(sel) : ids[b] = sel[c]
          BY <1>2, <3>2 DEF selected
        <4>2. r \in SceneRemovals(sel[c], G[sel[c]], Q[sel[c]])
          BY <1>3, <3>1, <3>2, <4>1
        <4>3. r \in Removals(sel, G, Q)
          BY <4>2 DEF Removals
        <4> QED BY <2>2, <2>3, <4>3
      <3>3. CASE ids[b] \notin selected
        <4>1. r \in SceneRemovals(ids[b], H[ids[b]], P[ids[b]])
          BY <1>3, <3>1, <3>3
        <4>2. r \in Removals(ids, H, P)
          BY <4>1 DEF Removals
        <4>3. r.scene = ids[b]
          BY <2>1, <4>1
        <4> QED BY <2>2, <2>3, <3>3, <4>2, <4>3
      <3> QED BY <3>2, <3>3
    <2>5. ASSUME NEW r \in doc.removed
          PROVE  r \in Removals(ids, K, R)
      <3>1. CASE r \in new.removed
        <4>1. PICK c \in 1..Len(sel) : r \in SceneRemovals(sel[c], G[sel[c]], Q[sel[c]])
          BY <2>3, <3>1 DEF Removals
        <4>2. PICK b \in 1..Len(ids) : ids[b] = sel[c] /\ ids[b] \in selected
          BY <1>2 DEF selected
        <4>3. r \in SceneRemovals(ids[b], K[ids[b]], R[ids[b]])
          BY <1>3, <4>1, <4>2
        <4> QED BY <4>3 DEF Removals
      <3>2. CASE r \in src.removed /\ r.scene \notin selected
        <4>1. PICK b \in 1..Len(ids) : r \in SceneRemovals(ids[b], H[ids[b]], P[ids[b]])
          BY <2>3, <3>2 DEF Removals
        <4>2. r.scene = ids[b]
          BY <2>1, <4>1
        <4>3. r \in SceneRemovals(ids[b], K[ids[b]], R[ids[b]])
          BY <1>3, <3>2, <4>1, <4>2
        <4> QED BY <4>3 DEF Removals
      <3> QED BY <2>2, <3>1, <3>2
    <2> QED BY <2>4, <2>5
  <1> HIDE DEF doc
  <1>10. Document(doc, ids, K, R)
    BY <1>5, <1>8, <1>9 DEF Document
  <1> HIDE DEF selected
  <1> QED BY <1>4, <1>10 DEF Overlaid, doc, selected
-----------------------------------------------------------------------------
(* Captions and OCR *)

Entry == [scene : Nat, index : Nat, keyframe : Nat \X Nat, says : Nat \X Passes]

LEMMA DescribedIs ==
  ASSUME NEW kf \in Seq(Frame)
  PROVE  /\ Described(kf) \in Seq(Entry) /\ Len(Described(kf)) = Len(kf)
         /\ \A i \in 1..Len(kf) :
              Described(kf)[i] = [scene |-> kf[i].scene, index |-> kf[i].index,
                                  keyframe |-> kf[i].path, says |-> << kf[i].hash, kf[i].pass >>]
  <1> DEFINE D == [i \in 1..Len(kf) |->
                     [scene |-> kf[i].scene, index |-> kf[i].index,
                      keyframe |-> kf[i].path, says |-> << kf[i].hash, kf[i].pass >>]]
  <1>1. DOMAIN kf = 1..Len(kf) /\ Len(kf) \in Nat
    OBVIOUS
  <1>2. Described(kf) = D
    BY <1>1 DEF Described
  <1>3. ASSUME NEW i \in 1..Len(kf)
        PROVE  D[i] \in Entry
    <2>1. kf[i] \in Frame
      OBVIOUS
    <2> QED BY <2>1 DEF Frame, Entry
  <1>4. D \in [1..Len(kf) -> Entry]
    BY <1>3
  <1>5. D \in Seq(Entry) /\ Len(D) = Len(kf)
    <2> HIDE DEF D
    <2> QED BY <1>1, <1>4
  <1> QED BY <1>2, <1>5

\* Describing some pictures is taking those descriptions of all of them.
LEMMA DescribedAt ==
  ASSUME NEW kf \in Seq(Frame), NEW I
  PROVE  Described(At(kf, I)) = At(Described(kf), I)
  <1>1. PICK r : r = At(kf, I)
    OBVIOUS
  <1>2. PICK D : D = Described(kf)
    OBVIOUS
  <1>3. PICK q : q = Described(r)
    OBVIOUS
  <1>4. PICK J : J = I \cap (1..Len(kf))
    OBVIOUS
  <1>5. r \in Seq(Frame) /\ Picks(r, kf, J)
    BY <1>1, <1>4, AtPicks
  <1>6. PICK h : Enumerates(h, Len(r), J) /\ \A a \in 1..Len(r) : r[a] = kf[h[a]]
    BY <1>5 DEF Picks
  <1>7. /\ D \in Seq(Entry) /\ Len(D) = Len(kf) /\ q \in Seq(Entry) /\ Len(q) = Len(r)
    BY <1>2, <1>3, <1>5, DescribedIs
  <1>8. ASSUME NEW a \in 1..Len(r)
        PROVE  q[a] = D[h[a]]
    <2>1. h[a] \in 1..Len(kf)
      BY <1>4, <1>6 DEF Enumerates
    <2>2. q[a] = [scene |-> r[a].scene, index |-> r[a].index,
                  keyframe |-> r[a].path, says |-> << r[a].hash, r[a].pass >>]
      BY <1>3, <1>5, DescribedIs
    <2>3. PICK b : b = h[a]
      OBVIOUS
    <2>4. D[b] = [scene |-> kf[b].scene, index |-> kf[b].index,
                  keyframe |-> kf[b].path, says |-> << kf[b].hash, kf[b].pass >>]
      BY <1>2, <2>1, <2>3, DescribedIs
    <2> QED BY <1>6, <2>2, <2>3, <2>4
  <1>9. Picks(q, D, I \cap (1..Len(D)))
    BY <1>4, <1>6, <1>7, <1>8 DEF Picks
  <1>10. At(D, I) = q
    BY <1>7, <1>9, AtIs
  <1> QED BY <1>1, <1>2, <1>3, <1>10

LEMMA AtAll ==
  ASSUME NEW T, NEW s \in Seq(T)
  PROVE  At(s, 1..Len(s)) = s
  <1>1. Len(s) \in Nat
    OBVIOUS
  <1>2. (1..Len(s)) \cap (1..Len(s)) = (0 + 1)..(0 + Len(s)) /\ 0 \in Nat
    BY <1>1
  <1>3. \A a \in 1..Len(s) : s[a] = s[0 + a]
    BY <1>1
  <1>4. PICK c : c = 0
    OBVIOUS
  <1>5. PICK I : I = 1..Len(s)
    OBVIOUS
  <1>6. c \in Nat /\ I \cap (1..Len(s)) = (c + 1)..(c + Len(s)) /\ \A a \in 1..Len(s) : s[a] = s[c + a]
    BY <1>2, <1>3, <1>4, <1>5
  <1>7. At(s, I) = s
    BY <1>6, AtRange
  <1> QED BY <1>5, <1>7

\* Some of the descriptions of pictures that their scene and index tell apart.
Describes(e, kf, J) == \E B, ss : /\ SceneBlocks(B, ss) /\ kf = FlattenSeq(B)
                                  /\ e = At(Described(kf), J)

\* Entry a of e describes picture h[a].
Pointed(e, kf, J, h) ==
  /\ Enumerates(h, Len(e), J \cap (1..Len(kf)))
  /\ \A a \in 1..Len(e) : e[a] = Described(kf)[h[a]]

LEMMA DescribesPointed ==
  ASSUME NEW e, NEW kf, NEW J, Describes(e, kf, J)
  PROVE  /\ kf \in Seq(Frame) /\ e \in Seq(Entry)
         /\ \E h : Pointed(e, kf, J, h)
         /\ \A i, j \in 1..Len(kf) :
              kf[i].scene = kf[j].scene /\ kf[i].index = kf[j].index => i = j
  <1>1. PICK B, ss : SceneBlocks(B, ss) /\ kf = FlattenSeq(B) /\ e = At(Described(kf), J)
    BY DEF Describes
  <1>2. kf \in Seq(Frame)
    BY <1>1, FlattenIs DEF SceneBlocks
  <1>3. PICK D : D = Described(kf)
    OBVIOUS
  <1>4. D \in Seq(Entry) /\ Len(D) = Len(kf)
    BY <1>2, <1>3, DescribedIs
  <1>5. e \in Seq(Entry) /\ Picks(e, D, J \cap (1..Len(kf)))
    BY <1>1, <1>3, <1>4, AtPicks
  <1>6. PICK h : Enumerates(h, Len(e), J \cap (1..Len(kf))) /\ \A a \in 1..Len(e) : e[a] = D[h[a]]
    BY <1>5 DEF Picks
  <1>7. Pointed(e, kf, J, h)
    BY <1>3, <1>6 DEF Pointed
  <1>8. \A i, j \in 1..Len(kf) :
          kf[i].scene = kf[j].scene /\ kf[i].index = kf[j].index => i = j
    BY <1>1, KnownByIndex
  <1> QED BY <1>2, <1>5, <1>7, <1>8

LEMMA PointedAt ==
  ASSUME NEW e, NEW kf \in Seq(Frame), NEW J, NEW h, Pointed(e, kf, J, h), NEW a \in 1..Len(e)
  PROVE  /\ h[a] \in J /\ h[a] \in 1..Len(kf) /\ e[a] = Described(kf)[h[a]]
         /\ e[a].scene = kf[h[a]].scene /\ e[a].index = kf[h[a]].index
  <1>1. PICK i : i = h[a]
    OBVIOUS
  <1>2. i \in J /\ i \in 1..Len(kf) /\ e[a] = Described(kf)[i]
    BY <1>1 DEF Pointed, Enumerates
  <1>3. Described(kf)[i] = [scene |-> kf[i].scene, index |-> kf[i].index,
                            keyframe |-> kf[i].path, says |-> << kf[i].hash, kf[i].pass >>]
    BY <1>2, DescribedIs
  <1> QED BY <1>1, <1>2, <1>3

LEMMA PointedOnce ==
  ASSUME NEW e \in Seq(Entry), NEW kf \in Seq(Frame), NEW J, NEW h, Pointed(e, kf, J, h),
         NEW a \in 1..Len(e), NEW b \in 1..Len(e), h[a] = h[b]
  PROVE  a = b
  <1>1. h[a] \in Nat /\ h[b] \in Nat
    BY PointedAt
  <1>2. a < b \/ b < a \/ a = b
    OBVIOUS
  <1>3. a < b => h[a] < h[b]
    BY DEF Pointed, Enumerates
  <1>4. b < a => h[b] < h[a]
    BY DEF Pointed, Enumerates
  <1> QED BY <1>1, <1>2, <1>3, <1>4

\* The entry of a picture, if it was described.
LEMMA EntryForIs ==
  ASSUME NEW e, NEW kf, NEW J, Describes(e, kf, J), NEW i \in 1..Len(kf), NEW q,
         q.scene = kf[i].scene, q.index = kf[i].index
  PROVE  EntryFor(e, q) = IF i \in J THEN << Described(kf)[i] >> ELSE << >>
  <1>1. /\ kf \in Seq(Frame) /\ e \in Seq(Entry) /\ DOMAIN e = 1..Len(e)
        /\ \A j \in 1..Len(kf) :
             kf[i].scene = kf[j].scene /\ kf[i].index = kf[j].index => i = j
    <2>1. kf \in Seq(Frame) /\ e \in Seq(Entry)
      BY DescribesPointed
    <2>2. \A j \in 1..Len(kf) :
             kf[i].scene = kf[j].scene /\ kf[i].index = kf[j].index => i = j
      BY DescribesPointed
    <2> QED BY <2>1, <2>2
  <1>2. PICK h : Pointed(e, kf, J, h)
    BY DescribesPointed
  <1> DEFINE I == {a \in DOMAIN e : e[a].scene = q.scene /\ e[a].index = q.index}
  <1>3. ASSUME NEW a \in 1..Len(e)
        PROVE  a \in I <=> h[a] = i
    <2>1. h[a] \in 1..Len(kf) /\ e[a].scene = kf[h[a]].scene /\ e[a].index = kf[h[a]].index
      BY <1>1, <1>2, PointedAt
    <2> QED BY <1>1, <2>1
  <1>4. CASE i \in J
    <2>1. i \in J \cap (1..Len(kf))
      BY <1>4
    <2>2. PICK a \in 1..Len(e) : h[a] = i
      BY <1>2, <2>1 DEF Pointed, Enumerates
    <2>3. ASSUME NEW b \in 1..Len(e), h[b] = i
          PROVE  b = a
      BY <1>1, <1>2, <2>2, <2>3, PointedOnce
    <2>4. I \cap (1..Len(e)) = {a}
      <3> HIDE DEF I
      <3> QED BY <1>3, <2>2, <2>3
    <2> HIDE DEF I
    <2>5. At(e, I) = << e[a] >>
      BY <1>1, <2>4, AtOne
    <2>6. e[a] = Described(kf)[i]
      BY <1>1, <1>2, <2>2, PointedAt
    <2> QED BY <1>4, <2>5, <2>6 DEF EntryFor, I
  <1>5. CASE i \notin J
    <2>1. I \cap (1..Len(e)) = {}
      <3> SUFFICES ASSUME NEW a \in I \cap (1..Len(e)) PROVE FALSE
        OBVIOUS
      <3>1. h[a] = i
        <4> HIDE DEF I
        <4> QED BY <1>3
      <3>2. h[a] \in J
        <4> HIDE DEF I
        <4> QED BY <1>1, <1>2, PointedAt
      <3> QED BY <1>5, <3>1, <3>2
    <2> HIDE DEF I
    <2>2. At(e, I) = << >>
      BY <1>1, <2>1, AtNone
    <2> QED BY <1>5, <2>2 DEF EntryFor, I
  <1> QED BY <1>4, <1>5

LEMMA DescribesKeyed ==
  ASSUME NEW e, NEW kf, NEW J, Describes(e, kf, J)
  PROVE  Keyed(e)
  <1>1. kf \in Seq(Frame) /\ e \in Seq(Entry) /\ DOMAIN e = 1..Len(e)
    <2>1. kf \in Seq(Frame) /\ e \in Seq(Entry)
      BY DescribesPointed
    <2> QED BY <2>1
  <1>2. PICK h : Pointed(e, kf, J, h)
    BY DescribesPointed
  <1>3. ASSUME NEW a \in 1..Len(e), NEW b \in 1..Len(e),
               e[a].scene = e[b].scene, e[a].index = e[b].index
        PROVE  a = b
    <2>1. /\ h[a] \in 1..Len(kf) /\ e[a].scene = kf[h[a]].scene /\ e[a].index = kf[h[a]].index
          /\ h[b] \in 1..Len(kf) /\ e[b].scene = kf[h[b]].scene /\ e[b].index = kf[h[b]].index
      BY <1>1, <1>2, PointedAt
    <2>2. PICK x, y : x = h[a] /\ y = h[b]
      OBVIOUS
    <2>3. x = y
      <3>1. \A i, j \in 1..Len(kf) :
              kf[i].scene = kf[j].scene /\ kf[i].index = kf[j].index => i = j
        BY DescribesPointed
      <3> QED BY <1>3, <2>1, <2>2, <3>1
    <2> QED BY <1>1, <1>2, <2>2, <2>3, PointedOnce
  <1> QED BY <1>1, <1>3 DEF Keyed
-----------------------------------------------------------------------------
\* Blocks of at most one entry, flattened, are the entries picked.
LEMMA FlattenPicked ==
  ASSUME NEW T, NEW E \in Seq(T), NEW K
  PROVE  FlattenSeq([i \in 1..Len(E) |-> IF i \in K THEN << E[i] >> ELSE << >>]) = At(E, K)
  <1> DEFINE B == [i \in 1..Len(E) |-> IF i \in K THEN << E[i] >> ELSE << >>]
  <1>1. Len(E) \in Nat /\ Len(<< >>) = 0
    OBVIOUS
  <1>2. ASSUME NEW i \in 1..Len(E)
        PROVE  /\ B[i] \in Seq(T)
               /\ i \in K => Len(B[i]) = 1 /\ B[i][1] = E[i]
               /\ i \notin K => Len(B[i]) = 0
    <2>1. E[i] \in T
      OBVIOUS
    <2>2. << E[i] >> \in Seq(T) /\ Len(<< E[i] >>) = 1 /\ << E[i] >>[1] = E[i] /\ << >> \in Seq(T)
      BY <2>1
    <2> QED BY <1>1, <2>2
  <1>3. B \in Seq(Seq(T)) /\ Len(B) = Len(E)
    <2>1. B \in [1..Len(E) -> Seq(T)]
      BY <1>2
    <2> HIDE DEF B
    <2> QED BY <1>1, <2>1
  <1> HIDE DEF B
  <1>4. PICK flat : flat = FlattenSeq(B)
    OBVIOUS
  <1>5. PICK off : LaidBy(T, flat, B, off)
    BY <1>3, <1>4, FlattenLaid
  <1>6. flat \in Seq(T) /\ Len(flat) \in Nat
    BY <1>5 DEF LaidBy
  <1> DEFINE of(a) == CHOOSE i : \E k : InBlock(flat, B, off, a, i, k)
             h == [a \in 1..Len(flat) |-> of(a)]
             J == K \cap (1..Len(E))
  <1>7. ASSUME NEW a \in 1..Len(flat)
        PROVE  h[a] \in J /\ flat[a] = E[h[a]] /\ InBlock(flat, B, off, a, h[a], 1)
    <2>1. PICK i, k : InBlock(flat, B, off, a, i, k)
      BY <1>5, PlaceIn
    <2>2. PICK k1 : InBlock(flat, B, off, a, h[a], k1)
      <3>1. h[a] = CHOOSE x : \E y : InBlock(flat, B, off, a, x, y)
        OBVIOUS
      <3> HIDE DEF h
      <3> QED BY <2>1, <3>1
    <2>3. PICK x : x = h[a]
      OBVIOUS
    <2> HIDE DEF h
    <2>4. x \in 1..Len(E) /\ k1 \in 1..Len(B[x]) /\ flat[a] = B[x][k1]
      BY <1>3, <2>2, <2>3 DEF InBlock
    <2>5. x \in K
      BY <1>2, <2>4
    <2>6. k1 = 1 /\ B[x][1] = E[x]
      BY <1>2, <2>4, <2>5
    <2> QED BY <2>2, <2>3, <2>4, <2>5, <2>6
  <1>8. \A a, b \in 1..Len(flat) : a < b => h[a] < h[b]
    <2> HIDE DEF h
    <2> SUFFICES ASSUME NEW a \in 1..Len(flat), NEW b \in 1..Len(flat), a < b, ~ (h[a] < h[b])
                 PROVE  FALSE
      OBVIOUS
    <2>1. PICK x, y : x = h[a] /\ y = h[b]
      OBVIOUS
    <2>2. InBlock(flat, B, off, a, x, 1) /\ InBlock(flat, B, off, b, y, 1)
      BY <1>7, <2>1
    <2>3. x \in Nat /\ y \in Nat
      BY <1>7, <2>1
    <2>4. y < x \/ x = y
      BY <2>1, <2>3
    <2>5. y < x => b < a
      BY <1>5, <2>2, PlacesOrdered
    <2>6. x = y => a = b
      BY <2>2 DEF InBlock
    <2> QED BY <2>4, <2>5, <2>6
  <1>9. \A i \in J : \E a \in 1..Len(flat) : h[a] = i
    <2> SUFFICES ASSUME NEW i \in J PROVE \E a \in 1..Len(flat) : h[a] = i
      OBVIOUS
    <2>1. 1 \in 1..Len(B[i]) /\ i \in 1..Len(B)
      BY <1>2, <1>3
    <2>2. PICK a : a = off[i - 1] + 1
      OBVIOUS
    <2>3. a \in 1..Len(flat) /\ InBlock(flat, B, off, a, i, 1)
      BY <1>5, <2>1, <2>2, PlaceOf
    <2>4. InBlock(flat, B, off, a, h[a], 1)
      BY <1>7, <2>3
    <2> HIDE DEF h
    <2>5. PICK x : x = h[a]
      OBVIOUS
    <2>6. i = x
      BY <1>5, <2>3, <2>4, <2>5, PlacesOrdered
    <2> QED BY <2>3, <2>5, <2>6
  <1>10. h \in [1..Len(flat) -> J]
    <2>1. \A a \in 1..Len(flat) : h[a] \in J
      BY <1>7
    <2> HIDE DEF of, J
    <2> QED BY <2>1
  <1>11. \A a \in 1..Len(flat) : flat[a] = E[h[a]]
    BY <1>7
  <1> HIDE DEF h, J
  <1>12. Picks(flat, E, J)
    BY <1>8, <1>9, <1>10, <1>11 DEF Picks, Enumerates
  <1>13. At(E, K) = flat
    BY <1>6, <1>12, AtIs DEF J
  <1> QED BY <1>4, <1>13 DEF B

\* Two sequences with the same entries in the same order, at positions of their own.
Matches(f, s, I, t, J) ==
  /\ f \in [I -> J]
  /\ \A i, j \in I : i < j => f[i] < f[j]
  /\ \A j \in J : \E i \in I : f[i] = j
  /\ \A i \in I : s[i] = t[f[i]]

LEMMA AtSame ==
  ASSUME NEW T, NEW s \in Seq(T), NEW t \in Seq(T), NEW I \in SUBSET (1..Len(s)),
         NEW J \in SUBSET (1..Len(t)), NEW f, Matches(f, s, I, t, J)
  PROVE  At(s, I) = At(t, J)
  <1> USE DEF Matches
  <1>1. PICK r : r = At(s, I)
    OBVIOUS
  <1>2. I \cap (1..Len(s)) = I /\ J \cap (1..Len(t)) = J
    OBVIOUS
  <1>3. r \in Seq(T) /\ Picks(r, s, I)
    BY <1>1, <1>2, AtPicks
  <1>4. PICK h : Enumerates(h, Len(r), I) /\ \A a \in 1..Len(r) : r[a] = s[h[a]]
    BY <1>3 DEF Picks
  <1> DEFINE g == [a \in 1..Len(r) |-> f[h[a]]]
  <1>5. \A a \in 1..Len(r) : h[a] \in I
    BY <1>4 DEF Enumerates
  <1>6. g \in [1..Len(r) -> J]
    BY <1>5
  <1>7. \A a, b \in 1..Len(r) : a < b => g[a] < g[b]
    BY <1>4, <1>5 DEF Enumerates
  <1>8. ASSUME NEW j \in J
        PROVE  \E a \in 1..Len(r) : g[a] = j
    <2>1. PICK i \in I : f[i] = j
      OBVIOUS
    <2>2. PICK a \in 1..Len(r) : h[a] = i
      BY <1>4 DEF Enumerates
    <2> QED BY <2>1, <2>2
  <1>9. \A a \in 1..Len(r) : r[a] = t[g[a]]
    BY <1>4, <1>5
  <1> HIDE DEF g
  <1>10. Picks(r, t, J)
    BY <1>6, <1>7, <1>8, <1>9 DEF Picks, Enumerates
  <1>11. At(t, J) = r
    BY <1>2, <1>3, <1>10, AtIs
  <1> QED BY <1>1, <1>11
-----------------------------------------------------------------------------
(* The second pass over the first *)

\* Two keyframe lists over the same scenes, the same outside S.
Alike(kf1, B1, kf2, B2, ids, S) ==
  /\ SceneBlocks(B1, ids) /\ kf1 = FlattenSeq(B1)
  /\ SceneBlocks(B2, ids) /\ kf2 = FlattenSeq(B2)
  /\ \A b \in 1..Len(ids) : ids[b] \notin S => B1[b] = B2[b]

LEMMA AlikeLaid ==
  ASSUME NEW kf1, NEW B1, NEW kf2, NEW B2, NEW ids, NEW S, Alike(kf1, B1, kf2, B2, ids, S)
  PROVE  /\ kf1 \in Seq(Frame) /\ kf2 \in Seq(Frame)
         /\ Len(B1) = Len(ids) /\ Len(B2) = Len(ids)
         /\ \E off : LaidBy(Frame, kf1, B1, off)
         /\ \E off : LaidBy(Frame, kf2, B2, off)
  <1>1. /\ B1 \in Seq(Seq(Frame)) /\ B2 \in Seq(Seq(Frame))
        /\ Len(B1) = Len(ids) /\ Len(B2) = Len(ids)
        /\ kf1 = FlattenSeq(B1) /\ kf2 = FlattenSeq(B2)
    BY DEF Alike, SceneBlocks
  <1>2. (\E off : LaidBy(Frame, kf1, B1, off)) /\ (\E off : LaidBy(Frame, kf2, B2, off))
    BY <1>1, FlattenLaid
  <1>3. kf1 \in Seq(Frame) /\ kf2 \in Seq(Frame)
    BY <1>1, FlattenIs
  <1> QED BY <1>1, <1>2, <1>3

\* A picture outside S is at the same place of its block in both.
LEMMA Counterpart ==
  ASSUME NEW kf1, NEW B1, NEW kf2, NEW B2, NEW ids, NEW S, Alike(kf1, B1, kf2, B2, ids, S),
         NEW off1, LaidBy(Frame, kf1, B1, off1), NEW off2, LaidBy(Frame, kf2, B2, off2),
         NEW i, NEW b, NEW k, InBlock(kf2, B2, off2, i, b, k), kf2[i].scene \notin S
  PROVE  /\ InBlock(kf1, B1, off1, off1[b - 1] + k, b, k)
         /\ off1[b - 1] + k \in 1..Len(kf1) /\ kf1[off1[b - 1] + k] = kf2[i]
  <1>1. b \in 1..Len(B2) /\ k \in 1..Len(B2[b]) /\ kf2[i] = B2[b][k]
    BY DEF InBlock
  <1>2. SceneBlocks(B2, ids) /\ Len(B1) = Len(ids) /\ Len(B2) = Len(ids)
    <2>1. SceneBlocks(B2, ids)
      BY DEF Alike
    <2> QED BY <2>1, AlikeLaid
  <1>3. ids[b] \notin S
    BY <1>1, <1>2, BlockIs
  <1>4. B1[b] = B2[b] /\ b \in 1..Len(B1) /\ k \in 1..Len(B1[b])
    BY <1>1, <1>2, <1>3 DEF Alike
  <1> QED BY <1>1, <1>4, PlaceOf

LEMMA AlikeBack ==
  ASSUME NEW kf1, NEW B1, NEW kf2, NEW B2, NEW ids, NEW S, Alike(kf1, B1, kf2, B2, ids, S)
  PROVE  Alike(kf2, B2, kf1, B1, ids, S)
  BY DEF Alike

LEMMA CopiedAlike ==
  ASSUME NEW kf1, NEW B1, NEW kf2, NEW B2, NEW ids, NEW S, Alike(kf1, B1, kf2, B2, ids, S),
         NEW C, C \cap S = {}
  PROVE  OfScenes(kf2, C) = OfScenes(kf1, C)
  <1>1. /\ kf1 \in Seq(Frame) /\ kf2 \in Seq(Frame)
        /\ DOMAIN kf1 = 1..Len(kf1) /\ DOMAIN kf2 = 1..Len(kf2)
    <2>1. kf1 \in Seq(Frame) /\ kf2 \in Seq(Frame)
      BY AlikeLaid
    <2> QED BY <2>1
  <1>2. PICK off1 : LaidBy(Frame, kf1, B1, off1)
    BY AlikeLaid
  <1>3. PICK off2 : LaidBy(Frame, kf2, B2, off2)
    BY AlikeLaid
  <1> DEFINE I == {i \in DOMAIN kf2 : kf2[i].scene \in C}
             J == {j \in DOMAIN kf1 : kf1[j].scene \in C}
             Same(i, j) == \E b, k : /\ InBlock(kf2, B2, off2, i, b, k)
                                     /\ InBlock(kf1, B1, off1, j, b, k)
             pos(i) == CHOOSE j : Same(i, j)
             f == [i \in I |-> pos(i)]
  <1>4. ASSUME NEW i \in I
        PROVE  pos(i) \in J /\ Same(i, pos(i)) /\ kf2[i] = kf1[pos(i)]
    <2>1. i \in 1..Len(kf2) /\ kf2[i].scene \notin S
      BY <1>1
    <2>2. PICK b, k : InBlock(kf2, B2, off2, i, b, k)
      BY <1>3, <2>1, PlaceIn
    <2>3. InBlock(kf1, B1, off1, off1[b - 1] + k, b, k)
      BY <1>2, <1>3, <2>1, <2>2, Counterpart
    <2>4. \E j : Same(i, j)
      BY <2>2, <2>3
    <2>5. Same(i, pos(i))
      <3> HIDE DEF Same
      <3> QED BY <2>4
    <2>6. PICK j : j = pos(i)
      OBVIOUS
    <2> HIDE DEF pos
    <2>7. PICK c, l : InBlock(kf2, B2, off2, i, c, l) /\ InBlock(kf1, B1, off1, j, c, l)
      BY <2>5, <2>6
    <2>8. off1[c - 1] + l \in 1..Len(kf1) /\ kf1[off1[c - 1] + l] = kf2[i]
      BY <1>2, <1>3, <2>1, <2>7, Counterpart
    <2>9. j = off1[c - 1] + l
      BY <2>7 DEF InBlock
    <2>10. j \in J /\ kf2[i] = kf1[j]
      BY <1>1, <2>8, <2>9
    <2> HIDE DEF J, Same
    <2> QED BY <2>5, <2>6, <2>10
  <1>5. ASSUME NEW i \in I, NEW j \in I, i < j
        PROVE  pos(i) < pos(j)
    <2>1. PICK x, y : x = pos(i) /\ y = pos(j)
      OBVIOUS
    <2>2. Same(i, x) /\ Same(j, y)
      BY <1>4, <2>1
    <2>3. i \in Nat /\ j \in Nat
      BY <1>1
    <2> HIDE DEF pos, I
    <2>4. PICK b, k : InBlock(kf2, B2, off2, i, b, k) /\ InBlock(kf1, B1, off1, x, b, k)
      BY <2>2
    <2>5. PICK c, l : InBlock(kf2, B2, off2, j, c, l) /\ InBlock(kf1, B1, off1, y, c, l)
      BY <2>2
    <2>6. b \in 1..Len(B2) /\ c \in 1..Len(B2) /\ b \in Nat /\ c \in Nat
      <3>1. b \in 1..Len(B2) /\ c \in 1..Len(B2)
        BY <2>4, <2>5 DEF InBlock
      <3> QED BY <3>1
    <2>7. c < b => j < i
      BY <1>3, <2>4, <2>5, PlacesOrdered
    <2>8. CASE b < c
      <3>1. x < y
        BY <1>2, <2>4, <2>5, <2>8, PlacesOrdered
      <3> QED BY <2>1, <3>1
    <2>9. CASE b = c
      <3>1. /\ i = off2[b - 1] + k /\ j = off2[b - 1] + l
            /\ x = off1[b - 1] + k /\ y = off1[b - 1] + l
        BY <2>4, <2>5, <2>9 DEF InBlock
      <3>2. k \in 1..Len(B2[b]) /\ l \in 1..Len(B2[b]) /\ k \in 1..Len(B1[b]) /\ b \in 1..Len(B1)
        BY <2>4, <2>5, <2>9 DEF InBlock
      <3>3. off2[b - 1] \in Nat /\ off1[b - 1] \in Nat
        BY <1>2, <1>3, <2>6, <3>2, PlaceOf
      <3>4. PICK u, v : u = off1[b - 1] /\ v = off2[b - 1]
        OBVIOUS
      <3>5. x < y
        BY <1>5, <3>1, <3>2, <3>3, <3>4
      <3> QED BY <2>1, <3>5
    <2> QED BY <1>5, <2>3, <2>6, <2>7, <2>8, <2>9
  <1>6. ASSUME NEW j \in J
        PROVE  \E i \in I : pos(i) = j
    <2>1. j \in 1..Len(kf1) /\ kf1[j].scene \notin S
      BY <1>1
    <2>2. PICK b, k : InBlock(kf1, B1, off1, j, b, k)
      BY <1>2, <2>1, PlaceIn
    <2>3. PICK i : i = off2[b - 1] + k
      OBVIOUS
    <2>4. InBlock(kf2, B2, off2, i, b, k) /\ i \in 1..Len(kf2) /\ kf2[i] = kf1[j]
      BY <1>2, <1>3, <2>1, <2>2, <2>3, AlikeBack, Counterpart
    <2>5. i \in I
      BY <1>1, <2>4
    <2>6. PICK x : x = pos(i)
      OBVIOUS
    <2>7. Same(i, x)
      BY <1>4, <2>5, <2>6
    <2> HIDE DEF pos, I
    <2>8. PICK c, l : InBlock(kf2, B2, off2, i, c, l) /\ InBlock(kf1, B1, off1, x, c, l)
      BY <2>7
    <2>9. c = b /\ l = k
      BY <1>3, <2>4, <2>8, PlacesOrdered
    <2>10. x = j
      BY <2>2, <2>8, <2>9 DEF InBlock
    <2> QED BY <2>5, <2>6, <2>10
  <1>7. I \in SUBSET (1..Len(kf2)) /\ J \in SUBSET (1..Len(kf1))
    BY <1>1
  <1> HIDE DEF pos, I, J
  <1>8. /\ f \in [I -> J]
        /\ \A i, j \in I : i < j => f[i] < f[j]
        /\ \A j \in J : \E i \in I : f[i] = j
        /\ \A i \in I : kf2[i] = kf1[f[i]]
    <2>1. \A i \in I : pos(i) \in J /\ kf2[i] = kf1[pos(i)]
      BY <1>4
    <2> QED BY <1>5, <1>6, <2>1
  <1> HIDE DEF f
  <1>9. At(kf2, I) = At(kf1, J)
    <2>1. Matches(f, kf2, I, kf1, J)
      BY <1>8 DEF Matches
    <2> QED BY <1>1, <1>7, <2>1, AtSame
  <1> QED BY <1>9 DEF OfScenes, I, J

\* What an overlay merges: the entries K of all pictures, those of S among them,
\* and outside S those the source has.
MergedFrom(m, kf, S, old, gaps, K) ==
  /\ m = At(Described(kf), K)
  /\ \A i \in 1..Len(kf) :
       /\ kf[i].scene \in S => i \in K
       /\ kf[i].scene \notin S =>
            EntryFor(old, kf[i]) = IF i \in K THEN << Described(kf)[i] >> ELSE << >>
       /\ gaps = FALSE => i \in K

\* The descriptions of the pictures of S made now, and those J made before.
OverlayInputs(kf1, kf2, S, new, old, J, gaps) ==
  /\ new = Described(OfScenes(kf2, S)) /\ old = At(Described(kf1), J)
  /\ gaps \in BOOLEAN /\ (gaps \/ 1..Len(kf1) \subseteq J)

\* A Stage accepts them and merges them.
OverlayFits(kf, S, new, old, gaps) ==
  /\ Normalized(kf) /\ EntriesAccepted(kf, S, new, old, gaps)
  /\ \E K : MergedFrom(MergedEntries(kf, S, new, old), kf, S, old, gaps, K)

LEMMA OverlayIs ==
  ASSUME NEW kf1, NEW B1, NEW kf2, NEW B2, NEW ids, NEW S, Alike(kf1, B1, kf2, B2, ids, S),
         NEW new, NEW old, NEW J, NEW gaps, OverlayInputs(kf1, kf2, S, new, old, J, gaps)
  PROVE  OverlayFits(kf2, S, new, old, gaps)
  <1>0. /\ new = Described(OfScenes(kf2, S)) /\ old = At(Described(kf1), J)
        /\ gaps \in BOOLEAN /\ (gaps \/ 1..Len(kf1) \subseteq J)
    BY DEF OverlayInputs
  <1>1. /\ kf1 \in Seq(Frame) /\ kf2 \in Seq(Frame)
        /\ DOMAIN kf1 = 1..Len(kf1) /\ DOMAIN kf2 = 1..Len(kf2)
    <2>1. kf1 \in Seq(Frame) /\ kf2 \in Seq(Frame)
      BY AlikeLaid
    <2> QED BY <2>1
  <1> DEFINE D == Described(kf2)
             I == {i \in DOMAIN kf2 : kf2[i].scene \in S}
             K == {i \in 1..Len(kf2) : kf2[i].scene \in S
                                       \/ \E j \in 1..Len(kf1) : j \in J /\ kf1[j] = kf2[i]}
  <1>2. Describes(old, kf1, J)
    BY <1>0 DEF Alike, Describes
  <1>3. Describes(new, kf2, I)
    <2>1. new = At(Described(kf2), I)
      <3>1. PICK X : X = I
        OBVIOUS
      <3>2. Described(At(kf2, X)) = At(Described(kf2), X)
        BY <1>1, DescribedAt
      <3> QED BY <1>0, <3>1, <3>2 DEF OfScenes
    <2> HIDE DEF I
    <2> QED BY <2>1 DEF Alike, Describes
  <1>4. D \in Seq(Entry) /\ Len(D) = Len(kf2) /\ DOMAIN D = 1..Len(kf2)
    <2>1. D \in Seq(Entry) /\ Len(D) = Len(kf2)
      BY <1>1, DescribedIs
    <2> HIDE DEF D
    <2> QED BY <2>1
  <1>5. ASSUME NEW i \in 1..Len(kf2)
        PROVE  D[i].keyframe = kf2[i].path
    <2>1. D[i] = [scene |-> kf2[i].scene, index |-> kf2[i].index, keyframe |-> kf2[i].path,
                  says |-> << kf2[i].hash, kf2[i].pass >>]
      BY <1>1, DescribedIs
    <2> HIDE DEF D
    <2> QED BY <2>1
  <1>6. ASSUME NEW i \in 1..Len(kf2), kf2[i].scene \in S
        PROVE  EntryOf(kf2[i], S, new, old) = << D[i] >> /\ i \in K
    <2>1. i \in I
      BY <1>1, <1>6
    <2>2. EntryFor(new, kf2[i]) = << D[i] >>
      <3> HIDE DEF I
      <3> QED BY <1>3, <2>1, EntryForIs
    <2> HIDE DEF D
    <2> QED BY <1>6, <2>2 DEF EntryOf
  <1>7. ASSUME NEW i \in 1..Len(kf2), kf2[i].scene \notin S
        PROVE  /\ EntryFor(old, kf2[i]) = IF i \in K THEN << D[i] >> ELSE << >>
               /\ EntryOf(kf2[i], S, new, old) = IF i \in K THEN << D[i] >> ELSE << >>
               /\ gaps \/ i \in K
    <2>1. PICK off1 : LaidBy(Frame, kf1, B1, off1)
      BY AlikeLaid
    <2>2. PICK off2 : LaidBy(Frame, kf2, B2, off2)
      BY AlikeLaid
    <2>3. PICK b, k : InBlock(kf2, B2, off2, i, b, k)
      BY <2>2, PlaceIn
    <2>4. PICK j : j = off1[b - 1] + k
      OBVIOUS
    <2>5. j \in 1..Len(kf1) /\ kf1[j] = kf2[i]
      BY <1>7, <2>1, <2>2, <2>3, <2>4, Counterpart
    <2>6. j \in J <=> i \in K
      <3>1. ASSUME NEW l \in 1..Len(kf1), kf1[l] = kf2[i]
            PROVE  l = j
        <4>1. kf1[l].scene = kf1[j].scene /\ kf1[l].index = kf1[j].index
          BY <2>5, <3>1
        <4> QED BY <1>2, <2>5, <4>1, DescribesPointed
      <3> QED BY <1>7, <2>5, <3>1
    <2>7. EntryFor(old, kf2[i]) = IF j \in J THEN << Described(kf1)[j] >> ELSE << >>
      BY <1>2, <2>5, EntryForIs
    <2>8. Described(kf1)[j] = D[i]
      <3>1. Described(kf1)[j] = [scene |-> kf1[j].scene, index |-> kf1[j].index,
              keyframe |-> kf1[j].path, says |-> << kf1[j].hash, kf1[j].pass >>]
        BY <1>1, <2>5, DescribedIs
      <3>2. D[i] = [scene |-> kf2[i].scene, index |-> kf2[i].index, keyframe |-> kf2[i].path,
                    says |-> << kf2[i].hash, kf2[i].pass >>]
        BY <1>1, DescribedIs
      <3> HIDE DEF D
      <3> QED BY <2>5, <3>1, <3>2
    <2> HIDE DEF D, K
    <2>9. EntryFor(old, kf2[i]) = IF i \in K THEN << D[i] >> ELSE << >>
      BY <2>6, <2>7, <2>8
    <2>10. EntryOf(kf2[i], S, new, old) = EntryFor(old, kf2[i])
      BY <1>7 DEF EntryOf
    <2>11. gaps \/ j \in J
      BY <1>0, <2>5
    <2> QED BY <2>6, <2>9, <2>10, <2>11
  <1> HIDE DEF D, I, K
  <1>8. Normalized(kf2)
    BY BlocksNormalized DEF Alike
  <1>9. EntriesAccepted(kf2, S, new, old, gaps)
    <2>1. Keyed(new) /\ Keyed(old)
      BY <1>2, <1>3, DescribesKeyed
    <2>2. ASSUME NEW i \in DOMAIN kf2
          PROVE  IF EntryOf(kf2[i], S, new, old) = << >> THEN gaps /\ kf2[i].scene \notin S
                 ELSE EntryOf(kf2[i], S, new, old)[1].keyframe = kf2[i].path
      <3>1. i \in 1..Len(kf2)
        BY <1>1
      <3>2. << D[i] >> # << >> /\ << D[i] >>[1] = D[i]
        OBVIOUS
      <3>3. CASE kf2[i].scene \in S
        BY <1>5, <1>6, <3>1, <3>2, <3>3
      <3>4. CASE kf2[i].scene \notin S
        <4>1. CASE i \in K
          BY <1>5, <1>7, <3>1, <3>2, <3>4, <4>1
        <4>2. CASE i \notin K
          BY <1>7, <3>1, <3>4, <4>2
        <4> QED BY <4>1, <4>2
      <3> QED BY <3>3, <3>4
    <2> QED BY <2>1, <2>2 DEF EntriesAccepted
  <1>10. MergedEntries(kf2, S, new, old) = At(D, K)
    <2>1. ASSUME NEW i \in 1..Len(D)
          PROVE  EntryOf(kf2[i], S, new, old) = IF i \in K THEN << D[i] >> ELSE << >>
      BY <1>4, <1>6, <1>7
    <2>2. [i \in DOMAIN kf2 |-> EntryOf(kf2[i], S, new, old)]
            = [i \in 1..Len(D) |-> IF i \in K THEN << D[i] >> ELSE << >>]
      BY <1>1, <1>4, <2>1
    <2>3. FlattenSeq([i \in 1..Len(D) |-> IF i \in K THEN << D[i] >> ELSE << >>]) = At(D, K)
      BY <1>4, FlattenPicked
    <2> QED BY <2>2, <2>3 DEF MergedEntries
  <1>11. MergedFrom(MergedEntries(kf2, S, new, old), kf2, S, old, gaps, K)
    <2>1. ASSUME NEW i \in 1..Len(kf2)
          PROVE  /\ kf2[i].scene \in S => i \in K
                 /\ kf2[i].scene \notin S =>
                      EntryFor(old, kf2[i]) = IF i \in K THEN << D[i] >> ELSE << >>
                 /\ gaps = FALSE => i \in K
      BY <1>6, <1>7
    <2> QED BY <1>10, <2>1 DEF MergedFrom, D
  <1> QED BY <1>8, <1>9, <1>11 DEF OverlayFits
-----------------------------------------------------------------------------
(* What the scenes are *)

Late == {"committed", "keyframes", "captions", "done"}

\* A succeeded run is about the scenes of one scenes.json, and so are the refs
\* of a plan; the scenes a plan processes again are among those of its index.
StoriesOK ==
  /\ story \in Seq(Stories) /\ Len(story) = reruns + 1
  /\ \A m, n \in Artifacts : StoryOf(succeeded[m]) = StoryOf(succeeded[n])
  /\ rewriting # << >> => \A n \in Artifacts \ ToSet(rewriting) :
                            StoryOf(parent[n]) = StoryOf(reruns + 1)
  /\ step # "idle" => \A m, n \in Artifacts : StoryOf(plan.refs[m]) = StoryOf(plan.refs[n])
  /\ plan.scenes # << >> => /\ ToSet(plan.scenes) # {}
                            /\ ToSet(plan.scenes) \subseteq DOMAIN StoryOf(plan.index)
  /\ step \notin Idle \cup {"refused"} => plan.scenes # << >>

\* Every content that is in use was written by a run that has its scenes.
LEMMA ContentsWritten ==
  ASSUME IInv
  PROVE  /\ reruns \in Nat
         /\ \A n \in Artifacts : parent[n] \in 1..(reruns + 1) /\ succeeded[n] \in 1..(reruns + 1)
         /\ step # "idle" => \A n \in Artifacts : plan.refs[n] \in 1..(reruns + 1)
         /\ step \notin {"idle", "resolved"} => plan.index \in 1..(reruns + 1)
  <1>1. /\ reruns \in Nat
        /\ \A n \in Artifacts : parent[n] \in Contents /\ succeeded[n] \in Contents
        /\ \A n \in Artifacts : succeeded[n] <= parent[n] /\ parent[n] <= reruns + 1
    BY TypesAre, ContentsAre DEF IInv, TreeOK
  <1>2. ASSUME NEW c \in Contents, NEW n \in Artifacts, c <= parent[n]
        PROVE  c \in 1..(reruns + 1)
    <2>1. c \in Nat /\ 1 <= c /\ parent[n] \in Nat /\ parent[n] <= reruns + 1
      BY <1>1, ContentsAre DEF Contents
    <2> QED BY <1>1, <1>2, <2>1
  <1>3. ASSUME NEW n \in Artifacts
        PROVE  parent[n] \in 1..(reruns + 1) /\ succeeded[n] \in 1..(reruns + 1)
    <2>1. parent[n] \in Nat
      BY <1>1, ContentsAre
    <2> QED BY <1>1, <1>2, <2>1
  <1>4. step # "idle" => \A n \in Artifacts : plan.refs[n] \in 1..(reruns + 1)
    BY <1>2 DEF IInv, PlanOK
  <1>5. step \notin {"idle", "resolved"} => plan.index \in 1..(reruns + 1)
    BY <1>2, NamesAre DEF IInv, PlanOK, ReadFrom
  <1> QED BY <1>1, <1>3, <1>4, <1>5

LEMMA InitStories == Init => StoriesOK
  <1> SUFFICES ASSUME Init PROVE StoriesOK
    OBVIOUS
  <1>1. PICK first \in Stories : story = << first >>
    BY DEF Init
  <1>2. story \in Seq(Stories) /\ Len(story) = 1
    BY <1>1
  <1>3. /\ parent = [n \in Artifacts |-> 1] /\ succeeded = parent
        /\ rewriting = << >> /\ reruns = 0 /\ step = "idle" /\ plan = Empty
    BY DEF Init, Artifacts
  <1>4. plan.scenes = << >>
    BY <1>3 DEF Empty
  <1> QED BY <1>2, <1>3, <1>4 DEF StoriesOK, Idle

\* A rerun adds its scenes behind those of the runs before.
LEMMA StoryKept ==
  ASSUME StoriesOK, IInv, Rerun
  PROVE  /\ story' \in Seq(Stories) /\ Len(story') = Len(story) + 1
         /\ \A c \in 1..(reruns + 1) : story'[c] = story[c]
  <1>1. PICK scenes \in Stories : story' = Append(story, scenes)
    BY DEF Rerun
  <1>2. story \in Seq(Stories) /\ Len(story) = reruns + 1
    BY DEF StoriesOK
  <1> QED BY <1>1, <1>2

LEMMA RerunStories ==
  ASSUME StoriesOK, IInv, Rerun
  PROVE  StoriesOK'
  <1>1. /\ reruns' = reruns + 1
        /\ UNCHANGED << parent, succeeded, step, plan >>
    BY DEF Rerun
  <1>2. PICK from \in DOMAIN Written, scenes \in Stories :
          /\ from > 1 => parent = succeeded /\ scenes = story[parent["scenes"]]
          /\ rewriting' = SubSeq(Written, from, Len(Written))
          /\ story' = Append(story, scenes)
    BY DEF Rerun
  <1>3. story \in Seq(Stories) /\ Len(story) = reruns + 1 /\ reruns \in Nat
    BY ContentsWritten DEF StoriesOK
  <1>4. /\ story' \in Seq(Stories) /\ Len(story') = reruns' + 1
        /\ \A c \in 1..(reruns + 1) : story'[c] = story[c]
        /\ story'[reruns' + 1] = scenes
    BY <1>1, <1>2, <1>3
  <1>5. \A m, n \in Artifacts : story'[succeeded[m]] = story'[succeeded[n]]
    BY <1>4, ContentsWritten DEF StoriesOK, StoryOf
  <1>6. ASSUME NEW n \in Artifacts, n \notin ToSet(rewriting')
        PROVE  story'[parent[n]] = story'[reruns' + 1]
    <2>1. from > 1
      <3> SUFFICES ASSUME from = 1 PROVE FALSE
        BY Lengths, <1>2
      <3>1. rewriting' = SubSeq(Written, 1, 6)
        BY <1>2, Lengths
      <3>2. ToSet(Written) \subseteq ToSet(rewriting')
        <4>1. Written \in Seq(Artifacts) /\ Len(Written) = 6
          BY WrittenAre
        <4>2. SubSeq(Written, 1, 6) = Written
          BY <4>1
        <4> QED BY <3>1, <4>2
      <3>3. n \in ToSet(Written)
        BY DEF Artifacts, ToSet, Names, Written
      <3> QED BY <1>6, <3>2, <3>3
    <2>2. parent = succeeded /\ scenes = story[parent["scenes"]]
      BY <1>2, <2>1
    <2>3. "scenes" \in Artifacts
      BY DEF Artifacts, ToSet, Names
    <2>4. story[succeeded[n]] = story[succeeded["scenes"]]
      BY <2>3 DEF StoriesOK, StoryOf
    <2> QED BY <1>4, <2>2, <2>4, ContentsWritten
  <1>7. step # "idle" => \A m, n \in Artifacts : story'[plan.refs[m]] = story'[plan.refs[n]]
    BY <1>4, ContentsWritten DEF StoriesOK, StoryOf
  <1>8. plan.scenes # << >> => /\ ToSet(plan.scenes) # {}
                               /\ ToSet(plan.scenes) \subseteq DOMAIN story'[plan.index]
    <2> SUFFICES ASSUME plan.scenes # << >>
                 PROVE  /\ ToSet(plan.scenes) # {}
                        /\ ToSet(plan.scenes) \subseteq DOMAIN story'[plan.index]
      OBVIOUS
    <2>1. step \notin {"idle", "resolved"}
      BY DEF IInv, PlanOK, Idle
    <2>2. story'[plan.index] = story[plan.index]
      BY <1>4, <2>1, ContentsWritten
    <2> QED BY <2>2 DEF StoriesOK, StoryOf
  <1>9. step' \notin Idle \cup {"refused"} => plan'.scenes # << >>
    BY <1>1 DEF StoriesOK
  <1> QED BY <1>1, <1>4, <1>5, <1>6, <1>7, <1>8, <1>9 DEF StoriesOK, StoryOf

LEMMA RewriteStories ==
  ASSUME StoriesOK, IInv, Rewrite
  PROVE  StoriesOK'
  <1>1. /\ rewriting # << >> /\ rewriting' = Tail(rewriting)
        /\ parent' = [parent EXCEPT ![Head(rewriting)] = reruns + 1]
        /\ succeeded' = IF rewriting' = << >> THEN parent' ELSE succeeded
        /\ UNCHANGED << reruns, story, step, plan >>
    BY DEF Rewrite
  <1>2. /\ rewriting \in Seq(Artifacts) /\ parent \in [Artifacts -> Contents]
    BY TypesAre DEF IInv, TreeOK
  <1>3. ToSet(rewriting) \subseteq {Head(rewriting)} \cup ToSet(rewriting')
    <2> SUFFICES ASSUME NEW n \in ToSet(rewriting), n # Head(rewriting)
                 PROVE  n \in ToSet(rewriting')
      OBVIOUS
    <2>1. PICK i \in 1..Len(rewriting) : rewriting[i] = n
      BY <1>2 DEF ToSet
    <2>2. /\ rewriting' \in Seq(Artifacts) /\ Len(rewriting') = Len(rewriting) - 1
          /\ \A k \in 1..Len(rewriting') : rewriting'[k] = rewriting[k + 1]
          /\ Head(rewriting) = rewriting[1]
      BY <1>1, <1>2, HeadTailProperties
    <2>3. i # 1
      BY <2>1, <2>2
    <2>4. i - 1 \in 1..Len(rewriting') /\ (i - 1) + 1 = i
      BY <1>2, <2>1, <2>2, <2>3
    <2>5. rewriting'[i - 1] = n /\ DOMAIN rewriting' = 1..Len(rewriting')
      BY <2>1, <2>2, <2>4
    <2> QED BY <2>4, <2>5 DEF ToSet
  <1>4. \A n \in Artifacts \ ToSet(rewriting') : story[parent'[n]] = story[reruns + 1]
    <2> SUFFICES ASSUME NEW n \in Artifacts, n \notin ToSet(rewriting')
                 PROVE  story[parent'[n]] = story[reruns + 1]
      OBVIOUS
    <2>1. CASE n = Head(rewriting)
      BY <1>1, <1>2, <2>1
    <2>2. CASE n # Head(rewriting)
      <3>1. n \notin ToSet(rewriting) /\ parent'[n] = parent[n]
        BY <1>1, <1>2, <1>3, <2>2
      <3> QED BY <1>1, <3>1 DEF StoriesOK, StoryOf
    <2> QED BY <2>1, <2>2
  <1>5. \A m, n \in Artifacts : story[succeeded'[m]] = story[succeeded'[n]]
    <2>1. CASE rewriting' = << >>
      <3>1. ToSet(rewriting') = {}
        BY <2>1 DEF ToSet
      <3> QED BY <1>1, <1>4, <2>1, <3>1
    <2>2. CASE rewriting' # << >>
      BY <1>1, <2>2 DEF StoriesOK, StoryOf
    <2> QED BY <2>1, <2>2
  <1> QED BY <1>1, <1>4, <1>5 DEF StoriesOK, StoryOf

LEMMA PlanStories ==
  ASSUME StoriesOK, IInv, Resolve \/ Search \/ Answer
  PROVE  StoriesOK'
  <1>1. UNCHANGED << parent, succeeded, rewriting, reruns, story >>
    BY DEF Resolve, Search, Answer, parentVars
  <1>2. plan = [refs |-> plan.refs, index |-> plan.index,
                timeline |-> plan.timeline, scenes |-> plan.scenes]
    BY DEF IInv, PlanOK, PlanShape
  <1>3. CASE Resolve
    <2>1. step' = "resolved" /\ plan'.refs = succeeded /\ plan'.scenes = << >>
      BY <1>3 DEF Resolve, Empty
    <2> QED BY <1>1, <2>1 DEF StoriesOK, StoryOf, Idle
  <1>4. CASE Search
    <2>1. /\ step = "resolved" /\ step' = "searched"
          /\ plan'.refs = plan.refs /\ plan'.scenes = plan.scenes
      BY <1>2, <1>4 DEF Search
    <2>2. plan.scenes = << >>
      BY <2>1 DEF IInv, PlanOK, Idle
    <2> QED BY <1>1, <2>1, <2>2 DEF StoriesOK, StoryOf, Idle
  <1>5. CASE Answer
    <2>1. step = "searched" /\ plan.scenes = << >>
      BY <1>5 DEF Answer, IInv, PlanOK, Idle
    <2>2. PICK found \in BoundedSeq(ToSet(SceneIds(plan.index)), MaxScenes) :
            \/ step' = "refused" /\ plan' = plan
            \/ /\ found # << >>
               /\ plan' = [plan EXCEPT !.scenes = found, !.timeline = parent["timeline"]]
               /\ step' = "verifying"
      BY <1>5 DEF Answer
    <2>3. CASE step' = "refused" /\ plan' = plan
      BY <1>1, <2>1, <2>3 DEF StoriesOK, StoryOf, Idle
    <2>4. CASE /\ found # << >>
               /\ plan' = [plan EXCEPT !.scenes = found, !.timeline = parent["timeline"]]
               /\ step' = "verifying"
      <3>1. plan'.scenes = found /\ plan'.refs = plan.refs /\ plan'.index = plan.index
        BY <1>2, <2>4
      <3>2. ToSet(found) \subseteq ToSet(SceneIds(plan.index))
        <4>1. PICK m : found \in [1..m -> ToSet(SceneIds(plan.index))]
          BY DEF BoundedSeq, SeqOf
        <4> QED BY <4>1 DEF ToSet
      <3>4. ToSet(found) # {}
        <4>1. PICK m \in 0..MaxScenes : found \in [1..m -> ToSet(SceneIds(plan.index))]
          BY DEF BoundedSeq, SeqOf
        <4>2. m \in Nat /\ found \in Seq(ToSet(SceneIds(plan.index))) /\ Len(found) = m
          BY <4>1
        <4>3. 1 \in DOMAIN found
          BY <2>4, <4>1, <4>2, EmptySeq
        <4> QED BY <4>3 DEF ToSet
      <3>3. ToSet(SceneIds(plan.index)) = DOMAIN StoryOf(plan.index)
        BY DEF SceneIds, ToSet
      <3> QED BY <1>1, <2>1, <2>4, <3>1, <3>2, <3>3, <3>4 DEF StoriesOK, StoryOf
    <2> QED BY <2>2, <2>3, <2>4
  <1> QED BY <1>3, <1>4, <1>5

LEMMA NextStories ==
  ASSUME StoriesOK, IInv, [Next]_vars
  PROVE  StoriesOK'
  <1>1. CASE RerunFails
    BY <1>1 DEF RerunFails, StoriesOK, StoryOf, Idle
  <1>2. CASE \/ Verify \/ Copy \/ CopyFails \/ Publish \/ PublishFails
             \/ Commit \/ CommitFails \/ Crash \/ Retry
             \/ Keyframes \/ Captions \/ Ocr \/ UNCHANGED vars
    <2>1. UNCHANGED << parentVars, plan >>
      BY <1>2 DEF Verify, Copy, CopyFails, Publish, PublishFails, Commit, CommitFails, Crash,
                  Retry, Keyframes, Captions, Ocr, Overlay, vars
    <2>2. /\ step = "idle" => step' = "idle"
          /\ step' \notin Idle \cup {"refused"} =>
               step \notin Idle \cup {"refused"} \/ plan.scenes # << >>
      BY <1>2 DEF Verify, Copy, CopyFails, Publish, PublishFails, Commit, CommitFails, Crash,
                  Retry, Keyframes, Captions, Ocr, Overlay, vars, Idle, NextArtifact
    <2>3. step' # "idle" => step # "idle"
      BY <2>2
    <2> QED BY <2>1, <2>2, <2>3 DEF StoriesOK, StoryOf, parentVars
  <1> QED BY <1>1, <1>2, RerunStories, RewriteStories, PlanStories DEF Next
-----------------------------------------------------------------------------
(* The documents of a derived run *)

Ids == SceneIds(target["scenes"])

\* The scenes of an import are numbered from 1; those to process again are among them.
IdsAre(ids, selected) ==
  /\ ids \in Seq(Nat) /\ DOMAIN ids = 1..Len(ids)
  /\ \A b \in 1..Len(ids) : ids[b] = b
  /\ selected # {} /\ selected \subseteq ToSet(ids)

LEMMA ImportedScenes ==
  ASSUME IInv, StoriesOK, step \in Imported
  PROVE  /\ IdsAre(Ids, Selected)
         /\ target["scenes"] \in 1..(reruns + 1)
  <1>1. target = plan.refs /\ Passed(5)
    BY DEF IInv, ProgressOK, Passed
  <1>2. /\ step \notin Idle \cup {"refused"} /\ step \notin {"idle", "resolved"} /\ step # "idle"
    BY DEF Imported, Idle
  <1>3. "scenes" \in Artifacts /\ "search_index" \in Artifacts
    BY DEF Artifacts, ToSet, Names
  <1>4. target["scenes"] \in 1..(reruns + 1)
    BY <1>1, <1>2, <1>3, ContentsWritten
  <1>5. PICK lengths : lengths = StoryOf(target["scenes"])
    OBVIOUS
  <1>6. lengths \in Seq(Nat)
    <2>1. story \in Seq(Stories) /\ Len(story) = reruns + 1
      BY DEF StoriesOK
    <2>2. story[target["scenes"]] \in Stories
      BY <1>4, <2>1, ElementOfSeq
    <2> QED BY <1>5, <2>2, ReprocessingAssumption DEF StoryOf
  <1>7. Ids = [i \in 1..Len(lengths) |-> i]
    BY <1>5, <1>6 DEF Ids, SceneIds
  <1>8. /\ Ids \in Seq(Nat) /\ Len(Ids) = Len(lengths) /\ DOMAIN Ids = 1..Len(Ids)
        /\ \A b \in 1..Len(Ids) : Ids[b] = b
    BY <1>6, <1>7
  <1>9. ToSet(Ids) = DOMAIN lengths
    <2>1. DOMAIN lengths = 1..Len(lengths)
      BY <1>6
    <2>2. ToSet(Ids) = {Ids[b] : b \in 1..Len(Ids)}
      BY <1>8 DEF ToSet
    <2> HIDE DEF Ids
    <2> QED BY <1>8, <2>1, <2>2
  <1>10. plan.scenes # << >> /\ Selected \subseteq DOMAIN lengths
    <2>1. plan.scenes # << >> /\ Selected \subseteq DOMAIN StoryOf(plan.index)
      BY <1>2 DEF StoriesOK, Selected
    <2>2. StoryOf(plan.index) = StoryOf(plan.refs["scenes"])
      BY <1>1, <1>2, <1>3 DEF IInv, VerifiedOK, StoriesOK
    <2> QED BY <1>1, <1>5, <2>1, <2>2
  <1>11. Selected # {}
    BY <1>10 DEF StoriesOK, Selected
  <1> QED BY <1>4, <1>8, <1>9, <1>10, <1>11 DEF IdsAre
-----------------------------------------------------------------------------
\* What the importer found: a first pass over every scene, whose OCR read the
\* pictures J.
FirstPassIs(doc, ids, H, P, J) ==
  /\ Document(doc, ids, H, P)
  /\ \A s \in ToSet(ids) : P[s] = "first"
  /\ doc.captions = Described(doc.keyframes)
  /\ doc.ocr = At(Described(doc.keyframes), J)

\* Keyframes of two passes: the second of the selected scenes, elsewhere those of (H, P).
TwoPasses(doc, ids, H, P, selected, K, R) ==
  /\ Document(doc, ids, K, R)
  /\ \A s \in ToSet(ids) : IF s \in selected THEN R[s] = "second"
                           ELSE K[s] = H[s] /\ R[s] = P[s]

LEMMA MembersAre ==
  ASSUME NEW T, NEW s \in Seq(T)
  PROVE  /\ \A i \in 1..Len(s) : s[i] \in ToSet(s)
         /\ \A x \in ToSet(s) : \E i \in 1..Len(s) : s[i] = x
  BY DEF ToSet

\* A document as keyframes in blocks.
LEMMA DocumentBlocks ==
  ASSUME NEW doc, NEW ids, NEW H, NEW P, Document(doc, ids, H, P)
  PROVE  /\ SceneBlocks(Blocks(ids, H, P), ids) /\ doc.keyframes = FlattenSeq(Blocks(ids, H, P))
         /\ doc.keyframes \in Seq(Frame)
  <1>1. PICK B : B = Blocks(ids, H, P)
    OBVIOUS
  <1>2. SceneBlocks(B, ids) /\ doc.keyframes = FlattenSeq(B)
    BY <1>1, BlocksAre DEF Document
  <1>3. Alike(doc.keyframes, B, doc.keyframes, B, ids, {})
    BY <1>2 DEF Alike
  <1>4. doc.keyframes \in Seq(Frame)
    BY <1>3, AlikeLaid
  <1> QED BY <1>1, <1>2, <1>4

\* The lists of the two passes agree outside the selected scenes.
LEMMA PassesAlike ==
  ASSUME NEW src, NEW doc, NEW ids, NEW H, NEW P, NEW S, NEW K, NEW R,
         Document(src, ids, H, P), TwoPasses(doc, ids, H, P, S, K, R)
  PROVE  Alike(src.keyframes, Blocks(ids, H, P), doc.keyframes, Blocks(ids, K, R), ids, S)
  <1>1. Document(doc, ids, K, R)
    BY DEF TwoPasses
  <1>2. ids \in Seq(Nat)
    BY <1>1 DEF Document, Given
  <1>3. ASSUME NEW b \in 1..Len(ids), ids[b] \notin S
        PROVE  Blocks(ids, H, P)[b] = Blocks(ids, K, R)[b]
    <2>1. ids[b] \in ToSet(ids)
      BY <1>2 DEF ToSet
    <2>2. K[ids[b]] = H[ids[b]] /\ R[ids[b]] = P[ids[b]]
      BY <1>3, <2>1 DEF TwoPasses
    <2> QED BY <2>2 DEF Blocks
  <1> QED BY <1>1, <1>3, DocumentBlocks DEF Alike

\* Whatever the first pass was: any number of frames, any OCR mode.
LEMMA FirstPassDocument ==
  ASSUME NEW ids \in Seq(Nat), \A a, b \in 1..Len(ids) : ids[a] = ids[b] => a = b,
         NEW lengths, NEW max \in 1..3, NEW look \in [ToSet(ids) -> Looks],
         NEW mode \in {"disabled", "all", "caption-hints"},
         NEW pass, pass = Extracted(ids, lengths, max, look, "first"),
         NEW doc, doc = [keyframes |-> pass.keyframes, removed |-> pass.removed,
                         captions |-> Described(pass.keyframes),
                         ocr |-> Described(Candidates(pass.keyframes, mode, Hinted))]
  PROVE  \E H, P, J : FirstPassIs(doc, ids, H, P, J)
  <1>1. \A b \in 1..Len(ids) : look[ids[b]] \in Looks
    <2> SUFFICES ASSUME NEW b \in 1..Len(ids) PROVE look[ids[b]] \in Looks
      OBVIOUS
    <2>1. ids[b] \in ToSet(ids)
      BY DEF ToSet
    <2> QED BY <2>1
  <1>2. "first" \in Passes
    BY DEF Passes
  <1>3. Extractable(ids, look)
    BY <1>1 DEF Extractable
  <1>4. PICK H, P : Document(pass, ids, H, P) /\ \A s \in ToSet(ids) : P[s] = "first"
    <2>1. OnePassOver(pass, ids, "first")
      BY <1>2, <1>3, ExtractedIs
    <2> QED BY <2>1 DEF OnePassOver
  <1>5. PICK kf : kf = pass.keyframes
    OBVIOUS
  <1>6. kf \in Seq(Frame)
    BY <1>4, <1>5, DocumentBlocks
  <1>7. Document(doc, ids, H, P)
    BY <1>4 DEF Document
  <1>8. \E J : Candidates(kf, mode, Hinted) = At(kf, J)
    <2>1. CASE mode = "disabled"
      <3>1. At(kf, {}) = << >>
        BY <1>6, AtNone
      <3> QED BY <2>1, <3>1 DEF Candidates
    <2>2. CASE mode = "all"
      <3>1. At(kf, 1..Len(kf)) = kf
        BY <1>6, AtAll
      <3> QED BY <2>2, <3>1 DEF Candidates
    <2>3. CASE mode = "caption-hints"
      BY <2>3 DEF Candidates
    <2> QED BY <2>1, <2>2, <2>3
  <1>9. PICK J : Candidates(kf, mode, Hinted) = At(kf, J)
    BY <1>8
  <1>10. doc.ocr = At(Described(kf), J)
    BY <1>5, <1>6, <1>9, DescribedAt
  <1>11. doc.captions = Described(doc.keyframes) /\ doc.keyframes = kf
    BY <1>5
  <1> QED BY <1>4, <1>7, <1>10, <1>11 DEF FirstPassIs

\* Extracting the selected scenes again gives keyframes of two passes.
LEMMA SecondPassDocument ==
  ASSUME NEW src, NEW ids, NEW H, NEW P, Document(src, ids, H, P),
         NEW S \in SUBSET ToSet(ids), NEW lengths, NEW look \in [S -> Looks],
         NEW again, again = At(ids, {i \in DOMAIN ids : ids[i] \in S}),
         NEW new, new = Extracted(again, lengths, 3, look, "second")
  PROVE  /\ KeyframesCovered(ids, S, new, src)
         /\ \E K, R : TwoPasses(MergedKeyframes(ids, S, new, src), ids, H, P, S, K, R)
  <1>1. /\ ids \in Seq(Nat) /\ \A a, b \in 1..Len(ids) : ids[a] = ids[b] => a = b
    BY DEF Document, Given
  <1>2. PICK I : I = {i \in 1..Len(ids) : ids[i] \in S}
    OBVIOUS
  <1>3. again = At(ids, I) /\ I \cap (1..Len(ids)) = I
    <2>1. DOMAIN ids = 1..Len(ids)
      BY <1>1
    <2> QED BY <1>2, <2>1
  <1>4. again \in Seq(Nat) /\ Picks(again, ids, I)
    BY <1>1, <1>3, AtPicks
  <1>5. PICK h : Enumerates(h, Len(again), I) /\ \A a \in 1..Len(again) : again[a] = ids[h[a]]
    BY <1>4 DEF Picks
  <1>6. Len(again) \in Nat /\ \A a \in 1..Len(again) : h[a] \in I /\ h[a] \in 1..Len(ids) /\ h[a] \in Nat
    BY <1>2, <1>4, <1>5 DEF Enumerates
  <1>7. \A a, b \in 1..Len(again) : again[a] = again[b] => a = b
    <2> SUFFICES ASSUME NEW a \in 1..Len(again), NEW b \in 1..Len(again), again[a] = again[b]
                 PROVE  a = b
      OBVIOUS
    <2>1. h[a] = h[b]
      <3>1. ids[h[a]] = ids[h[b]]
        BY <1>5
      <3>2. h[a] \in 1..Len(ids) /\ h[b] \in 1..Len(ids)
        BY <1>6
      <3> QED BY <1>1, <3>1, <3>2
    <2>2. ~(h[a] < h[b]) /\ ~(h[b] < h[a])
      BY <1>6, <2>1
    <2>3. ~(a < b) /\ ~(b < a) /\ a \in Nat /\ b \in Nat
      BY <1>5, <1>6, <2>2 DEF Enumerates
    <2> QED BY <2>3
  <1>8. ToSet(again) = S
    <2>2. ASSUME NEW s \in S PROVE s \in ToSet(again)
      <3>1. PICK i \in 1..Len(ids) : ids[i] = s
        BY <1>1, MembersAre
      <3>2. i \in I
        BY <1>2, <2>2, <3>1
      <3>3. PICK a \in 1..Len(again) : h[a] = i
        BY <1>5, <3>2 DEF Enumerates
      <3> QED BY <1>4, <1>5, <3>1, <3>3, MembersAre
    <2>3. ASSUME NEW a \in 1..Len(again) PROVE again[a] \in S
      BY <1>2, <1>5, <1>6, <2>3
    <2>4. ASSUME NEW s \in ToSet(again) PROVE s \in S
      BY <1>4, <2>3, MembersAre
    <2> QED BY <2>2, <2>4
  <1>9. \A b \in 1..Len(again) : look[again[b]] \in Looks
    <2> SUFFICES ASSUME NEW b \in 1..Len(again) PROVE look[again[b]] \in Looks
      OBVIOUS
    <2>1. again[b] \in ToSet(again)
      BY <1>4, MembersAre
    <2> QED BY <1>8, <2>1
  <1>10. "second" \in Passes /\ 3 \in 1..3
    BY DEF Passes
  <1>11. Extractable(again, look)
    BY <1>4, <1>7, <1>9 DEF Extractable
  <1>12. PICK G, Q : Document(new, again, G, Q) /\ \A s \in ToSet(again) : Q[s] = "second"
    <2>1. OnePassOver(new, again, "second")
      BY <1>10, <1>11, ExtractedIs
    <2> QED BY <2>1 DEF OnePassOver
  <1>13. KeyframesCovered(ids, ToSet(again), new, src)
    BY <1>12, DocumentsCovered
  <1>14. Overlaid(MergedKeyframes(ids, ToSet(again), new, src), ids, H, P, again, Q)
    BY <1>8, <1>12, MergedIs
  <1>15. PICK K, R : /\ Document(MergedKeyframes(ids, S, new, src), ids, K, R)
                     /\ \A s \in ToSet(ids) : IF s \in ToSet(again) THEN R[s] = Q[s]
                                              ELSE K[s] = H[s] /\ R[s] = P[s]
    BY <1>8, <1>14 DEF Overlaid
  <1>16. \A s \in ToSet(ids) : IF s \in S THEN R[s] = "second"
                               ELSE K[s] = H[s] /\ R[s] = P[s]
    BY <1>8, <1>12, <1>15
  <1>17. KeyframesCovered(ids, S, new, src)
    BY <1>8, <1>13
  <1>18. TwoPasses(MergedKeyframes(ids, S, new, src), ids, H, P, S, K, R)
    BY <1>15, <1>16 DEF TwoPasses
  <1> QED BY <1>17, <1>18
-----------------------------------------------------------------------------
\* What a Stage over the keyframes makes of documents of the two passes.
LEMMA OverlayOfPasses ==
  ASSUME NEW src, NEW doc, NEW ids, NEW H, NEW P, NEW S, NEW K, NEW R,
         Document(src, ids, H, P), TwoPasses(doc, ids, H, P, S, K, R),
         NEW new, NEW old, NEW J, NEW gaps,
         OverlayInputs(src.keyframes, doc.keyframes, S, new, old, J, gaps)
  PROVE  OverlayFits(doc.keyframes, S, new, old, gaps)
  <1>1. PICK kf1, B1, kf2, B2 : /\ kf1 = src.keyframes /\ B1 = Blocks(ids, H, P)
                                /\ kf2 = doc.keyframes /\ B2 = Blocks(ids, K, R)
    OBVIOUS
  <1>2. Alike(kf1, B1, kf2, B2, ids, S)
    BY <1>1, PassesAlike
  <1>3. OverlayInputs(kf1, kf2, S, new, old, J, gaps)
    BY <1>1
  <1>4. OverlayFits(kf2, S, new, old, gaps)
    BY <1>2, <1>3, OverlayIs
  <1> QED BY <1>1, <1>4

\* Without gaps every picture has its entry.
LEMMA MergedWhole ==
  ASSUME NEW m, NEW kf \in Seq(Frame), NEW S, NEW old, NEW K,
         MergedFrom(m, kf, S, old, FALSE, K)
  PROVE  m = Described(kf)
  <1>1. PICK D : D = Described(kf)
    OBVIOUS
  <1>2. D \in Seq(Entry) /\ Len(D) = Len(kf)
    BY <1>1, DescribedIs
  <1>3. K \cap (1..Len(D)) = (1..Len(D)) \cap (1..Len(D))
    BY <1>2 DEF MergedFrom
  <1>4. Picks(D, D, K \cap (1..Len(D)))
    BY <1>2, <1>3, AtAll, AtPicks
  <1>5. At(D, K) = D
    BY <1>2, <1>4, AtIs
  <1> QED BY <1>1, <1>5 DEF MergedFrom

Fields == {"keyframes", "captions", "ocr"}

\* What the Stages wrote, as far as they have come.
DocumentsAre(at, src, made, ids, S) ==
  \E H, P, J :
    /\ FirstPassIs(src, ids, H, P, J)
    /\ at # "committed" => /\ DOMAIN made.keyframes = {"keyframes", "removed"}
                           /\ \E K, R : TwoPasses(made.keyframes, ids, H, P, S, K, R)
    /\ at \in {"captions", "done"} => made.captions = Described(made.keyframes.keyframes)
    /\ at = "done" => \E M : MergedFrom(made.ocr, made.keyframes.keyframes, S, src.ocr, TRUE, M)

DocsOK ==
  /\ step # "rejected"
  /\ step \notin Late => source = Nothing
  /\ step \notin Late \/ step = "committed" => derived = Unwritten
  /\ derived = [keyframes |-> derived.keyframes, captions |-> derived.captions,
                ocr |-> derived.ocr]
  /\ step \in Late => DocumentsAre(step, source, derived, Ids, Selected)

LEMMA InitDocs == Init => DocsOK
  BY DEF Init, DocsOK, Late, Unwritten

\* The scenes of an import are left alone by what does not import.
LEMMA ScenesKept ==
  ASSUME IInv, StoriesOK, step \in Imported,
         \/ Rerun
         \/ UNCHANGED story, UNCHANGED << plan, target >>
  PROVE  Ids' = Ids /\ Selected' = Selected
  <1>1. target' = target /\ plan' = plan
    BY DEF Rerun, importVars
  <1>2. story'[target["scenes"]] = story[target["scenes"]]
    BY ImportedScenes, StoryKept
  <1> QED BY <1>1, <1>2 DEF Ids, SceneIds, StoryOf, Selected

LEMMA DocsKept ==
  ASSUME IInv, StoriesOK, DocsOK, UNCHANGED << step, source, derived, plan, target >>,
         Rerun \/ UNCHANGED story
  PROVE  DocsOK'
  <1>1. step \in Late => Ids' = Ids /\ Selected' = Selected
    BY ScenesKept DEF Late, Imported
  <1> QED BY <1>1 DEF DocsOK

\* Steps of the service before and after.
LEMMA ServiceDocs ==
  ASSUME DocsOK,
         \/ Resolve \/ Search \/ Answer \/ Verify \/ Copy \/ CopyFails \/ Publish
         \/ PublishFails \/ CommitFails \/ Crash \/ Retry
  PROVE  DocsOK'
  <1>1. CASE Resolve
    BY <1>1 DEF Resolve, DocsOK, Late, Unwritten
  <1>2. CASE \/ Search \/ Answer \/ Verify \/ Copy \/ CopyFails \/ Publish
             \/ PublishFails \/ CommitFails \/ Crash \/ Retry
    <2>1. UNCHANGED stageVars /\ step \notin Late /\ step' \notin Late /\ step' # "rejected"
      BY <1>2 DEF Search, Answer, Verify, Copy, CopyFails, Publish, PublishFails,
                  CommitFails, Crash, Retry, NextArtifact, Late
    <2> QED BY <2>1 DEF DocsOK, stageVars
  <1> QED BY <1>1, <1>2

LEMMA CommitDocs ==
  ASSUME IInv, StoriesOK, DocsOK, Commit
  PROVE  DocsOK'
  <1>1. /\ step = "committing" /\ step' = "committed"
        /\ UNCHANGED << story, plan, target, derived >>
    BY DEF Commit, parentVars
  <1>2. step \in Imported
    BY <1>1 DEF Imported
  <1>3. Ids' = Ids /\ Selected' = Selected
    BY <1>1, <1>2, ScenesKept
  <1>4. PICK ids, lengths : ids = Ids /\ lengths = StoryOf(target["scenes"])
    OBVIOUS
  <1>5. /\ ids \in Seq(Nat) /\ \A b \in 1..Len(ids) : ids[b] = b
    BY <1>2, <1>4, ImportedScenes DEF IdsAre
  <1>6. \A a, b \in 1..Len(ids) : ids[a] = ids[b] => a = b
    BY <1>5
  <1>7. PICK max \in 1..3, mode \in {"disabled", "all", "caption-hints"},
             look \in [ToSet(ids) -> Looks] : source' = FirstPass(max, look, mode)
    BY <1>4 DEF Commit, Ids
  <1>8. PICK pass : pass = Extracted(ids, lengths, max, look, "first")
    OBVIOUS
  <1>9. PICK doc : doc = source'
    OBVIOUS
  <1>10. doc = [keyframes |-> pass.keyframes, removed |-> pass.removed,
                captions |-> Described(pass.keyframes),
                ocr |-> Described(Candidates(pass.keyframes, mode, Hinted))]
    BY <1>4, <1>7, <1>8, <1>9 DEF FirstPass, Ids
  <1>11. PICK H, P, J : FirstPassIs(doc, ids, H, P, J)
    BY <1>5, <1>6, <1>8, <1>10, FirstPassDocument
  <1>12. PICK made, selected : made = derived /\ selected = Selected
    OBVIOUS
  <1>13. DocumentsAre("committed", doc, made, ids, selected)
    BY <1>11 DEF DocumentsAre
  <1> QED BY <1>1, <1>3, <1>4, <1>9, <1>12, <1>13 DEF DocsOK, Late

LEMMA KeyframesDocs ==
  ASSUME IInv, StoriesOK, DocsOK, Keyframes
  PROVE  DocsOK'
  <1>1. /\ step = "committed" /\ UNCHANGED << story, plan, target, source >>
    BY DEF Keyframes, parentVars, importVars
  <1>2. step \in Imported
    BY <1>1 DEF Imported
  <1>3. Ids' = Ids /\ Selected' = Selected
    BY <1>1, <1>2, ScenesKept
  <1>4. PICK ids, lengths, S, src, made :
          /\ ids = Ids /\ lengths = StoryOf(target["scenes"]) /\ S = Selected
          /\ src = source /\ made = derived
    OBVIOUS
  <1>5. S \subseteq ToSet(ids)
    BY <1>2, <1>4, ImportedScenes DEF IdsAre
  <1>6. DocumentsAre("committed", src, made, ids, S)
    BY <1>1, <1>4 DEF DocsOK, Late
  <1>7. PICK H, P, J : FirstPassIs(src, ids, H, P, J)
    BY <1>6 DEF DocumentsAre
  <1>8. Document(src, ids, H, P)
    BY <1>7 DEF FirstPassIs
  <1>9. PICK look \in [S -> Looks] :
          LET again == At(ids, {i \in DOMAIN ids : ids[i] \in S})
              new == Extracted(again, lengths, 3, look, "second")
          IN IF S \subseteq ToSet(ids) /\ KeyframesCovered(ids, S, new, source)
             THEN /\ derived' = [derived EXCEPT !.keyframes = MergedKeyframes(ids, S, new, source)]
                  /\ step' = "keyframes"
             ELSE step' = "rejected" /\ derived' = derived
    BY <1>4 DEF Keyframes, Ids
  <1>10. PICK again : again = At(ids, {i \in DOMAIN ids : ids[i] \in S})
    OBVIOUS
  <1>11. PICK new : new = Extracted(again, lengths, 3, look, "second")
    OBVIOUS
  <1>12. /\ KeyframesCovered(ids, S, new, src)
         /\ \E K, R : TwoPasses(MergedKeyframes(ids, S, new, src), ids, H, P, S, K, R)
    BY <1>5, <1>8, <1>10, <1>11, SecondPassDocument
  <1>13. PICK doc : doc = MergedKeyframes(ids, S, new, src)
    OBVIOUS
  <1>14. derived' = [derived EXCEPT !.keyframes = doc] /\ step' = "keyframes"
    BY <1>4, <1>5, <1>9, <1>10, <1>11, <1>12, <1>13
  <1>15. PICK next : next = derived'
    OBVIOUS
  <1>16. /\ next.keyframes = doc
         /\ next = [keyframes |-> next.keyframes, captions |-> next.captions, ocr |-> next.ocr]
    BY <1>14, <1>15 DEF DocsOK
  <1>17. DOMAIN doc = {"keyframes", "removed"}
    BY <1>13 DEF MergedKeyframes
  <1>18. DocumentsAre("keyframes", src, next, ids, S)
    BY <1>7, <1>12, <1>13, <1>16, <1>17 DEF DocumentsAre
  <1> QED BY <1>1, <1>3, <1>4, <1>14, <1>15, <1>16, <1>18 DEF DocsOK, Late
-----------------------------------------------------------------------------
\* The overlay Stage that starts from these documents accepts them.
LEMMA OverlayAccepts ==
  ASSUME NEW src, NEW made, NEW ids, NEW S, NEW at, NEW H, NEW P, NEW J,
         FirstPassIs(src, ids, H, P, J), NEW K, NEW R,
         TwoPasses(made.keyframes, ids, H, P, S, K, R),
         NEW frames, frames = made.keyframes.keyframes,
         NEW new, new = Described(OfScenes(frames, S))
  PROVE  /\ frames \in Seq(Frame)
         /\ OverlayFits(frames, S, new, src.captions, FALSE)
         /\ OverlayFits(frames, S, new, src.ocr, TRUE)
  <1>1. Document(src, ids, H, P) /\ Document(made.keyframes, ids, K, R)
    BY DEF FirstPassIs, TwoPasses
  <1>2. PICK doc, kf1 : doc = made.keyframes /\ kf1 = src.keyframes
    OBVIOUS
  <1>3. frames = doc.keyframes /\ frames \in Seq(Frame) /\ kf1 \in Seq(Frame)
    BY <1>1, <1>2, DocumentBlocks
  <1>4. Described(kf1) = At(Described(kf1), 1..Len(kf1))
    <2>1. PICK D : D = Described(kf1)
      OBVIOUS
    <2>2. D \in Seq(Entry) /\ Len(D) = Len(kf1)
      BY <1>3, <2>1, DescribedIs
    <2>3. At(D, 1..Len(D)) = D
      BY <2>2, AtAll
    <2> QED BY <2>1, <2>2, <2>3
  <1>5. OverlayInputs(kf1, frames, S, new, src.captions, 1..Len(kf1), FALSE)
    BY <1>2, <1>4 DEF OverlayInputs, FirstPassIs
  <1>6. OverlayInputs(kf1, frames, S, new, src.ocr, J, TRUE)
    BY <1>2 DEF OverlayInputs, FirstPassIs
  <1>7. TwoPasses(doc, ids, H, P, S, K, R)
    BY <1>2
  <1>8. PICK old1, old2, I : old1 = src.captions /\ old2 = src.ocr /\ I = 1..Len(kf1)
    OBVIOUS
  <1>9. OverlayFits(doc.keyframes, S, new, old1, FALSE)
    <2>1. OverlayInputs(src.keyframes, doc.keyframes, S, new, old1, I, FALSE)
      BY <1>2, <1>3, <1>5, <1>8
    <2> QED BY <1>1, <1>7, <2>1, OverlayOfPasses
  <1>10. OverlayFits(doc.keyframes, S, new, old2, TRUE)
    <2>1. OverlayInputs(src.keyframes, doc.keyframes, S, new, old2, J, TRUE)
      BY <1>2, <1>3, <1>6, <1>8
    <2> QED BY <1>1, <1>7, <2>1, OverlayOfPasses
  <1> QED BY <1>3, <1>8, <1>9, <1>10

LEMMA CaptionsDocs ==
  ASSUME IInv, StoriesOK, DocsOK, Captions
  PROVE  DocsOK'
  <1>1. step = "keyframes" /\ UNCHANGED << story, plan, target, source >>
    BY DEF Captions, Overlay, parentVars, importVars
  <1>2. Ids' = Ids /\ Selected' = Selected
    BY <1>1, ScenesKept DEF Imported
  <1>3. PICK ids, S, src, made : ids = Ids /\ S = Selected /\ src = source /\ made = derived
    OBVIOUS
  <1>4. DocumentsAre("keyframes", src, made, ids, S)
    BY <1>1, <1>3 DEF DocsOK, Late
  <1>5. PICK H, P, J : /\ FirstPassIs(src, ids, H, P, J)
                       /\ DOMAIN made.keyframes = {"keyframes", "removed"}
                       /\ \E K, R : TwoPasses(made.keyframes, ids, H, P, S, K, R)
    BY <1>4 DEF DocumentsAre
  <1>6. PICK K, R : TwoPasses(made.keyframes, ids, H, P, S, K, R)
    BY <1>5
  <1>7. PICK frames : frames = made.keyframes.keyframes
    OBVIOUS
  <1>8. PICK new : new = Described(OfScenes(frames, S))
    OBVIOUS
  <1>9. frames \in Seq(Frame) /\ OverlayFits(frames, S, new, src.captions, FALSE)
    BY <1>5, <1>6, <1>7, <1>8, OverlayAccepts
  <1>10. PICK merged : merged = MergedEntries(frames, S, new, src.captions)
    OBVIOUS
  <1>11. merged = Described(frames)
    <2>1. PICK M : MergedFrom(merged, frames, S, src.captions, FALSE, M)
      BY <1>9, <1>10 DEF OverlayFits
    <2> QED BY <1>9, <2>1, MergedWhole
  <1>12. derived' = [derived EXCEPT !.captions = merged] /\ step' = "captions"
    <2>1. Normalized(frames) /\ EntriesAccepted(frames, S, new, src.captions, FALSE)
      BY <1>9 DEF OverlayFits
    <2> QED BY <1>3, <1>7, <1>8, <1>10, <2>1 DEF Captions, Overlay
  <1>13. PICK next : next = derived'
    OBVIOUS
  <1>14. /\ next.keyframes = made.keyframes /\ next.captions = merged
         /\ next = [keyframes |-> next.keyframes, captions |-> next.captions, ocr |-> next.ocr]
    BY <1>3, <1>12, <1>13 DEF DocsOK
  <1>15. DocumentsAre("captions", src, next, ids, S)
    BY <1>5, <1>6, <1>7, <1>11, <1>14 DEF DocumentsAre
  <1> QED BY <1>1, <1>2, <1>3, <1>12, <1>13, <1>14, <1>15 DEF DocsOK, Late

LEMMA OcrDocs ==
  ASSUME IInv, StoriesOK, DocsOK, Ocr
  PROVE  DocsOK'
  <1>1. step = "captions" /\ UNCHANGED << story, plan, target, source >>
    BY DEF Ocr, Overlay, parentVars, importVars
  <1>2. Ids' = Ids /\ Selected' = Selected
    BY <1>1, ScenesKept DEF Imported
  <1>3. PICK ids, S, src, made : ids = Ids /\ S = Selected /\ src = source /\ made = derived
    OBVIOUS
  <1>4. DocumentsAre("captions", src, made, ids, S)
    BY <1>1, <1>3 DEF DocsOK, Late
  <1>5. PICK H, P, J : /\ FirstPassIs(src, ids, H, P, J)
                       /\ DOMAIN made.keyframes = {"keyframes", "removed"}
                       /\ \E K, R : TwoPasses(made.keyframes, ids, H, P, S, K, R)
                       /\ made.captions = Described(made.keyframes.keyframes)
    BY <1>4 DEF DocumentsAre
  <1>6. PICK K, R : TwoPasses(made.keyframes, ids, H, P, S, K, R)
    BY <1>5
  <1>7. PICK frames : frames = made.keyframes.keyframes
    OBVIOUS
  <1>8. PICK new : new = Described(OfScenes(frames, S))
    OBVIOUS
  <1>9. OverlayFits(frames, S, new, src.ocr, TRUE)
    BY <1>5, <1>6, <1>7, <1>8, OverlayAccepts
  <1>10. PICK merged : merged = MergedEntries(frames, S, new, src.ocr)
    OBVIOUS
  <1>11. PICK M : MergedFrom(merged, frames, S, src.ocr, TRUE, M)
    BY <1>9, <1>10 DEF OverlayFits
  <1>12. derived' = [derived EXCEPT !.ocr = merged] /\ step' = "done"
    <2>1. Normalized(frames) /\ EntriesAccepted(frames, S, new, src.ocr, TRUE)
      BY <1>9 DEF OverlayFits
    <2> QED BY <1>3, <1>7, <1>8, <1>10, <2>1 DEF Ocr, Overlay
  <1>13. PICK next : next = derived'
    OBVIOUS
  <1>14. /\ next.keyframes = made.keyframes /\ next.captions = made.captions
         /\ next.ocr = merged
         /\ next = [keyframes |-> next.keyframes, captions |-> next.captions, ocr |-> next.ocr]
    BY <1>3, <1>12, <1>13 DEF DocsOK
  <1>15. DocumentsAre("done", src, next, ids, S)
    BY <1>5, <1>6, <1>7, <1>11, <1>14 DEF DocumentsAre
  <1> QED BY <1>1, <1>2, <1>3, <1>12, <1>13, <1>14, <1>15 DEF DocsOK, Late

LEMMA NextDocs ==
  ASSUME IInv, StoriesOK, DocsOK, [Next]_vars
  PROVE  DocsOK'
  <1>1. CASE Rerun \/ Rewrite \/ RerunFails \/ UNCHANGED vars
    <2>1. /\ UNCHANGED << step, source, derived, plan, target >>
          /\ Rerun \/ UNCHANGED story
      BY <1>1 DEF Rerun, Rewrite, RerunFails, vars, stageVars, importVars, parentVars
    <2> QED BY <2>1, DocsKept
  <1> QED BY <1>1, ServiceDocs, CommitDocs, KeyframesDocs, CaptionsDocs, OcrDocs DEF Next

LEMMA DocumentsInvariance == Spec => [](StoriesOK /\ DocsOK)
  <1>1. Init => StoriesOK /\ DocsOK
    BY InitStories, InitDocs
  <1>2. IInv /\ (StoriesOK /\ DocsOK) /\ [Next]_vars => (StoriesOK /\ DocsOK)'
    BY NextStories, NextDocs
  <1> QED BY <1>1, <1>2, Invariance, PTL DEF Spec
-----------------------------------------------------------------------------
\* Whatever the scenes, their frames and the modes of the Stages: in the source
\* of a derived run and in what the run makes of it, no two frames kept of a
\* scene look alike, and every frame removed looks like the kept one it names.
THEOREM DuplicatesAlwaysJustified == Spec => []DuplicatesJustified
  <1>1. DocsOK => DuplicatesJustified
    <2> SUFFICES ASSUME DocsOK PROVE DuplicatesJustified
      OBVIOUS
    <2>1. CASE step \notin Late
      BY <2>1 DEF DocsOK, DuplicatesJustified, Unwritten
    <2>2. CASE step \in Late
      <3>1. PICK ids, S, src, made : ids = Ids /\ S = Selected /\ src = source /\ made = derived
        OBVIOUS
      <3>2. DocumentsAre(step, src, made, ids, S)
        BY <2>2, <3>1 DEF DocsOK
      <3>3. PICK H, P, J :
              /\ FirstPassIs(src, ids, H, P, J)
              /\ step # "committed" => \E K, R : TwoPasses(made.keyframes, ids, H, P, S, K, R)
        BY <3>2 DEF DocumentsAre
      <3>4. Justified(src)
        BY <3>3, DocumentJustified DEF FirstPassIs
      <3>5. CASE step = "committed"
        BY <3>1, <3>4, <3>5 DEF DocsOK, DuplicatesJustified, Unwritten
      <3>6. CASE step # "committed"
        <4>1. PICK doc : doc = made.keyframes
          OBVIOUS
        <4>2. PICK K, R : Document(doc, ids, K, R)
          BY <3>3, <3>6, <4>1 DEF TwoPasses
        <4>3. Justified(doc)
          BY <4>2, DocumentJustified
        <4> QED BY <3>1, <3>4, <4>1, <4>3 DEF DuplicatesJustified
      <3> QED BY <3>5, <3>6
    <2> QED BY <2>1, <2>2
  <1> QED BY <1>1, DocumentsInvariance, PTL
-----------------------------------------------------------------------------
\* These frames of two passes are in the order of the scenes, each of the pass
\* of its scene, and those of the scenes C are the ones of another list.
FramesExact(frames, ids, S, others, C) ==
  /\ frames \in Seq(Frame) /\ ScenesOf(frames) = ToSet(ids)
  /\ \A i, j \in 1..Len(frames) : i < j => frames[i].scene <= frames[j].scene
  /\ \A i \in 1..Len(frames) :
       frames[i].pass = IF frames[i].scene \in S THEN "second" ELSE "first"
  /\ OfScenes(frames, C) = OfScenes(others, C)
  /\ \E i \in 1..Len(frames) : frames[i].scene \in S

\* Keyframes of two passes over scenes numbered from 1 are exact, with those not
\* selected the source's.
LEMMA TwoPassesExact ==
  ASSUME NEW src, NEW doc, NEW ids, NEW H, NEW P, NEW J, NEW S, NEW K, NEW R,
         FirstPassIs(src, ids, H, P, J), TwoPasses(doc, ids, H, P, S, K, R), IdsAre(ids, S),
         NEW frames, frames = doc.keyframes, NEW C, C = ScenesOf(src.keyframes) \ S
  PROVE  FramesExact(frames, ids, S, src.keyframes, C)
  <1>1. Document(src, ids, H, P) /\ Document(doc, ids, K, R)
    BY DEF FirstPassIs, TwoPasses
  <1>2. PICK B : B = Blocks(ids, K, R)
    OBVIOUS
  <1>3. SceneBlocks(B, ids) /\ frames = FlattenSeq(B) /\ frames \in Seq(Frame)
    BY <1>1, <1>2, DocumentBlocks
  <1>4. ids \in Seq(Nat) /\ \A b \in 1..Len(ids) : ids[b] = b
    BY DEF IdsAre
  <1>5. PICK off : LaidBy(Frame, frames, B, off)
    <2>1. Alike(frames, B, frames, B, ids, {})
      BY <1>3 DEF Alike
    <2> QED BY <2>1, AlikeLaid
  <1>6. ASSUME NEW i, NEW b, NEW k, InBlock(frames, B, off, i, b, k)
        PROVE  /\ frames[i].scene = b /\ b \in 1..Len(ids) /\ frames[i].pass = R[b]
    <2>1. b \in 1..Len(B) /\ k \in 1..Len(B[b]) /\ frames[i] = B[b][k]
      BY <1>6 DEF InBlock
    <2>2. b \in 1..Len(ids) /\ ids[b] = b /\ frames[i].scene = b
      BY <1>3, <1>4, <2>1, BlockIs
    <2>3. B[b] = SceneFrames(b, K[b], R[b])
      BY <1>2, <2>2 DEF Blocks
    <2>4. b \in Nat /\ K[b] \in Hashes /\ R[b] \in Passes
      BY <1>1, <2>2 DEF Document, Given
    <2>5. PICK h, p : h = K[b] /\ p = R[b]
      OBVIOUS
    <2>6. B[b][k].pass = p
      BY <2>1, <2>3, <2>4, <2>5, SceneFramesAre
    <2> QED BY <2>1, <2>2, <2>5, <2>6
  <1>7. \A i \in 1..Len(frames) : \E b, k : InBlock(frames, B, off, i, b, k)
    BY <1>5, PlaceIn
  <1>8. ASSUME NEW i \in 1..Len(frames), NEW j \in 1..Len(frames), i < j
        PROVE  frames[i].scene <= frames[j].scene
    <2>1. PICK b, k : InBlock(frames, B, off, i, b, k)
      BY <1>7
    <2>2. PICK c, l : InBlock(frames, B, off, j, c, l)
      BY <1>7
    <2>3. ~(c < b)
      <3>1. c < b => j < i
        BY <1>5, <2>1, <2>2, PlacesOrdered
      <3>2. i \in Nat /\ j \in Nat
        OBVIOUS
      <3> QED BY <1>8, <3>1, <3>2
    <2>4. b \in Nat /\ c \in Nat /\ frames[i].scene = b /\ frames[j].scene = c
      BY <1>6, <2>1, <2>2
    <2> QED BY <2>3, <2>4
  <1>9. ASSUME NEW i \in 1..Len(frames)
        PROVE  frames[i].pass = IF frames[i].scene \in S THEN "second" ELSE "first"
    <2>1. PICK b, k : InBlock(frames, B, off, i, b, k)
      BY <1>7
    <2>2. frames[i].scene = b /\ b \in 1..Len(ids) /\ frames[i].pass = R[b]
      BY <1>6, <2>1
    <2>3. b \in ToSet(ids)
      BY <1>4, <2>2, MembersAre
    <2> QED BY <2>2, <2>3 DEF FirstPassIs, TwoPasses
  <1>10. ScenesOf(frames) = ToSet(ids)
    BY <1>1, ScenesOfDocument
  <1>11. OfScenes(frames, C) = OfScenes(src.keyframes, C)
    <2>1. PICK kf1, B1 : kf1 = src.keyframes /\ B1 = Blocks(ids, H, P)
      OBVIOUS
    <2>2. Alike(kf1, B1, frames, B, ids, S)
      BY <1>1, <1>2, <2>1, PassesAlike
    <2>3. C \cap S = {}
      OBVIOUS
    <2> QED BY <2>1, <2>2, <2>3, CopiedAlike
  <1>12. \E i \in 1..Len(frames) : frames[i].scene \in S
    <2>1. PICK s : s \in S /\ s \in ToSet(ids)
      BY DEF IdsAre
    <2>2. PICK i \in DOMAIN frames : frames[i].scene = s
      BY <1>10, <2>1 DEF ScenesOf
    <2>3. DOMAIN frames = 1..Len(frames)
      BY <1>3
    <2> QED BY <2>1, <2>2, <2>3
  <1> QED BY <1>3, <1>8, <1>9, <1>10, <1>11, <1>12 DEF FramesExact

\* These entries describe frames: each frame of S once, the others as the old ones do.
EntriesExact(m, frames, S, old) ==
  /\ m \in Seq(Entry)
  /\ \A a \in 1..Len(m) : m[a] \in ToSet(Described(frames))
  /\ \A i \in 1..Len(frames) :
       Len(EntryFor(m, frames[i])) = IF frames[i].scene \in S THEN 1
                                     ELSE Len(EntryFor(old, frames[i]))
  /\ (\E i \in 1..Len(frames) : frames[i].scene \in S) => m # << >>

LEMMA MergedExact ==
  ASSUME NEW doc, NEW ids, NEW K, NEW R, Document(doc, ids, K, R),
         NEW frames, frames = doc.keyframes,
         NEW m, NEW S, NEW old, NEW M, MergedFrom(m, frames, S, old, TRUE, M)
  PROVE  EntriesExact(m, frames, S, old)
  <1>1. PICK B : B = Blocks(ids, K, R)
    OBVIOUS
  <1>2. SceneBlocks(B, ids) /\ frames = FlattenSeq(B) /\ frames \in Seq(Frame)
    BY <1>1, DocumentBlocks
  <1>3. Describes(m, frames, M)
    BY <1>2 DEF Describes, MergedFrom
  <1>4. PICK D : D = Described(frames)
    OBVIOUS
  <1>5. D \in Seq(Entry) /\ Len(D) = Len(frames)
    BY <1>2, <1>4, DescribedIs
  <1>6. m \in Seq(Entry) /\ \E h : Pointed(m, frames, M, h)
    BY <1>3, DescribesPointed
  <1>7. PICK h : Pointed(m, frames, M, h)
    BY <1>6
  <1>8. ASSUME NEW a \in 1..Len(m)
        PROVE  m[a] \in ToSet(D)
    <2>1. h[a] \in 1..Len(D) /\ m[a] = D[h[a]]
      BY <1>2, <1>4, <1>5, <1>7, PointedAt
    <2> QED BY <1>5, <2>1, MembersAre
  <1>9. ASSUME NEW i \in 1..Len(frames)
        PROVE  Len(EntryFor(m, frames[i])) = IF frames[i].scene \in S THEN 1
                                             ELSE Len(EntryFor(old, frames[i]))
    <2>1. EntryFor(m, frames[i]) = IF i \in M THEN << D[i] >> ELSE << >>
      BY <1>3, <1>4, EntryForIs
    <2>2. CASE frames[i].scene \in S
      <3>1. i \in M
        BY <2>2 DEF MergedFrom
      <3>2. Len(<< D[i] >>) = 1
        OBVIOUS
      <3> QED BY <2>1, <2>2, <3>1, <3>2
    <2>3. CASE frames[i].scene \notin S
      <3>1. EntryFor(old, frames[i]) = IF i \in M THEN << D[i] >> ELSE << >>
        BY <1>4, <2>3 DEF MergedFrom
      <3> QED BY <2>1, <2>3, <3>1
    <2> QED BY <2>2, <2>3
  <1>10. ASSUME NEW i \in 1..Len(frames), frames[i].scene \in S
         PROVE  m # << >>
    <2>1. i \in M \cap (1..Len(frames))
      BY <1>10 DEF MergedFrom
    <2>2. PICK a \in 1..Len(m) : h[a] = i
      BY <1>7, <2>1 DEF Pointed, Enumerates
    <2>3. Len(<< >>) = 0
      OBVIOUS
    <2> QED BY <2>2, <2>3
  <1> QED BY <1>4, <1>6, <1>8, <1>9, <1>10 DEF EntriesExact

\* Each Stage of a derived run accepts what it reads, and what a finished one
\* has made is, for any scenes and any selection among them: the selected
\* scenes from the second pass, all others as they were, in scene order, every
\* frame described once, and read as often as the pass it comes from read it.
THEOREM DerivedAlwaysExact == Spec => []DerivedExact
  <1>1. IInv /\ StoriesOK /\ DocsOK => DerivedExact
    <2> SUFFICES ASSUME IInv, StoriesOK, DocsOK PROVE DerivedExact
      OBVIOUS
    <2>1. OverlayAccepted
      BY DEF DocsOK, OverlayAccepted
    <2>2. ASSUME step = "done"
          PROVE  LET frames == derived.keyframes.keyframes IN
                 /\ \A d \in DOMAIN derived : derived[d] # Nothing
                 /\ OnePass(frames)
                 /\ derived.captions = Described(frames)
                 /\ \A i \in DOMAIN derived.ocr : derived.ocr[i] \in ToSet(Described(frames))
                 /\ \A i \in DOMAIN frames :
                      LET read == EntryFor(derived.ocr, frames[i])
                          was == EntryFor(source.ocr, frames[i])
                      IN Len(read) = IF frames[i].scene \in Selected THEN 1 ELSE Len(was)
      <3>1. PICK ids, S, src, made :
              ids = Ids /\ S = Selected /\ src = source /\ made = derived
        OBVIOUS
      <3>2. DocumentsAre("done", src, made, ids, S) /\ IdsAre(ids, S)
        BY <2>2, <3>1, ImportedScenes DEF DocsOK, Late, Imported
      <3>3. PICK H, P, J :
              /\ FirstPassIs(src, ids, H, P, J)
              /\ DOMAIN made.keyframes = {"keyframes", "removed"}
              /\ \E K, R : TwoPasses(made.keyframes, ids, H, P, S, K, R)
              /\ made.captions = Described(made.keyframes.keyframes)
              /\ \E M : MergedFrom(made.ocr, made.keyframes.keyframes, S, src.ocr, TRUE, M)
        BY <3>2 DEF DocumentsAre
      <3>4. PICK K, R : TwoPasses(made.keyframes, ids, H, P, S, K, R)
        BY <3>3
      <3>5. PICK doc, frames, C : /\ doc = made.keyframes /\ frames = doc.keyframes
                                  /\ C = ScenesOf(src.keyframes) \ S
        OBVIOUS
      <3>6. /\ frames \in Seq(Frame) /\ ScenesOf(frames) = ToSet(ids)
            /\ \A i, j \in 1..Len(frames) : i < j => frames[i].scene <= frames[j].scene
            /\ \A i \in 1..Len(frames) :
                 frames[i].pass = IF frames[i].scene \in S THEN "second" ELSE "first"
            /\ OfScenes(frames, C) = OfScenes(src.keyframes, C)
            /\ \E i \in 1..Len(frames) : frames[i].scene \in S
        <4>1. FirstPassIs(src, ids, H, P, J) /\ TwoPasses(doc, ids, H, P, S, K, R)
          BY <3>3, <3>4, <3>5
        <4>2. FramesExact(frames, ids, S, src.keyframes, C)
          BY <3>2, <3>5, <4>1, TwoPassesExact
        <4> QED BY <4>2 DEF FramesExact
      <3>7. DOMAIN frames = 1..Len(frames)
        BY <3>6
      <3>8. PICK m, old, M : /\ m = made.ocr /\ old = src.ocr
                             /\ MergedFrom(m, frames, S, old, TRUE, M)
        BY <3>3, <3>5
      <3>9. /\ m \in Seq(Entry)
            /\ \A a \in 1..Len(m) : m[a] \in ToSet(Described(frames))
            /\ \A i \in 1..Len(frames) :
                 Len(EntryFor(m, frames[i])) = IF frames[i].scene \in S THEN 1
                                               ELSE Len(EntryFor(old, frames[i]))
            /\ (\E i \in 1..Len(frames) : frames[i].scene \in S) => m # << >>
        <4>1. Document(doc, ids, K, R)
          BY <3>4, <3>5 DEF TwoPasses
        <4>2. EntriesExact(m, frames, S, old)
          BY <3>5, <3>8, <4>1, MergedExact
        <4> QED BY <4>2 DEF EntriesExact
      <3>10. DOMAIN m = 1..Len(m) /\ m # << >>
        BY <3>6, <3>9
      <3>11. doc # << >> /\ Described(frames) # << >>
        <4>1. DOMAIN << >> = {} /\ DOMAIN doc # {}
          BY <3>3, <3>5
        <4>2. PICK i : i \in DOMAIN frames
          BY <3>6, <3>7
        <4>3. DOMAIN Described(frames) = DOMAIN frames
          BY DEF Described
        <4> QED BY <4>1, <4>2, <4>3
      <3>12. \A d \in DOMAIN derived : derived[d] # Nothing
        <4>1. DOMAIN derived = {"keyframes", "captions", "ocr"}
          BY DEF DocsOK
        <4>2. derived.keyframes = doc /\ derived.ocr = m /\ derived.captions = Described(frames)
          BY <3>1, <3>3, <3>5, <3>8
        <4> QED BY <3>10, <3>11, <4>1, <4>2 DEF Nothing
      <3>13. OnePass(frames)
        BY <3>1, <3>5, <3>6, <3>7 DEF OnePass, From, Ids
      <3>14. frames = derived.keyframes.keyframes /\ m = derived.ocr /\ old = source.ocr
        BY <3>1, <3>5, <3>8
      <3>15. derived.captions = Described(frames)
        BY <3>1, <3>3, <3>5
      <3> QED BY <3>1, <3>7, <3>9, <3>10, <3>12, <3>13, <3>14, <3>15
    <2> QED BY <2>1, <2>2 DEF DerivedExact, OverlayExact
  <1> QED BY <1>1, Invariance, DocumentsInvariance, PTL
=============================================================================
