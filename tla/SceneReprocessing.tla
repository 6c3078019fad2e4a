------------------------- MODULE SceneReprocessing -------------------------
(***************************************************************************)
(* Query-guided reprocessing: a question selects scenes of a finished run,   *)
(* services/reprocessing.py turns the answer into a plan bound to the        *)
(* checksums of the run's artifacts, services/reprocessing_artifacts.py      *)
(* copies those artifacts into the workspace of a derived run, and there the *)
(* visual Stages process the selected scenes again.                          *)
(*                                                                          *)
(* The source run's output tree belongs to somebody else: a forced rerun of  *)
(* its pipeline rewrites the tree file by file between any two steps of the  *)
(* service.  A file's content is the number of the rerun that wrote it.      *)
(***************************************************************************)
EXTENDS SceneOverlays

CONSTANTS
  Stories,     \* the scene lengths a scenes.json may hold, each a sequence
  Looks,       \* the hashes three frames of a scene may have, each a sequence
  Hinted,      \* the hashes whose caption gives an OCR hint
  MaxScenes,   \* max_scenes of the submission
  MaxReruns,   \* bound on the reruns of the source run
  MaxFailures  \* bound on failing writes and crashes of the importing process

ASSUME ReprocessingAssumption ==
  /\ MaxScenes \in Nat \ {0} /\ MaxReruns \in Nat /\ MaxFailures \in Nat
  /\ Stories \subseteq Seq(Nat)
  /\ \A look \in Looks : look \in Seq(Nat) /\ Len(look) = 3

\* The artifacts of the plan, in the order the importer sorts them, and the same
\* in the order a run writes them.  The others are imported the same way.
Names == << "captions", "keyframes", "ocr", "scenes", "search_index", "timeline" >>
Written == << "scenes", "keyframes", "captions", "ocr", "timeline", "search_index" >>

Nothing == << >>

VARIABLES
  parent,    \* the source run's tree: name -> content
  succeeded, \* the artifacts its last succeeded run reported: name -> content
  rewriting, \* the files a rerun has left to write
  reruns,
  story,     \* content of scenes.json -> the scenes in it
  step,      \* where the service is
  plan,      \* refs it resolved, index and timeline the query read, scenes
  position,  \* the artifact being verified, copied or published
  pending,   \* the target store's unpublished copies: name -> content
  target,    \* the derived workspace's 00_source: name -> content
  manifest,  \* source_manifest.json is published
  failures,
  source,    \* the documents imported: what the first pass found
  derived    \* what the second pass wrote

parentVars == << parent, succeeded, rewriting, reruns, story >>
importVars == << position, pending, target, manifest >>
stageVars == << source, derived >>
vars == << parentVars, step, plan, importVars, failures, stageVars >>

Empty == [refs |-> Nothing, index |-> 0, timeline |-> 0, scenes |-> << >>]
Unwritten == [keyframes |-> Nothing, captions |-> Nothing, ocr |-> Nothing]

\* The scenes the content of a file was made from: those of the newest
\* scenes.json at the time.
StoryOf(content) == story[content]

SceneIds(content) == [i \in DOMAIN StoryOf(content) |-> i]

Init ==
  /\ \E first \in Stories : story = << first >>
  /\ parent = [n \in ToSet(Names) |-> 1]
  /\ succeeded = parent
  /\ rewriting = << >> /\ reruns = 0
  /\ step = "idle" /\ plan = Empty
  /\ position = 1 /\ pending = << >> /\ target = << >> /\ manifest = FALSE
  /\ failures = 0
  /\ source = Nothing /\ derived = Unwritten

-----------------------------------------------------------------------------
\* The source run's pipeline, run again from some Stage on.  It rewrites its
\* files in order and reports them when it has succeeded; it may also fail, and
\* the next rerun is then a whole one.
Rerun ==
  /\ rewriting = << >> /\ reruns < MaxReruns
  /\ \E from \in DOMAIN Written, scenes \in Stories :
       /\ from > 1 => parent = succeeded /\ scenes = story[parent["scenes"]]
       /\ rewriting' = SubSeq(Written, from, Len(Written))
       /\ story' = Append(story, scenes)
  /\ reruns' = reruns + 1
  /\ UNCHANGED << parent, succeeded, step, plan, importVars, failures, stageVars >>

Rewrite ==
  /\ rewriting # << >>
  /\ parent' = [parent EXCEPT ![Head(rewriting)] = reruns + 1]
  /\ rewriting' = Tail(rewriting)
  /\ succeeded' = IF rewriting' = << >> THEN parent' ELSE succeeded
  /\ UNCHANGED << reruns, story, step, plan, importVars, failures, stageVars >>

RerunFails ==
  /\ rewriting # << >>
  /\ rewriting' = << >>
  /\ UNCHANGED << parent, succeeded, reruns, story, step, plan, importVars,
                  failures, stageVars >>

-----------------------------------------------------------------------------
\* plan(): the refs of the source are resolved and held while the query runs.
\* A new plan gets a fresh derived workspace.
Resolve ==
  /\ step \in {"idle", "refused", "done"}
  /\ plan' = [Empty EXCEPT !.refs = succeeded]
  /\ target' = << >> /\ manifest' = FALSE /\ pending' = << >> /\ position' = 1
  /\ source' = Nothing /\ derived' = Unwritten
  /\ step' = "resolved"
  /\ UNCHANGED << parentVars, failures >>

\* query(): index.db is opened and searched, then the embedding is awaited.
Search ==
  /\ step = "resolved"
  /\ plan' = [plan EXCEPT !.index = parent["search_index"]]
  /\ step' = "searched"
  /\ UNCHANGED << parentVars, importVars, failures, stageVars >>

\* The scenes found, best first, all of them in the timeline read afterwards.
\* No hit, or a scene the timeline does not have, ends the request.
Answer ==
  /\ step = "searched"
  /\ \E found \in BoundedSeq(ToSet(SceneIds(plan.index)), MaxScenes) :
       /\ IsInjective(found)
       /\ LET known == ToSet(SceneIds(parent["timeline"])) IN
          IF found = << >> \/ ~ ToSet(found) \subseteq known
          THEN step' = "refused" /\ plan' = plan
          ELSE /\ plan' = [plan EXCEPT !.scenes = found, !.timeline = parent["timeline"]]
               /\ step' = "verifying"
  /\ UNCHANGED << parentVars, importVars, failures, stageVars >>

-----------------------------------------------------------------------------
\* import_plan(): every artifact is verified, then every artifact copied, then
\* every copy published, then the manifest.
Current == Names[position]

NextArtifact(after) ==
  IF position = Len(Names) THEN step' = after /\ position' = 1
  ELSE step' = step /\ position' = position + 1

Verify ==
  /\ step = "verifying"
  /\ IF parent[Current] = plan.refs[Current] THEN NextArtifact("copying")
     ELSE step' = "refused" /\ position' = 1
  /\ UNCHANGED << parentVars, plan, pending, target, manifest, failures, stageVars >>

\* put() hashes what it copies; a copy that differs from its ref discards all.
\* (mutant) a copy is believed once its source was verified
FaithfulUnchecked(content) == TRUE

Faithful(content) == content = plan.refs[Current]

Copy ==
  /\ step = "copying"
  /\ IF Faithful(parent[Current])
     THEN /\ pending' = Append(pending, << Current, parent[Current] >>)
          /\ NextArtifact("publishing")
     ELSE pending' = << >> /\ step' = "refused" /\ position' = 1
  /\ UNCHANGED << parentVars, plan, target, manifest, failures, stageVars >>

CopyFails ==
  /\ step = "copying" /\ failures < MaxFailures
  /\ pending' = << >> /\ step' = "refused" /\ position' = 1
  /\ failures' = failures + 1
  /\ UNCHANGED << parentVars, plan, target, manifest, stageVars >>

Published(name, content) ==
  [n \in DOMAIN target \cup {name} |-> IF n = name THEN content ELSE target[n]]

Publish ==
  /\ step = "publishing"
  /\ target' = Published(Head(pending)[1], Head(pending)[2])
  /\ pending' = Tail(pending)
  /\ NextArtifact("committing")
  /\ UNCHANGED << parentVars, plan, manifest, failures, stageVars >>

\* The copies behind the one that failed are discarded.
PublishFails ==
  /\ step = "publishing" /\ failures < MaxFailures
  /\ pending' = << Head(pending) >>
  /\ step' = "refused" /\ position' = 1
  /\ failures' = failures + 1
  /\ UNCHANGED << parentVars, plan, target, manifest, stageVars >>

\* The manifest is the commit of the import.  What the imported documents say
\* is looked at only from here on, so it is chosen here: any first pass.
FirstPass(max, look, mode) ==
  LET scenes == SceneIds(target["scenes"])
      pass == Extracted(scenes, StoryOf(target["scenes"]), max, look, "first")
  IN [keyframes |-> pass.keyframes, removed |-> pass.removed,
      captions |-> Described(pass.keyframes),
      ocr |-> Described(Candidates(pass.keyframes, mode, Hinted))]

Commit ==
  /\ step = "committing"
  /\ manifest' = TRUE
  /\ \E max \in 1 .. 3, mode \in {"disabled", "all", "caption-hints"},
        look \in [ToSet(SceneIds(target["scenes"])) -> Looks] :
       source' = FirstPass(max, look, mode)
  /\ step' = "committed"
  /\ UNCHANGED << parentVars, plan, position, pending, target, failures, derived >>

CommitFails ==
  /\ step = "committing" /\ failures < MaxFailures
  /\ step' = "refused"
  /\ failures' = failures + 1
  /\ UNCHANGED << parentVars, plan, importVars, stageVars >>

\* The importing process dies: its pending copies are nobody's any more.
Crash ==
  /\ step \in {"verifying", "copying", "publishing", "committing"}
  /\ failures < MaxFailures
  /\ pending' = << >> /\ position' = 1 /\ step' = "refused"
  /\ failures' = failures + 1
  /\ UNCHANGED << parentVars, plan, target, manifest, stageVars >>

\* The same plan is imported again into the same workspace.
Retry ==
  /\ step = "refused" /\ plan.scenes # << >>
  /\ step' = "verifying" /\ position' = 1 /\ pending' = << >>
  /\ UNCHANGED << parentVars, plan, target, manifest, failures, stageVars >>

-----------------------------------------------------------------------------
\* The visual Stages of the derived run, on the imported source.
Selected == ToSet(plan.scenes)

Keyframes ==
  /\ step = "committed"
  /\ \E look \in [Selected -> Looks] :
       LET scenes == SceneIds(target["scenes"])
           again == At(scenes, {i \in DOMAIN scenes : scenes[i] \in Selected})
           new == Extracted(again, StoryOf(target["scenes"]), 3, look, "second")
       IN IF Selected \subseteq ToSet(scenes)
             /\ KeyframesCovered(scenes, Selected, new, source)
          THEN /\ derived' = [derived EXCEPT
                               !.keyframes = MergedKeyframes(scenes, Selected, new, source)]
               /\ step' = "keyframes"
          ELSE step' = "rejected" /\ derived' = derived
  /\ UNCHANGED << parentVars, plan, importVars, failures, source >>

\* A Stage over the keyframes that describes those of the selected scenes and
\* takes the other entries from the source.
Overlay(document, gaps, before, after) ==
  LET frames == derived.keyframes.keyframes
      new == Described(OfScenes(frames, Selected))
      old == source[document]
  IN /\ step = before
     /\ IF Normalized(frames) /\ EntriesAccepted(frames, Selected, new, old, gaps)
        THEN /\ derived' = [derived EXCEPT
                             ![document] = MergedEntries(frames, Selected, new, old)]
             /\ step' = after
        ELSE step' = "rejected" /\ derived' = derived
     /\ UNCHANGED << parentVars, plan, importVars, failures, source >>

Captions == Overlay("captions", FALSE, "keyframes", "captions")

Ocr == Overlay("ocr", TRUE, "captions", "done")

Next ==
  \/ Rerun \/ Rewrite \/ RerunFails
  \/ Resolve \/ Search \/ Answer
  \/ Verify \/ Copy \/ CopyFails \/ Publish \/ PublishFails
  \/ Commit \/ CommitFails \/ Crash \/ Retry
  \/ Keyframes \/ Captions \/ Ocr

Spec == Init /\ [][Next]_vars

-----------------------------------------------------------------------------
Steps == {"idle", "resolved", "searched", "verifying", "copying", "publishing",
          "committing", "committed", "keyframes", "captions", "done", "refused",
          "rejected"}

\* The shapes of the import's variables.
TypeOK ==
  /\ parent \in [ToSet(Names) -> 1 .. MaxReruns + 1]
  /\ succeeded \in [ToSet(Names) -> 1 .. MaxReruns + 1]
  /\ step \in Steps /\ position \in DOMAIN Names
  /\ pending \in Seq(ToSet(Names) \X (1 .. MaxReruns + 1))
  /\ DOMAIN target \subseteq ToSet(Names)
  /\ target \in [DOMAIN target -> 1 .. MaxReruns + 1]
  /\ manifest \in BOOLEAN

\* A committed import is one snapshot of one succeeded run: every artifact is
\* the one the plan was made for, and the scenes to process again were found in
\* that run's index and timeline, although the run may have been rewritten
\* while the query was awaited and between any two copies, and an earlier
\* import may have died half way.
ImportIsSnapshot ==
  manifest => /\ target = plan.refs
              /\ plan.index = plan.refs["search_index"]
              /\ plan.timeline = plan.refs["timeline"]

\* An import that ended leaves no unpublished copy behind, except the very one
\* whose publication failed.
PendingDiscarded ==
  step \notin {"copying", "publishing"} =>
    Len(pending) <= (IF step = "refused" THEN 1 ELSE 0)

\* The visual Stages accept what they imported and each other's output: no
\* selected scene is unknown, no copied scene without frames, no entry names
\* another picture than its keyframe.
OverlayAccepted == step # "rejected"

\* In the derived run every picture of a selected scene, its caption and its OCR
\* come from the second pass and everything else from the first, in scene
\* order and with nothing lost: the composition of three Stages that each match
\* their entries by position only.
From(entry) == IF entry.scene \in Selected THEN "second" ELSE "first"

OnePass(frames) ==
  /\ ScenesOf(frames) = ToSet(SceneIds(target["scenes"]))
  /\ \A i, j \in DOMAIN frames :
       i < j => frames[i].scene <= frames[j].scene
  /\ \A i \in DOMAIN frames : frames[i].pass = From(frames[i])
  /\ LET copied == ScenesOf(source.keyframes) \ Selected
     IN OfScenes(frames, copied) = OfScenes(source.keyframes, copied)

OverlayExact ==
  step = "done" =>
    LET frames == derived.keyframes.keyframes IN
    /\ \A d \in DOMAIN derived : derived[d] # Nothing
    /\ OnePass(frames)
    /\ derived.captions = Described(frames)
    /\ \A i \in DOMAIN derived.ocr : derived.ocr[i] \in ToSet(Described(frames))
    /\ \A i \in DOMAIN frames :
         LET read == EntryFor(derived.ocr, frames[i])
             was == EntryFor(source.ocr, frames[i])
         IN Len(read) = IF frames[i].scene \in Selected THEN 1 ELSE Len(was)

\* Duplicates are removed against what is kept, never against what is removed:
\* in one pass no two kept frames of a scene look alike, every removed frame
\* looks like the kept frame it names, and no scene loses its last frame.
Justified(document) ==
  LET kept == ToSet(document.keyframes) IN
  /\ \A a, b \in kept : a.scene = b.scene /\ a # b
                          => Distance(a.hash, b.hash) > Threshold
  /\ \A r \in document.removed :
       \E k \in kept : /\ k.scene = r.scene /\ k.path = r.of /\ k.pass = r.pass
                       /\ Distance(k.hash, r.hash) <= Threshold

DuplicatesJustified ==
  \A document \in {source, derived.keyframes} \ {Nothing} : Justified(document)

\* An import is all of one run or none of it, however it ends (with the shapes
\* of all variables; LocalReprocessingArtifactImporter).
ImportClean == TypeOK /\ ImportIsSnapshot /\ PendingDiscarded

\* The derived run's documents are accepted by each Stage that reads them and
\* hold both passes exactly (s03_keyframes.py, s08_captions.py, s08_ocr.py).
DerivedExact == OverlayAccepted /\ OverlayExact
=============================================================================
