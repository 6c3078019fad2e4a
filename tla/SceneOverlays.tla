--------------------------- MODULE SceneOverlays ---------------------------
(***************************************************************************)
(* The visual Stages 03_keyframes, 08_captions and 08_ocr as functions of    *)
(* their inputs, for a first pass over every scene and for a second pass     *)
(* that processes selected scenes and copies the others from its source.     *)
(*                                                                          *)
(* A scene is its position in scenes.json, a perceptual hash a point on a    *)
(* line, and the picture a path shows is its hash and the pass that          *)
(* extracted it.                                                             *)
(***************************************************************************)
EXTENDS Naturals, Sequences, FiniteSets, SequencesExt

CONSTANTS
  Short,      \* DURATION_THRESHOLDS_SEC
  Long,
  Threshold   \* HAMMING_DISTANCE_THRESHOLD

ASSUME ThresholdsAssumption ==
  Short \in Nat /\ Long \in Nat /\ Short < Long /\ Threshold \in Nat

\* The entries at these positions, in order.
At(entries, positions) ==
  LET taken[n \in 0..Len(entries)] ==
        IF n = 0 THEN << >>
        ELSE IF n \in positions THEN Append(taken[n - 1], entries[n]) ELSE taken[n - 1]
  IN taken[Len(entries)]

Count(entries, scene) == Cardinality({i \in DOMAIN entries : entries[i].scene = scene})

ScenesOf(entries) == {entries[i].scene : i \in DOMAIN entries}

-----------------------------------------------------------------------------
\* How many frames a scene of this length gets.
AdaptiveCount(length, max) ==
  Min({max, IF length < Short THEN 1 ELSE IF length < Long THEN 2 ELSE 3})

Distance(a, b) == IF a < b THEN b - a ELSE a - b

Near(hashes, i, j) == Distance(hashes[i], hashes[j]) <= Threshold

\* (mutant) a candidate is compared with the last one kept
RetainedAgainstLast(hashes) ==
  LET kept[n \in 0..Len(hashes)] ==
        IF n = 0 THEN << >>
        ELSE IF kept[n - 1] # << >> /\ Near(hashes, n, Last(kept[n - 1]))
        THEN kept[n - 1] ELSE Append(kept[n - 1], n)
  IN kept[Len(hashes)]

\* The candidates kept, in order: each unlike every one kept before it.
Retained(hashes) ==
  LET kept[n \in 0..Len(hashes)] ==
        IF n = 0 THEN << >>
        ELSE IF \E j \in ToSet(kept[n - 1]) : Near(hashes, n, j)
        THEN kept[n - 1] ELSE Append(kept[n - 1], n)
  IN kept[Len(hashes)]

\* The kept frame a removed candidate is a duplicate of: the nearest of those
\* kept before it, the first of them on a tie.
DuplicateOf(hashes, i) ==
  LET earlier == {j \in ToSet(Retained(hashes)) : j < i}
      nearest == Min({Distance(hashes[i], hashes[j]) : j \in earlier})
  IN Min({j \in earlier : Distance(hashes[i], hashes[j]) = nearest})

\* scene_NNN.jpg for an only frame, scene_NNN_KK.jpg otherwise.
FramePath(scene, index, count) == << scene, IF count = 1 THEN 0 ELSE index >>

\* The keyframes of one scene, from the hashes of its candidates.
SceneFrames(scene, hashes, pass) ==
  LET kept == Retained(hashes) IN
  [k \in DOMAIN kept |->
     [scene |-> scene, index |-> k, count |-> Len(kept),
      path |-> FramePath(scene, k, Len(kept)),
      hash |-> hashes[kept[k]], pass |-> pass]]

SceneRemovals(scene, hashes, pass) ==
  LET kept == Retained(hashes) IN
  {[scene |-> scene, hash |-> hashes[i], pass |-> pass,
    of |-> FramePath(scene, CHOOSE k \in DOMAIN kept : kept[k] = DuplicateOf(hashes, i),
                     Len(kept))]
     : i \in DOMAIN hashes \ ToSet(kept)}

\* One extraction over these scenes, in their order; look gives the hashes of
\* the frames of a scene at its timestamps.
Extracted(scenes, lengths, max, look, pass) ==
  LET hashes(s) == SubSeq(look[s], 1, AdaptiveCount(lengths[s], max)) IN
  [keyframes |-> FlattenSeq([i \in DOMAIN scenes |->
                               SceneFrames(scenes[i], hashes(scenes[i]), pass)]),
   removed |-> UNION {SceneRemovals(scenes[i], hashes(scenes[i]), pass)
                        : i \in DOMAIN scenes}]

FramesOf(entries, scene) ==
  At(entries, {i \in DOMAIN entries : entries[i].scene = scene})

\* The overlay refuses a selected scene without frames, or a copied one.
KeyframesCovered(scenes, selected, new, source) ==
  /\ ScenesOf(new.keyframes) = selected
  /\ \A s \in ToSet(scenes) \ selected : FramesOf(source.keyframes, s) # << >>

\* (mutant) copied scenes follow the selected ones
MergedKeyframesAppended(scenes, selected, new, source) ==
  [keyframes |-> new.keyframes
                   \o At(source.keyframes,
                         {i \in DOMAIN source.keyframes :
                            source.keyframes[i].scene \notin selected}),
   removed |-> {r \in source.removed : r.scene \notin selected} \cup new.removed]

\* The second pass's document: the selected scenes from the new extraction, the
\* others from the source, in scene order.
MergedKeyframes(scenes, selected, new, source) ==
  [keyframes |-> FlattenSeq([i \in DOMAIN scenes |->
                   FramesOf(IF scenes[i] \in selected THEN new.keyframes
                            ELSE source.keyframes, scenes[i])]),
   removed |-> {r \in source.removed : r.scene \notin selected} \cup new.removed]

-----------------------------------------------------------------------------
\* A keyframe list the caption and OCR Stages accept: indices follow the order
\* within the scene and counts match.
Normalized(keyframes) ==
  \A i \in DOMAIN keyframes :
    /\ keyframes[i].index = Count(SubSeq(keyframes, 1, i), keyframes[i].scene)
    /\ keyframes[i].count = Count(keyframes, keyframes[i].scene)

\* What the model says of each picture, in the order of the pictures.
Described(keyframes) ==
  [i \in DOMAIN keyframes |->
     [scene |-> keyframes[i].scene, index |-> keyframes[i].index,
      keyframe |-> keyframes[i].path,
      says |-> << keyframes[i].hash, keyframes[i].pass >>]]

OfScenes(keyframes, selected) ==
  At(keyframes, {i \in DOMAIN keyframes : keyframes[i].scene \in selected})

\* The frames OCR reads: none, all, or those whose caption gives a hint.
Candidates(keyframes, mode, hinted) ==
  CASE mode = "disabled" -> << >>
    [] mode = "all" -> keyframes
    [] mode = "caption-hints" ->
         At(keyframes, {i \in DOMAIN keyframes : keyframes[i].hash \in hinted})

\* Two entries for one visual make a document invalid.
Keyed(entries) ==
  \A i, j \in DOMAIN entries :
    entries[i].scene = entries[j].scene /\ entries[i].index = entries[j].index => i = j

EntryFor(entries, keyframe) ==
  At(entries, {i \in DOMAIN entries : /\ entries[i].scene = keyframe.scene
                                       /\ entries[i].index = keyframe.index})

EntryOf(keyframe, selected, new, source) ==
  EntryFor(IF keyframe.scene \in selected THEN new ELSE source, keyframe)

\* An overlay refuses duplicate entries, an entry for another picture, and a
\* keyframe without one; gaps allows that of the source's OCR.
EntriesAccepted(keyframes, selected, new, source, gaps) ==
  /\ Keyed(new) /\ Keyed(source)
  /\ \A i \in DOMAIN keyframes :
       LET k == keyframes[i]
           entry == EntryOf(k, selected, new, source)
       IN IF entry = << >> THEN gaps /\ k.scene \notin selected
          ELSE entry[1].keyframe = k.path

\* The entries of every keyframe, from the pass its scene belongs to.
MergedEntries(keyframes, selected, new, source) ==
  FlattenSeq([i \in DOMAIN keyframes |-> EntryOf(keyframes[i], selected, new, source)])
=============================================================================
