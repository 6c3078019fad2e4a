--------------------------- MODULE LegacyPipeline ---------------------------
(***************************************************************************)
(* The numbered Stages over one output folder and one PipelineContext, both *)
(* shared by the Stages that run at the same time (adapters/legacy_stages.py *)
(* and pipeline/stages).  An execution plans a selection of the registry and *)
(* runs every planned Stage as soon as its planned dependencies are over, in *)
(* any order and any number at once: the bounds of LocalExecutor and the     *)
(* cache are left to PipelineEngine and OutputWorkspace.                     *)
(*                                                                          *)
(* A file's content is the number of the execution that wrote it (0: there   *)
(* is no file); what it says follows from that execution's world: the video, *)
(* the settings and the services it met.                                     *)
(***************************************************************************)
EXTENDS LegacyBindings, SequencesExt

CONSTANT
  Requests     \* bound: for each pipeline, the worlds and the selections of its
               \* first, second ... execution

(* A world: the video (audio stream, speech the VAD finds, words the STT     *)
(* model hears in it, embedded text), the settings (events, ocr, whether a   *)
(* caption hints at text), what the diarization service answers and the     *)
(* Stage whose tool or service raises.                                       *)
World == [video : [audio : BOOLEAN, speech : BOOLEAN, words : BOOLEAN,
                   text : {"none", "bitmap", "text"}],
          events : {"disabled", "all"}, ocr : {"disabled", "all", "caption-hints"},
          hinted : BOOLEAN, diarize : {"turns", "refused"}, broken : 0..14]

ASSUME PipelineAssumption ==
  \A m \in Modes : \A n \in DOMAIN Requests[m] :
    /\ Requests[m][n].worlds \subseteq World
    /\ Requests[m][n].selections \subseteq [stage : 0..14, from : 0..14, to : 0..14]

\* Both registries and their planners are built without an error.
ASSUME RegistriesAccepted ==
  /\ ~ PlannerRefuses(DefaultRegistry)
  /\ ~ PlannerRefuses(ReprocessingRegistry)

VARIABLES
  mode,        \* which of the two pipelines the folder belongs to
  worlds,      \* the worlds of the executions so far
  planned,     \* the Stages of the current plan
  status,      \* planned Stage -> how far it is
  reason,      \* planned Stage -> the reason code of a skipped one
  files,       \* file -> the execution that wrote it, or 0
  artifacts,   \* logical key -> [file, by] once available, or Nothing
  kept,        \* finished execution -> its artifacts, as its manifests hold them
  context,     \* field of the PipelineContext -> "base" or "task"
  saved        \* running Stage -> previous_config

vars == <<mode, worlds, planned, status, reason, files, artifacts, kept, context,
          saved>>

Nothing == [file |-> "none", by |-> 0]
Exec == Len(worlds)
Now == worlds[Exec]
Reg == Registry(mode)
Keys == KeysOf[mode]
Files == (Keys \ {"audio"}) \cup {"wav", "frames", "source_frames"}
Over(s) == status[s] \in {"succeeded", "skipped"}
Running == {s \in planned : status[s] = "running"}
Failed == {s \in planned : status[s] = "failed"}

\* What a document in the folder fs says about the video it was made from.
SaysAudio(fs) ==
  fs["audio_metadata"] # 0 /\ worlds[fs["audio_metadata"]].video.audio
SaysSpeech(fs) ==
  LET v == worlds[fs["vad_segments"]].video IN v.audio /\ v.speech

---------------------------------------------------------------------------
(* Paths *)

\* _audio_outputs and _legacy_audio_path: without an audio stream the metadata
\* document stands in for the WAV.
AudioFile(fs) == IF SaysAudio(fs) THEN "wav" ELSE "audio_metadata"

PathOf(fs, key) == IF key = "audio" THEN AudioFile(fs) ELSE key

\* The files a Stage module may open, declared as inputs or not.
Opens(s) ==
  (Reg.requires[s] \ {"audio"})
    \cup (IF s \in {AudioEvents, Vad, Stt, Diarize} THEN {"audio_metadata", "wav"} ELSE {})
    \cup (IF s \in {Captions, Ocr} THEN {"frames"} ELSE {})
    \cup (IF s = Keyframes /\ mode = "reprocess" THEN {"source_frames"} ELSE {})

\* The files a Stage may write: its outputs, their sidecars and, in the hooks
\* before 03, 08_captions and 08_ocr, the frames restored from a bundle.
Writes(s) ==
  (Reg.outputs[s] \ {"audio"})
    \cup (IF s = Audio THEN {"wav"} ELSE {})
    \cup (IF s \in {Keyframes, Captions, Ocr} THEN {"frames"} ELSE {})
    \cup (IF s = Keyframes /\ mode = "reprocess" THEN {"source_frames"} ELSE {})

\* What its module writes, in that order, before it returns (after_run and its
\* bundle included).
Product(s) ==
  CASE s = Audio -> IF worlds[files["metadata"]].video.audio
                    THEN <<"wav", "audio_metadata">> ELSE <<"audio_metadata">>
    [] s = Keyframes -> <<"frames", "keyframes", "keyframe_images">>
    [] OTHER -> SetToSeq(Reg.outputs[s])

---------------------------------------------------------------------------
(* An execution *)

\* The folder of the default pipeline is empty but for the video; that of a
\* derived run holds the files copied from its source run.
Init ==
  /\ mode \in Modes
  /\ \E w \in Requests[mode][1].worlds : worlds = <<w>>
  /\ planned = Names(Reg)
  /\ status = [s \in planned |-> "pending"]
  /\ reason = [s \in planned |-> "none"]
  /\ files = [f \in Files |->
                IF f \in Reg.external \/ (f = "source_frames" /\ mode = "reprocess")
                THEN 1 ELSE 0]
  /\ artifacts = [k \in Keys |->
                    IF k \in Reg.external THEN [file |-> k, by |-> 1] ELSE Nothing]
  /\ kept = <<>>
  /\ context = [f \in Fields |-> "base"]
  /\ saved = [s \in planned |-> <<>>]

Ended == Running = {} /\ (Failed # {} \/ \A s \in planned : Over(s))

Manifests == Append(kept, artifacts)   \* of the executions so far

\* (mutant) inputs of a partial plan are taken as they are
BoundaryUnverified(sel, run, ingested) ==
  [k \in BoundaryOf(Reg, Selected(Reg, sel)) |-> Manifests[run][k]]

\* The inputs a selection takes from the manifests of an earlier run: recorded
\* there, and with the recorded bytes still in place.
Boundary(sel, run, ingested) ==
  LET recorded == {k \in BoundaryOf(Reg, Selected(Reg, sel)) \ {"video"} :
                     /\ Manifests[run][k] # Nothing
                     /\ ingested[Manifests[run][k].file] = Manifests[run][k].by}
  IN [k \in recorded |-> Manifests[run][k]]

\* The next request on the folder, of the same video or of another: the video is
\* copied in, the boundary taken from an earlier run of the same video, and the
\* request refused if an input is missing.
Again(w, sel, run) ==
  LET part == Selected(Reg, sel)
      ingested == [files EXCEPT !["video"] = Exec + 1]
      given == Boundary(sel, run, ingested)
  IN /\ ~ SelectionRefused(Reg, sel)
     /\ BoundaryOf(Reg, part) # {"video"} => worlds[run].video = w.video
     /\ BoundaryOf(Reg, part) \ {"video"} \subseteq DOMAIN given
     /\ worlds' = Append(worlds, w)
     /\ kept' = Manifests
     /\ planned' = part
     /\ status' = [s \in part |-> "pending"]
     /\ reason' = [s \in part |-> "none"]
     /\ files' = ingested
     /\ artifacts' = [k \in Keys |->
                        IF k = "video" THEN [file |-> k, by |-> Exec + 1]
                        ELSE IF k \in DOMAIN given THEN given[k] ELSE Nothing]
     /\ saved' = [s \in part |-> <<>>]
     /\ UNCHANGED <<mode, context>>

\* The Engine launches a Stage whose planned dependencies are over, until one
\* Stage has failed.
Ready(s) ==
  /\ status[s] = "pending" /\ Failed = {}
  /\ \A d \in Reg.deps[s] \cap planned : Over(d)

\* _verify_inputs: every declared input is available and the file the Stage
\* will read holds its bytes.
Verified(s) ==
  \A k \in Reg.requires[s] :
     artifacts[k] = [file |-> PathOf(files, k), by |-> files[PathOf(files, k)]]

\* (mutant) the images are left as the folder has them
FramesInPlaceUnrestored(s) == files

\* before_run: the images of the bundle replace the ones in the folder.
FramesInPlace(s) ==
  CASE s \in {Captions, Ocr} ->
         [files EXCEPT !["frames"] = files["keyframe_images"]]
    [] s = Keyframes /\ mode = "reprocess" ->
         [files EXCEPT !["source_frames"] = files["source_keyframe_images"]]
    [] OTHER -> files

\* The start of LegacyStageTaskRunner.__call__: the inputs are verified, the
\* task's settings put into the shared context and the hook run.
Begin(s) ==
  /\ Ready(s)
  /\ IF Verified(s)
     THEN /\ status' = [status EXCEPT ![s] = "running"]
          /\ saved' = [saved EXCEPT
                         ![s] = [f \in ConfigFields(mode, s) |-> context[f]]]
          /\ context' = [f \in Fields |->
                           IF f \in ConfigFields(mode, s) THEN "task" ELSE context[f]]
          /\ files' = FramesInPlace(s)
     ELSE /\ status' = [status EXCEPT ![s] = "failed"]
          /\ UNCHANGED <<saved, context, files>>
  /\ UNCHANGED <<mode, worlds, planned, reason, artifacts, kept>>

\* (mutant) a Stage that raises leaves its settings behind
RestoredOnSuccess(s, ok) ==
  [f \in Fields |->
     IF ok /\ f \in DOMAIN saved[s] THEN saved[s][f] ELSE context[f]]

\* The finally block: previous_config goes back, whatever happened.
Restored(s, ok) ==
  [f \in Fields |-> IF f \in DOMAIN saved[s] THEN saved[s][f] ELSE context[f]]

(* The skips of the Stage modules, by reason code ("none": not skipped), in   *)
(* the order in which the modules test for them.  (A video has at least one  *)
(* scene and a scene at least one keyframe: NO_KEYFRAMES does not occur.)     *)

\* 04_embedded_text: neither chapters nor a subtitle stream it can extract.
EmbeddedTextSkip ==
  [none |-> "NO_EMBEDDED_TEXT", bitmap |-> "NO_EXTRACTABLE_EMBEDDED_TEXT",
   text |-> "none"][worlds[files["metadata"]].video.text]

\* 05_audio_events
AudioEventsSkip ==
  IF Now.events = "disabled" THEN "AUDIO_EVENTS_DISABLED"
  ELSE IF SaysAudio(files) THEN "none" ELSE "NO_AUDIO"

\* 05_vad
VadSkip == IF SaysAudio(files) THEN "none" ELSE "NO_AUDIO"

\* 06_stt asks the VAD document first, then the model; either may have nothing.
SttSkip ==
  IF SaysSpeech(files) /\ worlds[files["vad_segments"]].video.words
  THEN "none" ELSE "NO_SPEECH"

\* 07_diarize: a refused token or model skips, any other failure raises.
DiarizeSkip ==
  IF ~ SaysAudio(files) THEN "NO_AUDIO"
  ELSE IF Now.diarize = "refused" THEN "OPTIONAL_DIARIZATION_UNAVAILABLE" ELSE "none"

\* 08_ocr
OcrSkip ==
  IF Now.ocr = "disabled" THEN "OCR_DISABLED"
  ELSE IF Now.ocr = "caption-hints" /\ ~ Now.hinted THEN "NO_OCR_CANDIDATES" ELSE "none"

\* The outcome resolvers: SKIPPED with the reason the module wrote, or SUCCEEDED.
Outcome(s) ==
  CASE s = EmbeddedText -> EmbeddedTextSkip
    [] s = AudioEvents -> AudioEventsSkip
    [] s = Vad -> VadSkip
    [] s = Stt -> SttSkip
    [] s = Diarize -> DiarizeSkip
    [] s = Ocr -> OcrSkip
    [] OTHER -> "none"

\* The module wrote its product, the output resolver registers every output
\* (_register reads the files back) and the outcome is resolved.
Succeed(s) ==
  LET product == Members(Product(s))
      written == [f \in Files |-> IF f \in product THEN Exec ELSE files[f]]
      refs == [k \in Reg.outputs[s] |->
                 [file |-> PathOf(written, k), by |-> written[PathOf(written, k)]]]
  IN /\ status[s] = "running" /\ s # Now.broken
     /\ files' = written
     /\ context' = Restored(s, TRUE)
     /\ IF \E k \in DOMAIN refs : refs[k].by = 0
        THEN /\ status' = [status EXCEPT ![s] = "failed"]
             /\ UNCHANGED <<artifacts, reason>>
        ELSE /\ artifacts' = [k \in Keys |->
                              IF k \in DOMAIN refs THEN refs[k] ELSE artifacts[k]]
             /\ reason' = [reason EXCEPT ![s] = Outcome(s)]
             /\ status' = [status EXCEPT
                              ![s] = IF Outcome(s) = "none" THEN "succeeded" ELSE "skipped"]
     /\ UNCHANGED <<mode, worlds, planned, kept, saved>>

\* A tool or a service raises, after some of the files were written.
Raise(s) ==
  /\ status[s] = "running" /\ s = Now.broken
  /\ \E n \in 0..Len(Product(s)) :
       LET part == Members(SubSeq(Product(s), 1, n))
       IN files' = [f \in Files |-> IF f \in part THEN Exec ELSE files[f]]
  /\ context' = Restored(s, FALSE)
  /\ status' = [status EXCEPT ![s] = "failed"]
  /\ UNCHANGED <<mode, worlds, planned, reason, artifacts, kept, saved>>

Next ==
  \/ \E s \in planned : Begin(s) \/ Succeed(s) \/ Raise(s)
  \/ /\ Ended /\ Exec < Len(Requests[mode])
     /\ \E w \in Requests[mode][Exec + 1].worlds,
           sel \in Requests[mode][Exec + 1].selections, run \in 1..Exec :
          Again(w, sel, run)

Spec == Init /\ [][Next]_vars

---------------------------------------------------------------------------
(* Properties *)

\* TYPE.  The shape of every variable.
TypeOK ==
  /\ mode \in Modes /\ worlds \in Seq(World)
  /\ planned \subseteq Names(Reg)
  /\ status \in [planned -> {"pending", "running", "succeeded", "skipped", "failed"}]
  /\ reason \in [planned -> STRING]
  /\ files \in [Files -> 0..Exec]
  /\ artifacts \in [Keys -> [file : Files \cup {"none"}, by : 0..Exec]]
  /\ Len(kept) = Exec - 1
  /\ context \in [Fields -> {"base", "task"}]
  /\ DOMAIN saved = planned

\* While a Stage runs, every setting its module reads from the shared context
\* is its task's, although other Stages set and restore theirs at the same time
\* under locks of their own; and when nothing runs nothing is left behind
\* (LegacyStageTaskRunner.__call__).
SettingsHeld ==
  /\ \A s \in Running : \A f \in ConfigReads(mode, s) : context[f] = "task"
  /\ Running = {} => \A f \in Fields : context[f] = "base"

\* What a running Stage verified stays true until it is over, and so does what it
\* reads besides: its inputs keep their bytes, the images are those of the bundle
\* it was given and no Stage that runs beside it writes a file it opens or writes
\* (the DAG of engine/defaults.py against the folder the Stages share).
InputsStay ==
  \A s \in Running :
    /\ Verified(s)
    /\ s \in {Captions, Ocr} => files["frames"] = artifacts["keyframe_images"].by
    /\ \A t \in Running \ {s} : Writes(t) \cap (Opens(s) \cup Writes(s)) = {}

\* Every output a finished Stage registered was written by this execution, and
\* its audio is a WAV exactly when the video has an audio stream: a file left
\* by the run of an earlier video is never published as this run's.
OwnOutputs ==
  \A s \in planned : Over(s) =>
    /\ \A k \in Reg.outputs[s] : artifacts[k].by = Exec
    /\ s = Audio => (artifacts["audio"].file = "wav") = Now.video.audio

\* The one undeclared input that decides a path: 06 and 07 look into audio.json.
AudioDocumentForeign == SaysAudio(files) # Now.video.audio

\* A Stage fails only when its own tool or service raised: whatever was skipped
\* before it, for whatever reason, and whatever an earlier run left in the
\* folder, its inputs verify and its outputs can be registered.  The exception
\* is a Stage run alone over the audio.json of another video.
SkipsStopNothing ==
  \A s \in Failed : s = Now.broken \/ (s \in {Stt, Diarize} /\ AudioDocumentForeign)

\* (violated) A plan whose boundary inputs are all there runs: it fails only
\* when a tool or service raises.
BoundarySuffices == \A s \in Failed : s = Now.broken

\* (violated) NO_SPEECH means that the VAD found no speech.
NoSpeechMeansNone ==
  \A s \in planned : reason[s] = "NO_SPEECH" => ~ SaysSpeech(files)

\* Every Stage works with its own task's settings and no setting survives its
\* Stage (with the shapes of all variables; LegacyStageTaskRunner.__call__).
Settled == TypeOK /\ SettingsHeld

\* What a Stage was given stays as it was verified until the Stage is over, and
\* what it registers is this execution's (_verify_inputs, _register).
OutputsTrue == InputsStay /\ OwnOutputs
=============================================================================
