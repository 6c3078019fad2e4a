--------------------------- MODULE LegacyBindings ---------------------------
(***************************************************************************)
(* The contracts of the real pipeline: the StageSpecs of engine/defaults.py, *)
(* the LegacyStageDefinitions of adapters/legacy_stages.py and the files and *)
(* settings the numbered Stage modules touch.  Two pipelines exist: the      *)
(* fourteen-Stage "default" one and the six-Stage "reprocess" one, which     *)
(* runs in a workspace of its own holding a copy of its source run.          *)
(*                                                                          *)
(* A file is named after the logical key it carries; further files are the   *)
(* WAV, the extracted frames and the frames of the source run.               *)
(***************************************************************************)
EXTENDS StagePlanner, TLC

\* The Stages, numbered as their names are sorted.
Probe == 1
Scenes == 2
Keyframes == 3
Audio == 4
EmbeddedText == 5
AudioEvents == 6
Vad == 7
Stt == 8
Diarize == 9
Captions == 10
Ocr == 11
Timeline == 12
Index == 13
Context == 14

DefaultDeps ==
  (Probe :> {}) @@ (Scenes :> {Probe}) @@ (Keyframes :> {Scenes})
    @@ (Audio :> {Probe}) @@ (EmbeddedText :> {Probe})
    @@ (AudioEvents :> {Audio}) @@ (Vad :> {Audio}) @@ (Stt :> {Audio, Vad})
    @@ (Diarize :> {Audio}) @@ (Captions :> {Keyframes})
    @@ (Ocr :> {Keyframes, Captions})
    @@ (Timeline :> {Scenes, Keyframes, EmbeddedText, AudioEvents, Stt,
                     Diarize, Captions, Ocr})
    @@ (Index :> {Timeline}) @@ (Context :> {Probe, Diarize, Timeline})

TimelineInputs == {"scenes", "keyframes", "embedded_text", "audio_events",
                   "transcript", "diarization", "captions", "ocr"}

DefaultRequires ==
  (Probe :> {"video"}) @@ (Scenes :> {"video", "metadata"})
    @@ (Keyframes :> {"video", "scenes"}) @@ (Audio :> {"video", "metadata"})
    @@ (EmbeddedText :> {"video", "metadata"})
    @@ (AudioEvents :> {"audio", "audio_metadata"})
    @@ (Vad :> {"audio", "audio_metadata"})
    @@ (Stt :> {"audio", "vad_segments"}) @@ (Diarize :> {"audio"})
    @@ (Captions :> {"keyframes", "keyframe_images"})
    @@ (Ocr :> {"keyframes", "keyframe_images", "captions"})
    @@ (Timeline :> TimelineInputs) @@ (Index :> {"timeline"})
    @@ (Context :> {"metadata", "diarization", "timeline"})

\* The outputs of each Stage, the same in both pipelines.
Outputs ==
  (Probe :> {"metadata"}) @@ (Scenes :> {"scenes", "scene_stats"})
    @@ (Keyframes :> {"keyframes", "keyframe_images"})
    @@ (Audio :> {"audio", "audio_metadata"})
    @@ (EmbeddedText :> {"embedded_text"}) @@ (AudioEvents :> {"audio_events"})
    @@ (Vad :> {"vad_segments"}) @@ (Stt :> {"transcript"})
    @@ (Diarize :> {"diarization"}) @@ (Captions :> {"captions"})
    @@ (Ocr :> {"ocr"}) @@ (Timeline :> {"timeline", "timeline_markdown"})
    @@ (Index :> {"search_index", "index_summary"})
    @@ (Context :> {"context", "context_json"})

\* DEFAULT_STAGE_SPECS, create_default_registry
DefaultRegistry ==
  [deps |-> DefaultDeps, requires |-> DefaultRequires, outputs |-> Outputs,
   external |-> {"video"}]

ReprocessingDeps ==
  (Keyframes :> {}) @@ (Captions :> {Keyframes})
    @@ (Ocr :> {Keyframes, Captions}) @@ (Timeline :> {Keyframes, Captions, Ocr})
    @@ (Index :> {Timeline}) @@ (Context :> {Timeline})

\* REPROCESSING_STAGE_SPECS, REPROCESSING_EXTERNAL_INPUTS,
\* create_reprocessing_registry
ReprocessingRegistry ==
  [deps |-> ReprocessingDeps,
   requires |->
     [s \in DOMAIN ReprocessingDeps |->
        DefaultRequires[s] \cup
          CASE s = Keyframes -> {"source_keyframes", "source_keyframe_images"}
            [] s = Captions -> {"source_captions"}
            [] s = Ocr -> {"source_ocr"}
            [] OTHER -> {}],
   outputs |-> [s \in DOMAIN ReprocessingDeps |-> Outputs[s]],
   external |-> {"video", "metadata", "scenes", "embedded_text", "audio_events",
                 "transcript", "diarization", "source_keyframes",
                 "source_keyframe_images", "source_captions", "source_ocr"}]

Modes == {"default", "reprocess"}

\* The logical keys each pipeline knows
KeysOf ==
  [m \in Modes |->
     LET reg == IF m = "default" THEN DefaultRegistry ELSE ReprocessingRegistry
     IN UNION {reg.requires[s] \cup reg.outputs[s] : s \in Names(reg)}]

Registry(mode) ==
  IF mode = "default" THEN DefaultRegistry ELSE ReprocessingRegistry

OverlayFields == {"source_run_id", "profile", "scene_ids", "overlay_policy"}

\* config_fields of the LegacyStageDefinitions (the six settings of the audio
\* events and the five of the OCR always go together): _media_definitions,
MediaFields ==
  (Scenes :> {"scene_threshold", "min_scene_len_frames"})
    @@ (Keyframes :> {"keyframes_per_scene"})

\* _model_definitions, without 10_index,
ModelFields ==
  (Vad :> {"vad_min_silence_ms", "vad_speech_pad_ms"})
    @@ (AudioEvents :> {"audio_event_settings"})
    @@ (Stt :> {"stt_merge_gap_sec", "language", "whisper_model"})
    @@ (Diarize :> {"diarize_model"}) @@ (Captions :> {"caption_model"})
    @@ (Ocr :> {"ocr_settings"})

\* and _legacy_final_definitions.
FinalFields ==
  (Index :> {"embed_model"})
    @@ (Context :> {"max_context_tokens", "context_tokenizer_model"})

OwnFields(s) ==
  LET fields == MediaFields @@ ModelFields @@ FinalFields
  IN IF s \in DOMAIN fields THEN fields[s] ELSE {}

\* _reprocessing_definitions adds the settings of the overlay.
ConfigFields(mode, s) ==
  OwnFields(s)
    \cup IF mode = "reprocess" /\ s # Index THEN OverlayFields ELSE {}

\* The Stage modules that look for the overlay settings in the shared
\* PipelineContext (selected_scene_ids and provenance)
OverlayReaders == {Keyframes, Captions, Ocr, Timeline, Context}

\* The settings a Stage module takes from the PipelineContext.  In the default
\* pipeline the overlay settings have no task value: everybody finds None.
ConfigReads(mode, s) ==
  OwnFields(s)
    \cup IF mode = "reprocess" /\ s \in OverlayReaders THEN OverlayFields ELSE {}

Fields == UNION {ConfigReads("reprocess", s) : s \in 1..14}
=============================================================================
