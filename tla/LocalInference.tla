--------------------------- MODULE LocalInference ---------------------------
(***************************************************************************)
(* One model behind one local provider (inference/local/*.py), asked by the  *)
(* services of pipeline Stages and queries through the InferenceGateway and  *)
(* by clients of the model server, who choose their idempotency keys.        *)
(*                                                                          *)
(* The seven providers are one machine: infer() puts _infer_sync on a thread *)
(* that holds the inference lock from the lookup of the idempotency key to   *)
(* the store of the response; they differ in the steps between.  A caller    *)
(* that stops waiting leaves its thread behind, which finishes all the same. *)
(*                                                                          *)
(* An input is a sequence of items (texts, images, chunks, windows), the     *)
(* answer to it the sequence of the items' answers, which stand for the      *)
(* items themselves.                                                         *)
(***************************************************************************)
EXTENDS Integers, SequencesExt

CONSTANTS
  Services,     \* callers behind the gateway that use asyncio.run: the Stages
  Queries,      \* callers behind the gateway inside an event loop
  Clients,      \* callers of the model server
  Kinds,        \* the providers looked at
  Inputs,       \* bound: what may be asked of each provider
  ProviderMax,  \* max_batch_size (16, 32, 128, 256 ... in the code)
  ServiceMax,   \* the configured batch size
  MaxResponses, \* size of the response cache, 256 in the code
  MaxCalls,     \* bound: number of calls
  MaxFailures   \* bound: number of steps that fail

Callers == Services \cup Queries \cup Clients
AllKinds == {"embedding", "caption", "stt", "vad", "diarization", "audio_event", "ocr"}
Single == {"vad", "diarization"}     \* one audio artifact, never a list

ASSUME LocalInferenceAssumption ==
  /\ Kinds \subseteq AllKinds
  /\ \A k \in Kinds : \A input \in Inputs[k] : input \in Seq(ToSet(input)) \ {<<>>}
  /\ \A k \in Kinds \cap Single : \A input \in Inputs[k] : Len(input) = 1
  /\ "free" \notin Callers
  /\ ProviderMax \in Nat \ {0} /\ ServiceMax \in Nat \ {0}
  /\ MaxResponses \in Nat \ {0} /\ MaxCalls \in Nat /\ MaxFailures \in Nat

VARIABLES
  kind,       \* the provider
  call,       \* caller -> [pc, input, got, model]: the service's call
  thread,     \* caller -> [at, step, key, items, result, answer]: its _infer_sync
  lock,       \* holder of _inference_lock, or Free
  responses,  \* _responses, oldest first: [key, items, model]
  loaded,     \* _model is set (for OCR: _version is resolved and found)
  revision,   \* effective_revision
  loadError,  \* _load_error is set (for OCR: the command was not found)
  calls, failures

vars == <<kind, call, thread, lock, responses, loaded, revision, loadError, calls,
          failures>>

Free == "free"
NoCall == [pc |-> "idle", input |-> <<>>, got |-> <<>>, model |-> "none"]
NoAnswer == [items |-> <<>>, model |-> "none"]
NoThread == [at |-> "none", step |-> 0, key |-> <<>>, items |-> <<>>,
             result |-> "none", answer |-> NoAnswer]

---------------------------------------------------------------------------
(* What the services ask for *)

Smaller(a, b) == IF a < b THEN a ELSE b

\* input[start : start + size]
Cut(input, start, size) ==
  SubSeq(input, start + 1, Smaller(start + size, Len(input)))

\* EmbeddingService and STTService send everything at once, VADService and
\* DiarizationService have one artifact to send.
EmbeddingRequest(input, start) == input
SttRequest(input, start) == input
VadRequest(input, start) == input
DiarizationRequest(input, start) == input

\* CaptionService, OCRService and AudioEventService cut the input into ordered
\* batches no larger than the provider's maximum and the configured size.
CaptionRequest(input, start) == Cut(input, start, Smaller(ProviderMax, ServiceMax))
OcrRequest(input, start) == Cut(input, start, Smaller(ProviderMax, ServiceMax))
AudioEventRequest(input, start) == Cut(input, start, Smaller(ProviderMax, ServiceMax))

\* The request that begins with item start + 1
RequestFrom(input, start) ==
  CASE kind = "embedding" -> EmbeddingRequest(input, start)
    [] kind = "stt" -> SttRequest(input, start)
    [] kind = "vad" -> VadRequest(input, start)
    [] kind = "diarization" -> DiarizationRequest(input, start)
    [] kind = "caption" -> CaptionRequest(input, start)
    [] kind = "ocr" -> OcrRequest(input, start)
    [] kind = "audio_event" -> AudioEventRequest(input, start)

---------------------------------------------------------------------------
(* What the providers do under the lock once the request is validated.  Each
   step may fail; "load" is _get_model, which sets _model, and "name" the
   assignment of effective_revision that follows it. *)

EmbeddingSteps(items) == <<"load", "name", "run">>
CaptionSteps(items) == [n \in 1..Len(items) |-> "read"] \o <<"load", "name", "run">>
SttSteps(items) == <<"read", "cut", "load", "name", "run">>
VadSteps(items) == <<"verify", "load", "name", "read", "run">>
DiarizationSteps(items) == <<"credential", "verify", "load", "name", "run">>
AudioEventSteps(items) == <<"read", "cut", "load", "name", "run">>
\* The version stands for the model; every image is read and recognized in turn.
OcrSteps(items) ==
  <<"load">> \o [n \in 1..(2 * Len(items)) |-> IF n % 2 = 1 THEN "read" ELSE "run"]

StepsFor(items) ==
  CASE kind = "embedding" -> EmbeddingSteps(items)
    [] kind = "caption" -> CaptionSteps(items)
    [] kind = "stt" -> SttSteps(items)
    [] kind = "vad" -> VadSteps(items)
    [] kind = "diarization" -> DiarizationSteps(items)
    [] kind = "audio_event" -> AudioEventSteps(items)
    [] kind = "ocr" -> OcrSteps(items)

---------------------------------------------------------------------------
(* Calls *)

Init ==
  /\ kind \in Kinds
  /\ call = [c \in Callers |-> NoCall]
  /\ thread = [c \in Callers |-> NoThread]
  /\ lock = Free /\ responses = <<>>
  /\ loaded = FALSE /\ revision = "requested" /\ loadError = FALSE
  /\ calls = 0 /\ failures = 0

Provider == <<kind, lock, responses, loaded, revision, loadError, failures>>
Ended(c) == call[c].pc \in {"ok", "failed", "refused", "timeout"}

\* A service is called: a Stage calls it once, a query service again and again.
Call(c, input) ==
  /\ call[c].pc = "idle" \/ Ended(c)
  /\ thread[c] = NoThread /\ calls < MaxCalls
  /\ calls' = calls + 1
  /\ call' = [call EXCEPT ![c] = [NoCall EXCEPT !.pc = "asking", !.input = input]]
  /\ UNCHANGED <<thread, Provider>>

Finish(c, how) == call' = [call EXCEPT ![c].pc = how]

\* The next request that is not answered yet: every answer kept is one item's.
NextRequest(c) == RequestFrom(call[c].input, Len(call[c].got))

\* InferenceGateway.infer: a list longer than the provider's maximum is refused,
\* anything else handed to provider.infer, which starts a thread.
Ask(c) ==
  /\ c \notin Clients /\ call[c].pc = "asking"
  /\ LET items == NextRequest(c)
     IN IF kind \notin Single /\ Len(items) > ProviderMax
        THEN Finish(c, "refused") /\ UNCHANGED thread
        ELSE /\ call' = [call EXCEPT ![c].pc = "waiting"]
             /\ thread' = [thread EXCEPT ![c] =
                             [NoThread EXCEPT !.at = "queued", !.key = items, !.items = items]]
  /\ UNCHANGED <<calls, Provider>>

\* A job of the model server calls provider.infer itself, with the client's key.
AskWithKey(c, key) ==
  /\ c \in Clients /\ call[c].pc = "asking"
  /\ call' = [call EXCEPT ![c].pc = "waiting"]
  /\ thread' = [thread EXCEPT ![c] =
                  [NoThread EXCEPT !.at = "queued", !.key = key, !.items = call[c].input]]
  /\ UNCHANGED <<calls, Provider>>

---------------------------------------------------------------------------
(* _infer_sync *)

\* (mutant) whoever used the key before gets the answer
SameRequestByKey(entry, c) == TRUE

\* Was the stored response computed for this request's fingerprint?
SameRequest(entry, c) == entry.items = thread[c].items

AnswerOf(entry) == [items |-> entry.items, model |-> entry.model]
Stored(key) == {entry \in ToSet(responses) : entry.key = key}

\* (mutant) a key conflict returns without releasing the lock
HolderOnRefusal(c) == c

\* Who holds the lock when the lookup or the validation ends the request
Holder(c) == Free

\* The thread enters the lock and looks the key up: a stored response is
\* returned, a key used for something else or a batch too large refused.
Enter(c) ==
  /\ thread[c].at = "queued" /\ lock = Free
  /\ LET stored == Stored(thread[c].key)
         result == IF \E e \in stored : SameRequest(e, c) THEN "stored"
                   ELSE IF stored # {} \/ (kind \notin Single /\ Len(thread[c].items) > ProviderMax)
                   THEN "refused" ELSE "none"
     IN IF result = "none"
        THEN /\ lock' = c
             /\ thread' = [thread EXCEPT ![c].at = "busy", ![c].step = 1]
        ELSE /\ lock' = IF result = "refused" THEN Holder(c) ELSE Free
             /\ thread' = [thread EXCEPT
                             ![c].at = "done", ![c].result = result,
                             ![c].answer = IF result = "refused" THEN NoAnswer
                                           ELSE AnswerOf(CHOOSE e \in stored : SameRequest(e, c))]
  /\ UNCHANGED <<kind, call, responses, loaded, revision, loadError, calls, failures>>

StepOf(c) == StepsFor(thread[c].items)[thread[c].step]

LoadErrorAfter == FALSE

Advance(c) == thread' = [thread EXCEPT ![c].step = @ + 1]

\* A step that succeeds.  The version of the OCR command is looked up once, and
\* for good: not found then, or gone when it was run, it is not looked up again.
Proceed(c) ==
  /\ thread[c].at = "busy" /\ lock = c
  /\ thread[c].step < Len(StepsFor(thread[c].items))
  /\ kind = "ocr" /\ StepOf(c) = "load" => loaded \/ ~ loadError
  /\ loaded' = (loaded \/ StepOf(c) = "load")
  /\ revision' = IF StepOf(c) = "name" \/ (kind = "ocr" /\ StepOf(c) = "load")
                 THEN "effective" ELSE revision
  /\ loadError' = IF StepOf(c) = "name" THEN LoadErrorAfter ELSE loadError
  /\ Advance(c)
  /\ UNCHANGED <<kind, call, lock, responses, calls, failures>>

\* A step that fails ends the request; nothing is stored.
Fail(c) ==
  /\ thread[c].at = "busy" /\ lock = c
  /\ StepOf(c) # "name" /\ ~ (StepOf(c) = "load" /\ loaded)
  /\ \/ failures < MaxFailures /\ failures' = failures + 1
     \/ kind = "ocr" /\ StepOf(c) = "load" /\ loadError /\ UNCHANGED failures
  /\ \/ /\ kind = "ocr" /\ StepOf(c) = "run"      \* FileNotFoundError
        /\ loaded' = FALSE /\ loadError' = TRUE
     \/ /\ loadError' = (loadError \/ StepOf(c) = "load")
        /\ UNCHANGED loaded
  /\ lock' = Free
  /\ thread' = [thread EXCEPT ![c].at = "done", ![c].result = "failed"]
  /\ UNCHANGED <<kind, call, responses, revision, calls>>

\* (mutant) the response is kept only for a caller that still waits for it
StoredIfAwaited(c, entry) ==
  IF call[c].pc # "waiting" THEN responses
  ELSE Append(IF Len(responses) >= MaxResponses THEN Tail(responses) ELSE responses, entry)

\* _cache_response: the oldest response makes room.
StoredAfter(c, entry) ==
  Append(IF Len(responses) >= MaxResponses THEN Tail(responses) ELSE responses, entry)

\* The last step succeeds: the response is stored and the lock released.
Complete(c) ==
  /\ thread[c].at = "busy" /\ lock = c
  /\ thread[c].step = Len(StepsFor(thread[c].items))
  /\ LET entry == [key |-> thread[c].key, items |-> thread[c].items, model |-> revision]
     IN /\ responses' = StoredAfter(c, entry)
        /\ thread' = [thread EXCEPT ![c].at = "done", ![c].result = "stored",
                                    ![c].answer = AnswerOf(entry)]
  /\ lock' = Free
  /\ UNCHANGED <<kind, call, loaded, revision, loadError, calls, failures>>

---------------------------------------------------------------------------
(* Back to the caller *)

\* The response is back in time: a batch is kept if it is complete and of the
\* same model as the batches before, a client takes whatever it gets.
Receive(c) ==
  LET result == thread[c].result
      answer == thread[c].answer
      got == call[c].got \o answer.items
      sound == /\ Len(answer.items) = Len(thread[c].items)
               /\ call[c].model \in {"none", answer.model}
  IN /\ call[c].pc = "waiting" /\ thread[c].at = "done"
     /\ thread' = [thread EXCEPT ![c] = NoThread]
     /\ IF result = "stored" /\ (sound \/ c \in Clients)
        THEN call' = [call EXCEPT
               ![c].got = got, ![c].model = answer.model,
               ![c].pc = IF c \in Clients \/ Len(got) = Len(call[c].input)
                         THEN "ok" ELSE "asking"]
        ELSE Finish(c, IF result = "refused" THEN "refused" ELSE "failed")
     /\ UNCHANGED <<calls, Provider>>

\* The deadline passes, between two batches or while the caller waits.  asyncio.run
\* joins the threads of its loop before it raises, so a Stage waits on.
Expire(c) ==
  /\ \/ call[c].pc = "asking" /\ call[c].got # <<>> /\ Finish(c, "timeout")
     \/ call[c].pc = "waiting" /\ Finish(c, IF c \in Services THEN "late" ELSE "timeout")
  /\ UNCHANGED <<thread, calls, Provider>>

\* A thread nobody waits for ends; the Stage that joined it gets its timeout.
Join(c) ==
  /\ thread[c].at = "done" /\ call[c].pc # "waiting"
  /\ thread' = [thread EXCEPT ![c] = NoThread]
  /\ IF call[c].pc = "late" THEN Finish(c, "timeout") ELSE UNCHANGED call
  /\ UNCHANGED <<calls, Provider>>

Compute(c) == Proceed(c) \/ Fail(c) \/ Complete(c)

Next ==
  \E c \in Callers :
    \/ \E input \in Inputs[kind] : Call(c, input)
    \/ Ask(c)
    \/ \E key \in Inputs[kind] : AskWithKey(c, key)
    \/ Enter(c) \/ Proceed(c) \/ Fail(c) \/ Complete(c)
    \/ Receive(c) \/ Expire(c) \/ Join(c)

\* A thread that can go on does, models and tools answer in the end, and the
\* event loops run what is ready.
Fairness ==
  \A c \in Callers :
    /\ WF_vars(Ask(c) \/ \E key \in Inputs[kind] : AskWithKey(c, key))
    /\ WF_vars(Enter(c)) /\ WF_vars(Compute(c))
    /\ WF_vars(Receive(c)) /\ WF_vars(Join(c))

Spec == Init /\ [][Next]_vars /\ Fairness

---------------------------------------------------------------------------
(* Properties *)

\* TYPE.  The shape of every variable.
TypeOK ==
  /\ kind \in Kinds /\ lock \in Callers \cup {Free}
  /\ \A c \in Callers :
       /\ call[c].pc \in {"idle", "asking", "waiting", "late", "ok", "failed", "refused",
                         "timeout"}
       /\ call[c].input \in Inputs[kind] \cup {<<>>}
       /\ thread[c].at \in {"none", "queued", "busy", "done"}
       /\ thread[c].result \in {"none", "stored", "refused", "failed"}
       /\ thread[c].step \in Nat
  /\ Len(responses) <= MaxResponses
  /\ loaded \in BOOLEAN /\ loadError \in BOOLEAN /\ revision \in {"requested", "effective"}
  /\ calls \in 0..MaxCalls /\ failures \in 0..MaxFailures

\* A call that succeeds got the answers to its own items, in their order, however
\* they were cut into batches, found among stored responses or computed, whatever
\* keys the clients of the same provider use; and all of one model, the one
\* that was really loaded (_infer_sync, caption_async and its likes).
AnswersWhatWasAsked ==
  \A c \in Callers : call[c].pc = "ok" =>
    call[c].got = call[c].input /\ call[c].model = "effective"

\* No request is computed while its response is at hand, and what was computed
\* is kept although its caller gave up: a retry after a timeout finds the
\* response unless enough others pushed it out (_infer_sync, _cache_response).
WorkDoneOnce ==
  \A c \in Callers :
    /\ thread[c].at = "busy" => Stored(thread[c].key) = {}
    /\ (thread[c].at = "done" /\ thread[c].result = "stored") =>
         Stored(thread[c].key) # {} \/ Len(responses) = MaxResponses

\* health() says unavailable only while there is no model: a failed load is
\* forgotten as soon as a later one succeeds (_get_model, health).
HealthTruthful == loadError => ~ loaded \/ \E c \in Callers : lock = c /\ StepOf(c) = "name"

\* Every call ends, with an answer, a failure or a timeout, although callers
\* give up and leave their threads in front of the lock.
CallsEnd == \A c \in Callers : call[c].pc = "asking" ~> Ended(c)

\* (violated) A service cuts what it sends to what its provider takes: nothing
\* the Stages ask for is refused for its length.
NothingTooLong == \A c \in Services \cup Queries : call[c].pc # "refused"

\* Whoever gets an answer gets the one to the question asked (with the shapes of
\* all variables; the batching services over the providers).
AnswersSound == TypeOK /\ AnswersWhatWasAsked

\* The provider's memory tells the truth about its work: responses are computed
\* once, and health() speaks of the model that is there.
ProviderStateTrue == WorkDoneOnce /\ HealthTruthful
=============================================================================
