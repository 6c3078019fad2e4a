------------------------- MODULE LocalInferenceProofs -------------------------
(***************************************************************************)
(* Proofs about LocalInference for any callers, any of the seven providers, *)
(* any inputs, batch sizes and cache sizes, and any number of failures.      *)
(***************************************************************************)
EXTENDS LocalInference, SequenceTheorems, TLAPS

Items == UNION {UNION {ToSet(input) : input \in Inputs[k]} : k \in Kinds}
Models == {"none", "requested", "effective"}
Answers == [items : Seq(Items), model : Models]
CallRecords ==
  [pc : {"idle", "asking", "waiting", "late", "ok", "failed", "refused", "timeout"},
   input : Seq(Items), got : Seq(Items), model : Models]
ThreadRecords ==
  [at : {"none", "queued", "busy", "done"}, step : Nat, key : Seq(Items),
   items : Seq(Items), result : {"none", "stored", "refused", "failed"},
   answer : Answers]
Entries == [key : Seq(Items), items : Seq(Items), model : {"effective"}]

\* Records and sequences have their shapes; what is stored is of the loaded model.
ShapeOK ==
  /\ kind \in Kinds /\ lock \in Callers \cup {Free}
  /\ call \in [Callers -> CallRecords]
  /\ thread \in [Callers -> ThreadRecords]
  /\ responses \in Seq(Entries) /\ Len(responses) <= MaxResponses
  /\ loaded \in BOOLEAN /\ loadError \in BOOLEAN
  /\ revision \in {"requested", "effective"}
  /\ calls \in 0..MaxCalls /\ failures \in 0..MaxFailures

Steps(c) == StepsFor(thread[c].items)

\* The thread has been through the step that names the model.
PastNaming(c) ==
  \E n \in 1..(thread[c].step - 1) :
     Steps(c)[n] = "name" \/ (kind = "ocr" /\ Steps(c)[n] = "load")

\* A thread: it computes only in the lock, nothing is stored under its key by
\* then, and what it found or computed is the answer to its items.
ThreadOK(c) ==
  /\ thread[c].at = "none" => thread[c] = NoThread
  /\ thread[c].at # "none" => thread[c].items # <<>>
  /\ thread[c].at = "busy" <=> lock = c
  /\ thread[c].at = "busy" =>
       /\ thread[c].step \in 1..Len(Steps(c)) /\ Stored(thread[c].key) = {}
       /\ PastNaming(c) => revision = "effective"
  /\ thread[c].at = "done" /\ thread[c].result = "stored" =>
       /\ thread[c].answer.items = thread[c].items /\ thread[c].answer.model = "effective"
       /\ Stored(thread[c].key) # {} \/ Len(responses) = MaxResponses

\* The services that send their input in batches
Cutting == {"caption", "ocr", "audio_event"}

\* A call under way has the answers to the first items of its input, and its
\* thread works on what comes next.
CallOK(c) ==
  /\ call[c].input \in Inputs[kind] \cup {<<>>}
  /\ call[c].pc \in {"asking", "waiting"} =>
       /\ call[c].input \in Inputs[kind]
       /\ call[c].got = SubSeq(call[c].input, 1, Len(call[c].got))
       /\ Len(call[c].got) < Len(call[c].input)
       /\ c \in Clients \/ kind \notin Cutting => call[c].got = <<>>
  /\ call[c].pc = "asking" => thread[c].at = "none"
  /\ call[c].pc = "waiting" =>
       /\ thread[c].at # "none"
       /\ thread[c].items = IF c \in Clients THEN call[c].input ELSE NextRequest(c)
  /\ call[c].pc = "ok" => call[c].got = call[c].input /\ call[c].model = "effective"

\* A failed load is remembered beside a model only until the model is named.
LoadErrorTransient ==
  loadError /\ loaded =>
    kind # "ocr" /\ \E c \in Callers : lock = c /\ StepOf(c) = "name"

\* The inductive invariant.
IInv == ShapeOK /\ LoadErrorTransient /\ \A c \in Callers : ThreadOK(c) /\ CallOK(c)
-----------------------------------------------------------------------------
\* Inputs are sequences of items, and not empty.
LEMMA InputFacts ==
  ASSUME kind \in Kinds, NEW input \in Inputs[kind]
  PROVE  input \in Seq(Items) /\ input # <<>> /\ Len(input) \in Nat \ {0}
  <1>1. input \in Seq(ToSet(input)) /\ input # <<>>
    BY LocalInferenceAssumption
  <1>2. ToSet(input) \subseteq Items
    BY DEF Items
  <1>3. Len(input) \in Nat /\ DOMAIN input = 1..Len(input) /\ Len(input) # 0
    BY <1>1
  <1>4. \A n \in 1..Len(input) : input[n] \in Items
    BY <1>1, <1>2, <1>3
  <1>5. input = [n \in 1..Len(input) |-> input[n]]
    BY <1>1
  <1>6. input \in Seq(Items)
    BY <1>3, <1>4, <1>5
  <1> QED BY <1>1, <1>3, <1>6

\* Every provider loads before its last step, and all but OCR name the model
\* in the step after.
LEMMA StepsShape ==
  ASSUME kind \in Kinds, NEW items \in Seq(Items), items # <<>>
  PROVE  /\ Len(StepsFor(items)) \in Nat /\ Len(StepsFor(items)) >= 3
         /\ kind = "ocr" => /\ StepsFor(items)[1] = "load"
                            /\ \A n \in 2..Len(StepsFor(items)) :
                                 StepsFor(items)[n] \in {"read", "run"}
         /\ kind # "ocr" =>
              \E p \in 1..(Len(StepsFor(items)) - 2) :
                 /\ StepsFor(items)[p] = "load" /\ StepsFor(items)[p + 1] = "name"
                 /\ \A n \in 1..Len(StepsFor(items)) : n \notin {p, p + 1} =>
                      StepsFor(items)[n] \notin {"load", "name"}
  <1> DEFINE S == StepsFor(items)
             k == Len(items)
  <1>1. k \in Nat /\ k >= 1
    BY DEF Items
  <1>2. CASE kind = "embedding"
    <2>1. S = <<"load", "name", "run">>
      BY <1>2 DEF StepsFor, EmbeddingSteps
    <2> QED BY <1>2, <2>1
  <1>3. CASE kind \in {"stt", "audio_event"}
    <2>1. S = <<"read", "cut", "load", "name", "run">>
      BY <1>3 DEF StepsFor, SttSteps, AudioEventSteps
    <2> QED BY <1>3, <2>1
  <1>4. CASE kind = "vad"
    <2>1. S = <<"verify", "load", "name", "read", "run">>
      BY <1>4 DEF StepsFor, VadSteps
    <2> QED BY <1>4, <2>1
  <1>5. CASE kind = "diarization"
    <2>1. S = <<"credential", "verify", "load", "name", "run">>
      BY <1>5 DEF StepsFor, DiarizationSteps
    <2> QED BY <1>5, <2>1
  <1>6. CASE kind = "caption"
    <2> DEFINE T == [n \in 1..k |-> "read"]
    <2>1. S = T \o <<"load", "name", "run">>
      BY <1>6 DEF StepsFor, CaptionSteps
    <2>2. T \in Seq({"read"}) /\ Len(T) = k
      BY <1>1
    <2>3. /\ Len(S) = k + 3
          /\ \A n \in 1..k : S[n] = "read"
          /\ S[k + 1] = "load" /\ S[k + 2] = "name" /\ S[k + 3] = "run"
      BY <1>1, <2>1, <2>2
    <2> HIDE DEF S, T, k
    <2> QED BY <1>1, <1>6, <2>3 DEF S
  <1>7. CASE kind = "ocr"
    <2> DEFINE T == [n \in 1..(2 * k) |-> IF n % 2 = 1 THEN "read" ELSE "run"]
    <2>1. S = <<"load">> \o T
      BY <1>7 DEF StepsFor, OcrSteps
    <2>2. /\ T \in Seq({"read", "run"}) /\ Len(T) = 2 * k
          /\ \A n \in 1..(2 * k) : T[n] \in {"read", "run"}
      BY <1>1
    <2>3. /\ Len(S) = 2 * k + 1 /\ S[1] = "load"
          /\ \A n \in 2..Len(S) : S[n] = T[n - 1]
      BY <1>1, <2>1, <2>2
    <2> HIDE DEF S, T, k
    <2> QED BY <1>1, <1>7, <2>2, <2>3 DEF S
  <1> QED BY <1>2, <1>3, <1>4, <1>5, <1>6, <1>7, LocalInferenceAssumption DEF AllKinds
-----------------------------------------------------------------------------
(***************************************************************************)
(* What the steps have in common.                                           *)
(***************************************************************************)
\* The provider of a run is always the same one.
LEMMA KindKept ==
  ASSUME kind' = kind, NEW c \in Callers
  PROVE  /\ Steps(c)' = StepsFor(thread'[c].items)
         /\ StepOf(c)' = StepsFor(thread'[c].items)[thread'[c].step]
         /\ NextRequest(c)' = RequestFrom(call'[c].input, Len(call'[c].got))
  <1>1. StepsFor(thread[c].items)' = StepsFor(thread'[c].items)
    BY DEF StepsFor, EmbeddingSteps, CaptionSteps, SttSteps, VadSteps, DiarizationSteps,
           AudioEventSteps, OcrSteps
  <1>2. NextRequest(c)' = RequestFrom(call'[c].input, Len(call'[c].got))
    BY DEF NextRequest, RequestFrom, EmbeddingRequest, SttRequest, VadRequest,
           DiarizationRequest, CaptionRequest, OcrRequest, AudioEventRequest, Cut
  <1> QED BY <1>1, <1>2 DEF Steps, StepOf

\* What the provider keeps for others, whoever makes the step.
OthersKept(d) ==
  /\ kind' = kind /\ (lock' = d) = (lock = d)
  /\ thread[d].at = "busy" => responses' = responses
  /\ revision = "effective" => revision' = "effective"
  /\ \A key \in Seq(Items) : Stored(key) # {} \/ Len(responses) = MaxResponses =>
                             Stored(key)' # {} \/ Len(responses') = MaxResponses

LEMMA ThreadFrame ==
  ASSUME ShapeOK, NEW d \in Callers, ThreadOK(d), thread'[d] = thread[d], OthersKept(d)
  PROVE  ThreadOK(d)'
  <1>1. Steps(d)' = Steps(d) /\ PastNaming(d)' = PastNaming(d)
    BY KindKept DEF Steps, PastNaming, OthersKept
  <1>2. thread[d].key \in Seq(Items)
    BY DEF ShapeOK, ThreadRecords
  <1>3. thread[d].at = "busy" => Stored(thread[d].key)' = Stored(thread[d].key)
    BY DEF OthersKept, Stored
  <1>4. Stored(thread[d].key)' = {e \in ToSet(responses') : e.key = thread[d].key}
    BY DEF Stored
  <1>5. \A key \in Seq(Items) : Stored(key)' = {e \in ToSet(responses') : e.key = key}
    BY DEF Stored
  <1>6. Stored(thread[d].key) # {} \/ Len(responses) = MaxResponses =>
          Stored(thread[d].key)' # {} \/ Len(responses') = MaxResponses
    BY <1>2, <1>4, <1>5 DEF OthersKept
  <1> QED BY <1>1, <1>3, <1>6 DEF ThreadOK, OthersKept

LEMMA CallFrame ==
  ASSUME NEW d \in Callers, CallOK(d), kind' = kind, call'[d] = call[d],
         call[d].pc \in {"asking", "waiting"} =>
           /\ (thread'[d].at = "none") = (thread[d].at = "none")
           /\ thread'[d].items = thread[d].items
  PROVE  CallOK(d)'
  <1>1. NextRequest(d)' = NextRequest(d)
    BY KindKept DEF NextRequest
  <1> QED BY <1>1 DEF CallOK

\* Steps outside of the lock leave the provider as it is.
LEMMA OutsideTheLock ==
  ASSUME IInv, UNCHANGED Provider, NEW c \in Callers,
         calls' \in 0..MaxCalls,
         call' \in [Callers -> CallRecords], thread' \in [Callers -> ThreadRecords],
         \A d \in Callers \ {c} : call'[d] = call[d] /\ thread'[d] = thread[d],
         thread[c].at # "busy" \/ thread'[c] = thread[c],
         ThreadOK(c)', CallOK(c)'
  PROVE  IInv'
  <1>1. UNCHANGED <<kind, lock, responses, loaded, revision, loadError, failures>>
    BY DEF Provider
  <1>2. ShapeOK'
    BY <1>1 DEF IInv, ShapeOK
  <1>3. ASSUME NEW d \in Callers, d # c
        PROVE  ThreadOK(d)' /\ CallOK(d)'
    <2>1. OthersKept(d)
      BY <1>1 DEF OthersKept, Stored
    <2> QED BY <1>1, <1>3, <2>1, ThreadFrame, CallFrame DEF IInv
  <1>4. LoadErrorTransient'
    <2> SUFFICES ASSUME loadError, loaded
                 PROVE  /\ kind # "ocr"
                        /\ \E d \in Callers : lock = d /\ StepOf(d)' = "name"
      BY <1>1 DEF LoadErrorTransient
    <2>1. PICK d \in Callers : lock = d /\ StepOf(d) = "name"
      BY DEF IInv, LoadErrorTransient
    <2>2. thread[d].at = "busy"
      BY <2>1 DEF IInv, ThreadOK
    <2>3. thread'[d] = thread[d]
      BY <2>2
    <2>4. StepOf(d)' = "name"
      BY <1>1, <2>1, <2>3, KindKept DEF StepOf
    <2> QED BY <2>1, <2>4 DEF IInv, LoadErrorTransient
  <1> QED BY <1>2, <1>3, <1>4 DEF IInv

LEMMA NoThreadOK ==
  ASSUME ShapeOK, NEW c \in Callers, thread'[c] = NoThread, lock # c, UNCHANGED <<kind, lock>>
  PROVE  ThreadOK(c)'
  BY DEF ThreadOK, NoThread

LEMMA NoThreadTyped == NoThread \in ThreadRecords
  <1>1. <<>> \in Seq(Items)
    OBVIOUS
  <1>2. NoAnswer \in Answers
    BY <1>1 DEF NoAnswer, Answers, Models
  <1> QED BY <1>1, <1>2 DEF NoThread, ThreadRecords
-----------------------------------------------------------------------------
(***************************************************************************)
(* The actions.                                                             *)
(***************************************************************************)
LEMMA CallKeeps ==
  ASSUME IInv, NEW c \in Callers, NEW input \in Inputs[kind], Call(c, input)
  PROVE  IInv'
  <1> DEFINE new == [NoCall EXCEPT !.pc = "asking", !.input = input]
  <1>1. /\ thread[c] = NoThread /\ calls < MaxCalls /\ calls' = calls + 1
        /\ call' = [call EXCEPT ![c] = new] /\ UNCHANGED <<thread, Provider>>
    BY DEF Call
  <1>2. kind \in Kinds
    BY DEF IInv, ShapeOK
  <1>3. input \in Seq(Items) /\ Len(input) \in Nat \ {0}
    BY <1>2, InputFacts
  <1>4. new \in CallRecords /\ new.pc = "asking" /\ new.input = input /\ new.got = <<>>
    <2>1. NoCall \in CallRecords /\ NoCall.got = <<>>
      BY EmptySeq DEF NoCall, CallRecords, Models
    <2> HIDE DEF CallRecords
    <2>2. new \in CallRecords
      BY ONLY <1>3, <2>1 DEF CallRecords
    <2> QED BY <2>1, <2>2 DEF CallRecords
  <1> HIDE DEF new
  <1>5. /\ call' \in [Callers -> CallRecords] /\ call'[c] = new
        /\ \A d \in Callers \ {c} : call'[d] = call[d]
    BY <1>1, <1>4 DEF IInv, ShapeOK
  <1>6. calls' \in 0..MaxCalls
    BY <1>1, LocalInferenceAssumption DEF IInv, ShapeOK
  <1>7. ThreadOK(c)'
    <2>1. OthersKept(c)
      BY <1>1 DEF OthersKept, Stored, Provider
    <2> QED BY <1>1, <2>1, ThreadFrame DEF IInv
  <1>8. CallOK(c)'
    <2>1. kind' = kind /\ thread'[c].at = "none"
      BY <1>1 DEF Provider, NoThread
    <2>2. SubSeq(input, 1, 0) = <<>>
      BY <1>3
    <2>3. /\ call'[c].pc = "asking" /\ call'[c].input = input /\ call'[c].got = <<>>
          /\ Len(call'[c].got) = 0
      BY <1>4, <1>5
    <2>4. Len(input) > 0
      BY <1>3
    <2>5. call'[c].input \in Inputs[kind]
      BY <2>3
    <2>6. call'[c].got = SubSeq(call'[c].input, 1, Len(call'[c].got))
      BY <2>2, <2>3
    <2> QED BY <2>1, <2>3, <2>4, <2>5, <2>6 DEF CallOK
  <1>9. thread' \in [Callers -> ThreadRecords]
    BY <1>1 DEF IInv, ShapeOK
  <1> QED BY <1>1, <1>5, <1>6, <1>7, <1>8, <1>9, OutsideTheLock
\* A batch is a stretch of the input.
LEMMA CutFacts ==
  ASSUME NEW input \in Seq(Items), NEW start \in Nat, start < Len(input),
         NEW size \in Nat \ {0}
  PROVE  /\ Cut(input, start, size) \in Seq(Items) /\ Cut(input, start, size) # <<>>
         /\ start + Len(Cut(input, start, size)) <= Len(input)
         /\ SubSeq(input, 1, start) \o Cut(input, start, size) =
              SubSeq(input, 1, start + Len(Cut(input, start, size)))
  <1> DEFINE end == Smaller(start + size, Len(input))
  <1>1. Len(input) \in Nat
    OBVIOUS
  <1>2. end \in (start + 1)..Len(input)
    BY <1>1 DEF Smaller
  <1>3. Cut(input, start, size) = SubSeq(input, start + 1, end)
    BY DEF Cut
  <1> HIDE DEF end
  <1>4. \A n \in (start + 1)..end : input[n] \in Items
    BY <1>1, <1>2, ElementOfSeq
  <1>5. /\ SubSeq(input, start + 1, end) \in Seq(Items)
        /\ Len(SubSeq(input, start + 1, end)) = end - start
    <2>1. start + 1 \in Int /\ end \in Int /\ start + 1 <= end
      BY <1>1, <1>2
    <2> QED BY <2>1, <1>4, SubSeqProperties
  <1>6. SubSeq(input, 1, start) \o SubSeq(input, start + 1, end) = SubSeq(input, 1, end)
    <2>1. start \in (1 - 1)..Len(input) /\ end \in start..Len(input) /\ 1 \in 1..(Len(input) + 1)
      BY <1>1, <1>2
    <2> QED BY <2>1, ConcatAdjacentSubSeq
  <1>7. SubSeq(input, start + 1, end) # <<>>
    BY <1>2, <1>5, EmptySeq
  <1>8. start + (end - start) = end /\ end <= Len(input)
    BY <1>1, <1>2
  <1>9. start + Len(SubSeq(input, start + 1, end)) = end
    BY <1>5, <1>8
  <1> QED BY ONLY <1>3, <1>5, <1>6, <1>7, <1>8, <1>9

\* So is every request of a service, and it is never empty.
LEMMA RequestFacts ==
  ASSUME kind \in Kinds, NEW input \in Seq(Items), NEW start \in Nat, start < Len(input),
         kind \notin Cutting => start = 0
  PROVE  /\ RequestFrom(input, start) \in Seq(Items) /\ RequestFrom(input, start) # <<>>
         /\ start + Len(RequestFrom(input, start)) <= Len(input)
         /\ SubSeq(input, 1, start) \o RequestFrom(input, start) =
              SubSeq(input, 1, start + Len(RequestFrom(input, start)))
         /\ kind \notin Cutting => RequestFrom(input, start) = input
  <1>1. CASE kind \in Cutting
    <2> DEFINE size == Smaller(ProviderMax, ServiceMax)
    <2>1. size \in Nat \ {0}
      BY LocalInferenceAssumption DEF Smaller
    <2>2. RequestFrom(input, start) = Cut(input, start, size)
      BY <1>1 DEF RequestFrom, Cutting, CaptionRequest, OcrRequest, AudioEventRequest
    <2> HIDE DEF size
    <2> QED BY <1>1, <2>1, <2>2, CutFacts
  <1>2. CASE kind \notin Cutting
    <2>1. RequestFrom(input, start) = input /\ start = 0
      BY <1>2, LocalInferenceAssumption
         DEF RequestFrom, Cutting, AllKinds, EmbeddingRequest, SttRequest, VadRequest,
             DiarizationRequest
    <2>2. Len(input) \in Nat /\ Len(input) # 0
      BY <2>1
    <2>3. SubSeq(input, 1, 0) = <<>> /\ SubSeq(input, 1, Len(input)) = input
      BY SubSeqFull, SubSeqEmpty
    <2>4. <<>> \o input = input
      BY ConcatEmptySeq
    <2> QED BY <2>1, <2>2, <2>3, <2>4, EmptySeq
  <1> QED BY <1>1, <1>2

\* What an asking call stands for.
LEMMA AskingFacts ==
  ASSUME IInv, NEW c \in Callers, call[c].pc = "asking"
  PROVE  /\ call[c].input \in Inputs[kind] /\ call[c].input \in Seq(Items)
         /\ call[c].input # <<>>
         /\ thread[c].at = "none" /\ lock # c
         /\ NextRequest(c) \in Seq(Items) /\ NextRequest(c) # <<>>
  <1>1. /\ call[c].input \in Inputs[kind] /\ Len(call[c].got) < Len(call[c].input)
        /\ kind \notin Cutting => call[c].got = <<>>
        /\ thread[c].at = "none"
    BY DEF IInv, CallOK
  <1>2. kind \in Kinds /\ call[c].got \in Seq(Items)
    BY DEF IInv, ShapeOK, CallRecords
  <1>3. call[c].input \in Seq(Items) /\ call[c].input # <<>>
    BY <1>1, <1>2, InputFacts
  <1>4. Len(call[c].got) \in Nat /\ (kind \notin Cutting => Len(call[c].got) = 0)
    BY <1>1, <1>2
  <1>5. NextRequest(c) \in Seq(Items) /\ NextRequest(c) # <<>>
    BY <1>1, <1>2, <1>3, <1>4, RequestFacts DEF NextRequest
  <1>6. lock # c
    BY <1>1 DEF IInv, ThreadOK
  <1> QED BY <1>1, <1>3, <1>5, <1>6

\* A request is put on a thread of its own.
LEMMA QueuedKeeps ==
  ASSUME IInv, NEW c \in Callers, call[c].pc = "asking", UNCHANGED <<calls, Provider>>,
         NEW key \in Seq(Items), NEW items,
         items = IF c \in Clients THEN call[c].input ELSE NextRequest(c),
         call' = [call EXCEPT ![c].pc = "waiting"],
         thread' = [thread EXCEPT ![c] =
                      [NoThread EXCEPT !.at = "queued", !.key = key, !.items = items]]
  PROVE  IInv'
  <1> DEFINE new == [NoThread EXCEPT !.at = "queued", !.key = key, !.items = items]
             waiting == [call[c] EXCEPT !.pc = "waiting"]
  <1>1. items \in Seq(Items) /\ items # <<>> /\ lock # c /\ thread[c].at = "none"
    BY AskingFacts
  <1>2. /\ new \in ThreadRecords /\ new.at = "queued" /\ new.items = items
    <2>1. NoThread \in ThreadRecords
      BY NoThreadTyped
    <2> HIDE DEF NoThread
    <2> QED BY <1>1, <2>1 DEF ThreadRecords
  <1>3. /\ waiting \in CallRecords /\ waiting.pc = "waiting"
        /\ waiting.input = call[c].input /\ waiting.got = call[c].got
    BY DEF IInv, ShapeOK, CallRecords
  <1>4. /\ call' = [call EXCEPT ![c] = waiting] /\ thread' = [thread EXCEPT ![c] = new]
    OBVIOUS
  <1> HIDE DEF new, waiting
  <1>5. /\ call' \in [Callers -> CallRecords] /\ call'[c] = waiting
        /\ thread' \in [Callers -> ThreadRecords] /\ thread'[c] = new
        /\ \A d \in Callers \ {c} : call'[d] = call[d] /\ thread'[d] = thread[d]
    BY <1>2, <1>3, <1>4 DEF IInv, ShapeOK
  <1>6. kind' = kind /\ lock' = lock
    BY DEF Provider
  <1>7. ThreadOK(c)'
    BY <1>1, <1>2, <1>5, <1>6 DEF ThreadOK
  <1>8. CallOK(c)'
    <2>1. NextRequest(c)' = NextRequest(c)
      BY <1>3, <1>5, <1>6, KindKept DEF NextRequest
    <2>2. /\ call'[c].pc = "waiting" /\ call'[c].input = call[c].input
          /\ call'[c].got = call[c].got /\ thread'[c].at = "queued" /\ thread'[c].items = items
      BY <1>2, <1>3, <1>5
    <2> QED BY <1>6, <2>1, <2>2 DEF CallOK, IInv
  <1>9. calls' \in 0..MaxCalls
    BY DEF IInv, ShapeOK
  <1>10. thread[c].at # "busy"
    BY <1>1
  <1> QED BY <1>5, <1>7, <1>8, <1>9, <1>10, OutsideTheLock

\* A call ends, or loses its thread, without an answer.
LEMMA GivingUpKeeps ==
  ASSUME IInv, NEW c \in Callers, UNCHANGED <<calls, Provider>>,
         NEW how \in {"failed", "refused", "timeout", "late"}, Finish(c, how),
         \/ UNCHANGED thread
         \/ thread[c].at # "busy" /\ thread' = [thread EXCEPT ![c] = NoThread]
  PROVE  IInv'
  <1> DEFINE ended == [call[c] EXCEPT !.pc = how]
  <1>1. ended \in CallRecords /\ ended.pc = how /\ ended.input = call[c].input
    BY DEF IInv, ShapeOK, CallRecords
  <1>2. call' = [call EXCEPT ![c] = ended]
    BY DEF Finish
  <1> HIDE DEF ended
  <1>3. /\ call' \in [Callers -> CallRecords] /\ call'[c] = ended
        /\ \A d \in Callers \ {c} : call'[d] = call[d]
    BY <1>1, <1>2 DEF IInv, ShapeOK
  <1>4. kind' = kind /\ lock' = lock
    BY DEF Provider
  <1>5. /\ thread' \in [Callers -> ThreadRecords]
        /\ \A d \in Callers \ {c} : thread'[d] = thread[d]
        /\ thread[c].at # "busy" \/ thread'[c] = thread[c]
    BY NoThreadTyped DEF IInv, ShapeOK
  <1>6. ThreadOK(c)'
    <2>1. CASE UNCHANGED thread
      <3>1. OthersKept(c)
        BY DEF OthersKept, Stored, Provider
      <3> QED BY <2>1, <3>1, ThreadFrame DEF IInv
    <2>2. CASE thread[c].at # "busy" /\ thread' = [thread EXCEPT ![c] = NoThread]
      <3>1. thread'[c] = NoThread /\ lock # c
        BY <2>2 DEF IInv, ShapeOK, ThreadOK
      <3> QED BY <1>4, <3>1, NoThreadOK DEF IInv
    <2> QED BY <2>1, <2>2
  <1>7. CallOK(c)'
    <2>1. call'[c].pc = how /\ call'[c].input = call[c].input
      BY <1>1, <1>3
    <2> QED BY <1>4, <2>1 DEF CallOK, IInv
  <1>8. calls' \in 0..MaxCalls
    BY DEF IInv, ShapeOK
  <1> QED BY <1>3, <1>5, <1>6, <1>7, <1>8, OutsideTheLock

LEMMA AskKeeps ==
  ASSUME IInv, NEW c \in Callers, Ask(c)
  PROVE  IInv'
  <1>1. call[c].pc = "asking" /\ c \notin Clients /\ UNCHANGED <<calls, Provider>>
    BY DEF Ask
  <1>2. CASE kind \notin Single /\ Len(NextRequest(c)) > ProviderMax
    BY <1>1, <1>2, GivingUpKeeps DEF Ask
  <1>3. CASE ~ (kind \notin Single /\ Len(NextRequest(c)) > ProviderMax)
    <2>1. NextRequest(c) \in Seq(Items)
      BY <1>1, AskingFacts
    <2>2. /\ call' = [call EXCEPT ![c].pc = "waiting"]
          /\ thread' = [thread EXCEPT ![c] =
               [NoThread EXCEPT !.at = "queued", !.key = NextRequest(c),
                                !.items = NextRequest(c)]]
      BY <1>3 DEF Ask
    <2> QED BY <1>1, <2>1, <2>2, QueuedKeeps
  <1> QED BY <1>2, <1>3

LEMMA AskWithKeyKeeps ==
  ASSUME IInv, NEW c \in Callers, NEW key \in Inputs[kind], AskWithKey(c, key)
  PROVE  IInv'
  <1>1. key \in Seq(Items)
    BY InputFacts DEF IInv, ShapeOK
  <1>2. /\ call[c].pc = "asking" /\ c \in Clients /\ UNCHANGED <<calls, Provider>>
        /\ call' = [call EXCEPT ![c].pc = "waiting"]
        /\ thread' = [thread EXCEPT ![c] =
             [NoThread EXCEPT !.at = "queued", !.key = key, !.items = call[c].input]]
    BY DEF AskWithKey
  <1> QED BY <1>1, <1>2, QueuedKeeps

LEMMA ExpireKeeps ==
  ASSUME IInv, NEW c \in Callers, Expire(c)
  PROVE  IInv'
  <1>1. UNCHANGED <<thread, calls, Provider>>
    BY DEF Expire
  <1>2. PICK how \in {"timeout", "late"} : Finish(c, how)
    BY DEF Expire
  <1> QED BY <1>1, <1>2, GivingUpKeeps

LEMMA JoinKeeps ==
  ASSUME IInv, NEW c \in Callers, Join(c)
  PROVE  IInv'
  <1>1. /\ thread[c].at = "done" /\ call[c].pc # "waiting"
        /\ thread' = [thread EXCEPT ![c] = NoThread] /\ UNCHANGED <<calls, Provider>>
    BY DEF Join
  <1>2. CASE call[c].pc = "late"
    BY <1>1, <1>2, GivingUpKeeps DEF Join
  <1>3. CASE call[c].pc # "late"
    <2>1. UNCHANGED call
      BY <1>3 DEF Join
    <2>2. kind' = kind /\ lock' = lock
      BY <1>1 DEF Provider
    <2>3. /\ thread' \in [Callers -> ThreadRecords] /\ thread'[c] = NoThread
          /\ \A d \in Callers \ {c} : thread'[d] = thread[d]
      BY <1>1, NoThreadTyped DEF IInv, ShapeOK
    <2>4. ThreadOK(c)'
      <3>1. lock # c
        BY <1>1 DEF IInv, ThreadOK
      <3> QED BY <2>2, <2>3, <3>1, NoThreadOK DEF IInv
    <2>5. CallOK(c)'
      <3>1. call[c].pc \notin {"asking", "waiting"}
        BY <1>1 DEF IInv, CallOK
      <3> QED BY <2>1, <2>2, <3>1, CallFrame DEF IInv
    <2>6. calls' \in 0..MaxCalls /\ call' \in [Callers -> CallRecords]
      BY <1>1, <2>1 DEF IInv, ShapeOK
    <2> QED BY <1>1, <2>1, <2>3, <2>4, <2>5, <2>6, OutsideTheLock
  <1> QED BY <1>2, <1>3

\* What the thread of a waiting caller has works on continues what the caller has.
LEMMA WaitingFacts ==
  ASSUME IInv, NEW c \in Callers, call[c].pc = "waiting"
  PROVE  /\ call[c].input \in Inputs[kind] /\ call[c].input \in Seq(Items)
         /\ LET got == call[c].got \o thread[c].items
            IN /\ got \in Seq(Items) /\ got = SubSeq(call[c].input, 1, Len(got))
               /\ Len(got) <= Len(call[c].input)
               /\ c \in Clients \/ kind \notin Cutting => got = call[c].input
  <1> DEFINE input == call[c].input
             items == thread[c].items
             start == Len(call[c].got)
             got == call[c].got \o items
  <1>1. /\ input \in Inputs[kind] /\ call[c].got = SubSeq(input, 1, start)
        /\ start < Len(input) /\ (c \in Clients \/ kind \notin Cutting => call[c].got = <<>>)
        /\ items = IF c \in Clients THEN input ELSE RequestFrom(input, start)
    BY DEF IInv, CallOK, NextRequest
  <1>2. kind \in Kinds /\ call[c].got \in Seq(Items) /\ items \in Seq(Items)
    BY DEF IInv, ShapeOK, CallRecords, ThreadRecords
  <1>3. input \in Seq(Items) /\ input # <<>>
    BY <1>1, <1>2, InputFacts
  <1>4. start \in Nat /\ Len(input) \in Nat /\ Len(items) \in Nat
    BY <1>2, <1>3
  <1>5. got \in Seq(Items) /\ Len(got) = start + Len(items)
    BY <1>2, ConcatProperties
  <1>6. CASE c \in Clients
    <2>1. got = input
      BY <1>1, <1>3, <1>6, ConcatEmptySeq
    <2>2. got = SubSeq(input, 1, Len(got)) /\ Len(got) <= Len(input)
      BY <1>3, <1>4, <2>1, SubSeqFull
    <2> QED BY <1>1, <1>3, <1>5, <2>1, <2>2
  <1>7. CASE c \notin Clients
    <2>1. kind \notin Cutting => start = 0 /\ call[c].got = <<>>
      BY <1>1, <1>2
    <2>2. /\ SubSeq(input, 1, start) \o items = SubSeq(input, 1, start + Len(items))
          /\ start + Len(items) <= Len(input)
          /\ kind \notin Cutting => items = input
      BY ZenonT(40), <1>1, <1>2, <1>3, <1>4, <1>7, <2>1, RequestFacts
    <2>3. got = SubSeq(input, 1, Len(got)) /\ Len(got) <= Len(input)
      BY <1>1, <1>5, <2>2
    <2>4. kind \notin Cutting => got = input
      BY <1>3, <2>1, <2>2, ConcatEmptySeq
    <2> QED BY <1>1, <1>3, <1>5, <1>7, <2>3, <2>4
  <1> QED BY <1>6, <1>7

LEMMA ReceiveKeeps ==
  ASSUME IInv, NEW c \in Callers, Receive(c)
  PROVE  IInv'
  <1> DEFINE answer == thread[c].answer
             got == call[c].got \o answer.items
             pc == IF c \in Clients \/ Len(got) = Len(call[c].input) THEN "ok" ELSE "asking"
             new == [call[c] EXCEPT !.got = got, !.model = answer.model, !.pc = pc]
             kept == call' = [call EXCEPT ![c].got = got, ![c].model = answer.model,
                                          ![c].pc = pc]
  <1>1. /\ call[c].pc = "waiting" /\ thread[c].at = "done"
        /\ thread' = [thread EXCEPT ![c] = NoThread] /\ UNCHANGED <<calls, Provider>>
        /\ \/ thread[c].result = "stored" /\ kept
           \/ Finish(c, "refused") \/ Finish(c, "failed")
    BY DEF Receive
  <1>2. CASE Finish(c, "refused") \/ Finish(c, "failed")
    BY <1>1, <1>2, GivingUpKeeps
  <1>3. CASE thread[c].result = "stored" /\ kept
    <2>1. /\ answer.items = thread[c].items /\ answer.model = "effective"
      BY <1>1, <1>3 DEF IInv, ThreadOK
    <2>2. /\ got \in Seq(Items) /\ got = SubSeq(call[c].input, 1, Len(got))
          /\ Len(got) <= Len(call[c].input)
          /\ c \in Clients \/ kind \notin Cutting => got = call[c].input
          /\ call[c].input \in Inputs[kind] /\ call[c].input \in Seq(Items)
      BY <1>1, <2>1, WaitingFacts
    <2> HIDE DEF answer, got
    <2>3. Len(got) \in Nat /\ Len(call[c].input) \in Nat
      BY <2>2
    <2>4. /\ new \in CallRecords /\ new.pc = pc /\ new.input = call[c].input
          /\ new.got = got /\ new.model = "effective"
      BY <2>1, <2>2 DEF IInv, ShapeOK, CallRecords, Models
    <2>5. call' = [call EXCEPT ![c] = new]
      BY <1>3
    <2>6. /\ pc \in {"ok", "asking"}
          /\ pc = "ok" => got = call[c].input
          /\ pc = "asking" => /\ Len(got) < Len(call[c].input)
                              /\ (c \in Clients \/ kind \notin Cutting => got = <<>>)
      BY <2>2, <2>3, SubSeqFull
    <2> HIDE DEF new, pc
    <2>7. /\ call' \in [Callers -> CallRecords] /\ call'[c] = new
          /\ thread' \in [Callers -> ThreadRecords] /\ thread'[c] = NoThread
          /\ \A d \in Callers \ {c} : call'[d] = call[d] /\ thread'[d] = thread[d]
      BY <1>1, <2>4, <2>5, NoThreadTyped DEF IInv, ShapeOK
    <2>8. kind' = kind /\ lock' = lock /\ lock # c
      BY <1>1 DEF Provider, IInv, ThreadOK
    <2>9. ThreadOK(c)'
      BY <2>7, <2>8, NoThreadOK DEF IInv
    <2>10. CallOK(c)'
      <3>1. /\ call'[c].pc = pc /\ call'[c].input = call[c].input /\ call'[c].got = got
            /\ call'[c].model = "effective" /\ thread'[c].at = "none"
        BY <2>4, <2>7 DEF NoThread
      <3> QED BY <2>2, <2>6, <2>8, <3>1 DEF CallOK
    <2>11. calls' \in 0..MaxCalls /\ thread[c].at # "busy"
      BY <1>1 DEF IInv, ShapeOK
    <2> QED BY <1>1, <2>7, <2>9, <2>10, <2>11, OutsideTheLock
  <1> QED BY <1>1, <1>2, <1>3

\* A thread that takes or holds the lock disturbs nobody else.
LEMMA UnderTheLock ==
  ASSUME IInv, NEW c \in Callers, UNCHANGED <<kind, call>>,
         NEW new \in ThreadRecords, thread' = [thread EXCEPT ![c] = new],
         thread[c].at # "none", new.at # "none", new.items = thread[c].items,
         lock \in {Free, c}, lock' \in {Free, c},
         revision = "effective" => revision' = "effective",
         responses' = responses \/ lock = c,
         \A key \in Seq(Items) : Stored(key) # {} \/ Len(responses) = MaxResponses =>
                                 Stored(key)' # {} \/ Len(responses') = MaxResponses,
         ShapeOK', LoadErrorTransient', ThreadOK(c)'
  PROVE  IInv'
  <1>1. thread'[c] = new /\ \A d \in Callers \ {c} : thread'[d] = thread[d]
    BY DEF IInv, ShapeOK
  <1>2. Free \notin Callers
    BY LocalInferenceAssumption DEF Free
  <1>3. ASSUME NEW d \in Callers
        PROVE  ThreadOK(d)' /\ CallOK(d)'
    <2>1. d # c => (lock' = d) = (lock = d) /\ lock # d
      BY <1>2
    <2>2. d # c => thread[d].at # "busy"
      BY <2>1 DEF IInv, ThreadOK
    <2>3. d # c => OthersKept(d)
      BY <2>1, <2>2 DEF OthersKept
    <2>4. d # c => ThreadOK(d)'
      BY <1>1, <2>3, ThreadFrame DEF IInv
    <2>5. call'[d] = call[d] /\ (thread'[d].at = "none") = (thread[d].at = "none")
          /\ thread'[d].items = thread[d].items
      BY <1>1
    <2> QED BY <2>4, <2>5, CallFrame DEF IInv
  <1> QED BY <1>3 DEF IInv

LEMMA ResponsesAreEntries ==
  ASSUME ShapeOK
  PROVE  ToSet(responses) \subseteq Entries
  BY DEF ShapeOK, ToSet

LEMMA EnterKeeps ==
  ASSUME IInv, NEW c \in Callers, Enter(c)
  PROVE  IInv'
  <1> DEFINE stored == Stored(thread[c].key)
             old == thread[c]
  <1>1. /\ old.at = "queued" /\ lock = Free
        /\ UNCHANGED <<kind, call, responses, loaded, revision, loadError, calls, failures>>
    BY DEF Enter
  <1>2. old \in ThreadRecords /\ old.items # <<>> /\ old.items \in Seq(Items) /\ kind \in Kinds
    BY <1>1 DEF IInv, ShapeOK, ThreadRecords, ThreadOK
  <1>3. ~ (loadError /\ loaded)
    BY <1>1, LocalInferenceAssumption DEF IInv, LoadErrorTransient, Free
  <1>4. LoadErrorTransient'
    BY <1>1, <1>3 DEF LoadErrorTransient
  <1>5. \A key \in Seq(Items) : Stored(key)' = Stored(key)
    BY <1>1 DEF Stored
  <1>6. Free \notin Callers /\ Free # c
    BY LocalInferenceAssumption DEF Free
  <1>7. CASE stored = {} /\ ~ (kind \notin Single /\ Len(old.items) > ProviderMax)
    <2> DEFINE new == [old EXCEPT !.at = "busy", !.step = 1]
    <2>1. lock' = c /\ thread' = [thread EXCEPT ![c] = new]
      BY <1>7 DEF Enter
    <2>2. /\ new \in ThreadRecords /\ new.at = "busy" /\ new.step = 1
          /\ new.items = old.items /\ new.key = old.key
      BY <1>2 DEF ThreadRecords
    <2> HIDE DEF new
    <2>3. thread'[c] = new
      BY <2>1 DEF IInv, ShapeOK
    <2>4. ShapeOK'
      BY <1>1, <2>1, <2>2 DEF IInv, ShapeOK
    <2>5. ThreadOK(c)'
      <3>1. Steps(c)' = StepsFor(old.items) /\ Len(StepsFor(old.items)) \in Nat
            /\ Len(StepsFor(old.items)) >= 3
        BY <1>1, <1>2, <2>2, <2>3, KindKept, StepsShape
      <3>2. ~ PastNaming(c)'
        BY <2>2, <2>3 DEF PastNaming
      <3>3. Stored(thread[c].key)' = {}
        <4>1. Stored(thread[c].key)' = {e \in ToSet(responses) : e.key = thread'[c].key}
          BY <1>1 DEF Stored
        <4>2. thread'[c].key = thread[c].key
          BY <2>2, <2>3
        <4> QED BY <1>7, <4>1, <4>2 DEF Stored
      <3> QED BY <1>2, <2>1, <2>2, <2>3, <3>1, <3>2, <3>3 DEF ThreadOK
    <2> QED BY <1>1, <1>2, <1>4, <1>5, <2>1, <2>2, <2>4, <2>5, UnderTheLock
  <1>8. CASE ~ (stored = {} /\ ~ (kind \notin Single /\ Len(old.items) > ProviderMax))
    <2> DEFINE same == \E e \in stored : SameRequest(e, c)
               result == IF same THEN "stored" ELSE "refused"
               answer == IF ~ same THEN NoAnswer
                         ELSE AnswerOf(CHOOSE e \in stored : SameRequest(e, c))
               new == [old EXCEPT !.at = "done", !.result = result, !.answer = answer]
    <2>1. lock' = Free /\ thread' = [thread EXCEPT ![c] = new]
      BY <1>8 DEF Enter, Holder
    <2>2. same => /\ answer.items = old.items /\ answer.model = "effective"
                  /\ answer \in Answers
      <3> SUFFICES ASSUME same
                   PROVE  /\ answer.items = old.items /\ answer.model = "effective"
                          /\ answer \in Answers
        OBVIOUS
      <3> DEFINE e == CHOOSE e \in stored : SameRequest(e, c)
      <3>1. e \in stored /\ SameRequest(e, c)
        OBVIOUS
      <3>2. e \in Entries
        <4>1. e \in ToSet(responses)
          BY <3>1 DEF Stored
        <4>2. ToSet(responses) \subseteq Entries
          BY ResponsesAreEntries DEF IInv
        <4> QED BY ONLY <4>1, <4>2
      <3>3. answer = AnswerOf(e)
        OBVIOUS
      <3> HIDE DEF e, answer
      <3> QED BY <3>1, <3>2, <3>3 DEF AnswerOf, SameRequest, Entries, Answers, Models
    <2>3. answer \in Answers
      <3>1. NoAnswer \in Answers
        BY EmptySeq DEF NoAnswer, Answers, Models
      <3> QED BY <2>2, <3>1
    <2>4. /\ new \in ThreadRecords /\ new.at = "done" /\ new.result = result
          /\ new.items = old.items /\ new.key = old.key /\ new.answer = answer
      <3> HIDE DEF answer
      <3> QED BY <1>2, <2>3 DEF ThreadRecords
    <2>5. result = "stored" => same
      OBVIOUS
    <2>6. same => stored # {}
      OBVIOUS
    <2> HIDE DEF new, answer, result, same
    <2>7. thread'[c] = new
      BY <2>1 DEF IInv, ShapeOK
    <2>8. ShapeOK'
      BY <1>1, <2>1, <2>4 DEF IInv, ShapeOK
    <2>9. ThreadOK(c)'
      <3>1. Stored(thread[c].key)' = stored
        <4>1. Stored(thread[c].key)' = {e \in ToSet(responses) : e.key = thread'[c].key}
          BY <1>1 DEF Stored
        <4> QED BY <2>4, <2>7, <4>1 DEF Stored
      <3> QED BY <1>2, <1>6, <2>1, <2>2, <2>4, <2>5, <2>6, <2>7, <3>1 DEF ThreadOK
    <2> QED BY <1>1, <1>2, <1>4, <1>5, <2>1, <2>4, <2>8, <2>9, UnderTheLock
  <1> QED BY <1>7, <1>8

\* The thread that holds the lock, and the step it is at.
LEMMA BusyFacts ==
  ASSUME IInv, NEW c \in Callers, thread[c].at = "busy"
  PROVE  /\ kind \in Kinds /\ thread[c] \in ThreadRecords /\ thread[c].items # <<>>
         /\ thread[c].items \in Seq(Items) /\ thread[c].key \in Seq(Items)
         /\ lock = c /\ thread[c].step \in 1..Len(Steps(c)) /\ Len(Steps(c)) \in Nat
         /\ StepOf(c) = Steps(c)[thread[c].step]
         /\ LoadErrorTransient
         /\ loadError /\ loaded => kind # "ocr" /\ StepOf(c) = "name"
         /\ PastNaming(c) => revision = "effective"
  <1>1. /\ kind \in Kinds /\ thread[c] \in ThreadRecords /\ thread[c].items # <<>>
        /\ thread[c].items \in Seq(Items) /\ thread[c].key \in Seq(Items)
        /\ lock = c /\ thread[c].step \in 1..Len(Steps(c))
        /\ PastNaming(c) => revision = "effective"
    BY DEF IInv, ShapeOK, ThreadOK, ThreadRecords
  <1>2. Len(Steps(c)) \in Nat
    BY <1>1, StepsShape DEF Steps
  <1>3. StepOf(c) = Steps(c)[thread[c].step]
    BY DEF StepOf, Steps
  <1>4. loadError /\ loaded => kind # "ocr" /\ StepOf(c) = "name"
    BY <1>1 DEF IInv, LoadErrorTransient
  <1>5. LoadErrorTransient
    BY DEF IInv
  <1> QED BY <1>1, <1>2, <1>3, <1>4, <1>5

LEMMA ProceedKeeps ==
  ASSUME IInv, NEW c \in Callers, Proceed(c)
  PROVE  IInv'
  <1> DEFINE old == thread[c]
             new == [old EXCEPT !.step = @ + 1]
             S == Steps(c)
             k == old.step
  <1>1. /\ old.at = "busy" /\ k < Len(S)
        /\ (kind = "ocr" /\ S[k] = "load") => loaded \/ ~ loadError
        /\ loaded' = (loaded \/ S[k] = "load")
        /\ revision' = IF S[k] = "name" \/ (kind = "ocr" /\ S[k] = "load")
                       THEN "effective" ELSE revision
        /\ loadError' = IF S[k] = "name" THEN FALSE ELSE loadError
        /\ UNCHANGED <<kind, call, lock, responses, calls, failures>>
    BY DEF Proceed, StepOf, Steps, LoadErrorAfter
  <1>2. thread' = [thread EXCEPT ![c] = new]
    BY DEF Proceed, Advance
  <1>3. /\ kind \in Kinds /\ old \in ThreadRecords /\ old.items # <<>>
        /\ old.items \in Seq(Items) /\ lock = c /\ k \in 1..Len(S) /\ Len(S) \in Nat
        /\ loadError /\ loaded => kind # "ocr" /\ S[k] = "name"
        /\ PastNaming(c) => revision = "effective"
    BY <1>1, BusyFacts
  <1>4. /\ new \in ThreadRecords /\ new.at = "busy" /\ new.step = k + 1
        /\ new.items = old.items /\ new.key = old.key
    BY <1>1, <1>3 DEF ThreadRecords
  <1> HIDE DEF new
  <1>5. thread'[c] = new
    BY <1>2 DEF IInv, ShapeOK
  <1>6. Steps(c)' = S /\ StepOf(c)' = S[k + 1]
    BY <1>1, <1>4, <1>5, KindKept DEF Steps
  <1>7. loaded' \in BOOLEAN /\ loadError' \in BOOLEAN
        /\ revision' \in {"requested", "effective"}
    BY <1>1 DEF IInv, ShapeOK
  <1>8. ShapeOK'
    BY <1>1, <1>2, <1>4, <1>7 DEF IInv, ShapeOK
  <1>9. LoadErrorTransient'
    <2> SUFFICES ASSUME loadError', loaded'
                 PROVE  kind # "ocr" /\ S[k + 1] = "name"
      BY <1>1, <1>3, <1>6 DEF LoadErrorTransient
    <2>1. S[k] # "name" /\ loadError
      BY <1>1
    <2>2. S[k] = "load"
      BY <1>1, <1>3, <2>1
    <2>3. kind # "ocr"
      BY <1>1, <1>3, <2>1, <2>2
    <2>4. PICK p \in 1..(Len(S) - 2) :
             /\ S[p] = "load" /\ S[p + 1] = "name"
             /\ \A n \in 1..Len(S) : n \notin {p, p + 1} => S[n] \notin {"load", "name"}
      BY <1>3, <2>3, StepsShape DEF Steps
    <2>5. k = p
      BY <1>3, <2>2, <2>4
    <2> QED BY <2>3, <2>4, <2>5
  <1>10. ThreadOK(c)'
    <2>1. PastNaming(c)' => revision' = "effective"
      <3> SUFFICES ASSUME NEW n \in 1..((k + 1) - 1),
                          S[n] = "name" \/ (kind = "ocr" /\ S[n] = "load")
                   PROVE  revision' = "effective"
        BY <1>1, <1>4, <1>5, <1>6 DEF PastNaming
      <3>1. CASE n = k
        BY <1>1, <3>1
      <3>2. CASE n # k
        <4>1. n \in 1..(k - 1)
          BY <1>3, <3>2
        <4>2. revision = "effective"
          BY <1>3, <4>1 DEF PastNaming
        <4> QED BY <1>1, <4>2
      <3> QED BY <3>1, <3>2
    <2>2. Stored(thread[c].key)' = {}
      <3>1. Stored(thread[c].key)' = {e \in ToSet(responses) : e.key = thread'[c].key}
        BY <1>1 DEF Stored
      <3>2. Stored(thread[c].key) = {}
        BY <1>1 DEF IInv, ThreadOK
      <3> QED BY <1>4, <1>5, <3>1, <3>2 DEF Stored
    <2>3. k + 1 \in 1..Len(S)
      BY <1>1, <1>3
    <2> QED BY <1>1, <1>3, <1>4, <1>5, <1>6, <2>1, <2>2, <2>3 DEF ThreadOK
  <1>11. revision = "effective" => revision' = "effective"
    BY <1>1
  <1>12. \A key \in Seq(Items) : Stored(key)' = Stored(key)
    BY <1>1 DEF Stored
  <1> QED BY <1>1, <1>2, <1>3, <1>4, <1>8, <1>9, <1>10, <1>11, <1>12, UnderTheLock

LEMMA FailKeeps ==
  ASSUME IInv, NEW c \in Callers, Fail(c)
  PROVE  IInv'
  <1> DEFINE old == thread[c]
             new == [old EXCEPT !.at = "done", !.result = "failed"]
  <1>1. /\ old.at = "busy" /\ StepOf(c) # "name" /\ ~ (StepOf(c) = "load" /\ loaded)
        /\ failures' \in {failures, failures + 1}
        /\ failures' = failures \/ failures < MaxFailures
        /\ loaded' \in {FALSE, loaded}
        /\ loaded' => loadError' = (loadError \/ StepOf(c) = "load")
        /\ loadError' \in {TRUE, (loadError \/ StepOf(c) = "load")}
        /\ lock' = Free /\ thread' = [thread EXCEPT ![c] = new]
        /\ UNCHANGED <<kind, call, responses, revision, calls>>
    BY DEF Fail
  <1>2. /\ old \in ThreadRecords /\ old.items # <<>> /\ lock = c
        /\ loadError /\ loaded => StepOf(c) = "name"
    BY <1>1, BusyFacts
  <1>3. /\ new \in ThreadRecords /\ new.at = "done" /\ new.result = "failed"
        /\ new.items = old.items
    BY <1>2 DEF ThreadRecords
  <1> HIDE DEF new
  <1>4. thread'[c] = new
    BY <1>1 DEF IInv, ShapeOK
  <1>5. ShapeOK'
    <2>1. failures' \in 0..MaxFailures
      BY <1>1, LocalInferenceAssumption DEF IInv, ShapeOK
    <2>2. loaded' \in BOOLEAN /\ loadError' \in BOOLEAN
      BY <1>1 DEF IInv, ShapeOK
    <2> QED BY <1>1, <1>3, <2>1, <2>2 DEF IInv, ShapeOK
  <1>6. LoadErrorTransient'
    <2>1. ~ (loadError' /\ loaded')
      BY <1>1, <1>2
    <2> QED BY <2>1 DEF LoadErrorTransient
  <1>7. ThreadOK(c)'
    <2>1. Free # c
      BY LocalInferenceAssumption DEF Free
    <2> QED BY <1>1, <1>2, <1>3, <1>4, <2>1 DEF ThreadOK
  <1>8. \A key \in Seq(Items) : Stored(key)' = Stored(key)
    BY <1>1 DEF Stored
  <1> QED BY <1>1, <1>2, <1>3, <1>5, <1>6, <1>7, <1>8, UnderTheLock

\* The cache with one more response in it: the new one is there, and while there
\* is room nothing is lost.
LEMMA StoredFacts ==
  ASSUME NEW c \in Callers, NEW entry \in Entries, responses \in Seq(Entries),
         Len(responses) <= MaxResponses
  PROVE  LET after == StoredAfter(c, entry)
         IN /\ after \in Seq(Entries) /\ Len(after) <= MaxResponses
            /\ entry \in ToSet(after)
            /\ Len(responses) = MaxResponses => Len(after) = MaxResponses
            /\ Len(responses) # MaxResponses => ToSet(responses) \subseteq ToSet(after)
  <1> DEFINE kept == IF Len(responses) >= MaxResponses THEN Tail(responses) ELSE responses
             after == Append(kept, entry)
  <1>1. StoredAfter(c, entry) = after
    BY DEF StoredAfter
  <1>2. MaxResponses \in Nat \ {0} /\ Len(responses) \in Nat
    BY LocalInferenceAssumption
  <1>3. /\ kept \in Seq(Entries) /\ Len(kept) + 1 <= MaxResponses
        /\ Len(responses) = MaxResponses => Len(kept) + 1 = MaxResponses
        /\ Len(responses) # MaxResponses => kept = responses
    <2>1. CASE Len(responses) = MaxResponses
      <3>1. kept = Tail(responses) /\ responses # <<>>
        BY <1>2, <2>1, EmptySeq
      <3>2. Tail(responses) \in Seq(Entries) /\ Len(Tail(responses)) = Len(responses) - 1
        BY <3>1, HeadTailProperties
      <3> QED BY <1>2, <2>1, <3>1, <3>2
    <2>2. CASE Len(responses) # MaxResponses
      BY <1>2, <2>2
    <2> QED BY <2>1, <2>2
  <1> HIDE DEF kept
  <1>4. /\ after \in Seq(Entries) /\ Len(after) = Len(kept) + 1
        /\ \A n \in 1..Len(kept) : after[n] = kept[n]
        /\ after[Len(kept) + 1] = entry
    BY <1>3, AppendProperties
  <1> HIDE DEF after
  <1>5. Len(kept) \in Nat /\ DOMAIN after = 1..Len(after) /\ DOMAIN kept = 1..Len(kept)
    BY <1>3, <1>4, LenProperties
  <1>6. entry \in ToSet(after)
    BY <1>4, <1>5 DEF ToSet
  <1>7. ToSet(kept) \subseteq ToSet(after)
    BY <1>4, <1>5 DEF ToSet
  <1> QED BY <1>1, <1>2, <1>3, <1>4, <1>5, <1>6, <1>7

LEMMA CompleteKeeps ==
  ASSUME IInv, NEW c \in Callers, Complete(c)
  PROVE  IInv'
  <1> DEFINE old == thread[c]
             entry == [key |-> old.key, items |-> old.items, model |-> revision]
             new == [old EXCEPT !.at = "done", !.result = "stored",
                                !.answer = AnswerOf(entry)]
             S == Steps(c)
  <1>1. /\ old.at = "busy" /\ old.step = Len(S)
        /\ responses' = StoredAfter(c, entry) /\ thread' = [thread EXCEPT ![c] = new]
        /\ lock' = Free
        /\ UNCHANGED <<kind, call, loaded, revision, loadError, calls, failures>>
    BY DEF Complete, Steps
  <1>2. /\ kind \in Kinds /\ old \in ThreadRecords /\ old.items # <<>>
        /\ old.items \in Seq(Items) /\ old.key \in Seq(Items) /\ lock = c
        /\ S = StepsFor(old.items)
        /\ old.step \in 1..Len(S) /\ Len(S) \in Nat /\ StepOf(c) = S[Len(S)]
        /\ loadError /\ loaded => kind # "ocr" /\ StepOf(c) = "name"
        /\ PastNaming(c) => revision = "effective"
    BY <1>1, BusyFacts DEF Steps
  <1>3. /\ \E n \in 1..(Len(S) - 1) : S[n] = "name" \/ (kind = "ocr" /\ S[n] = "load")
        /\ kind # "ocr" => S[Len(S)] # "name"
    <2> HIDE DEF S
    <2>1. Len(S) >= 3
      BY <1>2, StepsShape
    <2>2. CASE kind = "ocr"
      <3>1. S[1] = "load" /\ 1 \in 1..(Len(S) - 1)
        BY <1>2, <2>1, <2>2, StepsShape
      <3> QED BY <2>2, <3>1
    <2>3. CASE kind # "ocr"
      <3>1. PICK p \in 1..(Len(S) - 2) :
               /\ S[p] = "load" /\ S[p + 1] = "name"
               /\ \A n \in 1..Len(S) : n \notin {p, p + 1} => S[n] \notin {"load", "name"}
        BY <1>2, <2>3, StepsShape
      <3>2. p + 1 \in 1..(Len(S) - 1) /\ Len(S) \notin {p, p + 1} /\ Len(S) \in 1..Len(S)
        BY <1>2, <2>1
      <3> QED BY <3>1, <3>2
    <2> QED BY <2>2, <2>3
  <1>4. revision = "effective"
    BY <1>1, <1>2, <1>3 DEF PastNaming
  <1>5. /\ entry \in Entries /\ entry.key = old.key
        /\ AnswerOf(entry) \in Answers /\ AnswerOf(entry).items = old.items
        /\ AnswerOf(entry).model = "effective"
    BY <1>2, <1>4 DEF Entries, AnswerOf, Answers, Models
  <1> HIDE DEF entry
  <1>6. /\ new \in ThreadRecords /\ new.at = "done" /\ new.result = "stored"
        /\ new.items = old.items /\ new.key = old.key /\ new.answer = AnswerOf(entry)
    BY <1>2, <1>5 DEF ThreadRecords
  <1> HIDE DEF new
  <1>7. thread'[c] = new
    BY <1>1 DEF IInv, ShapeOK
  <1>8. /\ responses' \in Seq(Entries) /\ Len(responses') <= MaxResponses
        /\ entry \in ToSet(responses')
        /\ Len(responses) = MaxResponses => Len(responses') = MaxResponses
        /\ Len(responses) # MaxResponses => ToSet(responses) \subseteq ToSet(responses')
    BY <1>1, <1>5, StoredFacts DEF IInv, ShapeOK
  <1>9. ShapeOK'
    BY <1>1, <1>6, <1>8 DEF IInv, ShapeOK
  <1>10. LoadErrorTransient'
    <2>1. ~ (loadError /\ loaded)
      BY <1>2, <1>3
    <2> QED BY <1>1, <2>1 DEF LoadErrorTransient
  <1>11. ThreadOK(c)'
    <2>1. Stored(thread[c].key)' = {e \in ToSet(responses') : e.key = thread'[c].key}
      BY DEF Stored
    <2>2. Stored(thread[c].key)' # {}
      BY <1>5, <1>6, <1>7, <1>8, <2>1
    <2>3. Free # c
      BY LocalInferenceAssumption DEF Free
    <2> QED BY <1>1, <1>2, <1>5, <1>6, <1>7, <2>2, <2>3 DEF ThreadOK
  <1>12. \A key \in Seq(Items) : Stored(key) # {} \/ Len(responses) = MaxResponses =>
                                 Stored(key)' # {} \/ Len(responses') = MaxResponses
    BY <1>8 DEF Stored
  <1> QED BY <1>1, <1>2, <1>6, <1>9, <1>10, <1>11, <1>12, UnderTheLock
-----------------------------------------------------------------------------
LEMMA InitIInv ==
  ASSUME Init
  PROVE  IInv
  <1>1. NoCall \in CallRecords /\ NoThread \in ThreadRecords /\ <<>> \in Seq(Entries)
    BY EmptySeq, NoThreadTyped DEF NoCall, CallRecords, Models
  <1>2. ShapeOK
    <2>1. responses \in Seq(Entries) /\ Len(responses) <= MaxResponses
      BY <1>1, LocalInferenceAssumption DEF Init
    <2>2. call \in [Callers -> CallRecords] /\ thread \in [Callers -> ThreadRecords]
      BY <1>1 DEF Init
    <2>3. calls \in 0..MaxCalls /\ failures \in 0..MaxFailures
      BY LocalInferenceAssumption DEF Init
    <2>4. /\ kind \in Kinds /\ lock \in Callers \cup {Free}
          /\ loaded \in BOOLEAN /\ loadError \in BOOLEAN
          /\ revision \in {"requested", "effective"}
      BY DEF Init
    <2> QED BY <2>1, <2>2, <2>3, <2>4 DEF ShapeOK
  <1>3. LoadErrorTransient
    BY DEF Init, LoadErrorTransient
  <1>4. ASSUME NEW c \in Callers
        PROVE  ThreadOK(c) /\ CallOK(c)
    <2>1. lock # c
      BY LocalInferenceAssumption DEF Init, Free
    <2>2. thread[c] = NoThread /\ call[c] = NoCall
      BY DEF Init
    <2>3. ThreadOK(c)
      BY <2>1, <2>2 DEF ThreadOK, NoThread
    <2>4. CallOK(c)
      BY <2>2 DEF CallOK, NoCall
    <2> QED BY <2>3, <2>4
  <1> QED BY <1>2, <1>3, <1>4 DEF IInv

LEMMA NextKeeps ==
  ASSUME IInv, [Next]_vars
  PROVE  IInv'
  <1>1. CASE Next
    <2>1. PICK c \in Callers :
            \/ \E input \in Inputs[kind] : Call(c, input)
            \/ Ask(c)
            \/ \E key \in Inputs[kind] : AskWithKey(c, key)
            \/ Enter(c) \/ Proceed(c) \/ Fail(c) \/ Complete(c)
            \/ Receive(c) \/ Expire(c) \/ Join(c)
      BY <1>1 DEF Next
    <2> QED BY <2>1, CallKeeps, AskKeeps, AskWithKeyKeeps, EnterKeeps, ProceedKeeps,
               FailKeeps, CompleteKeeps, ReceiveKeeps, ExpireKeeps, JoinKeeps
  <1>2. CASE UNCHANGED vars
    <2>1. /\ kind' = kind /\ lock' = lock /\ call' = call /\ thread' = thread
          /\ UNCHANGED <<responses, loaded, revision, loadError, calls, failures>>
      BY <1>2 DEF vars
    <2>2. ShapeOK'
      BY <2>1 DEF IInv, ShapeOK
    <2>3. LoadErrorTransient'
      <3>1. \A c \in Callers : StepOf(c)' = StepOf(c)
        BY <2>1, KindKept DEF StepOf
      <3> QED BY <2>1, <3>1 DEF IInv, LoadErrorTransient
    <2>4. ASSUME NEW c \in Callers
          PROVE  ThreadOK(c)' /\ CallOK(c)'
      <3>1. OthersKept(c)
        BY <2>1 DEF OthersKept, Stored
      <3> QED BY <2>1, <3>1, ThreadFrame, CallFrame DEF IInv
    <2> QED BY <2>2, <2>3, <2>4 DEF IInv
  <1> QED BY <1>1, <1>2

\* Whatever the callers and the threads of a provider do, the inductive invariant
\* holds.
THEOREM Invariance == Spec => []IInv
  BY InitIInv, NextKeeps, PTL DEF Spec

\* Whoever gets an answer gets the one to the question asked, computed by the
\* model that was really loaded: for any callers that share a provider, however
\* their inputs are cut into batches, whichever keys clients choose, whoever
\* gives up while a thread works on, and whatever fails in between (infer and
\* _infer_sync of the providers, the batching services over them).
THEOREM AnswersAlwaysSound == Spec => []AnswersSound
  <1>1. IInv => AnswersSound
    <2> SUFFICES ASSUME IInv
                 PROVE  TypeOK /\ AnswersWhatWasAsked
      BY DEF AnswersSound
    <2>1. TypeOK
      <3>1. \A c \in Callers : call[c] \in CallRecords /\ thread[c] \in ThreadRecords
        BY DEF IInv, ShapeOK
      <3>2. \A c \in Callers : call[c].input \in Inputs[kind] \cup {<<>>}
        BY DEF IInv, CallOK
      <3> QED BY <3>1, <3>2 DEF IInv, ShapeOK, TypeOK, CallRecords, ThreadRecords
    <2>2. AnswersWhatWasAsked
      BY DEF IInv, CallOK, AnswersWhatWasAsked
    <2> QED BY <2>1, <2>2
  <1> QED BY <1>1, Invariance, PTL

\* A response that is at hand is never computed again, a computed one is kept for
\* a retry although its caller gave up (unless the cache is full), and health()
\* does not report a load error beside a working model for longer than it takes
\* to name that model (_cache_response, _get_model and health of the providers).
THEOREM ProviderStateAlwaysTrue == Spec => []ProviderStateTrue
  <1>1. IInv => ProviderStateTrue
    BY DEF IInv, ThreadOK, LoadErrorTransient, ProviderStateTrue, WorkDoneOnce,
           HealthTruthful
  <1> QED BY <1>1, Invariance, PTL
=============================================================================
