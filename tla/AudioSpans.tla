----------------------------- MODULE AudioSpans -----------------------------
(***************************************************************************)
(* What the audio Stages compute between the models: the windows in which    *)
(* audio events are looked for and the events made of them, and the speech   *)
(* chunks that are transcribed and the transcript made of them.              *)
(*                                                                          *)
(* Times are natural numbers and intervals half-open, as [start_sec,         *)
(* end_sec) is in every document of the Stages.                              *)
(***************************************************************************)
EXTENDS Naturals, Sequences, FiniteSets, SequencesExt

CeilDiv(a, b) == (a + b - 1) \div b

\* The keys of two items compared field by field; a key is a sequence.
Precedes(a, b) ==
  \E i \in DOMAIN a : a[i] < b[i] /\ \A j \in 1 .. i - 1 : a[j] = b[j]

\* Python's sorted: by key, items of equal keys in their order.
SortedBy(items, Key(_)) ==
  LET Insert(sorted, x) ==
        InsertAt(sorted, 1 + Cardinality({i \in DOMAIN sorted :
                                            ~Precedes(Key(x), Key(sorted[i]))}), x)
  IN FoldLeft(Insert, << >>, items)

-----------------------------------------------------------------------------
(* Audio events *)

WindowsRefused(window, hop) == hop > window

Windows(duration, window, hop) ==
  [k \in 1 .. CeilDiv(duration, hop) |->
     [id |-> k, start |-> (k - 1) * hop,
      end |-> Min({(k - 1) * hop + window, duration})]]

\* The provider's answer for a batch of windows: per window the labels it
\* hears with at least the requested confidence, in the order of the request.
Heard(batch, heard, labels, confidence) ==
  [i \in DOMAIN batch |->
     [id |-> batch[i].id,
      labels |-> SelectSeq(labels, LAMBDA l : heard[l][batch[i].id] >= confidence)]]

\* Each (label, window) of an answer; the answer is in the order of the batch.
Results(batch, heard, labels, confidence) ==
  LET answer == Heard(batch, heard, labels, confidence) IN
  FlattenSeq([i \in DOMAIN answer |->
    [n \in DOMAIN answer[i].labels |->
       [label |-> answer[i].labels[n],
        confidence |-> heard[answer[i].labels[n]][batch[i].id],
        window |-> batch[i]]]])

\* The windows are sent in batches of at most size.
Candidates(windows, size, heard, labels, confidence) ==
  FlattenSeq([b \in 1 .. CeilDiv(Len(windows), size) |->
    Results(SubSeq(windows, (b - 1) * size + 1, Min({b * size, Len(windows)})),
            heard, labels, confidence)])

\* A candidate joins the event before it when that is of the same label and
\* has not ended before the window starts.
Joined(events, c) ==
  LET new == [label |-> c.label, confidence |-> c.confidence, start |-> c.window.start,
              end |-> c.window.end, windows |-> << c.window.id >>]
      last == Last(events)
  IN IF events = << >> \/ last.label # c.label \/ c.window.start > last.end
     THEN Append(events, new)
     ELSE Append(Front(events),
                 [last EXCEPT !.confidence = Max({@, c.confidence}),
                              !.end = Max({@, c.window.end}),
                              !.windows = Append(@, c.window.id)])

\* (mutant) the candidates are joined in the order the windows were sent
MergedUnsorted(candidates) ==
  SortedBy(FoldLeft(Joined, << >>, candidates), LAMBDA e : << e.start, e.end, e.label >>)

\* The events, in the order of their times; an event's id is its position.
Merged(candidates) ==
  LET byLabel == SortedBy(candidates, LAMBDA c : << c.label, c.window.start, c.window.end >>)
  IN SortedBy(FoldLeft(Joined, << >>, byLabel), LAMBDA e : << e.start, e.end, e.label >>)

-----------------------------------------------------------------------------
(* Speech *)

\* What the VAD service accepts: ordered, disjoint, of positive length.
Ordered(spans) ==
  /\ \A i \in DOMAIN spans : spans[i].start < spans[i].end
  /\ \A i \in DOMAIN spans \ {1} : spans[i - 1].end <= spans[i].start

\* Speech separated by at most gap of silence is transcribed as one chunk.
Chunks(segments, gap) ==
  FoldLeft(LAMBDA chunks, i :
             LET last == Last(chunks) IN
             IF chunks # << >> /\ segments[i].start - last.end <= gap
             THEN Append(Front(chunks),
                         [last EXCEPT !.end = segments[i].end, !.sources = Append(@, i)])
             ELSE Append(chunks, [start |-> segments[i].start, end |-> segments[i].end,
                                  sources |-> << i >>]),
           << >>, [i \in DOMAIN segments |-> i])

\* The model divides a chunk into sentences of at most this length, timed from
\* the start of the chunk; the transcript's times are those of the video.
Transcribed(chunks, sentence) ==
  FlattenSeq([c \in DOMAIN chunks |->
    [n \in 1 .. CeilDiv(chunks[c].end - chunks[c].start, sentence) |->
       [start |-> chunks[c].start + (n - 1) * sentence,
        end |-> chunks[c].start + Min({n * sentence, chunks[c].end - chunks[c].start}),
        sources |-> chunks[c].sources]]])
=============================================================================
