-------------------------- MODULE StageAlgorithms --------------------------
(***************************************************************************)
(* The algorithms of AudioSpans, SceneCards and SceneSearch run as the       *)
(* Stages and the query service run them, each on one input of a set, and    *)
(* what their results promise together.                                      *)
(***************************************************************************)
EXTENDS SceneSearch

CONSTANTS
  Soundtracks,  \* inputs of 05_audio_events
  Stories,      \* inputs of 06_stt and 09_timeline
  Questions,    \* inputs of a search
  Budgets       \* inputs of the context renderers

VARIABLES
  work,     \* the Stage and its input
  result    \* its output; stage "none" before it ran

vars == << work, result >>

Nothing == [stage |-> "none"]

Works ==
  [stage : {"sounds"}, input : Soundtracks] \cup [stage : {"story"}, input : Stories]
  \cup [stage : {"question"}, input : Questions] \cup [stage : {"budget"}, input : Budgets]

Init == work \in Works /\ result = Nothing

Starts(stage) == work.stage = stage /\ result = Nothing

\* AudioEventService.detect_async
DetectEvents ==
  /\ Starts("sounds")
  /\ LET in == work.input
         windows == Windows(in.duration, in.window, in.hop)
         candidates == Candidates(windows, in.size, in.heard, in.labels, in.confidence)
     IN result' = IF WindowsRefused(in.window, in.hop) THEN [stage |-> "refused"]
                  ELSE [stage |-> "sounds", windows |-> windows,
                        candidates |-> ToSet(candidates), events |-> Merged(candidates)]
  /\ UNCHANGED work

\* 06_stt, then 09_timeline
BuildTimeline ==
  /\ Starts("story")
  /\ LET in == work.input
         chunks == Chunks(in.segments, in.gap)
         lines == Transcribed(chunks, in.sentence)
     IN result' = [stage |-> "story", chunks |-> chunks, lines |-> lines,
                   cards |-> [s \in DOMAIN in.scenes |-> Card(in, lines, s)],
                   unassigned |-> Unassigned(in.scenes, lines)]
  /\ UNCHANGED work

\* PipelineQueryService.query, up to the matches
Search ==
  /\ Starts("question")
  /\ result' = [stage |-> "question", matches |-> Matches(work.input)]
  /\ UNCHANGED work

\* PipelineQueryService.query, the context
AssembleContext ==
  /\ Starts("budget") /\ work.input.of = "query"
  /\ result' = [stage |-> "budget",
                context |-> QueryContext(work.input, work.input.top, work.input.adjacent)]
  /\ UNCHANGED work

\* 11_context
RenderContext ==
  /\ Starts("budget") /\ work.input.of = "video"
  /\ result' = [stage |-> "budget", context |-> StaticContext(work.input)]
  /\ UNCHANGED work

Next == DetectEvents \/ BuildTimeline \/ Search \/ AssembleContext \/ RenderContext

Spec == Init /\ [][Next]_vars

-----------------------------------------------------------------------------
Inside(t, span) == span.start <= t /\ t < span.end

\* Whatever the windows and batches, every instant of the sound is listened to,
\* and the events of a label are exactly the time in which some window heard it:
\* events of one label never touch, each window that heard it belongs to one of
\* them, and an event is as certain as its best window (audio_event.py).
EventsAreWhatWasHeard ==
  result.stage = "sounds" =>
    LET events == result.events
        in == work.input
        OfLabel(l) == {i \in DOMAIN events : events[i].label = l}
        HeardIn(l) == {c.window : c \in {d \in result.candidates : d.label = l}}
        WindowsOf(e) == {w \in HeardIn(e.label) : w.id \in ToSet(e.windows)}
    IN /\ \A t \in 0 .. in.duration - 1 : \E i \in DOMAIN result.windows :
            Inside(t, result.windows[i])
       /\ \A l \in ToSet(in.labels) :
            /\ HeardIn(l) = {w \in ToSet(result.windows) : in.heard[l][w.id] >= in.confidence}
            /\ \A i, j \in OfLabel(l) :
                 i < j => events[i].end < events[j].start
            /\ \A t \in 0 .. in.duration - 1 :
                 (\E w \in HeardIn(l) : Inside(t, w)) <=> (\E i \in OfLabel(l) : Inside(t, events[i]))
            /\ \A w \in HeardIn(l) :
                 Cardinality({i \in OfLabel(l) : Contains(events[i].windows, w.id)}) = 1
            /\ \A i \in OfLabel(l) :
                 events[i].confidence = Max({in.heard[l][w.id] : w \in WindowsOf(events[i])})

\* Every instant of detected speech is in exactly one transcript line, and each
\* line in the card of one scene, or in none if it is outside all of them;
\* chunks are apart by more than the gap that joins speech (s06_stt.py:19),
\* and the lines read through the cards in the order they were spoken.
SpeechToldOnce ==
  result.stage = "story" =>
    LET in == work.input
        lines == result.lines
        cards == result.cards
        told == FlattenSeq([s \in DOMAIN cards |-> Each(cards[s].transcript, LAMBDA l : l.source)])
    IN /\ \A s \in DOMAIN in.segments : \A t \in in.segments[s].start .. in.segments[s].end - 1 :
            Cardinality({i \in DOMAIN lines : Inside(t, lines[i])}) = 1
       /\ \A c \in DOMAIN result.chunks \ {1} :
            result.chunks[c].start - result.chunks[c - 1].end > in.gap
       /\ FlattenSeq([c \in DOMAIN result.chunks |-> result.chunks[c].sources])
            = [i \in DOMAIN in.segments |-> i]
       /\ told = SelectSeq([i \in DOMAIN lines |-> i],
                           LAMBDA i : \E s \in DOMAIN in.scenes : Overlap(lines[i], in.scenes[s]) > 0)
       /\ Len(told) + Len(result.unassigned) = Len(lines)

\* maximum_overlap_single_midpoint_tiebreak, of lines, cues and events to
\* scenes and of lines to speakers: no other interval holds more of it, nor as
\* much and its middle (s09_timeline.py:55).
AssignmentJust ==
  result.stage = "story" =>
    LET in == work.input
        Better(span, i, intervals) ==
          \E j \in DOMAIN intervals :
            \/ Overlap(span, intervals[j]) > Overlap(span, intervals[i])
            \/ /\ Overlap(span, intervals[j]) = Overlap(span, intervals[i])
               /\ HoldsMidpoint(intervals[j], span) /\ ~HoldsMidpoint(intervals[i], span)
    IN \A s \in DOMAIN result.cards :
         LET card == result.cards[s] IN
         /\ \A x \in UNION {ToSet(card.transcript), ToSet(card.subtitles), ToSet(card.events)} :
              ~Better(x, s, in.scenes)
         /\ \A line \in ToSet(card.transcript) :
              \/ line.speaker = 0 /\ \A t \in ToSet(in.turns) : Overlap(line, t) = 0
              \/ \E i \in DOMAIN in.turns :
                   in.turns[i].speaker = line.speaker /\ ~Better(line, i, in.turns)

\* What makes a scene findable is in its card when the card is shown whole, and
\* a card cut down starts with such a text whenever the scene has one
\* (s10_index.py:28, services/query.py:872, s11_context.py:38).
FoundMeansShown ==
  result.stage = "story" =>
    \A s \in DOMAIN result.cards :
      LET card == result.cards[s] IN
      /\ CardText(card) \subseteq CardLines(card)
      /\ Headline(card) \subseteq CardText(card)
      /\ CardText(card) # {} => Headline(card) # {}

CardsTrue == SpeechToldOnce /\ AssignmentJust /\ FoundMeansShown

\* A scene answers once, for a reason; a scene that every search ranked no
\* worse than another, and one of them better, is ahead of it; and none left
\* out by top_k is ahead of one that answers (query.py:659).
FusionFair ==
  result.stage = "question" =>
    LET in == work.input
        matches == result.matches
        keyword == KeywordHits(in.match)
        semantic == Accepted(SemanticHits(in.similarity), in.similarity, in.least)
        Found == ToSet(keyword) \cup ToSet(semantic)
        NoWorse(hits, a, b) ==
          Contains(hits, b) => Contains(hits, a) /\ RankIn(hits, a) <= RankIn(hits, b)
        Ahead(a, b) == a # b /\ NoWorse(keyword, a, b) /\ NoWorse(semantic, a, b)
        Rank(s) == RankIn(Each(matches, LAMBDA m : m.scene), s)
    IN /\ Len(matches) = Min({in.topK, Cardinality(Found)})
       /\ {matches[i].scene : i \in DOMAIN matches} \subseteq Found
       /\ \A i, j \in DOMAIN matches : matches[i].scene = matches[j].scene => i = j
       /\ \A i \in DOMAIN matches : matches[i].reasons # {}
       /\ \A a, b \in Found :
            Ahead(a, b) /\ Rank(b) # 0 => Rank(a) # 0 /\ Rank(a) < Rank(b)

\* A context never counts more than its maximum: the query's if its heading
\* fits, the video's if its fixed part does (or the tokenizer keeps a cut text
\* within the cut).  Every scene is accounted for, and the query never
\* leaves out a scene for one that ranks behind it (query.py:706, s11_context.py:124).
BudgetKept ==
  result.stage = "budget" =>
    LET t == work.input
        context == result.context
        chosen == context.chosen
        included == Each(chosen.included, LAMBDA b : b.scene)
        PositionOf(s) == RankIn(context.candidates, s)
    IN /\ (t.fixed + t.nothing <= t.max \/ t.slack <= 0) => context.tokens <= t.max
       /\ ToSet(included) \cap ToSet(chosen.excluded) = {}
       /\ ToSet(included) \cup ToSet(chosen.excluded) = ToSet(context.candidates)
       /\ chosen.truncated \subseteq ToSet(included)
       /\ t.of = "query" =>
            /\ \A a \in ToSet(included), b \in ToSet(chosen.excluded) :
                 PositionOf(a) < PositionOf(b)
            /\ \A i \in DOMAIN t.top : Contains(context.candidates, t.top[i])
=============================================================================
