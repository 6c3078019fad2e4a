----------------------------- MODULE SceneCards -----------------------------
(***************************************************************************)
(* Stage 09_timeline: every transcript line, subtitle cue and audio event    *)
(* goes to the card of one scene, every line to one speaker and every scene  *)
(* to one chapter; and the texts of a card that 10_index makes findable and  *)
(* the two context renderers show.                                           *)
(*                                                                          *)
(* A text is a natural number, 0 the empty one; no speaker is 0 too.         *)
(***************************************************************************)
EXTENDS AudioSpans

Overlap(a, b) == Max({0, Min({a.end, b.end}) - Max({a.start, b.start})})

HoldsMidpoint(interval, span) ==
  /\ 2 * interval.start <= span.start + span.end
  /\ span.start + span.end < 2 * interval.end

\* (mutant) the first interval that overlaps at all
BestOverlapFirst(span, intervals) ==
  LET overlapping == {i \in DOMAIN intervals : Overlap(span, intervals[i]) > 0}
  IN IF overlapping = {} THEN 0 ELSE Min(overlapping)

\* The interval that overlaps most; of equals the one that holds the middle of
\* the span, else the first; 0 when none overlaps.
BestOverlap(span, intervals) ==
  LET most == Max({0} \cup {Overlap(span, intervals[i]) : i \in DOMAIN intervals})
      tied == {i \in DOMAIN intervals : Overlap(span, intervals[i]) = most}
      centred == {i \in tied : HoldsMidpoint(intervals[i], span)}
  IN IF most = 0 THEN 0 ELSE IF centred # {} THEN Min(centred) ELSE Min(tied)

SpeakerOf(line, turns) ==
  LET turn == BestOverlap(line, turns) IN IF turn = 0 THEN 0 ELSE turns[turn].speaker

TranscriptLine(lines, i, turns) ==
  [source |-> i, start |-> lines[i].start, end |-> lines[i].end,
   speaker |-> SpeakerOf(lines[i], turns)]

Assigned(scenes, items, scene) ==
  SelectSeq(items, LAMBDA x : BestOverlap(x, scenes) = scene)

Unassigned(scenes, items) == SelectSeq(items, LAMBDA x : BestOverlap(x, scenes) = 0)

\* The cues of every subtitle stream in the order of their times.
Cues(streams) ==
  SortedBy(FlattenSeq([s \in DOMAIN streams |->
             [c \in DOMAIN streams[s] |->
                [start |-> streams[s][c].start, end |-> streams[s][c].end,
                 text |-> streams[s][c].text, stream |-> s, cue |-> c]]]),
           LAMBDA q : << q.start, q.end, q.stream, q.cue >>)

\* ordered_unique_..._join: each text once, in the order of first use.
Unique(texts) ==
  FoldLeft(LAMBDA unique, t : IF t = 0 \/ Contains(unique, t) THEN unique
                              ELSE Append(unique, t),
           << >>, texts)

Each(items, Field(_)) == [i \in DOMAIN items |-> Field(items[i])]

Texts(items) == Unique(Each(items, LAMBDA x : x.text))

\* The keyframe nearest to the middle of the scene, the first of equals.
Representative(scene, frames) ==
  LET Off(i) == LET d == 2 * frames[i].time - (scene.start + scene.end)
                IN IF d < 0 THEN -d ELSE d
      least == Min({Off(i) : i \in DOMAIN frames})
  IN IF frames = << >> THEN 0 ELSE Min({i \in DOMAIN frames : Off(i) = least})

\* The card of one scene; frames are its keyframes with what was said of them.
Card(story, lines, scene) ==
  LET s == story.scenes[scene]
      frames == SelectSeq(story.frames, LAMBDA f : f.scene = scene)
      subtitles == Assigned(story.scenes, Cues(story.streams), scene)
      events == Assigned(story.scenes, story.events, scene)
      chapter == BestOverlap(s, story.chapters)
  IN [scene |-> scene,
      keyframe |-> Representative(s, frames),
      caption |-> Unique(Each(frames, LAMBDA f : f.caption)),
      ocr |-> Unique(Each(frames, LAMBDA f : f.ocr)),
      chapter |-> IF chapter = 0 THEN << >> ELSE << story.chapters[chapter].title >>,
      subtitles |-> subtitles, subtitle |-> Texts(subtitles),
      events |-> events, event |-> Unique(Each(events, LAMBDA e : e.label)),
      transcript |-> Assigned(story.scenes,
                              [i \in DOMAIN lines |-> TranscriptLine(lines, i, story.turns)],
                              scene)]

-----------------------------------------------------------------------------
Tagged(kind, texts) == {<< kind, t >> : t \in ToSet(texts)}

Spoken(card) == Each(card.transcript, LAMBDA line : line.source)

\* What a search can find of a card.
CardText(card) ==
  UNION {Tagged("caption", card.caption), Tagged("ocr", card.ocr),
         Tagged("chapter", card.chapter), Tagged("subtitle", card.subtitle),
         Tagged("event", card.event), Tagged("speech", Spoken(card))}

\* What a card rendered whole shows.
CardLines(card) ==
  UNION {Tagged("chapter", card.chapter), Tagged("subtitle", card.subtitle),
         Tagged("caption", card.caption), Tagged("ocr", card.ocr),
         Tagged("event", Each(card.events, LAMBDA e : e.label)),
         Tagged("speech", Spoken(card))}

\* What a card cut down starts with: the first of its kinds of text.
Headline(card) ==
  LET kinds == << Tagged("caption", card.caption), Tagged("ocr", card.ocr),
                  Tagged("chapter", card.chapter), Tagged("subtitle", card.subtitle),
                  Tagged("event", card.event),
                  Tagged("speech", SubSeq(Spoken(card), 1, Min({1, Len(Spoken(card))}))) >>
      filled == SelectSeq(kinds, LAMBDA k : k # {})
  IN IF filled = << >> THEN {} ELSE filled[1]
=============================================================================
