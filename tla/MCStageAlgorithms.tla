------------------------- MODULE MCStageAlgorithms -------------------------
(***************************************************************************)
(* Sounds of up to four seconds in one to four overlapping windows with two  *)
(* labels; up to three speech segments in six seconds over up to three       *)
(* scenes of five; questions over three scenes; budgets of three cards.      *)
(***************************************************************************)
EXTENDS StageAlgorithms

Span(a, b) == [start |-> a, end |-> b]

MCSoundtracks ==
  UNION {
    {[duration |-> g[1], window |-> g[2], hop |-> g[3], size |-> size, labels |-> << 2, 1 >>,
      confidence |-> 1, heard |-> << one, two >>]
       : size \in {1, 3},
         one \in [1 .. CeilDiv(g[1], g[3]) -> 0 .. 2],
         two \in [1 .. CeilDiv(g[1], g[3]) -> 0 .. 1]}
    : g \in {<< 1, 1, 2 >>, << 3, 2, 2 >>, << 3, 1, 2 >>, << 4, 1, 1 >>, << 4, 3, 1 >>, << 5, 2, 2 >>}}

Spans(n) == {Span(p[1], p[2]) : p \in {q \in (0 .. n) \X (0 .. n) : q[1] < q[2]}}

Segmentations ==
  {s \in BoundedSeq(Spans(6), 3) : Ordered(s)}

ScenesCut(cuts) ==
  LET marks == SortedBy(SetToSeq(cuts \cup {0, 5}), LAMBDA x : << x >>)
  IN [i \in 1 .. Len(marks) - 1 |-> Span(marks[i], marks[i + 1])]

MCTurns == {<< >>,
            << [start |-> 0, end |-> 3, speaker |-> 1], [start |-> 2, end |-> 4, speaker |-> 2] >>}

MCStories ==
  {[segments |-> segments, gap |-> gap, sentence |-> 2, scenes |-> ScenesCut(cuts),
    turns |-> turns,
    frames |-> << [scene |-> 1, time |-> 0, caption |-> 1, ocr |-> 0],
                  [scene |-> 1, time |-> 1, caption |-> 1, ocr |-> 3],
                  [scene |-> 2, time |-> 3, caption |-> 0, ocr |-> 2] >>,
    streams |-> << << [start |-> 1, end |-> 4, text |-> 1], [start |-> 4, end |-> 5, text |-> 2] >>,
                   << [start |-> 1, end |-> 2, text |-> 1] >> >>,
    events |-> << [start |-> 1, end |-> 3, label |-> 1], [start |-> 5, end |-> 6, label |-> 2] >>,
    chapters |-> << [start |-> 0, end |-> 2, title |-> 7], [start |-> 2, end |-> 4, title |-> 8] >>]
     : segments \in Segmentations, gap \in 0 .. 1, turns \in MCTurns,
       cuts \in {c \in SUBSET (1 .. 4) : Cardinality(c) <= 2}}

MCQuestions ==
  [match : [1 .. 3 -> 0 .. 2], similarity : [1 .. 3 -> 0 .. 2], least : {1}, topK : 1 .. 3]

Tops == {<< >>, << 2 >>, << 3 >>, << 1, 3 >>, << 3, 2 >>, << 2, 3, 1 >>}

MCBudgets ==
  [of : {"query"}, fixed : {4}, nothing : {2}, join : {0, 3}, slack : -1 .. 1,
   toc : {<< 0, 0, 0 >>}, full : [1 .. 3 -> {5, 9}], compact : {<< 4, 4, 4 >>, << 5, 4, 7 >>},
   max : {5, 10, 14, 20}, top : Tops, adjacent : 0 .. 1]
  \cup
  [of : {"video"}, fixed : {4}, nothing : {0}, join : {0, 3}, slack : -1 .. 1,
   toc : {<< 1, 3, 1 >>, << 3, 1, 2 >>}, full : [1 .. 3 -> {5, 9}],
   compact : {<< 4, 4, 4 >>, << 5, 4, 7 >>}, max : {3, 10, 14, 20, 30}]
=============================================================================
