---------------------------- MODULE SceneSearch ----------------------------
(***************************************************************************)
(* How a question finds scenes and how their cards are fitted into a token   *)
(* budget: the fusion of the keyword and the semantic ranking, the scenes    *)
(* next to the ones found, the query context (services/query.py) and the     *)
(* context of the whole video (Stage 11_context).                            *)
(*                                                                          *)
(* Scenes are 1 .. n in the order of the timeline.  A text is its number of  *)
(* tokens; the tokenizer counts join tokens between two blocks, and a text   *)
(* cut to n tokens counts n + slack of them when it is read again.           *)
(***************************************************************************)
EXTENDS SceneCards

RRF_K == 60

ByScore(scenes, score) == SortedBy(scenes, LAMBDA s : << -score[s], s >>)

\* The scenes that match a word, the best first.
KeywordHits(match) ==
  ByScore(SelectSeq([s \in DOMAIN match |-> s], LAMBDA s : match[s] > 0), match)

\* Every scene with an embedding, the most similar first.
SemanticHits(similarity) == ByScore([s \in DOMAIN similarity |-> s], similarity)

Accepted(hits, similarity, least) == SelectSeq(hits, LAMBDA s : similarity[s] >= least)

\* 1 / (RRF_K + rank), in units that make it an integer for n ranks.
Share(rank, n) ==
  FoldLeft(LAMBDA product, r : product * (RRF_K + r), 1, [r \in 1 .. n |-> r])
    \div (RRF_K + rank)

\* (mutant) a later ranking replaces the score of an earlier one
ScoresReplaced(rankings, n) ==
  [s \in 1 .. n |->
     FoldLeft(LAMBDA sum, ranking :
                IF Contains(ranking, s)
                THEN Share(CHOOSE r \in DOMAIN ranking : ranking[r] = s, n) ELSE sum,
              0, rankings)]

Scores(rankings, n) ==
  [s \in 1 .. n |->
     FoldLeft(LAMBDA sum, ranking :
                sum + IF Contains(ranking, s)
                      THEN Share(CHOOSE r \in DOMAIN ranking : ranking[r] = s, n) ELSE 0,
              0, rankings)]

Fused(rankings, n) ==
  ByScore(SelectSeq([s \in 1 .. n |-> s],
                    LAMBDA s : \E i \in DOMAIN rankings : Contains(rankings[i], s)),
          Scores(rankings, n))

RankIn(hits, s) == IF Contains(hits, s) THEN CHOOSE r \in DOMAIN hits : hits[r] = s ELSE 0

\* The answer to a question: its best scenes and why each of them is one.
Matches(q) ==
  LET keyword == KeywordHits(q.match)
      semantic == SemanticHits(q.similarity)
      fused == Fused(<< keyword, Accepted(semantic, q.similarity, q.least) >>, Len(q.match))
      selected == SubSeq(fused, 1, Min({q.topK, Len(fused)}))
  IN [rank \in DOMAIN selected |->
        [scene |-> selected[rank],
         keyword |-> RankIn(keyword, selected[rank]),
         semantic |-> RankIn(semantic, selected[rank]),
         reasons |-> {why \in {"keyword", "semantic"} :
                        IF why = "keyword" THEN Contains(keyword, selected[rank])
                        ELSE q.similarity[selected[rank]] >= q.least}]]

-----------------------------------------------------------------------------
\* A scene, then the scenes at distance 1, 2, .. before and after it.
Around(scene, adjacent) ==
  << scene >> \o FlattenSeq([d \in 1 .. adjacent |-> << scene - d, scene + d >>])

\* The scenes found and their neighbours, each once, in the order they get tokens.
Expanded(n, top, adjacent) ==
  FoldLeft(LAMBDA found, s : IF s \in 1 .. n /\ ~Contains(found, s)
                             THEN Append(found, s) ELSE found,
           << >>, FlattenSeq([i \in DOMAIN top |-> Around(top[i], adjacent)]))

\* A text cut to at most n tokens, as it counts afterwards.
Truncated(size, n, slack) == IF size <= n THEN size ELSE Max({0, n + slack})

\* The tokens of a context of these blocks: what is always there, and per
\* block its line in the table of contents, the separator and the text.
Tokens(t, blocks) ==
  FoldLeft(LAMBDA sum, b : sum + t.toc[b.scene] + t.join + b.size, t.fixed, blocks)

\* (mutant) the first cut is taken without counting again
FitCardUncounted(t, included, scene) ==
  LET available == t.max - Tokens(t, included) - 2 IN
  IF available <= 0 THEN 0 ELSE Truncated(t.compact[scene], available, t.slack)

\* The compact card cut until the whole counts at most the maximum, 0 when
\* nothing of it fits.
FitCard(t, included, scene) ==
  LET available == t.max - Tokens(t, included) - 2
      cut(n) == Truncated(t.compact[scene], n, t.slack)
      fitting == {n \in 1 .. available :
                    /\ cut(n) > 0
                    /\ Tokens(t, Append(included, [scene |-> scene, size |-> cut(n)])) <= t.max}
  IN IF fitting = {} THEN 0 ELSE cut(Max(fitting))

\* One more card: whole if it fits, else cut, else left out.
WithCard(t, context, scene) ==
  LET whole == Append(context.included, [scene |-> scene, size |-> t.full[scene]])
      fitted == FitCard(t, context.included, scene)
  IN IF Tokens(t, whole) <= t.max THEN [context EXCEPT !.included = whole]
     ELSE IF fitted = 0 THEN [context EXCEPT !.excluded = Append(@, scene)]
     ELSE [context EXCEPT !.included = Append(@, [scene |-> scene, size |-> fitted]),
                          !.truncated = @ \cup {scene}]

Selection(t, candidates) ==
  FoldLeft(LAMBDA context, scene : WithCard(t, context, scene),
           [included |-> << >>, excluded |-> << >>, truncated |-> {}], candidates)

\* A whole text cut to the maximum if it counts more.
FitWholeText(t, size) == IF size <= t.max THEN size ELSE Truncated(size, t.max, t.slack)

QueryContext(t, top, adjacent) ==
  LET candidates == Expanded(Len(t.full), top, adjacent)
      chosen == Selection(t, candidates)
  IN [candidates |-> candidates, chosen |-> chosen,
      tokens |-> IF candidates = << >> THEN FitWholeText(t, t.fixed + t.nothing)
                 ELSE Tokens(t, chosen.included)]

\* The context of the whole video: every card in turn, the text cut at the end
\* if even its fixed part counts too much.
StaticContext(t) ==
  LET candidates == [s \in DOMAIN t.full |-> s]
      chosen == Selection(t, candidates)
  IN [candidates |-> candidates, chosen |-> chosen,
      tokens |-> FitWholeText(t, Tokens(t, chosen.included))]
=============================================================================
