------------------------- MODULE MCOutputWorkspace -------------------------
(* Two Stages for TLC: the first has a model, the second reads the first and  *)
(* is switched off by one of the two settings, which also differ in what the  *)
(* first Stage is asked for.                                                  *)
EXTENDS OutputWorkspace

PairDeps == [s \in 1..2 |-> IF s = 1 THEN {} ELSE {1}]
PairReads == [s \in 1..2 |-> IF s = 1 THEN {Video} ELSE {1}]
ModelStages == {1}
PairConfig == [x \in {"low", "high"} |->
                 [s \in 1..2 |-> CASE s = 1 -> x
                                    [] s = 2 -> IF x = "high" THEN "off" ELSE "on"]]
OffConfigs == {"off"}

All == [stage |-> None, from |-> None, to |-> None]
FromSecond == [stage |-> None, from |-> 2, to |-> None]
WholeOrPart == {All, FromSecond}
ForceSome == {{}, {2}}

Interchangeable ==
  Permutations(Videos) \cup Permutations(Revisions) \cup Permutations(RunIds)
=============================================================================
