-------------------------- MODULE MCPipelineEngine --------------------------
(* Plans for TLC.  "join": two independent Stages and one that needs both.   *)
(* "diamond": a Stage whose artifact two chains read side by side, and one   *)
(* Stage that reads two artifacts.                                           *)
EXTENDS PipelineEngine

CONSTANTS sA, sB, sC, sD

JoinStages == {sA, sB, sC}
JoinPlan == <<sA, sB, sC>>
JoinDeps == [s \in JoinStages |-> IF s = sC THEN {sA, sB} ELSE {}]
JoinInputs == [s \in JoinStages |-> IF s = sC THEN {sA, sB} ELSE {}]
JoinReplies == [s \in JoinStages |->
                  CASE s = sA -> {Produced("v1"), Produced(None), Transient, Failed}
                    [] s = sB -> {Produced("v1"), Skipped("v1"), Skipped(None), Failed}
                    [] s = sC -> {Produced("v1"), Produced(Undeclared)}]

\* sC reads both artifacts, sD runs beside it.
DiamondStages == {sA, sB, sC, sD}
DiamondPlan == <<sA, sB, sC, sD>>
DiamondDeps == [s \in DiamondStages |->
                  CASE s = sA -> {} [] s = sC -> {sB} [] OTHER -> {sA}]
DiamondInputs == [s \in DiamondStages |->
                    CASE s = sA -> {} [] s = sC -> {sA, sB} [] OTHER -> {sA}]
DiamondReplies == [s \in DiamondStages |->
                     CASE s = sA -> {Produced("v1"), Produced("v2"), Skipped("v2")}
                       [] s = sB -> {Produced("v1"), Skipped("v1"), Skipped("v2"),
                                     Transient}
                       [] OTHER -> {Produced("v1")}]
=============================================================================
