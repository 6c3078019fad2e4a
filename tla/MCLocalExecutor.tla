--------------------------- MODULE MCLocalExecutor ---------------------------
(* Four StageTasks: tA and tB share an idempotency key (a conflicting resend), *)
(* tC is a second task for the attempt of tA, tD is independent.               *)
EXTENDS LocalExecutor

CONSTANTS tA, tB, tC, tD

MCTasks == {tA, tB, tC, tD}
MCKeys == {"k1", "k2", "k3"}
MCAttemptIds == {"a1", "a2", "a3"}
MCKeyOf == [t \in MCTasks |-> IF t \in {tA, tB} THEN "k1"
                              ELSE IF t = tC THEN "k2" ELSE "k3"]
MCAttemptOf == [t \in MCTasks |-> IF t \in {tA, tC} THEN "a1"
                                  ELSE IF t = tB THEN "a2" ELSE "a3"]
MCResults == {"done", "skip", "error", "stopped"}
MCStatusOf == [r \in MCResults |-> CASE r = "done" -> "succeeded"
                                     [] r = "skip" -> "skipped"
                                     [] r = "error" -> "failed"
                                     [] r = "stopped" -> "cancelled"]
=============================================================================
