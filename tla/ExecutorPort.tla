---------------------------- MODULE ExecutorPort ----------------------------
(***************************************************************************)
(* What the Executor Port (executors/contracts.py) promises its caller, the *)
(* PipelineEngine: an accepted task is run at most once and under a bounded *)
(* concurrency, its terminal result appears exactly once and never changes, *)
(* and a task withdrawn before it started ends cancelled without running.   *)
(***************************************************************************)
EXTENDS Naturals, FiniteSets

CONSTANTS Tasks,            \* the StageTask attempts a caller may submit
          KeyOf,            \* [Tasks -> idempotency keys]
          Results,          \* terminal StageResults
          StatusOf,         \* [Results -> Terminal]
          MaxConcurrency,   \* slots
          None              \* "no result yet"

VARIABLES state,            \* [Tasks -> ExecutionState or "absent"]
          result            \* [Tasks -> Results \cup {None}]

portVars == <<state, result>>

Terminal == {"succeeded", "skipped", "failed", "cancelled"}

Running == {t \in Tasks : state[t] = "running"}

Init == /\ state = [t \in Tasks |-> "absent"]
        /\ result = [t \in Tasks |-> None]

\* A task is accepted unless its idempotency key already names another one.
Accept(t) == /\ state[t] = "absent"
             /\ \A u \in Tasks : KeyOf[u] = KeyOf[t] => state[u] = "absent"
             /\ state' = [state EXCEPT ![t] = "queued"]
             /\ UNCHANGED result

Begin(t) == /\ state[t] = "queued"
            /\ Cardinality(Running) < MaxConcurrency
            /\ state' = [state EXCEPT ![t] = "running"]
            /\ UNCHANGED result

Finish(t) == /\ state[t] \in {"queued", "running"}
             /\ \E r \in Results :
                  /\ state[t] = "queued" => StatusOf[r] = "cancelled"
                  /\ state' = [state EXCEPT ![t] = StatusOf[r]]
                  /\ result' = [result EXCEPT ![t] = r]

\* The event loop of the process goes away: whatever is open ends cancelled, but
\* for some tasks that have not begun.
Abandon(r) == /\ StatusOf[r] = "cancelled"
              /\ \E lost \in SUBSET {t \in Tasks : state[t] = "queued"} :
                   LET open == {t \in Tasks : state[t] \in {"queued", "running"}} \ lost
                   IN /\ state' = [t \in Tasks |-> IF t \in open THEN "cancelled"
                                                               ELSE state[t]]
                      /\ result' = [t \in Tasks |-> IF t \in open THEN r
                                                                ELSE result[t]]

Next == \/ \E t \in Tasks : Accept(t) \/ Begin(t) \/ Finish(t)
        \/ \E r \in Results : Abandon(r)

Spec == Init /\ [][Next]_portVars
=============================================================================
