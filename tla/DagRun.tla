------------------------------- MODULE DagRun -------------------------------
(***************************************************************************)
(* What PipelineEngine.run promises of one run of a plan, whatever its      *)
(* executor, cache and retries do: a Stage is launched once, only after all *)
(* its dependencies ended well and never after some Stage went wrong, the   *)
(* run is closed only when nothing runs, and its verdict is the one the     *)
(* Stage results justify.                                                   *)
(***************************************************************************)
CONSTANTS Stages, Deps      \* Deps \in [Stages -> SUBSET Stages]

VARIABLES status,           \* [Stages -> the Stage's part in the run]
          verdict           \* "idle", "open", "aborted" or a RunStatus

dagVars == <<status, verdict>>

Good == {"succeeded", "skipped"}
Bad == {"failed", "cancelled", "broken"}   \* "broken": its coroutine raised

Quiet == \A s \in Stages : status[s] # "running"

Launchable == {s \in Stages : /\ status[s] = "waiting"
                              /\ \A d \in Deps[s] : status[d] \in Good}

Init == status = [s \in Stages |-> "waiting"] /\ verdict = "idle"

Running(S) == [s \in Stages |-> IF s \in S THEN "running" ELSE status[s]]

Open == /\ verdict = "idle"
        /\ verdict' \in {"open", "aborted"}
        /\ \E S \in SUBSET Launchable : status' = Running(S)

Launch == /\ verdict = "open"
          /\ \A s \in Stages : status[s] \notin Bad
          /\ \E S \in SUBSET Launchable : status' = Running(S)
          /\ UNCHANGED verdict

Settle(s) == /\ status[s] = "running"
             /\ \E st \in Good \cup Bad : status' = [status EXCEPT ![s] = st]
             /\ UNCHANGED verdict

Justified(v) ==
  CASE v = "succeeded" -> \A s \in Stages : status[s] \in Good
    [] v = "failed"    -> \E s \in Stages : status[s] = "failed"
    [] v = "cancelled" -> /\ \E s \in Stages : status[s] \notin Good
                          /\ \A s \in Stages : status[s] # "failed"
    [] v = "aborted"   -> TRUE

Close == /\ verdict = "open" /\ Quiet
         /\ \E v \in {"succeeded", "failed", "cancelled", "aborted"} :
              Justified(v) /\ verdict' = v
         /\ UNCHANGED status

\* The process dies, or a later process takes the same run id up again.
Restart == /\ status' = [s \in Stages |-> "waiting"]
           /\ verdict' = "idle"

Next == Open \/ Launch \/ Close \/ Restart \/ \E s \in Stages : Settle(s)

Spec == Init /\ [][Next]_dagVars
=============================================================================
