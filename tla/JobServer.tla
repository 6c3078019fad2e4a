------------------------------ MODULE JobServer ------------------------------
(***************************************************************************)
(* What a model server promises its clients (ADR-0022, ADR-0024), whatever  *)
(* its threads do: a job is found by its request id and by the idempotency  *)
(* key it was submitted with, lives queued, running, ended, and is forgotten *)
(* only when it has ended.                                                  *)
(***************************************************************************)
CONSTANTS Ids,              \* request ids
          Keys,             \* idempotency keys
          None

VARIABLES job,              \* [Ids -> status or "unknown"]
          owner             \* [Keys -> Ids \cup {None}]

serverVars == <<job, owner>>

Ended == {"succeeded", "failed", "cancelled"}

Init == /\ job = [d \in Ids |-> "unknown"]
        /\ owner = [k \in Keys |-> None]

EndedJobs == {d \in Ids : job[d] \in Ended}

\* A new job; the jobs in `gone` make room for it.
Submit(d, k, gone) ==
  /\ job[d] = "unknown" /\ owner[k] = None
  /\ gone \subseteq EndedJobs
  /\ job' = [e \in Ids |-> IF e = d THEN "queued"
                           ELSE IF e \in gone THEN "unknown" ELSE job[e]]
  /\ owner' = [l \in Keys |-> IF l = k THEN d
                              ELSE IF owner[l] \in gone THEN None ELSE owner[l]]

Begin(d) == /\ job[d] = "queued"
            /\ job' = [job EXCEPT ![d] = "running"]
            /\ UNCHANGED owner

\* A job that has not started can only be cancelled.
End(d, status) == /\ \/ job[d] = "running" /\ status \in Ended
                     \/ job[d] = "queued" /\ status = "cancelled"
                  /\ job' = [job EXCEPT ![d] = status]
                  /\ UNCHANGED owner

\* Submissions of other clients make the server forget ended jobs.
Forget(gone) ==
  /\ gone \subseteq EndedJobs
  /\ job' = [d \in Ids |-> IF d \in gone THEN "unknown" ELSE job[d]]
  /\ owner' = [k \in Keys |-> IF owner[k] \in gone THEN None ELSE owner[k]]

Next ==
  \/ \E d \in Ids : \/ \E k \in Keys, gone \in SUBSET EndedJobs : Submit(d, k, gone)
                    \/ Begin(d)
                    \/ \E status \in Ended : End(d, status)
  \/ \E gone \in SUBSET EndedJobs : Forget(gone)

Spec == Init /\ [][Next]_serverVars
=============================================================================
