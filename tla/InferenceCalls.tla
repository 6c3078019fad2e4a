--------------------------- MODULE InferenceCalls ---------------------------
(***************************************************************************)
(* inference/http/provider.py: HTTPInferenceProvider.infer under the        *)
(* deadline of InferenceGateway.infer (inference/gateway.py), several calls *)
(* at once, against a model server of which only the JobServer contract is  *)
(* used, over a network that delays, loses and answers late.                *)
(*                                                                          *)
(* A request travels in a worker thread that nobody can stop: a request the *)
(* call has given up may still reach the server.  Time is the order of the  *)
(* actions: a timeout, a deadline and the end of a delay may come at any    *)
(* moment.                                                                  *)
(*   job, owner   the server's registry (JobServer)                         *)
(*   call         of each call: where it stands (pc), the operation of      *)
(*                _request_json it is in and the tries it used, the request *)
(*                in flight or its reply, remote_request_id (confirmed: by  *)
(*                a reply), the id in the path of the DELETE (target), what *)
(*                to return once the DELETE is over (verdict), the result   *)
(*   late         requests given up that may still reach the server; of two *)
(*                POSTs, or DELETEs, of a call one is kept, and of a    *)
(*                shielded DELETE nobody awaits no retry                    *)
(*   breaker      the provider's _CircuitBreaker; "lapsed": the recovery    *)
(*                time is over and nobody has asked since                   *)
(*   caps         capabilities are cached                                   *)
(*   acked, forgotten   history: calls whose DELETE was answered, ids the   *)
(*                server has forgotten                                      *)
(***************************************************************************)
EXTENDS Naturals, FiniteSets

CONSTANTS Calls,            \* infer calls, each with a request id of its own
          Keys, KeyOf,      \* [Calls -> Keys], request.idempotency_key
          MaxTries,         \* retry_policy.max_attempts
          Threshold,        \* retry_policy.circuit_failure_threshold
          MaxLate,          \* bound on late: a request beyond it is lost
          None

ASSUME CallsAssumption ==
  /\ KeyOf \in [Calls -> Keys]
  /\ MaxTries \in Nat \ {0} /\ Threshold \in Nat \ {0}
  /\ MaxLate \in Nat
  /\ None \notin Calls /\ None \notin Keys

VARIABLES job, owner, call, late, breaker, caps, acked, forgotten

serverVars == <<job, owner>>
clientVars == <<call, late, breaker, caps>>
vars == <<serverVars, clientVars, acked, forgotten>>

Server == INSTANCE JobServer WITH Ids <- Calls

\* What the server answers: the job found, 404, 429, or the capabilities,
\* which fit the request or do not.
JobReply(d, status) == [kind |-> "job", id |-> d, status |-> status]
Reply(kind) == [kind |-> kind, id |-> None, status |-> None]
Pending == Reply("pending")    \* a request the server has not seen
Nothing == Reply("nothing")
Replies == {JobReply(d, status) : d \in Calls,
                                  status \in {"queued", "running"} \cup Server!Ended}
             \cup {Reply(kind) : kind \in {"missing", "busy", "caps", "unfit"}}

Verdicts == {"timeout", "deadline", "raised"}
Outcomes == Server!Ended \cup Verdicts
              \cup {"unavailable", "limited", "missing", "unfit"}
ASSUME NoneIsNoOutcome == None \notin Outcomes
Operations == {"CAPS", "POST", "GET", "DELETE"}

TypeOK ==
  /\ job \in [Calls -> {"unknown", "queued", "running"} \cup Server!Ended]
  /\ owner \in [Keys -> Calls \cup {None}]
  /\ call \in [Calls ->
       [pc : {"idle", "sending", "waiting", "returned"}, op : Operations,
        tries : 0..MaxTries, request : Replies \cup {Pending, Nothing},
        remote : Calls, target : Calls, confirmed : BOOLEAN,
        verdict : Verdicts \cup {None}, outcome : Outcomes \cup {None}]]
  /\ late \in SUBSET (Calls \X {"POST", "DELETE"})
  /\ breaker \in [state : {"closed", "open", "lapsed"}, failures : 0..Threshold]
  /\ caps \in BOOLEAN
  /\ acked \in SUBSET Calls /\ forgotten \in SUBSET Calls

Closed == [state |-> "closed", failures |-> 0]

Init ==
  /\ Server!Init
  /\ call = [c \in Calls |->
       [pc |-> "idle", op |-> "CAPS", tries |-> 0, request |-> Nothing,
        remote |-> c, target |-> c, confirmed |-> FALSE, verdict |-> None, outcome |-> None]]
  /\ late = {}
  /\ breaker = Closed
  /\ caps = FALSE
  /\ acked = {} /\ forgotten = {}
-----------------------------------------------------------------------------
(***************************************************************************)
(* One run of the client between two awaits, as a pair of the call and the  *)
(* breaker that it leaves behind.                                           *)
(***************************************************************************)
\* _CircuitBreaker.allow, success and failure
Allowed(b) == IF b.state = "lapsed" THEN Closed ELSE b

Failure(b) == IF b.failures + 1 >= Threshold
              THEN [state |-> "open", failures |-> Threshold]
              ELSE [b EXCEPT !.failures = @ + 1]

Leave(r, outcome) ==
  [r EXCEPT !.pc = "returned", !.op = "CAPS", !.tries = 0, !.request = Nothing,
            !.outcome = outcome]

Sent(r, b, op, n) ==
  <<[r EXCEPT !.pc = "sending", !.op = op, !.tries = n, !.request = Pending],
    Allowed(b)>>

\* _active_jobs.get(d, d)
Resolved(d) ==
  IF call[d].confirmed /\ call[d].pc # "returned" THEN call[d].remote ELSE d

\* (mutant) the DELETE does not ask the breaker
BestEffortUnguarded(r, b, verdict) ==
  Sent([r EXCEPT !.verdict = verdict, !.target = Resolved(r.remote)], b, "DELETE", 1)

\* (mutant) cancel does not know the id the server named
BestEffortOwnId(r, b, verdict) ==
  IF b.state = "open" THEN <<Leave(r, verdict), b>>
  ELSE Sent([r EXCEPT !.verdict = verdict], b, "DELETE", 1)

\* _cancel_best_effort: the call ends with the verdict whatever it brings.
CancelBestEffort(r, b, verdict) ==
  IF b.state = "open" THEN <<Leave(r, verdict), b>>
  ELSE Sent([r EXCEPT !.verdict = verdict, !.target = Resolved(r.remote)],
            b, "DELETE", 1)

\* _request_json raises: in infer a timeout cancels the remote job first.
Raised(r, b, code) ==
  CASE r.op = "DELETE" -> <<Leave(r, r.verdict), b>>
    [] r.op \in {"POST", "GET"} /\ code = "timeout" ->
         CancelBestEffort(r, b, "timeout")
    [] OTHER -> <<Leave(r, code), b>>

\* The head of the loop of _request_json, try n; it may be past the deadline.
Attempt(r, b, op, n) ==
  IF b.state = "open" THEN {Raised([r EXCEPT !.op = op], b, "unavailable")}
  ELSE {Sent(r, b, op, n), Raised([r EXCEPT !.op = op], Allowed(b), "timeout")}

\* _retry_delay and _poll_delay: wait, unless the deadline comes first.
Pausing(r, b) == {<<[r EXCEPT !.pc = "waiting", !.request = Nothing], b>>,
                  Raised(r, b, "timeout")}

\* A failed try is repeated after a delay or is the last one.
Retried(r, b, code) ==
  IF r.tries < MaxTries THEN Pausing(r, b) ELSE {Raised(r, b, code)}

\* gateway.infer has the capabilities; if the deadline has passed it returns,
\* else infer has its full time for the first try.
Submit(r, b) ==
  {<<Leave(r, "timeout"), b>>,
   IF b.state = "open" THEN <<Leave(r, "unavailable"), b>> ELSE Sent(r, b, "POST", 1)}

\* c makes one of the steps; a POST or DELETE the server has not seen yet goes
\* on in its worker thread when the step gives it up.
Goes(c, steps) ==
  /\ \E step \in steps : /\ call' = [call EXCEPT ![c] = step[1]]
                         /\ breaker' = step[2]
  /\ late' = IF /\ call[c].request = Pending /\ call[c].op \in {"POST", "DELETE"}
                /\ Cardinality(late) < MaxLate
             THEN late \cup {<<c, call[c].op>>} ELSE late
  /\ UNCHANGED <<serverVars, forgotten>>
-----------------------------------------------------------------------------
(***************************************************************************)
(* The calls.                                                               *)
(***************************************************************************)
\* gateway.infer: capabilities come from the cache or by a request.
Begin(c) ==
  /\ call[c].pc = "idle"
  /\ Goes(c, IF caps THEN Submit(call[c], breaker)
                     ELSE Attempt(call[c], breaker, "CAPS", 1))
  /\ UNCHANGED <<caps, acked>>

\* A delay is over.
Resume(c) ==
  /\ call[c].pc = "waiting"
  /\ Goes(c, Attempt(call[c], breaker, call[c].op, call[c].tries + 1))
  /\ UNCHANGED <<caps, acked>>

\* The try timed out or its connection failed (502, 503 and 504 count alike).
TryFails(c) ==
  /\ call[c].pc = "sending"
  /\ \E code \in {"timeout", "unavailable"} :
       Goes(c, Retried(call[c], Failure(breaker), code))
  /\ UNCHANGED <<caps, acked>>

Answered(c, kind) ==
  /\ call[c].pc = "sending"
  /\ call[c].request \in {reply \in Replies : reply.kind = kind}

ReceiveCapabilities(c) ==
  \/ /\ Answered(c, "caps")
     /\ caps' = TRUE
     /\ Goes(c, Submit(call[c], Closed))
     /\ UNCHANGED acked
  \/ /\ Answered(c, "unfit")
     /\ caps' = TRUE
     /\ Goes(c, {<<Leave(call[c], "unfit"), Closed>>})
     /\ UNCHANGED acked

\* POST and GET: the answered id is the job to poll and to cancel.  A terminal
\* job ends the call, any other is polled after a delay.
ReceiveJob(c) ==
  LET reply == call[c].request
      r == [call[c] EXCEPT !.remote = reply.id, !.confirmed = TRUE]
  IN /\ Answered(c, "job") /\ call[c].op \in {"POST", "GET"}
     /\ IF reply.status \in Server!Ended
        THEN Goes(c, {<<Leave(r, reply.status), Closed>>})
        ELSE Goes(c, Pausing([r EXCEPT !.op = "GET", !.tries = 0], Closed))
     /\ UNCHANGED <<caps, acked>>

\* DELETE: found or not, the call is over.
ReceiveCancelled(c) ==
  /\ Answered(c, "job") \/ Answered(c, "missing")
  /\ call[c].op = "DELETE"
  /\ Goes(c, {<<Leave(call[c], call[c].verdict), Closed>>})
  /\ acked' = acked \cup {c}
  /\ UNCHANGED caps

ReceiveMissing(c) ==
  /\ Answered(c, "missing") /\ call[c].op = "GET"
  /\ Goes(c, {Raised(call[c], Closed, "missing")})
  /\ UNCHANGED <<caps, acked>>

ReceiveBusy(c) ==
  /\ Answered(c, "busy")
  /\ Goes(c, Retried(call[c], Closed, "limited"))
  /\ UNCHANGED <<caps, acked>>

\* The call is interrupted: the remote job is cancelled first.
Interrupted(r, verdict) ==
  CASE r.op = "CAPS" -> <<Leave(r, verdict), breaker>>
    [] r.op \in {"POST", "GET"} -> CancelBestEffort(r, breaker, verdict)
    [] r.op = "DELETE" -> <<Leave(r, verdict), breaker>>

Underway(c) == call[c].pc \in {"sending", "waiting"}

\* The caller cancels the task.
Drop(c) ==
  /\ Underway(c)
  /\ Goes(c, {Interrupted(call[c], "raised")})
  /\ UNCHANGED <<caps, acked>>

\* wait_for of the gateway, whose deadline is never later than that of infer.
\* It also ends a DELETE that infer began by itself, not its own.
GatewayTimeout(c) ==
  /\ Underway(c) /\ call[c].verdict \in {None, "timeout"}
  /\ Goes(c, {Interrupted(call[c], "deadline")})
  /\ UNCHANGED <<caps, acked>>

\* _open_until and _capabilities_expires_at pass.
Lapse ==
  /\ breaker.state = "open"
  /\ breaker' = [breaker EXCEPT !.state = "lapsed"]
  /\ UNCHANGED <<serverVars, call, late, caps, acked, forgotten>>

CapabilitiesExpire ==
  /\ caps
  /\ caps' = FALSE
  /\ UNCHANGED <<serverVars, call, late, breaker, acked, forgotten>>
-----------------------------------------------------------------------------
(***************************************************************************)
(* The server.                                                              *)
(***************************************************************************)
\* (mutant) the caller's own request id is polled
PolledOwnId(c) == c

\* The id in the path of a GET
Polled(c) == call[c].remote

Snapshot(d) == IF job[d] = "unknown" THEN Reply("missing") ELSE JobReply(d, job[d])

\* The effect of a POST of c, and its reply.
Posted(c, reply) ==
  LET k == KeyOf[c] IN
  \/ /\ owner[k] # None
     /\ reply = JobReply(owner[k], job[owner[k]])
     /\ UNCHANGED serverVars
  \/ /\ Server!Submit(c, k, {})
     /\ reply = JobReply(c, "queued")
  \/ /\ owner[k] = None
     /\ reply = Reply("busy")
     /\ UNCHANGED serverVars

\* (mutant) cancel does not look whether the job has ended
DeletedTerminal(d, reply) ==
  IF job[d] # "unknown"
  THEN /\ job' = [job EXCEPT ![d] = "cancelled"] /\ UNCHANGED owner
       /\ reply = JobReply(d, "cancelled")
  ELSE reply = Snapshot(d) /\ UNCHANGED serverVars

\* The effect of a DELETE of job d, and its reply.
Deleted(d, reply) ==
  IF job[d] \in {"queued", "running"}
  THEN Server!End(d, "cancelled") /\ reply = JobReply(d, "cancelled")
  ELSE reply = Snapshot(d) /\ UNCHANGED serverVars

Serve(c) ==
  /\ call[c].request = Pending
  /\ \E reply \in Replies :
       /\ call' = [call EXCEPT ![c].request = reply]
       /\ CASE call[c].op = "CAPS" ->
                 reply.kind \in {"caps", "unfit"} /\ UNCHANGED serverVars
            [] call[c].op = "POST" -> Posted(c, reply)
            [] call[c].op = "GET" -> reply = Snapshot(Polled(c)) /\ UNCHANGED serverVars
            [] call[c].op = "DELETE" -> Deleted(call[c].target, reply)
  /\ UNCHANGED <<late, breaker, caps, acked, forgotten>>

\* A request that was given up arrives; nobody reads the reply.
LateArrives(c, op) ==
  /\ <<c, op>> \in late
  /\ late' = late \ {<<c, op>>}
  /\ \E reply \in Replies : IF op = "POST" THEN Posted(c, reply)
                                           ELSE Deleted(call[c].target, reply)
  /\ UNCHANGED <<call, breaker, caps, acked, forgotten>>

\* The coroutine of the job, _execute: all that the contract allows.  Its gateway
\* may answer CANCELLED and the teardown cancels the coroutine: a job may end
\* cancelled though no client asked.
JobRuns(d) ==
  /\ Server!Begin(d) \/ \E status \in Server!Ended : Server!End(d, status)
  /\ UNCHANGED <<clientVars, acked, forgotten>>

ServerForgets(d) ==
  /\ job[d] \in Server!Ended
  /\ Server!Forget({d})
  /\ forgotten' = forgotten \cup {d}
  /\ UNCHANGED <<clientVars, acked>>

ClientStep(c) ==
  \/ Begin(c) \/ Resume(c) \/ TryFails(c) \/ ReceiveCapabilities(c)
  \/ ReceiveJob(c) \/ ReceiveCancelled(c) \/ ReceiveMissing(c) \/ ReceiveBusy(c)
  \/ Drop(c) \/ GatewayTimeout(c)

Next ==
  \/ \E c \in Calls : \/ ClientStep(c) \/ Serve(c) \/ JobRuns(c) \/ ServerForgets(c)
                      \/ \E op \in {"POST", "DELETE"} : LateArrives(c, op)
  \/ Lapse \/ CapabilitiesExpire

Spec == Init /\ [][Next]_vars
-----------------------------------------------------------------------------
\* docs/07: a call that timed out or was cancelled sends its DELETE to the job
\* the server named.  When that was answered the job has ended, and nothing
\* revives it, no late POST, no other call, while the server forgets no job of
\* the key.
DeleteReaches ==
  \A c \in acked :
     call[c].confirmed /\ (\A d \in forgotten : KeyOf[d] # KeyOf[c])
       => job[call[c].remote] \in Server!Ended

\* The calls are of their types and their DELETEs work.
CancellationReaches == TypeOK /\ DeleteReaches

\* ADR-0022: a call recovered under another request id polls that id.  It is
\* told that its job does not exist only when the server has dropped the job.
MissingMeansForgotten ==
  \A c \in Calls : call[c].outcome = "missing" => call[c].remote \in forgotten

\* The result a call brings home is that of a job with its semantics, and stays
\* that job's result: no DELETE under way, of this call or of another, takes it
\* back while the server keeps the job.
AnswersStand ==
  \A c \in Calls : call[c].outcome \in Server!Ended =>
     /\ KeyOf[call[c].remote] = KeyOf[c]
     /\ call[c].remote \in forgotten \/ job[call[c].remote] = call[c].outcome

\* Two calls with the same semantics are told the same, whichever of them POSTed
\* the job, polled it or repeated a lost POST, while the server keeps it.
AnswersAgree ==
  \A c, d \in Calls :
     /\ KeyOf[c] = KeyOf[d]
     /\ {call[c].outcome, call[d].outcome} \subseteq Server!Ended
     /\ \A e \in forgotten : KeyOf[e] # KeyOf[c]
     => call[c].outcome = call[d].outcome

\* What a call is told about its job is true of the server.
AnswersJustified == MissingMeansForgotten /\ AnswersStand /\ AnswersAgree

\* A step that leaves the circuit open starts no request, not even a DELETE:
\* calls that were under way when it opened fall silent too.
OpenCircuitSilent ==
  [][breaker'.state # "closed" =>
       \A c \in Calls : call'[c].request = Pending =>
          call[c].request = Pending /\ call'[c].op = call[c].op]_vars

\* docs/07: the id of the server is used to poll and to cancel.
CancelledByNamedId ==
  \A c \in Calls :
     call[c].op = "DELETE" /\ call[c].confirmed => call[c].target = call[c].remote
=============================================================================
