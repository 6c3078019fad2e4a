------------------------- MODULE InferenceCallsProofs -------------------------
(***************************************************************************)
(* Proofs about InferenceCalls for any calls and idempotency keys, any      *)
(* numbers of tries, any circuit threshold and any number of requests that  *)
(* arrive after they were given up.                                         *)
(***************************************************************************)
EXTENDS InferenceCalls, TLAPS

Ended == Server!Ended
Records ==
  [pc : {"idle", "sending", "waiting", "returned"}, op : Operations,
   tries : 0..MaxTries, request : Replies \cup {Pending, Nothing},
   remote : Calls, target : Calls, confirmed : BOOLEAN,
   verdict : Verdicts \cup {None}, outcome : Outcomes \cup {None}]
Breakers == [state : {"closed", "open", "lapsed"}, failures : 0..Threshold]

\* The server named job d at some time: it has it still or has forgotten it.
Named(d) == owner[KeyOf[d]] = d \/ d \in forgotten
Unforgotten(k) == \A d \in forgotten : KeyOf[d] # k

\* Job d has the result status, or the server has forgotten that it had.
Stands(d, status) == d \in forgotten \/ job[d] = status

\* The ids a call uses are of its key, and known to the server once it named one.
IdsOK(c, r) ==
  /\ KeyOf[r.remote] = KeyOf[c] /\ KeyOf[r.target] = KeyOf[c]
  /\ r.confirmed => Named(r.remote)
  /\ r.op = "GET" => r.confirmed
  /\ r.op = "DELETE" => r.verdict # None /\ (r.confirmed => Named(r.target))

\* A reply under way says what was true at the server, and still is as far as the
\* server forgot no job of the key.
ReplyOK(c, r) ==
  /\ r.request.kind = "job" /\ r.op \in {"POST", "GET"} =>
       /\ KeyOf[r.request.id] = KeyOf[c] /\ Named(r.request.id)
       /\ r.request.status \in Ended => Stands(r.request.id, r.request.status)
  /\ r.request.kind = "missing" /\ r.op = "GET" => r.remote \in forgotten
  /\ /\ r.request.kind \in {"job", "missing"} /\ r.op = "DELETE"
     /\ r.confirmed /\ Unforgotten(KeyOf[c])
     => job[r.remote] \in Ended

\* Where a call stands.
PlaceOK(r) ==
  /\ r.pc = "sending" \/ r.request = Nothing
  /\ r.pc = "waiting" => r.tries < MaxTries
  /\ r.outcome # None => r.pc = "returned"

\* What a call returned.
OutcomeOK(r) ==
  /\ r.outcome = "missing" => r.remote \in forgotten
  /\ r.outcome \in Ended => r.confirmed /\ Stands(r.remote, r.outcome)

CallOK(c, r) ==
  r \in Records /\ IdsOK(c, r) /\ ReplyOK(c, r) /\ PlaceOK(r) /\ OutcomeOK(r)

\* The registry holds one job of each key, under the id of a call with that key.
ServerOK ==
  /\ \A k \in Keys : owner[k] # None => KeyOf[owner[k]] = k /\ job[owner[k]] # "unknown"
  /\ \A d \in Calls : job[d] # "unknown" => owner[KeyOf[d]] = d

AckedOK ==
  \A c \in acked :
    /\ call[c].pc = "returned"
    /\ call[c].confirmed /\ Unforgotten(KeyOf[c]) => job[call[c].remote] \in Ended

\* The inductive invariant.
IInv == TypeOK /\ ServerOK /\ AckedOK /\ \A c \in Calls : CallOK(c, call[c])
-----------------------------------------------------------------------------
(***************************************************************************)
(* The steps of the client: what each of them leaves behind is a call that  *)
(* is in order, and it starts no request while the circuit is open.         *)
(***************************************************************************)
LEMMA ReplyFacts ==
  /\ Pending \notin Replies /\ Nothing \notin Replies /\ Pending # Nothing
  /\ Pending.kind = "pending" /\ Nothing.kind = "nothing"
  /\ \A reply \in Replies : reply.kind = "job" =>
       reply.id \in Calls /\ reply.status \in {"queued", "running"} \cup Ended
  <1>1. \A reply \in Replies : reply.kind \in {"job", "missing", "busy", "caps", "unfit"}
    BY DEF Replies, Reply, JobReply
  <1>2. Pending.kind = "pending" /\ Nothing.kind = "nothing"
    BY DEF Pending, Nothing, Reply
  <1>3. ASSUME NEW reply \in Replies, reply.kind = "job"
        PROVE  reply.id \in Calls /\ reply.status \in {"queued", "running"} \cup Ended
    <2>1. reply \in {JobReply(d, status) : d \in Calls,
                                           status \in {"queued", "running"} \cup Server!Ended}
      BY <1>3 DEF Replies, Reply
    <2> QED BY <2>1 DEF JobReply, Ended
  <1> QED BY <1>1, <1>2, <1>3

LEMMA ClosedFacts == Closed \in Breakers
  BY CallsAssumption DEF Closed, Breakers

LEMMA AllowedFacts ==
  ASSUME NEW b \in Breakers
  PROVE  Allowed(b) \in Breakers /\ (b.state # "open" => Allowed(b).state = "closed")
  BY ClosedFacts DEF Allowed, Closed, Breakers

LEMMA FailureFacts ==
  ASSUME NEW b \in Breakers
  PROVE  Failure(b) \in Breakers
  <1>1. CASE b.failures + 1 >= Threshold
    BY <1>1, CallsAssumption DEF Failure, Breakers
  <1>2. CASE ~ (b.failures + 1 >= Threshold)
    BY <1>2, CallsAssumption DEF Failure, Breakers
  <1> QED BY <1>1, <1>2

\* A call under way as a step may leave it.
Fit(c, r) ==
  r \in Records /\ IdsOK(c, r) /\ r.outcome = None

\* A step that leaves the call and the breaker in order.
Good(c, step) ==
  /\ CallOK(c, step[1]) /\ step[2] \in Breakers
  /\ step[1].request = Pending => step[2].state = "closed"

LEMMA LeaveGood ==
  ASSUME NEW c \in Calls, NEW r, Fit(c, r), NEW b \in Breakers, NEW o \in Outcomes,
         o = "missing" => r.remote \in forgotten,
         o \in Ended => r.confirmed /\ Stands(r.remote, o)
  PROVE  Good(c, <<Leave(r, o), b>>)
  <1> DEFINE new == Leave(r, o)
  <1>1. /\ new \in Records /\ new.pc = "returned" /\ new.op = "CAPS"
        /\ new.request = Nothing /\ new.outcome = o /\ new.remote = r.remote
        /\ new.target = r.target /\ new.confirmed = r.confirmed /\ new.verdict = r.verdict
    <2>1. r \in Records /\ 0 \in 0..MaxTries
      BY CallsAssumption DEF Fit
    <2>2. new \in Records
      BY <2>1 DEF Records, Leave, Operations
    <2>3. /\ new.pc = "returned" /\ new.op = "CAPS" /\ new.request = Nothing
          /\ new.outcome = o
      BY <2>1 DEF Records, Leave
    <2>4. /\ new.remote = r.remote /\ new.target = r.target
          /\ new.confirmed = r.confirmed /\ new.verdict = r.verdict
      BY <2>1 DEF Records, Leave
    <2> QED BY <2>2, <2>3, <2>4
  <1> HIDE DEF new
  <1>2. IdsOK(c, new) /\ PlaceOK(new) /\ OutcomeOK(new)
    BY <1>1 DEF Fit, IdsOK, PlaceOK, OutcomeOK
  <1>3. ReplyOK(c, new)
    BY <1>1, ReplyFacts DEF ReplyOK
  <1>4. new.request # Pending
    BY <1>1, ReplyFacts
  <1>5. Good(c, <<new, b>>)
    BY <1>1, <1>2, <1>3, <1>4 DEF Good, CallOK
  <1> QED BY <1>5 DEF new

LEMMA SentGood ==
  ASSUME NEW c \in Calls, NEW r, Fit(c, r), NEW b \in Breakers, b.state # "open",
         NEW op \in Operations, NEW n \in 1..MaxTries,
         op = "GET" => r.confirmed,
         op = "DELETE" => r.verdict # None /\ (r.confirmed => Named(r.target))
  PROVE  Good(c, Sent(r, b, op, n))
  <1> DEFINE new == [r EXCEPT !.pc = "sending", !.op = op, !.tries = n, !.request = Pending]
  <1>1. /\ new \in Records /\ new.pc = "sending" /\ new.op = op
        /\ new.request = Pending /\ new.outcome = None /\ new.remote = r.remote
        /\ new.target = r.target /\ new.confirmed = r.confirmed /\ new.verdict = r.verdict
    <2>1. r \in Records /\ n \in 0..MaxTries /\ r.outcome = None
      BY CallsAssumption DEF Fit
    <2>2. new \in Records
      BY <2>1 DEF Records
    <2>3. new.pc = "sending" /\ new.op = op /\ new.request = Pending
      BY <2>1 DEF Records
    <2>4. /\ new.remote = r.remote /\ new.target = r.target /\ new.outcome = None
          /\ new.confirmed = r.confirmed /\ new.verdict = r.verdict
      BY <2>1 DEF Records
    <2> QED BY <2>2, <2>3, <2>4
  <1>2. Sent(r, b, op, n) = <<new, Allowed(b)>>
    BY DEF Sent
  <1> HIDE DEF new
  <1>3. IdsOK(c, new) /\ PlaceOK(new)
    BY <1>1 DEF Fit, IdsOK, PlaceOK
  <1>4. OutcomeOK(new)
    BY <1>1, NoneIsNoOutcome DEF OutcomeOK, Outcomes, Ended, Server!Ended
  <1>5. ReplyOK(c, new)
    BY <1>1, ReplyFacts DEF ReplyOK
  <1>6. Good(c, <<new, Allowed(b)>>)
    BY <1>1, <1>3, <1>4, <1>5, AllowedFacts DEF Good, CallOK
  <1> QED BY <1>2, <1>6

\* The id a DELETE goes to is of the key, and known to the server.
LEMMA ResolvedFacts ==
  ASSUME IInv, NEW d \in Calls
  PROVE  /\ Resolved(d) \in Calls /\ KeyOf[Resolved(d)] = KeyOf[d]
         /\ Named(d) => Named(Resolved(d))
  <1>1. call[d] \in Records /\ IdsOK(d, call[d])
    BY DEF IInv, CallOK
  <1> QED BY <1>1 DEF Resolved, IdsOK, Records

LEMMA VerdictFacts ==
  \A verdict \in Verdicts :
     verdict \in Outcomes /\ verdict # "missing" /\ verdict \notin Ended
  BY DEF Outcomes, Verdicts, Ended, Server!Ended

LEMMA CancelBestEffortGood ==
  ASSUME IInv, NEW c \in Calls, NEW r, Fit(c, r), NEW b \in Breakers,
         NEW verdict \in Verdicts
  PROVE  Good(c, CancelBestEffort(r, b, verdict))
  <1>1. CASE b.state = "open"
    <2>1. verdict \in Outcomes /\ verdict # "missing" /\ verdict \notin Ended
      BY VerdictFacts
    <2>2. CancelBestEffort(r, b, verdict) = <<Leave(r, verdict), b>>
      BY <1>1 DEF CancelBestEffort
    <2> QED BY <2>1, <2>2, LeaveGood
  <1>2. CASE b.state # "open"
    <2> DEFINE t == Resolved(r.remote)
               new == [r EXCEPT !.verdict = verdict, !.target = t]
    <2>1. /\ t \in Calls /\ KeyOf[t] = KeyOf[c]
          /\ r.confirmed => Named(t)
      <3>1. r.remote \in Calls /\ KeyOf[r.remote] = KeyOf[c]
            /\ (r.confirmed => Named(r.remote))
        BY DEF Fit, Records, IdsOK
      <3> QED BY <3>1, ResolvedFacts
    <2>2. CancelBestEffort(r, b, verdict) = Sent(new, b, "DELETE", 1)
      BY <1>2 DEF CancelBestEffort
    <2> HIDE DEF t
    <2>3. verdict # None
      BY NoneIsNoOutcome DEF Outcomes
    <2>4. /\ new \in Records /\ new.verdict = verdict /\ new.target = t
          /\ new.remote = r.remote /\ new.confirmed = r.confirmed
          /\ new.op = r.op /\ new.outcome = None
      BY <2>1 DEF Fit, Records
    <2> HIDE DEF new
    <2>5. Fit(c, new)
      BY <2>1, <2>3, <2>4 DEF Fit, IdsOK
    <2>6. 1 \in 1..MaxTries /\ "DELETE" \in Operations
      BY CallsAssumption DEF Operations
    <2>7. new.verdict # None /\ (new.confirmed => Named(new.target))
      BY <2>1, <2>3, <2>4
    <2> QED BY <1>2, <2>2, <2>5, <2>6, <2>7, SentGood
  <1> QED BY <1>1, <1>2

Codes == {"timeout", "unavailable", "limited", "missing"}

LEMMA RaisedGood ==
  ASSUME IInv, NEW c \in Calls, NEW r, Fit(c, r), NEW b \in Breakers,
         NEW code \in Codes, code = "missing" => r.remote \in forgotten
  PROVE  Good(c, Raised(r, b, code))
  <1>1. code \in Outcomes /\ code \notin Ended
    BY DEF Outcomes, Verdicts, Codes, Ended, Server!Ended
  <1>2. CASE r.op = "DELETE"
    <2>1. Raised(r, b, code) = <<Leave(r, r.verdict), b>>
      BY <1>2 DEF Raised
    <2>2. r.verdict \in Verdicts
      BY <1>2 DEF Fit, IdsOK, Records
    <2> QED BY <2>1, <2>2, VerdictFacts, LeaveGood
  <1>3. CASE r.op \in {"POST", "GET"} /\ code = "timeout"
    <2>1. Raised(r, b, code) = CancelBestEffort(r, b, "timeout")
      BY <1>3 DEF Raised
    <2> QED BY <2>1, CancelBestEffortGood DEF Verdicts
  <1>4. CASE r.op # "DELETE" /\ ~ (r.op \in {"POST", "GET"} /\ code = "timeout")
    <2>1. Raised(r, b, code) = <<Leave(r, code), b>>
      BY <1>4 DEF Raised
    <2> QED BY <1>1, <2>1, LeaveGood
  <1> QED BY <1>2, <1>3, <1>4

LEMMA AttemptGood ==
  ASSUME IInv, NEW c \in Calls, NEW r, Fit(c, r), NEW b \in Breakers,
         NEW op \in {r.op, "CAPS"}, NEW n \in 1..MaxTries,
         NEW step \in Attempt(r, b, op, n)
  PROVE  Good(c, step)
  <1> DEFINE s == [r EXCEPT !.op = op]
  <1>1. s \in Records /\ s.op = op /\ s.remote = r.remote /\ s.target = r.target
        /\ s.confirmed = r.confirmed /\ s.verdict = r.verdict /\ s.outcome = r.outcome
    BY DEF Fit, Records, Operations
  <1>2. \/ b.state = "open" /\ step = Raised(s, b, "unavailable")
        \/ b.state # "open" /\ step = Sent(r, b, op, n)
        \/ b.state # "open" /\ step = Raised(s, Allowed(b), "timeout")
    BY DEF Attempt
  <1> HIDE DEF s
  <1>3. Fit(c, s)
    BY <1>1 DEF Fit, IdsOK
  <1>4. op \in Operations
    BY DEF Fit, Records, Operations
  <1>5. /\ op = "GET" => r.confirmed
        /\ op = "DELETE" => r.verdict # None /\ (r.confirmed => Named(r.target))
    BY DEF Fit, IdsOK
  <1> QED BY <1>2, <1>3, <1>4, <1>5, RaisedGood, SentGood, AllowedFacts DEF Codes

LEMMA PausingGood ==
  ASSUME IInv, NEW c \in Calls, NEW r, Fit(c, r), NEW b \in Breakers,
         r.tries < MaxTries, NEW step \in Pausing(r, b)
  PROVE  Good(c, step)
  <1> DEFINE new == [r EXCEPT !.pc = "waiting", !.request = Nothing]
  <1>1. step = <<new, b>> \/ step = Raised(r, b, "timeout")
    BY DEF Pausing
  <1>2. /\ new \in Records /\ new.pc = "waiting" /\ new.request = Nothing
        /\ new.tries = r.tries /\ new.op = r.op /\ new.remote = r.remote
        /\ new.target = r.target /\ new.confirmed = r.confirmed
        /\ new.verdict = r.verdict /\ new.outcome = None
    BY DEF Fit, Records
  <1> HIDE DEF new
  <1>3. IdsOK(c, new) /\ PlaceOK(new)
    BY <1>2 DEF Fit, IdsOK, PlaceOK
  <1>4. ReplyOK(c, new) /\ new.request # Pending
    BY <1>2, ReplyFacts DEF ReplyOK
  <1>5. OutcomeOK(new)
    BY <1>2, NoneIsNoOutcome DEF OutcomeOK, Outcomes, Ended, Server!Ended
  <1>6. Good(c, <<new, b>>)
    BY <1>2, <1>3, <1>4, <1>5 DEF Good, CallOK
  <1> QED BY <1>1, <1>6, RaisedGood DEF Codes

LEMMA RetriedGood ==
  ASSUME IInv, NEW c \in Calls, NEW r, Fit(c, r), NEW b \in Breakers,
         NEW code \in Codes \ {"missing"}, NEW step \in Retried(r, b, code)
  PROVE  Good(c, step)
  <1>1. CASE r.tries < MaxTries
    BY <1>1, PausingGood DEF Retried
  <1>2. CASE ~ (r.tries < MaxTries)
    BY <1>2, RaisedGood DEF Retried
  <1> QED BY <1>1, <1>2

LEMMA SubmitGood ==
  ASSUME IInv, NEW c \in Calls, NEW r, Fit(c, r), NEW b \in Breakers,
         NEW step \in Submit(r, b)
  PROVE  Good(c, step)
  <1>1. {"timeout", "unavailable"} \subseteq Outcomes \ Ended
    BY DEF Outcomes, Verdicts, Ended, Server!Ended
  <1>2. 1 \in 1..MaxTries /\ "POST" \in Operations
    BY CallsAssumption DEF Operations
  <1>3. \/ step = <<Leave(r, "timeout"), b>> \/ step = <<Leave(r, "unavailable"), b>>
        \/ b.state # "open" /\ step = Sent(r, b, "POST", 1)
    BY DEF Submit
  <1> QED BY <1>1, <1>2, <1>3, LeaveGood, SentGood

LEMMA InterruptedGood ==
  ASSUME IInv, NEW c \in Calls, Fit(c, call[c]), NEW verdict \in Verdicts
  PROVE  Good(c, Interrupted(call[c], verdict))
  <1>1. verdict \in Outcomes /\ verdict # "missing" /\ verdict \notin Ended
    BY VerdictFacts
  <1>2. breaker \in Breakers
    BY DEF IInv, TypeOK, Breakers
  <1>3. \/ Interrupted(call[c], verdict) = <<Leave(call[c], verdict), breaker>>
        \/ Interrupted(call[c], verdict) = CancelBestEffort(call[c], breaker, verdict)
    <2>1. call[c].op \in {"CAPS", "POST", "GET", "DELETE"}
      BY DEF Fit, Records, Operations
    <2> QED BY <2>1 DEF Interrupted
  <1> QED BY <1>1, <1>2, <1>3, LeaveGood, CancelBestEffortGood
-----------------------------------------------------------------------------
(***************************************************************************)
(* What one side does leaves the calls in order, as far as the other side   *)
(* is concerned.                                                            *)
(***************************************************************************)
\* What was true at the server still is.
Lasting ==
  /\ forgotten \subseteq forgotten'
  /\ \A d \in Calls : Named(d) => owner'[KeyOf[d]] = d \/ d \in forgotten'
  /\ \A d \in Calls : job[d] \in Ended => job'[d] = job[d] \/ d \in forgotten'

LEMMA CallLasts ==
  ASSUME Lasting, NEW d \in Calls, CallOK(d, call'[d])
  PROVE  CallOK(d, call[d])'
  <1> DEFINE r == call'[d]
  <1>1. /\ r \in Records /\ IdsOK(d, r) /\ ReplyOK(d, r) /\ PlaceOK(r) /\ OutcomeOK(r)
    BY DEF CallOK
  <1>2. \A e \in Calls : Named(e) => Named(e)'
    BY DEF Lasting, Named
  <1>3. \A e \in Calls : \A status \in Ended :
           Stands(e, status) => e \in forgotten' \/ job'[e] = status
    BY DEF Lasting, Stands
  <1>4. r.remote \in Calls /\ r.target \in Calls
    BY <1>1 DEF Records
  <1>5. IdsOK(d, call[d])'
    BY <1>1, <1>4 DEF Lasting, IdsOK, Named
  <1>6. ReplyOK(d, call[d])'
    <2>1. r.request.kind = "job" /\ r.op \in {"POST", "GET"} =>
            r.request \in Replies /\ r.request.id \in Calls
      BY <1>1, ReplyFacts DEF Records
    <2>2. r.request.kind = "job" /\ r.op \in {"POST", "GET"} =>
            /\ KeyOf[r.request.id] = KeyOf[d]
            /\ owner'[KeyOf[r.request.id]] = r.request.id \/ r.request.id \in forgotten'
            /\ r.request.status \in Ended =>
                 r.request.id \in forgotten' \/ job'[r.request.id] = r.request.status
      BY <1>1, <1>3, <2>1 DEF ReplyOK, Lasting
    <2>3. r.request.kind = "missing" /\ r.op = "GET" => r.remote \in forgotten'
      BY <1>1 DEF ReplyOK, Lasting
    <2>4. /\ r.request.kind \in {"job", "missing"} /\ r.op = "DELETE"
          /\ r.confirmed /\ Unforgotten(KeyOf[d])'
          => job'[r.remote] \in Ended
      <3> SUFFICES ASSUME r.request.kind \in {"job", "missing"}, r.op = "DELETE",
                          r.confirmed, Unforgotten(KeyOf[d])'
                   PROVE  job'[r.remote] \in Ended
        OBVIOUS
      <3>1. \A e \in forgotten' : KeyOf[e] # KeyOf[d]
        BY DEF Unforgotten
      <3>2. Unforgotten(KeyOf[d])
        BY <3>1 DEF Unforgotten, Lasting
      <3>3. job[r.remote] \in Ended
        BY <1>1, <3>2 DEF ReplyOK
      <3>4. KeyOf[r.remote] = KeyOf[d]
        BY <1>1 DEF IdsOK
      <3> QED BY <1>4, <3>1, <3>3, <3>4 DEF Lasting
    <2> QED BY <2>2, <2>3, <2>4 DEF ReplyOK, Named, Stands, Ended, Server!Ended
  <1>7. PlaceOK(call[d])'
    BY <1>1 DEF PlaceOK, Nothing, Reply
  <1>8. OutcomeOK(call[d])'
    <2>1. r.outcome = "missing" => r.remote \in forgotten'
      BY <1>1 DEF OutcomeOK, Lasting
    <2>2. r.outcome \in Ended =>
            r.confirmed /\ (r.remote \in forgotten' \/ job'[r.remote] = r.outcome)
      BY <1>1, <1>3, <1>4 DEF OutcomeOK
    <2> QED BY <2>1, <2>2 DEF OutcomeOK, Stands, Ended, Server!Ended
  <1>9. (call[d] \in Records)'
    BY <1>1
  <1> QED BY <1>5, <1>6, <1>7, <1>8, <1>9 DEF CallOK

LEMMA AckedLasts ==
  ASSUME IInv, Lasting, NEW c \in acked, call'[c] = call[c]
  PROVE  /\ call'[c].pc = "returned"
         /\ call'[c].confirmed /\ Unforgotten(KeyOf[c])' => job'[call'[c].remote] \in Ended
  <1>1. c \in Calls
    BY DEF IInv, TypeOK
  <1>2. call[c].pc = "returned" /\ call[c].remote \in Calls
        /\ KeyOf[call[c].remote] = KeyOf[c]
    BY <1>1 DEF IInv, AckedOK, CallOK, IdsOK, Records
  <1>3. SUFFICES ASSUME call'[c].confirmed, Unforgotten(KeyOf[c])'
                 PROVE  job'[call'[c].remote] \in Ended
    BY <1>2
  <1>4. \A e \in forgotten' : KeyOf[e] # KeyOf[c]
    BY <1>3 DEF Unforgotten
  <1>5. Unforgotten(KeyOf[c])
    BY <1>4 DEF Lasting, Unforgotten
  <1>6. job[call[c].remote] \in Ended
    BY <1>3, <1>5 DEF IInv, AckedOK
  <1> QED BY <1>2, <1>4, <1>6 DEF Lasting

\* A request starts only while the circuit is closed.
Quiet ==
  breaker'.state # "closed" =>
    \A c \in Calls : call'[c].request = Pending =>
       call[c].request = Pending /\ call'[c].op = call[c].op

\* A run of the client that leaves its call in order leaves everything in order.
LEMMA GoesKeeps ==
  ASSUME IInv, NEW c \in Calls, NEW steps, Goes(c, steps), call[c].pc # "returned",
         \A step \in steps : Good(c, step), caps' \in BOOLEAN,
         \/ acked' = acked
         \/ /\ acked' = acked \cup {c}
            /\ \A step \in steps :
                 /\ step[1].pc = "returned"
                 /\ step[1].confirmed /\ Unforgotten(KeyOf[c]) => job[step[1].remote] \in Ended
  PROVE  IInv' /\ Quiet
  <1>1. PICK step \in steps : call' = [call EXCEPT ![c] = step[1]] /\ breaker' = step[2]
    BY DEF Goes
  <1>2. UNCHANGED <<job, owner, forgotten>>
    BY DEF Goes, serverVars
  <1>3. /\ CallOK(c, step[1]) /\ step[2] \in Breakers
        /\ step[1].request = Pending => step[2].state = "closed"
    BY <1>1 DEF Good
  <1>4. call \in [Calls -> Records]
    BY DEF IInv, TypeOK, Records
  <1>5. call'[c] = step[1] /\ \A d \in Calls \ {c} : call'[d] = call[d]
    BY <1>1, <1>4
  <1>6. Lasting
    BY <1>2, <1>3, <1>5 DEF Lasting, Named
  <1>7. \A d \in Calls : CallOK(d, call[d])'
    <2> SUFFICES ASSUME NEW d \in Calls PROVE CallOK(d, call'[d])
      BY <1>6, CallLasts
    <2> QED BY <1>3, <1>5 DEF IInv
  <1>8. TypeOK'
    <2>1. step[1] \in Records
      BY <1>3 DEF CallOK
    <2>2. call' \in [Calls -> Records]
      BY <1>1, <1>4, <2>1
    <2>3. late' \in SUBSET (Calls \X {"POST", "DELETE"})
      BY DEF Goes, IInv, TypeOK
    <2>4. breaker' \in Breakers
      BY <1>1, <1>3
    <2>5. acked' \in SUBSET Calls
      BY DEF IInv, TypeOK
    <2> QED BY <1>2, <2>2, <2>3, <2>4, <2>5 DEF IInv, TypeOK, Records, Breakers
  <1>9. ServerOK'
    BY <1>2 DEF IInv, ServerOK
  <1>10. AckedOK'
    <2> SUFFICES ASSUME NEW d \in acked'
                 PROVE  /\ call'[d].pc = "returned"
                        /\ call'[d].confirmed /\ Unforgotten(KeyOf[d])' =>
                             job'[call'[d].remote] \in Ended
      BY DEF AckedOK, Ended, Server!Ended
    <2>1. CASE d \in acked
      <3>1. d \in Calls /\ d # c
        BY <2>1 DEF IInv, TypeOK, AckedOK
      <3> QED BY <1>5, <1>6, <2>1, <3>1, AckedLasts
    <2>2. CASE d \notin acked
      <3>1. d = c /\ step[1].pc = "returned"
            /\ (step[1].confirmed /\ Unforgotten(KeyOf[c]) => job[step[1].remote] \in Ended)
        BY <1>1, <2>2
      <3>2. Unforgotten(KeyOf[d])' => Unforgotten(KeyOf[c])
        BY <1>2, <3>1 DEF Unforgotten
      <3> QED BY <1>2, <1>5, <3>1, <3>2
    <2> QED BY <2>1, <2>2
  <1>11. Quiet
    BY <1>1, <1>3, <1>5 DEF Quiet
  <1> QED BY <1>7, <1>8, <1>9, <1>10, <1>11 DEF IInv
-----------------------------------------------------------------------------
(***************************************************************************)
(* The actions of the calls.                                                *)
(***************************************************************************)
LEMMA UnderwayFit ==
  ASSUME IInv, NEW c \in Calls, call[c].pc # "returned"
  PROVE  /\ Fit(c, call[c]) /\ breaker \in Breakers /\ Closed \in Breakers
         /\ caps \in BOOLEAN
         /\ call[c].pc = "waiting" => call[c].tries < MaxTries
  <1>1. CallOK(c, call[c])
    BY DEF IInv
  <1> QED BY <1>1, ClosedFacts DEF IInv, TypeOK, Breakers, CallOK, PlaceOK, Fit

LEMMA BeginKeeps ==
  ASSUME IInv, NEW c \in Calls, Begin(c)
  PROVE  IInv' /\ Quiet
  <1> DEFINE steps == IF caps THEN Submit(call[c], breaker)
                      ELSE Attempt(call[c], breaker, "CAPS", 1)
  <1>1. call[c].pc = "idle" /\ Goes(c, steps) /\ UNCHANGED <<caps, acked>>
    BY DEF Begin
  <1>2. Fit(c, call[c]) /\ breaker \in Breakers /\ caps \in BOOLEAN
    BY <1>1, UnderwayFit
  <1>3. 1 \in 1..MaxTries
    BY CallsAssumption
  <1>4. \A step \in steps : Good(c, step)
    BY <1>2, <1>3, SubmitGood, AttemptGood
  <1> HIDE DEF steps
  <1> QED BY <1>1, <1>2, <1>4, GoesKeeps

LEMMA ResumeKeeps ==
  ASSUME IInv, NEW c \in Calls, Resume(c)
  PROVE  IInv' /\ Quiet
  <1> DEFINE steps == Attempt(call[c], breaker, call[c].op, call[c].tries + 1)
  <1>1. call[c].pc = "waiting" /\ Goes(c, steps) /\ UNCHANGED <<caps, acked>>
    BY DEF Resume
  <1>2. /\ Fit(c, call[c]) /\ breaker \in Breakers /\ caps \in BOOLEAN
        /\ call[c].tries < MaxTries
    BY <1>1, UnderwayFit
  <1>3. call[c].tries + 1 \in 1..MaxTries
    BY <1>2, CallsAssumption DEF Fit, Records
  <1>4. \A step \in steps : Good(c, step)
    BY <1>2, <1>3, AttemptGood
  <1> HIDE DEF steps
  <1> QED BY <1>1, <1>2, <1>4, GoesKeeps

LEMMA TryFailsKeeps ==
  ASSUME IInv, NEW c \in Calls, TryFails(c)
  PROVE  IInv' /\ Quiet
  <1>1. PICK code \in {"timeout", "unavailable"} :
           Goes(c, Retried(call[c], Failure(breaker), code))
    BY DEF TryFails
  <1> DEFINE steps == Retried(call[c], Failure(breaker), code)
  <1>2. call[c].pc = "sending" /\ UNCHANGED <<caps, acked>>
    BY DEF TryFails
  <1>3. /\ Fit(c, call[c]) /\ breaker \in Breakers /\ caps \in BOOLEAN
    BY <1>2, UnderwayFit
  <1>4. \A step \in steps : Good(c, step)
    BY <1>3, FailureFacts, RetriedGood DEF Codes
  <1>5. Goes(c, steps)
    BY <1>1
  <1> HIDE DEF steps
  <1> QED BY <1>2, <1>3, <1>4, <1>5, GoesKeeps

LEMMA ReceiveCapabilitiesKeeps ==
  ASSUME IInv, NEW c \in Calls, ReceiveCapabilities(c)
  PROVE  IInv' /\ Quiet
  <1>1. PICK steps \in {Submit(call[c], Closed), {<<Leave(call[c], "unfit"), Closed>>}} :
           Goes(c, steps)
    BY DEF ReceiveCapabilities
  <1>2. call[c].pc = "sending" /\ caps' \in BOOLEAN /\ acked' = acked
    BY DEF ReceiveCapabilities, Answered
  <1>3. Fit(c, call[c]) /\ Closed \in Breakers
    BY <1>2, UnderwayFit
  <1>4. "unfit" \in Outcomes \ Ended
    BY DEF Outcomes, Ended, Server!Ended
  <1>5. \A step \in steps : Good(c, step)
    BY <1>3, <1>4, SubmitGood, LeaveGood
  <1> QED BY <1>1, <1>2, <1>5, GoesKeeps

LEMMA ReceiveJobKeeps ==
  ASSUME IInv, NEW c \in Calls, ReceiveJob(c)
  PROVE  IInv' /\ Quiet
  <1> DEFINE reply == call[c].request
             r == [call[c] EXCEPT !.remote = reply.id, !.confirmed = TRUE]
             polling == [r EXCEPT !.op = "GET", !.tries = 0]
  <1>1. /\ call[c].pc = "sending" /\ reply \in Replies /\ reply.kind = "job"
        /\ call[c].op \in {"POST", "GET"} /\ UNCHANGED <<caps, acked>>
        /\ \/ /\ reply.status \in Server!Ended
              /\ Goes(c, {<<Leave(r, reply.status), Closed>>})
           \/ Goes(c, Pausing(polling, Closed))
    BY DEF ReceiveJob, Answered
  <1>2. Fit(c, call[c]) /\ Closed \in Breakers /\ caps' \in BOOLEAN
    BY <1>1, UnderwayFit
  <1>3. /\ KeyOf[reply.id] = KeyOf[c] /\ Named(reply.id) /\ reply.id \in Calls
        /\ reply.status \in Ended => Stands(reply.id, reply.status)
    <2>1. ReplyOK(c, call[c])
      BY DEF IInv, CallOK
    <2> QED BY <1>1, <2>1, ReplyFacts DEF ReplyOK
  <1>4. Fit(c, r)
    <2>1. r \in Records /\ r.remote = reply.id /\ r.confirmed = TRUE
          /\ r.outcome = call[c].outcome /\ r.verdict = call[c].verdict
          /\ r.op = call[c].op /\ r.target = call[c].target
      BY <1>2, <1>3 DEF Fit, Records
    <2> HIDE DEF r
    <2> QED BY <1>1, <1>2, <1>3, <2>1 DEF Fit, IdsOK
  <1>5. Fit(c, polling) /\ polling.tries < MaxTries
    <2>1. r.confirmed = TRUE
      BY <1>2 DEF Fit, Records
    <2> HIDE DEF r
    <2>2. 0 \in 0..MaxTries /\ 0 < MaxTries
      BY CallsAssumption
    <2>3. polling \in Records
      BY <1>4, <2>2 DEF Fit, Records, Operations
    <2>4. /\ polling.op = "GET" /\ polling.tries = 0 /\ polling.remote = r.remote
          /\ polling.target = r.target
      BY <1>4 DEF Fit, Records
    <2>5. /\ polling.confirmed = r.confirmed
          /\ polling.verdict = r.verdict /\ polling.outcome = r.outcome
      BY <1>4 DEF Fit, Records
    <2> HIDE DEF polling
    <2> QED BY <1>4, <2>1, <2>2, <2>3, <2>4, <2>5 DEF Fit, IdsOK
  <1>6. reply.status \in Server!Ended => Good(c, <<Leave(r, reply.status), Closed>>)
    <2>1. reply.status \in Server!Ended =>
            reply.status \in Outcomes /\ reply.status # "missing"
      BY DEF Outcomes, Server!Ended
    <2>2. r.confirmed /\ r.remote = reply.id
      BY <1>2, <1>3 DEF Fit, Records
    <2> HIDE DEF r
    <2> QED BY <1>2, <1>3, <1>4, <2>1, <2>2, LeaveGood DEF Ended
  <1>7. \A step \in Pausing(polling, Closed) : Good(c, step)
    <2> HIDE DEF polling
    <2> QED BY <1>2, <1>5, PausingGood
  <1>8. PICK steps : Goes(c, steps) /\ \A step \in steps : Good(c, step)
    <2> HIDE DEF r, polling
    <2> QED BY <1>1, <1>6, <1>7
  <1> QED BY <1>1, <1>2, <1>8, GoesKeeps

LEMMA ReceiveCancelledKeeps ==
  ASSUME IInv, NEW c \in Calls, ReceiveCancelled(c)
  PROVE  IInv' /\ Quiet
  <1> DEFINE step == <<Leave(call[c], call[c].verdict), Closed>>
  <1>1. /\ call[c].pc = "sending" /\ call[c].request.kind \in {"job", "missing"}
        /\ call[c].op = "DELETE" /\ Goes(c, {step})
        /\ acked' = acked \cup {c} /\ caps' = caps
    BY DEF ReceiveCancelled, Answered
  <1>2. Fit(c, call[c]) /\ Closed \in Breakers /\ caps \in BOOLEAN
    BY <1>1, UnderwayFit
  <1>3. call[c].verdict \in Verdicts
    BY <1>1, <1>2 DEF Fit, IdsOK, Records
  <1>4. Good(c, step)
    BY <1>2, <1>3, VerdictFacts, LeaveGood
  <1>5. /\ step[1].pc = "returned" /\ step[1].confirmed = call[c].confirmed
        /\ step[1].remote = call[c].remote
    BY <1>2 DEF Leave, Fit, Records
  <1>6. step[1].confirmed /\ Unforgotten(KeyOf[c]) => job[step[1].remote] \in Ended
    <2>1. ReplyOK(c, call[c])
      BY DEF IInv, CallOK
    <2> QED BY <1>1, <1>5, <2>1 DEF ReplyOK
  <1> HIDE DEF step
  <1> DEFINE steps == {step}
  <1>7. /\ \A s \in steps : Good(c, s)
        /\ \A s \in steps :
             /\ s[1].pc = "returned"
             /\ s[1].confirmed /\ Unforgotten(KeyOf[c]) => job[s[1].remote] \in Ended
        /\ Goes(c, steps)
    BY <1>1, <1>4, <1>5, <1>6
  <1> HIDE DEF steps
  <1> QED BY <1>1, <1>2, <1>7, GoesKeeps

LEMMA ReceiveMissingKeeps ==
  ASSUME IInv, NEW c \in Calls, ReceiveMissing(c)
  PROVE  IInv' /\ Quiet
  <1>1. /\ call[c].pc = "sending" /\ call[c].request.kind = "missing"
        /\ call[c].op = "GET" /\ Goes(c, {Raised(call[c], Closed, "missing")})
        /\ UNCHANGED <<caps, acked>>
    BY DEF ReceiveMissing, Answered
  <1>2. Fit(c, call[c]) /\ Closed \in Breakers /\ caps \in BOOLEAN
    BY <1>1, UnderwayFit
  <1>3. call[c].remote \in forgotten
    <2>1. ReplyOK(c, call[c])
      BY DEF IInv, CallOK
    <2> QED BY <1>1, <2>1 DEF ReplyOK
  <1>4. Good(c, Raised(call[c], Closed, "missing"))
    BY <1>2, <1>3, RaisedGood DEF Codes
  <1> QED BY <1>1, <1>2, <1>4, GoesKeeps

LEMMA ReceiveBusyKeeps ==
  ASSUME IInv, NEW c \in Calls, ReceiveBusy(c)
  PROVE  IInv' /\ Quiet
  <1>1. /\ call[c].pc = "sending" /\ Goes(c, Retried(call[c], Closed, "limited"))
        /\ UNCHANGED <<caps, acked>>
    BY DEF ReceiveBusy, Answered
  <1>2. Fit(c, call[c]) /\ Closed \in Breakers /\ caps \in BOOLEAN
    BY <1>1, UnderwayFit
  <1>3. \A step \in Retried(call[c], Closed, "limited") : Good(c, step)
    BY <1>2, RetriedGood DEF Codes
  <1> QED BY <1>1, <1>2, <1>3, GoesKeeps

LEMMA InterruptKeeps ==
  ASSUME IInv, NEW c \in Calls, Drop(c) \/ GatewayTimeout(c)
  PROVE  IInv' /\ Quiet
  <1>1. PICK verdict \in {"raised", "deadline"} : Goes(c, {Interrupted(call[c], verdict)})
    BY DEF Drop, GatewayTimeout
  <1>2. call[c].pc # "returned" /\ UNCHANGED <<caps, acked>>
    BY DEF Drop, GatewayTimeout, Underway
  <1>3. Fit(c, call[c]) /\ caps \in BOOLEAN
    BY <1>2, UnderwayFit
  <1>4. Good(c, Interrupted(call[c], verdict))
    BY <1>3, InterruptedGood DEF Verdicts
  <1> QED BY <1>1, <1>2, <1>3, <1>4, GoesKeeps
-----------------------------------------------------------------------------
(***************************************************************************)
(* The server.                                                              *)
(***************************************************************************)
Statuses == {"unknown", "queued", "running"} \cup Ended

\* What a request or a worker of the server does to the registry.
Registry ==
  \/ UNCHANGED serverVars
  \/ \E c \in Calls : Server!Submit(c, KeyOf[c], {})
  \/ \E d \in Calls : Server!Begin(d)
  \/ \E d \in Calls, status \in Ended : Server!End(d, status)

LEMMA ServerTypes ==
  ASSUME IInv
  PROVE  /\ job \in [Calls -> Statuses] /\ owner \in [Keys -> Calls \cup {None}]
         /\ None \notin Calls /\ KeyOf \in [Calls -> Keys]
         /\ {"queued", "running", "unknown"} \cap Ended = {}
         /\ {"queued", "running", "unknown", "succeeded", "failed", "cancelled"} \subseteq Statuses
  BY CallsAssumption DEF IInv, TypeOK, Statuses, Ended, Server!Ended

LEMMA RegistryKeeps ==
  ASSUME IInv, Registry, forgotten' = forgotten
  PROVE  /\ Lasting /\ ServerOK'
         /\ job' \in [Calls -> Statuses] /\ owner' \in [Keys -> Calls \cup {None}]
  <1>1. /\ job \in [Calls -> Statuses] /\ owner \in [Keys -> Calls \cup {None}]
        /\ None \notin Calls /\ KeyOf \in [Calls -> Keys]
        /\ {"queued", "running", "unknown"} \cap Ended = {}
        /\ {"queued", "running", "unknown", "succeeded", "failed", "cancelled"} \subseteq Statuses
    BY ServerTypes
  <1>2. /\ \A k \in Keys : owner[k] # None => KeyOf[owner[k]] = k /\ job[owner[k]] # "unknown"
        /\ \A d \in Calls : job[d] # "unknown" => owner[KeyOf[d]] = d
    BY DEF IInv, ServerOK
  <1>3. CASE UNCHANGED serverVars
    <2>1. job' = job /\ owner' = owner
      BY <1>3 DEF serverVars
    <2> QED BY <1>1, <1>2, <2>1 DEF Lasting, Named, ServerOK
  <1>4. ASSUME NEW c \in Calls, Server!Submit(c, KeyOf[c], {})
        PROVE  /\ Lasting /\ ServerOK'
               /\ job' \in [Calls -> Statuses] /\ owner' \in [Keys -> Calls \cup {None}]
    <2>1. /\ job[c] = "unknown" /\ owner[KeyOf[c]] = None
          /\ job' = [job EXCEPT ![c] = "queued"]
          /\ owner' = [owner EXCEPT ![KeyOf[c]] = c]
      BY <1>1, <1>4 DEF Server!Submit
    <2>2. job' \in [Calls -> Statuses] /\ owner' \in [Keys -> Calls \cup {None}]
      BY <1>1, <2>1
    <2>3. Lasting
      BY <1>1, <2>1 DEF Lasting, Named
    <2>4. ServerOK'
      <3>1. ASSUME NEW k \in Keys, owner'[k] # None
            PROVE  KeyOf[owner'[k]] = k /\ job'[owner'[k]] # "unknown"
        BY <1>1, <1>2, <2>1, <3>1
      <3>2. ASSUME NEW d \in Calls, job'[d] # "unknown"
            PROVE  owner'[KeyOf[d]] = d
        BY <1>1, <1>2, <2>1, <3>2
      <3> QED BY <3>1, <3>2 DEF ServerOK
    <2> QED BY <2>2, <2>3, <2>4
  <1>5. ASSUME NEW d \in Calls, NEW status \in {"running"} \cup Ended,
               job[d] \in {"queued", "running"}, job' = [job EXCEPT ![d] = status],
               owner' = owner
        PROVE  /\ Lasting /\ ServerOK'
               /\ job' \in [Calls -> Statuses] /\ owner' \in [Keys -> Calls \cup {None}]
    <2>1. job' \in [Calls -> Statuses]
      BY <1>1, <1>5 DEF Statuses
    <2>2. Lasting
      BY <1>1, <1>5 DEF Lasting, Named
    <2>3. ServerOK'
      <3>1. status # "unknown"
        BY <1>1
      <3> QED BY <1>1, <1>2, <1>5, <3>1 DEF ServerOK
    <2> QED BY <1>1, <1>5, <2>1, <2>2, <2>3
  <1>6. ASSUME NEW d \in Calls, Server!Begin(d)
        PROVE  /\ job[d] \in {"queued", "running"} /\ job' = [job EXCEPT ![d] = "running"]
               /\ owner' = owner
    BY <1>6 DEF Server!Begin
  <1>7. ASSUME NEW d \in Calls, NEW status \in Ended, Server!End(d, status)
        PROVE  /\ job[d] \in {"queued", "running"} /\ job' = [job EXCEPT ![d] = status]
               /\ owner' = owner
    BY <1>7 DEF Server!End
  <1> QED BY <1>3, <1>4, <1>5, <1>6, <1>7 DEF Registry

\* A POST makes the job of the key known to the caller, or finds no room for it.
LEMMA PostedFacts ==
  ASSUME IInv, NEW c \in Calls, NEW reply, Posted(c, reply)
  PROVE  /\ Registry
         /\ \/ reply.kind = "busy"
            \/ /\ reply.kind = "job" /\ reply.id \in Calls /\ KeyOf[reply.id] = KeyOf[c]
               /\ owner'[KeyOf[c]] = reply.id
               /\ reply.status \in Ended =>
                    job[reply.id] = reply.status /\ UNCHANGED serverVars
  <1> DEFINE k == KeyOf[c]
  <1>1. /\ k \in Keys /\ owner \in [Keys -> Calls \cup {None}] /\ None \notin Calls
        /\ job \in [Calls -> Statuses]
    BY ServerTypes
  <1>2. CASE /\ owner[k] # None
             /\ reply = JobReply(owner[k], job[owner[k]])
             /\ UNCHANGED serverVars
    <2>1. owner[k] \in Calls /\ KeyOf[owner[k]] = k /\ owner' = owner
      BY <1>1, <1>2 DEF IInv, ServerOK, serverVars
    <2> QED BY <1>2, <2>1 DEF JobReply, Registry
  <1>3. CASE Server!Submit(c, k, {}) /\ reply = JobReply(c, "queued")
    <2>1. owner'[k] = c /\ "queued" \notin Ended
      BY <1>1, <1>3, ServerTypes DEF Server!Submit
    <2> QED BY <1>3, <2>1 DEF JobReply, Registry
  <1>4. CASE owner[k] = None /\ reply = Reply("busy") /\ UNCHANGED serverVars
    BY <1>4 DEF Reply, Registry
  <1> QED BY <1>2, <1>3, <1>4 DEF Posted

\* A DELETE ends the job if the server has it.
LEMMA DeletedFacts ==
  ASSUME IInv, NEW d \in Calls, NEW reply, Deleted(d, reply)
  PROVE  /\ Registry /\ owner' = owner
         /\ owner[KeyOf[d]] = d => job'[d] \in Ended
  <1>1. /\ owner \in [Keys -> Calls \cup {None}] /\ None \notin Calls
        /\ job \in [Calls -> Statuses] /\ KeyOf[d] \in Keys
    BY ServerTypes
  <1>2. owner[KeyOf[d]] = d => job[d] # "unknown"
    BY <1>1 DEF IInv, ServerOK
  <1>3. CASE job[d] \in {"queued", "running"}
    <2>1. Server!End(d, "cancelled") /\ "cancelled" \in Ended
      BY <1>3 DEF Deleted, Ended, Server!Ended
    <2>2. owner' = owner /\ job'[d] = "cancelled"
      BY <1>1, <2>1 DEF Server!End
    <2> QED BY <2>1, <2>2 DEF Registry
  <1>4. CASE job[d] \notin {"queued", "running"}
    <2>1. UNCHANGED serverVars
      BY <1>4 DEF Deleted
    <2> QED BY <1>1, <1>2, <1>4, <2>1 DEF Registry, serverVars, Statuses
  <1> QED BY <1>3, <1>4

\* The server's own steps leave the calls as they are.
LEMMA ServerSideKeeps ==
  ASSUME IInv, Lasting, ServerOK',
         job' \in [Calls -> Statuses], owner' \in [Keys -> Calls \cup {None}],
         forgotten' \in SUBSET Calls, late' \subseteq late,
         UNCHANGED <<call, breaker, caps, acked>>
  PROVE  IInv' /\ Quiet
  <1>1. \A d \in Calls : CallOK(d, call[d])'
    <2> SUFFICES ASSUME NEW d \in Calls PROVE CallOK(d, call'[d])
      BY CallLasts
    <2> QED BY DEF IInv
  <1>2. TypeOK'
    BY DEF IInv, TypeOK, Statuses, Ended
  <1>3. AckedOK'
    <2> SUFFICES ASSUME NEW d \in acked
                 PROVE  /\ call'[d].pc = "returned"
                        /\ call'[d].confirmed /\ Unforgotten(KeyOf[d])' =>
                             job'[call'[d].remote] \in Ended
      BY DEF AckedOK, Ended, Server!Ended
    <2> QED BY AckedLasts
  <1>4. Quiet
    BY DEF Quiet
  <1> QED BY <1>1, <1>2, <1>3, <1>4 DEF IInv

LEMMA LateArrivesKeeps ==
  ASSUME IInv, NEW c \in Calls, NEW op \in {"POST", "DELETE"}, LateArrives(c, op)
  PROVE  IInv' /\ Quiet
  <1>1. /\ <<c, op>> \in late /\ late' \subseteq late
        /\ UNCHANGED <<call, breaker, caps, acked, forgotten>>
    BY DEF LateArrives
  <1>2. Registry
    <2>1. CASE op = "POST"
      BY <2>1, PostedFacts DEF LateArrives
    <2>2. CASE op = "DELETE"
      <3>1. call[c].target \in Calls
        BY DEF IInv, CallOK, Records
      <3>2. PICK reply \in Replies : Deleted(call[c].target, reply)
        BY <2>2 DEF LateArrives
      <3> QED BY <3>1, <3>2, DeletedFacts
    <2> QED BY <2>1, <2>2
  <1>3. /\ Lasting /\ ServerOK'
        /\ job' \in [Calls -> Statuses] /\ owner' \in [Keys -> Calls \cup {None}]
    BY <1>1, <1>2, RegistryKeeps
  <1>4. forgotten' \in SUBSET Calls
    BY <1>1 DEF IInv, TypeOK
  <1> QED BY <1>1, <1>3, <1>4, ServerSideKeeps

LEMMA JobRunsKeeps ==
  ASSUME IInv, NEW d \in Calls, JobRuns(d)
  PROVE  IInv' /\ Quiet
  <1>1. UNCHANGED <<call, late, breaker, caps, acked, forgotten>>
    BY DEF JobRuns, clientVars
  <1>2. Registry
    BY DEF JobRuns, Registry, Ended, Server!Ended
  <1>3. /\ Lasting /\ ServerOK'
        /\ job' \in [Calls -> Statuses] /\ owner' \in [Keys -> Calls \cup {None}]
    BY <1>1, <1>2, RegistryKeeps
  <1>4. forgotten' \in SUBSET Calls
    BY <1>1 DEF IInv, TypeOK
  <1> QED BY <1>1, <1>3, <1>4, ServerSideKeeps

LEMMA ServerForgetsKeeps ==
  ASSUME IInv, NEW d \in Calls, ServerForgets(d)
  PROVE  IInv' /\ Quiet
  <1>1. /\ job[d] \in Ended /\ forgotten' = forgotten \cup {d}
        /\ UNCHANGED <<call, late, breaker, caps, acked>>
    BY DEF ServerForgets, clientVars, Ended
  <1>2. /\ job' = [e \in Calls |-> IF e = d THEN "unknown" ELSE job[e]]
        /\ owner' = [k \in Keys |-> IF owner[k] = d THEN None ELSE owner[k]]
    BY DEF ServerForgets, Server!Forget
  <1>3. /\ job \in [Calls -> Statuses] /\ owner \in [Keys -> Calls \cup {None}]
        /\ None \notin Calls /\ KeyOf \in [Calls -> Keys] /\ "unknown" \in Statuses
    BY ServerTypes
  <1>4. job' \in [Calls -> Statuses] /\ owner' \in [Keys -> Calls \cup {None}]
    BY <1>2, <1>3
  <1>5. Lasting
    BY <1>1, <1>2, <1>3 DEF Lasting, Named
  <1>6. ServerOK'
    <2>1. \A k \in Keys : owner'[k] # None => KeyOf[owner'[k]] = k /\ job'[owner'[k]] # "unknown"
      BY <1>2, <1>3 DEF IInv, ServerOK
    <2>2. \A e \in Calls : job'[e] # "unknown" => owner'[KeyOf[e]] = e
      BY <1>2, <1>3 DEF IInv, ServerOK
    <2> QED BY <2>1, <2>2 DEF ServerOK
  <1>7. forgotten' \in SUBSET Calls
    BY <1>1 DEF IInv, TypeOK
  <1> QED BY <1>1, <1>4, <1>5, <1>6, <1>7, ServerSideKeeps

LEMMA ServeKeeps ==
  ASSUME IInv, NEW c \in Calls, Serve(c)
  PROVE  IInv' /\ Quiet
  <1> DEFINE old == call[c]
  <1>1. PICK reply \in Replies :
          /\ call' = [call EXCEPT ![c].request = reply]
          /\ CASE old.op = "CAPS" -> reply.kind \in {"caps", "unfit"} /\ UNCHANGED serverVars
               [] old.op = "POST" -> Posted(c, reply)
               [] old.op = "GET" -> reply = Snapshot(Polled(c)) /\ UNCHANGED serverVars
               [] old.op = "DELETE" -> Deleted(old.target, reply)
    BY DEF Serve
  <1> DEFINE new == [old EXCEPT !.request = reply]
  <1>2. old.request = Pending /\ UNCHANGED <<late, breaker, caps, acked, forgotten>>
    BY DEF Serve
  <1>3. /\ old \in Records /\ IdsOK(c, old) /\ PlaceOK(old) /\ OutcomeOK(old)
        /\ call \in [Calls -> Records] /\ old.pc = "sending"
    BY <1>2, ReplyFacts DEF IInv, CallOK, TypeOK, Records, PlaceOK
  <1>4. /\ new \in Records /\ new.request = reply /\ new.pc = old.pc /\ new.op = old.op
        /\ new.tries = old.tries /\ new.remote = old.remote /\ new.target = old.target
        /\ new.confirmed = old.confirmed /\ new.verdict = old.verdict
        /\ new.outcome = old.outcome
    BY <1>3 DEF Records
  <1>5. call' = [call EXCEPT ![c] = new]
    BY <1>1
  <1> HIDE DEF new
  <1>6. /\ call' \in [Calls -> Records] /\ call'[c] = new
        /\ \A d \in Calls \ {c} : call'[d] = call[d]
    BY <1>3, <1>4, <1>5
  <1>7. old.remote \in Calls /\ old.target \in Calls
        /\ old.op \in {"CAPS", "POST", "GET", "DELETE"}
    BY <1>3 DEF Records, Operations
  <1>8. old.op = "DELETE" => Deleted(old.target, reply)
    BY <1>1
  <1>9. Registry
    <2>1. CASE old.op \in {"CAPS", "GET"}
      BY <1>1, <2>1 DEF Registry
    <2>2. CASE old.op = "POST"
      BY <1>1, <2>2, PostedFacts
    <2>3. CASE old.op = "DELETE"
      BY <1>7, <1>8, <2>3, DeletedFacts
    <2> QED BY <1>7, <2>1, <2>2, <2>3
  <1>10. /\ Lasting /\ ServerOK'
         /\ job' \in [Calls -> Statuses] /\ owner' \in [Keys -> Calls \cup {None}]
    BY <1>2, <1>9, RegistryKeeps
  <1>11. ReplyOK(c, call[c])'
    <2>1. CASE old.op = "CAPS"
      BY <1>1, <1>4, <1>6, <2>1 DEF ReplyOK
    <2>2. CASE old.op = "POST"
      <3>1. \/ reply.kind = "busy"
            \/ /\ reply.kind = "job" /\ reply.id \in Calls /\ KeyOf[reply.id] = KeyOf[c]
               /\ owner'[KeyOf[c]] = reply.id
               /\ reply.status \in Ended =>
                    job[reply.id] = reply.status /\ UNCHANGED serverVars
        BY <1>1, <2>2, PostedFacts
      <3>2. reply.kind = "job" /\ reply.status \in Ended => job'[reply.id] = reply.status
        BY <3>1 DEF serverVars
      <3> QED BY <1>4, <1>6, <2>2, <3>1, <3>2
              DEF ReplyOK, Named, Stands, Ended, Server!Ended
    <2>3. CASE old.op = "GET"
      <3>1. reply = Snapshot(old.remote) /\ job' = job /\ owner' = owner
        BY <1>1, <2>3 DEF serverVars, Polled
      <3>2. Named(old.remote) /\ KeyOf[old.remote] = KeyOf[c]
        BY <1>3, <2>3 DEF IdsOK
      <3>3. /\ KeyOf[old.remote] \in Keys /\ None \notin Calls
            /\ owner \in [Keys -> Calls \cup {None}]
        BY <1>7, ServerTypes
      <3>4. CASE job[old.remote] = "unknown"
        <4>1. reply.kind = "missing"
          BY <3>1, <3>4 DEF Snapshot, Reply
        <4>2. old.remote \in forgotten
          BY <1>7, <3>2, <3>3, <3>4 DEF Named, IInv, ServerOK
        <4> QED BY <1>2, <1>4, <1>6, <2>3, <4>1, <4>2 DEF ReplyOK
      <3>5. CASE job[old.remote] # "unknown"
        <4>1. /\ reply.kind = "job" /\ reply.id = old.remote
              /\ reply.status = job[old.remote]
          BY <3>1, <3>5 DEF Snapshot, JobReply
        <4>2. job'[reply.id] = reply.status
          BY <3>1, <4>1
        <4>3. owner'[KeyOf[old.remote]] = old.remote
          BY <1>7, <3>1, <3>5 DEF IInv, ServerOK
        <4> QED BY <1>4, <1>6, <2>3, <3>2, <4>1, <4>2, <4>3
                DEF ReplyOK, Named, Stands, Ended, Server!Ended
      <3> QED BY <3>4, <3>5
    <2>4. CASE old.op = "DELETE"
      <3>1. Registry /\ owner' = owner
            /\ (owner[KeyOf[old.target]] = old.target => job'[old.target] \in Ended)
        BY <1>7, <1>8, <2>4, DeletedFacts
      <3>2. ASSUME old.confirmed, Unforgotten(KeyOf[c])'
            PROVE  job'[old.remote] \in Ended
        <4>1. \A e \in forgotten : KeyOf[e] # KeyOf[c]
          BY <1>2, <3>2 DEF Unforgotten
        <4>2. /\ KeyOf[old.remote] = KeyOf[c] /\ KeyOf[old.target] = KeyOf[c]
              /\ Named(old.remote) /\ Named(old.target)
          BY <1>3, <2>4, <3>2 DEF IdsOK
        <4>3. owner[KeyOf[c]] = old.remote /\ owner[KeyOf[c]] = old.target
          BY <4>1, <4>2 DEF Named
        <4> QED BY <3>1, <4>2, <4>3
      <3> QED BY <1>4, <1>6, <2>4, <3>2 DEF ReplyOK, Ended, Server!Ended
    <2> QED BY <1>7, <2>1, <2>2, <2>3, <2>4
  <1>12. \A d \in Calls : CallOK(d, call[d])'
    <2>1. ASSUME NEW d \in Calls, d # c
          PROVE  CallOK(d, call[d])'
      <3>1. CallOK(d, call'[d])
        BY <1>6, <2>1 DEF IInv
      <3> QED BY <1>10, <3>1, CallLasts
    <2>2. CallOK(c, call[c])'
      <3>1. IdsOK(c, call[c])'
        BY <1>3, <1>4, <1>6, <1>7, <1>10 DEF IdsOK, Lasting, Named
      <3>2. PlaceOK(call[c])'
        BY <1>3, <1>4, <1>6 DEF PlaceOK
      <3>3. OutcomeOK(call[c])'
        <4>1. old.outcome \notin Ended /\ old.outcome # "missing"
          BY <1>2, <1>3, NoneIsNoOutcome DEF PlaceOK, Outcomes, Ended, Server!Ended
        <4> QED BY <1>4, <1>6, <4>1 DEF OutcomeOK, Ended, Server!Ended
      <3>4. (call[c] \in Records)'
        BY <1>4, <1>6
      <3> QED BY <1>11, <3>1, <3>2, <3>3, <3>4 DEF CallOK
    <2> QED BY <2>1, <2>2
  <1>13. TypeOK'
    BY <1>2, <1>6, <1>10 DEF IInv, TypeOK, Records, Statuses, Ended
  <1>14. AckedOK'
    <2> SUFFICES ASSUME NEW d \in acked
                 PROVE  /\ call'[d].pc = "returned"
                        /\ call'[d].confirmed /\ Unforgotten(KeyOf[d])' =>
                             job'[call'[d].remote] \in Ended
      BY <1>2 DEF AckedOK, Ended, Server!Ended
    <2>1. d \in Calls /\ d # c
      BY <1>3 DEF IInv, TypeOK, AckedOK
    <2> QED BY <1>6, <1>10, <2>1, AckedLasts
  <1>15. Quiet
    <2>1. reply # Pending
      BY ReplyFacts
    <2> QED BY <1>4, <1>6, <2>1 DEF Quiet
  <1> QED BY <1>10, <1>12, <1>13, <1>14, <1>15 DEF IInv
-----------------------------------------------------------------------------
LEMMA InitIInv ==
  ASSUME Init
  PROVE  IInv
  <1> DEFINE new(c) == [pc |-> "idle", op |-> "CAPS", tries |-> 0, request |-> Nothing,
                        remote |-> c, target |-> c, confirmed |-> FALSE, verdict |-> None,
                        outcome |-> None]
  <1>1. /\ job = [d \in Calls |-> "unknown"] /\ owner = [k \in Keys |-> None]
        /\ call = [c \in Calls |-> new(c)]
        /\ late = {} /\ breaker = Closed /\ caps = FALSE /\ acked = {} /\ forgotten = {}
    BY DEF Init, Server!Init
  <1>2. None # "missing" /\ None \notin Ended
    BY NoneIsNoOutcome DEF Outcomes, Ended, Server!Ended
  <1>3. ASSUME NEW c \in Calls
        PROVE  new(c) \in Records /\ CallOK(c, call[c])
    <2>1. new(c) \in Records
      BY CallsAssumption DEF Records, Operations
    <2>2. call[c] = new(c)
      BY <1>1
    <2>3. IdsOK(c, call[c]) /\ PlaceOK(call[c])
      BY <2>2 DEF IdsOK, PlaceOK
    <2>4. ReplyOK(c, call[c])
      BY <2>2, ReplyFacts DEF ReplyOK
    <2>5. OutcomeOK(call[c])
      BY <1>2, <2>2 DEF OutcomeOK
    <2> QED BY <2>1, <2>2, <2>3, <2>4, <2>5 DEF CallOK
  <1> HIDE DEF new
  <1>4. TypeOK
    <2>1. call \in [Calls -> Records]
      BY <1>1, <1>3
    <2>2. breaker \in Breakers
      BY <1>1, ClosedFacts
    <2> QED BY <1>1, <2>1, <2>2 DEF TypeOK, Records, Breakers
  <1>5. ServerOK /\ AckedOK
    BY <1>1, CallsAssumption DEF ServerOK, AckedOK
  <1> QED BY <1>3, <1>4, <1>5 DEF IInv

LEMMA NextKeeps ==
  ASSUME IInv, [Next]_vars
  PROVE  IInv' /\ Quiet
  <1>1. ASSUME NEW c \in Calls, ClientStep(c)
        PROVE  IInv' /\ Quiet
    BY <1>1, BeginKeeps, ResumeKeeps, TryFailsKeeps, ReceiveCapabilitiesKeeps,
       ReceiveJobKeeps, ReceiveCancelledKeeps, ReceiveMissingKeeps, ReceiveBusyKeeps,
       InterruptKeeps DEF ClientStep
  <1>2. CASE UNCHANGED serverVars /\ UNCHANGED <<call, late, acked, forgotten>>
             /\ breaker' \in {breaker, [breaker EXCEPT !.state = "lapsed"]}
             /\ caps' \in BOOLEAN
    <2>1. Registry
      BY <1>2 DEF Registry
    <2>2. Lasting /\ ServerOK'
      BY <1>2, <2>1, RegistryKeeps
    <2>3. \A d \in Calls : CallOK(d, call[d])'
      <3> SUFFICES ASSUME NEW d \in Calls PROVE CallOK(d, call'[d])
        BY <2>2, CallLasts
      <3> QED BY <1>2 DEF IInv
    <2>4. TypeOK'
      BY <1>2 DEF IInv, TypeOK, serverVars
    <2>5. AckedOK'
      BY <1>2 DEF IInv, AckedOK, serverVars, Unforgotten, Ended, Server!Ended
    <2>6. Quiet
      BY <1>2 DEF Quiet
    <2> QED BY <2>2, <2>3, <2>4, <2>5, <2>6 DEF IInv
  <1>3. CASE Lapse
    BY <1>2, <1>3 DEF Lapse, IInv, TypeOK
  <1>4. CASE CapabilitiesExpire
    BY <1>2, <1>4 DEF CapabilitiesExpire
  <1>5. CASE UNCHANGED vars
    BY <1>2, <1>5 DEF vars, clientVars, IInv, TypeOK
  <1> QED BY <1>1, <1>3, <1>4, <1>5, ServeKeeps, JobRunsKeeps, ServerForgetsKeeps,
             LateArrivesKeeps DEF Next

\* Whatever the calls, the network and the server do, the inductive invariant holds.
THEOREM Invariance == Spec => []IInv
  BY InitIInv, NextKeeps, PTL DEF Spec

\* A call that ran out of time or was cancelled by its caller sends its DELETE to
\* the job the server named; once that was answered the job has ended for good,
\* whatever late requests and other calls with the key do, while the server
\* forgets no job of the key: for any number of calls, retries and late requests
\* (HTTPInferenceProvider.infer, _cancel_best_effort and cancel).
THEOREM CancellationAlwaysReaches == Spec => []CancellationReaches
  <1>1. IInv => CancellationReaches
    <2> SUFFICES ASSUME IInv
                 PROVE  DeleteReaches
      BY DEF IInv, CancellationReaches
    <2>1. ASSUME NEW c \in acked, call[c].confirmed,
                 \A d \in forgotten : KeyOf[d] # KeyOf[c]
          PROVE  job[call[c].remote] \in Server!Ended
      BY <2>1 DEF IInv, AckedOK, Unforgotten, Ended
    <2> QED BY <2>1 DEF DeleteReaches
  <1> QED BY <1>1, Invariance, PTL

\* A call is told that its job does not exist only when the server has dropped
\* it; a result it brings home is that of a job with its semantics and stays that
\* job's result, whoever's DELETEs and late requests still arrive; and two calls
\* with the same semantics are told the same while the server keeps the job
\* (HTTPInferenceProvider.infer; submit, poll and cancel of the server).
THEOREM AnswersAlwaysJustified == Spec => []AnswersJustified
  <1>1. IInv => AnswersJustified
    <2> SUFFICES ASSUME IInv PROVE AnswersJustified
      OBVIOUS
    <2>1. ASSUME NEW c \in Calls
          PROVE  /\ call[c].outcome = "missing" => call[c].remote \in forgotten
                 /\ call[c].outcome \in Ended =>
                      /\ KeyOf[call[c].remote] = KeyOf[c] /\ call[c].remote \in Calls
                      /\ Named(call[c].remote) /\ Stands(call[c].remote, call[c].outcome)
      BY DEF IInv, CallOK, OutcomeOK, IdsOK, Records
    <2>2. MissingMeansForgotten /\ AnswersStand
      BY <2>1 DEF MissingMeansForgotten, AnswersStand, Stands, Ended
    <2>3. AnswersAgree
      <3> SUFFICES ASSUME NEW c \in Calls, NEW d \in Calls, KeyOf[c] = KeyOf[d],
                          {call[c].outcome, call[d].outcome} \subseteq Server!Ended,
                          \A e \in forgotten : KeyOf[e] # KeyOf[c]
                   PROVE  call[c].outcome = call[d].outcome
        BY DEF AnswersAgree
      <3>1. call[c].outcome \in Ended /\ call[d].outcome \in Ended
        BY DEF Ended
      <3>2. \A e \in {call[c].remote, call[d].remote} :
               e \notin forgotten /\ owner[KeyOf[c]] = e
        BY <2>1, <3>1 DEF Named
      <3>3. /\ job[call[c].remote] = call[c].outcome
            /\ job[call[d].remote] = call[d].outcome
        BY <2>1, <3>1, <3>2 DEF Stands
      <3> QED BY <3>2, <3>3
    <2> QED BY <2>2, <2>3 DEF AnswersJustified
  <1> QED BY <1>1, Invariance, PTL

\* While the circuit is open no call starts a request, neither a first try nor a
\* retry, a poll or a DELETE; also calls that were under way fall silent
\* (_CircuitBreaker.allow in _request_json, infer and _cancel_best_effort).
THEOREM OpenCircuitAlwaysSilent == Spec => OpenCircuitSilent
  <1>1. IInv /\ [Next]_vars =>
          [breaker'.state # "closed" =>
             \A c \in Calls : call'[c].request = Pending =>
                call[c].request = Pending /\ call'[c].op = call[c].op]_vars
    BY NextKeeps DEF Quiet
  <1> QED BY <1>1, Invariance, PTL DEF Spec, OpenCircuitSilent
=============================================================================
