------------------------ MODULE ResilientInvokeProofs ------------------------
(***************************************************************************)
(* ResilientInvoke for any requests, budgets of attempts, thresholds,      *)
(* cool-downs, rates and bursts; and RouterWorkers, the threads that run   *)
(* their calls, for any threads and calls.                                 *)
(***************************************************************************)
EXTENDS ResilientInvoke, RouterWorkers, FiniteSetTheorems, TLAPS

\* The conjuncts of TypeOK that are about the requests, and those that are
\* about the governors they share.
RequestsTyped ==
    /\ pc \in [Requests -> PC]
    /\ budget \in [Requests -> 1..MaxAttempts]
    /\ attempt \in [Requests -> 0..MaxAttempts]
    /\ status \in [Requests -> Status]
    /\ healthy \in BOOLEAN
    /\ inbound \subseteq Requests \X (1..MaxAttempts)
    /\ reply \in [Requests -> {"None"} \cup Answers]
    /\ doomed \in [Requests -> BOOLEAN]
    /\ executed \in [Requests -> 0..MaxAttempts]

GovernorsTyped ==
    /\ runtimeAttempts \in -1..MaxAttempts
    /\ Breaker!TypeOK
    /\ Bucket!BucketTypeOK

CallsFinite == \A r \in Requests : IsFiniteSet(CallsOf(r))

\* Nothing is sent before both governors agreed, and a request that goes on
\* has an attempt left.
AttemptsLeft ==
    \A r \in Requests :
        /\ pc[r] \in {"idle", "admit"} => attempt[r] = 0
        /\ pc[r] \in {"call", "backoff"} => attempt[r] < budget[r]

\* Only an execution makes a reply, only a reply makes an outcome that says so,
\* and a refusal comes before the first attempt.
OutcomesEarned ==
    \A r \in Requests :
        /\ reply[r] # "None" => executed[r] >= 1
        /\ pc[r] \in {"record", "done"} /\ status[r] \in {"OK", "APP_ERROR"} =>
             executed[r] >= 1
        /\ pc[r] = "record" => status[r] \notin Refused
        /\ pc[r] = "done" /\ status[r] \in Refused => attempt[r] = 0

RequestsInv ==
    RequestsTyped /\ CallsFinite /\ ExecutionsBounded /\ AttemptsLeft /\ OutcomesEarned

IInv == RequestsInv /\ GovernorsTyped
-----------------------------------------------------------------------------
(* The governors.                                                          *)

\* What the gateway does to a breaker is what the breaker offers.
LEMMA BreakerStep == [Next]_vars => [Breaker!Next]_breakerVars
<1> SUFFICES ASSUME [Next]_vars PROVE [Breaker!Next]_breakerVars
  OBVIOUS
<1>1. ASSUME NEW r \in Requests, CheckBreaker(r) PROVE Breaker!Next
  BY <1>1 DEF CheckBreaker, Breaker!Next
<1>2. ASSUME NEW r \in Requests, RecordOutcome(r) PROVE Breaker!Next
  BY <1>2 DEF RecordOutcome, Breaker!Next
<1>3. CASE Tick
  BY <1>3 DEF Tick, Breaker!Next
<1>4. ASSUME NEW r \in Requests,
             \/ Arrive(r) \/ SendAttempt(r) \/ ReceiveReply(r) \/ DeadlineExpires(r)
             \/ BackoffEnds(r) \/ NextRequest(r) \/ ConnectionFails(r)
             \/ BackoffAborted(r) \/ \E n \in 1..MaxAttempts : Execute(r, n)
      PROVE  UNCHANGED breakerVars
  BY <1>4 DEF Arrive, SendAttempt, ReceiveReply, DeadlineExpires, Complete,
              BackoffEnds, NextRequest, ConnectionFails, BackoffAborted, Execute
<1>5. CASE \/ \E m \in inbound : Lose(m)
           \/ \E n \in RuntimeChoices : UpdateRuntimeConfig(n)
           \/ Degrade \/ Recover \/ UNCHANGED vars
  BY <1>5 DEF Lose, UpdateRuntimeConfig, Degrade, Recover, vars
<1>6. QED
  BY <1>1, <1>2, <1>3, <1>4, <1>5 DEF Next, Step

\* What it does to a bucket is what the bucket offers.
BucketNext == Bucket!Admit \/ Bucket!Reject \/ Bucket!BucketTick

\* A step of a request or of the clock is a step of the bucket, or leaves it alone.
LEMMA BucketStep == [Next]_vars => [BucketNext]_bucketVars
<1> SUFFICES ASSUME [Next]_vars PROVE [BucketNext]_bucketVars
  OBVIOUS
<1>1. ASSUME NEW r \in Requests, Arrive(r) PROVE BucketNext
  BY <1>1 DEF Arrive, BucketNext
<1>2. CASE Tick
  BY <1>2 DEF Tick, BucketNext
<1>3. ASSUME NEW r \in Requests,
             \/ CheckBreaker(r) \/ SendAttempt(r) \/ ReceiveReply(r)
             \/ DeadlineExpires(r) \/ RecordOutcome(r)
             \/ BackoffEnds(r) \/ NextRequest(r) \/ ConnectionFails(r)
             \/ BackoffAborted(r) \/ \E n \in 1..MaxAttempts : Execute(r, n)
      PROVE  UNCHANGED bucketVars
  BY <1>3 DEF CheckBreaker, SendAttempt, ReceiveReply, DeadlineExpires, Complete,
              RecordOutcome, BackoffEnds, NextRequest, ConnectionFails,
              BackoffAborted, Execute
<1>4. CASE \/ \E m \in inbound : Lose(m)
           \/ \E n \in RuntimeChoices : UpdateRuntimeConfig(n)
           \/ Degrade \/ Recover \/ UNCHANGED vars
  BY <1>4 DEF Lose, UpdateRuntimeConfig, Degrade, Recover, vars
<1>5. QED
  BY <1>1, <1>2, <1>3, <1>4 DEF Next, Step

\* A number of attempts is at least one and at most the largest of the choices.
LEMMA AtLeastOneType ==
    ASSUME NEW n \in -1..MaxAttempts PROVE AtLeastOne(n) \in 1..MaxAttempts
BY InvokeAssumption DEF AtLeastOne

\* The operations of the breaker keep its types.
LEMMA BreakerTyped ==
    ASSUME Breaker!TypeOK, [Breaker!Next]_breakerVars PROVE Breaker!TypeOK'
<1> USE DEF Breaker!TypeOK, Breaker!State
<1> /\ Threshold \in Nat /\ Threshold >= 1 /\ CoolDown \in Nat
  BY InvokeAssumption
<1>1. CASE Breaker!AllowGranted \/ Breaker!AllowRefused \/ Breaker!RecordSuccess
  BY <1>1 DEF Breaker!AllowGranted, Breaker!AllowRefused, Breaker!RecordSuccess,
              Breaker!vars
<1>2. CASE Breaker!RecordFailure \/ Breaker!Tick
  BY <1>2 DEF Breaker!RecordFailure, Breaker!Tick, Breaker!Saturate
<1>3. CASE UNCHANGED breakerVars
  BY <1>3 DEF breakerVars
<1>4. QED
  BY <1>1, <1>2, <1>3 DEF Breaker!Next

\* The operations of the bucket keep its types.
LEMMA BucketTyped ==
    ASSUME Bucket!BucketTypeOK, [BucketNext]_bucketVars PROVE Bucket!BucketTypeOK'
<1> USE DEF Bucket!BucketTypeOK
<1> /\ Unit \in Nat /\ Unit >= 1 /\ Rate \in Nat /\ Burst \in Nat
  BY InvokeAssumption
<1>1. Bucket!Refilled \in 0..Burst
  <2>1. sinceRefill * Rate \in Nat
    OBVIOUS
  <2>2. QED
    BY <2>1 DEF Bucket!Refilled, Bucket!Least
<1>2. CASE Bucket!Admit
  BY <1>1, <1>2 DEF Bucket!Admit, Bucket!Allowed
<1>3. CASE Bucket!Reject
  BY <1>1, <1>3 DEF Bucket!Reject
<1>4. CASE Bucket!BucketTick
  BY <1>4 DEF Bucket!BucketTick, Bucket!Least
<1>5. CASE UNCHANGED bucketVars
  BY <1>5 DEF bucketVars
<1>6. QED
  BY <1>2, <1>3, <1>4, <1>5 DEF BucketNext

\* The shared parts keep their types, whatever the requests do to them.
LEMMA GovernorsInv == ASSUME IInv, [Next]_vars PROVE GovernorsTyped'
<1>1. Breaker!TypeOK' /\ Bucket!BucketTypeOK'
  BY BreakerStep, BucketStep, BreakerTyped, BucketTyped DEF IInv, GovernorsTyped
<1>2. runtimeAttempts' \in -1..MaxAttempts
  <2>1. CASE \E n \in RuntimeChoices : UpdateRuntimeConfig(n)
    BY <2>1, InvokeAssumption, AtLeastOneType DEF UpdateRuntimeConfig
  <2>2. CASE UNCHANGED runtimeAttempts
    BY <2>2 DEF IInv, GovernorsTyped
  <2>3. ASSUME NEW r \in Requests,
               \/ Step(r) \/ ConnectionFails(r) \/ BackoffAborted(r)
               \/ \E n \in 1..MaxAttempts : Execute(r, n)
        PROVE  UNCHANGED runtimeAttempts
    BY <2>3 DEF Step, Arrive, CheckBreaker, SendAttempt, ReceiveReply,
                DeadlineExpires, Complete, RecordOutcome, BackoffEnds, NextRequest,
                ConnectionFails, BackoffAborted, Execute, gatewayVars
  <2>4. CASE (\E m \in inbound : Lose(m)) \/ Degrade \/ Recover \/ Tick
    BY <2>2, <2>4 DEF Lose, Degrade, Recover, Tick, gatewayVars
  <2>5. QED
    BY <2>1, <2>2, <2>3, <2>4 DEF Next, vars, gatewayVars
<1>3. QED
  BY <1>1, <1>2 DEF GovernorsTyped
-----------------------------------------------------------------------------
(* The requests.                                                           *)

\* No request has come: nothing is sent, executed or answered.
LEMMA InitInv == Init => IInv
<1> SUFFICES ASSUME Init PROVE IInv
  OBVIOUS
<1>1. /\ MaxAttempts \in Nat \ {0} /\ RuntimeChoices \subseteq -1..MaxAttempts
      /\ Threshold \in Nat /\ CoolDown \in Nat /\ Burst \in Nat
  BY InvokeAssumption
<1>2. GovernorsTyped
  BY <1>1 DEF Init, GovernorsTyped, Breaker!Init, Breaker!TypeOK, Breaker!State,
              Bucket!BucketInit, Bucket!BucketTypeOK
<1>3. RequestsTyped
  BY <1>1 DEF Init, RequestsTyped, PC, Status
<1>4. \A r \in Requests : CallsOf(r) = {}
  BY DEF Init, CallsOf
<1>5. CallsFinite /\ ExecutionsBounded
  BY <1>4, FS_EmptySet DEF Init, CallsFinite, ExecutionsBounded
<1>6. AttemptsLeft /\ OutcomesEarned
  BY DEF Init, AttemptsLeft, OutcomesEarned
<1>7. QED
  BY <1>2, <1>3, <1>5, <1>6 DEF IInv, RequestsInv

\* A step of one request that touches neither the service nor its attempt.
LEMMA RequestMoves ==
    ASSUME IInv, NEW r \in Requests,
           NEW to \in PC, NEW code \in Status, NEW n \in 1..MaxAttempts,
           pc' = [pc EXCEPT ![r] = to],
           status' = [status EXCEPT ![r] = code],
           budget' = [budget EXCEPT ![r] = n],
           UNCHANGED <<attempt, serviceVars>>,
           attempt[r] <= n,
           to \in {"idle", "admit"} => attempt[r] = 0,
           to \in {"call", "backoff"} => attempt[r] < n,
           to \in {"record", "done"} /\ code \in {"OK", "APP_ERROR"} =>
               executed[r] >= 1,
           to = "record" => code \notin Refused,
           to = "done" /\ code \in Refused => attempt[r] = 0
    PROVE  RequestsInv'
<1>1. /\ pc' \in [Requests -> PC] /\ pc'[r] = to
      /\ status' \in [Requests -> Status] /\ status'[r] = code
      /\ budget' \in [Requests -> 1..MaxAttempts] /\ budget'[r] = n
      /\ \A x \in Requests \ {r} : /\ pc'[x] = pc[x] /\ status'[x] = status[x]
                                   /\ budget'[x] = budget[x]
  BY DEF IInv, RequestsInv, RequestsTyped
<1>2. UNCHANGED <<attempt, healthy, inbound, reply, doomed, executed>>
  BY DEF serviceVars
<1>3. \A x \in Requests : CallsOf(x)' = CallsOf(x)
  BY <1>2 DEF CallsOf
<1>4. RequestsTyped'
  BY <1>1, <1>2 DEF IInv, RequestsInv, RequestsTyped
<1>5. CallsFinite' /\ ExecutionsBounded'
  BY <1>1, <1>2, <1>3 DEF IInv, RequestsInv, CallsFinite, ExecutionsBounded
<1>6. AttemptsLeft' /\ OutcomesEarned'
  BY <1>1, <1>2 DEF IInv, RequestsInv, AttemptsLeft, OutcomesEarned
<1>7. QED
  BY <1>4, <1>5, <1>6 DEF RequestsInv

\* What a request has is what RequestMoves may give it again.
LEMMA Unmoved ==
    ASSUME IInv, NEW r \in Requests
    PROVE  /\ pc[r] \in PC /\ status[r] \in Status
           /\ budget[r] \in 1..MaxAttempts /\ attempt[r] \in 0..MaxAttempts
           /\ attempt[r] <= budget[r]
           /\ status = [status EXCEPT ![r] = status[r]]
           /\ budget = [budget EXCEPT ![r] = budget[r]]
BY DEF IInv, RequestsInv, RequestsTyped, ExecutionsBounded

\* A request takes a budget of one attempt or more, or is refused.
LEMMA ArriveInv == ASSUME IInv, NEW r \in Requests, Arrive(r) PROVE RequestsInv'
<1> DEFINE n == Snapshot
<1>1. n \in 1..MaxAttempts
  BY AtLeastOneType DEF IInv, GovernorsTyped, Snapshot
<1>2. attempt[r] = 0 /\ attempt[r] <= n
  BY <1>1 DEF IInv, RequestsInv, AttemptsLeft, Arrive
<1>3. /\ budget' = [budget EXCEPT ![r] = n]
      /\ UNCHANGED <<attempt, serviceVars>>
  BY DEF Arrive
<1> HIDE DEF n
<1>4. CASE Goto(r, "admit") /\ UNCHANGED status
  <2>1. status' = [status EXCEPT ![r] = status[r]] /\ status[r] \in Status
    BY <1>4, Unmoved
  <2>2. QED
    BY <1>1, <1>2, <1>3, <1>4, <2>1, RequestMoves DEF Goto, PC
<1>5. CASE Return(r, "RESOURCE_EXHAUSTED")
  BY <1>1, <1>2, <1>3, <1>5, RequestMoves DEF Return, Goto, PC, Status, Refused
<1>6. QED
  BY <1>4, <1>5 DEF Arrive

\* A request the breaker lets through has an attempt left.
LEMMA CheckBreakerInv ==
    ASSUME IInv, NEW r \in Requests, CheckBreaker(r) PROVE RequestsInv'
<1>1. attempt[r] = 0
  BY DEF IInv, RequestsInv, AttemptsLeft, CheckBreaker
<1>2. /\ budget' = [budget EXCEPT ![r] = budget[r]]
      /\ budget[r] \in 1..MaxAttempts
      /\ attempt[r] < budget[r] /\ attempt[r] <= budget[r]
      /\ UNCHANGED <<attempt, serviceVars>>
  BY <1>1, Unmoved DEF CheckBreaker
<1>3. CASE Goto(r, "call") /\ UNCHANGED status
  <2>1. status' = [status EXCEPT ![r] = status[r]] /\ status[r] \in Status
    BY <1>3, Unmoved
  <2>2. QED
    BY <1>1, <1>2, <1>3, <2>1, RequestMoves DEF Goto, PC
<1>4. CASE Return(r, "CIRCUIT_OPEN")
  BY <1>1, <1>2, <1>4, RequestMoves DEF Return, Goto, PC, Status, Refused
<1>5. QED
  BY <1>3, <1>4 DEF CheckBreaker

\* An outcome that tells of an execution is the reply of one.
LEMMA CompleteInv ==
    ASSUME IInv, NEW r \in Requests,
           ReceiveReply(r) \/ DeadlineExpires(r) \/ ConnectionFails(r)
    PROVE  RequestsInv'
<1>1. PICK code \in {reply[r], "DEADLINE_EXCEEDED", "UNAVAILABLE"} :
          Complete(r, code) /\ (code = reply[r] => reply[r] # "None")
  <2>1. reply[r] \notin {"DEADLINE_EXCEEDED", "UNAVAILABLE"}
    BY InvokeAssumption DEF IInv, RequestsInv, RequestsTyped
  <2>2. QED
    BY <2>1 DEF ReceiveReply, DeadlineExpires, ConnectionFails
<1>2. /\ code \in Status /\ code \notin Refused
      /\ code \in {"OK", "APP_ERROR"} => executed[r] >= 1
  <2>1. reply[r] # "None" => reply[r] \in {"OK", "APP_ERROR"} /\ executed[r] >= 1
    BY InvokeAssumption DEF IInv, RequestsInv, RequestsTyped, OutcomesEarned
  <2>2. QED
    BY <1>1, <2>1 DEF Status, Retryable, Refused
<1>3. /\ pc' = [pc EXCEPT ![r] = "record"]
      /\ status' = [status EXCEPT ![r] = code]
      /\ budget' = [budget EXCEPT ![r] = budget[r]]
      /\ UNCHANGED <<attempt, serviceVars>>
  BY <1>1, Unmoved DEF Complete, Goto
<1>4. QED
  BY <1>2, <1>3, Unmoved, RequestMoves DEF PC

\* A request goes to its backoff when an attempt is left.
LEMMA RecordOutcomeInv ==
    ASSUME IInv, NEW r \in Requests, RecordOutcome(r) PROVE RequestsInv'
<1>1. PICK to \in {"done", "backoff"} :
          /\ Goto(r, to)
          /\ to = "backoff" => attempt[r] # budget[r]
          /\ UNCHANGED <<budget, attempt, status, serviceVars>>
  BY DEF RecordOutcome, IsLast
<1>2. /\ status[r] \notin Refused
      /\ status[r] \in {"OK", "APP_ERROR"} => executed[r] >= 1
  BY DEF IInv, RequestsInv, OutcomesEarned, RecordOutcome
<1>3. to = "backoff" => attempt[r] < budget[r]
  BY <1>1, Unmoved
<1>4. /\ status' = [status EXCEPT ![r] = status[r]]
      /\ budget' = [budget EXCEPT ![r] = budget[r]]
  BY <1>1, Unmoved
<1>5. to \in PC
  BY DEF PC
<1>6. QED
  BY <1>1, <1>2, <1>3, <1>4, <1>5, Unmoved, RequestMoves DEF Goto

\* After a backoff an attempt is left, or the request is cancelled.
LEMMA BackoffInv ==
    ASSUME IInv, NEW r \in Requests, BackoffEnds(r) \/ BackoffAborted(r)
    PROVE  RequestsInv'
<1>1. attempt[r] < budget[r]
  BY DEF IInv, RequestsInv, AttemptsLeft, BackoffEnds, BackoffAborted
<1>2. /\ budget' = [budget EXCEPT ![r] = budget[r]]
      /\ UNCHANGED <<attempt, serviceVars>>
  BY Unmoved DEF BackoffEnds, BackoffAborted
<1>3. CASE BackoffEnds(r)
  <2>1. /\ pc' = [pc EXCEPT ![r] = "call"]
        /\ status' = [status EXCEPT ![r] = status[r]]
    BY <1>3, Unmoved DEF BackoffEnds, Goto
  <2>2. QED
    BY <1>1, <1>2, <2>1, Unmoved, RequestMoves DEF PC
<1>4. CASE BackoffAborted(r)
  <2>1. /\ pc' = [pc EXCEPT ![r] = "done"]
        /\ status' = [status EXCEPT ![r] = "CANCELLED"]
    BY <1>4 DEF BackoffAborted, Return, Goto
  <2>2. QED
    BY <1>1, <1>2, <2>1, Unmoved, RequestMoves DEF PC, Status, Refused
<1>5. QED
  BY <1>3, <1>4

\* An attempt is counted before it can be executed.
LEMMA SendAttemptInv ==
    ASSUME IInv, NEW r \in Requests, SendAttempt(r) PROVE RequestsInv'
<1> DEFINE m == <<r, attempt[r] + 1>>
<1>1. attempt[r] < budget[r] /\ attempt[r] + 1 \in 1..MaxAttempts
      /\ attempt[r] + 1 <= budget[r]
  <2>1. attempt[r] < budget[r]
    BY DEF IInv, RequestsInv, AttemptsLeft, SendAttempt
  <2>2. MaxAttempts \in Nat
    BY InvokeAssumption
  <2>3. QED
    BY <2>1, <2>2, Unmoved
<1>2. /\ pc' = [pc EXCEPT ![r] = "wait"]
      /\ attempt' = [attempt EXCEPT ![r] = @ + 1]
      /\ inbound' = inbound \cup {m}
      /\ reply' = [reply EXCEPT ![r] = "None"]
      /\ doomed' = [doomed EXCEPT ![r] = ~healthy]
      /\ UNCHANGED <<budget, status, healthy, executed>>
  BY <1>1 DEF SendAttempt, Goto
<1>3. RequestsTyped'
  BY <1>1, <1>2 DEF IInv, RequestsInv, RequestsTyped, PC
<1>4. /\ pc'[r] = "wait" /\ attempt'[r] = attempt[r] + 1 /\ reply'[r] = "None"
      /\ \A x \in Requests \ {r} : /\ pc'[x] = pc[x] /\ attempt'[x] = attempt[x]
                                   /\ reply'[x] = reply[x]
  BY <1>2 DEF IInv, RequestsInv, RequestsTyped
<1>5. /\ CallsOf(r)' = CallsOf(r) \cup {m}
      /\ \A x \in Requests \ {r} : CallsOf(x)' = CallsOf(x)
  BY <1>2 DEF CallsOf
<1> HIDE DEF m
<1>6. /\ IsFiniteSet(CallsOf(r)) /\ Cardinality(CallsOf(r)) \in Nat
      /\ IsFiniteSet(CallsOf(r)')
      /\ Cardinality(CallsOf(r)') <= Cardinality(CallsOf(r)) + 1
      /\ Cardinality(CallsOf(r)') \in Nat
  <2>1. IsFiniteSet(CallsOf(r)) /\ Cardinality(CallsOf(r)) \in Nat
    BY FS_CardinalityType DEF IInv, RequestsInv, CallsFinite
  <2>2. /\ IsFiniteSet(CallsOf(r)')
        /\ Cardinality(CallsOf(r)') = IF m \in CallsOf(r) THEN Cardinality(CallsOf(r))
                                      ELSE Cardinality(CallsOf(r)) + 1
    BY <1>5, <2>1, FS_AddElement
  <2>3. QED
    BY <2>1, <2>2
<1>7. executed[r] \in Nat /\ executed[r] + Cardinality(CallsOf(r)) <= attempt[r]
      /\ attempt[r] \in Nat
  BY DEF IInv, RequestsInv, RequestsTyped, ExecutionsBounded
<1>8. executed'[r] + Cardinality(CallsOf(r)') <= attempt'[r]
  BY <1>2, <1>4, <1>6, <1>7
<1>9. CallsFinite' /\ ExecutionsBounded'
  BY <1>1, <1>2, <1>4, <1>5, <1>6, <1>8
     DEF IInv, RequestsInv, CallsFinite, ExecutionsBounded
<1>10. AttemptsLeft' /\ OutcomesEarned'
  BY <1>2, <1>4 DEF IInv, RequestsInv, AttemptsLeft, OutcomesEarned
<1>11. QED
  BY <1>3, <1>9, <1>10 DEF RequestsInv

\* An execution takes its call from the network.
LEMMA ExecuteInv ==
    ASSUME IInv, NEW r \in Requests, NEW n \in 1..MaxAttempts, Execute(r, n)
    PROVE  RequestsInv'
<1> DEFINE m == <<r, n>>
<1>1. /\ m \in inbound
      /\ inbound' = inbound \ {m}
      /\ executed' = [executed EXCEPT ![r] = @ + 1]
      /\ UNCHANGED <<pc, budget, attempt, status, healthy, doomed>>
  BY DEF Execute, gatewayVars
<1>2. /\ m \in CallsOf(r)
      /\ CallsOf(r)' = CallsOf(r) \ {m}
      /\ \A x \in Requests \ {r} : CallsOf(x)' = CallsOf(x)
  BY <1>1 DEF CallsOf
<1> HIDE DEF m
<1>3. /\ IsFiniteSet(CallsOf(r)')
      /\ Cardinality(CallsOf(r)) \in Nat
      /\ Cardinality(CallsOf(r)') \in Nat
      /\ Cardinality(CallsOf(r)') = Cardinality(CallsOf(r)) - 1
  <2>1. IsFiniteSet(CallsOf(r)) /\ Cardinality(CallsOf(r)) \in Nat
    BY FS_CardinalityType DEF IInv, RequestsInv, CallsFinite
  <2>2. /\ IsFiniteSet(CallsOf(r)')
        /\ Cardinality(CallsOf(r)') = Cardinality(CallsOf(r)) - 1
    BY <1>2, <2>1, FS_RemoveElement
  <2>3. QED
    BY <2>1, <2>2, FS_CardinalityType
<1>4. /\ executed[r] \in Nat /\ attempt[r] \in 0..MaxAttempts
      /\ executed[r] + Cardinality(CallsOf(r)) <= attempt[r]
      /\ MaxAttempts \in Nat
  BY InvokeAssumption DEF IInv, RequestsInv, RequestsTyped, ExecutionsBounded
<1>5. /\ executed'[r] = executed[r] + 1
      /\ \A x \in Requests \ {r} : executed'[x] = executed[x]
  BY <1>1 DEF IInv, RequestsInv, RequestsTyped
<1>6. /\ executed'[r] \in 0..MaxAttempts /\ executed'[r] >= 1
      /\ executed'[r] + Cardinality(CallsOf(r)') <= attempt[r]
  BY <1>3, <1>4, <1>5
<1>7. /\ reply' \in [Requests -> {"None"} \cup Answers]
      /\ \A x \in Requests \ {r} : reply'[x] = reply[x]
  BY DEF Execute, IInv, RequestsInv, RequestsTyped
<1>8. RequestsTyped'
  <2>1. executed' \in [Requests -> 0..MaxAttempts]
    BY <1>1, <1>5, <1>6 DEF IInv, RequestsInv, RequestsTyped
  <2>2. QED
    BY <1>1, <1>7, <2>1 DEF IInv, RequestsInv, RequestsTyped
<1>9. CallsFinite' /\ ExecutionsBounded'
  BY <1>1, <1>2, <1>3, <1>5, <1>6
     DEF IInv, RequestsInv, CallsFinite, ExecutionsBounded
<1>10. AttemptsLeft' /\ OutcomesEarned'
  BY <1>1, <1>5, <1>6, <1>7 DEF IInv, RequestsInv, AttemptsLeft, OutcomesEarned
<1>11. QED
  BY <1>8, <1>9, <1>10 DEF RequestsInv

\* A lost call is executed by nobody.
LEMMA LoseInv == ASSUME IInv, NEW m \in inbound, Lose(m) PROVE RequestsInv'
<1>1. /\ inbound' = inbound \ {m}
      /\ UNCHANGED <<pc, budget, attempt, status, healthy, reply, doomed, executed>>
  BY DEF Lose, gatewayVars
<1>2. ASSUME NEW x \in Requests
      PROVE  /\ IsFiniteSet(CallsOf(x)')
             /\ executed'[x] + Cardinality(CallsOf(x)') <= attempt'[x]
             /\ attempt'[x] <= budget'[x]
  <2>1. /\ CallsOf(x)' \in SUBSET CallsOf(x)
    BY <1>1 DEF CallsOf
  <2>2. IsFiniteSet(CallsOf(x))
    BY DEF IInv, RequestsInv, CallsFinite
  <2>3. /\ IsFiniteSet(CallsOf(x)')
        /\ Cardinality(CallsOf(x)') <= Cardinality(CallsOf(x))
    BY <2>1, <2>2, FS_Subset
  <2>4. Cardinality(CallsOf(x)') \in Nat /\ Cardinality(CallsOf(x)) \in Nat
    BY <2>2, <2>3, FS_CardinalityType
  <2>5. /\ executed[x] \in Nat /\ attempt[x] \in Nat
        /\ executed[x] + Cardinality(CallsOf(x)) <= attempt[x]
        /\ attempt[x] <= budget[x]
    BY DEF IInv, RequestsInv, RequestsTyped, ExecutionsBounded
  <2>6. QED
    BY <1>1, <2>3, <2>4, <2>5
<1>3. RequestsTyped' /\ AttemptsLeft' /\ OutcomesEarned'
  BY <1>1 DEF IInv, RequestsInv, RequestsTyped, AttemptsLeft, OutcomesEarned
<1>4. QED
  BY <1>2, <1>3 DEF RequestsInv, CallsFinite, ExecutionsBounded

\* A slot is used again once none of its calls can be executed any more.
LEMMA NextRequestInv ==
    ASSUME IInv, NEW r \in Requests, NextRequest(r) PROVE RequestsInv'
<1>1. /\ pc' = [pc EXCEPT ![r] = "idle"]
      /\ budget' = [budget EXCEPT ![r] = 1]
      /\ attempt' = [attempt EXCEPT ![r] = 0]
      /\ status' = [status EXCEPT ![r] = "OK"]
      /\ executed' = [executed EXCEPT ![r] = 0]
      /\ reply' = [reply EXCEPT ![r] = "None"]
      /\ doomed' = [doomed EXCEPT ![r] = FALSE]
      /\ UNCHANGED <<healthy, inbound>>
  BY DEF NextRequest, Goto
<1>2. RequestsTyped'
  <2>1. 1 \in 1..MaxAttempts /\ 0 \in 0..MaxAttempts
    BY InvokeAssumption
  <2>2. QED
    BY <1>1, <2>1 DEF IInv, RequestsInv, RequestsTyped, PC, Status
<1>3. /\ pc'[r] = "idle" /\ budget'[r] = 1 /\ attempt'[r] = 0 /\ executed'[r] = 0
      /\ reply'[r] = "None"
      /\ \A x \in Requests \ {r} :
             /\ pc'[x] = pc[x] /\ budget'[x] = budget[x] /\ attempt'[x] = attempt[x]
             /\ executed'[x] = executed[x] /\ reply'[x] = reply[x]
             /\ status'[x] = status[x]
  BY <1>1 DEF IInv, RequestsInv, RequestsTyped
<1>4. /\ CallsOf(r)' = {}
      /\ \A x \in Requests : CallsOf(x)' = CallsOf(x)
  BY <1>1 DEF CallsOf, NextRequest
<1>5. IsFiniteSet({}) /\ Cardinality({}) = 0
  BY FS_EmptySet
<1>6. CallsFinite' /\ ExecutionsBounded'
  BY <1>3, <1>4, <1>5 DEF IInv, RequestsInv, CallsFinite, ExecutionsBounded
<1>7. AttemptsLeft' /\ OutcomesEarned'
  BY <1>3 DEF IInv, RequestsInv, AttemptsLeft, OutcomesEarned
<1>8. QED
  BY <1>2, <1>6, <1>7 DEF RequestsInv

\* The health of the service, the clock and the administrator change nothing
\* that a request has: it works with its snapshot.
LEMMA OutsideInv ==
    ASSUME IInv,
           \/ Degrade \/ Recover \/ Tick \/ UNCHANGED vars
           \/ \E n \in RuntimeChoices : UpdateRuntimeConfig(n)
    PROVE  RequestsInv'
<1>1. /\ UNCHANGED <<pc, budget, attempt, status, inbound, reply, executed>>
      /\ healthy' \in BOOLEAN
      /\ doomed' \in [Requests -> BOOLEAN]
  <2>1. healthy \in BOOLEAN /\ doomed \in [Requests -> BOOLEAN]
    BY DEF IInv, RequestsInv, RequestsTyped
  <2>2. CASE Degrade
    BY <2>1, <2>2 DEF Degrade, gatewayVars
  <2>3. CASE Recover
    BY <2>1, <2>3 DEF Recover, gatewayVars
  <2>4. CASE Tick \/ UNCHANGED vars \/ \E n \in RuntimeChoices : UpdateRuntimeConfig(n)
    BY <2>1, <2>4 DEF Tick, vars, UpdateRuntimeConfig, gatewayVars, serviceVars
  <2>5. QED
    BY <2>2, <2>3, <2>4
<1>2. \A x \in Requests : CallsOf(x)' = CallsOf(x)
  BY <1>1 DEF CallsOf
<1>3. QED
  BY <1>1, <1>2 DEF IInv, RequestsInv, RequestsTyped, CallsFinite, ExecutionsBounded,
                    AttemptsLeft, OutcomesEarned
-----------------------------------------------------------------------------
\* Every step preserves the invariant.
LEMMA NextInv == IInv /\ [Next]_vars => IInv'
<1> SUFFICES ASSUME IInv, [Next]_vars PROVE IInv'
  OBVIOUS
<1>1. ASSUME NEW r \in Requests, Step(r) PROVE RequestsInv'
  BY <1>1, ArriveInv, CheckBreakerInv, SendAttemptInv, CompleteInv, RecordOutcomeInv,
     BackoffInv, NextRequestInv DEF Step
<1>2. ASSUME NEW r \in Requests, ConnectionFails(r) \/ BackoffAborted(r)
      PROVE  RequestsInv'
  BY <1>2, CompleteInv, BackoffInv
<1>3. RequestsInv'
  BY <1>1, <1>2, ExecuteInv, LoseInv, OutsideInv DEF Next
<1>4. QED
  BY <1>3, GovernorsInv DEF IInv

\* The requests, the governors and the network keep the types TypeOK gives
\* them (InvokeWithResilienceAsync of grpc_router.cpp).
THEOREM TypeCorrect == Spec => []TypeOK
<1>1. IInv => TypeOK
  BY DEF IInv, RequestsInv, RequestsTyped, GovernorsTyped, TypeOK
<1>2. QED
  BY InitInv, NextInv, <1>1, PTL DEF Spec

\* For any requests and budgets, whatever is lost, late or answered to nobody,
\* and however the administrator changes retry_attempts meanwhile: the calls
\* executed and those still to be are no more than the attempts of the
\* request's snapshot.
THEOREM DuplicatesBounded == Spec => []ExecutionsBounded
<1>1. IInv => ExecutionsBounded
  BY DEF IInv, RequestsInv
<1>2. QED
  BY InitInv, NextInv, <1>1, PTL DEF Spec

\* For any requests, budgets and governors: OK and an error of the handler mean
\* that the request was executed, a refusal that it never is.
THEOREM AnswersMean == Spec => []AnswerMeaning
<1>1. IInv => AnswerMeaning
  <2> SUFFICES ASSUME IInv, NEW r \in Requests, pc[r] = "done"
               PROVE  /\ status[r] \in {"OK", "APP_ERROR"} => executed[r] >= 1
                      /\ status[r] \in Refused => executed[r] = 0 /\ CallsOf(r) = {}
    BY DEF AnswerMeaning
  <2>1. CASE status[r] \in Refused
    <3>1. attempt[r] = 0 /\ executed[r] \in Nat
      BY <2>1 DEF IInv, RequestsInv, RequestsTyped, OutcomesEarned
    <3>2. IsFiniteSet(CallsOf(r)) /\ Cardinality(CallsOf(r)) \in Nat
      BY FS_CardinalityType DEF IInv, RequestsInv, CallsFinite
    <3>3. executed[r] + Cardinality(CallsOf(r)) <= 0
      BY <3>1 DEF IInv, RequestsInv, ExecutionsBounded
    <3>4. executed[r] = 0 /\ Cardinality(CallsOf(r)) = 0
      BY <3>1, <3>2, <3>3
    <3>5. QED
      BY <2>1, <3>2, <3>4, FS_EmptySet DEF Refused
  <2>2. CASE status[r] \notin Refused
    BY <2>2 DEF IInv, RequestsInv, OutcomesEarned
  <2>3. QED
    BY <2>1, <2>2
<1>2. QED
  BY InitInv, NextInv, <1>1, PTL DEF Spec

\* The requests use the breaker and the bucket they share through the
\* operations these offer, wherever their coroutines interleave: every behaviour
\* of the gateway is one of CircuitBreaker, and what is proved of the breaker
\* and of the bucket holds of the ones in the gateway.
THEOREM GovernorsUsed ==
    Spec => Breaker!Spec /\ Bucket!BucketInit /\ [][BucketNext]_bucketVars
<1>1. Init => Breaker!Init /\ Bucket!BucketInit
  BY DEF Init
<1>2. [Next]_vars => [Breaker!Next]_(Breaker!vars)
  BY BreakerStep DEF Breaker!vars, breakerVars
<1>3. QED
  BY <1>1, <1>2, BucketStep, PTL DEF Spec, Breaker!Spec
-----------------------------------------------------------------------------
(* The limiter of the gateway under watch (RateWindow).                    *)

CONSTANT MaxWindow
VARIABLES window, admitted

Watch == INSTANCE RateWindow

observer == <<window, admitted>>

\* A request gets past the limiter.
Passes == \E r \in Requests : Arrive(r) /\ pc'[r] = "admit"

\* The gateway beside an observer, which counts the requests that get past and
\* the ticks that go by, and may begin to count again at any moment, at the
\* latest after MaxWindow ticks, whatever that number is.
WatchedNext ==
    \/ Passes /\ admitted' = admitted + 1 /\ UNCHANGED window
    \/ Tick /\ window < MaxWindow /\ window' = window + 1 /\ UNCHANGED admitted
    \/ Next /\ ~Passes /\ ~Tick /\ UNCHANGED observer
    \/ window' = 0 /\ admitted' = 0 /\ UNCHANGED vars

WatchedSpec ==
    /\ Init /\ window = 0 /\ admitted = 0
    /\ [][WatchedNext]_<<vars, observer>>

\* Watching does not change what the gateway does.
LEMMA WatchedStep == [WatchedNext]_<<vars, observer>> => [Next]_vars
BY DEF WatchedNext, Passes, Next, Step

\* A request that gets past has been admitted, by this bucket and this once.
LEMMA PassesAdmitted == ASSUME IInv, Passes PROVE Bucket!Admit
<1>1. PICK r \in Requests : Arrive(r) /\ pc'[r] = "admit"
  BY DEF Passes
<1>2. CASE Return(r, "RESOURCE_EXHAUSTED")
  <2>1. pc'[r] = "done"
    BY <1>2 DEF Return, Goto, IInv, RequestsInv, RequestsTyped
  <2>2. QED
    BY <1>1, <2>1
<1>3. QED
  BY <1>1, <1>2 DEF Arrive

\* Whatever else the gateway does takes nothing from the bucket.
LEMMA OthersTakeNothing ==
    ASSUME IInv, Next, ~Passes, ~Tick PROVE Bucket!Reject \/ UNCHANGED bucketVars
<1>1. ASSUME NEW r \in Requests, Arrive(r) PROVE Bucket!Reject
  <2>1. CASE Goto(r, "admit")
    <3>1. pc'[r] = "admit"
      BY <2>1 DEF Goto, IInv, RequestsInv, RequestsTyped
    <3>2. QED
      BY <1>1, <3>1 DEF Passes
  <2>2. QED
    BY <1>1, <2>1 DEF Arrive
<1>2. ASSUME NEW r \in Requests,
             \/ CheckBreaker(r) \/ SendAttempt(r) \/ ReceiveReply(r)
             \/ DeadlineExpires(r) \/ RecordOutcome(r)
             \/ BackoffEnds(r) \/ NextRequest(r) \/ ConnectionFails(r)
             \/ BackoffAborted(r) \/ \E n \in 1..MaxAttempts : Execute(r, n)
      PROVE  UNCHANGED bucketVars
  BY <1>2 DEF CheckBreaker, SendAttempt, ReceiveReply, DeadlineExpires, Complete,
              RecordOutcome, BackoffEnds, NextRequest, ConnectionFails,
              BackoffAborted, Execute
<1>3. CASE \/ \E m \in inbound : Lose(m)
           \/ \E n \in RuntimeChoices : UpdateRuntimeConfig(n)
           \/ Degrade \/ Recover
  BY <1>3 DEF Lose, UpdateRuntimeConfig, Degrade, Recover
<1>4. QED
  BY <1>1, <1>2, <1>3 DEF Next, Step

\* A step of the watched gateway is one of the watched bucket, or a stutter.
LEMMA WindowStep ==
    ASSUME IInv, [WatchedNext]_<<vars, observer>>
    PROVE  [Watch!WindowNext]_(Watch!windowVars)
<1> USE DEF Watch!WindowNext
<1>1. CASE Passes /\ admitted' = admitted + 1 /\ UNCHANGED window
  <2>1. Watch!AllowTrue
    BY <1>1, PassesAdmitted DEF Watch!AllowTrue, Watch!Admit, Watch!Allowed,
         Watch!Refilled, Watch!Least, Bucket!Admit, Bucket!Allowed,
         Bucket!Refilled, Bucket!Least
  <2>2. QED
    BY <2>1
<1>2. CASE /\ Tick /\ window < MaxWindow /\ window' = window + 1
           /\ UNCHANGED admitted
  <2>1. Watch!WindowTick
    BY <1>2 DEF Tick, Watch!WindowTick, Watch!BucketTick, Watch!Least,
         Bucket!BucketTick, Bucket!Least
  <2>2. QED
    BY <2>1
<1>3. CASE Next /\ ~Passes /\ ~Tick /\ UNCHANGED observer
  <2>1. UNCHANGED <<window, admitted>>
    BY <1>3 DEF observer
  <2>2. CASE Bucket!Reject
    BY <2>1, <2>2 DEF Watch!AllowFalse, Watch!Reject, Watch!Allowed,
         Watch!Refilled, Watch!Least, Bucket!Reject, Bucket!Allowed,
         Bucket!Refilled, Bucket!Least
  <2>3. CASE UNCHANGED bucketVars
    BY <2>1, <2>3 DEF Watch!windowVars, bucketVars
  <2>4. QED
    BY <1>3, <2>2, <2>3, OthersTakeNothing
<1>4. CASE window' = 0 /\ admitted' = 0 /\ UNCHANGED vars
  <2>1. Watch!OpenWindow
    BY <1>4 DEF vars, bucketVars, Watch!OpenWindow, Watch!bucket
  <2>2. QED
    BY <2>1
<1>5. CASE UNCHANGED <<vars, observer>>
  BY <1>5 DEF vars, bucketVars, observer, Watch!windowVars
<1>6. QED
  BY <1>1, <1>2, <1>3, <1>4, <1>5 DEF WatchedNext

\* The requests that get past the limiter of the gateway, counted over any window
\* of its clock, are counted as RateWindow counts: that in every window the
\* burst and the refill pay for them holds of the gateway, whatever the
\* requests do once they are past (RouteWithStatusAsync of grpc_router.cpp).
THEOREM AdmissionsWatched == WatchedSpec => Spec /\ Watch!WindowSpec
<1>1. /\ Init => IInv
      /\ Init /\ window = 0 /\ admitted = 0 => Watch!WindowInit
  BY InitInv DEF Init, Watch!WindowInit, Watch!BucketInit, Bucket!BucketInit
<1>2. QED
  BY <1>1, WatchedStep, NextInv, WindowStep, PTL
     DEF WatchedSpec, Spec, Watch!WindowSpec
-----------------------------------------------------------------------------
(* The threads under the router (RouterWorkers).                           *)

WorkerPlaces == {"none", "check", "enter", "running", "recheck", "reset",
                 "sleep", "exited"}

\* grpc_running_ falls with the first step of the destructor, and nothing
\* raises it again: this is why a thread that looks at it after the stop exits.
ThreadsInv ==
    /\ worker \in [Workers -> WorkerPlaces]
    /\ stopped \in BOOLEAN
    /\ router \in {"alive", "stop", "join", "gone"}
    /\ grpcRunning = (router = "alive")
    /\ LoneThreadStops

\* All threads that are started begin at the head of their loop.
LEMMA ThreadsInit == RouterInit => ThreadsInv
<1> SUFFICES ASSUME RouterInit PROVE ThreadsInv
  OBVIOUS
<1>1. /\ worker \in [Workers -> {"none", "check"}]
      /\ grpcRunning = TRUE /\ stopped = FALSE /\ router = "alive"
  BY DEF RouterInit
<1>2. QED
  BY <1>1 DEF ThreadsInv, WorkerPlaces, LoneThreadStops

\* A thread that moves is a started one and stays so: which thread is alone
\* does not change.
LEMMA ThreadMoves ==
    ASSUME ThreadsInv, NEW x \in Workers, worker[x] # "none",
           NEW to \in WorkerPlaces \ {"none"},
           worker' = [worker EXCEPT ![x] = to],
           UNCHANGED <<grpcRunning, router>>, stopped' \in BOOLEAN,
           to = "exited" => router # "alive",
           router = "join" /\ ~stopped' /\ Alone(x) =>
               to \in {"check", "sleep", "exited"}
    PROVE  ThreadsInv'
<1>1. /\ worker' \in [Workers -> WorkerPlaces] /\ worker'[x] = to
      /\ \A w \in Workers \ {x} : worker'[w] = worker[w]
  BY DEF ThreadsInv
<1>2. router' = "alive" => \A w \in Workers : worker'[w] # "exited"
  BY <1>1 DEF ThreadsInv, LoneThreadStops
<1>3. \A w \in Workers : worker'[w] # "none" <=> worker[w] # "none"
  BY <1>1
<1>4. Started' = Started /\ x \in Started
  BY <1>3 DEF Started
<1>5. ASSUME NEW w \in Workers, router' = "join", ~stopped', Alone(w)'
      PROVE  worker'[w] \in {"check", "sleep", "exited"}
  <2>1. Alone(w) /\ w = x
    BY <1>4, <1>5 DEF Alone
  <2>2. QED
    BY <1>1, <1>5, <2>1
<1>6. QED
  BY <1>1, <1>2, <1>5 DEF ThreadsInv, LoneThreadStops

\* The steps of one thread.
LEMMA ThreadStep ==
    ASSUME ThreadsInv, NEW x \in Workers, WorkerStep(x)
    PROVE  ThreadsInv'
<1>1. /\ worker[x] \in WorkerPlaces /\ stopped \in BOOLEAN
      /\ grpcRunning = (router = "alive")
      /\ router = "join" /\ ~stopped /\ Alone(x) =>
           worker[x] \in {"check", "sleep", "exited"}
  BY DEF ThreadsInv, LoneThreadStops
<1>2. CASE CheckRunning(x)
  <2>1. /\ worker[x] = "check" /\ UNCHANGED <<grpcRunning, stopped, router>>
        /\ worker' = [worker EXCEPT ![x] = IF grpcRunning THEN "enter" ELSE "exited"]
    BY <1>2 DEF CheckRunning, WorkerAt
  <2>2. CASE router = "alive"
    BY <1>1, <2>1, <2>2, ThreadMoves DEF WorkerPlaces
  <2>3. CASE router # "alive"
    BY <1>1, <2>1, <2>3, ThreadMoves DEF WorkerPlaces
  <2>4. QED
    BY <2>2, <2>3
<1>3. CASE EnterRun(x)
  <2>1. /\ worker[x] = "enter" /\ UNCHANGED <<grpcRunning, router>>
        /\ stopped' = (stopped \/ pending = {})
        /\ worker' = [worker EXCEPT ![x] =
                        IF pending = {} \/ stopped THEN "recheck" ELSE "running"]
    BY <1>3 DEF EnterRun, WorkerAt
  <2>2. stopped' \in BOOLEAN /\ (~stopped' => ~stopped)
    BY <2>1
  <2>3. CASE pending = {} \/ stopped
    BY <1>1, <2>1, <2>2, <2>3, ThreadMoves DEF WorkerPlaces
  <2>4. CASE ~(pending = {} \/ stopped)
    BY <1>1, <2>1, <2>2, <2>4, ThreadMoves DEF WorkerPlaces
  <2>5. QED
    BY <2>3, <2>4
<1>4. ASSUME NEW k \in Calls, CompleteCall(x, k) PROVE ThreadsInv'
  <2>1. /\ worker[x] = "running" /\ ~stopped
        /\ UNCHANGED <<grpcRunning, worker, router>>
        /\ stopped' = (pending = {k})
    BY <1>4 DEF CompleteCall
  <2>2. /\ stopped' \in BOOLEAN
        /\ worker' = [worker EXCEPT ![x] = "running"]
    BY <2>1 DEF ThreadsInv
  <2>3. QED
    BY <1>1, <2>1, <2>2, ThreadMoves DEF WorkerPlaces
<1>5. CASE LeaveRun(x)
  <2>1. /\ worker[x] = "running" /\ stopped
        /\ UNCHANGED <<grpcRunning, stopped, router>>
        /\ worker' = [worker EXCEPT ![x] = "recheck"]
    BY <1>5 DEF LeaveRun, WorkerAt
  <2>2. QED
    BY <1>1, <2>1, ThreadMoves DEF WorkerPlaces
<1>6. CASE Recheck(x)
  <2>1. /\ worker[x] = "recheck" /\ UNCHANGED <<grpcRunning, stopped, router>>
        /\ worker' = [worker EXCEPT ![x] = IF grpcRunning THEN "reset" ELSE "exited"]
    BY <1>6 DEF Recheck, WorkerAt
  <2>2. CASE router = "alive"
    BY <1>1, <2>1, <2>2, ThreadMoves DEF WorkerPlaces
  <2>3. CASE router # "alive"
    BY <1>1, <2>1, <2>3, ThreadMoves DEF WorkerPlaces
  <2>4. QED
    BY <2>2, <2>3
<1>7. CASE Reset(x)
  <2>1. /\ worker[x] = "reset" /\ UNCHANGED <<grpcRunning, router>>
        /\ stopped' = FALSE
        /\ worker' = [worker EXCEPT ![x] = IF didWork[x] THEN "check" ELSE "sleep"]
    BY <1>7 DEF Reset, WorkerAt
  <2>2. CASE didWork[x]
    BY <1>1, <2>1, <2>2, ThreadMoves DEF WorkerPlaces
  <2>3. CASE ~didWork[x]
    BY <1>1, <2>1, <2>3, ThreadMoves DEF WorkerPlaces
  <2>4. QED
    BY <2>2, <2>3
<1>8. CASE Wake(x)
  <2>1. /\ worker[x] = "sleep" /\ UNCHANGED <<grpcRunning, stopped, router>>
        /\ worker' = [worker EXCEPT ![x] = "check"]
    BY <1>8 DEF Wake, WorkerAt
  <2>2. QED
    BY <1>1, <2>1, ThreadMoves DEF WorkerPlaces
<1>9. QED
  BY <1>2, <1>3, <1>4, <1>5, <1>6, <1>7, <1>8 DEF WorkerStep

\* Every step preserves the invariant of the threads.
LEMMA ThreadsNext == ThreadsInv /\ [RouterNext]_routerVars => ThreadsInv'
<1> SUFFICES ASSUME ThreadsInv, [RouterNext]_routerVars PROVE ThreadsInv'
  OBVIOUS
<1>1. ASSUME UNCHANGED <<grpcRunning, stopped, worker, router>> PROVE ThreadsInv'
  BY <1>1 DEF ThreadsInv, LoneThreadStops, Alone, Started
<1>2. CASE UNCHANGED routerVars
  BY <1>1, <1>2 DEF routerVars, workerVars
<1>3. ASSUME NEW k \in Calls, Submit(k) \/ ServiceAnswers(k)
      PROVE  ThreadsInv'
  BY <1>1, <1>3 DEF Submit, ServiceAnswers, workerVars
<1>4. CASE StopExchange
  BY <1>4 DEF StopExchange, DtorAt, workerVars,
              ThreadsInv, LoneThreadStops
<1>5. CASE StopContext
  BY <1>5 DEF StopContext, DtorAt, workerVars,
              ThreadsInv, LoneThreadStops
<1>6. CASE Join
  BY <1>6 DEF Join, DtorAt, workerVars,
              ThreadsInv, LoneThreadStops
<1>7. CASE Gone
  BY <1>1, <1>7 DEF Gone, routerVars, workerVars
<1>8. QED
  BY <1>2, <1>3, <1>4, <1>5, <1>6, <1>7, ThreadStep
     DEF RouterNext, Dtor

\* For any threads and calls: no thread leaves the context while the router
\* lives, and a thread that runs it alone never loses the destructor's stop
\* for good (StopGrpcWorkers of grpc_router.cpp).
THEOREM StopReachesLoneThread == RouterSpec => []LoneThreadStops
<1>1. ThreadsInv => LoneThreadStops
  BY DEF ThreadsInv
<1>2. QED
  BY ThreadsInit, ThreadsNext, <1>1, PTL DEF RouterSpec
=============================================================================
