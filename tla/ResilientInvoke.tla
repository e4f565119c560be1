--------------------------- MODULE ResilientInvoke ---------------------------
(***************************************************************************)
(* InvokeWithResilienceAsync of gateways/access_gateway/routing/           *)
(* grpc_router.cpp: concurrent requests of one downstream service share    *)
(* its rate limiter and its circuit breaker, are sent to the service with  *)
(* a deadline, and are retried after a backoff.  The limiter and the       *)
(* breaker are the modules TokenBucket and CircuitBreaker.                 *)
(*                                                                         *)
(* A coroutine gives way to the others wherever it awaits, and the worker  *)
(* threads interleave everywhere else: each call on a shared object is an  *)
(* action.  The service and the network are modelled from the way this     *)
(* file uses gRPC: a call can be lost, answered, answered too late, or     *)
(* executed after the gateway has given it up.                             *)
(***************************************************************************)
EXTENDS Integers, FiniteSets

CONSTANTS Requests,       \* slots for concurrent requests
          RuntimeChoices, \* values of retry_attempts an administrator sets
          MaxAttempts,    \* bound of RuntimeChoices
          Answers,        \* what the service answers: "OK", "APP_ERROR"
          Threshold, CoolDown,
          Unit, Rate, Burst

ASSUME InvokeAssumption == /\ MaxAttempts \in Nat \ {0}
                           /\ RuntimeChoices \subseteq -1..MaxAttempts
                           /\ Answers \subseteq {"OK", "APP_ERROR"}
                           /\ "OK" \in Answers
                           /\ {Threshold, Unit, Rate} \subseteq Nat \ {0}
                           /\ {CoolDown, Burst} \subseteq Nat

VARIABLES
    \* the gateway
    runtimeAttempts, \* runtime_config_.retry_attempts
    pc,              \* where each request's coroutine is
    budget,          \* attempts: the snapshot each request works with
    attempt,         \* attempt
    status,          \* last_status, then the status returned
    \* the breaker and the limiter of the service
    breaker, failureCount, sinceOpened, sinceFailure,
    tokens, sinceRefill,
    \* the service and the network
    healthy,         \* the service answers within the deadline
    inbound,         \* calls <<request, attempt>> on their way to a handler
    reply,           \* the answer to each request's current attempt
    doomed,          \* the current attempt may run into its deadline
    executed         \* history: executions of each request by the service

breakerVars == <<breaker, failureCount, sinceOpened, sinceFailure>>
bucketVars == <<tokens, sinceRefill>>
gatewayVars == <<runtimeAttempts, pc, budget, attempt, status>>
serviceVars == <<healthy, inbound, reply, doomed, executed>>
vars == <<gatewayVars, breakerVars, bucketVars, serviceVars>>

Breaker == INSTANCE CircuitBreaker WITH state <- breaker
Bucket == INSTANCE TokenBucket

PC == {"idle", "admit", "call", "wait", "record", "backoff", "done"}
Retryable == {"UNAVAILABLE", "DEADLINE_EXCEEDED"}
Refused == {"RESOURCE_EXHAUSTED", "CIRCUIT_OPEN"}
Status == {"OK", "APP_ERROR", "CANCELLED"} \cup Retryable \cup Refused

\* The constructor takes the configured runtime values as they are.
Init == /\ runtimeAttempts \in RuntimeChoices
        /\ pc = [r \in Requests |-> "idle"]
        /\ budget = [r \in Requests |-> 1]
        /\ attempt = [r \in Requests |-> 0]
        /\ status = [r \in Requests |-> "OK"]
        /\ Breaker!Init
        /\ Bucket!BucketInit
        /\ healthy = TRUE
        /\ inbound = {}
        /\ reply = [r \in Requests |-> "None"]
        /\ doomed = [r \in Requests |-> FALSE]
        /\ executed = [r \in Requests |-> 0]
-----------------------------------------------------------------------------
(* The gateway.                                                            *)

Goto(r, label) == pc' = [pc EXCEPT ![r] = label]
Return(r, code) == Goto(r, "done") /\ status' = [status EXCEPT ![r] = code]

AtLeastOne(n) == IF n < 1 THEN 1 ELSE n

\* A request reads the runtime configuration once: its loop runs as often as the
\* attempts it read, whatever an administrator sets meanwhile.
Snapshot == AtLeastOne(runtimeAttempts)

\* A request takes its snapshot and asks the limiter.  last_status starts as an
\* OK status.
Arrive(r) ==
    /\ pc[r] = "idle"
    /\ budget' = [budget EXCEPT ![r] = Snapshot]
    /\ \/ Bucket!Admit /\ Goto(r, "admit") /\ UNCHANGED status
       \/ Bucket!Reject /\ Return(r, "RESOURCE_EXHAUSTED")
    /\ UNCHANGED <<runtimeAttempts, attempt, breakerVars, serviceVars>>

\* It asks the breaker, once: its retries will not ask again.
CheckBreaker(r) ==
    /\ pc[r] = "admit"
    /\ \/ Breaker!AllowGranted /\ Goto(r, "call") /\ UNCHANGED status
       \/ Breaker!AllowRefused /\ Return(r, "CIRCUIT_OPEN")
    /\ UNCHANGED <<runtimeAttempts, budget, attempt, bucketVars, serviceVars>>

\* Mutant of SendAttempt: a retry asks the breaker again.
SendAttemptAsksAgain(r) ==
    /\ pc[r] = "call"
    /\ IF attempt[r] > 0 /\ breaker = "Open"
         THEN /\ Return(r, "CIRCUIT_OPEN")
              /\ UNCHANGED <<attempt, inbound, reply, doomed>>
         ELSE /\ Goto(r, "wait")
              /\ attempt' = [attempt EXCEPT ![r] = @ + 1]
              /\ inbound' = inbound \cup {<<r, attempt[r] + 1>>}
              /\ reply' = [reply EXCEPT ![r] = "None"]
              /\ doomed' = [doomed EXCEPT ![r] = ~healthy]
              /\ UNCHANGED status
    /\ UNCHANGED <<runtimeAttempts, budget, breakerVars, bucketVars, healthy,
                   executed>>

\* The head of the retry loop: the next attempt, if one is left, is sent.
SendAttempt(r) ==
    /\ pc[r] = "call"
    /\ IF attempt[r] < budget[r]
         THEN /\ Goto(r, "wait")
              /\ attempt' = [attempt EXCEPT ![r] = @ + 1]
              /\ inbound' = inbound \cup {<<r, attempt[r] + 1>>}
              /\ reply' = [reply EXCEPT ![r] = "None"]
              /\ doomed' = [doomed EXCEPT ![r] = ~healthy]
         ELSE /\ Goto(r, "done")
              /\ UNCHANGED <<attempt, inbound, reply, doomed>>
    /\ UNCHANGED <<runtimeAttempts, budget, status, breakerVars, bucketVars,
                   healthy, executed>>

\* The awaited call completes with a status.
Complete(r, code) ==
    /\ pc[r] = "wait"
    /\ Goto(r, "record")
    /\ status' = [status EXCEPT ![r] = code]
    /\ UNCHANGED <<runtimeAttempts, budget, attempt, breakerVars, bucketVars,
                   serviceVars>>

ReceiveReply(r) == reply[r] # "None" /\ Complete(r, reply[r])
DeadlineExpires(r) == doomed[r] /\ Complete(r, "DEADLINE_EXCEEDED")
ConnectionFails(r) == ~healthy /\ Complete(r, "UNAVAILABLE")

IsLast(r) == attempt[r] = budget[r]

\* Mutants of RecordOutcome: a retry is not counted; a success is not
\* recorded.
RecordOutcomeUncounted(r) ==
    /\ pc[r] = "record"
    /\ IF status[r] = "OK"
         THEN Breaker!RecordSuccess /\ Goto(r, "done") /\ UNCHANGED attempt
         ELSE /\ Breaker!RecordFailure
              /\ IF status[r] \notin Retryable \/ IsLast(r)
                   THEN Goto(r, "done") /\ UNCHANGED attempt
                   ELSE /\ Goto(r, "backoff")
                        /\ attempt' = [attempt EXCEPT ![r] = @ - 1]
    /\ UNCHANGED <<runtimeAttempts, budget, status, bucketVars, serviceVars>>

RecordOutcomeOnlyFailures(r) ==
    /\ pc[r] = "record"
    /\ IF status[r] = "OK"
         THEN Goto(r, "done") /\ UNCHANGED breakerVars
         ELSE /\ Breaker!RecordFailure
              /\ IF status[r] \notin Retryable \/ IsLast(r)
                   THEN Goto(r, "done")
                   ELSE Goto(r, "backoff")
    /\ UNCHANGED <<runtimeAttempts, budget, attempt, status, bucketVars,
                   serviceVars>>

\* The outcome is recorded: every status but OK counts as a failure of the
\* service.  A retryable failure that is not the last goes to the backoff.
RecordOutcome(r) ==
    /\ pc[r] = "record"
    /\ IF status[r] = "OK"
         THEN Breaker!RecordSuccess /\ Goto(r, "done")
         ELSE /\ Breaker!RecordFailure
              /\ IF status[r] \notin Retryable \/ IsLast(r)
                   THEN Goto(r, "done")
                   ELSE Goto(r, "backoff")
    /\ UNCHANGED <<runtimeAttempts, budget, attempt, status, bucketVars,
                   serviceVars>>

\* The backoff timer fires (at once when the backoff is zero) ...
BackoffEnds(r) ==
    /\ pc[r] = "backoff"
    /\ Goto(r, "call")
    /\ UNCHANGED <<runtimeAttempts, budget, attempt, status, breakerVars,
                   bucketVars, serviceVars>>

\* ... or is aborted with the gRPC context that owns it.
BackoffAborted(r) ==
    /\ pc[r] = "backoff"
    /\ Return(r, "CANCELLED")
    /\ UNCHANGED <<runtimeAttempts, budget, attempt, breakerVars, bucketVars,
                   serviceVars>>

\* Mutant of UpdateRuntimeConfig: the requests in flight refer to the shared
\* configuration in place of a copy.
UpdateRuntimeConfigInPlace(n) ==
    /\ runtimeAttempts' = AtLeastOne(n)
    /\ budget' = [r \in Requests |->
                     IF pc[r] = "idle" THEN budget[r] ELSE AtLeastOne(n)]
    /\ UNCHANGED <<pc, attempt, status, breakerVars, bucketVars, serviceVars>>

\* UpdateRuntimeConfig, from the administration endpoint.
UpdateRuntimeConfig(n) ==
    /\ runtimeAttempts' = AtLeastOne(n)
    /\ UNCHANGED <<pc, budget, attempt, status, breakerVars, bucketVars,
                   serviceVars>>

\* The slot of an answered request takes another one, once no call of the
\* former is left in the network (a bound of the model: it keeps the calls
\* of two requests apart).
NextRequest(r) ==
    /\ pc[r] = "done"
    /\ \A m \in inbound : m[1] # r
    /\ Goto(r, "idle")
    /\ budget' = [budget EXCEPT ![r] = 1]
    /\ attempt' = [attempt EXCEPT ![r] = 0]
    /\ status' = [status EXCEPT ![r] = "OK"]
    /\ executed' = [executed EXCEPT ![r] = 0]
    /\ reply' = [reply EXCEPT ![r] = "None"]
    /\ doomed' = [doomed EXCEPT ![r] = FALSE]
    /\ UNCHANGED <<runtimeAttempts, breakerVars, bucketVars, healthy, inbound>>
-----------------------------------------------------------------------------
(* The service, the network and the clock.                                 *)

\* A handler executes a call; its answer is for the current attempt or,
\* after the gateway gave the attempt up, for nobody.
Execute(r, n) ==
    /\ <<r, n>> \in inbound
    /\ inbound' = inbound \ {<<r, n>>}
    /\ executed' = [executed EXCEPT ![r] = @ + 1]
    /\ IF pc[r] = "wait" /\ n = attempt[r]
         THEN \E answer \in Answers : reply' = [reply EXCEPT ![r] = answer]
         ELSE UNCHANGED reply
    /\ UNCHANGED <<gatewayVars, breakerVars, bucketVars, healthy, doomed>>

Lose(m) ==
    /\ m \in inbound
    /\ ~healthy
    /\ inbound' = inbound \ {m}
    /\ UNCHANGED <<gatewayVars, breakerVars, bucketVars, healthy, reply,
                   doomed, executed>>

\* From here on, the calls in flight may be late.
Degrade ==
    /\ healthy
    /\ healthy' = FALSE
    /\ doomed' = [r \in Requests |-> doomed[r] \/ pc[r] = "wait"]
    /\ UNCHANGED <<gatewayVars, breakerVars, bucketVars, inbound, reply,
                   executed>>

Recover ==
    /\ ~healthy
    /\ healthy' = TRUE
    /\ UNCHANGED <<gatewayVars, breakerVars, bucketVars, inbound, reply,
                   doomed, executed>>

Tick ==
    /\ Breaker!Tick
    /\ Bucket!BucketTick
    /\ UNCHANGED <<gatewayVars, serviceVars>>
-----------------------------------------------------------------------------
Step(r) == \/ Arrive(r) \/ CheckBreaker(r) \/ SendAttempt(r)
           \/ ReceiveReply(r) \/ DeadlineExpires(r) \/ RecordOutcome(r)
           \/ BackoffEnds(r) \/ NextRequest(r)

Next == \/ \E r \in Requests :
             \/ Step(r) \/ ConnectionFails(r) \/ BackoffAborted(r)
             \/ \E n \in 1..MaxAttempts : Execute(r, n)
        \/ \E m \in inbound : Lose(m)
        \/ \E n \in RuntimeChoices : UpdateRuntimeConfig(n)
        \/ Degrade \/ Recover \/ Tick

Spec == Init /\ [][Next]_vars

\* The executors run every ready coroutine, gRPC fires every deadline, the
\* timers fire, a live service executes what reaches it, the clock goes on,
\* and clients keep coming.  Nothing forces a failure, a recovery or an
\* administrator to act.
Fairness ==
    /\ \A r \in Requests : WF_vars(Step(r))
    /\ \A r \in Requests, n \in 1..MaxAttempts : WF_vars(Execute(r, n))
    /\ WF_vars(Tick)

FairSpec == Spec /\ Fairness
-----------------------------------------------------------------------------
TypeOK == /\ runtimeAttempts \in -1..MaxAttempts
          /\ pc \in [Requests -> PC]
          /\ budget \in [Requests -> 1..MaxAttempts]
          /\ attempt \in [Requests -> 0..MaxAttempts]
          /\ status \in [Requests -> Status]
          /\ Breaker!TypeOK
          /\ Bucket!BucketTypeOK
          /\ healthy \in BOOLEAN
          /\ inbound \subseteq Requests \X (1..MaxAttempts)
          /\ reply \in [Requests -> {"None"} \cup Answers]
          /\ doomed \in [Requests -> BOOLEAN]
          /\ executed \in [Requests -> 0..MaxAttempts]

CallsOf(r) == {m \in inbound : m[1] = r}

\* A request is executed at least as often as its client can be told and at
\* most as often as its snapshot of retry_attempts allows, counting the calls
\* that may still be executed after the answer: this is the bound on the
\* duplicates a non-idempotent handler (CreateUser, CreateRoom) sees, and a
\* concurrent change of the runtime configuration does not move it.
ExecutionsBounded ==
    \A r \in Requests :
        executed[r] + Cardinality(CallsOf(r)) <= attempt[r]
            /\ attempt[r] <= budget[r]

\* What an answer tells the client about the service: after OK or an error of
\* the handler the request was executed at least once; after a refusal of
\* the limiter or the breaker it was not and never will be.
AnswerMeaning ==
    \A r \in Requests : pc[r] = "done" =>
        /\ status[r] \in {"OK", "APP_ERROR"} => executed[r] >= 1
        /\ status[r] \in Refused => executed[r] = 0 /\ CallsOf(r) = {}

\* Every request is answered, however long the service stays away and
\* however its health changes: deadlines and the attempt budget end it.
RequestAnswered ==
    \A r \in Requests : pc[r] = "admit" ~> pc[r] = "done"

\* Once the service is healthy for good and its handlers answer OK, the
\* breaker closes for good: the failures of the bad time still in flight
\* cannot keep it open for ever.
BreakerRecovers == <>[]healthy => <>[](breaker = "Closed")
=============================================================================
