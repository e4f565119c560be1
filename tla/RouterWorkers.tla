--------------------------- MODULE RouterWorkers ---------------------------
(***************************************************************************)
(* StartGrpcWorkers and StopGrpcWorkers of gateways/access_gateway/routing/*)
(* grpc_router.cpp: the threads that run the one gRPC context of the       *)
(* router, and its destructor, which stops them.                           *)
(*                                                                         *)
(* The context (asio-grpc) is modelled from the way this code uses it: run *)
(* processes completions until the context is stopped, running out of work *)
(* stops it, and reset makes it ready again, whoever had stopped it.       *)
(***************************************************************************)
CONSTANTS Workers, \* slots of grpc_threads_
          Calls    \* slots for concurrent calls

VARIABLES
    grpcRunning, \* grpc_running_
    stopped,     \* the stopped state of the context
    worker,      \* where each worker thread is; "none" if it is not created
    didWork,     \* did_work of each worker
    router,      \* alive, then the steps of its destructor
    pending,     \* calls that are work of the context
    answered,    \* pending calls that can complete: the service answered
    deadline     \* pending calls that have a deadline

workerVars == <<worker, didWork>>
callVars == <<pending, answered, deadline>>
routerVars == <<grpcRunning, stopped, workerVars, router, callVars>>

\* DefaultGrpcThreadCount gives one thread or several, after the machine.
RouterInit == /\ grpcRunning = TRUE
              /\ stopped = FALSE
              /\ \E started \in SUBSET Workers \ {{}} :
                     worker = [w \in Workers |-> IF w \in started THEN "check" ELSE "none"]
              /\ didWork = [w \in Workers |-> FALSE]
              /\ router = "alive"
              /\ pending = {} /\ answered = {} /\ deadline = {}

Started == {w \in Workers : worker[w] # "none"}
Alone(w) == Started = {w}
-----------------------------------------------------------------------------
(* The calls: sessions make them, services answer or do not.               *)

Submit(k) ==
    /\ router = "alive"
    /\ k \notin pending
    /\ pending' = pending \cup {k}
    /\ deadline' = deadline \cup {k}
    /\ UNCHANGED <<grpcRunning, stopped, workerVars, router, answered>>

ServiceAnswers(k) ==
    /\ k \in pending
    /\ answered' = answered \cup {k}
    /\ UNCHANGED <<grpcRunning, stopped, workerVars, router, pending, deadline>>
-----------------------------------------------------------------------------
(* A worker thread.                                                        *)

WorkerAt(w, from, to) == worker[w] = from /\ worker' = [worker EXCEPT ![w] = to]

CheckRunning(w) ==
    /\ WorkerAt(w, "check", IF grpcRunning THEN "enter" ELSE "exited")
    /\ UNCHANGED <<grpcRunning, stopped, didWork, router, callVars>>

\* run() is entered; it returns at once without work or when stopped.
EnterRun(w) ==
    /\ WorkerAt(w, "enter", IF pending = {} \/ stopped THEN "recheck" ELSE "running")
    /\ stopped' = (stopped \/ pending = {})
    /\ didWork' = [didWork EXCEPT ![w] = FALSE]
    /\ UNCHANGED <<grpcRunning, router, callVars>>

\* A call completes, answered or past its deadline; the last one leaves the
\* context out of work.
CompleteCall(w, k) ==
    /\ worker[w] = "running" /\ ~stopped
    /\ k \in pending /\ k \in answered \cup deadline
    /\ pending' = pending \ {k}
    /\ answered' = answered \ {k}
    /\ deadline' = deadline \ {k}
    /\ stopped' = (pending = {k})
    /\ didWork' = [didWork EXCEPT ![w] = TRUE]
    /\ UNCHANGED <<grpcRunning, worker, router>>

LeaveRun(w) ==
    /\ stopped
    /\ WorkerAt(w, "running", "recheck")
    /\ UNCHANGED <<grpcRunning, stopped, didWork, router, callVars>>

Recheck(w) ==
    /\ WorkerAt(w, "recheck", IF grpcRunning THEN "reset" ELSE "exited")
    /\ UNCHANGED <<grpcRunning, stopped, didWork, router, callVars>>

\* Mutants of Reset: the context stays stopped; after work it is run again
\* without a look at grpcRunning.
ResetForgotten(w) ==
    /\ WorkerAt(w, "reset", IF didWork[w] THEN "check" ELSE "sleep")
    /\ UNCHANGED <<grpcRunning, stopped, didWork, router, callVars>>

ResetAndRun(w) ==
    /\ WorkerAt(w, "reset", IF didWork[w] THEN "enter" ELSE "sleep")
    /\ stopped' = FALSE
    /\ UNCHANGED <<grpcRunning, didWork, router, callVars>>

\* The destructor may have stopped the context since Recheck: its stop is lost.
Reset(w) ==
    /\ WorkerAt(w, "reset", IF didWork[w] THEN "check" ELSE "sleep")
    /\ stopped' = FALSE
    /\ UNCHANGED <<grpcRunning, didWork, router, callVars>>

Wake(w) ==
    /\ WorkerAt(w, "sleep", "check")
    /\ UNCHANGED <<grpcRunning, stopped, didWork, router, callVars>>
-----------------------------------------------------------------------------
(* The destructor.                                                         *)

DtorAt(from, to) == router = from /\ router' = to

\* Mutant of StopExchange: grpcRunning is read, not exchanged.
StopLoad ==
    /\ DtorAt("alive", "stop")
    /\ UNCHANGED <<grpcRunning, stopped, workerVars, callVars>>

StopExchange ==
    /\ DtorAt("alive", "stop")
    /\ grpcRunning' = FALSE
    /\ UNCHANGED <<stopped, workerVars, callVars>>

StopContext ==
    /\ DtorAt("stop", "join")
    /\ stopped' = TRUE
    /\ UNCHANGED <<grpcRunning, workerVars, callVars>>

\* Calls still pending are destroyed with the context.
Join ==
    /\ DtorAt("join", "gone")
    /\ \A w \in Started : worker[w] = "exited"
    /\ stopped' = FALSE
    /\ UNCHANGED <<grpcRunning, workerVars, callVars>>

Gone == router = "gone" /\ UNCHANGED routerVars
-----------------------------------------------------------------------------
WorkerStep(w) == \/ CheckRunning(w) \/ EnterRun(w) \/ LeaveRun(w) \/ Recheck(w)
                 \/ Reset(w) \/ Wake(w)
                 \/ \E k \in Calls : CompleteCall(w, k)

Dtor == StopExchange \/ StopContext \/ Join

RouterNext == \/ \E w \in Workers : WorkerStep(w)
              \/ \E k \in Calls : Submit(k) \/ ServiceAnswers(k)
              \/ Dtor \/ Gone

RouterSpec == RouterInit /\ [][RouterNext]_routerVars

\* Threads are scheduled, and a worker in run() gets to each call it can
\* complete.  No service has to answer and nobody has to destroy the router.
RouterFairness ==
    /\ \A w \in Workers : WF_routerVars(WorkerStep(w))
    /\ \A k \in Calls : WF_routerVars(\E w \in Workers : CompleteCall(w, k))
    /\ WF_routerVars(StopContext \/ Join)

RouterFairSpec == RouterSpec /\ RouterFairness
-----------------------------------------------------------------------------
RouterTypeOK == /\ grpcRunning \in BOOLEAN
                /\ stopped \in BOOLEAN
                /\ worker \in [Workers -> {"none", "check", "enter", "running", "recheck",
                                           "reset", "sleep", "exited"}]
                /\ Started # {}
                /\ didWork \in [Workers -> BOOLEAN]
                /\ router \in {"alive", "stop", "join", "gone"}
                /\ pending \subseteq Calls
                /\ answered \subseteq pending
                /\ deadline = pending

\* Every call completes while the router lives, although each worker stops
\* and resets the context under the feet of the others.
CallCompletes == \A k \in Calls : k \in pending ~> (k \notin pending \/ router # "alive")

\* With a single thread the destructor's stop is lost only on a thread that
\* looks at grpcRunning before it runs the context again: the destructor never
\* waits for a thread in run() that nothing ends.  And no thread exits while the
\* router lives, so its calls always have one that runs them.
LoneThreadStops ==
    /\ router = "alive" => \A w \in Workers : worker[w] # "exited"
    /\ router = "join" /\ ~stopped =>
         \A w \in Workers :
             Alone(w) => worker[w] \in {"check", "sleep", "exited"}

\* The destructor returns when a single thread runs the context: that thread
\* looks at grpcRunning after every reset, so a lost stop costs it nothing.
\* With more threads this is false.  One of them may reset the context after
\* the destructor has stopped it, and exit, while another is in run() with no
\* work left to end it: the destructor waits for that one forever.
DestructorReturns ==
    router = "stop" /\ (\E w \in Workers : Alone(w)) ~> router = "gone"
=============================================================================
