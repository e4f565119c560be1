----------------------------- MODULE HttpServer -----------------------------
(***************************************************************************)
(* HttpServer of gateways/access_gateway/http/http_server.cpp: an accept   *)
(* thread hands connections round-robin to worker contexts, each run by a  *)
(* thread of its own; a worker reads the request of a connection and       *)
(* answers it itself, through the router, or in the loop of a WebSocket;   *)
(* Stop takes all of that down while connections are in every stage.       *)
(*                                                                         *)
(* One action is the code between two awaits, or one step of Stop.  What   *)
(* is in a request is abstracted to the way its handling goes.  The router *)
(* is what RouteWithStatusAsync promises: an answer, later (module         *)
(* ResilientInvoke).  An await on a socket ends because the stream has an  *)
(* expiry, and its outcome is free: the client may be gone.                *)
(***************************************************************************)
EXTENDS Integers, FiniteSets, FiniteSetsExt

CONSTANTS Sessions,  \* connections of clients
          IoThreads, \* io_threads
          MaxStarts  \* bound: calls of Start

ASSUME ServerAssumption == IoThreads \in Nat \ {0} /\ MaxStarts \in Nat \ {0}

Workers == 0..IoThreads - 1

VARIABLES
    running,      \* running_
    owner,        \* the thread that starts and stops the server
    starts,       \* calls of Start
    acceptor,     \* acceptor_
    acceptThread, \* the accept thread, in AcceptLoop or past it
    acceptCtx,    \* accept_io_context_
    nextWorker,   \* next_worker_index_, modulo the number of workers
    ctx,          \* worker_io_contexts_
    thread,       \* worker_threads_
    session,      \* the stage of each connection
    home          \* the context each connection was handed to: which Start made
                  \* it, and for which worker

ownerVars == <<running, owner, starts>>
acceptVars == <<acceptor, acceptThread, acceptCtx, nextWorker>>
workerVars == <<ctx, thread>>
sessionVars == <<session, home>>
vars == <<ownerVars, acceptVars, workerVars, sessionVars>>

WsStages == {"handshake", "wsRead", "wsRoute", "wsResume", "wsWrite", "wsClose"}
OnWorker == {"queued", "read", "route", "resume", "write"} \cup WsStages
InRouter == {"route", "wsRoute"}
Ended == {"answered", "closed", "thrown", "wsThrown", "dropped", "stray"}
ContextState == {"none", "live", "stopped"}
StopStages == {"close", "release", "stopAccept", "stopWorkers", "joinAccept",
               "joinWorkers", "destroy"}

Init == /\ running = FALSE
        /\ owner = "down"
        /\ starts = 0
        /\ acceptor = "none"
        /\ acceptThread = "none"
        /\ acceptCtx = "none"
        /\ nextWorker = 0
        /\ ctx = [w \in Workers |-> "none"]
        /\ thread = [w \in Workers |-> "none"]
        /\ session = [s \in Sessions |-> "none"]
        /\ home = [s \in Sessions |-> [start |-> 0, worker |-> 0]]

\* The context a connection was handed to is one of the server's contexts.
HasContext(s) == home[s].start = starts /\ ctx[home[s].worker] # "none"
-----------------------------------------------------------------------------
(* Start.  The threads come last and find everything in place: one action. *)

Start == /\ owner = "down" /\ starts < MaxStarts
         /\ running' = TRUE
         /\ owner' = "serving"
         /\ starts' = starts + 1
         /\ acceptor' = "listening"
         /\ acceptThread' = "check"
         /\ acceptCtx' = "live"
         /\ nextWorker' = 0
         /\ ctx' = [w \in Workers |-> "live"]
         /\ thread' = [w \in Workers |-> "running"]
         /\ UNCHANGED sessionVars

\* The port is taken: Start throws, and the program ends.
BindFails == /\ owner = "down" /\ starts < MaxStarts
             /\ owner' = "failed"
             /\ starts' = starts + 1
             /\ acceptor' = "closed"
             /\ acceptCtx' = "live"
             /\ nextWorker' = 0
             /\ ctx' = [w \in Workers |-> "live"]
             /\ UNCHANGED <<running, acceptThread, thread, sessionVars>>
-----------------------------------------------------------------------------
(* The accept thread.                                                      *)

AcceptAt(from, to) == acceptThread = from /\ acceptThread' = to
Stage(s, to) == session' = [session EXCEPT ![s] = to]

Connect(s) == /\ acceptor = "listening"
              /\ session[s] = "none"
              /\ Stage(s, "backlog")
              /\ UNCHANGED <<ownerVars, acceptVars, workerVars, home>>

AcceptCheck == /\ acceptCtx = "live"
               /\ AcceptAt("check", IF running THEN "accepting" ELSE "finished")
               /\ UNCHANGED <<ownerVars, acceptor, acceptCtx, nextWorker,
                              workerVars, sessionVars>>

Accept(s) == /\ acceptCtx = "live" /\ acceptor = "listening"
             /\ session[s] = "backlog"
             /\ AcceptAt("accepting", "holding")
             /\ Stage(s, "held")
             /\ UNCHANGED <<ownerVars, acceptor, acceptCtx, nextWorker,
                            workerVars, home>>

\* Mutant of AcceptFails: the loop ends at the first error.
AcceptFailsEnds(s) ==
    /\ acceptCtx = "live" /\ acceptor = "listening"
    /\ session[s] = "backlog"
    /\ AcceptAt("accepting", "finished")
    /\ Stage(s, "closed")
    /\ UNCHANGED <<ownerVars, acceptor, acceptCtx, nextWorker, workerVars, home>>

\* The connection was reset before it was accepted.
AcceptFails(s) ==
    /\ acceptCtx = "live" /\ acceptor = "listening"
    /\ session[s] = "backlog"
    /\ AcceptAt("accepting", "check")
    /\ Stage(s, "closed")
    /\ UNCHANGED <<ownerVars, acceptor, acceptCtx, nextWorker, workerVars, home>>

\* The pending accept is aborted by the close of the acceptor.
AcceptAborted == /\ acceptCtx = "live" /\ acceptor = "closed"
                 /\ AcceptAt("accepting", "check")
                 /\ UNCHANGED <<ownerVars, acceptor, acceptCtx, nextWorker,
                                workerVars, sessionVars>>

\* The socket moves to the next worker's context and its session is spawned
\* there, or the socket cannot be moved.  The list of contexts is not empty
\* here, whatever Stop does: see ContextsOutliveSessions.
HandOver(s) ==
    /\ session[s] = "held"
    /\ AcceptAt("holding", "check")
    /\ nextWorker' = (nextWorker + 1) % IoThreads
    /\ \/ /\ Stage(s, "queued")
          /\ home' = [home EXCEPT ![s] = [start |-> starts, worker |-> nextWorker]]
       \/ Stage(s, "closed") /\ UNCHANGED home
    /\ UNCHANGED <<ownerVars, acceptor, acceptCtx, workerVars>>

GuardsReleased == owner \in StopStages \ {"close", "release"}

\* run() of the accept context returns.
AcceptExit == /\ \/ acceptCtx = "stopped" /\ acceptThread \in {"check", "accepting", "finished"}
                 \/ GuardsReleased /\ acceptThread = "finished"
              /\ acceptThread' = "exited"
              /\ UNCHANGED <<ownerVars, acceptor, acceptCtx, nextWorker,
                             workerVars, sessionVars>>
-----------------------------------------------------------------------------
(* The session of a connection, on its worker.                             *)

\* A step of the coroutine from one stage to one of the next.
Step(s, from, next) == /\ session[s] = from
                       /\ home[s].start = starts
                       /\ ctx[home[s].worker] = "live"
                       /\ thread[home[s].worker] = "running"
                       /\ \E to \in next : Stage(s, to)
                       /\ UNCHANGED <<ownerVars, acceptVars, workerVars, home>>

Begin(s) == Step(s, "queued", {"read"})

\* Without an upgrade: the operations endpoints, 400, 401, 405 and 503 are
\* answered on the spot, the rest is routed; or a member of the JSON has a type
\* the handler does not expect, and the exception ends the coroutine.
HandleRequest == {"write", "route", "thrown"}

\* An upgrade: 401, or on to the handshake.
Upgrade == {"write", "handshake"}

\* The request was read, or the read failed.
ReadRequest(s) == Step(s, "read", {"closed"} \cup Upgrade \cup HandleRequest)

\* The router answers on a thread of its own and posts to the session's
\* context.  If Stop has destroyed that context meanwhile, what happens is
\* undefined, and the model follows the connection no further.
RouteAnswered(s) ==
    /\ session[s] \in InRouter
    /\ Stage(s, IF ~HasContext(s) THEN "stray"
                ELSE IF session[s] = "route" THEN "resume" ELSE "wsResume")
    /\ UNCHANGED <<ownerVars, acceptVars, workerVars, home>>

Resume(s) == Step(s, "resume", {"write"})
Write(s) == Step(s, "write", {"answered", "closed"})

\* The head of the WebSocket loop.
WsCheck == IF running THEN "wsRead" ELSE "wsClose"

Handshake(s) == Step(s, "handshake", {"closed", WsCheck})

\* A message is answered on the spot, routed, or throws; or the read failed.
WsRead(s) ==
    Step(s, "wsRead", {"wsClose", "wsWrite", "wsRoute", "wsThrown"})

WsResume(s) == Step(s, "wsResume", {"wsWrite"})
WsWrite(s) == Step(s, "wsWrite", {"wsClose", WsCheck})
WsClose(s) == Step(s, "wsClose", {"closed"})

SessionStep(s) == \/ Begin(s) \/ ReadRequest(s) \/ Resume(s) \/ Write(s)
                  \/ Handshake(s) \/ WsRead(s) \/ WsResume(s) \/ WsWrite(s)
                  \/ WsClose(s)

\* run() of a worker context returns: it is stopped, or out of work.
WorkerExit(w) ==
    /\ thread[w] = "running"
    /\ \/ ctx[w] = "stopped"
       \/ GuardsReleased /\ \A s \in Sessions :
              home[s] = [start |-> starts, worker |-> w] => session[s] \notin OnWorker
    /\ thread' = [thread EXCEPT ![w] = "exited"]
    /\ UNCHANGED <<ownerVars, acceptVars, ctx, sessionVars>>
-----------------------------------------------------------------------------
(* Stop, from the shutdown hook or the destructor.                         *)

StopAt(from, to) == owner = from /\ owner' = to /\ UNCHANGED starts

StopExchange == /\ StopAt("serving", "close")
                /\ running' = FALSE
                /\ UNCHANGED <<acceptVars, workerVars, sessionVars>>

\* The system resets the connections nobody has accepted.
CloseAcceptor ==
    /\ StopAt("close", "release")
    /\ acceptor' = "closed"
    /\ session' = [s \in Sessions |->
                     IF session[s] = "backlog" THEN "dropped" ELSE session[s]]
    /\ UNCHANGED <<running, acceptThread, acceptCtx, nextWorker, workerVars, home>>

\* Mutant of ReleaseGuards: the accept thread is joined first.
JoinThenRelease == /\ StopAt("release", "stopAccept")
                   /\ acceptThread = "exited"
                   /\ UNCHANGED <<running, acceptVars, workerVars, sessionVars>>

ReleaseGuards == /\ StopAt("release", "stopAccept")
                 /\ UNCHANGED <<running, acceptVars, workerVars, sessionVars>>

StopAccept == /\ StopAt("stopAccept", "stopWorkers")
              /\ acceptCtx' = "stopped"
              /\ UNCHANGED <<running, acceptor, acceptThread, nextWorker, workerVars,
                             sessionVars>>

StopWorkers ==
    LET live == {w \in Workers : ctx[w] = "live"}
    IN /\ StopAt("stopWorkers", IF live = {} THEN "joinAccept" ELSE "stopWorkers")
       /\ ctx' = IF live = {} THEN ctx ELSE [ctx EXCEPT ![Min(live)] = "stopped"]
       /\ UNCHANGED <<running, acceptVars, thread, sessionVars>>

\* Mutant of JoinAccept: the accept thread is detached.
DetachAccept ==
    /\ StopAt("joinAccept", "joinWorkers")
    /\ UNCHANGED <<running, acceptVars, workerVars, sessionVars>>

JoinAccept == /\ StopAt("joinAccept", "joinWorkers")
              /\ acceptThread = "exited"
              /\ acceptThread' = "none"
              /\ UNCHANGED <<running, acceptor, acceptCtx, nextWorker, workerVars,
                             sessionVars>>

JoinWorkers == /\ StopAt("joinWorkers", "destroy")
               /\ \A w \in Workers : thread[w] = "exited"
               /\ thread' = [w \in Workers |-> "none"]
               /\ UNCHANGED <<running, acceptVars, ctx, sessionVars>>

\* The contexts take their sessions with them, save those that wait in the
\* router: nobody has told it, and they stay where they are.
Destroy ==
    /\ StopAt("destroy", "down")
    /\ ctx' = [w \in Workers |-> "none"]
    /\ acceptor' = "none"
    /\ acceptCtx' = "none"
    /\ session' = [s \in Sessions |->
                     IF session[s] \in OnWorker \ InRouter THEN "dropped"
                     ELSE session[s]]
    /\ UNCHANGED <<running, acceptThread, nextWorker, thread, home>>

Stop == \/ StopExchange \/ CloseAcceptor \/ ReleaseGuards \/ StopAccept
        \/ StopWorkers \/ JoinAccept \/ JoinWorkers \/ Destroy
-----------------------------------------------------------------------------
AcceptStep == \/ AcceptCheck \/ AcceptAborted \/ AcceptExit
              \/ \E s \in Sessions : Accept(s) \/ AcceptFails(s) \/ HandOver(s)

Next == \/ Start \/ BindFails \/ Stop \/ AcceptStep
        \/ \E w \in Workers : WorkerExit(w)
        \/ \E s \in Sessions : Connect(s) \/ SessionStep(s) \/ RouteAnswered(s)

Spec == Init /\ [][Next]_vars

\* Threads are scheduled, awaits on sockets expire, the router answers (its
\* own liveness, module ResilientInvoke), and a Stop that began goes on.
\* Nobody has to start or to stop the server, and clients owe nothing: a
\* WebSocket whose peer answers pings may wait for a message for ever.
Fairness == /\ WF_vars(AcceptStep)
            /\ \A w \in Workers : WF_vars(WorkerExit(w))
            /\ \A s \in Sessions : /\ WF_vars(session[s] # "wsRead" /\ SessionStep(s))
                                  /\ WF_vars(RouteAnswered(s))
            /\ WF_vars(owner \in StopStages /\ Stop)

FairSpec == Spec /\ Fairness
-----------------------------------------------------------------------------
TypeOK == /\ running = (owner = "serving")
          /\ owner \in {"down", "serving", "failed"} \cup StopStages
          /\ starts \in 0..MaxStarts
          /\ acceptor \in {"none", "listening", "closed"}
          /\ acceptThread \in {"none", "check", "accepting", "holding", "finished",
                               "exited"}
          /\ acceptCtx \in ContextState
          /\ nextWorker \in Workers
          /\ ctx \in [Workers -> ContextState]
          /\ thread \in [Workers -> {"none", "running", "exited"}]
          /\ session \in [Sessions -> {"none", "backlog", "held"} \cup OnWorker \cup Ended]
          /\ home \in [Sessions -> [start : 0..MaxStarts, worker : Workers]]

\* A connection on a worker is on a context that exists, unless it waits in
\* the router.  The accept thread, which reads the list of contexts without a
\* lock while Stop runs, never finds a destroyed one.  A server that is down has
\* no thread left, and no connection but those that wait in the router, which
\* Stop does not wait for: these do outlive their context.
ContextsOutliveSessions ==
    /\ \A s \in Sessions : session[s] \in OnWorker \ InRouter => HasContext(s)
    /\ acceptThread = "holding" => \A w \in Workers : ctx[w] # "none"
    /\ owner = "down" =>
           /\ acceptThread = "none"
           /\ \A w \in Workers : thread[w] = "none"
           /\ \A s \in Sessions : session[s] \in {"none"} \cup InRouter \cup Ended

\* A connection that reached the listener is accepted and its HTTP exchange
\* ends, or it becomes a WebSocket, unless the server is stopped: no failed
\* accept, no failed hand-over and no other connection keeps it from that.
ConnectionServed == \A s \in Sessions :
    session[s] = "backlog" ~> (session[s] \in Ended \cup WsStages \/ ~running)

\* Stop returns, whatever the threads and the connections are in the middle of.
StopReturns == owner = "close" ~> owner = "down"
=============================================================================
