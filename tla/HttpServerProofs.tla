--------------------------- MODULE HttpServerProofs ---------------------------
(***************************************************************************)
(* HttpServer for any connections, worker threads and starts.              *)
(***************************************************************************)
EXTENDS HttpServer, TLAPS

\* Which threads exist is decided by how far Start or Stop is.
ThreadsOfOwner ==
    /\ acceptThread = "none" <=> owner \in {"down", "failed", "joinWorkers", "destroy"}
    /\ \A w \in Workers :
           thread[w] = "none" <=> owner \in {"down", "failed", "destroy"}

\* The contexts exist from Start to the end of Stop, or because Start threw.
ContextsExist == \A w \in Workers : ctx[w] = "none" <=> owner = "down"

\* A connection is on a context of the last Start while that is not undone; one
\* that waits in the router may be on a context of any Start that succeeded.
HomesExist ==
    /\ \A s \in Sessions : session[s] \in OnWorker \ InRouter =>
           home[s].start = starts /\ owner \notin {"down", "failed"}
    /\ \A s \in Sessions : /\ home[s].start <= starts
                           /\ owner = "failed" => home[s].start < starts

\* The listener is open from Start to the first steps of Stop, and nobody waits
\* at a listener that is closed.
BacklogListened ==
    /\ acceptor = "listening" <=> owner \in {"serving", "close"}
    /\ \A s \in Sessions : session[s] = "backlog" => acceptor = "listening"

\* A connection accepted and not handed over is in the hands of the accept
\* thread, which has one at a time.
HeldOnce ==
    \A s \in Sessions : session[s] = "held" =>
        /\ acceptThread = "holding"
        /\ \A t \in Sessions : session[t] = "held" => t = s

Placed == HomesExist /\ BacklogListened /\ HeldOnce

IInv == TypeOK /\ ThreadsOfOwner /\ ContextsExist /\ Placed
-----------------------------------------------------------------------------
\* The round-robin index stays an index of a worker.
LEMMA NextWorkerInRange ==
    /\ 0 \in Workers
    /\ \A n \in Workers : (n + 1) % IoThreads \in Workers
BY ServerAssumption DEF Workers

\* A server that was just built has neither threads nor connections.
LEMMA InitInv == Init => IInv
<1> SUFFICES ASSUME Init PROVE IInv
  OBVIOUS
<1>1. TypeOK
  <2>1. starts \in 0..MaxStarts
    BY ServerAssumption DEF Init
  <2>2. QED
    BY <2>1, NextWorkerInRange DEF Init, TypeOK, ContextState
<1>2. QED
  BY <1>1 DEF Init, IInv, ThreadsOfOwner, ContextsExist,
          Placed, HomesExist, BacklogListened, HeldOnce, OnWorker, WsStages
-----------------------------------------------------------------------------
(* Start and Stop.                                                         *)

\* A context of an earlier Start is none of the contexts of the next one.
LEMMA NextStartHomes ==
    ASSUME IInv, owner = "down", starts' = starts + 1, UNCHANGED sessionVars
    PROVE  /\ HomesExist'
           /\ \A s \in Sessions : session[s] \notin {"backlog", "held"}
<1>1. \A s \in Sessions : /\ session[s] \notin OnWorker \ InRouter
                         /\ home[s].start \in Int
                         /\ home[s].start <= starts
  BY ServerAssumption DEF IInv, TypeOK, Placed, HomesExist
<1>2. \A s \in Sessions : session[s] \notin {"backlog", "held"}
  BY DEF IInv, ThreadsOfOwner, Placed, BacklogListened, HeldOnce
<1>3. starts \in Int
  BY ServerAssumption DEF IInv, TypeOK
<1>4. QED
  BY <1>1, <1>2, <1>3 DEF HomesExist, sessionVars

\* Start makes every thread and every context, or none of the threads.
LEMMA StartInv == ASSUME IInv, Start \/ BindFails PROVE IInv'
<1>1. /\ starts' \in 0..MaxStarts
      /\ HomesExist'
      /\ \A s \in Sessions : session[s] \notin {"backlog", "held"}
  BY ServerAssumption, NextStartHomes DEF IInv, TypeOK, Start, BindFails
<1>2. CASE Start
  <2>1. TypeOK'
    BY <1>1, <1>2, NextWorkerInRange DEF IInv, TypeOK, Start, sessionVars, ContextState
  <2>2. QED
    BY <1>1, <1>2, <2>1 DEF IInv, Start, sessionVars, ThreadsOfOwner, ContextsExist,
                            Placed, BacklogListened, HeldOnce
<1>3. CASE BindFails
  <2>1. TypeOK'
    BY <1>1, <1>3, NextWorkerInRange DEF IInv, TypeOK, BindFails, sessionVars,
                                         ContextState
  <2>2. QED
    BY <1>1, <1>3, <2>1 DEF IInv, BindFails, sessionVars, ThreadsOfOwner, ContextsExist,
                            Placed, BacklogListened, HeldOnce
<1>4. QED
  BY <1>2, <1>3

\* The first step of Stop moves the owner alone.
LEMMA StopExchangeInv == ASSUME IInv, StopExchange PROVE IInv'
BY DEF IInv, TypeOK, StopExchange, StopAt, StopStages, acceptVars, workerVars,
       sessionVars, ThreadsOfOwner, ContextsExist,
       Placed, HomesExist, BacklogListened, HeldOnce

\* The connections in the backlog are on no worker and in no hand.
LEMMA CloseAcceptorInv == ASSUME IInv, CloseAcceptor PROVE IInv'
<1>1. /\ session' \in [Sessions -> {"none", "backlog", "held"} \cup OnWorker \cup Ended]
      /\ \A s \in Sessions : session'[s] = session[s] \/ session'[s] = "dropped"
  BY DEF IInv, TypeOK, CloseAcceptor, Ended
<1>2. "dropped" \notin OnWorker
  BY DEF OnWorker, WsStages
<1>3. QED
  BY <1>1, <1>2 DEF IInv, TypeOK, CloseAcceptor, StopAt, StopStages, workerVars,
                    ThreadsOfOwner, ContextsExist,
                    Placed, HomesExist, BacklogListened, HeldOnce

\* Without its guard a context may end; nothing ends yet.
LEMMA ReleaseGuardsInv == ASSUME IInv, ReleaseGuards PROVE IInv'
BY DEF IInv, TypeOK, ReleaseGuards, StopAt, StopStages, acceptVars, workerVars,
       sessionVars, ThreadsOfOwner, ContextsExist,
       Placed, HomesExist, BacklogListened, HeldOnce

\* The accept context is told to stop; its thread has not been joined.
LEMMA StopAcceptInv == ASSUME IInv, StopAccept PROVE IInv'
BY DEF IInv, TypeOK, StopAccept, StopAt, StopStages, workerVars, sessionVars,
       ThreadsOfOwner, ContextsExist,
       Placed, HomesExist, BacklogListened, HeldOnce, ContextState

\* A stopped context still exists.
LEMMA StopWorkersInv == ASSUME IInv, StopWorkers PROVE IInv'
<1>1. /\ owner = "stopWorkers"
      /\ owner' \in {"joinAccept", "stopWorkers"}
      /\ UNCHANGED <<starts, running, acceptVars, thread, sessionVars>>
  BY DEF StopWorkers, StopAt
<1>2. /\ ctx' \in [Workers -> ContextState]
      /\ \A w \in Workers : ctx'[w] = ctx[w] \/ ctx'[w] = "stopped"
  BY DEF IInv, TypeOK, StopWorkers, ContextState
<1>3. QED
  BY <1>1, <1>2 DEF IInv, TypeOK, StopStages, acceptVars, sessionVars, ThreadsOfOwner,
                    ContextsExist, Placed, HomesExist, BacklogListened, HeldOnce

\* A thread that exited holds no connection.
LEMMA JoinAcceptInv == ASSUME IInv, JoinAccept PROVE IInv'
BY DEF IInv, TypeOK, JoinAccept, StopAt, StopStages, workerVars, sessionVars,
       ThreadsOfOwner, ContextsExist, Placed, HomesExist, BacklogListened, HeldOnce

\* The worker threads are gone; their contexts remain.
LEMMA JoinWorkersInv == ASSUME IInv, JoinWorkers PROVE IInv'
BY DEF IInv, TypeOK, JoinWorkers, StopAt, StopStages, acceptVars, sessionVars,
       ThreadsOfOwner, ContextsExist, Placed, HomesExist, BacklogListened, HeldOnce

\* The contexts go last: the connections on them go with them.
LEMMA DestroyInv == ASSUME IInv, Destroy PROVE IInv'
<1>1. ASSUME NEW s \in Sessions
      PROVE  /\ session'[s] \in {"none", "backlog", "held"} \cup OnWorker \cup Ended
             /\ session'[s] \notin OnWorker \ InRouter
             /\ session'[s] \in {"backlog", "held"} => session'[s] = session[s]
  <2>1. "dropped" \in Ended /\ "dropped" \notin OnWorker \cup {"backlog", "held"}
    BY DEF OnWorker, WsStages, Ended
  <2>2. QED
    BY <2>1 DEF IInv, TypeOK, Destroy
<1>2. session' \in [Sessions -> {"none", "backlog", "held"} \cup OnWorker \cup Ended]
  BY <1>1 DEF Destroy
<1>3. TypeOK' /\ ThreadsOfOwner' /\ ContextsExist'
  BY <1>2 DEF IInv, TypeOK, Destroy, StopAt, StopStages, ThreadsOfOwner,
              ContextsExist, ContextState
<1>4. HomesExist' /\ HeldOnce'
  BY <1>1 DEF IInv, Destroy, StopAt, Placed, HomesExist, HeldOnce
<1>5. BacklogListened'
  BY <1>1 DEF IInv, Destroy, StopAt, Placed, BacklogListened
<1>6. QED
  BY <1>3, <1>4, <1>5 DEF IInv, Placed
-----------------------------------------------------------------------------
(* The accept thread and the connections.                                  *)

\* A step that moves one connection to another stage.
LEMMA StageMoves ==
    ASSUME IInv, NEW s \in Sessions,
           NEW to \in {"none", "backlog", "held"} \cup OnWorker \cup Ended,
           Stage(s, to)
    PROVE  /\ session' \in [Sessions -> {"none", "backlog", "held"} \cup OnWorker
                                            \cup Ended]
           /\ session'[s] = to
           /\ \A t \in Sessions \ {s} : session'[t] = session[t]
BY DEF IInv, TypeOK, Stage

\* A connection in the backlog is nobody's yet.
LEMMA ConnectInv == ASSUME IInv, NEW s \in Sessions, Connect(s) PROVE IInv'
<1>1. /\ session' \in [Sessions -> {"none", "backlog", "held"} \cup OnWorker \cup Ended]
      /\ session'[s] = "backlog"
      /\ \A t \in Sessions \ {s} : session'[t] = session[t]
  BY StageMoves DEF Connect
<1>2. "backlog" \notin OnWorker
  BY DEF OnWorker, WsStages
<1>3. QED
  BY <1>1, <1>2 DEF IInv, TypeOK, Connect, ownerVars, acceptVars, workerVars,
                    ThreadsOfOwner, ContextsExist,
                    Placed, HomesExist, BacklogListened, HeldOnce

\* The accept thread moves and takes or leaves no connection.
LEMMA AcceptMoveInv ==
    ASSUME IInv, AcceptCheck \/ AcceptAborted \/ AcceptExit PROVE IInv'
<1>1. /\ acceptThread \notin {"none", "holding"}
      /\ acceptThread' \in {"check", "accepting", "finished", "exited"}
      /\ UNCHANGED <<ownerVars, acceptor, acceptCtx, nextWorker, workerVars,
                     sessionVars>>
  BY DEF AcceptCheck, AcceptAborted, AcceptExit, AcceptAt
<1>2. QED
  BY <1>1 DEF IInv, TypeOK, ownerVars, workerVars, sessionVars, ThreadsOfOwner,
              ContextsExist, Placed, HomesExist, BacklogListened, HeldOnce

\* The accept thread held no connection, and now holds one.
LEMMA AcceptInv == ASSUME IInv, NEW s \in Sessions, Accept(s) PROVE IInv'
<1>1. /\ session' \in [Sessions -> {"none", "backlog", "held"} \cup OnWorker \cup Ended]
      /\ session'[s] = "held"
      /\ \A t \in Sessions \ {s} : session'[t] = session[t]
  BY StageMoves DEF Accept
<1>2. "held" \notin OnWorker
  BY DEF OnWorker, WsStages
<1>3. \A t \in Sessions : session[t] # "held"
  BY DEF IInv, Placed, HeldOnce, Accept, AcceptAt
<1>4. QED
  BY <1>1, <1>2, <1>3 DEF IInv, TypeOK, Accept, AcceptAt, ownerVars, workerVars,
                          ThreadsOfOwner, ContextsExist,
                          Placed, HomesExist, BacklogListened, HeldOnce

\* A connection that is not accepted is in no hand.
LEMMA AcceptFailsInv == ASSUME IInv, NEW s \in Sessions, AcceptFails(s) PROVE IInv'
<1>1. "closed" \in Ended /\ "closed" \notin OnWorker
  BY DEF OnWorker, WsStages, Ended
<1>2. /\ session' \in [Sessions -> {"none", "backlog", "held"} \cup OnWorker \cup Ended]
      /\ session'[s] = "closed"
      /\ \A t \in Sessions \ {s} : session'[t] = session[t]
  BY <1>1, StageMoves DEF AcceptFails
<1>3. \A t \in Sessions : session[t] # "held"
  BY DEF IInv, Placed, HeldOnce, AcceptFails, AcceptAt
<1>4. QED
  BY <1>1, <1>2, <1>3 DEF IInv, TypeOK, AcceptFails, AcceptAt, ownerVars, workerVars,
                          ThreadsOfOwner, ContextsExist,
                          Placed, HomesExist, BacklogListened, HeldOnce

\* The accept thread holds a connection, so Stop has not come past its join:
\* the contexts are there.
LEMMA HandOverInv == ASSUME IInv, NEW s \in Sessions, HandOver(s) PROVE IInv'
<1>1. "closed" \in Ended \ OnWorker /\ "queued" \in OnWorker \ Ended
  BY DEF OnWorker, WsStages, Ended
<1>2. /\ session' \in [Sessions -> {"none", "backlog", "held"} \cup OnWorker \cup Ended]
      /\ session'[s] \in {"queued", "closed"}
      /\ \A t \in Sessions \ {s} : session'[t] = session[t]
  BY <1>1, StageMoves DEF HandOver
<1>3. \A t \in Sessions : session'[t] # "held"
  BY <1>1, <1>2 DEF IInv, Placed, HeldOnce, HandOver
<1>4. nextWorker' \in Workers
  BY NextWorkerInRange DEF HandOver, IInv, TypeOK
<1>5. owner \notin {"down", "failed"}
  BY DEF HandOver, AcceptAt, IInv, ThreadsOfOwner
<1>6. /\ home' \in [Sessions -> [start : 0..MaxStarts, worker : Workers]]
      /\ home'[s] = home[s] \/ home'[s].start = starts
      /\ session'[s] = "queued" => home'[s].start = starts
      /\ \A t \in Sessions \ {s} : home'[t] = home[t]
  BY <1>1 DEF HandOver, IInv, TypeOK, Stage
<1>7. TypeOK'
  BY <1>2, <1>4, <1>6 DEF IInv, TypeOK, HandOver, AcceptAt, ownerVars, workerVars
<1>8. HomesExist'
  <2>1. starts \in Int /\ UNCHANGED <<owner, starts>>
    BY ServerAssumption DEF IInv, TypeOK, HandOver, ownerVars
  <2>2. \A t \in Sessions : session'[t] \in OnWorker \ InRouter => home'[t].start = starts
    BY <1>1, <1>2, <1>6 DEF IInv, Placed, HomesExist
  <2>3. QED
    BY <1>5, <1>6, <2>1, <2>2 DEF IInv, Placed, HomesExist
<1>9. QED
  BY <1>2, <1>3, <1>5, <1>7, <1>8 DEF IInv, HandOver, AcceptAt, ownerVars, workerVars,
                          ThreadsOfOwner, ContextsExist, Placed, BacklogListened, HeldOnce

\* A connection on a worker moves to a stage in which its context is there, or
\* to the router, or it ends.
LEMMA OnWorkerMoves ==
    ASSUME IInv, NEW s \in Sessions, session[s] \in OnWorker,
           NEW to \in OnWorker \cup Ended, Stage(s, to),
           to \in OnWorker \ InRouter => /\ home[s].start = starts
                                        /\ owner \notin {"down", "failed"},
           UNCHANGED <<ownerVars, acceptVars, workerVars, home>>
    PROVE  IInv'
<1>1. /\ session' \in [Sessions -> {"none", "backlog", "held"} \cup OnWorker \cup Ended]
      /\ session'[s] = to
      /\ \A t \in Sessions \ {s} : session'[t] = session[t]
  BY StageMoves
<1>2. to # "held" /\ to # "backlog"
  BY DEF OnWorker, WsStages, Ended
<1>3. TypeOK'
  BY <1>1 DEF IInv, TypeOK, ownerVars, acceptVars, workerVars
<1>4. HomesExist'
  BY <1>1 DEF IInv, Placed, HomesExist, ownerVars
<1>5. QED
  BY <1>1, <1>2, <1>3, <1>4 DEF IInv, ownerVars, acceptVars, workerVars,
         ThreadsOfOwner, ContextsExist, Placed, BacklogListened, HeldOnce

\* A step of a session is run by its worker's thread, so the context is there.
LEMMA SessionStepInv == ASSUME IInv, NEW s \in Sessions, SessionStep(s) PROVE IInv'
<1>1. PICK to \in OnWorker \cup Ended :
          /\ session[s] \in OnWorker \ InRouter
          /\ Stage(s, to)
          /\ UNCHANGED <<ownerVars, acceptVars, workerVars, home>>
  BY DEF SessionStep, Begin, ReadRequest, Upgrade, HandleRequest, Resume, Write,
         Handshake, WsRead, WsResume, WsWrite, WsClose, WsCheck, Step, OnWorker,
         WsStages, InRouter, Ended
<1>2. home[s].start = starts /\ owner \notin {"down", "failed"}
  BY <1>1 DEF IInv, Placed, HomesExist
<1>3. QED
  BY <1>1, <1>2, OnWorkerMoves

\* An answer of the router finds the context, or is the last of the connection.
LEMMA RouteAnsweredInv ==
    ASSUME IInv, NEW s \in Sessions, RouteAnswered(s) PROVE IInv'
<1>1. session[s] \in OnWorker
  BY DEF RouteAnswered, InRouter, OnWorker, WsStages
<1>2. CASE HasContext(s)
  <2>1. PICK to \in {"resume", "wsResume"} : Stage(s, to)
    BY <1>2 DEF RouteAnswered
  <2>2. to \in OnWorker
    BY DEF OnWorker, WsStages
  <2>3. home[s].start = starts /\ owner \notin {"down", "failed"}
    BY <1>2 DEF HasContext, IInv, TypeOK, ContextsExist, Placed, HomesExist
  <2>4. QED
    BY <1>1, <2>1, <2>2, <2>3, OnWorkerMoves DEF RouteAnswered
<1>3. CASE ~HasContext(s)
  <2>1. "stray" \in Ended /\ "stray" \notin OnWorker
    BY DEF OnWorker, WsStages, Ended
  <2>2. QED
    BY <1>1, <1>3, <2>1, OnWorkerMoves DEF RouteAnswered
<1>4. QED
  BY <1>2, <1>3

\* A worker thread that returned exists until it is joined.
LEMMA WorkerExitInv == ASSUME IInv, NEW w \in Workers, WorkerExit(w) PROVE IInv'
BY DEF IInv, TypeOK, WorkerExit, ownerVars, acceptVars, sessionVars,
       ThreadsOfOwner, ContextsExist, Placed, HomesExist, BacklogListened, HeldOnce
-----------------------------------------------------------------------------
\* Every step preserves the invariant.
LEMMA NextInv == IInv /\ [Next]_vars => IInv'
<1> SUFFICES ASSUME IInv, [Next]_vars PROVE IInv'
  OBVIOUS
<1>1. CASE UNCHANGED vars
  BY <1>1 DEF IInv, vars, ownerVars, acceptVars, workerVars, sessionVars, TypeOK,
              ThreadsOfOwner, ContextsExist,
              Placed, HomesExist, BacklogListened, HeldOnce
<1>2. CASE Stop
  BY <1>2, StopExchangeInv, CloseAcceptorInv, ReleaseGuardsInv, StopAcceptInv,
     StopWorkersInv, JoinAcceptInv, JoinWorkersInv, DestroyInv DEF Stop
<1>3. CASE AcceptStep
  BY <1>3, AcceptMoveInv, AcceptInv, AcceptFailsInv, HandOverInv DEF AcceptStep
<1>4. QED
  BY <1>1, <1>2, <1>3, StartInv, WorkerExitInv, ConnectInv, SessionStepInv,
     RouteAnsweredInv DEF Next

\* The server and its connections keep the types TypeOK gives them
\* (HttpServer::Start, AcceptLoop, Stop of http_server.cpp): the index of the
\* next worker stays below io_threads, and running_ tells a server that serves.
THEOREM TypeCorrect == Spec => []TypeOK
<1>1. IInv => TypeOK
  BY DEF IInv
<1>2. QED
  BY InitInv, NextInv, <1>1, PTL DEF Spec

\* For any number of connections, worker threads and starts, and wherever Stop
\* meets them: a connection on a worker that does not wait in the router is on a
\* context that exists, the accept thread finds one, and a server that is down
\* has no thread left and no connection but those that wait in the router (the
\* order of the steps of Stop in http_server.cpp).
THEOREM ContextsOutlive == Spec => []ContextsOutliveSessions
<1>1. IInv => ContextsOutliveSessions
  <2> SUFFICES ASSUME IInv PROVE ContextsOutliveSessions
    OBVIOUS
  <2>1. ASSUME NEW s \in Sessions, session[s] \in OnWorker \ InRouter
        PROVE  HasContext(s)
    BY <2>1 DEF IInv, TypeOK, ContextsExist, Placed, HomesExist, HasContext
  <2>2. acceptThread = "holding" => \A w \in Workers : ctx[w] # "none"
    BY DEF IInv, ThreadsOfOwner, ContextsExist
  <2>3. ASSUME owner = "down"
        PROVE  /\ acceptThread = "none"
               /\ \A w \in Workers : thread[w] = "none"
               /\ \A s \in Sessions : session[s] \in {"none"} \cup InRouter \cup Ended
    <3>1. acceptThread = "none" /\ \A w \in Workers : thread[w] = "none"
      BY <2>3 DEF IInv, ThreadsOfOwner
    <3>2. ASSUME NEW s \in Sessions
          PROVE  session[s] \notin {"backlog", "held"} \cup (OnWorker \ InRouter)
      BY <2>3, <3>1 DEF IInv, Placed, HomesExist, BacklogListened, HeldOnce
    <3>3. QED
      BY <3>1, <3>2 DEF IInv, TypeOK
  <2>4. QED
    BY <2>1, <2>2, <2>3 DEF ContextsOutliveSessions
<1>2. QED
  BY InitInv, NextInv, <1>1, PTL DEF Spec
=============================================================================
