----------------------------- MODULE LoadBench -----------------------------
(***************************************************************************)
(* bench/gateway_http_ws_bench.cpp: the load generator for the gateway.    *)
(* It splits the requests and the workers between HTTP and WebSocket, lets *)
(* each pool of workers draw request numbers from a counter of its own,    *)
(* and reports what the workers counted.  An HTTP worker uses a connection *)
(* per request and turns every failure into an error; a WebSocket worker   *)
(* has one connection, and ends with it.                                   *)
(*                                                                         *)
(* The latency of a request is kept as the fact that it was measured.  The *)
(* counters are atomic and read after the join only, so an outcome and its *)
(* count are one action.                                                   *)
(***************************************************************************)
EXTENDS Integers, FiniteSets

CONSTANTS MaxRequests,    \* bound: --requests
          MaxConcurrency, \* bound: --concurrency
          Ratios          \* --mixed-http-ratio, as <<numerator, denominator>>

ASSUME BenchAssumption ==
    /\ MaxRequests \in Nat \ {0} /\ MaxConcurrency \in Nat \ {0}
    /\ \A r \in Ratios : r[2] \in Nat \ {0} /\ r[1] \in 0..r[2]

VARIABLES
    cfg,        \* the arguments, after ParseArgs
    plan,       \* requests and concurrency of each pool
    phase,      \* how far main is
    index,      \* next request number of each pool
    at,         \* where each worker of a pool is
    request,    \* the request a worker has drawn
    measured,   \* requests of a pool whose latency is recorded
    success, errors,
    lost        \* history: failures of a connection outside any request

benchVars == <<cfg, plan, phase, index, at, request, measured, success,
               errors, lost>>

Pools == {"http", "ws"}
Workers == 1..MaxConcurrency
Modes == Pools \cup {"mixed"}
-----------------------------------------------------------------------------
(* The arguments and the split.                                            *)

\* ParseArgs: concurrency and requests are at least 1, the ratio within 0..1.
ParseArgs == [mode : Modes, requests : 1..MaxRequests,
              concurrency : 1..MaxConcurrency, ratio : Ratios]

\* llround of the share of HTTP in n: a half goes up.
Share(n, r) == (2 * n * r[1] + r[2]) \div (2 * r[2])

\* Mutant of Concurrency: the worker one pool gains is not taken from the
\* other.
ConcurrencyOnTop(c, requests) ==
    LET http == Share(c.concurrency, c.ratio)
        ws == c.concurrency - http
    IN  [http |-> IF requests.http > 0 /\ http = 0 THEN 1 ELSE http,
         ws |-> IF requests.ws > 0 /\ ws = 0 THEN 1 ELSE ws]

\* The workers of each pool: a pool with requests and no worker takes one
\* from the other.
Concurrency(c, requests) ==
    LET share == Share(c.concurrency, c.ratio)
        starved == requests.http > 0 /\ share = 0
        http == IF starved THEN 1 ELSE share
        ws == IF starved THEN c.concurrency - 1 ELSE c.concurrency - share
    IN  IF requests.ws > 0 /\ ws = 0
          THEN [http |-> IF http > 0 THEN http - 1 ELSE 0, ws |-> 1]
          ELSE [http |-> http, ws |-> ws]

\* What RunMixedBench, or main for a single protocol, asks of the pools.  A
\* pool without requests or without workers is not run.
Plan(c) ==
    LET share == Share(c.requests, c.ratio)
        requests == CASE c.mode = "http" -> [http |-> c.requests, ws |-> 0]
                      [] c.mode = "ws" -> [http |-> 0, ws |-> c.requests]
                      [] OTHER -> [http |-> share, ws |-> c.requests - share]
        workers == IF c.mode = "mixed" THEN Concurrency(c, requests)
                   ELSE [p \in Pools |-> IF p = c.mode THEN c.concurrency ELSE 0]
    IN  [p \in Pools |-> [requests |-> requests[p], workers |-> workers[p]]]

Runs(p) == plan[p].requests > 0 /\ plan[p].workers > 0
Staff(p) == IF Runs(p) THEN 1..plan[p].workers ELSE {}

BenchInit ==
    /\ cfg \in ParseArgs
    /\ plan = Plan(cfg)
    /\ phase = "warmup"
    /\ index = [p \in Pools |-> 0]
    /\ at = [p \in Pools |-> [w \in Workers |-> "none"]]
    /\ request = [p \in Pools |-> [w \in Workers |-> 0]]
    /\ measured = [p \in Pools |-> {}]
    /\ success = [p \in Pools |-> 0]
    /\ errors = [p \in Pools |-> 0]
    /\ lost = [p \in Pools |-> 0]
-----------------------------------------------------------------------------
Goto(p, w, to) == at' = [at EXCEPT ![p][w] = to]
Count(counter, p) == counter' = [counter EXCEPT ![p] = @ + 1]
UnchangedPlan == UNCHANGED <<cfg, plan, phase>>

\* The warm-up counts nothing and hides its failures; then the workers start.
WarmUp ==
    /\ phase = "warmup"
    /\ phase' = "run"
    /\ at' = [p \in Pools |-> [w \in Workers |->
                CASE w \notin Staff(p) -> "none"
                  [] p = "http" -> "loop"
                  [] OTHER -> "connect"]]
    /\ UNCHANGED <<cfg, plan, index, request, measured, success, errors, lost>>

\* A WebSocket worker connects; if it cannot, it counts an error and ends.
Connect(w) ==
    /\ at["ws"][w] = "connect"
    /\ \/ Goto("ws", w, "loop") /\ UNCHANGED <<errors, lost>>
       \/ Goto("ws", w, "died") /\ Count(errors, "ws") /\ Count(lost, "ws")
    /\ UnchangedPlan /\ UNCHANGED <<index, request, measured, success>>

\* index.fetch_add and its test.
Draw(p, w) ==
    /\ at[p][w] = "loop"
    /\ Count(index, p)
    /\ request' = [request EXCEPT ![p][w] = index[p]]
    /\ Goto(p, w, IF index[p] < plan[p].requests THEN "call"
                  ELSE IF p = "ws" THEN "close" ELSE "ended")
    /\ UnchangedPlan /\ UNCHANGED <<measured, success, errors, lost>>

\* The gateway's answer, or an HTTP request that failed in any way.
Answered(p, w) ==
    /\ at[p][w] = "call"
    /\ measured' = [measured EXCEPT ![p] = @ \cup {request[p][w]}]
    /\ \/ Count(success, p) /\ UNCHANGED errors
       \/ Count(errors, p) /\ UNCHANGED success
    /\ Goto(p, w, "loop")
    /\ UnchangedPlan /\ UNCHANGED <<index, request, lost>>

\* Mutant of Thrown: the failure is swallowed.
ThrownUncounted(w) ==
    /\ at["ws"][w] = "call"
    /\ Goto("ws", w, "died")
    /\ UnchangedPlan
    /\ UNCHANGED <<index, request, measured, success, errors, lost>>

\* A WebSocket that fails in a request: its worker counts it and ends.
Thrown(w) ==
    /\ at["ws"][w] = "call"
    /\ Count(errors, "ws")
    /\ Goto("ws", w, "died")
    /\ UnchangedPlan /\ UNCHANGED <<index, request, measured, success, lost>>

\* A close that fails counts an error, though every request has its count.
Close(w) ==
    /\ at["ws"][w] = "close"
    /\ Goto("ws", w, "ended")
    /\ \/ UNCHANGED <<errors, lost>>
       \/ Count(errors, "ws") /\ Count(lost, "ws")
    /\ UnchangedPlan /\ UNCHANGED <<index, request, measured, success>>

\* Mutant of Join: a latch the workers count down on their normal way out.
JoinLatch ==
    /\ phase = "run"
    /\ \A p \in Pools, w \in Workers : at[p][w] \in {"none", "ended"}
    /\ phase' = "reported"
    /\ UNCHANGED <<cfg, plan, index, at, request, measured, success, errors,
                   lost>>

\* The threads of both pools are joined and their counters read.
Join ==
    /\ phase = "run"
    /\ \A p \in Pools, w \in Workers : at[p][w] \in {"none", "ended", "died"}
    /\ phase' = "reported"
    /\ UNCHANGED <<cfg, plan, index, at, request, measured, success, errors,
                   lost>>
-----------------------------------------------------------------------------
\* A worker of either pool.
HttpWorker(w) == Draw("http", w) \/ Answered("http", w)
WsWorker(w) == \/ Connect(w) \/ Draw("ws", w) \/ Answered("ws", w)
               \/ Thrown(w) \/ Close(w)

BenchNext == WarmUp \/ Join \/ \E w \in Workers : HttpWorker(w) \/ WsWorker(w)

BenchSpec == BenchInit /\ [][BenchNext]_benchVars
-----------------------------------------------------------------------------
BenchTypeOK ==
    /\ cfg \in ParseArgs
    /\ phase \in {"warmup", "run", "reported"}
    /\ at \in [Pools -> [Workers ->
         {"none", "connect", "loop", "call", "close", "ended", "died"}]]
    /\ \A p \in Pools : measured[p] \subseteq 0..MaxRequests - 1

\* The split loses and invents no worker, and with two workers or more every
\* protocol that is to carry requests has one, whatever the ratio rounds to.
PoolsStaffed ==
    /\ plan["http"].requests + plan["ws"].requests = cfg.requests
    /\ plan["http"].workers + plan["ws"].workers = cfg.concurrency
    /\ \A p \in Pools : cfg.concurrency > 1 /\ plan[p].requests > 0 => Runs(p)

\* What the benchmark reports adds up.  Every HTTP request is counted once and
\* measured.  If a WebSocket worker came to the end of the requests then every
\* request was counted, whoever died with one, and beyond the requests the
\* errors count only connections that failed outside any request.  Nothing is
\* a success that was not measured, and no latency is written beside the
\* vector.
ReportAddsUp ==
    \A p \in Pools :
        LET requests == plan[p].requests
            died == Cardinality({w \in Workers : at[p][w] = "died"})
        IN  /\ measured[p] \subseteq 0..requests - 1
            /\ success[p] <= Cardinality(measured[p])
            /\ success[p] + errors[p] - lost[p] <= requests
            /\ phase = "reported" /\ (\E w \in Workers : at[p][w] = "ended")
                 => /\ success[p] + errors[p] - lost[p] = requests
                    /\ Cardinality(measured[p]) >= requests - died

\* The benchmark reports, if every call of its workers comes to an end.
BenchReports == phase = "run" ~> phase = "reported"
=============================================================================
