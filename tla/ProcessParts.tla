---------------------------- MODULE ProcessParts ----------------------------
(***************************************************************************)
(* The smaller parts of the processes, side by side: the governors of a    *)
(* downstream service, the runtime configuration and its administrators    *)
(* with the tokens they show, the life of a process, its logger, the load  *)
(* generator, and the text of the stores' keys.  None reads what another   *)
(* one writes, so a behaviour follows the steps of one of them; the others *)
(* keep their initial state.                                               *)
(***************************************************************************)
EXTENDS Governance, AdminConfig, Application, Logger, LoadBench, StoreKeys

VARIABLE part \* the part a behaviour follows

Parts == {"governance", "admin", "encoding", "application", "logger",
          "bench", "keys"}

\* The load generator has many initial states; the others take one of them.
PartsInit ==
    /\ part \in Parts
    /\ GovInit /\ AuthInit /\ AdminInit /\ AppInit /\ LogInit /\ KeysInit
    /\ BenchInit
    /\ part # "bench" => cfg = CHOOSE c \in ParseArgs : TRUE

allVars == <<part, govVars, authVars, adminVars, appVars, logVars, benchVars,
             keyVars>>

Governors == /\ part = "governance"
             /\ GovNext
             /\ UNCHANGED <<part, authVars, adminVars, appVars, logVars,
                            benchVars, keyVars>>

Administration == /\ part = "admin"
                  /\ AdminNext
                  /\ UNCHANGED <<part, govVars, appVars, logVars, benchVars,
                                 keyVars>>

Encoding == /\ part = "encoding"
            /\ TakeByte
            /\ UNCHANGED <<part, govVars, adminVars, appVars, logVars,
                           benchVars, keyVars>>

Process(step) == /\ part = "application"
                 /\ step
                 /\ UNCHANGED <<part, govVars, authVars, adminVars, logVars,
                                benchVars, keyVars>>

Logging == /\ part = "logger"
           /\ LogNext
           /\ UNCHANGED <<part, govVars, authVars, adminVars, appVars,
                          benchVars, keyVars>>

Bench(step) == /\ part = "bench"
               /\ step
               /\ UNCHANGED <<part, govVars, authVars, adminVars, appVars,
                              logVars, keyVars>>

Keys == /\ part = "keys"
        /\ PutEntry
        /\ UNCHANGED <<part, govVars, authVars, adminVars, appVars, logVars,
                       benchVars>>

PartsNext == \/ Governors \/ Administration \/ Encoding \/ Process(AppNext)
             \/ Logging \/ Bench(BenchNext) \/ Keys

\* The fairness of Application, and of the load generator: its threads are
\* scheduled, and what they wait for answers, fails or closes.
PartsSpec ==
    /\ PartsInit /\ [][PartsNext]_allVars
    /\ WF_allVars(Process(Run))
    /\ \A t \in Threads : WF_allVars(Process(HandlerStep(t)))
    /\ WF_allVars(Bench(WarmUp)) /\ WF_allVars(Bench(Join))
    /\ \A w \in Workers : /\ WF_allVars(Bench(HttpWorker(w)))
                           /\ WF_allVars(Bench(WsWorker(w)))
=============================================================================
