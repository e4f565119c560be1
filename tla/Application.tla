---------------------------- MODULE Application ----------------------------
(***************************************************************************)
(* framework/app/application.cpp: the life of a process that has hooks to  *)
(* run when it is told to stop.  Run installs a handler for SIGINT, then   *)
(* for SIGTERM, and waits on a condition variable for the flag the handler *)
(* clears.  The handler runs on whichever thread the signal is delivered   *)
(* to, and takes no mutex: its store and its notification are two steps    *)
(* that fall anywhere between the steps of Run.                            *)
(***************************************************************************)
EXTENDS Integers, Sequences

CONSTANTS Threads, \* threads a signal may be delivered to
          NumHooks \* shutdown hooks registered before Run

ASSUME ApplicationAssumption == NumHooks \in Nat

VARIABLES
    running,   \* g_running
    installed, \* signals whose handler is installed
    main,      \* where Run is
    nextHook,  \* the hook Run calls next, 0 when none is left
    ran,       \* hooks that were run, in order
    handler,   \* where the signal handler is on each thread
    killed     \* a signal without a handler ended the process

appVars == <<running, installed, main, nextHook, ran, handler, killed>>

Signals == {"SIGINT", "SIGTERM"}
Main == {"installInt", "installTerm", "test", "block", "waiting", "hooks",
         "stopped"}

AppInit == /\ running = TRUE
        /\ installed = {}
        /\ main = "installInt"
        /\ nextHook = NumHooks
        /\ ran = << >>
        /\ handler = [t \in Threads |-> "idle"]
        /\ killed = FALSE
-----------------------------------------------------------------------------
(* The signal handler.                                                     *)

\* A signal without a handler takes its default action.
Signal(t, s) ==
    /\ ~killed /\ main # "stopped"
    /\ handler[t] = "idle"
    /\ IF s \in installed
         THEN handler' = [handler EXCEPT ![t] = "store"] /\ UNCHANGED killed
         ELSE killed' = TRUE /\ UNCHANGED handler
    /\ UNCHANGED <<running, installed, main, nextHook, ran>>

HandlerStore(t) ==
    /\ ~killed
    /\ handler[t] = "store"
    /\ running' = FALSE
    /\ handler' = [handler EXCEPT ![t] = "notify"]
    /\ UNCHANGED <<installed, main, nextHook, ran, killed>>

\* Mutant of HandlerNotify: nobody is notified.
HandlerReturns(t) ==
    /\ ~killed
    /\ handler[t] = "notify"
    /\ handler' = [handler EXCEPT ![t] = "idle"]
    /\ UNCHANGED <<running, installed, main, nextHook, ran, killed>>

\* notify_all reaches Run only if it waits already.
HandlerNotify(t) ==
    /\ ~killed
    /\ handler[t] = "notify"
    /\ handler' = [handler EXCEPT ![t] = "idle"]
    /\ main' = IF main = "waiting" THEN "test" ELSE main
    /\ UNCHANGED <<running, installed, nextHook, ran, killed>>
-----------------------------------------------------------------------------
(* Run.                                                                    *)

MainStep(from, to) == ~killed /\ main = from /\ main' = to

InstallInt ==
    /\ MainStep("installInt", "installTerm")
    /\ installed' = installed \cup {"SIGINT"}
    /\ UNCHANGED <<running, nextHook, ran, handler, killed>>

\* Mutant of InstallTerm: SIGTERM keeps its default action.
InstallNothing ==
    /\ MainStep("installTerm", "test")
    /\ UNCHANGED <<running, installed, nextHook, ran, handler, killed>>

InstallTerm ==
    /\ MainStep("installTerm", "test")
    /\ installed' = installed \cup {"SIGTERM"}
    /\ UNCHANGED <<running, nextHook, ran, handler, killed>>

\* The predicate of the wait.
Test ==
    /\ MainStep("test", IF running THEN "block" ELSE "hooks")
    /\ UNCHANGED <<running, installed, nextHook, ran, handler, killed>>

\* The mutex is released and the thread waits.
Block ==
    /\ MainStep("block", "waiting")
    /\ UNCHANGED <<running, installed, nextHook, ran, handler, killed>>

WakeSpuriously ==
    /\ MainStep("waiting", "test")
    /\ UNCHANGED <<running, installed, nextHook, ran, handler, killed>>

\* Mutant of RunHook: the first hook is left out.
RunHookButFirst ==
    /\ MainStep("hooks", IF nextHook <= 1 THEN "stopped" ELSE "hooks")
    /\ IF nextHook <= 1
         THEN UNCHANGED <<ran, nextHook>>
         ELSE ran' = Append(ran, nextHook) /\ nextHook' = nextHook - 1
    /\ UNCHANGED <<running, installed, handler, killed>>

\* The hooks, the one registered last first.
RunHook ==
    /\ MainStep("hooks", IF nextHook = 0 THEN "stopped" ELSE "hooks")
    /\ IF nextHook = 0
         THEN UNCHANGED <<ran, nextHook>>
         ELSE ran' = Append(ran, nextHook) /\ nextHook' = nextHook - 1
    /\ UNCHANGED <<running, installed, handler, killed>>
-----------------------------------------------------------------------------
Run == InstallInt \/ InstallTerm \/ Test \/ Block \/ RunHook

HandlerStep(t) == HandlerStore(t) \/ HandlerNotify(t)

AppNext == \/ Run \/ WakeSpuriously
        \/ \E t \in Threads : HandlerStep(t) \/ \E s \in Signals : Signal(t, s)

AppSpec == AppInit /\ [][AppNext]_appVars

\* Threads are scheduled; no signal and no spurious wake-up has to come.
AppFairSpec == AppSpec /\ WF_appVars(Run) /\ \A t \in Threads : WF_appVars(HandlerStep(t))
-----------------------------------------------------------------------------
AppTypeOK == /\ running \in BOOLEAN
          /\ installed \subseteq Signals
          /\ main \in Main
          /\ nextHook \in 0..NumHooks
          /\ nextHook + Len(ran) = NumHooks
          /\ handler \in [Threads -> {"idle", "store", "notify"}]
          /\ killed \in BOOLEAN

\* A shutdown that has begun is not cut short: no further signal of either
\* kind kills the process between its hooks.
HooksNotCut == killed => ran = << >> /\ main # "hooks"

\* When Run returns every hook has run, in the reverse of the order in which
\* they were added, once each, however many signals came meanwhile.
ShutdownComplete ==
    main = "stopped" => ran = [i \in 1..NumHooks |-> NumHooks + 1 - i]

\* A process that is signalled again and again does stop, even though any
\* single notification may be lost.
RepeatedSignalStops ==
    ([]<>(\E t \in Threads : handler[t] = "notify")) =>
        <>(killed \/ main = "stopped")

\* "Blocks until a termination signal is received, then runs shutdown hooks":
\* one signal the handler has received is enough.
SignalEndsRun ==
    (\E t \in Threads : handler[t] = "store") ~> (killed \/ main = "stopped")
=============================================================================
