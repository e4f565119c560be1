----------------------------- MODULE Governance -----------------------------
(***************************************************************************)
(* The governors the gateway's router builds when it starts                *)
(* (grpc_router.cpp): a circuit breaker and a token bucket.  Each guards   *)
(* itself with a mutex of its own, so a call of one may fall between any   *)
(* two calls of the other; they share nothing but the clock.               *)
(***************************************************************************)
EXTENDS CircuitBreaker, RateWindow

govVars == <<vars, windowVars>>

GovInit == Init /\ WindowInit

BreakerCalled ==
    /\ AllowGranted \/ AllowRefused \/ RecordSuccess \/ RecordFailure
    /\ UNCHANGED windowVars

LimiterCalled ==
    /\ AllowTrue \/ AllowFalse \/ OpenWindow
    /\ UNCHANGED vars

TimePasses == Tick /\ WindowTick

GovNext == BreakerCalled \/ LimiterCalled \/ TimePasses

GovSpec == GovInit /\ [][GovNext]_govVars
=============================================================================
