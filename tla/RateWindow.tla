----------------------------- MODULE RateWindow -----------------------------
(***************************************************************************)
(* What the token bucket promises its caller, whatever the calls and       *)
(* whenever one starts to watch: in a window of any length it admits no    *)
(* more requests than the burst plus what the rate earns in that window.   *)
(* The observer may open a new window at any moment.                       *)
(***************************************************************************)
EXTENDS TokenBucket

CONSTANT MaxWindow \* bound of the observed window, in ticks

ASSUME WindowAssumption == MaxWindow \in Nat

VARIABLES window,  \* history: ticks since the observer opened its window
          admitted \* history: requests admitted in the window

windowVars == <<tokens, sinceRefill, window, admitted>>

WindowInit == BucketInit /\ window = 0 /\ admitted = 0

AllowTrue == Admit /\ admitted' = admitted + 1 /\ UNCHANGED window

AllowFalse == Reject /\ UNCHANGED <<window, admitted>>

WindowTick == /\ window < MaxWindow
        /\ BucketTick
        /\ window' = window + 1
        /\ UNCHANGED admitted

OpenWindow == /\ window' = 0
              /\ admitted' = 0
              /\ UNCHANGED bucket

WindowNext == AllowTrue \/ AllowFalse \/ WindowTick \/ OpenWindow

WindowSpec == WindowInit /\ [][WindowNext]_windowVars
-----------------------------------------------------------------------------
WindowTypeOK == /\ BucketTypeOK
          /\ window \in 0..MaxWindow
          /\ admitted \in Nat

\* In every window the requests admitted are paid for by the burst and by the
\* refill of that window: rejected calls, which refill the bucket too, never
\* make a moment count twice.
AdmissionBound == admitted * Unit <= Burst + Rate * window
=============================================================================
