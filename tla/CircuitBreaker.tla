--------------------------- MODULE CircuitBreaker ---------------------------
(***************************************************************************)
(* framework/governance/circuit_breaker: the breaker the gateway puts in   *)
(* front of each downstream service.  Every operation runs under one       *)
(* mutex, so an operation is one action.                                   *)
(*                                                                         *)
(* Two values are kept only as far as the code can tell them apart:        *)
(*  - failure_count_ is only ever compared with the threshold, so it       *)
(*    saturates there;                                                     *)
(*  - opened_at_ is only ever read as "now - opened_at_ >= cool_down_", so *)
(*    it is kept as the ticks elapsed since, saturating at CoolDown.       *)
(***************************************************************************)
EXTENDS Integers

CONSTANTS Threshold, \* failure_threshold_
          CoolDown   \* cool_down_, in ticks

ASSUME BreakerAssumption == /\ Threshold \in Nat \ {0}
                            /\ CoolDown \in Nat

VARIABLES state,        \* state_
          failureCount, \* failure_count_, saturating at Threshold
          sinceOpened,  \* now - opened_at_, saturating at CoolDown
          sinceFailure  \* history: ticks since the last recorded failure

vars == <<state, failureCount, sinceOpened, sinceFailure>>

State == {"Closed", "Open", "HalfOpen"}

\* opened_at_ starts at the clock's epoch, long before any cool-down.
Init == /\ state = "Closed"
        /\ failureCount = 0
        /\ sinceOpened = CoolDown
        /\ sinceFailure = CoolDown

CooledDown == sinceOpened >= CoolDown

\* The breaker lets a request through; an open one that has cooled down
\* becomes half-open.  A half-open one lets every request through.
AllowGranted ==
    /\ state = "Open" => CooledDown
    /\ state' = IF state = "Open" THEN "HalfOpen" ELSE state
    /\ UNCHANGED <<failureCount, sinceOpened, sinceFailure>>

AllowRefused ==
    /\ state = "Open"
    /\ ~CooledDown
    /\ UNCHANGED vars

\* Mutant of RecordSuccess: the count is left alone.
RecordSuccessKeepsCount ==
    /\ state' = "Closed"
    /\ UNCHANGED <<failureCount, sinceOpened, sinceFailure>>

\* A success closes the breaker from every state, an open one included: the
\* call that succeeds may have been let through before the breaker opened.
RecordSuccess ==
    /\ state' = "Closed"
    /\ failureCount' = 0
    /\ UNCHANGED <<sinceOpened, sinceFailure>>

Saturate(n, limit) == IF n < limit THEN n ELSE limit

\* Mutant of RecordFailure: a failure in the open state does not restart the
\* cool-down.
RecordFailureKeepsOpenedAt ==
    LET count == Saturate(failureCount + 1, Threshold)
    IN  /\ failureCount' = count
        /\ state' = IF count >= Threshold THEN "Open" ELSE state
        /\ sinceOpened' = IF count >= Threshold /\ state # "Open"
                            THEN 0 ELSE sinceOpened
        /\ sinceFailure' = 0

\* At the threshold a failure (re)opens the breaker and restarts its
\* cool-down, from every state, an open one included.
RecordFailure ==
    LET count == Saturate(failureCount + 1, Threshold)
    IN  /\ failureCount' = count
        /\ IF count >= Threshold
             THEN state' = "Open" /\ sinceOpened' = 0
             ELSE UNCHANGED <<state, sinceOpened>>
        /\ sinceFailure' = 0

Tick == /\ sinceOpened' = Saturate(sinceOpened + 1, CoolDown)
        /\ sinceFailure' = Saturate(sinceFailure + 1, CoolDown)
        /\ UNCHANGED <<state, failureCount>>

Next == AllowGranted \/ AllowRefused \/ RecordSuccess \/ RecordFailure \/ Tick

Spec == Init /\ [][Next]_vars
-----------------------------------------------------------------------------
TypeOK == /\ state \in State
          /\ failureCount \in 0..Threshold
          /\ sinceOpened \in 0..CoolDown
          /\ sinceFailure \in 0..CoolDown

\* The breaker is closed exactly while fewer than Threshold failures were
\* recorded since the last success: the count survives the way through open
\* and half-open (AllowRequest never clears it).
ClosedBelowThreshold == state = "Closed" <=> failureCount < Threshold

\* The first failure recorded in the half-open state opens the breaker again,
\* whatever number of requests the half-open breaker had let through.
HalfOpenFailureReopens ==
    [][state = "HalfOpen" /\ RecordFailure => state' = "Open"]_vars

\* A breaker leaves the open state without a success only when a whole
\* cool-down has passed since the LAST recorded failure, not since the first
\* failure that opened it: late failures of requests let through earlier
\* prolong the rejection.
CoolDownFromLastFailure ==
    [][state = "Open" /\ state' = "HalfOpen" => sinceFailure >= CoolDown]_vars
=============================================================================
