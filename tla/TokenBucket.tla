---------------------------- MODULE TokenBucket ----------------------------
(***************************************************************************)
(* framework/governance/rate_limiter: the token bucket the gateway asks    *)
(* before every downstream call.  Allow runs under one mutex.              *)
(*                                                                         *)
(* The code counts tokens in floating point; here a token is worth Unit    *)
(* parts and the bucket gains Rate parts per tick, so that fractions of a  *)
(* token exist.  last_refill_ is only read as "now - last_refill_", kept   *)
(* as the ticks since the last refill; they saturate at Burst, which       *)
(* already fills the bucket because Rate >= 1.                             *)
(***************************************************************************)
EXTENDS Integers

CONSTANTS Unit,  \* parts in one token
          Rate,  \* rate_per_second_, in parts per tick
          Burst  \* burst_capacity_, in parts

ASSUME BucketAssumption == /\ Unit \in Nat \ {0}
                           /\ Rate \in Nat \ {0}
                           /\ Burst \in Nat

VARIABLES tokens,     \* tokens_, in parts
          sinceRefill \* now - last_refill_, saturating at Burst

bucket == <<tokens, sinceRefill>>

Least(a, b) == IF a <= b THEN a ELSE b

BucketInit == tokens = Burst /\ sinceRefill = 0

\* What the bucket holds now, were it refilled.
Refilled == Least(Burst, tokens + sinceRefill * Rate)

Allowed == Refilled >= Unit

\* Mutant of Admit: the refill is credited again by the next call.
AdmitKeepsRefillTime ==
    /\ Allowed
    /\ tokens' = Refilled - Unit
    /\ UNCHANGED sinceRefill

\* Allow: the bucket is refilled, then pays for the request ...
Admit == /\ Allowed
         /\ tokens' = Refilled - Unit
         /\ sinceRefill' = 0

\* ... or, without a whole token, rejects it; the refill is kept.
Reject == /\ ~Allowed
          /\ tokens' = Refilled
          /\ sinceRefill' = 0

BucketTick == /\ sinceRefill' = Least(sinceRefill + 1, Burst)
              /\ UNCHANGED tokens

BucketTypeOK == tokens \in 0..Burst /\ sinceRefill \in 0..Burst
=============================================================================
