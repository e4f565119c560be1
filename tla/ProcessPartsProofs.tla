-------------------------- MODULE ProcessPartsProofs --------------------------
(***************************************************************************)
(* The smaller parts of the processes, for any values of their constants:  *)
(* each part by itself, then all of them side by side.                     *)
(***************************************************************************)
EXTENDS ProcessParts, FiniteSetTheorems, SequenceTheorems, TLAPS

-----------------------------------------------------------------------------
(* The circuit breaker (CircuitBreaker).                                   *)

\* While the breaker is open, opened_at_ is the time of the last recorded
\* failure: this is what makes CoolDownFromLastFailure inductive.
OpenedAtLastFailure == state = "Open" => sinceOpened = sinceFailure

BreakerInv == TypeOK /\ ClosedBelowThreshold /\ OpenedAtLastFailure

\* The breaker's initial state satisfies the inductive invariant.
LEMMA BreakerInit == Init => BreakerInv
  BY BreakerAssumption
     DEF Init, BreakerInv, TypeOK, State, ClosedBelowThreshold, OpenedAtLastFailure

\* Every operation of the breaker, and the clock, preserves it.
LEMMA BreakerNext == BreakerInv /\ [Next]_vars => BreakerInv'
<1> SUFFICES ASSUME BreakerInv, [Next]_vars PROVE BreakerInv'
  OBVIOUS
<1> USE BreakerAssumption
    DEF BreakerInv, TypeOK, State, ClosedBelowThreshold, OpenedAtLastFailure
<1>1. CASE AllowGranted
  BY <1>1 DEF AllowGranted
<1>2. CASE AllowRefused
  BY <1>2 DEF AllowRefused, vars
<1>3. CASE RecordSuccess
  BY <1>3 DEF RecordSuccess
<1>4. CASE RecordFailure
  BY <1>4 DEF RecordFailure, Saturate
<1>5. CASE Tick
  BY <1>5 DEF Tick, Saturate
<1>6. CASE UNCHANGED vars
  BY <1>6 DEF vars
<1>7. QED
  BY <1>1, <1>2, <1>3, <1>4, <1>5, <1>6 DEF Next

\* The breaker's state is well typed, and it is closed exactly while fewer
\* than Threshold failures were recorded since the last success.
THEOREM BreakerInvariant == Spec => [](TypeOK /\ ClosedBelowThreshold)
<1>1. BreakerInv => TypeOK /\ ClosedBelowThreshold
  BY DEF BreakerInv
<1>2. QED
  BY BreakerInit, BreakerNext, <1>1, PTL DEF Spec

\* The first failure recorded while half-open opens the breaker again.
THEOREM HalfOpenReopens == Spec => HalfOpenFailureReopens
<1>1. BreakerInv /\ [Next]_vars =>
        [state = "HalfOpen" /\ RecordFailure => state' = "Open"]_vars
  BY BreakerAssumption
     DEF BreakerInv, TypeOK, ClosedBelowThreshold, RecordFailure, Saturate
<1>2. QED
  BY BreakerInit, BreakerNext, <1>1, PTL DEF Spec, HalfOpenFailureReopens

\* An open breaker goes half-open only a whole cool-down after the last
\* recorded failure.
THEOREM CoolDownRespected == Spec => CoolDownFromLastFailure
<1>1. BreakerInv /\ [Next]_vars =>
        [state = "Open" /\ state' = "HalfOpen" => sinceFailure >= CoolDown]_vars
  <2> SUFFICES ASSUME BreakerInv, Next, state = "Open", state' = "HalfOpen"
               PROVE  sinceFailure >= CoolDown
    OBVIOUS
  <2>1. AllowGranted
    BY DEF Next, AllowRefused, RecordSuccess, RecordFailure, Tick, vars
  <2>2. QED
    BY <2>1 DEF BreakerInv, OpenedAtLastFailure, AllowGranted, CooledDown
<1>2. QED
  BY BreakerInit, BreakerNext, <1>1, PTL DEF Spec, CoolDownFromLastFailure
-----------------------------------------------------------------------------
(* The token bucket (RateWindow).                                          *)

\* What was admitted and what the bucket could still pay for now never exceed
\* the burst and the earnings of the window: admission and refill move parts
\* from one side to the other and create none.
Conservation == admitted * Unit + Refilled <= Burst + Rate * window

BucketInv == WindowTypeOK /\ Conservation

\* One more tick earns at most one more Rate.
LEMMA EarnedGrows ==
  ASSUME NEW r \in Nat, NEW s \in Nat, NEW t \in Nat, t <= s + 1
  PROVE  s * r \in Nat /\ t * r \in Nat /\ t * r <= s * r + r
<1>1. (s + 1 - t) * r >= 0
  OBVIOUS
<1>2. (s + 1 - t) * r = s * r + r - t * r
  OBVIOUS
<1>3. s * r \in Nat /\ t * r \in Nat
  OBVIOUS
<1>4. QED
  BY <1>1, <1>2, <1>3

\* A bucket of the right type holds between 0 and Burst parts once refilled.
LEMMA RefilledType ==
  ASSUME BucketTypeOK PROVE Refilled \in 0..Burst
<1>1. sinceRefill * Rate \in Nat
  BY BucketAssumption DEF BucketTypeOK
<1>2. QED
  BY <1>1, BucketAssumption DEF BucketTypeOK, Refilled, Least

\* The full bucket of the initial state satisfies the invariant.
LEMMA BucketInvInit == WindowInit => BucketInv
<1> SUFFICES ASSUME WindowInit PROVE BucketInv
  OBVIOUS
<1>1. WindowTypeOK
  BY BucketAssumption, WindowAssumption
     DEF WindowInit, BucketInit, WindowTypeOK, BucketTypeOK
<1>2. Refilled <= Burst
  BY <1>1, RefilledType DEF WindowTypeOK
<1>3. admitted * Unit = 0 /\ Rate * window = 0
  BY BucketAssumption DEF WindowInit
<1>4. QED
  BY <1>1, <1>2, <1>3, RefilledType, BucketAssumption
     DEF BucketInv, Conservation, WindowTypeOK

\* Admitting, rejecting, the clock and a new window preserve it.
LEMMA BucketInvNext == BucketInv /\ [WindowNext]_windowVars => BucketInv'
<1> SUFFICES ASSUME BucketInv, [WindowNext]_windowVars PROVE BucketInv'
  OBVIOUS
<1> USE BucketAssumption, WindowAssumption
<1>t. WindowTypeOK /\ BucketTypeOK /\ Refilled \in 0..Burst
  BY RefilledType DEF BucketInv, WindowTypeOK
<1>p. admitted * Unit \in Nat /\ Rate * window \in Nat
  BY <1>t DEF WindowTypeOK
<1>c. Conservation
  BY DEF BucketInv
<1>1. CASE AllowTrue
  <2>1. WindowTypeOK'
    BY <1>1, <1>t DEF AllowTrue, Admit, Allowed, WindowTypeOK, BucketTypeOK
  <2>2. Refilled' = Refilled - Unit
    <3>1. tokens' = Refilled - Unit /\ sinceRefill' * Rate = 0
      BY <1>1 DEF AllowTrue, Admit
    <3>2. tokens' \in 0..Burst
      BY <2>1 DEF WindowTypeOK, BucketTypeOK
    <3>3. QED
      BY <3>1, <3>2 DEF Refilled, Least
  <2>3. admitted' * Unit = admitted * Unit + Unit
    BY <1>1, <1>t DEF AllowTrue, WindowTypeOK
  <2>4. window' = window
    BY <1>1 DEF AllowTrue
  <2>5. QED
    BY <2>1, <2>2, <2>3, <2>4, <1>t, <1>p, <1>c DEF BucketInv, Conservation
<1>2. CASE AllowFalse
  <2>1. WindowTypeOK'
    BY <1>2, <1>t DEF AllowFalse, Reject, WindowTypeOK, BucketTypeOK
  <2>2. Refilled' = Refilled
    <3>1. tokens' = Refilled /\ sinceRefill' * Rate = 0
      BY <1>2 DEF AllowFalse, Reject
    <3>2. tokens' \in 0..Burst
      BY <2>1 DEF WindowTypeOK, BucketTypeOK
    <3>3. QED
      BY <3>1, <3>2 DEF Refilled, Least
  <2>3. admitted' = admitted /\ window' = window
    BY <1>2 DEF AllowFalse
  <2>4. QED
    BY <2>1, <2>2, <2>3, <1>c DEF BucketInv, Conservation
<1>3. CASE WindowTick
  <2>1. WindowTypeOK'
    BY <1>3, <1>t DEF WindowTick, BucketTick, Least, WindowTypeOK, BucketTypeOK
  <2>2. Refilled' <= Refilled + Rate
    <3>1. /\ tokens' = tokens
          /\ sinceRefill' \in Nat
          /\ sinceRefill' <= sinceRefill + 1
      BY <1>3, <1>t DEF WindowTick, BucketTick, Least, BucketTypeOK
    <3>2. sinceRefill \in Nat /\ tokens \in 0..Burst
      BY <1>t DEF BucketTypeOK
    <3> DEFINE old == sinceRefill * Rate
               new == sinceRefill' * Rate
    <3>3. old \in Nat /\ new \in Nat /\ new <= old + Rate
      BY <3>1, <3>2, EarnedGrows
    <3>4. /\ Refilled = Least(Burst, tokens + old)
          /\ Refilled' = Least(Burst, tokens + new)
      BY <3>1 DEF Refilled, Least
    <3> HIDE DEF old, new
    <3>5. QED
      BY <3>2, <3>3, <3>4 DEF Least
  <2>3. admitted' = admitted /\ Rate * window' = Rate * window + Rate
    BY <1>3, <1>t DEF WindowTick, WindowTypeOK
  <2>4. Refilled' \in 0..Burst
    <3>1. tokens' \in 0..Burst /\ sinceRefill' \in 0..Burst
      BY <2>1 DEF WindowTypeOK, BucketTypeOK
    <3>2. PICK t \in 0..Burst, s \in 0..Burst :
             t = tokens' /\ s = sinceRefill'
      BY <3>1
    <3>3. Least(Burst, t + s * Rate) \in 0..Burst
      <4>1. s * Rate \in Nat
        BY EarnedGrows
      <4>2. QED
        BY <4>1 DEF Least
    <3>4. QED
      BY <3>2, <3>3 DEF Refilled
  <2>5. QED
    BY <2>1, <2>2, <2>3, <2>4, <1>t, <1>p, <1>c DEF BucketInv, Conservation
<1>4. CASE OpenWindow
  <2>1. WindowTypeOK'
    BY <1>4, <1>t DEF OpenWindow, bucket, WindowTypeOK, BucketTypeOK
  <2>2. Refilled' = Refilled
    BY <1>4 DEF OpenWindow, bucket, Refilled
  <2>3. admitted' * Unit = 0 /\ Rate * window' = 0
    BY <1>4 DEF OpenWindow
  <2>4. QED
    BY <2>1, <2>2, <2>3, <1>t DEF BucketInv, Conservation
<1>5. CASE UNCHANGED windowVars
  BY <1>5 DEF windowVars, BucketInv, Conservation, WindowTypeOK, BucketTypeOK, Refilled
<1>6. QED
  BY <1>1, <1>2, <1>3, <1>4, <1>5 DEF WindowNext

\* The bucket's state is well typed in every behaviour.
THEOREM BucketType == WindowSpec => []WindowTypeOK
<1>1. BucketInv => WindowTypeOK
  BY DEF BucketInv
<1>2. QED
  BY BucketInvInit, BucketInvNext, <1>1, PTL DEF WindowSpec

\* In every window the limiter admits at most burst + rate * length.
THEOREM WindowBound == WindowSpec => []AdmissionBound
<1>1. BucketInv => AdmissionBound
  <2> SUFFICES ASSUME BucketInv PROVE AdmissionBound
    OBVIOUS
  <2>1. Refilled \in 0..Burst
    BY RefilledType DEF BucketInv, WindowTypeOK
  <2>2. admitted * Unit \in Nat /\ Rate * window \in Nat
    BY BucketAssumption, WindowAssumption DEF BucketInv, WindowTypeOK
  <2>3. QED
    BY <2>1, <2>2, BucketAssumption
       DEF BucketInv, Conservation, AdmissionBound
<1>2. QED
  BY BucketInvInit, BucketInvNext, <1>1, PTL DEF WindowSpec
-----------------------------------------------------------------------------
(* The runtime configuration and its administrators (AdminConfig).         *)

AdminTypeOK ==
    /\ runtimeConfig \in [Fields -> Int]
    /\ intended \in [Fields -> Int]
    /\ copy \in [Admins -> [Fields -> Int]]
    /\ body \in [Admins -> {<< >>} \cup Updates]
    /\ touched \in [Admins -> SUBSET Fields]
    /\ post \in [Admins -> {"idle", "merge", "answer"}]

\* A copy that is to be written back differs from what was asked for only in
\* fields that were set since, or that were not in force when it was made.
\* The starting values may be below the minimum, so a copy of them and what a
\* later request made of them agree only once they are sanitised.
CopiesUpToDate ==
    \A a \in Admins : post[a] = "merge" =>
        \A f \in Fields \ (touched[a] \cup overlaid) :
            Sanitized(copy[a])[f] = Sanitized(intended)[f]

AdminInv == AdminTypeOK /\ LastAskedInForce /\ CopiesUpToDate

-----------------------------------------------------------------------------
\* Sanitising looks at one field at a time.
LEMMA SanitizedField ==
    ASSUME NEW c, NEW d, NEW f \in Fields, c[f] = d[f]
    PROVE  Sanitized(c)[f] = Sanitized(d)[f]
  BY DEF Sanitized

\* Sanitising again changes nothing.
LEMMA SanitizedTwice ==
    ASSUME NEW c \in [Fields -> Int], NEW f \in Fields
    PROVE  Sanitized(Sanitized(c))[f] = Sanitized(c)[f]
<1>1. Minimum[f] \in Int
  BY DEF Minimum, Fields
<1>2. QED
  BY <1>1 DEF Sanitized

\* What a request makes of a configuration is one.
LEMMA MergedType ==
    ASSUME NEW c \in [Fields -> Int], NEW u \in {<< >>} \cup Updates
    PROVE  /\ DOMAIN u \subseteq Fields
           /\ With(c, u) \in [Fields -> Int]
           /\ Sanitized(With(c, u)) \in [Fields -> Int]
<1>1. DOMAIN u \subseteq Fields /\ \A f \in DOMAIN u : u[f] \in Int
  <2>1. CASE u = << >>
    <3>1. DOMAIN u = {}
      BY <2>1
    <3>2. QED
      BY <3>1
  <2>2. CASE u \in Updates
    BY <2>2, AdminAssumption
  <2>3. QED
    BY <2>1, <2>2
<1>2. \A f \in Fields : Minimum[f] \in Int
  BY DEF Minimum, Fields
<1>3. With(c, u) \in [Fields -> Int]
  BY <1>1 DEF With
<1>4. QED
  BY <1>1, <1>2, <1>3 DEF Sanitized
-----------------------------------------------------------------------------
\* The router starts with the configuration it was given.
LEMMA AdminInvInit == AdminInit => AdminInv
  BY AdminAssumption DEF AdminInit, AdminInv, AdminTypeOK, LastAskedInForce,
                         CopiesUpToDate

\* A copy of the configuration in force is up to date, save the fields that
\* are set back.
LEMMA ReadInv == ASSUME AdminInv, NEW a \in Admins, Read(a) PROVE AdminInv'
<1> USE DEF AdminInv
<1>1. AdminTypeOK'
  BY DEF AdminTypeOK, Read
<1>2. LastAskedInForce'
  BY DEF LastAskedInForce, Read
<1>3. CopiesUpToDate'
  <2> SUFFICES ASSUME NEW b \in Admins, post'[b] = "merge",
                      NEW f \in Fields \ (touched'[b] \cup overlaid')
               PROVE  Sanitized(copy'[b])[f] = Sanitized(intended')[f]
    BY DEF CopiesUpToDate, Sanitized
  <2>1. CASE b = a
    <3>1. copy'[b][f] = intended'[f]
      BY <2>1 DEF Read, AdminTypeOK, LastAskedInForce
    <3>2. QED
      BY <3>1, SanitizedField
  <2>2. CASE b # a
    BY <2>2 DEF Read, AdminTypeOK, CopiesUpToDate
  <2>3. QED
    BY <2>1, <2>2
<1>4. QED
  BY <1>1, <1>2, <1>3

\* The write: what it names is asked for, what it does not name was up to
\* date in the copy or is set back now.
LEMMA UpdateInv ==
    ASSUME AdminInv, NEW a \in Admins, UpdateRuntimeConfig(a) PROVE AdminInv'
<1> USE DEF AdminInv
<1>1. /\ copy[a] \in [Fields -> Int] /\ intended \in [Fields -> Int]
      /\ body[a] \in {<< >>} \cup Updates
  BY DEF AdminTypeOK
<1>2. /\ DOMAIN body[a] \subseteq Fields
      /\ Sanitized(With(copy[a], body[a])) \in [Fields -> Int]
      /\ With(intended, body[a]) \in [Fields -> Int]
      /\ Sanitized(With(intended, body[a])) \in [Fields -> Int]
  BY <1>1, MergedType
<1>3. AdminTypeOK'
  BY <1>2 DEF AdminTypeOK, UpdateRuntimeConfig
<1>4. LastAskedInForce'
  <2> SUFFICES ASSUME NEW f \in Fields \ overlaid'
               PROVE  Sanitized(With(copy[a], body[a]))[f]
                        = Sanitized(With(intended, body[a]))[f]
    BY DEF LastAskedInForce, UpdateRuntimeConfig
  <2>1. CASE f \in DOMAIN body[a]
    BY <2>1, SanitizedField DEF With
  <2>2. CASE f \notin DOMAIN body[a]
    <3>1. f \in Fields \ (touched[a] \cup overlaid) /\ post[a] = "merge"
      BY <2>2 DEF UpdateRuntimeConfig
    <3>2. Sanitized(copy[a])[f] = Sanitized(intended)[f]
      BY <3>1 DEF CopiesUpToDate
    <3>3. /\ With(copy[a], body[a])[f] = copy[a][f]
          /\ With(intended, body[a])[f] = intended[f]
      BY <2>2 DEF With
    <3>4. QED
      BY <3>2, <3>3, SanitizedField
  <2>3. QED
    BY <2>1, <2>2
<1>5. CopiesUpToDate'
  <2> SUFFICES ASSUME NEW b \in Admins, post'[b] = "merge",
                      NEW f \in Fields \ (touched'[b] \cup overlaid')
               PROVE  Sanitized(copy'[b])[f] = Sanitized(intended')[f]
    BY DEF CopiesUpToDate, Sanitized
  <2>1. b # a /\ post[b] = "merge"
    BY DEF UpdateRuntimeConfig, AdminTypeOK
  <2>2. f \notin touched[b] /\ f \notin DOMAIN body[a]
    BY <2>1 DEF UpdateRuntimeConfig, AdminTypeOK
  <2>3. f \notin overlaid
    BY <2>2 DEF UpdateRuntimeConfig
  <2>4. Sanitized(copy[b])[f] = Sanitized(intended)[f]
    BY <2>1, <2>2, <2>3 DEF CopiesUpToDate
  <2>5. intended' = Sanitized(With(intended, body[a])) /\ copy' = copy
    BY DEF UpdateRuntimeConfig
  <2>6. Sanitized(intended')[f] = Sanitized(With(intended, body[a]))[f]
    BY <1>2, <2>5, SanitizedTwice
  <2>7. With(intended, body[a])[f] = intended[f]
    BY <2>2 DEF With
  <2>8. QED
    BY <2>4, <2>5, <2>6, <2>7, SanitizedField
<1>6. QED
  BY <1>3, <1>4, <1>5

\* The rest of a handler, and the clock, leave the configuration alone.
LEMMA QuietInv ==
    ASSUME AdminInv, UNCHANGED <<runtimeConfig, copy, body, intended, touched,
                             overlaid>>,
           \/ UNCHANGED post
           \/ \E a \in Admins : post' = [post EXCEPT ![a] = "idle"]
    PROVE  AdminInv'
<1> USE DEF AdminInv
<1>1. AdminTypeOK' /\ LastAskedInForce'
  BY DEF AdminTypeOK, LastAskedInForce
<1>2. \A a \in Admins : post'[a] = "merge" => post[a] = "merge"
  BY DEF AdminTypeOK
<1>3. CopiesUpToDate'
  BY <1>2 DEF CopiesUpToDate, Sanitized
<1>4. QED
  BY <1>1, <1>3

\* The steps of one administrator's request.
LEMMA PostInv == ASSUME AdminInv, NEW a \in Admins, Post(a) PROVE AdminInv'
<1>1. CASE Read(a)
  BY <1>1, ReadInv
<1>2. CASE BodyThrows(a)
  BY <1>2, QuietInv DEF BodyThrows
<1>3. CASE UpdateRuntimeConfig(a)
  BY <1>3, UpdateInv
<1>4. CASE Answer(a)
  BY <1>4, QuietInv DEF Answer
<1>5. QED
  BY <1>1, <1>2, <1>3, <1>4 DEF Post

\* Every step of the administrators and of the clock preserves it.
LEMMA AdminInvNext == AdminInv /\ [AdminNext]_<<authVars, adminVars>> => AdminInv'
<1> SUFFICES ASSUME AdminInv, [AdminNext]_<<authVars, adminVars>> PROVE AdminInv'
  OBVIOUS
<1>1. CASE UNCHANGED adminVars
  BY <1>1, QuietInv DEF adminVars
<1>2. QED
  BY <1>1, PostInv DEF AdminNext

\* Whatever administrators ask for, each field keeps the value the last
\* request to name it asked for, unless an overlapping request set it back.
THEOREM LastAskedStays == AdminSpec => []LastAskedInForce
<1>1. AdminInv => LastAskedInForce
  BY DEF AdminInv
<1>2. QED
  BY AdminInvInit, AdminInvNext, <1>1, PTL DEF AdminSpec
-----------------------------------------------------------------------------
(* The life of a process (Application).                                    *)

\* Run is past the handlers it has installed, a signal kills only before the
\* last of them, and the hooks that were run are those taken from the end.
LifeInv ==
    /\ AppTypeOK
    /\ main # "installInt" => "SIGINT" \in installed
    /\ main \notin {"installInt", "installTerm"} => "SIGTERM" \in installed
    /\ killed => main \in {"installInt", "installTerm"}
    /\ main \notin {"hooks", "stopped"} => nextHook = NumHooks
    /\ main = "stopped" => nextHook = 0
    /\ ran = [i \in 1..NumHooks - nextHook |-> NumHooks + 1 - i]

\* Before Run nothing is installed and no hook has run.
LEMMA LifeInit == AppInit => LifeInv
<1> SUFFICES ASSUME AppInit PROVE LifeInv
  OBVIOUS
<1>1. NumHooks \in Nat /\ NumHooks - NumHooks = 0
  BY ApplicationAssumption
<1>2. ran = [i \in 1..NumHooks - nextHook |-> NumHooks + 1 - i]
  <2>1. 1..0 = {}
    OBVIOUS
  <2>2. QED
    BY <1>1, <2>1 DEF AppInit
<1>3. AppTypeOK
  <2>1. Len(ran) = 0 /\ nextHook + 0 = NumHooks /\ nextHook \in 0..NumHooks
    BY <1>1 DEF AppInit
  <2>2. QED
    BY <2>1 DEF AppInit, AppTypeOK, Main
<1>4. QED
  BY <1>2, <1>3 DEF AppInit, LifeInv

\* One more hook, or none is left.
LEMMA RunHookInv == ASSUME LifeInv, RunHook PROVE LifeInv'
<1>1. /\ NumHooks \in Nat /\ nextHook \in 0..NumHooks
      /\ main = "hooks" /\ ~killed
      /\ UNCHANGED <<running, installed, handler, killed>>
  BY ApplicationAssumption DEF LifeInv, AppTypeOK, RunHook, MainStep
<1>2. CASE nextHook = 0
  BY <1>1, <1>2 DEF LifeInv, AppTypeOK, RunHook, MainStep, Main
<1>3. CASE nextHook # 0
  <2>1. /\ ran' = Append(ran, nextHook) /\ nextHook' = nextHook - 1 /\ main' = "hooks"
    BY <1>3 DEF RunHook, MainStep
  <2>2. nextHook' \in 0..NumHooks /\ NumHooks - nextHook' = NumHooks - nextHook + 1
    BY <1>1, <1>3, <2>1
  <2> DEFINE n == NumHooks - nextHook
  <2>3. n \in Nat /\ ran = [i \in 1..n |-> NumHooks + 1 - i] /\ Len(ran) = n
    BY <1>1 DEF LifeInv
  <2>4. nextHook = NumHooks + 1 - (n + 1)
    BY <1>1
  <2> HIDE DEF n
  <2>5. /\ ran' = [i \in 1..n + 1 |-> NumHooks + 1 - i]
        /\ Len(ran') = n + 1
    BY <1>1, <2>1, <2>3, <2>4
  <2>6. ran' = [i \in 1..NumHooks - nextHook' |-> NumHooks + 1 - i]
    BY <2>2, <2>5 DEF n
  <2>7. nextHook' + Len(ran') = NumHooks
    BY <1>1, <2>1, <2>5 DEF n
  <2>8. AppTypeOK'
    BY <1>1, <2>1, <2>2, <2>7 DEF LifeInv, AppTypeOK, Main
  <2>9. QED
    BY <1>1, <2>1, <2>6, <2>8 DEF LifeInv
<1>4. QED
  BY <1>2, <1>3

\* Every step of Run, of the handlers and of a signal preserves it.
LEMMA LifeNext == LifeInv /\ [AppNext]_appVars => LifeInv'
<1> SUFFICES ASSUME LifeInv, [AppNext]_appVars PROVE LifeInv'
  OBVIOUS
<1>0. ASSUME UNCHANGED <<nextHook, ran>>
      PROVE  /\ ran' = [i \in 1..NumHooks - nextHook' |-> NumHooks + 1 - i]
             /\ nextHook' \in 0..NumHooks /\ nextHook' + Len(ran') = NumHooks
  BY <1>0 DEF LifeInv, AppTypeOK
<1>1. CASE InstallInt \/ InstallTerm \/ Test \/ Block \/ WakeSpuriously
  <2> USE <1>1 DEF InstallInt, InstallTerm, Test, Block, WakeSpuriously, MainStep
  <2>1. UNCHANGED <<nextHook, ran>>
    OBVIOUS
  <2>2. AppTypeOK'
    BY <1>0, <2>1 DEF LifeInv, AppTypeOK, Main, Signals
  <2>3. QED
    BY <1>0, <2>1, <2>2 DEF LifeInv
<1>2. ASSUME NEW t \in Threads, HandlerStep(t) PROVE LifeInv'
  <2> USE <1>2 DEF HandlerStep, HandlerStore, HandlerNotify
  <2>1. UNCHANGED <<nextHook, ran>>
    OBVIOUS
  <2>2. AppTypeOK'
    BY <1>0, <2>1 DEF LifeInv, AppTypeOK, Main
  <2>3. QED
    BY <1>0, <2>1, <2>2 DEF LifeInv
<1>3. ASSUME NEW t \in Threads, NEW s \in Signals, Signal(t, s) PROVE LifeInv'
  BY <1>3 DEF LifeInv, AppTypeOK, Main, Signals, Signal
<1>4. CASE UNCHANGED appVars
  BY <1>4 DEF LifeInv, AppTypeOK, appVars
<1>5. QED
  BY <1>1, <1>2, <1>3, <1>4, RunHookInv DEF AppNext, Run

\* For any threads, hooks and signals a shutdown that has begun is not cut short
\* (Application::Run of application.cpp).
THEOREM HooksRunToTheEnd == AppSpec => []HooksNotCut
<1>1. LifeInv => HooksNotCut
  <2> SUFFICES ASSUME LifeInv, killed PROVE ran = << >> /\ main # "hooks"
    BY DEF HooksNotCut
  <2>1. nextHook = NumHooks /\ main # "hooks"
    BY DEF LifeInv
  <2>2. Len(ran) = 0
    BY <2>1, ApplicationAssumption DEF LifeInv, AppTypeOK
  <2>3. ran = [i \in 1..Len(ran) |-> NumHooks + 1 - i]
    BY <2>1, <2>2, ApplicationAssumption DEF LifeInv
  <2>4. QED
    BY <2>1, <2>2, <2>3
<1>2. QED
  BY LifeInit, LifeNext, <1>1, PTL DEF AppSpec

\* When Run returns, every hook has run once, the last registered first.
THEOREM HooksAllRun == AppSpec => []ShutdownComplete
<1>1. LifeInv => ShutdownComplete
  BY ApplicationAssumption DEF LifeInv, ShutdownComplete
<1>2. QED
  BY LifeInit, LifeNext, <1>1, PTL DEF AppSpec
-----------------------------------------------------------------------------
(* The logger (Logger).                                                    *)

\* The records up to the wth are in the files fs.
InFiles(fs, w) ==
    \A r \in 1..w : \E i \in 1..Len(fs) : \E k \in 1..Len(fs[i]) : fs[i][k] = r

\* Rotation may have dropped a file: t turns of the sink and n records have
\* made more files than are kept.
Overflowed(n, t) == \E k \in Int : MaxSize * k < n /\ t - 1 + k > MaxFiles

\* The files of a day with w records after t turns of the sink.  Until there
\* are too many, every file but the current one is full or was cut short by
\* a turn.
FilesOf(fs, w, t, n) ==
    /\ fs \in Seq(File) /\ fs # << >> /\ Len(fs) <= MaxFiles + 1
    /\ \/ InFiles(fs, w) /\ MaxSize * (Len(fs) - t) + Len(fs[1]) <= w
       \/ Overflowed(n, t)

\* Between two records: the sink has never turned to the day, or has a record
\* in the current file.
DayInv(fs, w, t) ==
    /\ fs = << >> => w = 0 /\ t = 0
    /\ fs # << >> => FilesOf(fs, w, t, w) /\ fs[1] # << >>

\* Only between the two halves of a SetLogLevel may the logger have a level of
\* its own.
LogInv ==
    /\ LogTypeOK
    /\ activeDay # 0 => files[activeDay] # << >>
    /\ \A d \in Days : DayInv(files[d], written[d], turns[d])
    /\ globalLevel = lastSet
    /\ LastSetWins

\* The kinds of what a thread is in the middle of.
LEMMA PendingKinds ==
    /\ Idle.op = "idle"
    /\ \A d : RecordOf(d).op = "record" /\ RecordOf(d).day = d
    /\ \A l : SettingTo(l).op = "set" /\ SettingTo(l).level = l
BY DEF Idle, RecordOf, SettingTo

\* The levels that have a name.
LEMMA NamedLevels ==
    /\ ParseLogLevel.info \in Levels
    /\ \A name \in Names : Known(name) => ParseLogLevel[name] \in Levels
BY DEF Levels, Range, Known, ParseLogLevel

\* The smaller of two numbers.
LEMMA SmallerOfTwo ==
    ASSUME NEW a \in Nat, NEW b \in Nat
    PROVE  Min({a, b}) \in {a, b} /\ Min({a, b}) <= a /\ Min({a, b}) <= b
BY DEF Min

\* A file is a sequence that fits, the empty one among them.
LEMMA FileFits ==
    /\ << >> \in File /\ <<<< >>>> \in Seq(File)
    /\ \A f \in File : f \in Seq(Nat) /\ Len(f) \in Nat /\ Len(f) <= MaxSize
<1>1. << >> \in Seq(Nat) /\ Len(<< >>) = 0 /\ 0 <= MaxSize
  BY LoggerAssumption
<1>2. << >> \in File
  BY <1>1 DEF File
<1>3. <<<< >>>> \in Seq(File)
  BY <1>2
<1>4. \A f \in File : f \in Seq(Nat) /\ Len(f) \in Nat /\ Len(f) <= MaxSize
  BY DEF File
<1>5. QED
  BY <1>2, <1>3, <1>4

\* The files of a day after a rotation: a new, empty one before the others,
\* which are all there while there are no more than are kept.
LEMMA RotatedFiles ==
    ASSUME NEW day \in Seq(File), Len(day) <= MaxFiles + 1
    PROVE  /\ Rotated(day) \in Seq(File)
           /\ Rotated(day) # << >> /\ Rotated(day)[1] = << >>
           /\ Len(Rotated(day)) <= MaxFiles + 1
           /\ Len(day) <= MaxFiles =>
                /\ Len(Rotated(day)) = Len(day) + 1
                /\ \A i \in 1..Len(day) : Rotated(day)[i + 1] = day[i]
<1> DEFINE none == <<<< >>>>
           moved == none \o day
           n == Min({Len(moved), MaxFiles + 1})
<1>1. MaxFiles \in Nat /\ MaxFiles + 1 \in Nat
  BY LoggerAssumption
<1>2. none \in Seq(File) /\ Len(none) = 1 /\ none[1] = << >>
  BY FileFits
<1>3. /\ moved \in Seq(File) /\ Len(moved) = Len(day) + 1 /\ moved[1] = << >>
      /\ \A i \in 1..Len(day) : moved[i + 1] = day[i]
      /\ Len(moved) \in Nat
  <2> HIDE DEF none
  <2>1. /\ moved \in Seq(File) /\ Len(moved) = Len(none) + Len(day)
        /\ \A i \in 1..Len(none) + Len(day) :
              moved[i] = IF i <= Len(none) THEN none[i] ELSE day[i - Len(none)]
    BY <1>2, ConcatProperties, Zenon
  <2>2. Len(none) = 1 /\ Len(day) \in Nat
    BY <1>2
  <2> HIDE DEF moved
  <2>3. Len(moved) = Len(day) + 1 /\ Len(moved) \in Nat
    BY <2>1, <2>2
  <2>4. moved[1] = << >>
    BY <1>2, <2>1, <2>2
  <2>5. ASSUME NEW i \in 1..Len(day) PROVE moved[i + 1] = day[i]
    <3>1. i + 1 \in 1..Len(none) + Len(day) /\ ~(i + 1 <= Len(none))
          /\ i + 1 - Len(none) = i
      BY <2>2
    <3>2. QED
      BY <2>1, <3>1
  <2>6. QED
    BY <2>1, <2>3, <2>4, <2>5
<1>4. /\ n \in Nat /\ n <= Len(moved) /\ n <= MaxFiles + 1 /\ n >= 1
      /\ Len(day) <= MaxFiles => n = Len(moved)
  <2> HIDE DEF moved
  <2>1. /\ n \in {Len(moved), MaxFiles + 1}
        /\ n <= Len(moved) /\ n <= MaxFiles + 1
    BY <1>1, <1>3, SmallerOfTwo
  <2> HIDE DEF n
  <2>2. QED
    BY <1>1, <1>3, <2>1
<1>5. Rotated(day) = SubSeq(moved, 1, n)
  BY DEF Rotated
<1> HIDE DEF none, moved, n
<1>6. /\ SubSeq(moved, 1, n) \in Seq(File)
      /\ Len(SubSeq(moved, 1, n)) = n
      /\ \A i \in 1..n : SubSeq(moved, 1, n)[i] = moved[i]
  <2>1. \A i \in 1..n : moved[i] \in File
    <3>1. \A i \in 1..Len(moved) : moved[i] \in File
      BY <1>3, ElementOfSeq
    <3>2. 1..n \subseteq 1..Len(moved)
      BY <1>3, <1>4
    <3>3. QED
      BY <3>1, <3>2
  <2>2. n - 1 + 1 = n /\ 1 \in Int /\ n \in Int
    BY <1>4
  <2>3. QED
    BY <1>4, <2>1, <2>2, SubSeqProperties
<1>7. Rotated(day)[1] = << >> /\ Rotated(day) # << >>
  BY <1>3, <1>4, <1>5, <1>6
<1>8. ASSUME Len(day) <= MaxFiles
      PROVE  /\ Len(Rotated(day)) = Len(day) + 1
             /\ \A i \in 1..Len(day) : Rotated(day)[i + 1] = day[i]
  <2>1. n = Len(day) + 1
    BY <1>3, <1>4, <1>8
  <2>2. \A i \in 1..Len(day) : i + 1 \in 1..n
    BY <2>1
  <2>3. QED
    BY <1>3, <1>5, <1>6, <2>1, <2>2
<1>9. QED
  BY <1>4, <1>5, <1>6, <1>7, <1>8

\* Records stay where they are when the other files move on.
LEMMA RecordsMove ==
    ASSUME NEW fs \in Seq(File), NEW new \in Seq(File), NEW w \in Nat,
           InFiles(fs, w), Len(new) = Len(fs) + 1,
           \A i \in 1..Len(fs) : new[i + 1] = fs[i]
    PROVE  InFiles(new, w)
<1> SUFFICES ASSUME NEW r \in 1..w
             PROVE  \E i \in 1..Len(new) : \E k \in 1..Len(new[i]) : new[i][k] = r
  BY DEF InFiles
<1>1. PICK i \in 1..Len(fs) : \E k \in 1..Len(fs[i]) : fs[i][k] = r
  BY DEF InFiles
<1>2. i + 1 \in 1..Len(new) /\ new[i + 1] = fs[i]
  OBVIOUS
<1>3. QED
  BY <1>1, <1>2, Zenon

\* A turn of the sink to a day: its records stay in their files, or there have
\* been too many files.
LEMMA OpenFiles ==
    ASSUME NEW fs, NEW w \in Nat, NEW t \in Nat, DayInv(fs, w, t)
    PROVE  FilesOf(Opened(fs), w, t + 1, w + 1)
<1>1. MaxSize \in Nat /\ MaxFiles \in Nat
  BY LoggerAssumption
<1>2. CASE fs = << >>
  <2>1. Opened(fs) = <<<< >>>> /\ w = 0 /\ t = 0
    BY <1>2, Zenon DEF Opened, DayInv
  <2>2. /\ <<<< >>>> \in Seq(File) /\ <<<< >>>> # << >> /\ Len(<<<< >>>>) = 1
        /\ <<<< >>>>[1] = << >> /\ Len(<< >>) = 0
    BY FileFits
  <2>3. InFiles(<<<< >>>>, 0)
    BY DEF InFiles
  <2>4. 1 <= MaxFiles + 1 /\ MaxSize * (1 - (0 + 1)) + 0 <= 0
    BY <1>1
  <2>5. QED
    BY <2>1, <2>2, <2>3, <2>4 DEF FilesOf
<1>3. CASE fs # << >>
  <2>1. /\ FilesOf(fs, w, t, w) /\ fs[1] # << >>
        /\ fs \in Seq(File) /\ Len(fs) <= MaxFiles + 1
    BY <1>3, Zenon DEF DayInv, FilesOf
  <2>2. Opened(fs) = Rotated(fs)
    <3>1. Head(fs) = fs[1]
      BY <2>1, <1>3, HeadTailProperties
    <3>2. QED
      BY <1>3, <2>1, <3>1, Zenon DEF Opened
  <2> DEFINE new == Rotated(fs)
  <2>3. /\ new \in Seq(File) /\ new # << >> /\ new[1] = << >>
        /\ Len(new) <= MaxFiles + 1
        /\ Len(fs) <= MaxFiles =>
             Len(new) = Len(fs) + 1 /\ \A i \in 1..Len(fs) : new[i + 1] = fs[i]
    BY <2>1, RotatedFiles, Zenon
  <2> HIDE DEF new
  <2>4. Len(fs) \in Nat /\ Len(fs[1]) \in Nat /\ Len(new[1]) = 0
    <3>1. 1 \in 1..Len(fs)
      BY <1>3, <2>1
    <3>2. fs[1] \in File
      BY <2>1, <3>1, ElementOfSeq
    <3>3. QED
      BY <2>1, <2>3, <3>2, FileFits
  <2>5. CASE Overflowed(w, t)
    <3>1. PICK k \in Int : MaxSize * k < w /\ t - 1 + k > MaxFiles
      BY <2>5 DEF Overflowed
    <3>2. MaxSize * k < w + 1 /\ t + 1 - 1 + k > MaxFiles
      BY <1>1, <3>1
    <3>3. Overflowed(w + 1, t + 1)
      BY <3>2 DEF Overflowed
    <3>4. QED
      BY <2>2, <2>3, <3>3 DEF FilesOf, new
  <2>6. CASE InFiles(fs, w) /\ MaxSize * (Len(fs) - t) + Len(fs[1]) <= w
    <3>1. CASE Len(fs) <= MaxFiles
      <4>1. InFiles(new, w)
        BY <2>1, <2>3, <2>6, <3>1, RecordsMove
      <4>2. Len(new) - (t + 1) = Len(fs) - t
        BY <2>3, <2>4, <3>1
      <4>3. MaxSize * (Len(new) - (t + 1)) + Len(new[1]) <= w
        <5>1. MaxSize * (Len(fs) - t) \in Int
          BY <1>1, <2>4
        <5>2. QED
          BY <2>4, <2>6, <4>2, <5>1
      <4>4. QED
        BY <2>2, <2>3, <4>1, <4>3 DEF FilesOf, new
    <3>2. CASE Len(fs) = MaxFiles + 1
      <4>1. MaxSize * (Len(fs) - t) \in Int /\ Len(fs) - t \in Int
        BY <1>1, <2>4
      <4>2. MaxSize * (Len(fs) - t) < w + 1 /\ t + 1 - 1 + (Len(fs) - t) > MaxFiles
        <5> DEFINE filled == MaxSize * (Len(fs) - t)
        <5>1. filled \in Int /\ filled + Len(fs[1]) <= w
          BY <2>6, <4>1
        <5> HIDE DEF filled
        <5>2. filled < w + 1
          BY <2>4, <5>1
        <5>3. t + 1 - 1 + (Len(fs) - t) > MaxFiles
          BY <1>1, <2>4, <3>2
        <5>4. QED
          BY <5>2, <5>3 DEF filled
      <4>3. Overflowed(w + 1, t + 1)
        BY <4>1, <4>2 DEF Overflowed
      <4>4. QED
        BY <2>2, <2>3, <4>3 DEF FilesOf, new
    <3>3. QED
      BY <1>1, <2>1, <2>4, <3>1, <3>2
  <2>7. QED
    BY <2>1, <2>5, <2>6 DEF FilesOf
<1>4. QED
  BY <1>2, <1>3

\* What a record is appended to: the current file, or a new one if that is full.
Room(fs) == IF Len(Head(fs)) + 1 > MaxSize THEN Rotated(fs) ELSE fs

\* There is room for a record, and those before it stay, or there have been too
\* many files.
LEMMA RoomForOne ==
    ASSUME NEW fs, NEW w \in Nat, NEW t \in Nat, FilesOf(fs, w, t, w + 1)
    PROVE  FilesOf(Room(fs), w, t, w + 1) /\ Len(Room(fs)[1]) + 1 <= MaxSize
<1>1. MaxSize \in Nat /\ MaxSize >= 1 /\ MaxFiles \in Nat
  BY LoggerAssumption
<1>2. fs \in Seq(File) /\ fs # << >> /\ Len(fs) <= MaxFiles + 1
  BY DEF FilesOf
<1>3. Head(fs) = fs[1]
  BY <1>2, HeadTailProperties
<1>4. Len(fs) \in Nat /\ Len(fs[1]) \in Nat /\ Len(fs[1]) <= MaxSize
  <2>1. 1 \in 1..Len(fs)
    BY <1>2
  <2>2. fs[1] \in File
    BY <1>2, <2>1, ElementOfSeq
  <2>3. QED
    BY <1>2, <2>2, FileFits
<1>5. CASE Len(fs[1]) + 1 <= MaxSize
  <2>1. Room(fs) = fs
    BY <1>1, <1>3, <1>4, <1>5 DEF Room
  <2>2. QED
    BY <1>5, <2>1
<1>6. CASE Len(fs[1]) = MaxSize
  <2> DEFINE new == Rotated(fs)
  <2>1. Room(fs) = new
    BY <1>1, <1>3, <1>6 DEF Room
  <2>2. /\ new \in Seq(File) /\ new # << >> /\ new[1] = << >>
        /\ Len(new) <= MaxFiles + 1
        /\ Len(fs) <= MaxFiles =>
             Len(new) = Len(fs) + 1 /\ \A i \in 1..Len(fs) : new[i + 1] = fs[i]
    BY <1>2, RotatedFiles, Zenon
  <2> HIDE DEF new
  <2>3. Len(new[1]) = 0 /\ Len(new[1]) + 1 <= MaxSize
    BY <1>1, <2>2
  <2>4. CASE Overflowed(w + 1, t)
    BY <2>1, <2>2, <2>3, <2>4 DEF FilesOf
  <2>5. CASE InFiles(fs, w) /\ MaxSize * (Len(fs) - t) + Len(fs[1]) <= w
    <3> DEFINE a == Len(fs) - t
    <3>1. a \in Int /\ MaxSize * a \in Int /\ MaxSize * (a + 1) = MaxSize * a + MaxSize
      BY <1>1, <1>4
    <3>2. MaxSize * (a + 1) <= w
      <4>1. MaxSize * a + MaxSize <= w
        BY <1>6, <2>5
      <4>2. QED
        BY <3>1, <4>1
    <3>3. CASE Len(fs) <= MaxFiles
      <4>1. InFiles(new, w)
        BY <1>2, <2>2, <2>5, <3>3, RecordsMove
      <4>2. Len(new) - t = a + 1
        BY <1>4, <2>2, <3>3
      <4>3. MaxSize * (Len(new) - t) + Len(new[1]) <= w
        <5> HIDE DEF a
        <5>1. MaxSize * (a + 1) \in Int
          BY <1>1, <3>1
        <5>2. QED
          BY <2>3, <3>2, <4>2, <5>1
      <4>4. QED
        BY <2>1, <2>2, <2>3, <4>1, <4>3 DEF FilesOf
    <3>4. CASE Len(fs) = MaxFiles + 1
      <4>1. t - 1 + (a + 1) > MaxFiles
        BY <1>1, <1>4, <3>4
      <4>2. a + 1 \in Int /\ MaxSize * (a + 1) < w + 1
        <5> HIDE DEF a
        <5>1. MaxSize * (a + 1) \in Int /\ a + 1 \in Int
          BY <1>1, <3>1
        <5>2. QED
          BY <3>2, <5>1
      <4>3. Overflowed(w + 1, t)
        BY <4>1, <4>2 DEF Overflowed
      <4>4. QED
        BY <2>1, <2>2, <2>3, <4>3 DEF FilesOf
    <3>5. QED
      BY <1>1, <1>2, <1>4, <3>3, <3>4
  <2>6. QED
    BY <2>4, <2>5 DEF FilesOf
<1>7. QED
  BY <1>1, <1>4, <1>5, <1>6

\* A record is in the current file from then on, with those before it.
LEMMA LoggedFiles ==
    ASSUME NEW fs, NEW w \in Nat, NEW t \in Nat, FilesOf(fs, w, t, w + 1)
    PROVE  Logged(fs, w + 1) # << >> /\ DayInv(Logged(fs, w + 1), w + 1, t)
<1> DEFINE room == Room(fs)
           r == w + 1
           new == [room EXCEPT ![1] = Append(@, r)]
<1>1. /\ Logged(fs, r) = new
      /\ FilesOf(room, w, t, r) /\ Len(room[1]) + 1 <= MaxSize
  BY RoomForOne DEF Logged, Room
<1>2. r \in Nat /\ r = w + 1 /\ MaxSize \in Nat
  BY LoggerAssumption
<1> HIDE DEF room, r
<1>3. room \in Seq(File) /\ room # << >> /\ Len(room) <= MaxFiles + 1
  BY <1>1 DEF FilesOf
<1>4. 1 \in 1..Len(room) /\ Len(room) \in Nat
  BY <1>3
<1>5. room[1] \in Seq(Nat)
  BY <1>3, <1>4, ElementOfSeq, FileFits
<1> DEFINE f == room[1]
<1>6. /\ Append(f, r) \in Seq(Nat) /\ Len(Append(f, r)) = Len(f) + 1
      /\ Append(f, r)[Len(f) + 1] = r
      /\ \A k \in 1..Len(f) : Append(f, r)[k] = f[k]
      /\ Len(f) \in Nat
  <2> HIDE DEF f
  <2>1. f \in Seq(Nat)
    BY <1>5 DEF f
  <2>2. QED
    BY <1>2, <2>1, AppendProperties
<1>7. Append(f, r) \in File
  BY <1>1, <1>6 DEF File
<1>8. /\ new \in Seq(File) /\ Len(new) = Len(room) /\ new[1] = Append(f, r)
      /\ \A i \in 2..Len(room) : new[i] = room[i]
  BY <1>3, <1>4, <1>7
<1> HIDE DEF new
<1>9. new # << >> /\ new[1] # << >>
  <2> HIDE DEF f
  <2>1. Len(new[1]) = Len(f) + 1 /\ Len(new) # 0
    BY <1>4, <1>6, <1>8 DEF f
  <2>2. Len(<< >>) = 0 /\ Len(f) + 1 # 0
    BY <1>6
  <2>3. QED
    BY <2>1, <2>2
<1>10. FilesOf(new, r, t, r)
  <2>1. CASE Overflowed(r, t)
    BY <1>3, <1>8, <1>9, <2>1 DEF FilesOf
  <2>2. CASE InFiles(room, w) /\ MaxSize * (Len(room) - t) + Len(f) <= w
    <3>1. MaxSize * (Len(new) - t) + Len(new[1]) <= r
      <4>1. MaxSize * (Len(room) - t) \in Int
        BY <1>2, <1>4
      <4>2. QED
        BY <1>2, <1>6, <1>8, <2>2, <4>1
    <3>2. InFiles(new, r)
      <4> SUFFICES ASSUME NEW x \in 1..r
                   PROVE  \E i \in 1..Len(new) :
                            \E k \in 1..Len(new[i]) : new[i][k] = x
        BY DEF InFiles
      <4>1. CASE x = r
        <5>1. 1 \in 1..Len(new) /\ Len(f) + 1 \in 1..Len(new[1])
          <6> HIDE DEF f
          <6>1. Len(new[1]) = Len(f) + 1
            BY <1>6, <1>8 DEF f
          <6>2. QED
            BY <1>4, <1>6, <1>8, <6>1
        <5>2. QED
          BY <1>6, <1>8, <4>1, <5>1
      <4>2. CASE x # r
        <5>1. x \in 1..w
          BY <1>2, <4>2
        <5>2. PICK i \in 1..Len(room) : \E k \in 1..Len(room[i]) : room[i][k] = x
          BY <2>2, <5>1 DEF InFiles
        <5>3. PICK k \in 1..Len(room[i]) : room[i][k] = x
          BY <5>2
        <5>4. i \in 1..Len(new)
          BY <1>8
        <5>5. k \in 1..Len(new[i]) /\ new[i][k] = x
          <6>1. CASE i = 1
            <7>1. k \in 1..Len(f) /\ f[k] = x
              BY <5>3, <6>1
            <7>2. new[i] = Append(f, r) /\ Len(new[i]) = Len(f) + 1
              BY <1>6, <1>8, <6>1, Zenon
            <7>3. Append(f, r)[k] = f[k]
              BY <1>6, <7>1
            <7>4. k \in 1..Len(f) + 1
              BY <1>6, <7>1
            <7>5. QED
              BY <7>1, <7>2, <7>3, <7>4
          <6>2. CASE i # 1
            <7>1. new[i] = room[i]
              BY <1>4, <1>8, <6>2
            <7>2. QED
              BY <5>3, <7>1
          <6>3. QED
            BY <6>1, <6>2
        <5>6. QED
          BY <5>4, <5>5
      <4>3. QED
        BY <4>1, <4>2
    <3>3. QED
      BY <1>3, <1>8, <1>9, <3>1, <3>2 DEF FilesOf
  <2>3. QED
    BY <1>1, <2>1, <2>2 DEF FilesOf
<1>11. QED
  BY <1>1, <1>9, <1>10 DEF DayInv, r

\* Before the logger is built it has no file open.
LEMMA LogInvInit == LogInit => LogInv
<1> SUFFICES ASSUME LogInit PROVE LogInv
  OBVIOUS
<1>1. 1 \in Days /\ 0 \in 0..MaxDay
  BY LoggerAssumption DEF Days
<1>2. /\ files = [d \in Days |-> << >>] /\ written = [d \in Days |-> 0]
      /\ turns = [d \in Days |-> 0] /\ activeDay = 0
  BY Zenon DEF LogInit
<1>3. /\ files \in [Days -> Seq(File)]
      /\ written \in [Days -> Nat] /\ turns \in [Days -> Nat]
  BY <1>2
<1>4. \A d \in Days : DayInv(files[d], written[d], turns[d])
  BY <1>2 DEF DayInv
<1>5. LogTypeOK
  BY <1>1, <1>3, NamedLevels DEF LogInit, LogTypeOK
<1>6. QED
  BY <1>2, <1>4, <1>5, NamedLevels DEF LogInit, LogInv, LastSetWins

\* A step that leaves the sink alone and the level with it, or sets the level
\* at once for everybody.
LEMMA LevelsMove ==
    ASSUME LogInv, UNCHANGED sinkVars,
           boot' \in {"load", "init", "running"},
           options' \in {"none", "default", "configured"}, fileSink' \in BOOLEAN,
           today' \in Days,
           pending' \in [LogThreads -> {Idle} \cup {RecordOf(d) : d \in Days}
                                           \cup {SettingTo(l) : l \in Levels}],
           \/ /\ UNCHANGED levelVars
              /\ \A t \in LogThreads : pending[t].op = "set" => pending'[t].op = "set"
           \/ \E l \in Levels : level' = l /\ globalLevel' = l /\ lastSet' = l
    PROVE  LogInv'
BY DEF LogInv, LogTypeOK, LastSetWins, sinkVars, levelVars

\* Main starts the logger, or the first that logs does.
LEMMA BootInv == ASSUME LogInv, LoadConfig \/ Raw \/ InitLogger PROVE LogInv'
<1> DEFINE Kinds == {Idle} \cup {RecordOf(d) : d \in Days}
                          \cup {SettingTo(l) : l \in Levels}
<1>1. /\ boot \in {"load", "init", "running"} /\ fileSink \in BOOLEAN
      /\ options \in {"none", "default", "configured"} /\ today \in Days
      /\ pending \in [LogThreads -> Kinds] /\ MainThread \in LogThreads
      /\ RecordOf(today) \in Kinds
  BY LoggerAssumption DEF LogInv, LogTypeOK
<1>2. /\ UNCHANGED <<today, sinkVars>>
      /\ boot' \in {"load", "init", "running"} /\ fileSink' \in BOOLEAN
      /\ options' \in {"none", "default", "configured"}
      /\ pending' = pending \/ pending' = [pending EXCEPT ![MainThread] = RecordOf(today)]
  BY <1>1 DEF LoadConfig, Raw, InitLogger, EnsureInitialized, MainWarns, Becomes,
              levelVars
<1>3. pending' \in [LogThreads -> Kinds]
  BY <1>1, <1>2
<1>4. \/ /\ UNCHANGED levelVars
         /\ pending' = pending \/ pending[MainThread] = Idle
      \/ \E l \in Levels : level' = l /\ globalLevel' = l /\ lastSet' = l
  BY NamedLevels DEF LoadConfig, Raw, InitLogger, EnsureInitialized
<1>5. (pending' = pending \/ pending[MainThread] = Idle) =>
          \A t \in LogThreads : pending[t].op = "set" => pending'[t].op = "set"
  BY <1>1, <1>2, PendingKinds
<1>6. today' \in Days
  BY <1>1, <1>2
<1> HIDE DEF Kinds
<1>7. QED
  BY <1>2, <1>3, <1>4, <1>5, <1>6, LevelsMove DEF Kinds

\* The record of a thread that did nothing else, and midnight.
LEMMA StampInv ==
    ASSUME LogInv, Midnight \/ \E t \in LogThreads : Stamp(t) PROVE LogInv'
<1>1. /\ boot \in {"load", "init", "running"} /\ fileSink \in BOOLEAN
      /\ options \in {"none", "default", "configured"} /\ today \in Days
      /\ pending \in [LogThreads -> {Idle} \cup {RecordOf(d) : d \in Days}
                                           \cup {SettingTo(l) : l \in Levels}]
  BY DEF LogInv, LogTypeOK
<1>2. CASE Midnight
  <2>1. today' \in Days
    BY <1>1, <1>2, LoggerAssumption DEF Midnight, Days
  <2>2. QED
    BY <1>1, <1>2, <2>1, LevelsMove DEF Midnight, bootVars
<1>3. ASSUME NEW t \in LogThreads, Stamp(t) PROVE LogInv'
  <2>1. /\ pending' = [pending EXCEPT ![t] = RecordOf(today)]
        /\ pending[t] = Idle
        /\ UNCHANGED <<bootVars, levelVars, today, sinkVars>>
    BY <1>3 DEF Stamp, Becomes
  <2>2. /\ pending' \in [LogThreads -> {Idle} \cup {RecordOf(d) : d \in Days}
                                           \cup {SettingTo(l) : l \in Levels}]
        /\ \A x \in LogThreads : pending[x].op = "set" => pending'[x].op = "set"
    BY <1>1, <2>1, PendingKinds
  <2>3. QED
    BY <1>1, <2>1, <2>2, LevelsMove DEF bootVars
<1>4. QED
  BY <1>2, <1>3

\* A record reaches the file of its own day.
LEMMA SinkInv == ASSUME LogInv, NEW t \in LogThreads, Sink(t) PROVE LogInv'
<1>1. PICK day \in Days : pending[t] = RecordOf(day)
  <2>1. /\ pending \in [LogThreads -> {Idle} \cup {RecordOf(d) : d \in Days}
                                            \cup {SettingTo(l) : l \in Levels}]
        /\ pending[t].op = "record"
    BY Zenon DEF LogInv, LogTypeOK, Sink
  <2>2. QED
    BY <2>1, PendingKinds
<1>2. /\ pending' = [pending EXCEPT ![t] = Idle]
      /\ UNCHANGED <<bootVars, levelVars, today>>
  BY DEF Sink, Becomes
<1>3. /\ pending' \in [LogThreads -> {Idle} \cup {RecordOf(d) : d \in Days}
                                         \cup {SettingTo(l) : l \in Levels}]
      /\ \A x \in LogThreads : pending[x].op = "set" => pending'[x].op = "set"
  BY <1>1, <1>2, PendingKinds DEF LogInv, LogTypeOK
<1>4. CASE ~fileSink
  <2>1. UNCHANGED sinkVars
    BY <1>4 DEF Sink
  <2>2. QED
    BY <1>2, <1>3, <2>1, LevelsMove DEF LogInv, LogTypeOK, bootVars
<1>5. CASE fileSink
  <2> DEFINE fs == files[day]
             w == written[day]
             t0 == turns[day]
             turn == IF activeDay = day THEN t0 ELSE t0 + 1
             new == Logged(EnsureSinkForDay(day), w + 1)
  <2>1. /\ fs \in Seq(File) /\ w \in Nat /\ t0 \in Nat /\ DayInv(fs, w, t0)
        /\ files \in [Days -> Seq(File)]
        /\ written \in [Days -> Nat] /\ turns \in [Days -> Nat]
    BY DEF LogInv, LogTypeOK
  <2>2. /\ files' = [files EXCEPT ![day] = new] /\ activeDay' = day
        /\ written' = [written EXCEPT ![day] = w + 1]
        /\ turns' = [turns EXCEPT ![day] = turn]
    <3>1. pending[t].day = day
      BY <1>1, PendingKinds
    <3>2. /\ files' = [files EXCEPT ![day] = new] /\ activeDay' = day
          /\ written' = [written EXCEPT ![day] = w + 1]
      BY <1>5, <3>1, Zenon DEF Sink
    <3>3. turns' = [turns EXCEPT ![day] = @ + IF activeDay = day THEN 0 ELSE 1]
      BY <1>5, <3>1, Zenon DEF Sink
    <3>4. turns' = [turns EXCEPT ![day] = turn]
      <4>1. turns[day] + (IF activeDay = day THEN 0 ELSE 1) = turn
        BY <2>1
      <4>2. QED
        BY <2>1, <3>3, <4>1, Zenon
    <3>5. QED
      BY <3>2, <3>4, Zenon
  <2>3. turn \in Nat /\ new # << >> /\ DayInv(new, w + 1, turn)
    <3> HIDE DEF w, t0
    <3>1. CASE activeDay = day
      <4>1. day # 0
        BY LoggerAssumption DEF Days
      <4>2. EnsureSinkForDay(day) = fs /\ turn = t0 /\ fs # << >>
        BY <3>1, <4>1 DEF EnsureSinkForDay, LogInv
      <4>3. FilesOf(fs, w, t0, w)
        BY <2>1, <4>2 DEF DayInv
      <4>4. FilesOf(fs, w, t0, w + 1)
        <5>1. Overflowed(w, t0) => Overflowed(w + 1, t0)
          <6> SUFFICES ASSUME Overflowed(w, t0) PROVE Overflowed(w + 1, t0)
            OBVIOUS
          <6>1. PICK k \in Int : MaxSize * k < w /\ t0 - 1 + k > MaxFiles
            BY DEF Overflowed
          <6>2. MaxSize * k \in Int
            BY LoggerAssumption
          <6>3. MaxSize * k < w + 1
            BY <2>1, <6>1, <6>2
          <6>4. QED
            BY <6>1, <6>3 DEF Overflowed
        <5>2. QED
          BY <4>3, <5>1, Zenon DEF FilesOf
      <4>5. QED
        BY <2>1, <4>2, <4>4, LoggedFiles
    <3>2. CASE activeDay # day
      <4>1. EnsureSinkForDay(day) = Opened(fs) /\ turn = t0 + 1 /\ turn \in Nat
        BY <2>1, <3>2 DEF EnsureSinkForDay
      <4>2. FilesOf(Opened(fs), w, t0 + 1, w + 1)
        BY <2>1, OpenFiles
      <4>3. QED
        BY <2>1, <4>1, <4>2, LoggedFiles
    <3>3. QED
      BY <3>1, <3>2
  <2>4. new \in Seq(File)
    BY <2>3, Zenon DEF DayInv, FilesOf
  <2>5. w + 1 \in Nat
    BY <2>1
  <2> HIDE DEF new, fs, w, t0, turn
  <2>6. /\ files' \in [Days -> Seq(File)] /\ files'[day] = new
        /\ written' \in [Days -> Nat] /\ written'[day] = w + 1
        /\ turns' \in [Days -> Nat] /\ turns'[day] = turn
        /\ \A d \in Days \ {day} : /\ files'[d] = files[d]
                                   /\ written'[d] = written[d]
                                   /\ turns'[d] = turns[d]
    BY <2>1, <2>2, <2>3, <2>4, <2>5
  <2>7. ASSUME NEW d \in Days
        PROVE  DayInv(files'[d], written'[d], turns'[d])
    <3>1. CASE d = day
      BY <2>3, <2>6, <3>1
    <3>2. CASE d # day
      <4>1. DayInv(files[d], written[d], turns[d])
        BY DEF LogInv
      <4>2. QED
        BY <2>6, <3>2, <4>1
    <3>3. QED
      BY <3>1, <3>2
  <2>8. files'[activeDay'] # << >> /\ activeDay' \in 0..MaxDay
    BY <2>2, <2>3, <2>6, LoggerAssumption DEF Days
  <2>9. LogTypeOK'
    BY <1>2, <1>3, <2>6, <2>8 DEF LogInv, LogTypeOK, bootVars, levelVars
  <2>10. globalLevel' = lastSet' /\ LastSetWins'
    BY <1>2, <1>3 DEF LogInv, LastSetWins, levelVars
  <2>11. QED
    BY <2>7, <2>8, <2>9, <2>10 DEF LogInv
<1>6. QED
  BY <1>4, <1>5

\* The two halves of SetLogLevel.
LEMMA SetLevelInv ==
    ASSUME LogInv, NEW t \in LogThreads, SetLevel(t) \/ SetGlobalLevel(t)
    PROVE  LogInv'
<1>1. /\ UNCHANGED <<bootVars, today, sinkVars>>
      /\ pending \in [LogThreads -> {Idle} \cup {RecordOf(d) : d \in Days}
                                         \cup {SettingTo(l) : l \in Levels}]
  BY DEF LogInv, LogTypeOK, SetLevel, SetGlobalLevel
<1>2. CASE SetLevel(t)
  <2>1. PICK l \in Levels : level' = l /\ pending' = [pending EXCEPT ![t] = SettingTo(l)]
    BY <1>2, NamedLevels DEF SetLevel, Becomes
  <2>2. /\ pending' \in [LogThreads -> {Idle} \cup {RecordOf(d) : d \in Days}
                                         \cup {SettingTo(x) : x \in Levels}]
        /\ pending'[t].op = "set"
    BY <1>1, <2>1, PendingKinds
  <2>3. UNCHANGED <<globalLevel, lastSet>>
    BY <1>2 DEF SetLevel
  <2>4. LogTypeOK'
    BY <1>1, <2>1, <2>2, <2>3 DEF LogInv, LogTypeOK, bootVars, sinkVars
  <2>5. QED
    BY <1>1, <2>2, <2>3, <2>4 DEF LogInv, LastSetWins, sinkVars
<1>3. CASE SetGlobalLevel(t)
  <2>1. PICK l \in Levels : pending[t] = SettingTo(l)
    BY <1>1, <1>3, PendingKinds DEF SetGlobalLevel
  <2>2. /\ level' = l /\ globalLevel' = l /\ lastSet' = l
        /\ pending' = [pending EXCEPT ![t] = Idle]
    BY <1>3, <2>1, PendingKinds DEF SetGlobalLevel, Becomes
  <2>3. pending' \in [LogThreads -> {Idle} \cup {RecordOf(d) : d \in Days}
                                         \cup {SettingTo(x) : x \in Levels}]
    BY <1>1, <2>2
  <2>4. QED
    BY <1>1, <2>2, <2>3, LevelsMove DEF LogInv, LogTypeOK, bootVars
<1>4. QED
  BY <1>2, <1>3

\* Every step preserves the logger's invariant.
LEMMA LogInvNext == LogInv /\ [LogNext]_logVars => LogInv'
<1> SUFFICES ASSUME LogInv, [LogNext]_logVars PROVE LogInv'
  OBVIOUS
<1>1. CASE UNCHANGED logVars
  BY <1>1 DEF LogInv, LogTypeOK, LastSetWins, logVars
<1>2. QED
  BY <1>1, BootInv, StampInv, SinkInv, SetLevelInv DEF LogNext

\* For any threads and levels: when nobody is setting the level, the logger and
\* spdlog's default have the level of the call that ended last (SetLogLevel of
\* logger.cpp).
THEOREM LevelsAgree == LogSpec => []LastSetWins
<1>1. LogInv => LastSetWins
  BY DEF LogInv
<1>2. QED
  BY LogInvInit, LogInvNext, <1>1, PTL DEF LogSpec

\* A quotient that is below a number says so of what was divided.
LEMMA QuotientBound ==
    ASSUME NEW n \in Nat \ {0}, NEW k \in Int, NEW v \in Nat, n * k <= v
    PROVE  k <= v \div n
<1> DEFINE q == v \div n
<1>1. q \in Int /\ v < n * q + n
  BY SMT
<1> HIDE DEF q
<1>2. CASE k > q
  <2>1. n * q + n <= n * k
    BY <1>1, <1>2, SMT
  <2>2. n * k \in Int /\ n * q \in Int
    BY <1>1
  <2>3. QED
    BY <1>1, <2>1, <2>2
<1>3. QED
  BY <1>1, <1>2 DEF q

\* For any threads, days, sizes and numbers of files: no file grows beyond
\* max_file_size_bytes_ and no day has more files than max_files_ and the
\* current one, in whichever order the records of two days reach the sink.
THEOREM FilesBounded == LogSpec => [](LogTypeOK /\ \A d \in Days : Len(files[d]) <= MaxFiles + 1)
<1>1. LogInv => LogTypeOK /\ \A d \in Days : Len(files[d]) <= MaxFiles + 1
  <2> SUFFICES ASSUME LogInv, NEW d \in Days
               PROVE  LogTypeOK /\ Len(files[d]) <= MaxFiles + 1
    BY DEF LogInv
  <2>1. DayInv(files[d], written[d], turns[d]) /\ Len(<< >>) = 0
    BY DEF LogInv
  <2>2. QED
    BY <2>1, LoggerAssumption DEF LogInv, DayInv, FilesOf
<1>2. QED
  BY LogInvInit, LogInvNext, <1>1, PTL DEF LogSpec

\* For any threads, days, sizes and numbers of files: every record that reached
\* the sink of a day is in one of its files as long as the files the day's
\* records fill, and those cut short when the sink came back to the day
\* (EnsureSinkForDay of logger.cpp), are no more than are kept.
THEOREM RecordsStay == LogSpec => []RecordsKept
<1>1. LogInv => RecordsKept
  <2> SUFFICES ASSUME LogInv, NEW d \in Days
               PROVE  /\ Len(files[d]) <= MaxFiles + 1
                      /\ /\ written[d] > 0
                         /\ turns[d] - 1 + (written[d] - 1) \div MaxSize <= MaxFiles
                         => \A r \in 1..written[d] :
                              \E i \in DOMAIN files[d] : r \in Range(files[d][i])
    BY Zenon DEF RecordsKept
  <2> DEFINE fs == files[d]
             w == written[d]
             t == turns[d]
  <2>1. /\ DayInv(fs, w, t) /\ fs \in Seq(File) /\ w \in Nat /\ t \in Nat
        /\ MaxSize \in Nat \ {0} /\ MaxFiles \in Nat
    BY LoggerAssumption DEF LogInv, LogTypeOK
  <2> HIDE DEF fs, w, t
  <2>2. Len(fs) <= MaxFiles + 1
    <3>1. Len(<< >>) = 0 /\ 0 <= MaxFiles + 1
      BY <2>1
    <3>2. QED
      BY <2>1, <3>1 DEF DayInv, FilesOf
  <2>3. ASSUME w > 0, t - 1 + (w - 1) \div MaxSize <= MaxFiles, NEW r \in 1..w
        PROVE  \E i \in DOMAIN fs : r \in Range(fs[i])
    <3>1. FilesOf(fs, w, t, w)
      BY <2>1, <2>3 DEF DayInv
    <3>2. ~Overflowed(w, t)
      <4> SUFFICES ASSUME Overflowed(w, t) PROVE FALSE
        OBVIOUS
      <4>1. PICK k \in Int : MaxSize * k < w /\ t - 1 + k > MaxFiles
        BY DEF Overflowed
      <4>2. w - 1 \in Nat /\ MaxSize * k <= w - 1
        <5>1. MaxSize * k \in Int
          BY <2>1
        <5>2. QED
          BY <2>1, <2>3, <4>1, <5>1
      <4>3. k <= (w - 1) \div MaxSize
        BY <2>1, <4>2, QuotientBound
      <4>4. (w - 1) \div MaxSize \in Int
        BY <2>1, <4>2
      <4>5. QED
        BY <2>1, <2>3, <4>1, <4>3, <4>4
    <3>3. PICK i \in 1..Len(fs) : \E k \in 1..Len(fs[i]) : fs[i][k] = r
      BY <3>1, <3>2 DEF FilesOf, InFiles
    <3>4. PICK k \in 1..Len(fs[i]) : fs[i][k] = r
      BY <3>3
    <3>5. i \in DOMAIN fs /\ fs[i] \in Seq(Nat)
      BY <2>1, ElementOfSeq, FileFits
    <3>6. k \in DOMAIN fs[i]
      BY <3>4, <3>5
    <3>7. QED
      BY <3>4, <3>5, <3>6, Zenon DEF Range
  <2>4. QED
    BY <2>2, <2>3 DEF fs, w, t
<1>2. QED
  BY LogInvInit, LogInvNext, <1>1, PTL DEF LogSpec
-----------------------------------------------------------------------------
(* The load generator (LoadBench).                                         *)

\* Integer division by a positive number rounds down.
LEMMA RoundsDown ==
    ASSUME NEW a \in Int, NEW b \in Nat, b > 0
    PROVE  /\ a \div b \in Int
           /\ b * (a \div b) <= a
           /\ a < b * (a \div b) + b
OBVIOUS

\* A ratio of a number, rounded, is at most the number.
LEMMA ShareInRange ==
    ASSUME NEW n \in Nat, NEW r \in Ratios PROVE Share(n, r) \in 0..n
<1> DEFINE num == r[1]
           den == r[2]
           a == 2 * n * num + den
           q == a \div (2 * den)
<1>1. num \in Nat /\ den \in Nat /\ den > 0 /\ num <= den
  BY BenchAssumption
<1>2. Share(n, r) = q
  BY DEF Share
<1> HIDE DEF num, den
<1>3. /\ n * num \in Nat /\ n * den \in Nat /\ n * num <= n * den
  <2>1. n * num \in Nat /\ n * den \in Nat /\ n * (den - num) >= 0
    BY <1>1
  <2>2. n * (den - num) = n * den - n * num
    BY <1>1
  <2>3. QED
    BY <2>1, <2>2
<1>4. /\ a \in Nat /\ a <= 2 * (n * den) + den
  <2>1. a = 2 * (n * num) + den
    BY <1>1
  <2>2. QED
    BY <1>1, <1>3, <2>1
<1>5. /\ q \in Int
      /\ (2 * den) * q <= a
      /\ a < (2 * den) * q + 2 * den
  <2> HIDE DEF a
  <2>1. 2 * den \in Nat /\ 2 * den > 0
    BY <1>1
  <2>2. QED
    BY <1>4, <2>1, RoundsDown
<1> HIDE DEF a, q
<1>6. ASSUME q < 0 PROVE FALSE
  <2>1. den * (-1 - q) \in Nat
    BY <1>1, <1>5, <1>6
  <2>2. (2 * den) * q + 2 * den = 0 - 2 * (den * (-1 - q))
    BY <1>1, <1>5
  <2>3. QED
    BY <1>4, <1>5, <2>1, <2>2
<1>7. ASSUME q > n PROVE FALSE
  <2>1. den * (q - n - 1) >= 0
    BY <1>1, <1>5, <1>7
  <2>2. (2 * den) * q = 2 * (den * (q - n - 1)) + 2 * (n * den) + 2 * den
    BY <1>1, <1>5
  <2>3. QED
    BY <1>1, <1>3, <1>4, <1>5, <2>1, <2>2
<1>8. QED
  BY <1>2, <1>5, <1>6, <1>7

\* What the split gives the pools (RunMixedBench and main).
LEMMA PlanStaffed ==
    ASSUME NEW c \in ParseArgs
    PROVE  LET pl == Plan(c)
           IN  /\ \A p \in Pools : pl[p].requests \in Nat /\ pl[p].workers \in Nat
               /\ pl["http"].requests + pl["ws"].requests = c.requests
               /\ pl["http"].workers + pl["ws"].workers = c.concurrency
               /\ \A p \in Pools : c.concurrency > 1 /\ pl[p].requests > 0
                                      => pl[p].workers > 0
<1>1. /\ c.mode \in Modes /\ c.ratio \in Ratios
      /\ c.requests \in Nat /\ c.requests >= 1
      /\ c.concurrency \in Nat /\ c.concurrency >= 1
  BY BenchAssumption DEF ParseArgs
<1> DEFINE share == Share(c.requests, c.ratio)
           mine == Share(c.concurrency, c.ratio)
<1>2. share \in 0..c.requests /\ mine \in 0..c.concurrency
  BY <1>1, ShareInRange
<1> HIDE DEF share, mine
<1>3. CASE c.mode = "http"
  BY <1>1, <1>3 DEF Plan, Pools
<1>4. CASE c.mode = "ws"
  BY <1>1, <1>4 DEF Plan, Pools
<1>5. CASE c.mode = "mixed"
  <2> DEFINE requests == [http |-> share, ws |-> c.requests - share]
             workers == Concurrency(c, requests)
  <2>1. /\ workers.http \in Nat /\ workers.ws \in Nat
        /\ workers.http + workers.ws = c.concurrency
        /\ c.concurrency > 1 /\ requests.http > 0 => workers.http > 0
        /\ c.concurrency > 1 /\ requests.ws > 0 => workers.ws > 0
    BY <1>1, <1>2 DEF Concurrency, mine
  <2>2. Plan(c) = [p \in Pools |-> [requests |-> requests[p], workers |-> workers[p]]]
    BY <1>5 DEF Plan, share
  <2>3. requests.http \in Nat /\ requests.ws \in Nat
        /\ requests.http + requests.ws = c.requests
    BY <1>1, <1>2
  <2> HIDE DEF requests, workers
  <2>4. QED
    BY <1>1, <2>1, <2>2, <2>3 DEF Pools
<1>6. QED
  BY <1>1, <1>3, <1>4, <1>5 DEF Modes, Pools

\* The workers of a pool that are in a request, and those that died.
InCall(p) == {w \in Workers : at[p][w] = "call"}
Died(p) == {w \in Workers : at[p][w] = "died"}

\* The numbers of a pool that were drawn and are of a request.
Drawn(p) == IF index[p] < plan[p].requests THEN index[p] ELSE plan[p].requests

\* A request has a number of its own, and is drawn, then measured and counted,
\* or lost with its worker; who came to the end saw all of them drawn.
PoolInv(p) ==
    /\ measured[p] \subseteq 0..Drawn(p) - 1
    /\ \A w \in InCall(p) : request[p][w] \in (0..Drawn(p) - 1) \ measured[p]
    /\ \A w, x \in InCall(p) : request[p][w] = request[p][x] => w = x
    /\ success[p] <= Cardinality(measured[p])
    /\ success[p] + errors[p] - lost[p] + Cardinality(InCall(p)) = Drawn(p)
    /\ Cardinality(measured[p]) + Cardinality(InCall(p)) + Cardinality(Died(p))
         >= Drawn(p)
    /\ (\E w \in Workers : at[p][w] \in {"close", "ended"}) =>
           index[p] >= plan[p].requests

Counters ==
    /\ index \in [Pools -> Nat]
    /\ at \in [Pools -> [Workers ->
         {"none", "connect", "loop", "call", "close", "ended", "died"}]]
    /\ request \in [Pools -> [Workers -> Nat]]
    /\ measured \in [Pools -> SUBSET Nat]
    /\ success \in [Pools -> Nat]
    /\ errors \in [Pools -> Nat]
    /\ lost \in [Pools -> Nat]

BenchInv ==
    /\ cfg \in ParseArgs /\ plan = Plan(cfg)
    /\ Counters
    /\ phase \in {"warmup", "run", "reported"}
    /\ phase = "warmup" => \A p \in Pools, w \in Workers : at[p][w] = "none"
    /\ phase = "reported" => \A p \in Pools, w \in Workers :
                                 at[p][w] \in {"none", "ended", "died"}
    /\ \A p \in Pools : PoolInv(p)

\* Sets of workers are finite.
LEMMA WorkersFinite ==
    \A S \in SUBSET Workers : IsFiniteSet(S) /\ Cardinality(S) \in Nat
<1>1. IsFiniteSet(Workers)
  BY FS_Interval, BenchAssumption DEF Workers
<1>2. QED
  BY <1>1, FS_Subset, FS_CardinalityType

\* Sets of request numbers are finite.
LEMMA NumbersFinite ==
    ASSUME NEW n \in Nat, NEW S \in SUBSET (0..n - 1)
    PROVE  IsFiniteSet(S) /\ Cardinality(S) \in Nat
<1>1. IsFiniteSet(0..n - 1)
  BY FS_Interval
<1>2. QED
  BY <1>1, FS_Subset, FS_CardinalityType

\* What the counters of a pool are.
LEMMA CountersTyped ==
    ASSUME BenchInv, NEW p \in Pools
    PROVE  /\ plan[p].requests \in Nat /\ index[p] \in Nat /\ Drawn(p) \in Nat
           /\ success[p] \in Nat /\ errors[p] \in Nat /\ lost[p] \in Nat
           /\ IsFiniteSet(measured[p]) /\ Cardinality(measured[p]) \in Nat
           /\ IsFiniteSet(InCall(p)) /\ Cardinality(InCall(p)) \in Nat
           /\ IsFiniteSet(Died(p)) /\ Cardinality(Died(p)) \in Nat
<1>1. /\ plan[p].requests \in Nat
  BY PlanStaffed DEF BenchInv
<1>2. index[p] \in Nat /\ success[p] \in Nat /\ errors[p] \in Nat /\ lost[p] \in Nat
  BY DEF BenchInv, Counters
<1>3. Drawn(p) \in Nat
  BY <1>1, <1>2 DEF Drawn
<1>4. measured[p] \in SUBSET (0..Drawn(p) - 1)
  BY DEF BenchInv, PoolInv
<1>5. InCall(p) \in SUBSET Workers /\ Died(p) \in SUBSET Workers
  BY DEF InCall, Died
<1>6. QED
  BY <1>1, <1>2, <1>3, <1>4, <1>5, NumbersFinite, WorkersFinite

\* Nothing is drawn, in a request, or lost yet.
LEMMA BenchInvInit == BenchInit => BenchInv
<1> SUFFICES ASSUME BenchInit PROVE BenchInv
  OBVIOUS
<1>1. cfg \in ParseArgs /\ plan = Plan(cfg) /\ phase = "warmup"
  BY DEF BenchInit
<1>2. Counters
  BY DEF BenchInit, Counters
<1>3. ASSUME NEW p \in Pools PROVE PoolInv(p)
  <2>1. /\ InCall(p) = {} /\ Died(p) = {} /\ measured[p] = {}
        /\ index[p] = 0 /\ success[p] = 0 /\ errors[p] = 0 /\ lost[p] = 0
        /\ \A w \in Workers : at[p][w] = "none"
    BY DEF BenchInit, InCall, Died
  <2>2. plan[p].requests \in Nat
    BY <1>1, PlanStaffed
  <2>3. Drawn(p) = 0 /\ Cardinality({}) = 0
    BY <2>1, <2>2, FS_EmptySet DEF Drawn
  <2>4. QED
    BY <2>1, <2>3 DEF PoolInv
<1>4. QED
  BY <1>1, <1>2, <1>3 DEF BenchInit, BenchInv

\* Nothing of the other pool changes.
LEMMA OtherPool ==
    ASSUME BenchInv, NEW p \in Pools, plan' = plan, index'[p] = index[p],
           at'[p] = at[p], request'[p] = request[p], measured'[p] = measured[p],
           success'[p] = success[p], errors'[p] = errors[p], lost'[p] = lost[p]
    PROVE  PoolInv(p)'
<1>1. InCall(p)' = InCall(p) /\ Died(p)' = Died(p) /\ Drawn(p)' = Drawn(p)
  BY DEF InCall, Died, Drawn
<1>2. PoolInv(p)
  BY DEF BenchInv
<1>3. QED
  BY <1>1, <1>2 DEF PoolInv

\* A worker goes on: the sets of its pool follow.
LEMMA WorkerMoves ==
    ASSUME BenchInv, NEW p \in Pools, NEW w \in Workers,
           NEW to \in {"none", "connect", "loop", "call", "close", "ended", "died"},
           Goto(p, w, to)
    PROVE  /\ at' \in [Pools -> [Workers ->
                {"none", "connect", "loop", "call", "close", "ended", "died"}]]
           /\ at'[p][w] = to
           /\ \A x \in Workers \ {w} : at'[p][x] = at[p][x]
           /\ \A q \in Pools \ {p} : at'[q] = at[q]
           /\ InCall(p)' = IF to = "call" THEN InCall(p) \cup {w}
                           ELSE InCall(p) \ {w}
           /\ Died(p)' = IF to = "died" THEN Died(p) \cup {w} ELSE Died(p) \ {w}
<1>1. /\ at' \in [Pools -> [Workers ->
           {"none", "connect", "loop", "call", "close", "ended", "died"}]]
      /\ at'[p][w] = to
      /\ \A x \in Workers \ {w} : at'[p][x] = at[p][x]
      /\ \A q \in Pools \ {p} : at'[q] = at[q]
  BY DEF BenchInv, Counters, Goto
<1>2. QED
  BY <1>1 DEF InCall, Died

\* The other pool, the plan and the phase stay as they are while a worker works.
LEMMA PoolSuffices ==
    ASSUME BenchInv, NEW p \in Pools, NEW w \in Workers,
           at[p][w] \in {"connect", "loop", "call", "close"},
           UnchangedPlan, Counters', PoolInv(p)',
           \A q \in Pools \ {p} :
               /\ index'[q] = index[q] /\ at'[q] = at[q] /\ request'[q] = request[q]
               /\ measured'[q] = measured[q] /\ success'[q] = success[q]
               /\ errors'[q] = errors[q] /\ lost'[q] = lost[q]
    PROVE  BenchInv'
<1>1. cfg' = cfg /\ plan' = plan /\ phase' = phase /\ phase = "run"
  BY DEF BenchInv, UnchangedPlan
<1>2. \A q \in Pools : PoolInv(q)'
  BY <1>1, OtherPool
<1>3. QED
  BY <1>1, <1>2 DEF BenchInv

\* A counter of one pool.
LEMMA CountOne ==
    ASSUME NEW c \in [Pools -> Nat], NEW d, NEW p \in Pools,
           d = [c EXCEPT ![p] = @ + 1]
    PROVE  /\ d \in [Pools -> Nat] /\ d[p] = c[p] + 1
           /\ \A q \in Pools \ {p} : d[q] = c[q]
OBVIOUS

\* A number is drawn: it is of a request, or there is none left.
LEMMA DrawInv ==
    ASSUME BenchInv, NEW p \in Pools, NEW w \in Workers, Draw(p, w) PROVE BenchInv'
<1> DEFINE n == plan[p].requests
           to == IF index[p] < n THEN "call" ELSE IF p = "ws" THEN "close" ELSE "ended"
<1>1. /\ at[p][w] = "loop"
      /\ index' = [index EXCEPT ![p] = @ + 1]
      /\ request' = [request EXCEPT ![p][w] = index[p]]
      /\ Goto(p, w, to)
      /\ UnchangedPlan /\ UNCHANGED <<measured, success, errors, lost>>
  BY DEF Draw, Count
<1>2. /\ plan' = plan /\ n \in Nat /\ index[p] \in Nat
      /\ index'[p] = index[p] + 1 /\ index' \in [Pools -> Nat]
      /\ request' \in [Pools -> [Workers -> Nat]]
      /\ request'[p][w] = index[p]
      /\ \A x \in Workers \ {w} : request'[p][x] = request[p][x]
      /\ \A q \in Pools \ {p} : index'[q] = index[q] /\ request'[q] = request[q]
  BY <1>1, CountersTyped DEF BenchInv, Counters, UnchangedPlan
<1>3. to \in {"none", "connect", "loop", "call", "close", "ended", "died"}
  OBVIOUS
<1>4. /\ at' \in [Pools -> [Workers ->
           {"none", "connect", "loop", "call", "close", "ended", "died"}]]
      /\ at'[p][w] = to
      /\ \A x \in Workers \ {w} : at'[p][x] = at[p][x]
      /\ \A q \in Pools \ {p} : at'[q] = at[q]
      /\ InCall(p)' = IF to = "call" THEN InCall(p) \cup {w} ELSE InCall(p) \ {w}
      /\ Died(p)' = IF to = "died" THEN Died(p) \cup {w} ELSE Died(p) \ {w}
  BY <1>1, <1>3, WorkerMoves
<1>5. w \notin InCall(p) /\ w \notin Died(p) /\ Died(p)' = Died(p)
  BY <1>1, <1>4 DEF InCall, Died
<1>6. Counters'
  BY <1>1, <1>2, <1>4 DEF BenchInv, Counters
<1>7. PoolInv(p)
  BY DEF BenchInv
<1>8. CASE index[p] < n
  <2>1. InCall(p)' = InCall(p) \cup {w} /\ at'[p][w] = "call"
    BY <1>4, <1>8
  <2>2. Drawn(p) = index[p] /\ Drawn(p)' = index[p] + 1
    <3>1. plan[p].requests = n /\ plan'[p].requests = n
      BY <1>2
    <3> HIDE DEF n
    <3>2. index[p] + 1 < n \/ index[p] + 1 = n
      BY <1>2, <1>8
    <3>3. QED
      BY <1>2, <1>8, <3>1, <3>2 DEF Drawn
  <2>3. Cardinality(InCall(p)') = Cardinality(InCall(p)) + 1
    BY <1>5, <2>1, CountersTyped, FS_AddElement
  <2>4. \A x \in InCall(p) : /\ x # w /\ x \in Workers
                             /\ request'[p][x] = request[p][x]
                             /\ request[p][x] \in (0..index[p] - 1) \ measured[p]
    BY <1>2, <1>5, <1>7, <2>2 DEF PoolInv, InCall
  <2>5. measured[p] \subseteq 0..index[p] - 1
    BY <1>7, <2>2 DEF PoolInv
  <2>6. /\ measured'[p] \subseteq 0..Drawn(p)' - 1
        /\ \A x \in InCall(p)' : request'[p][x] \in (0..Drawn(p)' - 1) \ measured'[p]
        /\ \A x, y \in InCall(p)' : request'[p][x] = request'[p][y] => x = y
    BY <1>1, <1>2, <1>7, <2>1, <2>2, <2>4, <2>5 DEF PoolInv
  <2>7. /\ success'[p] <= Cardinality(measured'[p])
        /\ success'[p] + errors'[p] - lost'[p] + Cardinality(InCall(p)') = Drawn(p)'
        /\ Cardinality(measured'[p]) + Cardinality(InCall(p)') + Cardinality(Died(p)')
             >= Drawn(p)'
    BY <1>1, <1>5, <1>7, <2>2, <2>3, CountersTyped DEF PoolInv
  <2>8. (\E x \in Workers : at'[p][x] \in {"close", "ended"}) => index'[p] >= n
    BY <1>2, <1>4, <1>7, <1>8, <2>1 DEF PoolInv
  <2>9. PoolInv(p)'
    BY <1>2, <2>6, <2>7, <2>8 DEF PoolInv
  <2> HIDE DEF n, to
  <2>10. QED
    BY <1>1, <1>2, <1>4, <1>6, <2>9, PoolSuffices
<1>9. CASE ~(index[p] < n)
  <2>1. InCall(p)' = InCall(p)
    BY <1>4, <1>5, <1>9
  <2>2. Drawn(p) = n /\ Drawn(p)' = n
    BY <1>2, <1>9 DEF Drawn
  <2>3. \A x \in InCall(p) : request'[p][x] = request[p][x]
    BY <1>2, <1>5 DEF InCall
  <2>4. index'[p] >= n
    BY <1>2, <1>9
  <2>5. PoolInv(p)'
    BY <1>1, <1>2, <1>5, <1>7, <2>1, <2>2, <2>3, <2>4 DEF PoolInv
  <2> HIDE DEF n, to
  <2>6. QED
    BY <1>1, <1>2, <1>4, <1>6, <2>5, PoolSuffices
<1>10. QED
  BY <1>8, <1>9

\* A request that ends: measured and counted, or counted and lost with its worker.
LEMMA EndOfCallInv ==
    ASSUME BenchInv, NEW p \in Pools, NEW w \in Workers,
           Answered(p, w) \/ (p = "ws" /\ Thrown(w))
    PROVE  BenchInv'
<1> DEFINE m == request[p][w]
<1>1. PICK to \in {"loop", "died"} :
          /\ at[p][w] = "call" /\ Goto(p, w, to)
          /\ UnchangedPlan /\ UNCHANGED <<index, request, lost>>
          /\ \/ success' = [success EXCEPT ![p] = @ + 1] /\ UNCHANGED errors
                  /\ to = "loop"
             \/ errors' = [errors EXCEPT ![p] = @ + 1] /\ UNCHANGED success
          /\ \/ to = "loop" /\ measured' = [measured EXCEPT ![p] = @ \cup {m}]
             \/ to = "died" /\ measured' = measured
  BY DEF Answered, Thrown, Count
<1>2. /\ at' \in [Pools -> [Workers ->
           {"none", "connect", "loop", "call", "close", "ended", "died"}]]
      /\ at'[p][w] = to
      /\ \A x \in Workers \ {w} : at'[p][x] = at[p][x]
      /\ \A q \in Pools \ {p} : at'[q] = at[q]
      /\ InCall(p)' = InCall(p) \ {w}
      /\ Died(p)' = IF to = "died" THEN Died(p) \cup {w} ELSE Died(p) \ {w}
  BY <1>1, WorkerMoves
<1>3. /\ success' \in [Pools -> Nat] /\ errors' \in [Pools -> Nat]
      /\ success'[p] + errors'[p] = success[p] + errors[p] + 1
      /\ success'[p] \in Nat /\ errors'[p] \in Nat
      /\ success'[p] <= IF to = "loop" THEN success[p] + 1 ELSE success[p]
      /\ \A q \in Pools \ {p} : success'[q] = success[q] /\ errors'[q] = errors[q]
  <2>1. /\ success \in [Pools -> Nat] /\ errors \in [Pools -> Nat]
        /\ success[p] \in Nat /\ errors[p] \in Nat
    BY DEF BenchInv, Counters
  <2>2. CASE /\ success' = [success EXCEPT ![p] = @ + 1] /\ UNCHANGED errors
             /\ to = "loop"
    <3>1. /\ success' \in [Pools -> Nat] /\ success'[p] = success[p] + 1
          /\ \A q \in Pools \ {p} : success'[q] = success[q]
      BY <2>1, <2>2, CountOne
    <3>2. QED
      BY <2>1, <2>2, <3>1
  <2>3. CASE errors' = [errors EXCEPT ![p] = @ + 1] /\ UNCHANGED success
    <3>1. /\ errors' \in [Pools -> Nat] /\ errors'[p] = errors[p] + 1
          /\ \A q \in Pools \ {p} : errors'[q] = errors[q]
      BY <2>1, <2>3, CountOne
    <3>2. QED
      BY <2>1, <2>3, <3>1
  <2>4. QED
    BY <1>1, <2>2, <2>3
<1>4. PoolInv(p) /\ w \in InCall(p) /\ w \notin Died(p)
  BY <1>1 DEF BenchInv, InCall, Died
<1>5. m \in (0..Drawn(p) - 1) \ measured[p] /\ m \in Nat
  BY <1>4, CountersTyped DEF PoolInv
<1>6. /\ measured' \in [Pools -> SUBSET Nat]
      /\ measured'[p] = IF to = "loop" THEN measured[p] \cup {m} ELSE measured[p]
      /\ \A q \in Pools \ {p} : measured'[q] = measured[q]
  <2>1. measured \in [Pools -> SUBSET Nat] /\ measured[p] \cup {m} \in SUBSET Nat
    BY <1>5 DEF BenchInv, Counters
  <2>2. "loop" # "died"
    OBVIOUS
  <2> HIDE DEF m
  <2>3. QED
    BY <1>1, <2>1, <2>2
<1>7. Counters'
  BY <1>1, <1>2, <1>3, <1>6 DEF BenchInv, Counters
<1>8. Drawn(p)' = Drawn(p) /\ plan' = plan
  BY <1>1 DEF Drawn, UnchangedPlan
<1>9. Cardinality(InCall(p)') = Cardinality(InCall(p)) - 1
  BY <1>2, <1>4, CountersTyped, FS_RemoveElement
<1> HIDE DEF m
<1>10. \/ /\ to = "loop"
          /\ Cardinality(measured'[p]) = Cardinality(measured[p]) + 1
          /\ Died(p)' = Died(p)
       \/ /\ to = "died"
          /\ measured'[p] = measured[p]
          /\ Cardinality(Died(p)') = Cardinality(Died(p)) + 1
  <2>1. Cardinality(measured[p] \cup {m}) = Cardinality(measured[p]) + 1
    BY <1>5, CountersTyped, FS_AddElement
  <2>2. Cardinality(Died(p) \cup {w}) = Cardinality(Died(p)) + 1
    BY <1>4, CountersTyped, FS_AddElement
  <2>3. CASE to = "loop"
    BY <1>2, <1>4, <1>6, <2>1, <2>3
  <2>4. CASE to = "died"
    BY <1>2, <1>6, <2>2, <2>4
  <2>5. QED
    BY <2>3, <2>4
<1>11. /\ measured'[p] \subseteq 0..Drawn(p)' - 1
       /\ \A x \in InCall(p)' : request'[p][x] \in (0..Drawn(p)' - 1) \ measured'[p]
       /\ \A x, y \in InCall(p)' : request'[p][x] = request'[p][y] => x = y
  BY <1>1, <1>2, <1>4, <1>5, <1>6, <1>8 DEF PoolInv, m
<1>12. /\ success'[p] <= Cardinality(measured'[p])
       /\ success'[p] + errors'[p] - lost'[p] + Cardinality(InCall(p)') = Drawn(p)'
       /\ Cardinality(measured'[p]) + Cardinality(InCall(p)') + Cardinality(Died(p)')
            >= Drawn(p)'
  BY <1>1, <1>3, <1>4, <1>8, <1>9, <1>10, CountersTyped DEF PoolInv
<1>13. (\E x \in Workers : at'[p][x] \in {"close", "ended"}) =>
           index'[p] >= plan'[p].requests
  BY <1>1, <1>2, <1>4, <1>8 DEF PoolInv
<1>14. PoolInv(p)'
  BY <1>11, <1>12, <1>13 DEF PoolInv
<1>15. QED
  BY <1>1, <1>2, <1>3, <1>6, <1>7, <1>14, PoolSuffices

\* A connection that comes or goes, counted as lost when it fails.
LEMMA ConnectionInv ==
    ASSUME BenchInv, NEW w \in Workers, Connect(w) \/ Close(w) PROVE BenchInv'
<1> DEFINE p == "ws"
<1>1. p \in Pools
  BY DEF Pools
<1>2. PICK to \in {"loop", "died", "ended"} :
          /\ at[p][w] \in {"connect", "close"}
          /\ to = "ended" <=> at[p][w] = "close"
          /\ Goto(p, w, to)
          /\ UnchangedPlan /\ UNCHANGED <<index, request, measured, success>>
          /\ \/ UNCHANGED <<errors, lost>>
             \/ /\ errors' = [errors EXCEPT ![p] = @ + 1]
                /\ lost' = [lost EXCEPT ![p] = @ + 1]
  BY DEF Connect, Close, Count
<1>3. /\ at' \in [Pools -> [Workers ->
           {"none", "connect", "loop", "call", "close", "ended", "died"}]]
      /\ at'[p][w] = to
      /\ \A x \in Workers \ {w} : at'[p][x] = at[p][x]
      /\ \A q \in Pools \ {p} : at'[q] = at[q]
      /\ InCall(p)' = InCall(p) \ {w}
      /\ Died(p)' = IF to = "died" THEN Died(p) \cup {w} ELSE Died(p) \ {w}
  BY <1>1, <1>2, WorkerMoves
<1>4. PoolInv(p) /\ w \notin InCall(p) /\ w \notin Died(p)
  BY <1>1, <1>2 DEF BenchInv, InCall, Died
<1>5. /\ errors' \in [Pools -> Nat] /\ lost' \in [Pools -> Nat]
      /\ errors'[p] - lost'[p] = errors[p] - lost[p]
      /\ errors'[p] \in Nat /\ lost'[p] \in Nat
      /\ \A q \in Pools \ {p} : errors'[q] = errors[q] /\ lost'[q] = lost[q]
  <2>1. /\ errors \in [Pools -> Nat] /\ lost \in [Pools -> Nat]
        /\ errors[p] \in Nat /\ lost[p] \in Nat
    BY <1>1 DEF BenchInv, Counters
  <2>2. CASE UNCHANGED <<errors, lost>>
    BY <2>1, <2>2
  <2>3. CASE /\ errors' = [errors EXCEPT ![p] = @ + 1]
             /\ lost' = [lost EXCEPT ![p] = @ + 1]
    <3> HIDE DEF p
    <3>1. /\ errors' \in [Pools -> Nat] /\ errors'[p] = errors[p] + 1
          /\ \A q \in Pools \ {p} : errors'[q] = errors[q]
      BY <1>1, <2>1, <2>3, CountOne
    <3>2. /\ lost' \in [Pools -> Nat] /\ lost'[p] = lost[p] + 1
          /\ \A q \in Pools \ {p} : lost'[q] = lost[q]
      BY <1>1, <2>1, <2>3, CountOne
    <3>3. QED
      BY <2>1, <3>1, <3>2
  <2>4. QED
    BY <1>2, <2>2, <2>3
<1>6. Counters'
  BY <1>2, <1>3, <1>5 DEF BenchInv, Counters
<1>7. /\ InCall(p)' = InCall(p) /\ Drawn(p)' = Drawn(p) /\ plan' = plan
      /\ UNCHANGED <<index, request, measured, success>>
  BY <1>2, <1>3, <1>4 DEF Drawn, UnchangedPlan
<1>8. /\ Cardinality(Died(p)') \in Nat
      /\ Cardinality(Died(p)') >= Cardinality(Died(p))
  <2>1. Cardinality(Died(p) \cup {w}) = Cardinality(Died(p)) + 1
    BY <1>1, <1>4, CountersTyped, FS_AddElement
  <2>2. Died(p)' = Died(p) \/ Died(p)' = Died(p) \cup {w}
    BY <1>3, <1>4
  <2>3. Cardinality(Died(p)) \in Nat
    BY <1>1, CountersTyped
  <2> HIDE DEF p
  <2>4. CASE Died(p)' = Died(p)
    BY <2>3, <2>4
  <2>5. CASE Died(p)' = Died(p) \cup {w}
    BY <2>1, <2>3, <2>5
  <2>6. QED
    BY <2>2, <2>4, <2>5
<1>9. /\ success'[p] + errors'[p] - lost'[p] + Cardinality(InCall(p)') = Drawn(p)'
      /\ Cardinality(measured'[p]) + Cardinality(InCall(p)') + Cardinality(Died(p)')
           >= Drawn(p)'
  BY <1>1, <1>4, <1>5, <1>7, <1>8, CountersTyped DEF PoolInv
<1>10. (\E x \in Workers : at'[p][x] \in {"close", "ended"}) =>
           index'[p] >= plan'[p].requests
  BY <1>2, <1>3, <1>4, <1>7 DEF PoolInv
<1>11. PoolInv(p)'
  BY <1>4, <1>7, <1>9, <1>10 DEF PoolInv
<1> HIDE DEF p
<1>12. QED
  BY <1>1, <1>2, <1>3, <1>5, <1>6, <1>7, <1>11, PoolSuffices

\* The workers start and are joined.
LEMMA MainInv == ASSUME BenchInv, WarmUp \/ Join PROVE BenchInv'
<1>1. /\ UNCHANGED <<cfg, plan, index, request, measured, success, errors, lost>>
      /\ phase' \in {"run", "reported"}
  BY DEF WarmUp, Join
<1>2. CASE WarmUp
  <2>1. /\ at' \in [Pools -> [Workers -> {"none", "connect", "loop"}]]
        /\ phase = "warmup" /\ phase' = "run"
    BY <1>2 DEF WarmUp
  <2>2. \A p \in Pools, w \in Workers : at[p][w] = "none"
    BY <2>1 DEF BenchInv
  <2>3. Counters'
    BY <1>1, <2>1 DEF BenchInv, Counters
  <2>4. ASSUME NEW p \in Pools PROVE PoolInv(p)'
    <3>1. /\ InCall(p) = {} /\ InCall(p)' = {} /\ Died(p) = {} /\ Died(p)' = {}
          /\ Drawn(p)' = Drawn(p)
      BY <1>1, <2>1, <2>2 DEF InCall, Died, Drawn
    <3>2. \A w \in Workers : at'[p][w] \notin {"close", "ended"}
      BY <2>1
    <3>3. PoolInv(p)
      BY DEF BenchInv
    <3>4. QED
      BY <1>1, <3>1, <3>2, <3>3 DEF PoolInv
  <2>5. QED
    BY <1>1, <2>1, <2>3, <2>4 DEF BenchInv
<1>3. CASE Join
  <2>1. at' = at /\ phase' = "reported"
        /\ \A p \in Pools, w \in Workers : at[p][w] \in {"none", "ended", "died"}
    BY <1>3 DEF Join
  <2>2. \A p \in Pools : PoolInv(p)'
    BY <1>1, <2>1, OtherPool
  <2>3. QED
    BY <1>1, <2>1, <2>2 DEF BenchInv, Counters
<1>4. QED
  BY <1>2, <1>3

\* Every step of main and of the workers preserves it.
LEMMA BenchInvNext == BenchInv /\ [BenchNext]_benchVars => BenchInv'
<1> SUFFICES ASSUME BenchInv, [BenchNext]_benchVars PROVE BenchInv'
  OBVIOUS
<1>1. CASE UNCHANGED benchVars
  <2>1. \A p \in Pools : PoolInv(p)'
    BY <1>1, OtherPool DEF benchVars
  <2>2. QED
    BY <1>1, <2>1 DEF BenchInv, Counters, benchVars
<1>2. "http" \in Pools /\ "ws" \in Pools
  BY DEF Pools
<1>3. ASSUME NEW w \in Workers, HttpWorker(w) \/ WsWorker(w) PROVE BenchInv'
  BY <1>2, <1>3, DrawInv, EndOfCallInv, ConnectionInv DEF HttpWorker, WsWorker
<1>4. QED
  BY <1>1, <1>3, MainInv DEF BenchNext

\* For any arguments and ratios: the split of gateway_http_ws_bench.cpp loses
\* and invents no worker, and staffs every protocol that carries requests.
THEOREM SplitStaffed == BenchSpec => []PoolsStaffed
<1>1. BenchInv => PoolsStaffed
  BY PlanStaffed DEF BenchInv, PoolsStaffed, Runs, Pools
<1>2. QED
  BY BenchInvInit, BenchInvNext, <1>1, PTL DEF BenchSpec

\* For any requests, workers and failures: what the benchmark reports adds up.
THEOREM ReportsAddUp == BenchSpec => []ReportAddsUp
<1>1. BenchInv => ReportAddsUp
  <2> SUFFICES ASSUME BenchInv, NEW p \in Pools
               PROVE  /\ measured[p] \subseteq 0..plan[p].requests - 1
                      /\ success[p] <= Cardinality(measured[p])
                      /\ success[p] + errors[p] - lost[p] <= plan[p].requests
                      /\ phase = "reported" /\ (\E w \in Workers : at[p][w] = "ended")
                           => /\ success[p] + errors[p] - lost[p] = plan[p].requests
                              /\ Cardinality(measured[p])
                                   >= plan[p].requests - Cardinality(Died(p))
    BY DEF ReportAddsUp, Died
  <2>1. PoolInv(p)
    BY DEF BenchInv
  <2>2. Drawn(p) <= plan[p].requests
        /\ (index[p] >= plan[p].requests => Drawn(p) = plan[p].requests)
    BY CountersTyped DEF Drawn
  <2>3. measured[p] \subseteq 0..plan[p].requests - 1
    BY <2>1, <2>2, CountersTyped DEF PoolInv
  <2>4. /\ success[p] <= Cardinality(measured[p])
        /\ success[p] + errors[p] - lost[p] <= plan[p].requests
    BY <2>1, <2>2, CountersTyped DEF PoolInv
  <2>5. ASSUME phase = "reported", NEW w \in Workers, at[p][w] = "ended"
        PROVE  /\ success[p] + errors[p] - lost[p] = plan[p].requests
               /\ Cardinality(measured[p]) >= plan[p].requests - Cardinality(Died(p))
    <3>1. InCall(p) = {}
      BY <2>5 DEF BenchInv, InCall
    <3>2. Cardinality(InCall(p)) = 0
      BY <3>1, FS_EmptySet
    <3>3. Drawn(p) = plan[p].requests
      BY <2>1, <2>2, <2>5 DEF PoolInv
    <3>4. QED
      BY <2>1, <3>2, <3>3, CountersTyped DEF PoolInv
  <2>6. QED
    BY <2>3, <2>4, <2>5
<1>2. QED
  BY BenchInvInit, BenchInvNext, <1>1, PTL DEF BenchSpec
-----------------------------------------------------------------------------
(* The encoding of tokens (AuthMiddleware).                                *)

Sextets == 0..63
Octets == 0..255

\* The 24 bits of three bytes.
Triple(a, b, c) == 256 * 256 * a + 256 * b + c

\* The four six-bit characters of 24 bits make the 24 bits again.
LEMMA FourSextets ==
    ASSUME NEW t \in Nat, t < 256 * 256 * 256
    PROVE  /\ (t \div (64 * 64 * 64)) % 64 \in Sextets /\ (t \div (64 * 64)) % 64 \in Sextets
           /\ (t \div 64) % 64 \in Sextets /\ (t \div 1) % 64 \in Sextets
           /\ 64 * 64 * 64 * ((t \div (64 * 64 * 64)) % 64) + 64 * 64 * ((t \div (64 * 64)) % 64)
                + 64 * ((t \div 64) % 64) + ((t \div 1) % 64) = t
<1> DEFINE a == t \div 64
           b == a \div 64
           c == b \div 64
<1>1. /\ a \in Nat /\ t = 64 * a + (t % 64) /\ t % 64 \in Sextets /\ t \div 1 = t
      /\ b \in Nat /\ a = 64 * b + (a % 64) /\ a % 64 \in Sextets
      /\ c \in Nat /\ b = 64 * c + (b % 64) /\ b % 64 \in Sextets
      /\ t \div (64 * 64) = b /\ t \div (64 * 64 * 64) = c
  BY SMT DEF Sextets
<1> HIDE DEF a, b, c
<1>2. c \in Sextets /\ c % 64 = c
  BY <1>1, SMT DEF Sextets
<1>3. 64 * 64 * 64 * c + 64 * 64 * (b % 64) + 64 * (a % 64) + (t % 64) = t
  BY <1>1, <1>2, SMT DEF Sextets
<1>4. QED
  BY <1>1, <1>2, <1>3 DEF a

\* Three bytes are in 24 bits, and come out of them.
LEMMA ThreeOctets ==
    ASSUME NEW a \in Octets, NEW b \in Octets, NEW c \in Octets,
           NEW t, t = Triple(a, b, c)
    PROVE  /\ t \in Nat /\ t < 256 * 256 * 256
           /\ t \div (256 * 256) = a /\ (t \div 256) % 256 = b /\ t % 256 = c
<1>1. t \in Nat /\ t < 256 * 256 * 256
  BY SMT DEF Octets, Triple
<1>2. t \div (256 * 256) = a
  BY SMT DEF Octets, Triple
<1>3. t \div 256 = 256 * a + b /\ t % 256 = c
  BY SMT DEF Octets, Triple
<1>4. (256 * a + b) % 256 = b
  BY SMT DEF Octets, Triple
<1>5. QED
  BY <1>1, <1>2, <1>3, <1>4, Zenon

\* A character of the alphabet stands for itself.
LEMMA InAlphabet ==
    ASSUME NEW v \in Sextets
    PROVE  Value(v) = v /\ PaddedValue(v) = v /\ OrZero(v) = v /\ v # Pad
BY DEF Sextets, Value, PaddedValue, OrZero, Pad

\* Three values put one behind the other.
LEMMA OneByOne ==
    ASSUME NEW a \in Octets, NEW b \in Octets, NEW c \in Octets
    PROVE  (<<a>> \o <<b>>) \o <<c>> = <<a, b, c>>
<1> DEFINE two == <<a>> \o <<b>>
           three == <<a, b, c>>
<1>1. /\ <<a>> \in Seq(Octets) /\ Len(<<a>>) = 1 /\ <<a>>[1] = a
      /\ <<b>> \in Seq(Octets) /\ Len(<<b>>) = 1 /\ <<b>>[1] = b
      /\ <<c>> \in Seq(Octets) /\ Len(<<c>>) = 1 /\ <<c>>[1] = c
      /\ three \in Seq(Octets) /\ Len(three) = 3
      /\ three[1] = a /\ three[2] = b /\ three[3] = c
  OBVIOUS
<1>2. two \in Seq(Octets) /\ Len(two) = 2 /\ two[1] = a /\ two[2] = b
  BY <1>1, ConcatProperties
<1> HIDE DEF two, three
<1>3. /\ two \o <<c>> \in Seq(Octets) /\ Len(two \o <<c>>) = 3
      /\ (two \o <<c>>)[1] = a /\ (two \o <<c>>)[2] = b /\ (two \o <<c>>)[3] = c
  BY <1>1, <1>2, ConcatProperties
<1>4. two \o <<c>> = three
  BY <1>1, <1>3, SeqEqual
<1>5. QED
  BY <1>4 DEF two, three

\* The four characters of 24 bits, behind the ith.
Coded(text, i, t) ==
    /\ text[i + 1] = (t \div (64 * 64 * 64)) % 64
    /\ text[i + 2] = (t \div (64 * 64)) % 64
    /\ text[i + 3] = (t \div 64) % 64
    /\ text[i + 4] = (t \div 1) % 64

\* Four characters of three bytes pass the test and give the three bytes.
LEMMA GroupBack ==
    ASSUME NEW text, NEW i, NEW a \in Octets, NEW b \in Octets, NEW c \in Octets,
           NEW t, t = Triple(a, b, c), Coded(text, i, t)
    PROVE  ~GroupRefused(text, i) /\ GroupBytes(text, i) = <<a, b, c>>
<1> DEFINE v1 == text[i + 1]
           v2 == text[i + 2]
           v3 == text[i + 3]
           v4 == text[i + 4]
<1>1. /\ t \in Nat /\ t < 256 * 256 * 256
      /\ t \div (256 * 256) = a /\ (t \div 256) % 256 = b /\ t % 256 = c
  BY ThreeOctets
<1>2. /\ v1 \in Sextets /\ v2 \in Sextets /\ v3 \in Sextets /\ v4 \in Sextets
      /\ 64 * 64 * 64 * v1 + 64 * 64 * v2 + 64 * v3 + v4 = t
  BY <1>1, FourSextets DEF Coded
<1> HIDE DEF v1, v2, v3, v4
<1>3. /\ Value(v1) = v1 /\ Value(v2) = v2
      /\ PaddedValue(v3) = v3 /\ OrZero(v3) = v3 /\ v3 # Pad
      /\ PaddedValue(v4) = v4 /\ OrZero(v4) = v4 /\ v4 # Pad
  BY <1>2, InAlphabet
<1>4. ~GroupRefused(text, i)
  <2>1. ~(v1 < 0) /\ ~(v2 < 0) /\ ~(v3 < -1) /\ ~(v4 < -1)
    BY <1>2 DEF Sextets
  <2>2. QED
    BY <1>3, <2>1 DEF GroupRefused, v1, v2, v3, v4
<1>5. GroupBytes(text, i) = (<<a>> \o <<b>>) \o <<c>>
  <2> DEFINE first == t \div (256 * 256)
             second == (t \div 256) % 256
             third == t % 256
  <2>1. GroupBytes(text, i) = (<<first>> \o <<second>>) \o <<third>>
    <3>1. 64 * 64 * 64 * Value(v1) + 64 * 64 * Value(v2)
            + 64 * OrZero(PaddedValue(v3)) + OrZero(PaddedValue(v4)) = t
      BY <1>2, <1>3, Zenon
    <3>2. QED
      BY <1>3, <3>1 DEF GroupBytes, v1, v2, v3, v4
  <2>2. first = a /\ second = b /\ third = c
    BY <1>1
  <2> HIDE DEF first, second, third
  <2>3. QED
    BY <2>1, <2>2, Zenon
<1>6. (<<a>> \o <<b>>) \o <<c>> = <<a, b, c>>
  BY OneByOne, Zenon
<1>7. QED
  BY <1>4, <1>5, <1>6, Zenon

\* The characters of the group after 3g bytes that are all there.
LEMMA WholeGroup ==
    ASSUME NEW s \in Seq(Octets), NEW g \in Nat, 3 * g + 3 <= Len(s)
    PROVE  LET a == s[3 * g + 1]
               b == s[3 * g + 2]
               c == s[3 * g + 3]
               t == Triple(a, b, c)
               text == Padded(Base64UrlEncode(s))
           IN  /\ a \in Octets /\ b \in Octets /\ c \in Octets
               /\ Coded(text, 4 * g, t)
<1> DEFINE a == s[3 * g + 1]
           b == s[3 * g + 2]
           c == s[3 * g + 3]
           t == Triple(a, b, c)
           code == Base64UrlEncode(s)
           text == Padded(code)
<1>1. a \in Octets /\ b \in Octets /\ c \in Octets /\ Len(s) \in Nat
  OBVIOUS
<1>2. /\ code = [j \in 1..(4 * Len(s) + 2) \div 3 |->
                   Sextet(s, 3 * ((j - 1) \div 4), (j - 1) % 4)]
      /\ (4 * Len(s) + 2) \div 3 \in Nat
      /\ 4 * g + 4 <= (4 * Len(s) + 2) \div 3
  BY <1>1 DEF Base64UrlEncode
<1>3. Len(code) = (4 * Len(s) + 2) \div 3
  <2> HIDE DEF code
  <2>1. QED
    BY <1>2
<1>4. ASSUME NEW k \in 1..4
      PROVE  text[4 * g + k] = (t \div <<64 * 64 * 64, 64 * 64, 64, 1>>[k]) % 64
  <2> DEFINE j == 4 * g + k
  <2>1. /\ j \in 1..Len(code) /\ j \in 1..4 * ((Len(code) + 3) \div 4)
        /\ j <= Len(code)
    BY <1>2, <1>3
  <2>2. text[j] = code[j]
    <3> HIDE DEF code, j
    <3>1. QED
      BY <2>1, Zenon DEF Padded
  <2>3. (j - 1) \div 4 = g /\ (j - 1) % 4 = k - 1
    OBVIOUS
  <2>4. code[j] = Sextet(s, 3 * g, k - 1)
    <3> HIDE DEF code, j
    <3>1. QED
      BY <1>2, <1>3, <2>1, <2>3
  <2>5. Sextet(s, 3 * g, k - 1) = (t \div <<64 * 64 * 64, 64 * 64, 64, 1>>[k]) % 64
    <3>1. /\ ByteAt(s, 3 * g + 1) = a /\ ByteAt(s, 3 * g + 2) = b
          /\ ByteAt(s, 3 * g + 3) = c
      BY <1>1 DEF ByteAt
    <3>2. k - 1 + 1 = k
      OBVIOUS
    <3>3. QED
      BY <3>1, <3>2 DEF Sextet, Triple
  <2>6. QED
    BY <2>2, <2>4, <2>5
<1>5. /\ <<64 * 64 * 64, 64 * 64, 64, 1>>[1] = 64 * 64 * 64 /\ <<64 * 64 * 64, 64 * 64, 64, 1>>[2] = 64 * 64
      /\ <<64 * 64 * 64, 64 * 64, 64, 1>>[3] = 64 /\ <<64 * 64 * 64, 64 * 64, 64, 1>>[4] = 1
  OBVIOUS
<1> HIDE DEF text, t
<1>6. /\ text[4 * g + 1] = (t \div (64 * 64 * 64)) % 64
      /\ text[4 * g + 2] = (t \div (64 * 64)) % 64
      /\ text[4 * g + 3] = (t \div 64) % 64
      /\ text[4 * g + 4] = (t \div 1) % 64
  <2>1. 1 \in 1..4 /\ 2 \in 1..4 /\ 3 \in 1..4 /\ 4 \in 1..4
    OBVIOUS
  <2>2. QED
    BY <1>4, <1>5, <2>1, Zenon
<1>7. QED
  BY <1>1, <1>6, Zenon DEF text, t, Coded

\* How long an encoding is, and how many groups it is decoded in.
LEMMA EncodedLength ==
    ASSUME NEW s \in Seq(Octets), NEW m \in Nat, NEW k \in 0..2,
           Len(s) = 3 * m + k
    PROVE  LET code == Base64UrlEncode(s)
           IN  /\ Len(code) = IF k = 0 THEN 4 * m ELSE 4 * m + k + 1
               /\ (Len(code) + 3) \div 4 = IF k = 0 THEN m ELSE m + 1
<1> DEFINE n == (4 * Len(s) + 2) \div 3
           code == Base64UrlEncode(s)
<1>1. n \in Nat /\ n = IF k = 0 THEN 4 * m ELSE 4 * m + k + 1
  OBVIOUS
<1>2. code = [j \in 1..n |-> Sextet(s, 3 * ((j - 1) \div 4), (j - 1) % 4)]
  BY DEF Base64UrlEncode
<1>3. Len(code) = n
  <2> HIDE DEF code, n
  <2>1. QED
    BY <1>1, <1>2
<1> HIDE DEF n, code
<1>4. (n + 3) \div 4 = IF k = 0 THEN m ELSE m + 1
  BY <1>1
<1>5. QED
  BY <1>1, <1>3, <1>4 DEF code

\* A group that lacks its third or fourth character is refused.
LEMMA PaddingRefused ==
    ASSUME NEW text, NEW i, text[i + 3] = Pad \/ text[i + 4] = Pad
    PROVE  GroupRefused(text, i)
BY DEF GroupRefused, PaddedValue, Pad

\* Whole groups of three bytes come back from their encoding, and everything
\* else is refused.
LEMMA DecodedBack ==
    ASSUME NEW s \in Seq(Octets)
    PROVE  Base64UrlDecode(Base64UrlEncode(s)) =
             IF Len(s) % 3 = 0 THEN [kind |-> "bytes", bytes |-> s] ELSE Nothing
<1> DEFINE m == Len(s) \div 3
           k == Len(s) % 3
           code == Base64UrlEncode(s)
           n == (Len(code) + 3) \div 4
           text == Padded(code)
           bytesOf(x, j) == GroupBytes(x, 4 * ((j - 1) \div 3))[((j - 1) % 3) + 1]
<1>1. m \in Nat /\ k \in 0..2 /\ Len(s) = 3 * m + k
  OBVIOUS
<1>2. /\ Len(code) = IF k = 0 THEN 4 * m ELSE 4 * m + k + 1
      /\ n = IF k = 0 THEN m ELSE m + 1
  <2> HIDE DEF m, k
  <2>1. QED
    BY <1>1, EncodedLength
<1>3. Base64UrlDecode(code) =
        IF \E g \in 0..n - 1 : GroupRefused(text, 4 * g)
          THEN Nothing
          ELSE [kind |-> "bytes", bytes |-> [j \in 1..3 * n |-> bytesOf(text, j)]]
  BY Zenon DEF Base64UrlDecode
<1>4. CASE k = 0
  <2> HIDE DEF m, k
  <2>1. n = m /\ Len(s) = 3 * m
    BY <1>1, <1>2, <1>4
  <2> HIDE DEF n
  <2>2. ASSUME NEW g \in 0..m - 1
        PROVE  /\ ~GroupRefused(text, 4 * g)
               /\ GroupBytes(text, 4 * g) =
                    <<s[3 * g + 1], s[3 * g + 2], s[3 * g + 3]>>
    <3> DEFINE a == s[3 * g + 1]
               b == s[3 * g + 2]
               c == s[3 * g + 3]
               t == Triple(a, b, c)
    <3>1. g \in Nat /\ 3 * g + 3 <= Len(s)
      BY <1>1, <2>1
    <3>2. /\ a \in Octets /\ b \in Octets /\ c \in Octets
          /\ Coded(text, 4 * g, t)
      BY <3>1, WholeGroup
    <3> HIDE DEF a, b, c, t, text
    <3>3. t = Triple(a, b, c)
      BY DEF t
    <3>4. ~GroupRefused(text, 4 * g) /\ GroupBytes(text, 4 * g) = <<a, b, c>>
      BY <3>2, <3>3, GroupBack
    <3>5. QED
      BY <3>4 DEF a, b, c
  <2> HIDE DEF text, code
  <2>3. ASSUME NEW j \in 1..3 * m PROVE bytesOf(text, j) = s[j]
    <3> DEFINE g == (j - 1) \div 3
               q == (j - 1) % 3
    <3>1. g \in 0..m - 1 /\ q \in 0..2 /\ j = 3 * g + q + 1
      BY <1>1
    <3> HIDE DEF g, q
    <3>2. bytesOf(text, j) = <<s[3 * g + 1], s[3 * g + 2], s[3 * g + 3]>>[q + 1]
      BY <2>2, <3>1, Zenon DEF g, q
    <3> HIDE DEF bytesOf
    <3>3. CASE q = 0
      BY <1>1, <3>1, <3>2, <3>3
    <3>4. CASE q = 1
      BY <1>1, <3>1, <3>2, <3>4
    <3>5. CASE q = 2
      BY <1>1, <3>1, <3>2, <3>5
    <3>6. QED
      BY <3>1, <3>3, <3>4, <3>5
  <2> HIDE DEF bytesOf
  <2>4. [j \in 1..3 * n |-> bytesOf(text, j)] = s
    <3>1. s = [j \in 1..Len(s) |-> s[j]]
      OBVIOUS
    <3>2. [j \in 1..3 * m |-> bytesOf(text, j)] = [j \in 1..3 * m |-> s[j]]
      BY <2>3, Zenon
    <3>3. QED
      BY <2>1, <3>1, <3>2, Zenon
  <2>5. Len(s) % 3 = 0
    BY <1>4 DEF k
  <2>6. \A g \in 0..n - 1 : ~GroupRefused(text, 4 * g)
    BY <2>1, <2>2, Zenon
  <2>7. QED
    BY <1>3, <2>4, <2>5, <2>6, Zenon DEF code
<1>5. CASE k # 0
  <2> HIDE DEF m, k
  <2>1. /\ n = m + 1 /\ Len(code) = 4 * m + k + 1 /\ m \in 0..n - 1
        /\ k = 1 \/ k = 2
    BY <1>1, <1>2, <1>5
  <2>2. text[4 * m + 3] = Pad \/ text[4 * m + 4] = Pad
    <3> DEFINE i == IF k = 1 THEN 4 * m + 3 ELSE 4 * m + 4
    <3>1. i \in 1..4 * n /\ ~(i <= Len(code))
      BY <1>1, <2>1
    <3>2. text[i] = Pad
      <4> HIDE DEF i, code
      <4>1. QED
        BY <3>1, Zenon DEF Padded
    <3>3. QED
      BY <3>2
  <2>3. GroupRefused(text, 4 * m)
    <3> HIDE DEF text
    <3>1. QED
      BY <2>2, PaddingRefused
  <2>4. QED
    BY <1>3, <1>5, <2>1, <2>3, Zenon DEF k, code
<1>6. QED
  BY <1>4, <1>5

\* The two parts of a token, whole groups of bytes or not.
PartOf(piece) ==
    piece.bytes \in Seq(Octets) /\ piece.text = Base64UrlEncode(piece.bytes)
Whole(piece) == Len(piece.bytes) % 3 = 0

\* A part reads as its object if it is whole groups, and as nothing otherwise.
LEMMA PartReads ==
    ASSUME NEW piece, PartOf(piece)
    PROVE  DecodeJwtJsonPart(piece) =
             IF Whole(piece) THEN [kind |-> "object", members |-> piece.members]
                            ELSE Nothing
<1>1. Base64UrlDecode(piece.text) =
        IF Whole(piece) THEN [kind |-> "bytes", bytes |-> piece.bytes] ELSE Nothing
  BY DecodedBack, Zenon DEF PartOf, Whole
<1>2. Nothing # [kind |-> "bytes", bytes |-> piece.bytes]
  <2>1. Nothing.kind # [kind |-> "bytes", bytes |-> piece.bytes].kind
    BY DEF Nothing
  <2>2. QED
    BY <2>1, Zenon
<1>3. QED
  BY <1>1, <1>2, Zenon DEF DecodeJwtJsonPart

\* For any options, clock and claims: a genuine token that names its subject
\* speaks for it if its header and its payload are whole groups of three bytes,
\* and for nobody if one of them is not (Authenticate of auth_middleware.cpp):
\* the padding Base64UrlDecode adds and then refuses is the whole difference.
THEOREM GenuineIfWhole ==
    ASSUME NEW t, Genuine(t), PartOf(t.header), PartOf(t.payload),
           t.payload.members["sub"].text # ""
    PROVE  Authenticate(t) =
             IF Whole(t.header) /\ Whole(t.payload)
               THEN t.payload.members["sub"] ELSE Nothing
<1> DEFINE claims == t.payload.members
           header == DecodeJwtJsonPart(t.header)
           payload == DecodeJwtJsonPart(t.payload)
           says(h, p) == /\ h # Nothing /\ p # Nothing
                         /\ TextOrEmpty(h.members, "alg") = "HS256"
                         /\ t.signature = Secret
                         /\ ~Expired(p.members)
                         /\ Issuer # "" => TextOrEmpty(p.members, "iss") = Issuer
                         /\ Audience # "" => MatchAudience(p.members)
<1>1. /\ t.form = "jwt" /\ t.signature = Secret /\ Secret # ""
      /\ t.header.members = [alg |-> Text("HS256")]
      /\ ~Expired(claims)
      /\ Issuer # "" => Has(claims, "iss") /\ claims["iss"] = Text(Issuer)
      /\ Audience # "" => MatchAudience(claims)
      /\ Has(claims, "sub") /\ IsString(claims["sub"])
  BY Zenon DEF Genuine
<1>2. Authenticate(t) = IF says(header, payload)
                          THEN ExtractUserId(payload.members) ELSE Nothing
  BY <1>1 DEF Authenticate
<1>3. /\ header = IF Whole(t.header)
                    THEN [kind |-> "object", members |-> t.header.members]
                    ELSE Nothing
      /\ payload = IF Whole(t.payload)
                     THEN [kind |-> "object", members |-> claims] ELSE Nothing
  BY PartReads
<1>4. CASE ~(Whole(t.header) /\ Whole(t.payload))
  BY <1>2, <1>3, <1>4, Zenon
<1>5. CASE Whole(t.header) /\ Whole(t.payload)
  <2>1. /\ header = [kind |-> "object", members |-> t.header.members]
        /\ payload = [kind |-> "object", members |-> claims]
    BY <1>3, <1>5, Zenon
  <2>2. /\ header.kind # Nothing.kind /\ payload.kind # Nothing.kind
        /\ header.members = [alg |-> Text("HS256")] /\ payload.members = claims
    <3> HIDE DEF header, payload
    <3>1. header.kind = "object" /\ payload.kind = "object"
      BY <2>1
    <3>2. header.members = t.header.members /\ payload.members = claims
      BY <2>1
    <3>3. Nothing.kind = "nullopt"
      BY DEF Nothing
    <3>4. QED
      BY <1>1, <3>1, <3>2, <3>3
  <2>3. /\ TextOrEmpty([alg |-> Text("HS256")], "alg") = "HS256"
        /\ Issuer # "" => TextOrEmpty(claims, "iss") = Issuer
    <3> HIDE DEF claims
    <3>1. TextOrEmpty([alg |-> Text("HS256")], "alg") = "HS256"
      BY DEF TextOrEmpty, Has, Text
    <3>2. Text(Issuer).text = Issuer
      BY DEF Text
    <3>3. QED
      BY <1>1, <3>1, <3>2, Zenon DEF TextOrEmpty
  <2>4. says(header, payload)
    <3> HIDE DEF header, payload
    <3>1. header # Nothing /\ payload # Nothing
      BY <2>2, Zenon
    <3>2. QED
      BY <1>1, <2>2, <2>3, <3>1, Zenon
  <2>5. ExtractUserId(claims) = claims["sub"]
    BY <1>1 DEF ExtractUserId
  <2> HIDE DEF says, header, payload
  <2>6. QED
    BY <1>2, <1>5, <2>2, <2>4, <2>5, Zenon DEF claims
<1>6. QED
  BY <1>4, <1>5

\* The bytes that are encoded are bytes.
BytesTyped == bytes \in Seq(Octets)

LEMMA BytesStay == AuthSpec => []BytesTyped
<1>1. AuthInit => BytesTyped
  BY DEF AuthInit, BytesTyped
<1>2. BytesTyped /\ [SecondPasses \/ TakeByte]_authVars => BytesTyped'
  <2> SUFFICES ASSUME BytesTyped, [SecondPasses \/ TakeByte]_authVars
               PROVE  BytesTyped'
    OBVIOUS
  <2>1. CASE TakeByte
    <3>1. PICK b \in Bytes : bytes' = Append(bytes, b)
      BY <2>1 DEF TakeByte
    <3>2. b \in Octets
      BY <3>1, AuthAssumption DEF Octets
    <3>3. QED
      BY <3>1, <3>2, AppendProperties DEF BytesTyped
  <2>2. CASE UNCHANGED bytes
    BY <2>2 DEF BytesTyped
  <2>3. QED
    BY <2>1, <2>2 DEF SecondPasses, authVars
<1>3. QED
  BY <1>1, <1>2, PTL DEF AuthSpec

\* For any bytes, however many: Base64UrlDecode never makes other bytes of an
\* encoding than Base64UrlEncode was given, and refuses only what is not whole
\* groups of three (auth_middleware.cpp).
THEOREM DecodingInverts == AuthSpec => []DecodedIsEncoded
<1>1. BytesTyped => DecodedIsEncoded
  BY DecodedBack DEF BytesTyped, DecodedIsEncoded
<1>2. QED
  BY BytesStay, <1>1, PTL
-----------------------------------------------------------------------------
(* The text of the keys (StoreKeys).                                       *)

\* Two texts with a separator between them.
Join2(x, c, u) == (x \o <<c>>) \o u

\* What a text with a separator in it shows of its parts.
Shows(text, x, c, u) ==
    /\ Len(text) = Len(x) + 1 + Len(u)
    /\ text[Len(x) + 1] = c
    /\ \A i \in 1..Len(x) : text[i] = x[i]
    /\ \A i \in 1..Len(u) : text[Len(x) + 1 + i] = u[i]

\* The parts are where they were put.
LEMMA Between ==
    ASSUME NEW c \in Characters, NEW x \in Seq(Characters), NEW u \in Seq(Characters)
    PROVE  Join2(x, c, u) \in Seq(Characters) /\ Shows(Join2(x, c, u), x, c, u)
BY DEF Join2, Shows

\* What is in front of the last separator of a text, and what is behind it,
\* is known from the text.
LEMMA CutAtSeparator ==
    ASSUME NEW c \in Characters, NEW x \in Seq(Characters), NEW y \in Seq(Characters),
           NEW u \in Seq(Characters), NEW v \in Seq(Characters),
           \A i \in 1..Len(u) : u[i] # c, \A i \in 1..Len(v) : v[i] # c,
           NEW text, Shows(text, x, c, u), Shows(text, y, c, v)
    PROVE  x = y /\ u = v
<1>1. Len(x) \in Nat /\ Len(y) \in Nat /\ Len(u) \in Nat /\ Len(v) \in Nat
  OBVIOUS
<1>2. /\ Len(text) = Len(x) + 1 + Len(u) /\ Len(text) = Len(y) + 1 + Len(v)
      /\ text[Len(x) + 1] = c /\ text[Len(y) + 1] = c
      /\ \A i \in 1..Len(x) : text[i] = x[i]
      /\ \A i \in 1..Len(y) : text[i] = y[i]
      /\ \A i \in 1..Len(u) : text[Len(x) + 1 + i] = u[i]
      /\ \A i \in 1..Len(v) : text[Len(y) + 1 + i] = v[i]
  BY Zenon DEF Shows
<1>3. Len(x) = Len(y)
  <2>1. CASE Len(x) < Len(y)
    <3> DEFINE i == Len(y) - Len(x)
    <3>1. i \in 1..Len(u) /\ Len(x) + 1 + i = Len(y) + 1
      BY <1>1, <1>2, <2>1
    <3>2. u[i] = c
      BY <1>2, <3>1
    <3>3. QED
      BY <3>1, <3>2
  <2>2. CASE Len(y) < Len(x)
    <3> DEFINE i == Len(x) - Len(y)
    <3>1. i \in 1..Len(v) /\ Len(y) + 1 + i = Len(x) + 1
      BY <1>1, <1>2, <2>2
    <3>2. v[i] = c
      BY <1>2, <3>1
    <3>3. QED
      BY <3>1, <3>2
  <2>3. QED
    BY <1>1, <2>1, <2>2
<1>4. Len(u) = Len(v)
  BY <1>1, <1>2, <1>3
<1>5. (\A i \in 1..Len(x) : x[i] = y[i]) /\ \A i \in 1..Len(u) : u[i] = v[i]
  BY <1>2, <1>3, <1>4
<1>6. QED
  BY <1>3, <1>4, <1>5, SeqEqual

\* A text is known from what follows a known beginning.
LEMMA CutBeginning ==
    ASSUME NEW p \in Seq(Characters), NEW x \in Seq(Characters), NEW y \in Seq(Characters),
           p \o x = p \o y
    PROVE  x = y
<1>1. /\ Len(p \o x) = Len(p) + Len(x) /\ Len(p \o y) = Len(p) + Len(y)
      /\ \A i \in 1..Len(x) : (p \o x)[Len(p) + i] = x[i]
      /\ \A i \in 1..Len(y) : (p \o y)[Len(p) + i] = y[i]
  OBVIOUS
<1>2. Len(x) = Len(y)
  BY <1>1
<1>3. QED
  BY <1>1, <1>2, SeqEqual

\* Three fields behind a known beginning.
Join3(p, c, a, b, d) == Join2(Join2(p \o a, c, b), c, d)

\* The fields are known from the text.
LEMMA ThreeFields ==
    ASSUME NEW c \in Separators, NEW p \in Seq(Characters),
           NEW a1 \in Words, NEW b1 \in Words, NEW d1 \in Words,
           NEW a2 \in Words, NEW b2 \in Words, NEW d2 \in Words,
           Join3(p, c, a1, b1, d1) = Join3(p, c, a2, b2, d2)
    PROVE  a1 = a2 /\ b1 = b2 /\ d1 = d2
<1>1. /\ c \in Characters
      /\ \A w \in Words : w \in Seq(Characters) /\ \A i \in 1..Len(w) : w[i] # c
  BY WordsAssumption
<1>2. p \o a1 \in Seq(Characters) /\ p \o a2 \in Seq(Characters)
  BY <1>1
<1> DEFINE x1 == p \o a1
           x2 == p \o a2
<1>3. x1 \in Seq(Characters) /\ x2 \in Seq(Characters)
  BY <1>2
<1>4. Join2(Join2(x1, c, b1), c, d1) = Join2(Join2(x2, c, b2), c, d2)
  BY DEF Join3
<1> HIDE DEF x1, x2
<1> DEFINE y1 == Join2(x1, c, b1)
           y2 == Join2(x2, c, b2)
<1>5. /\ y1 \in Seq(Characters) /\ Shows(y1, x1, c, b1)
      /\ y2 \in Seq(Characters) /\ Shows(y2, x2, c, b2)
  BY <1>1, <1>3, Between
<1>6. y1 = y2 /\ d1 = d2
  <2> HIDE DEF y1, y2
  <2>1. /\ Shows(Join2(y1, c, d1), y1, c, d1)
        /\ Shows(Join2(y2, c, d2), y2, c, d2)
    BY <1>1, <1>5, Between
  <2>2. Shows(Join2(y1, c, d1), y2, c, d2)
    BY <1>4, <2>1 DEF y1, y2
  <2> DEFINE text == Join2(y1, c, d1)
  <2>3. Shows(text, y1, c, d1) /\ Shows(text, y2, c, d2)
    BY <2>1, <2>2
  <2> HIDE DEF text
  <2>4. /\ y1 \in Seq(Characters) /\ y2 \in Seq(Characters)
        /\ d1 \in Seq(Characters) /\ d2 \in Seq(Characters)
    BY <1>1, <1>5
  <2>5. /\ \A i \in 1..Len(d1) : d1[i] # c
        /\ \A i \in 1..Len(d2) : d2[i] # c
    BY <1>1
  <2>6. QED
    BY <1>1, <2>3, <2>4, <2>5, CutAtSeparator, Zenon
<1>7. x1 = x2 /\ b1 = b2
  <2> HIDE DEF y1, y2
  <2>1. QED
    BY <1>1, <1>3, <1>5, <1>6, CutAtSeparator, Zenon
<1>8. a1 = a2
  BY <1>1, <1>7, CutBeginning DEF x1, x2
<1>9. QED
  BY <1>6, <1>7, <1>8

\* Three words joined field by field have a separator between them, and none
\* in front.
LEMMA Joined ==
    ASSUME NEW a \in Words, NEW b \in Words, NEW c \in Words
    PROVE  WithField(WithField(WithField(<< >>, a), b), c)
             = Join3(<< >>, "|", a, b, c)
<1>1. /\ a \in Seq(Characters) /\ b \in Seq(Characters) /\ c \in Seq(Characters)
      /\ a # << >> /\ b # << >> /\ c # << >>
  BY WordsAssumption
<1>2. WithField(<< >>, a) = a /\ << >> \o a = a
  BY <1>1 DEF WithField
<1>3. WithField(a, b) = (a \o <<"|">>) \o b
  BY <1>1 DEF WithField
<1>4. (a \o <<"|">>) \o b # << >>
  <2>1. Len((a \o <<"|">>) \o b) = Len(a) + 1 + Len(b)
    BY <1>1
  <2>2. QED
    BY <1>1, <2>1
<1>5. WithField((a \o <<"|">>) \o b, c) = (((a \o <<"|">>) \o b) \o <<"|">>) \o c
  BY <1>4 DEF WithField
<1>6. Join3(<< >>, "|", a, b, c) = (((a \o <<"|">>) \o b) \o <<"|">>) \o c
  BY <1>2, Zenon DEF Join3, Join2
<1>7. QED
  BY <1>2, <1>3, <1>5, <1>6

\* The texts of an entry are three fields, each behind its own beginning.
LEMMA TextsOfEntry ==
    ASSUME NEW e \in Entry
    PROVE  /\ BuildStoreKey(e) = Join3(<< >>, "|", e.environment, e.namespace_name, e.key)
           /\ BuildCacheKey(e) =
                Join3(<<"config", ":">>, ":", e.environment, e.namespace_name, e.key)
           /\ BuildEtcdKey(e) =
                Join3(<<"/", "config", "/">>, "/", e.environment, e.namespace_name, e.key)
           /\ BuildCompositeKey(e) =
                Join3(<< >>, "|", e.namespace_name, e.key, e.environment)
<1>1. /\ e.environment \in Words /\ e.namespace_name \in Words /\ e.key \in Words
      /\ << >> \o e.environment = e.environment
  BY WordsAssumption DEF Entry
<1>2. BuildStoreKey(e) = Join3(<< >>, "|", e.environment, e.namespace_name, e.key)
  BY <1>1, Zenon DEF BuildStoreKey, Join3, Join2
<1>3. BuildCacheKey(e) =
        Join3(<<"config", ":">>, ":", e.environment, e.namespace_name, e.key)
  BY Zenon DEF BuildCacheKey, Join3, Join2
<1>4. BuildEtcdKey(e) =
        Join3(<<"/", "config", "/">>, "/", e.environment, e.namespace_name, e.key)
  BY Zenon DEF BuildEtcdKey, Join3, Join2
<1>5. BuildCompositeKey(e) =
        Join3(<< >>, "|", e.namespace_name, e.key, e.environment)
  BY <1>1, Joined, Zenon DEF BuildCompositeKey
<1>6. QED
  BY <1>2, <1>3, <1>4, <1>5

\* An entry is known from its three fields, in the order of the stores and in
\* the order of the rows.
LEMMA SameText ==
    ASSUME NEW c \in Separators, NEW p \in Seq(Characters),
           NEW d \in Entry, NEW e \in Entry,
           \/ Join3(p, c, d.environment, d.namespace_name, d.key)
                = Join3(p, c, e.environment, e.namespace_name, e.key)
           \/ Join3(p, c, d.namespace_name, d.key, d.environment)
                = Join3(p, c, e.namespace_name, e.key, e.environment)
    PROVE  d = e
<1> DEFINE d1 == d.environment
           d2 == d.namespace_name
           d3 == d.key
           e1 == e.environment
           e2 == e.namespace_name
           e3 == e.key
<1>1. /\ d1 \in Words /\ d2 \in Words /\ d3 \in Words
      /\ e1 \in Words /\ e2 \in Words /\ e3 \in Words
      /\ d1 = e1 /\ d2 = e2 /\ d3 = e3 => d = e
  BY DEF Entry
<1>2. \/ Join3(p, c, d1, d2, d3) = Join3(p, c, e1, e2, e3)
      \/ Join3(p, c, d2, d3, d1) = Join3(p, c, e2, e3, e1)
  OBVIOUS
<1> HIDE DEF d1, d2, d3, e1, e2, e3
<1>3. CASE Join3(p, c, d1, d2, d3) = Join3(p, c, e1, e2, e3)
  <2>1. d1 = e1 /\ d2 = e2 /\ d3 = e3
    BY <1>1, <1>3, ThreeFields
  <2>2. QED
    BY <1>1, <2>1
<1>4. CASE Join3(p, c, d2, d3, d1) = Join3(p, c, e2, e3, e1)
  <2>1. d2 = e2 /\ d3 = e3 /\ d1 = e1
    BY <1>1, <1>4, ThreeFields
  <2>2. QED
    BY <1>1, <2>1
<1>5. QED
  BY <1>2, <1>3, <1>4

\* The texts of two entries are equal only if the entries are, in each store.
LEMMA TextsDiffer ==
    ASSUME NEW d \in Entry, NEW e \in Entry
    PROVE  /\ BuildStoreKey(d) = BuildStoreKey(e) => d = e
           /\ BuildCacheKey(d) = BuildCacheKey(e) => d = e
           /\ BuildEtcdKey(d) = BuildEtcdKey(e) => d = e
           /\ BuildCompositeKey(d) = BuildCompositeKey(e) => d = e
<1>1. /\ "|" \in Separators /\ ":" \in Separators /\ "/" \in Separators
      /\ "|" \in Characters /\ ":" \in Characters /\ "/" \in Characters
      /\ "config" \in Characters
  BY WordsAssumption
<1>2. /\ << >> \in Seq(Characters) /\ <<"config", ":">> \in Seq(Characters)
      /\ <<"/", "config", "/">> \in Seq(Characters)
  BY <1>1
<1>3. ASSUME BuildStoreKey(d) = BuildStoreKey(e)
      PROVE  d = e
  <2>1. Join3(<< >>, "|", d.environment, d.namespace_name, d.key)
          = Join3(<< >>, "|", e.environment, e.namespace_name, e.key)
    BY <1>3, TextsOfEntry, Zenon
  <2>2. QED
    BY <1>1, <1>2, <2>1, SameText
<1>4. ASSUME BuildCacheKey(d) = BuildCacheKey(e)
      PROVE  d = e
  <2>1. Join3(<<"config", ":">>, ":", d.environment, d.namespace_name, d.key)
          = Join3(<<"config", ":">>, ":", e.environment, e.namespace_name, e.key)
    BY <1>4, TextsOfEntry, Zenon
  <2>2. QED
    BY <1>1, <1>2, <2>1, SameText
<1>5. ASSUME BuildEtcdKey(d) = BuildEtcdKey(e)
      PROVE  d = e
  <2>1. Join3(<<"/", "config", "/">>, "/", d.environment, d.namespace_name, d.key)
          = Join3(<<"/", "config", "/">>, "/", e.environment, e.namespace_name, e.key)
    BY <1>5, TextsOfEntry, Zenon
  <2>2. QED
    BY <1>1, <1>2, <2>1, SameText
<1>6. ASSUME BuildCompositeKey(d) = BuildCompositeKey(e)
      PROVE  d = e
  <2>1. Join3(<< >>, "|", d.namespace_name, d.key, d.environment)
          = Join3(<< >>, "|", e.namespace_name, e.key, e.environment)
    BY <1>6, TextsOfEntry, Zenon
  <2>2. QED
    BY <1>1, <1>2, <2>1, SameText
<1>7. QED
  BY <1>3, <1>4, <1>5, <1>6

\* Holds, for any record of what was stored.
HoldsOf(map, text, newest, e) ==
    IF e \in DOMAIN newest THEN text \in DOMAIN map /\ map[text] = newest[e]
                           ELSE text \notin DOMAIN map

\* An entry put under a text no other entry has disturbs no other one.
LEMMA PutHolds ==
    ASSUME NEW name, \A d, e \in Entry : name[d] = name[e] => d = e,
           NEW map, NEW newest, NEW e0 \in Entry, NEW v,
           \A e \in Entry : HoldsOf(map, name[e], newest, e)
    PROVE  \A e \in Entry :
             HoldsOf(Put(map, name[e0], v), name[e], Put(newest, e0, v), e)
<1> SUFFICES ASSUME NEW e \in Entry
             PROVE  HoldsOf(Put(map, name[e0], v), name[e], Put(newest, e0, v), e)
  OBVIOUS
<1> DEFINE new == Put(map, name[e0], v)
           after == Put(newest, e0, v)
<1>1. /\ DOMAIN new = DOMAIN map \cup {name[e0]} /\ new[name[e0]] = v
      /\ \A x \in DOMAIN map \ {name[e0]} : new[x] = map[x]
  BY DEF Put
<1>2. /\ DOMAIN after = DOMAIN newest \cup {e0} /\ after[e0] = v
      /\ \A x \in DOMAIN newest \ {e0} : after[x] = newest[x]
  BY DEF Put
<1>3. HoldsOf(map, name[e], newest, e) /\ (name[e] = name[e0] => e = e0)
  OBVIOUS
<1> HIDE DEF new, after
<1>4. HoldsOf(new, name[e], after, e)
  BY <1>1, <1>2, <1>3 DEF HoldsOf
<1>5. QED
  BY <1>4 DEF new, after

\* The row of an entry has its fields, so it is kept under the entry's text
\* and found by the entry's fields alone.
LEMMA RowFields ==
    ASSUME NEW e \in Entry, NEW v
    PROVE  /\ ToMysqlRow(e, v).value = v
           /\ ToMysqlRow(e, v).environment = e.environment
           /\ ToMysqlRow(e, v).namespace_name = e.namespace_name
           /\ ToMysqlRow(e, v).key = e.key
           /\ BuildCompositeKey(ToMysqlRow(e, v)) = BuildCompositeKey(e)
           /\ \A d \in Entry : Matches(ToMysqlRow(e, v), d) <=> d = e
<1>2. /\ ToMysqlRow(e, v).value = v
      /\ ToMysqlRow(e, v).environment = e.environment
      /\ ToMysqlRow(e, v).namespace_name = e.namespace_name
      /\ ToMysqlRow(e, v).key = e.key
  BY DEF ToMysqlRow
<1>3. BuildCompositeKey(ToMysqlRow(e, v)) = BuildCompositeKey(e)
  BY <1>2, Zenon DEF BuildCompositeKey
<1>4. ASSUME NEW d \in Entry PROVE Matches(ToMysqlRow(e, v), d) <=> d = e
  <2>1. DOMAIN d = {"environment", "namespace_name", "key"}
    BY DEF Entry
  <2>2. Matches(ToMysqlRow(e, v), d) <=> /\ e.environment = d.environment
                                    /\ e.namespace_name = d.namespace_name
                                    /\ e.key = d.key
    BY <1>2, <2>1 DEF Matches
  <2>3. QED
    BY <2>2 DEF Entry
<1>5. QED
  BY <1>2, <1>3, <1>4

\* MySQL has one row for each entry that was stored, with its newest value.
RowsOfStored ==
    /\ DOMAIN stored \subseteq Entry
    /\ \A e \in DOMAIN stored :
         BuildCompositeKey(e) \in DOMAIN rows
           /\ rows[BuildCompositeKey(e)] = ToMysqlRow(e, stored[e])
    /\ \A k \in DOMAIN rows : \E e \in DOMAIN stored : k = BuildCompositeKey(e)

KeysInv ==
    /\ RowsOfStored
    /\ \A e \in Entry : /\ Holds(entries, BuildStoreKey(e), e)
                        /\ Holds(cache, BuildCacheKey(e), e)
                        /\ Holds(etcd, BuildEtcdKey(e), e)

\* The query by the fields of an entry finds its row, and no other.
LEMMA RowIsFound ==
    ASSUME RowsOfStored, NEW e \in Entry
    PROVE  FindRows(e) = IF e \in DOMAIN stored THEN {BuildCompositeKey(e)} ELSE {}
<1>1. ASSUME NEW k \in DOMAIN rows, Matches(rows[k], e)
      PROVE  e \in DOMAIN stored /\ k = BuildCompositeKey(e)
  <2>1. PICK d \in DOMAIN stored : k = BuildCompositeKey(d)
    BY DEF RowsOfStored
  <2>2. d \in Entry /\ rows[k] = ToMysqlRow(d, stored[d])
    BY <2>1 DEF RowsOfStored
  <2>3. e = d
    BY <1>1, <2>2, RowFields
  <2>4. QED
    BY <2>1, <2>3
<1>2. ASSUME e \in DOMAIN stored
      PROVE  BuildCompositeKey(e) \in FindRows(e)
  <2>1. Matches(ToMysqlRow(e, stored[e]), e)
    BY RowFields
  <2>2. QED
    BY <1>2, <2>1 DEF RowsOfStored, FindRows
<1>3. QED
  BY <1>1, <1>2 DEF FindRows

\* Before anything is stored.
LEMMA KeysInvInit == KeysInit => KeysInv
BY DEF KeysInit, KeysInv, RowsOfStored, Holds, Empty

\* Storing an entry in the four stores.
LEMMA KeysInvNext == KeysInv /\ [PutEntry]_keyVars => KeysInv'
<1> SUFFICES ASSUME KeysInv, [PutEntry]_keyVars PROVE KeysInv'
  OBVIOUS
<1>1. ASSUME NEW d \in Entry, NEW v,
             entries' = Put(entries, BuildStoreKey(d), v),
             rows' = Put(rows, BuildCompositeKey(ToMysqlRow(d, v)), ToMysqlRow(d, v)),
             cache' = Put(cache, BuildCacheKey(d), v),
             etcd' = Put(etcd, BuildEtcdKey(d), v),
             stored' = Put(stored, d, v)
      PROVE  KeysInv'
  <2> DEFINE storeKey == [e \in Entry |-> BuildStoreKey(e)]
             cacheKey == [e \in Entry |-> BuildCacheKey(e)]
             etcdKey == [e \in Entry |-> BuildEtcdKey(e)]
  <2>1. /\ \A e \in Entry : HoldsOf(entries, storeKey[e], stored, e)
        /\ \A e \in Entry : HoldsOf(cache, cacheKey[e], stored, e)
        /\ \A e \in Entry : HoldsOf(etcd, etcdKey[e], stored, e)
    BY DEF KeysInv, Holds, HoldsOf
  <2>2. /\ \A e, x \in Entry : storeKey[e] = storeKey[x] => e = x
        /\ \A e, x \in Entry : cacheKey[e] = cacheKey[x] => e = x
        /\ \A e, x \in Entry : etcdKey[e] = etcdKey[x] => e = x
    BY TextsDiffer
  <2>3. /\ entries' = Put(entries, storeKey[d], v)
        /\ cache' = Put(cache, cacheKey[d], v)
        /\ etcd' = Put(etcd, etcdKey[d], v)
    BY <1>1
  <2>n. /\ \A e \in Entry : storeKey[e] = BuildStoreKey(e)
        /\ \A e \in Entry : cacheKey[e] = BuildCacheKey(e)
        /\ \A e \in Entry : etcdKey[e] = BuildEtcdKey(e)
    OBVIOUS
  <2> HIDE DEF storeKey, cacheKey, etcdKey
  <2>4. \A e \in Entry : HoldsOf(entries', storeKey[e], stored', e)
    <3>1. \A e \in Entry :
            HoldsOf(Put(entries, storeKey[d], v), storeKey[e], Put(stored, d, v), e)
      BY <2>1, <2>2, PutHolds, Zenon
    <3>2. QED
      BY <1>1, <2>3, <3>1, Zenon
  <2>5. \A e \in Entry : HoldsOf(cache', cacheKey[e], stored', e)
    <3>1. \A e \in Entry :
            HoldsOf(Put(cache, cacheKey[d], v), cacheKey[e], Put(stored, d, v), e)
      BY <2>1, <2>2, PutHolds, Zenon
    <3>2. QED
      BY <1>1, <2>3, <3>1, Zenon
  <2>6. \A e \in Entry : HoldsOf(etcd', etcdKey[e], stored', e)
    <3>1. \A e \in Entry :
            HoldsOf(Put(etcd, etcdKey[d], v), etcdKey[e], Put(stored, d, v), e)
      BY <2>1, <2>2, PutHolds, Zenon
    <3>2. QED
      BY <1>1, <2>3, <3>1, Zenon
  <2>7. RowsOfStored'
    <3> DEFINE place == BuildCompositeKey(d)
    <3>1. rows' = Put(rows, place, ToMysqlRow(d, v))
      BY <1>1, RowFields
    <3>2. \A e \in Entry : BuildCompositeKey(e) = place => e = d
      BY TextsDiffer
    <3> HIDE DEF place
    <3>3. /\ DOMAIN rows' = DOMAIN rows \cup {place} /\ rows'[place] = ToMysqlRow(d, v)
          /\ \A x \in DOMAIN rows \ {place} : rows'[x] = rows[x]
      BY <3>1 DEF Put
    <3>4. /\ DOMAIN stored' = DOMAIN stored \cup {d} /\ stored'[d] = v
          /\ \A x \in DOMAIN stored \ {d} : stored'[x] = stored[x]
      BY <1>1 DEF Put
    <3>5. DOMAIN stored' \subseteq Entry
      BY <3>4 DEF KeysInv, RowsOfStored
    <3>6. ASSUME NEW e \in DOMAIN stored'
          PROVE  BuildCompositeKey(e) \in DOMAIN rows'
                   /\ rows'[BuildCompositeKey(e)] = ToMysqlRow(e, stored'[e])
      <4>1. CASE e = d
        BY <3>3, <3>4, <4>1 DEF place
      <4>2. CASE e # d
        <5>1. e \in DOMAIN stored /\ stored'[e] = stored[e] /\ e \in Entry
          BY <3>4, <3>5, <4>2
        <5>2. BuildCompositeKey(e) # place
          BY <3>2, <4>2, <5>1
        <5>3. BuildCompositeKey(e) \in DOMAIN rows
                /\ rows[BuildCompositeKey(e)] = ToMysqlRow(e, stored[e])
          BY <5>1 DEF KeysInv, RowsOfStored
        <5>4. QED
          BY <3>3, <5>1, <5>2, <5>3
      <4>3. QED
        BY <4>1, <4>2
    <3>7. ASSUME NEW k \in DOMAIN rows'
          PROVE  \E e \in DOMAIN stored' : k = BuildCompositeKey(e)
      <4>1. CASE k = place
        BY <3>4, <4>1 DEF place
      <4>2. CASE k # place
        BY <3>3, <3>4, <4>2 DEF KeysInv, RowsOfStored
      <4>3. QED
        BY <4>1, <4>2
    <3>8. QED
      BY <3>5, <3>6, <3>7 DEF RowsOfStored
  <2>8. QED
    BY <2>n, <2>4, <2>5, <2>6, <2>7 DEF KeysInv, Holds, HoldsOf
<1>2. CASE PutEntry
  <2>1. PICK d \in Entry, v \in 1..2 :
          /\ entries' = Put(entries, BuildStoreKey(d), v)
          /\ rows' = Put(rows, BuildCompositeKey(ToMysqlRow(d, v)), ToMysqlRow(d, v))
          /\ cache' = Put(cache, BuildCacheKey(d), v)
          /\ etcd' = Put(etcd, BuildEtcdKey(d), v)
          /\ stored' = Put(stored, d, v)
    BY <1>2, Zenon DEF PutEntry, UpsertRow
  <2>2. QED
    BY <1>1, <2>1
<1>3. CASE UNCHANGED keyVars
  BY <1>3 DEF KeysInv, RowsOfStored, Holds, keyVars
<1>4. QED
  BY <1>2, <1>3

\* For any fields without separators: the texts the code makes of an entry's
\* environment, namespace and key serve in each store as the entry itself.
THEOREM TextsAreNames == KeysSpec => []TextIsName
<1>1. KeysInv => TextIsName
  <2> SUFFICES ASSUME KeysInv, NEW e \in Entry PROVE TextIsName!(e)
    BY DEF TextIsName
  <2>1. FindRows(e) = IF e \in DOMAIN stored THEN {BuildCompositeKey(e)} ELSE {}
    BY RowIsFound DEF KeysInv
  <2>2. e \in DOMAIN stored => rows[BuildCompositeKey(e)].value = stored[e]
    <3>1. e \in DOMAIN stored => rows[BuildCompositeKey(e)] = ToMysqlRow(e, stored[e])
      BY DEF KeysInv, RowsOfStored
    <3>2. ToMysqlRow(e, stored[e]).value = stored[e]
      BY RowFields
    <3>3. QED
      BY <3>1, <3>2
  <2>3. {rows[k].value : k \in FindRows(e)}
          = IF e \in DOMAIN stored THEN {stored[e]} ELSE {}
    BY <2>1, <2>2
  <2>4. QED
    BY <2>1, <2>3 DEF KeysInv
<1>2. QED
  BY KeysInvInit, KeysInvNext, <1>1, PTL DEF KeysSpec
-----------------------------------------------------------------------------
(* The parts side by side (ProcessParts).                                  *)

\* A step of the composition is a step of each part or leaves it alone.
LEMMA PartsStep ==
    [PartsNext]_allVars =>
        /\ [Next]_vars
        /\ [WindowNext]_windowVars
        /\ [AppNext]_appVars
        /\ [LogNext]_logVars
        /\ [BenchNext]_benchVars
        /\ [PutEntry]_keyVars
        /\ [SecondPasses \/ TakeByte]_authVars
        /\ [(\E a \in Admins : Post(a))]_adminVars
<1> SUFFICES ASSUME [PartsNext]_allVars
             PROVE  /\ [Next]_vars
                    /\ [WindowNext]_windowVars
                    /\ [AppNext]_appVars
                    /\ [LogNext]_logVars
                    /\ [BenchNext]_benchVars
                    /\ [PutEntry]_keyVars
                    /\ [SecondPasses \/ TakeByte]_authVars
                    /\ [(\E a \in Admins : Post(a))]_adminVars
  OBVIOUS
<1>1. CASE Governors
  <2>1. [Next]_vars /\ [WindowNext]_windowVars
    <3>1. CASE BreakerCalled
      BY <3>1 DEF BreakerCalled, Next
    <3>2. CASE LimiterCalled
      BY <3>2 DEF LimiterCalled, WindowNext
    <3>3. CASE TimePasses
      BY <3>3 DEF TimePasses, Next, WindowNext
    <3>4. QED
      BY <1>1, <3>1, <3>2, <3>3 DEF Governors, GovNext
  <2>2. QED
    BY <1>1, <2>1 DEF Governors
<1>2. CASE Administration \/ Encoding \/ Keys
  BY <1>2 DEF Administration, AdminNext, Encoding, Keys, govVars
<1>3. CASE Process(AppNext) \/ Logging \/ Bench(BenchNext)
  BY <1>3 DEF Process, Logging, Bench, govVars
<1>4. CASE UNCHANGED allVars
  BY <1>4 DEF allVars, govVars
<1>5. QED
  BY <1>1, <1>2, <1>3, <1>4 DEF PartsNext

\* Side by side the parts behave as they do alone: what is proved of a part
\* holds of it in the process.
THEOREM PartsAreThemselves ==
    PartsSpec => /\ Spec /\ WindowSpec /\ AppSpec /\ LogSpec /\ BenchSpec
                 /\ KeysSpec /\ AuthSpec
<1>1. PartsInit => /\ Init /\ WindowInit /\ AppInit /\ LogInit /\ BenchInit
                   /\ KeysInit /\ AuthInit
  BY DEF PartsInit, GovInit
<1>2. QED
  BY <1>1, PartsStep, PTL
     DEF PartsSpec, Spec, WindowSpec, AppSpec, LogSpec, BenchSpec, KeysSpec,
         AuthSpec

\* The administrators are not the only ones to change what AuthMiddleware
\* reads, so their configuration is proved for the composition.
LEMMA AdminInParts == PartsSpec => []LastAskedInForce
<1>1. PartsInit => AdminInv
  BY AdminInvInit DEF PartsInit
<1>2. AdminInv /\ [PartsNext]_allVars => AdminInv'
  <2> SUFFICES ASSUME AdminInv, [PartsNext]_allVars PROVE AdminInv'
    OBVIOUS
  <2>1. [(\E a \in Admins : Post(a))]_adminVars
    BY PartsStep
  <2>2. ASSUME NEW a \in Admins, Post(a) PROVE AdminInv'
    BY <2>2, PostInv
  <2>3. CASE UNCHANGED adminVars
    BY <2>3, QuietInv DEF adminVars
  <2>4. QED
    BY <2>1, <2>2, <2>3
<1>3. AdminInv => LastAskedInForce
  BY DEF AdminInv
<1>4. QED
  BY <1>1, <1>2, <1>3, PTL DEF PartsSpec

\* The governors, the configuration, the life of the process, its logger, the
\* load generator and the texts of keys keep what is said of each of them, for
\* every value of the constants of all of them.
THEOREM PartsKeep ==
    PartsSpec =>
        /\ [](/\ ClosedBelowThreshold /\ AdmissionBound /\ LastAskedInForce
              /\ HooksNotCut /\ ShutdownComplete /\ RecordsKept /\ LastSetWins
              /\ PoolsStaffed /\ ReportAddsUp /\ TextIsName
              /\ DecodedIsEncoded)
        /\ CoolDownFromLastFailure
BY PartsAreThemselves, AdminInParts, BreakerInvariant, CoolDownRespected,
   WindowBound, HooksRunToTheEnd, HooksAllRun, RecordsStay, LevelsAgree,
   SplitStaffed, ReportsAddUp, TextsAreNames, DecodingInverts, PTL
===============================================================================
