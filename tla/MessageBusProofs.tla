-------------------------- MODULE MessageBusProofs --------------------------
(***************************************************************************)
(* MessageBus for any topics, consumers, subscriptions and limits.         *)
(***************************************************************************)
EXTENDS MessageBus, SequenceTheorems, TLAPS

Ascending(s) == \A i, j \in 1..Len(s) : i < j => s[i] < s[j]

\* Every element of s comes before every one of r.
Before(s, r) == \A x \in Elements(s), y \in Elements(r) : x < y

\* What consumer c has of topic t.
Has(c, t) == delivered[c][t] \o InHand(c, t)

\* A consumer has a thread from StartThread to StopJoin.
ThreadStarted ==
    \A c \in Consumers : control[c] \in {"stopped", "starting"} <=> worker[c] = "none"

\* A batch is one of a topic.
BatchOfTopic == \A c \in Consumers : worker[c] = "handle" => topic[c] \in Topics

IInv == TypeOK /\ ThreadStarted /\ BatchOfTopic /\ ExactlyOnePlace /\ InOrder

Numbers == 1..MaxPublished
-----------------------------------------------------------------------------
(* Sequences of numbers.                                                   *)

\* Where the elements of the parts are in a concatenation.
LEMMA PlacesInConcat ==
    ASSUME NEW s \in Seq(Int), NEW r \in Seq(Int)
    PROVE  /\ Len(s) \in Nat /\ Len(r) \in Nat /\ Len(s \o r) = Len(s) + Len(r)
           /\ \A i \in 1..Len(s) : i \in 1..Len(s \o r) /\ (s \o r)[i] = s[i]
           /\ \A i \in 1..Len(r) : /\ i + Len(s) \in 1..Len(s \o r)
                                   /\ (s \o r)[i + Len(s)] = r[i]
           /\ \A i \in 1..Len(s \o r) :
                \/ i \in 1..Len(s) /\ (s \o r)[i] = s[i]
                \/ i - Len(s) \in 1..Len(r) /\ (s \o r)[i] = r[i - Len(s)]
<1> DEFINE u == s \o r
           m == Len(s)
           n == Len(r)
<1>1. /\ m \in Nat /\ n \in Nat /\ Len(u) = m + n
      /\ \A i \in 1..(m + n) : u[i] = IF i <= m THEN s[i] ELSE r[i - m]
  BY ConcatProperties, LenProperties
<1> HIDE DEF u, m, n
<1>2. \A i \in 1..m : i \in 1..Len(u) /\ u[i] = s[i]
  BY <1>1
<1>3. ASSUME NEW i \in 1..n
      PROVE  i + m \in 1..Len(u) /\ u[i + m] = r[i]
  <2>1. i + m \in 1..(m + n) /\ ~(i + m <= m) /\ (i + m) - m = i
    BY <1>1
  <2>2. u[i + m] = r[(i + m) - m]
    BY <1>1, <2>1
  <2>3. QED
    BY <1>1, <2>1, <2>2
<1>4. \A i \in 1..Len(u) : \/ i \in 1..m /\ u[i] = s[i]
                           \/ i - m \in 1..n /\ u[i] = r[i - m]
  BY <1>1
<1>5. QED
  BY <1>1, <1>2, <1>3, <1>4 DEF u, m, n

\* The elements of a concatenation are those of its parts.
LEMMA ElementsOfConcat ==
    ASSUME NEW s \in Seq(Int), NEW r \in Seq(Int)
    PROVE  Elements(s \o r) = Elements(s) \cup Elements(r)
<1> DEFINE u == s \o r
<1>1. Len(s) \in Nat /\ Len(r) \in Nat /\ Len(u) = Len(s) + Len(r)
  BY PlacesInConcat
<1>2. \A i \in 1..Len(s) : i \in 1..Len(u) /\ u[i] = s[i]
  BY PlacesInConcat
<1>3. \A i \in 1..Len(r) : i + Len(s) \in 1..Len(u) /\ u[i + Len(s)] = r[i]
  BY PlacesInConcat
<1>4. \A i \in 1..Len(u) : \/ i \in 1..Len(s) /\ u[i] = s[i]
                           \/ i - Len(s) \in 1..Len(r) /\ u[i] = r[i - Len(s)]
  BY PlacesInConcat
<1> HIDE DEF u
<1>5. Elements(u) \subseteq Elements(s) \cup Elements(r)
  BY <1>4 DEF Elements
<1>6. Elements(s) \subseteq Elements(u)
  BY <1>2 DEF Elements
<1>7. Elements(r) \subseteq Elements(u)
  BY <1>3 DEF Elements
<1>8. QED
  BY <1>5, <1>6, <1>7 DEF u

\* A concatenation is ascending when its parts are, one before the other.
LEMMA AscendingConcat ==
    ASSUME NEW s \in Seq(Int), NEW r \in Seq(Int)
    PROVE  Ascending(s \o r) <=> Ascending(s) /\ Ascending(r) /\ Before(s, r)
<1> DEFINE u == s \o r
<1>1. Len(s) \in Nat /\ Len(r) \in Nat /\ Len(u) = Len(s) + Len(r)
  BY PlacesInConcat
<1>2. \A i \in 1..Len(s) : i \in 1..Len(u) /\ u[i] = s[i]
  BY PlacesInConcat
<1>3. \A i \in 1..Len(r) : i + Len(s) \in 1..Len(u) /\ u[i + Len(s)] = r[i]
  BY PlacesInConcat
<1>4. \A i \in 1..Len(u) : \/ i \in 1..Len(s) /\ u[i] = s[i]
                           \/ i - Len(s) \in 1..Len(r) /\ u[i] = r[i - Len(s)]
  BY PlacesInConcat
<1> HIDE DEF u
<1>5. ASSUME Ascending(u) PROVE Ascending(s) /\ Ascending(r) /\ Before(s, r)
  <2>1. Ascending(s)
    BY <1>2, <1>5 DEF Ascending
  <2>2. Ascending(r)
    <3> SUFFICES ASSUME NEW i \in 1..Len(r), NEW j \in 1..Len(r), i < j
                 PROVE  r[i] < r[j]
      BY DEF Ascending
    <3>1. i + Len(s) < j + Len(s)
      BY <1>1
    <3>2. QED
      BY <1>3, <1>5, <3>1 DEF Ascending
  <2>3. Before(s, r)
    <3> SUFFICES ASSUME NEW i \in 1..Len(s), NEW j \in 1..Len(r)
                 PROVE  s[i] < r[j]
      BY DEF Before, Elements
    <3>1. i < j + Len(s)
      BY <1>1
    <3>2. QED
      BY <1>2, <1>3, <1>5, <3>1 DEF Ascending
  <2>4. QED
    BY <2>1, <2>2, <2>3
<1>6. ASSUME Ascending(s), Ascending(r), Before(s, r) PROVE Ascending(u)
  <2> SUFFICES ASSUME NEW i \in 1..Len(u), NEW j \in 1..Len(u), i < j
               PROVE  u[i] < u[j]
    BY DEF Ascending
  <2>1. CASE i \in 1..Len(s) /\ j \in 1..Len(s)
    BY <1>2, <1>6, <2>1 DEF Ascending
  <2>2. CASE i \in 1..Len(s) /\ j - Len(s) \in 1..Len(r)
    <3>1. u[i] = s[i] /\ u[j] = r[j - Len(s)]
      BY <1>1, <1>2, <1>4, <2>2
    <3>2. u[i] \in Elements(s) /\ u[j] \in Elements(r)
      BY <2>2, <3>1 DEF Elements
    <3>3. QED
      BY <1>6, <3>2 DEF Before
  <2>3. CASE i - Len(s) \in 1..Len(r) /\ j - Len(s) \in 1..Len(r)
    <3>1. u[i] = r[i - Len(s)] /\ u[j] = r[j - Len(s)] /\ i - Len(s) < j - Len(s)
      BY <1>1, <1>4, <2>3
    <3>2. QED
      BY <1>6, <2>3, <3>1 DEF Ascending
  <2>4. QED
    BY <1>1, <1>4, <2>1, <2>2, <2>3
<1>7. QED
  BY <1>5, <1>6 DEF u

\* The empty sequence, and the sequence of one number.
LEMMA ShortSequences ==
    /\ Elements(<< >>) = {} /\ Ascending(<< >>)
    /\ \A x \in Int : Elements(<<x>>) = {x} /\ Ascending(<<x>>)
<1>1. Len(<< >>) = 0
  BY EmptySeq
<1>2. \A i \in 1..0 : FALSE
  OBVIOUS
<1>3. Elements(<< >>) = {} /\ Ascending(<< >>)
  BY <1>1, <1>2 DEF Elements, Ascending
<1>4. ASSUME NEW x \in Int PROVE Elements(<<x>>) = {x} /\ Ascending(<<x>>)
  <2>1. Len(<<x>>) = 1 /\ <<x>>[1] = x
    OBVIOUS
  <2>2. \A i \in 1..1 : i = 1
    OBVIOUS
  <2>3. Elements(<<x>>) = {x}
    BY <2>1, <2>2 DEF Elements
  <2>4. Ascending(<<x>>)
    BY <2>1, <2>2 DEF Ascending
  <2>5. QED
    BY <2>3, <2>4
<1>5. QED
  BY <1>3, <1>4

\* A batch and what it leaves make up the deque.
LEMMA TakenAndRest ==
    ASSUME NEW S, NEW s \in Seq(S), NEW n \in 0..Len(s)
    PROVE  /\ SubSeq(s, 1, n) \in Seq(S) /\ SubSeq(s, n + 1, Len(s)) \in Seq(S)
           /\ Len(SubSeq(s, 1, n)) = n
           /\ SubSeq(s, 1, n) \o SubSeq(s, n + 1, Len(s)) = s
<1>1. Len(s) \in Nat /\ \A i \in 1..Len(s) : s[i] \in S
  BY LenProperties, ElementOfSeq
<1>2. SubSeq(s, 1, n) \in Seq(S) /\ Len(SubSeq(s, 1, n)) = n
  BY <1>1, SubSeqProperties
<1>3. SubSeq(s, n + 1, Len(s)) \in Seq(S)
  BY <1>1, SubSeqProperties
<1>4. SubSeq(s, 1, n) \o SubSeq(s, n + 1, Len(s)) = SubSeq(s, 1, Len(s))
  <2>1. 1 \in 1..(Len(s) + 1) /\ n \in (1 - 1)..Len(s) /\ Len(s) \in n..Len(s)
    BY <1>1
  <2>2. QED
    BY <2>1, ConcatAdjacentSubSeq
<1>5. QED
  BY <1>2, <1>3, <1>4, SubSeqFull
-----------------------------------------------------------------------------
\* What the properties say, in terms of what each consumer has.
LEMMA TypeOfHas ==
    TypeOK => \A c \in Consumers, t \in Topics :
        /\ Has(c, t) \in Seq(Numbers) /\ Has(c, t) \in Seq(Int)
        /\ messages[t] \in Seq(Numbers) /\ messages[t] \in Seq(Int)
        /\ InHand(c, t) \in Seq(Numbers)
<1> SUFFICES ASSUME TypeOK, NEW c \in Consumers, NEW t \in Topics
             PROVE  /\ Has(c, t) \in Seq(Numbers) /\ Has(c, t) \in Seq(Int)
                    /\ messages[t] \in Seq(Numbers) /\ messages[t] \in Seq(Int)
                    /\ InHand(c, t) \in Seq(Numbers)
  OBVIOUS
<1>1. delivered[c][t] \in Seq(Numbers) /\ messages[t] \in Seq(Numbers)
      /\ batch[c] \in Seq(Numbers)
  BY DEF TypeOK, Numbers
<1>2. InHand(c, t) \in Seq(Numbers)
  BY <1>1, EmptySeq DEF InHand
<1>3. Has(c, t) \in Seq(Numbers)
  BY <1>1, <1>2, ConcatProperties DEF Has
<1>4. Numbers \subseteq Int
  BY BusAssumption DEF Numbers
<1>5. QED
  BY <1>1, <1>2, <1>3, <1>4, SeqMonotonic

\* Order and place, for a topic: of one consumer, of two, of all.
Ordered(c, t) ==
    Ascending(Has(c, t)) /\ Ascending(messages[t]) /\ Before(Has(c, t), messages[t])
Disjoint(c, d, t) == Elements(Has(c, t)) \cap Elements(Has(d, t)) = {}
Complete(t) == 1..published[t] = Elements(messages[t]) \cup
                                   UNION {Elements(Has(c, t)) : c \in Consumers}

AllOrdered == \A c \in Consumers, t \in Topics : Ordered(c, t)
AllPlaced ==
    \A t \in Topics :
        Complete(t) /\ \A c, d \in Consumers : c # d => Disjoint(c, d, t)

\* The two properties, said by what each consumer and each queue has.
LEMMA InTermsOfHas ==
    TypeOK => (InOrder <=> AllOrdered) /\ (ExactlyOnePlace <=> AllPlaced)
<1> SUFFICES ASSUME TypeOK
             PROVE  (InOrder <=> AllOrdered) /\ (ExactlyOnePlace <=> AllPlaced)
  OBVIOUS
<1>1. \A c \in Consumers, t \in Topics : Line(c, t) = Has(c, t) \o messages[t]
  BY DEF Line, Has
<1>2. InOrder <=> \A c \in Consumers, t \in Topics : Ascending(Line(c, t))
  BY DEF InOrder, Ascending
<1>3. ASSUME NEW c \in Consumers, NEW t \in Topics
      PROVE  Ascending(Line(c, t)) <=> Ordered(c, t)
  <2>1. Has(c, t) \in Seq(Int) /\ messages[t] \in Seq(Int)
    BY TypeOfHas
  <2>2. Ascending(Has(c, t) \o messages[t]) <=> Ordered(c, t)
    <3> DEFINE h == Has(c, t)
               m == messages[t]
    <3>1. h \in Seq(Int) /\ m \in Seq(Int)
      BY <2>1
    <3>2. Ordered(c, t) <=> Ascending(h) /\ Ascending(m) /\ Before(h, m)
      BY DEF Ordered
    <3> HIDE DEF h, m
    <3>3. Ascending(h \o m) <=> Ascending(h) /\ Ascending(m) /\ Before(h, m)
      BY <3>1, AscendingConcat
    <3>4. QED
      BY <3>2, <3>3 DEF h, m
  <2>3. QED
    BY <1>1, <2>2
<1>4. QED
  BY <1>2, <1>3 DEF ExactlyOnePlace, Has, Complete, Disjoint, AllOrdered, AllPlaced

\* The same after a step.
LEMMA InTermsOfHasNext ==
    TypeOK' => (InOrder' <=> AllOrdered') /\ (ExactlyOnePlace' <=> AllPlaced')
  BY InTermsOfHas, PTL
-----------------------------------------------------------------------------
\* Nothing is published, popped or handled at first.
LEMMA InitInv == Init => IInv
<1> SUFFICES ASSUME Init PROVE IInv
  OBVIOUS
<1>1. TypeOK
  BY EmptySeq, BusAssumption DEF Init, TypeOK
<1>2. ThreadStarted /\ BatchOfTopic
  BY DEF Init, ThreadStarted, BatchOfTopic
<1>3. << >> \o << >> = << >>
  BY EmptySeq, ConcatEmptySeq
<1>4. \A c \in Consumers, t \in Topics : Has(c, t) = << >> /\ messages[t] = << >>
  BY <1>3 DEF Init, Has, InHand
<1>5. AllOrdered
  BY <1>4, ShortSequences DEF AllOrdered, Ordered, Before
<1>6. AllPlaced
  <2>1. \A t \in Topics : 1..published[t] = {}
    <3>1. 1..0 = {}
      OBVIOUS
    <3>2. \A t \in Topics : published[t] = 0
      BY DEF Init
    <3>3. QED
      BY <3>1, <3>2
  <2>2. /\ \A t \in Topics : Elements(messages[t]) = {}
        /\ \A c \in Consumers, t \in Topics : Elements(Has(c, t)) = {}
    <3> DEFINE empty == << >>
    <3>1. Elements(empty) = {}
      BY ShortSequences
    <3>2. \A c \in Consumers, t \in Topics : Has(c, t) = empty
      BY <1>4
    <3>3. \A t \in Topics : messages[t] = empty
      BY DEF Init
    <3> HIDE DEF empty
    <3>4. QED
      BY <3>1, <3>2, <3>3
  <2>3. \A t \in Topics : Complete(t)
    BY <2>1, <2>2 DEF Complete
  <2>4. QED
    BY <2>2, <2>3 DEF AllPlaced, Disjoint
<1>7. QED
  BY <1>1, <1>2, <1>5, <1>6, InTermsOfHas DEF IInv

\* A step that moves no message leaves them in order and in place.
LEMMA NoMove ==
    ASSUME IInv, TypeOK', UNCHANGED <<published, messages>>,
           \A c \in Consumers, t \in Topics : Has(c, t)' = Has(c, t)
    PROVE  ExactlyOnePlace' /\ InOrder'
<1>1. AllOrdered'
  BY InTermsOfHas DEF IInv, AllOrdered, Ordered, Before
<1>2. AllPlaced'
  BY InTermsOfHas DEF IInv, AllPlaced, Complete, Disjoint
<1>3. QED
  BY <1>1, <1>2, InTermsOfHasNext
-----------------------------------------------------------------------------
\* A new message has a number above all others.
LEMMA PublishInv == ASSUME IInv, NEW t \in Topics, Publish(t) PROVE IInv'
<1> DEFINE n == published[t] + 1
           m == messages[t]
<1>1. /\ published[t] \in Nat /\ n \in Numbers /\ n \in Int
      /\ m \in Seq(Numbers) /\ m \in Seq(Int)
  BY BusAssumption, TypeOfHas DEF IInv, TypeOK, Publish, Numbers
<1>2. Append(m, n) \in Seq(Numbers) /\ Append(m, n) = m \o <<n>>
  BY <1>1, AppendProperties, AppendIsConcat
<1>3. /\ published' = [published EXCEPT ![t] = n]
      /\ messages' = [messages EXCEPT ![t] = m \o <<n>>]
      /\ UNCHANGED <<running, control, worker, toScan, topic, batch, handled,
                     delivered>>
  BY <1>2 DEF Publish, workerVars
<1>4. TypeOK'
  BY <1>1, <1>2, <1>3, BusAssumption DEF IInv, TypeOK, Numbers
<1>5. ThreadStarted' /\ BatchOfTopic'
  BY <1>3 DEF IInv, ThreadStarted, BatchOfTopic
<1>6. \A c \in Consumers, s \in Topics : Has(c, s)' = Has(c, s)
  BY <1>3 DEF Has, InHand
<1>7. AllOrdered /\ AllPlaced
  BY InTermsOfHas DEF IInv
<1>8. /\ published'[t] = n /\ messages'[t] = m \o <<n>>
      /\ \A s \in Topics \ {t} : published'[s] = published[s] /\ messages'[s] = messages[s]
  BY <1>3 DEF IInv, TypeOK
<1>9. /\ <<n>> \in Seq(Int) /\ Elements(<<n>>) = {n} /\ Ascending(<<n>>)
  BY <1>1, ShortSequences
<1>10. Elements(m \o <<n>>) = Elements(m) \cup {n}
  <2> HIDE DEF m, n
  <2>1. QED
    BY <1>1, <1>9, ElementsOfConcat
<1>11. Elements(m) \subseteq 1..published[t]
       /\ \A c \in Consumers : Elements(Has(c, t)) \subseteq 1..published[t]
  BY <1>7 DEF AllPlaced, Complete
<1>12. \A x \in 1..published[t] : x < n
  BY <1>1
<1>13. Ascending(m) => Ascending(m \o <<n>>)
  <2>1. Before(m, <<n>>)
    BY <1>9, <1>11, <1>12 DEF Before
  <2> HIDE DEF m, n
  <2>2. QED
    BY <1>1, <1>9, <2>1, AscendingConcat
<1>14. AllOrdered'
  <2> SUFFICES ASSUME NEW c \in Consumers, NEW s \in Topics PROVE Ordered(c, s)'
    BY DEF AllOrdered
  <2>1. Ordered(c, s)
    BY <1>7 DEF AllOrdered
  <2>2. CASE s # t
    BY <1>6, <1>8, <2>1, <2>2 DEF Ordered, Before
  <2>3. CASE s = t
    <3>1. Before(Has(c, t), m \o <<n>>)
      BY <1>10, <1>11, <1>12, <2>1, <2>3 DEF Ordered, Before
    <3>2. QED
      BY <1>6, <1>8, <1>13, <2>1, <2>3, <3>1 DEF Ordered, Before
  <2>4. QED
    BY <2>2, <2>3
<1>15. AllPlaced'
  <2>1. \A s \in Topics, c, d \in Consumers : c # d => Disjoint(c, d, s)'
    BY <1>6, <1>7 DEF AllPlaced, Disjoint
  <2>2. \A s \in Topics \ {t} : Complete(s)'
    BY <1>6, <1>7, <1>8 DEF AllPlaced, Complete
  <2>3. Complete(t)'
    <3>1. 1..n = (1..published[t]) \cup {n}
      BY <1>1
    <3>2. 1..published[t] = Elements(m) \cup UNION {Elements(Has(c, t)) : c \in Consumers}
      BY <1>7 DEF AllPlaced, Complete
    <3>3. UNION {Elements(Has(c, t)') : c \in Consumers}
            = UNION {Elements(Has(c, t)) : c \in Consumers}
      BY <1>6
    <3>4. 1..n = Elements(m \o <<n>>) \cup UNION {Elements(Has(c, t)) : c \in Consumers}
      BY <1>10, <3>1, <3>2
    <3>5. QED
      BY <1>8, <3>3, <3>4 DEF Complete
  <2>4. QED
    BY <2>1, <2>2, <2>3 DEF AllPlaced
<1>16. QED
  BY <1>4, <1>5, <1>14, <1>15, InTermsOfHasNext DEF IInv
-----------------------------------------------------------------------------
\* Starting and stopping move no message: a thread comes with no batch in
\* hand and goes with none.
LEMMA ControlInv ==
    ASSUME IInv, NEW c \in Consumers,
           StartExchange(c) \/ StartThread(c) \/ StopExchange(c) \/ StopJoin(c)
    PROVE  IInv'
<1>1. UNCHANGED <<published, messages, toScan, topic, batch, handled, delivered>>
  BY DEF StartExchange, StartThread, StopExchange, StopJoin, workerVars
<1>2. TypeOK' /\ ThreadStarted' /\ BatchOfTopic'
  <2>1. CASE StartExchange(c)
    BY <2>1 DEF StartExchange, workerVars, IInv, TypeOK, ThreadStarted, BatchOfTopic
  <2>2. CASE StartThread(c)
    <3>1. worker[c] = "none"
      BY <2>2 DEF StartThread, IInv, ThreadStarted
    <3>2. QED
      BY <2>2, <3>1 DEF StartThread, IInv, TypeOK, ThreadStarted, BatchOfTopic
  <2>3. CASE StopExchange(c)
    BY <2>3 DEF StopExchange, workerVars, IInv, TypeOK, ThreadStarted, BatchOfTopic
  <2>4. CASE StopJoin(c)
    BY <2>4 DEF StopJoin, IInv, TypeOK, ThreadStarted, BatchOfTopic
  <2>5. QED
    BY <2>1, <2>2, <2>3, <2>4
<1>3. \A d \in Consumers, t \in Topics : Has(d, t)' = Has(d, t)
  BY <1>1 DEF Has, InHand
<1>4. QED
  BY <1>1, <1>2, <1>3, NoMove DEF IInv

\* Nor do the ends of a pass.
LEMMA PassInv ==
    ASSUME IInv, NEW c \in Consumers, CheckRunning(c) \/ EndPass(c) \/ Wake(c)
    PROVE  IInv'
<1>1. UNCHANGED <<published, messages, running, control, topic, batch, delivered>>
  BY DEF CheckRunning, EndPass, Wake
<1>2. TypeOK' /\ ThreadStarted' /\ BatchOfTopic'
  <2>1. CASE CheckRunning(c)
    <3>1. Subscriptions[c] \subseteq Topics
      BY BusAssumption
    <3>2. /\ toScan' \in [Consumers -> SUBSET Topics]
          /\ handled' \in [Consumers -> BOOLEAN]
          /\ worker[c] = "check"
          /\ \E w \in {"scan", "exited"} : worker' = [worker EXCEPT ![c] = w]
      BY <2>1, <3>1 DEF CheckRunning, IInv, TypeOK
    <3>3. QED
      BY <1>1, <3>2 DEF IInv, TypeOK, ThreadStarted, BatchOfTopic
  <2>2. CASE EndPass(c)
    BY <2>2 DEF EndPass, IInv, TypeOK, ThreadStarted, BatchOfTopic
  <2>3. CASE Wake(c)
    BY <2>3 DEF Wake, IInv, TypeOK, ThreadStarted, BatchOfTopic
  <2>4. QED
    BY <2>1, <2>2, <2>3
<1>3. \A d \in Consumers, t \in Topics : Has(d, t)' = Has(d, t)
  BY <1>1 DEF Has, InHand
<1>4. QED
  BY <1>1, <1>2, <1>3, NoMove DEF IInv

\* Handling moves a message from the batch to the handlers of its consumer.
LEMMA HandleInv == ASSUME IInv, NEW c \in Consumers, Handle(c) PROVE IInv'
<1> DEFINE t == topic[c]
           b == batch[c]
           d == delivered[c][t]
<1>1. t \in Topics /\ worker[c] = "handle"
  BY DEF Handle, IInv, BatchOfTopic
<1>2. b \in Seq(Numbers) /\ b # << >> /\ d \in Seq(Numbers)
  BY <1>1 DEF IInv, TypeOK, Numbers
<1>3. /\ Head(b) \in Numbers /\ Tail(b) \in Seq(Numbers)
      /\ Len(b) \in Nat /\ Len(Tail(b)) = Len(b) - 1
      /\ Tail(b) = << >> <=> Len(b) = 1
  <2>1. Head(b) \in Numbers /\ Tail(b) \in Seq(Numbers) /\ Len(Tail(b)) = Len(b) - 1
    BY <1>2, HeadTailProperties
  <2>2. Len(b) \in Nat
    BY <1>2, LenProperties
  <2>3. Tail(b) = << >> <=> Len(Tail(b)) = 0
    BY <2>1, EmptySeq
  <2>4. QED
    BY <2>1, <2>2, <2>3
<1>4. Append(d, Head(b)) \in Seq(Numbers) /\ Append(d, Head(b)) \o Tail(b) = d \o b
  <2>1. Append(d, Head(b)) = d \o <<Head(b)>> /\ Append(d, Head(b)) \in Seq(Numbers)
    BY <1>2, <1>3, AppendIsConcat, AppendProperties
  <2>2. b = <<Head(b)>> \o Tail(b)
    <3>1. 1 \in 1..Len(b) /\ Len(b) \in 1..Len(b)
      BY <1>2, <1>3, EmptySeq
    <3>2. SubSeq(b, 1, Len(b)) = <<b[1]>> \o SubSeq(b, 1 + 1, Len(b))
      BY <1>2, <3>1, SubSeqRecursiveFirst
    <3>3. SubSeq(b, 1, Len(b)) = b /\ Tail(b) = SubSeq(b, 2, Len(b)) /\ Head(b) = b[1]
      BY <1>2, SubSeqFull, TailIsSubSeq
    <3>4. QED
      BY <3>2, <3>3
  <2>3. <<Head(b)>> \in Seq(Numbers)
    BY <1>3
  <2>4. (d \o <<Head(b)>>) \o Tail(b) = d \o (<<Head(b)>> \o Tail(b))
    <3> DEFINE h == <<Head(b)>>
               r == Tail(b)
    <3>1. h \in Seq(Numbers) /\ r \in Seq(Numbers) /\ d \in Seq(Numbers)
      BY <1>2, <1>3, <2>3
    <3> HIDE DEF h, r, d
    <3>2. (d \o h) \o r = d \o (h \o r)
      BY <3>1, ConcatAssociative
    <3>3. QED
      BY <3>2 DEF h, r
  <2>5. QED
    BY <2>1, <2>2, <2>4
<1>5. /\ delivered' = [delivered EXCEPT ![c][t] = Append(d, Head(b))]
      /\ batch' = [batch EXCEPT ![c] = Tail(b)]
      /\ handled' = [handled EXCEPT ![c] = TRUE]
      /\ worker' = [worker EXCEPT ![c] = IF Len(b) = 1 THEN "scan" ELSE "handle"]
      /\ UNCHANGED <<published, messages, running, control, toScan, topic>>
  BY DEF Handle
<1> HIDE DEF b, d
<1>6. TypeOK'
  <2>1. delivered' \in [Consumers -> [Topics -> Seq(Numbers)]]
    BY <1>1, <1>4, <1>5 DEF IInv, TypeOK, Numbers
  <2>2. batch' \in [Consumers -> Seq(Numbers)]
    BY <1>3, <1>5 DEF IInv, TypeOK, Numbers
  <2>3. \A e \in Consumers : batch'[e] # << >> <=> worker'[e] = "handle"
    BY <1>3, <1>5 DEF IInv, TypeOK
  <2>4. QED
    BY <1>5, <2>1, <2>2, <2>3 DEF IInv, TypeOK, Numbers
<1>7. ThreadStarted' /\ BatchOfTopic'
  BY <1>1, <1>5 DEF IInv, TypeOK, ThreadStarted, BatchOfTopic
<1>8. \A e \in Consumers, s \in Topics : Has(e, s)' = Has(e, s)
  <2> SUFFICES ASSUME NEW e \in Consumers, NEW s \in Topics
               PROVE  Has(e, s)' = Has(e, s)
    OBVIOUS
  <2>1. CASE e = c /\ s = t
    <3>1. /\ delivered'[e][s] = Append(d, Head(b)) /\ batch'[e] = Tail(b)
          /\ topic'[e] = s /\ topic[e] = s
      BY <1>1, <1>5, <2>1 DEF IInv, TypeOK
    <3>2. Has(e, s)' = Append(d, Head(b)) \o Tail(b)
      BY <3>1 DEF Has, InHand
    <3>3. Has(e, s) = d \o b
      BY <2>1, <3>1 DEF Has, InHand, d, b
    <3>4. QED
      BY <1>4, <2>1, <3>2, <3>3
  <2>2. CASE ~(e = c /\ s = t)
    <3>1. delivered'[e][s] = delivered[e][s]
      BY <1>5, <2>2 DEF IInv, TypeOK
    <3>2. InHand(e, s)' = InHand(e, s)
      BY <1>5, <2>2 DEF IInv, TypeOK, InHand
    <3>3. QED
      BY <3>1, <3>2 DEF Has
  <2>3. QED
    BY <2>1, <2>2
<1>9. QED
  BY <1>5, <1>6, <1>7, <1>8, NoMove DEF IInv
-----------------------------------------------------------------------------
\* A pop moves the oldest messages of a topic from the deque to one consumer.
LEMMA PopInv == ASSUME IInv, NEW c \in Consumers, NEW t \in Topics, Pop(c, t) PROVE IInv'
<1> DEFINE m == messages[t]
           n == Taken(t)
           b == SubSeq(m, 1, n)
           r == SubSeq(m, n + 1, Len(m))
           h == Has(c, t)
<1>1. /\ worker[c] = "scan" /\ batch[c] = << >>
      /\ toScan' = [toScan EXCEPT ![c] = @ \ {t}]
      /\ topic' = [topic EXCEPT ![c] = t]
      /\ batch' = [batch EXCEPT ![c] = b]
      /\ messages' = [messages EXCEPT ![t] = r]
      /\ worker' = [worker EXCEPT ![c] = IF n = 0 THEN "scan" ELSE "handle"]
      /\ UNCHANGED <<published, running, control, handled, delivered>>
  BY DEF Pop, IInv, TypeOK
<1>2. /\ m \in Seq(Numbers) /\ m \in Seq(Int) /\ h \in Seq(Numbers) /\ h \in Seq(Int)
      /\ Numbers \subseteq Int
  BY TypeOfHas, BusAssumption DEF IInv, Numbers
<1>3. n \in 0..Len(m)
  <2>1. Len(m) \in Nat
    BY <1>2, LenProperties
  <2>2. QED
    BY <2>1, BusAssumption DEF Taken
<1>4. /\ b \in Seq(Numbers) /\ r \in Seq(Numbers)
      /\ b \in Seq(Int) /\ r \in Seq(Int)
      /\ Len(b) = n /\ b \o r = m
  <2> HIDE DEF m, n
  <2>1. /\ b \in Seq(Numbers) /\ r \in Seq(Numbers) /\ Len(b) = n /\ b \o r = m
    BY <1>2, <1>3, TakenAndRest
  <2> HIDE DEF b, r
  <2>2. QED
    BY <1>2, <2>1, SeqMonotonic
<1>5. b = << >> <=> n = 0
  <2> HIDE DEF b, n
  <2>1. QED
    BY <1>4, EmptySeq
<1> HIDE DEF m, n, b, r
<1>6. TypeOK'
  <2>1. messages' \in [Topics -> Seq(Numbers)] /\ batch' \in [Consumers -> Seq(Numbers)]
    BY <1>1, <1>4 DEF IInv, TypeOK, Numbers
  <2>2. \A e \in Consumers : batch'[e] # << >> <=> worker'[e] = "handle"
    BY <1>1, <1>5 DEF IInv, TypeOK
  <2>3. QED
    BY <1>1, <2>1, <2>2 DEF IInv, TypeOK, Numbers
<1>7. ThreadStarted' /\ BatchOfTopic'
  BY <1>1 DEF IInv, TypeOK, ThreadStarted, BatchOfTopic
<1>8. /\ messages'[t] = r /\ \A s \in Topics \ {t} : messages'[s] = messages[s]
  BY <1>1 DEF IInv, TypeOK
<1>9. /\ Has(c, t)' = h \o b
      /\ \A e \in Consumers, s \in Topics : ~(e = c /\ s = t) => Has(e, s)' = Has(e, s)
  <2>1. InHand(c, t)' = b /\ InHand(c, t) = << >>
    BY <1>1 DEF IInv, TypeOK, InHand
  <2>2. delivered[c][t] \in Seq(Numbers)
    BY DEF IInv, TypeOK, Numbers
  <2>3. h = delivered[c][t]
    BY <2>1, <2>2, ConcatEmptySeq DEF Has
  <2>4. Has(c, t)' = h \o b
    BY <1>1, <2>1, <2>3 DEF Has
  <2>5. \A e \in Consumers, s \in Topics : ~(e = c /\ s = t) => InHand(e, s)' = InHand(e, s)
    BY <1>1 DEF IInv, TypeOK, InHand
  <2>6. QED
    BY <1>1, <2>4, <2>5 DEF Has
<1>10. AllOrdered /\ AllPlaced
  BY InTermsOfHas DEF IInv
<1>11. /\ Elements(m) = Elements(b) \cup Elements(r)
       /\ Elements(h \o b) = Elements(h) \cup Elements(b)
  <2> HIDE DEF h
  <2>1. QED
    BY <1>2, <1>4, ElementsOfConcat
<1>12. Ascending(h) /\ Ascending(m) /\ Before(h, m)
  BY <1>10 DEF AllOrdered, Ordered, m
<1>13. /\ Ascending(b) /\ Ascending(r) /\ Before(b, r) /\ Ascending(h \o b)
       /\ Before(h \o b, r)
  <2>1. Ascending(b) /\ Ascending(r) /\ Before(b, r)
    BY <1>4, <1>12, AscendingConcat
  <2>2. Before(h, b) /\ Before(h, r)
    BY <1>11, <1>12 DEF Before
  <2>3. Before(h \o b, r)
    BY <1>11, <2>1, <2>2 DEF Before
  <2> HIDE DEF h
  <2>4. Ascending(h \o b)
    BY <1>2, <1>4, <1>12, <2>1, <2>2, AscendingConcat
  <2>5. QED
    BY <2>1, <2>3, <2>4 DEF h
<1>14. AllOrdered'
  <2> SUFFICES ASSUME NEW e \in Consumers, NEW s \in Topics PROVE Ordered(e, s)'
    BY DEF AllOrdered
  <2>1. Ordered(e, s)
    BY <1>10 DEF AllOrdered
  <2>2. CASE s # t
    BY <1>8, <1>9, <2>1, <2>2 DEF Ordered, Before
  <2>3. CASE s = t /\ e = c
    BY <1>8, <1>9, <1>13, <2>3 DEF Ordered, Before
  <2>4. CASE s = t /\ e # c
    <3>1. Has(e, t)' = Has(e, t) /\ Ascending(Has(e, t)) /\ Before(Has(e, t), m)
      BY <1>9, <2>1, <2>4 DEF Ordered, m
    <3>2. Before(Has(e, t), r)
      BY <1>11, <3>1 DEF Before
    <3>3. QED
      BY <1>8, <1>13, <2>4, <3>1, <3>2 DEF Ordered, Before
  <2>5. QED
    BY <2>2, <2>3, <2>4
\* What c takes nobody else has: it was in the deque, which comes after all
\* that anybody has.
<1>15. \A e \in Consumers : Elements(Has(e, t)) \cap Elements(b) = {}
  <2> SUFFICES ASSUME NEW e \in Consumers, NEW x \in Elements(Has(e, t)), x \in Elements(b)
               PROVE  FALSE
    OBVIOUS
  <2>1. x < x
    BY <1>10, <1>11 DEF AllOrdered, Ordered, Before, m
  <2>2. x \in Int
    <3>1. Len(b) \in Nat /\ \A i \in 1..Len(b) : b[i] \in Int
      BY <1>4, LenProperties, ElementOfSeq
    <3>2. QED
      BY <3>1 DEF Elements
  <2>3. QED
    BY <2>1, <2>2
<1>16. AllPlaced'
  <2>1. ASSUME NEW s \in Topics, NEW e \in Consumers, NEW f \in Consumers, e # f
        PROVE  Disjoint(e, f, s)'
    <3>1. Disjoint(e, f, s)
      BY <1>10, <2>1 DEF AllPlaced
    <3>2. CASE s # t \/ (e # c /\ f # c)
      BY <1>9, <3>1, <3>2, <2>1 DEF Disjoint
    <3>3. CASE s = t /\ e = c
      BY <1>9, <1>11, <1>15, <2>1, <3>1, <3>3 DEF Disjoint
    <3>4. CASE s = t /\ f = c
      BY <1>9, <1>11, <1>15, <2>1, <3>1, <3>4 DEF Disjoint
    <3>5. QED
      BY <3>2, <3>3, <3>4
  <2>2. ASSUME NEW s \in Topics, s # t PROVE Complete(s)'
    BY <1>1, <1>8, <1>9, <1>10, <2>2 DEF AllPlaced, Complete
  <2>3. Complete(t)'
    <3> DEFINE before == UNION {Elements(Has(e, t)) : e \in Consumers}
               after == UNION {Elements(Has(e, t)') : e \in Consumers}
    <3>1. 1..published[t] = Elements(m) \cup before
      BY <1>10 DEF AllPlaced, Complete, m
    <3>2. after = before \cup Elements(b)
      <4>1. Elements(Has(c, t)') = Elements(Has(c, t)) \cup Elements(b)
        BY <1>9, <1>11
      <4>2. \A e \in Consumers \ {c} : Elements(Has(e, t)') = Elements(Has(e, t))
        BY <1>9
      <4>3. QED
        BY <4>1, <4>2
    <3>3. 1..published[t] = Elements(r) \cup after
      BY <1>11, <3>1, <3>2
    <3>4. QED
      BY <1>1, <1>8, <3>3 DEF Complete
  <2>4. QED
    BY <2>1, <2>2, <2>3 DEF AllPlaced
<1>17. QED
  BY <1>6, <1>7, <1>14, <1>16, InTermsOfHasNext DEF IInv
-----------------------------------------------------------------------------
\* Every step preserves the invariant.
LEMMA NextInv == IInv /\ [Next]_vars => IInv'
<1> SUFFICES ASSUME IInv, [Next]_vars PROVE IInv'
  OBVIOUS
<1>1. CASE UNCHANGED vars
  <2>1. UNCHANGED <<published, messages, running, control, worker, toScan, topic,
                    batch, handled, delivered>>
    BY <1>1 DEF vars, workerVars
  <2>2. TypeOK' /\ ThreadStarted' /\ BatchOfTopic'
    BY <2>1 DEF IInv, TypeOK, ThreadStarted, BatchOfTopic
  <2>3. \A c \in Consumers, t \in Topics : Has(c, t)' = Has(c, t)
    BY <2>1 DEF Has, InHand
  <2>4. QED
    BY <2>1, <2>2, <2>3, NoMove DEF IInv
<1>2. CASE Next
  BY <1>2, PublishInv, ControlInv, PassInv, PopInv, HandleInv DEF Next, WorkerStep
<1>3. QED
  BY <1>1, <1>2

\* The bus, the consumers and their threads keep the types TypeOK gives them;
\* a thread is in its loop over a batch just when it has one in hand.
THEOREM TypeCorrect == Spec => []TypeOK
<1>1. IInv => TypeOK
  BY DEF IInv
<1>2. QED
  BY InitInv, NextInv, <1>1, PTL DEF Spec

\* For any consumers that compete for the topics and are started and stopped
\* in any order, no message is lost and none goes to two of them.
THEOREM EveryMessageInOnePlace == Spec => []ExactlyOnePlace
<1>1. IInv => ExactlyOnePlace
  BY DEF IInv
<1>2. QED
  BY InitInv, NextInv, <1>1, PTL DEF Spec

\* Each consumer handles the messages of a topic in the order in which they
\* were published, and none twice.
THEOREM MessagesInOrder == Spec => []InOrder
<1>1. IInv => InOrder
  BY DEF IInv
<1>2. QED
  BY InitInv, NextInv, <1>1, PTL DEF Spec
=============================================================================
