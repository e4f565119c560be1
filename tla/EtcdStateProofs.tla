--------------------------- MODULE EtcdStateProofs ---------------------------
(***************************************************************************)
(* EtcdState for any clients and any objects.                              *)
(***************************************************************************)
EXTENDS EtcdState, TLAPS

\* Every call inside the state is inside the object the table points to.
HeldIsCurrent == \A c \in Clients : holds[c] # None => holds[c] = current

\* Whoever was told that it leads is the leader of the live state.
LeadingIsLeader ==
    \A c \in leading : Live(current) /\ content[current].leader = c

\* Nobody has been told a value before the live state has one.
NothingToldYet ==
    ~Live(current) \/ content[current].value = Nobody =>
        \A c \in Clients : told[c] = Nobody

IInv == /\ TypeOK /\ HeldIsCurrent /\ LeadingIsLeader /\ NothingToldYet
        /\ WatchersUpToDate
-----------------------------------------------------------------------------
\* A new object has no services, no watchers, no leader.
LEMMA FreshContent == Fresh \in Content
  BY DEF Fresh, Content

\* At first nobody is inside.
LEMMA InitInv == Init => IInv
<1> SUFFICES ASSUME Init PROVE IInv
  OBVIOUS
<1> USE DEF Init
<1>1. \A o \in Objects : ~Live(o)
  BY DEF Live
<1>2. TypeOK
  BY FreshContent DEF TypeOK, Ops
<1>3. HeldIsCurrent /\ LeadingIsLeader /\ NothingToldYet /\ WatchersUpToDate
  BY <1>1 DEF HeldIsCurrent, LeadingIsLeader, NothingToldYet, WatchersUpToDate
<1>4. QED
  BY <1>2, <1>3 DEF IInv

\* The only object that can be live is the one in the table.
LEMMA LiveIsCurrent == ASSUME IInv, NEW o, Live(o) PROVE o = current
  BY DEF IInv, HeldIsCurrent, Live
-----------------------------------------------------------------------------
\* GetState joins the live object, or makes one when none is live.
LEMMA BeginInv == ASSUME IInv, NEW c \in Clients, NEW o \in Ops, Begin(c, o) PROVE IInv'
<1>1. /\ UNCHANGED <<content, view, told, leading>>
      /\ holds[c] = None
      /\ pc' = [pc EXCEPT ![c] = "called"]
      /\ op' = [op EXCEPT ![c] = o]
  BY DEF Begin, histVars, IInv, TypeOK
<1>2. \A x : Live(x) => x = current
  BY LiveIsCurrent
<1>3. /\ current' \in Objects
      /\ holds' = [holds EXCEPT ![c] = current']
      /\ Live(current) => current' = current
      /\ Live(current) \/ content[current'] = Fresh
  <2>1. CASE Live(current) /\ holds' = [holds EXCEPT ![c] = current]
                           /\ UNCHANGED current
    BY <2>1 DEF Live, IInv, TypeOK
  <2>2. CASE ~Live(current) /\ NewObject(c)
    BY <2>2 DEF NewObject, IInv, TypeOK
  <2>3. QED
    BY <2>1, <2>2 DEF Begin, GetState
<1>4. \A d \in Clients : holds[d] # None => Live(current) /\ holds[d] = current
  BY DEF IInv, HeldIsCurrent, Live
<1>5. /\ holds'[c] = current' /\ current' # None
      /\ \A d \in Clients \ {c} : holds'[d] = holds[d]
  BY <1>3, EtcdAssumption DEF IInv, TypeOK
<1>6. /\ Live(current)'
      /\ \A x \in Objects : Live(x) => Live(x)'
      /\ \A x \in Objects : Live(x)' => x = current'
  BY <1>1, <1>3, <1>4, <1>5 DEF Live
<1>7. TypeOK'
  <2>1. \A x \in Objects : ~Live(x)' => content'[x] = Fresh
    BY <1>1, <1>6 DEF IInv, TypeOK
  <2>2. holds' \in [Clients -> Objects \cup {None}]
    BY <1>3 DEF IInv, TypeOK
  <2>3. \A d \in Clients : holds'[d] = None <=> pc'[d] = "idle"
    BY <1>1, <1>5 DEF IInv, TypeOK
  <2>4. QED
    BY <1>1, <1>3, <2>1, <2>2, <2>3 DEF IInv, TypeOK
<1>8. HeldIsCurrent'
  BY <1>3, <1>4, <1>5 DEF HeldIsCurrent
<1>9. LeadingIsLeader' /\ NothingToldYet'
  BY <1>1, <1>3, <1>6 DEF IInv, LeadingIsLeader, NothingToldYet, Fresh
<1>10. WatchersUpToDate'
  <2>1. SUFFICES ASSUME NEW x \in Objects, x = current'
                 PROVE  /\ \A d \in content[x].watchers : view[d] = content[x].services
                        /\ \A d \in content[x].keyWatchers : told[d] = content[x].value
    BY <1>1, <1>6 DEF WatchersUpToDate
  <2>2. CASE Live(current)
    BY <1>3, <2>1, <2>2 DEF IInv, WatchersUpToDate
  <2>3. CASE content[x] = Fresh
    BY <2>3 DEF Fresh
  <2>4. QED
    BY <1>3, <2>1, <2>2, <2>3
<1>11. QED
  BY <1>7, <1>8, <1>9, <1>10 DEF IInv
-----------------------------------------------------------------------------
\* A locked section works on the live object.
LEMMA RunOnCurrent ==
    ASSUME IInv, NEW c \in Clients, pc[c] = "called"
    PROVE  /\ holds[c] = current /\ current \in Objects /\ Live(current)
           /\ content[current] \in Content
  BY EtcdAssumption DEF IInv, TypeOK, HeldIsCurrent, Live

\* A locked section that leaves the watchers with the services and the value,
\* and leads nobody but the leader, preserves the invariant.
LEMMA RunInv ==
    ASSUME IInv, NEW c \in Clients, NEW o \in Ops, NEW new \in Content,
           Run(c, o, new),
           view' \in [Clients -> SUBSET Clients],
           told' \in [Clients -> Clients \cup {Nobody}],
           leading' \subseteq Clients,
           \A d \in new.watchers : view'[d] = new.services,
           \A d \in new.keyWatchers : told'[d] = new.value,
           new.value = Nobody => \A d \in Clients : told'[d] = Nobody,
           \A d \in leading' : new.leader = d
    PROVE  IInv'
<1>1. /\ pc[c] = "called" /\ pc' = [pc EXCEPT ![c] = "ran"]
      /\ content' = [content EXCEPT ![holds[c]] = new]
      /\ UNCHANGED <<current, op, holds>>
  BY DEF Run
<1>2. holds[c] = current /\ current \in Objects /\ Live(current)
  BY <1>1, RunOnCurrent
<1>3. /\ content' \in [Objects -> Content]
      /\ content'[current] = new
      /\ \A x \in Objects \ {current} : content'[x] = content[x]
  BY <1>1, <1>2 DEF IInv, TypeOK
<1>4. \A x : Live(x)' <=> Live(x)
  BY <1>1 DEF Live
<1>5. \A x : Live(x) => x = current
  BY LiveIsCurrent
<1>6. TypeOK'
  <2>1. \A x \in Objects : ~Live(x)' => content'[x] = Fresh
    BY <1>2, <1>3, <1>4 DEF IInv, TypeOK
  <2>2. \A d \in Clients : holds'[d] = None <=> pc'[d] = "idle"
    BY <1>1 DEF IInv, TypeOK
  <2>3. QED
    BY <1>1, <1>3, <2>1, <2>2 DEF IInv, TypeOK
<1>7. HeldIsCurrent'
  BY <1>1 DEF IInv, HeldIsCurrent
<1>8. LeadingIsLeader' /\ NothingToldYet'
  BY <1>1, <1>2, <1>3, <1>4 DEF LeadingIsLeader, NothingToldYet
<1>9. WatchersUpToDate'
  BY <1>3, <1>4, <1>5 DEF WatchersUpToDate
<1>10. QED
  BY <1>6, <1>7, <1>8, <1>9 DEF IInv

\* Each locked section is of that kind.
LEMMA OperationInv ==
    ASSUME IInv, NEW c \in Clients,
           \/ Register(c) \/ Deregister(c) \/ Resolve(c) \/ Watch(c)
           \/ Put(c) \/ Get(c) \/ WatchKey(c)
           \/ TryLock(c) \/ Unlock(c) \/ Campaign(c)
    PROVE  IInv'
<1> DEFINE old == content[holds[c]]
<1>1. pc[c] = "called"
  BY DEF Register, Deregister, Resolve, Watch, Put, Get, WatchKey, TryLock,
         Unlock, Campaign, Run
<1>2. /\ old \in Content /\ old = content[current]
      /\ \A d \in old.watchers : view[d] = old.services
      /\ \A d \in old.keyWatchers : told[d] = old.value
      /\ old.value = Nobody => \A d \in Clients : told[d] = Nobody
      /\ \A d \in leading : old.leader = d
  BY <1>1, RunOnCurrent DEF IInv, WatchersUpToDate, LeadingIsLeader, NothingToldYet
<1>3. /\ view \in [Clients -> SUBSET Clients]
      /\ told \in [Clients -> Clients \cup {Nobody}]
      /\ leading \subseteq Clients
  BY DEF IInv, TypeOK
<1>4. \A o \in {"Register", "Deregister", "Resolve", "Watch", "Put", "Get",
                "WatchKey", "TryLock", "Unlock", "Campaign"} : o \in Ops
  BY DEF Ops
<1>5. CASE Register(c)
  <2> DEFINE new == [old EXCEPT !.services = old.services \cup {c}]
  <2>1. /\ Run(c, "Register", new)
        /\ Notify(old.watchers, old.services \cup {c})
        /\ UNCHANGED <<told, leading>>
    BY <1>5 DEF Register
  <2>2. new \in Content /\ new.watchers = old.watchers
        /\ new.services = old.services \cup {c} /\ new.leader = old.leader
        /\ new.keyWatchers = old.keyWatchers /\ new.value = old.value
        /\ new.services \subseteq Clients /\ old.watchers \subseteq Clients
    BY <1>2 DEF Content
  <2>3. /\ view' \in [Clients -> SUBSET Clients]
        /\ \A d \in new.watchers : view'[d] = new.services
    BY <1>3, <2>1, <2>2 DEF Notify
  <2> HIDE DEF new, old
  <2>4. QED
    BY <1>2, <1>3, <1>4, <2>1, <2>2, <2>3, RunInv
<1>6. CASE Deregister(c)
  <2> DEFINE new == [old EXCEPT !.services = old.services \ {c}]
  <2>1. /\ Run(c, "Deregister", new)
        /\ Notify(old.watchers, old.services \ {c})
        /\ UNCHANGED <<told, leading>>
    BY <1>6 DEF Deregister
  <2>2. new \in Content /\ new.watchers = old.watchers
        /\ new.services = old.services \ {c} /\ new.leader = old.leader
        /\ new.keyWatchers = old.keyWatchers /\ new.value = old.value
        /\ new.services \subseteq Clients /\ old.watchers \subseteq Clients
    BY <1>2 DEF Content
  <2>3. /\ view' \in [Clients -> SUBSET Clients]
        /\ \A d \in new.watchers : view'[d] = new.services
    BY <1>3, <2>1, <2>2 DEF Notify
  <2> HIDE DEF new, old
  <2>4. QED
    BY <1>2, <1>3, <1>4, <2>1, <2>2, <2>3, RunInv
<1>7. CASE Watch(c)
  <2> DEFINE new == [old EXCEPT !.watchers = old.watchers \cup {c}]
  <2>1. /\ Run(c, "Watch", new)
        /\ Notify({c}, old.services)
        /\ UNCHANGED <<told, leading>>
    BY <1>7 DEF Watch
  <2>2. new \in Content /\ new.watchers = old.watchers \cup {c}
        /\ new.services = old.services /\ new.leader = old.leader
        /\ new.keyWatchers = old.keyWatchers /\ new.value = old.value
        /\ old.services \subseteq Clients /\ old.watchers \subseteq Clients
    BY <1>2 DEF Content
  <2>3. /\ view' \in [Clients -> SUBSET Clients]
        /\ \A d \in new.watchers : view'[d] = new.services
    BY <1>2, <1>3, <2>1, <2>2 DEF Notify
  <2> HIDE DEF new, old
  <2>4. QED
    BY <1>2, <1>3, <1>4, <2>1, <2>2, <2>3, RunInv
<1>8. CASE Put(c)
  <2> DEFINE new == [old EXCEPT !.value = c]
  <2>1. /\ Run(c, "Put", new)
        /\ Tell(old.keyWatchers, c)
        /\ UNCHANGED <<view, leading>>
    BY <1>8 DEF Put
  <2>2. new \in Content /\ new.watchers = old.watchers
        /\ new.services = old.services /\ new.leader = old.leader
        /\ new.keyWatchers = old.keyWatchers /\ new.value = c
        /\ old.keyWatchers \subseteq Clients
    BY <1>2 DEF Content
  <2>3. /\ told' \in [Clients -> Clients \cup {Nobody}]
        /\ \A d \in new.keyWatchers : told'[d] = new.value
    BY <1>3, <2>1, <2>2 DEF Tell
  <2> HIDE DEF new, old
  <2>4. QED
    BY <1>2, <1>3, <1>4, <2>1, <2>2, <2>3, RunInv, EtcdAssumption
<1>9. CASE WatchKey(c)
  <2> DEFINE new == [old EXCEPT !.keyWatchers = old.keyWatchers \cup {c}]
  <2>1. /\ Run(c, "WatchKey", new)
        /\ Tell(IF old.value = Nobody THEN {} ELSE {c}, old.value)
        /\ UNCHANGED <<view, leading>>
    BY <1>9 DEF WatchKey
  <2>2. new \in Content /\ new.watchers = old.watchers
        /\ new.services = old.services /\ new.leader = old.leader
        /\ new.keyWatchers = old.keyWatchers \cup {c} /\ new.value = old.value
        /\ old.keyWatchers \subseteq Clients /\ old.value \in Clients \cup {Nobody}
    BY <1>2 DEF Content
  <2>3. /\ told' \in [Clients -> Clients \cup {Nobody}]
        /\ \A d \in new.keyWatchers : told'[d] = new.value
        /\ new.value = Nobody => UNCHANGED told
    BY <1>2, <1>3, <2>1, <2>2 DEF Tell
  <2> HIDE DEF new, old
  <2>4. QED
    BY <1>2, <1>3, <1>4, <2>1, <2>2, <2>3, RunInv
<1>10. CASE TryLock(c)
  <2> DEFINE new == [old EXCEPT !.locked = TRUE]
  <2>1. /\ Run(c, "TryLock", new)
        /\ UNCHANGED <<view, told, leading>>
    BY <1>10 DEF TryLock, histVars
  <2>2. new \in Content /\ new.watchers = old.watchers
        /\ new.services = old.services /\ new.leader = old.leader
        /\ new.keyWatchers = old.keyWatchers /\ new.value = old.value
    BY <1>2 DEF Content
  <2> HIDE DEF new, old
  <2>3. QED
    BY <1>2, <1>3, <1>4, <2>1, <2>2, RunInv
<1>11. CASE Unlock(c)
  <2> DEFINE new == [old EXCEPT !.locked = FALSE]
  <2>1. /\ Run(c, "Unlock", new)
        /\ UNCHANGED <<view, told, leading>>
    BY <1>11 DEF Unlock, histVars
  <2>2. new \in Content /\ new.watchers = old.watchers
        /\ new.services = old.services /\ new.leader = old.leader
        /\ new.keyWatchers = old.keyWatchers /\ new.value = old.value
    BY <1>2 DEF Content
  <2> HIDE DEF new, old
  <2>3. QED
    BY <1>2, <1>3, <1>4, <2>1, <2>2, RunInv
<1>12. CASE Campaign(c)
  <2> DEFINE leader == IF old.leader = Nobody THEN c ELSE old.leader
             new == [old EXCEPT !.leader = leader]
  <2>1. /\ Run(c, "Campaign", new)
        /\ leading' = IF leader = c THEN leading \cup {c} ELSE leading
        /\ UNCHANGED <<view, told>>
    BY <1>12 DEF Campaign
  <2>2. new \in Content /\ new.watchers = old.watchers
        /\ new.services = old.services /\ new.leader = leader
        /\ new.keyWatchers = old.keyWatchers /\ new.value = old.value
    BY <1>2 DEF Content
  <2>3. \A d \in leading' : new.leader = d
    BY <1>2, <1>3, <2>1, <2>2, EtcdAssumption
  <2> HIDE DEF new, old, leader
  <2>4. QED
    BY <1>2, <1>3, <1>4, <2>1, <2>2, <2>3, RunInv
<1>13. CASE Resolve(c) \/ Get(c)
  <2>1. /\ Run(c, "Resolve", old) \/ Run(c, "Get", old)
        /\ UNCHANGED <<view, told, leading>>
    BY <1>13 DEF Resolve, Get, histVars
  <2> HIDE DEF old
  <2>2. QED
    BY <1>2, <1>3, <1>4, <2>1, RunInv
<1>14. QED
  BY <1>5, <1>6, <1>7, <1>8, <1>9, <1>10, <1>11, <1>12, <1>13
-----------------------------------------------------------------------------
\* The last call to leave takes everything along; another one leaves the
\* state to those inside.
LEMMA ReturnInv == ASSUME IInv, NEW c \in Clients, Return(c) PROVE IInv'
<1>1. /\ pc[c] = "ran" /\ pc' = [pc EXCEPT ![c] = "idle"]
      /\ holds' = [holds EXCEPT ![c] = None]
      /\ UNCHANGED <<current, op>>
  BY DEF Return
<1>2. /\ holds[c] = current /\ current \in Objects /\ Live(current)
  BY <1>1, EtcdAssumption DEF IInv, TypeOK, HeldIsCurrent, Live
<1>3. /\ holds'[c] = None
      /\ \A d \in Clients \ {c} : holds'[d] = holds[d]
  BY <1>1 DEF IInv, TypeOK
<1>4. \A x : Live(x)' => Live(x) /\ x = current
  BY <1>3, LiveIsCurrent DEF Live
<1>5. /\ holds' \in [Clients -> Objects \cup {None}]
      /\ pc' \in [Clients -> {"idle", "called", "ran"}]
      /\ \A d \in Clients : holds'[d] = None <=> pc'[d] = "idle"
  BY <1>1, <1>3 DEF IInv, TypeOK
<1>6. HeldIsCurrent'
  BY <1>1, <1>3 DEF IInv, HeldIsCurrent
<1>7. CASE /\ \E d \in Clients \ {c} : holds[d] = holds[c]
           /\ UNCHANGED <<content, view, told, leading>>
  <2>1. Live(current)'
    BY <1>2, <1>1, <1>3, <1>7, EtcdAssumption DEF Live
  <2>2. TypeOK'
    <3>1. \A x \in Objects : ~Live(x)' => content'[x] = Fresh
      BY <1>1, <1>7, <2>1, LiveIsCurrent DEF IInv, TypeOK
    <3>2. QED
      BY <1>1, <1>5, <1>7, <3>1 DEF IInv, TypeOK
  <2>3. LeadingIsLeader' /\ NothingToldYet'
    BY <1>1, <1>2, <1>7, <2>1 DEF IInv, LeadingIsLeader, NothingToldYet
  <2>4. WatchersUpToDate'
    BY <1>4, <1>7 DEF IInv, WatchersUpToDate
  <2>5. QED
    BY <1>6, <2>2, <2>3, <2>4 DEF IInv
<1>8. CASE /\ ~ \E d \in Clients \ {c} : holds[d] = holds[c]
           /\ content' = [content EXCEPT ![holds[c]] = Fresh]
           /\ view' = [d \in Clients |-> {}]
           /\ told' = [d \in Clients |-> Nobody]
           /\ leading' = {}
  <2>1. \A x : ~Live(x)'
    BY <1>2, <1>3, <1>4, <1>8 DEF Live
  <2>2. /\ content' \in [Objects -> Content]
        /\ \A x \in Objects : content'[x] = Fresh
    BY <1>2, <1>8, FreshContent, LiveIsCurrent DEF IInv, TypeOK
  <2>3. TypeOK'
    BY <1>1, <1>5, <1>8, <2>2 DEF IInv, TypeOK
  <2>4. LeadingIsLeader' /\ NothingToldYet' /\ WatchersUpToDate'
    BY <1>8, <2>1 DEF LeadingIsLeader, NothingToldYet, WatchersUpToDate
  <2>5. QED
    BY <1>6, <2>3, <2>4 DEF IInv
<1>9. QED
  BY <1>7, <1>8 DEF Return
-----------------------------------------------------------------------------
\* Every step preserves the invariant.
LEMMA NextInv == IInv /\ [Next]_vars => IInv'
<1> SUFFICES ASSUME IInv, [Next]_vars PROVE IInv'
  OBVIOUS
<1>1. CASE UNCHANGED vars
  <2>1. \A x : Live(x)' <=> Live(x)
    BY <1>1 DEF vars, Live
  <2>2. UNCHANGED <<current, content, pc, op, holds, view, told, leading>>
    BY <1>1 DEF vars, histVars
  <2>3. /\ TypeOK' /\ HeldIsCurrent' /\ LeadingIsLeader' /\ NothingToldYet'
        /\ WatchersUpToDate'
    BY <2>1, <2>2 DEF IInv, TypeOK, HeldIsCurrent, LeadingIsLeader,
                      NothingToldYet, WatchersUpToDate
  <2>4. QED
    BY <2>3 DEF IInv
<1>2. CASE Next
  BY <1>2, BeginInv, OperationInv, ReturnInv DEF Next
<1>3. QED
  BY <1>1, <1>2

\* The states, the calls and what the clients were told keep the types TypeOK
\* gives them, and a state nobody holds has left nothing behind.
THEOREM TypeCorrect == Spec => []TypeOK
<1>1. IInv => TypeOK
  BY DEF IInv
<1>2. QED
  BY InitInv, NextInv, <1>1, PTL DEF Spec

\* GetState never gives two live states to the same endpoints, for any number
\* of calls that overlap.
THEOREM AtMostOneLiveState == Spec => []OneLiveState
<1>1. IInv => OneLiveState
  BY DEF IInv, HeldIsCurrent, OneLiveState
<1>2. QED
  BY InitInv, NextInv, <1>1, PTL DEF Spec

\* The watchers of a live state, of its services and of its key, have been
\* told them as they are.
THEOREM WatchersAreUpToDate == Spec => []WatchersUpToDate
<1>1. IInv => WatchersUpToDate
  BY DEF IInv
<1>2. QED
  BY InitInv, NextInv, <1>1, PTL DEF Spec

\* Within the life of one state at most one candidate is told that it leads.
THEOREM AtMostOneLeader == Spec => []OneLeaderPerState
<1>1. IInv => OneLeaderPerState
  BY DEF IInv, LeadingIsLeader, OneLeaderPerState
<1>2. QED
  BY InitInv, NextInv, <1>1, PTL DEF Spec
=============================================================================
