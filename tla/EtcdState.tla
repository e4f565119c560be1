------------------------------ MODULE EtcdState ------------------------------
(***************************************************************************)
(* infrastructure/coordination/impl/etcd: the in-memory stand-in for etcd. *)
(* The registry, the resolver, the configuration provider, the lock and    *)
(* the election keep nothing but the endpoints string; each of their calls *)
(* asks GetState for the state shared by these endpoints, works on it      *)
(* under its mutex, and drops its shared_ptr when it returns.  GetState's  *)
(* own table holds weak_ptrs only, so the state lives exactly as long as   *)
(* some call is inside it.                                                 *)
(*                                                                         *)
(* One service, one configuration key, one lock and one election are       *)
(* modelled; an instance, a value and a candidate are named by the client  *)
(* that registers, puts or stands.                                         *)
(***************************************************************************)
EXTENDS Integers, FiniteSets

CONSTANTS Clients, \* threads that call the coordination objects
          Nobody,  \* no client
          Objects, \* identities of state objects, taken again after their death
          None     \* no object

\* Each call holds at most one object: one for each client is enough.
ASSUME EtcdAssumption == /\ Nobody \notin Clients
                         /\ None \notin Objects
                         /\ IsFiniteSet(Clients) /\ IsFiniteSet(Objects)
                         /\ Cardinality(Objects) >= Cardinality(Clients)

VARIABLES
    current,  \* the object the weak_ptr in GetState's table points to
    content,  \* the content of each object; a dead one has the fresh content
    pc, op,   \* each client's call: where it is, which operation
    holds,    \* the object each client has a shared_ptr to
    \* History:
    view,     \* the instances last delivered to each watcher of the live state
    told,     \* the value last delivered to each watcher of the key there
    leading   \* clients told that they lead, by the live state

histVars == <<view, told, leading>>
vars == <<current, content, pc, op, holds, histVars>>

Ops == {"Register", "Deregister", "Resolve", "Watch", "Put", "Get",
        "WatchKey", "TryLock", "Unlock", "Campaign"}
Fresh == [services |-> {}, watchers |-> {}, value |-> Nobody, keyWatchers |-> {},
          locked |-> FALSE, leader |-> Nobody]

Init == /\ current = None
        /\ content = [o \in Objects |-> Fresh]
        /\ pc = [c \in Clients |-> "idle"]
        /\ op = [c \in Clients |-> "Resolve"]
        /\ holds = [c \in Clients |-> None]
        /\ view = [c \in Clients |-> {}]
        /\ told = [c \in Clients |-> Nobody]
        /\ leading = {}

Live(o) == o # None /\ \E c \in Clients : holds[c] = o

\* A new object, at an address no live one has.
NewObject(c) == \E o \in Objects :
    /\ ~Live(o)
    /\ current' = o
    /\ holds' = [holds EXCEPT ![c] = o]

\* Mutant of GetState: the table is not consulted.
GetStateAlwaysNew(c) == NewObject(c)

\* GetState: the live object of the endpoints, or a new and empty one.
GetState(c) ==
    \/ /\ Live(current)
       /\ holds' = [holds EXCEPT ![c] = current]
       /\ UNCHANGED current
    \/ ~Live(current) /\ NewObject(c)

\* A client may call anything at any time, Unlock without a lock too.
Begin(c, o) ==
    /\ pc[c] = "idle"
    /\ GetState(c)
    /\ pc' = [pc EXCEPT ![c] = "called"]
    /\ op' = [op EXCEPT ![c] = o]
    /\ UNCHANGED <<content, histVars>>

\* The locked section of operation o of client c, on the object it holds,
\* which becomes new.
Run(c, o, new) ==
    /\ pc[c] = "called"
    /\ op[c] = o
    /\ pc' = [pc EXCEPT ![c] = "ran"]
    /\ content' = [content EXCEPT ![holds[c]] = new]
    /\ UNCHANGED <<current, op, holds>>

\* The callbacks of watchers are called with a snapshot of the instances.
Notify(watchers, instances) ==
    view' = [c \in Clients |-> IF c \in watchers THEN instances ELSE view[c]]

Register(c) ==
    LET old == content[holds[c]]
        instances == old.services \cup {c}
    IN  /\ Run(c, "Register", [old EXCEPT !.services = instances])
        /\ Notify(old.watchers, instances)
        /\ UNCHANGED <<told, leading>>

\* Mutant of Deregister: the watchers are not told.
DeregisterSilently(c) ==
    LET old == content[holds[c]]
    IN  /\ Run(c, "Deregister", [old EXCEPT !.services = @ \ {c}])
        /\ UNCHANGED histVars

Deregister(c) ==
    LET old == content[holds[c]]
        instances == old.services \ {c}
    IN  /\ Run(c, "Deregister", [old EXCEPT !.services = instances])
        /\ Notify(old.watchers, instances)
        /\ UNCHANGED <<told, leading>>

\* Resolve returns the services of the object it holds.
Resolve(c) ==
    /\ Run(c, "Resolve", content[holds[c]])
    /\ UNCHANGED histVars

Watch(c) ==
    LET old == content[holds[c]]
    IN  /\ Run(c, "Watch", [old EXCEPT !.watchers = @ \cup {c}])
        /\ Notify({c}, old.services)
        /\ UNCHANGED <<told, leading>>

\* NotifyConfigWatchers: the callbacks are called with the new value.
Tell(watchers, value) ==
    told' = [c \in Clients |-> IF c \in watchers THEN value ELSE told[c]]

Put(c) ==
    LET old == content[holds[c]]
    IN  /\ Run(c, "Put", [old EXCEPT !.value = c])
        /\ Tell(old.keyWatchers, c)
        /\ UNCHANGED <<view, leading>>

\* Get returns the value of the object it holds, or the empty string.
Get(c) ==
    /\ Run(c, "Get", content[holds[c]])
    /\ UNCHANGED histVars

\* A new watcher of the key is told its value at once, if it has one.
WatchKey(c) ==
    LET old == content[holds[c]]
    IN  /\ Run(c, "WatchKey", [old EXCEPT !.keyWatchers = @ \cup {c}])
        /\ Tell(IF old.value = Nobody THEN {} ELSE {c}, old.value)
        /\ UNCHANGED <<view, leading>>

\* The time to live of the lock is stored and never looked at.
TryLock(c) ==
    /\ Run(c, "TryLock", [content[holds[c]] EXCEPT !.locked = TRUE])
    /\ UNCHANGED histVars

\* Nobody asks who holds the lock.
Unlock(c) ==
    /\ Run(c, "Unlock", [content[holds[c]] EXCEPT !.locked = FALSE])
    /\ UNCHANGED histVars

\* Mutant of Campaign: the newest candidate takes over.
CampaignTakesOver(c) ==
    LET old == content[holds[c]]
    IN  /\ Run(c, "Campaign", [old EXCEPT !.leader = c])
        /\ leading' = leading \cup {c}
        /\ UNCHANGED <<view, told>>

\* The first candidate leads, and the callback tells each whether it does.
\* (Resign does nothing.)
Campaign(c) ==
    LET old == content[holds[c]]
        leader == IF old.leader = Nobody THEN c ELSE old.leader
    IN  /\ Run(c, "Campaign", [old EXCEPT !.leader = leader])
        /\ leading' = IF leader = c THEN leading \cup {c} ELSE leading
        /\ UNCHANGED <<view, told>>

\* Mutant of Return: the state outlives its calls.
ReturnLeavesState(c) ==
    /\ pc[c] = "ran"
    /\ pc' = [pc EXCEPT ![c] = "idle"]
    /\ holds' = [holds EXCEPT ![c] = None]
    /\ UNCHANGED <<current, content, op, histVars>>

\* The call returns and drops its shared_ptr; the last one to leave takes the
\* object, with its watchers and its leader, along.
Return(c) ==
    /\ pc[c] = "ran"
    /\ pc' = [pc EXCEPT ![c] = "idle"]
    /\ holds' = [holds EXCEPT ![c] = None]
    /\ IF \E d \in Clients \ {c} : holds[d] = holds[c]
         THEN UNCHANGED <<content, view, told, leading>>
         ELSE /\ content' = [content EXCEPT ![holds[c]] = Fresh]
              /\ view' = [d \in Clients |-> {}]
              /\ told' = [d \in Clients |-> Nobody]
              /\ leading' = {}
    /\ UNCHANGED <<current, op>>

Next == \E c \in Clients :
            \/ \E o \in Ops : Begin(c, o)
            \/ Register(c) \/ Deregister(c) \/ Resolve(c) \/ Watch(c)
            \/ Put(c) \/ Get(c) \/ WatchKey(c)
            \/ TryLock(c) \/ Unlock(c) \/ Campaign(c)
            \/ Return(c)

Spec == Init /\ [][Next]_vars
-----------------------------------------------------------------------------
Content == [services : SUBSET Clients, watchers : SUBSET Clients,
            value : Clients \cup {Nobody}, keyWatchers : SUBSET Clients,
            locked : BOOLEAN, leader : Clients \cup {Nobody}]

\* Type correctness; a state nobody holds has left nothing behind.
TypeOK == /\ current \in Objects \cup {None}
          /\ content \in [Objects -> Content]
          /\ \A o \in Objects : ~Live(o) => content[o] = Fresh
          /\ pc \in [Clients -> {"idle", "called", "ran"}]
          /\ op \in [Clients -> Ops]
          /\ holds \in [Clients -> Objects \cup {None}]
          /\ \A c \in Clients : holds[c] = None <=> pc[c] = "idle"
          /\ view \in [Clients -> SUBSET Clients]
          /\ told \in [Clients -> Clients \cup {Nobody}]
          /\ leading \subseteq Clients

\* The endpoints never have two live states: calls that overlap share one, in
\* spite of the states that come and go with them.
OneLiveState == \A c, d \in Clients :
    holds[c] # None /\ holds[d] # None => holds[c] = holds[d]

\* The watchers of a live state have seen its services and its value as they
\* are: every change reaches every watcher before another call gets at the
\* state, and one who comes late is told what it missed.
WatchersUpToDate ==
    \A o \in Objects : Live(o) =>
        /\ \A c \in content[o].watchers : view[c] = content[o].services
        /\ \A c \in content[o].keyWatchers : told[c] = content[o].value

\* Within the life of one state at most one candidate is told that it leads.
OneLeaderPerState == \A c, d \in leading : c = d
=============================================================================
