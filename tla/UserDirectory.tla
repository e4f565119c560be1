--------------------------- MODULE UserDirectory ---------------------------
(***************************************************************************)
(* What the user service promises: a directory of profiles in which every  *)
(* call takes effect at one instant between its invocation and its answer. *)
(* A creation adds a profile under an identity nobody had; a lookup answers*)
(* what the directory holds at that instant.  A profile never changes and  *)
(* is never removed.                                                       *)
(***************************************************************************)
CONSTANTS Handlers, \* calls in progress
          Ids,      \* user identities
          Names,    \* what tells profiles apart
          NoName, NoId

VARIABLES directory, \* the profile of each identity
          phase,     \* each call: idle, create, get or done
          id, name   \* its identity and profile: argument or result

dirVars == <<directory, phase, id, name>>

DirInit == /\ directory = [i \in Ids |-> NoName]
           /\ phase = [h \in Handlers |-> "idle"]
           /\ id = [h \in Handlers |-> NoId]
           /\ name = [h \in Handlers |-> NoName]

InvokeCreate(h, n) ==
    /\ phase[h] = "idle"
    /\ phase' = [phase EXCEPT ![h] = "create"]
    /\ name' = [name EXCEPT ![h] = n]
    /\ UNCHANGED <<directory, id>>

Create(h, i) ==
    /\ phase[h] = "create"
    /\ directory[i] = NoName
    /\ directory' = [directory EXCEPT ![i] = name[h]]
    /\ phase' = [phase EXCEPT ![h] = "done"]
    /\ id' = [id EXCEPT ![h] = i]
    /\ UNCHANGED name

InvokeGet(h, i) ==
    /\ phase[h] = "idle"
    /\ phase' = [phase EXCEPT ![h] = "get"]
    /\ id' = [id EXCEPT ![h] = i]
    /\ UNCHANGED <<directory, name>>

Get(h) ==
    /\ phase[h] = "get"
    /\ phase' = [phase EXCEPT ![h] = "done"]
    /\ name' = [name EXCEPT ![h] = directory[id[h]]]
    /\ UNCHANGED <<directory, id>>

Answer(h) ==
    /\ phase[h] = "done"
    /\ phase' = [phase EXCEPT ![h] = "idle"]
    /\ id' = [id EXCEPT ![h] = NoId]
    /\ name' = [name EXCEPT ![h] = NoName]
    /\ UNCHANGED directory

DirNext == \E h \in Handlers :
    \/ \E n \in Names : InvokeCreate(h, n)
    \/ \E i \in Ids : Create(h, i) \/ InvokeGet(h, i)
    \/ Get(h) \/ Answer(h)

DirSpec == DirInit /\ [][DirNext]_dirVars
=============================================================================
