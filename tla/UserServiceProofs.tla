------------------------- MODULE UserServiceProofs -------------------------
(***************************************************************************)
(* The user service implements the directory, for any number of handlers,  *)
(* names and users and for every choice of its dependencies.               *)
(***************************************************************************)
EXTENDS UserService, TLAPS

\* Identities at or above the counter are in no store and in no creation.
Numbered ==
    /\ \A i \in Ids : users[i] # NoName => i < nextUserId
    /\ \A h \in Handlers : pc[h] = "insert" => userId[h] < nextUserId

\* A handler that writes a store writes a profile.
Writing ==
    \A h \in Handlers :
        pc[h] \in {"insert", "upsert", "cache", "fillRedis", "fillUsers"} =>
            profile[h] # NoName

IInv == TypeOK /\ Numbered /\ Writing /\ IdentityIsFree /\ StoresAgree

\* A server that has just started satisfies the invariant.
LEMMA InitInv == Init => IInv
  BY UserAssumption
     DEF Init, IInv, TypeOK, Store, PC, Ids, Numbered, Writing, IdentityIsFree,
         StoresAgree

\* A handler at work has an identity.
LEMMA AtWork ==
  ASSUME IInv, NEW h \in Handlers, pc[h] # "idle"
  PROVE  userId[h] \in Ids
  BY DEF IInv, TypeOK, Ids

\* A creation takes the number of the counter.
LEMMA CreateInv ==
  ASSUME IInv, NEW h \in Handlers, NEW n \in Names, CreateUser(h, n)
  PROVE  IInv'
<1> USE UserAssumption DEF CreateUser, Goto, stores
<1>1. TypeOK'
  BY DEF IInv, TypeOK, Store, PC, Ids
<1>2. Numbered'
  BY DEF IInv, TypeOK, Numbered, Ids
<1>3. Writing'
  BY DEF IInv, TypeOK, Writing
<1>4. IdentityIsFree'
  BY DEF IInv, TypeOK, Numbered, IdentityIsFree, Ids
<1>5. StoresAgree'
  BY DEF IInv, TypeOK, StoresAgree
<1>6. QED
  BY <1>1, <1>2, <1>3, <1>4, <1>5 DEF IInv

\* The insertion is what the directory sees of a creation.
LEMMA InsertInv ==
  ASSUME IInv, NEW h \in Handlers, InsertUser(h)
  PROVE  IInv'
<1> USE UserAssumption, AtWork DEF InsertUser, Goto, Stored
<1>1. TypeOK'
  BY DEF IInv, TypeOK, Store, PC
<1>2. Numbered'
  BY DEF IInv, TypeOK, Store, Numbered
<1>3. Writing'
  BY DEF IInv, TypeOK, Writing
<1>4. IdentityIsFree'
  BY DEF IInv, TypeOK, Store, IdentityIsFree
<1>5. StoresAgree'
  BY DEF IInv, TypeOK, Store, StoresAgree, IdentityIsFree, Writing
<1>6. QED
  BY <1>1, <1>2, <1>3, <1>4, <1>5 DEF IInv

\* The other writes, of a creation or of a fill, change nothing anyone can tell.
LEMMA WriteInv ==
  ASSUME IInv, NEW h \in Handlers,
         UpsertRow(h) \/ CacheUser(h) \/ FillRedis(h) \/ FillUsers(h)
  PROVE  IInv' /\ users' = users
<1> USE UserAssumption, AtWork
    DEF UpsertRow, CacheUser, FillRedis, FillUsers, Goto, Stored
<1>0. users' = users
  BY DEF IInv, TypeOK, Store, StoresAgree
<1>1. TypeOK'
  BY <1>0 DEF IInv, TypeOK, Store, PC
<1>2. Numbered'
  BY <1>0 DEF IInv, TypeOK, Numbered
<1>3. Writing'
  BY DEF IInv, TypeOK, Writing
<1>4. IdentityIsFree'
  BY <1>0 DEF IInv, TypeOK, IdentityIsFree
<1>5. StoresAgree'
  BY <1>0 DEF IInv, TypeOK, Store, StoresAgree
<1>6. QED
  BY <1>0, <1>1, <1>2, <1>3, <1>4, <1>5 DEF IInv

\* A lookup begins, reads, or is answered.
LEMMA ReadInv ==
  ASSUME IInv, NEW h \in Handlers,
         \/ \E i \in Ids : GetUser(h, i)
         \/ ReadRedis(h) \/ ReadMysql(h) \/ ReadUsers(h) \/ Respond(h)
  PROVE  IInv'
<1> USE UserAssumption, AtWork
    DEF GetUser, ReadRedis, ReadMysql, ReadUsers, Respond, Found, Goto, stores
<1>1. TypeOK'
  <2>1. CASE \E i \in Ids : GetUser(h, i)
    BY <2>1 DEF IInv, TypeOK, Store, PC, Ids
  <2>2. CASE ReadRedis(h) \/ ReadMysql(h) \/ ReadUsers(h)
    <3>1. PICK label \in {"readMysql", "readUsers", "fillRedis", "done"},
               found \in Names \cup {NoName} :
             /\ pc[h] \in {"readRedis", "readMysql", "readUsers"}
             /\ label = "readMysql" => found = NoName
             /\ pc' = [pc EXCEPT ![h] = label]
             /\ profile' = [profile EXCEPT ![h] = found]
             /\ UNCHANGED <<nextUserId, users, mysql, redis, userId>>
      BY <2>2 DEF IInv, TypeOK, Store
    <3>2. QED
      BY <3>1 DEF IInv, TypeOK, Store, PC
  <2>3. CASE Respond(h)
    BY <2>3 DEF IInv, TypeOK, Store, PC
  <2>4. QED
    BY <2>1, <2>2, <2>3
<1>2. Numbered'
  BY DEF IInv, TypeOK, Numbered
<1>3. Writing'
  BY DEF IInv, TypeOK, Writing
<1>4. IdentityIsFree'
  BY DEF IInv, TypeOK, IdentityIsFree
<1>5. StoresAgree'
  BY DEF IInv, TypeOK, Store, StoresAgree
<1>6. QED
  BY <1>1, <1>2, <1>3, <1>4, <1>5 DEF IInv

\* Every step of every handler preserves the invariant.
LEMMA NextInv == IInv /\ [Next]_vars => IInv'
<1> SUFFICES ASSUME IInv, [Next]_vars PROVE IInv'
  OBVIOUS
<1>1. CASE Next
  BY <1>1, CreateInv, InsertInv, WriteInv, ReadInv DEF Next
<1>2. CASE UNCHANGED vars
  BY <1>2 DEF vars, stores, IInv, TypeOK, Store, Numbered, Writing,
              IdentityIsFree, StoresAgree
<1>3. QED
  BY <1>1, <1>2

\* TypeOK holds of every server.
THEOREM UserType == Spec => []TypeOK
<1>1. IInv => TypeOK
  BY DEF IInv
<1>2. QED
  BY InitInv, NextInv, <1>1, PTL DEF Spec

\* However many creations are in progress, the identity of each is free until
\* it is inserted, and no store contradicts another.
THEOREM UserStores == Spec => [](IdentityIsFree /\ StoresAgree)
<1>1. IInv => IdentityIsFree /\ StoresAgree
  BY DEF IInv
<1>2. QED
  BY InitInv, NextInv, <1>1, PTL DEF Spec
-----------------------------------------------------------------------------
(* The refinement.                                                         *)

\* A new server is an empty directory.
LEMMA DirectoryInit == Init => Directory!DirInit
  BY DEF Init, phaseOf, Directory!DirInit

\* CreateUser invokes a creation, and InsertUser performs it.
LEMMA DirectoryCreate ==
  ASSUME IInv, NEW h \in Handlers
  PROVE  /\ \A n \in Names : CreateUser(h, n) => Directory!InvokeCreate(h, n)
         /\ InsertUser(h) => \E i \in Ids : Directory!Create(h, i)
<1> USE DEF IInv, TypeOK
<1>1. ASSUME NEW n \in Names, CreateUser(h, n)
      PROVE  Directory!InvokeCreate(h, n)
  BY <1>1 DEF CreateUser, Goto, stores, phaseOf, Directory!InvokeCreate
<1>2. ASSUME InsertUser(h)
      PROVE  \E i \in Ids : Directory!Create(h, i)
  <2>1. PICK i \in Ids : i = userId[h]
    BY <1>2, AtWork DEF InsertUser, Goto
  <2>2. Directory!Create(h, i)
    BY <1>2, <2>1
       DEF InsertUser, Goto, Stored, IdentityIsFree, phaseOf, Directory!Create
  <2>3. QED
    BY <2>2
<1>3. QED
  BY <1>1, <1>2

\* GetUser invokes a lookup; a store that answers it performs it, and one that
\* does not is a step the directory does not see.
LEMMA DirectoryGet ==
  ASSUME IInv, NEW h \in Handlers
  PROVE  /\ \A i \in Ids : GetUser(h, i) => Directory!InvokeGet(h, i)
         /\ ReadRedis(h) \/ ReadMysql(h) \/ ReadUsers(h) =>
              Directory!Get(h) \/ UNCHANGED Directory!dirVars
         /\ Respond(h) => Directory!Answer(h)
<1> USE DEF IInv, TypeOK
<1>1. ASSUME NEW i \in Ids, GetUser(h, i)
      PROVE  Directory!InvokeGet(h, i)
  BY <1>1 DEF GetUser, Goto, stores, phaseOf, Ids, Directory!InvokeGet
<1>2. ASSUME ReadRedis(h) \/ ReadMysql(h) \/ ReadUsers(h)
      PROVE  Directory!Get(h) \/ UNCHANGED Directory!dirVars
  <2>1. PICK label \in {"readMysql", "readUsers", "fillRedis", "done"},
             found \in Names \cup {NoName} :
           /\ pc[h] \in {"readRedis", "readMysql", "readUsers"}
           /\ pc' = [pc EXCEPT ![h] = label]
           /\ profile' = [profile EXCEPT ![h] = found]
           /\ UNCHANGED <<nextUserId, users, mysql, redis, userId>>
           /\ label \in {"readMysql", "readUsers"} =>
                found = NoName /\ profile[h] = NoName
           /\ label \in {"fillRedis", "done"} => found = users[userId[h]]
    BY <1>2, AtWork
       DEF ReadRedis, ReadMysql, ReadUsers, Found, Goto, stores, Store,
           StoresAgree
  <2>2. CASE label \in {"readMysql", "readUsers"}
    BY <2>1, <2>2 DEF phaseOf, Directory!dirVars
  <2>3. CASE label \in {"fillRedis", "done"}
    BY <2>1, <2>3 DEF phaseOf, Directory!Get
  <2>4. QED
    BY <2>1, <2>2, <2>3
<1>3. ASSUME Respond(h)
      PROVE  Directory!Answer(h)
  BY <1>3 DEF Respond, Goto, stores, phaseOf, Directory!Answer
<1>4. QED
  BY <1>1, <1>2, <1>3

\* The writes to MySQL and Redis, and the fills, are not seen.
LEMMA DirectoryWrite ==
  ASSUME IInv, NEW h \in Handlers,
         UpsertRow(h) \/ CacheUser(h) \/ FillRedis(h) \/ FillUsers(h)
  PROVE  UNCHANGED Directory!dirVars
<1>1. users' = users
  BY WriteInv
<1>2. QED
  BY <1>1 DEF IInv, TypeOK, UpsertRow, CacheUser, FillRedis, FillUsers, Goto,
              phaseOf, Directory!dirVars

\* Every step of the service is a step of the directory, or none.
LEMMA DirectoryNext ==
  IInv /\ [Next]_vars => [Directory!DirNext]_(Directory!dirVars)
<1> SUFFICES ASSUME IInv, [Next]_vars
             PROVE  Directory!DirNext \/ UNCHANGED Directory!dirVars
  OBVIOUS
<1>1. CASE UNCHANGED vars
  BY <1>1 DEF vars, stores, phaseOf, Directory!dirVars
<1>2. ASSUME NEW h \in Handlers, NEW n \in Names, CreateUser(h, n)
      PROVE  Directory!DirNext
  BY <1>2, DirectoryCreate DEF Directory!DirNext
<1>3. ASSUME NEW h \in Handlers, InsertUser(h)
      PROVE  Directory!DirNext
  BY <1>3, DirectoryCreate DEF Directory!DirNext
<1>4. ASSUME NEW h \in Handlers, NEW i \in Ids, GetUser(h, i)
      PROVE  Directory!DirNext
  BY <1>4, DirectoryGet DEF Directory!DirNext
<1>5. ASSUME NEW h \in Handlers, ReadRedis(h) \/ ReadMysql(h) \/ ReadUsers(h)
      PROVE  Directory!DirNext \/ UNCHANGED Directory!dirVars
  BY <1>5, DirectoryGet DEF Directory!DirNext
<1>6. ASSUME NEW h \in Handlers, Respond(h)
      PROVE  Directory!DirNext
  BY <1>6, DirectoryGet DEF Directory!DirNext
<1>7. QED
  BY <1>1, <1>2, <1>3, <1>4, <1>5, <1>6, DirectoryWrite DEF Next

\* The service implements the directory: its caches, the copies lookups make
\* and its handlers in parallel cannot be told from one table.
THEOREM ServiceIsDirectory == Spec => ImplementsDirectory
<1>1. QED
  BY InitInv, NextInv, DirectoryInit, DirectoryNext, PTL
     DEF Spec, ImplementsDirectory, Directory!DirSpec
=============================================================================
