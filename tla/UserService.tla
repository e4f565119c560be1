---------------------------- MODULE UserService ----------------------------
(***************************************************************************)
(* services/user_service/user_service_impl.cpp.  A new profile goes to the *)
(* table in memory, to MySQL and to Redis, each under a lock of its own; a *)
(* lookup goes through them in the opposite order and copies a row it      *)
(* finds in MySQL to the other two.  The server runs its handlers in       *)
(* parallel: each step on a store is an action.                            *)
(*                                                                         *)
(* A profile is told apart by its nickname: the rest of it is the same for *)
(* all.  Writing it to a row or to JSON and reading it back keeps it.      *)
(***************************************************************************)
EXTENDS Integers

CONSTANTS Handlers, Names, NoName,
          Deps,    \* the dependencies configured, of "mysql" and "redis"
          MaxUsers \* bound of the users created

ASSUME UserAssumption == /\ NoName \notin Names
                         /\ Deps \subseteq {"mysql", "redis"}
                         /\ MaxUsers \in Nat \ {0}

VARIABLES
    nextUserId,          \* next_user_id_
    users, mysql, redis, \* the profile each store has of each identity
    pc,                  \* where the handler is
    userId, profile      \* its request and answer; 0 for no identity

stores == <<users, mysql, redis>>
vars == <<nextUserId, stores, pc, userId, profile>>

Ids == 1..MaxUsers
PC == {"idle", "insert", "upsert", "cache", "readRedis", "readMysql",
       "fillRedis", "fillUsers", "readUsers", "done"}

Init == /\ nextUserId = 1
        /\ users = [i \in Ids |-> NoName]
        /\ mysql = [i \in Ids |-> NoName]
        /\ redis = [i \in Ids |-> NoName]
        /\ pc = [h \in Handlers |-> "idle"]
        /\ userId = [h \in Handlers |-> 0]
        /\ profile = [h \in Handlers |-> NoName]

Goto(h, from, to) == pc[h] = from /\ pc' = [pc EXCEPT ![h] = to]

Stored(store, h) == [store EXCEPT ![userId[h]] = profile[h]]
-----------------------------------------------------------------------------
(* CreateUser.                                                             *)

\* Mutant of CreateUser: the table in memory is skipped.
CreateUserPersisted(h, n) ==
    /\ nextUserId <= MaxUsers
    /\ nextUserId' = nextUserId + 1
    /\ Goto(h, "idle", "upsert")
    /\ userId' = [userId EXCEPT ![h] = nextUserId]
    /\ profile' = [profile EXCEPT ![h] = n]
    /\ UNCHANGED stores

\* The atomic counter gives the identity.
CreateUser(h, n) ==
    /\ nextUserId <= MaxUsers
    /\ nextUserId' = nextUserId + 1
    /\ Goto(h, "idle", "insert")
    /\ userId' = [userId EXCEPT ![h] = nextUserId]
    /\ profile' = [profile EXCEPT ![h] = n]
    /\ UNCHANGED stores

InsertUser(h) ==
    /\ Goto(h, "insert", "upsert")
    /\ users' = Stored(users, h)
    /\ UNCHANGED <<nextUserId, mysql, redis, userId, profile>>

UpsertRow(h) ==
    /\ Goto(h, "upsert", "cache")
    /\ mysql' = IF "mysql" \in Deps THEN Stored(mysql, h) ELSE mysql
    /\ UNCHANGED <<nextUserId, users, redis, userId, profile>>

CacheUser(h) ==
    /\ Goto(h, "cache", "done")
    /\ redis' = IF "redis" \in Deps THEN Stored(redis, h) ELSE redis
    /\ UNCHANGED <<nextUserId, users, mysql, userId, profile>>
-----------------------------------------------------------------------------
(* GetUser.                                                                *)

GetUser(h, i) ==
    /\ Goto(h, "idle", "readRedis")
    /\ userId' = [userId EXCEPT ![h] = i]
    /\ UNCHANGED <<nextUserId, stores, profile>>

\* The handler goes on at label, with what it found in a store.
Found(h, from, label, found) ==
    /\ Goto(h, from, label)
    /\ profile' = [profile EXCEPT ![h] = found]
    /\ UNCHANGED <<nextUserId, stores, userId>>

ReadRedis(h) ==
    LET found == redis[userId[h]]
    IN  Found(h, "readRedis",
              IF found = NoName THEN "readMysql" ELSE "done", found)

\* Mutant of ReadMysql: a missing row ends the search.
ReadMysqlOnly(h) ==
    LET found == mysql[userId[h]]
    IN  Found(h, "readMysql", IF found = NoName THEN "done" ELSE "fillRedis",
              found)

ReadMysql(h) ==
    LET found == mysql[userId[h]]
    IN  Found(h, "readMysql",
              IF found = NoName THEN "readUsers" ELSE "fillRedis", found)

FillRedis(h) ==
    /\ Goto(h, "fillRedis", "fillUsers")
    /\ redis' = IF "redis" \in Deps THEN Stored(redis, h) ELSE redis
    /\ UNCHANGED <<nextUserId, users, mysql, userId, profile>>

FillUsers(h) ==
    /\ Goto(h, "fillUsers", "done")
    /\ users' = Stored(users, h)
    /\ UNCHANGED <<nextUserId, mysql, redis, userId, profile>>

ReadUsers(h) == Found(h, "readUsers", "done", users[userId[h]])
-----------------------------------------------------------------------------
\* The answer: the profile, or NOT_FOUND.
Respond(h) ==
    /\ Goto(h, "done", "idle")
    /\ userId' = [userId EXCEPT ![h] = 0]
    /\ profile' = [profile EXCEPT ![h] = NoName]
    /\ UNCHANGED <<nextUserId, stores>>

Next == \E h \in Handlers :
    \/ \E n \in Names : CreateUser(h, n)
    \/ InsertUser(h) \/ UpsertRow(h) \/ CacheUser(h)
    \/ \E i \in Ids : GetUser(h, i)
    \/ ReadRedis(h) \/ ReadMysql(h) \/ FillRedis(h) \/ FillUsers(h)
    \/ ReadUsers(h) \/ Respond(h)

Spec == Init /\ [][Next]_vars
-----------------------------------------------------------------------------
Store == [Ids -> Names \cup {NoName}]

TypeOK == /\ nextUserId \in 1..(MaxUsers + 1)
          /\ users \in Store /\ mysql \in Store /\ redis \in Store
          /\ pc \in [Handlers -> PC]
          /\ userId \in [Handlers -> 0..MaxUsers]
          /\ profile \in [Handlers -> Names \cup {NoName}]
          /\ \A h \in Handlers : pc[h] = "idle" <=> userId[h] = 0
          /\ \A h \in Handlers : pc[h] \in {"idle", "readRedis", "readMysql"}
                                   => profile[h] = NoName

\* A creation never overwrites a profile: the identity it was given is still
\* free when, some steps later, it is inserted.
IdentityIsFree == \A h \in Handlers : pc[h] = "insert" =>
    /\ users[userId[h]] = NoName
    /\ \A g \in Handlers : pc[g] = "insert" /\ userId[g] = userId[h] => g = h

\* The stores never contradict each other: what MySQL, Redis or a handler on
\* its way to fill them has of a user is what the table has.
StoresAgree ==
    /\ \A i \in Ids : /\ mysql[i] \in {NoName, users[i]}
                      /\ redis[i] \in {NoName, users[i]}
    /\ \A h \in Handlers :
         pc[h] \in {"upsert", "cache", "fillRedis", "fillUsers"} =>
             profile[h] = users[userId[h]]

\* The abstract directory is the table in memory: a creation takes effect when
\* it is inserted there, and a lookup in the store that answers it.
phaseOf(h) == CASE pc[h] = "idle" -> "idle"
                [] pc[h] = "insert" -> "create"
                [] pc[h] \in {"readRedis", "readMysql", "readUsers"} -> "get"
                [] OTHER -> "done"

Directory == INSTANCE UserDirectory WITH
    NoId <- 0,
    directory <- users,
    phase <- [h \in Handlers |-> phaseOf(h)],
    id <- [h \in Handlers |-> IF pc[h] = "insert" THEN 0 ELSE userId[h]],
    name <- profile

\* The service implements the directory: caches and their fills, stores that
\* are not configured and handlers in parallel cannot be told from one table.
ImplementsDirectory == Directory!DirSpec
=============================================================================
