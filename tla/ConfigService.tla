--------------------------- MODULE ConfigService ---------------------------
(***************************************************************************)
(* services/config_service/config_service_impl.cpp: the configuration      *)
(* centre.  A published entry goes to five places, one after the other and *)
(* under five different locks: the in-memory table, MySQL, Redis, etcd and *)
(* the message queue.  GetConfig reads Redis, then MySQL, then the table,  *)
(* and copies what it finds in MySQL to the other two.  The server runs    *)
(* its handlers in parallel: every step of one on a store is an action.    *)
(*                                                                         *)
(* A version identifies a publication, so the version stands for the whole *)
(* entry (value, key, environment); 0 stands for an absent one.  The keys  *)
(* are <namespace, key, environment> triples of one namespace: what other  *)
(* namespaces share with it is only the version counter.                   *)
(***************************************************************************)
EXTENDS Integers, Sequences

CONSTANTS Publishers, Getters, Watchers, \* handler threads and their callers
          Keys,      \* the entries of one namespace
          DevKeys,   \* those of environment "dev", all that GetConfig reads
          NoKey,     \* no key
          Deps,      \* the dependencies configured: see AllDeps
          MaxVersion \* bound of the publications

AllDeps == {"mysql", "redis", "etcd", "mq"}

ASSUME ConfigAssumption == /\ DevKeys \subseteq Keys
                           /\ NoKey \notin Keys
                           /\ Deps \subseteq AllDeps
                           /\ MaxVersion \in Nat

VARIABLES
    nextVersion, \* next_version_
    entries,     \* entries_: the version of each key, like the next three
    mysql,       \* the rows of config_entries
    redis,       \* the cache
    etcd,        \* what the configuration provider was last told
    mq,          \* the events on "config.changed", in publication order
    pubPc, pubKey, pubVersion, \* each PublishConfig in progress
    getPc, getKey, getVersion, \* each GetConfig in progress, and its answer
    cursor,      \* the since_version each watcher will use next
    seen,        \* the versions each watcher has received
    \* History, read by the properties only:
    owner,       \* the key each version was published for
    acked,       \* the newest version of each key whose publisher has its answer
    getPromised, \* whether the key was in entries_ when the GetConfig began
    overlapped,  \* whether operations on the key, one a publication, overlapped
    crossed      \* whether a version was taken while another, taken before it,
                 \* was still on its way to the table

stores == <<entries, mysql, redis, etcd, mq>>
pubVars == <<pubPc, pubKey, pubVersion>>
getVars == <<getPc, getKey, getVersion, getPromised>>
watchVars == <<cursor, seen>>
histVars == <<owner, acked, overlapped, crossed>>
vars == <<nextVersion, stores, pubVars, getVars, watchVars, histVars>>

Version == 0..MaxVersion
PubPc == {"idle", "entries", "mysql", "redis", "etcd", "mq", "respond"}
GetPc == {"idle", "redis", "mysql", "fillRedis", "fillEntries", "entries", "done"}

Init == /\ nextVersion = 1
        /\ entries = [k \in Keys |-> 0]
        /\ mysql = [k \in Keys |-> 0]
        /\ redis = [k \in Keys |-> 0]
        /\ etcd = [k \in Keys |-> 0]
        /\ mq = << >>
        /\ pubPc = [p \in Publishers |-> "idle"]
        /\ pubKey = [p \in Publishers |-> NoKey]
        /\ pubVersion = [p \in Publishers |-> 0]
        /\ getPc = [g \in Getters |-> "idle"]
        /\ getKey = [g \in Getters |-> NoKey]
        /\ getVersion = [g \in Getters |-> 0]
        /\ cursor = [w \in Watchers |-> 0]
        /\ seen = [w \in Watchers |-> {}]
        /\ owner = [v \in 1..MaxVersion |-> NoKey]
        /\ acked = [k \in Keys |-> 0]
        /\ getPromised = [g \in Getters |-> FALSE]
        /\ overlapped = [k \in Keys |-> FALSE]
        /\ crossed = FALSE

PublishActive(k) == \E p \in Publishers : pubPc[p] # "idle" /\ pubKey[p] = k
GetActive(k) ==
    \E g \in Getters : getPc[g] \notin {"idle", "done"} /\ getKey[g] = k
VersionOnItsWay == \E p \in Publishers : pubPc[p] = "entries"
-----------------------------------------------------------------------------
(* PublishConfig.                                                          *)

\* Mutant of PublishStart: each key counts its own versions.
PublishStartPerKey(p, k) ==
    LET v == entries[k] + 1
    IN  /\ pubPc[p] = "idle"
        /\ v <= MaxVersion
        /\ nextVersion' = IF v < nextVersion THEN nextVersion ELSE v + 1
        /\ pubPc' = [pubPc EXCEPT ![p] = "entries"]
        /\ pubKey' = [pubKey EXCEPT ![p] = k]
        /\ pubVersion' = [pubVersion EXCEPT ![p] = v]
        /\ owner' = [owner EXCEPT ![v] = k]
        /\ overlapped' = [overlapped EXCEPT
                            ![k] = @ \/ PublishActive(k) \/ GetActive(k)]
        /\ crossed' = (crossed \/ VersionOnItsWay)
        /\ UNCHANGED <<stores, getVars, watchVars, acked>>

\* A valid request takes the next version from the atomic counter.
PublishStart(p, k) ==
    /\ pubPc[p] = "idle"
    /\ nextVersion <= MaxVersion
    /\ nextVersion' = nextVersion + 1
    /\ pubPc' = [pubPc EXCEPT ![p] = "entries"]
    /\ pubKey' = [pubKey EXCEPT ![p] = k]
    /\ pubVersion' = [pubVersion EXCEPT ![p] = nextVersion]
    /\ owner' = [owner EXCEPT ![nextVersion] = k]
    /\ overlapped' = [overlapped EXCEPT
                        ![k] = @ \/ PublishActive(k) \/ GetActive(k)]
    /\ crossed' = (crossed \/ VersionOnItsWay)
    /\ UNCHANGED <<stores, getVars, watchVars, acked>>

\* The order in which the stores are written.
StageAfter ==
    [entries |-> "mysql", mysql |-> "redis", redis |-> "etcd", etcd |-> "mq",
     mq |-> "respond"]

\* The publisher leaves a stage, having written its own version of its key
\* to the store of that stage.
Leave(p, stage) ==
    /\ pubPc[p] = stage
    /\ pubPc' = [pubPc EXCEPT ![p] = StageAfter[stage]]
    /\ UNCHANGED <<nextVersion, pubKey, pubVersion, getVars, watchVars,
                   histVars>>

Written(store, p) == [store EXCEPT ![pubKey[p]] = pubVersion[p]]

WriteEntries(p) ==
    /\ Leave(p, "entries")
    /\ entries' = Written(entries, p)
    /\ UNCHANGED <<mysql, redis, etcd, mq>>

WriteMysql(p) ==
    /\ Leave(p, "mysql")
    /\ mysql' = IF "mysql" \in Deps THEN Written(mysql, p) ELSE mysql
    /\ UNCHANGED <<entries, redis, etcd, mq>>

\* Mutant of WriteRedis: a cached entry is left alone.
WriteRedisIfAbsent(p) ==
    /\ Leave(p, "redis")
    /\ redis' = IF "redis" \in Deps /\ redis[pubKey[p]] = 0
                  THEN Written(redis, p) ELSE redis
    /\ UNCHANGED <<entries, mysql, etcd, mq>>

WriteRedis(p) ==
    /\ Leave(p, "redis")
    /\ redis' = IF "redis" \in Deps THEN Written(redis, p) ELSE redis
    /\ UNCHANGED <<entries, mysql, etcd, mq>>

PutEtcd(p) ==
    /\ Leave(p, "etcd")
    /\ etcd' = IF "etcd" \in Deps THEN Written(etcd, p) ELSE etcd
    /\ UNCHANGED <<entries, mysql, redis, mq>>

PublishEvent(p) ==
    /\ Leave(p, "mq")
    /\ mq' = IF "mq" \in Deps
               THEN Append(mq, [key |-> pubKey[p], version |-> pubVersion[p]])
               ELSE mq
    /\ UNCHANGED <<entries, mysql, redis, etcd>>

Respond(p) ==
    /\ pubPc[p] = "respond"
    /\ pubPc' = [pubPc EXCEPT ![p] = "idle"]
    /\ acked' = [acked EXCEPT
                   ![pubKey[p]] = IF @ < pubVersion[p] THEN pubVersion[p] ELSE @]
    /\ UNCHANGED <<nextVersion, stores, pubKey, pubVersion, getVars, watchVars,
                   owner, overlapped, crossed>>
-----------------------------------------------------------------------------
(* GetConfig.                                                              *)

GetStart(g, k) ==
    /\ getPc[g] \in {"idle", "done"}
    /\ getPc' = [getPc EXCEPT ![g] = "redis"]
    /\ getKey' = [getKey EXCEPT ![g] = k]
    /\ getVersion' = [getVersion EXCEPT ![g] = 0]
    /\ getPromised' = [getPromised EXCEPT ![g] = entries[k] # 0]
    /\ overlapped' = [overlapped EXCEPT ![k] = @ \/ PublishActive(k)]
    /\ UNCHANGED <<nextVersion, stores, pubVars, watchVars, owner, acked, crossed>>

\* The GetConfig goes on at label, with version v in hand.
Proceed(g, label, v) ==
    /\ getPc' = [getPc EXCEPT ![g] = label]
    /\ getVersion' = [getVersion EXCEPT ![g] = v]
    /\ UNCHANGED <<nextVersion, mysql, etcd, mq, pubVars, getKey, getPromised,
                    watchVars, histVars>>

ReadRedis(g) ==
    /\ getPc[g] = "redis"
    /\ IF "redis" \in Deps /\ redis[getKey[g]] # 0
         THEN Proceed(g, "done", redis[getKey[g]])
         ELSE Proceed(g, "mysql", 0)
    /\ UNCHANGED <<entries, redis>>

\* Mutant of ReadMysql: a missing row ends the search.
ReadMysqlOnly(g) ==
    /\ getPc[g] = "mysql"
    /\ IF "mysql" \in Deps /\ mysql[getKey[g]] # 0
         THEN Proceed(g, "fillRedis", mysql[getKey[g]])
         ELSE Proceed(g, "done", 0)
    /\ UNCHANGED <<entries, redis>>

ReadMysql(g) ==
    /\ getPc[g] = "mysql"
    /\ IF "mysql" \in Deps /\ mysql[getKey[g]] # 0
         THEN Proceed(g, "fillRedis", mysql[getKey[g]])
         ELSE Proceed(g, "entries", 0)
    /\ UNCHANGED <<entries, redis>>

\* The row found in MySQL is copied to the cache and to the table; each of
\* them may hold something newer by now.
FillRedis(g) ==
    /\ getPc[g] = "fillRedis"
    /\ Proceed(g, "fillEntries", getVersion[g])
    /\ redis' = IF "redis" \in Deps
                  THEN [redis EXCEPT ![getKey[g]] = getVersion[g]] ELSE redis
    /\ UNCHANGED entries

FillEntries(g) ==
    /\ getPc[g] = "fillEntries"
    /\ Proceed(g, "done", getVersion[g])
    /\ entries' = [entries EXCEPT ![getKey[g]] = getVersion[g]]
    /\ UNCHANGED redis

ReadEntries(g) ==
    /\ getPc[g] = "entries"
    /\ Proceed(g, "done", entries[getKey[g]])
    /\ UNCHANGED <<entries, redis>>
-----------------------------------------------------------------------------
(* WatchConfig: it returns once, with the entries above since_version.     *)

CollectNamespace(since) == {entries[k] : k \in {x \in Keys : entries[x] > since}}

\* Mutant of WatchConfig: one entry is sent, the cursor passes them all.
WatchConfigNewestOnly(w) ==
    LET updates == CollectNamespace(cursor[w])
    IN  /\ \E newest \in updates :
             /\ \A v \in updates : v <= newest
             /\ cursor' = [cursor EXCEPT ![w] = newest]
             /\ seen' = [seen EXCEPT ![w] = @ \cup {newest}]
        /\ UNCHANGED <<nextVersion, stores, pubVars, getVars, histVars>>

\* A watcher asks again from the newest version it has received.
WatchConfig(w) ==
    LET updates == CollectNamespace(cursor[w])
    IN  /\ \E newest \in updates :
             /\ \A v \in updates : v <= newest
             /\ cursor' = [cursor EXCEPT ![w] = newest]
        /\ seen' = [seen EXCEPT ![w] = @ \cup updates]
        /\ UNCHANGED <<nextVersion, stores, pubVars, getVars, histVars>>
-----------------------------------------------------------------------------
Publish(p) == \/ \E k \in Keys : PublishStart(p, k)
              \/ WriteEntries(p) \/ WriteMysql(p) \/ WriteRedis(p)
              \/ PutEtcd(p) \/ PublishEvent(p) \/ Respond(p)

GetConfig(g) == \/ \E k \in DevKeys : GetStart(g, k)
                \/ ReadRedis(g) \/ ReadMysql(g) \/ FillRedis(g)
                \/ FillEntries(g) \/ ReadEntries(g)

Next == \/ \E p \in Publishers : Publish(p)
        \/ \E g \in Getters : GetConfig(g)
        \/ \E w \in Watchers : WatchConfig(w)

Spec == Init /\ [][Next]_vars
-----------------------------------------------------------------------------
Store == [Keys -> Version]

TypeOK == /\ nextVersion \in 1..(MaxVersion + 1)
          /\ entries \in Store /\ mysql \in Store
          /\ redis \in Store /\ etcd \in Store
          /\ mq \in Seq([key : Keys, version : 1..MaxVersion])
          /\ pubPc \in [Publishers -> PubPc]
          /\ pubKey \in [Publishers -> Keys \cup {NoKey}]
          /\ pubVersion \in [Publishers -> Version]
          /\ getPc \in [Getters -> GetPc]
          /\ getKey \in [Getters -> DevKeys \cup {NoKey}]
          /\ getVersion \in [Getters -> Version]
          /\ cursor \in [Watchers -> Version]
          /\ seen \in [Watchers -> SUBSET (1..MaxVersion)]
          /\ owner \in [1..MaxVersion -> Keys \cup {NoKey}]
          /\ acked \in Store
          /\ getPromised \in [Getters -> BOOLEAN]
          /\ overlapped \in [Keys -> BOOLEAN]
          /\ crossed \in BOOLEAN
          /\ \A v \in 1..MaxVersion : owner[v] # NoKey <=> v < nextVersion

Owned(store) == \A k \in Keys : store[k] # 0 => owner[store[k]] = k

\* No store, event or answer ever shows a key a version that was published
\* for another one: whatever the interleaving of publishers and of the copies
\* GetConfig makes, a version is given out once and stays with its key.
OwnVersions ==
    /\ Owned(entries) /\ Owned(mysql) /\ Owned(redis) /\ Owned(etcd)
    /\ \A i \in 1..Len(mq) : owner[mq[i].version] = mq[i].key
    /\ \A g \in Getters : getVersion[g] # 0 => owner[getVersion[g]] = getKey[g]

\* A GetConfig that begins once an entry of its key is in the table never
\* answers NOT_FOUND, whichever of MySQL and Redis are configured and however
\* far the publication has come: the stores are written and read in orders
\* that cannot miss each other.
FoundStaysFound ==
    \A g \in Getters : getPc[g] = "done" /\ getPromised[g] => getVersion[g] # 0

\* When the event of a key is on the queue, every store configured knows the
\* key: a subscriber that reacts to the event by reading always finds it.
EventAfterStores ==
    \A i \in 1..Len(mq) :
        LET k == mq[i].key
        IN  /\ entries[k] # 0
            /\ "mysql" \in Deps => mysql[k] # 0
            /\ "redis" \in Deps => redis[k] # 0
            /\ "etcd" \in Deps => etcd[k] # 0

\* Where operations on a key never overlapped, its stores agree, between two
\* publications, on the newest version given out for it.
QuietKeyAgrees ==
    \A k \in Keys : ~overlapped[k] /\ ~PublishActive(k) =>
        /\ entries[k] = acked[k]
        /\ "mysql" \in Deps => mysql[k] = acked[k]
        /\ "redis" \in Deps => redis[k] = acked[k]
        /\ "etcd" \in Deps => etcd[k] = acked[k]
        /\ \A v \in 1..MaxVersion : owner[v] = k => v <= acked[k]

\* A watcher that always asks from the newest version it has received has
\* received every entry of the table that is not newer, where versions came
\* to the table in the order they were taken and no fill put an older one back.
WatchIsComplete ==
    \A w \in Watchers, k \in Keys :
        /\ ~crossed /\ ~overlapped[k]
        /\ entries[k] # 0 /\ entries[k] <= cursor[w]
        => entries[k] \in seen[w]
=============================================================================
