------------------------- MODULE ConfigServiceProofs -------------------------
(***************************************************************************)
(* The configuration centre for any number of handlers, keys and versions  *)
(* and for every choice of its dependencies.                               *)
(***************************************************************************)
EXTENDS ConfigService, SequenceTheorems, TLAPS

\* A publication in progress holds the version its key owns.
Publishing ==
    \A p \in Publishers : pubPc[p] # "idle" =>
        /\ pubKey[p] \in Keys
        /\ pubVersion[p] \in 1..MaxVersion
        /\ owner[pubVersion[p]] = pubKey[p]

\* A GetConfig in progress has a key, and a version once it copies one.
Getting ==
    \A g \in Getters :
        /\ getPc[g] # "idle" => getKey[g] \in DevKeys
        /\ getPc[g] \in {"fillRedis", "fillEntries"} => getVersion[g] # 0
        /\ getVersion[g] # 0 => getPc[g] # "idle"

\* Nothing is ever removed from the table: the promise made to a GetConfig
\* when it began still holds when it falls back to the table.
Promised ==
    \A g \in Getters : getPromised[g] /\ getPc[g] # "idle" =>
        entries[getKey[g]] # 0

\* A publication has left its key in every store it has passed.
Passed ==
    \A p \in Publishers :
        LET k == pubKey[p]
        IN  /\ pubPc[p] \in {"mysql", "redis", "etcd", "mq"} => entries[k] # 0
            /\ pubPc[p] \in {"redis", "etcd", "mq"} /\ "mysql" \in Deps =>
                 mysql[k] # 0
            /\ pubPc[p] \in {"etcd", "mq"} /\ "redis" \in Deps => redis[k] # 0
            /\ pubPc[p] = "mq" /\ "etcd" \in Deps => etcd[k] # 0

IInv == /\ TypeOK /\ Publishing /\ Getting /\ Promised /\ Passed
        /\ OwnVersions /\ FoundStaysFound /\ EventAfterStores

\* The initial state satisfies the inductive invariant.
LEMMA InitInv == Init => IInv
<1> SUFFICES ASSUME Init PROVE IInv
  OBVIOUS
<1>1. TypeOK
  <2>1. overlapped \in [Keys -> BOOLEAN] /\ crossed \in BOOLEAN
    BY DEF Init
  <2>2. QED
    BY <2>1, ConfigAssumption DEF Init, TypeOK, Store, Version, PubPc, GetPc
<1>2. Publishing /\ Getting /\ Promised /\ Passed
  BY ConfigAssumption DEF Init, Publishing, Getting, Promised, Passed
<1>3. OwnVersions /\ FoundStaysFound /\ EventAfterStores
  BY DEF Init, OwnVersions, Owned, FoundStaysFound, EventAfterStores
<1>4. QED
  BY <1>1, <1>2, <1>3 DEF IInv

\* The fields of an event of a queue of events.
LEMMA EventFields ==
  ASSUME NEW V, NEW s \in Seq([key : Keys, version : V]), NEW i \in 1..Len(s)
  PROVE  s[i].key \in Keys /\ s[i].version \in V
<1>1. s[i] \in [key : Keys, version : V]
  BY ElementOfSeq
<1>2. QED
  BY <1>1

\* Writing a valid publication to a store keeps its type, and adds the key.
LEMMA WrittenStore ==
  ASSUME NEW store \in Store, NEW p \in Publishers,
         pubKey[p] \in Keys, pubVersion[p] \in 1..MaxVersion
  PROVE  /\ Written(store, p) \in Store
         /\ Written(store, p)[pubKey[p]] = pubVersion[p]
         /\ \A k \in Keys \ {pubKey[p]} : Written(store, p)[k] = store[k]
         /\ \A k \in Keys : store[k] # 0 => Written(store, p)[k] # 0
  BY ConfigAssumption DEF Store, Version, Written

\* It keeps the versions of the store with their keys if the publication is
\* recorded for its key.
LEMMA WrittenOwned ==
  ASSUME NEW store \in Store, Owned(store), NEW p \in Publishers,
         pubKey[p] \in Keys, pubVersion[p] \in 1..MaxVersion,
         owner[pubVersion[p]] = pubKey[p]
  PROVE  Owned(Written(store, p))
<1> SUFFICES ASSUME NEW k \in Keys, Written(store, p)[k] # 0
             PROVE  owner[Written(store, p)[k]] = k
  BY DEF Owned
<1>1. CASE k = pubKey[p]
  BY <1>1, WrittenStore
<1>2. CASE k # pubKey[p]
  BY <1>2, WrittenStore DEF Owned
<1>3. QED
  BY <1>1, <1>2

\* Taking a version preserves it: the version was nobody's.
LEMMA StartInv ==
  ASSUME IInv, NEW p \in Publishers, NEW k \in Keys, PublishStart(p, k)
  PROVE  IInv'
<1> USE ConfigAssumption DEF PublishStart
<1>1. TypeOK'
  <2>1. crossed' \in BOOLEAN
    BY DEF IInv, TypeOK
  <2>2. overlapped' \in [Keys -> BOOLEAN]
    BY DEF IInv, TypeOK
  <2>3. /\ nextVersion' \in 1..(MaxVersion + 1)
        /\ owner' \in [1..MaxVersion -> Keys \cup {NoKey}]
        /\ \A v \in 1..MaxVersion : owner'[v] # NoKey <=> v < nextVersion'
    BY DEF IInv, TypeOK
  <2>4. /\ pubPc' \in [Publishers -> PubPc]
        /\ pubKey' \in [Publishers -> Keys \cup {NoKey}]
        /\ pubVersion' \in [Publishers -> Version]
    BY DEF IInv, TypeOK, Version, PubPc
  <2>5. QED
    BY <2>1, <2>2, <2>3, <2>4
       DEF IInv, TypeOK, stores, getVars, watchVars
<1>2. Publishing'
  BY DEF IInv, TypeOK, Version, Publishing
<1>3. Getting' /\ Promised' /\ FoundStaysFound'
  BY DEF IInv, TypeOK, Getting, Promised, FoundStaysFound, stores, getVars
<1>4. Passed'
  <2> SUFFICES ASSUME NEW q \in Publishers PROVE Passed!(q)'
    BY DEF Passed
  <2>1. CASE q = p
    BY <2>1 DEF IInv, TypeOK
  <2>2. CASE q # p
    BY <2>2 DEF IInv, TypeOK, Passed, stores
  <2>3. QED
    BY <2>1, <2>2
<1>5. OwnVersions'
  <2>1. \A v \in 1..MaxVersion : owner[v] # NoKey => owner'[v] = owner[v]
    BY DEF IInv, TypeOK
  <2>2. Owned(entries)' /\ Owned(mysql)' /\ Owned(redis)' /\ Owned(etcd)'
    <3>1. ASSUME NEW store \in Store, Owned(store)
          PROVE  \A x \in Keys : store[x] # 0 => owner'[store[x]] = x
      BY <2>1, <3>1, ConfigAssumption DEF Owned, Store, Version
    <3>2. /\ Owned(entries) /\ Owned(mysql) /\ Owned(redis) /\ Owned(etcd)
          /\ entries \in Store /\ mysql \in Store
          /\ redis \in Store /\ etcd \in Store
      BY DEF IInv, TypeOK, OwnVersions
    <3>3. QED
      BY <3>1, <3>2 DEF Owned, stores
  <2>3. \A i \in 1..Len(mq') : owner'[mq'[i].version] = mq'[i].key
    <3> SUFFICES ASSUME NEW i \in 1..Len(mq)
                 PROVE  owner'[mq[i].version] = mq[i].key
      BY DEF stores
    <3>1. mq[i].key \in Keys /\ mq[i].version \in 1..MaxVersion
      BY EventFields DEF IInv, TypeOK
    <3>2. owner[mq[i].version] = mq[i].key
      BY DEF IInv, OwnVersions
    <3>3. QED
      BY <2>1, <3>1, <3>2
  <2>4. \A g \in Getters : getVersion[g] # 0 => owner'[getVersion[g]] = getKey[g]
    BY <2>1 DEF IInv, TypeOK, Version, Getting, OwnVersions
  <2>5. QED
    BY <2>2, <2>3, <2>4 DEF OwnVersions, getVars
<1>6. EventAfterStores'
  BY DEF IInv, EventAfterStores, stores
<1>7. QED
  BY <1>1, <1>2, <1>3, <1>4, <1>5, <1>6 DEF IInv

Stages == {"entries", "mysql", "redis", "etcd", "mq"}

\* What the five writing steps have in common: they put the publisher's own
\* version in at most one store.
LEMMA WriteInv ==
  ASSUME IInv, NEW p \in Publishers,
         \/ WriteEntries(p) \/ WriteMysql(p) \/ WriteRedis(p)
         \/ PutEtcd(p) \/ PublishEvent(p)
  PROVE  IInv'
<1> USE ConfigAssumption
<1>1. PICK stage \in Stages : Leave(p, stage)
  BY DEF Stages, WriteEntries, WriteMysql, WriteRedis, PutEtcd, PublishEvent
<1>2. /\ pubKey[p] \in Keys
      /\ pubVersion[p] \in 1..MaxVersion
      /\ owner[pubVersion[p]] = pubKey[p]
  BY <1>1 DEF IInv, Publishing, Leave, Stages
<1>3. /\ entries' \in {entries, Written(entries, p)}
      /\ mysql' \in {mysql, Written(mysql, p)}
      /\ redis' \in {redis, Written(redis, p)}
      /\ etcd' \in {etcd, Written(etcd, p)}
  BY DEF WriteEntries, WriteMysql, WriteRedis, PutEtcd, PublishEvent
<1>4. mq' \in {mq, Append(mq, [key |-> pubKey[p], version |-> pubVersion[p]])}
  BY DEF WriteEntries, WriteMysql, WriteRedis, PutEtcd, PublishEvent
<1>5. TypeOK'
  <2>1. /\ entries' \in Store /\ mysql' \in Store
        /\ redis' \in Store /\ etcd' \in Store
    BY <1>2, <1>3, WrittenStore DEF IInv, TypeOK
  <2>2. mq' \in Seq([key : Keys, version : 1..MaxVersion])
    <3> DEFINE event == [key |-> pubKey[p], version |-> pubVersion[p]]
    <3>1. event \in [key : Keys, version : 1..MaxVersion]
      BY <1>2
    <3>2. mq \in Seq([key : Keys, version : 1..MaxVersion])
      BY DEF IInv, TypeOK
    <3> HIDE DEF event
    <3>3. Append(mq, event) \in Seq([key : Keys, version : 1..MaxVersion])
      BY <3>1, <3>2
    <3>4. mq' \in {mq, Append(mq, event)}
      BY <1>4 DEF event
    <3>5. QED
      BY <3>2, <3>3, <3>4
  <2>3. pubPc' \in [Publishers -> PubPc]
    <3>1. StageAfter[stage] \in PubPc
      BY DEF Stages, StageAfter, PubPc
    <3>2. QED
      BY <1>1, <3>1 DEF IInv, TypeOK, Leave
  <2>4. QED
    BY <1>1, <2>1, <2>2, <2>3
       DEF IInv, TypeOK, Store, Leave, getVars, watchVars, histVars
<1>6. Publishing'
  BY <1>1 DEF IInv, TypeOK, Publishing, Leave, histVars, Stages
<1>7. /\ \A k \in Keys : entries[k] # 0 => entries'[k] # 0
      /\ \A k \in Keys : mysql[k] # 0 => mysql'[k] # 0
      /\ \A k \in Keys : redis[k] # 0 => redis'[k] # 0
      /\ \A k \in Keys : etcd[k] # 0 => etcd'[k] # 0
  BY <1>2, <1>3, WrittenStore DEF IInv, TypeOK
<1>8. Getting' /\ FoundStaysFound'
  BY <1>1 DEF IInv, Getting, FoundStaysFound, Leave, getVars
<1>9. Promised'
  BY <1>1, <1>7 DEF IInv, Getting, Promised, Leave, getVars
<1>10. OwnVersions'
  <2>1. owner' = owner
    BY <1>1 DEF Leave, histVars
  <2>2. Owned(entries)' /\ Owned(mysql)' /\ Owned(redis)' /\ Owned(etcd)'
    <3>1. /\ Owned(entries) /\ Owned(mysql) /\ Owned(redis) /\ Owned(etcd)
          /\ entries \in Store /\ mysql \in Store
          /\ redis \in Store /\ etcd \in Store
      BY DEF IInv, TypeOK, OwnVersions
    <3>2. \A store \in Store : Owned(store) => Owned(Written(store, p))
      BY <1>2, WrittenOwned
    <3>3. Owned(entries') /\ Owned(mysql') /\ Owned(redis') /\ Owned(etcd')
      BY <1>3, <3>1, <3>2
    <3>4. QED
      BY <2>1, <3>3 DEF Owned
  <2>3. \A i \in 1..Len(mq') : owner'[mq'[i].version] = mq'[i].key
    <3>1. \A i \in 1..Len(mq) : owner[mq[i].version] = mq[i].key
      BY DEF IInv, OwnVersions
    <3>2. \A i \in 1..Len(mq') :
            \/ i \in 1..Len(mq) /\ mq'[i] = mq[i]
            \/ mq'[i] = [key |-> pubKey[p], version |-> pubVersion[p]]
      <4> DEFINE event == [key |-> pubKey[p], version |-> pubVersion[p]]
      <4> HIDE DEF event
      <4>1. mq' \in {mq, Append(mq, event)}
        BY <1>4 DEF event
      <4>2. mq \in Seq([key : Keys, version : 1..MaxVersion])
        BY DEF IInv, TypeOK
      <4>3. event \in [key : Keys, version : 1..MaxVersion]
        BY <1>2 DEF event
      <4>4. \A i \in 1..Len(mq') : \/ i \in 1..Len(mq) /\ mq'[i] = mq[i]
                                  \/ mq'[i] = event
        BY <4>1, <4>2, <4>3, AppendProperties, SMTT(30)
      <4>5. QED
        BY <4>4 DEF event
    <3>3. QED
      BY <1>2, <2>1, <3>1, <3>2
  <2>4. QED
    BY <1>1, <2>1, <2>2, <2>3 DEF IInv, OwnVersions, Leave, getVars
<1>11. Passed' /\ EventAfterStores'
  <2>1. Passed'
    <3> SUFFICES ASSUME NEW q \in Publishers PROVE Passed!(q)'
      BY DEF Passed
    <3>1. CASE q # p
      <4>1. pubPc'[q] = pubPc[q] /\ pubKey'[q] = pubKey[q]
        BY <1>1, <3>1 DEF Leave, IInv, TypeOK
      <4>2. QED
        BY <1>7, <4>1 DEF IInv, Passed, Publishing
    <3>2. CASE q = p
      <4>1. pubKey'[p] = pubKey[p]
        BY <1>1 DEF Leave
      <4>2. CASE WriteEntries(p)
        BY <1>2, <3>2, <4>1, <4>2
           DEF IInv, TypeOK, Store, WriteEntries, Leave, StageAfter, Written
      <4>3. CASE WriteMysql(p)
        BY <1>2, <1>7, <3>2, <4>1, <4>3
           DEF IInv, TypeOK, Store, Passed, WriteMysql, Leave, StageAfter,
               Written
      <4>4. CASE WriteRedis(p)
        BY <1>2, <1>7, <3>2, <4>1, <4>4
           DEF IInv, TypeOK, Store, Passed, WriteRedis, Leave, StageAfter,
               Written
      <4>5. CASE PutEtcd(p)
        BY <1>2, <1>7, <3>2, <4>1, <4>5
           DEF IInv, TypeOK, Store, Passed, PutEtcd, Leave, StageAfter, Written
      <4>6. CASE PublishEvent(p)
        BY <3>2, <4>6 DEF IInv, TypeOK, PublishEvent, Leave, StageAfter
      <4>7. QED
        BY <4>2, <4>3, <4>4, <4>5, <4>6
    <3>3. QED
      BY <3>1, <3>2
  <2>2. EventAfterStores'
    <3>1. CASE mq' = mq
      <4> SUFFICES ASSUME NEW i \in 1..Len(mq) PROVE EventAfterStores!(i)'
        BY <3>1 DEF EventAfterStores
      <4>1. mq[i].key \in Keys
        BY EventFields DEF IInv, TypeOK
      <4>2. QED
        BY <1>7, <3>1, <4>1 DEF IInv, EventAfterStores
    <3>2. CASE PublishEvent(p) /\ mq' # mq
      <4>1. pubPc[p] = "mq"
        BY <3>2 DEF PublishEvent, Leave
      <4>2. /\ entries[pubKey[p]] # 0
            /\ "mysql" \in Deps => mysql[pubKey[p]] # 0
            /\ "redis" \in Deps => redis[pubKey[p]] # 0
            /\ "etcd" \in Deps => etcd[pubKey[p]] # 0
        BY <4>1 DEF IInv, Passed
      <4>3. UNCHANGED <<entries, mysql, redis, etcd>>
        BY <3>2 DEF PublishEvent
      <4>4. mq' = Append(mq, [key |-> pubKey[p], version |-> pubVersion[p]])
        BY <1>4, <3>2
      <4>5. \A i \in 1..Len(mq') : \/ i \in 1..Len(mq) /\ mq'[i] = mq[i]
                                  \/ mq'[i].key = pubKey[p]
        BY <1>2, <4>4 DEF IInv, TypeOK
      <4>6. QED
        BY <4>2, <4>3, <4>5 DEF IInv, EventAfterStores
    <3>3. QED
      BY <3>1, <3>2
         DEF WriteEntries, WriteMysql, WriteRedis, PutEtcd, PublishEvent
  <2>3. QED
    BY <2>1, <2>2
<1>12. QED
  BY <1>5, <1>6, <1>8, <1>9, <1>10, <1>11 DEF IInv

\* Answering a publisher preserves it.
LEMMA RespondInv ==
  ASSUME IInv, NEW p \in Publishers, Respond(p)
  PROVE  IInv'
<1> USE ConfigAssumption DEF Respond
<1>1. TypeOK'
  BY DEF IInv, TypeOK, Publishing, Store, Version, PubPc, stores, getVars,
         watchVars
<1>2. Publishing' /\ Passed'
  BY DEF IInv, TypeOK, Publishing, Passed, stores
<1>3. Getting' /\ Promised' /\ FoundStaysFound'
  BY DEF IInv, Getting, Promised, FoundStaysFound, stores, getVars
<1>4. OwnVersions' /\ EventAfterStores'
  BY DEF IInv, OwnVersions, Owned, EventAfterStores, stores, getVars
<1>5. QED
  BY <1>1, <1>2, <1>3, <1>4 DEF IInv

\* The beginning of a GetConfig preserves it.
LEMMA GetStartInv ==
  ASSUME IInv, NEW g \in Getters, NEW k \in DevKeys, GetStart(g, k)
  PROVE  IInv'
<1> USE ConfigAssumption DEF GetStart
<1>1. TypeOK'
  BY DEF IInv, TypeOK, Store, Version, GetPc, stores, pubVars, watchVars
<1>2. Publishing' /\ Passed'
  BY DEF IInv, Publishing, Passed, stores, pubVars
<1>3. Getting' /\ Promised' /\ FoundStaysFound'
  BY DEF IInv, TypeOK, Getting, Promised, FoundStaysFound, stores
<1>4. OwnVersions' /\ EventAfterStores'
  BY DEF IInv, TypeOK, OwnVersions, Owned, EventAfterStores, stores
<1>5. QED
  BY <1>1, <1>2, <1>3, <1>4 DEF IInv

\* A read of a store preserves it: the version read is the key's own, and a
\* key promised to the reader is still in the table when it gets there.
LEMMA ReadInv ==
  ASSUME IInv, NEW g \in Getters,
         ReadRedis(g) \/ ReadMysql(g) \/ ReadEntries(g)
  PROVE  IInv'
<1> USE ConfigAssumption
<1>1. PICK label \in GetPc \ {"idle"}, v \in Version : Proceed(g, label, v)
  BY DEF IInv, TypeOK, Store, Version, GetPc, Getting, ReadRedis, ReadMysql,
         ReadEntries
<1>2. UNCHANGED <<entries, redis>>
  BY DEF ReadRedis, ReadMysql, ReadEntries
<1>3. /\ getPc[g] # "idle"
      /\ getKey[g] \in DevKeys
  BY DEF IInv, Getting, ReadRedis, ReadMysql, ReadEntries
<1>4. getVersion'[g] # 0 => owner[getVersion'[g]] = getKey[g]
  BY <1>3 DEF IInv, TypeOK, OwnVersions, Owned, ReadRedis, ReadMysql,
              ReadEntries, Proceed
<1>5. TypeOK'
  BY <1>1, <1>2 DEF IInv, TypeOK, Proceed, pubVars, watchVars, histVars
<1>6. Publishing' /\ Passed' /\ EventAfterStores'
  BY <1>1, <1>2
     DEF IInv, Publishing, Passed, EventAfterStores, Proceed, pubVars, histVars
<1>7. Getting' /\ Promised'
  <2>1. getPc'[g] \in {"fillRedis", "fillEntries"} => getVersion'[g] # 0
    BY DEF IInv, TypeOK, ReadRedis, ReadMysql, ReadEntries, Proceed
  <2>2. QED
    BY <1>1, <1>2, <1>3, <2>1 DEF IInv, TypeOK, Getting, Promised, Proceed
<1>8. OwnVersions'
  BY <1>1, <1>2, <1>4 DEF IInv, TypeOK, OwnVersions, Owned, Proceed, histVars
<1>9. FoundStaysFound'
  <2>1. getPc'[g] = "done" /\ getPromised[g] => getVersion'[g] # 0
    BY <1>3 DEF IInv, TypeOK, Promised, ReadRedis, ReadMysql, ReadEntries,
                Proceed
  <2>2. QED
    BY <1>1, <2>1 DEF IInv, TypeOK, FoundStaysFound, Proceed
<1>10. QED
  BY <1>5, <1>6, <1>7, <1>8, <1>9 DEF IInv

\* The copies a GetConfig makes preserve it: they carry a version of their
\* own key.
LEMMA FillInv ==
  ASSUME IInv, NEW g \in Getters, FillRedis(g) \/ FillEntries(g)
  PROVE  IInv'
<1> USE ConfigAssumption
<1>1. PICK label \in {"fillEntries", "done"} :
         Proceed(g, label, getVersion[g])
  BY DEF FillRedis, FillEntries
<1>2. /\ getPc[g] # "idle"
      /\ getKey[g] \in Keys
      /\ getVersion[g] \in 1..MaxVersion
      /\ owner[getVersion[g]] = getKey[g]
  BY DEF IInv, TypeOK, Version, Getting, OwnVersions, FillRedis, FillEntries
<1> DEFINE Copied(store) == [store EXCEPT ![getKey[g]] = getVersion[g]]
<1>3. entries' \in {entries, Copied(entries)} /\ redis' \in {redis, Copied(redis)}
  BY DEF FillRedis, FillEntries
<1>4. getVersion' = getVersion
  <2>1. getVersion' = [getVersion EXCEPT ![g] = getVersion[g]]
    BY <1>1 DEF Proceed
  <2>2. getVersion \in [Getters -> Version]
    BY DEF IInv, TypeOK
  <2>3. QED
    BY <2>1, <2>2
<1>5. entries' \in Store /\ redis' \in Store
  <2>1. entries \in Store /\ redis \in Store
    BY DEF IInv, TypeOK
  <2>2. QED
    BY <1>2, <1>3, <2>1 DEF Store, Version
<1>6. TypeOK'
  BY <1>1, <1>4, <1>5
     DEF IInv, TypeOK, GetPc, Proceed, pubVars, watchVars, histVars
<1>7. /\ \A k \in Keys : entries[k] # 0 => entries'[k] # 0
      /\ \A k \in Keys : redis[k] # 0 => redis'[k] # 0
  BY <1>2, <1>3 DEF IInv, TypeOK, Store
<1> HIDE DEF Copied
<1>u. UNCHANGED <<mysql, etcd, mq, pubVars, getKey, getPromised, owner>>
  BY <1>1 DEF Proceed, histVars
<1>8. Publishing' /\ Passed'
  <2>1. Publishing'
    BY <1>u DEF IInv, Publishing, pubVars
  <2>2. Passed'
    <3> SUFFICES ASSUME NEW q \in Publishers PROVE Passed!(q)'
      BY DEF Passed
    <3>1. pubPc[q] # "idle" => pubKey[q] \in Keys
      BY DEF IInv, Publishing
    <3>2. QED
      BY <1>u, <1>7, <3>1 DEF IInv, Passed, pubVars
  <2>3. QED
    BY <2>1, <2>2
<1>9. EventAfterStores'
  <2> SUFFICES ASSUME NEW i \in 1..Len(mq) PROVE EventAfterStores!(i)'
    BY <1>1 DEF EventAfterStores, Proceed
  <2>1. mq[i].key \in Keys
    BY EventFields DEF IInv, TypeOK
  <2>2. QED
    BY <1>u, <1>7, <2>1 DEF IInv, EventAfterStores
<1>10. Getting' /\ Promised' /\ FoundStaysFound'
  <2>1. getPc' = [getPc EXCEPT ![g] = label] /\ getPc \in [Getters -> GetPc]
    BY <1>1 DEF Proceed, IInv, TypeOK
  <2>2. Getting'
    BY <1>u, <1>2, <1>4, <2>1 DEF IInv, Getting
  <2>3. Promised'
    <3> SUFFICES ASSUME NEW h \in Getters PROVE Promised!(h)'
      BY DEF Promised
    <3>1. getPc[h] # "idle" => getKey[h] \in Keys
      BY DEF IInv, Getting
    <3>2. getPc'[h] # "idle" => getPc[h] # "idle"
      BY <1>2, <2>1
    <3>3. QED
      BY <1>u, <1>7, <3>1, <3>2 DEF IInv, Promised
  <2>4. FoundStaysFound'
    BY <1>u, <1>2, <1>4, <2>1 DEF IInv, FoundStaysFound
  <2>5. QED
    BY <2>2, <2>3, <2>4
<1>11. OwnVersions'
  <2>1. Owned(entries)' /\ Owned(redis)'
    BY <1>1, <1>2, <1>3
       DEF Copied, IInv, TypeOK, Store, OwnVersions, Owned, Proceed, histVars
  <2>2. QED
    BY <1>1, <1>4, <2>1 DEF IInv, OwnVersions, Owned, Proceed, histVars
<1>12. QED
  BY <1>6, <1>8, <1>9, <1>10, <1>11 DEF IInv

\* A watcher changes nothing but its own cursor.
LEMMA WatchInv ==
  ASSUME IInv, NEW w \in Watchers, WatchConfig(w)
  PROVE  IInv'
<1> USE ConfigAssumption DEF WatchConfig
<1>1. TypeOK'
  <2>1. CollectNamespace(cursor[w]) \subseteq 1..MaxVersion
    BY DEF CollectNamespace, IInv, TypeOK, Store, Version
  <2>2. QED
    BY <2>1 DEF IInv, TypeOK, Version, stores, pubVars, getVars, histVars
<1>2. Publishing' /\ Passed' /\ Getting' /\ Promised'
  BY DEF IInv, Publishing, Passed, Getting, Promised, stores, pubVars, getVars,
         histVars
<1>3. OwnVersions' /\ FoundStaysFound' /\ EventAfterStores'
  BY DEF IInv, OwnVersions, Owned, FoundStaysFound, EventAfterStores, stores,
         getVars, histVars
<1>4. QED
  BY <1>1, <1>2, <1>3 DEF IInv

\* Every step preserves the inductive invariant.
LEMMA NextInv == IInv /\ [Next]_vars => IInv'
<1> SUFFICES ASSUME IInv, [Next]_vars PROVE IInv'
  OBVIOUS
<1>1. CASE \E p \in Publishers : Publish(p)
  BY <1>1, StartInv, WriteInv, RespondInv DEF Publish
<1>2. CASE \E g \in Getters : GetConfig(g)
  BY <1>2, GetStartInv, ReadInv, FillInv DEF GetConfig
<1>3. CASE \E w \in Watchers : WatchConfig(w)
  BY <1>3, WatchInv
<1>4. CASE UNCHANGED vars
  BY <1>4
     DEF IInv, TypeOK, Publishing, Passed, Getting, Promised, OwnVersions,
         Owned, FoundStaysFound, EventAfterStores, vars, stores, pubVars,
         getVars, watchVars, histVars
<1>5. QED
  BY <1>1, <1>2, <1>3, <1>4 DEF Next

\* The state of the configuration centre is well typed.
THEOREM ConfigType == Spec => []TypeOK
<1>1. IInv => TypeOK
  BY DEF IInv
<1>2. QED
  BY InitInv, NextInv, <1>1, PTL DEF Spec

\* No store, event or answer shows a key another key's version.
THEOREM VersionsOwned == Spec => []OwnVersions
<1>1. IInv => OwnVersions
  BY DEF IInv
<1>2. QED
  BY InitInv, NextInv, <1>1, PTL DEF Spec

\* A key that was in the table when a GetConfig began is found by it.
THEOREM NeverLost == Spec => []FoundStaysFound
<1>1. IInv => FoundStaysFound
  BY DEF IInv
<1>2. QED
  BY InitInv, NextInv, <1>1, PTL DEF Spec

\* The event of a key comes after the key in every store.
THEOREM EventLast == Spec => []EventAfterStores
<1>1. IInv => EventAfterStores
  BY DEF IInv
<1>2. QED
  BY InitInv, NextInv, <1>1, PTL DEF Spec
-----------------------------------------------------------------------------
(* What holds of a key whose operations never overlapped, and of a table   *)
(* whose versions came in the order they were taken.                       *)

\* Whatever was given to a client was given out.
Given == /\ \A k \in Keys : acked[k] < nextVersion
         /\ \A w \in Watchers : cursor[w] < nextVersion

Publishes(p, k) == pubPc[p] # "idle" /\ pubKey[p] = k
Gets(g, k) == getPc[g] \notin {"idle", "done"} /\ getKey[g] = k

\* On such a key a publication is alone: with no other, and with no GetConfig.
QuietAlone ==
    \A k \in Keys : ~overlapped[k] =>
        \A p \in Publishers : Publishes(p, k) =>
            /\ \A q \in Publishers : Publishes(q, k) => q = p
            /\ \A g \in Getters : ~Gets(g, k)

\* The version of store while p publishes: its own once it has been there.
HasOrHad(store, p, before) ==
    store[pubKey[p]] =
        IF pubPc[p] \in before THEN acked[pubKey[p]] ELSE pubVersion[p]

\* While it is published, its stores hold the new version as far as the
\* publication has come, and the newest answered one beyond.
QuietPublishing ==
    \A p \in Publishers : pubPc[p] # "idle" /\ ~overlapped[pubKey[p]] =>
        /\ acked[pubKey[p]] < pubVersion[p]
        /\ HasOrHad(entries, p, {"entries"})
        /\ "mysql" \in Deps => HasOrHad(mysql, p, {"entries", "mysql"})
        /\ "redis" \in Deps => HasOrHad(redis, p, {"entries", "mysql", "redis"})
        /\ "etcd" \in Deps =>
             HasOrHad(etcd, p, {"entries", "mysql", "redis", "etcd"})
        /\ \A v \in 1..MaxVersion :
             owner[v] = pubKey[p] => v <= acked[pubKey[p]] \/ v = pubVersion[p]

\* What a GetConfig copies is the version the stores agree on.
QuietGetting ==
    \A g \in Getters :
        getPc[g] \in {"fillRedis", "fillEntries"} /\ ~overlapped[getKey[g]] =>
            getVersion[g] = acked[getKey[g]]

\* A version on its way to the table is newer than all that is in the table,
\* can be copied to it, or was received from it.
NewestLast ==
    \A p \in Publishers : ~crossed /\ pubPc[p] = "entries" =>
        /\ \A q \in Publishers \ {p} :
             pubPc[q] # "idle" => pubVersion[q] < pubVersion[p]
        /\ \A k \in Keys : entries[k] < pubVersion[p] /\ mysql[k] < pubVersion[p]
        /\ \A g \in Getters : getPc[g] \in {"fillRedis", "fillEntries"} =>
             getVersion[g] < pubVersion[p]
        /\ \A w \in Watchers : cursor[w] < pubVersion[p]

QInv == /\ Given /\ QuietAlone /\ QuietPublishing /\ QuietGetting /\ NewestLast
        /\ QuietKeyAgrees /\ WatchIsComplete

\* The initial state satisfies it.
LEMMA QuietInit == Init => QInv
<1> SUFFICES ASSUME Init PROVE QInv
  OBVIOUS
<1>1. Given /\ QuietAlone /\ QuietPublishing /\ QuietGetting /\ NewestLast
  BY DEF Init, Given, QuietAlone, QuietPublishing, QuietGetting, NewestLast,
         Publishes
<1>2. QuietKeyAgrees /\ WatchIsComplete
  BY ConfigAssumption DEF Init, QuietKeyAgrees, WatchIsComplete
<1>3. QED
  BY <1>1, <1>2 DEF QInv

\* All that is stored, published or copied was given out.
LEMMA AllGiven ==
  ASSUME IInv
  PROVE  /\ nextVersion \in Nat
         /\ \A k \in Keys : /\ entries[k] \in Nat /\ entries[k] < nextVersion
                            /\ mysql[k] \in Nat /\ mysql[k] < nextVersion
         /\ \A p \in Publishers : pubPc[p] # "idle" =>
              pubVersion[p] \in Nat /\ pubVersion[p] < nextVersion
         /\ \A g \in Getters :
              getVersion[g] \in Nat /\ getVersion[g] < nextVersion
<1> USE ConfigAssumption
<1>1. /\ nextVersion \in Nat /\ nextVersion > 0
      /\ \A v \in 1..MaxVersion : owner[v] # NoKey => v < nextVersion
  BY DEF IInv, TypeOK
<1>2. \A store \in Store : Owned(store) =>
        \A k \in Keys : store[k] \in Nat /\ store[k] < nextVersion
  BY <1>1 DEF Owned, Store, Version
<1>3. \A p \in Publishers : pubPc[p] # "idle" =>
        pubVersion[p] \in Nat /\ pubVersion[p] < nextVersion
  BY <1>1 DEF IInv, Publishing
<1>4. \A g \in Getters : getVersion[g] \in Nat /\ getVersion[g] < nextVersion
  <2> SUFFICES ASSUME NEW g \in Getters
               PROVE  getVersion[g] \in Nat /\ getVersion[g] < nextVersion
    OBVIOUS
  <2>1. getVersion[g] \in 0..MaxVersion
    BY DEF IInv, TypeOK, Version
  <2>2. getVersion[g] # 0 => owner[getVersion[g]] \in Keys
    BY DEF IInv, OwnVersions, Getting
  <2>3. QED
    BY <1>1, <2>1, <2>2
<1>5. QED
  BY <1>1, <1>2, <1>3, <1>4 DEF IInv, TypeOK, OwnVersions

\* Taking a version preserves it: on a key where nothing else happens the
\* stores agree, and the version is newer than everything given out.
LEMMA StartQuiet ==
  ASSUME IInv, QInv, NEW p \in Publishers, NEW k \in Keys, PublishStart(p, k)
  PROVE  QInv'
<1> USE ConfigAssumption
<1>1. /\ UNCHANGED <<entries, mysql, redis, etcd, acked>>
      /\ UNCHANGED <<getPc, getKey, getVersion, cursor, seen>>
  BY DEF PublishStart, stores, getVars, watchVars
<1>2. /\ pubPc[p] = "idle" /\ pubPc'[p] = "entries"
      /\ pubKey'[p] = k /\ pubVersion'[p] = nextVersion
      /\ \A q \in Publishers \ {p} :
           /\ pubPc'[q] = pubPc[q] /\ pubKey'[q] = pubKey[q]
           /\ pubVersion'[q] = pubVersion[q]
  BY DEF PublishStart, IInv, TypeOK
<1>3. /\ nextVersion \in 1..MaxVersion /\ nextVersion' = nextVersion + 1
      /\ owner[nextVersion] = NoKey /\ owner'[nextVersion] = k
      /\ \A v \in 1..MaxVersion \ {nextVersion} : owner'[v] = owner[v]
  BY DEF PublishStart, IInv, TypeOK
<1>4. /\ \A x \in Keys : overlapped[x] => overlapped'[x]
      /\ ~overlapped'[k] => ~PublishActive(k) /\ ~GetActive(k)
      /\ \A x \in Keys \ {k} : overlapped'[x] = overlapped[x]
  BY DEF PublishStart, IInv, TypeOK
<1>5. ~crossed' => ~crossed /\ ~VersionOnItsWay
  BY DEF PublishStart
<1>6. Given'
  BY <1>1, <1>3 DEF QInv, Given, IInv, TypeOK, Store, Version
<1>7. QuietAlone'
  <2> SUFFICES ASSUME NEW x \in Keys, ~overlapped'[x],
                      NEW q \in Publishers, Publishes(q, x)'
               PROVE  /\ \A r \in Publishers : Publishes(r, x)' => r = q
                      /\ \A g \in Getters : ~Gets(g, x)'
    BY DEF QuietAlone
  <2>1. CASE x = k
    BY <1>1, <1>2, <1>4, <2>1 DEF Publishes, Gets, PublishActive, GetActive
  <2>2. CASE x # k
    BY <1>1, <1>2, <1>4, <2>2 DEF QInv, QuietAlone, Publishes, Gets
  <2>3. QED
    BY <2>1, <2>2
<1>8. QuietPublishing'
  <2> SUFFICES ASSUME NEW q \in Publishers, pubPc'[q] # "idle",
                      ~overlapped'[pubKey'[q]]
               PROVE  QuietPublishing!(q)'
    BY DEF QuietPublishing
  <2>1. CASE q = p
    <3>1. ~overlapped[k] /\ ~PublishActive(k)
      BY <1>2, <1>4, <2>1
    <3>2. QuietKeyAgrees!(k)
      BY <3>1 DEF QInv, QuietKeyAgrees
    <3>3. acked[k] < nextVersion
      BY DEF QInv, Given
    <3>4. QED
      BY <1>1, <1>2, <1>3, <2>1, <3>1, <3>2, <3>3 DEF HasOrHad
  <2>2. CASE q # p
    <3>1. pubKey[q] \in Keys
      BY <1>2, <2>2 DEF IInv, Publishing
    <3>2. pubKey[q] # k
      BY <1>2, <1>4, <2>2 DEF PublishActive
    <3>3. QuietPublishing!(q)
      BY <1>2, <1>4, <2>2, <3>1 DEF QInv, QuietPublishing
    <3>4. QED
      BY <1>1, <1>2, <1>3, <1>4, <2>2, <3>1, <3>2, <3>3 DEF HasOrHad
  <2>3. QED
    BY <2>1, <2>2
<1>9. QuietGetting'
  <2>1. \A g \in Getters : getPc[g] # "idle" => getKey[g] \in Keys
    BY DEF IInv, Getting
  <2>2. QED
    BY <1>1, <1>4, <2>1 DEF QInv, QuietGetting
<1>10. NewestLast'
  <2>1. ~crossed' => \A q \in Publishers : pubPc'[q] = "entries" => q = p
    BY <1>2, <1>5 DEF VersionOnItsWay
  <2>2. \A w \in Watchers : cursor[w] < nextVersion
    BY DEF QInv, Given
  <2>3. QED
    BY <1>1, <1>2, <2>1, <2>2, AllGiven DEF NewestLast
<1>11. QuietKeyAgrees'
  <2> SUFFICES ASSUME NEW x \in Keys, ~overlapped'[x], ~PublishActive(x)'
               PROVE  QuietKeyAgrees!(x)'
    BY DEF QuietKeyAgrees
  <2>1. x # k
    BY <1>2 DEF PublishActive
  <2>2. ~overlapped[x] /\ ~PublishActive(x)
    BY <1>2, <1>4 DEF PublishActive
  <2>3. QuietKeyAgrees!(x)
    BY <2>2 DEF QInv, QuietKeyAgrees
  <2>4. QED
    BY <1>1, <1>3, <2>1, <2>2, <2>3
<1>12. WatchIsComplete'
  BY <1>1, <1>4, <1>5 DEF QInv, WatchIsComplete
<1>13. QED
  BY <1>6, <1>7, <1>8, <1>9, <1>10, <1>11, <1>12 DEF QInv

\* A step of a publication on the stores preserves it: the publication is one
\* stage further, and alone on its key if the key is quiet.
LEMMA WriteQuiet ==
  ASSUME IInv, QInv, NEW p \in Publishers,
         \/ WriteEntries(p) \/ WriteMysql(p) \/ WriteRedis(p)
         \/ PutEtcd(p) \/ PublishEvent(p)
  PROVE  QInv'
<1> USE ConfigAssumption
<1>1. PICK stage \in Stages : Leave(p, stage)
  BY DEF Stages, WriteEntries, WriteMysql, WriteRedis, PutEtcd, PublishEvent
<1>2. /\ UNCHANGED <<nextVersion, pubKey, pubVersion>>
      /\ UNCHANGED <<getPc, getKey, getVersion, cursor, seen>>
      /\ UNCHANGED <<owner, acked, overlapped, crossed>>
  BY <1>1 DEF Leave, getVars, watchVars, histVars
<1>3. /\ pubPc[p] = stage /\ pubPc[p] # "idle"
      /\ pubPc'[p] = StageAfter[stage] /\ pubPc'[p] \notin {"idle", "entries"}
      /\ \A q \in Publishers \ {p} : pubPc'[q] = pubPc[q]
  BY <1>1 DEF Leave, IInv, TypeOK, Stages, StageAfter
<1>4. /\ pubKey[p] \in Keys /\ pubVersion[p] \in 1..MaxVersion
  BY <1>3 DEF IInv, Publishing
<1>5. /\ entries' \in {entries, Written(entries, p)}
      /\ mysql' \in {mysql, Written(mysql, p)}
      /\ redis' \in {redis, Written(redis, p)}
      /\ etcd' \in {etcd, Written(etcd, p)}
      /\ pubPc[p] # "entries" => entries' = entries
      /\ pubPc[p] # "mysql" => mysql' = mysql
  BY DEF WriteEntries, WriteMysql, WriteRedis, PutEtcd, PublishEvent, Leave
<1>6. \A x \in Keys \ {pubKey[p]} :
        /\ entries'[x] = entries[x] /\ mysql'[x] = mysql[x]
        /\ redis'[x] = redis[x] /\ etcd'[x] = etcd[x]
  BY <1>4, <1>5, WrittenStore DEF IInv, TypeOK
<1>7. Given'
  BY <1>2 DEF QInv, Given
<1>8. \A x \in Keys : PublishActive(x)' = PublishActive(x)
  BY <1>2, <1>3 DEF PublishActive
<1>9. QuietAlone' /\ QuietGetting'
  <2>1. \A q \in Publishers, x \in Keys : Publishes(q, x)' = Publishes(q, x)
    BY <1>2, <1>3 DEF Publishes
  <2>2. \A g \in Getters, x \in Keys : Gets(g, x)' = Gets(g, x)
    BY <1>2 DEF Gets
  <2>3. QuietAlone'
    BY <1>2, <2>1, <2>2 DEF QInv, QuietAlone
  <2>4. QuietGetting'
    BY <1>2 DEF QInv, QuietGetting
  <2>5. QED
    BY <2>3, <2>4
<1>10. QuietPublishing'
  <2> SUFFICES ASSUME NEW q \in Publishers, pubPc'[q] # "idle",
                      ~overlapped[pubKey[q]]
               PROVE  QuietPublishing!(q)'
    BY <1>2 DEF QuietPublishing
  <2>1. pubPc[q] # "idle" /\ pubKey[q] \in Keys
    BY <1>3 DEF IInv, Publishing
  <2>2. QuietPublishing!(q)
    BY <2>1 DEF QInv, QuietPublishing
  <2>3. CASE q # p
    <3>1. pubKey[q] # pubKey[p]
      BY <1>3, <1>4, <2>1, <2>3 DEF QInv, QuietAlone, Publishes
    <3>2. QED
      BY <1>2, <1>3, <1>6, <2>1, <2>2, <2>3, <3>1 DEF HasOrHad
  <2>4. CASE q = p
    <3> DEFINE k == pubKey[p]
    <3>1. \A store \in Store : Written(store, p)[k] = pubVersion[p]
      BY <1>4, WrittenStore
    <3>2. entries \in Store /\ mysql \in Store /\ redis \in Store /\ etcd \in Store
      BY DEF IInv, TypeOK
    <3>3. CASE WriteEntries(p)
      BY <1>2, <1>3, <2>2, <2>4, <3>1, <3>2, <3>3
         DEF HasOrHad, WriteEntries, Leave, StageAfter
    <3>4. CASE WriteMysql(p)
      BY <1>2, <1>3, <2>2, <2>4, <3>1, <3>2, <3>4
         DEF HasOrHad, WriteMysql, Leave, StageAfter
    <3>5. CASE WriteRedis(p)
      BY <1>2, <1>3, <2>2, <2>4, <3>1, <3>2, <3>5
         DEF HasOrHad, WriteRedis, Leave, StageAfter
    <3>6. CASE PutEtcd(p)
      BY <1>2, <1>3, <2>2, <2>4, <3>1, <3>2, <3>6
         DEF HasOrHad, PutEtcd, Leave, StageAfter
    <3>7. CASE PublishEvent(p)
      BY <1>2, <1>3, <2>2, <2>4, <3>7
         DEF HasOrHad, PublishEvent, Leave, StageAfter
    <3>8. QED
      BY <3>3, <3>4, <3>5, <3>6, <3>7
  <2>5. QED
    BY <2>3, <2>4
<1>11. QuietKeyAgrees'
  <2> SUFFICES ASSUME NEW x \in Keys, ~overlapped[x], ~PublishActive(x)
               PROVE  QuietKeyAgrees!(x)'
    BY <1>2, <1>8 DEF QuietKeyAgrees
  <2>1. x # pubKey[p]
    BY <1>3 DEF PublishActive
  <2>2. QuietKeyAgrees!(x)
    BY DEF QInv, QuietKeyAgrees
  <2>3. QED
    BY <1>2, <1>6, <2>1, <2>2
<1>12. NewestLast'
  <2> SUFFICES ASSUME NEW q \in Publishers, ~crossed, pubPc'[q] = "entries"
               PROVE  NewestLast!(q)'
    BY <1>2 DEF NewestLast
  <2>1. q # p /\ pubPc[q] = "entries"
    BY <1>3
  <2>2. NewestLast!(q)
    BY <2>1 DEF QInv, NewestLast
  <2>3. pubVersion[p] < pubVersion[q]
    BY <1>3, <2>1, <2>2
  <2>4. \A x \in Keys : /\ entries'[x] \in {entries[x], pubVersion[p]}
                        /\ mysql'[x] \in {mysql[x], pubVersion[p]}
    BY <1>4, <1>5, WrittenStore DEF IInv, TypeOK
  <2>5. QED
    BY <1>2, <1>3, <2>2, <2>3, <2>4
<1>13. WatchIsComplete'
  <2> SUFFICES ASSUME NEW w \in Watchers, NEW x \in Keys,
                      ~crossed, ~overlapped[x],
                      entries'[x] # 0, entries'[x] <= cursor[w]
               PROVE  entries'[x] \in seen[w]
    BY <1>2 DEF WatchIsComplete
  <2>1. CASE entries'[x] = entries[x]
    BY <2>1 DEF QInv, WatchIsComplete
  <2>2. CASE entries'[x] # entries[x]
    <3>1. pubPc[p] = "entries" /\ entries'[x] = pubVersion[p]
      BY <1>4, <1>5, <1>6, <2>2, WrittenStore DEF IInv, TypeOK
    <3>2. cursor[w] < pubVersion[p]
      BY <3>1 DEF QInv, NewestLast
    <3>3. QED
      BY <1>4, <3>1, <3>2 DEF IInv, TypeOK, Version
  <2>3. QED
    BY <2>1, <2>2
<1>14. QED
  BY <1>7, <1>9, <1>10, <1>11, <1>12, <1>13 DEF QInv

\* Answering a publisher preserves it: a quiet key is in all its stores with
\* the version answered.
LEMMA RespondQuiet ==
  ASSUME IInv, QInv, NEW p \in Publishers, Respond(p)
  PROVE  QInv'
<1> USE ConfigAssumption
<1> DEFINE k == pubKey[p]
<1>1. /\ UNCHANGED <<nextVersion, pubKey, pubVersion>>
      /\ UNCHANGED <<entries, mysql, redis, etcd>>
      /\ UNCHANGED <<getPc, getKey, getVersion, cursor, seen>>
      /\ UNCHANGED <<owner, overlapped, crossed>>
  BY DEF Respond, stores, getVars, watchVars
<1>2. /\ pubPc[p] = "respond" /\ pubPc'[p] = "idle"
      /\ \A q \in Publishers \ {p} : pubPc'[q] = pubPc[q]
  BY DEF Respond, IInv, TypeOK
<1>3. k \in Keys /\ pubVersion[p] \in 1..MaxVersion
  BY <1>2 DEF IInv, Publishing
<1>4. /\ \A x \in Keys \ {k} : acked'[x] = acked[x]
      /\ acked'[k] \in {acked[k], pubVersion[p]}
      /\ acked[k] < pubVersion[p] => acked'[k] = pubVersion[p]
  BY <1>3 DEF Respond, IInv, TypeOK, Store
<1>5. ~overlapped[k] =>
        /\ \A q \in Publishers : Publishes(q, k) => q = p
        /\ \A g \in Getters : ~Gets(g, k)
  BY <1>2, <1>3 DEF QInv, QuietAlone, Publishes
<1>6. Given'
  <2>1. pubVersion[p] < nextVersion
    BY <1>2, AllGiven
  <2>2. QED
    BY <1>1, <1>4, <2>1 DEF QInv, Given
<1>7. QuietAlone'
  BY <1>1, <1>2 DEF QInv, QuietAlone, Publishes, Gets
<1>8. QuietPublishing'
  <2> SUFFICES ASSUME NEW q \in Publishers, pubPc'[q] # "idle",
                      ~overlapped[pubKey[q]]
               PROVE  QuietPublishing!(q)'
    BY <1>1 DEF QuietPublishing
  <2>1. q # p /\ pubPc'[q] = pubPc[q] /\ pubKey[q] \in Keys
    BY <1>2 DEF IInv, Publishing
  <2>2. pubKey[q] # k
    BY <1>5, <2>1 DEF Publishes
  <2>3. QuietPublishing!(q)
    BY <2>1 DEF QInv, QuietPublishing
  <2>4. QED
    BY <1>1, <1>4, <2>1, <2>2, <2>3 DEF HasOrHad
<1>9. QuietGetting'
  <2> SUFFICES ASSUME NEW g \in Getters, getPc[g] \in {"fillRedis", "fillEntries"},
                      ~overlapped[getKey[g]]
               PROVE  getVersion[g] = acked'[getKey[g]]
    BY <1>1 DEF QuietGetting
  <2>1. getKey[g] \in Keys
    BY DEF IInv, Getting
  <2>2. getKey[g] # k
    BY <1>5 DEF Gets
  <2>3. QED
    BY <1>4, <2>1, <2>2 DEF QInv, QuietGetting
<1>10. NewestLast'
  <2> SUFFICES ASSUME NEW q \in Publishers, ~crossed, pubPc'[q] = "entries"
               PROVE  NewestLast!(q)'
    BY <1>1 DEF NewestLast
  <2>1. pubPc[q] = "entries"
    BY <1>2
  <2>2. NewestLast!(q)
    BY <2>1 DEF QInv, NewestLast
  <2>3. QED
    BY <1>1, <1>2, <2>2
<1>11. QuietKeyAgrees'
  <2> SUFFICES ASSUME NEW x \in Keys, ~overlapped[x], ~PublishActive(x)'
               PROVE  QuietKeyAgrees!(x)'
    BY <1>1 DEF QuietKeyAgrees
  <2>1. CASE x = k
    <3>1. QuietPublishing!(p)
      BY <1>2, <2>1 DEF QInv, QuietPublishing
    <3>2. acked'[k] = pubVersion[p]
      BY <1>2, <1>4, <2>1, <3>1
    <3>3. acked[k] \in 0..MaxVersion
      BY <1>3 DEF IInv, TypeOK, Store, Version
    <3>4. \A v \in 1..MaxVersion : owner[v] = k => v <= pubVersion[p]
      BY <1>2, <1>3, <2>1, <3>1, <3>3
    <3>5. QED
      BY <1>1, <1>2, <2>1, <3>1, <3>2, <3>4 DEF HasOrHad
  <2>2. CASE x # k
    <3>1. ~PublishActive(x)
      BY <1>1, <1>2, <2>2 DEF PublishActive
    <3>2. QuietKeyAgrees!(x)
      BY <3>1 DEF QInv, QuietKeyAgrees
    <3>3. QED
      BY <1>1, <1>4, <2>2, <3>1, <3>2
  <2>3. QED
    BY <2>1, <2>2
<1>12. WatchIsComplete'
  BY <1>1 DEF QInv, WatchIsComplete
<1>13. QED
  BY <1>6, <1>7, <1>8, <1>9, <1>10, <1>11, <1>12 DEF QInv

\* The beginning of a GetConfig preserves it: beside a publication it ends
\* the quiet of the key.
LEMMA GetStartQuiet ==
  ASSUME IInv, QInv, NEW g \in Getters, NEW k \in DevKeys, GetStart(g, k)
  PROVE  QInv'
<1> USE ConfigAssumption
<1>1. /\ UNCHANGED <<nextVersion, pubPc, pubKey, pubVersion>>
      /\ UNCHANGED <<entries, mysql, redis, etcd>>
      /\ UNCHANGED <<cursor, seen, owner, acked, crossed>>
  BY DEF GetStart, stores, pubVars, watchVars
<1>2. /\ getPc'[g] = "redis" /\ getKey'[g] = k
      /\ \A h \in Getters \ {g} :
           /\ getPc'[h] = getPc[h] /\ getKey'[h] = getKey[h]
           /\ getVersion'[h] = getVersion[h]
  BY DEF GetStart, IInv, TypeOK
<1>3. /\ \A x \in Keys : overlapped[x] => overlapped'[x]
      /\ ~overlapped'[k] => ~PublishActive(k)
  BY DEF GetStart, IInv, TypeOK
<1>4. Given' /\ WatchIsComplete'
  BY <1>1, <1>3 DEF QInv, Given, WatchIsComplete
<1>5. QuietAlone'
  <2> SUFFICES ASSUME NEW x \in Keys, ~overlapped'[x],
                      NEW q \in Publishers, Publishes(q, x)
               PROVE  /\ \A r \in Publishers : Publishes(r, x) => r = q
                      /\ \A h \in Getters : ~Gets(h, x)'
    BY <1>1 DEF QuietAlone, Publishes
  <2>1. x # k
    BY <1>3 DEF Publishes, PublishActive
  <2>2. QED
    BY <1>2, <1>3, <2>1 DEF QInv, QuietAlone, Gets
<1>6. QuietPublishing'
  <2>1. \A q \in Publishers : pubPc[q] # "idle" => pubKey[q] \in Keys
    BY DEF IInv, Publishing
  <2>2. QED
    BY <1>1, <1>3, <2>1 DEF QInv, QuietPublishing, HasOrHad
<1>7. QuietGetting'
  <2>1. \A h \in Getters : getPc[h] # "idle" => getKey[h] \in Keys
    BY DEF IInv, Getting
  <2>2. QED
    BY <1>1, <1>2, <1>3, <2>1 DEF QInv, QuietGetting
<1>8. NewestLast'
  BY <1>1, <1>2 DEF QInv, NewestLast
<1>9. QuietKeyAgrees'
  BY <1>1, <1>3 DEF QInv, QuietKeyAgrees, PublishActive
<1>10. QED
  BY <1>4, <1>5, <1>6, <1>7, <1>8, <1>9 DEF QInv

\* A read of a store preserves it: on a quiet key MySQL holds the version the
\* other stores hold.
LEMMA ReadQuiet ==
  ASSUME IInv, QInv, NEW g \in Getters,
         ReadRedis(g) \/ ReadMysql(g) \/ ReadEntries(g)
  PROVE  QInv'
<1> USE ConfigAssumption
<1>1. PICK label \in GetPc \ {"idle"}, v \in Version : Proceed(g, label, v)
  BY DEF IInv, TypeOK, Store, Version, GetPc, Getting, ReadRedis, ReadMysql,
         ReadEntries
<1>2. /\ UNCHANGED <<nextVersion, entries, mysql, redis, etcd>>
      /\ UNCHANGED <<pubPc, pubKey, pubVersion, getKey, cursor, seen>>
      /\ UNCHANGED <<owner, acked, overlapped, crossed>>
  BY <1>1
     DEF Proceed, pubVars, watchVars, histVars, ReadRedis, ReadMysql, ReadEntries
<1>3. /\ getPc[g] \notin {"idle", "done"} /\ getKey[g] \in Keys
      /\ \A h \in Getters \ {g} :
           getPc'[h] = getPc[h] /\ getVersion'[h] = getVersion[h]
  BY <1>1
     DEF Proceed, IInv, TypeOK, Getting, ReadRedis, ReadMysql, ReadEntries
<1>4. getPc'[g] \in {"fillRedis", "fillEntries"} =>
        "mysql" \in Deps /\ getVersion'[g] = mysql[getKey[g]]
  BY DEF IInv, TypeOK, ReadRedis, ReadMysql, ReadEntries, Proceed
<1>5. Given' /\ WatchIsComplete'
  BY <1>2 DEF QInv, Given, WatchIsComplete
<1>6. QuietAlone'
  BY <1>2, <1>3 DEF QInv, QuietAlone, Publishes, Gets
<1>7. QuietPublishing'
  BY <1>2 DEF QInv, QuietPublishing, HasOrHad
<1>8. QuietGetting'
  <2>1. ~overlapped[getKey[g]] => ~PublishActive(getKey[g])
    BY <1>3 DEF QInv, QuietAlone, Publishes, Gets, PublishActive
  <2>2. "mysql" \in Deps /\ ~overlapped[getKey[g]] =>
          mysql[getKey[g]] = acked[getKey[g]]
    BY <1>3, <2>1 DEF QInv, QuietKeyAgrees
  <2>3. QED
    BY <1>2, <1>3, <1>4, <2>2 DEF QInv, QuietGetting
<1>9. NewestLast'
  BY <1>2, <1>3, <1>4 DEF QInv, NewestLast
<1>10. QuietKeyAgrees'
  BY <1>2 DEF QInv, QuietKeyAgrees, PublishActive
<1>11. QED
  BY <1>5, <1>6, <1>7, <1>8, <1>9, <1>10 DEF QInv

\* The copies of a GetConfig preserve it: on a quiet key they write what is
\* there already.
LEMMA FillQuiet ==
  ASSUME IInv, QInv, NEW g \in Getters, FillRedis(g) \/ FillEntries(g)
  PROVE  QInv'
<1> USE ConfigAssumption
<1> DEFINE k == getKey[g]
           Copied(store) == [store EXCEPT ![k] = getVersion[g]]
<1>1. /\ getPc[g] \in {"fillRedis", "fillEntries"} /\ k \in Keys
  BY DEF IInv, Getting, FillRedis, FillEntries
<1>2. PICK label \in {"fillEntries", "done"} : Proceed(g, label, getVersion[g])
  BY DEF FillRedis, FillEntries
<1>3. /\ UNCHANGED <<nextVersion, mysql, etcd>>
      /\ UNCHANGED <<pubPc, pubKey, pubVersion, getKey, cursor, seen>>
      /\ UNCHANGED <<owner, acked, overlapped, crossed>>
      /\ getVersion' = getVersion
      /\ \A h \in Getters \ {g} : getPc'[h] = getPc[h]
  BY <1>2 DEF Proceed, pubVars, watchVars, histVars, IInv, TypeOK
<1>4. entries' \in {entries, Copied(entries)} /\ redis' \in {redis, Copied(redis)}
  BY DEF FillRedis, FillEntries
<1>5. \A x \in Keys :
        /\ entries'[x] \in {entries[x], getVersion[g]}
        /\ redis'[x] \in {redis[x], getVersion[g]}
        /\ x # k => entries'[x] = entries[x] /\ redis'[x] = redis[x]
  BY <1>1, <1>4 DEF IInv, TypeOK, Store
<1>6. ~overlapped[k] =>
        /\ ~PublishActive(k) /\ getVersion[g] = acked[k]
        /\ entries[k] = acked[k]
        /\ "redis" \in Deps => redis[k] = acked[k]
  <2>1. ~overlapped[k] => ~PublishActive(k)
    BY <1>1 DEF QInv, QuietAlone, Publishes, Gets, PublishActive
  <2>2. QED
    BY <1>1, <2>1 DEF QInv, QuietGetting, QuietKeyAgrees
<1>7. \A x \in Keys : ~overlapped[x] =>
        /\ entries'[x] = entries[x]
        /\ "redis" \in Deps => redis'[x] = redis[x]
  BY <1>5, <1>6
<1> HIDE DEF k, Copied
<1>8. Given' /\ WatchIsComplete'
  BY <1>3, <1>7 DEF QInv, Given, WatchIsComplete
<1>9. QuietAlone' /\ QuietGetting'
  <2>1. \A h \in Getters : getPc'[h] \notin {"idle", "done"} =>
          getPc[h] \notin {"idle", "done"}
    BY <1>1, <1>3
  <2>2. \A h \in Getters : getPc'[h] \in {"fillRedis", "fillEntries"} =>
          getPc[h] \in {"fillRedis", "fillEntries"}
    BY <1>1, <1>3
  <2>3. QuietAlone'
    BY <1>3, <2>1 DEF QInv, QuietAlone, Publishes, Gets
  <2>4. QuietGetting'
    BY <1>3, <2>2 DEF QInv, QuietGetting
  <2>5. QED
    BY <2>3, <2>4
<1>10. QuietPublishing'
  <2>1. \A q \in Publishers : pubPc[q] # "idle" => pubKey[q] \in Keys
    BY DEF IInv, Publishing
  <2>2. QED
    BY <1>3, <1>7, <2>1 DEF QInv, QuietPublishing, HasOrHad
<1>11. NewestLast'
  <2> SUFFICES ASSUME NEW q \in Publishers, ~crossed, pubPc[q] = "entries"
               PROVE  NewestLast!(q)'
    BY <1>3 DEF NewestLast
  <2>1. NewestLast!(q)
    BY DEF QInv, NewestLast
  <2>2. \A h \in Getters : getPc'[h] \in {"fillRedis", "fillEntries"} =>
          getPc[h] \in {"fillRedis", "fillEntries"}
    BY <1>1, <1>3
  <2>3. QED
    BY <1>1, <1>3, <1>5, <2>1, <2>2
<1>12. QuietKeyAgrees'
  BY <1>3, <1>7 DEF QInv, QuietKeyAgrees, PublishActive
<1>13. QED
  BY <1>8, <1>9, <1>10, <1>11, <1>12 DEF QInv

\* A watcher's answer preserves it: it holds every entry between the old
\* cursor and the new one, which is a version of the table.
LEMMA WatchQuiet ==
  ASSUME IInv, QInv, NEW w \in Watchers, WatchConfig(w)
  PROVE  QInv'
<1> USE ConfigAssumption
<1> DEFINE updates == CollectNamespace(cursor[w])
<1>1. /\ UNCHANGED <<nextVersion, entries, mysql, redis, etcd>>
      /\ UNCHANGED <<pubPc, pubKey, pubVersion, getPc, getKey, getVersion>>
      /\ UNCHANGED <<owner, acked, overlapped, crossed>>
  BY DEF WatchConfig, stores, pubVars, getVars, histVars
<1>2. PICK newest \in updates : /\ \A v \in updates : v <= newest
                                /\ cursor' = [cursor EXCEPT ![w] = newest]
  BY DEF WatchConfig
<1>3. PICK source \in Keys : newest = entries[source]
  BY DEF CollectNamespace
<1>4. /\ cursor'[w] = newest /\ seen'[w] = seen[w] \cup updates
      /\ \A u \in Watchers \ {w} : cursor'[u] = cursor[u] /\ seen'[u] = seen[u]
  BY <1>2 DEF WatchConfig, IInv, TypeOK
<1>5. Given'
  BY <1>1, <1>3, <1>4, AllGiven DEF QInv, Given
<1>6. QuietAlone' /\ QuietPublishing' /\ QuietGetting' /\ QuietKeyAgrees'
  BY <1>1 DEF QInv, QuietAlone, QuietPublishing, QuietGetting, QuietKeyAgrees,
              Publishes, Gets, HasOrHad, PublishActive
<1>7. NewestLast'
  BY <1>1, <1>3, <1>4 DEF QInv, NewestLast
<1>8. WatchIsComplete'
  <2> SUFFICES ASSUME NEW u \in Watchers, NEW k \in Keys,
                      ~crossed, ~overlapped[k],
                      entries[k] # 0, entries[k] <= cursor'[u]
               PROVE  entries[k] \in seen'[u]
    BY <1>1 DEF WatchIsComplete
  <2>1. CASE u # w \/ entries[k] <= cursor[u]
    BY <1>4, <2>1 DEF QInv, WatchIsComplete
  <2>2. CASE u = w /\ ~(entries[k] <= cursor[w])
    <3>1. entries[k] \in Int /\ cursor[w] \in Int
      BY DEF IInv, TypeOK, Store, Version
    <3>2. entries[k] \in updates
      BY <2>2, <3>1 DEF CollectNamespace
    <3>3. QED
      BY <1>4, <2>2, <3>2
  <2>3. QED
    BY <2>1, <2>2
<1>9. QED
  BY <1>5, <1>6, <1>7, <1>8 DEF QInv

\* Every step preserves the two invariants together.
LEMMA QuietNext == IInv /\ QInv /\ [Next]_vars => QInv'
<1> SUFFICES ASSUME IInv, QInv, [Next]_vars PROVE QInv'
  OBVIOUS
<1>1. CASE \E p \in Publishers : Publish(p)
  BY <1>1, StartQuiet, WriteQuiet, RespondQuiet DEF Publish
<1>2. CASE \E g \in Getters : GetConfig(g)
  BY <1>2, GetStartQuiet, ReadQuiet, FillQuiet DEF GetConfig
<1>3. CASE \E w \in Watchers : WatchConfig(w)
  BY <1>3, WatchQuiet
<1>4. CASE UNCHANGED vars
  <2>1. Given' /\ QuietAlone' /\ QuietGetting' /\ NewestLast'
    BY <1>4 DEF QInv, Given, QuietAlone, QuietGetting, NewestLast, Publishes,
                Gets, vars, stores, pubVars, getVars, watchVars, histVars
  <2>2. QuietPublishing' /\ QuietKeyAgrees' /\ WatchIsComplete'
    BY <1>4 DEF QInv, QuietPublishing, QuietKeyAgrees, WatchIsComplete,
                HasOrHad, PublishActive, vars, stores, pubVars, getVars,
                watchVars, histVars
  <2>3. QED
    BY <2>1, <2>2 DEF QInv
<1>5. QED
  BY <1>1, <1>2, <1>3, <1>4 DEF Next

\* Both invariants hold for ever.
LEMMA BothAlways == Spec => [](IInv /\ QInv)
<1>1. Init => IInv /\ QInv
  BY InitInv, QuietInit
<1>2. (IInv /\ QInv) /\ [Next]_vars => (IInv /\ QInv)'
  BY NextInv, QuietNext
<1>3. QED
  BY <1>1, <1>2, PTL DEF Spec

\* Once the operations on a key have not overlapped, its stores agree between
\* two publications on the newest version given out for it.
THEOREM StoresAgree == Spec => []QuietKeyAgrees
<1>1. IInv /\ QInv => QuietKeyAgrees
  BY DEF QInv
<1>2. QED
  BY BothAlways, <1>1, PTL

\* A watcher misses no entry when versions came to the table in their order.
THEOREM WatchersMissNothing == Spec => []WatchIsComplete
<1>1. IInv /\ QInv => WatchIsComplete
  BY DEF QInv
<1>2. QED
  BY BothAlways, <1>1, PTL
=============================================================================
