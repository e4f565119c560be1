----------------------------- MODULE StoreKeys -----------------------------
(***************************************************************************)
(* The text of the keys under which the configuration service keeps an     *)
(* entry (config_service_impl.cpp) and the rows of the MySQL stand-in      *)
(* (mysql_connection_pool.cpp).  ConfigService names an entry by its       *)
(* environment, namespace and key; this module says that the text the code *)
(* makes of them serves as well.  Text is a sequence of characters.        *)
(*                                                                         *)
(* The fields of an entry hold no separator: with one in a namespace or in *)
(* a key two entries may have one text, in all four stores alike.          *)
(***************************************************************************)
EXTENDS Integers, Sequences

CONSTANTS Characters, \* what texts are made of; the word "config" is one
          Separators, \* "|", ":" and "/" at least
          Words       \* texts of the fields, not empty, without separators

ASSUME WordsAssumption ==
    /\ {"|", ":", "/"} \subseteq Separators
    /\ Separators \cup {"config"} \subseteq Characters
    /\ Words \subseteq Seq(Characters)
    /\ \A w \in Words : w # << >> /\ \A i \in DOMAIN w : w[i] \notin Separators

VARIABLES entries, \* entries_, by the text of the key
          cache,   \* Redis
          etcd,    \* the configuration provider
          rows,    \* table config_entries of MySQL
          stored   \* history: the newest value of each entry

keyVars == <<entries, cache, etcd, rows, stored>>

Entry == [environment : Words, namespace_name : Words, key : Words]
Empty == [text \in {} |-> 0]

KeysInit == /\ entries = Empty /\ cache = Empty /\ etcd = Empty
            /\ rows = Empty /\ stored = Empty
-----------------------------------------------------------------------------
BuildStoreKey(e) ==
    e.environment \o <<"|">> \o e.namespace_name \o <<"|">> \o e.key

BuildCacheKey(e) == <<"config", ":">> \o e.environment \o <<":">>
                      \o e.namespace_name \o <<":">> \o e.key

BuildEtcdKey(e) == <<"/", "config", "/">> \o e.environment \o <<"/">>
                     \o e.namespace_name \o <<"/">> \o e.key

\* Mutant of BuildCompositeKey: the fields follow each other bare.
BuildCompositeKeyBare(row) == row.namespace_name \o row.key \o row.environment

\* A separator stands before a field unless nothing stands before it.
WithField(text, field) ==
    text \o (IF text = << >> THEN << >> ELSE <<"|">>) \o field

\* The loop over the key fields of "config_entries".
BuildCompositeKey(row) ==
    WithField(WithField(WithField(<< >>, row.namespace_name), row.key),
              row.environment)

Matches(row, filters) == \A f \in DOMAIN filters : row[f] = filters[f]

\* The rows found, by the text they are kept under.
FindRows(filters) == {k \in DOMAIN rows : Matches(rows[k], filters)}

Put(map, text, v) ==
    [t \in DOMAIN map \cup {text} |-> IF t = text THEN v ELSE map[t]]

UpsertRow(row) == rows' = Put(rows, BuildCompositeKey(row), row)

ToMysqlRow(e, v) == [environment |-> e.environment, key |-> e.key,
                     namespace_name |-> e.namespace_name, value |-> v]

\* PublishConfig, as far as texts go.
PutEntry ==
    \E e \in Entry, v \in 1..2 :
        /\ entries' = Put(entries, BuildStoreKey(e), v)
        /\ UpsertRow(ToMysqlRow(e, v))
        /\ cache' = Put(cache, BuildCacheKey(e), v)
        /\ etcd' = Put(etcd, BuildEtcdKey(e), v)
        /\ stored' = Put(stored, e, v)

KeysSpec == KeysInit /\ [][PutEntry]_keyVars
-----------------------------------------------------------------------------
Holds(map, text, e) ==
    IF e \in DOMAIN stored THEN text \in DOMAIN map /\ map[text] = stored[e]
                           ELSE text \notin DOMAIN map

\* Under its text each store has an entry's newest value, and has nothing
\* there if the entry was never stored.  A query of MySQL by the three
\* fields gives this value in one row, so that the first row is the newest.
TextIsName ==
    \A e \in Entry :
        /\ Holds(entries, BuildStoreKey(e), e)
        /\ Holds(cache, BuildCacheKey(e), e)
        /\ Holds(etcd, BuildEtcdKey(e), e)
        /\ {rows[k].value : k \in FindRows(e)}
             = IF e \in DOMAIN stored THEN {stored[e]} ELSE {}
        /\ \A k, l \in FindRows(e) : k = l
=============================================================================
