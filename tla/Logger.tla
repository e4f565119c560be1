------------------------------- MODULE Logger -------------------------------
(***************************************************************************)
(* common/log/logger.cpp: the one logger of a process.  Whoever logs first *)
(* builds it (std::call_once); afterwards any thread logs, and             *)
(* administrators change its level.  A record takes its time when it is    *)
(* made and reaches the file later, under the sink's mutex, so the records *)
(* of two threads may reach the file out of order, across midnight too.    *)
(*                                                                         *)
(* The file sink belongs to the repository and opens one file a day; the   *)
(* files themselves belong to spdlog's rotating sink.  A record is one     *)
(* unit of size and stands in a file as its number among the records of    *)
(* its day that reached the sink; a file is the sequence of its records,   *)
(* and the files of a day are a sequence, the current one first.           *)
(***************************************************************************)
EXTENDS Integers, Sequences, FiniteSetsExt, SequencesExt

CONSTANTS LogThreads, \* threads that log and set the level
          MainThread, \* the one that runs main
          Names,      \* names of levels somebody may write
          Severities, \* levels of the records that are made
          MaxDay,     \* bound: days
          MaxRecords, \* bound: records made
          MaxSize,    \* records in a file, max_file_size_bytes_
          MaxFiles    \* rotated files kept beside the current, max_files_

ASSUME LoggerAssumption == /\ MainThread \in LogThreads
                           /\ Severities \subseteq Nat
                           /\ MaxDay \in Nat \ {0}
                           /\ MaxSize \in Nat \ {0} /\ MaxFiles \in Nat \ {0}

VARIABLES
    boot,        \* how far main is
    options,     \* whose options g_init_options holds
    fileSink,    \* the logger has a file sink
    level,       \* level of the logger
    globalLevel, \* level spdlog gives to new loggers
    pending,     \* what each thread is in the middle of
    today,
    activeDay,   \* active_day_, 0 while there is no active_sink_
    files,       \* files of each day
    made,        \* history: records made
    written,     \* history: records of each day that reached the file sink
    turns,       \* history: how often the sink turned to each day
    lastSet      \* history: level whose SetLogLevel ended last

logVars == <<boot, options, fileSink, level, globalLevel, pending, today,
             activeDay, files, made, written, turns, lastSet>>
bootVars == <<boot, options, fileSink>>
levelVars == <<level, globalLevel, lastSet>>
sinkVars == <<activeDay, files, written, turns>>

Days == 1..MaxDay

\* ParseLogLevel; a name outside its domain is nullopt.
ParseLogLevel == [trace |-> 0, debug |-> 1, info |-> 2, warn |-> 3,
                  warning |-> 3, error |-> 4, err |-> 4, critical |-> 5,
                  off |-> 6]
Known(name) == name \in DOMAIN ParseLogLevel
Levels == Range(ParseLogLevel)

Idle == [op |-> "idle"]
RecordOf(day) == [op |-> "record", day |-> day]
SettingTo(l) == [op |-> "set", level |-> l]

LogInit ==
    /\ boot = "load"
    /\ options = "none"
    /\ fileSink = FALSE
    /\ level = ParseLogLevel.info /\ globalLevel = level /\ lastSet = level
    /\ pending = [t \in LogThreads |-> Idle]
    /\ today = 1
    /\ activeDay = 0
    /\ files = [d \in Days |-> << >>]
    /\ made = 0
    /\ written = [d \in Days |-> 0]
    /\ turns = [d \in Days |-> 0]
-----------------------------------------------------------------------------
(* Building the logger.                                                    *)

Becomes(t, what) == pending' = [pending EXCEPT ![t] = what]

\* A record is made by main: it is on its way to the sink.
MainWarns == Becomes(MainThread, RecordOf(today)) /\ made' = made + 1

\* The body of call_once.  The directory of the file sink may not be there to
\* be made; the console remains.
EnsureInitialized(whose, l) ==
    /\ options' = whose
    /\ fileSink' \in BOOLEAN
    /\ level' = l /\ globalLevel' = l /\ lastSet' = l

\* A process whose configuration file is missing says so, and builds the
\* logger from the default options to say it.
LoadConfig ==
    /\ boot = "load"
    /\ boot' = "init"
    /\ \/ UNCHANGED <<options, fileSink, levelVars, pending, made>>
       \/ EnsureInitialized("default", ParseLogLevel.info) /\ MainWarns
    /\ UNCHANGED <<today, sinkVars>>

\* A process that never calls InitLogger, the benchmark, builds the logger with
\* its first use of it.
Raw ==
    /\ boot = "load"
    /\ boot' = "running"
    /\ EnsureInitialized("default", ParseLogLevel.info)
    /\ UNCHANGED <<pending, made, today, sinkVars>>

\* InitLogger with the options of the configuration.  A level nobody knows
\* becomes info; options that come too late are left alone, and reported unless
\* they are the same.
InitLogger ==
    /\ boot = "init" /\ pending[MainThread] = Idle
    /\ boot' = "running"
    /\ \/ /\ options = "none"
          /\ \E name \in Names :
               IF Known(name)
                 THEN /\ EnsureInitialized("configured", ParseLogLevel[name])
                      /\ UNCHANGED <<pending, made>>
                 ELSE /\ EnsureInitialized("configured", ParseLogLevel.info)
                      /\ MainWarns
       \/ /\ options = "default"
          /\ MainWarns \/ UNCHANGED <<pending, made>>
          /\ UNCHANGED <<options, fileSink, levelVars>>
    /\ UNCHANGED <<today, sinkVars>>
-----------------------------------------------------------------------------
(* Records.                                                                *)

\* A statement KD39_LOG_*: the level is looked at and the time taken.
Stamp(t) ==
    /\ boot = "running" /\ pending[t] = Idle
    /\ made < MaxRecords
    /\ \E s \in Severities : s >= level
    /\ Becomes(t, RecordOf(today))
    /\ made' = made + 1
    /\ UNCHANGED <<bootVars, levelVars, today, sinkVars>>

\* rotate_: each file takes the next number, the one beyond the last is lost.
Rotated(day) ==
    LET moved == <<<< >>>> \o day
    IN  SubSeq(moved, 1, Min({Len(moved), MaxFiles + 1}))

\* The constructor of the rotating sink, told to rotate on opening.
Opened(day) ==
    IF day = << >> THEN <<<< >>>>
                   ELSE IF Head(day) # << >> THEN Rotated(day) ELSE day

\* Its log: a record that does not fit goes to a file of its own.
Logged(day, record) ==
    LET room == IF Len(Head(day)) + 1 > MaxSize THEN Rotated(day) ELSE day
    IN  [room EXCEPT ![1] = Append(@, record)]

\* Mutant of EnsureSinkForDay: the sink is opened for every record.
OpenForEveryRecord(day) == Opened(files[day])

\* The sink of the day a record was made on.
EnsureSinkForDay(day) ==
    IF activeDay = day THEN files[day] ELSE Opened(files[day])

\* sink_it_, under the mutex of the sink.
Sink(t) ==
    /\ pending[t].op = "record"
    /\ Becomes(t, Idle)
    /\ IF fileSink
         THEN LET day == pending[t].day
                  record == written[day] + 1
              IN
              /\ files' = [files EXCEPT ![day] =
                             Logged(EnsureSinkForDay(day), record)]
              /\ activeDay' = day
              /\ written' = [written EXCEPT ![day] = record]
              /\ turns' = [turns EXCEPT ![day] =
                             @ + IF activeDay = day THEN 0 ELSE 1]
         ELSE UNCHANGED sinkVars
    /\ UNCHANGED <<bootVars, levelVars, today, made>>

Midnight == /\ boot = "running"
            /\ today < MaxDay
            /\ today' = today + 1
            /\ UNCHANGED <<bootVars, levelVars, pending, sinkVars, made>>
-----------------------------------------------------------------------------
(* The level.                                                              *)

\* SetLogLevel(name) of an administrator, first its logger->set_level.  A
\* name nobody knows is refused.
SetLevel(t) ==
    /\ boot = "running" /\ pending[t] = Idle
    /\ \E name \in Names :
         /\ Known(name)
         /\ level' = ParseLogLevel[name]
         /\ Becomes(t, SettingTo(ParseLogLevel[name]))
    /\ UNCHANGED <<bootVars, globalLevel, lastSet, today, sinkVars, made>>

\* Mutant of SetGlobalLevel: the loggers that exist keep their level.
SetDefaultLevel(t) ==
    /\ pending[t].op = "set"
    /\ globalLevel' = pending[t].level
    /\ lastSet' = pending[t].level
    /\ Becomes(t, Idle)
    /\ UNCHANGED <<bootVars, level, today, sinkVars, made>>

\* spdlog::set_level: every registered logger and the default for new ones.
SetGlobalLevel(t) ==
    /\ pending[t].op = "set"
    /\ level' = pending[t].level
    /\ globalLevel' = pending[t].level
    /\ lastSet' = pending[t].level
    /\ Becomes(t, Idle)
    /\ UNCHANGED <<bootVars, today, sinkVars, made>>
-----------------------------------------------------------------------------
LogNext == \/ LoadConfig \/ Raw \/ InitLogger \/ Midnight
           \/ \E t \in LogThreads : Stamp(t) \/ Sink(t) \/ SetLevel(t)
                                          \/ SetGlobalLevel(t)

LogSpec == LogInit /\ [][LogNext]_logVars
-----------------------------------------------------------------------------
\* What a file of the sink may be.
File == {f \in Seq(Nat) : Len(f) <= MaxSize}

LogTypeOK ==
    /\ boot \in {"load", "init", "running"}
    /\ options \in {"none", "default", "configured"}
    /\ fileSink \in BOOLEAN
    /\ {level, globalLevel, lastSet} \subseteq Levels
    /\ pending \in [LogThreads -> {Idle} \cup {RecordOf(d) : d \in Days}
                                      \cup {SettingTo(l) : l \in Levels}]
    /\ today \in Days
    /\ activeDay \in 0..MaxDay
    /\ files \in [Days -> Seq(File)]
    /\ written \in [Days -> Nat] /\ turns \in [Days -> Nat]

\* What reached the file sink stays in the files until rotation had to drop
\* it: every record of a day is in one of its files as long as the files the
\* records filled, and the files that were cut short because the sink came back
\* to the day, are no more than are kept.  Full or cut short, no more files than
\* that exist.
RecordsKept ==
    \A d \in Days :
        /\ Len(files[d]) <= MaxFiles + 1
        /\ written[d] > 0 /\ turns[d] - 1 + (written[d] - 1) \div MaxSize
                               <= MaxFiles
             => \A r \in 1..written[d] :
                    \E i \in DOMAIN files[d] : r \in Range(files[d][i])

\* When nobody is setting the level, the logger, and spdlog's default with it,
\* has the level of the call that ended last: two administrators at once
\* never leave the logger at one level and the default at the other.
LastSetWins ==
    (\A t \in LogThreads : pending[t].op # "set") =>
        level = lastSet /\ globalLevel = lastSet
=============================================================================
