----------------------------- MODULE MessageBus -----------------------------
(***************************************************************************)
(* infrastructure/mq/core: the in-process message queue.  A bus keeps one  *)
(* deque of payloads per topic; producers push to it and the thread of     *)
(* each consumer polls it, in batches, for the topics it subscribed to.    *)
(* What a consumer pops is gone for the others, whatever their groups: the *)
(* group and the consumer name are only logged.                            *)
(*                                                                         *)
(* The messages of a topic are numbered in the order of their publication. *)
(* One thread at a time starts and stops a given consumer, and subscribes  *)
(* before it starts it, as services/user_service/main.cpp does.            *)
(***************************************************************************)
EXTENDS Integers, Sequences

CONSTANTS Topics, NoTopic,
          Consumers,
          Subscriptions, \* the topics of each consumer
          MaxCount,      \* the batch limit: 32 in the code
          MaxPublished   \* bound of the messages of a topic

ASSUME BusAssumption == /\ NoTopic \notin Topics
                        /\ Subscriptions \in [Consumers -> SUBSET Topics]
                        /\ MaxCount \in Nat \ {0}
                        /\ MaxPublished \in Nat

VARIABLES
    published, \* messages published on each topic
    messages,  \* the deque of each topic
    running,   \* running_ of each consumer
    control,   \* where the thread that starts and stops each consumer is
    worker,    \* where the thread of each consumer is
    toScan,    \* topics left in the current pass over subscriptions_
    topic,     \* the topic the batch in hand was popped from
    batch,     \* popped and not yet handled
    handled,   \* whether this pass has handled something
    delivered  \* history: what each consumer's handlers were called with

workerVars == <<worker, toScan, topic, batch, handled, delivered>>
vars == <<published, messages, running, control, workerVars>>

Init == /\ published = [t \in Topics |-> 0]
        /\ messages = [t \in Topics |-> << >>]
        /\ running = [c \in Consumers |-> FALSE]
        /\ control = [c \in Consumers |-> "stopped"]
        /\ worker = [c \in Consumers |-> "none"]
        /\ toScan = [c \in Consumers |-> {}]
        /\ topic = [c \in Consumers |-> NoTopic]
        /\ batch = [c \in Consumers |-> << >>]
        /\ handled = [c \in Consumers |-> FALSE]
        /\ delivered = [c \in Consumers |-> [t \in Topics |-> << >>]]

\* Producer::Publish
Publish(t) ==
    /\ published[t] < MaxPublished
    /\ published' = [published EXCEPT ![t] = @ + 1]
    /\ messages' = [messages EXCEPT ![t] = Append(@, published[t] + 1)]
    /\ UNCHANGED <<running, control, workerVars>>
-----------------------------------------------------------------------------
(* Start and Stop: the flag is exchanged first, the thread comes and goes  *)
(* afterwards.  Each does nothing when the flag already is as it wants it. *)

StartExchange(c) ==
    /\ control[c] = "stopped"
    /\ control' = [control EXCEPT ![c] = "starting"]
    /\ running' = [running EXCEPT ![c] = TRUE]
    /\ UNCHANGED <<published, messages, workerVars>>

StartThread(c) ==
    /\ control[c] = "starting"
    /\ control' = [control EXCEPT ![c] = "started"]
    /\ worker' = [worker EXCEPT ![c] = "check"]
    /\ UNCHANGED <<published, messages, running, toScan, topic, batch, handled,
                   delivered>>

\* Mutant of StopExchange: the flag is left set.
StopExchangeLate(c) ==
    /\ control[c] = "started"
    /\ control' = [control EXCEPT ![c] = "joining"]
    /\ UNCHANGED <<published, messages, running, workerVars>>

StopExchange(c) ==
    /\ control[c] = "started"
    /\ control' = [control EXCEPT ![c] = "joining"]
    /\ running' = [running EXCEPT ![c] = FALSE]
    /\ UNCHANGED <<published, messages, workerVars>>

StopJoin(c) ==
    /\ control[c] = "joining"
    /\ worker[c] = "exited"
    /\ control' = [control EXCEPT ![c] = "stopped"]
    /\ worker' = [worker EXCEPT ![c] = "none"]
    /\ UNCHANGED <<published, messages, running, toScan, topic, batch, handled,
                   delivered>>
-----------------------------------------------------------------------------
(* The consumer's thread.                                                  *)

CheckRunning(c) ==
    /\ worker[c] = "check"
    /\ IF running[c]
         THEN /\ worker' = [worker EXCEPT ![c] = "scan"]
              /\ toScan' = [toScan EXCEPT ![c] = Subscriptions[c]]
              /\ handled' = [handled EXCEPT ![c] = FALSE]
         ELSE /\ worker' = [worker EXCEPT ![c] = "exited"]
              /\ UNCHANGED <<toScan, handled>>
    /\ UNCHANGED <<published, messages, running, control, topic, batch,
                   delivered>>

\* The number of messages a Pop takes.
Taken(t) == IF Len(messages[t]) < MaxCount THEN Len(messages[t]) ELSE MaxCount

\* Mutants of Pop: what exceeds the batch is dropped; the newest come first.
PopDropsRest(c, t) ==
    /\ worker[c] = "scan"
    /\ t \in toScan[c]
    /\ toScan' = [toScan EXCEPT ![c] = @ \ {t}]
    /\ topic' = [topic EXCEPT ![c] = t]
    /\ batch' = [batch EXCEPT ![c] = SubSeq(messages[t], 1, Taken(t))]
    /\ messages' = [messages EXCEPT ![t] = << >>]
    /\ worker' = [worker EXCEPT ![c] = IF Taken(t) = 0 THEN "scan" ELSE "handle"]
    /\ UNCHANGED <<published, running, control, handled, delivered>>

PopNewest(c, t) ==
    /\ worker[c] = "scan"
    /\ t \in toScan[c]
    /\ toScan' = [toScan EXCEPT ![c] = @ \ {t}]
    /\ topic' = [topic EXCEPT ![c] = t]
    /\ LET n == Len(messages[t]) - Taken(t)
       IN  /\ batch' = [batch EXCEPT ![c] = SubSeq(messages[t], n + 1, Len(messages[t]))]
           /\ messages' = [messages EXCEPT ![t] = SubSeq(@, 1, n)]
    /\ worker' = [worker EXCEPT ![c] = IF Taken(t) = 0 THEN "scan" ELSE "handle"]
    /\ UNCHANGED <<published, running, control, handled, delivered>>

\* Pop, for the next topic in the order of the hash table.
Pop(c, t) ==
    /\ worker[c] = "scan"
    /\ t \in toScan[c]
    /\ toScan' = [toScan EXCEPT ![c] = @ \ {t}]
    /\ topic' = [topic EXCEPT ![c] = t]
    /\ batch' = [batch EXCEPT ![c] = SubSeq(messages[t], 1, Taken(t))]
    /\ messages' = [messages EXCEPT
                      ![t] = SubSeq(@, Taken(t) + 1, Len(messages[t]))]
    /\ worker' = [worker EXCEPT ![c] = IF Taken(t) = 0 THEN "scan" ELSE "handle"]
    /\ UNCHANGED <<published, running, control, handled, delivered>>

\* The handler is called with the next payload; the loop over the batch does
\* not look at running_.
Handle(c) ==
    /\ worker[c] = "handle"
    /\ delivered' = [delivered EXCEPT ![c][topic[c]] = Append(@, Head(batch[c]))]
    /\ batch' = [batch EXCEPT ![c] = Tail(@)]
    /\ handled' = [handled EXCEPT ![c] = TRUE]
    /\ worker' = [worker EXCEPT
                    ![c] = IF Len(batch[c]) = 1 THEN "scan" ELSE "handle"]
    /\ UNCHANGED <<published, messages, running, control, toScan, topic>>

\* Mutant of EndPass: a pass that found nothing is the last one.
EndPassGivesUp(c) ==
    /\ worker[c] = "scan"
    /\ toScan[c] = {}
    /\ worker' = [worker EXCEPT ![c] = IF handled[c] THEN "check" ELSE "exited"]
    /\ UNCHANGED <<published, messages, running, control, toScan, topic, batch,
                   handled, delivered>>

\* A pass that handled nothing is followed by a sleep of 50 ms.
EndPass(c) ==
    /\ worker[c] = "scan"
    /\ toScan[c] = {}
    /\ worker' = [worker EXCEPT ![c] = IF handled[c] THEN "check" ELSE "sleep"]
    /\ UNCHANGED <<published, messages, running, control, toScan, topic, batch,
                   handled, delivered>>

Wake(c) ==
    /\ worker[c] = "sleep"
    /\ worker' = [worker EXCEPT ![c] = "check"]
    /\ UNCHANGED <<published, messages, running, control, toScan, topic, batch,
                   handled, delivered>>
-----------------------------------------------------------------------------
WorkerStep(c) == \/ CheckRunning(c) \/ (\E t \in Topics : Pop(c, t))
                 \/ Handle(c) \/ EndPass(c) \/ Wake(c)

Next == \/ \E t \in Topics : Publish(t)
        \/ \E c \in Consumers :
             \/ StartExchange(c) \/ StartThread(c)
             \/ StopExchange(c) \/ StopJoin(c)
             \/ WorkerStep(c)

Spec == Init /\ [][Next]_vars

\* The operating system runs every thread: a started consumer polls for ever,
\* handlers return, a join that can succeed does.
Fairness == \A c \in Consumers : WF_vars(WorkerStep(c)) /\ WF_vars(StopJoin(c))

FairSpec == Spec /\ Fairness
-----------------------------------------------------------------------------
TypeOK ==
    /\ published \in [Topics -> 0..MaxPublished]
    /\ messages \in [Topics -> Seq(1..MaxPublished)]
    /\ running \in [Consumers -> BOOLEAN]
    /\ control \in [Consumers -> {"stopped", "starting", "started", "joining"}]
    /\ worker \in [Consumers ->
                     {"none", "check", "scan", "handle", "sleep", "exited"}]
    /\ toScan \in [Consumers -> SUBSET Topics]
    /\ topic \in [Consumers -> Topics \cup {NoTopic}]
    /\ batch \in [Consumers -> Seq(1..MaxPublished)]
    /\ \A c \in Consumers : batch[c] # << >> <=> worker[c] = "handle"
    /\ handled \in [Consumers -> BOOLEAN]
    /\ delivered \in [Consumers -> [Topics -> Seq(1..MaxPublished)]]

\* The batch of consumer c, when it is one of topic t.
InHand(c, t) == IF topic[c] = t THEN batch[c] ELSE << >>

\* What consumer c has of topic t, handled or in hand, then what is queued.
Line(c, t) == delivered[c][t] \o InHand(c, t) \o messages[t]

Elements(s) == {s[i] : i \in 1..Len(s)}

\* No message is lost and none is handled twice, whichever consumers compete
\* for a topic and however they are started and stopped: each is in the deque
\* or has gone to one consumer.
ExactlyOnePlace ==
    \A t \in Topics :
        /\ 1..published[t] = Elements(messages[t]) \cup
             UNION {Elements(delivered[c][t] \o InHand(c, t)) : c \in Consumers}
        /\ \A c, d \in Consumers : c # d =>
             Elements(delivered[c][t] \o InHand(c, t)) \cap
             Elements(delivered[d][t] \o InHand(d, t)) = {}

\* A consumer handles the messages of a topic in the order of publication,
\* and never one twice, across restarts of its thread.
InOrder ==
    \A c \in Consumers, t \in Topics :
        \A i, j \in 1..Len(Line(c, t)) : i < j => Line(c, t)[i] < Line(c, t)[j]

\* A topic some consumer of which is never stopped again has every message
\* handled: by that consumer, or by the one that took it away.
PublishedIsHandled ==
    \A t \in Topics, n \in 1..MaxPublished :
        (\E c \in Consumers : t \in Subscriptions[c] /\ <>[](control[c] = "started"))
            => (published[t] >= n)
                 ~> (\E c \in Consumers : n \in Elements(delivered[c][t]))

\* Stop returns, even under a publisher that never pauses.
StopReturns == \A c \in Consumers : control[c] = "joining" ~> control[c] = "stopped"
=============================================================================
