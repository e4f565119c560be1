--------------------------- MODULE MCMessageBus ---------------------------
(***************************************************************************)
(* Two consumers compete for one topic; the first also has one of its own. *)
(***************************************************************************)
EXTENDS MessageBus, TLC

CONSTANTS t1, t2, c1, c2

MCTopics == {t1, t2}
MCConsumers == {c1, c2}
MCSubscriptions == (c1 :> {t1, t2}) @@ (c2 :> {t1})
=============================================================================
