----------------------------- MODULE GameRooms -----------------------------
(***************************************************************************)
(* services/game_service/game_service_impl.cpp behind the retries of the   *)
(* gateway (InvokeWithResilienceAsync).  A player's request becomes one or *)
(* several calls; each may reach the service, reach it late, or not reach  *)
(* it; the gateway takes the answer to the newest one.  The service runs   *)
(* its handlers in parallel: JoinRoom is one critical section, CreateRoom  *)
(* takes a number, inserts the room and caches it in three.                *)
(***************************************************************************)
EXTENDS Integers, FiniteSets

CONSTANTS Players,
          Sizes,    \* values of max_players a request has
          MaxRooms, \* bound of the rooms numbered
          Attempts, \* the gateway's retry_attempts
          HasRedis

ASSUME RoomsAssumption == /\ Sizes \subseteq Int
                          /\ MaxRooms \in Nat \ {0}
                          /\ Attempts \in Nat \ {0}
                          /\ HasRedis \in BOOLEAN

VARIABLES
    nextRoomId, \* next_room_id_
    rooms,      \* rooms_: size and members; size 0 for no such room
    cached,     \* rooms with a snapshot in Redis
    creating,   \* CreateRoom handlers at work: call, room and step
    pc,         \* each player: idle, send, wait, done
    request,    \* what the player asks: a size to create, with a room_name or
                \* without, or a room to join
    attempt,    \* calls made for it
    calls,      \* calls <<player, attempt>> the service has not seen yet
    reply,      \* what the service has answered to the newest call
    \* History:
    announced,  \* rooms some player was told to have created
    promised    \* whether the room to join was announced before the request

serviceVars == <<nextRoomId, rooms, cached, creating>>
gatewayVars == <<pc, request, attempt>>
histVars == <<announced, promised>>
vars == <<serviceVars, gatewayVars, calls, reply, histVars>>

Rooms == 1..MaxRooms
Requests == [kind : {"create"}, named : BOOLEAN, arg : Sizes]
              \cup [kind : {"join"}, arg : Rooms]
Codes == {"NONE", "OK", "INVALID_ARGUMENT", "NOT_FOUND", "FAILED_PRECONDITION",
          "UNAVAILABLE"}
NoReply == [code |-> "NONE", room |-> 0]

Init == /\ nextRoomId = 1
        /\ rooms = [r \in Rooms |-> [size |-> 0, members |-> {}]]
        /\ cached = {}
        /\ creating = {}
        /\ pc = [p \in Players |-> "idle"]
        /\ request = [p \in Players |-> [kind |-> "join", arg |-> 1]]
        /\ attempt = [p \in Players |-> 0]
        /\ calls = {}
        /\ reply = [p \in Players |-> NoReply]
        /\ announced = {}
        /\ promised = [p \in Players |-> FALSE]
-----------------------------------------------------------------------------
(* The player and the gateway.                                             *)

\* The player's former request has no call left on its way or at work (a
\* bound of the model: it keeps the calls of two requests apart).
Ask(p, q) ==
    /\ pc[p] \in {"idle", "done"}
    /\ \A n \in 1..Attempts : <<p, n>> \notin calls
    /\ \A w \in creating : w.call[1] # p
    /\ pc' = [pc EXCEPT ![p] = "send"]
    /\ request' = [request EXCEPT ![p] = q]
    /\ attempt' = [attempt EXCEPT ![p] = 0]
    /\ reply' = [reply EXCEPT ![p] = NoReply]
    /\ promised' = [promised EXCEPT
                      ![p] = q.kind = "join" /\ q.arg \in announced]
    /\ UNCHANGED <<serviceVars, calls, announced>>

Send(p) ==
    /\ pc[p] = "send"
    /\ pc' = [pc EXCEPT ![p] = "wait"]
    /\ attempt' = [attempt EXCEPT ![p] = @ + 1]
    /\ calls' = calls \cup {<<p, attempt[p] + 1>>}
    /\ reply' = [reply EXCEPT ![p] = NoReply]
    /\ UNCHANGED <<serviceVars, request, histVars>>

\* The answer arrives; none but UNAVAILABLE is retried.
Receive(p) ==
    /\ pc[p] = "wait"
    /\ reply[p].code # "NONE"
    /\ pc' = [pc EXCEPT ![p] = "done"]
    /\ announced' = IF request[p].kind = "create" /\ reply[p].code = "OK"
                      THEN announced \cup {reply[p].room} ELSE announced
    /\ UNCHANGED <<serviceVars, request, attempt, calls, reply, promised>>

\* The call is given up, executed or not: it is retried or it was the last.
GiveUp(p) ==
    /\ pc[p] = "wait"
    /\ IF attempt[p] < Attempts
         THEN /\ pc' = [pc EXCEPT ![p] = "send"]
              /\ UNCHANGED reply
         ELSE /\ pc' = [pc EXCEPT ![p] = "done"]
              /\ reply' = [reply EXCEPT ![p] = [code |-> "UNAVAILABLE", room |-> 0]]
    /\ UNCHANGED <<serviceVars, request, attempt, calls, histVars>>

Lose(m) ==
    /\ m \in calls
    /\ calls' = calls \ {m}
    /\ UNCHANGED <<serviceVars, gatewayVars, reply, histVars>>
-----------------------------------------------------------------------------
(* The service.                                                            *)

\* Call m is answered; nobody listens to the answer of a call given up.
Respond(m, code, room) ==
    LET p == m[1]
    IN  reply' = IF pc[p] = "wait" /\ m[2] = attempt[p]
                   THEN [reply EXCEPT ![p] = [code |-> code, room |-> room]]
                   ELSE reply

\* Mutant of IsFull: the last place is given twice.
IsFullOffByOne(room) == Cardinality(room.members) > room.size

IsFull(room) == Cardinality(room.members) >= room.size

\* Looked up, checked and joined under one lock.
JoinRoom(m) ==
    LET p == m[1]
        r == request[p].arg
    IN  /\ m \in calls
        /\ request[p].kind = "join"
        /\ calls' = calls \ {m}
        /\ \/ /\ rooms[r].size = 0
              /\ Respond(m, "NOT_FOUND", 0)
              /\ UNCHANGED rooms
           \/ /\ rooms[r].size > 0 /\ IsFull(rooms[r])
              /\ Respond(m, "FAILED_PRECONDITION", 0)
              /\ UNCHANGED rooms
           \/ /\ rooms[r].size > 0 /\ ~IsFull(rooms[r])
              /\ Respond(m, "OK", r)
              /\ rooms' = [rooms EXCEPT ![r].members = @ \cup {p}]
        /\ UNCHANGED <<nextRoomId, cached, creating, gatewayVars, histVars>>

\* room_name and max_players are required.
Refusable(q) == ~q.named \/ q.arg <= 0

CreateRoom(m) ==
    /\ m \in calls
    /\ request[m[1]].kind = "create"
    /\ calls' = calls \ {m}
    /\ IF Refusable(request[m[1]])
         THEN /\ Respond(m, "INVALID_ARGUMENT", 0)
              /\ UNCHANGED <<nextRoomId, creating>>
         ELSE /\ nextRoomId <= MaxRooms
              /\ nextRoomId' = nextRoomId + 1
              /\ creating' = creating \cup
                   {[call |-> m, room |-> nextRoomId, step |-> "insert"]}
              /\ UNCHANGED reply
    /\ UNCHANGED <<rooms, cached, gatewayVars, histVars>>

\* Mutant of InsertRoom: the room is cached in place of being inserted.
InsertRoomInCacheOnly(w) ==
    /\ w \in creating /\ w.step = "insert"
    /\ creating' = (creating \ {w}) \cup {[w EXCEPT !.step = "cache"]}
    /\ UNCHANGED <<nextRoomId, rooms, cached, gatewayVars, calls, reply, histVars>>

InsertRoom(w) ==
    /\ w \in creating /\ w.step = "insert"
    /\ rooms' = [rooms EXCEPT
                   ![w.room] = [size |-> request[w.call[1]].arg, members |-> {}]]
    /\ creating' = (creating \ {w}) \cup {[w EXCEPT !.step = "cache"]}
    /\ UNCHANGED <<nextRoomId, cached, gatewayVars, calls, reply, histVars>>

\* The snapshot has no members; joining does not refresh it.
CacheRoom(w) ==
    /\ w \in creating /\ w.step = "cache"
    /\ cached' = IF HasRedis THEN cached \cup {w.room} ELSE cached
    /\ creating' = creating \ {w}
    /\ Respond(w.call, "OK", w.room)
    /\ UNCHANGED <<nextRoomId, rooms, gatewayVars, calls, histVars>>
-----------------------------------------------------------------------------
Next == \/ \E p \in Players :
             \/ \E q \in Requests : Ask(p, q)
             \/ Send(p) \/ Receive(p) \/ GiveUp(p)
        \/ \E m \in calls : Lose(m) \/ JoinRoom(m) \/ CreateRoom(m)
        \/ \E w \in creating : InsertRoom(w) \/ CacheRoom(w)

Spec == Init /\ [][Next]_vars
-----------------------------------------------------------------------------
Room == [size : Sizes \cup {0}, members : SUBSET Players]
Work == [call : Players \X (1..Attempts), room : Rooms,
         step : {"insert", "cache"}]

TypeOK == /\ nextRoomId \in 1..(MaxRooms + 1)
          /\ rooms \in [Rooms -> Room]
          /\ cached \subseteq Rooms
          /\ creating \subseteq Work
          /\ \A w \in creating : w.room < nextRoomId
          /\ pc \in [Players -> {"idle", "send", "wait", "done"}]
          /\ request \in [Players -> Requests]
          /\ attempt \in [Players -> 0..Attempts]
          /\ calls \subseteq Players \X (1..Attempts)
          /\ reply \in [Players -> [code : Codes, room : 0..MaxRooms]]
          /\ announced \subseteq Rooms
          /\ promised \in [Players -> BOOLEAN]

\* Joins in parallel, first tries and retries alike, never overfill a room.
NeverOverfull == \A r \in Rooms : Cardinality(rooms[r].members) <= rooms[r].size

\* An answer is true when the player gets it and stays true: the room one was
\* told to have created exists, with a snapshot and the size asked for; the
\* room one was told to have joined has one as a member; and a room that was
\* announced before the request was made is always found, whichever attempt
\* reaches the service.
AnswerStaysTrue == \A p \in Players :
    LET r == reply[p].room
        q == request[p]
    IN  /\ reply[p].code = "OK" /\ q.kind = "create" =>
             rooms[r].size = q.arg /\ (HasRedis => r \in cached)
        /\ reply[p].code = "OK" /\ q.kind = "join" => p \in rooms[r].members
        /\ reply[p].code = "NOT_FOUND" => ~promised[p]
=============================================================================
