--------------------------- MODULE GameRoomsProofs ---------------------------
(***************************************************************************)
(* GameRooms for any players, sizes, number of rooms and of attempts.      *)
(***************************************************************************)
EXTENDS GameRooms, FiniteSetTheorems, TLAPS

\* A room not inserted yet.
NoRoom == [size |-> 0, members |-> {}]

\* next_room_id_ gives every room number to one handler: no two have the same,
\* and a number that nobody has inserted stands for no room.
NumbersOnce ==
    /\ \A w, x \in creating : w.room = x.room => w = x
    /\ \A r \in Rooms : r >= nextRoomId => rooms[r] = NoRoom
    /\ \A w \in creating : w.step = "insert" => rooms[w.room] = NoRoom

\* A handler works on what its player still asks for, and the room it caches
\* is the one it has inserted.
WorkOfRequest ==
    \A w \in creating :
        LET q == request[w.call[1]]
        IN  /\ q.kind = "create" /\ q.arg > 0
            /\ w.step = "cache" => rooms[w.room].size = q.arg

\* What a player was told exists, before the request or by its answer.
AnnouncedExist ==
    /\ \A r \in announced : rooms[r].size > 0
    /\ \A p \in Players : promised[p] =>
           request[p].kind = "join" /\ rooms[request[p].arg].size > 0
    /\ \A p \in Players : reply[p].code = "OK" =>
           reply[p].room \in Rooms /\ rooms[reply[p].room].size > 0

\* A call is made only while there are attempts left.
AttemptsLeft == \A p \in Players : pc[p] = "send" => attempt[p] < Attempts

MembersFinite == \A r \in Rooms : IsFiniteSet(rooms[r].members)

IInv == /\ TypeOK
        /\ NumbersOnce
        /\ WorkOfRequest
        /\ AnnouncedExist
        /\ AttemptsLeft
        /\ MembersFinite
        /\ NeverOverfull
        /\ AnswerStaysTrue
-----------------------------------------------------------------------------
\* Nothing is in use before the first request.
LEMMA InitInv == Init => IInv
<1> SUFFICES ASSUME Init PROVE IInv
  OBVIOUS
<1> USE RoomsAssumption DEF Init
<1>1. TypeOK
  BY DEF TypeOK, Rooms, Room, Requests, Codes, NoReply
<1>2. NumbersOnce /\ WorkOfRequest /\ AttemptsLeft
  BY DEF NumbersOnce, WorkOfRequest, AttemptsLeft, NoRoom
<1>3. AnnouncedExist /\ AnswerStaysTrue
  BY DEF AnnouncedExist, AnswerStaysTrue, NoReply
<1>4. MembersFinite /\ NeverOverfull
  <2>1. IsFiniteSet({}) /\ Cardinality({}) = 0
    BY FS_EmptySet
  <2>2. ASSUME NEW r \in Rooms
        PROVE  rooms[r].size = 0 /\ rooms[r].members = {}
    OBVIOUS
  <2>3. ASSUME NEW r \in Rooms
        PROVE  /\ IsFiniteSet(rooms[r].members)
               /\ Cardinality(rooms[r].members) <= rooms[r].size
    <3>1. IsFiniteSet(rooms[r].members)
      BY <2>1, <2>2, Zenon
    <3>2. Cardinality(rooms[r].members) = 0 /\ rooms[r].size = 0
      BY <2>1, <2>2, Zenon
    <3>3. QED
      BY <3>1, <3>2
  <2>4. QED
    BY <2>3, Zenon DEF MembersFinite, NeverOverfull
<1>5. QED
  BY <1>1, <1>2, <1>3, <1>4 DEF IInv

\* The answers the service gives are codes.
LEMMA CodesNamed == {"OK", "INVALID_ARGUMENT", "NOT_FOUND",
                     "FAILED_PRECONDITION"} \subseteq Codes
  BY DEF Codes

\* Answering call m leaves a reply of the right type, changes that of its
\* player only, and to this answer if at all.
LEMMA RespondEffect ==
    ASSUME TypeOK, NEW m \in Players \X (1..Attempts), NEW code \in Codes,
           NEW room \in 0..MaxRooms, Respond(m, code, room)
    PROVE  /\ reply' \in [Players -> [code : Codes, room : 0..MaxRooms]]
           /\ \A p \in Players : \/ reply'[p] = reply[p]
                                 \/ /\ p = m[1]
                                    /\ reply'[p] = [code |-> code, room |-> room]
  BY DEF TypeOK, Respond
-----------------------------------------------------------------------------
\* A new request meets no work of the former one.
LEMMA AskInv ==
    ASSUME IInv, NEW p \in Players, NEW q \in Requests, Ask(p, q) PROVE IInv'
<1> USE RoomsAssumption DEF IInv, Ask, serviceVars
<1>1. TypeOK'
  BY DEF TypeOK, NoReply, Codes
<1>2. NumbersOnce' /\ MembersFinite' /\ NeverOverfull'
  BY DEF NumbersOnce, MembersFinite, NeverOverfull
<1>3. WorkOfRequest'
  BY DEF WorkOfRequest, TypeOK, Work
<1>4. AnnouncedExist'
  BY DEF AnnouncedExist, TypeOK, NoReply
<1>5. AttemptsLeft'
  BY DEF AttemptsLeft, TypeOK
<1>6. AnswerStaysTrue'
  BY DEF AnswerStaysTrue, TypeOK, NoReply
<1>7. QED
  BY <1>1, <1>2, <1>3, <1>4, <1>5, <1>6

\* Sending forgets the answer to the former call and makes one call more.
LEMMA SendInv == ASSUME IInv, NEW p \in Players, Send(p) PROVE IInv'
<1> USE RoomsAssumption DEF IInv, Send, serviceVars, histVars
<1>1. attempt[p] \in Nat /\ attempt[p] + 1 \in 1..Attempts
  BY DEF TypeOK, AttemptsLeft
<1>2. TypeOK'
  BY <1>1 DEF TypeOK, NoReply, Codes
<1>3. NumbersOnce' /\ MembersFinite' /\ NeverOverfull' /\ WorkOfRequest'
  BY DEF NumbersOnce, MembersFinite, NeverOverfull, WorkOfRequest
<1>4. AnnouncedExist'
  BY DEF AnnouncedExist, TypeOK, NoReply
<1>5. AttemptsLeft'
  BY DEF AttemptsLeft, TypeOK
<1>6. AnswerStaysTrue'
  BY DEF AnswerStaysTrue, TypeOK, NoReply
<1>7. QED
  BY <1>2, <1>3, <1>4, <1>5, <1>6

\* A room is announced only by an answer OK, whose room exists.
LEMMA ReceiveInv == ASSUME IInv, NEW p \in Players, Receive(p) PROVE IInv'
<1> USE DEF IInv, Receive, serviceVars
<1>1. TypeOK'
  BY DEF TypeOK, AnnouncedExist
<1>2. NumbersOnce' /\ MembersFinite' /\ NeverOverfull' /\ WorkOfRequest'
  BY DEF NumbersOnce, MembersFinite, NeverOverfull, WorkOfRequest
<1>3. AnnouncedExist'
  BY DEF AnnouncedExist
<1>4. AttemptsLeft' /\ AnswerStaysTrue'
  BY DEF AttemptsLeft, TypeOK, AnswerStaysTrue
<1>5. QED
  BY <1>1, <1>2, <1>3, <1>4

\* The gateway tries again only below the bound, and its own answer says
\* nothing of any room.
LEMMA GiveUpInv == ASSUME IInv, NEW p \in Players, GiveUp(p) PROVE IInv'
<1> USE RoomsAssumption DEF IInv, GiveUp, serviceVars, histVars
<1>1. TypeOK'
  BY DEF TypeOK, Codes
<1>2. NumbersOnce' /\ MembersFinite' /\ NeverOverfull' /\ WorkOfRequest'
  BY DEF NumbersOnce, MembersFinite, NeverOverfull, WorkOfRequest
<1>3. AnnouncedExist'
  <2> SUFFICES ASSUME NEW x \in Players
               PROVE  reply'[x].code = "OK" => reply'[x] = reply[x]
    BY DEF AnnouncedExist
  <2>1. reply \in [Players -> [code : Codes, room : 0..MaxRooms]]
    BY DEF TypeOK
  <2>2. QED
    BY <2>1
<1>4. AttemptsLeft'
  BY DEF AttemptsLeft, TypeOK
<1>5. AnswerStaysTrue'
  BY DEF AnswerStaysTrue, TypeOK
<1>6. QED
  BY <1>1, <1>2, <1>3, <1>4, <1>5

\* A call that is lost changes nothing else.
LEMMA LoseInv == ASSUME IInv, NEW m \in calls, Lose(m) PROVE IInv'
  BY DEF IInv, Lose, serviceVars, gatewayVars, histVars, TypeOK, NumbersOnce,
         WorkOfRequest, AnnouncedExist, AttemptsLeft, MembersFinite,
         NeverOverfull, AnswerStaysTrue
-----------------------------------------------------------------------------
\* JoinRoom changes no room's size, takes no member out of a room, and adds
\* one only where there is a place.
LEMMA JoinRoomRooms ==
    ASSUME IInv, NEW m \in calls, JoinRoom(m)
    PROVE  /\ rooms' \in [Rooms -> Room]
           /\ \A r \in Rooms : /\ rooms'[r].size = rooms[r].size
                               /\ rooms[r].members \subseteq rooms'[r].members
                               /\ rooms[r].size = 0 => rooms'[r] = rooms[r]
                               /\ IsFiniteSet(rooms'[r].members)
                               /\ Cardinality(rooms'[r].members) <= rooms'[r].size
<1> DEFINE p == m[1]
           t == request[p].arg
<1>1. p \in Players /\ t \in Rooms
  BY DEF IInv, TypeOK, JoinRoom, Requests
<1>2. \A r \in Rooms : /\ rooms[r].size \in Int
                       /\ IsFiniteSet(rooms[r].members)
                       /\ Cardinality(rooms[r].members) \in Nat
                       /\ Cardinality(rooms[r].members) <= rooms[r].size
  <2>1. \A r \in Rooms : IsFiniteSet(rooms[r].members)
    BY DEF IInv, MembersFinite
  <2>2. \A r \in Rooms : Cardinality(rooms[r].members) \in Nat
    BY <2>1, FS_CardinalityType
  <2>3. \A r \in Rooms : rooms[r].size \in Int
    <3>1. \A r \in Rooms : rooms[r].size \in Sizes \cup {0}
      BY DEF IInv, TypeOK, Room
    <3>2. Sizes \cup {0} \subseteq Int
      BY RoomsAssumption
    <3>3. QED
      BY <3>1, <3>2
  <2>4. QED
    BY <2>1, <2>2, <2>3 DEF IInv, NeverOverfull
<1>3. CASE UNCHANGED rooms
  BY <1>2, <1>3 DEF IInv, TypeOK
<1>4. CASE /\ rooms[t].size > 0 /\ ~IsFull(rooms[t])
           /\ rooms' = [rooms EXCEPT ![t].members = @ \cup {p}]
  <2>1. Cardinality(rooms[t].members) < rooms[t].size
    BY <1>1, <1>2, <1>4 DEF IsFull
  <2>2. /\ IsFiniteSet(rooms[t].members \cup {p})
        /\ Cardinality(rooms[t].members \cup {p}) <= rooms[t].size
    <3> DEFINE M == rooms[t].members
    <3>1. IsFiniteSet(M) /\ Cardinality(M) \in Nat /\ rooms[t].size \in Int
      BY <1>1, <1>2
    <3>2. /\ IsFiniteSet(M \cup {p})
          /\ Cardinality(M \cup {p}) = IF p \in M THEN Cardinality(M)
                                                  ELSE Cardinality(M) + 1
      <4> HIDE DEF M, p
      <4>1. QED
        BY <3>1, FS_AddElement
    <3>3. Cardinality(M) + 1 <= rooms[t].size
      BY <2>1, <3>1
    <3>4. QED
      <4> HIDE DEF M, p
      <4>1. Cardinality(M \cup {p}) <= rooms[t].size
        BY <3>1, <3>2, <3>3
      <4>2. QED
        BY <3>2, <4>1, Zenon DEF M, p
  <2>3. rooms' \in [Rooms -> Room]
    BY <1>1, <1>4 DEF IInv, TypeOK, Room
  <2>4. /\ rooms'[t].members = rooms[t].members \cup {p}
        /\ rooms'[t].size = rooms[t].size
        /\ \A r \in Rooms \ {t} : rooms'[r] = rooms[r]
    BY <1>1, <1>4 DEF IInv, TypeOK, Room
  <2>5. ASSUME NEW r \in Rooms
        PROVE  /\ rooms'[r].size = rooms[r].size
               /\ rooms[r].members \subseteq rooms'[r].members
               /\ rooms[r].size = 0 => rooms'[r] = rooms[r]
               /\ IsFiniteSet(rooms'[r].members)
               /\ Cardinality(rooms'[r].members) <= rooms'[r].size
    <3> HIDE DEF p, t
    <3>1. CASE r = t
      <4>1. rooms[t].size > 0
        BY <1>4
      <4>2. rooms[t].size \in Int
        BY <1>1, <1>2
      <4>3. QED
        BY <2>2, <2>4, <3>1, <4>1, <4>2
    <3>2. CASE r # t
      BY <1>2, <2>4, <3>2
    <3>3. QED
      BY <3>1, <3>2
  <2>6. QED
    BY <2>3, <2>5
<1>5. QED
  BY <1>3, <1>4 DEF JoinRoom

\* Whoever is answered OK is a member from then on, and no room that was
\* announced before the request is missed.
LEMMA JoinRoomInv == ASSUME IInv, NEW m \in calls, JoinRoom(m) PROVE IInv'
<1> DEFINE p == m[1]
           t == request[p].arg
<1>1. /\ p \in Players /\ t \in Rooms /\ t \in 0..MaxRooms /\ 0 \in 0..MaxRooms
      /\ request[p].kind = "join"
      /\ m \in Players \X (1..Attempts)
  BY RoomsAssumption DEF IInv, TypeOK, JoinRoom, Requests, Rooms
<1>2. /\ rooms' \in [Rooms -> Room]
      /\ \A r \in Rooms : /\ rooms'[r].size = rooms[r].size
                          /\ rooms[r].members \subseteq rooms'[r].members
                          /\ rooms[r].size = 0 => rooms'[r] = rooms[r]
                          /\ IsFiniteSet(rooms'[r].members)
                          /\ Cardinality(rooms'[r].members) <= rooms'[r].size
  BY JoinRoomRooms
<1>3. UNCHANGED <<nextRoomId, cached, creating, pc, request, attempt, announced,
                  promised>>
      /\ calls' \subseteq calls
  BY DEF JoinRoom, gatewayVars, histVars
<1>4. /\ reply' \in [Players -> [code : Codes, room : 0..MaxRooms]]
      /\ \A x \in Players : x # p => reply'[x] = reply[x]
      /\ \/ reply'[p] = reply[p]
         \/ rooms[t].size = 0 /\ reply'[p].code = "NOT_FOUND"
         \/ reply'[p].code = "FAILED_PRECONDITION"
         \/ /\ reply'[p] = [code |-> "OK", room |-> t]
            /\ rooms[t].size > 0
            /\ p \in rooms'[t].members
  <2>1. CASE rooms[t].size = 0 /\ Respond(m, "NOT_FOUND", 0)
    <3>1. /\ reply' \in [Players -> [code : Codes, room : 0..MaxRooms]]
          /\ \A x \in Players : \/ reply'[x] = reply[x]
                                \/ /\ x = p
                                   /\ reply'[x] = [code |-> "NOT_FOUND", room |-> 0]
      BY <1>1, <2>1, RespondEffect, CodesNamed DEF IInv
    <3>2. QED
      BY <1>1, <2>1, <3>1
  <2>2. CASE Respond(m, "FAILED_PRECONDITION", 0)
    <3>1. /\ reply' \in [Players -> [code : Codes, room : 0..MaxRooms]]
          /\ \A x \in Players : \/ reply'[x] = reply[x]
                                \/ /\ x = p
                                   /\ reply'[x] = [code |-> "FAILED_PRECONDITION",
                                                  room |-> 0]
      BY <1>1, <2>2, RespondEffect, CodesNamed DEF IInv
    <3>2. QED
      BY <1>1, <3>1
  <2>3. CASE /\ rooms[t].size > 0 /\ Respond(m, "OK", t)
             /\ rooms' = [rooms EXCEPT ![t].members = @ \cup {p}]
    <3>1. p \in rooms'[t].members
      BY <1>1, <2>3 DEF IInv, TypeOK, Room
    <3>2. /\ reply' \in [Players -> [code : Codes, room : 0..MaxRooms]]
          /\ \A x \in Players : \/ reply'[x] = reply[x]
                                \/ x = p /\ reply'[x] = [code |-> "OK", room |-> t]
      BY <1>1, <2>3, RespondEffect, CodesNamed DEF IInv
    <3>3. QED
      BY <1>1, <2>3, <3>1, <3>2
  <2>4. QED
    BY <2>1, <2>2, <2>3 DEF JoinRoom
<1>5. TypeOK'
  BY <1>2, <1>3, <1>4 DEF IInv, TypeOK
<1>6. NumbersOnce' /\ WorkOfRequest'
  <2>1. \A r \in Rooms : rooms[r] = NoRoom => rooms'[r] = NoRoom
    BY <1>2 DEF NoRoom
  <2>2. \A w \in creating : w.room \in Rooms
    BY DEF IInv, TypeOK, Work
  <2>3. QED
    BY <1>2, <1>3, <2>1, <2>2 DEF IInv, NumbersOnce, WorkOfRequest
<1>7. AttemptsLeft' /\ MembersFinite' /\ NeverOverfull'
  BY <1>2, <1>3 DEF IInv, AttemptsLeft, MembersFinite, NeverOverfull
<1>8. AnnouncedExist'
  <2>1. \A r \in Rooms : rooms[r].size > 0 => rooms'[r].size > 0
    BY <1>2
  <2>2. announced \subseteq Rooms
        /\ \A x \in Players : request[x].kind = "join" => request[x].arg \in Rooms
    BY DEF IInv, TypeOK, Requests
  <2>3. \A x \in Players : reply'[x].code = "OK" =>
            reply'[x].room \in Rooms /\ rooms[reply'[x].room].size > 0
    BY <1>1, <1>4 DEF IInv, AnnouncedExist
  <2>4. QED
    BY <1>3, <2>1, <2>2, <2>3 DEF IInv, AnnouncedExist
<1>9. AnswerStaysTrue'
  <2> SUFFICES ASSUME NEW x \in Players
               PROVE  LET r == reply'[x].room
                          q == request[x]
                      IN  /\ reply'[x].code = "OK" /\ q.kind = "create" =>
                               rooms'[r].size = q.arg /\ (HasRedis => r \in cached)
                          /\ reply'[x].code = "OK" /\ q.kind = "join" =>
                               x \in rooms'[r].members
                          /\ reply'[x].code = "NOT_FOUND" => ~promised[x]
    BY <1>3 DEF AnswerStaysTrue
  <2>1. CASE reply'[x] = reply[x]
    BY <1>2, <2>1 DEF IInv, AnswerStaysTrue, AnnouncedExist
  <2>2. CASE x = p /\ reply'[p] # reply[p]
    <3>1. promised[p] => rooms[t].size > 0
      BY <1>1 DEF IInv, AnnouncedExist
    <3> HIDE DEF p, t
    <3>2. QED
      BY <1>1, <1>4, <2>2, <3>1
  <2>3. QED
    BY <1>4, <2>1, <2>2
<1>10. QED
  BY <1>5, <1>6, <1>7, <1>8, <1>9 DEF IInv
-----------------------------------------------------------------------------
\* A handler takes a number that nobody has, or refuses the request.
LEMMA CreateRoomInv == ASSUME IInv, NEW m \in calls, CreateRoom(m) PROVE IInv'
<1>1. m \in Players \X (1..Attempts) /\ m[1] \in Players
  BY DEF IInv, TypeOK
<1>2. UNCHANGED <<rooms, cached, pc, request, attempt, announced, promised>>
      /\ calls' \subseteq calls
      /\ request[m[1]].kind = "create"
  BY DEF CreateRoom, gatewayVars, histVars
<1>3. request[m[1]].arg \in Int
  BY <1>1, <1>2, RoomsAssumption DEF IInv, TypeOK, Requests, Rooms
<1>4. CASE /\ Refusable(request[m[1]])
           /\ Respond(m, "INVALID_ARGUMENT", 0)
           /\ UNCHANGED <<nextRoomId, creating>>
  <2>1. /\ reply' \in [Players -> [code : Codes, room : 0..MaxRooms]]
        /\ \A x \in Players : \/ reply'[x] = reply[x]
                              \/ reply'[x].code = "INVALID_ARGUMENT"
    <3>1. 0 \in 0..MaxRooms
      BY RoomsAssumption
    <3>2. /\ reply' \in [Players -> [code : Codes, room : 0..MaxRooms]]
          /\ \A x \in Players : \/ reply'[x] = reply[x]
                                \/ reply'[x] = [code |-> "INVALID_ARGUMENT",
                                               room |-> 0]
      BY <1>1, <1>4, <3>1, RespondEffect, CodesNamed DEF IInv
    <3>3. QED
      BY <3>2
  <2>2. TypeOK'
    BY <1>2, <1>4, <2>1 DEF IInv, TypeOK
  <2>3. /\ NumbersOnce' /\ WorkOfRequest' /\ AttemptsLeft'
        /\ MembersFinite' /\ NeverOverfull'
    BY <1>2, <1>4 DEF IInv, NumbersOnce, WorkOfRequest, AttemptsLeft,
                      MembersFinite, NeverOverfull
  <2>4. AnnouncedExist' /\ AnswerStaysTrue'
    BY <1>2, <2>1 DEF IInv, AnnouncedExist, AnswerStaysTrue
  <2>5. QED
    BY <2>2, <2>3, <2>4 DEF IInv
<1>5. CASE /\ ~Refusable(request[m[1]])
           /\ nextRoomId <= MaxRooms
           /\ nextRoomId' = nextRoomId + 1
           /\ creating' = creating \cup
                {[call |-> m, room |-> nextRoomId, step |-> "insert"]}
           /\ UNCHANGED reply
  <2> DEFINE v == [call |-> m, room |-> nextRoomId, step |-> "insert"]
  <2>1. nextRoomId \in Rooms /\ nextRoomId \in Int /\ v \in Work
    BY <1>1, <1>5, RoomsAssumption DEF IInv, TypeOK, Rooms, Work
  <2>2. \A w \in creating : w.room \in Rooms /\ w.room < nextRoomId
    BY DEF IInv, TypeOK, Work
  <2>3. TypeOK'
    BY <1>2, <1>5, <2>1, <2>2, RoomsAssumption DEF IInv, TypeOK, Rooms
  <2>4. NumbersOnce'
    <3>1. \A w, x \in creating' : w.room = x.room => w = x
      BY <1>5, <2>1, <2>2 DEF IInv, NumbersOnce, Rooms
    <3>2. \A r \in Rooms : r >= nextRoomId' => rooms'[r] = NoRoom
      BY <1>2, <1>5, <2>1 DEF IInv, NumbersOnce, Rooms
    <3>3. \A w \in creating' : w.step = "insert" => rooms'[w.room] = NoRoom
      BY <1>2, <1>5, <2>1 DEF IInv, NumbersOnce
    <3>4. QED
      BY <3>1, <3>2, <3>3 DEF NumbersOnce
  <2>5. WorkOfRequest'
    BY <1>2, <1>5, <1>3 DEF IInv, WorkOfRequest, Refusable
  <2>6. /\ AttemptsLeft' /\ MembersFinite' /\ NeverOverfull'
        /\ AnnouncedExist' /\ AnswerStaysTrue'
    BY <1>2, <1>5 DEF IInv, AttemptsLeft, MembersFinite, NeverOverfull,
                      AnnouncedExist, AnswerStaysTrue
  <2>7. QED
    BY <2>3, <2>4, <2>5, <2>6 DEF IInv
<1>6. QED
  BY <1>4, <1>5 DEF CreateRoom

\* The room inserted was none before: no answer and no announcement is of it.
LEMMA InsertRoomInv == ASSUME IInv, NEW w \in creating, InsertRoom(w) PROVE IInv'
<1> DEFINE q == request[w.call[1]]
           v == [w EXCEPT !.step = "cache"]
<1>1. /\ w \in Work /\ v \in Work /\ w.room \in Rooms /\ w.call[1] \in Players
      /\ v.room = w.room /\ v.call = w.call /\ v.step = "cache"
      /\ w.step = "insert"
  BY DEF IInv, TypeOK, Work, InsertRoom
<1>2. /\ UNCHANGED <<nextRoomId, cached, pc, request, attempt, calls, reply,
                     announced, promised>>
      /\ creating' = (creating \ {w}) \cup {v}
  BY DEF InsertRoom, gatewayVars, histVars
<1>3. rooms[w.room] = NoRoom
  BY <1>1 DEF IInv, NumbersOnce
<1>4. q.kind = "create" /\ q.arg \in Sizes /\ q.arg > 0 /\ q.arg \in Int
  BY <1>1, RoomsAssumption DEF IInv, TypeOK, WorkOfRequest, Requests
<1>5. /\ rooms' \in [Rooms -> Room]
      /\ rooms'[w.room] = [size |-> q.arg, members |-> {}]
      /\ \A r \in Rooms \ {w.room} : rooms'[r] = rooms[r]
  BY <1>1, <1>4 DEF IInv, TypeOK, Room, InsertRoom
<1>6. \A r \in Rooms : rooms[r].size > 0 => rooms'[r] = rooms[r]
  BY <1>3, <1>5 DEF NoRoom
<1>7. TypeOK'
  BY <1>1, <1>2, <1>5 DEF IInv, TypeOK
<1>8. NumbersOnce'
  <2>1. \A x, y \in creating' : x.room = y.room => x = y
    <3>1. \A x, y \in creating : x.room = y.room => x = y
      BY DEF IInv, NumbersOnce
    <3>2. \A x \in creating \ {w} : x.room # v.room
      BY <1>1, <3>1
    <3> HIDE DEF v
    <3>3. QED
      BY <1>2, <3>1, <3>2
  <2>2. \A r \in Rooms : r >= nextRoomId' => rooms'[r] = NoRoom
    BY <1>1, <1>2, <1>5 DEF IInv, NumbersOnce, TypeOK, Rooms
  <2>3. \A x \in creating' : x.step = "insert" => rooms'[x.room] = NoRoom
    BY <1>1, <1>2, <1>5 DEF IInv, NumbersOnce, TypeOK, Work
  <2>4. QED
    BY <2>1, <2>2, <2>3 DEF NumbersOnce
<1>9. WorkOfRequest'
  <2> SUFFICES ASSUME NEW x \in creating'
               PROVE  /\ request[x.call[1]].kind = "create"
                      /\ request[x.call[1]].arg > 0
                      /\ x.step = "cache" =>
                           rooms'[x.room].size = request[x.call[1]].arg
    BY <1>2 DEF WorkOfRequest
  <2>1. CASE x = v
    BY <1>1, <1>4, <1>5, <2>1
  <2>2. CASE x \in creating \ {w}
    <3>1. x.room # w.room /\ x.room \in Rooms
      BY <2>2 DEF IInv, NumbersOnce, TypeOK, Work
    <3>2. QED
      BY <1>5, <2>2, <3>1 DEF IInv, WorkOfRequest
  <2>3. QED
    BY <1>2, <2>1, <2>2
<1>10. AnnouncedExist'
  <2>1. announced \subseteq Rooms
        /\ \A x \in Players : request[x].kind = "join" => request[x].arg \in Rooms
    BY DEF IInv, TypeOK, Requests
  <2>2. QED
    BY <1>2, <1>6, <2>1 DEF IInv, AnnouncedExist
<1>11. MembersFinite' /\ NeverOverfull'
  <2>1. IsFiniteSet({}) /\ Cardinality({}) = 0
    BY FS_EmptySet
  <2>2. /\ IsFiniteSet(rooms'[w.room].members)
        /\ Cardinality(rooms'[w.room].members) <= rooms'[w.room].size
    BY <1>4, <1>5, <2>1
  <2>3. QED
    BY <1>5, <2>2 DEF IInv, MembersFinite, NeverOverfull
<1>12. AttemptsLeft' /\ AnswerStaysTrue'
  BY <1>2, <1>6 DEF IInv, AttemptsLeft, AnswerStaysTrue, AnnouncedExist
<1>13. QED
  BY <1>7, <1>8, <1>9, <1>10, <1>11, <1>12 DEF IInv

\* The answer names the room inserted, with the size its player asks for.
LEMMA CacheRoomInv == ASSUME IInv, NEW w \in creating, CacheRoom(w) PROVE IInv'
<1> DEFINE p == w.call[1]
<1>1. /\ w \in Work /\ w.room \in Rooms /\ w.room \in 0..MaxRooms
      /\ p \in Players /\ w.call \in Players \X (1..Attempts)
      /\ w.step = "cache"
  BY RoomsAssumption DEF IInv, TypeOK, Work, CacheRoom, Rooms
<1>2. /\ UNCHANGED <<nextRoomId, rooms, pc, request, attempt, calls, announced,
                     promised>>
      /\ creating' = creating \ {w}
      /\ cached \subseteq cached' /\ cached' \subseteq cached \cup {w.room}
      /\ HasRedis => w.room \in cached'
  BY DEF CacheRoom, gatewayVars, histVars
<1>3. /\ request[p].kind = "create" /\ request[p].arg > 0
      /\ rooms[w.room].size = request[p].arg
  BY <1>1 DEF IInv, WorkOfRequest
<1>4. /\ reply' \in [Players -> [code : Codes, room : 0..MaxRooms]]
      /\ \A x \in Players : \/ reply'[x] = reply[x]
                            \/ /\ x = p
                               /\ reply'[x] = [code |-> "OK", room |-> w.room]
  BY <1>1, RespondEffect DEF IInv, CacheRoom, Codes
<1>5. TypeOK'
  BY <1>1, <1>2, <1>4 DEF IInv, TypeOK
<1>6. /\ NumbersOnce' /\ WorkOfRequest' /\ AttemptsLeft'
      /\ MembersFinite' /\ NeverOverfull'
  BY <1>2 DEF IInv, NumbersOnce, WorkOfRequest, AttemptsLeft, MembersFinite,
              NeverOverfull
<1>7. AnnouncedExist'
  BY <1>1, <1>2, <1>3, <1>4 DEF IInv, AnnouncedExist
<1>8. AnswerStaysTrue'
  BY <1>1, <1>2, <1>3, <1>4 DEF IInv, AnswerStaysTrue
<1>9. QED
  BY <1>5, <1>6, <1>7, <1>8 DEF IInv
-----------------------------------------------------------------------------
\* Every step preserves the invariant.
LEMMA NextInv == IInv /\ [Next]_vars => IInv'
<1> SUFFICES ASSUME IInv, [Next]_vars PROVE IInv'
  OBVIOUS
<1>1. CASE UNCHANGED vars
  BY <1>1 DEF IInv, vars, serviceVars, gatewayVars, histVars, TypeOK, NumbersOnce,
              WorkOfRequest, AnnouncedExist, AttemptsLeft, MembersFinite,
              NeverOverfull, AnswerStaysTrue
<1>2. CASE Next
  BY <1>2, AskInv, SendInv, ReceiveInv, GiveUpInv, LoseInv, JoinRoomInv,
     CreateRoomInv, InsertRoomInv, CacheRoomInv DEF Next
<1>3. QED
  BY <1>1, <1>2

\* The rooms, the handlers and the gateway keep the types TypeOK gives them
\* (game_service_impl.cpp, and the retries of grpc_router.cpp).
THEOREM TypeCorrect == Spec => []TypeOK
<1>1. IInv => TypeOK
  BY DEF IInv
<1>2. QED
  BY InitInv, NextInv, <1>1, PTL DEF Spec

\* For any number of players that join in parallel, first tries and retries
\* alike, no room has more members than places (JoinRoom checks and inserts
\* under one lock).
THEOREM RoomsNeverOverfull == Spec => []NeverOverfull
<1>1. IInv => NeverOverfull
  BY DEF IInv
<1>2. QED
  BY InitInv, NextInv, <1>1, PTL DEF Spec

\* For any number of attempts, calls lost and calls that arrive late, an answer
\* is true when the player gets it and stays true.
THEOREM AnswersStayTrue == Spec => []AnswerStaysTrue
<1>1. IInv => AnswerStaysTrue
  BY DEF IInv
<1>2. QED
  BY InitInv, NextInv, <1>1, PTL DEF Spec
=============================================================================
