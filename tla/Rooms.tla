------------------------------- MODULE Rooms -------------------------------
(***************************************************************************)
(* The tables of ChatServer and the operations on them that its handlers   *)
(* share: the Client and Room records, the reference count a Room keeps,   *)
(* broadcast, join_room and leave_room.  A handler runs to completion in   *)
(* the one thread of the server, so these are value-level operators: they  *)
(* take a client table cs and a room table rs and return the new table, or *)
(* the messages the handler queues, and an action composes them.           *)
(***************************************************************************)
EXTENDS Integers, Sequences, FiniteSets, Functions

CONSTANTS
  Fd,        \* descriptors a client connection can get
  Nick,      \* non-empty nicknames
  Room,      \* names a room can have
  Password,  \* non-empty passwords
  Lobby,     \* the name "lobby"
  Blank      \* the empty string, of a nickname, a room name or a password

(* The descriptor table of a process is finite, and the empty string is    *)
(* none of the non-empty ones.                                             *)
ASSUME NamesAssumption ==
  /\ IsFiniteSet(Fd)
  /\ Lobby \in Room
  /\ Blank \notin Room \cup Nick \cup Password

-----------------------------------------------------------------------------
(* ClientState *)
STATE_NICKNAME == "nickname"
STATE_CHAT == "chat"
STATE_SETUP_ROOM_PASSWORD == "setup_room_password"
STATE_ENTER_ROOM_PASSWORD == "enter_room_password"

ClientState == {STATE_NICKNAME, STATE_CHAT,
                STATE_SETUP_ROOM_PASSWORD, STATE_ENTER_ROOM_PASSWORD}
Prompted == {STATE_SETUP_ROOM_PASSWORD, STATE_ENTER_ROOM_PASSWORD}

Client == [state : ClientState,
           nickname : Nick \cup {Blank},
           room_ : Room \cup {Blank},
           connected_room_ : Room \cup {Blank}]

NewClient == [state |-> STATE_NICKNAME, nickname |-> Blank,
              room_ |-> Blank, connected_room_ |-> Blank]

RoomRecord == [password_ : Password \cup {Blank}, user_count_ : Nat]

NewRoom == [password_ |-> Blank, user_count_ |-> 0]

verification_password(rs, r, pw) == rs[r].password_ = pw

-----------------------------------------------------------------------------
(* Messages.  A notice names its subject by connection, not by nickname,   *)
(* so that two clients of one nickname stay distinct; the text of a chat   *)
(* line is not modelled.                                                   *)
Replies == {"enter nickname", "welcome", "create password", "room created",
            "enter password", "password success", "incorrect password",
            "room deleted", "already in room", "in lobby", "not found"}

Message ==
  [kind : Replies]
    \cup [kind : {"joined", "left", "chat"}, who : Fd, room : Room]
    \cup [kind : {"private from", "private to", "left server"}, who : Fd]
    \cup [kind : {"online"}, names : SUBSET Fd]
    \cup [kind : {"rooms"}, counts : SUBSET (Room \X Nat)]

Reply(k) == [kind |-> k]
Notice(k, c, r) == [kind |-> k, who |-> c, room |-> r]

(* What a handler appends to the out_buffer of every client.               *)
Silence == [f \in Fd |-> <<>>]
Tell(c, m) == [f \in Fd |-> IF f = c THEN <<m>> ELSE <<>>]
Then(q1, q2) == [f \in Fd |-> q1[f] \o q2[f]]

(* queue_message to every chatting client of room r; to all of them when   *)
(* the name is empty.  The sender argument of the code is not used.        *)
broadcast(cs, m, r) ==
  [f \in Fd |->
     IF /\ f \in DOMAIN cs
        /\ cs[f].state = STATE_CHAT
        /\ r = Blank \/ cs[f].room_ = r
     THEN <<m>> ELSE <<>>]

-----------------------------------------------------------------------------
(* The reference count of a room: who leaves a room takes one off, and the *)
(* last to leave any room but the lobby erases it; who joins creates the   *)
(* room if it is not there and adds one.                                   *)
Decreased(rs, r) == [rs EXCEPT ![r].user_count_ = @ - 1]

(* Mutants of RemoveUser: an empty room stays; the lobby goes too.         *)
RemoveUser_NeverErase(rs, r) == Decreased(rs, r)
RemoveUser_EraseLobby(rs, r) ==
  IF Decreased(rs, r)[r].user_count_ = 0
  THEN Restrict(rs, DOMAIN rs \ {r})
  ELSE Decreased(rs, r)

RemoveUser(rs, r) ==
  IF Decreased(rs, r)[r].user_count_ = 0 /\ r # Lobby
  THEN Restrict(rs, DOMAIN rs \ {r})
  ELSE Decreased(rs, r)

Created(rs, r) ==
  IF r \in DOMAIN rs THEN rs
  ELSE [x \in DOMAIN rs \cup {r} |-> IF x = r THEN NewRoom ELSE rs[x]]

(* Mutant of AddUser: only the creator of a room is counted.               *)
AddUser_CountCreator(rs, r) ==
  [Created(rs, r) EXCEPT ![r].user_count_ = IF r \in DOMAIN rs THEN @ ELSE 1]

AddUser(rs, r) == [Created(rs, r) EXCEPT ![r].user_count_ = @ + 1]

-----------------------------------------------------------------------------
(* leave_room, up to the client record, which its only caller erases; the  *)
(* same steps open join_room.                                              *)
HasRoom(cs, rs, c) == cs[c].room_ # Blank /\ cs[c].room_ \in DOMAIN rs

LeaveRooms(cs, rs, c) ==
  IF HasRoom(cs, rs, c) THEN RemoveUser(rs, cs[c].room_) ELSE rs

LeaveNotices(cs, rs, c) ==
  IF HasRoom(cs, rs, c)
  THEN broadcast(cs, Notice("left", c, cs[c].room_), cs[c].room_)
  ELSE Silence

(* join_room: its effect on the client, on the rooms, and what it queues.  *)
JoinClients(cs, c, r) ==
  [cs EXCEPT ![c].room_ = r, ![c].connected_room_ = Blank]

(* Mutant of JoinRooms: the old room is not left.                          *)
JoinRooms_KeepOld(cs, rs, c, r) == AddUser(rs, r)

JoinRooms(cs, rs, c, r) == AddUser(LeaveRooms(cs, rs, c), r)

(* Mutant of JoinNotices: the old room is not told.                        *)
JoinNotices_NoLeft(cs, rs, c, r) ==
  broadcast(JoinClients(cs, c, r), Notice("joined", c, r), r)

JoinNotices(cs, rs, c, r) ==
  Then(LeaveNotices(cs, rs, c),
       broadcast(JoinClients(cs, c, r), Notice("joined", c, r), r))
=============================================================================
