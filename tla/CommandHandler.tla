--------------------------- MODULE CommandHandler ---------------------------
(***************************************************************************)
(* CommandHandler: what a line of a chatting client does.  A line reaches  *)
(* a handler as the command the parser makes of it, so a handler takes the *)
(* parsed target (a nickname or a room name) as its argument.              *)
(***************************************************************************)
EXTENDS Rooms

VARIABLES
  clients,  \* clients_: the live descriptors and their Client records
  rooms,    \* rooms_: the existing room names and their Room records
  queued    \* what the last handler appended to each client's out_buffer

vars == <<clients, rooms, queued>>

(* A line is handed to the command handler only in STATE_CHAT.             *)
Chatting(c) == c \in DOMAIN clients /\ clients[c].state = STATE_CHAT

(* Every handler below answers its own client and leaves the tables alone. *)
Answer(c, m) == queued' = Tell(c, m) /\ UNCHANGED <<clients, rooms>>

InRoom(r) == {c \in DOMAIN clients : clients[c].room_ = r}

-----------------------------------------------------------------------------
handle_plain_message(c) ==
  /\ Chatting(c)
  /\ queued' = broadcast(clients, Notice("chat", c, clients[c].room_),
                         clients[c].room_)
  /\ UNCHANGED <<clients, rooms>>

(* The first match in the hash table's order gets the message: any of the  *)
(* chatting clients of that nickname, the sender itself included.          *)
Matches(target) == {d \in DOMAIN clients : /\ clients[d].nickname = target
                                           /\ clients[d].state = STATE_CHAT}

handle_private_message(c, target) ==
  /\ Chatting(c)
  /\ \/ \E d \in Matches(target) :
          queued' = Then(Tell(d, [kind |-> "private from", who |-> c]),
                         Tell(c, [kind |-> "private to", who |-> d]))
     \/ /\ Matches(target) = {}
        /\ queued' = Tell(c, Reply("not found"))
  /\ UNCHANGED <<clients, rooms>>

-----------------------------------------------------------------------------
(* handle_join_room: the client is there already; the room does not exist, *)
(* so the client is asked for the password to create it with; the room is  *)
(* open; or it is protected, so the client is asked for its password.      *)
AlreadyInRoom(c, r) ==
  /\ clients[c].room_ = r
  /\ Answer(c, Reply("already in room"))

Ask(c, r, state, prompt) ==
  /\ clients' = [clients EXCEPT ![c].state = state, ![c].connected_room_ = r]
  /\ queued' = Tell(c, Reply(prompt))
  /\ UNCHANGED rooms

(* Mutant of AskToCreate: the room is not looked up.                       *)
AskToCreate_NoLookup(c, r) ==
  /\ clients[c].room_ # r
  /\ Ask(c, r, STATE_SETUP_ROOM_PASSWORD, "create password")

AskToCreate(c, r) ==
  /\ clients[c].room_ # r
  /\ r \notin DOMAIN rooms
  /\ Ask(c, r, STATE_SETUP_ROOM_PASSWORD, "create password")

(* Mutant of JoinOpenRoom: the password of the room is not looked at.      *)
JoinOpenRoom_NoCheck(c, r) ==
  /\ clients[c].room_ # r
  /\ r \in DOMAIN rooms
  /\ clients' = JoinClients(clients, c, r)
  /\ rooms' = JoinRooms(clients, rooms, c, r)
  /\ queued' = JoinNotices(clients, rooms, c, r)

JoinOpenRoom(c, r) ==
  /\ clients[c].room_ # r
  /\ r \in DOMAIN rooms
  /\ verification_password(rooms, r, Blank)
  /\ clients' = JoinClients(clients, c, r)
  /\ rooms' = JoinRooms(clients, rooms, c, r)
  /\ queued' = JoinNotices(clients, rooms, c, r)

(* Mutant of AskPassword: not preceded by the test for the client's room.  *)
AskPassword_OwnRoom(c, r) ==
  /\ r \in DOMAIN rooms
  /\ ~ verification_password(rooms, r, Blank)
  /\ Ask(c, r, STATE_ENTER_ROOM_PASSWORD, "enter password")

AskPassword(c, r) ==
  /\ clients[c].room_ # r
  /\ r \in DOMAIN rooms
  /\ ~ verification_password(rooms, r, Blank)
  /\ Ask(c, r, STATE_ENTER_ROOM_PASSWORD, "enter password")

handle_join_room(c, r) ==
  /\ Chatting(c)
  /\ \/ AlreadyInRoom(c, r)
     \/ AskToCreate(c, r)
     \/ JoinOpenRoom(c, r)
     \/ AskPassword(c, r)

-----------------------------------------------------------------------------
handle_leave_room(c) ==
  /\ Chatting(c)
  /\ \/ /\ clients[c].room_ = Lobby
        /\ Answer(c, Reply("in lobby"))
     \/ /\ clients[c].room_ # Lobby
        /\ clients' = JoinClients(clients, c, Lobby)
        /\ rooms' = JoinRooms(clients, rooms, c, Lobby)
        /\ queued' = JoinNotices(clients, rooms, c, Lobby)

(* Everyone whose room_ is the client's, whatever their state.             *)
handle_online_list(c) ==
  /\ Chatting(c)
  /\ Answer(c, [kind |-> "online", names |-> InRoom(clients[c].room_)])

handle_rooms_list(c) ==
  /\ Chatting(c)
  /\ Answer(c, [kind |-> "rooms",
                counts |-> {<<r, rooms[r].user_count_>> : r \in DOMAIN rooms}])

(* UNKNOWN has no case in the switch: the line is dropped without a reply. *)
ignore_unknown(c) ==
  /\ Chatting(c)
  /\ queued' = Silence
  /\ UNCHANGED <<clients, rooms>>

execute(c) ==
  \/ handle_plain_message(c)
  \/ \E target \in Nick \cup {Blank} : handle_private_message(c, target)
  \/ \E r \in Room : handle_join_room(c, r)
  \/ handle_leave_room(c)
  \/ handle_online_list(c)
  \/ handle_rooms_list(c)
  \/ ignore_unknown(c)
=============================================================================
