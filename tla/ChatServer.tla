----------------------------- MODULE ChatServer -----------------------------
(***************************************************************************)
(* ChatServer at the grain of its handlers: a client is accepted, a line   *)
(* of it is processed, a client is disconnected.  The server runs one      *)
(* handler at a time to completion, in whatever order the sockets of the   *)
(* clients become ready, so each handler is one action and the actions of  *)
(* different clients interleave freely.                                    *)
(*                                                                         *)
(* The bytes of out_buffer, their writing and the event loop are not here: *)
(* queued holds what the last handler appended to each out_buffer.         *)
(***************************************************************************)
EXTENDS CommandHandler

Init ==
  /\ clients = <<>>
  /\ rooms = [r \in {Lobby} |-> NewRoom]
  /\ queued = Silence

-----------------------------------------------------------------------------
(* One turn of the accept loop.  The descriptor is free: the kernel returns *)
(* one that is not open.  A client that cannot be made non-blocking or      *)
(* registered with epoll is dropped before it is told anything.             *)
accept_new_client(c) ==
  /\ c \notin DOMAIN clients
  /\ \/ /\ clients' = [f \in DOMAIN clients \cup {c} |->
                          IF f = c THEN NewClient ELSE clients[f]]
        /\ queued' = Tell(c, Reply("enter nickname"))
     \/ /\ queued' = Silence
        /\ UNCHANGED clients
  /\ UNCHANGED rooms

(* leave_room, the notification that the client left the server, and the   *)
(* erasure.  What the client itself is still queued dies with its buffer.  *)
send_disconnect_notification(c) ==
  [f \in Fd |->
     IF /\ f \in DOMAIN clients
        /\ clients[f].state = STATE_CHAT
        /\ clients[c].nickname # Blank
     THEN <<[kind |-> "left server", who |-> c]>> ELSE <<>>]

disconnect_client(c) ==
  /\ c \in DOMAIN clients
  /\ rooms' = LeaveRooms(clients, rooms, c)
  /\ queued' = [Then(LeaveNotices(clients, rooms, c),
                     send_disconnect_notification(c)) EXCEPT ![c] = <<>>]
  /\ clients' = Restrict(clients, DOMAIN clients \ {c})

-----------------------------------------------------------------------------
(* process_message, by the state of the client.  A line of blanks is empty *)
(* by the time it is used as a nickname or a password.                     *)
Named(c, nick) ==
  [clients EXCEPT ![c].nickname = nick, ![c].state = STATE_CHAT]

(* Mutant of set_nickname: the client is not put into the lobby.           *)
set_nickname_NoLobby(c, nick) ==
  /\ c \in DOMAIN clients
  /\ clients[c].state = STATE_NICKNAME
  /\ clients' = Named(c, nick)
  /\ queued' = Tell(c, Reply("welcome"))
  /\ UNCHANGED rooms

set_nickname(c, nick) ==
  /\ c \in DOMAIN clients
  /\ clients[c].state = STATE_NICKNAME
  /\ clients' = JoinClients(Named(c, nick), c, Lobby)
  /\ rooms' = JoinRooms(Named(c, nick), rooms, c, Lobby)
  /\ queued' = Then(JoinNotices(Named(c, nick), rooms, c, Lobby),
                    Tell(c, Reply("welcome")))

BackToChat(cs, c) == [cs EXCEPT ![c].state = STATE_CHAT]

(* The room is joined, then its password set: by then it need not be new.  *)
setup_password(c, pw) ==
  /\ c \in DOMAIN clients
  /\ clients[c].state = STATE_SETUP_ROOM_PASSWORD
  /\ LET r == clients[c].connected_room_
     IN  /\ clients' = BackToChat(JoinClients(clients, c, r), c)
         /\ rooms' = [JoinRooms(clients, rooms, c, r)
                        EXCEPT ![r].password_ = pw]
         /\ queued' = Then(JoinNotices(clients, rooms, c, r),
                           Tell(c, Reply("room created")))

(* A failed attempt keeps connected_room_; it is not read again before the *)
(* next prompt sets it.                                                    *)
RejectPassword(c, reason) ==
  /\ clients' = BackToChat(clients, c)
  /\ queued' = Tell(c, Reply(reason))
  /\ UNCHANGED rooms

enter_password(c, pw) ==
  /\ c \in DOMAIN clients
  /\ clients[c].state = STATE_ENTER_ROOM_PASSWORD
  /\ LET r == clients[c].connected_room_
     IN  \/ /\ r \notin DOMAIN rooms
            /\ RejectPassword(c, "room deleted")
         \/ /\ r \in DOMAIN rooms
            /\ ~ verification_password(rooms, r, pw)
            /\ RejectPassword(c, "incorrect password")
         \/ /\ r \in DOMAIN rooms
            /\ verification_password(rooms, r, pw)
            /\ clients' = BackToChat(JoinClients(clients, c, r), c)
            /\ rooms' = JoinRooms(clients, rooms, c, r)
            /\ queued' = Then(JoinNotices(clients, rooms, c, r),
                              Tell(c, Reply("password success")))

process_message(c) ==
  \/ \E nick \in Nick \cup {Blank} : set_nickname(c, nick)
  \/ \E pw \in Password \cup {Blank} : setup_password(c, pw)
  \/ \E pw \in Password \cup {Blank} : enter_password(c, pw)
  \/ execute(c)

Next == \E c \in Fd : \/ accept_new_client(c)
                      \/ process_message(c)
                      \/ disconnect_client(c)

Spec == Init /\ [][Next]_vars

-----------------------------------------------------------------------------
TypeOK ==
  /\ DOMAIN clients \subseteq Fd
  /\ clients \in [DOMAIN clients -> Client]
  /\ DOMAIN rooms \subseteq Room
  /\ rooms \in [DOMAIN rooms -> RoomRecord]
  /\ queued \in [Fd -> Seq(Message)]

(* The user count of a room, which /rooms prints and which decides when    *)
(* the room is erased, is the number of clients whose room_ it is, which   *)
(* /online lists: no sequence of joins, prompts, failed passwords and      *)
(* disconnects makes the two drift apart.                                  *)
CountAccurate ==
  \A r \in DOMAIN rooms : rooms[r].user_count_ = Cardinality(InRoom(r))

(* A room other than the lobby exists exactly while some client is in it:  *)
(* no client is left pointing at an erased room, and no empty room stays   *)
(* behind with its password.                                               *)
RoomsInhabited ==
  \A r \in Room \ {Lobby} : r \in DOMAIN rooms <=> InRoom(r) # {}

(* The lobby is never erased, never protected and never asked for at a     *)
(* prompt, so the first join and /leave cannot fail or overwrite anything. *)
LobbyOpen ==
  /\ Lobby \in DOMAIN rooms
  /\ rooms[Lobby].password_ = Blank
  /\ \A c \in DOMAIN clients :
       clients[c].state \in Prompted => clients[c].connected_room_ # Lobby

(* A client is in a room from its nickname on, through every prompt, until *)
(* it is disconnected.  An empty room_ would turn its chat lines into      *)
(* broadcasts to every room.                                               *)
InRoomOnceNamed ==
  \A c \in DOMAIN clients :
    clients[c].room_ = Blank <=> clients[c].state = STATE_NICKNAME

(* A pending prompt names a room, and not the one the client is in: the    *)
(* answer never makes a client leave and rejoin its own room, which would  *)
(* erase the room (and its password) under its last user.                  *)
PromptNamesAnotherRoom ==
  \A c \in DOMAIN clients :
    clients[c].state \in Prompted =>
      clients[c].connected_room_ \notin {Blank, clients[c].room_}

(* A chat line is queued only to clients that are chatting in the room the *)
(* sender is in.                                                           *)
ChatStaysInRoom ==
  \A d \in Fd : \A i \in DOMAIN queued[d] :
    queued[d][i].kind = "chat" =>
      /\ d \in DOMAIN clients
      /\ clients[d].state = STATE_CHAT
      /\ clients[d].room_ = clients[queued[d][i].who].room_

-----------------------------------------------------------------------------
(* The server is a room directory: the clients are moved between rooms one *)
(* at a time, and what rooms_ lists and counts is, after every handler, a  *)
(* census of where the clients are.                                        *)
where ==
  [f \in Fd |-> IF f \in DOMAIN clients THEN clients[f].room_ ELSE Blank]

Directory == INSTANCE RoomDirectory WITH
               Member <- Fd, Outside <- Blank,
               census <- [r \in DOMAIN rooms |-> rooms[r].user_count_]

ImplementsDirectory == Directory!Spec

(* A client enters a room that has a password only from a prompt for that  *)
(* room: no command takes a chatting client into a protected room.         *)
ProtectedEntry ==
  [][\A c \in DOMAIN clients \cap DOMAIN clients' :
       LET r == clients'[c].room_
       IN  /\ r # clients[c].room_
           /\ r \in DOMAIN rooms
           /\ rooms[r].password_ # Blank
           => /\ clients[c].state \in Prompted
              /\ clients[c].connected_room_ = r]_vars

(* Who was asked to create r and has not answered yet.                     *)
Creators(r) ==
  {c \in DOMAIN clients : /\ clients[c].state = STATE_SETUP_ROOM_PASSWORD
                          /\ clients[c].connected_room_ = r}

(* While a room exists nobody new is asked to create it, and its password  *)
(* changes only when a creator of before answers, who is spent with that:  *)
(* a room's password is overwritten at most once per racing creator, and   *)
(* never again once they have all answered.                                *)
PasswordOverwritesRunOut ==
  [][\A r \in DOMAIN rooms \cap DOMAIN rooms' :
       /\ Creators(r)' \subseteq Creators(r)
       /\ rooms'[r].password_ # rooms[r].password_ =>
            Creators(r)' # Creators(r)]_vars

(* "setup room password (first connect by owner)": a password is set only  *)
(* by the first client to connect to the room.  Two clients asked to       *)
(* create one room break it: the second joins the room of the first        *)
(* without its password and replaces it.                                   *)
PasswordSetOnFirstConnect ==
  [][\A r \in DOMAIN rooms \cap DOMAIN rooms' :
       rooms'[r].password_ = rooms[r].password_]_vars
=============================================================================
