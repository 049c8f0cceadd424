-------------------------- MODULE RoomAccessProofs --------------------------
(***************************************************************************)
(* Who gets into a room, what becomes of its password and who hears what   *)
(* is said in it, for any number of clients and rooms.                     *)
(***************************************************************************)
EXTENDS ChatServerProofs

-----------------------------------------------------------------------------
(* What stands in queued after a handler.                                  *)
Only(q, K) == \A d \in Fd : \A i \in DOMAIN q[d] : q[d][i].kind \in K

LEMMA OnlySilence == ASSUME NEW K PROVE Only(Silence, K)
BY DEF Only, Silence

LEMMA OnlyTell ==
  ASSUME NEW c, NEW K, NEW m, m.kind \in K
  PROVE  Only(Tell(c, m), K)
BY DEF Only, Tell

LEMMA OnlyBroadcast ==
  ASSUME NEW cs, NEW r, NEW K, NEW m, m.kind \in K
  PROVE  Only(broadcast(cs, m, r), K)
BY DEF Only, broadcast

LEMMA OnlyThen ==
  ASSUME NEW q1 \in Queue, NEW q2 \in Queue, NEW K, Only(q1, K), Only(q2, K)
  PROVE  Only(Then(q1, q2), K)
<1> SUFFICES ASSUME NEW d \in Fd, NEW i \in DOMAIN (q1[d] \o q2[d])
             PROVE  (q1[d] \o q2[d])[i].kind \in K
  BY DEF Only, Then
<1> DEFINE s == q1[d]
           t == q2[d]
<1>1. s \in Seq(Message) /\ t \in Seq(Message)
  BY DEF Queue
<1>2. /\ \A j \in 1..Len(s) : s[j].kind \in K
      /\ \A j \in 1..Len(t) : t[j].kind \in K
  BY <1>1 DEF Only
<1>3. i \in DOMAIN (s \o t)
  OBVIOUS
<1> HIDE DEF s, t
<1>4. (s \o t)[i].kind \in K
  BY <1>1, <1>2, <1>3
<1> QED
  BY <1>4 DEF s, t

NotChat == {"joined", "left", "left server", "private from", "private to",
            "online", "rooms"} \cup Replies

LEMMA OnlyReply ==
  ASSUME NEW c, NEW k \in Replies
  PROVE  Only(Tell(c, Reply(k)), NotChat)
BY OnlyTell DEF Reply, NotChat

LEMMA OnlyNotices ==
  ASSUME NEW cs, NEW rs, NEW c \in DOMAIN cs, NEW r \in Room, ClientTable(cs)
  PROVE  /\ Only(LeaveNotices(cs, rs, c), NotChat)
         /\ Only(JoinNotices(cs, rs, c, r), NotChat)
<1>1. Only(LeaveNotices(cs, rs, c), NotChat)
  BY OnlySilence, OnlyBroadcast DEF LeaveNotices, Notice, NotChat
<1>2. Only(broadcast(JoinClients(cs, c, r), Notice("joined", c, r), r), NotChat)
  BY OnlyBroadcast DEF Notice, NotChat
<1>3. /\ LeaveNotices(cs, rs, c) \in Queue
      /\ broadcast(JoinClients(cs, c, r), Notice("joined", c, r), r) \in Queue
  BY NoticesType, BroadcastType, NoticeType DEF ClientTable
<1> QED
  BY <1>1, <1>2, <1>3, OnlyThen DEF JoinNotices

(* Every handler but handle_plain_message queues other things than chat.   *)
LEMMA QuietAccept ==
  ASSUME NEW c \in Fd, accept_new_client(c)
  PROVE  Only(queued', NotChat)
<1>1. "enter nickname" \in Replies
  BY DEF Replies
<1> QED
  BY <1>1, OnlySilence, OnlyReply DEF accept_new_client

LEMMA QuietDisconnect ==
  ASSUME IInv, NEW c \in Fd, disconnect_client(c)
  PROVE  Only(queued', NotChat)
<1> DEFINE q1 == LeaveNotices(clients, rooms, c)
           q2 == send_disconnect_notification(c)
           m == [kind |-> "left server", who |-> c]
<1>1. c \in DOMAIN clients /\ ClientTable(clients)
  BY DEF disconnect_client, IInv, Sound
<1>2. q1 \in Queue /\ Only(q1, NotChat)
  BY <1>1, NoticesType, OnlyNotices, NamesAssumption
<1>3. m \in Message /\ m.kind \in NotChat
  BY DEF Message, NotChat
<1>4. q2 \in [Fd -> {<<>>, <<m>>}]
  BY DEF send_disconnect_notification
<1> HIDE DEF m, q2
<1>5. q2 \in Queue /\ Only(q2, NotChat)
  <2>1. <<>> \in Seq(Message) /\ DOMAIN <<>> = {}
    OBVIOUS
  <2>2. <<m>> \in Seq(Message) /\ \A i \in DOMAIN <<m>> : <<m>>[i].kind \in NotChat
    BY <1>3
  <2>3. \A d \in Fd : q2[d] = <<>> \/ q2[d] = <<m>>
    BY <1>4
  <2>4. q2 \in Queue
    BY <1>4, <2>1, <2>2, <2>3, Zenon DEF Queue
  <2> QED
    BY <2>1, <2>2, <2>3, <2>4, Zenon DEF Only
<1> HIDE DEF q1
<1>6. Then(q1, q2) \in Queue /\ Only(Then(q1, q2), NotChat)
  BY <1>2, <1>5, OnlyThen, ThenType
<1>7. queued' = [Then(q1, q2) EXCEPT ![c] = <<>>]
  BY DEF disconnect_client, q1, q2
<1> QED
  BY <1>6, <1>7 DEF Only, Queue

LEMMA QuietJoin ==
  ASSUME NEW cs, NEW rs, NEW c \in DOMAIN cs, NEW r \in Room, ClientTable(cs),
         NEW k \in Replies
  PROVE  Only(Then(JoinNotices(cs, rs, c, r), Tell(c, Reply(k))), NotChat)
<1>1. /\ JoinNotices(cs, rs, c, r) \in Queue
      /\ Only(JoinNotices(cs, rs, c, r), NotChat)
  BY NoticesType, OnlyNotices
<1>2. Tell(c, Reply(k)) \in Queue /\ Only(Tell(c, Reply(k)), NotChat)
  BY TellType, ReplyType, OnlyReply
<1> QED
  BY <1>1, <1>2, OnlyThen

LEMMA QuietAnswer ==
  ASSUME IInv, NEW c \in Fd,
         \/ \E nick \in Nick \cup {Blank} : set_nickname(c, nick)
         \/ \E pw \in Password \cup {Blank} :
              setup_password(c, pw) \/ enter_password(c, pw)
  PROVE  Only(queued', NotChat)
<1>1. {"welcome", "room created", "room deleted", "incorrect password",
       "password success"} \subseteq Replies
  BY DEF Replies
<1>2. ASSUME NEW nick \in Nick \cup {Blank}, set_nickname(c, nick)
      PROVE  Only(queued', NotChat)
  <2>1. /\ ClientTable(Named(c, nick))
        /\ c \in DOMAIN Named(c, nick)
    BY <1>2, NamedType DEF set_nickname, IInv, Sound
  <2> QED
    BY <1>1, <1>2, <2>1, QuietJoin, NamesAssumption DEF set_nickname
<1>3. ASSUME NEW pw \in Password \cup {Blank},
             setup_password(c, pw) \/ enter_password(c, pw)
      PROVE  Only(queued', NotChat)
  <2> DEFINE r == clients[c].connected_room_
  <2>1. /\ ClientTable(clients)
        /\ c \in DOMAIN clients
        /\ clients[c].state \in Prompted
    BY <1>3 DEF setup_password, enter_password, Prompted, IInv, Sound
  <2>2. r \in Room
    BY <2>1, PromptedRoom
  <2>3. ASSUME NEW k \in {"room created", "password success"},
               queued' = Then(JoinNotices(clients, rooms, c, r), Tell(c, Reply(k)))
        PROVE  Only(queued', NotChat)
    BY <1>1, <2>1, <2>2, <2>3, QuietJoin
  <2>4. ASSUME NEW k \in {"room deleted", "incorrect password"},
               queued' = Tell(c, Reply(k))
        PROVE  Only(queued', NotChat)
    BY <1>1, <2>4, OnlyReply
  <2> QED
    BY <1>3, <2>3, <2>4 DEF setup_password, enter_password, RejectPassword
<1> QED
  BY <1>2, <1>3

LEMMA QuietCommand ==
  ASSUME IInv, NEW c \in Fd, execute(c), ~ handle_plain_message(c)
  PROVE  Only(queued', NotChat)
<1>1. {"not found", "already in room", "create password", "enter password",
       "in lobby"} \subseteq Replies
  BY DEF Replies
<1>2. ClientTable(clients)
  BY DEF IInv, Sound
<1>3. ASSUME NEW target, handle_private_message(c, target)
      PROVE  Only(queued', NotChat)
  <2>1. ASSUME NEW d \in Matches(target),
               queued' = Then(Tell(d, [kind |-> "private from", who |-> c]),
                              Tell(c, [kind |-> "private to", who |-> d]))
        PROVE  Only(queued', NotChat)
    <3> DEFINE q1 == Tell(d, [kind |-> "private from", who |-> c])
               q2 == Tell(c, [kind |-> "private to", who |-> d])
    <3>1. d \in Fd
      BY <1>2, <2>1 DEF Matches, ClientTable
    <3>2. /\ [kind |-> "private from", who |-> c] \in Message
          /\ [kind |-> "private to", who |-> d] \in Message
      BY <3>1 DEF Message
    <3>3. q1 \in Queue /\ q2 \in Queue
      BY <3>2, TellType
    <3>4. Only(q1, NotChat) /\ Only(q2, NotChat)
      BY OnlyTell DEF NotChat
    <3> HIDE DEF q1, q2
    <3>5. Only(Then(q1, q2), NotChat)
      BY <3>3, <3>4, OnlyThen
    <3> QED
      BY <2>1, <3>5 DEF q1, q2
  <2> QED
    BY <1>1, <1>3, <2>1, OnlyReply DEF handle_private_message
<1>4. ASSUME NEW r \in Room, handle_join_room(c, r)
      PROVE  Only(queued', NotChat)
  <2>1. c \in DOMAIN clients
    BY <1>4 DEF handle_join_room, Chatting
  <2>2. CASE queued' = JoinNotices(clients, rooms, c, r)
    BY <1>2, <2>1, <2>2, OnlyNotices
  <2>3. ASSUME NEW k \in {"already in room", "create password", "enter password"},
               queued' = Tell(c, Reply(k))
        PROVE  Only(queued', NotChat)
    BY <1>1, <2>3, OnlyReply
  <2> QED
    BY <1>4, <2>2, <2>3
    DEF handle_join_room, AlreadyInRoom, AskToCreate, JoinOpenRoom,
        AskPassword, Ask, Answer
<1>5. ASSUME handle_leave_room(c)
      PROVE  Only(queued', NotChat)
  <2>1. c \in DOMAIN clients
    BY <1>5 DEF handle_leave_room, Chatting
  <2>2. CASE queued' = JoinNotices(clients, rooms, c, Lobby)
    BY <1>2, <2>1, <2>2, OnlyNotices, NamesAssumption
  <2> QED
    BY <1>1, <1>5, <2>2, OnlyReply DEF handle_leave_room, Answer
<1>6. ASSUME handle_online_list(c) \/ handle_rooms_list(c) \/ ignore_unknown(c)
      PROVE  Only(queued', NotChat)
  BY <1>6, OnlyTell, OnlySilence
  DEF handle_online_list, handle_rooms_list, ignore_unknown, Answer, NotChat
<1> QED
  BY <1>3, <1>4, <1>5, <1>6 DEF execute

LEMMA PlainMessageStays ==
  ASSUME IInv, NEW c \in Fd, handle_plain_message(c)
  PROVE  ChatStaysInRoom'
<1>1. /\ c \in DOMAIN clients
      /\ clients[c].state = STATE_CHAT
      /\ clients' = clients
      /\ queued' = broadcast(clients, Notice("chat", c, clients[c].room_),
                             clients[c].room_)
  BY DEF handle_plain_message, Chatting
<1>2. clients[c].room_ # Blank
  BY <1>1, ChattingRoom, NamesAssumption DEF Chatting
<1> QED
  BY <1>1, <1>2 DEF ChatStaysInRoom, broadcast, Notice

LEMMA ChatStep ==
  ASSUME IInv, ChatStaysInRoom, [Next]_vars
  PROVE  ChatStaysInRoom'
<1>1. ASSUME Only(queued', NotChat)
      PROVE  ChatStaysInRoom'
  <2>1. "chat" \notin NotChat
    BY DEF NotChat, Replies
  <2> QED
    BY <1>1, <2>1 DEF ChatStaysInRoom, Only
<1>2. CASE UNCHANGED vars
  BY <1>2 DEF ChatStaysInRoom, vars
<1>3. ASSUME NEW c \in Fd, process_message(c)
      PROVE  ChatStaysInRoom'
  BY <1>1, <1>3, QuietAnswer, QuietCommand, PlainMessageStays
  DEF process_message
<1> QED
  BY <1>1, <1>2, <1>3, QuietAccept, QuietDisconnect DEF Next

(* A chat line is heard in its sender's room and nowhere else.             *)
THEOREM ChatStaysInItsRoom == Spec => []ChatStaysInRoom
<1>1. Init => ChatStaysInRoom
  BY DEF Init, ChatStaysInRoom, Silence
<1> QED
  BY <1>1, SoundInit, SoundStep, ChatStep, PTL DEF Spec

-----------------------------------------------------------------------------
(* How a client can come to be in another room.                            *)
Entered(d) ==
  LET r == clients'[d].room_
  IN  \/ r = clients[d].room_
      \/ r = Lobby
      \/ rooms[r].password_ = Blank
      \/ clients[d].state \in Prompted /\ clients[d].connected_room_ = r

LEMMA JoinedAlone ==
  ASSUME IInv, NEW c \in DOMAIN clients, NEW r \in Room,
         \/ clients' = JoinClients(clients, c, r)
         \/ clients' = BackToChat(JoinClients(clients, c, r), c),
         NEW d \in DOMAIN clients
  PROVE  clients'[d].room_ = IF d = c THEN r ELSE clients[d].room_
BY DEF JoinClients, BackToChat, IInv, Sound, ClientTable, Client

LEMMA AnswerEnters ==
  ASSUME IInv, NEW c \in Fd, NEW pw, setup_password(c, pw) \/ enter_password(c, pw),
         NEW d \in DOMAIN clients
  PROVE  Entered(d)
<1> DEFINE r == clients[c].connected_room_
<1>1. c \in DOMAIN clients /\ clients[c].state \in Prompted
  BY DEF setup_password, enter_password, Prompted
<1>2. r \in Room
  BY <1>1, PromptedRoom
<1>3. CASE clients' = BackToChat(JoinClients(clients, c, r), c)
  BY <1>1, <1>2, <1>3, JoinedAlone DEF Entered
<1>4. CASE clients' = BackToChat(clients, c)
  BY <1>1, <1>4 DEF BackToChat, Entered, IInv, Sound, ClientTable, Client
<1> QED
  BY <1>3, <1>4 DEF setup_password, enter_password, RejectPassword

LEMMA CommandEnters ==
  ASSUME IInv, NEW c \in Fd, execute(c), NEW d \in DOMAIN clients
  PROVE  Entered(d)
<1>1. CASE UNCHANGED clients
  BY <1>1 DEF Entered
<1>2. ASSUME NEW r \in Room, handle_join_room(c, r)
      PROVE  Entered(d)
  <2>1. c \in DOMAIN clients
    BY <1>2 DEF handle_join_room, Chatting
  <2>2. CASE JoinOpenRoom(c, r)
    BY <2>1, <2>2, JoinedAlone DEF JoinOpenRoom, verification_password, Entered
  <2>3. ASSUME NEW state, NEW prompt, Ask(c, r, state, prompt)
        PROVE  Entered(d)
    BY <2>1, <2>3 DEF Ask, Entered, IInv, Sound, ClientTable, Client
  <2> QED
    BY <1>1, <1>2, <2>2, <2>3
    DEF handle_join_room, AlreadyInRoom, AskToCreate, AskPassword, Answer
<1>3. ASSUME handle_leave_room(c)
      PROVE  Entered(d)
  <2>1. c \in DOMAIN clients
    BY <1>3 DEF handle_leave_room, Chatting
  <2> QED
    BY <1>1, <1>3, <2>1, JoinedAlone, NamesAssumption
    DEF handle_leave_room, Answer, Entered
<1> QED
  BY <1>1, <1>2, <1>3
  DEF execute, handle_plain_message, handle_private_message,
      handle_online_list, handle_rooms_list, ignore_unknown, Answer

LEMMA StepEnters ==
  ASSUME IInv, [Next]_vars, NEW d \in DOMAIN clients, d \in DOMAIN clients'
  PROVE  Entered(d)
<1>1. CASE UNCHANGED clients
  BY <1>1 DEF Entered
<1>2. ASSUME NEW c \in Fd, accept_new_client(c) \/ disconnect_client(c)
      PROVE  Entered(d)
  BY <1>1, <1>2 DEF accept_new_client, disconnect_client, Restrict, Entered
<1>3. ASSUME NEW c \in Fd, NEW nick \in Nick \cup {Blank}, set_nickname(c, nick)
      PROVE  Entered(d)
  <2>1. c \in DOMAIN clients /\ ClientTable(clients)
    BY <1>3 DEF set_nickname, IInv, Sound
  <2>2. clients' = JoinClients(Named(c, nick), c, Lobby)
    BY <1>3 DEF set_nickname
  <2>3. d # c => clients'[d] = clients[d]
    BY <2>1, <2>2 DEF Named, JoinClients
  <2>4. clients'[c].room_ = Lobby
    BY <2>1, <2>2 DEF Named, JoinClients, ClientTable, Client
  <2> QED
    BY <2>3, <2>4 DEF Entered
<1> QED
  BY <1>1, <1>2, <1>3, AnswerEnters, CommandEnters
  DEF Next, process_message, vars

(* No command takes a chatting client into a protected room.               *)
THEOREM ProtectedRoomsEntered == Spec => ProtectedEntry
<1> DEFINE Protected ==
      \A c \in DOMAIN clients \cap DOMAIN clients' :
        LET r == clients'[c].room_
        IN  /\ r # clients[c].room_
            /\ r \in DOMAIN rooms
            /\ rooms[r].password_ # Blank
            => /\ clients[c].state \in Prompted
               /\ clients[c].connected_room_ = r
<1>1. IInv /\ [Next]_vars => [Protected]_vars
  BY StepEnters DEF Entered, IInv, Sound
<1> QED
  BY <1>1, SoundInit, SoundStep, PTL DEF Spec, ProtectedEntry

-----------------------------------------------------------------------------
(* Leaving and joining keep the passwords of the rooms that stay.          *)
LEMMA LeaveKeepsPasswords ==
  ASSUME NEW rs, NEW y \in DOMAIN rs, RoomTable(rs)
  PROVE  /\ DOMAIN RemoveUser(rs, y) \subseteq DOMAIN rs
         /\ DOMAIN rs \ {y} \subseteq DOMAIN RemoveUser(rs, y)
         /\ \A x \in DOMAIN RemoveUser(rs, y) :
              RemoveUser(rs, y)[x].password_ = rs[x].password_
<1>1. /\ DOMAIN Decreased(rs, y) = DOMAIN rs
      /\ \A x \in DOMAIN rs : Decreased(rs, y)[x].password_ = rs[x].password_
  BY DEF Decreased, RoomTable
<1> QED
  BY <1>1 DEF RemoveUser, Restrict

LEMMA JoinKeepsPasswords ==
  ASSUME NEW cs, NEW rs, NEW c \in DOMAIN cs, NEW r \in Room,
         RoomTable(rs), cs[c].room_ # r,
         NEW x \in DOMAIN rs, x \in DOMAIN JoinRooms(cs, rs, c, r)
  PROVE  JoinRooms(cs, rs, c, r)[x].password_ = rs[x].password_
<1> DEFINE rs1 == LeaveRooms(cs, rs, c)
           rs2 == Created(rs1, r)
<1>1. /\ DOMAIN rs1 \subseteq DOMAIN rs
      /\ \A z \in DOMAIN rs1 : rs1[z].password_ = rs[z].password_
      /\ r \in DOMAIN rs => r \in DOMAIN rs1
  BY LeaveKeepsPasswords DEF LeaveRooms, HasRoom
<1>2. JoinRooms(cs, rs, c, r) = [rs2 EXCEPT ![r].user_count_ = @ + 1]
  BY DEF JoinRooms, AddUser
<1>3. x \in DOMAIN rs2
  BY <1>2
<1> HIDE DEF rs1
<1>4. x \in DOMAIN rs1 /\ rs2[x] = rs1[x]
  BY <1>1, <1>3 DEF Created
<1> HIDE DEF rs2
<1>5. [rs2 EXCEPT ![r].user_count_ = @ + 1][x].password_ = rs2[x].password_
  BY <1>3
<1> QED
  BY <1>1, <1>2, <1>4, <1>5

-----------------------------------------------------------------------------
(* What becomes of the creators of a room and of its password.             *)
Spent(r) ==
  /\ Creators(r)' \subseteq Creators(r)
  /\ rooms'[r].password_ # rooms[r].password_ => Creators(r)' # Creators(r)

(* A handler that leaves its own client with no prompt to create a room    *)
(* makes no creator, and none of the others either.                        *)
LEMMA NoNewCreator ==
  ASSUME NEW c, NEW r,
         \A d \in DOMAIN clients' \ {c} : d \in DOMAIN clients /\ clients'[d] = clients[d],
         c \in DOMAIN clients' => clients'[c].state # STATE_SETUP_ROOM_PASSWORD
  PROVE  Creators(r)' \subseteq Creators(r) /\ c \notin Creators(r)'
BY DEF Creators

LEMMA AcceptSpends ==
  ASSUME IInv, NEW c \in Fd, accept_new_client(c), NEW r
  PROVE  Spent(r)
<1>1. NewClient.state # STATE_SETUP_ROOM_PASSWORD
  BY DEF NewClient, STATE_NICKNAME, STATE_SETUP_ROOM_PASSWORD
<1>2. CASE UNCHANGED clients
  BY <1>2 DEF accept_new_client, Spent, Creators
<1>3. CASE ~ UNCHANGED clients
  BY <1>1, <1>3, NoNewCreator DEF accept_new_client, Spent
<1> QED
  BY <1>2, <1>3

LEMMA DisconnectSpends ==
  ASSUME IInv, NEW c \in Fd, disconnect_client(c),
         NEW r \in DOMAIN rooms, r \in DOMAIN rooms'
  PROVE  Spent(r)
<1>1. Creators(r)' \subseteq Creators(r)
  BY NoNewCreator DEF disconnect_client, Restrict
<1>2. rooms'[r].password_ = rooms[r].password_
  BY LeaveKeepsPasswords
  DEF disconnect_client, LeaveRooms, HasRoom, IInv, Sound, Consistent
<1> QED
  BY <1>1, <1>2 DEF Spent

LEMMA NicknameSpends ==
  ASSUME IInv, NEW c \in Fd, NEW nick \in Nick \cup {Blank}, set_nickname(c, nick),
         NEW r \in DOMAIN rooms, r \in DOMAIN rooms'
  PROVE  Spent(r)
<1> DEFINE cs == Named(c, nick)
<1>1. /\ c \in DOMAIN clients /\ ClientTable(clients)
      /\ clients[c].room_ = Blank
  BY DEF set_nickname, IInv, Sound, Settled
<1>2. /\ c \in DOMAIN cs /\ cs[c].room_ # Lobby
      /\ clients'[c].state = STATE_CHAT
      /\ \A d \in DOMAIN clients' \ {c} : d \in DOMAIN clients /\ clients'[d] = clients[d]
  BY <1>1, NamesAssumption DEF set_nickname, Named, JoinClients, ClientTable, Client
<1>3. Creators(r)' \subseteq Creators(r)
  BY <1>2, NoNewCreator DEF STATE_CHAT, STATE_SETUP_ROOM_PASSWORD
<1>4. rooms' = JoinRooms(cs, rooms, c, Lobby)
  BY DEF set_nickname
<1> HIDE DEF cs
<1>5. rooms'[r].password_ = rooms[r].password_
  BY <1>2, <1>4, JoinKeepsPasswords, NamesAssumption DEF IInv, Sound, Consistent
<1> QED
  BY <1>3, <1>5 DEF Spent

(* The client of c is in room x now, and chats.                            *)
LEMMA JoinedChats ==
  ASSUME IInv, NEW c \in DOMAIN clients, NEW x,
         \/ clients' = BackToChat(JoinClients(clients, c, x), c)
         \/ clients' = BackToChat(clients, c)
         \/ clients' = JoinClients(clients, c, x) /\ clients[c].state = STATE_CHAT
  PROVE  /\ clients'[c].state = STATE_CHAT
         /\ \A d \in DOMAIN clients' \ {c} : d \in DOMAIN clients /\ clients'[d] = clients[d]
<1>1. ClientTable(clients)
  BY DEF IInv, Sound
<1> QED
  BY <1>1, ZenonT(60) DEF BackToChat, JoinClients, ClientTable, Client

LEMMA AnswerSpends ==
  ASSUME IInv, NEW c \in Fd, NEW pw \in Password \cup {Blank},
         setup_password(c, pw) \/ enter_password(c, pw),
         NEW r \in DOMAIN rooms, r \in DOMAIN rooms'
  PROVE  Spent(r)
<1> DEFINE x == clients[c].connected_room_
           rs == JoinRooms(clients, rooms, c, x)
<1>1. c \in DOMAIN clients /\ clients[c].state \in Prompted
  BY DEF setup_password, enter_password, Prompted
<1>2. x \in Room /\ clients[c].room_ # x
  BY <1>1, PromptedRoom
<1>3. Creators(r)' \subseteq Creators(r) /\ c \notin Creators(r)'
  BY <1>1, JoinedChats, NoNewCreator
  DEF setup_password, enter_password, RejectPassword, STATE_CHAT,
      STATE_SETUP_ROOM_PASSWORD
<1>4. r \in DOMAIN rs => rs[r].password_ = rooms[r].password_
  BY <1>1, <1>2, JoinKeepsPasswords DEF IInv, Sound, Consistent
<1> HIDE DEF rs
<1>5. ASSUME enter_password(c, pw)
      PROVE  Spent(r)
  BY <1>3, <1>4, <1>5 DEF enter_password, RejectPassword, Spent, rs
<1>6. ASSUME setup_password(c, pw)
      PROVE  Spent(r)
  <2>1. rooms' = [rs EXCEPT ![x].password_ = pw]
    BY <1>6 DEF setup_password, rs
  <2>2. CASE r = x
    <3>1. c \in Creators(r)
      BY <1>6, <2>2 DEF setup_password, Creators
    <3> QED
      BY <1>3, <3>1 DEF Spent
  <2>3. CASE r # x
    BY <1>3, <1>4, <2>1, <2>3 DEF Spent
  <2> QED
    BY <2>2, <2>3
<1> QED
  BY <1>5, <1>6

LEMMA CommandSpends ==
  ASSUME IInv, NEW c \in Fd, execute(c), NEW r \in DOMAIN rooms, r \in DOMAIN rooms'
  PROVE  Spent(r)
<1>1. CASE UNCHANGED <<clients, rooms>>
  BY <1>1 DEF Spent, Creators
<1>2. ASSUME NEW x \in Room, c \in DOMAIN clients, clients[c].state = STATE_CHAT,
             clients[c].room_ # x, clients' = JoinClients(clients, c, x),
             rooms' = JoinRooms(clients, rooms, c, x)
      PROVE  Spent(r)
  <2>1. Creators(r)' \subseteq Creators(r)
    BY <1>2, JoinedChats, NoNewCreator DEF STATE_CHAT, STATE_SETUP_ROOM_PASSWORD
  <2>2. rooms'[r].password_ = rooms[r].password_
    BY <1>2, JoinKeepsPasswords DEF IInv, Sound, Consistent
  <2> QED
    BY <2>1, <2>2 DEF Spent
<1>3. ASSUME NEW x \in Room, handle_join_room(c, x)
      PROVE  Spent(r)
  <2>1. c \in DOMAIN clients /\ clients[c].state = STATE_CHAT
    BY <1>3 DEF handle_join_room, Chatting
  <2>2. CASE AskToCreate(c, x)
    <3>1. /\ DOMAIN clients' = DOMAIN clients
          /\ clients'[c].connected_room_ = x /\ x # r
          /\ \A d \in DOMAIN clients' \ {c} : clients'[d] = clients[d]
      BY <2>1, <2>2 DEF AskToCreate, Ask, IInv, Sound, ClientTable, Client
    <3>2. Creators(r)' \subseteq Creators(r)
      BY <3>1 DEF Creators
    <3> QED
      BY <2>2, <3>2 DEF AskToCreate, Ask, Spent
  <2>3. CASE JoinOpenRoom(c, x)
    BY <1>2, <2>1, <2>3 DEF JoinOpenRoom
  <2>4. CASE AskPassword(c, x)
    <3>1. /\ DOMAIN clients' = DOMAIN clients
          /\ clients'[c].state = STATE_ENTER_ROOM_PASSWORD
          /\ \A d \in DOMAIN clients' \ {c} : clients'[d] = clients[d]
      BY <2>1, <2>4 DEF AskPassword, Ask, IInv, Sound, ClientTable, Client
    <3>2. Creators(r)' \subseteq Creators(r)
      BY <3>1, NoNewCreator
      DEF STATE_ENTER_ROOM_PASSWORD, STATE_SETUP_ROOM_PASSWORD
    <3> QED
      BY <2>4, <3>2 DEF AskPassword, Ask, Spent
  <2> QED
    BY <1>1, <1>3, <2>2, <2>3, <2>4 DEF handle_join_room, AlreadyInRoom, Answer
<1>4. ASSUME handle_leave_room(c)
      PROVE  Spent(r)
  BY <1>1, <1>2, <1>4, NamesAssumption DEF handle_leave_room, Chatting, Answer
<1> QED
  BY <1>1, <1>3, <1>4
  DEF execute, handle_plain_message, handle_private_message,
      handle_online_list, handle_rooms_list, ignore_unknown, Answer

LEMMA StepSpends ==
  ASSUME IInv, Next, NEW r \in DOMAIN rooms, r \in DOMAIN rooms'
  PROVE  Spent(r)
BY AcceptSpends, DisconnectSpends, NicknameSpends, AnswerSpends, CommandSpends
DEF Next, process_message

(* While a room exists it gets no new creators, and each overwrite of its  *)
(* password uses one of them up.                                           *)
THEOREM OverwritesRunOut == Spec => PasswordOverwritesRunOut
<1> DEFINE RunOut ==
      \A r \in DOMAIN rooms \cap DOMAIN rooms' :
        /\ Creators(r)' \subseteq Creators(r)
        /\ rooms'[r].password_ # rooms[r].password_ =>
             Creators(r)' # Creators(r)
<1>1. IInv /\ [Next]_vars => [RunOut]_vars
  BY StepSpends DEF Spent
<1> QED
  BY <1>1, SoundInit, SoundStep, PTL DEF Spec, PasswordOverwritesRunOut
=============================================================================
