-------------------------- MODULE ChatServerProofs --------------------------
(***************************************************************************)
(* Theorems about ChatServer, for every finite set of descriptors and all  *)
(* sets of nicknames, rooms and passwords.                                 *)
(***************************************************************************)
EXTENDS ChatServer, FiniteSetTheorems, TLAPS

-----------------------------------------------------------------------------
(* Types.  Clients(cs) and RoomsOf(rs) are what TypeOK says of a table, as *)
(* predicates of a value, so that they apply to the tables inside a        *)
(* handler too.                                                            *)
ClientTable(cs) ==
  /\ DOMAIN cs \subseteq Fd
  /\ cs \in [DOMAIN cs -> Client]

RoomTable(rs) ==
  /\ DOMAIN rs \subseteq Room
  /\ rs \in [DOMAIN rs -> [password_ : Password \cup {Blank},
                           user_count_ : Int]]

Queue == [Fd -> Seq(Message)]

LEMMA SilenceType == Silence \in Queue
BY DEF Silence, Queue

LEMMA TellType ==
  ASSUME NEW c, NEW m \in Message
  PROVE  Tell(c, m) \in Queue
BY DEF Tell, Queue

LEMMA ThenType ==
  ASSUME NEW q1 \in Queue, NEW q2 \in Queue
  PROVE  Then(q1, q2) \in Queue
BY DEF Then, Queue

LEMMA BroadcastType ==
  ASSUME NEW cs, NEW m \in Message, NEW r
  PROVE  broadcast(cs, m, r) \in Queue
BY DEF broadcast, Queue

LEMMA ReplyType ==
  ASSUME NEW k \in Replies
  PROVE  Reply(k) \in Message
BY DEF Reply, Message

LEMMA NoticeType ==
  ASSUME NEW k \in {"joined", "left", "chat"}, NEW c \in Fd, NEW r \in Room
  PROVE  Notice(k, c, r) \in Message
BY DEF Notice, Message

-----------------------------------------------------------------------------
(* The reference counts.  w says of every descriptor in which room its     *)
(* client is (Blank: in none, or no client), rs is the room table, and     *)
(* Consistent is what CountAccurate, RoomsInhabited and LobbyOpen say of   *)
(* the two.  It is kept by one step out of a room and by one step into a   *)
(* room, and so by every join, move and disconnection.                     *)
At(w, r) == {f \in Fd : w[f] = r}

Consistent(w, rs) ==
  /\ w \in [Fd -> Room \cup {Blank}]
  /\ RoomTable(rs)
  /\ Lobby \in DOMAIN rs
  /\ \A r \in DOMAIN rs : rs[r].user_count_ = Cardinality(At(w, r))
  /\ \A r \in Room \ {Lobby} : r \in DOMAIN rs <=> At(w, r) # {}

LEMMA AtFinite ==
  ASSUME NEW w, NEW r
  PROVE  IsFiniteSet(At(w, r)) /\ Cardinality(At(w, r)) \in Nat
<1>1. At(w, r) \in SUBSET Fd
  BY DEF At
<1> QED
  BY <1>1, NamesAssumption, FS_Subset, FS_CardinalityType

(* Where everybody is after c went out of its room.                        *)
LEMMA AtLeft ==
  ASSUME NEW w \in [Fd -> Room \cup {Blank}], NEW c \in Fd
  PROVE  \A x \in Room :
           At([w EXCEPT ![c] = Blank], x) =
             IF x = w[c] THEN At(w, x) \ {c} ELSE At(w, x)
BY NamesAssumption DEF At

(* A room table with one field of one room assigned.                       *)
LEMMA CountedUp ==
  ASSUME NEW rs, NEW r \in DOMAIN rs, RoomTable(rs)
  PROVE  LET rs1 == [rs EXCEPT ![r].user_count_ = @ + 1]
         IN  /\ DOMAIN rs1 = DOMAIN rs
             /\ rs1[r].user_count_ = rs[r].user_count_ + 1
             /\ \A x \in DOMAIN rs : x # r => rs1[x] = rs[x]
             /\ RoomTable(rs1)
BY DEF RoomTable

LEMMA PasswordAssigned ==
  ASSUME NEW rs, NEW r \in DOMAIN rs, RoomTable(rs),
         NEW pw \in Password \cup {Blank}
  PROVE  LET rs1 == [rs EXCEPT ![r].password_ = pw]
         IN  /\ DOMAIN rs1 = DOMAIN rs
             /\ \A x \in DOMAIN rs : rs1[x].user_count_ = rs[x].user_count_
             /\ \A x \in DOMAIN rs : x # r => rs1[x] = rs[x]
             /\ RoomTable(rs1)
BY DEF RoomTable

(* The last client out erases the room, unless it is the lobby.            *)
LEMMA LeaveConsistent ==
  ASSUME NEW w, NEW rs, NEW c \in Fd, Consistent(w, rs), w[c] \in DOMAIN rs
  PROVE  Consistent([w EXCEPT ![c] = Blank], RemoveUser(rs, w[c]))
<1> DEFINE old == w[c]
           w2 == [w EXCEPT ![c] = Blank]
           rs1 == Decreased(rs, old)
           rs2 == RemoveUser(rs, old)
<1>1. /\ w \in [Fd -> Room \cup {Blank}]
      /\ RoomTable(rs)
      /\ Lobby \in DOMAIN rs
      /\ \A r \in DOMAIN rs : rs[r].user_count_ = Cardinality(At(w, r))
      /\ \A r \in Room \ {Lobby} : r \in DOMAIN rs <=> At(w, r) # {}
  BY DEF Consistent
<1>2. old \in Room /\ old # Blank
  BY <1>1, NamesAssumption DEF RoomTable
<1>3. \A r \in Room : At(w2, r) = IF r = old THEN At(w, r) \ {c} ELSE At(w, r)
  BY <1>1, <1>2, AtLeft
<1>4. /\ Cardinality(At(w2, old)) = Cardinality(At(w, old)) - 1
      /\ At(w2, old) = {} <=> Cardinality(At(w2, old)) = 0
  <2>1. c \in At(w, old)
    BY DEF At
  <2>2. Cardinality(At(w, old) \ {c}) = Cardinality(At(w, old)) - 1
    BY <2>1, AtFinite, FS_RemoveElement
  <2>3. At(w2, old) = {} <=> Cardinality(At(w2, old)) = 0
    BY AtFinite, FS_EmptySet
  <2> QED
    BY <1>2, <1>3, <2>2, <2>3
<1>5. /\ DOMAIN rs1 = DOMAIN rs
      /\ rs1[old].user_count_ = Cardinality(At(w2, old))
      /\ \A r \in DOMAIN rs : r # old => rs1[r] = rs[r]
      /\ RoomTable(rs1)
  BY <1>1, <1>4, AtFinite DEF Decreased, RoomTable
<1>6. CASE rs1[old].user_count_ = 0 /\ old # Lobby
  <2>1. DOMAIN rs2 = DOMAIN rs \ {old} /\ \A r \in DOMAIN rs2 : rs2[r] = rs[r]
    BY <1>5, <1>6 DEF RemoveUser, Restrict
  <2>2. RoomTable(rs2)
    BY <1>1, <1>5, <1>6, <2>1 DEF RoomTable, RemoveUser, Restrict
  <2>3. \A r \in DOMAIN rs2 : rs2[r].user_count_ = Cardinality(At(w2, r))
    BY <1>1, <1>3, <2>1 DEF RoomTable
  <2>4. \A r \in Room \ {Lobby} : r \in DOMAIN rs2 <=> At(w2, r) # {}
    BY <1>1, <1>3, <1>4, <1>5, <1>6, <2>1
  <2> QED
    BY <1>1, <1>6, <2>1, <2>2, <2>3, <2>4 DEF Consistent
<1>7. CASE ~(rs1[old].user_count_ = 0 /\ old # Lobby)
  <2>1. rs2 = rs1
    BY <1>7 DEF RemoveUser
  <2>2. \A r \in DOMAIN rs2 : rs2[r].user_count_ = Cardinality(At(w2, r))
    BY <1>1, <1>3, <1>5, <2>1 DEF RoomTable
  <2>3. \A r \in Room \ {Lobby} : r \in DOMAIN rs2 <=> At(w2, r) # {}
    BY <1>1, <1>3, <1>4, <1>5, <1>7, <2>1
  <2> QED
    BY <1>1, <1>5, <2>1, <2>2, <2>3 DEF Consistent
<1> QED
  BY <1>6, <1>7

(* A room nobody is in is created with a count of zero, then counted up.   *)
LEMMA EnterConsistent ==
  ASSUME NEW w, NEW rs, NEW c \in Fd, NEW r \in Room,
         Consistent(w, rs), w[c] = Blank
  PROVE  Consistent([w EXCEPT ![c] = r], AddUser(rs, r))
<1> DEFINE w2 == [w EXCEPT ![c] = r]
           rs1 == Created(rs, r)
           rs2 == AddUser(rs, r)
<1>1. /\ w \in [Fd -> Room \cup {Blank}]
      /\ RoomTable(rs)
      /\ Lobby \in DOMAIN rs
      /\ \A x \in DOMAIN rs : rs[x].user_count_ = Cardinality(At(w, x))
      /\ \A x \in Room \ {Lobby} : x \in DOMAIN rs <=> At(w, x) # {}
  BY DEF Consistent
<1>2. \A x \in Room : At(w2, x) = IF x = r THEN At(w, x) \cup {c} ELSE At(w, x)
  <2>1. w \in [Fd -> Room \cup {Blank}]
    BY <1>1
  <2>2. \A f \in Fd : w2[f] = IF f = c THEN r ELSE w[f]
    BY <2>1
  <2> HIDE DEF w2
  <2> QED
    BY <2>2, NamesAssumption DEF At
<1>3. /\ Cardinality(At(w2, r)) = Cardinality(At(w, r)) + 1
      /\ At(w2, r) # {}
  <2>1. c \notin At(w, r)
    BY NamesAssumption DEF At
  <2>2. At(w2, r) = At(w, r) \cup {c}
    BY <1>2
  <2>3. IsFiniteSet(At(w, r))
    BY AtFinite
  <2> HIDE DEF w2
  <2>4. Cardinality(At(w, r) \cup {c}) = Cardinality(At(w, r)) + 1
    BY <2>1, <2>3, FS_AddElement
  <2> QED
    BY <2>2, <2>4
<1>4. /\ DOMAIN rs1 = DOMAIN rs \cup {r}
      /\ rs1[r].user_count_ = Cardinality(At(w, r))
      /\ \A x \in DOMAIN rs : rs1[x] = rs[x]
      /\ RoomTable(rs1)
  <2>1. CASE r \in DOMAIN rs
    BY <1>1, <2>1 DEF Created
  <2>2. CASE r \notin DOMAIN rs
    <3>1. At(w, r) = {}
      BY <1>1, <2>2
    <3> QED
      BY <1>1, <2>2, <3>1, FS_EmptySet DEF Created, NewRoom, RoomTable
  <2> QED
    BY <2>1, <2>2
<1>5. /\ DOMAIN rs2 = DOMAIN rs1
      /\ rs2[r].user_count_ = Cardinality(At(w2, r))
      /\ \A x \in DOMAIN rs : x # r => rs2[x] = rs[x]
      /\ RoomTable(rs2)
  <2>1. PICK created : created = rs1
    OBVIOUS
  <2>2. PICK counted : counted = [created EXCEPT ![r].user_count_ = @ + 1]
    OBVIOUS
  <2>3. rs2 = counted
    BY <2>1, <2>2 DEF AddUser
  <2>4. r \in DOMAIN created /\ RoomTable(created)
    BY <1>4, <2>1
  <2>5. /\ DOMAIN counted = DOMAIN created
        /\ counted[r].user_count_ = created[r].user_count_ + 1
        /\ \A x \in DOMAIN created : x # r => counted[x] = created[x]
        /\ RoomTable(counted)
    BY <2>2, <2>4, CountedUp
  <2> HIDE DEF rs1, rs2, w2
  <2>6. counted[r].user_count_ = Cardinality(At(w2, r))
    BY <1>3, <1>4, <2>1, <2>5
  <2>7. \A x \in DOMAIN rs : x # r => counted[x] = rs[x]
    BY <1>4, <2>1, <2>5
  <2> QED
    BY <2>1, <2>3, <2>5, <2>6, <2>7
<1>6. \A x \in DOMAIN rs2 : rs2[x].user_count_ = Cardinality(At(w2, x))
  <2> SUFFICES ASSUME NEW x \in DOMAIN rs2
               PROVE  rs2[x].user_count_ = Cardinality(At(w2, x))
    OBVIOUS
  <2> HIDE DEF w2, rs1, rs2
  <2>1. CASE x = r
    BY <1>5, <2>1
  <2>2. CASE x # r
    <3>1. x \in DOMAIN rs /\ x \in Room /\ rs2[x] = rs[x]
      BY <1>1, <1>4, <1>5, <2>2 DEF RoomTable
    <3> QED
      BY <1>1, <1>2, <2>2, <3>1
  <2> QED
    BY <2>1, <2>2
<1>7. \A x \in Room \ {Lobby} : x \in DOMAIN rs2 <=> At(w2, x) # {}
  BY <1>1, <1>2, <1>3, <1>4, <1>5
<1> QED
  BY <1>1, <1>4, <1>5, <1>6, <1>7 DEF Consistent

-----------------------------------------------------------------------------
(* The helpers of the handlers.  Place(cs) is where of a client table.     *)
Place(cs) == [f \in Fd |-> IF f \in DOMAIN cs THEN cs[f].room_ ELSE Blank]

LEMMA PlaceType ==
  ASSUME NEW cs, ClientTable(cs)
  PROVE  Place(cs) \in [Fd -> Room \cup {Blank}]
BY DEF Place, ClientTable, Client

(* A client that is in a room is in one that exists.                       *)
LEMMA RoomExists ==
  ASSUME NEW w, NEW rs, Consistent(w, rs), NEW c \in Fd, w[c] # Blank
  PROVE  w[c] \in DOMAIN rs
<1>1. w[c] \in Room /\ c \in At(w, w[c])
  BY DEF Consistent, At
<1> QED
  BY <1>1 DEF Consistent

(* leave_room and the first half of join_room: the tables are consistent   *)
(* without the client, and the lobby keeps its password.                   *)
LEMMA LeaveRoomsConsistent ==
  ASSUME NEW cs, NEW rs, NEW c \in DOMAIN cs,
         ClientTable(cs), Consistent(Place(cs), rs)
  PROVE  /\ Consistent([Place(cs) EXCEPT ![c] = Blank], LeaveRooms(cs, rs, c))
         /\ LeaveRooms(cs, rs, c)[Lobby].password_ = rs[Lobby].password_
<1> DEFINE w == Place(cs)
<1>1. c \in Fd /\ w[c] = cs[c].room_
  BY DEF Place, ClientTable
<1>2. CASE w[c] = Blank
  <2>1. [w EXCEPT ![c] = Blank] = w
    BY <1>1, <1>2, PlaceType
  <2>2. LeaveRooms(cs, rs, c) = rs
    BY <1>1, <1>2 DEF LeaveRooms, HasRoom
  <2> QED
    BY <2>1, <2>2
<1>3. CASE w[c] # Blank
  <2>1. w[c] \in DOMAIN rs
    BY <1>1, <1>3, RoomExists
  <2>2. LeaveRooms(cs, rs, c) = RemoveUser(rs, w[c])
    BY <1>1, <1>3, <2>1 DEF LeaveRooms, HasRoom
  <2>3. RemoveUser(rs, w[c])[Lobby].password_ = rs[Lobby].password_
    <3>1. Lobby \in DOMAIN rs /\ RoomTable(rs)
      BY DEF Consistent
    <3> QED
      BY <2>1, <3>1 DEF RemoveUser, Decreased, Restrict, RoomTable
  <2> QED
    BY <1>1, <2>1, <2>2, <2>3, LeaveConsistent
<1> QED
  BY <1>2, <1>3

(* join_room as a whole.                                                   *)
LEMMA JoinConsistent ==
  ASSUME NEW cs, NEW rs, NEW c \in DOMAIN cs, NEW r \in Room,
         ClientTable(cs), Consistent(Place(cs), rs)
  PROVE  /\ Consistent(Place(JoinClients(cs, c, r)), JoinRooms(cs, rs, c, r))
         /\ JoinRooms(cs, rs, c, r)[Lobby].password_ = rs[Lobby].password_
         /\ r \in DOMAIN JoinRooms(cs, rs, c, r)
<1> DEFINE w == Place(cs)
           w1 == [w EXCEPT ![c] = Blank]
           rs1 == LeaveRooms(cs, rs, c)
<1>1. c \in Fd /\ w \in [Fd -> Room \cup {Blank}]
  BY PlaceType DEF ClientTable
<1>2. /\ Consistent(w1, rs1)
      /\ rs1[Lobby].password_ = rs[Lobby].password_
  BY LeaveRoomsConsistent
<1>3. w1[c] = Blank
  BY <1>1
<1>4. Consistent([w1 EXCEPT ![c] = r], AddUser(rs1, r))
  BY <1>1, <1>2, <1>3, EnterConsistent
<1>5. [w1 EXCEPT ![c] = r] = Place(JoinClients(cs, c, r))
  BY <1>1 DEF Place, JoinClients, ClientTable, Client
<1>6. /\ AddUser(rs1, r)[Lobby].password_ = rs1[Lobby].password_
      /\ r \in DOMAIN AddUser(rs1, r)
  <2>1. Lobby \in DOMAIN rs1 /\ RoomTable(rs1)
    BY <1>2 DEF Consistent
  <2> QED
    BY <2>1 DEF AddUser, Created, RoomTable
<1> QED
  BY <1>2, <1>4, <1>5, <1>6 DEF JoinRooms

LEMMA JoinClientsType ==
  ASSUME NEW cs, NEW c \in DOMAIN cs, NEW r \in Room, ClientTable(cs)
  PROVE  /\ ClientTable(JoinClients(cs, c, r))
         /\ DOMAIN JoinClients(cs, c, r) = DOMAIN cs
         /\ JoinClients(cs, c, r)[c].room_ = r
         /\ JoinClients(cs, c, r)[c].state = cs[c].state
         /\ \A d \in DOMAIN cs : d # c => JoinClients(cs, c, r)[d] = cs[d]
BY DEF JoinClients, ClientTable, Client

LEMMA NoticesType ==
  ASSUME NEW cs, NEW rs, NEW c \in DOMAIN cs, NEW r \in Room, ClientTable(cs)
  PROVE  /\ LeaveNotices(cs, rs, c) \in Queue
         /\ JoinNotices(cs, rs, c, r) \in Queue
<1>1. c \in Fd
  BY DEF ClientTable
<1>2. LeaveNotices(cs, rs, c) \in Queue
  <2>1. CASE HasRoom(cs, rs, c)
    <3>1. cs[c].room_ \in Room
      BY <2>1 DEF HasRoom, ClientTable, Client
    <3>2. Notice("left", c, cs[c].room_) \in Message
      BY <1>1, <3>1, NoticeType
    <3> QED
      BY <2>1, <3>2, BroadcastType DEF LeaveNotices
  <2>2. CASE ~HasRoom(cs, rs, c)
    BY <2>2, SilenceType DEF LeaveNotices
  <2> QED
    BY <2>1, <2>2
<1>3. JoinNotices(cs, rs, c, r) \in Queue
  BY <1>1, <1>2, NoticeType, BroadcastType, ThenType DEF JoinNotices
<1> QED
  BY <1>2, <1>3

(* setPassword leaves the counts alone.                                    *)
LEMMA PasswordConsistent ==
  ASSUME NEW w, NEW rs, NEW r \in DOMAIN rs, NEW pw \in Password \cup {Blank},
         Consistent(w, rs)
  PROVE  Consistent(w, [rs EXCEPT ![r].password_ = pw])
<1>1. RoomTable(rs)
  BY DEF Consistent
<1> QED
  BY <1>1, PasswordAssigned DEF Consistent

-----------------------------------------------------------------------------
(* The inductive invariant.  Settled is what InRoomOnceNamed,              *)
(* PromptNamesAnotherRoom and LobbyOpen say of one client: that a prompt   *)
(* names a room which is neither the lobby nor the client's own is what    *)
(* keeps the answer from protecting the lobby or erasing the room it       *)
(* enters.                                                                 *)
Settled(cl) ==
  /\ cl.room_ = Blank <=> cl.state = STATE_NICKNAME
  /\ cl.state \in Prompted =>
       cl.connected_room_ \notin {Blank, cl.room_, Lobby}

Sound(cs, rs, q) ==
  /\ ClientTable(cs)
  /\ q \in Queue
  /\ \A c \in DOMAIN cs : Settled(cs[c])
  /\ Consistent(Place(cs), rs)
  /\ rs[Lobby].password_ = Blank

IInv == Sound(clients, rooms, queued)

LEMMA SoundInit == Init => IInv
<1> SUFFICES ASSUME Init
             PROVE  IInv
  OBVIOUS
<1>1. clients = <<>> /\ DOMAIN clients = {}
  BY DEF Init
<1>2. \A r \in Room : At(Place(clients), r) = {}
  BY <1>1, NamesAssumption DEF At, Place
<1>3. DOMAIN rooms = {Lobby} /\ rooms[Lobby] = NewRoom
  BY DEF Init
<1>4. Consistent(Place(clients), rooms)
  <2>1. ClientTable(clients)
    BY <1>1 DEF ClientTable
  <2>2. RoomTable(rooms)
    BY <1>3, NamesAssumption DEF Init, RoomTable, NewRoom
  <2> QED
    BY <1>2, <1>3, <2>1, <2>2, PlaceType, FS_EmptySet, NamesAssumption
    DEF Consistent, NewRoom
<1> QED
  BY <1>1, <1>3, <1>4, SilenceType DEF Init, IInv, Sound, ClientTable, NewRoom

(* A handler that leaves room_ of every client and the rooms alone.        *)
LEMMA SoundQuiet ==
  ASSUME NEW cs, NEW rs, NEW q, Sound(cs, rs, q),
         NEW cs2, NEW q2 \in Queue,
         ClientTable(cs2), Place(cs2) = Place(cs),
         \A c \in DOMAIN cs2 : Settled(cs2[c])
  PROVE  Sound(cs2, rs, q2)
BY DEF Sound

(* A handler that ends with its client chatting in the room it joined.     *)
LEMMA SoundJoin ==
  ASSUME NEW cs, NEW rs, NEW c \in DOMAIN cs, NEW r \in Room, NEW q \in Queue,
         ClientTable(cs), Consistent(Place(cs), rs),
         rs[Lobby].password_ = Blank,
         \A d \in DOMAIN cs \ {c} : Settled(cs[d])
  PROVE  LET cs1 == JoinClients(cs, c, r)
             rs1 == JoinRooms(cs, rs, c, r)
         IN  /\ cs[c].state = STATE_CHAT => Sound(cs1, rs1, q)
             /\ Sound(BackToChat(cs1, c), rs1, q)
<1> DEFINE cs1 == JoinClients(cs, c, r)
           rs1 == JoinRooms(cs, rs, c, r)
           cs2 == BackToChat(cs1, c)
<1>1. /\ Consistent(Place(cs1), rs1)
      /\ rs1[Lobby].password_ = Blank
  BY JoinConsistent
<1>2. /\ ClientTable(cs1)
      /\ DOMAIN cs1 = DOMAIN cs
      /\ cs1[c].room_ = r
      /\ cs1[c].state = cs[c].state
      /\ \A d \in DOMAIN cs : d # c => cs1[d] = cs[d]
  <2> HIDE DEF cs1
  <2> QED
    BY JoinClientsType DEF cs1
<1>3. /\ ClientTable(cs2)
      /\ DOMAIN cs2 = DOMAIN cs
      /\ cs2[c].room_ = r
      /\ cs2[c].state = STATE_CHAT
      /\ \A d \in DOMAIN cs : d # c => cs2[d] = cs[d]
      /\ Place(cs2) = Place(cs1)
  <2> HIDE DEF cs1
  <2> QED
    BY <1>2 DEF BackToChat, ClientTable, Client, ClientState, Place
<1>4. ASSUME cs[c].state = STATE_CHAT
      PROVE  \A d \in DOMAIN cs1 : Settled(cs1[d])
  <2>1. Settled(cs1[c])
    BY <1>2, <1>4, NamesAssumption
    DEF Settled, Prompted, STATE_CHAT, STATE_NICKNAME,
        STATE_SETUP_ROOM_PASSWORD, STATE_ENTER_ROOM_PASSWORD
  <2> QED
    BY <1>2, <2>1
<1>5. \A d \in DOMAIN cs2 : Settled(cs2[d])
  <2>1. Settled(cs2[c])
    BY <1>3, NamesAssumption
    DEF Settled, Prompted, STATE_CHAT, STATE_NICKNAME,
        STATE_SETUP_ROOM_PASSWORD, STATE_ENTER_ROOM_PASSWORD
  <2> QED
    BY <1>3, <2>1
<1> QED
  BY <1>1, <1>2, <1>3, <1>4, <1>5 DEF Sound

LEMMA SoundPassword ==
  ASSUME NEW cs, NEW rs, NEW q, NEW r \in DOMAIN rs \ {Lobby},
         NEW pw \in Password \cup {Blank}, Sound(cs, rs, q)
  PROVE  Sound(cs, [rs EXCEPT ![r].password_ = pw], q)
<1>1. Consistent(Place(cs), rs) /\ Lobby \in DOMAIN rs /\ RoomTable(rs)
  BY DEF Sound, Consistent
<1> QED
  BY <1>1, PasswordConsistent, PasswordAssigned DEF Sound

(* A handler of the client c that changes its state and the room of its    *)
(* prompt, and nothing else of the tables.                                 *)
LEMMA SoundPrompt ==
  ASSUME NEW cs, NEW rs, NEW q, NEW c \in DOMAIN cs, Sound(cs, rs, q),
         NEW q2 \in Queue, NEW cs2, DOMAIN cs2 = DOMAIN cs,
         cs2[c] \in Client, cs2[c].room_ = cs[c].room_, Settled(cs2[c]),
         \A d \in DOMAIN cs \ {c} : cs2[d] = cs[d],
         cs2 = [d \in DOMAIN cs2 |-> cs2[d]]
  PROVE  Sound(cs2, rs, q2)
<1>1. ClientTable(cs2)
  BY DEF Sound, ClientTable
<1>2. Place(cs2) = Place(cs)
  BY DEF Place
<1>3. \A d \in DOMAIN cs2 : Settled(cs2[d])
  BY DEF Sound
<1> QED
  BY <1>1, <1>2, <1>3, SoundQuiet

-----------------------------------------------------------------------------
(* Every handler keeps the invariant.                                      *)
LEMMA SoundAccept ==
  ASSUME IInv, NEW c \in Fd, accept_new_client(c)
  PROVE  IInv'
<1>1. CASE UNCHANGED clients /\ queued' = Silence
  BY <1>1, SilenceType, SoundQuiet DEF IInv, Sound, accept_new_client
<1>2. CASE /\ clients' = [f \in DOMAIN clients \cup {c} |->
                            IF f = c THEN NewClient ELSE clients[f]]
           /\ queued' = Tell(c, Reply("enter nickname"))
  <2>1. NewClient \in Client /\ Settled(NewClient)
    BY DEF NewClient, Client, ClientState, Settled, Prompted, STATE_NICKNAME,
           STATE_SETUP_ROOM_PASSWORD, STATE_ENTER_ROOM_PASSWORD
  <2>2. queued' \in Queue
    BY <1>2, TellType, ReplyType DEF Replies
  <2>3. ClientTable(clients')
    BY <1>2, <2>1 DEF IInv, Sound, ClientTable
  <2>4. Place(clients') = Place(clients)
    <3>1. /\ DOMAIN clients' = DOMAIN clients \cup {c}
          /\ \A f \in DOMAIN clients : clients'[f] = clients[f]
          /\ clients'[c].room_ = Blank
      <4>1. NewClient.room_ = Blank /\ c \notin DOMAIN clients
        BY DEF NewClient, accept_new_client
      <4> QED
        BY <1>2, <4>1
    <3> QED
      BY <3>1 DEF Place, accept_new_client
  <2>5. \A d \in DOMAIN clients' : Settled(clients'[d])
    BY <1>2, <2>1 DEF IInv, Sound
  <2>6. rooms' = rooms
    BY DEF accept_new_client
  <2> QED
    BY <2>2, <2>3, <2>4, <2>5, <2>6, SoundQuiet DEF IInv
<1> QED
  BY <1>1, <1>2 DEF accept_new_client

LEMMA SoundDisconnect ==
  ASSUME IInv, NEW c \in Fd, disconnect_client(c)
  PROVE  IInv'
<1>1. /\ c \in DOMAIN clients
      /\ ClientTable(clients)
      /\ Consistent(Place(clients), rooms)
  BY DEF IInv, Sound, disconnect_client
<1>2. /\ DOMAIN clients' = DOMAIN clients \ {c}
      /\ \A d \in DOMAIN clients' : clients'[d] = clients[d]
      /\ ClientTable(clients')
  BY <1>1 DEF disconnect_client, Restrict, ClientTable
<1>3. Place(clients') = [Place(clients) EXCEPT ![c] = Blank]
  BY <1>2 DEF Place
<1>4. /\ Consistent(Place(clients'), rooms')
      /\ rooms'[Lobby].password_ = Blank
  <2>1. rooms[Lobby].password_ = Blank
    BY DEF IInv, Sound
  <2>2. rooms' = LeaveRooms(clients, rooms, c)
    BY DEF disconnect_client
  <2>3. /\ Consistent([Place(clients) EXCEPT ![c] = Blank],
                      LeaveRooms(clients, rooms, c))
        /\ LeaveRooms(clients, rooms, c)[Lobby].password_ =
             rooms[Lobby].password_
    BY <1>1, LeaveRoomsConsistent
  <2> QED
    BY <1>3, <2>1, <2>2, <2>3, Zenon
<1>5. queued' \in Queue
  <2>1. send_disconnect_notification(c) \in Queue
    <3> DEFINE m == [kind |-> "left server", who |-> c]
    <3>1. m \in Message
      BY DEF Message
    <3> HIDE DEF m
    <3>2. [f \in Fd |-> IF /\ f \in DOMAIN clients
                          /\ clients[f].state = STATE_CHAT
                          /\ clients[c].nickname # Blank
                       THEN <<m>> ELSE <<>>] \in Queue
      BY <3>1 DEF Queue
    <3> QED
      BY <3>2 DEF send_disconnect_notification, m
  <2>2. LeaveNotices(clients, rooms, c) \in Queue
    BY <1>1, NoticesType, NamesAssumption
  <2>3. Then(LeaveNotices(clients, rooms, c),
             send_disconnect_notification(c)) \in Queue
    BY <2>1, <2>2, ThenType
  <2> QED
    BY <2>3 DEF disconnect_client, Queue
<1> QED
  BY <1>2, <1>4, <1>5 DEF IInv, Sound

LEMMA NamedType ==
  ASSUME NEW c \in DOMAIN clients, NEW nick \in Nick \cup {Blank},
         ClientTable(clients)
  PROVE  LET cs == Named(c, nick)
         IN  /\ DOMAIN cs = DOMAIN clients
             /\ ClientTable(cs)
             /\ Place(cs) = Place(clients)
             /\ cs[c].state = STATE_CHAT
             /\ \A d \in DOMAIN cs \ {c} : cs[d] = clients[d]
<1> DEFINE cs == Named(c, nick)
<1>1. /\ DOMAIN cs = DOMAIN clients
      /\ cs[c].state = STATE_CHAT
      /\ cs[c].room_ = clients[c].room_
      /\ \A d \in DOMAIN cs \ {c} : cs[d] = clients[d]
  BY DEF Named, ClientTable, Client
<1>2. ClientTable(cs)
  <2>1. STATE_CHAT \in ClientState
    BY DEF ClientState
  <2>2. cs = [clients EXCEPT ![c] = [clients[c] EXCEPT !.nickname = nick,
                                                     !.state = STATE_CHAT]]
    BY DEF Named, ClientTable
  <2>3. [clients[c] EXCEPT !.nickname = nick, !.state = STATE_CHAT] \in Client
    BY <2>1 DEF ClientTable, Client
  <2> QED
    BY <2>2, <2>3 DEF ClientTable
<1>3. Place(cs) = Place(clients)
  <2> HIDE DEF cs
  <2> QED
    BY <1>1 DEF Place
<1> QED
  BY <1>1, <1>2, <1>3

LEMMA SoundSetNickname ==
  ASSUME IInv, NEW c \in Fd, NEW nick \in Nick \cup {Blank},
         set_nickname(c, nick)
  PROVE  IInv'
<1> DEFINE cs == Named(c, nick)
<1>1. /\ c \in DOMAIN clients
      /\ ClientTable(clients)
      /\ Consistent(Place(clients), rooms)
      /\ rooms[Lobby].password_ = Blank
      /\ \A d \in DOMAIN clients : Settled(clients[d])
  BY DEF IInv, Sound, set_nickname
<1>2. /\ DOMAIN cs = DOMAIN clients
      /\ ClientTable(cs)
      /\ Place(cs) = Place(clients)
      /\ cs[c].state = STATE_CHAT
      /\ \A d \in DOMAIN cs \ {c} : cs[d] = clients[d]
  BY <1>1, NamedType
<1>3. queued' \in Queue
  <2>1. /\ Tell(c, Reply("welcome")) \in Queue
        /\ JoinNotices(cs, rooms, c, Lobby) \in Queue
    BY <1>1, <1>2, TellType, ReplyType, NoticesType, NamesAssumption DEF Replies
  <2>2. Then(JoinNotices(cs, rooms, c, Lobby), Tell(c, Reply("welcome")))
          \in Queue
    BY <2>1, ThenType
  <2> QED
    BY <2>2 DEF set_nickname
<1>4. /\ clients' = JoinClients(cs, c, Lobby)
      /\ rooms' = JoinRooms(cs, rooms, c, Lobby)
  BY DEF set_nickname
<1>5. Sound(JoinClients(cs, c, Lobby), JoinRooms(cs, rooms, c, Lobby), queued')
  <2> HIDE DEF cs
  <2> QED
    BY <1>1, <1>2, <1>3, SoundJoin, NamesAssumption
<1> QED
  BY <1>4, <1>5 DEF IInv

(* The room of a prompt is a room, neither the lobby nor the client's own. *)
LEMMA PromptedRoom ==
  ASSUME IInv, NEW c \in DOMAIN clients, clients[c].state \in Prompted
  PROVE  clients[c].connected_room_ \in Room \ {Lobby, clients[c].room_}
BY DEF IInv, Sound, Settled, ClientTable, Client

(* The answer to a prompt: the client joins the room of the prompt.        *)
LEMMA SoundAnswer ==
  ASSUME IInv, NEW c \in DOMAIN clients, NEW r \in Room, NEW q \in Queue
  PROVE  /\ Sound(BackToChat(JoinClients(clients, c, r), c),
                 JoinRooms(clients, rooms, c, r), q)
         /\ clients[c].state = STATE_CHAT =>
              Sound(JoinClients(clients, c, r),
                    JoinRooms(clients, rooms, c, r), q)
         /\ Then(JoinNotices(clients, rooms, c, r), q) \in Queue
         /\ r \in DOMAIN JoinRooms(clients, rooms, c, r)
<1>1. /\ ClientTable(clients)
      /\ Consistent(Place(clients), rooms)
      /\ rooms[Lobby].password_ = Blank
      /\ \A d \in DOMAIN clients : Settled(clients[d])
  BY DEF IInv, Sound
<1>2. JoinNotices(clients, rooms, c, r) \in Queue
  BY <1>1, NoticesType
<1> QED
  BY <1>1, <1>2, SoundJoin, ThenType, JoinConsistent

LEMMA SoundSetupPassword ==
  ASSUME IInv, NEW c \in Fd, NEW pw \in Password \cup {Blank},
         setup_password(c, pw)
  PROVE  IInv'
<1> DEFINE r == clients[c].connected_room_
           cs1 == BackToChat(JoinClients(clients, c, r), c)
           rs1 == JoinRooms(clients, rooms, c, r)
<1>1. /\ c \in DOMAIN clients
      /\ clients[c].state \in Prompted
  BY DEF setup_password, Prompted
<1>2. r \in Room \ {Lobby}
  BY <1>1, PromptedRoom
<1>3. queued' \in Queue
  <2>1. Tell(c, Reply("room created")) \in Queue
    BY TellType, ReplyType DEF Replies
  <2> QED
    BY <1>1, <1>2, <2>1, SoundAnswer DEF setup_password
<1>4. Sound(cs1, rs1, queued') /\ r \in DOMAIN rs1
  BY <1>1, <1>2, <1>3, SoundAnswer
<1>5. clients' = cs1 /\ rooms' = [rs1 EXCEPT ![r].password_ = pw]
  BY DEF setup_password
<1>6. Sound(cs1, [rs1 EXCEPT ![r].password_ = pw], queued')
  <2> HIDE DEF cs1, rs1, r
  <2> QED
    BY <1>2, <1>4, SoundPassword
<1> QED
  BY <1>5, <1>6 DEF IInv

LEMMA SoundEnterPassword ==
  ASSUME IInv, NEW c \in Fd, NEW pw \in Password \cup {Blank},
         enter_password(c, pw)
  PROVE  IInv'
<1> DEFINE r == clients[c].connected_room_
<1>1. /\ c \in DOMAIN clients
      /\ clients[c].state \in Prompted
  BY DEF enter_password, Prompted
<1>2. r \in Room \ {Lobby}
  BY <1>1, PromptedRoom
<1>3. ASSUME NEW k \in Replies, RejectPassword(c, k)
      PROVE  IInv'
  <2>1. /\ clients' = BackToChat(clients, c)
        /\ rooms' = rooms
        /\ queued' \in Queue
    BY <1>3, TellType, ReplyType DEF RejectPassword
  <2>2. ClientTable(clients) /\ Settled(clients[c])
    BY <1>1 DEF IInv, Sound
  <2>3. /\ DOMAIN clients' = DOMAIN clients
        /\ clients'[c] \in Client
        /\ clients'[c].room_ = clients[c].room_
        /\ clients'[c].state = STATE_CHAT
        /\ \A d \in DOMAIN clients \ {c} : clients'[d] = clients[d]
        /\ clients' = [d \in DOMAIN clients' |-> clients'[d]]
    BY <1>1, <2>1, <2>2 DEF BackToChat, ClientTable, Client, ClientState
  <2>4. Settled(clients'[c])
    BY <1>1, <2>2, <2>3
    DEF Settled, Prompted, STATE_CHAT, STATE_NICKNAME,
        STATE_SETUP_ROOM_PASSWORD, STATE_ENTER_ROOM_PASSWORD
  <2> QED
    BY <1>1, <2>1, <2>3, <2>4, SoundPrompt DEF IInv
<1>4. ASSUME clients' = BackToChat(JoinClients(clients, c, r), c),
             rooms' = JoinRooms(clients, rooms, c, r),
             queued' = Then(JoinNotices(clients, rooms, c, r),
                            Tell(c, Reply("password success")))
      PROVE  IInv'
  <2>1. Tell(c, Reply("password success")) \in Queue
    BY TellType, ReplyType DEF Replies
  <2>2. queued' \in Queue
    BY <1>1, <1>2, <1>4, <2>1, SoundAnswer
  <2> QED
    BY <1>1, <1>2, <1>4, <2>2, SoundAnswer DEF IInv
<1> QED
  BY <1>3, <1>4 DEF enter_password, Replies

(* The commands that answer and change nothing.                            *)
LEMMA SoundUnchanged ==
  ASSUME IInv, UNCHANGED <<clients, rooms>>, queued' \in Queue
  PROVE  IInv'
BY DEF IInv, Sound

(* What a client can be in while it chats.                                 *)
LEMMA ChattingRoom ==
  ASSUME IInv, NEW c \in DOMAIN clients, Chatting(c)
  PROVE  clients[c].room_ \in Room
BY DEF IInv, Sound, Settled, ClientTable, Client, Chatting,
       STATE_CHAT, STATE_NICKNAME

LEMMA SoundPlainMessage ==
  ASSUME IInv, NEW c \in Fd, handle_plain_message(c)
  PROVE  IInv'
<1>1. clients[c].room_ \in Room
  BY ChattingRoom DEF handle_plain_message, Chatting
<1>2. Notice("chat", c, clients[c].room_) \in Message
  BY <1>1, NoticeType
<1>3. queued' \in Queue
  BY <1>2, BroadcastType DEF handle_plain_message
<1> QED
  BY <1>3, SoundUnchanged DEF handle_plain_message

LEMMA SoundPrivateMessage ==
  ASSUME IInv, NEW c \in Fd, NEW target, handle_private_message(c, target)
  PROVE  IInv'
<1>1. ASSUME NEW d \in Matches(target)
      PROVE  Then(Tell(d, [kind |-> "private from", who |-> c]),
                  Tell(c, [kind |-> "private to", who |-> d])) \in Queue
  <2>1. d \in Fd
    BY DEF Matches, IInv, Sound, ClientTable
  <2>2. /\ [kind |-> "private from", who |-> c] \in Message
        /\ [kind |-> "private to", who |-> d] \in Message
    BY <2>1 DEF Message
  <2> QED
    BY <2>2, TellType, ThenType
<1>2. Tell(c, Reply("not found")) \in Queue
  BY TellType, ReplyType DEF Replies
<1>3. queued' \in Queue
  BY <1>1, <1>2 DEF handle_private_message
<1> QED
  BY <1>3, SoundUnchanged DEF handle_private_message

LEMMA SoundReply ==
  ASSUME IInv, NEW c \in Fd, NEW m \in Message, Answer(c, m)
  PROVE  IInv'
BY SoundUnchanged, TellType DEF Answer

(* A chatting client is put at a prompt for a room that is neither its own *)
(* nor the lobby.                                                          *)
LEMMA SoundAsk ==
  ASSUME IInv, NEW c \in Fd, Chatting(c),
         NEW r \in Room \ {Lobby}, clients[c].room_ # r,
         NEW state \in Prompted, NEW prompt \in Replies,
         Ask(c, r, state, prompt)
  PROVE  IInv'
<1>1. /\ c \in DOMAIN clients
      /\ ClientTable(clients)
      /\ Settled(clients[c])
      /\ clients[c].room_ \in Room
  BY ChattingRoom DEF IInv, Sound, Chatting
<1>2. /\ rooms' = rooms
      /\ queued' \in Queue
  BY TellType, ReplyType DEF Ask
<1>3. state \in ClientState /\ state # STATE_NICKNAME
  BY DEF Prompted, ClientState, STATE_NICKNAME, STATE_SETUP_ROOM_PASSWORD,
         STATE_ENTER_ROOM_PASSWORD
<1>4. /\ DOMAIN clients' = DOMAIN clients
      /\ clients'[c] \in Client
      /\ clients'[c].room_ = clients[c].room_
      /\ clients'[c].state = state
      /\ clients'[c].connected_room_ = r
      /\ \A d \in DOMAIN clients \ {c} : clients'[d] = clients[d]
      /\ clients' = [d \in DOMAIN clients' |-> clients'[d]]
  BY <1>1, <1>3 DEF Ask, ClientTable, Client
<1>5. Settled(clients'[c])
  BY <1>1, <1>3, <1>4, NamesAssumption DEF Settled
<1> QED
  BY <1>1, <1>2, <1>4, <1>5, SoundPrompt DEF IInv

LEMMA SoundJoinRoom ==
  ASSUME IInv, NEW c \in Fd, NEW r \in Room, handle_join_room(c, r)
  PROVE  IInv'
<1>1. /\ c \in DOMAIN clients
      /\ Chatting(c)
      /\ clients[c].state = STATE_CHAT
  BY DEF handle_join_room, Chatting
<1>2. CASE AlreadyInRoom(c, r)
  BY <1>2, SoundReply, ReplyType DEF AlreadyInRoom, Replies
<1>3. CASE AskToCreate(c, r)
  <2>1. r # Lobby
    BY <1>3 DEF AskToCreate, IInv, Sound, Consistent
  <2> QED
    BY <1>1, <1>3, <2>1, SoundAsk DEF AskToCreate, Prompted, Replies
<1>4. CASE JoinOpenRoom(c, r)
  <2>1. queued' \in Queue
    BY <1>1, <1>4, NoticesType DEF JoinOpenRoom, IInv, Sound
  <2> QED
    BY <1>1, <1>4, <2>1, SoundAnswer DEF JoinOpenRoom, IInv
<1>5. CASE AskPassword(c, r)
  <2>1. r # Lobby
    BY <1>5 DEF AskPassword, verification_password, IInv, Sound
  <2> QED
    BY <1>1, <1>5, <2>1, SoundAsk DEF AskPassword, Prompted, Replies
<1> QED
  BY <1>2, <1>3, <1>4, <1>5 DEF handle_join_room

LEMMA SoundLeaveRoom ==
  ASSUME IInv, NEW c \in Fd, handle_leave_room(c)
  PROVE  IInv'
<1>1. /\ c \in DOMAIN clients
      /\ clients[c].state = STATE_CHAT
  BY DEF handle_leave_room, Chatting
<1>2. CASE Answer(c, Reply("in lobby"))
  BY <1>2, SoundReply, ReplyType DEF Replies
<1>3. CASE /\ clients' = JoinClients(clients, c, Lobby)
           /\ rooms' = JoinRooms(clients, rooms, c, Lobby)
           /\ queued' = JoinNotices(clients, rooms, c, Lobby)
  <2>1. queued' \in Queue
    BY <1>1, <1>3, NoticesType, NamesAssumption DEF IInv, Sound
  <2> QED
    BY <1>1, <1>3, <2>1, SoundAnswer, NamesAssumption DEF IInv
<1> QED
  BY <1>2, <1>3 DEF handle_leave_room

LEMMA SoundOnlineList ==
  ASSUME IInv, NEW c \in Fd, handle_online_list(c)
  PROVE  IInv'
<1>1. [kind |-> "online", names |-> InRoom(clients[c].room_)] \in Message
  <2>1. InRoom(clients[c].room_) \in SUBSET Fd
    BY DEF InRoom, IInv, Sound, ClientTable
  <2> QED
    BY <2>1 DEF Message
<1> QED
  BY <1>1, SoundReply DEF handle_online_list

LEMMA SoundRoomsList ==
  ASSUME IInv, NEW c \in Fd, handle_rooms_list(c)
  PROVE  IInv'
<1> DEFINE counts == {<<r, rooms[r].user_count_>> : r \in DOMAIN rooms}
<1>1. [kind |-> "rooms", counts |-> counts] \in Message
  <2>1. \A r \in DOMAIN rooms : r \in Room /\ rooms[r].user_count_ \in Nat
    BY AtFinite DEF IInv, Sound, Consistent, RoomTable
  <2>2. counts \in SUBSET (Room \X Nat)
    BY <2>1
  <2> HIDE DEF counts
  <2> QED
    BY <2>2 DEF Message
<1> QED
  BY <1>1, SoundReply DEF handle_rooms_list

LEMMA SoundStep == IInv /\ [Next]_vars => IInv'
<1> SUFFICES ASSUME IInv, [Next]_vars
             PROVE  IInv'
  OBVIOUS
<1>1. CASE UNCHANGED vars
  BY <1>1 DEF vars, IInv
<1>2. ASSUME NEW c \in Fd, accept_new_client(c)
      PROVE  IInv'
  BY <1>2, SoundAccept
<1>3. ASSUME NEW c \in Fd, disconnect_client(c)
      PROVE  IInv'
  BY <1>3, SoundDisconnect
<1>4. ASSUME NEW c \in Fd, execute(c)
      PROVE  IInv'
  <2>1. ASSUME ignore_unknown(c)
        PROVE  IInv'
    BY <2>1, SoundUnchanged, SilenceType DEF ignore_unknown
  <2> QED
    BY <1>4, <2>1, SoundPlainMessage, SoundPrivateMessage, SoundJoinRoom,
       SoundLeaveRoom, SoundOnlineList, SoundRoomsList DEF execute
<1>5. ASSUME NEW c \in Fd, process_message(c)
      PROVE  IInv'
  BY <1>4, <1>5, SoundSetNickname, SoundSetupPassword, SoundEnterPassword
  DEF process_message
<1> QED
  BY <1>1, <1>2, <1>3, <1>5 DEF Next

-----------------------------------------------------------------------------
(* The inductive invariant is no stronger and no weaker than the six named *)
(* invariants together.                                                    *)
LEMMA InRoomIsAt ==
  ASSUME ClientTable(clients), NEW r \in Room
  PROVE  InRoom(r) = At(Place(clients), r)
BY NamesAssumption DEF InRoom, At, Place, ClientTable

LEMMA IInvMeaning ==
  IInv <=> /\ TypeOK
           /\ CountAccurate
           /\ RoomsInhabited
           /\ LobbyOpen
           /\ InRoomOnceNamed
           /\ PromptNamesAnotherRoom
<1>1. ASSUME IInv
      PROVE  TypeOK
  <2>1. \A r \in DOMAIN rooms : rooms[r].user_count_ \in Nat
    BY <1>1, AtFinite DEF IInv, Sound, Consistent
  <2>2. rooms \in [DOMAIN rooms -> RoomRecord]
    BY <1>1, <2>1 DEF IInv, Sound, Consistent, RoomTable, RoomRecord
  <2> QED
    BY <1>1, <2>2
    DEF IInv, Sound, Consistent, ClientTable, RoomTable, Queue, TypeOK
<1>2. ASSUME IInv
      PROVE  /\ CountAccurate
             /\ RoomsInhabited
  BY <1>1, <1>2, InRoomIsAt
  DEF IInv, Sound, Consistent, RoomTable, CountAccurate, RoomsInhabited
<1>3. ASSUME IInv
      PROVE  /\ LobbyOpen
             /\ InRoomOnceNamed
             /\ PromptNamesAnotherRoom
  BY <1>3 DEF IInv, Sound, Consistent, Settled, LobbyOpen, InRoomOnceNamed,
              PromptNamesAnotherRoom
<1>4. ASSUME TypeOK, CountAccurate, RoomsInhabited, LobbyOpen,
             InRoomOnceNamed, PromptNamesAnotherRoom
      PROVE  IInv
  <2>1. ClientTable(clients) /\ queued \in Queue
    BY <1>4 DEF TypeOK, ClientTable, Queue
  <2>2. RoomTable(rooms)
    BY <1>4 DEF TypeOK, RoomTable, RoomRecord
  <2>3. \A c \in DOMAIN clients : Settled(clients[c])
    BY <1>4 DEF Settled, LobbyOpen, InRoomOnceNamed, PromptNamesAnotherRoom
  <2>4. Consistent(Place(clients), rooms)
    BY <1>4, <2>1, <2>2, InRoomIsAt, PlaceType
    DEF Consistent, RoomTable, CountAccurate, RoomsInhabited, LobbyOpen
  <2> QED
    BY <1>4, <2>1, <2>3, <2>4 DEF IInv, Sound, LobbyOpen
<1> QED
  BY <1>1, <1>2, <1>3, <1>4

(* The tables of the server have their types in every reachable state: in  *)
(* particular no user count is ever negative.                              *)
THEOREM TypeCorrect == Spec => []TypeOK
<1>1. Spec => []IInv
  BY SoundInit, SoundStep, PTL DEF Spec
<1> QED
  BY <1>1, IInvMeaning, PTL

(* The count that /rooms prints and that decides when a room is erased is  *)
(* the number of clients in the room.                                      *)
THEOREM CountsAreAccurate == Spec => []CountAccurate
<1>1. Spec => []IInv
  BY SoundInit, SoundStep, PTL DEF Spec
<1> QED
  BY <1>1, IInvMeaning, PTL

(* No client is left in an erased room, and no room but the lobby outlives *)
(* its last client.                                                        *)
THEOREM RoomsAreInhabited == Spec => []RoomsInhabited
<1>1. Spec => []IInv
  BY SoundInit, SoundStep, PTL DEF Spec
<1> QED
  BY <1>1, IInvMeaning, PTL

(* The lobby is always there and always open.                              *)
THEOREM LobbyIsOpen == Spec => []LobbyOpen
<1>1. Spec => []IInv
  BY SoundInit, SoundStep, PTL DEF Spec
<1> QED
  BY <1>1, IInvMeaning, PTL

(* A client is in a room from its nickname on.                             *)
THEOREM NamedClientsAreInRooms == Spec => []InRoomOnceNamed
<1>1. Spec => []IInv
  BY SoundInit, SoundStep, PTL DEF Spec
<1> QED
  BY <1>1, IInvMeaning, PTL

(* A prompt names a room other than the one the client is in.              *)
THEOREM PromptsNameAnotherRoom == Spec => []PromptNamesAnotherRoom
<1>1. Spec => []IInv
  BY SoundInit, SoundStep, PTL DEF Spec
<1> QED
  BY <1>1, IInvMeaning, PTL

-----------------------------------------------------------------------------
(* ChatServer implements RoomDirectory: whatever the prompts, passwords    *)
(* and reference counts do, a handler moves at most one client, from       *)
(* outside only into the lobby, and leaves the room table a census of      *)
(* where the clients are.                                                  *)
CensusOf(rs) == [r \in DOMAIN rs |-> rs[r].user_count_]

(* The instance brings a copy of the operator of FiniteSets.               *)
LEMMA SameCardinality ==
  ASSUME NEW S
  PROVE  Directory!Cardinality(S) = Cardinality(S)
BY Zenon DEF Directory!Cardinality, Cardinality

(* The counts of a consistent room table are the census of the places.     *)
LEMMA CensusIsCount ==
  ASSUME NEW w, NEW rs, Consistent(w, rs)
  PROVE  CensusOf(rs) = Directory!Census(w)
<1>1. \A r : Directory!In(w, r) = At(w, r)
  BY DEF Directory!In, At
<1>2. Directory!Listed(w) = DOMAIN rs
  BY <1>1, NamesAssumption DEF Directory!Listed, Consistent, RoomTable
<1>3. \A r \in DOMAIN rs :
        rs[r].user_count_ = Directory!Cardinality(Directory!In(w, r))
  BY <1>1, SameCardinality DEF Consistent
<1> QED
  BY <1>2, <1>3 DEF CensusOf, Directory!Census

-----------------------------------------------------------------------------
(* Where everybody is after each of the updates a handler makes.           *)
LEMMA PlaceJoined ==
  ASSUME NEW cs, NEW c \in DOMAIN cs, NEW r \in Room, ClientTable(cs)
  PROVE  Place(JoinClients(cs, c, r)) = [Place(cs) EXCEPT ![c] = r]
<1> DEFINE cs1 == JoinClients(cs, c, r)
<1>1. /\ DOMAIN cs1 = DOMAIN cs
      /\ cs1[c].room_ = r
      /\ \A d \in DOMAIN cs : d # c => cs1[d] = cs[d]
  BY DEF JoinClients, ClientTable, Client
<1>2. Place(cs1) = [Place(cs) EXCEPT ![c] = r]
  <2> HIDE DEF cs1
  <2> QED
    BY <1>1 DEF Place, ClientTable
<1> QED
  BY <1>2

LEMMA PlaceBackToChat ==
  ASSUME NEW cs, NEW c \in DOMAIN cs, ClientTable(cs)
  PROVE  Place(BackToChat(cs, c)) = Place(cs)
<1> DEFINE cs1 == BackToChat(cs, c)
<1>1. /\ DOMAIN cs1 = DOMAIN cs
      /\ \A d \in DOMAIN cs : cs1[d].room_ = cs[d].room_
  BY DEF BackToChat, ClientTable, Client
<1>2. Place(cs1) = Place(cs)
  <2> HIDE DEF cs1
  <2> QED
    BY <1>1 DEF Place
<1> QED
  BY <1>2

-----------------------------------------------------------------------------
(* What a handler of client c does to the places: nothing, or a move of c. *)
Moves(c) ==
  \/ Place(clients') = Place(clients)
  \/ /\ Place(clients)[c] = Blank
     /\ Place(clients') = [Place(clients) EXCEPT ![c] = Lobby]
  \/ \E r \in Room : /\ Place(clients)[c] \notin {Blank, r}
                     /\ Place(clients') = [Place(clients) EXCEPT ![c] = r]
  \/ /\ Place(clients)[c] # Blank
     /\ Place(clients') = [Place(clients) EXCEPT ![c] = Blank]

LEMMA PlaceOfClient ==
  ASSUME ClientTable(clients), NEW c \in DOMAIN clients
  PROVE  c \in Fd /\ Place(clients)[c] = clients[c].room_
BY DEF Place, ClientTable

LEMMA AcceptMoves ==
  ASSUME IInv, NEW c \in Fd, accept_new_client(c)
  PROVE  Moves(c)
<1>1. CASE UNCHANGED clients
  BY <1>1 DEF Moves
<1>2. CASE clients' = [f \in DOMAIN clients \cup {c} |->
                         IF f = c THEN NewClient ELSE clients[f]]
  <2>1. NewClient.room_ = Blank /\ c \notin DOMAIN clients
    BY DEF NewClient, accept_new_client
  <2>2. /\ DOMAIN clients' = DOMAIN clients \cup {c}
        /\ \A f \in DOMAIN clients : clients'[f] = clients[f]
        /\ clients'[c].room_ = Blank
    BY <1>2, <2>1
  <2>3. Place(clients') = Place(clients)
    BY <2>1, <2>2 DEF Place
  <2> QED
    BY <2>3 DEF Moves
<1> QED
  BY <1>1, <1>2 DEF accept_new_client

LEMMA DisconnectMoves ==
  ASSUME IInv, NEW c \in Fd, disconnect_client(c)
  PROVE  Moves(c)
<1>1. /\ ClientTable(clients)
      /\ c \in DOMAIN clients
  BY DEF IInv, Sound, disconnect_client
<1>2. /\ DOMAIN clients' = DOMAIN clients \ {c}
      /\ \A d \in DOMAIN clients' : clients'[d] = clients[d]
  BY <1>1 DEF disconnect_client, Restrict
<1>3. Place(clients') = [Place(clients) EXCEPT ![c] = Blank]
  BY <1>2 DEF Place
<1>4. Place(clients) \in [Fd -> Room \cup {Blank}]
  BY <1>1, PlaceType
<1>5. CASE Place(clients)[c] = Blank
  <2>1. Place(clients') = Place(clients)
    BY <1>3, <1>4, <1>5
  <2> QED
    BY <2>1 DEF Moves
<1>6. CASE Place(clients)[c] # Blank
  BY <1>3, <1>6 DEF Moves
<1> QED
  BY <1>5, <1>6

LEMMA SetNicknameMoves ==
  ASSUME IInv, NEW c \in Fd, NEW nick \in Nick \cup {Blank},
         set_nickname(c, nick)
  PROVE  Moves(c)
<1>1. /\ ClientTable(clients)
      /\ c \in DOMAIN clients
      /\ clients[c].room_ = Blank
  BY DEF IInv, Sound, Settled, set_nickname
<1>2. /\ ClientTable(Named(c, nick))
      /\ c \in DOMAIN Named(c, nick)
  BY <1>1, NamedType
<1>3. Place(Named(c, nick)) = Place(clients)
  BY <1>1, NamedType
<1>4. Place(clients') = [Place(Named(c, nick)) EXCEPT ![c] = Lobby]
  BY <1>2, PlaceJoined, NamesAssumption DEF set_nickname
<1>5. Place(clients)[c] = Blank
  BY <1>1, PlaceOfClient
<1> QED
  BY <1>3, <1>4, <1>5 DEF Moves

LEMMA JoinMoves ==
  ASSUME IInv, NEW c \in DOMAIN clients, NEW r \in Room,
         clients[c].room_ \notin {Blank, r},
         \/ clients' = JoinClients(clients, c, r)
         \/ clients' = BackToChat(JoinClients(clients, c, r), c)
  PROVE  Moves(c)
<1>1. ClientTable(clients)
  BY DEF IInv, Sound
<1>2. /\ ClientTable(JoinClients(clients, c, r))
      /\ c \in DOMAIN JoinClients(clients, c, r)
  BY <1>1, JoinClientsType
<1>3. Place(clients') = [Place(clients) EXCEPT ![c] = r]
  BY <1>1, <1>2, PlaceJoined, PlaceBackToChat
<1> QED
  BY <1>1, <1>3, PlaceOfClient DEF Moves

LEMMA AnswerMoves ==
  ASSUME IInv, NEW c \in Fd, NEW pw,
         setup_password(c, pw) \/ enter_password(c, pw)
  PROVE  Moves(c)
<1> DEFINE r == clients[c].connected_room_
<1>1. /\ c \in DOMAIN clients
      /\ clients[c].state \in Prompted
      /\ ClientTable(clients)
      /\ clients[c].room_ # Blank
  BY DEF setup_password, enter_password, Prompted, IInv, Sound, Settled,
         STATE_NICKNAME, STATE_SETUP_ROOM_PASSWORD, STATE_ENTER_ROOM_PASSWORD
<1>2. r \in Room /\ clients[c].room_ \notin {Blank, r}
  BY <1>1, PromptedRoom
<1>3. CASE clients' = BackToChat(JoinClients(clients, c, r), c)
  BY <1>1, <1>2, <1>3, JoinMoves
<1>4. CASE clients' = BackToChat(clients, c)
  BY <1>1, <1>4, PlaceBackToChat DEF Moves
<1> QED
  BY <1>3, <1>4 DEF setup_password, enter_password, RejectPassword

LEMMA AskMoves ==
  ASSUME IInv, NEW c \in DOMAIN clients, NEW r, NEW state, NEW prompt,
         Ask(c, r, state, prompt)
  PROVE  Moves(c)
<1>1. /\ DOMAIN clients' = DOMAIN clients
      /\ \A d \in DOMAIN clients : clients'[d].room_ = clients[d].room_
  BY DEF Ask, IInv, Sound, ClientTable, Client
<1>2. Place(clients') = Place(clients)
  BY <1>1 DEF Place
<1> QED
  BY <1>2 DEF Moves

LEMMA ExecuteMoves ==
  ASSUME IInv, NEW c \in Fd, execute(c)
  PROVE  Moves(c)
<1>1. CASE UNCHANGED clients
  BY <1>1 DEF Moves
<1>2. /\ c \in DOMAIN clients
      /\ Chatting(c)
  BY DEF execute, handle_plain_message, handle_private_message,
         handle_join_room, handle_leave_room, handle_online_list,
         handle_rooms_list, ignore_unknown, Chatting
<1>3. clients[c].room_ # Blank
  BY <1>2, ChattingRoom, NamesAssumption
<1>4. ASSUME NEW r \in Room, handle_join_room(c, r)
      PROVE  Moves(c)
  <2>1. CASE JoinOpenRoom(c, r)
    BY <1>2, <1>3, <2>1, JoinMoves DEF JoinOpenRoom
  <2> QED
    BY <1>1, <1>2, <1>4, <2>1, AskMoves
    DEF handle_join_room, AlreadyInRoom, Answer, AskToCreate, AskPassword
<1>5. ASSUME handle_leave_room(c)
      PROVE  Moves(c)
  BY <1>1, <1>2, <1>3, <1>5, JoinMoves, NamesAssumption
  DEF handle_leave_room, Answer
<1> QED
  BY <1>1, <1>4, <1>5
  DEF execute, handle_plain_message, handle_private_message,
      handle_online_list, handle_rooms_list, ignore_unknown, Answer

LEMMA NextMoves ==
  ASSUME IInv, Next
  PROVE  \E c \in Fd : Moves(c)
BY AcceptMoves, DisconnectMoves, SetNicknameMoves, AnswerMoves, ExecuteMoves
DEF Next, process_message

-----------------------------------------------------------------------------
(* ChatServer implements RoomDirectory.                                    *)
LEMMA DirectoryInit == Init => Directory!Init
<1> SUFFICES ASSUME Init
             PROVE  Directory!Init
  OBVIOUS
<1>1. where = [m \in Fd |-> Blank] /\ where = Place(clients)
  BY DEF Init, where, Place
<1>2. CensusOf(rooms) = Directory!Census(where)
  BY <1>1, SoundInit, CensusIsCount DEF IInv, Sound
<1> QED
  BY <1>1, <1>2 DEF Directory!Init, CensusOf

LEMMA DirectoryStep ==
  ASSUME IInv, IInv', [Next]_vars
  PROVE  [Directory!Next]_<<where, CensusOf(rooms)>>
<1>1. where = Place(clients) /\ where' = Place(clients')
  BY DEF where, Place
<1>2. CASE UNCHANGED vars
  BY <1>1, <1>2 DEF vars
<1>3. CASE Next
  <2>1. CensusOf(rooms) = Directory!Census(where)
    BY <1>1, CensusIsCount DEF IInv, Sound
  <2>2. CensusOf(rooms') = Directory!Census(where')
    BY <1>1, CensusIsCount DEF IInv, Sound
  <2>3. PICK c \in Fd : Moves(c)
    BY <1>3, NextMoves
  <2>4. CASE where' = where
    BY <2>1, <2>2, <2>4
  <2>5. ASSUME NEW r, where' = [where EXCEPT ![c] = r]
        PROVE  Directory!Move(c, r)
    BY <2>2, <2>5 DEF Directory!Move, CensusOf
  <2>6. CASE where' # where
    BY <1>1, <2>3, <2>5, <2>6
    DEF Moves, Directory!Next, Directory!Enter, Directory!Change,
        Directory!Leave
  <2> QED
    BY <2>4, <2>6
<1> QED
  BY <1>2, <1>3

(* ChatServer implements RoomDirectory, however many clients and rooms:    *)
(* every handler moves at most one client, and the table is a census.      *)
THEOREM DirectoryImplemented == Spec => ImplementsDirectory
<1>1. Spec => []IInv
  BY SoundInit, SoundStep, PTL DEF Spec
<1>2. IInv /\ IInv' /\ [Next]_vars
        => [Directory!Next]_<<where, CensusOf(rooms)>>
  BY DirectoryStep
<1> QED
  BY <1>1, <1>2, DirectoryInit, PTL
  DEF Spec, ImplementsDirectory, Directory!Spec, CensusOf
=============================================================================
