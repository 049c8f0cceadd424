--------------------------- MODULE PresenceProofs ---------------------------
(***************************************************************************)
(* A user who follows the notices of a room knows who is in it, for any    *)
(* number of clients and rooms.                                            *)
(***************************************************************************)
EXTENDS Presence, ChatServerProofs, TextProofs

Rosters == (SUBSET Fd) \cup {Unknown}

Members(cs, r) == {d \in DOMAIN cs : cs[d].room_ = r}

(* What a client may know: nothing, or who is in its room; at a prompt, or *)
(* before it has a nickname, nothing.                                      *)
Follows(cs, f, known) ==
  IF cs[f].state = STATE_CHAT
  THEN known = Unknown \/ known = Members(cs, cs[f].room_)
  ELSE known = Unknown

PInv ==
  /\ IInv
  /\ roster \in [Fd -> Rosters]
  /\ \A f \in DOMAIN clients : Follows(clients, f, roster[f])

-----------------------------------------------------------------------------
(* What is made of one line.                                               *)
LEMMA LearnType ==
  ASSUME NEW f, NEW known \in Rosters, NEW m \in Message
  PROVE  Learn(f, known, m) \in Rosters
<1>1. Unknown \in Rosters
  BY DEF Rosters
<1>2. CASE m \in [kind : {"online"}, names : SUBSET Fd]
  BY <1>2 DEF Learn, Forgotten, Rosters
<1>3. CASE m \in [kind : {"joined", "left", "chat"}, who : Fd, room : Room]
  BY <1>3, UnknownAssumption DEF Learn, Forgotten, Rosters
<1>4. CASE m.kind \notin {"online", "joined", "left"}
  BY <1>4 DEF Learn, Forgotten, Rosters
<1>5. m.kind = "online" => m \in [kind : {"online"}, names : SUBSET Fd]
  BY DEF Message, Replies
<1>6. m.kind \in {"joined", "left"} =>
        m \in [kind : {"joined", "left", "chat"}, who : Fd, room : Room]
  BY DEF Message, Replies
<1> QED
  BY <1>2, <1>3, <1>4, <1>5, <1>6

LEMMA LearnReply ==
  ASSUME NEW f, NEW known, NEW k \in Replies
  PROVE  Learn(f, known, Reply(k)) = IF k \in Forgotten THEN Unknown ELSE known
BY DEF Learn, Reply, Replies, Forgotten

LEMMA LearnLeft ==
  ASSUME NEW f, NEW known, NEW c, NEW r
  PROVE  Learn(f, known, Notice("left", c, r)) =
           IF f = c \/ known = Unknown THEN Unknown ELSE known \ {c}
BY DEF Learn, Notice, Forgotten

LEMMA LearnJoined ==
  ASSUME NEW f, NEW known, NEW c, NEW r
  PROVE  Learn(f, known, Notice("joined", c, r)) =
           IF f = c \/ known = Unknown THEN Unknown ELSE known \cup {c}
BY DEF Learn, Notice, Forgotten

-----------------------------------------------------------------------------
(* What is made of several: whatever follows the recursion of Heard from   *)
(* its first value to its last has the value of Heard.                     *)
After(f, known, ms, g) ==
  /\ g[0] = known
  /\ \A i \in 1..Len(ms) : g[i] = Learn(f, g[i - 1], ms[i])

LEMMA HeardIs ==
  ASSUME NEW f, NEW known, NEW ms, Len(ms) \in Nat, NEW g, After(f, known, ms, g)
  PROVE  Heard(f, known, ms) = g[Len(ms)]
<1> DEFINE n == Len(ms)
           IsAfter(a) == a = [i \in 0..n |-> IF i = 0 THEN known
                                             ELSE Learn(f, a[i - 1], ms[i])]
           after == CHOOSE a : IsAfter(a)
           h == [i \in 0..n |-> g[i]]
<1>1. Heard(f, known, ms) = after[n]
  BY DEF Heard
<1>2. \A i \in 0..n : g[i] = IF i = 0 THEN known ELSE Learn(f, g[i - 1], ms[i])
  BY DEF After
<1>3. IsAfter(h)
  <2>1. \A i \in 0..n : i # 0 => i - 1 \in 0..n
    OBVIOUS
  <2>2. \A i \in 0..n : h[i] = IF i = 0 THEN known ELSE Learn(f, h[i - 1], ms[i])
    BY <1>2, <2>1
  <2> QED
    BY <2>2
<1>4. IsAfter(after)
  <2> HIDE DEF IsAfter, h
  <2> QED  BY <1>3
<1> HIDE DEF after
<1>5. \A i \in 0..n : after[i] = IF i = 0 THEN known ELSE Learn(f, after[i - 1], ms[i])
  BY <1>4
<1> DEFINE Bad == {i \in 0..n : after[i] # g[i]}
<1>6. CASE Bad = {}
  <2>1. after[n] = g[n]
    BY <1>6
  <2> QED
    BY <1>1, <2>1
<1>7. CASE Bad # {}
  <2>1. Bad \in SUBSET Nat
    OBVIOUS
  <2>2. PICK i \in Bad : \A m \in Bad : i <= m
    <3> HIDE DEF Bad
    <3> QED  BY <1>7, <2>1, LeastNumber
  <2>3. i \in 0..n /\ after[i] # g[i]
    OBVIOUS
  <2>4. i # 0
    BY <1>2, <1>5, <2>3
  <2>5. i - 1 \in 0..n /\ i - 1 \notin Bad
    <3> HIDE DEF Bad
    <3>1. i - 1 \in 0..n /\ ~ (i <= i - 1)
      BY <2>3, <2>4
    <3> QED  BY <2>2, <3>1
  <2>6. after[i - 1] = g[i - 1]
    BY <2>5
  <2> QED
    BY <1>2, <1>5, <2>3, <2>4, <2>6
<1> QED
  BY <1>6, <1>7

(* Nothing, and one line.                                                  *)
LEMMA HeardNothing ==
  ASSUME NEW f, NEW known
  PROVE  Heard(f, known, <<>>) = known
<1>1. Len(<<>>) = 0 /\ After(f, known, <<>>, [i \in {0} |-> known])
  BY DEF After
<1> QED
  BY <1>1, HeardIs

LEMMA HeardOne ==
  ASSUME NEW f, NEW known, NEW m
  PROVE  Heard(f, known, <<m>>) = Learn(f, known, m)
<1> DEFINE g == [i \in 0..1 |-> IF i = 0 THEN known ELSE Learn(f, known, m)]
<1>1. Len(<<m>>) = 1 /\ <<m>>[1] = m
  OBVIOUS
<1>2. g[0] = known /\ g[1] = Learn(f, known, m)
  OBVIOUS
<1> HIDE DEF g
<1>3. After(f, known, <<m>>, g)
  BY <1>1, <1>2 DEF After
<1> QED
  BY <1>1, <1>2, <1>3, HeardIs

(* Such a sequence of values exists, so what is heard is a roster.         *)
LEMMA HeardAfter ==
  ASSUME NEW f, NEW known \in Rosters, NEW ms \in Seq(Message)
  PROVE  \E g \in [0..Len(ms) -> Rosters] : After(f, known, ms, g)
<1>1. PICK n : n = Len(ms)
  OBVIOUS
<1>2. PICK step : step = [i \in 1..n |-> [k \in Rosters |-> Learn(f, k, ms[i])]]
  OBVIOUS
<1>3. n \in Nat /\ \A i \in 1..n : ms[i] \in Message
  BY <1>1
<1>4. step \in Steps(n, Rosters)
  BY <1>2, <1>3, LearnType DEF Steps
<1>5. PICK g : Solution(n, Rosters, known, step, g)
  BY <1>3, <1>4, Recursion
<1>6. /\ g \in [0..n -> Rosters] /\ g[0] = known
      /\ \A i \in 1..n : g[i] = step[i][g[i - 1]]
  BY <1>5 DEF Solution
<1>7. \A i \in 1..n : g[i] = Learn(f, g[i - 1], ms[i])
  <2> SUFFICES ASSUME NEW i \in 1..n PROVE g[i] = Learn(f, g[i - 1], ms[i])
    OBVIOUS
  <2>1. g[i - 1] \in Rosters
    BY <1>3, <1>6
  <2> QED
    BY <1>2, <1>6, <2>1
<1> QED
  BY <1>1, <1>6, <1>7 DEF After

LEMMA HeardType ==
  ASSUME NEW f, NEW known \in Rosters, NEW ms \in Seq(Message)
  PROVE  Heard(f, known, ms) \in Rosters
<1>1. PICK g \in [0..Len(ms) -> Rosters] : After(f, known, ms, g)
  BY HeardAfter
<1>2. Len(ms) \in Nat /\ Heard(f, known, ms) = g[Len(ms)]
  BY <1>1, HeardIs
<1> QED
  BY <1>2

(* Lines are taken in one after the other.                                 *)
LEMMA HeardConcat ==
  ASSUME NEW f, NEW known \in Rosters, NEW s \in Seq(Message), NEW t \in Seq(Message)
  PROVE  Heard(f, known, s \o t) = Heard(f, Heard(f, known, s), t)
<1>1. PICK g \in [0..Len(s) -> Rosters] : After(f, known, s, g)
  BY HeardAfter
<1>2. Heard(f, known, s) = g[Len(s)] /\ g[Len(s)] \in Rosters /\ Len(s) \in Nat
  BY <1>1, HeardIs
<1>3. PICK h \in [0..Len(t) -> Rosters] : After(f, g[Len(s)], t, h)
  BY <1>2, HeardAfter
<1>4. Heard(f, Heard(f, known, s), t) = h[Len(t)] /\ Len(t) \in Nat
  BY <1>2, <1>3, HeardIs
<1> DEFINE n == Len(s) + Len(t)
           st == s \o t
           both == [i \in 0..n |-> IF i <= Len(s) THEN g[i] ELSE h[i - Len(s)]]
<1>5. /\ st \in Seq(Message) /\ Len(st) = n
      /\ \A i \in 1..n : st[i] = IF i <= Len(s) THEN s[i] ELSE t[i - Len(s)]
  BY ConcatProperties
<1> HIDE DEF st
<1>6. h[0] = g[Len(s)]
  BY <1>3 DEF After
<1>7. \A i \in 1..n : both[i] = Learn(f, both[i - 1], st[i])
  <2> SUFFICES ASSUME NEW i \in 1..n PROVE both[i] = Learn(f, both[i - 1], st[i])
    OBVIOUS
  <2>0. i \in 0..n /\ i - 1 \in 0..n
    BY <1>2, <1>4
  <2>1. CASE i <= Len(s)
    <3>1. both[i] = g[i] /\ both[i - 1] = g[i - 1] /\ st[i] = s[i] /\ i \in 1..Len(s)
      BY <1>2, <1>5, <2>0, <2>1
    <3> QED
      BY <1>1, <3>1 DEF After
  <2>2. CASE ~ (i <= Len(s))
    <3> DEFINE j == i - Len(s)
    <3>1. j \in 1..Len(t) /\ (i - 1) - Len(s) = j - 1
      BY <1>2, <1>4, <2>2
    <3>2. both[i] = h[j] /\ st[i] = t[j]
      BY <1>5, <2>0, <2>2
    <3>3. both[i - 1] = h[j - 1]
      <4>1. CASE i - 1 = Len(s)
        BY <1>2, <1>6, <2>0, <3>1, <4>1
      <4>2. CASE i - 1 # Len(s)
        BY <1>2, <2>0, <2>2, <3>1, <4>2
      <4> QED  BY <4>1, <4>2
    <3>4. h[j] = Learn(f, h[j - 1], t[j])
      BY <1>3, <3>1 DEF After
    <3> HIDE DEF j, both
    <3> QED
      BY <3>2, <3>3, <3>4
  <2> QED  BY <2>1, <2>2
<1>8. both[0] = known /\ both[n] = h[Len(t)]
  <2>1. both[0] = known
    BY <1>1, <1>2, <1>4 DEF After
  <2>2. CASE Len(t) = 0
    BY <1>2, <1>4, <1>6, <2>2
  <2>3. CASE Len(t) # 0
    <3>1. n \in 0..n /\ ~ (n <= Len(s)) /\ n - Len(s) = Len(t)
      BY <1>2, <1>4, <2>3
    <3> HIDE DEF n
    <3> QED
      BY <3>1
  <2> QED  BY <2>1, <2>2, <2>3
<1> HIDE DEF both
<1>9. After(f, known, st, both)
  BY <1>5, <1>7, <1>8 DEF After
<1>10. Len(st) \in Nat
  BY <1>2, <1>4, <1>5
<1>11. Heard(f, known, st) = both[n]
  <2>1. Len(st) = n
    BY <1>5
  <2> HIDE DEF n
  <2>2. Heard(f, known, st) = both[Len(st)]
    BY <1>9, <1>10, HeardIs, ZenonT(60)
  <2> QED
    BY <2>1, <2>2
<1> QED
  BY <1>4, <1>8, <1>11 DEF st

-----------------------------------------------------------------------------
(* What is made of what a handler queues.                                  *)
LEMMA HeardTell ==
  ASSUME NEW f \in Fd, NEW known, NEW c, NEW m
  PROVE  Heard(f, known, Tell(c, m)[f]) =
           IF f = c THEN Learn(f, known, m) ELSE known
BY HeardNothing, HeardOne DEF Tell

LEMMA HeardSilence ==
  ASSUME NEW f \in Fd, NEW known
  PROVE  Heard(f, known, Silence[f]) = known
BY HeardNothing DEF Silence

Listens(cs, f, r) ==
  /\ f \in DOMAIN cs
  /\ cs[f].state = STATE_CHAT
  /\ r = Blank \/ cs[f].room_ = r

LEMMA HeardBroadcast ==
  ASSUME NEW f \in Fd, NEW known, NEW cs, NEW m, NEW r
  PROVE  Heard(f, known, broadcast(cs, m, r)[f]) =
           IF Listens(cs, f, r) THEN Learn(f, known, m) ELSE known
BY HeardNothing, HeardOne DEF broadcast, Listens

LEMMA HeardThen ==
  ASSUME NEW f \in Fd, NEW known \in Rosters, NEW q1 \in Queue, NEW q2 \in Queue
  PROVE  Heard(f, known, Then(q1, q2)[f]) =
           Heard(f, Heard(f, known, q1[f]), q2[f])
<1>1. q1[f] \in Seq(Message) /\ q2[f] \in Seq(Message)
  BY DEF Queue
<1>2. Then(q1, q2)[f] = q1[f] \o q2[f]
  BY DEF Then
<1> QED
  BY <1>1, <1>2, HeardConcat

-----------------------------------------------------------------------------
(* A move: who stays in the room c leaves takes c off, who is in the room  *)
(* c enters adds it, and c itself knows nothing of the new room.           *)
LEMMA HeardLeave ==
  ASSUME NEW cs, NEW rs, NEW c \in DOMAIN cs, NEW f \in DOMAIN cs, f # c,
         NEW known, ClientTable(cs), Consistent(Place(cs), rs),
         Follows(cs, f, known), cs[f].state = STATE_CHAT => cs[f].room_ # Blank
  PROVE  LET k == Heard(f, known, LeaveNotices(cs, rs, c)[f])
         IN  k = Unknown \/ /\ cs[f].state = STATE_CHAT
                            /\ k = Members(cs, cs[f].room_) \ {c}
<1> DEFINE k == Heard(f, known, LeaveNotices(cs, rs, c)[f])
<1>1. c \in Fd /\ f \in Fd /\ Place(cs)[c] = cs[c].room_
  BY DEF ClientTable, Place
<1>2. HasRoom(cs, rs, c) <=> cs[c].room_ # Blank
  BY <1>1, RoomExists DEF HasRoom
<1>3. Members(cs, cs[f].room_) # Unknown
  <2>1. Members(cs, cs[f].room_) \in SUBSET Fd
    BY DEF Members, ClientTable
  <2> QED
    BY <2>1, UnknownAssumption
<1>4. CASE cs[c].room_ = Blank
  <2>1. k = known
    BY <1>1, <1>2, <1>4, HeardSilence DEF LeaveNotices
  <2> QED
    BY <1>4, <2>1 DEF Follows, Members
<1>5. CASE cs[c].room_ # Blank
  <2>1. k = IF Listens(cs, f, cs[c].room_)
            THEN Learn(f, known, Notice("left", c, cs[c].room_)) ELSE known
    BY <1>1, <1>2, <1>5, HeardBroadcast DEF LeaveNotices
  <2>2. k = IF Listens(cs, f, cs[c].room_) /\ known # Unknown
            THEN known \ {c} ELSE known
    BY <2>1, LearnLeft
  <2> QED
    BY <1>3, <1>5, <2>2 DEF Follows, Members, Listens
<1> QED
  BY <1>4, <1>5

(* Who is in a room after c has moved to r.                                *)
LEMMA MembersJoined ==
  ASSUME NEW cs, NEW c \in DOMAIN cs, NEW r \in Room, ClientTable(cs)
  PROVE  \A x : Members(JoinClients(cs, c, r), x) =
                 IF x = r THEN Members(cs, x) \cup {c} ELSE Members(cs, x) \ {c}
<1>1. PICK cs1 : cs1 = JoinClients(cs, c, r)
  OBVIOUS
<1>2. /\ DOMAIN cs1 = DOMAIN cs
      /\ cs1[c].room_ = r
      /\ \A d \in DOMAIN cs : d # c => cs1[d] = cs[d]
  BY <1>1, JoinClientsType
<1> QED
  BY <1>1, <1>2 DEF Members

(* Both notices together: everyone else is up to date after them.          *)
LEMMA JoinFollows ==
  ASSUME NEW cs, NEW rs, NEW c \in DOMAIN cs, NEW f \in DOMAIN cs, f # c,
         NEW r \in Room, NEW known \in Rosters,
         ClientTable(cs), Consistent(Place(cs), rs),
         Follows(cs, f, known), cs[f].state = STATE_CHAT => cs[f].room_ # Blank
  PROVE  Follows(JoinClients(cs, c, r), f,
                 Heard(f, known, JoinNotices(cs, rs, c, r)[f]))
<1>1. PICK cs1 : cs1 = JoinClients(cs, c, r)
  OBVIOUS
<1>2. /\ DOMAIN cs1 = DOMAIN cs
      /\ cs1[f] = cs[f]
  BY <1>1, JoinClientsType
<1>3. c \in Fd /\ f \in Fd /\ r # Blank
  BY NamesAssumption DEF ClientTable
<1>4. PICK k1 : k1 = Heard(f, known, LeaveNotices(cs, rs, c)[f])
  OBVIOUS
<1>5. k1 = Unknown \/ /\ cs[f].state = STATE_CHAT
                      /\ k1 = Members(cs, cs[f].room_) \ {c}
  BY <1>4, HeardLeave
<1>6. PICK k2 : k2 = Heard(f, known, JoinNotices(cs, rs, c, r)[f])
  OBVIOUS
<1>7. k2 = Heard(f, k1, broadcast(cs1, Notice("joined", c, r), r)[f])
  <2>1. LeaveNotices(cs, rs, c) \in Queue
    BY NoticesType
  <2>2. broadcast(cs1, Notice("joined", c, r), r) \in Queue
    BY <1>3, NoticeType, BroadcastType
  <2> QED
    BY <1>1, <1>3, <1>4, <1>6, <2>1, <2>2, HeardThen DEF JoinNotices
<1>8. k2 = IF Listens(cs1, f, r) /\ k1 # Unknown THEN k1 \cup {c} ELSE k1
  <2>1. k2 = IF Listens(cs1, f, r) THEN Learn(f, k1, Notice("joined", c, r))
             ELSE k1
    BY <1>3, <1>7, HeardBroadcast
  <2> QED
    BY <2>1, LearnJoined
<1>9. Members(cs1, cs[f].room_) = IF cs[f].room_ = r
                                  THEN Members(cs, cs[f].room_) \cup {c}
                                  ELSE Members(cs, cs[f].room_) \ {c}
  <2>1. \A x : Members(JoinClients(cs, c, r), x) =
                 IF x = r THEN Members(cs, x) \cup {c} ELSE Members(cs, x) \ {c}
    BY MembersJoined, ZenonT(60)
  <2> QED
    BY <1>1, <2>1
<1>10. k2 = Unknown \/ /\ cs[f].state = STATE_CHAT
                       /\ k2 = Members(cs1, cs[f].room_)
  BY <1>2, <1>3, <1>5, <1>8, <1>9 DEF Listens
<1>11. cs[f].state # STATE_CHAT => k2 = Unknown
  BY <1>10
<1> QED
  BY <1>1, <1>2, <1>6, <1>10, <1>11 DEF Follows

(* The client that moves hears itself join, or was at a prompt.            *)
LEMMA JoinForgets ==
  ASSUME NEW cs, NEW rs, NEW c \in DOMAIN cs, NEW r \in Room,
         NEW known \in Rosters, ClientTable(cs),
         cs[c].state = STATE_CHAT \/ known = Unknown
  PROVE  /\ Heard(c, known, JoinNotices(cs, rs, c, r)[c]) = Unknown
         /\ \A k \in Replies :
              Heard(c, known, Then(JoinNotices(cs, rs, c, r),
                                   Tell(c, Reply(k)))[c]) = Unknown
<1>1. PICK cs1 : cs1 = JoinClients(cs, c, r)
  OBVIOUS
<1>2. /\ DOMAIN cs1 = DOMAIN cs
      /\ cs1[c].room_ = r /\ cs1[c].state = cs[c].state
  BY <1>1, JoinClientsType
<1>3. c \in Fd
  BY DEF ClientTable
<1>4. /\ LeaveNotices(cs, rs, c) \in Queue
      /\ JoinNotices(cs, rs, c, r) \in Queue
      /\ broadcast(cs1, Notice("joined", c, r), r) \in Queue
  BY <1>3, NoticesType, NoticeType, BroadcastType
<1>5. PICK k1 : k1 = Heard(c, known, LeaveNotices(cs, rs, c)[c])
  OBVIOUS
<1>6. known = Unknown => k1 = Unknown
  <2>1. CASE HasRoom(cs, rs, c)
    <3>1. k1 = IF Listens(cs, c, cs[c].room_)
               THEN Learn(c, known, Notice("left", c, cs[c].room_)) ELSE known
      BY <1>3, <1>5, <2>1, HeardBroadcast DEF LeaveNotices
    <3> QED
      BY <3>1, LearnLeft
  <2>2. CASE ~ HasRoom(cs, rs, c)
    BY <1>3, <1>5, <2>2, HeardSilence DEF LeaveNotices
  <2> QED  BY <2>1, <2>2
<1>7. PICK k2 : k2 = Heard(c, known, JoinNotices(cs, rs, c, r)[c])
  OBVIOUS
<1>8. k2 = Heard(c, k1, broadcast(cs1, Notice("joined", c, r), r)[c])
  BY <1>1, <1>3, <1>4, <1>5, <1>7, HeardThen DEF JoinNotices
<1>9. k2 = IF Listens(cs1, c, r) THEN Unknown ELSE k1
  BY <1>3, <1>8, HeardBroadcast, LearnJoined
<1>10. k2 = Unknown
  BY <1>2, <1>6, <1>9 DEF Listens
<1>11. ASSUME NEW k \in Replies
       PROVE  Heard(c, known, Then(JoinNotices(cs, rs, c, r),
                                   Tell(c, Reply(k)))[c]) = Unknown
  <2>1. Tell(c, Reply(k)) \in Queue
    BY ReplyType, TellType
  <2>2. Heard(c, k2, Tell(c, Reply(k))[c]) = Unknown
    BY <1>3, <1>10, HeardTell, LearnReply
  <2> QED
    BY <1>3, <1>4, <1>7, <2>1, <2>2, HeardThen
<1> QED
  BY <1>7, <1>10, <1>11

-----------------------------------------------------------------------------
(* The handlers.  Kept(cs, q) is what a handler has to establish of the    *)
(* client table and of the lines it leaves.                                *)
Kept(cs, q) == \A f \in DOMAIN cs : Follows(cs, f, Heard(f, roster[f], q[f]))

(* What a handler starts from.                                             *)
LEMMA Before ==
  ASSUME PInv
  PROVE  /\ ClientTable(clients)
         /\ Consistent(Place(clients), rooms)
         /\ \A f \in DOMAIN clients :
              /\ f \in Fd
              /\ roster[f] \in Rosters
              /\ Follows(clients, f, roster[f])
              /\ Settled(clients[f])
              /\ clients[f].state = STATE_CHAT => clients[f].room_ # Blank
BY DEF PInv, IInv, Sound, ClientTable, Settled, STATE_CHAT, STATE_NICKNAME

(* Nobody moves, and no line changes what anybody knows.                   *)
LEMMA KeptQuiet ==
  ASSUME PInv, NEW q,
         \A f \in DOMAIN clients : Heard(f, roster[f], q[f]) = roster[f]
  PROVE  Kept(clients, q)
BY Before DEF Kept

(* The client c goes to or comes from a prompt, and is the only one told.  *)
LEMMA KeptReply ==
  ASSUME PInv, NEW c \in DOMAIN clients, NEW cs, NEW k \in Replies,
         DOMAIN cs = DOMAIN clients, cs[c].room_ = clients[c].room_,
         \A d \in DOMAIN clients \ {c} : cs[d] = clients[d],
         \/ k \in Forgotten
         \/ roster[c] = Unknown
         \/ cs = clients
  PROVE  Kept(cs, Tell(c, Reply(k)))
<1> SUFFICES ASSUME NEW f \in DOMAIN clients
             PROVE  Follows(cs, f, Heard(f, roster[f], Tell(c, Reply(k))[f]))
  BY DEF Kept
<1>1. f \in Fd /\ Follows(clients, f, roster[f])
  BY Before
<1>2. PICK k1 : k1 = Heard(f, roster[f], Tell(c, Reply(k))[f])
  OBVIOUS
<1>3. k1 = IF f = c /\ k \in Forgotten THEN Unknown ELSE roster[f]
  <2>1. k1 = IF f = c THEN Learn(f, roster[f], Reply(k)) ELSE roster[f]
    BY <1>1, <1>2, HeardTell
  <2> QED
    BY <2>1, LearnReply
<1>4. \A x : Members(cs, x) = Members(clients, x)
  BY DEF Members
<1>5. CASE f = c /\ k1 = Unknown
  BY <1>2, <1>5 DEF Follows
<1>6. CASE ~ (f = c /\ k1 = Unknown)
  <2>1. k1 = roster[f] /\ cs[f] = clients[f]
    BY <1>3, <1>6
  <2>2. Follows(cs, f, roster[f])
    BY <1>1, <1>4, <2>1 DEF Follows
  <2> QED
    BY <1>2, <2>1, <2>2
<1> QED
  BY <1>5, <1>6

(* The client c moves into a room: by a command, or, with a reply, by its  *)
(* nickname or by its answer to a prompt.                                  *)
LEMMA JoinKept ==
  ASSUME NEW cs, NEW c \in DOMAIN cs, NEW r \in Room,
         ClientTable(cs), Consistent(Place(cs), rooms),
         cs[c].state = STATE_CHAT \/ roster[c] = Unknown,
         roster[c] \in Rosters,
         \A f \in DOMAIN cs \ {c} :
           /\ roster[f] \in Rosters
           /\ Follows(cs, f, roster[f])
           /\ cs[f].state = STATE_CHAT => cs[f].room_ # Blank
  PROVE  /\ Kept(JoinClients(cs, c, r), JoinNotices(cs, rooms, c, r))
         /\ \A k \in Replies : \A cs2 :
              /\ DOMAIN cs2 = DOMAIN cs
              /\ cs2[c].room_ = r
              /\ \A d \in DOMAIN cs \ {c} : cs2[d] = cs[d]
              => Kept(cs2, Then(JoinNotices(cs, rooms, c, r), Tell(c, Reply(k))))
<1>1. PICK cs1, q : cs1 = JoinClients(cs, c, r) /\ q = JoinNotices(cs, rooms, c, r)
  OBVIOUS
<1>2. /\ DOMAIN cs1 = DOMAIN cs /\ cs1[c].room_ = r
      /\ \A d \in DOMAIN cs \ {c} : cs1[d] = cs[d]
  BY <1>1, JoinClientsType
<1>3. \A f \in DOMAIN cs \ {c} : Follows(cs1, f, Heard(f, roster[f], q[f]))
  BY <1>1, JoinFollows
<1>4. /\ Heard(c, roster[c], q[c]) = Unknown
      /\ \A k \in Replies :
           Heard(c, roster[c], Then(q, Tell(c, Reply(k)))[c]) = Unknown
  BY <1>1, JoinForgets
<1>5. Kept(cs1, q)
  <2>1. Follows(cs1, c, Unknown)
    BY DEF Follows
  <2> QED
    BY <1>2, <1>3, <1>4, <2>1 DEF Kept
<1>6. ASSUME NEW k \in Replies, NEW cs2, DOMAIN cs2 = DOMAIN cs, cs2[c].room_ = r,
             \A d \in DOMAIN cs \ {c} : cs2[d] = cs[d]
      PROVE  Kept(cs2, Then(q, Tell(c, Reply(k))))
  <2>1. PICK t : t = Tell(c, Reply(k))
    OBVIOUS
  <2>2. t \in Queue /\ q \in Queue
    BY <1>1, <2>1, ReplyType, TellType, NoticesType
  <2>3. \A x : Members(cs2, x) = Members(cs1, x)
    BY <1>2, <1>6 DEF Members
  <2>4. ASSUME NEW f \in DOMAIN cs \ {c}
        PROVE  Follows(cs2, f, Heard(f, roster[f], Then(q, t)[f]))
    <3>1. f \in Fd
      BY DEF ClientTable
    <3>2. Heard(f, roster[f], q[f]) \in Rosters
      BY <2>2, <3>1, HeardType DEF Queue
    <3>3. Heard(f, roster[f], Then(q, t)[f]) = Heard(f, roster[f], q[f])
      <4>1. Heard(f, roster[f], Then(q, t)[f]) =
              Heard(f, Heard(f, roster[f], q[f]), t[f])
        BY <2>2, <3>1, HeardThen
      <4> QED
        BY <2>1, <3>1, <4>1, HeardTell
    <3>4. Follows(cs1, f, Heard(f, roster[f], q[f])) /\ cs1[f] = cs2[f]
      BY <1>2, <1>3, <1>6
    <3> QED
      BY <2>3, <3>3, <3>4 DEF Follows
  <2>5. Follows(cs2, c, Heard(c, roster[c], Then(q, t)[c]))
    BY <1>4, <2>1 DEF Follows
  <2> QED
    BY <1>6, <2>1, <2>4, <2>5 DEF Kept
<1> QED
  BY <1>1, <1>5, <1>6

-----------------------------------------------------------------------------
(* One lemma per handler.  A new client knows nothing.                     *)
LEMMA AcceptKept ==
  ASSUME PInv, NEW c \in Fd, accept_new_client(c)
  PROVE  Kept(clients', queued')
<1>1. CASE queued' = Silence /\ UNCHANGED clients
  BY <1>1, Before, HeardSilence, KeptQuiet
<1>2. CASE /\ clients' = [f \in DOMAIN clients \cup {c} |->
                            IF f = c THEN NewClient ELSE clients[f]]
           /\ queued' = Tell(c, Reply("enter nickname"))
  <2>1. c \notin DOMAIN clients
    BY DEF accept_new_client
  <2>2. /\ DOMAIN clients' = DOMAIN clients \cup {c}
        /\ clients'[c].room_ = Blank
        /\ \A d \in DOMAIN clients : clients'[d] = clients[d]
    BY <1>2, <2>1 DEF NewClient
  <2>3. Heard(c, roster[c], queued'[c]) = Unknown
    <3>1. Heard(c, roster[c], queued'[c]) =
            Learn(c, roster[c], Reply("enter nickname"))
      BY <1>2, HeardTell
    <3> QED
      BY <3>1, LearnReply DEF Replies, Forgotten
  <2>4. ASSUME NEW f \in DOMAIN clients
        PROVE  Follows(clients', f, Heard(f, roster[f], queued'[f]))
    <3>1. Heard(f, roster[f], queued'[f]) = roster[f]
      <4>1. f \in Fd /\ f # c
        BY <2>1, Before
      <4>2. PICK m : m = Reply("enter nickname")
        OBVIOUS
      <4>3. Heard(f, roster[f], Tell(c, m)[f]) = roster[f]
        BY <4>1, HeardTell
      <4> QED
        BY <1>2, <4>2, <4>3
    <3>2. clients'[f].state = STATE_CHAT =>
            Members(clients', clients'[f].room_) =
              Members(clients, clients[f].room_)
      BY <2>1, <2>2, Before DEF Members
    <3> QED
      BY <2>2, <3>1, <3>2, Before DEF Follows
  <2> QED
    BY <2>2, <2>3, <2>4 DEF Kept, Follows
<1> QED
  BY <1>1, <1>2 DEF accept_new_client

(* A lost connection: who was in the room is told that c left it.          *)
LEMMA DisconnectKept ==
  ASSUME PInv, NEW c \in Fd, disconnect_client(c)
  PROVE  Kept(clients', queued')
<1>1. /\ c \in DOMAIN clients
      /\ DOMAIN clients' = DOMAIN clients \ {c}
      /\ \A d \in DOMAIN clients' : clients'[d] = clients[d]
  BY DEF disconnect_client, Restrict
<1>2. PICK q : q = LeaveNotices(clients, rooms, c)
  OBVIOUS
<1>3. PICK t : t = send_disconnect_notification(c)
  OBVIOUS
<1>4. q \in Queue /\ t \in Queue
  <2>1. [kind |-> "left server", who |-> c] \in Message
    BY DEF Message
  <2> QED
    <3>1. t \in Queue
      <4> DEFINE m == [kind |-> "left server", who |-> c]
                 told(f) == /\ f \in DOMAIN clients
                            /\ clients[f].state = STATE_CHAT
                            /\ clients[c].nickname # Blank
      <4>1. t = [f \in Fd |-> IF told(f) THEN <<m>> ELSE <<>>]
        BY <1>3 DEF send_disconnect_notification
      <4>2. m \in Message
        BY <2>1
      <4> HIDE DEF m, told
      <4>3. \A f \in Fd : (IF told(f) THEN <<m>> ELSE <<>>) \in Seq(Message)
        BY <4>2
      <4> QED
        BY <4>1, <4>3 DEF Queue
    <3>2. Lobby \in Room
      BY NamesAssumption
    <3> QED
      BY <1>1, <1>2, <3>1, <3>2, Before, NoticesType
<1> SUFFICES ASSUME NEW f \in DOMAIN clients'
             PROVE  Follows(clients', f, Heard(f, roster[f], queued'[f]))
  BY DEF Kept
<1>5. f \in DOMAIN clients /\ f # c /\ f \in Fd
  BY <1>1, Before
<1>6. queued'[f] = Then(q, t)[f]
  BY <1>2, <1>3, <1>5 DEF disconnect_client, Then
<1>7. PICK k1 : k1 = Heard(f, roster[f], q[f])
  OBVIOUS
<1>8. k1 = Unknown \/ /\ clients[f].state = STATE_CHAT
                      /\ k1 = Members(clients, clients[f].room_) \ {c}
  BY <1>1, <1>2, <1>5, <1>7, Before, HeardLeave
<1>9. Heard(f, k1, t[f]) = k1
  <2> DEFINE m == [kind |-> "left server", who |-> c]
  <2>1. t[f] = <<m>> \/ t[f] = <<>>
    BY <1>3, <1>5 DEF send_disconnect_notification
  <2>2. m.kind = "left server"
    OBVIOUS
  <2> HIDE DEF m
  <2>3. Learn(f, k1, m) = k1
    BY <2>2 DEF Learn, Forgotten
  <2> QED
    BY <2>1, <2>3, HeardNothing, HeardOne
<1>10. Heard(f, roster[f], queued'[f]) = k1
  BY <1>4, <1>5, <1>6, <1>7, <1>9, Before, HeardThen
<1>11. Members(clients', clients[f].room_) = Members(clients, clients[f].room_) \ {c}
  BY <1>1 DEF Members
<1> QED
  BY <1>1, <1>8, <1>10, <1>11 DEF Follows

(* A client that gets its nickname enters the lobby.                       *)
LEMMA SetNicknameKept ==
  ASSUME PInv, NEW c \in Fd, NEW nick \in Nick \cup {Blank},
         set_nickname(c, nick)
  PROVE  Kept(clients', queued')
<1>1. c \in DOMAIN clients /\ ClientTable(clients)
  BY Before DEF set_nickname
<1>2. PICK cs : cs = Named(c, nick)
  OBVIOUS
<1>3. /\ DOMAIN cs = DOMAIN clients
      /\ ClientTable(cs)
      /\ Place(cs) = Place(clients)
      /\ cs[c].state = STATE_CHAT
      /\ \A d \in DOMAIN cs \ {c} : cs[d] = clients[d]
  BY <1>1, <1>2, NamedType
<1>4. \A f \in DOMAIN cs \ {c} : Follows(cs, f, roster[f])
  <2> SUFFICES ASSUME NEW f \in DOMAIN cs \ {c}
               PROVE  Follows(cs, f, roster[f])
    OBVIOUS
  <2>1. cs[c].room_ = clients[c].room_
    BY <1>1, <1>3 DEF Place, ClientTable
  <2>2. \A x : Members(cs, x) = Members(clients, x)
    BY <1>3, <2>1 DEF Members
  <2> QED
    BY <1>3, <2>2, Before DEF Follows
<1>5. /\ Consistent(Place(cs), rooms)
      /\ \A f \in DOMAIN cs : roster[f] \in Rosters
      /\ \A f \in DOMAIN cs \ {c} : cs[f].state = STATE_CHAT => cs[f].room_ # Blank
  BY <1>3, Before
<1>6. PICK cs1 : cs1 = JoinClients(cs, c, Lobby)
  OBVIOUS
<1>7. /\ DOMAIN cs1 = DOMAIN cs
      /\ cs1[c].room_ = Lobby
      /\ \A d \in DOMAIN cs \ {c} : cs1[d] = cs[d]
  BY <1>1, <1>3, <1>6, JoinClientsType, NamesAssumption
<1>8. Kept(cs1, Then(JoinNotices(cs, rooms, c, Lobby), Tell(c, Reply("welcome"))))
  BY <1>1, <1>3, <1>4, <1>5, <1>7, JoinKept, NamesAssumption DEF Replies
<1> QED
  BY <1>2, <1>6, <1>8 DEF set_nickname

(* A client that answered a prompt followed no room while it was asked.    *)
LEMMA AskedKnowsNothing ==
  ASSUME PInv, NEW c \in DOMAIN clients, clients[c].state \in Prompted
  PROVE  roster[c] = Unknown
BY Before DEF Follows, Prompted, STATE_CHAT, STATE_SETUP_ROOM_PASSWORD,
   STATE_ENTER_ROOM_PASSWORD

(* Coming back from a prompt changes no room.                              *)
LEMMA BackToChatType ==
  ASSUME NEW cs, NEW c \in DOMAIN cs, ClientTable(cs)
  PROVE  /\ DOMAIN BackToChat(cs, c) = DOMAIN cs
         /\ BackToChat(cs, c)[c].room_ = cs[c].room_
         /\ \A d \in DOMAIN cs \ {c} : BackToChat(cs, c)[d] = cs[d]
BY DEF BackToChat, ClientTable, Client

(* The answer that is accepted takes the client into the room.             *)
LEMMA AnswerKept ==
  ASSUME PInv, NEW c \in DOMAIN clients, clients[c].state \in Prompted,
         NEW r \in Room, NEW k \in Replies
  PROVE  Kept(BackToChat(JoinClients(clients, c, r), c),
              Then(JoinNotices(clients, rooms, c, r), Tell(c, Reply(k))))
<1>1. PICK cs1 : cs1 = JoinClients(clients, c, r)
  OBVIOUS
<1>2. PICK cs2 : cs2 = BackToChat(cs1, c)
  OBVIOUS
<1>3. /\ ClientTable(cs1)
      /\ DOMAIN cs1 = DOMAIN clients
      /\ cs1[c].room_ = r
      /\ \A d \in DOMAIN clients \ {c} : cs1[d] = clients[d]
  BY <1>1, Before, JoinClientsType
<1>4. /\ DOMAIN cs2 = DOMAIN clients
      /\ cs2[c].room_ = r
      /\ \A d \in DOMAIN clients \ {c} : cs2[d] = clients[d]
  BY <1>2, <1>3, BackToChatType
<1>5. roster[c] = Unknown
  BY AskedKnowsNothing
<1>6. Kept(cs2, Then(JoinNotices(clients, rooms, c, r), Tell(c, Reply(k))))
  BY <1>4, <1>5, Before, JoinKept
<1> QED
  BY <1>1, <1>2, <1>6

(* The two handlers of an answer.                                          *)
LEMMA SetupPasswordKept ==
  ASSUME PInv, NEW c \in Fd, NEW pw, setup_password(c, pw)
  PROVE  Kept(clients', queued')
<1>1. c \in DOMAIN clients /\ clients[c].state \in Prompted
  BY DEF setup_password, Prompted
<1>2. PICK r : r = clients[c].connected_room_
  OBVIOUS
<1>3. r \in Room
  BY <1>1, <1>2, PromptedRoom DEF PInv
<1>4. "room created" \in Replies
  BY DEF Replies
<1> QED
  BY <1>1, <1>2, <1>3, <1>4, AnswerKept DEF setup_password

LEMMA EnterPasswordKept ==
  ASSUME PInv, NEW c \in Fd, NEW pw, enter_password(c, pw)
  PROVE  Kept(clients', queued')
<1>1. c \in DOMAIN clients /\ clients[c].state \in Prompted
  BY DEF enter_password, Prompted
<1>2. PICK r : r = clients[c].connected_room_
  OBVIOUS
<1>3. r \in Room
  BY <1>1, <1>2, PromptedRoom DEF PInv
<1>4. {"room deleted", "incorrect password", "password success"} \subseteq Replies
  BY DEF Replies
<1>5. ASSUME NEW k \in Replies, RejectPassword(c, k)
      PROVE  Kept(clients', queued')
  <2>1. /\ DOMAIN clients' = DOMAIN clients
        /\ clients'[c].room_ = clients[c].room_
        /\ \A d \in DOMAIN clients \ {c} : clients'[d] = clients[d]
    BY <1>1, <1>5, Before, BackToChatType DEF RejectPassword
  <2>2. roster[c] = Unknown
    BY <1>1, AskedKnowsNothing
  <2> QED
    BY <1>1, <1>5, <2>1, <2>2, KeptReply DEF RejectPassword
<1>6. ASSUME clients' = BackToChat(JoinClients(clients, c, r), c),
             queued' = Then(JoinNotices(clients, rooms, c, r),
                            Tell(c, Reply("password success")))
      PROVE  Kept(clients', queued')
  BY <1>1, <1>3, <1>4, <1>6, AnswerKept
<1> QED
  BY <1>2, <1>4, <1>5, <1>6 DEF enter_password

(* Chat lines, private messages and lists of rooms say nothing of who is   *)
(* in the room.                                                            *)
LEMMA PlainMessageKept ==
  ASSUME PInv, NEW c \in Fd, handle_plain_message(c)
  PROVE  Kept(clients', queued')
<1>1. PICK r : r = clients[c].room_
  OBVIOUS
<1>2. PICK m : m = Notice("chat", c, r)
  OBVIOUS
<1>3. m.kind = "chat"
  BY <1>2 DEF Notice
<1>4. ASSUME NEW f \in DOMAIN clients
      PROVE  Heard(f, roster[f], broadcast(clients, m, r)[f]) = roster[f]
  <2>1. Learn(f, roster[f], m) = roster[f]
    BY <1>3 DEF Learn, Forgotten
  <2>2. f \in Fd
    BY Before
  <2> QED
    BY <2>1, <2>2, HeardBroadcast
<1>5. Kept(clients, broadcast(clients, m, r))
  BY <1>4, KeptQuiet
<1> QED
  BY <1>1, <1>2, <1>5 DEF handle_plain_message

(* A private message is two lines, to one or two clients.                  *)
LEMMA PrivateMessageKept ==
  ASSUME PInv, NEW c \in Fd, NEW target, handle_private_message(c, target)
  PROVE  Kept(clients', queued')
<1>1. c \in DOMAIN clients
  BY DEF handle_private_message, Chatting
<1>2. ASSUME NEW d \in Matches(target)
      PROVE  Kept(clients, Then(Tell(d, [kind |-> "private from", who |-> c]),
                                Tell(c, [kind |-> "private to", who |-> d])))
  <2>1. d \in Fd
    BY Before DEF Matches
  <2>2. PICK m1, m2 : /\ m1 = [kind |-> "private from", who |-> c]
                      /\ m2 = [kind |-> "private to", who |-> d]
    OBVIOUS
  <2>3. /\ m1 \in Message /\ m1.kind = "private from"
        /\ m2 \in Message /\ m2.kind = "private to"
    BY <2>1, <2>2 DEF Message
  <2>4. PICK q1, q2 : q1 = Tell(d, m1) /\ q2 = Tell(c, m2)
    OBVIOUS
  <2>5. q1 \in Queue /\ q2 \in Queue
    BY <2>3, <2>4, TellType
  <2>6. ASSUME NEW f \in DOMAIN clients
        PROVE  Heard(f, roster[f], Then(q1, q2)[f]) = roster[f]
    <3>1. f \in Fd /\ roster[f] \in Rosters
      BY Before
    <3>2. /\ Learn(f, roster[f], m1) = roster[f]
          /\ Learn(f, roster[f], m2) = roster[f]
      BY <2>3 DEF Learn, Forgotten
    <3>3. /\ Heard(f, roster[f], q1[f]) = roster[f]
          /\ Heard(f, roster[f], q2[f]) = roster[f]
      BY <2>4, <3>1, <3>2, HeardTell
    <3> QED
      BY <2>5, <3>1, <3>3, HeardThen
  <2>7. Kept(clients, Then(q1, q2))
    BY <2>6, KeptQuiet
  <2> QED
    BY <2>2, <2>4, <2>7
<1>3. Kept(clients, Tell(c, Reply("not found")))
  <2>1. "not found" \in Replies
    BY DEF Replies
  <2> QED
    BY <1>1, <2>1, KeptReply
<1> QED
  BY <1>2, <1>3 DEF handle_private_message

LEMMA RoomsListKept ==
  ASSUME PInv, NEW c \in Fd, handle_rooms_list(c)
  PROVE  Kept(clients', queued')
<1>1. PICK m : m = [kind |-> "rooms",
                    counts |-> {<<r, rooms[r].user_count_>> : r \in DOMAIN rooms}]
  OBVIOUS
<1>2. m.kind = "rooms"
  BY <1>1
<1>3. ASSUME NEW f \in DOMAIN clients
      PROVE  Heard(f, roster[f], Tell(c, m)[f]) = roster[f]
  <2>1. Learn(f, roster[f], m) = roster[f]
    BY <1>2 DEF Learn, Forgotten
  <2>2. f \in Fd
    BY Before
  <2> QED
    BY <2>1, <2>2, HeardTell
<1>4. Kept(clients, Tell(c, m))
  BY <1>3, KeptQuiet
<1> QED
  BY <1>1, <1>4 DEF handle_rooms_list, Answer

(* The list names exactly the clients of the room.                         *)
LEMMA OnlineListKept ==
  ASSUME PInv, NEW c \in Fd, handle_online_list(c)
  PROVE  Kept(clients', queued')
<1>1. c \in DOMAIN clients /\ clients[c].state = STATE_CHAT
  BY DEF handle_online_list, Chatting
<1>2. PICK here : here = InRoom(clients[c].room_)
  OBVIOUS
<1>3. PICK m : m = [kind |-> "online", names |-> here]
  OBVIOUS
<1>4. m.kind = "online" /\ m.names = here
  BY <1>3
<1>5. here = Members(clients, clients[c].room_)
  BY <1>2 DEF InRoom, Members
<1>6. ASSUME NEW f \in DOMAIN clients
      PROVE  Follows(clients, f, Heard(f, roster[f], Tell(c, m)[f]))
  <2>1. Learn(f, roster[f], m) = here
    BY <1>4 DEF Learn, Forgotten
  <2>2. f \in Fd /\ Follows(clients, f, roster[f])
    BY Before
  <2>3. Heard(f, roster[f], Tell(c, m)[f]) = IF f = c THEN here ELSE roster[f]
    BY <2>1, <2>2, HeardTell
  <2>4. Follows(clients, c, here)
    BY <1>1, <1>5 DEF Follows
  <2> QED
    BY <2>2, <2>3, <2>4
<1>7. Kept(clients, Tell(c, m))
  BY <1>6 DEF Kept
<1> QED
  BY <1>2, <1>3, <1>7 DEF handle_online_list, Answer

(* A client sent to a prompt follows its room no longer.                   *)
LEMMA AskKept ==
  ASSUME PInv, NEW c \in DOMAIN clients, NEW r, NEW state,
         NEW prompt \in Replies \cap Forgotten, Ask(c, r, state, prompt)
  PROVE  Kept(clients', queued')
<1>1. /\ DOMAIN clients' = DOMAIN clients
      /\ clients'[c].room_ = clients[c].room_
      /\ \A d \in DOMAIN clients \ {c} : clients'[d] = clients[d]
  BY Before DEF Ask, ClientTable, Client
<1> QED
  BY <1>1, KeptReply DEF Ask

(* A command that moves its client.                                        *)
LEMMA MoveKept ==
  ASSUME PInv, NEW c \in DOMAIN clients, clients[c].state = STATE_CHAT,
         NEW r \in Room
  PROVE  Kept(JoinClients(clients, c, r), JoinNotices(clients, rooms, c, r))
BY Before, JoinKept

LEMMA JoinRoomKept ==
  ASSUME PInv, NEW c \in Fd, NEW r \in Room, handle_join_room(c, r)
  PROVE  Kept(clients', queued')
<1>1. c \in DOMAIN clients /\ clients[c].state = STATE_CHAT
  BY DEF handle_join_room, Chatting
<1>2. CASE AlreadyInRoom(c, r)
  <2>1. "already in room" \in Replies
    BY DEF Replies
  <2> QED
    BY <1>1, <1>2, <2>1, KeptReply DEF AlreadyInRoom, Answer
<1>3. CASE AskToCreate(c, r)
  <2>1. "create password" \in Replies \cap Forgotten
    BY DEF Replies, Forgotten
  <2> QED
    BY <1>1, <1>3, <2>1, AskKept DEF AskToCreate
<1>4. CASE JoinOpenRoom(c, r)
  BY <1>1, <1>4, MoveKept DEF JoinOpenRoom
<1>5. CASE AskPassword(c, r)
  <2>1. "enter password" \in Replies \cap Forgotten
    BY DEF Replies, Forgotten
  <2> QED
    BY <1>1, <1>5, <2>1, AskKept DEF AskPassword
<1> QED
  BY <1>2, <1>3, <1>4, <1>5 DEF handle_join_room

LEMMA LeaveRoomKept ==
  ASSUME PInv, NEW c \in Fd, handle_leave_room(c)
  PROVE  Kept(clients', queued')
<1>1. c \in DOMAIN clients /\ clients[c].state = STATE_CHAT
  BY DEF handle_leave_room, Chatting
<1>2. "in lobby" \in Replies /\ Lobby \in Room
  BY NamesAssumption DEF Replies
<1>3. Kept(clients, Tell(c, Reply("in lobby")))
  BY <1>1, <1>2, KeptReply
<1>4. Kept(JoinClients(clients, c, Lobby), JoinNotices(clients, rooms, c, Lobby))
  BY <1>1, <1>2, MoveKept
<1> QED
  BY <1>3, <1>4 DEF handle_leave_room, Answer

LEMMA UnknownKept ==
  ASSUME PInv, NEW c \in Fd, ignore_unknown(c)
  PROVE  Kept(clients', queued')
BY Before, HeardSilence, KeptQuiet DEF ignore_unknown

(* So every step of the server is followed by its notices.                 *)
LEMMA NextKept ==
  ASSUME PInv, Next
  PROVE  Kept(clients', queued')
<1>1. PICK c \in Fd : accept_new_client(c) \/ process_message(c) \/ disconnect_client(c)
  BY DEF Next
<1>2. CASE accept_new_client(c)
  BY <1>2, AcceptKept
<1>3. CASE disconnect_client(c)
  BY <1>3, DisconnectKept
<1>4. CASE process_message(c)
  <2>1. CASE execute(c)
    BY <2>1, PlainMessageKept, PrivateMessageKept, JoinRoomKept, LeaveRoomKept,
       OnlineListKept, RoomsListKept, UnknownKept DEF execute
  <2>2. CASE ~ execute(c)
    BY <1>4, <2>2, SetNicknameKept, SetupPasswordKept, EnterPasswordKept
    DEF process_message
  <2> QED
    BY <2>1, <2>2
<1> QED
  BY <1>1, <1>2, <1>3, <1>4

-----------------------------------------------------------------------------
(* The invariant holds at the start, is kept by every step, and is enough. *)
LEMMA PresenceInit == PInit => PInv
BY SoundInit DEF PInit, PInv, Rosters, Init

LEMMA PresenceStep == PInv /\ [PNext]_<<vars, roster>> => PInv'
<1> SUFFICES ASSUME PInv, [PNext]_<<vars, roster>>
             PROVE  PInv'
  OBVIOUS
<1>1. CASE UNCHANGED <<vars, roster>>
  BY <1>1 DEF vars, PInv, IInv
<1>2. CASE PNext
  <2>1. Next /\ roster' = [f \in Fd |-> Heard(f, roster[f], queued'[f])]
    BY <1>2 DEF PNext
  <2>2. IInv'
    BY <2>1, SoundStep DEF PInv
  <2>3. ClientTable(clients') /\ queued' \in Queue
    BY <2>2 DEF IInv, Sound
  <2>4. \A f \in Fd : Heard(f, roster[f], queued'[f]) \in Rosters
    <3> SUFFICES ASSUME NEW f \in Fd
                 PROVE  Heard(f, roster[f], queued'[f]) \in Rosters
      OBVIOUS
    <3>1. roster[f] \in Rosters /\ queued'[f] \in Seq(Message)
      BY <2>3 DEF PInv, Queue
    <3> QED
      BY <3>1, HeardType
  <2>5. roster' \in [Fd -> Rosters]
    BY <2>1, <2>4
  <2>6. Kept(clients', queued')
    BY <2>1, NextKept
  <2>7. \A f \in DOMAIN clients' : Follows(clients', f, roster'[f])
    BY <2>1, <2>3, <2>6 DEF Kept, ClientTable
  <2> QED
    BY <2>2, <2>5, <2>7 DEF PInv
<1> QED
  BY <1>1, <1>2

(* And it says more than the property.                                     *)
LEMMA PresenceMeaning == PInv => RosterAccurate
BY DEF PInv, RosterAccurate, Follows, Members, InRoom

(* A user who asked /online once and then reads the notices of the room    *)
(* knows who is in it, whatever the other clients do and however they go.  *)
THEOREM RosterIsAccurate == PSpec => []RosterAccurate
<1> QED
  BY PresenceInit, PresenceStep, PresenceMeaning, PTL DEF PSpec
=============================================================================
