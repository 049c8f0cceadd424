-------------------------- MODULE EventLoopProofs --------------------------
(***************************************************************************)
(* Edge triggering loses nothing, and no event points to a client that an  *)
(* earlier one of its batch deleted: for any number of connections, any    *)
(* sizes of buffers, batches and tables.                                   *)
(***************************************************************************)
EXTENDS EventLoop, FiniteSetTheorems, TLAPS

OutputRecord == [out_buffer : 0..MaxOut, want_write : BOOLEAN]

(* The part of TypeOK about the tables.                                    *)
Tables ==
  /\ DOMAIN sock \subseteq Conn /\ sock \in [DOMAIN sock -> Socket]
  /\ backlog \subseteq DOMAIN sock
  /\ DOMAIN clients \subseteq DOMAIN sock \ backlog
  /\ clients \in [DOMAIN clients -> OutputRecord]
  /\ epoll \in [DOMAIN clients -> Item]

(* The interest in EPOLLOUT of one client.                                 *)
Agrees(cl, item) ==
  /\ cl.want_write <=> cl.out_buffer > 0
  /\ item.out <=> cl.out_buffer > 0

(* Somebody waits for the events an item is ready for.                     *)
Handling == pc \in {"hang up", "read", "write"}

(* The events of a batch: what they say of a socket stays true of it until *)
(* they are handled, since only their own handler writes to it.            *)
Believed(ev) ==
  /\ ev.who = Listener => ~ ev.out /\ ~ ev.hup
  /\ ev.who # Listener => ev.in \/ ev.out \/ ev.hup
  /\ ev.out => Writable(ev.who)

BatchShape ==
  /\ pc = "wait" => batch = {}
  /\ \A ev \in batch : ev.who \in DOMAIN clients \cup {Listener} /\ Believed(ev)
  /\ \A e1, e2 \in batch : e1.who = e2.who => e1 = e2

EventShape ==
  /\ pc = "accept" => event.who = Listener /\ ~ event.out /\ ~ event.hup
  /\ Handling => /\ event.who \in DOMAIN clients /\ Believed(event)
                 /\ \A ev \in batch : ev.who # event.who
  /\ pc = "read" => ~ event.hup
  /\ pc = "write" => event.out

IInv ==
  /\ TypeOK
  /\ InterestAgrees
  /\ BatchShape
  /\ EventShape
  /\ OutputArmed
  /\ InputArmed

LEMMA TypeParts ==
  TypeOK <=> /\ Tables
             /\ listening \in BOOLEAN
             /\ batch \subseteq Event /\ event \in Event /\ pc \in Places
BY DEF TypeOK, Tables, OutputRecord

-----------------------------------------------------------------------------
(* What the handler of another client may do to client d: queue to it.     *)
Kept(d) ==
  /\ d \in DOMAIN clients
  /\ clients'[d] \in OutputRecord /\ epoll'[d] \in Item
  /\ Agrees(clients'[d], epoll'[d])
  /\ epoll[d].ready => epoll'[d].ready
  /\ clients'[d].out_buffer > 0 =>
       clients[d].out_buffer > 0 \/ epoll'[d].ready \/ ~ Writable(d)

LEMMA QueuedKept ==
  ASSUME Tables, InterestAgrees, NEW to \in SUBSET DOMAIN clients,
         Queueable(clients, to), NEW d \in DOMAIN clients
  PROVE  LET cl == Queued(clients, to)[d]
             item == Interested(clients, epoll, to)[d]
         IN  /\ cl \in OutputRecord /\ item \in Item
             /\ Agrees(cl, item)
             /\ epoll[d].ready => item.ready
             /\ cl.out_buffer > 0 =>
                  clients[d].out_buffer > 0 \/ item.ready \/ ~ Writable(d)
<1>1. clients[d] \in OutputRecord /\ epoll[d] \in Item /\ sock[d] \in Socket
  BY DEF Tables
<1>2. Agrees(clients[d], epoll[d])
  BY DEF InterestAgrees, Agrees
<1>3. Readable(d) \in BOOLEAN /\ Writable(d) \in BOOLEAN
  BY DEF Readable, Writable
<1>4. CASE d \notin to
  BY <1>1, <1>2, <1>4 DEF Queued, Interested, Tables
<1>5. CASE d \in to
  <2> DEFINE cl == [out_buffer |-> clients[d].out_buffer + 1, want_write |-> TRUE]
  <2>1. Queued(clients, to)[d] = cl
    BY <1>5 DEF Queued
  <2>2. clients[d].out_buffer \in 0..MaxOut /\ clients[d].out_buffer < MaxOut
    BY <1>1, <1>5 DEF Queueable, OutputRecord
  <2>3. cl \in OutputRecord /\ cl.out_buffer > 0
    BY <2>2, LoopAssumption DEF OutputRecord
  <2>4. CASE clients[d].want_write
    <3>1. Interested(clients, epoll, to)[d] = epoll[d]
      BY <2>4 DEF Interested, Tables
    <3> QED
      BY <1>1, <1>2, <2>1, <2>3, <2>4, <3>1 DEF Agrees
  <2>5. CASE ~ clients[d].want_write
    <3>1. Interested(clients, epoll, to)[d] = Modified(epoll[d], d, TRUE)
      BY <1>5, <2>5 DEF Interested, Tables
    <3>2. /\ Modified(epoll[d], d, TRUE) \in Item
          /\ Modified(epoll[d], d, TRUE).out
          /\ Modified(epoll[d], d, TRUE).ready <=>
               epoll[d].ready \/ Readable(d) \/ Writable(d)
      BY <1>1, <1>3 DEF Modified, Registered, Item
    <3>3. Agrees(cl, Modified(epoll[d], d, TRUE))
      BY <2>3, <3>2 DEF Agrees
    <3> HIDE DEF cl
    <3> QED
      BY <2>1, <2>3, <3>1, <3>2, <3>3
  <2> QED
    BY <2>4, <2>5
<1> QED
  BY <1>4, <1>5

LEMMA QueueKeeps ==
  ASSUME Tables, InterestAgrees, NEW to \in SUBSET DOMAIN clients, queue_message(to)
  PROVE  /\ DOMAIN clients' = DOMAIN clients
         /\ clients' \in [DOMAIN clients' -> OutputRecord]
         /\ epoll' \in [DOMAIN clients' -> Item]
         /\ \A d \in DOMAIN clients' : Kept(d)
<1>1. /\ clients' = Queued(clients, to)
      /\ epoll' = Interested(clients, epoll, to)
      /\ Queueable(clients, to)
  BY DEF queue_message
<1>2. \A d \in DOMAIN clients : Kept(d)
  BY <1>1, QueuedKept DEF Kept
<1>3. /\ DOMAIN clients' = DOMAIN clients
      /\ clients' = [d \in DOMAIN clients |-> clients'[d]]
      /\ epoll' = [d \in DOMAIN clients |-> epoll'[d]]
  BY <1>1 DEF Queued, Interested, Tables
<1> QED
  BY <1>2, <1>3 DEF Kept

LEMMA DisconnectKeeps ==
  ASSUME Tables, InterestAgrees, NEW c \in DOMAIN clients, disconnect_client(c)
  PROVE  /\ DOMAIN clients' = DOMAIN clients \ {c}
         /\ Tables'
         /\ UNCHANGED <<backlog, listening>>
         /\ \A d \in DOMAIN clients' : Kept(d) /\ sock'[d] = sock[d]
<1>1. PICK to \in SUBSET (DOMAIN clients \ {c}) :
        /\ Queueable(clients, to)
        /\ clients' = Without(Queued(clients, to), c)
        /\ epoll' = Without(Interested(clients, epoll, to), c)
  BY DEF disconnect_client
<1>2. /\ DOMAIN clients' = DOMAIN clients \ {c}
      /\ clients' = [d \in DOMAIN clients \ {c} |-> Queued(clients, to)[d]]
      /\ epoll' = [d \in DOMAIN clients \ {c} |-> Interested(clients, epoll, to)[d]]
  BY <1>1 DEF Without, Restrict, Queued, Interested, Tables
<1>3. /\ sock' = [d \in DOMAIN sock \ {c} |-> sock[d]]
      /\ UNCHANGED <<backlog, listening>>
  BY DEF disconnect_client, Without, Restrict
<1>4. \A d \in DOMAIN clients' : Kept(d) /\ sock'[d] = sock[d]
  BY <1>1, <1>2, <1>3, QueuedKept DEF Kept, Tables
<1>5. Tables'
  <2>1. /\ DOMAIN sock' \subseteq Conn /\ sock' \in [DOMAIN sock' -> Socket]
        /\ backlog' \subseteq DOMAIN sock'
        /\ DOMAIN clients' \subseteq DOMAIN sock' \ backlog'
    BY <1>2, <1>3 DEF Tables
  <2>2. clients' \in [DOMAIN clients' -> OutputRecord] /\ epoll' \in [DOMAIN clients' -> Item]
    BY <1>2, <1>4 DEF Kept
  <2> QED
    BY <2>1, <2>2 DEF Tables
<1> QED
  BY <1>2, <1>3, <1>4, <1>5

-----------------------------------------------------------------------------
(* Steps of the peers.  What a peer does to a socket that makes it newly   *)
(* readable, or writable for who waits for that, makes its item ready; and *)
(* none takes away room to write.                                          *)
Noticed(d) ==
  /\ sock'[d] \in Socket /\ epoll'[d] \in Item
  /\ epoll'[d].out = epoll[d].out
  /\ epoll[d].ready => epoll'[d].ready
  /\ Writable(d) => Writable(d)'
  /\ Readable(d)' => Readable(d) \/ epoll'[d].ready
  /\ Writable(d)' /\ epoll[d].out => Writable(d) \/ epoll'[d].ready

(* send, finish, reset and acknowledge.                                    *)
Affects(c) ==
  /\ c \in DOMAIN sock
  /\ DOMAIN sock' = DOMAIN sock
  /\ sock' = [d \in DOMAIN sock' |-> sock'[d]]
  /\ \A d \in DOMAIN sock \ {c} : sock'[d] = sock[d]
  /\ sock'[c] \in Socket
  /\ Writable(c) => Writable(c)'
  /\ UNCHANGED <<backlog, listening>>
  /\ \/ epoll' = Notified(c)
     \/ /\ epoll' = epoll
        /\ Readable(c)' => Readable(c)
        /\ c \in DOMAIN epoll /\ epoll[c].out /\ Writable(c)' => Writable(c)

LEMMA PeerAffects ==
  ASSUME Tables, NEW c \in Conn,
         send(c) \/ finish(c) \/ reset(c) \/ acknowledge(c)
  PROVE  Affects(c)
<1>1. c \in DOMAIN sock /\ sock[c] \in Socket
  BY DEF Tables, send, finish, reset, acknowledge
<1>2. CASE send(c)
  <2>1. sock' = [sock EXCEPT ![c].rcv = sock[c].rcv + 1] /\ sock[c].rcv < RcvBuf
    BY <1>2 DEF send
  <2>2. sock'[c] = [sock[c] EXCEPT !.rcv = sock[c].rcv + 1]
    BY <1>1, <2>1 DEF Tables
  <2>3. sock'[c] \in Socket /\ sock'[c].snd = sock[c].snd /\ sock'[c].rst = sock[c].rst
    BY <1>1, <2>1, <2>2, BuffersAssumption DEF Socket
  <2> QED
    BY <1>1, <1>2, <2>1, <2>3 DEF Affects, send, Tables, Writable
<1>3. CASE finish(c)
  <2>1. sock'[c] = [sock[c] EXCEPT !.fin = TRUE]
    BY <1>1, <1>3 DEF Tables, finish
  <2>2. sock'[c] \in Socket /\ sock'[c].snd = sock[c].snd /\ sock'[c].rst = sock[c].rst
    BY <1>1, <2>1 DEF Socket
  <2> QED
    BY <1>1, <1>3, <2>2 DEF Affects, finish, Tables, Writable
<1>4. CASE reset(c)
  <2>1. sock'[c] = [sock[c] EXCEPT !.rst = TRUE]
    BY <1>1, <1>4 DEF Tables, reset
  <2>2. sock'[c] \in Socket /\ sock'[c].rst
    BY <1>1, <2>1 DEF Socket
  <2> QED
    BY <1>1, <1>4, <2>2 DEF Affects, reset, Tables, Writable
<1>5. CASE acknowledge(c)
  <2>1. sock'[c] = [sock[c] EXCEPT !.snd = sock[c].snd - 1] /\ sock[c].snd > 0
    BY <1>1, <1>5 DEF Tables, acknowledge
  <2>2. /\ sock'[c] \in Socket
        /\ sock'[c].snd = sock[c].snd - 1 /\ sock[c].snd \in 0..SndBuf
        /\ sock'[c].rcv = sock[c].rcv /\ sock'[c].fin = sock[c].fin
        /\ sock'[c].rst = sock[c].rst
    BY <1>1, <2>1, BuffersAssumption DEF Socket
  <2>3. Writable(c) => Writable(c)'
    BY <2>2, BuffersAssumption DEF Writable
  <2>4. Readable(c)' => Readable(c)
    BY <2>2 DEF Readable
  <2> QED
    BY <1>1, <1>5, <2>2, <2>3, <2>4 DEF Affects, acknowledge, Tables
<1> QED
  BY <1>2, <1>3, <1>4, <1>5

LEMMA AffectedNotices ==
  ASSUME Tables, NEW c \in Conn, Affects(c), UNCHANGED clients
  PROVE  /\ Tables'
         /\ UNCHANGED listening
         /\ \A d \in DOMAIN clients : Noticed(d)
<1>1. sock' \in [DOMAIN sock' -> Socket]
  BY DEF Affects, Tables
<1>2. /\ DOMAIN epoll = DOMAIN clients
      /\ epoll' \in [DOMAIN clients -> Item]
  BY DEF Affects, Tables, Notified, Item
<1>3. Tables'
  BY <1>1, <1>2 DEF Affects, Tables
<1>4. ASSUME NEW d \in DOMAIN clients
      PROVE  Noticed(d)
  <2>1. epoll[d] \in Item /\ epoll'[d] \in Item /\ sock'[d] \in Socket
    BY <1>1, <1>2 DEF Tables, Affects
  <2>2. CASE d # c
    <3>1. sock'[d] = sock[d] /\ epoll'[d] = epoll[d]
      BY <1>2, <2>2 DEF Affects, Tables, Notified
    <3> QED
      BY <2>1, <3>1 DEF Noticed, Readable, Writable
  <2>3. CASE d = c /\ epoll' = Notified(c)
    <3>1. epoll'[c].ready /\ epoll'[c].out = epoll[c].out
      BY <1>2, <2>1, <2>3 DEF Notified, Item
    <3> QED
      BY <2>1, <2>3, <3>1 DEF Noticed, Affects
  <2>4. CASE d = c /\ epoll' # Notified(c)
    BY <1>2, <2>1, <2>4 DEF Noticed, Affects
  <2> QED
    BY <2>2, <2>3, <2>4
<1> QED
  BY <1>3, <1>4 DEF Affects

LEMMA ConnectNotices ==
  ASSUME Tables, NEW c \in Conn, connect(c), UNCHANGED clients
  PROVE  /\ Tables'
         /\ listening' = TRUE
         /\ \A d \in DOMAIN clients : Noticed(d)
<1>1. Fresh \in Socket
  BY BuffersAssumption DEF Fresh, Socket
<1>2. /\ DOMAIN sock' = DOMAIN sock \cup {c}
      /\ sock' = [d \in DOMAIN sock' |-> sock'[d]]
      /\ sock'[c] = Fresh
      /\ \A d \in DOMAIN sock : sock'[d] = sock[d]
      /\ backlog' = backlog \cup {c}
      /\ c \notin DOMAIN sock /\ epoll' = epoll
  BY DEF connect
<1>3. Tables'
  BY <1>1, <1>2 DEF Tables
<1> QED
  BY <1>2, <1>3 DEF Noticed, Readable, Writable, Tables, connect

LEMMA PeerStep ==
  ASSUME IInv, NEW c \in Conn, Peer(c), UNCHANGED loop
  PROVE  IInv'
<1>1. /\ Tables' /\ listening' \in BOOLEAN
      /\ \A d \in DOMAIN clients : Noticed(d)
  BY PeerAffects, AffectedNotices, ConnectNotices, TypeParts DEF Peer, IInv, loop
<1>2. UNCHANGED <<clients, batch, event, pc>>
  BY DEF loop
<1>3. TypeOK'
  BY <1>1, <1>2, TypeParts DEF IInv, TypeOK, Tables, OutputRecord
<1>4. InterestAgrees'
  BY <1>1, <1>2 DEF IInv, InterestAgrees, Noticed
<1>5. ASSUME NEW ev, ev.who \in DOMAIN clients \cup {Listener}, Believed(ev)
      PROVE  Believed(ev)'
  BY <1>1, <1>5 DEF Believed, Noticed
<1>6. BatchShape'
  BY <1>2, <1>5 DEF IInv, BatchShape
<1>7. EventShape'
  BY <1>2, <1>5 DEF IInv, EventShape, Handling
<1>8. OutputArmed'
  BY <1>1, <1>2 DEF IInv, OutputArmed, InterestAgrees, Pending, Noticed
<1>9. InputArmed'
  BY <1>1, <1>2 DEF IInv, InputArmed, Noticed
<1> QED
  BY <1>3, <1>4, <1>6, <1>7, <1>8, <1>9 DEF IInv

-----------------------------------------------------------------------------
(* Steps of the server.  OutputArmed and InputArmed of one client.         *)
OutCover(d) == \E ev \in Pending : ev.who = d /\ (ev.out \/ ev.hup)
InCover(d) ==
  \/ \E ev \in batch : ev.who = d /\ (ev.in \/ ev.hup)
  \/ pc \in {"read", "hang up"} /\ event.who = d

OutArmed(d) ==
  clients[d].out_buffer > 0 => epoll[d].ready \/ ~ Writable(d) \/ OutCover(d)
InArmed(d) == Readable(d) => epoll[d].ready \/ InCover(d)

LEMMA ArmedParts ==
  /\ OutputArmed <=> \A d \in DOMAIN clients : OutArmed(d)
  /\ InputArmed <=> \A d \in DOMAIN clients : InArmed(d)
BY DEF OutputArmed, InputArmed, OutArmed, InArmed, OutCover, InCover

LEMMA ArmedPartsNext ==
  /\ OutputArmed' <=> \A d \in DOMAIN clients' : OutArmed(d)'
  /\ InputArmed' <=> \A d \in DOMAIN clients' : InArmed(d)'
BY DEF OutputArmed, InputArmed, OutArmed, InArmed, OutCover, InCover

(* A client that a step only queues to stays armed, if the step does not   *)
(* take its event.                                                         *)
LEMMA KeptArmed ==
  ASSUME IInv, NEW d, Kept(d),
         Writable(d)' <=> Writable(d), Readable(d)' => Readable(d),
         OutCover(d) => OutCover(d)', InCover(d) => InCover(d)'
  PROVE  OutArmed(d)' /\ InArmed(d)'
<1>1. OutArmed(d) /\ InArmed(d)
  BY ArmedParts DEF IInv, Kept
<1> QED
  BY <1>1 DEF OutArmed, InArmed, Kept

LEMMA InitialState == Init => IInv
<1> SUFFICES ASSUME Init
             PROVE  IInv
  OBVIOUS
<1>1. DOMAIN clients = {} /\ DOMAIN sock = {} /\ DOMAIN epoll = {}
  BY DEF Init
<1>2. TypeOK
  <2>1. \A S : <<>> \in [{} -> S]
    OBVIOUS
  <2>2. NoEvent \in Event
    BY DEF NoEvent, Event
  <2>3. /\ sock \in [DOMAIN sock -> Socket]
        /\ clients \in [DOMAIN clients -> [out_buffer : 0..MaxOut, want_write : BOOLEAN]]
        /\ epoll \in [DOMAIN clients -> Item]
    BY <1>1, <2>1, Zenon DEF Init
  <2> QED
    BY <1>1, <2>2, <2>3 DEF Init, TypeOK, Places
<1> QED
  BY <1>1, <1>2 DEF Init, IInv, InterestAgrees, BatchShape, EventShape, Handling,
     OutputArmed, InputArmed

LEMMA WaitStep ==
  ASSUME IInv, epoll_wait
  PROVE  IInv'
<1>1. PICK taken \in SUBSET Ready :
        /\ batch' = Returned(taken)
        /\ epoll' = [c \in DOMAIN epoll |->
                       IF c \in taken THEN [epoll[c] EXCEPT !.ready = FALSE]
                       ELSE epoll[c]]
        /\ listening' = (listening /\ Listener \notin taken)
  BY DEF epoll_wait
<1>2. /\ pc = "wait" /\ batch = {}
      /\ pc' = IF batch' = {} THEN "wait" ELSE "next"
      /\ UNCHANGED <<sock, backlog, clients, event>>
  BY DEF epoll_wait, IInv, BatchShape
<1>3. Tables /\ listening \in BOOLEAN /\ event \in Event
  BY TypeParts DEF IInv
<1>4. DOMAIN epoll = DOMAIN clients /\ DOMAIN epoll' = DOMAIN clients
  BY <1>1, <1>3 DEF Tables
<1>5. Listener \notin DOMAIN clients
  BY <1>3, LoopAssumption DEF Tables
<1>6. ASSUME NEW c \in DOMAIN clients
      PROVE  /\ EventOf(c) \in Event /\ EventOf(c).who = c
             /\ EventOf(c).in <=> Readable(c)
             /\ EventOf(c).out <=> epoll[c].out /\ Writable(c)
             /\ EventOf(c).hup <=> HungUp(c)
  <2>1. epoll[c] \in Item /\ sock[c] \in Socket /\ c \in Conn
    BY <1>3, <1>6 DEF Tables
  <2>2. Readable(c) \in BOOLEAN /\ Writable(c) \in BOOLEAN /\ HungUp(c) \in BOOLEAN
    BY <2>1 DEF Readable, Writable, HungUp, Socket
  <2> QED
    BY <2>1, <2>2 DEF EventOf, Event, Item
<1>7. ASSUME NEW ev \in batch'
      PROVE  \/ /\ ev.who \in DOMAIN clients /\ ev.who \in taken
                /\ ev = EventOf(ev.who)
                /\ ev.in \/ ev.out \/ ev.hup
             \/ ev = [NoEvent EXCEPT !.in = TRUE]
  <2>1. taken \subseteq DOMAIN clients \cup {Listener}
    BY <1>4 DEF Ready
  <2> QED
    BY <1>1, <1>6, <1>7, <2>1 DEF Returned
<1>8. /\ [NoEvent EXCEPT !.in = TRUE] \in Event
      /\ [NoEvent EXCEPT !.in = TRUE].who = Listener
      /\ ~ [NoEvent EXCEPT !.in = TRUE].out /\ ~ [NoEvent EXCEPT !.in = TRUE].hup
  BY DEF NoEvent, Event
<1>9. ASSUME NEW c \in DOMAIN clients
      PROVE  /\ epoll'[c] \in Item /\ epoll'[c].out = epoll[c].out
             /\ c \notin taken => epoll'[c] = epoll[c]
  BY <1>1, <1>3, <1>4, <1>9 DEF Tables, Item
<1>10. TypeOK'
  <2>1. batch' \subseteq Event
    BY <1>6, <1>7, <1>8
  <2>2. epoll' \in [DOMAIN clients -> Item]
    BY <1>1, <1>4, <1>9
  <2> QED
    BY <1>1, <1>2, <1>3, <2>1, <2>2 DEF TypeOK, Tables, OutputRecord, Places
<1>11. InterestAgrees'
  BY <1>2, <1>9 DEF IInv, InterestAgrees
<1>12. BatchShape'
  <2>1. \A ev \in batch' : ev.who \in DOMAIN clients \cup {Listener}
    BY <1>7, <1>8
  <2>2. \A ev \in batch' : Believed(ev)'
    BY <1>2, <1>5, <1>6, <1>7, <1>8 DEF Believed, Writable
  <2>3. \A e1, e2 \in batch' : e1.who = e2.who => e1 = e2
    BY <1>5, <1>7, <1>8
  <2>4. pc' = "wait" => batch' = {}
    BY <1>2
  <2> QED
    BY <1>2, <2>1, <2>2, <2>3, <2>4 DEF BatchShape
<1>13. EventShape'
  BY <1>2 DEF EventShape, Handling
<1>14. ASSUME NEW c \in DOMAIN clients, c \in taken, Readable(c) \/ EventOf(c).out \/ EventOf(c).hup
       PROVE  EventOf(c) \in batch'
  BY <1>1, <1>5, <1>6, <1>14 DEF Returned
<1>15. OutputArmed' /\ InputArmed'
  <2>1. ASSUME NEW c \in DOMAIN clients
        PROVE  OutArmed(c)' /\ InArmed(c)'
    <3>1. (Readable(c)' <=> Readable(c)) /\ (Writable(c)' <=> Writable(c))
      BY <1>2 DEF Readable, Writable
    <3>2. CASE c \in taken
      <4>1. Readable(c) => InCover(c)'
        BY <1>6, <1>14, <3>2 DEF InCover
      <4>2. clients[c].out_buffer > 0 /\ Writable(c) => OutCover(c)'
        <5>1. clients[c].out_buffer > 0 /\ Writable(c) => EventOf(c).out
          BY <1>6 DEF IInv, InterestAgrees
        <5> QED
          BY <1>2, <1>6, <1>14, <3>2, <5>1 DEF OutCover, Pending
      <4> QED
        BY <1>2, <3>1, <4>1, <4>2 DEF OutArmed, InArmed
    <3>3. CASE c \notin taken
      <4>1. epoll'[c] = epoll[c] /\ ~ OutCover(c) /\ ~ InCover(c)
        BY <1>2, <1>9, <3>3 DEF OutCover, InCover, Pending
      <4>2. OutArmed(c) /\ InArmed(c)
        BY ArmedParts DEF IInv
      <4> QED
        BY <1>2, <3>1, <4>1, <4>2 DEF OutArmed, InArmed
    <3> QED
      BY <3>2, <3>3
  <2> QED
    BY <1>2, <2>1, ArmedPartsNext
<1> QED
  BY <1>10, <1>11, <1>12, <1>13, <1>15 DEF IInv

LEMMA NextEventStep ==
  ASSUME IInv, next_event
  PROVE  IInv'
<1>1. pc = "next" /\ UNCHANGED <<kernel, clients>>
  BY DEF next_event
<1>2. UNCHANGED <<sock, backlog, listening, epoll, clients>>
  BY <1>1 DEF kernel
<1>3. InterestAgrees' /\ Tables'
  BY <1>2, TypeParts DEF IInv, InterestAgrees, Tables
<1>4. CASE batch = {} /\ pc' = "wait" /\ event' = NoEvent /\ UNCHANGED batch
  <2>1. TypeOK'
    BY <1>2, <1>4 DEF IInv, TypeOK, Places, NoEvent, Event
  <2>2. BatchShape' /\ EventShape'
    BY <1>4 DEF BatchShape, EventShape, Handling
  <2>3. OutputArmed' /\ InputArmed'
    BY <1>1, <1>2, <1>4 DEF IInv, OutputArmed, InputArmed, Pending, Writable, Readable
  <2> QED
    BY <1>3, <2>1, <2>2, <2>3 DEF IInv
<1>5. ASSUME NEW ev \in batch, event' = ev, batch' = batch \ {ev}, pc' = Handler(ev)
      PROVE  IInv'
  <2>1. /\ ev.who \in DOMAIN clients \cup {Listener} /\ Believed(ev)
        /\ \A e \in batch' : e.who # ev.who
    BY <1>5 DEF IInv, BatchShape
  <2>2. /\ Listener \notin DOMAIN clients
        /\ batch \subseteq Event
    BY LoopAssumption, TypeParts DEF IInv, Tables
  <2>3. /\ ev.in \in BOOLEAN /\ ev.out \in BOOLEAN /\ ev.hup \in BOOLEAN
    BY <2>2 DEF Event
  <2>4. /\ pc' \in {"accept", "hang up", "read", "write"}
        /\ pc' = "accept" <=> ev.who = Listener
        /\ pc' = "read" => ~ ev.hup
        /\ ev.who # Listener /\ ev.hup => pc' = "hang up"
        /\ ev.who # Listener /\ ev.in => pc' \in {"hang up", "read"}
        /\ pc' = "write" => ev.out
    <3>1. CASE ev.who = Listener
      BY <1>5, <3>1 DEF Handler
    <3>2. CASE ev.who # Listener /\ ev.hup
      BY <1>5, <3>2 DEF Handler
    <3>3. CASE ev.who # Listener /\ ~ ev.hup /\ ev.in
      BY <1>5, <3>3 DEF Handler
    <3>4. CASE ev.who # Listener /\ ~ ev.hup /\ ~ ev.in
      BY <1>5, <2>1, <3>4 DEF Handler, Believed
    <3> QED
      BY <2>3, <3>1, <3>2, <3>3, <3>4
  <2>5. TypeOK'
    BY <1>2, <1>5, <2>2, <2>4 DEF IInv, TypeOK, Places
  <2>6. \A e : Believed(e)' <=> Believed(e)
    BY <1>2 DEF Believed, Writable
  <2>7. BatchShape'
    BY <1>2, <1>5, <2>4, <2>6 DEF IInv, BatchShape
  <2>8. EventShape'
    BY <1>2, <1>5, <2>1, <2>4, <2>6 DEF EventShape, Handling, Believed
  <2>9. OutputArmed' /\ InputArmed'
    <3>1. ASSUME NEW d \in DOMAIN clients
          PROVE  OutArmed(d)' /\ InArmed(d)'
      <4>1. OutCover(d) => OutCover(d)'
        BY <1>1, <1>5, <2>4 DEF OutCover, Pending
      <4>2. InCover(d) => InCover(d)'
        BY <1>1, <1>5, <2>2, <2>4, <3>1 DEF InCover
      <4>3. OutArmed(d) /\ InArmed(d)
        BY ArmedParts DEF IInv
      <4> QED
        BY <1>2, <4>1, <4>2, <4>3 DEF OutArmed, InArmed, Writable, Readable
    <3> QED
      BY <1>2, <3>1, ArmedPartsNext
  <2> QED
    BY <1>3, <2>5, <2>7, <2>8, <2>9 DEF IInv
<1> QED
  BY <1>4, <1>5 DEF next_event

(* The event of a client is finished with the client.                      *)
LEMMA DisconnectStep ==
  ASSUME IInv, Handling, disconnect_client(event.who), UNCHANGED <<batch, event>>,
         pc' \in {"next"} \cup Gone
  PROVE  IInv'
<1> DEFINE c == event.who
<1>1. c \in DOMAIN clients /\ \A ev \in batch : ev.who # c
  BY DEF IInv, EventShape
<1>2. /\ DOMAIN clients' = DOMAIN clients \ {c}
      /\ Tables'
      /\ UNCHANGED <<backlog, listening>>
      /\ \A d \in DOMAIN clients' : Kept(d) /\ sock'[d] = sock[d]
  BY <1>1, DisconnectKeeps, TypeParts DEF IInv
<1>3. TypeOK'
  BY <1>2, TypeParts DEF IInv, TypeOK, Tables, OutputRecord, Places
<1>4. InterestAgrees'
  BY <1>2 DEF InterestAgrees, Kept, Agrees
<1>5. Listener \notin DOMAIN clients
  BY LoopAssumption, TypeParts DEF IInv, Tables
<1>6. \A ev \in batch : ev.who \in DOMAIN clients' \cup {Listener} /\ Believed(ev)'
  <2>1. \A ev \in batch : ev.who \in DOMAIN clients' \cup {Listener} /\ Believed(ev)
    BY <1>1, <1>2 DEF IInv, BatchShape
  <2> QED
    BY <1>2, <2>1 DEF Believed, Writable
<1>7. BatchShape' /\ EventShape'
  BY <1>6 DEF IInv, BatchShape, EventShape, Handling, Gone
<1>8. OutputArmed' /\ InputArmed'
  <2>1. ASSUME NEW d \in DOMAIN clients'
        PROVE  OutArmed(d)' /\ InArmed(d)'
    <3>1. d # c /\ Kept(d) /\ sock'[d] = sock[d]
      BY <1>2
    <3>2. (Writable(d)' <=> Writable(d)) /\ (Readable(d)' => Readable(d))
      BY <3>1 DEF Writable, Readable
    <3>3. OutCover(d) => OutCover(d)'
      BY <3>1 DEF OutCover, Pending, Handling, Gone
    <3>4. InCover(d) => InCover(d)'
      BY <3>1 DEF InCover
    <3> QED
      BY <3>1, <3>2, <3>3, <3>4, KeptArmed
  <2> QED
    BY <2>1, ArmedPartsNext
<1> QED
  BY <1>3, <1>4, <1>7, <1>8 DEF IInv

LEMMA HangUpStep ==
  ASSUME IInv, hang_up
  PROVE  IInv'
BY DisconnectStep DEF hang_up, Handling

LEMMA WelcomeStep ==
  ASSUME IInv, pc = "accept", NEW c \in backlog, backlog' = backlog \ {c},
         Welcome(c), pc' = "accept", UNCHANGED <<listening, batch, event>>
  PROVE  IInv'
<1>1. /\ Tables
      /\ c \in DOMAIN sock /\ c \notin DOMAIN clients /\ c \in Conn
      /\ sock[c] \in Socket
  BY TypeParts DEF IInv, Tables
<1>2. /\ DOMAIN clients' = DOMAIN clients \cup {c}
      /\ clients' = [d \in DOMAIN clients' |-> clients'[d]]
      /\ clients'[c] = [out_buffer |-> 1, want_write |-> TRUE]
      /\ \A d \in DOMAIN clients : clients'[d] = clients[d]
      /\ epoll' = [d \in DOMAIN clients' |-> epoll'[d]]
      /\ epoll'[c] = Registered(c, TRUE)
      /\ \A d \in DOMAIN clients : epoll'[d] = epoll[d]
      /\ sock' = sock
  BY <1>1 DEF Welcome, Tables
<1>3. /\ clients'[c] \in OutputRecord
      /\ clients'[c].out_buffer > 0 /\ clients'[c].want_write
  BY <1>2, LoopAssumption DEF OutputRecord
<1>4. /\ epoll'[c] \in Item /\ epoll'[c].out
      /\ epoll'[c].ready <=> Readable(c) \/ Writable(c)
  <2>1. Readable(c) \in BOOLEAN /\ Writable(c) \in BOOLEAN
    BY DEF Readable, Writable
  <2> QED
    BY <1>2, <2>1 DEF Registered, Item
<1>5. Tables'
  <2>1. \A d \in DOMAIN clients' : clients'[d] \in OutputRecord /\ epoll'[d] \in Item
    BY <1>1, <1>2, <1>3, <1>4 DEF Tables
  <2>2. clients' \in [DOMAIN clients' -> OutputRecord] /\ epoll' \in [DOMAIN clients' -> Item]
    BY <1>2, <2>1
  <2> QED
    BY <1>1, <1>2, <2>2 DEF Tables
<1>6. TypeOK'
  BY <1>5 DEF IInv, TypeOK, Tables, OutputRecord, Places
<1>7. InterestAgrees'
  BY <1>2, <1>3, <1>4 DEF IInv, InterestAgrees
<1>8. \A e : Believed(e)' <=> Believed(e)
  BY <1>2 DEF Believed, Writable
<1>9. BatchShape' /\ EventShape'
  BY <1>2, <1>8 DEF IInv, BatchShape, EventShape, Handling
<1>10. OutputArmed' /\ InputArmed'
  <2>1. OutArmed(c)' /\ InArmed(c)'
    BY <1>2, <1>4 DEF OutArmed, InArmed, Readable, Writable
  <2>2. ASSUME NEW d \in DOMAIN clients
        PROVE  OutArmed(d)' /\ InArmed(d)'
    <3>1. OutArmed(d) /\ InArmed(d)
      BY ArmedParts DEF IInv
    <3> QED
      BY <1>2, <3>1 DEF OutArmed, InArmed, OutCover, InCover, Pending,
                        Readable, Writable
  <2> QED
    BY <1>2, <2>1, <2>2, ArmedPartsNext
<1> QED
  BY <1>6, <1>7, <1>9, <1>10 DEF IInv

(* The socket of no client goes, and the thread goes on from accept.       *)
LEMMA RefuseStep ==
  ASSUME IInv, pc = "accept", backlog' \subseteq backlog,
         DOMAIN sock \ DOMAIN sock' \subseteq backlog \ backlog',
         sock' = [d \in DOMAIN sock' |-> sock[d]], DOMAIN sock' \subseteq DOMAIN sock,
         backlog' \subseteq DOMAIN sock',
         pc' \in {"accept", "next"},
         UNCHANGED <<listening, epoll, clients, batch, event>>
  PROVE  IInv'
<1>1. Tables'
  BY TypeParts DEF IInv, Tables
<1>2. TypeOK'
  BY <1>1 DEF IInv, TypeOK, Tables, OutputRecord, Places
<1>3. \A d \in DOMAIN clients : sock'[d] = sock[d]
  BY TypeParts DEF IInv, Tables
<1>4. event.who = Listener /\ ~ event.out /\ ~ event.hup
  BY DEF IInv, EventShape
<1>5. BatchShape' /\ EventShape'
  BY <1>3, <1>4 DEF IInv, BatchShape, EventShape, Handling, Believed, Writable
<1>6. InterestAgrees'
  BY DEF IInv, InterestAgrees
<1>7. OutputArmed' /\ InputArmed'
  <2>1. ASSUME NEW d \in DOMAIN clients
        PROVE  OutArmed(d)' /\ InArmed(d)'
    <3>1. OutArmed(d) /\ InArmed(d)
      BY ArmedParts DEF IInv
    <3>2. (Writable(d)' <=> Writable(d)) /\ (Readable(d)' <=> Readable(d))
      BY <1>3 DEF Writable, Readable
    <3>3. OutCover(d) => OutCover(d)'
      BY <1>4 DEF OutCover, Pending
    <3>4. InCover(d) => InCover(d)'
      BY DEF InCover
    <3> QED
      BY <3>1, <3>2, <3>3, <3>4 DEF OutArmed, InArmed
  <2> QED
    BY <2>1, ArmedPartsNext
<1> QED
  BY <1>2, <1>5, <1>6, <1>7 DEF IInv

LEMMA AcceptStep ==
  ASSUME IInv, accept_new_client
  PROVE  IInv'
<1>1. pc = "accept" /\ UNCHANGED <<listening, batch, event>>
  BY DEF accept_new_client
<1>2. Tables
  BY TypeParts DEF IInv
<1>3. CASE accept_one /\ pc' = "accept"
  <2>1. PICK c \in backlog : backlog' = backlog \ {c} /\ (Welcome(c) \/ Refuse(c))
    BY <1>3 DEF accept_one
  <2>2. CASE Welcome(c)
    BY <1>1, <1>3, <2>1, <2>2, WelcomeStep
  <2>3. CASE Refuse(c)
    <3>1. /\ sock' = [d \in DOMAIN sock \ {c} |-> sock[d]]
          /\ UNCHANGED <<clients, epoll>>
      BY <2>3 DEF Refuse, Without, Restrict
    <3>2. DOMAIN sock' = DOMAIN sock \ {c} /\ sock' = [d \in DOMAIN sock' |-> sock[d]]
      BY <3>1
    <3>3. backlog' \subseteq DOMAIN sock' /\ backlog' \subseteq backlog
      BY <1>2, <2>1, <3>2 DEF Tables
    <3>4. DOMAIN sock \ DOMAIN sock' \subseteq backlog \ backlog'
      BY <2>1, <3>2
    <3> QED
      BY <1>1, <1>3, <3>1, <3>2, <3>3, <3>4, RefuseStep
  <2> QED
    BY <2>1, <2>2, <2>3
<1>4. CASE pc' = "next" /\ UNCHANGED <<sock, backlog, epoll, clients>>
  <2>1. sock' = [d \in DOMAIN sock' |-> sock[d]] /\ backlog' \subseteq DOMAIN sock'
    BY <1>2, <1>4 DEF Tables
  <2> QED
    BY <1>1, <1>4, <2>1, RefuseStep
<1> QED
  BY <1>3, <1>4 DEF accept_new_client

LEMMA ReadLineStep ==
  ASSUME IInv, pc = "read", read_line(event.who), pc' = "read",
         UNCHANGED <<batch, event>>
  PROVE  IInv'
<1> DEFINE c == event.who
<1>1. Tables /\ InterestAgrees /\ c \in DOMAIN clients /\ c \in DOMAIN sock
  BY TypeParts DEF IInv, EventShape, Handling, Tables
<1>2. PICK to \in SUBSET DOMAIN clients : queue_message(to)
  BY DEF read_line
<1>3. /\ DOMAIN clients' = DOMAIN clients
      /\ clients' \in [DOMAIN clients' -> OutputRecord]
      /\ epoll' \in [DOMAIN clients' -> Item]
      /\ \A d \in DOMAIN clients' : Kept(d)
  BY <1>1, <1>2, QueueKeeps
<1>4. sock[c] \in Socket /\ sock[c].rcv > 0
  BY <1>1 DEF Tables, read_line
<1>5. /\ DOMAIN sock' = DOMAIN sock
      /\ sock' = [d \in DOMAIN sock |-> sock'[d]]
      /\ sock'[c] = [sock[c] EXCEPT !.rcv = sock[c].rcv - 1]
      /\ \A d \in DOMAIN sock \ {c} : sock'[d] = sock[d]
      /\ UNCHANGED <<backlog, listening>>
  BY <1>1 DEF read_line, Tables
<1>6. /\ sock'[c] \in Socket
      /\ sock'[c].rcv = sock[c].rcv - 1 /\ sock'[c].fin = sock[c].fin
      /\ sock'[c].rst = sock[c].rst /\ sock'[c].snd = sock[c].snd
  BY <1>4, <1>5, BuffersAssumption DEF Socket
<1>7. \A d \in DOMAIN sock : sock'[d] \in Socket
  BY <1>1, <1>5, <1>6 DEF Tables
<1>8. Tables'
  BY <1>1, <1>3, <1>5, <1>7 DEF Tables
<1>9. TypeOK'
  BY <1>5, <1>8, TypeParts DEF IInv, TypeOK, Tables, OutputRecord, Places
<1>10. InterestAgrees'
  BY <1>3 DEF InterestAgrees, Kept, Agrees
<1>11. \A d \in DOMAIN sock : (Writable(d)' <=> Writable(d)) /\ (Readable(d)' => Readable(d))
  <2>1. (Writable(c)' <=> Writable(c)) /\ (Readable(c)' => Readable(c))
    BY <1>4, <1>6 DEF Writable, Readable
  <2> QED
    BY <1>5, <2>1 DEF Writable, Readable
<1>12. ASSUME NEW ev, ev.who \in DOMAIN clients \cup {Listener}, Believed(ev)
       PROVE  Believed(ev)'
  BY <1>1, <1>11, <1>12 DEF Believed, Tables
<1>13. BatchShape'
  BY <1>3, <1>12 DEF IInv, BatchShape
<1>14. EventShape'
  BY <1>3, <1>12 DEF IInv, EventShape, Handling
<1>15. OutputArmed' /\ InputArmed'
  <2>1. ASSUME NEW d \in DOMAIN clients'
        PROVE  OutArmed(d)' /\ InArmed(d)'
    <3>1. Kept(d) /\ d \in DOMAIN sock
      BY <1>1, <1>3 DEF Tables
    <3>2. (OutCover(d) => OutCover(d)') /\ (InCover(d) => InCover(d)')
      BY DEF OutCover, InCover, Pending
    <3> QED
      BY <1>11, <3>1, <3>2, KeptArmed
  <2> QED
    BY <2>1, ArmedPartsNext
<1> QED
  BY <1>9, <1>10, <1>13, <1>14, <1>15 DEF IInv

LEMMA ReadStep ==
  ASSUME IInv, handle_client_read
  PROVE  IInv'
<1>1. pc = "read" /\ Handling /\ UNCHANGED <<batch, event>>
  BY DEF handle_client_read, Handling
<1>2. CASE read_line(event.who) /\ pc' = "read"
  BY <1>1, <1>2, ReadLineStep
<1>3. CASE read_end(event.who) /\ pc' = AfterDelete
  BY <1>1, <1>3, DisconnectStep DEF read_end, AfterDelete, Gone
<1>4. CASE ~ Readable(event.who) /\ pc' = AfterRead /\ UNCHANGED <<kernel, clients>>
  <2>1. /\ UNCHANGED <<sock, backlog, listening, epoll, clients>>
        /\ pc' = IF event.out THEN "write" ELSE "next"
    BY <1>4 DEF kernel, AfterRead
  <2>2. TypeOK'
    BY <1>1, <2>1 DEF IInv, TypeOK, Places
  <2>3. InterestAgrees'
    BY <2>1 DEF IInv, InterestAgrees
  <2>4. BatchShape' /\ EventShape'
    BY <1>1, <2>1 DEF IInv, BatchShape, EventShape, Handling, Believed, Writable
  <2>5. ASSUME NEW d \in DOMAIN clients
        PROVE  OutArmed(d)' /\ InArmed(d)'
    <3>1. OutArmed(d) /\ InArmed(d)
      BY ArmedParts DEF IInv
    <3>2. ~ event.hup
      BY <1>1 DEF IInv, EventShape
    <3>3. OutCover(d) => OutCover(d)'
      BY <1>1, <2>1, <3>2 DEF OutCover, Pending
    <3>4. InCover(d) => InCover(d)' \/ ~ Readable(d)
      BY <1>1, <1>4 DEF InCover
    <3> QED
      BY <2>1, <3>1, <3>3, <3>4 DEF OutArmed, InArmed, Readable, Writable
  <2> QED
    BY <2>1, <2>2, <2>3, <2>4, <2>5, ArmedPartsNext DEF IInv
<1> QED
  BY <1>1, <1>2, <1>3, <1>4 DEF handle_client_read

LEMMA WriteSomeStep ==
  ASSUME IInv, pc = "write", ~ WriteFails(event.who), write_some(event.who),
         pc' = "next", UNCHANGED <<batch, event>>
  PROVE  IInv'
<1> DEFINE c == event.who
           left == clients[c].out_buffer - Taken(c)
<1>1. /\ Tables /\ InterestAgrees
      /\ c \in DOMAIN clients /\ c \in DOMAIN sock
      /\ \A ev \in batch : ev.who # c
  BY TypeParts DEF IInv, EventShape, Handling, Tables
<1>2. /\ sock[c] \in Socket /\ clients[c] \in OutputRecord /\ epoll[c] \in Item
      /\ sock[c].snd \in 0..SndBuf /\ clients[c].out_buffer \in 0..MaxOut
  BY <1>1 DEF Tables, Socket, OutputRecord
<1>3. /\ Taken(c) \in 0..(SndBuf - sock[c].snd)
      /\ left \in 0..clients[c].out_buffer
      /\ left > 0 => Taken(c) = SndBuf - sock[c].snd
  BY <1>2, BuffersAssumption DEF Taken, Least
<1>4. /\ DOMAIN sock' = DOMAIN sock
      /\ sock' = [d \in DOMAIN sock |-> sock'[d]]
      /\ sock'[c] = [sock[c] EXCEPT !.snd = sock[c].snd + Taken(c)]
      /\ \A d \in DOMAIN sock \ {c} : sock'[d] = sock[d]
      /\ UNCHANGED <<backlog, listening>>
  BY <1>1 DEF write_some, Tables
<1>5. /\ DOMAIN clients' = DOMAIN clients
      /\ clients' = [d \in DOMAIN clients |-> clients'[d]]
      /\ clients'[c] = [out_buffer |-> left, want_write |-> left > 0]
      /\ \A d \in DOMAIN clients \ {c} : clients'[d] = clients[d]
  BY <1>1 DEF write_some, Tables
<1>6. /\ epoll' = [d \in DOMAIN clients |-> epoll'[d]]
      /\ left = 0 => epoll'[c] = Modified(epoll[c], c, FALSE)
      /\ left # 0 => epoll'[c] = epoll[c]
      /\ \A d \in DOMAIN clients \ {c} : epoll'[d] = epoll[d]
  BY <1>1 DEF write_some, Uninterested, Tables
<1> HIDE DEF left
<1>7. /\ sock'[c] \in Socket
      /\ sock'[c].snd = sock[c].snd + Taken(c)
      /\ sock'[c].rcv = sock[c].rcv /\ sock'[c].fin = sock[c].fin
      /\ sock'[c].rst = sock[c].rst
  BY <1>2, <1>3, <1>4, BuffersAssumption DEF Socket
<1>8. /\ clients'[c] \in OutputRecord
      /\ clients'[c].out_buffer = left /\ (clients'[c].want_write <=> left > 0)
  <2> DEFINE more == left > 0
  <2>1. more \in BOOLEAN /\ left \in 0..MaxOut
    BY <1>2, <1>3, LoopAssumption
  <2>2. clients'[c] = [out_buffer |-> left, want_write |-> more]
    BY <1>5
  <2> HIDE DEF more
  <2>3. clients'[c] \in OutputRecord /\ clients'[c].out_buffer = left
        /\ clients'[c].want_write = more
    BY <2>1, <2>2 DEF OutputRecord
  <2> QED
    BY <2>3 DEF more
<1>9. Modified(epoll[c], c, FALSE) \in Item /\ ~ Modified(epoll[c], c, FALSE).out
      /\ (epoll[c].ready => Modified(epoll[c], c, FALSE).ready)
  <2>1. Readable(c) \in BOOLEAN
    BY DEF Readable
  <2> QED
    BY <1>2, <2>1 DEF Modified, Registered, Item
<1>10. /\ epoll'[c] \in Item
       /\ epoll'[c].out <=> left > 0
       /\ epoll[c].ready => epoll'[c].ready
  <2>1. CASE left = 0
    <3>1. epoll'[c] = Modified(epoll[c], c, FALSE)
      BY <1>6, <2>1, Zenon
    <3>2. ~ left > 0
      BY <2>1
    <3> QED
      BY <1>9, <3>1, <3>2, Zenon
  <2>2. CASE left > 0
    <3>1. epoll[c].out
      BY <1>1, <1>2, <1>3, <2>2 DEF InterestAgrees
    <3>2. epoll'[c] = epoll[c]
      BY <1>3, <1>6, <2>2
    <3> QED
      BY <1>2, <2>2, <3>1, <3>2, Zenon
  <2> QED
    BY <1>2, <1>3, <2>1, <2>2
<1>11. Tables'
  <2>1. \A d \in DOMAIN clients : clients'[d] \in OutputRecord /\ epoll'[d] \in Item
    BY <1>1, <1>5, <1>6, <1>8, <1>10 DEF Tables
  <2>2. clients' \in [DOMAIN clients' -> OutputRecord] /\ epoll' \in [DOMAIN clients' -> Item]
    BY <1>5, <1>6, <2>1
  <2>3. \A d \in DOMAIN sock : sock'[d] \in Socket
    BY <1>1, <1>4, <1>7 DEF Tables
  <2>4. sock' \in [DOMAIN sock' -> Socket]
    BY <1>4, <2>3
  <2> QED
    BY <1>1, <1>4, <1>5, <2>2, <2>4 DEF Tables
<1>12. TypeOK'
  BY <1>4, <1>11, TypeParts DEF IInv, TypeOK, Tables, OutputRecord, Places
<1>13. InterestAgrees'
  BY <1>1, <1>5, <1>6, <1>8, <1>10 DEF InterestAgrees
<1>14. Listener \notin DOMAIN clients
  BY <1>1, LoopAssumption DEF Tables
<1>15. BatchShape' /\ EventShape'
  <2>1. \A ev \in batch : ev.who \in DOMAIN clients \cup {Listener} /\ Believed(ev)
    BY DEF IInv, BatchShape
  <2>2. \A ev \in batch : Believed(ev)'
    BY <1>1, <1>4, <2>1 DEF Believed, Writable, Tables
  <2> QED
    BY <1>5, <2>1, <2>2 DEF IInv, BatchShape, EventShape, Handling
<1>16. OutputArmed' /\ InputArmed'
  <2>1. OutArmed(c)'
    <3>1. CASE left = 0
      BY <1>8, <3>1 DEF OutArmed
    <3>2. CASE left > 0
      <4>1. ~ sock[c].rst
        BY <1>2, <1>3, <3>2 DEF WriteFails
      <4>2. sock'[c].snd = SndBuf
        BY <1>2, <1>3, <1>7, <3>2, BuffersAssumption
      <4>3. ~ Writable(c)'
        BY <1>7, <4>1, <4>2, BuffersAssumption DEF Writable
      <4> QED
        BY <4>3 DEF OutArmed
    <3> QED
      BY <1>3, <3>1, <3>2
  <2>2. InArmed(c)'
    <3>1. InArmed(c)
      BY <1>1, ArmedParts DEF IInv
    <3>2. Readable(c)' <=> Readable(c)
      BY <1>7 DEF Readable
    <3>3. InCover(c) => InCover(c)'
      BY DEF InCover
    <3> QED
      BY <1>10, <3>1, <3>2, <3>3 DEF InArmed
  <2>3. ASSUME NEW d \in DOMAIN clients, d # c
        PROVE  OutArmed(d)' /\ InArmed(d)'
    <3>1. OutArmed(d) /\ InArmed(d)
      BY ArmedParts DEF IInv
    <3>2. /\ sock'[d] = sock[d] /\ clients'[d] = clients[d] /\ epoll'[d] = epoll[d]
      BY <1>1, <1>4, <1>5, <1>6, <2>3 DEF Tables
    <3>3. (OutCover(d) => OutCover(d)') /\ (InCover(d) => InCover(d)')
      BY <2>3 DEF OutCover, InCover, Pending
    <3> QED
      BY <3>1, <3>2, <3>3 DEF OutArmed, InArmed, Writable, Readable
  <2> QED
    BY <1>5, <2>1, <2>2, <2>3, ArmedPartsNext
<1> QED
  BY <1>12, <1>13, <1>15, <1>16 DEF IInv

LEMMA WriteStep ==
  ASSUME IInv, handle_client_write
  PROVE  IInv'
<1>1. pc = "write" /\ Handling /\ UNCHANGED <<batch, event>>
  BY DEF handle_client_write, Handling
<1>2. CASE ~ WriteFails(event.who) /\ write_some(event.who) /\ pc' = "next"
  BY <1>1, <1>2, WriteSomeStep
<1>3. CASE disconnect_client(event.who) /\ pc' = "next"
  BY <1>1, <1>3, DisconnectStep
<1>4. CASE pc' = "killed" /\ UNCHANGED <<kernel, clients>>
  <2>1. UNCHANGED <<sock, backlog, listening, epoll, clients>>
    BY <1>4 DEF kernel
  <2>2. TypeOK' /\ InterestAgrees'
    BY <1>1, <1>4, <2>1 DEF IInv, TypeOK, Places, Gone, InterestAgrees
  <2>3. BatchShape' /\ EventShape'
    BY <1>1, <1>4, <2>1 DEF IInv, BatchShape, EventShape, Handling, Believed, Writable
  <2>4. OutputArmed' /\ InputArmed'
    BY <1>1, <1>4, <2>1 DEF IInv, OutputArmed, InputArmed, Pending, Writable, Readable
  <2> QED
    BY <2>2, <2>3, <2>4 DEF IInv
<1> QED
  BY <1>1, <1>2, <1>3, <1>4 DEF handle_client_write

LEMMA LoopStep == IInv /\ [Next]_vars => IInv'
<1> SUFFICES ASSUME IInv, [Next]_vars
             PROVE  IInv'
  OBVIOUS
<1>1. CASE Server
  BY <1>1, WaitStep, NextEventStep, HangUpStep, AcceptStep, ReadStep, WriteStep
  DEF Server
<1>2. CASE Network
  BY <1>2, PeerStep DEF Network
<1>3. CASE UNCHANGED vars
  <2>1. UNCHANGED <<sock, backlog, listening, epoll, clients, batch, event, pc>>
    BY <1>3 DEF vars, kernel, loop
  <2> QED
    BY <2>1 DEF IInv, TypeOK, InterestAgrees, BatchShape, EventShape, Handling,
       Believed, OutputArmed, InputArmed, Pending, Writable, Readable
<1> QED
  BY <1>1, <1>2, <1>3 DEF Next

-----------------------------------------------------------------------------
(* Every reachable state of the loop is well typed: the table, the epoll   *)
(* set and the sockets are about the same clients.                         *)
THEOREM LoopTypeCorrect == Spec => []TypeOK
BY InitialState, LoopStep, PTL DEF Spec, IInv

(* want_write and the interest in EPOLLOUT say whether there is output.    *)
THEOREM InterestFollowsOutput == Spec => []InterestAgrees
BY InitialState, LoopStep, PTL DEF Spec, IInv

(* Unwritten output of a client that can be written is never forgotten.    *)
THEOREM OutputIsArmed == Spec => []OutputArmed
BY InitialState, LoopStep, PTL DEF Spec, IInv

(* Unread input is never forgotten.                                        *)
THEOREM InputIsArmed == Spec => []InputArmed
BY InitialState, LoopStep, PTL DEF Spec, IInv

(* No event of a batch points to a client an earlier one has deleted.      *)
THEOREM BatchesAreAlive == Spec => []BatchAlive
<1>1. IInv => BatchAlive
  BY DEF IInv, BatchShape, BatchAlive
<1> QED
  BY <1>1, InitialState, LoopStep, PTL DEF Spec

(* No write is tried on a socket without room.                             *)
THEOREM WritesHaveRoom == Spec => []WriteHasRoom
<1>1. IInv => WriteHasRoom
  BY DEF IInv, EventShape, Handling, Believed, WriteHasRoom
<1> QED
  BY <1>1, InitialState, LoopStep, PTL DEF Spec

-----------------------------------------------------------------------------
(* The backlog, when the table has room for every connection.              *)
LEMMA RoomForAll ==
  ASSUME Cardinality(Conn) <= MaxClients, Tables, backlog # {}
  PROVE  ~ Cardinality(DOMAIN clients) >= MaxClients
<1>1. PICK c \in Conn : c \in backlog
  BY DEF Tables
<1>2. DOMAIN clients \subseteq Conn \ {c}
  BY <1>1 DEF Tables
<1>3. /\ IsFiniteSet(Conn) /\ IsFiniteSet(Conn \ {c})
      /\ Cardinality(Conn \ {c}) = Cardinality(Conn) - 1
      /\ Cardinality(Conn) \in Nat
  BY <1>1, BuffersAssumption, FS_RemoveElement, FS_CardinalityType
<1>4. Cardinality(DOMAIN clients) <= Cardinality(Conn \ {c})
      /\ Cardinality(DOMAIN clients) \in Nat
  BY <1>2, <1>3, FS_Subset, FS_CardinalityType
<1> QED
  BY <1>3, <1>4, LoopAssumption

LEMMA BacklogStep ==
  ASSUME Cardinality(Conn) <= MaxClients, IInv, BacklogArmed, [Next]_vars
  PROVE  BacklogArmed'
<1>1. Tables
  BY TypeParts DEF IInv
<1>2. CASE epoll_wait
  <2>1. PICK taken \in SUBSET Ready :
          /\ batch' = Returned(taken)
          /\ listening' = (listening /\ Listener \notin taken)
    BY <1>2 DEF epoll_wait
  <2>2. pc = "wait" /\ batch = {} /\ UNCHANGED <<sock, backlog>>
    BY <1>2 DEF epoll_wait, IInv, BatchShape
  <2>3. CASE backlog # {} /\ Listener \in taken
    <3>1. [NoEvent EXCEPT !.in = TRUE] \in batch'
      BY <2>1, <2>3 DEF Returned
    <3>2. [NoEvent EXCEPT !.in = TRUE].who = Listener
      BY DEF NoEvent
    <3> QED
      BY <3>1, <3>2 DEF BacklogArmed
  <2> QED
    BY <2>1, <2>2, <2>3 DEF BacklogArmed
<1>3. CASE next_event
  <2>1. UNCHANGED <<backlog, listening>> /\ pc = "next"
    BY <1>3 DEF next_event, kernel
  <2>2. CASE batch = {} /\ UNCHANGED batch
    BY <2>1, <2>2 DEF BacklogArmed
  <2>3. ASSUME NEW ev \in batch, batch' = batch \ {ev}, pc' = Handler(ev)
        PROVE  BacklogArmed'
    <3>1. ev.who = Listener => pc' = "accept"
      BY <2>3 DEF Handler
    <3> QED
      BY <2>1, <2>3, <3>1 DEF BacklogArmed
  <2> QED
    BY <1>3, <2>2, <2>3 DEF next_event
<1>4. CASE accept_new_client
  <2>1. pc' = "accept" \/ backlog' = {}
    BY <1>1, <1>4, RoomForAll DEF accept_new_client
  <2> QED
    BY <2>1 DEF BacklogArmed
<1>5. CASE hang_up \/ handle_client_read \/ handle_client_write
  <2>1. UNCHANGED <<backlog, listening, batch>> /\ pc # "accept"
    BY <1>5 DEF hang_up, handle_client_read, handle_client_write, read_line,
       read_end, write_some, disconnect_client, kernel
  <2> QED
    BY <2>1 DEF BacklogArmed
<1>6. CASE Network
  <2>1. UNCHANGED <<batch, event, pc>> /\ (listening' = TRUE \/ UNCHANGED <<backlog, listening>>)
    BY <1>6 DEF Network, loop, Peer, connect, send, finish, reset, acknowledge
  <2> QED
    BY <2>1 DEF BacklogArmed
<1>7. CASE UNCHANGED vars
  BY <1>7 DEF vars, kernel, loop, BacklogArmed
<1> QED
  BY <1>2, <1>3, <1>4, <1>5, <1>6, <1>7 DEF Next, Server

(* No waiting connection is forgotten by a table with room for them all.   *)
THEOREM BacklogIsArmed ==
  ASSUME Cardinality(Conn) <= MaxClients
  PROVE  Spec => []BacklogArmed
<1>1. Init => BacklogArmed
  BY DEF Init, BacklogArmed
<1>2. IInv /\ BacklogArmed /\ [Next]_vars => BacklogArmed'
  BY BacklogStep
<1> QED
  BY <1>1, <1>2, InitialState, LoopStep, PTL DEF Spec
=============================================================================
