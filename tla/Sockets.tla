------------------------------ MODULE Sockets ------------------------------
(***************************************************************************)
(* The kernel as the event loop sees it: the sockets of the connections,   *)
(* what the peers do to them at any moment, and an edge-triggered epoll    *)
(* set.  An item of the set is ready from an event on its socket, or from  *)
(* an epoll_ctl that finds it readable or writable, until epoll_wait       *)
(* takes it.  External: modelled from how src/ uses it.                    *)
(*                                                                         *)
(* A line is the unit of input and a message the unit of output.           *)
(***************************************************************************)
EXTENDS Naturals, FiniteSets, Functions

CONSTANTS
  Conn,    \* connections; one that was closed can connect again
  RcvBuf,  \* lines a socket holds before the server reads them
  SndBuf   \* messages a socket holds before the peer acknowledges them

ASSUME BuffersAssumption ==
  /\ IsFiniteSet(Conn)
  /\ RcvBuf \in Nat \ {0}
  /\ SndBuf \in Nat \ {0}

VARIABLES
  sock,       \* the connected sockets: unread lines, end of input, reset,
              \* unacknowledged messages
  backlog,    \* the connections accept has yet to return
  listening,  \* whether the listening socket is ready in the epoll set
  epoll       \* the registered sockets: interest in EPOLLOUT, and readiness

kernel == <<sock, backlog, listening, epoll>>

Socket == [rcv : 0..RcvBuf, fin : BOOLEAN, rst : BOOLEAN, snd : 0..SndBuf]
Item == [out : BOOLEAN, ready : BOOLEAN]

Fresh == [rcv |-> 0, fin |-> FALSE, rst |-> FALSE, snd |-> 0]

Readable(c) == sock[c].rcv > 0 \/ sock[c].fin \/ sock[c].rst
Writable(c) == sock[c].snd < SndBuf \/ sock[c].rst
HungUp(c) == sock[c].rst

-----------------------------------------------------------------------------
(* Calls of the server, as the epoll set they leave behind: register c, or *)
(* give it another interest.  Either finds c ready if it is.               *)
Registered(c, out) ==
  [out |-> out, ready |-> Readable(c) \/ (out /\ Writable(c))]

Modified(item, c, out) ==
  [out |-> out, ready |-> item.ready \/ Registered(c, out).ready]

Without(f, c) == Restrict(f, DOMAIN f \ {c})

-----------------------------------------------------------------------------
(* The peers and the network.  An event makes the item of its socket ready *)
(* if there is one that is interested.                                     *)
Notified(c) ==
  IF c \in DOMAIN epoll THEN [epoll EXCEPT ![c].ready = TRUE] ELSE epoll

connect(c) ==
  /\ c \notin DOMAIN sock
  /\ sock' = [d \in DOMAIN sock \cup {c} |-> IF d = c THEN Fresh ELSE sock[d]]
  /\ backlog' = backlog \cup {c}
  /\ listening' = TRUE
  /\ UNCHANGED epoll

send(c) ==
  /\ c \in DOMAIN sock
  /\ ~ sock[c].fin /\ ~ sock[c].rst /\ sock[c].rcv < RcvBuf
  /\ sock' = [sock EXCEPT ![c].rcv = @ + 1]
  /\ epoll' = Notified(c)
  /\ UNCHANGED <<backlog, listening>>

finish(c) ==
  /\ c \in DOMAIN sock
  /\ ~ sock[c].fin /\ ~ sock[c].rst
  /\ sock' = [sock EXCEPT ![c].fin = TRUE]
  /\ epoll' = Notified(c)
  /\ UNCHANGED <<backlog, listening>>

reset(c) ==
  /\ c \in DOMAIN sock
  /\ ~ sock[c].rst
  /\ sock' = [sock EXCEPT ![c].rst = TRUE]
  /\ epoll' = Notified(c)
  /\ UNCHANGED <<backlog, listening>>

(* Room in a full send buffer is an event for who waits to write.          *)
acknowledge(c) ==
  /\ c \in DOMAIN sock
  /\ sock[c].snd > 0 /\ ~ sock[c].rst
  /\ sock' = [sock EXCEPT ![c].snd = @ - 1]
  /\ epoll' = IF /\ ~ Writable(c)
                 /\ c \in DOMAIN epoll
                 /\ epoll[c].out
              THEN Notified(c) ELSE epoll
  /\ UNCHANGED <<backlog, listening>>

Peer(c) == connect(c) \/ send(c) \/ finish(c) \/ reset(c) \/ acknowledge(c)
=============================================================================
