----------------------------- MODULE EventLoop -----------------------------
(***************************************************************************)
(* ChatServer::run at the grain of its system calls: epoll_wait, the loop  *)
(* over the events it returned, accept, read and write, with the peers     *)
(* free to act between any two of them.  Of a client only the output       *)
(* buffer and want_write are here; what a line or a disconnection makes    *)
(* the handlers do (ChatServer) is a message queued to any set of clients. *)
(***************************************************************************)
EXTENDS Sockets

CONSTANTS
  Listener,    \* server_fd_, in the data of an event
  MAX_EVENTS,  \* events one epoll_wait returns at most
  MaxClients,  \* clients the descriptor table has room for
  MaxOut       \* bound of the model: messages in one out_buffer

ASSUME LoopAssumption ==
  /\ Listener \notin Conn
  /\ MAX_EVENTS \in Nat \ {0}
  /\ MaxClients \in Nat \ {0}
  /\ MaxOut \in Nat \ {0}

VARIABLES
  clients,  \* clients_: messages in out_buffer and want_write
  batch,    \* the events of the last epoll_wait that are still to be handled
  event,    \* the event being handled
  pc        \* where the thread is

loop == <<clients, batch, event, pc>>
vars == <<kernel, loop>>

(* Two places are no places of the program: the thread has called a        *)
(* handler on a deleted client, or the process was killed by a signal.     *)
Gone == {"deleted client", "killed"}
Places == {"wait", "next", "accept", "hang up", "read", "write"} \cup Gone

Event == [who : Conn \cup {Listener}, in : BOOLEAN, out : BOOLEAN, hup : BOOLEAN]
NoEvent == [who |-> Listener, in |-> FALSE, out |-> FALSE, hup |-> FALSE]

Init ==
  /\ sock = <<>> /\ backlog = {} /\ listening = FALSE /\ epoll = <<>>
  /\ clients = <<>> /\ batch = {} /\ event = NoEvent /\ pc = "wait"

-----------------------------------------------------------------------------
(* queue_message to each of to: the tables it leaves behind.               *)
Queueable(cs, to) == \A d \in to : cs[d].out_buffer < MaxOut

(* Mutant of Interested: the interest is not modified.                     *)
Interested_NoModify(cs, ep, to) == ep

Interested(cs, ep, to) ==
  [d \in DOMAIN ep |-> IF d \in to /\ ~ cs[d].want_write
                       THEN Modified(ep[d], d, TRUE) ELSE ep[d]]

Queued(cs, to) ==
  [d \in DOMAIN cs |-> IF d \in to
                       THEN [out_buffer |-> cs[d].out_buffer + 1,
                             want_write |-> TRUE]
                       ELSE cs[d]]

queue_message(to) ==
  /\ Queueable(clients, to)
  /\ clients' = Queued(clients, to)
  /\ epoll' = Interested(clients, epoll, to)

(* disconnect_client, with what it announces to some of the others.        *)
disconnect_client(c) ==
  \E to \in SUBSET (DOMAIN clients \ {c}) :
    /\ Queueable(clients, to)
    /\ clients' = Without(Queued(clients, to), c)
    /\ epoll' = Without(Interested(clients, epoll, to), c)
    /\ sock' = Without(sock, c)
    /\ UNCHANGED <<backlog, listening>>

-----------------------------------------------------------------------------
(* epoll_wait takes up to MAX_EVENTS ready items, and returns those that   *)
(* are readable, writable or hung up by now.                               *)
EventOf(c) ==
  [who |-> c, in |-> Readable(c),
   out |-> epoll[c].out /\ Writable(c), hup |-> HungUp(c)]

Ready ==
  {c \in DOMAIN epoll : epoll[c].ready}
    \cup (IF listening THEN {Listener} ELSE {})

Returned(taken) ==
  {ev \in {EventOf(c) : c \in taken \ {Listener}} : ev.in \/ ev.out \/ ev.hup}
    \cup (IF Listener \in taken /\ backlog # {}
          THEN {[NoEvent EXCEPT !.in = TRUE]} ELSE {})

epoll_wait ==
  /\ pc = "wait"
  /\ \E taken \in SUBSET Ready \ {{}} :
       /\ taken = Ready \/ Cardinality(taken) = MAX_EVENTS
       /\ batch' = Returned(taken)
       /\ epoll' = [c \in DOMAIN epoll |->
                      IF c \in taken THEN [epoll[c] EXCEPT !.ready = FALSE]
                      ELSE epoll[c]]
       /\ listening' = (listening /\ Listener \notin taken)
  /\ pc' = IF batch' = {} THEN "wait" ELSE "next"
  /\ UNCHANGED <<sock, backlog, clients, event>>

(* The loop over the events: hung up, readable, writable, in that order.   *)
Handler(ev) ==
  CASE ev.who = Listener -> "accept"
    [] ev.who # Listener /\ ev.hup -> "hang up"
    [] ev.who # Listener /\ ~ ev.hup /\ ev.in -> "read"
    [] OTHER -> "write"

next_event ==
  /\ pc = "next"
  /\ \/ /\ batch = {}
        /\ pc' = "wait" /\ event' = NoEvent
        /\ UNCHANGED batch
     \/ \E ev \in batch :
          /\ event' = ev /\ batch' = batch \ {ev}
          /\ pc' = Handler(ev)
  /\ UNCHANGED <<kernel, clients>>

hang_up ==
  /\ pc = "hang up"
  /\ disconnect_client(event.who)
  /\ pc' = "next"
  /\ UNCHANGED <<batch, event>>

-----------------------------------------------------------------------------
(* accept_new_client: one turn of its loop per step.  A new client is      *)
(* prompted for its nickname; one that cannot be made non-blocking or      *)
(* registered is closed.                                                   *)
Welcome(c) ==
  /\ clients' = [d \in DOMAIN clients \cup {c} |->
                   IF d = c THEN [out_buffer |-> 1, want_write |-> TRUE]
                   ELSE clients[d]]
  /\ epoll' = [d \in DOMAIN epoll \cup {c} |->
                 IF d = c THEN Registered(c, TRUE) ELSE epoll[d]]
  /\ UNCHANGED sock

(* Mutant of Refuse: the client of a failed registration is kept.          *)
Refuse_KeepClient(c) ==
  /\ clients' = [d \in DOMAIN clients \cup {c} |->
                   IF d = c THEN [out_buffer |-> 0, want_write |-> FALSE]
                   ELSE clients[d]]
  /\ UNCHANGED <<sock, epoll>>

Refuse(c) == sock' = Without(sock, c) /\ UNCHANGED <<clients, epoll>>

accept_one ==
  \E c \in backlog :
    /\ Cardinality(DOMAIN clients) < MaxClients
    /\ backlog' = backlog \ {c}
    /\ Welcome(c) \/ Refuse(c)

(* Mutant of accept_new_client: one connection per event.                  *)
accept_new_client_Once ==
  /\ pc = "accept"
  /\ accept_one
  /\ pc' = "next"
  /\ UNCHANGED <<listening, batch, event>>

accept_new_client ==
  /\ pc = "accept"
  /\ \/ accept_one /\ pc' = "accept"
     \/ /\ backlog = {} \/ Cardinality(DOMAIN clients) >= MaxClients
        /\ pc' = "next"
        /\ UNCHANGED <<sock, backlog, epoll, clients>>
  /\ UNCHANGED <<listening, batch, event>>

-----------------------------------------------------------------------------
(* handle_client_read reads on until there is nothing left, then the       *)
(* EPOLLOUT bit of the same event is looked at.                            *)
AfterRead == IF event.out THEN "write" ELSE "next"

(* As AfterRead, with the client deleted.                                  *)
AfterDelete == IF event.out THEN "deleted client" ELSE "next"

read_line(c) ==
  /\ sock[c].rcv > 0
  /\ \E to \in SUBSET DOMAIN clients : queue_message(to)
  /\ sock' = [sock EXCEPT ![c].rcv = @ - 1]
  /\ UNCHANGED <<backlog, listening>>

read_end(c) ==
  /\ sock[c].rcv = 0 /\ (sock[c].fin \/ sock[c].rst)
  /\ disconnect_client(c)

(* Mutant of handle_client_read: one read per event.                       *)
handle_client_read_Once ==
  /\ pc = "read"
  /\ \/ read_line(event.who) /\ pc' = AfterRead
     \/ read_end(event.who) /\ pc' = AfterDelete
     \/ ~ Readable(event.who) /\ pc' = AfterRead /\ UNCHANGED <<kernel, clients>>
  /\ UNCHANGED <<batch, event>>

(* Mutant: a client whose output is not drained is dropped by a broadcast. *)
handle_client_read_DropSlow ==
  /\ pc = "read"
  /\ \/ read_line(event.who) /\ pc' = "read"
     \/ /\ sock[event.who].rcv > 0
        /\ \E d \in DOMAIN clients \ {event.who} :
             clients[d].want_write /\ disconnect_client(d)
        /\ pc' = "read"
     \/ read_end(event.who) /\ pc' = AfterDelete
     \/ ~ Readable(event.who) /\ pc' = AfterRead /\ UNCHANGED <<kernel, clients>>
  /\ UNCHANGED <<batch, event>>

handle_client_read ==
  /\ pc = "read"
  /\ \/ read_line(event.who) /\ pc' = "read"
     \/ read_end(event.who) /\ pc' = AfterDelete
     \/ ~ Readable(event.who) /\ pc' = AfterRead /\ UNCHANGED <<kernel, clients>>
  /\ UNCHANGED <<batch, event>>

-----------------------------------------------------------------------------
(* handle_write: one write, of as much as the socket takes.  An emptied    *)
(* buffer ends the interest in EPOLLOUT.                                   *)
Least(m, n) == IF m < n THEN m ELSE n

Taken(c) == Least(clients[c].out_buffer, SndBuf - sock[c].snd)

Uninterested(c) == [epoll EXCEPT ![c] = Modified(@, c, FALSE)]

(* Mutant of write_some: the interest ends with every write.               *)
write_some_Uninterested(c) ==
  /\ sock' = [sock EXCEPT ![c].snd = @ + Taken(c)]
  /\ clients' = [clients EXCEPT ![c] =
                   [out_buffer |-> @.out_buffer - Taken(c), want_write |-> FALSE]]
  /\ epoll' = Uninterested(c)
  /\ UNCHANGED <<backlog, listening>>

write_some(c) ==
  LET left == clients[c].out_buffer - Taken(c)
  IN  /\ sock' = [sock EXCEPT ![c].snd = @ + Taken(c)]
      /\ clients' = [clients EXCEPT ![c] =
                       [out_buffer |-> left, want_write |-> left > 0]]
      /\ epoll' = IF left = 0 THEN Uninterested(c) ELSE epoll
      /\ UNCHANGED <<backlog, listening>>

(* write fails: the peer is gone, or the socket would block, which         *)
(* handle_write reports like any other error.                              *)
WriteFails(c) ==
  clients[c].out_buffer > 0 /\ (sock[c].rst \/ sock[c].snd = SndBuf)

(* A write to a connection that was ended and then reset raises SIGPIPE,   *)
(* for which the server installs no handler.                               *)
BrokenPipe(c) == WriteFails(c) /\ sock[c].rst /\ sock[c].fin

(* Mutant of handle_client_write: it writes until the buffer is empty.     *)
handle_client_write_Drain ==
  /\ pc = "write"
  /\ \/ /\ ~ WriteFails(event.who)
        /\ write_some(event.who)
        /\ pc' = IF clients'[event.who].want_write THEN "write" ELSE "next"
     \/ /\ WriteFails(event.who) /\ ~ BrokenPipe(event.who)
        /\ disconnect_client(event.who)
        /\ pc' = "next"
     \/ /\ BrokenPipe(event.who)
        /\ pc' = "killed"
        /\ UNCHANGED <<kernel, clients>>
  /\ UNCHANGED <<batch, event>>

handle_client_write ==
  /\ pc = "write"
  /\ \/ /\ ~ WriteFails(event.who)
        /\ write_some(event.who)
        /\ pc' = "next"
     \/ /\ WriteFails(event.who) /\ ~ BrokenPipe(event.who)
        /\ disconnect_client(event.who)
        /\ pc' = "next"
     \/ /\ BrokenPipe(event.who)
        /\ pc' = "killed"
        /\ UNCHANGED <<kernel, clients>>
  /\ UNCHANGED <<batch, event>>

-----------------------------------------------------------------------------
Server ==
  \/ epoll_wait
  \/ next_event
  \/ hang_up
  \/ accept_new_client
  \/ handle_client_read
  \/ handle_client_write

Network == \E c \in Conn : Peer(c) /\ UNCHANGED loop

Next == Server \/ (pc \notin Gone /\ Network)

Spec == Init /\ [][Next]_vars

(* The thread runs when it can; peers owe nothing, except that what was    *)
(* sent to one that is connected is acknowledged some time.                *)
FairSpec ==
  /\ Spec
  /\ WF_vars(Server)
  /\ \A c \in Conn : WF_vars(acknowledge(c) /\ UNCHANGED loop /\ pc \notin Gone)

-----------------------------------------------------------------------------
TypeOK ==
  /\ DOMAIN sock \subseteq Conn /\ sock \in [DOMAIN sock -> Socket]
  /\ backlog \subseteq DOMAIN sock
  /\ listening \in BOOLEAN
  /\ DOMAIN clients \subseteq DOMAIN sock \ backlog
  /\ clients \in [DOMAIN clients -> [out_buffer : 0..MaxOut,
                                     want_write : BOOLEAN]]
  /\ epoll \in [DOMAIN clients -> Item]
  /\ batch \subseteq Event /\ event \in Event /\ pc \in Places

(* The events that the thread has been given and not finished with.        *)
Pending == IF pc \in {"next", "wait"} THEN batch ELSE batch \cup {event}

(* want_write, the interest in EPOLLOUT and a non-empty out_buffer agree   *)
(* whenever the thread makes a system call.                                *)
InterestAgrees ==
  \A c \in DOMAIN clients :
    /\ clients[c].want_write <=> clients[c].out_buffer > 0
    /\ epoll[c].out <=> clients[c].out_buffer > 0

(* Edge triggering loses no output: while something is in an out_buffer,   *)
(* the item is ready, or an event that leads to a write or a disconnection *)
(* is on its way, or the socket is full and the next acknowledgement makes *)
(* the item ready.  A single write per event is enough for that.           *)
OutputArmed ==
  \A c \in DOMAIN clients :
    clients[c].out_buffer > 0 =>
      \/ epoll[c].ready
      \/ ~ Writable(c)
      \/ \E ev \in Pending : ev.who = c /\ (ev.out \/ ev.hup)

(* Nor input: a line, an end of input or a reset that is not read yet is   *)
(* ahead of the reading loop or has an event or readiness of its own.      *)
InputArmed ==
  \A c \in DOMAIN clients :
    Readable(c) =>
      \/ epoll[c].ready
      \/ \E ev \in batch : ev.who = c /\ (ev.in \/ ev.hup)
      \/ pc \in {"read", "hang up"} /\ event.who = c

(* Nor connections, as long as no accept fails for want of descriptors.    *)
BacklogArmed ==
  backlog # {} =>
    \/ listening
    \/ pc = "accept"
    \/ \E ev \in batch : ev.who = Listener

(* Events carry client pointers: handling one event deletes no client that *)
(* a later event of the batch points to.                                   *)
BatchAlive == \A ev \in batch : ev.who \in DOMAIN clients \cup {Listener}

(* handle_write treats a write that would block as a failed connection; no *)
(* client is dropped for that, since EPOLLOUT was reported after the last  *)
(* write and nobody else fills the socket.                                 *)
WriteHasRoom == pc = "write" => Writable(event.who)

(* "if (!client) return;": the handlers are meant for clients that exist.  *)
(* A client that is deleted while the EPOLLIN bit of its event is handled  *)
(* is still handed to handle_client_write for the EPOLLOUT bit.            *)
HandlersOnLiveClients == pc # "deleted client"

(* The server "continues running in the background": no peer ends it.      *)
ContinuesRunning == pc # "killed"

-----------------------------------------------------------------------------
(* A client that keeps sending keeps handle_client_read from returning, so *)
(* every promise below is for a loop that gets back to epoll_wait.         *)
LoopGoesRound == []<>(pc \in {"wait"} \cup Gone)

(* Every line, end of input and reset is eventually read or the client is  *)
(* disconnected.                                                           *)
InputServed ==
  LoopGoesRound =>
    \A c \in Conn :
      (c \in DOMAIN clients /\ Readable(c))
        ~> (c \notin DOMAIN clients \/ ~ Readable(c) \/ pc \in Gone)

(* Every connection is eventually taken from the backlog.                  *)
ConnectionsAccepted ==
  LoopGoesRound =>
    \A c \in Conn : c \in backlog ~> (c \notin backlog \/ pc \in Gone)

(* Output is eventually written, to a peer that acknowledges: a write takes *)
(* something (WriteHasRoom), and other handlers may have added to the rest  *)
(* by then, so an empty buffer is not promised.                             *)
OutputServed ==
  LoopGoesRound =>
    \A c \in Conn :
      (c \in DOMAIN clients /\ clients[c].out_buffer > 0)
        ~> \/ c \notin DOMAIN clients
           \/ pc = "write" /\ event.who = c
           \/ pc \in Gone
=============================================================================
