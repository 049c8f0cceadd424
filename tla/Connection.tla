----------------------------- MODULE Connection -----------------------------
(***************************************************************************)
(* The output of the clients, byte by byte: a message is appended to the   *)
(* out_buffer of everyone it is for in one handler, handle_write hands the *)
(* kernel as much as it takes, and the peers receive it in pieces of any   *)
(* size, or go.  When the kernel reports EPOLLOUT is in EventLoop, which   *)
(* shows that a write never finds the socket full (WriteHasRoom) and that  *)
(* output is not left waiting (OutputArmed); both are used here.           *)
(***************************************************************************)
EXTENDS Naturals, Sequences

CONSTANTS
  Client,       \* the clients, all connected at the start
  SndBuf,       \* bytes a socket holds before the peer acknowledges them
  MaxLen,       \* bound of the model: bytes of a message
  MaxMessages   \* bound of the model: messages

ASSUME ConnectionAssumption ==
  /\ SndBuf \in Nat \ {0}
  /\ MaxLen \in Nat \ {0}
  /\ MaxMessages \in Nat

VARIABLES
  said,        \* number of messages queued so far
  queued,      \* all bytes queued for a client
  out_buffer,
  want_write,
  wire,        \* bytes written and not acknowledged
  delivered,   \* bytes the peer has received
  connected,   \* the clients of clients_
  gone         \* the peers that reset their connection

output == <<said, queued, out_buffer, want_write>>
vars == <<output, wire, delivered, connected, gone>>

(* Byte i of message m.                                                    *)
Byte == (1..MaxMessages) \X (1..MaxLen)

Message(m, len) == [i \in 1..len |-> <<m, i>>]

Init ==
  /\ said = 0
  /\ queued = [c \in Client |-> <<>>]
  /\ out_buffer = [c \in Client |-> <<>>]
  /\ want_write = [c \in Client |-> FALSE]
  /\ wire = [c \in Client |-> <<>>]
  /\ delivered = [c \in Client |-> <<>>]
  /\ connected = Client /\ gone = {}

-----------------------------------------------------------------------------
(* A handler queues a message: queue_message for each client it is for.    *)
Extended(f, to, msg) == [c \in Client |-> IF c \in to THEN f[c] \o msg ELSE f[c]]

(* Mutant of queue_message: the message goes to the front.                 *)
queue_message_Front(to, msg) ==
  /\ queued' = Extended(queued, to, msg)
  /\ out_buffer' = [c \in Client |-> IF c \in to THEN msg \o out_buffer[c]
                                     ELSE out_buffer[c]]
  /\ want_write' = [c \in Client |-> c \in to \/ want_write[c]]

queue_message(to, msg) ==
  /\ queued' = Extended(queued, to, msg)
  /\ out_buffer' = Extended(out_buffer, to, msg)
  /\ want_write' = [c \in Client |-> c \in to \/ want_write[c]]

say ==
  /\ said < MaxMessages
  /\ said' = said + 1
  /\ \E to \in SUBSET connected \ {{}}, len \in 1..MaxLen :
       queue_message(to, Message(said', len))
  /\ UNCHANGED <<wire, delivered, connected, gone>>

-----------------------------------------------------------------------------
Rest(s, n) == SubSeq(s, n + 1, Len(s))

(* What one write may take: something, and no more than there is room for. *)
Written(c) ==
  {n \in 1..Len(out_buffer[c]) : Len(wire[c]) + n <= SndBuf}

(* Mutant of handle_write: a partial write empties the buffer.             *)
handle_write_EraseAll(c) ==
  /\ c \in connected /\ want_write[c] /\ c \notin gone
  /\ \E n \in Written(c) :
       /\ wire' = [wire EXCEPT ![c] = @ \o SubSeq(out_buffer[c], 1, n)]
       /\ out_buffer' = [out_buffer EXCEPT ![c] = <<>>]
  /\ want_write' = [want_write EXCEPT ![c] = FALSE]
  /\ UNCHANGED <<said, queued, delivered, connected, gone>>

(* Mutant of handle_write: the interest ends with every write.             *)
handle_write_Uninterested(c) ==
  /\ c \in connected /\ want_write[c] /\ c \notin gone
  /\ \E n \in Written(c) :
       /\ wire' = [wire EXCEPT ![c] = @ \o SubSeq(out_buffer[c], 1, n)]
       /\ out_buffer' = [out_buffer EXCEPT ![c] = Rest(@, n)]
  /\ want_write' = [want_write EXCEPT ![c] = FALSE]
  /\ UNCHANGED <<said, queued, delivered, connected, gone>>

handle_write(c) ==
  /\ c \in connected /\ want_write[c] /\ c \notin gone
  /\ \E n \in Written(c) :
       /\ wire' = [wire EXCEPT ![c] = @ \o SubSeq(out_buffer[c], 1, n)]
       /\ out_buffer' = [out_buffer EXCEPT ![c] = Rest(@, n)]
  /\ want_write' = [want_write EXCEPT ![c] = out_buffer'[c] # <<>>]
  /\ UNCHANGED <<said, queued, delivered, connected, gone>>

(* Mutant of disconnect_client: out_buffer is handed on.                   *)
disconnect_client_KeepBuffer(c) ==
  /\ connected' = connected \ {c}
  /\ UNCHANGED <<output, wire, delivered, gone>>

(* disconnect_client, at end of input, at a hang-up or when a write fails: *)
(* what is in out_buffer is lost, what the kernel has is not.              *)
disconnect_client(c) ==
  /\ connected' = connected \ {c}
  /\ out_buffer' = [out_buffer EXCEPT ![c] = <<>>]
  /\ want_write' = [want_write EXCEPT ![c] = FALSE]
  /\ UNCHANGED <<said, queued, wire, delivered, gone>>

end_of_input(c) == c \in connected /\ disconnect_client(c)

hang_up(c) == c \in connected \cap gone /\ disconnect_client(c)

-----------------------------------------------------------------------------
(* The peers: receive some bytes, or reset the connection.                 *)
acknowledge(c) ==
  /\ c \notin gone
  /\ \E n \in 1..Len(wire[c]) :
       /\ delivered' = [delivered EXCEPT ![c] = @ \o SubSeq(wire[c], 1, n)]
       /\ wire' = [wire EXCEPT ![c] = Rest(@, n)]
  /\ UNCHANGED <<output, connected, gone>>

reset(c) ==
  /\ gone' = gone \cup {c}
  /\ UNCHANGED <<output, wire, delivered, connected>>

Next ==
  \/ say
  \/ \E c \in Client :
       handle_write(c) \/ end_of_input(c) \/ hang_up(c) \/ acknowledge(c) \/ reset(c)

Spec == Init /\ [][Next]_vars

(* EPOLLOUT and EPOLLHUP are reported and handled (EventLoop), and a peer  *)
(* that is there acknowledges what it was sent.                            *)
FairSpec ==
  /\ Spec
  /\ \A c \in Client :
       WF_vars(handle_write(c)) /\ WF_vars(hang_up(c)) /\ WF_vars(acknowledge(c))

-----------------------------------------------------------------------------
TypeOK ==
  /\ said \in 0..MaxMessages
  /\ queued \in [Client -> Seq(Byte)] /\ out_buffer \in [Client -> Seq(Byte)]
  /\ wire \in [Client -> Seq(Byte)] /\ delivered \in [Client -> Seq(Byte)]
  /\ want_write \in [Client -> BOOLEAN]
  /\ connected \subseteq Client /\ gone \subseteq Client
  /\ \A c \in Client \ connected : out_buffer[c] = <<>>

(* Nothing is lost between queue_message and the peer, added to it or put  *)
(* out of order, whatever the sizes of the writes: what was queued is what *)
(* was received, is in the kernel and is in out_buffer, in this order.     *)
NothingLost ==
  \A c \in connected : queued[c] = delivered[c] \o wire[c] \o out_buffer[c]

(* All peers see the messages they have in common in the order the server  *)
(* handled them, and none sees a part of one between parts of another.     *)
Before(a, b) == a[1] < b[1] \/ (a[1] = b[1] /\ a[2] < b[2])

OneOrder ==
  \A c \in Client : \A j \in 1..Len(delivered[c]) : \A i \in 1..(j - 1) :
    Before(delivered[c][i], delivered[c][j])

(* Each client's output is a channel: a prefix of what was queued, in      *)
(* order, and all of it to a client that stays.                            *)
Output(c) == INSTANCE Channel WITH
  accepted <- queued[c], delivered <- delivered[c], open <- c \in connected

ImplementsChannels ==
  /\ \A c \in Client : Output(c)!Init
  /\ [][\A c \in Client : [Output(c)!Next]_<<queued[c], delivered[c], c \in connected>>]_vars

AllServed == \A c \in Client : Output(c)!Served
=============================================================================
