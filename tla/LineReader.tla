----------------------------- MODULE LineReader -----------------------------
(***************************************************************************)
(* The input of one client, byte by byte: the socket, in_buffer, and the   *)
(* two loops of handle_client_read, one turn per step, with bytes arriving *)
(* at any time.                                                            *)
(***************************************************************************)
EXTENDS Text

CONSTANTS
  Byte,         \* what a client may send, "\n" included
  BUFFER_SIZE,  \* a read takes one byte less at most
  MaxBytes      \* bound of the model: bytes of one connection

ASSUME ReaderAssumption ==
  /\ BUFFER_SIZE \in Nat /\ BUFFER_SIZE > 1
  /\ MaxBytes \in Nat

VARIABLES
  unread,     \* bytes in the socket
  in_buffer,
  processed,  \* lines handed to process_message
  sent        \* number of bytes sent

vars == <<unread, in_buffer, processed, sent>>

Init == unread = <<>> /\ in_buffer = <<>> /\ processed = <<>> /\ sent = 0

-----------------------------------------------------------------------------
arrive ==
  /\ sent < MaxBytes
  /\ \E b \in Byte : unread' = Append(unread, b)
  /\ sent' = sent + 1
  /\ UNCHANGED <<in_buffer, processed>>

(* The outer loop: read again only when in_buffer holds no whole line.     *)
Chunk == IF Len(unread) < BUFFER_SIZE THEN Len(unread) ELSE BUFFER_SIZE - 1

(* Mutant of read: what was left in in_buffer is overwritten.              *)
read_Overwrite ==
  /\ Find(in_buffer, "\n") = 0 /\ unread # <<>>
  /\ in_buffer' = SubSeq(unread, 1, Chunk)
  /\ unread' = From(unread, Chunk + 1)
  /\ UNCHANGED <<processed, sent>>

read ==
  /\ Find(in_buffer, "\n") = 0 /\ unread # <<>>
  /\ in_buffer' = in_buffer \o SubSeq(unread, 1, Chunk)
  /\ unread' = From(unread, Chunk + 1)
  /\ UNCHANGED <<processed, sent>>

(* The inner loop: cut a line, drop its carriage return, skip it if it is  *)
(* empty, trim it and process it.                                          *)
Line == SubSeq(in_buffer, 1, Find(in_buffer, "\n") - 1)

Bare(line) ==
  IF line # <<>> /\ Last(line) = "\r" THEN Front(line) ELSE line

(* Mutant of next_line: a newline at the very end is not seen.             *)
next_line_OffByOne ==
  /\ Find(in_buffer, "\n") # 0 /\ Find(in_buffer, "\n") < Len(in_buffer)
  /\ in_buffer' = From(in_buffer, Find(in_buffer, "\n") + 1)
  /\ processed' = IF Bare(Line) = <<>> THEN processed
                  ELSE Append(processed, trim(Bare(Line)))
  /\ UNCHANGED <<unread, sent>>

next_line ==
  /\ Find(in_buffer, "\n") # 0
  /\ in_buffer' = From(in_buffer, Find(in_buffer, "\n") + 1)
  /\ processed' = IF Bare(Line) = <<>> THEN processed
                  ELSE Append(processed, trim(Bare(Line)))
  /\ UNCHANGED <<unread, sent>>

(* Mutant of disconnect: in_buffer outlives the client.                    *)
disconnect_KeepBuffer ==
  /\ Find(in_buffer, "\n") = 0
  /\ unread' = <<>> /\ UNCHANGED in_buffer /\ processed' = <<>> /\ sent' = 0

(* End of input or an error, once the lines read so far are processed: the *)
(* client goes with its in_buffer, and another one may come.               *)
disconnect ==
  /\ Find(in_buffer, "\n") = 0
  /\ unread' = <<>> /\ in_buffer' = <<>> /\ processed' = <<>> /\ sent' = 0

Next == arrive \/ read \/ next_line \/ disconnect

Spec == Init /\ [][Next]_vars

FairSpec == Spec /\ WF_vars(read \/ next_line)

-----------------------------------------------------------------------------
TypeOK ==
  /\ unread \in Seq(Byte) /\ in_buffer \in Seq(Byte)
  /\ \A i \in 1..Len(processed) : processed[i] \in Seq(Byte)
  /\ sent \in 0..MaxBytes
  /\ Len(in_buffer) + Len(unread) <= sent

(* However the bytes are split over reads, the client's lines are handed   *)
(* over whole, once and in order (LineStream): in_buffer and the socket    *)
(* together are the bytes that are still to be cut.                        *)
Stream == INSTANCE LineStream WITH stream <- in_buffer \o unread, lines <- processed

ImplementsLineStream == Stream!Spec

(* A newline that has arrived does not wait for more input: its line is    *)
(* processed or the client goes.                                           *)
LinesServed ==
  Contains(in_buffer \o unread, "\n") ~> ~ Contains(in_buffer \o unread, "\n")
=============================================================================
