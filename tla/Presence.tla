------------------------------ MODULE Presence ------------------------------
(***************************************************************************)
(* What a user can conclude from the lines the server sends.  A user who   *)
(* asks /online and then follows the "joined the room" and "left the room" *)
(* notices keeps a roster of the room.  roster is a history variable: it   *)
(* is a function of what was queued to each connection and of nothing else *)
(* the server knows.  A user does not follow the room across a move of     *)
(* their own or across a password prompt (notices are not sent to a client *)
(* at a prompt) until the next /online.                                    *)
(***************************************************************************)
EXTENDS ChatServer

CONSTANT Unknown  \* of a user who does not follow the room

ASSUME UnknownAssumption == \A known \in SUBSET Fd : Unknown # known

VARIABLE roster  \* what each user knows of who is in their room

(* What user f makes of one more line.                                     *)
Forgotten == {"enter nickname", "create password", "enter password",
              "room created", "password success"}

Learn(f, known, m) ==
  CASE m.kind = "online" -> m.names
    [] m.kind \in Forgotten -> Unknown
    [] m.kind \in {"joined", "left"} /\ m.who = f -> Unknown
    [] m.kind = "joined" /\ m.who # f /\ known # Unknown ->
         known \cup {m.who}
    [] m.kind = "left" /\ m.who # f /\ known # Unknown -> known \ {m.who}
    [] OTHER -> known

(* And of several, in the order in which they were queued.                 *)
Heard(f, known, ms) ==
  LET after[i \in 0..Len(ms)] ==
        IF i = 0 THEN known ELSE Learn(f, after[i - 1], ms[i])
  IN  after[Len(ms)]

PInit == Init /\ roster = [f \in Fd |-> Unknown]

PNext ==
  /\ Next
  /\ roster' = [f \in Fd |-> Heard(f, roster[f], queued'[f])]

PSpec == PInit /\ [][PNext]_<<vars, roster>>

-----------------------------------------------------------------------------
(* A user who follows the notices knows who is in the room: whoever enters *)
(* or goes, by a command, an answered prompt or a lost connection, is      *)
(* announced to everyone chatting there, and nobody is announced who did   *)
(* not move.                                                               *)
RosterAccurate ==
  \A f \in DOMAIN clients :
    clients[f].state = STATE_CHAT /\ roster[f] # Unknown =>
      roster[f] = InRoom(clients[f].room_)
=============================================================================
