---------------------------- MODULE CommandInput ----------------------------
(***************************************************************************)
(* A chatting client's lines and the commands they are: LineReader with    *)
(* the parser that execute calls for each processed line.                  *)
(***************************************************************************)
EXTENDS LineReader, CommandParser

(* A private message is what is typed as "/msg", a nickname and a text:    *)
(* the nickname holds no blank, the text is everything after it, and there *)
(* is one way to read the line.                                            *)
PrivateMessagesParsed ==
  \A i \in 1..Len(processed) :
    LET line == processed[i]
        Readings == {n \in 3..(Len(line) - 1) :
                       /\ <<line[1], line[2], line[n]>> = <<"/msg", Space, Space>>
                       /\ \A m \in 3..(n - 1) : line[m] # Space}
    IN  /\ parse(line).type = "PRIVATE_MESSAGE" <=> Readings # {}
        /\ \A n \in Readings :
             parse(line) = ParsedCommand("PRIVATE_MESSAGE",
                                         SubSeq(line, 3, n - 1), From(line, n + 1))

(* What the handlers take for granted of a command: a room has a name, and *)
(* neither a room's name nor a text ends in a blank, so that "/join room"  *)
(* and "/join room " are one room.  It needs the trim before the parser.   *)
(* A second blank before the name stays a part of it: "/join  room" is     *)
(* another room.                                                           *)
CommandsClean ==
  \A i \in 1..Len(processed) :
    LET command == parse(processed[i])
    IN  /\ command.type = "JOIN_ROOM" => command.target # <<>>
        /\ \A s \in {command.target, command.text} :
             s # <<>> => Last(s) # Space
=============================================================================
