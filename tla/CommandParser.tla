--------------------------- MODULE CommandParser ---------------------------
(***************************************************************************)
(* parse: from a line to a command.  In the code's tests for a prefix the  *)
(* blank belongs to "/msg " and "/join ", and nothing follows "/leave",    *)
(* "/online" and "/rooms".                                                 *)
(***************************************************************************)
EXTENDS Text

ParsedCommand(type, target, text) ==
  [type |-> type, target |-> target, text |-> text]

UNKNOWN == ParsedCommand("UNKNOWN", <<>>, <<>>)

(* Mutant of parse_private_message: a blank at the end is taken for one    *)
(* before a text.                                                          *)
parse_private_message_NoText(line) ==
  LET blank == SelectInSubSeq(line, 3, Len(line), LAMBDA ch : ch = Space)
      end == IF blank = 0 THEN Len(line) + 1 ELSE blank
  IN  ParsedCommand("PRIVATE_MESSAGE",
                    SubSeq(line, 3, end - 1), From(line, end + 1))

parse_private_message(line) ==
  LET blank == SelectInSubSeq(line, 3, Len(line), LAMBDA ch : ch = Space)
  IN  IF blank = 0 \/ blank = Len(line) THEN UNKNOWN
      ELSE ParsedCommand("PRIVATE_MESSAGE",
                         SubSeq(line, 3, blank - 1), From(line, blank + 1))

parse_join_room(line) ==
  IF From(line, 3) = <<>> THEN UNKNOWN
  ELSE ParsedCommand("JOIN_ROOM", From(line, 3), <<>>)

parse(line) ==
  CASE IsPrefix(<<"/msg", Space>>, line) -> parse_private_message(line)
    [] IsPrefix(<<"/join", Space>>, line) -> parse_join_room(line)
    [] IsPrefix(<<"/leave">>, line) -> ParsedCommand("LEAVE_ROOM", <<>>, <<>>)
    [] IsPrefix(<<"/online">>, line) -> ParsedCommand("ONLINE_LIST", <<>>, <<>>)
    [] IsPrefix(<<"/rooms">>, line) -> ParsedCommand("ROOM_LIST", <<>>, <<>>)
    [] OTHER -> ParsedCommand("PLAIN_MESSAGE", <<>>, line)
=============================================================================
