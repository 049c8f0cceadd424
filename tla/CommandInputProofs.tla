------------------------- MODULE CommandInputProofs -------------------------
(***************************************************************************)
(* The lines of a client are its bytes cut at the newlines, however they   *)
(* are split over reads, and the commands they are parsed to are what is   *)
(* typed: for a buffer of any size and any number of bytes.                *)
(***************************************************************************)
EXTENDS CommandInput, TextProofs

(* A line reaches the parser with no blank at either end.                  *)
LinesTrimmed ==
  /\ processed \in Seq(Seq(Byte))
  /\ \A i \in 1..Len(processed) : IsTrimmed(processed[i])

IInv == TypeOK /\ LinesTrimmed

-----------------------------------------------------------------------------
(* How bytes are joined does not matter.                                   *)
LEMMA BytesAssociative ==
  \A s, t, u \in Seq(Byte) : (s \o t) \o u = s \o (t \o u)
BY Associative

(* What a read takes out of the socket goes to the end of in_buffer.       *)
LEMMA ReadMoves ==
  ASSUME unread \in Seq(Byte), in_buffer \in Seq(Byte), read
  PROVE  /\ unread' \in Seq(Byte) /\ in_buffer' \in Seq(Byte)
         /\ Len(in_buffer') + Len(unread') = Len(in_buffer) + Len(unread)
         /\ in_buffer' \o unread' = in_buffer \o unread
<1> DEFINE c == Chunk
<1>1. c \in 0..Len(unread)
  BY ReaderAssumption DEF Chunk
<1>2. /\ in_buffer' = in_buffer \o SubSeq(unread, 1, c)
      /\ unread' = SubSeq(unread, c + 1, Len(unread))
  BY DEF read, From
<1> HIDE DEF c
<1>3. SubSeq(unread, 1, c) \in Seq(Byte) /\ Len(SubSeq(unread, 1, c)) = c - 1 + 1
  <2>1. 1 \in 1..(Len(unread) + 1) /\ c \in (1 - 1)..Len(unread)
    BY <1>1
  <2> QED
    BY <2>1, Piece
<1>4. /\ SubSeq(unread, c + 1, Len(unread)) \in Seq(Byte)
      /\ Len(SubSeq(unread, c + 1, Len(unread))) = Len(unread) - (c + 1) + 1
  <2>1. c + 1 \in 1..(Len(unread) + 1) /\ Len(unread) \in (c + 1 - 1)..Len(unread)
    BY <1>1
  <2> QED
    BY <1>1, <2>1, Piece
<1>5. SubSeq(unread, 1, c) \o SubSeq(unread, c + 1, Len(unread)) = unread
  <2>1. /\ 1 \in 1..(Len(unread) + 1) /\ c \in (1 - 1)..Len(unread)
        /\ Len(unread) \in c..Len(unread)
    BY <1>1
  <2>2. SubSeq(unread, 1, c) \o SubSeq(unread, c + 1, Len(unread))
          = SubSeq(unread, 1, Len(unread))
    BY <2>1, ConcatAdjacentSubSeq
  <2> QED
    BY <2>2, SubSeqFull
<1>6. in_buffer' \in Seq(Byte) /\ Len(in_buffer') = Len(in_buffer) + c
  BY <1>1, <1>2, <1>3, ConcatProperties
<1>7. Len(unread') = Len(unread) - c /\ unread' \in Seq(Byte)
  BY <1>1, <1>2, <1>4
<1>8. in_buffer' \o unread' = in_buffer \o unread
  <2>1. PICK s, t : s = SubSeq(unread, 1, c) /\ t = SubSeq(unread, c + 1, Len(unread))
    OBVIOUS
  <2>2. s \in Seq(Byte) /\ t \in Seq(Byte) /\ s \o t = unread
    BY <1>3, <1>4, <1>5, <2>1
  <2>3. in_buffer' = in_buffer \o s /\ unread' = t
    BY <1>2, <2>1
  <2>4. (in_buffer \o s) \o t = in_buffer \o (s \o t)
    BY <2>2, BytesAssociative
  <2> QED
    BY <2>2, <2>3, <2>4
<1> QED
  BY <1>1, <1>6, <1>7, <1>8

(* The inner loop cuts in_buffer at its first newline.                     *)
LEMMA NewlineIs ==
  ASSUME in_buffer \in Seq(Byte), Find(in_buffer, "\n") # 0
  PROVE  /\ Find(in_buffer, "\n") \in 1..Len(in_buffer)
         /\ in_buffer[Find(in_buffer, "\n")] = "\n"
         /\ \A m \in 1..(Find(in_buffer, "\n") - 1) : in_buffer[m] # "\n"
<1> DEFINE n == Find(in_buffer, "\n")
<1>1. /\ n \in 0..Len(in_buffer)
      /\ n # 0 => in_buffer[n] = "\n" /\ \A m \in 1..(n - 1) : in_buffer[m] # "\n"
  BY FindIs
<1> HIDE DEF n
<1>2. n # 0 => n \in 1..Len(in_buffer)
  BY <1>1
<1> QED
  BY <1>1, <1>2 DEF n

(* The line that is cut, and what is left, are bytes of in_buffer.         *)
LEMMA LineIs ==
  ASSUME in_buffer \in Seq(Byte), Find(in_buffer, "\n") # 0
  PROVE  /\ Line \in Seq(Byte) /\ Bare(Line) \in Seq(Byte)
         /\ From(in_buffer, Find(in_buffer, "\n") + 1) \in Seq(Byte)
         /\ Len(From(in_buffer, Find(in_buffer, "\n") + 1)) <= Len(in_buffer)
<1> DEFINE n == Find(in_buffer, "\n")
           rest == From(in_buffer, n + 1)
<1>1. n \in 1..Len(in_buffer)
  BY NewlineIs
<1>2. Line = SubSeq(in_buffer, 1, n - 1) /\ rest = SubSeq(in_buffer, n + 1, Len(in_buffer))
  BY DEF Line, From
<1> HIDE DEF n, rest
<1>3. Line \in Seq(Byte)
  <2>1. 1 \in 1..(Len(in_buffer) + 1) /\ n - 1 \in (1 - 1)..Len(in_buffer)
    BY <1>1
  <2> QED
    BY <1>2, <2>1, Piece
<1>4. rest \in Seq(Byte) /\ Len(rest) <= Len(in_buffer)
  <2>1. /\ n + 1 \in 1..(Len(in_buffer) + 1)
        /\ Len(in_buffer) \in (n + 1 - 1)..Len(in_buffer)
    BY <1>1
  <2>2. rest \in Seq(Byte) /\ Len(rest) = Len(in_buffer) - (n + 1) + 1
    BY <1>1, <1>2, <2>1, Piece
  <2> QED
    BY <1>1, <2>2
<1>5. Bare(Line) \in Seq(Byte)
  <2>1. CASE Line = <<>>
    BY <1>3, <2>1 DEF Bare
  <2>2. CASE Line # <<>>
    <3>1. 1 \in 1..(Len(Line) + 1) /\ Len(Line) - 1 \in (1 - 1)..Len(Line)
      BY <1>3, <2>2
    <3>2. Front(Line) \in Seq(Byte)
      BY <1>3, <3>1, Piece DEF Front
    <3> QED
      BY <1>3, <3>2 DEF Bare
  <2> QED  BY <2>1, <2>2
<1> QED
  BY <1>3, <1>4, <1>5 DEF n, rest

-----------------------------------------------------------------------------
(* The invariant holds of a new connection, and every step keeps it.       *)
LEMMA StartKeeps == Init => IInv
<1> SUFFICES ASSUME Init PROVE IInv
  OBVIOUS
<1>1. unread = <<>> /\ in_buffer = <<>> /\ processed = <<>> /\ sent = 0
  BY DEF Init
<1>2. TypeOK
  BY <1>1, ReaderAssumption DEF TypeOK
<1> QED
  BY <1>1, <1>2 DEF IInv, LinesTrimmed

LEMMA StepKeeps == IInv /\ [Next]_vars => IInv'
<1> SUFFICES ASSUME IInv, [Next]_vars PROVE IInv'
  OBVIOUS
<1>0. /\ unread \in Seq(Byte) /\ in_buffer \in Seq(Byte) /\ sent \in 0..MaxBytes
      /\ MaxBytes \in Nat /\ Len(in_buffer) + Len(unread) <= sent
      /\ processed \in Seq(Seq(Byte))
      /\ \A i \in 1..Len(processed) : IsTrimmed(processed[i])
  BY ReaderAssumption DEF IInv, TypeOK, LinesTrimmed
<1>1. CASE arrive
  <2>1. PICK b \in Byte : unread' = Append(unread, b)
    BY <1>1 DEF arrive
  <2>2. unread' \in Seq(Byte) /\ Len(unread') = Len(unread) + 1
    BY <1>0, <2>1, AppendProperties
  <2>3. sent < MaxBytes /\ sent' = sent + 1 /\ in_buffer' = in_buffer
    BY <1>1 DEF arrive
  <2>4. sent' \in 0..MaxBytes /\ Len(in_buffer') + Len(unread') <= sent'
    BY <1>0, <2>2, <2>3
  <2>5. processed' = processed
    BY <1>1 DEF arrive
  <2> QED
    BY <1>0, <2>2, <2>3, <2>4, <2>5 DEF IInv, TypeOK, LinesTrimmed
<1>2. CASE read
  <2>1. processed' = processed /\ sent' = sent
    BY <1>2 DEF read
  <2>2. /\ unread' \in Seq(Byte) /\ in_buffer' \in Seq(Byte)
        /\ Len(in_buffer') + Len(unread') = Len(in_buffer) + Len(unread)
    BY <1>0, <1>2, ReadMoves
  <2> QED
    BY <1>0, <2>1, <2>2 DEF IInv, TypeOK, LinesTrimmed
<1>3. CASE next_line
  <2> DEFINE line == trim(Bare(Line))
  <2>1. /\ Find(in_buffer, "\n") # 0
        /\ in_buffer' = From(in_buffer, Find(in_buffer, "\n") + 1)
        /\ processed' = processed \/ processed' = Append(processed, line)
        /\ unread' = unread /\ sent' = sent
    BY <1>3 DEF next_line
  <2>2. /\ in_buffer' \in Seq(Byte) /\ Len(in_buffer') <= Len(in_buffer)
        /\ Bare(Line) \in Seq(Byte)
    BY <1>0, <2>1, LineIs
  <2>3. line \in Seq(Byte) /\ IsTrimmed(line)
    BY <2>2, TrimIs
  <2> HIDE DEF line
  <2>4. /\ processed' \in Seq(Seq(Byte))
        /\ \A i \in 1..Len(processed') : IsTrimmed(processed'[i])
    <3>1. CASE processed' = processed
      BY <1>0, <3>1
    <3>2. CASE processed' = Append(processed, line)
      <4>1. /\ processed' \in Seq(Seq(Byte)) /\ Len(processed') = Len(processed) + 1
            /\ \A i \in 1..Len(processed) : processed'[i] = processed[i]
            /\ processed'[Len(processed) + 1] = line
        BY <1>0, <2>3, <3>2, AppendProperties
      <4>2. \A i \in 1..Len(processed') :
              i \in 1..Len(processed) \/ i = Len(processed) + 1
        BY <1>0, <4>1
      <4> QED
        BY <1>0, <2>3, <4>1, <4>2
    <3> QED  BY <2>1, <3>1, <3>2
  <2>5. Len(in_buffer') + Len(unread') <= sent'
    BY <1>0, <2>1, <2>2
  <2> QED
    BY <1>0, <2>1, <2>2, <2>4, <2>5 DEF IInv, TypeOK, LinesTrimmed
<1>4. CASE disconnect
  <2>1. unread' = <<>> /\ in_buffer' = <<>> /\ processed' = <<>> /\ sent' = 0
    BY <1>4 DEF disconnect
  <2> QED
    BY <1>0, <2>1 DEF IInv, TypeOK, LinesTrimmed
<1>5. CASE UNCHANGED vars
  BY <1>5 DEF vars, IInv, TypeOK, LinesTrimmed
<1> QED
  BY <1>1, <1>2, <1>3, <1>4, <1>5 DEF Next

(* LineReader.TypeOK: what is kept of a connection's bytes is never more   *)
(* than it sent, and its lines are of its bytes.                           *)
THEOREM InputTypeCorrect == Spec => []TypeOK
<1>1. IInv => TypeOK
  BY DEF IInv
<1> QED
  BY StartKeeps, StepKeeps, <1>1, PTL DEF Spec

-----------------------------------------------------------------------------
(* A line begins with two given characters.                                *)
LEMMA PrefixIs ==
  ASSUME NEW S, NEW line \in Seq(S), NEW a, NEW b
  PROVE  IsPrefix(<<a, b>>, line) <=> Len(line) >= 2 /\ line[1] = a /\ line[2] = b
<1> DEFINE p == <<a, b>>
           T == S \cup {a, b}
<1>1. p \in Seq(T) /\ Len(p) = 2 /\ p[1] = a /\ p[2] = b /\ line \in Seq(T)
  OBVIOUS
<1> HIDE DEF p, T
<1>2. SubSeq(p, 1, 2) = p
  BY <1>1, SubSeqFull
<1>3. CASE Len(line) >= 2
  <2>1. /\ SubSeq(line, 1, 2) \in Seq(T) /\ Len(SubSeq(line, 1, 2)) = 2 - 1 + 1
        /\ \A i \in 1..(2 - 1 + 1) : SubSeq(line, 1, 2)[i] = line[1 + i - 1]
    <3>1. 1 \in 1..(Len(line) + 1) /\ 2 \in (1 - 1)..Len(line)
      BY <1>1, <1>3
    <3> QED
      BY <1>1, <3>1, Piece
  <2>2. SubSeq(line, 1, 2)[1] = line[1] /\ SubSeq(line, 1, 2)[2] = line[2]
    BY <2>1
  <2>3. ASSUME line[1] = a, line[2] = b PROVE SubSeq(line, 1, 2) = p
    <3>1. \A i \in 1..Len(p) : SubSeq(line, 1, 2)[i] = p[i]
      BY <1>1, <2>2, <2>3
    <3> QED
      BY <1>1, <2>1, <3>1, SeqEqual
  <2>4. IsPrefix(p, line) <=> p = SubSeq(line, 1, 2)
    BY <1>1, <1>2, <1>3 DEF IsPrefix
  <2> QED
    BY <1>1, <1>3, <2>2, <2>3, <2>4 DEF p
<1>4. CASE ~ (Len(line) >= 2)
  BY <1>1, <1>4 DEF IsPrefix, p
<1> QED
  BY <1>3, <1>4

(* find(' ', 5): the first blank after the nickname begins, 0 for none.    *)
FirstBlank(line) == SelectInSubSeq(line, 3, Len(line), LAMBDA ch : ch = Space)

(* The search of parse_private_message: the first blank after "/msg ".     *)
LEMMA BlankIs ==
  ASSUME NEW S, NEW line \in Seq(S), NEW blank, blank = FirstBlank(line)
  PROVE  /\ blank = 0 => \A i \in 3..Len(line) : line[i] # Space
         /\ blank # 0 => /\ blank \in 3..Len(line) /\ line[blank] = Space
                         /\ \A i \in 3..(blank - 1) : line[i] # Space
<1> DEFINE I == {i \in 3..Len(line) : line[i] = Space}
<1>1. blank = IF I # {} THEN Min(I) ELSE 0
  BY DEF FirstBlank, SelectInSubSeq
<1>2. CASE I = {}
  BY <1>1, <1>2
<1>3. CASE I # {}
  <2>1. I \in SUBSET Nat
    OBVIOUS
  <2>2. \E n \in I : \A m \in I : n <= m
    <3> HIDE DEF I
    <3> QED  BY <1>3, <2>1, LeastNumber
  <2>3. Min(I) \in I /\ \A m \in I : Min(I) <= m
    <3> HIDE DEF I
    <3> QED  BY <2>2 DEF Min
  <2>4. /\ blank \in 3..Len(line) /\ line[blank] = Space
        /\ \A m \in 3..Len(line) : line[m] = Space => blank <= m
    BY <1>1, <1>3, <2>3
  <2>5. \A m \in 3..(blank - 1) : line[m] # Space
    <3> SUFFICES ASSUME NEW m \in 3..(blank - 1) PROVE line[m] # Space
      OBVIOUS
    <3>1. m \in 3..Len(line) /\ ~ (blank <= m)
      BY <2>4
    <3> QED
      BY <2>4, <3>1
  <2>6. blank # 0
    BY <2>4
  <2> QED
    BY <2>4, <2>5, <2>6, Zenon
<1> QED
  BY <1>2, <1>3

(* The fields of a command.                                                *)
LEMMA FieldsAre ==
  ASSUME NEW type, NEW target, NEW text
  PROVE  /\ ParsedCommand(type, target, text).type = type
         /\ ParsedCommand(type, target, text).target = target
         /\ ParsedCommand(type, target, text).text = text
BY DEF ParsedCommand

(* What parse makes of a line that begins with "/msg " or "/join ".        *)
LEMMA ParseIs ==
  ASSUME NEW S, NEW line \in Seq(S)
  PROVE  /\ IsPrefix(<<"/msg", Space>>, line) => parse(line) = parse_private_message(line)
         /\ IsPrefix(<<"/join", Space>>, line) => parse(line) = parse_join_room(line)
         /\ ~ IsPrefix(<<"/msg", Space>>, line) /\ ~ IsPrefix(<<"/join", Space>>, line) =>
              /\ parse(line).type \notin {"PRIVATE_MESSAGE", "JOIN_ROOM"}
              /\ parse(line).target = <<>> /\ parse(line).text \in {<<>>, line}
         /\ parse_join_room(line).type # "PRIVATE_MESSAGE"
         /\ parse_private_message(line).type # "JOIN_ROOM"
<1>1. IsPrefix(<<"/msg", Space>>, line) => ~ IsPrefix(<<"/join", Space>>, line)
  BY PrefixIs
<1>2. ASSUME NEW c, c = "/leave" \/ c = "/online" \/ c = "/rooms",
             IsPrefix(<<c>>, line)
      PROVE  line[1] = c
  <2>1. Len(<<c>>) = 1 /\ <<c>>[1] = c /\ <<c>> \in Seq({c})
    OBVIOUS
  <2>2. SubSeq(<<c>>, 1, 1) = <<c>>
    BY <2>1, SubSeqFull
  <2>3. 1 <= Len(line) /\ <<c>> = SubSeq(line, 1, 1)
    BY <1>2, <2>1, <2>2 DEF IsPrefix
  <2>4. \A i \in 1..(1 - 1 + 1) : SubSeq(line, 1, 1)[i] = line[1 + i - 1]
    <3>1. 1 \in 1..(Len(line) + 1) /\ 1 \in (1 - 1)..Len(line)
      BY <2>3
    <3> QED
      BY <3>1, Piece
  <2> QED
    BY <2>1, <2>3, <2>4
<1> DEFINE Msg == IsPrefix(<<"/msg", Space>>, line)
           Join == IsPrefix(<<"/join", Space>>, line)
           Leave == IsPrefix(<<"/leave">>, line)
           Online == IsPrefix(<<"/online">>, line)
           Rooms == IsPrefix(<<"/rooms">>, line)
<1>3. /\ parse(line) = CASE Msg -> parse_private_message(line)
                         [] Join -> parse_join_room(line)
                         [] Leave -> ParsedCommand("LEAVE_ROOM", <<>>, <<>>)
                         [] Online -> ParsedCommand("ONLINE_LIST", <<>>, <<>>)
                         [] Rooms -> ParsedCommand("ROOM_LIST", <<>>, <<>>)
                         [] OTHER -> ParsedCommand("PLAIN_MESSAGE", <<>>, line)
  BY DEF parse
<1>4. /\ Msg => line[1] = "/msg"
      /\ Join => line[1] = "/join"
  BY PrefixIs
<1>5. /\ Leave => line[1] = "/leave"
      /\ Online => line[1] = "/online"
      /\ Rooms => line[1] = "/rooms"
  BY <1>2
<1> HIDE DEF Msg, Join, Leave, Online, Rooms
<1>6. /\ Msg => ~ Join /\ ~ Leave /\ ~ Online /\ ~ Rooms
      /\ Join => ~ Leave /\ ~ Online /\ ~ Rooms
      /\ Leave => ~ Online /\ ~ Rooms
      /\ Online => ~ Rooms
  BY <1>4, <1>5
<1>7. Msg => parse(line) = parse_private_message(line)
  BY <1>3, <1>6
<1>8. Join => parse(line) = parse_join_room(line)
  BY <1>3, <1>6
<1>9. /\ parse_join_room(line).type # "PRIVATE_MESSAGE"
      /\ parse_private_message(line).type # "JOIN_ROOM"
  BY DEF parse_join_room, parse_private_message, UNKNOWN, ParsedCommand
<1>10. ~ Msg /\ ~ Join => /\ parse(line).type \notin {"PRIVATE_MESSAGE", "JOIN_ROOM"}
                           /\ parse(line).target = <<>>
                           /\ parse(line).text \in {<<>>, line}
  BY <1>3, <1>6 DEF ParsedCommand
<1> QED
  BY <1>7, <1>8, <1>9, <1>10 DEF Msg, Join

(* A line has one reading as a private message, or none, and parse finds   *)
(* it.                                                                     *)
LEMMA ReadingIs ==
  ASSUME NEW S, NEW line \in Seq(S)
  PROVE  LET Readings == {n \in 3..(Len(line) - 1) :
                            /\ <<line[1], line[2], line[n]>> = <<"/msg", Space, Space>>
                            /\ \A m \in 3..(n - 1) : line[m] # Space}
         IN  /\ parse(line).type = "PRIVATE_MESSAGE" <=> Readings # {}
             /\ \A n \in Readings :
                  parse(line) = ParsedCommand("PRIVATE_MESSAGE",
                                              SubSeq(line, 3, n - 1), From(line, n + 1))
<1> DEFINE Readings == {n \in 3..(Len(line) - 1) :
                          /\ <<line[1], line[2], line[n]>> = <<"/msg", Space, Space>>
                          /\ \A m \in 3..(n - 1) : line[m] # Space}
           Msg == IsPrefix(<<"/msg", Space>>, line)
<1>1. \A n : n \in Readings <=> /\ n \in 3..(Len(line) - 1)
                                /\ line[1] = "/msg" /\ line[2] = Space /\ line[n] = Space
                                /\ \A m \in 3..(n - 1) : line[m] # Space
  OBVIOUS
<1> HIDE DEF Readings
<1>2. Msg <=> Len(line) >= 2 /\ line[1] = "/msg" /\ line[2] = Space
  BY PrefixIs
<1> HIDE DEF Msg
<1>3. PICK blank : blank = FirstBlank(line)
  OBVIOUS
<1>4. /\ blank = 0 => \A i \in 3..Len(line) : line[i] # Space
      /\ blank # 0 => /\ blank \in 3..Len(line) /\ line[blank] = Space
                      /\ \A i \in 3..(blank - 1) : line[i] # Space
  BY <1>3, BlankIs
<1>5. parse_private_message(line) =
        IF blank = 0 \/ blank = Len(line) THEN UNKNOWN
        ELSE ParsedCommand("PRIVATE_MESSAGE",
                           SubSeq(line, 3, blank - 1), From(line, blank + 1))
  BY <1>3 DEF parse_private_message, FirstBlank
<1>6. parse_private_message(line).type = "PRIVATE_MESSAGE" <=> blank \notin {0, Len(line)}
  BY <1>5 DEF UNKNOWN, ParsedCommand
<1>7. ASSUME NEW n \in Readings PROVE Msg /\ n = blank /\ blank \notin {0, Len(line)}
  <2>1. /\ n \in 3..(Len(line) - 1) /\ line[n] = Space
        /\ \A m \in 3..(n - 1) : line[m] # Space
    BY <1>1
  <2>2. blank # 0 /\ blank \in 3..Len(line)
    BY <1>4, <2>1
  <2>3. ~ (n < blank) /\ ~ (blank < n)
    BY <1>4, <2>1, <2>2
  <2>4. n = blank /\ blank # Len(line)
    BY <2>1, <2>2, <2>3
  <2> QED
    BY <1>1, <1>2, <2>1, <2>2, <2>4
<1>8. Msg /\ blank \notin {0, Len(line)} => blank \in Readings
  BY <1>1, <1>2, <1>4
<1>9. parse(line).type = "PRIVATE_MESSAGE" <=> Msg /\ blank \notin {0, Len(line)}
  <2>1. /\ Msg => parse(line) = parse_private_message(line)
        /\ ~ Msg => parse(line).type # "PRIVATE_MESSAGE"
    BY ParseIs DEF Msg
  <2> QED
    BY <1>6, <2>1
<1>10. parse(line).type = "PRIVATE_MESSAGE" <=> Readings # {}
  BY <1>7, <1>8, <1>9
<1>11. ASSUME NEW n \in Readings
       PROVE  parse(line) = ParsedCommand("PRIVATE_MESSAGE",
                                          SubSeq(line, 3, n - 1), From(line, n + 1))
  <2>1. Msg /\ n = blank /\ ~ (blank = 0 \/ blank = Len(line))
    BY <1>7
  <2>2. parse(line) = parse_private_message(line)
    BY <2>1, ParseIs DEF Msg
  <2> QED
    BY <1>5, <2>1, <2>2, Zenon
<1> QED
  BY <1>10, <1>11 DEF Readings

(* A piece of a trimmed line that goes to its end does not end in a blank. *)
LEMMA TailIsClean ==
  ASSUME NEW S, NEW line \in Seq(S), IsTrimmed(line), NEW i \in Nat \ {0},
         From(line, i) # <<>>
  PROVE  Last(From(line, i)) # Space
<1> DEFINE r == SubSeq(line, i, Len(line))
<1>1. i <= Len(line)
  <2> SUFFICES ASSUME Len(line) < i PROVE FALSE
    OBVIOUS
  <2> QED
    BY SubSeqEmpty DEF From
<1>2. /\ Len(r) = Len(line) - i + 1
      /\ \A j \in 1..(Len(line) - i + 1) : r[j] = line[i + j - 1]
  <2>1. i \in 1..(Len(line) + 1) /\ Len(line) \in (i - 1)..Len(line)
    BY <1>1
  <2> QED
    BY <2>1, Piece
<1> HIDE DEF r
<1>3. r[Len(r)] = line[Len(line)]
  <2>1. Len(r) \in 1..(Len(line) - i + 1) /\ i + Len(r) - 1 = Len(line)
    BY <1>1, <1>2
  <2> QED
    BY <1>2, <2>1
<1>4. line # <<>> /\ line[Len(line)] # Space
  <2>1. line # <<>>
    BY <1>1
  <2> QED
    BY <2>1 DEF IsTrimmed
<1> QED
  BY <1>3, <1>4 DEF From, Last, r

(* What the handlers take for granted holds of every trimmed line.         *)
LEMMA ParsedClean ==
  ASSUME NEW S, NEW line \in Seq(S), IsTrimmed(line)
  PROVE  /\ parse(line).type = "JOIN_ROOM" => parse(line).target # <<>>
         /\ \A s \in {parse(line).target, parse(line).text} :
              s # <<>> => Last(s) # Space
<1> DEFINE Msg == IsPrefix(<<"/msg", Space>>, line)
           Join == IsPrefix(<<"/join", Space>>, line)
           Clean(s) == s # <<>> => Last(s) # Space
<1>1. Clean(<<>>) /\ Clean(line)
  BY DEF Last, IsTrimmed
<1>2. \A i \in Nat \ {0} : Clean(From(line, i))
  BY TailIsClean
<1>3. CASE Msg
  <2>1. PICK blank : blank = FirstBlank(line)
    OBVIOUS
  <2>2. blank # 0 => /\ blank \in 3..Len(line)
                     /\ \A i \in 3..(blank - 1) : line[i] # Space
    BY <2>1, BlankIs
  <2>3. parse(line) =
          IF blank = 0 \/ blank = Len(line) THEN UNKNOWN
          ELSE ParsedCommand("PRIVATE_MESSAGE",
                             SubSeq(line, 3, blank - 1), From(line, blank + 1))
    BY <1>3, <2>1, ParseIs DEF parse_private_message, FirstBlank
  <2>4. parse(line).type # "JOIN_ROOM"
    BY <1>3, ParseIs
  <2>5. CASE blank = 0 \/ blank = Len(line)
    BY <1>1, <2>3, <2>4, <2>5 DEF UNKNOWN, ParsedCommand
  <2>6. CASE ~ (blank = 0 \/ blank = Len(line))
    <3>1. /\ parse(line).target = SubSeq(line, 3, blank - 1)
          /\ parse(line).text = From(line, blank + 1)
      <4>1. parse(line) = ParsedCommand("PRIVATE_MESSAGE",
                             SubSeq(line, 3, blank - 1), From(line, blank + 1))
        BY <2>3, <2>6, Zenon
      <4>2. PICK a, b : a = SubSeq(line, 3, blank - 1) /\ b = From(line, blank + 1)
        OBVIOUS
      <4>3. parse(line) = ParsedCommand("PRIVATE_MESSAGE", a, b)
        BY <4>1, <4>2
      <4>4. parse(line).target = a /\ parse(line).text = b
        BY <4>3, FieldsAre
      <4> QED
        BY <4>2, <4>4
    <3>2. Clean(From(line, blank + 1))
      BY <1>2, <2>2, <2>6
    <3>3. Clean(SubSeq(line, 3, blank - 1))
      <4> DEFINE name == SubSeq(line, 3, blank - 1)
      <4>1. 3 \in 1..(Len(line) + 1) /\ blank - 1 \in (3 - 1)..Len(line) /\ blank \in Nat
        BY <2>2, <2>6
      <4>2. /\ Len(name) = blank - 1 - 3 + 1
            /\ \A i \in 1..(blank - 1 - 3 + 1) : name[i] = line[3 + i - 1]
        BY <4>1, Piece
      <4>3. name # <<>> => name[Len(name)] = line[blank - 1] /\ blank - 1 \in 3..(blank - 1)
        <5> HIDE DEF name
        <5> SUFFICES ASSUME name # <<>>
                     PROVE  name[Len(name)] = line[blank - 1] /\ blank - 1 \in 3..(blank - 1)
          OBVIOUS
        <5>1. name \in Seq(S)
          BY <4>1, Piece DEF name
        <5>2. Len(name) # 0
          BY <5>1
        <5>3. Len(name) \in 1..(blank - 1 - 3 + 1) /\ 3 + Len(name) - 1 = blank - 1
          BY <4>1, <4>2, <5>1, <5>2
        <5> QED
          BY <4>1, <4>2, <5>3
      <4> HIDE DEF name
      <4>4. Clean(name)
        BY <2>2, <2>6, <4>3 DEF Last
      <4> QED
        BY <4>4 DEF name
    <3> HIDE DEF Clean
    <3>4. \A s \in {parse(line).target, parse(line).text} : Clean(s)
      BY <3>1, <3>2, <3>3
    <3> QED
      BY <2>4, <3>4 DEF Clean
  <2> QED  BY <2>5, <2>6
<1>4. CASE Join
  <2>1. parse(line) = IF From(line, 3) = <<>> THEN UNKNOWN
                      ELSE ParsedCommand("JOIN_ROOM", From(line, 3), <<>>)
    BY <1>4, ParseIs DEF parse_join_room
  <2>2. Clean(From(line, 3))
    BY <1>2
  <2>3. CASE From(line, 3) = <<>>
    BY <1>1, <2>1, <2>3 DEF UNKNOWN, ParsedCommand
  <2>4. CASE From(line, 3) # <<>>
    <3>1. parse(line).target = From(line, 3) /\ parse(line).text = <<>>
      BY <2>1, <2>4 DEF ParsedCommand
    <3> HIDE DEF Clean
    <3>2. \A s \in {parse(line).target, parse(line).text} : Clean(s)
      BY <1>1, <2>2, <3>1
    <3> QED
      BY <2>4, <3>1, <3>2 DEF Clean
  <2> QED  BY <2>3, <2>4
<1>5. CASE ~ Msg /\ ~ Join
  <2>1. /\ parse(line).type \notin {"PRIVATE_MESSAGE", "JOIN_ROOM"}
        /\ parse(line).target = <<>> /\ parse(line).text \in {<<>>, line}
    BY <1>5, ParseIs
  <2> HIDE DEF Clean
  <2>2. \A s \in {parse(line).target, parse(line).text} : Clean(s)
    BY <1>1, <2>1
  <2> QED
    BY <2>1, <2>2 DEF Clean
<1> QED
  BY <1>3, <1>4, <1>5

(* PrivateMessagesParsed: every line that reading hands over is a private  *)
(* message exactly when it is typed as one, and is parsed in its one way.  *)
THEOREM MessagesAreParsed == Spec => []PrivateMessagesParsed
<1>1. IInv => PrivateMessagesParsed
  <2> SUFFICES ASSUME IInv, NEW i \in 1..Len(processed)
               PROVE  LET line == processed[i]
                          Readings == {n \in 3..(Len(line) - 1) :
                            /\ <<line[1], line[2], line[n]>> = <<"/msg", Space, Space>>
                            /\ \A m \in 3..(n - 1) : line[m] # Space}
                      IN  /\ parse(line).type = "PRIVATE_MESSAGE" <=> Readings # {}
                          /\ \A n \in Readings :
                               parse(line) = ParsedCommand("PRIVATE_MESSAGE",
                                     SubSeq(line, 3, n - 1), From(line, n + 1))
    BY DEF PrivateMessagesParsed
  <2>1. processed[i] \in Seq(Byte)
    BY DEF IInv, TypeOK
  <2> QED
    BY <2>1, ReadingIs
<1> QED
  BY StartKeeps, StepKeeps, <1>1, PTL DEF Spec

(* CommandsClean: the trim before the parser is enough for what the        *)
(* handlers take for granted of a command.                                 *)
THEOREM CommandsAreClean == Spec => []CommandsClean
<1>1. IInv => CommandsClean
  <2> SUFFICES ASSUME IInv, NEW i \in 1..Len(processed)
               PROVE  LET command == parse(processed[i])
                      IN  /\ command.type = "JOIN_ROOM" => command.target # <<>>
                          /\ \A s \in {command.target, command.text} :
                               s # <<>> => Last(s) # Space
    BY DEF CommandsClean
  <2>1. processed[i] \in Seq(Byte) /\ IsTrimmed(processed[i])
    BY DEF IInv, TypeOK, LinesTrimmed
  <2> QED
    BY <2>1, ParsedClean
<1> QED
  BY StartKeeps, StepKeeps, <1>1, PTL DEF Spec

-----------------------------------------------------------------------------
(* The abstract specification.  Its stream is in_buffer with what is       *)
(* still in the socket behind it.                                          *)
LEMMA StreamStarts == Init => Stream!Init
<1> SUFFICES ASSUME Init PROVE Stream!Init
  OBVIOUS
<1>1. unread = <<>> /\ in_buffer = <<>> /\ processed = <<>>
  BY DEF Init
<1>2. <<>> \o <<>> = <<>>
  OBVIOUS
<1> QED
  BY <1>1, <1>2 DEF Stream!Init

(* A byte that arrives is sent.                                            *)
LEMMA ArrivalSends ==
  ASSUME unread \in Seq(Byte), in_buffer \in Seq(Byte), arrive
  PROVE  Stream!Send
<1>1. PICK b \in Byte : unread' = Append(unread, b)
  BY DEF arrive
<1>2. in_buffer' = in_buffer /\ processed' = processed
  BY DEF arrive
<1>3. in_buffer \o unread \in Seq(Byte)
  BY ConcatProperties
<1>4. in_buffer \o Append(unread, b) = Append(in_buffer \o unread, b)
  <2>1. Append(unread, b) = unread \o <<b>> /\ <<b>> \in Seq(Byte)
    BY AppendIsConcat
  <2>2. Append(in_buffer \o unread, b) = (in_buffer \o unread) \o <<b>>
    BY <1>3, AppendIsConcat
  <2>3. (in_buffer \o unread) \o <<b>> = in_buffer \o (unread \o <<b>>)
    BY <2>1, BytesAssociative
  <2> QED
    BY <2>1, <2>2, <2>3, Zenon
<1> QED
  BY <1>1, <1>2, <1>4 DEF Stream!Send

(* A line handed over is the last one, after those before it.              *)
LEMMA AppendEnds ==
  ASSUME NEW S, NEW s \in Seq(S), NEW e \in S
  PROVE  /\ Len(Append(s, e)) = Len(s) + 1
         /\ Front(Append(s, e)) = s /\ Last(Append(s, e)) = e
<1>1. /\ Append(s, e) \in Seq(S) /\ Len(Append(s, e)) = Len(s) + 1
      /\ \A i \in 1..Len(s) : Append(s, e)[i] = s[i]
      /\ Append(s, e)[Len(s) + 1] = e
  BY AppendProperties
<1>2. PICK a : a = Append(s, e)
  OBVIOUS
<1>3. /\ SubSeq(a, 1, Len(a) - 1) \in Seq(S)
      /\ Len(SubSeq(a, 1, Len(a) - 1)) = Len(a) - 1 - 1 + 1
      /\ \A i \in 1..(Len(a) - 1 - 1 + 1) : SubSeq(a, 1, Len(a) - 1)[i] = a[1 + i - 1]
  <2>1. a \in Seq(S) /\ 1 \in 1..(Len(a) + 1) /\ Len(a) - 1 \in (1 - 1)..Len(a)
    BY <1>1, <1>2
  <2> QED
    BY <2>1, Piece
<1>4. SubSeq(a, 1, Len(a) - 1) = s
  <2>1. Len(a) - 1 - 1 + 1 = Len(s) /\ \A i \in 1..Len(s) : 1 + i - 1 = i
    BY <1>1, <1>2
  <2>2. \A i \in 1..Len(s) : SubSeq(a, 1, Len(a) - 1)[i] = s[i]
    BY <1>1, <1>2, <1>3, <2>1
  <2> QED
    BY <1>3, <2>1, <2>2, SeqEqual
<1> QED
  BY <1>1, <1>2, <1>4 DEF Front, Last

(* A line that is cut from in_buffer is cut from the stream: the first     *)
(* newline of the one is the first of the other.                           *)
LEMMA LineCuts ==
  ASSUME unread \in Seq(Byte), in_buffer \in Seq(Byte), next_line,
         processed \in Seq(Seq(Byte))
  PROVE  \E n \in 1..Len(in_buffer \o unread) : Stream!Cut(n)
<1> DEFINE n == Find(in_buffer, "\n")
           stream == in_buffer \o unread
<1>1. /\ n \in 1..Len(in_buffer) /\ in_buffer[n] = "\n"
      /\ \A m \in 1..(n - 1) : in_buffer[m] # "\n"
  BY NewlineIs DEF next_line
<1>2. /\ in_buffer' = SubSeq(in_buffer, n + 1, Len(in_buffer))
      /\ Line = SubSeq(in_buffer, 1, n - 1)
      /\ processed' = IF Bare(Line) = <<>> THEN processed
                      ELSE Append(processed, trim(Bare(Line)))
      /\ unread' = unread
  BY DEF next_line, From, Line
<1> HIDE DEF n
<1>3. /\ stream \in Seq(Byte) /\ Len(stream) = Len(in_buffer) + Len(unread)
      /\ \A i \in 1..Len(in_buffer) : stream[i] = in_buffer[i]
  <2>1. /\ stream \in Seq(Byte) /\ Len(stream) = Len(in_buffer) + Len(unread)
        /\ \A i \in 1..(Len(in_buffer) + Len(unread)) :
             stream[i] = IF i <= Len(in_buffer) THEN in_buffer[i]
                         ELSE unread[i - Len(in_buffer)]
    BY ConcatProperties
  <2> HIDE DEF stream
  <2> QED
    BY <2>1
<1>4. /\ SubSeq(stream, 1, n - 1) = Line
      /\ SubSeq(stream, n + 1, Len(stream)) = in_buffer' \o unread'
  BY <1>1, <1>2, PiecesOfConcat
<1> HIDE DEF stream
<1>5. n \in 1..Len(stream)
  BY <1>1, <1>3
<1>6. /\ n \in 1..Len(stream) /\ stream[n] = "\n"
      /\ \A m \in 1..(n - 1) : ~ (m \in 1..Len(stream) /\ stream[m] = "\n")
  <2>1. \A m \in 1..(n - 1) : m \in 1..Len(in_buffer)
    BY <1>1
  <2> QED
    BY <1>1, <1>3, <1>5, <2>1
<1>7. Stream!FirstNewline(n)
  BY <1>6 DEF Stream!FirstNewline, Stream!Newline, stream
<1>8. Stream!Bare(Line) = Bare(Line)
  BY DEF Stream!Bare, Stream!Front, Stream!Last, Bare, Front, Last
<1>9. Bare(Line) \in Seq(Byte)
  BY LineIs DEF next_line
<1>10. CASE Bare(Line) = <<>>
  <2>1. processed' = processed
    BY <1>2, <1>10
  <2> QED
    BY <1>4, <1>5, <1>7, <1>8, <1>10, <2>1 DEF Stream!Cut, stream
<1>11. CASE Bare(Line) # <<>>
  <2> DEFINE t == trim(Bare(Line))
  <2>1. processed' = Append(processed, t)
    BY <1>2, <1>11
  <2>2. /\ t \in Seq(Byte) /\ IsTrimmed(t)
        /\ \E a, b \in 0..Len(Bare(Line)) :
             /\ a <= b /\ t = SubSeq(Bare(Line), a + 1, b)
             /\ \A i \in (1..a) \cup ((b + 1)..Len(Bare(Line))) : Bare(Line)[i] = Space
    BY <1>9, TrimIs
  <2> HIDE DEF t
  <2>3. Stream!Space = Space
    BY DEF Stream!Space, Space
  <2>4. Stream!Trimmed(Bare(Line), t)
    BY <2>2, <2>3 DEF Stream!Trimmed, IsTrimmed
  <2>5. /\ Len(processed') = Len(processed) + 1
        /\ Front(processed') = processed /\ Last(processed') = t
    BY <2>1, <2>2, AppendEnds
  <2>6. Stream!Front(processed') = processed /\ Stream!Last(processed') = t
    BY <2>5 DEF Stream!Front, Stream!Last, Front, Last
  <2>7. Stream!Cut(n)
    BY <1>4, <1>7, <1>8, <1>11, <2>4, <2>5, <2>6 DEF Stream!Cut, stream
  <2> QED
    BY <1>5, <2>7 DEF stream
<1> QED
  BY <1>10, <1>11

(* LineReader implements LineStream: however the bytes are split over      *)
(* reads, every line is handed over whole, once and in order.              *)
THEOREM ReaderImplementsStream == Spec => ImplementsLineStream
<1> DEFINE svars == <<in_buffer \o unread, processed>>
<1>1. IInv /\ [Next]_vars => [Stream!Next]_svars
  <2> SUFFICES ASSUME IInv, [Next]_vars PROVE [Stream!Next]_svars
    OBVIOUS
  <2>0. /\ unread \in Seq(Byte) /\ in_buffer \in Seq(Byte)
        /\ processed \in Seq(Seq(Byte))
    BY DEF IInv, TypeOK, LinesTrimmed
  <2>1. CASE arrive
    BY <2>0, <2>1, ArrivalSends DEF Stream!Next
  <2>2. CASE read
    BY <2>0, <2>2, ReadMoves DEF read
  <2>3. CASE next_line
    BY <2>0, <2>3, LineCuts DEF Stream!Next
  <2>4. CASE disconnect
    <3>1. unread' = <<>> /\ in_buffer' = <<>> /\ processed' = <<>> /\ <<>> \o <<>> = <<>>
      BY <2>4 DEF disconnect
    <3>2. Stream!Close
      BY <3>1 DEF Stream!Close
    <3> QED
      BY <3>2 DEF Stream!Next
  <2>5. CASE UNCHANGED vars
    BY <2>5 DEF vars
  <2> QED
    BY <2>1, <2>2, <2>3, <2>4, <2>5 DEF Next
<1> QED
  BY <1>1, StreamStarts, StartKeeps, StepKeeps, PTL DEF Spec, ImplementsLineStream, Stream!Spec
=============================================================================
