----------------------------- MODULE LineStream -----------------------------
(***************************************************************************)
(* What reading promises: the bytes a client sends are cut at its          *)
(* newlines, in order, whatever way they come; a line of nothing but a     *)
(* carriage return is skipped, every other one is handed over without it   *)
(* and without the blanks around it.  A new connection starts afresh.      *)
(***************************************************************************)
EXTENDS Naturals, Sequences, SequencesExt

CONSTANT Byte

VARIABLES
  stream,  \* bytes sent and not yet cut
  lines    \* lines handed over

Space == " "

Newline(n) == n \in 1..Len(stream) /\ stream[n] = "\n"

FirstNewline(n) == Newline(n) /\ \A m \in 1..(n - 1) : ~ Newline(m)

Bare(line) ==
  IF line # <<>> /\ Last(line) = "\r" THEN Front(line) ELSE line

Trimmed(s, t) ==
  /\ t # <<>> => t[1] # Space /\ t[Len(t)] # Space
  /\ \E a, b \in 0..Len(s) :
       /\ a <= b /\ t = SubSeq(s, a + 1, b)
       /\ \A i \in (1..a) \cup ((b + 1)..Len(s)) : s[i] = Space

Init == stream = <<>> /\ lines = <<>>

Send == \E b \in Byte : stream' = Append(stream, b) /\ UNCHANGED lines

Cut(n) ==
  LET line == Bare(SubSeq(stream, 1, n - 1))
  IN  /\ FirstNewline(n)
      /\ stream' = SubSeq(stream, n + 1, Len(stream))
      /\ IF line = <<>>
         THEN UNCHANGED lines
         ELSE /\ Len(lines') = Len(lines) + 1
              /\ Front(lines') = lines
              /\ Trimmed(line, Last(lines'))

Close == stream' = <<>> /\ lines' = <<>>

Next == Send \/ Close \/ \E n \in 1..Len(stream) : Cut(n)

Spec == Init /\ [][Next]_<<stream, lines>>
=============================================================================
