------------------------------- MODULE Config -------------------------------
(***************************************************************************)
(* Config: from the lines of a file to the values main asks for.           *)
(***************************************************************************)
EXTENDS Text

(* parse_line skips a comment, a line without "=" or with nothing on one   *)
(* side of it, and one whose "#" comes before its "=".                     *)
Skipped(line) ==
  LET hash == Find(line, "#")
      equal == Find(line, "=")
  IN  \/ hash = 1
      \/ equal \in {0, 1, Len(line)}
      \/ hash # 0 /\ equal > hash

Key(line) == trim(SubSeq(line, 1, Find(line, "=") - 1))

(* The value ends at a "#", and keeps what other "=" there are.            *)
Value(line) ==
  LET end == IF Find(line, "#") = 0 THEN Len(line) ELSE Find(line, "#") - 1
  IN  trim(SubSeq(line, Find(line, "=") + 1, end))

(* Mutant of Entered: the first value of a key stays.                      *)
Entered_FirstWins(data, line) ==
  [k \in DOMAIN data \cup {Key(line)} |->
     IF k \in DOMAIN data THEN data[k] ELSE Value(line)]

Entered(data, line) ==
  [k \in DOMAIN data \cup {Key(line)} |->
     IF k = Key(line) THEN Value(line) ELSE data[k]]

parse_line(data, line) == IF Skipped(line) THEN data ELSE Entered(data, line)

(* A file that cannot be opened leaves data_ as empty as an empty file.    *)
load(file) ==
  LET data[i \in 0..Len(file)] ==
        IF i = 0 THEN <<>> ELSE parse_line(data[i - 1], file[i])
  IN  data[Len(file)]

get(data, key, default) == IF key \in DOMAIN data THEN data[key] ELSE default

-----------------------------------------------------------------------------
(* KEY=VALUE as the format is meant: a line assigns what is left of the    *)
(* first "=" before any "#" to what is right of it before any "#", both    *)
(* without the blanks around them.  A line that ends in its "=" assigns    *)
(* nothing; blanks or a comment after it are an empty value.               *)
Uncommented(line) ==
  IF Contains(line, "#")
  THEN SubSeq(line, 1, (CHOOSE n \in 1..Len(line) :
                          line[n] = "#" /\ \A m \in 1..(n - 1) : line[m] # "#") - 1)
  ELSE line

Left(line, n) == SubSeq(line, 1, n - 1)
Right(line, n) == From(Uncommented(line), n + 1)

(* The place of the "=" of a line that assigns to this key: one or none.   *)
Assigns(line, key) ==
  {n \in 2..Len(Uncommented(line)) \ {Len(line)} :
     /\ line[n] = "=" /\ \A m \in 1..(n - 1) : line[m] # "="
     /\ TrimmedOf(Left(line, n), key)}

(* What get returns for a key: the value of the last line that assigns to  *)
(* it, and the default if there is none.                                   *)
Means(file, key, default, value) ==
  LET about == {i \in DOMAIN file : Assigns(file[i], key) # {}}
  IN  IF about = {} THEN value = default
      ELSE \E n \in Assigns(file[Max(about)], key) :
             TrimmedOf(Right(file[Max(about)], n), value)
=============================================================================
