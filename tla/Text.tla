-------------------------------- MODULE Text --------------------------------
(***************************************************************************)
(* Lines and trim_string.  A text is a sequence of characters; a word of   *)
(* the protocol such as "/join" counts as one.                             *)
(***************************************************************************)
EXTENDS Naturals, Sequences, SequencesExt

Space == " "

Find(s, ch) == SelectInSeq(s, LAMBDA x : x = ch)

From(s, i) == SubSeq(s, i, Len(s))

-----------------------------------------------------------------------------
(* trim_string: the two loops over blanks, from either end.                *)
FirstKept(s) ==
  LET at[i \in 1..(Len(s) + 1)] ==
        IF i <= Len(s) /\ s[i] = Space THEN at[i + 1] ELSE i
  IN  at[1]

LastKept(s) ==
  LET at[i \in 0..Len(s)] ==
        IF i > 1 /\ s[i] = Space THEN at[i - 1] ELSE i
  IN  at[Len(s)]

(* Mutant of trim: only the front is trimmed.                              *)
trim_FrontOnly(s) == From(s, FirstKept(s))

trim(s) ==
  LET rest == From(s, FirstKept(s)) IN SubSeq(rest, 1, LastKept(rest))

(* What it is for: t is s without the blanks around it.                    *)
AllBlank(s) == \A i \in 1..Len(s) : s[i] = Space

IsTrimmed(t) == t # <<>> => t[1] # Space /\ t[Len(t)] # Space

TrimmedOf(s, t) ==
  /\ IsTrimmed(t)
  /\ \E a, b \in 0..Len(s) :
       /\ a <= b /\ t = SubSeq(s, a + 1, b)
       /\ AllBlank(SubSeq(s, 1, a)) /\ AllBlank(From(s, b + 1))
=============================================================================
