----------------------------- MODULE TextProofs -----------------------------
(***************************************************************************)
(* What the operators of Text compute, for every text: the first place of  *)
(* a character, and a text without the blanks around it.  The loops of     *)
(* trim_string are recursive functions; that they have the values the      *)
(* loops have is shown from the least-number principle.                    *)
(***************************************************************************)
EXTENDS Text, SequenceTheorems, WellFoundedInduction, TLAPS

(* A set of natural numbers has a least one.                               *)
LEMMA LeastNumber ==
  ASSUME NEW S \in SUBSET Nat, S # {}
  PROVE  \E n \in S : \A m \in S : n <= m
<1> DEFINE Less == OpToRel(<, Nat)
<1>1. \A m, n \in Nat : m < n => <<m, n>> \in Less
  BY DEF OpToRel
<1>2. IsWellFoundedOn(Less, Nat)
  BY NatLessThanWellFounded
<1> HIDE DEF Less
<1>3. PICK n \in S : \A m \in S : ~ (<<m, n>> \in Less)
  BY <1>2, WFMin
<1>4. \A m \in S : ~ (m < n)
  BY <1>1, <1>3, Zenon
<1>5. \A m \in S : n <= m
  BY <1>4
<1> QED
  BY <1>5

(* A bounded one has a greatest.                                           *)
LEMMA GreatestNumber ==
  ASSUME NEW N \in Nat, NEW S \in SUBSET (0..N), S # {}
  PROVE  \E n \in S : \A m \in S : m <= n
<1> DEFINE T == {N - n : n \in S}
<1>1. T \in SUBSET Nat /\ T # {}
  <2>1. \A n \in S : n \in 0..N /\ N - n \in Nat
    OBVIOUS
  <2>2. PICK n \in S : TRUE
    OBVIOUS
  <2>3. N - n \in T
    OBVIOUS
  <2> QED  BY <2>1, <2>3
<1>2. PICK t \in T : \A u \in T : t <= u
  <2> HIDE DEF T
  <2> QED  BY <1>1, LeastNumber
<1>3. PICK n \in S : t = N - n
  OBVIOUS
<1>4. \A m \in S : N - n <= N - m
  BY <1>2, <1>3
<1> QED
  BY <1>4

(* A recursion over 0..n whose step is a function has a solution.          *)
Steps(n, D) == [1..n -> [D -> D]]

Solution(n, D, base, step, g) ==
  /\ g \in [0..n -> D] /\ g[0] = base
  /\ \A i \in 1..n : g[i] = step[i][g[i - 1]]

(* Every loop of n steps from a base has an outcome.                       *)
LEMMA Recursion ==
  ASSUME NEW n \in Nat, NEW D, NEW base \in D, NEW step \in Steps(n, D)
  PROVE  \E g : Solution(n, D, base, step, g)
<1> DEFINE Solves(m, g) == /\ g \in [0..m -> D] /\ g[0] = base
                           /\ \A i \in 1..m : g[i] = step[i][g[i - 1]]
           Bad == {m \in 0..n : ~ \E g : Solves(m, g)}
<1>0. step \in [1..n -> [D -> D]]
  BY DEF Steps
<1>1. CASE Bad = {}
  <2>1. PICK g : Solves(n, g)
    BY <1>1
  <2> QED
    BY <2>1 DEF Solution
<1>2. CASE Bad # {}
  <2>1. Bad \in SUBSET Nat
    OBVIOUS
  <2>2. PICK m \in Bad : \A k \in Bad : m <= k
    <3> HIDE DEF Bad
    <3> QED  BY <1>2, <2>1, LeastNumber
  <2>3. m \in 0..n /\ ~ \E g : Solves(m, g)
    OBVIOUS
  <2>4. m # 0
    <3>1. Solves(0, [i \in 0..0 |-> base])
      OBVIOUS
    <3> QED
      BY <2>3, <3>1
  <2>5. m - 1 \in 0..n /\ m - 1 \notin Bad
    <3> HIDE DEF Bad
    <3>1. m - 1 \in 0..n /\ ~ (m <= m - 1)
      BY <2>3, <2>4
    <3> QED  BY <2>2, <3>1
  <2>6. PICK g : Solves(m - 1, g)
    BY <2>5
  <2> DEFINE h == [i \in 0..m |-> IF i = m THEN step[m][g[m - 1]] ELSE g[i]]
  <2>7. step[m][g[m - 1]] \in D
    <3>1. m \in 1..n /\ g[m - 1] \in D
      BY <2>3, <2>4, <2>6
    <3>2. step[m] \in [D -> D]
      BY <1>0, <3>1
    <3> QED
      BY <3>1, <3>2
  <2>8. h \in [0..m -> D]
    <3> SUFFICES ASSUME NEW i \in 0..m, i # m PROVE g[i] \in D
      BY <2>7
    <3>1. i \in 0..(m - 1)
      BY <2>3
    <3> QED
      BY <2>6, <3>1
  <2>9. h[0] = base
    BY <2>3, <2>4, <2>6
  <2>10. \A i \in 1..m : h[i] = step[i][h[i - 1]]
    <3> SUFFICES ASSUME NEW i \in 1..m PROVE h[i] = step[i][h[i - 1]]
      OBVIOUS
    <3>1. i \in 0..m /\ i - 1 \in 0..m /\ i - 1 # m
      BY <2>3
    <3>2. h[i - 1] = g[i - 1]
      BY <3>1
    <3>3. i = m => h[i] = step[m][g[m - 1]]
      BY <3>1
    <3>4. i # m => h[i] = g[i] /\ i \in 1..(m - 1)
      BY <2>3, <3>1
    <3> QED
      BY <2>6, <3>2, <3>3, <3>4
  <2> QED
    <3> HIDE DEF h
    <3> QED  BY <2>3, <2>8, <2>9, <2>10
<1> QED
  BY <1>1, <1>2

-----------------------------------------------------------------------------
(* string::find: the first place of a character, 0 if there is none.       *)
LEMMA FindIs ==
  ASSUME NEW S, NEW s \in Seq(S), NEW ch
  PROVE  /\ Find(s, ch) \in 0..Len(s)
         /\ Find(s, ch) = 0 => \A i \in 1..Len(s) : s[i] # ch
         /\ Find(s, ch) # 0 => /\ s[Find(s, ch)] = ch
                               /\ \A i \in 1..(Find(s, ch) - 1) : s[i] # ch
<1> DEFINE I == {i \in 1..Len(s) : s[i] = ch}
<1>1. Find(s, ch) = IF I # {} THEN Min(I) ELSE 0
  BY DEF Find, SelectInSeq
<1>2. CASE I = {}
  BY <1>1, <1>2
<1>3. CASE I # {}
  <2>1. I \in SUBSET Nat
    OBVIOUS
  <2>2. \E n \in I : \A m \in I : n <= m
    <3> HIDE DEF I
    <3> QED  BY <1>3, <2>1, LeastNumber
  <2>3. Min(I) \in I /\ \A m \in I : Min(I) <= m
    <3> HIDE DEF I
    <3> QED  BY <2>2 DEF Min
  <2>4. Find(s, ch) \in I /\ \A m \in I : Find(s, ch) <= m
    BY <1>1, <1>3, <2>3
  <2>5. /\ Find(s, ch) \in 1..Len(s) /\ s[Find(s, ch)] = ch
        /\ \A m \in 1..Len(s) : s[m] = ch => Find(s, ch) <= m
    BY <2>4
  <2> QED
    BY <2>5
<1> QED
  BY <1>2, <1>3

-----------------------------------------------------------------------------
(* A scan from i passes the places of B, upwards or downwards.  There is   *)
(* one, and it ends at the first place that is not in B.                   *)
Upwards(n, B, at) ==
  at = [i \in 1..(n + 1) |-> IF i \in B THEN at[i + 1] ELSE i]

Downwards(n, B, at) ==
  at = [i \in 0..n |-> IF i \in B THEN at[i - 1] ELSE i]

(* The loop of trim_string from the back ends, and so does the one from    *)
(* the front, which is the same loop over the text turned round.           *)
LEMMA DownwardsExists ==
  ASSUME NEW n \in Nat, NEW B \in SUBSET (1..n)
  PROVE  \E at : Downwards(n, B, at)
<1>1. PICK step : step = [i \in 1..n |-> [d \in 0..n |-> IF i \in B THEN d ELSE i]]
  OBVIOUS
<1>2. PICK g : /\ g \in [0..n -> 0..n] /\ g[0] = 0
               /\ \A i \in 1..n : g[i] = step[i][g[i - 1]]
  <2>1. 0 \in 0..n /\ step \in Steps(n, 0..n)
    BY <1>1 DEF Steps
  <2>2. PICK g : Solution(n, 0..n, 0, step, g)
    BY <2>1, Recursion
  <2> QED
    BY <2>2 DEF Solution
<1>3. \A i \in 0..n : g[i] = IF i \in B THEN g[i - 1] ELSE i
  <2> SUFFICES ASSUME NEW i \in 0..n PROVE g[i] = IF i \in B THEN g[i - 1] ELSE i
    OBVIOUS
  <2>1. CASE i = 0
    BY <1>2, <2>1
  <2>2. CASE i # 0
    <3>1. i \in 1..n /\ g[i - 1] \in 0..n
      BY <1>2, <2>2
    <3>2. step[i][g[i - 1]] = IF i \in B THEN g[i - 1] ELSE i
      BY <1>1, <3>1
    <3> QED
      BY <1>2, <3>1, <3>2
  <2> QED  BY <2>1, <2>2
<1> QED
  BY <1>2, <1>3 DEF Downwards

LEMMA UpwardsExists ==
  ASSUME NEW n \in Nat, NEW B \in SUBSET (1..n)
  PROVE  \E at : Upwards(n, B, at)
<1> DEFINE C == {i \in 1..n : n + 1 - i \in B}
<1>1. PICK g : Downwards(n, C, g)
  BY DownwardsExists
<1> DEFINE at == [i \in 1..(n + 1) |-> n + 1 - g[n + 1 - i]]
<1>2. \A j \in 0..n : g[j] = IF j \in C THEN g[j - 1] ELSE j
  BY <1>1 DEF Downwards
<1>3. \A i \in 1..(n + 1) : at[i] = IF i \in B THEN at[i + 1] ELSE i
  <2> SUFFICES ASSUME NEW i \in 1..(n + 1)
               PROVE  at[i] = IF i \in B THEN at[i + 1] ELSE i
    OBVIOUS
  <2>1. n + 1 - i \in 0..n /\ (n + 1 - i \in C <=> i \in B)
    OBVIOUS
  <2>2. CASE i \in B
    <3>1. i + 1 \in 1..(n + 1) /\ n + 1 - (i + 1) = (n + 1 - i) - 1
      BY <2>2
    <3>2. at[i + 1] = n + 1 - g[(n + 1 - i) - 1]
      BY <3>1
    <3> QED
      BY <1>2, <2>1, <2>2, <3>2
  <2>3. CASE i \notin B
    BY <1>2, <2>1, <2>3
  <2> QED  BY <2>2, <2>3
<1>4. at = [i \in 1..(n + 1) |-> IF i \in B THEN at[i + 1] ELSE i]
  BY <1>3
<1> QED
  BY <1>4 DEF Upwards

(* Where the loop from the front ends: at the first place it keeps.        *)
LEMMA UpwardsIs ==
  ASSUME NEW n \in Nat, NEW B \in SUBSET (1..n), NEW at, Upwards(n, B, at)
  PROVE  /\ at[1] \in 1..(n + 1)
         /\ at[1] \notin B
         /\ \A j \in 1..(at[1] - 1) : j \in B
<1> DEFINE Good(i) == /\ at[i] \in i..(n + 1) /\ at[i] \notin B
                      /\ \A j \in i..(at[i] - 1) : j \in B
           Bad == {i \in 1..(n + 1) : ~ Good(i)}
<1>1. \A i \in 1..(n + 1) : at[i] = IF i \in B THEN at[i + 1] ELSE i
  BY DEF Upwards
<1>2. CASE Bad # {}
  <2>1. Bad \in SUBSET (0..(n + 1)) /\ n + 1 \in Nat
    OBVIOUS
  <2>2. PICK i \in Bad : \A m \in Bad : m <= i
    <3> HIDE DEF Bad
    <3> QED  BY <1>2, <2>1, GreatestNumber
  <2>3. i \in 1..(n + 1) /\ ~ Good(i)
    OBVIOUS
  <2>4. i \in B
    <3> SUFFICES ASSUME i \notin B PROVE FALSE
      OBVIOUS
    <3>1. at[i] = i
      BY <1>1, <2>3
    <3> QED
      BY <2>3, <3>1
  <2>5. i + 1 \in 1..(n + 1) /\ i + 1 \notin Bad
    <3> HIDE DEF Bad
    <3>1. i + 1 \in 1..(n + 1) /\ ~ (i + 1 <= i)
      BY <2>3, <2>4
    <3> QED  BY <2>2, <3>1
  <2>6. Good(i + 1)
    BY <2>5
  <2>7. at[i] = at[i + 1]
    BY <1>1, <2>3, <2>4
  <2>8. Good(i)
    BY <2>3, <2>4, <2>6, <2>7
  <2> QED
    BY <2>3, <2>8
<1>3. CASE Bad = {}
  <2>1. Good(1)
    BY <1>3
  <2> QED
    BY <2>1
<1> QED
  BY <1>2, <1>3

(* And the one from the back: at the last.                                 *)
LEMMA DownwardsIs ==
  ASSUME NEW n \in Nat, NEW B \in SUBSET (1..n), NEW at, Downwards(n, B, at)
  PROVE  /\ at[n] \in 0..n
         /\ at[n] \notin B
         /\ \A j \in (at[n] + 1)..n : j \in B
<1> DEFINE Good(i) == /\ at[i] \in 0..i /\ at[i] \notin B
                      /\ \A j \in (at[i] + 1)..i : j \in B
           Bad == {i \in 0..n : ~ Good(i)}
<1>1. \A i \in 0..n : at[i] = IF i \in B THEN at[i - 1] ELSE i
  BY DEF Downwards
<1>2. CASE Bad # {}
  <2>1. Bad \in SUBSET Nat
    OBVIOUS
  <2>2. PICK i \in Bad : \A m \in Bad : i <= m
    <3> HIDE DEF Bad
    <3> QED  BY <1>2, <2>1, LeastNumber
  <2>3. i \in 0..n /\ ~ Good(i)
    OBVIOUS
  <2>4. i \in B
    <3> SUFFICES ASSUME i \notin B PROVE FALSE
      OBVIOUS
    <3>1. at[i] = i
      BY <1>1, <2>3
    <3> QED
      BY <2>3, <3>1
  <2>5. i - 1 \in 0..n /\ i - 1 \notin Bad
    <3> HIDE DEF Bad
    <3>1. i - 1 \in 0..n /\ ~ (i <= i - 1)
      BY <2>3, <2>4
    <3> QED  BY <2>2, <3>1
  <2>6. Good(i - 1)
    BY <2>5
  <2>7. at[i] = at[i - 1]
    BY <1>1, <2>3, <2>4
  <2>8. Good(i)
    BY <2>3, <2>4, <2>6, <2>7
  <2> QED
    BY <2>3, <2>8
<1>3. CASE Bad = {}
  <2>1. Good(n)
    BY <1>3
  <2> QED
    BY <2>1
<1> QED
  BY <1>2, <1>3

(* The first loop of trim_string stops at the first character that is not  *)
(* blank, and the second, which does not look at the first character, at   *)
(* the last one.                                                           *)
LEMMA FirstKeptIs ==
  ASSUME NEW S, NEW s \in Seq(S)
  PROVE  /\ FirstKept(s) \in 1..(Len(s) + 1)
         /\ \A i \in 1..(FirstKept(s) - 1) : s[i] = Space
         /\ FirstKept(s) <= Len(s) => s[FirstKept(s)] # Space
<1> DEFINE n == Len(s)
           B == {i \in 1..n : s[i] = Space}
           at == CHOOSE a : a = [i \in 1..(n + 1) |->
                                   IF i <= n /\ s[i] = Space THEN a[i + 1] ELSE i]
<1>1. FirstKept(s) = at[1]
  BY DEF FirstKept
<1> HIDE DEF at
<1>0. n \in Nat
  OBVIOUS
<1> HIDE DEF n
<1>2. n \in Nat /\ B \in SUBSET (1..n)
  BY <1>0
<1>3. \A a : Upwards(n, B, a) <=>
              a = [i \in 1..(n + 1) |-> IF i <= n /\ s[i] = Space THEN a[i + 1] ELSE i]
  <2> TAKE a
  <2>1. \A i \in 1..(n + 1) : i \in B <=> i <= n /\ s[i] = Space
    BY <1>0
  <2> HIDE DEF B
  <2> QED
    BY <2>1 DEF Upwards
<1>4. Upwards(n, B, at)
  <2> HIDE DEF B
  <2>1. \E a : Upwards(n, B, a)
    BY <1>2, UpwardsExists
  <2> QED  BY <1>3, <2>1 DEF at
<1>5. /\ at[1] \in 1..(n + 1) /\ at[1] \notin B
      /\ \A j \in 1..(at[1] - 1) : j \in B
  <2> HIDE DEF B
  <2> QED  BY <1>2, <1>4, UpwardsIs
<1> QED
  BY <1>0, <1>1, <1>5 DEF n

(* Where the blanks at the end begin. The loop does not look at the first  *)
(* character, which is no blank by then.                                   *)
LEMMA LastKeptIs ==
  ASSUME NEW S, NEW s \in Seq(S)
  PROVE  /\ LastKept(s) \in 0..Len(s)
         /\ s # <<>> => LastKept(s) # 0
         /\ \A i \in (LastKept(s) + 1)..Len(s) : s[i] = Space
         /\ LastKept(s) > 1 => s[LastKept(s)] # Space
<1> DEFINE n == Len(s)
           B == {i \in 2..n : s[i] = Space}
           at == CHOOSE a : a = [i \in 0..n |->
                                   IF i > 1 /\ s[i] = Space THEN a[i - 1] ELSE i]
<1>1. LastKept(s) = at[n]
  BY DEF LastKept
<1> HIDE DEF at
<1>0. n \in Nat
  OBVIOUS
<1> HIDE DEF n
<1>2. n \in Nat /\ B \in SUBSET (1..n)
  BY <1>0
<1>3. \A a : Downwards(n, B, a) <=>
              a = [i \in 0..n |-> IF i > 1 /\ s[i] = Space THEN a[i - 1] ELSE i]
  <2> TAKE a
  <2>1. \A i \in 0..n : i \in B <=> i > 1 /\ s[i] = Space
    BY <1>0
  <2> HIDE DEF B
  <2> QED
    BY <2>1 DEF Downwards
<1>4. Downwards(n, B, at)
  <2> HIDE DEF B
  <2>1. \E a : Downwards(n, B, a)
    BY <1>2, DownwardsExists
  <2> QED  BY <1>3, <2>1 DEF at
<1>5. /\ at[n] \in 0..n /\ at[n] \notin B
      /\ \A j \in (at[n] + 1)..n : j \in B
  <2> HIDE DEF B
  <2> QED  BY <1>2, <1>4, DownwardsIs
<1>6. at[n] = 0 => n = 0
  <2> SUFFICES ASSUME at[n] = 0, n # 0 PROVE FALSE
    OBVIOUS
  <2>1. 1 \in B
    BY <1>2, <1>5
  <2> QED
    BY <2>1
<1>7. s # <<>> => n # 0
  BY DEF n
<1> QED
  BY <1>0, <1>1, <1>5, <1>6, <1>7 DEF n

-----------------------------------------------------------------------------
(* A piece of a sequence, and the pieces at its ends.                      *)
LEMMA Piece ==
  ASSUME NEW S, NEW s \in Seq(S),
         NEW m \in 1..(Len(s) + 1), NEW n \in (m - 1)..Len(s)
  PROVE  /\ SubSeq(s, m, n) \in Seq(S)
         /\ Len(SubSeq(s, m, n)) = n - m + 1
         /\ \A i \in 1..(n - m + 1) : SubSeq(s, m, n)[i] = s[m + i - 1]
<1>1. \A i \in m..n : s[i] \in S
  OBVIOUS
<1>2. m \in Int /\ n \in Int
  OBVIOUS
<1>3. /\ SubSeq(s, m, n) \in Seq(S)
      /\ Len(SubSeq(s, m, n)) = IF m <= n THEN n - m + 1 ELSE 0
      /\ \A i \in 1..(n - m + 1) : SubSeq(s, m, n)[i] = s[m + i - 1]
  BY <1>1, <1>2, SubSeqProperties
<1> QED
  BY <1>3

(* Joining sequences is associative.                                       *)
LEMMA Associative ==
  ASSUME NEW S
  PROVE  \A s, t, u \in Seq(S) : (s \o t) \o u = s \o (t \o u)
BY ConcatAssociative

(* What is cut out of the front of a text does not depend on its rest.     *)
LEMMA PiecesOfConcat ==
  ASSUME NEW S, NEW s \in Seq(S), NEW t \in Seq(S), NEW n \in 1..Len(s)
  PROVE  /\ SubSeq(s \o t, 1, n - 1) = SubSeq(s, 1, n - 1)
         /\ SubSeq(s \o t, n + 1, Len(s \o t)) = SubSeq(s, n + 1, Len(s)) \o t
<1> DEFINE st == s \o t
           l == Len(s) + Len(t)
           rest == SubSeq(s, n + 1, Len(s))
<1>1. /\ st \in Seq(S) /\ Len(st) = l
      /\ \A i \in 1..l : st[i] = IF i <= Len(s) THEN s[i] ELSE t[i - Len(s)]
  BY ConcatProperties
<1> HIDE DEF st
<1>2. SubSeq(st, 1, n - 1) = SubSeq(s, 1, n - 1)
  <2>1. /\ SubSeq(st, 1, n - 1) \in Seq(S) /\ Len(SubSeq(st, 1, n - 1)) = n - 1 - 1 + 1
        /\ \A i \in 1..(n - 1 - 1 + 1) : SubSeq(st, 1, n - 1)[i] = st[1 + i - 1]
    <3>1. 1 \in 1..(Len(st) + 1) /\ n - 1 \in (1 - 1)..Len(st)
      BY <1>1
    <3> QED
      BY <1>1, <3>1, Piece
  <2>2. /\ SubSeq(s, 1, n - 1) \in Seq(S) /\ Len(SubSeq(s, 1, n - 1)) = n - 1 - 1 + 1
        /\ \A i \in 1..(n - 1 - 1 + 1) : SubSeq(s, 1, n - 1)[i] = s[1 + i - 1]
    <3>1. 1 \in 1..(Len(s) + 1) /\ n - 1 \in (1 - 1)..Len(s)
      OBVIOUS
    <3> QED
      BY <3>1, Piece
  <2>3. \A i \in 1..(n - 1 - 1 + 1) : st[1 + i - 1] = s[1 + i - 1]
    BY <1>1
  <2> QED
    BY <2>1, <2>2, <2>3, SeqEqual
<1>3. SubSeq(st, n + 1, l) = rest \o t
  <2>1. /\ SubSeq(st, n + 1, l) \in Seq(S) /\ Len(SubSeq(st, n + 1, l)) = l - (n + 1) + 1
        /\ \A i \in 1..(l - (n + 1) + 1) : SubSeq(st, n + 1, l)[i] = st[n + 1 + i - 1]
    <3>1. n + 1 \in 1..(Len(st) + 1) /\ l \in (n + 1 - 1)..Len(st)
      BY <1>1
    <3> QED
      BY <1>1, <3>1, Piece
  <2>2. /\ rest \in Seq(S) /\ Len(rest) = Len(s) - n
        /\ \A i \in 1..(Len(s) - n) : rest[i] = s[n + i]
    <3>1. n + 1 \in 1..(Len(s) + 1) /\ Len(s) \in (n + 1 - 1)..Len(s)
      OBVIOUS
    <3>2. /\ rest \in Seq(S) /\ Len(rest) = Len(s) - (n + 1) + 1
          /\ \A i \in 1..(Len(s) - (n + 1) + 1) : rest[i] = s[n + 1 + i - 1]
      BY <3>1, Piece
    <3>3. /\ Len(s) - (n + 1) + 1 = Len(s) - n
          /\ \A i \in 1..(Len(s) - n) : n + 1 + i - 1 = n + i
      OBVIOUS
    <3> HIDE DEF rest
    <3> QED
      BY <3>2, <3>3
  <2> HIDE DEF rest
  <2>3. /\ rest \o t \in Seq(S) /\ Len(rest \o t) = (Len(s) - n) + Len(t)
        /\ \A i \in 1..((Len(s) - n) + Len(t)) :
             (rest \o t)[i] = IF i <= Len(s) - n THEN rest[i] ELSE t[i - (Len(s) - n)]
    <3>1. /\ rest \o t \in Seq(S) /\ Len(rest \o t) = Len(rest) + Len(t)
          /\ \A i \in 1..(Len(rest) + Len(t)) :
               (rest \o t)[i] = IF i <= Len(rest) THEN rest[i] ELSE t[i - Len(rest)]
      BY <2>2, ConcatProperties
    <3> QED
      BY <2>2, <3>1
  <2>4. l - (n + 1) + 1 = (Len(s) - n) + Len(t)
    OBVIOUS
  <2>5. \A i \in 1..((Len(s) - n) + Len(t)) : SubSeq(st, n + 1, l)[i] = (rest \o t)[i]
    <3> SUFFICES ASSUME NEW i \in 1..((Len(s) - n) + Len(t))
                 PROVE  SubSeq(st, n + 1, l)[i] = (rest \o t)[i]
      OBVIOUS
    <3>1. n + 1 + i - 1 = n + i /\ n + i \in 1..l
      OBVIOUS
    <3>2. SubSeq(st, n + 1, l)[i] = IF n + i <= Len(s) THEN s[n + i] ELSE t[n + i - Len(s)]
      BY <1>1, <2>1, <2>4, <3>1
    <3>3. CASE n + i <= Len(s)
      <4>1. i \in 1..(Len(s) - n)
        BY <3>3
      <4> QED
        BY <2>2, <2>3, <3>2, <3>3, <4>1
    <3>4. CASE ~ (n + i <= Len(s))
      <4>1. ~ (i <= Len(s) - n) /\ i - (Len(s) - n) = n + i - Len(s)
        BY <3>4
      <4> QED
        BY <2>3, <3>2, <3>4, <4>1
    <3> QED  BY <3>3, <3>4
  <2> QED
    BY <2>1, <2>3, <2>4, <2>5, SeqEqual
<1> QED
  BY <1>1, <1>2, <1>3 DEF st

(* trim_string leaves a piece of the text that neither begins nor ends     *)
(* with a blank, and takes away blanks only.                               *)
LEMMA TrimIs ==
  ASSUME NEW S, NEW s \in Seq(S)
  PROVE  /\ trim(s) \in Seq(S)
         /\ IsTrimmed(trim(s))
         /\ \E a, b \in 0..Len(s) :
              /\ a <= b /\ trim(s) = SubSeq(s, a + 1, b)
              /\ \A i \in (1..a) \cup ((b + 1)..Len(s)) : s[i] = Space
<1> DEFINE f == FirstKept(s)
           rest == From(s, f)
           l == LastKept(rest)
<1>1. /\ f \in 1..(Len(s) + 1)
      /\ \A i \in 1..(f - 1) : s[i] = Space
      /\ f <= Len(s) => s[f] # Space
  BY FirstKeptIs
<1>2. trim(s) = SubSeq(rest, 1, l)
  BY DEF trim
<1> HIDE DEF f
<1>3. /\ rest \in Seq(S) /\ Len(rest) = Len(s) - f + 1
      /\ \A i \in 1..(Len(s) - f + 1) : rest[i] = s[f + i - 1]
  <2>1. Len(s) \in (f - 1)..Len(s)
    BY <1>1
  <2> QED
    BY <1>1, <2>1, Piece DEF From
<1> HIDE DEF rest
<1>4. /\ l \in 0..Len(rest)
      /\ rest # <<>> => l # 0
      /\ \A i \in (l + 1)..Len(rest) : rest[i] = Space
      /\ l > 1 => rest[l] # Space
  BY <1>3, LastKeptIs
<1> HIDE DEF l
<1>5. /\ trim(s) \in Seq(S) /\ Len(trim(s)) = l
      /\ \A i \in 1..l : trim(s)[i] = rest[i]
  <2>1. 1 \in 1..(Len(rest) + 1) /\ l \in (1 - 1)..Len(rest)
    BY <1>3, <1>4
  <2>2. /\ SubSeq(rest, 1, l) \in Seq(S) /\ Len(SubSeq(rest, 1, l)) = l - 1 + 1
        /\ \A i \in 1..(l - 1 + 1) : SubSeq(rest, 1, l)[i] = rest[1 + i - 1]
    BY <1>3, <2>1, Piece
  <2>3. l - 1 + 1 = l /\ \A i \in 1..l : 1 + i - 1 = i
    BY <1>3, <1>4
  <2> QED
    BY <1>2, <2>2, <2>3
<1>6. IsTrimmed(trim(s))
  <2> SUFFICES ASSUME trim(s) # <<>>
               PROVE  trim(s)[1] # Space /\ trim(s)[Len(trim(s))] # Space
    BY DEF IsTrimmed
  <2>1. l \in 1..Len(rest)
    BY <1>3, <1>4, <1>5
  <2>2. f <= Len(s) /\ rest[1] = s[f]
    BY <1>1, <1>3, <2>1
  <2>3. trim(s)[1] # Space
    BY <1>1, <1>5, <2>1, <2>2
  <2>4. trim(s)[l] # Space
    <3>1. CASE l = 1
      BY <2>3, <3>1
    <3>2. CASE l # 1
      BY <1>4, <1>5, <2>1, <3>2
    <3> QED  BY <3>1, <3>2
  <2> QED
    BY <1>5, <2>3, <2>4
<1>7. /\ f - 1 \in 0..Len(s) /\ f + l - 1 \in 0..Len(s) /\ f - 1 <= f + l - 1
  BY <1>1, <1>3, <1>4
<1>8. trim(s) = SubSeq(s, (f - 1) + 1, f + l - 1)
  <2>1. f \in 1..(Len(s) + 1) /\ f + l - 1 \in (f - 1)..Len(s)
    BY <1>1, <1>7, <1>4, <1>3
  <2>2. /\ SubSeq(s, f, f + l - 1) \in Seq(S)
        /\ Len(SubSeq(s, f, f + l - 1)) = (f + l - 1) - f + 1
        /\ \A i \in 1..((f + l - 1) - f + 1) :
             SubSeq(s, f, f + l - 1)[i] = s[f + i - 1]
    BY <2>1, Piece
  <2>3. (f + l - 1) - f + 1 = l /\ (f - 1) + 1 = f
    BY <1>1, <1>3, <1>4
  <2>4. \A i \in 1..l : trim(s)[i] = SubSeq(s, f, f + l - 1)[i]
    <3> SUFFICES ASSUME NEW i \in 1..l
                 PROVE  trim(s)[i] = SubSeq(s, f, f + l - 1)[i]
      OBVIOUS
    <3>1. i \in 1..(Len(s) - f + 1)
      BY <1>1, <1>3, <1>4
    <3>2. trim(s)[i] = s[f + i - 1]
      BY <1>3, <1>5, <3>1
    <3> QED
      BY <2>2, <2>3, <3>2
  <2>5. trim(s) = SubSeq(s, f, f + l - 1)
    BY <1>5, <2>2, <2>3, <2>4, SeqEqual
  <2> QED
    BY <2>3, <2>5
<1>9. \A i \in (1..(f - 1)) \cup ((f + l - 1 + 1)..Len(s)) : s[i] = Space
  <2> SUFFICES ASSUME NEW i \in (f + l - 1 + 1)..Len(s) PROVE s[i] = Space
    BY <1>1
  <2>1. i - f + 1 \in (l + 1)..Len(rest) /\ i - f + 1 \in 1..(Len(s) - f + 1)
        /\ f + (i - f + 1) - 1 = i
    BY <1>1, <1>3, <1>4
  <2> QED
    BY <1>3, <1>4, <2>1
<1> QED
  BY <1>5, <1>6, <1>7, <1>8, <1>9

(* The same of any text without the blanks around it, place by place.      *)
LEMMA TrimmedOfIs ==
  ASSUME NEW S, NEW s \in Seq(S), NEW t
  PROVE  TrimmedOf(s, t) <=>
           /\ IsTrimmed(t)
           /\ \E a, b \in 0..Len(s) :
                /\ a <= b /\ t = SubSeq(s, a + 1, b)
                /\ \A i \in (1..a) \cup ((b + 1)..Len(s)) : s[i] = Space
<1>1. ASSUME NEW a \in 0..Len(s)
      PROVE  AllBlank(SubSeq(s, 1, a)) <=> \A i \in 1..a : s[i] = Space
  <2>1. /\ Len(SubSeq(s, 1, a)) = a - 1 + 1
        /\ \A i \in 1..(a - 1 + 1) : SubSeq(s, 1, a)[i] = s[1 + i - 1]
    <3>1. 1 \in 1..(Len(s) + 1) /\ a \in (1 - 1)..Len(s)
      OBVIOUS
    <3> QED
      BY <3>1, Piece
  <2>2. a - 1 + 1 = a /\ \A i \in 1..a : 1 + i - 1 = i
    OBVIOUS
  <2> QED
    BY <2>1, <2>2 DEF AllBlank
<1>2. ASSUME NEW b \in 0..Len(s)
      PROVE  AllBlank(From(s, b + 1)) <=> \A i \in (b + 1)..Len(s) : s[i] = Space
  <2> DEFINE r == From(s, b + 1)
  <2>1. Len(r) = Len(s) - b /\ \A i \in 1..(Len(s) - b) : r[i] = s[b + i]
    <3>1. b + 1 \in 1..(Len(s) + 1) /\ Len(s) \in (b + 1 - 1)..Len(s)
      OBVIOUS
    <3>2. /\ Len(r) = Len(s) - (b + 1) + 1
          /\ \A i \in 1..(Len(s) - (b + 1) + 1) : r[i] = s[b + 1 + i - 1]
      BY <3>1, Piece DEF From
    <3>3. /\ Len(s) - (b + 1) + 1 = Len(s) - b
          /\ \A i \in 1..(Len(s) - b) : b + 1 + i - 1 = b + i
      OBVIOUS
    <3> QED
      BY <3>2, <3>3
  <2> HIDE DEF r
  <2>2. AllBlank(r) <=> \A i \in 1..(Len(s) - b) : s[b + i] = Space
    BY <2>1 DEF AllBlank
  <2>3. ASSUME \A i \in 1..(Len(s) - b) : s[b + i] = Space
        PROVE  \A i \in (b + 1)..Len(s) : s[i] = Space
    <3> SUFFICES ASSUME NEW i \in (b + 1)..Len(s) PROVE s[i] = Space
      OBVIOUS
    <3>1. i - b \in 1..(Len(s) - b) /\ b + (i - b) = i
      OBVIOUS
    <3> QED
      BY <2>3, <3>1
  <2>4. ASSUME \A i \in (b + 1)..Len(s) : s[i] = Space
        PROVE  \A i \in 1..(Len(s) - b) : s[b + i] = Space
    BY <2>4
  <2> QED
    BY <2>2, <2>3, <2>4 DEF r
<1> QED
  BY <1>1, <1>2 DEF TrimmedOf

(* trim_string returns the text without the blanks around it, and there is *)
(* one: whatever is meant by trimming is what it computes.                 *)
THEOREM TrimMeans ==
  ASSUME NEW S, NEW s \in Seq(S), NEW t
  PROVE  TrimmedOf(s, t) <=> t = trim(s)
<1>1. TrimmedOf(s, trim(s))
  BY TrimIs, TrimmedOfIs
<1>2. ASSUME NEW u, NEW v, TrimmedOf(s, u), TrimmedOf(s, v), u # <<>>
      PROVE  u = v
  <2>1. PICK a, b \in 0..Len(s) :
          /\ a <= b /\ u = SubSeq(s, a + 1, b)
          /\ \A i \in (1..a) \cup ((b + 1)..Len(s)) : s[i] = Space
    BY <1>2, TrimmedOfIs
  <2>2. PICK c, d \in 0..Len(s) :
          /\ c <= d /\ v = SubSeq(s, c + 1, d)
          /\ \A i \in (1..c) \cup ((d + 1)..Len(s)) : s[i] = Space
    BY <1>2, TrimmedOfIs
  <2>3. /\ u \in Seq(S) /\ Len(u) = b - a
        /\ \A i \in 1..(b - a) : u[i] = s[a + i]
    <3>1. a + 1 \in 1..(Len(s) + 1) /\ b \in (a + 1 - 1)..Len(s)
      BY <2>1
    <3>2. /\ SubSeq(s, a + 1, b) \in Seq(S)
          /\ Len(SubSeq(s, a + 1, b)) = b - (a + 1) + 1
          /\ \A i \in 1..(b - (a + 1) + 1) : SubSeq(s, a + 1, b)[i] = s[a + 1 + i - 1]
      BY <3>1, Piece
    <3>3. b - (a + 1) + 1 = b - a /\ \A i \in 1..(b - a) : a + 1 + i - 1 = a + i
      BY <2>1
    <3> QED
      BY <2>1, <3>2, <3>3
  <2>4. /\ v \in Seq(S) /\ Len(v) = d - c
        /\ \A i \in 1..(d - c) : v[i] = s[c + i]
    <3>1. c + 1 \in 1..(Len(s) + 1) /\ d \in (c + 1 - 1)..Len(s)
      BY <2>2
    <3>2. /\ SubSeq(s, c + 1, d) \in Seq(S)
          /\ Len(SubSeq(s, c + 1, d)) = d - (c + 1) + 1
          /\ \A i \in 1..(d - (c + 1) + 1) : SubSeq(s, c + 1, d)[i] = s[c + 1 + i - 1]
      BY <3>1, Piece
    <3>3. d - (c + 1) + 1 = d - c /\ \A i \in 1..(d - c) : c + 1 + i - 1 = c + i
      BY <2>2
    <3> QED
      BY <2>2, <3>2, <3>3
  <2>5. b - a > 0
    <3>1. Len(u) # 0
      BY <1>2, <2>3
    <3> QED
      BY <2>1, <2>3, <3>1
  <2>6. s[a + 1] # Space /\ s[b] # Space
    <3>1. u[1] # Space /\ u[Len(u)] # Space
      BY <1>2 DEF TrimmedOf, IsTrimmed
    <3>2. u[1] = s[a + 1] /\ u[b - a] = s[b]
      <4>1. 1 \in 1..(b - a) /\ b - a \in 1..(b - a) /\ a + (b - a) = b
        BY <2>1, <2>5
      <4> QED
        BY <2>3, <4>1
    <3> QED
      BY <2>3, <3>1, <3>2
  <2>7. c <= a /\ b <= d
    BY <2>1, <2>2, <2>5, <2>6
  <2>8. s[c + 1] # Space /\ s[d] # Space
    <3>0. d - c > 0
      BY <2>1, <2>2, <2>5, <2>7
    <3>1. v # <<>> /\ d - c > 0
      BY <2>4, <3>0
    <3>2. v[1] # Space /\ v[Len(v)] # Space
      BY <1>2, <3>1 DEF TrimmedOf, IsTrimmed
    <3>3. v[1] = s[c + 1] /\ v[d - c] = s[d]
      <4>1. 1 \in 1..(d - c) /\ d - c \in 1..(d - c) /\ c + (d - c) = d
        BY <2>2, <3>1
      <4> QED
        BY <2>4, <4>1
    <3> QED
      BY <2>4, <3>2, <3>3
  <2>9. a <= c /\ d <= b
    BY <2>1, <2>2, <2>5, <2>7, <2>8
  <2>10. a = c /\ b = d
    BY <2>1, <2>2, <2>7, <2>9
  <2> QED
    BY <2>1, <2>2, <2>10
<1>3. ASSUME TrimmedOf(s, t) PROVE t = trim(s)
  <2>1. CASE t # <<>>
    BY <1>1, <1>2, <1>3, <2>1
  <2>2. CASE trim(s) # <<>>
    BY <1>1, <1>2, <1>3, <2>2
  <2> QED
    BY <2>1, <2>2
<1> QED
  BY <1>1, <1>3
=============================================================================
