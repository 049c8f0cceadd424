---------------------------- MODULE MCLifecycle ----------------------------
(***************************************************************************)
(* Small instances of Lifecycle: every file of one line of up to four      *)
(* words about PORT, and pairs of lines about PORT and DAEMON, with a port *)
(* of 16 bits and one of more.                                             *)
(***************************************************************************)
EXTENDS Lifecycle

Numerals == [w \in {"8080", "65616"} |-> IF w = "8080" THEN 8080 ELSE 65616]

Symbol == {"=", "#", " "}

(* One word at a time: two without a blank between would be another word.  *)
Line ==
  {l \in BoundedSeq({"PORT", "8080"} \cup Symbol, 4) :
     \A i \in 1..(Len(l) - 1) : l[i] \in Symbol \/ l[i + 1] \in Symbol}

Pair ==
  {<<"PORT", "=", "65616">>, <<"PORT", " ", "=", " ", "8080", "#">>,
   <<"PORT", "=", " ">>, <<"PORT", "=">>, <<"#", "PORT", "=", "65616">>,
   <<"DAEMON", "=", "true", " ", "#", "true">>, <<"DAEMON", "=", "true", "=">>,
   <<"DAEMON", "#", "=", "true">>, <<"DAEMON", "=", "false">>}

AnyFile == {<<l>> : l \in Line} \cup (Pair \X Pair)
AnyOpen == SUBSET Standard

DaemonFile == {<<<<"DAEMON", "=", "true">>>>}
AllOpen == {Standard}
=============================================================================
