------------------------------ MODULE Channel ------------------------------
(***************************************************************************)
(* What the output of one client promises: bytes reach the peer whole, in  *)
(* the order they were queued and once, for as far as they reach it; and   *)
(* all of them do while the channel is open.                               *)
(***************************************************************************)
EXTENDS Naturals, Sequences, Functions

CONSTANT Byte

VARIABLES
  accepted,   \* bytes queued for the peer
  delivered,  \* bytes the peer has received
  open        \* whether the client is connected

Init == accepted = <<>> /\ delivered = <<>> /\ open = TRUE

(* What was accepted stays, and more is put behind it.                     *)
Accept ==
  /\ open
  /\ Len(accepted') >= Len(accepted)
  /\ SubSeq(accepted', 1, Len(accepted)) = accepted
  /\ UNCHANGED <<delivered, open>>

Deliver ==
  /\ \E n \in Len(delivered)..Len(accepted) : delivered' = SubSeq(accepted, 1, n)
  /\ UNCHANGED <<accepted, open>>

Close == open' = FALSE /\ UNCHANGED <<accepted, delivered>>

Next == Accept \/ Deliver \/ Close

Spec == Init /\ [][Next]_<<accepted, delivered, open>>

Served ==
  \A b \in Byte :
    b \in Range(accepted) ~> (b \in Range(delivered) \/ ~ open)
=============================================================================
