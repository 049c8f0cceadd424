--------------------------- MODULE RoomDirectory ---------------------------
(***************************************************************************)
(* What the rooms of the chat server promise, without sockets, prompts,    *)
(* passwords or reference counts: every member is outside or in exactly    *)
(* one room, members move one at a time, whoever comes in from outside     *)
(* comes into the lobby, and the census that users can list names the      *)
(* lobby and the rooms somebody is in, with how many.                      *)
(***************************************************************************)
EXTENDS Naturals, FiniteSets

CONSTANTS Member, Room, Lobby, Outside

VARIABLES
  where,   \* the room of each member, or Outside
  census   \* the listed rooms, each with the number of its members

In(w, r) == {m \in Member : w[m] = r}

Listed(w) == {r \in Room : r = Lobby \/ In(w, r) # {}}

Census(w) == [r \in Listed(w) |-> Cardinality(In(w, r))]

Init ==
  /\ where = [m \in Member |-> Outside]
  /\ census = Census(where)

Move(m, r) ==
  /\ where' = [where EXCEPT ![m] = r]
  /\ census' = Census(where')

(* Every member starts in the lobby.                                       *)
Enter(m) == where[m] = Outside /\ Move(m, Lobby)

Change(m, r) == where[m] \notin {Outside, r} /\ Move(m, r)

Leave(m) == where[m] # Outside /\ Move(m, Outside)

Next == \E m \in Member : \/ Enter(m)
                          \/ \E r \in Room : Change(m, r)
                          \/ Leave(m)

Spec == Init /\ [][Next]_<<where, census>>
=============================================================================
