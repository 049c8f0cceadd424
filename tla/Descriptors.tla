---------------------------- MODULE Descriptors ----------------------------
(***************************************************************************)
(* A process's table of descriptors.  External: open(2), socket(2) and     *)
(* accept(2) take the lowest free number, close(2) of a free number does   *)
(* nothing, dup2(2) closes its target first.                               *)
(***************************************************************************)
EXTENDS Integers, FiniteSets

CONSTANT MaxFd  \* numbers of the table

ASSUME MaxFdAssumption == MaxFd \in Nat /\ MaxFd > 3

Number == 0..(MaxFd - 1)
Standard == 0..2
File == {"none", "terminal", "null", "log", "server", "epoll", "client"}

Full(f) == \A n \in Number : f[n] # "none"

Lowest(f) ==
  CHOOSE n \in Number : f[n] = "none" /\ \A m \in 0..(n - 1) : f[m] # "none"

Opened(f, file) == [f EXCEPT ![Lowest(f)] = file]

Closed(f, numbers) ==
  [n \in Number |-> IF n \in numbers THEN "none" ELSE f[n]]

Duplicated(f, from, numbers) ==
  [n \in Number |-> IF n \in numbers THEN f[from] ELSE f[n]]
=============================================================================
