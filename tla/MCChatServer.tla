---------------------------- MODULE MCChatServer ----------------------------
(***************************************************************************)
(* Small instances of ChatServer.                                          *)
(***************************************************************************)
EXTENDS ChatServer, TLC

CONSTANTS f1, f2, f3, n1, n2, p1, p2, r1, r2

(* Descriptors, nicknames and passwords are interchangeable, and so are    *)
(* the rooms that are not the lobby.                                       *)
Symmetry == Permutations(Fd) \cup Permutations(Nick)
              \cup Permutations(Password) \cup Permutations(Room \ {Lobby})
=============================================================================
