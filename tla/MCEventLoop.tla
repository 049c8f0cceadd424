---------------------------- MODULE MCEventLoop ----------------------------
(***************************************************************************)
(* Small instances of EventLoop.                                           *)
(***************************************************************************)
EXTENDS EventLoop, TLC

CONSTANTS c1, c2, c3

Symmetry == Permutations(Conn)
=============================================================================
