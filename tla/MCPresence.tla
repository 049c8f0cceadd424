----------------------------- MODULE MCPresence -----------------------------
(***************************************************************************)
(* A small instance of Presence.                                           *)
(***************************************************************************)
EXTENDS Presence, TLC

CONSTANTS f1, f2, f3, n1, p1, r1

Symmetry == Permutations(Fd)
=============================================================================
