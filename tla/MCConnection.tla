---------------------------- MODULE MCConnection ----------------------------
(***************************************************************************)
(* Two clients, and messages longer than a socket takes at once.           *)
(***************************************************************************)
EXTENDS Connection

CONSTANTS c1, c2
=============================================================================
