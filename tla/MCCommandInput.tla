--------------------------- MODULE MCCommandInput ---------------------------
(***************************************************************************)
(* Words, letters, blanks and line ends, read two at a time.               *)
(***************************************************************************)
EXTENDS CommandInput

Bytes == {"x", "/msg", "/join", " ", "\r", "\n"}
=============================================================================
