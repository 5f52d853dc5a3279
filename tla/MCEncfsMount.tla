---------------------------- MODULE MCEncfsMount ----------------------------
(***************************************************************************)
(* EncfsMount for TLC: a mount with idle monitoring off (0, and a negative *)
(* --idle, which the code treats the same) and on (1 minute, 6 polls), and *)
(* at most one open file, which is enough for a poll to find the mount     *)
(* busy.                                                                   *)
(***************************************************************************)
EXTENDS EncfsMount

MCIdleTimeouts == {-1, 0, 1}
MCMaxOpenFiles == 1

=============================================================================
