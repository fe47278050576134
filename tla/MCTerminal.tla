----------------------------- MODULE MCTerminal -----------------------------
(***************************************************************************)
(* Terminal on a screen of 4 columns and 3 rows, which a text of four      *)
(* characters, one of two and a key fill.  Column -1 is column 12, three   *)
(* rows below, as it is column 255 on a screen of 80.                      *)
(***************************************************************************)
EXTENDS Terminal

MCLogged == {<<"s">>}
MCWritten == {<<"a", "newline">>, <<"tab">>, <<"b", "c", "d", "e">>}
MCEchoed == {"k", "backspace"}

ASSUME RunHypotheses == TextsFit
=============================================================================
