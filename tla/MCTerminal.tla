----------------------------- MODULE MCTerminal -----------------------------
(***************************************************************************)
(* Terminal.tla for TLC: markers of three characters that begin alike, as   *)
(* the two of download.ts do.                                               *)
(***************************************************************************)
EXTENDS Terminal

MCFileBegin == <<"esc", "5", "i">>
MCFileEnd == <<"esc", "4", "i">>

AllStreams == {
    \* wide characters, a file with one and with half a marker in it, and more
    <<"lead", "continuation", "esc", "5", "i", "x", "esc", "lead", "continuation",
      "esc", "4", "i", "y">>,
    \* what begins like a marker, two files, and one that does not end
    <<"esc", "5", "x", "esc", "5", "i", "esc", "4", "i", "esc", "5", "i", "i",
      "esc", "4", "i", "esc", "5", "i">>,
    \* much text
    <<"x", "lead", "continuation", "x", "x", "y", "x", "lead", "continuation", "z">>}
MCStreams == AllStreams
=============================================================================
