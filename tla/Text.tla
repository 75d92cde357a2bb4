-------------------------------- MODULE Text --------------------------------
(***************************************************************************)
(* Text as the code reads it: a sequence of characters, which are strings.  *)
(***************************************************************************)
EXTENDS Naturals, Sequences, SequencesExt

NUL == "NUL"

\* What strlen and strcmp see of a buffer.
CString(text) ==
    LET nul == SelectInSeq(text, LAMBDA c : c = NUL)
    IN  IF nul = 0 THEN text ELSE SubSeq(text, 1, nul - 1)

\* The parts of text between the separators, and where they start.
Starts(text, separator) ==
    {1} \cup {i + 1 : i \in {j \in DOMAIN text : text[j] = separator}}
PartAt(text, start, separator) ==
    LET end == SelectInSubSeq(text, start, Len(text), LAMBDA c : c = separator)
    IN  SubSeq(text, start, IF end = 0 THEN Len(text) ELSE end - 1)

\* The parts in order.
Parts(text, separator) ==
    LET starts == Starts(text, separator)
        Nth(n) == CHOOSE start \in starts : Cardinality(starts \cap (1 .. start)) = n
    IN  [n \in 1 .. Cardinality(starts) |-> PartAt(text, Nth(n), separator)]
=============================================================================
